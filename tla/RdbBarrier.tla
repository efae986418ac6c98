----------------------------- MODULE RdbBarrier ------------------------------
(***************************************************************************)
(* The RDMA doorbell barrier (RDB) of comch_server.c, which replaces       *)
(* MPI_Barrier before every collective.  The ranks form a ring; each owns  *)
(* one 64-bit slot that only its predecessor writes, by RDMA.  Barrier k   *)
(* sends two waves round the ring: a gather wave with value 2k-1 and a     *)
(* release wave with value 2k.  A rank waits by spinning on its own slot.  *)
(*                                                                         *)
(* A write is three steps here: the CPU stores the value in one of the two *)
(* send buffers and submits the task; the NIC reads the buffer and writes  *)
(* the neighbour's slot; the CPU sees the completion.  The completion also *)
(* comes when the write failed (the error callback decrements the same     *)
(* pending counter, and nothing looks at the status).                      *)
(***************************************************************************)
EXTENDS Integers

CONSTANTS N,            \* world_size: the ranks are 0 .. N-1
          MaxBarriers,  \* bound: barriers a rank enters
          MaxLost       \* bound: writes that end in the error callback

ASSUME NAssumption == N \in Nat /\ N >= 2
ASSUME BoundsAssumption == MaxBarriers \in Nat /\ MaxLost \in Nat

Rank == 0 .. N - 1

\* next_rank = (rank + 1) % world_size
NextRank(r) == IF r = N - 1 THEN 0 ELSE r + 1

VARIABLES seq,       \* seq[r]: rdb_my_seq, barriers r has entered
          pc,        \* pc[r]: where r is in rdb_barrier
          slot,      \* slot[r]: *rdb_local_slot
          buf,       \* buf[r]: the send buffers rdb_send_data_a and _b
          inflight,  \* inflight[r]: the buffer of r the NIC has still to read
          lost       \* writes that failed so far

vars == <<seq, pc, slot, buf, inflight, lost>>

PCs == {"idle", "gather_write", "gather_sent", "gather_wait",
        "release_write", "release_sent", "release_wait"}

-----------------------------------------------------------------------------
(* The value of each wave, and the test of the spin loop.  The variants    *)
(* named ...Bug are the mistakes the properties are there to exclude.      *)

ReleaseTargetBug(k) == 2 * k - 1          \* one pass: no value of its own
ReleaseTargetSwapped(k) == 2 * k - 2      \* smaller than the gather value
SlotReachedBug(r, target) == slot[r] > target

GatherTarget(k)  == 2 * k - 1
ReleaseTarget(k) == 2 * k
SlotReached(r, target) == slot[r] >= target

-----------------------------------------------------------------------------
Init == /\ seq      = [r \in Rank |-> 0]
        /\ pc       = [r \in Rank |-> "idle"]
        /\ slot     = [r \in Rank |-> 0]
        /\ buf      = [r \in Rank |-> [a |-> 0, b |-> 0]]
        /\ inflight = [r \in Rank |-> "none"]
        /\ lost     = 0

\* A rank calls rdb_barrier: my_seq = ++rdb_my_seq.  Rank 0 starts the gather
\* wave, the others wait for it.
Enter(r) ==
    /\ pc[r] = "idle"
    /\ seq[r] < MaxBarriers
    /\ seq' = [seq EXCEPT ![r] = @ + 1]
    /\ pc'  = [pc EXCEPT ![r] = IF r = 0 THEN "gather_write" ELSE "gather_wait"]
    /\ UNCHANGED <<slot, buf, inflight, lost>>

\* rdb_write_next(buf_a, gather_target): store, then submit.
WriteGather(r) ==
    /\ pc[r] = "gather_write"
    /\ buf' = [buf EXCEPT ![r].a = GatherTarget(seq[r])]
    /\ inflight' = [inflight EXCEPT ![r] = "a"]
    /\ pc' = [pc EXCEPT ![r] = "gather_sent"]
    /\ UNCHANGED <<seq, slot, lost>>

\* submit_and_wait_doca returns from the gather write.
GatherDone(r) ==
    /\ pc[r] = "gather_sent"
    /\ inflight[r] = "none"
    /\ pc' = [pc EXCEPT ![r] = IF r = 0 THEN "gather_wait" ELSE "release_wait"]
    /\ UNCHANGED <<seq, slot, buf, inflight, lost>>

\* rdb_wait_local_slot(gather_target) returns.  For rank 0 the wave has been
\* all the way round; another rank forwards it.
GatherSeen(r) ==
    /\ pc[r] = "gather_wait"
    /\ SlotReached(r, GatherTarget(seq[r]))
    /\ pc' = [pc EXCEPT ![r] = IF r = 0 THEN "release_write" ELSE "gather_write"]
    /\ UNCHANGED <<seq, slot, buf, inflight, lost>>

\* rdb_write_next(buf_b, release_target): store, then submit.
WriteRelease(r) ==
    /\ pc[r] = "release_write"
    /\ buf' = [buf EXCEPT ![r].b = ReleaseTarget(seq[r])]
    /\ inflight' = [inflight EXCEPT ![r] = "b"]
    /\ pc' = [pc EXCEPT ![r] = "release_sent"]
    /\ UNCHANGED <<seq, slot, lost>>

\* submit_and_wait_doca returns from the release write: the last step of every
\* rank but rank 0.
ReleaseDone(r) ==
    /\ pc[r] = "release_sent"
    /\ inflight[r] = "none"
    /\ pc' = [pc EXCEPT ![r] = IF r = 0 THEN "release_wait" ELSE "idle"]
    /\ UNCHANGED <<seq, slot, buf, inflight, lost>>

\* rdb_wait_local_slot(release_target) returns: the last step of rank 0.
ReleaseSeen(r) ==
    /\ pc[r] = "release_wait"
    /\ SlotReached(r, ReleaseTarget(seq[r]))
    /\ pc' = [pc EXCEPT ![r] = IF r = 0 THEN "idle" ELSE "release_write"]
    /\ UNCHANGED <<seq, slot, buf, inflight, lost>>

\* The NIC reads the send buffer and writes the neighbour's slot.
Deliver(r) ==
    /\ inflight[r] # "none"
    /\ slot' = [slot EXCEPT ![NextRank(r)] =
                  IF inflight[r] = "a" THEN buf[r].a ELSE buf[r].b]
    /\ inflight' = [inflight EXCEPT ![r] = "none"]
    /\ UNCHANGED <<seq, pc, buf, lost>>

\* The write fails: doca_rdma_write_error_cb ends the wait all the same.
WriteError(r) ==
    /\ inflight[r] # "none"
    /\ lost < MaxLost
    /\ lost' = lost + 1
    /\ inflight' = [inflight EXCEPT ![r] = "none"]
    /\ UNCHANGED <<seq, pc, slot, buf>>

\* The steps of the thread that runs the collective on rank r.
Thread(r) == \/ WriteGather(r)  \/ GatherDone(r)  \/ GatherSeen(r)
             \/ WriteRelease(r) \/ ReleaseDone(r) \/ ReleaseSeen(r)

Next == \E r \in Rank : \/ Enter(r) \/ Thread(r)
                        \/ Deliver(r) \/ WriteError(r)

Spec == Init /\ [][Next]_vars

\* A thread inside the barrier spins without blocking and the NIC serves its
\* queue; when a rank calls the barrier is up to its host.
Fairness == \A r \in Rank : WF_vars(Thread(r)) /\ WF_vars(Deliver(r))

FairSpec == Spec /\ Fairness

-----------------------------------------------------------------------------
TypeOK == /\ seq      \in [Rank -> Nat]
          /\ pc       \in [Rank -> PCs]
          /\ slot     \in [Rank -> Nat]
          /\ buf      \in [Rank -> [a : Nat, b : Nat]]
          /\ inflight \in [Rank -> {"none", "a", "b"}]
          /\ lost     \in Nat

\* A rank that has left its k-th barrier knows that every rank has entered its
\* k-th barrier: what lets a collective use the buffers of its neighbours.
BarrierSafe == \A r, q \in Rank : pc[r] = "idle" => seq[q] >= seq[r]

\* The slot never goes back, whatever is lost: a waiter spinning on >= in
\* rdb_wait_local_slot cannot miss a value it has not seen yet.
SlotMonotone == [][\A r \in Rank : slot'[r] >= slot[r]]_vars

\* If no write fails, a barrier that every rank has entered lets every rank out.
Exited(r) == IF pc[r] = "idle" THEN seq[r] ELSE seq[r] - 1

BarrierCompletes ==
    [](lost = 0) =>
        \A k \in 1 .. MaxBarriers :
            (\A q \in Rank : seq[q] >= k) ~> (\A q \in Rank : Exited(q) >= k)

\* rdb_barrier is a barrier: a call returns to a rank only once all have called.
Abstract == INSTANCE Barrier WITH Proc    <- Rank,
                                  entered <- seq,
                                  exited  <- [r \in Rank |-> Exited(r)]
BarrierRefinement == Abstract!Spec

-----------------------------------------------------------------------------
(* The inductive invariant.  It is local to a rank and its successor, but  *)
(* for Chain, which says that a value reaches the slots in ring order.     *)

\* The largest value r can have put in its successor's slot.
MaxSent(r) ==
    IF pc[r] \in {"idle", "release_sent"} \/ (r = 0 /\ pc[r] = "release_wait")
    THEN 2 * seq[r]
    ELSE IF pc[r] = "gather_write" \/ (r # 0 /\ pc[r] = "gather_wait")
         THEN 2 * (seq[r] - 1)
         ELSE 2 * seq[r] - 1

\* The value r has seen in its own slot.
Seen(r) ==
    IF pc[r] = "idle" \/ (r # 0 /\ pc[r] \in {"release_write", "release_sent"})
    THEN 2 * seq[r]
    ELSE IF pc[r] = "gather_wait" \/ (r = 0 /\ pc[r] \in {"gather_write", "gather_sent"})
         THEN 2 * (seq[r] - 1)
         ELSE 2 * seq[r] - 1

Started == \A r \in Rank : pc[r] # "idle" => seq[r] >= 1

\* What a write in flight will deliver.
Buffers == \A r \in Rank :
    /\ inflight[r] = "a" => pc[r] = "gather_sent"  /\ buf[r].a = 2 * seq[r] - 1
    /\ inflight[r] = "b" => pc[r] = "release_sent" /\ buf[r].b = 2 * seq[r]

Sends == \A r \in Rank : slot[NextRank(r)] <= MaxSent(r)
Sees  == \A r \in Rank : Seen(r) <= slot[r]

Chain == \A i \in 1 .. N - 1 :
            /\ slot[0] <= slot[i]
            /\ \A j \in i .. N - 1 : slot[j] <= slot[i]

IInv == TypeOK /\ Started /\ Buffers /\ Sends /\ Sees /\ Chain
=============================================================================
