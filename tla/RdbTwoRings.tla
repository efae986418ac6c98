---------------------------- MODULE RdbTwoRings ------------------------------
(***************************************************************************)
(* rdb_barrier as it runs with PHASE15_ENABLE_RING_QUEUES=1: every rank    *)
(* has two ring_proc threads, both take collectives from their own queue   *)
(* and both call the barrier.  With the RDMA doorbell barrier enabled the  *)
(* ring_id argument is not used, so the two threads of a rank share        *)
(* rdb_my_seq (a plain integer: ++ is a load and a store), the two send    *)
(* buffers and the slot.                                                   *)
(***************************************************************************)
EXTENDS Integers

CONSTANTS N,         \* world_size
          Rings,     \* the ring ids, N_RINGS of them
          MaxCalls   \* bound: barriers a thread enters

Rank == 0 .. N - 1
Thread == Rank \X Rings       \* <<rank, ring id>>

VARIABLES seq,       \* seq[r]: rdb_my_seq
          slot,      \* slot[r]: *rdb_local_slot
          buf,       \* buf[r]: the send buffers a and b
          pc,        \* pc[p]: where thread p is in rdb_barrier
          my,        \* my[p]: the local my_seq of p
          calls,     \* calls[p]: barriers p has entered
          inflight   \* inflight[p]: the buffer the NIC has still to read for p

vars == <<seq, slot, buf, pc, my, calls, inflight>>

Init == /\ seq  = [r \in Rank |-> 0]
        /\ slot = [r \in Rank |-> 0]
        /\ buf  = [r \in Rank |-> [a |-> 0, b |-> 0]]
        /\ pc   = [p \in Thread |-> "idle"]
        /\ my   = [p \in Thread |-> 0]
        /\ calls = [p \in Thread |-> 0]
        /\ inflight = [p \in Thread |-> "none"]

\* ++rdb_my_seq, first half: the thread calls the barrier and loads the counter.
Load(p) ==
    /\ pc[p] = "idle"
    /\ calls[p] < MaxCalls
    /\ calls' = [calls EXCEPT ![p] = @ + 1]
    /\ my' = [my EXCEPT ![p] = seq[p[1]] + 1]
    /\ pc' = [pc EXCEPT ![p] = "store"]
    /\ UNCHANGED <<seq, slot, buf, inflight>>

\* ++rdb_my_seq, second half.
Store(p) ==
    /\ pc[p] = "store"
    /\ seq' = [seq EXCEPT ![p[1]] = my[p]]
    /\ pc' = [pc EXCEPT ![p] = IF p[1] = 0 THEN "gather_write" ELSE "gather_wait"]
    /\ UNCHANGED <<slot, buf, my, calls, inflight>>

\* rdb_write_next: store the wave's value in its buffer and submit.
Write(p) ==
    /\ \/ /\ pc[p] = "gather_write"
          /\ buf' = [buf EXCEPT ![p[1]].a = 2 * my[p] - 1]
          /\ inflight' = [inflight EXCEPT ![p] = "a"]
          /\ pc' = [pc EXCEPT ![p] = "gather_sent"]
       \/ /\ pc[p] = "release_write"
          /\ buf' = [buf EXCEPT ![p[1]].b = 2 * my[p]]
          /\ inflight' = [inflight EXCEPT ![p] = "b"]
          /\ pc' = [pc EXCEPT ![p] = "release_sent"]
    /\ UNCHANGED <<seq, slot, my, calls>>

\* The NIC reads the buffer, whoever wrote it last, and writes the slot.
Deliver(p) ==
    /\ inflight[p] # "none"
    /\ slot' = [slot EXCEPT ![(p[1] + 1) % N] =
                  IF inflight[p] = "a" THEN buf[p[1]].a ELSE buf[p[1]].b]
    /\ inflight' = [inflight EXCEPT ![p] = "none"]
    /\ UNCHANGED <<seq, buf, pc, my, calls>>

\* submit_and_wait_doca returns.
Done(p) ==
    /\ inflight[p] = "none"
    /\ \/ /\ pc[p] = "gather_sent"
          /\ pc' = [pc EXCEPT ![p] = IF p[1] = 0 THEN "gather_wait" ELSE "release_wait"]
       \/ /\ pc[p] = "release_sent"
          /\ pc' = [pc EXCEPT ![p] = IF p[1] = 0 THEN "release_wait" ELSE "idle"]
    /\ UNCHANGED <<seq, slot, buf, my, calls, inflight>>

\* rdb_wait_local_slot returns.
Seen(p) ==
    /\ \/ /\ pc[p] = "gather_wait"
          /\ slot[p[1]] >= 2 * my[p] - 1
          /\ pc' = [pc EXCEPT ![p] = IF p[1] = 0 THEN "release_write" ELSE "gather_write"]
       \/ /\ pc[p] = "release_wait"
          /\ slot[p[1]] >= 2 * my[p]
          /\ pc' = [pc EXCEPT ![p] = IF p[1] = 0 THEN "idle" ELSE "release_write"]
    /\ UNCHANGED <<seq, slot, buf, my, calls, inflight>>

Next == \E p \in Thread :
            Load(p) \/ Store(p) \/ Write(p) \/ Deliver(p) \/ Done(p) \/ Seen(p)

Spec == Init /\ [][Next]_vars

\* "ring_id 専用の MPI_Comm を使って Ring 0/1 の barrier が混線しないようにする":
\* a ring's thread leaves its k-th barrier only when the same ring's thread of
\* every rank has entered its k-th.
RingBarrierSafe ==
    \A i \in Rings : \A r, q \in Rank :
        pc[<<r, i>>] = "idle" => calls[<<q, i>>] >= calls[<<r, i>>]
=============================================================================
