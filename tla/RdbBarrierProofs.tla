-------------------------- MODULE RdbBarrierProofs ---------------------------
(***************************************************************************)
(* Proofs, for every number of ranks and every bound, that the RDMA        *)
(* doorbell barrier is type correct, that a rank leaves a barrier only     *)
(* after every rank has entered it, that a slot never goes back, and that  *)
(* rdb_barrier implements the abstract barrier it replaces.                *)
(***************************************************************************)
EXTENDS RdbBarrier, TLAPS

\* The ring has no way out of the set of ranks.
LEMMA NextRankType == \A r \in Rank : NextRank(r) \in Rank /\ NextRank(r) # r
  BY NAssumption DEF Rank, NextRank

LEMMA ZeroRank == 0 \in Rank
  BY NAssumption DEF Rank

-----------------------------------------------------------------------------
\* The invariant holds before the first collective.
LEMMA InitIInv == Init => IInv
  <1> SUFFICES ASSUME Init PROVE IInv
    OBVIOUS
  <1>1. TypeOK
    BY DEF Init, TypeOK, PCs
  <1>2. Started /\ Buffers
    BY DEF Init, Started, Buffers
  <1>3. Sends /\ Sees
    BY NextRankType DEF Init, Sends, Sees, MaxSent, Seen
  <1>4. Chain
    BY NAssumption DEF Init, Chain, Rank
  <1> QED BY <1>1, <1>2, <1>3, <1>4 DEF IInv

\* A rank calls the barrier: what it has sent and seen now belongs to the barrier
\* before.
LEMMA EnterIInv ==
  ASSUME IInv, NEW r \in Rank, Enter(r) PROVE IInv'
  <1> USE NAssumption DEF IInv
  <1>1. TypeOK'
    BY DEF TypeOK, Enter, PCs
  <1>2. Started' /\ Buffers'
    BY DEF TypeOK, Enter, Started, Buffers
  <1>3. Sends'
    BY NextRankType DEF TypeOK, Enter, Started, Sends, MaxSent
  <1>4. Sees'
    BY DEF TypeOK, Enter, Started, Sees, Seen
  <1>5. Chain'
    BY DEF Enter, Chain
  <1> QED BY <1>1, <1>2, <1>3, <1>4, <1>5

\* The steps of the thread inside the barrier change neither slot nor seq: they
\* move one rank's bounds, and Chain is untouched.
LEMMA ThreadIInv ==
  ASSUME IInv, NEW r \in Rank, Thread(r) PROVE IInv'
  <1> USE NAssumption DEF IInv
  <1>0. seq' = seq /\ slot' = slot
    BY DEF Thread, WriteGather, GatherDone, GatherSeen,
           WriteRelease, ReleaseDone, ReleaseSeen
  <1>1. Chain'
    BY <1>0 DEF Chain
  <1>2. CASE WriteGather(r)
    <2>1. TypeOK'
      BY <1>2 DEF TypeOK, WriteGather, GatherTarget, Started, PCs
    <2>2. Started' /\ Buffers'
      BY <1>2 DEF TypeOK, WriteGather, GatherTarget, Started, Buffers
    <2>3. Sends' /\ Sees'
      BY <1>2, NextRankType
      DEF TypeOK, WriteGather, Sends, Sees, MaxSent, Seen
    <2> QED BY <1>1, <2>1, <2>2, <2>3
  <1>3. CASE GatherDone(r)
    <2>1. TypeOK'
      BY <1>3 DEF TypeOK, GatherDone, PCs
    <2>2. Started' /\ Buffers'
      BY <1>3 DEF TypeOK, GatherDone, Started, Buffers
    <2>3. Sends' /\ Sees'
      BY <1>3, NextRankType
      DEF TypeOK, GatherDone, Sends, Sees, MaxSent, Seen
    <2> QED BY <1>1, <2>1, <2>2, <2>3
  <1>4. CASE GatherSeen(r)
    <2>1. TypeOK'
      BY <1>4 DEF TypeOK, GatherSeen, PCs
    <2>2. Started' /\ Buffers'
      BY <1>4 DEF TypeOK, GatherSeen, Started, Buffers
    <2>3. Sends' /\ Sees'
      BY <1>4, NextRankType
      DEF TypeOK, GatherSeen, SlotReached, GatherTarget,
          Sends, Sees, MaxSent, Seen
    <2> QED BY <1>1, <2>1, <2>2, <2>3
  <1>5. CASE WriteRelease(r)
    <2>1. TypeOK'
      BY <1>5 DEF TypeOK, WriteRelease, ReleaseTarget, PCs
    <2>2. Started' /\ Buffers'
      BY <1>5 DEF TypeOK, WriteRelease, ReleaseTarget, Started, Buffers
    <2>3. Sends' /\ Sees'
      BY <1>5, NextRankType
      DEF TypeOK, WriteRelease, Sends, Sees, MaxSent, Seen
    <2> QED BY <1>1, <2>1, <2>2, <2>3
  <1>6. CASE ReleaseDone(r)
    <2>1. TypeOK'
      BY <1>6 DEF TypeOK, ReleaseDone, PCs
    <2>2. Started' /\ Buffers'
      BY <1>6 DEF TypeOK, ReleaseDone, Started, Buffers
    <2>3. Sends' /\ Sees'
      BY <1>6, NextRankType
      DEF TypeOK, ReleaseDone, Sends, Sees, MaxSent, Seen
    <2> QED BY <1>1, <2>1, <2>2, <2>3
  <1>7. CASE ReleaseSeen(r)
    <2>1. TypeOK'
      BY <1>7 DEF TypeOK, ReleaseSeen, PCs
    <2>2. Started' /\ Buffers'
      BY <1>7 DEF TypeOK, ReleaseSeen, Started, Buffers
    <2>3. Sends' /\ Sees'
      BY <1>7, NextRankType
      DEF TypeOK, ReleaseSeen, SlotReached, ReleaseTarget,
          Sends, Sees, MaxSent, Seen
    <2> QED BY <1>1, <2>1, <2>2, <2>3
  <1> QED BY <1>2, <1>3, <1>4, <1>5, <1>6, <1>7 DEF Thread

\* What the NIC writes lies between what the successor's slot holds and, for
\* every rank but 0, what the sender's own slot holds.
LEMMA DeliveredValue ==
  ASSUME IInv, NEW r \in Rank, Deliver(r)
  PROVE  \E v \in Nat :
           /\ slot' = [slot EXCEPT ![NextRank(r)] = v]
           /\ slot[NextRank(r)] <= v
           /\ v <= MaxSent(r)
           /\ r # 0 => v <= slot[r]
  <1> DEFINE v == IF inflight[r] = "a" THEN buf[r].a ELSE buf[r].b
  <1>1. v \in Nat /\ v = MaxSent(r)
    BY DEF IInv, TypeOK, Deliver, Buffers, Started, MaxSent
  <1>2. slot[NextRank(r)] <= v
    BY <1>1 DEF IInv, Sends
  <1>3. r # 0 => v <= slot[r]
    <2>1. r # 0 => MaxSent(r) <= Seen(r)
      BY DEF IInv, TypeOK, Deliver, Buffers, Started, MaxSent, Seen
    <2> QED BY <1>1, <2>1 DEF IInv, Sees, TypeOK, Seen
  <1>4. slot' = [slot EXCEPT ![NextRank(r)] = v]
    BY DEF Deliver
  <1>5. v <= MaxSent(r)
    BY <1>1
  <1> HIDE DEF v
  <1> QED BY <1>1, <1>2, <1>3, <1>4, <1>5

\* A delivered value only raises one slot, and not above its predecessor's.
LEMMA DeliverIInv ==
  ASSUME IInv, NEW r \in Rank, Deliver(r) PROVE IInv'
  <1>1. PICK v \in Nat : /\ slot' = [slot EXCEPT ![NextRank(r)] = v]
                         /\ slot[NextRank(r)] <= v
                         /\ v <= MaxSent(r)
                         /\ r # 0 => v <= slot[r]
    BY DeliveredValue
  <1> USE DEF IInv
  <1>2. /\ seq' = seq /\ pc' = pc /\ buf' = buf /\ lost' = lost
        /\ inflight' = [inflight EXCEPT ![r] = "none"]
    BY DEF Deliver
  <1>3. TypeOK'
    BY <1>1, <1>2 DEF TypeOK
  <1>4. Started' /\ Buffers'
    BY <1>2 DEF TypeOK, Started, Buffers
  <1>5. Sends'
    <2>1. \A q \in Rank : NextRank(q) = NextRank(r) => q = r
      BY NAssumption DEF Rank, NextRank
    <2> QED BY <1>1, <1>2, <2>1, NextRankType DEF TypeOK, Sends, MaxSent
  <1>6. Sees'
    BY <1>1, <1>2, NextRankType DEF TypeOK, Sees, Seen
  <1>7. Chain'
    <2>1. \A p \in Rank : /\ slot[p] \in Nat
                          /\ slot'[p] = IF p = NextRank(r) THEN v ELSE slot[p]
      BY <1>1, NextRankType DEF TypeOK
    <2>2. CASE r = N - 1
      <3>1. slot'[0] = v /\ \A i \in 1 .. N - 1 : slot'[i] = slot[i]
        BY <2>1, <2>2, NAssumption DEF NextRank, Rank
      <3>2. \A i \in 1 .. N - 1 : v <= slot[i]
        BY <1>1, <2>1, <2>2, NAssumption DEF Chain, Rank
      <3> QED BY <3>1, <3>2 DEF Chain
    <2>3. CASE r # N - 1
      <3>1. /\ NextRank(r) = r + 1 /\ r + 1 \in 1 .. N - 1
            /\ slot'[0] = slot[0] /\ slot'[r + 1] = v
            /\ \A i \in 1 .. N - 1 : i # r + 1 => slot'[i] = slot[i]
        BY <2>1, <2>3, NAssumption DEF NextRank, Rank
      <3>2. \A i \in 1 .. N - 1 : i <= r => v <= slot[i]
        BY <1>1, <2>1, <3>1, NAssumption DEF Chain, Rank
      <3>3. \A j \in 1 .. N - 1 : j >= r + 1 => slot[j] <= v
        BY <1>1, <2>1, <3>1, NAssumption DEF Chain, Rank
      <3>4. slot[0] <= v
        BY <1>1, <2>1, <3>1, NAssumption DEF Chain, Rank
      <3> QED BY <2>1, <3>1, <3>2, <3>3, <3>4, NAssumption DEF Chain, Rank
    <2> QED BY <2>2, <2>3
  <1> QED BY <1>3, <1>4, <1>5, <1>6, <1>7

\* A failed write leaves every slot as it was.
LEMMA WriteErrorIInv ==
  ASSUME IInv, NEW r \in Rank, WriteError(r) PROVE IInv'
  <1> USE DEF IInv
  <1>1. TypeOK'
    BY DEF TypeOK, WriteError
  <1>2. Started' /\ Buffers' /\ Sends' /\ Sees' /\ Chain'
    BY DEF TypeOK, WriteError, Started, Buffers, Sends, MaxSent, Sees, Seen, Chain
  <1> QED BY <1>1, <1>2

\* The invariant is inductive.
LEMMA NextIInv == IInv /\ [Next]_vars => IInv'
  <1> SUFFICES ASSUME IInv, [Next]_vars PROVE IInv'
    OBVIOUS
  <1>1. CASE UNCHANGED vars
    BY <1>1 DEF vars, IInv, TypeOK, Started, Buffers, Sends, MaxSent,
                Sees, Seen, Chain
  <1>2. ASSUME NEW r \in Rank,
               Enter(r) \/ Thread(r) \/ Deliver(r) \/ WriteError(r)
        PROVE  IInv'
    BY <1>2, EnterIInv, ThreadIInv, DeliverIInv, WriteErrorIInv
  <1> QED BY <1>1, <1>2 DEF Next

\* The invariant of the barrier holds in every reachable state.
THEOREM Invariance == Spec => []IInv
  <1> QED BY InitIInv, NextIInv, PTL DEF Spec

-----------------------------------------------------------------------------
\* The variables of rdb_barrier keep their types: no value is ever negative.
THEOREM TypeCorrect == Spec => []TypeOK
  <1>1. IInv => TypeOK
    BY DEF IInv
  <1> QED BY <1>1, Invariance, PTL

\* A value in the slot of rank i has been entered for by every rank below it
\* round the ring, so a rank that has seen the release value knows them all.
LEMMA IInvSafe == IInv => BarrierSafe
  <1> SUFFICES ASSUME IInv, NEW r \in Rank, NEW q \in Rank, pc[r] = "idle"
               PROVE  seq[q] >= seq[r]
    BY DEF BarrierSafe
  <1> USE NAssumption DEF IInv, Rank
  <1>1. \A p \in Rank : seq[p] \in Nat /\ slot[p] \in Nat
    BY DEF TypeOK
  <1>2. \A p \in Rank : slot[NextRank(p)] <= 2 * seq[p]
    <2> SUFFICES ASSUME NEW p \in Rank PROVE slot[NextRank(p)] <= 2 * seq[p]
      OBVIOUS
    <2>1. slot[NextRank(p)] \in Nat /\ seq[p] \in Nat /\ slot[NextRank(p)] <= MaxSent(p)
      BY <1>1, NextRankType DEF Sends
    <2>2. MaxSent(p) <= 2 * seq[p] /\ MaxSent(p) \in Int
      BY <2>1 DEF MaxSent
    <2> HIDE DEF MaxSent
    <2> QED BY <2>1, <2>2
  <1>3. slot[r] >= 2 * seq[r]
    BY <1>1 DEF Sees, Seen
  <1>4. slot[0] >= 2 * seq[r] - 1
    <2>1. CASE r = 0
      BY <1>1, <1>3, <2>1
    <2>2. CASE r # 0
      <3>1. slot[1] >= 2 * seq[r]
        BY <1>1, <1>3, <2>2 DEF Chain
      <3>2. MaxSent(0) >= 2 * seq[r]
        BY <1>1, <3>1 DEF Sends, NextRank, MaxSent
      <3>3. \/ seq[0] >= seq[r] + 1
            \/ seq[0] = seq[r] /\ pc[0] \in {"idle", "release_sent", "release_wait"}
        BY <1>1, <3>2 DEF MaxSent
      <3>4. Seen(0) <= slot[0] /\ seq[0] \in Nat /\ slot[0] \in Nat /\ seq[r] \in Nat
        BY <1>1 DEF Sees
      <3>5. CASE seq[0] >= seq[r] + 1
        BY <3>4, <3>5 DEF Seen
      <3>6. CASE seq[0] = seq[r] /\ pc[0] \in {"idle", "release_sent", "release_wait"}
        BY <3>4, <3>6 DEF Seen
      <3> QED BY <3>3, <3>5, <3>6
    <2> QED BY <2>1, <2>2
  <1>5. slot[NextRank(q)] >= 2 * seq[r] - 1
    BY <1>1, <1>4 DEF Chain, NextRank
  <1>6. 2 * seq[q] >= 2 * seq[r] - 1
    BY <1>1, <1>2, <1>5, NextRankType
  <1> QED BY <1>1, <1>6

\* rdb_barrier's claim: when a rank leaves, every rank has reached the barrier.
THEOREM Safety == Spec => []BarrierSafe
  BY Invariance, IInvSafe, PTL

\* The slot a waiter of rdb_wait_local_slot spins on never goes back.
THEOREM Monotone == Spec => SlotMonotone
  <1>1. IInv /\ [Next]_vars => [\A r \in Rank : slot'[r] >= slot[r]]_vars
    <2> SUFFICES ASSUME IInv, [Next]_vars
                 PROVE  \A r \in Rank : slot'[r] >= slot[r]
      OBVIOUS
    <2>0. \A r \in Rank : slot[r] \in Nat
      BY DEF IInv, TypeOK
    <2>1. CASE UNCHANGED slot
      BY <2>0, <2>1
    <2>2. ASSUME NEW r \in Rank, Deliver(r)
          PROVE  \A p \in Rank : slot'[p] >= slot[p]
      BY <2>0, <2>2, DeliveredValue, NextRankType DEF IInv, TypeOK
    <2> QED BY <2>1, <2>2 DEF Next, vars, Enter, Thread, WriteGather,
               GatherDone, GatherSeen, WriteRelease, ReleaseDone, ReleaseSeen,
               WriteError
  <1> QED BY <1>1, Invariance, PTL DEF Spec, SlotMonotone

-----------------------------------------------------------------------------
\* Where a step leads in the abstract barrier: the steps that make a rank idle
\* are the returns of its call.
LEMMA StepRefines ==
  IInv /\ BarrierSafe' /\ [Next]_vars => [Abstract!Next]_(Abstract!vars)
  <1> SUFFICES ASSUME IInv, BarrierSafe', [Next]_vars
               PROVE  [Abstract!Next]_(Abstract!vars)
    OBVIOUS
  <1> DEFINE ex == [r \in Rank |-> Exited(r)]
  <1>0. /\ \A p \in Rank : seq[p] \in Nat /\ (pc[p] # "idle" => seq[p] >= 1)
        /\ seq \in [Rank -> Nat] /\ pc \in [Rank -> PCs]
    BY DEF IInv, TypeOK, Started
  <1>1. CASE seq' = seq /\ \A p \in Rank : (pc'[p] = "idle") = (pc[p] = "idle")
    <2>1. ex' = ex
      BY <1>1 DEF Exited
    <2> QED BY <1>1, <2>1 DEF Abstract!vars
  <1>2. ASSUME NEW r \in Rank, Enter(r) PROVE Abstract!Next
    <2>1. ex[r] = seq[r] /\ seq' = [seq EXCEPT ![r] = @ + 1]
      BY <1>2 DEF Enter, Exited
    <2>2. ex' = ex
      BY <1>0, <1>2 DEF Enter, Exited
    <2>3. Abstract!Enter(r)
      BY <2>1, <2>2 DEF Abstract!Enter
    <2> QED BY <2>3 DEF Abstract!Next
  <1>3. ASSUME NEW r \in Rank, pc[r] # "idle", seq' = seq,
               pc' = [pc EXCEPT ![r] = "idle"]
        PROVE  Abstract!Next
    <2>1. \A q \in Rank : seq[q] >= seq[r]
      BY <1>0, <1>3 DEF BarrierSafe
    <2>2. ex[r] # seq[r] /\ ex' = [ex EXCEPT ![r] = seq[r]]
      <3>1. \A q \in Rank : ex'[q] = IF q = r THEN seq[r] ELSE ex[q]
        BY <1>0, <1>3 DEF Exited
      <3>2. ex[r] = seq[r] - 1
        BY <1>3 DEF Exited
      <3>3. ex' = [q \in Rank |-> ex'[q]] /\ ex = [q \in Rank |-> ex[q]]
        OBVIOUS
      <3> HIDE DEF ex
      <3> QED BY <1>0, <3>1, <3>2, <3>3
    <2>3. Abstract!Exit(r)
      BY <1>3, <2>1, <2>2 DEF Abstract!Exit
    <2> QED BY <2>3 DEF Abstract!Next
  <1> HIDE DEF ex
  <1>4. CASE UNCHANGED vars
    BY <1>1, <1>4 DEF vars
  <1>5. ASSUME NEW r \in Rank,
               Enter(r) \/ Thread(r) \/ Deliver(r) \/ WriteError(r)
        PROVE  [Abstract!Next]_(Abstract!vars)
    <2>1. CASE Enter(r)
      BY <1>2, <2>1
    <2>2. CASE Deliver(r) \/ WriteError(r)
      BY <1>1, <2>2 DEF Deliver, WriteError
    <2>3. CASE WriteGather(r) \/ GatherDone(r) \/ GatherSeen(r) \/ WriteRelease(r)
      BY <1>0, <1>1, <2>3
      DEF WriteGather, GatherDone, GatherSeen, WriteRelease
    <2>4. CASE ReleaseDone(r) \/ ReleaseSeen(r)
      <3>1. CASE pc'[r] = "idle"
        BY <1>0, <1>3, <2>4, <3>1 DEF ReleaseDone, ReleaseSeen
      <3>2. CASE pc'[r] # "idle"
        BY <1>0, <1>1, <2>4, <3>2 DEF ReleaseDone, ReleaseSeen
      <3> QED BY <3>1, <3>2
    <2> QED BY <1>5, <2>1, <2>2, <2>3, <2>4 DEF Thread
  <1> QED BY <1>4, <1>5 DEF Next

\* rdb_barrier implements the barrier it replaces (MPI_Barrier's promise).
THEOREM Refinement == Spec => BarrierRefinement
  <1>1. Init => Abstract!Init
    BY DEF Init, Abstract!Init, Exited
  <1> QED BY <1>1, StepRefines, Invariance, Safety, PTL
          DEF Spec, BarrierRefinement, Abstract!Spec
=============================================================================
