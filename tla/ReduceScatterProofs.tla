------------------------- MODULE ReduceScatterProofs -------------------------
(***************************************************************************)
(* Proofs about collective_reduce_scatter, for every number of ranks, any  *)
(* number of collectives and whatever fails: the NIC never                 *)
(* reads and writes one chunk of send_buf at once; and while nothing has   *)
(* failed, sends and receives are paired as meant and what is returned is  *)
(* the sum of every rank's contribution.                                   *)
(*                                                                         *)
(* And about the pool of workers that adds what was received, for every    *)
(* number of workers and of tasks: its tasks do not overlap, and a task    *)
(* whose completion has been polled was added by every worker exactly      *)
(* once.                                                                   *)
(***************************************************************************)
EXTENDS ReduceScatter, RsPool, FiniteSetTheorems, SequenceTheorems, TLAPS

PCs  == {"idle", "barrier", "first", "send", "wait", "put"}
Recv == [step : 0 .. Steps - 1, chunk : Rank]

-----------------------------------------------------------------------------
(* The inductive invariant.                                                *)

Types ==
    /\ coll \in [Rank -> 0 .. MaxCollectives]
    /\ pc \in [Rank -> PCs]
    /\ step \in [Rank -> 0 .. Steps - 1]
    /\ sendbuf \in [Rank -> [Rank -> Value]]
    /\ recvbuf \in [Rank -> [Rank -> Value]]
    /\ dst \in [Rank -> Value]
    /\ recvq \in [Rank -> Seq(Recv)]
    /\ sendq \in [Rank -> Seq(Rank)]
    /\ recvPending \in [Rank -> [0 .. Steps - 1 -> 0 .. 1]]
    /\ sendPending \in [Rank -> 0 .. 1]
    /\ reading \in [Rank -> Rank \cup {NoChunk}]
    /\ failed \subseteq Failure

\* How many receives of r have finished: those posted are the first ones still
\* missing, in the order of the steps.
Got(r) == Steps - Len(recvq[r])

RecvShape(r) ==
    /\ Len(recvq[r]) <= Steps
    /\ \A i \in 1 .. Len(recvq[r]) :
         recvq[r][i] = [step |-> Got(r) + i - 1, chunk |-> ReceiveIndex(r, Got(r) + i - 1)]
    /\ \A s \in 0 .. Steps - 1 : recvPending[r][s] = IF s < Got(r) THEN 0 ELSE 1
    /\ pc[r] \in {"idle", "barrier", "put"} => recvq[r] = <<>>
    /\ pc[r] \in {"send", "wait"} => step[r] <= Got(r)

\* A rank has at most the send and the read of its step in flight.
SendShape(r) ==
    /\ sendq[r] = <<>> \/ (pc[r] = "wait" /\ sendq[r] = <<SendIndex(r, step[r])>>)
    /\ sendPending[r] = Len(sendq[r])
    /\ reading[r] # NoChunk => \/ pc[r] = "first" /\ reading[r] = PrevRank(r)
                               \/ pc[r] = "wait" /\ reading[r] = ReadIndex(r, step[r])
    /\ pc[r] = "first" => step[r] = 0

Shape == \A r \in Rank : RecvShape(r) /\ SendShape(r)

\* Nobody leaves the barrier of a collective that another has not begun.
Entered ==
    \A r, q \in Rank : /\ coll[r] <= coll[q] + 1
                       /\ pc[r] # "barrier" => coll[r] <= coll[q]
                       /\ coll[r] = 0 => pc[r] = "idle"

\* The sends r has had delivered and the receives that have finished, of the
\* collective r has begun.
Sent(r) ==
    CASE pc[r] \in {"idle", "put"}      -> Steps
      [] pc[r] = "wait"                 -> step[r] + 1 - Len(sendq[r])
      [] pc[r] = "send"                 -> step[r]
      [] pc[r] \in {"barrier", "first"} -> 0

Received(r) == IF pc[r] = "barrier" THEN 0 ELSE Got(r)

\* A connection has delivered as many sends as receives; a rank that is a
\* collective ahead is ahead of one that has finished its part.
Paired(r) ==
    LET n == NextRank(r) IN
    /\ coll[r] = coll[n] => Sent(r) = Received(n)
    /\ coll[r] > coll[n] => Received(n) = Steps
    /\ coll[n] > coll[r] => Sent(r) = Steps

\* The sum of the contributions of r and the m - 1 ranks before it.
Distance(r, q) == IF q <= r THEN r - q ELSE r - q + N
Part(k, r, m) == [c \in Contribution |-> IF c[1] = k /\ Distance(r, c[2]) < m THEN 1 ELSE 0]

\* What the buffers hold: partial sums of as many ranks as steps have passed.
Sums(r) ==
    /\ pc[r] \in {"send", "wait"} =>
         sendbuf[r][SendIndex(r, step[r])] = Part(coll[r], r, step[r] + 1)
    /\ pc[r] = "first" /\ reading[r] = NoChunk =>
         sendbuf[r][PrevRank(r)] = Part(coll[r], r, 1)
    /\ pc[r] = "wait" /\ reading[r] = NoChunk =>
         sendbuf[r][ReadIndex(r, step[r])] = Part(coll[r], r, 1)
    /\ pc[r] = "put" => sendbuf[r][r] = Total(coll[r])
    /\ pc[r] \in {"first", "send", "wait"} =>
         \A s \in 0 .. Steps - 1 :
            s < Got(r) => recvbuf[r][ReceiveIndex(r, s)] = Part(coll[r], PrevRank(r), s + 1)
    /\ pc[r] = "idle" /\ coll[r] > 0 => dst[r] = Total(coll[r])

Whole == failed = {} => \A r \in Rank : Paired(r) /\ Sums(r)

IInv == Types /\ Shape /\ Entered /\ Whole

-----------------------------------------------------------------------------
(* The indices of the ring, without the modulus.                           *)

\* The successor and the predecessor of a rank.
LEMMA Neighbours ==
  ASSUME NEW r \in Rank
  PROVE  /\ NextRank(r) = IF r = N - 1 THEN 0 ELSE r + 1
         /\ PrevRank(r) = IF r = 0 THEN N - 1 ELSE r - 1
         /\ NextRank(r) \in Rank /\ PrevRank(r) \in Rank
         /\ NextRank(r) # r /\ PrevRank(NextRank(r)) = r
  <1>1. NextRank(r) = IF r = N - 1 THEN 0 ELSE r + 1
    BY ScatterAssumption DEF Rank, NextRank
  <1>2. ASSUME NEW q \in Rank PROVE PrevRank(q) = IF q = 0 THEN N - 1 ELSE q - 1
    BY ScatterAssumption DEF Rank, PrevRank
  <1>3. NextRank(r) \in Rank /\ NextRank(r) # r
    BY <1>1, ScatterAssumption DEF Rank
  <1>4. PrevRank(r) \in Rank
    BY <1>2, ScatterAssumption DEF Rank
  <1>5. PrevRank(NextRank(r)) = r
    BY <1>1, <1>2, <1>3, ScatterAssumption DEF Rank
  <1> QED BY <1>1, <1>2, <1>3, <1>4, <1>5

\* No two ranks have the same successor.
LEMMA NextOnce ==
  ASSUME NEW r \in Rank, NEW q \in Rank, NextRank(q) = NextRank(r) PROVE q = r
  BY Neighbours

\* The chunk that a rank sends in a step, and the one that it receives, whose
\* own contribution it reads and to which it adds: one chunk behind.
LEMMA Indices ==
  ASSUME NEW r \in Rank, NEW s \in 0 .. Steps - 1
  PROVE  /\ SendIndex(r, s) = IF s < r THEN r - 1 - s ELSE r - 1 - s + N
         /\ ReceiveIndex(r, s) = IF s + 1 < r THEN r - 2 - s ELSE r - 2 - s + N
         /\ ReadIndex(r, s) = ReceiveIndex(r, s) /\ SumIndex(r, s) = ReceiveIndex(r, s)
         /\ SendIndex(r, s) \in Rank /\ ReceiveIndex(r, s) \in Rank
         /\ SendIndex(r, s) # ReceiveIndex(r, s)
  <1>1. r \in Nat /\ r < N /\ s \in Nat /\ s <= N - 2 /\ N \in Nat /\ N >= 2
    BY ScatterAssumption DEF Rank, Steps
  <1>2. SendIndex(r, s) = IF s < r THEN r - 1 - s ELSE r - 1 - s + N
    <2>1. CASE s < r
      <3>1. (r - 1 - s + N) % N = r - 1 - s
        BY <1>1, <2>1
      <3>2. r + N - 1 - s = r - 1 - s + N
        BY <1>1
      <3> QED BY <2>1, <3>1, <3>2 DEF SendIndex
    <2>2. CASE ~ (s < r)
      BY <1>1, <2>2 DEF SendIndex
    <2> QED BY <2>1, <2>2
  <1>3. /\ ReadIndex(r, s) = ReceiveIndex(r, s)
        /\ ReceiveIndex(r, s) = IF s + 1 < r THEN r - 2 - s ELSE r - 2 - s + N
    <2>1. r + 2 * N - 2 - s = r - 2 - s + 2 * N /\ r + 2 * N - s - 2 = r - 2 - s + 2 * N
      BY <1>1
    <2>2. CASE s + 1 < r
      BY <1>1, <2>1, <2>2 DEF ReceiveIndex, ReadIndex
    <2>3. CASE ~ (s + 1 < r)
      BY <1>1, <2>1, <2>3 DEF ReceiveIndex, ReadIndex
    <2> QED BY <2>2, <2>3
  <1>4. SumIndex(r, s) = IF s + 1 < r THEN r - 2 - s ELSE r - 2 - s + N
    <2>1. r + N - 1 - (s + 1) = r - 2 - s + N
      BY <1>1
    <2>2. CASE s + 1 < r
      BY <1>1, <2>1, <2>2 DEF SumIndex
    <2>3. CASE ~ (s + 1 < r)
      BY <1>1, <2>1, <2>3 DEF SumIndex
    <2> QED BY <2>2, <2>3
  <1> QED BY <1>1, <1>2, <1>3, <1>4 DEF Rank

\* How the indices of one step, of the next and of the successor go together.
LEMMA IndexSteps ==
  ASSUME NEW r \in Rank, NEW s \in 0 .. Steps - 1
  PROVE  /\ ReceiveIndex(NextRank(r), s) = SendIndex(r, s)
         /\ s + 1 < Steps => SendIndex(r, s + 1) = ReceiveIndex(r, s)
         /\ s + 1 = Steps => ReceiveIndex(r, s) = r
         /\ SendIndex(r, 0) = PrevRank(r)
         /\ \A t \in 0 .. Steps - 1 : ReceiveIndex(r, t) = ReceiveIndex(r, s) => t = s
  <1>1. r \in Nat /\ r < N /\ s \in Nat /\ s <= N - 2 /\ N \in Nat /\ N >= 2 /\ Steps = N - 1
    BY ScatterAssumption DEF Rank, Steps
  <1>2. ReceiveIndex(NextRank(r), s) = SendIndex(r, s)
    <2>1. NextRank(r) \in Rank /\ NextRank(r) = IF r = N - 1 THEN 0 ELSE r + 1
      BY Neighbours
    <2>2. SendIndex(r, s) = IF s < r THEN r - 1 - s ELSE r - 1 - s + N
      BY Indices
    <2>3. ASSUME NEW n \in Rank, n = NextRank(r) PROVE ReceiveIndex(n, s) = SendIndex(r, s)
      <3>1. ReceiveIndex(n, s) = IF s + 1 < n THEN n - 2 - s ELSE n - 2 - s + N
        BY Indices
      <3>2. CASE r = N - 1
        BY <1>1, <2>1, <2>2, <2>3, <3>1, <3>2
      <3>3. CASE r # N - 1
        BY <1>1, <2>1, <2>2, <2>3, <3>1, <3>3
      <3> QED BY <3>2, <3>3
    <2> QED BY <2>1, <2>3
  <1>3. s + 1 < Steps => SendIndex(r, s + 1) = ReceiveIndex(r, s)
    <2> SUFFICES ASSUME s + 1 < Steps PROVE SendIndex(r, s + 1) = ReceiveIndex(r, s)
      OBVIOUS
    <2>1. s + 1 \in 0 .. Steps - 1
      BY <1>1
    <2>2. SendIndex(r, s + 1) = IF s + 1 < r THEN r - 1 - (s + 1) ELSE r - 1 - (s + 1) + N
      BY <2>1, Indices
    <2> QED BY <1>1, <2>2, Indices
  <1>4. s + 1 = Steps => ReceiveIndex(r, s) = r
    BY <1>1, Indices
  <1>5. SendIndex(r, 0) = PrevRank(r)
    <2>1. 0 \in 0 .. Steps - 1
      BY <1>1
    <2> QED BY <1>1, <2>1, Indices, Neighbours
  <1>6. ASSUME NEW t \in 0 .. Steps - 1, ReceiveIndex(r, t) = ReceiveIndex(r, s) PROVE t = s
    <2>1. ReceiveIndex(r, t) = IF t + 1 < r THEN r - 2 - t ELSE r - 2 - t + N
      BY Indices
    <2>2. ReceiveIndex(r, s) = IF s + 1 < r THEN r - 2 - s ELSE r - 2 - s + N
      BY Indices
    <2>3. t \in Nat /\ t <= N - 2
      BY <1>1, <1>6
    <2>4. PICK i : i = ReceiveIndex(r, t) /\ i = ReceiveIndex(r, s)
      BY <1>6
    <2>5. CASE s + 1 < r
      BY <1>1, <2>1, <2>2, <2>3, <2>4, <2>5
    <2>6. CASE ~ (s + 1 < r)
      BY <1>1, <2>1, <2>2, <2>3, <2>4, <2>6
    <2> QED BY <2>5, <2>6
  <1> QED BY <1>2, <1>3, <1>4, <1>5, <1>6

-----------------------------------------------------------------------------
(* The sums.                                                               *)

\* A partial sum is a value.
LEMMA PartType ==
  ASSUME NEW k, NEW r, NEW m PROVE Part(k, r, m) \in Value /\ Total(k) \in Value
  BY DEF Part, Total, Value

\* The contribution of one rank, read from its host.
LEMMA PartOne ==
  ASSUME NEW k \in 1 .. MaxCollectives, NEW r \in Rank PROVE Own(k, r) = Part(k, r, 1)
  <1>1. <<k, r>> \in Contribution
    BY DEF Contribution
  <1>2. ASSUME NEW c \in Contribution
        PROVE  Own(k, r)[c] = Part(k, r, 1)[c]
    <2>1. c[1] \in 1 .. MaxCollectives /\ c[2] \in Rank /\ c = <<c[1], c[2]>>
      BY <1>2 DEF Contribution
    <2>2. Own(k, r)[c] = IF c = <<k, r>> THEN 1 ELSE 0
      BY <1>1, <1>2 DEF Own, Zero
    <2>3. Distance(r, c[2]) < 1 <=> c[2] = r
      BY <2>1, ScatterAssumption DEF Distance, Rank
    <2> QED BY <1>2, <2>1, <2>2, <2>3 DEF Part
  <1>3. Own(k, r) = [c \in Contribution |-> Own(k, r)[c]]
    BY DEF Own, Zero
  <1> QED BY <1>2, <1>3 DEF Part

\* All ranks together.
LEMMA PartAll ==
  ASSUME NEW k, NEW r \in Rank PROVE Part(k, r, N) = Total(k)
  <1>1. ASSUME NEW c \in Contribution PROVE Distance(r, c[2]) < N
    BY ScatterAssumption DEF Contribution, Distance, Rank
  <1> QED BY <1>1 DEF Part, Total

\* A rank adds what its predecessor has summed to its own contribution.
LEMMA PartAdd ==
  ASSUME NEW k, NEW r \in Rank, NEW m \in 1 .. N - 1
  PROVE  Add(Part(k, r, 1), Part(k, PrevRank(r), m)) = Part(k, r, m + 1)
  <1>1. ASSUME NEW c \in Contribution
        PROVE  Part(k, r, 1)[c] + Part(k, PrevRank(r), m)[c] = Part(k, r, m + 1)[c]
    <2>1. PICK q \in Rank : q = c[2]
      BY <1>1 DEF Contribution
    <2>2. PrevRank(r) = IF r = 0 THEN N - 1 ELSE r - 1
      BY Neighbours
    <2>3. r \in Nat /\ r < N /\ q \in Nat /\ q < N /\ N \in Nat /\ m \in Nat /\ m >= 1 /\ m < N
      BY <2>1, ScatterAssumption DEF Rank
    <2>4. CASE q = r
      <3>1. Distance(r, q) = 0 /\ Distance(PrevRank(r), q) = N - 1
        BY <2>2, <2>3, <2>4 DEF Distance
      <3> QED BY <1>1, <2>1, <2>3, <3>1 DEF Part
    <2>5. CASE q # r
      <3>1. /\ Distance(r, q) \in Nat /\ Distance(r, q) >= 1
            /\ Distance(PrevRank(r), q) = Distance(r, q) - 1
        BY <2>2, <2>3, <2>5 DEF Distance
      <3> QED BY <1>1, <2>1, <2>3, <3>1 DEF Part
    <2> QED BY <2>4, <2>5
  <1> QED BY <1>1 DEF Add, Part

-----------------------------------------------------------------------------
(* What a step leaves alone.                                               *)

\* A rank whose queues and reads a step leaves alone.
LEMMA ShapeKept ==
  ASSUME NEW q \in Rank, RecvShape(q), SendShape(q), pc'[q] = pc[q], step'[q] = step[q],
         recvq'[q] = recvq[q], sendq'[q] = sendq[q], recvPending'[q] = recvPending[q],
         sendPending'[q] = sendPending[q], reading'[q] = reading[q]
  PROVE  RecvShape(q)' /\ SendShape(q)'
  BY DEF RecvShape, SendShape, Got

\* A rank whose buffers a step leaves alone.
LEMMA SumsKept ==
  ASSUME NEW q \in Rank, Sums(q), coll'[q] = coll[q], pc'[q] = pc[q], step'[q] = step[q],
         sendbuf'[q] = sendbuf[q], recvbuf'[q] = recvbuf[q], dst'[q] = dst[q],
         Len(recvq'[q]) = Len(recvq[q]), reading'[q] = reading[q]
  PROVE  Sums(q)'
  BY DEF Sums, Got

\* A step that delivers nothing and begins no collective.
LEMMA PairedKept ==
  ASSUME \A q \in Rank : Paired(q), coll' = coll,
         \A q \in Rank : Sent(q)' = Sent(q) /\ Received(q)' = Received(q)
  PROVE  \A q \in Rank : Paired(q)'
  BY Neighbours DEF Paired

\* A queue with one entry.
LEMMA OneEntry ==
  ASSUME NEW x
  PROVE  Len(<<x>>) = 1 /\ <<x>> # <<>> /\ Head(<<x>>) = x /\ Tail(<<x>>) = <<>> /\ Len(<<>>) = 0
  OBVIOUS

\* The lengths of the queues.
LEMMA Lengths ==
  ASSUME Types, Shape, NEW r \in Rank
  PROVE  /\ Len(recvq[r]) \in Nat /\ Len(sendq[r]) \in {0, 1} /\ Steps \in Nat /\ Steps >= 1
         /\ Steps = N - 1 /\ Got(r) \in 0 .. Steps /\ step[r] \in Nat /\ step[r] < Steps
         /\ recvq[r] = <<>> <=> Got(r) = Steps
         /\ sendq[r] = <<>> <=> Len(sendq[r]) = 0
         /\ sendPending[r] = Len(sendq[r]) /\ coll[r] \in Nat
  <1>1. Steps \in Nat /\ Steps >= 1 /\ Steps = N - 1
    BY ScatterAssumption DEF Steps
  <1>2. recvq[r] \in Seq(Recv) /\ sendq[r] \in Seq(Rank) /\ Len(recvq[r]) <= Steps
    BY DEF Types, Shape, RecvShape
  <1>3. Len(recvq[r]) \in Nat /\ (recvq[r] = <<>> <=> Len(recvq[r]) = 0)
    BY <1>2, EmptySeq
  <1>4. Len(sendq[r]) \in {0, 1} /\ (sendq[r] = <<>> <=> Len(sendq[r]) = 0)
    <2>1. sendq[r] = <<>> \/ sendq[r] = <<SendIndex(r, step[r])>>
      BY DEF Shape, SendShape
    <2>2. PICK i : i = SendIndex(r, step[r])
      OBVIOUS
    <2>3. CASE sendq[r] = <<>>
      BY <2>3, OneEntry
    <2>4. CASE sendq[r] = <<i>>
      BY <2>4, OneEntry
    <2> QED BY <2>1, <2>2, <2>3, <2>4
  <1>5. step[r] \in Nat /\ step[r] < Steps /\ coll[r] \in Nat
    BY <1>1, ScatterAssumption DEF Types
  <1>6. sendPending[r] = Len(sendq[r])
    BY DEF Shape, SendShape
  <1> QED BY <1>1, <1>2, <1>3, <1>4, <1>5, <1>6 DEF Got

-----------------------------------------------------------------------------
(* The invariant holds before the first reduce-scatter.                    *)

LEMMA InitIInv == Init => IInv
  <1> SUFFICES ASSUME Init PROVE IInv
    OBVIOUS
  <1>1. 0 \in 0 .. Steps - 1 /\ Steps \in Nat /\ 0 \in 0 .. MaxCollectives
    BY ScatterAssumption DEF Steps
  <1>2. Zero \in Value
    BY DEF Zero, Value
  <1>3. Types
    BY <1>1, <1>2 DEF Init, Types, PCs
  <1>4. Shape
    BY <1>1 DEF Init, Shape, RecvShape, SendShape, Got, NoChunk
  <1>5. Entered
    BY DEF Init, Entered
  <1>6. \A r \in Rank : Paired(r)
    BY <1>1, Neighbours DEF Init, Paired, Sent, Received, Got
  <1>7. \A r \in Rank : Sums(r)
    BY DEF Init, Sums
  <1> QED BY <1>3, <1>4, <1>5, <1>6, <1>7 DEF IInv, Whole

-----------------------------------------------------------------------------
(* The thread of a rank.                                                   *)

\* A rank begins a collective: it has finished the one before, and so has the
\* connection to either side.
LEMMA BeginIInv == ASSUME IInv, NEW r \in Rank, Begin(r) PROVE IInv'
  <1>1. Types /\ Shape /\ Entered
    BY DEF IInv
  <1>2. /\ pc[r] = "idle" /\ coll' = [coll EXCEPT ![r] = coll[r] + 1] /\ coll[r] < MaxCollectives
        /\ dst' = [dst EXCEPT ![r] = Zero] /\ pc' = [pc EXCEPT ![r] = "barrier"]
        /\ UNCHANGED <<step, sendbuf, recvbuf, recvq, sendq, recvPending, sendPending, reading, failed>>
    BY DEF Begin
  <1>3. /\ pc'[r] = "barrier" /\ coll'[r] = coll[r] + 1
        /\ \A q \in Rank \ {r} : pc'[q] = pc[q] /\ coll'[q] = coll[q] /\ dst'[q] = dst[q]
    BY <1>1, <1>2 DEF Types
  <1>4. Types'
    <2>1. Zero \in Value
      BY DEF Zero, Value
    <2>2. coll[r] + 1 \in 0 .. MaxCollectives
      BY <1>1, <1>2, ScatterAssumption DEF Types
    <2> QED BY <1>1, <1>2, <2>1, <2>2 DEF Types, PCs
  <1>5. Shape'
    <2>1. RecvShape(r)' /\ SendShape(r)'
      BY <1>1, <1>2, <1>3 DEF Shape, RecvShape, SendShape, Got
    <2>2. \A q \in Rank \ {r} : RecvShape(q)' /\ SendShape(q)'
      BY <1>1, <1>2, <1>3, ShapeKept DEF Shape
    <2> QED BY <2>1, <2>2 DEF Shape
  <1>6. Entered'
    <2>1. \A q \in Rank : coll[q] \in Nat /\ coll[r] <= coll[q]
      BY <1>1, <1>2, ScatterAssumption DEF Types, Entered
    <2> QED BY <1>1, <1>3, <2>1 DEF Entered
  <1>7. ASSUME failed = {} PROVE \A q \in Rank : Paired(q)' /\ Sums(q)'
    <2>1. \A q \in Rank : Paired(q) /\ Sums(q)
      BY <1>7 DEF IInv, Whole
    <2>2. \A q \in Rank \ {r} : Sums(q)'
      BY <1>2, <1>3, <2>1, SumsKept
    <2>3. Sums(r)'
      BY <1>3 DEF Sums
    <2>4. /\ Sent(r) = Steps /\ Received(r) = Steps /\ Sent(r)' = 0 /\ Received(r)' = 0
          /\ \A q \in Rank \ {r} : Sent(q)' = Sent(q) /\ Received(q)' = Received(q)
      <3>1. Got(r) = Steps
        BY <1>1, <1>2, Lengths DEF Shape, RecvShape
      <3> QED BY <1>2, <1>3, <3>1 DEF Sent, Received, Got
    <2>5. \A q \in Rank : coll[q] \in Nat /\ coll[r] <= coll[q] /\ coll[q] <= coll[r] + 1
      BY <1>1, <1>2, Lengths DEF Entered
    <2>6. \A q \in Rank : pc[q] = "barrier" => Sent(q) = 0 /\ Received(q) = 0
      BY DEF Sent, Received
    <2>7. \A q \in Rank : coll[q] = coll[r] + 1 => pc[q] = "barrier"
      BY <1>1, <2>5, Lengths DEF Entered
    <2>8. ASSUME NEW q \in Rank PROVE Paired(q)'
      <3>1. NextRank(q) \in Rank /\ NextRank(q) # q
        BY Neighbours
      <3>2. CASE q = r
        <4>1. coll[NextRank(r)] = coll[r] \/ coll[NextRank(r)] = coll[r] + 1
          BY <2>5, <3>1, <3>2
        <4>2. coll[NextRank(r)] = coll[r] => Received(NextRank(r)) = Steps
          BY <2>1, <2>4 DEF Paired
        <4> QED BY <1>3, <2>4, <2>5, <2>6, <2>7, <3>1, <3>2, <4>1, <4>2 DEF Paired
      <3>3. CASE NextRank(q) = r
        <4>1. coll[q] = coll[r] \/ coll[q] = coll[r] + 1
          BY <2>5
        <4>2. coll[q] = coll[r] => Sent(q) = Steps
          BY <2>1, <2>4, <3>3 DEF Paired
        <4> QED BY <1>3, <2>4, <2>5, <2>6, <2>7, <3>1, <3>3, <4>1, <4>2 DEF Paired
      <3>4. CASE q # r /\ NextRank(q) # r
        BY <1>3, <2>1, <2>4, <3>1, <3>4 DEF Paired
      <3> QED BY <3>2, <3>3, <3>4
    <2> QED BY <2>2, <2>3, <2>8
  <1> QED BY <1>2, <1>4, <1>5, <1>6, <1>7 DEF IInv, Whole

\* The receives of all steps are posted at once.
LEMMA PostIInv == ASSUME IInv, NEW r \in Rank, Post(r) PROVE IInv'
  <1> DEFINE posted == [i \in 1 .. Steps |-> [step |-> i - 1, chunk |-> ReceiveIndex(r, i - 1)]]
  <1>1. Types /\ Shape /\ Entered
    BY DEF IInv
  <1>2. /\ pc[r] = "barrier" /\ \A q \in Rank : coll[q] >= coll[r]
        /\ recvq' = [recvq EXCEPT ![r] = recvq[r] \o posted]
        /\ recvPending' = [recvPending EXCEPT ![r] = [s \in 0 .. Steps - 1 |-> 1]]
        /\ reading' = [reading EXCEPT ![r] = PrevRank(r)]
        /\ step' = [step EXCEPT ![r] = 0] /\ pc' = [pc EXCEPT ![r] = "first"]
        /\ UNCHANGED <<coll, sendbuf, recvbuf, dst, sendq, sendPending, failed>>
    BY DEF Post
  <1>3. /\ recvq[r] = <<>> /\ Len(recvq[r]) = 0 /\ Steps \in Nat /\ Steps >= 1
        /\ sendq[r] = <<>> /\ sendPending[r] = 0 /\ Got(r) = Steps
    BY <1>1, <1>2, Lengths DEF Shape, RecvShape, SendShape
  <1>4. posted \in Seq(Recv) /\ Len(posted) = Steps
    <2>1. \A i \in 1 .. Steps : [step |-> i - 1, chunk |-> ReceiveIndex(r, i - 1)] \in Recv
      BY <1>3, Indices DEF Recv
    <2>2. posted \in [1 .. Steps -> Recv]
      BY <2>1
    <2> QED BY <1>3, <2>2
  <1>5. recvq'[r] = posted
    <2>1. recvq[r] \o posted = posted
      BY <1>3, <1>4, ConcatEmptySeq
    <2> QED BY <1>1, <1>2, <2>1 DEF Types
  <1>6. \A i \in 1 .. Steps : posted[i] = [step |-> i - 1, chunk |-> ReceiveIndex(r, i - 1)]
    OBVIOUS
  <1> HIDE DEF posted
  <1>7. /\ pc'[r] = "first" /\ step'[r] = 0 /\ reading'[r] = PrevRank(r)
        /\ \A s \in 0 .. Steps - 1 : recvPending'[r][s] = 1
        /\ \A q \in Rank \ {r} : /\ pc'[q] = pc[q] /\ step'[q] = step[q] /\ recvq'[q] = recvq[q]
                                 /\ recvPending'[q] = recvPending[q] /\ reading'[q] = reading[q]
    BY <1>1, <1>2 DEF Types
  <1>8. Types'
    <2>1. /\ 0 \in 0 .. Steps - 1 /\ PrevRank(r) \in Rank
          /\ [s \in 0 .. Steps - 1 |-> 1] \in [0 .. Steps - 1 -> 0 .. 1]
      BY <1>3, Neighbours
    <2>2. recvq' \in [Rank -> Seq(Recv)]
      BY <1>1, <1>2, <1>4, <1>5, <1>7 DEF Types
    <2> QED BY <1>1, <1>2, <2>1, <2>2 DEF Types, PCs
  <1>9. Got(r)' = 0
    BY <1>3, <1>4, <1>5 DEF Got
  <1>10. Shape'
    <2>1. RecvShape(r)'
      BY <1>3, <1>4, <1>5, <1>6, <1>7, <1>9 DEF RecvShape
    <2>2. SendShape(r)'
      BY <1>2, <1>3, <1>7 DEF SendShape
    <2>3. \A q \in Rank \ {r} : RecvShape(q)' /\ SendShape(q)'
      BY <1>1, <1>2, <1>7, ShapeKept DEF Shape
    <2> QED BY <2>1, <2>2, <2>3 DEF Shape
  <1>11. Entered'
    <2>1. \A q \in Rank : coll[q] \in Nat
      BY <1>1, Lengths
    <2> QED BY <1>1, <1>2, <1>7, <2>1 DEF Entered
  <1>12. ASSUME failed = {} PROVE \A q \in Rank : Paired(q)' /\ Sums(q)'
    <2>1. \A q \in Rank : Paired(q) /\ Sums(q)
      BY <1>12 DEF IInv, Whole
    <2>2. \A q \in Rank \ {r} : Sums(q)'
      BY <1>2, <1>7, <2>1, SumsKept
    <2>3. Sums(r)'
      <3>1. PrevRank(r) # NoChunk
        BY Neighbours DEF Rank, NoChunk
      <3> QED BY <1>7, <1>9, <3>1 DEF Sums
    <2>4. \A q \in Rank : Sent(q)' = Sent(q) /\ Received(q)' = Received(q)
      <3>1. Sent(r) = 0 /\ Sent(r)' = 0 /\ Received(r) = 0 /\ Received(r)' = 0
        BY <1>2, <1>7, <1>9 DEF Sent, Received
      <3>2. \A q \in Rank \ {r} : Sent(q)' = Sent(q)
        BY <1>2, <1>7 DEF Sent
      <3>3. \A q \in Rank \ {r} : Received(q)' = Received(q)
        BY <1>7 DEF Received, Got
      <3> QED BY <3>1, <3>2, <3>3
    <2> QED BY <1>2, <2>1, <2>2, <2>3, <2>4, PairedKept
  <1> QED BY <1>2, <1>8, <1>10, <1>11, <1>12 DEF IInv, Whole

\* The first contribution is in send_buf.
LEMMA FirstReadIInv == ASSUME IInv, NEW r \in Rank, FirstRead(r) PROVE IInv'
  <1>1. Types /\ Shape /\ Entered
    BY DEF IInv
  <1>2. /\ pc[r] = "first" /\ reading[r] = NoChunk /\ pc' = [pc EXCEPT ![r] = "send"]
        /\ UNCHANGED <<coll, step, sendbuf, recvbuf, dst, recvq, sendq, recvPending,
                       sendPending, reading, failed>>
    BY DEF FirstRead
  <1>3. pc'[r] = "send" /\ \A q \in Rank \ {r} : pc'[q] = pc[q]
    BY <1>1, <1>2 DEF Types
  <1>4. Types'
    BY <1>1, <1>2 DEF Types, PCs
  <1>5. step[r] = 0 /\ Got(r) \in Nat /\ Steps \in Nat /\ Steps >= 1 /\ sendq[r] = <<>>
    BY <1>1, <1>2, Lengths DEF Shape, SendShape
  <1>6. Shape'
    <2>1. RecvShape(r)'
      <3>1. RecvShape(r)
        BY <1>1 DEF Shape
      <3>2. Got(r)' = Got(r) /\ 0 <= Got(r)
        BY <1>2, <1>5 DEF Got
      <3> QED BY <1>2, <1>3, <1>5, <3>1, <3>2 DEF RecvShape
    <2>3. SendShape(r)'
      <3>1. SendShape(r)
        BY <1>1 DEF Shape
      <3> QED BY <1>2, <1>3, <1>5, <3>1 DEF SendShape
    <2>2. \A q \in Rank \ {r} : RecvShape(q)' /\ SendShape(q)'
      BY <1>1, <1>2, <1>3, ShapeKept DEF Shape
    <2> QED BY <2>1, <2>2, <2>3 DEF Shape
  <1>7. Entered'
    BY <1>1, <1>2, <1>3 DEF Entered
  <1>8. ASSUME failed = {} PROVE \A q \in Rank : Paired(q)' /\ Sums(q)'
    <2>1. \A q \in Rank : Paired(q) /\ Sums(q)
      BY <1>8 DEF IInv, Whole
    <2>2. \A q \in Rank \ {r} : Sums(q)'
      BY <1>2, <1>3, <2>1, SumsKept
    <2>3. Sums(r)'
      <3>1. SendIndex(r, 0) = PrevRank(r)
        BY <1>5, IndexSteps
      <3>2. sendbuf[r][SendIndex(r, step[r])] = Part(coll[r], r, step[r] + 1)
        BY <1>2, <1>5, <2>1, <3>1 DEF Sums
      <3>3. \A s \in 0 .. Steps - 1 :
               s < Got(r) => recvbuf[r][ReceiveIndex(r, s)] = Part(coll[r], PrevRank(r), s + 1)
        BY <1>2, <2>1 DEF Sums
      <3> QED BY <1>2, <1>3, <3>2, <3>3 DEF Sums, Got
    <2>4. \A q \in Rank : Sent(q)' = Sent(q) /\ Received(q)' = Received(q)
      BY <1>2, <1>3, <1>5 DEF Sent, Received, Got
    <2> QED BY <1>2, <2>1, <2>2, <2>3, <2>4, PairedKept
  <1> QED BY <1>2, <1>4, <1>6, <1>7, <1>8 DEF IInv, Whole

\* A step's send and read are submitted.
LEMMA SendIInv == ASSUME IInv, NEW r \in Rank, Send(r) PROVE IInv'
  <1> DEFINE i == SendIndex(r, step[r])
             j == ReadIndex(r, step[r])
  <1>1. Types /\ Shape /\ Entered
    BY DEF IInv
  <1>2. /\ pc[r] = "send" /\ sendq' = [sendq EXCEPT ![r] = Append(sendq[r], i)]
        /\ sendPending' = [sendPending EXCEPT ![r] = 1]
        /\ reading' = [reading EXCEPT ![r] = j] /\ pc' = [pc EXCEPT ![r] = "wait"]
        /\ UNCHANGED <<coll, step, sendbuf, recvbuf, dst, recvq, recvPending, failed>>
    BY DEF Send
  <1>3. i \in Rank /\ j \in Rank /\ j # NoChunk
    <2>1. step[r] \in 0 .. Steps - 1
      BY <1>1 DEF Types
    <2>2. i \in Rank /\ j \in Rank
      BY <2>1, Indices
    <2> QED BY <2>2 DEF Rank, NoChunk
  <1> HIDE DEF i, j
  <1>4. sendq[r] = <<>> /\ reading[r] = NoChunk /\ step[r] \in Nat
    BY <1>1, <1>2, Lengths DEF Shape, SendShape
  <1>5. /\ pc'[r] = "wait" /\ sendq'[r] = <<i>> /\ sendPending'[r] = 1 /\ reading'[r] = j
        /\ \A q \in Rank \ {r} : /\ pc'[q] = pc[q] /\ sendq'[q] = sendq[q]
                                 /\ sendPending'[q] = sendPending[q] /\ reading'[q] = reading[q]
    <2>1. Append(sendq[r], i) = <<i>>
      BY <1>4
    <2> QED BY <1>1, <1>2, <2>1 DEF Types
  <1>6. Types'
    <2>1. <<i>> \in Seq(Rank)
      BY <1>3
    <2>2. sendq' = [sendq EXCEPT ![r] = <<i>>]
      BY <1>2, <1>4
    <2> QED BY <1>1, <1>2, <1>3, <2>1, <2>2 DEF Types, PCs
  <1>7. Shape'
    <2>1. RecvShape(r)'
      BY <1>1, <1>2, <1>5 DEF Shape, RecvShape, Got
    <2>2. SendShape(r)'
      <3>1. i = SendIndex(r, step[r]) /\ j = ReadIndex(r, step[r])
        BY DEF i, j
      <3> QED BY <1>2, <1>5, <3>1, OneEntry DEF SendShape
    <2>3. \A q \in Rank \ {r} : RecvShape(q)' /\ SendShape(q)'
      BY <1>1, <1>2, <1>5, ShapeKept DEF Shape
    <2> QED BY <2>1, <2>2, <2>3 DEF Shape
  <1>8. Entered'
    BY <1>1, <1>2, <1>5 DEF Entered
  <1>9. ASSUME failed = {} PROVE \A q \in Rank : Paired(q)' /\ Sums(q)'
    <2>1. \A q \in Rank : Paired(q) /\ Sums(q)
      BY <1>9 DEF IInv, Whole
    <2>2. \A q \in Rank \ {r} : Sums(q)'
      BY <1>2, <1>5, <2>1, SumsKept
    <2>3. Sums(r)'
      BY <1>2, <1>3, <1>5, <2>1 DEF Sums, Got
    <2>4. \A q \in Rank : Sent(q)' = Sent(q) /\ Received(q)' = Received(q)
      <3>1. Len(sendq'[r]) = 1 /\ step[r] + 1 - 1 = step[r]
        BY <1>4, <1>5, OneEntry
      <3>2. Sent(r)' = Sent(r) /\ \A q \in Rank \ {r} : Sent(q)' = Sent(q)
        BY <1>2, <1>5, <3>1 DEF Sent
      <3>3. \A q \in Rank : Received(q)' = Received(q)
        BY <1>2, <1>5 DEF Received, Got
      <3> QED BY <3>2, <3>3
    <2> QED BY <1>2, <2>1, <2>2, <2>3, <2>4, PairedKept
  <1> QED BY <1>2, <1>6, <1>7, <1>8, <1>9 DEF IInv, Whole

\* A sum of two values is one.
LEMMA AddType == ASSUME NEW v \in Value, NEW w \in Value PROVE Add(v, w) \in Value
  BY DEF Add, Value

\* What a step received is added; the sum is what the next step sends, or the
\* result.
LEMMA AggregateIInv == ASSUME IInv, NEW r \in Rank, Aggregate(r) PROVE IInv'
  <1> DEFINE i == SumIndex(r, step[r])
             v == Add(sendbuf[r][i], recvbuf[r][i])
             last == ~ (step[r] + 1 < Steps)
  <1>1. Types /\ Shape /\ Entered
    BY DEF IInv
  <1>2. /\ pc[r] = "wait" /\ recvPending[r][step[r]] = 0 /\ sendPending[r] = 0 /\ reading[r] = NoChunk
        /\ sendbuf' = [sendbuf EXCEPT ![r][i] = v]
        /\ step' = IF last THEN step ELSE [step EXCEPT ![r] = step[r] + 1]
        /\ pc' = [pc EXCEPT ![r] = IF last THEN "put" ELSE "send"]
        /\ UNCHANGED <<coll, recvbuf, dst, recvq, sendq, recvPending, sendPending, reading, failed>>
    BY DEF Aggregate, StepFinished
  <1>3. /\ step[r] \in 0 .. Steps - 1 /\ i \in Rank /\ i = ReceiveIndex(r, step[r])
        /\ i = ReadIndex(r, step[r]) /\ i # SendIndex(r, step[r])
    <2>1. step[r] \in 0 .. Steps - 1
      BY <1>1 DEF Types
    <2> QED BY <2>1, Indices
  <1>4. v \in Value
    <2>1. sendbuf[r][i] \in Value /\ recvbuf[r][i] \in Value
      BY <1>1, <1>3 DEF Types
    <2> QED BY <2>1, AddType
  <1>5. /\ sendq[r] = <<>> /\ step[r] < Got(r) /\ Got(r) \in Nat /\ Got(r) <= Steps
        /\ Steps \in Nat /\ Steps = N - 1 /\ step[r] \in Nat /\ step[r] < Steps
        /\ recvq[r] = <<>> <=> Got(r) = Steps
    <2>1. /\ sendq[r] = <<>> /\ Got(r) \in 0 .. Steps /\ Steps \in Nat /\ Steps = N - 1
          /\ step[r] \in Nat /\ step[r] < Steps /\ (recvq[r] = <<>> <=> Got(r) = Steps)
      BY <1>1, <1>2, Lengths
    <2>2. recvPending[r][step[r]] = IF step[r] < Got(r) THEN 0 ELSE 1
      BY <1>1, <1>3 DEF Shape, RecvShape
    <2> QED BY <1>2, <2>1, <2>2
  <1> HIDE DEF i, v
  <1>6. /\ pc'[r] = (IF last THEN "put" ELSE "send") /\ step'[r] = (IF last THEN step[r] ELSE step[r] + 1)
        /\ sendbuf'[r][i] = v
        /\ \A q \in Rank \ {r} : /\ pc'[q] = pc[q] /\ step'[q] = step[q] /\ sendbuf'[q] = sendbuf[q]
    BY <1>1, <1>2, <1>3 DEF Types
  <1>7. Types'
    <2>1. sendbuf' \in [Rank -> [Rank -> Value]]
      BY <1>1, <1>2, <1>3, <1>4 DEF Types
    <2>2. step' \in [Rank -> 0 .. Steps - 1]
      <3>1. ~ last => step[r] + 1 \in 0 .. Steps - 1
        BY <1>5
      <3> QED BY <1>1, <1>2, <3>1 DEF Types
    <2>3. pc' \in [Rank -> PCs]
      BY <1>1, <1>2 DEF Types, PCs
    <2> QED BY <1>1, <1>2, <2>1, <2>2, <2>3 DEF Types
  <1>8. \A q \in Rank : Got(q)' = Got(q)
    BY <1>2 DEF Got
  <1>9. last => Got(r) = Steps /\ step[r] + 1 = Steps
    BY <1>5
  <1>10. Shape'
    <2>1. RecvShape(r)'
      <3>1. RecvShape(r)
        BY <1>1 DEF Shape
      <3>2. ~ last => step'[r] <= Got(r)
        BY <1>5, <1>6
      <3> QED BY <1>2, <1>5, <1>6, <1>8, <1>9, <3>1, <3>2 DEF RecvShape
    <2>2. SendShape(r)'
      <3>1. SendShape(r)
        BY <1>1 DEF Shape
      <3> QED BY <1>2, <1>5, <1>6, <3>1 DEF SendShape
    <2>3. \A q \in Rank \ {r} : RecvShape(q)' /\ SendShape(q)'
      BY <1>1, <1>2, <1>6, ShapeKept DEF Shape
    <2> QED BY <2>1, <2>2, <2>3 DEF Shape
  <1>11. Entered'
    BY <1>1, <1>2, <1>6 DEF Entered
  <1>12. ASSUME failed = {} PROVE \A q \in Rank : Paired(q)' /\ Sums(q)'
    <2>1. \A q \in Rank : Paired(q) /\ Sums(q)
      BY <1>12 DEF IInv, Whole
    <2>2. \A q \in Rank \ {r} : Sums(q)'
      BY <1>2, <1>6, <2>1, SumsKept
    <2>3. v = Part(coll[r], r, step[r] + 2)
      <3>1. sendbuf[r][i] = Part(coll[r], r, 1)
        BY <1>2, <1>3, <2>1 DEF Sums
      <3>2. recvbuf[r][i] = Part(coll[r], PrevRank(r), step[r] + 1)
        BY <1>2, <1>3, <1>5, <2>1 DEF Sums
      <3>3. step[r] + 1 \in 1 .. N - 1 /\ step[r] + 1 + 1 = step[r] + 2
        BY <1>5
      <3> QED BY <3>1, <3>2, <3>3, PartAdd DEF v
    <2>4. Sums(r)'
      <3>1. \A s \in 0 .. Steps - 1 :
               s < Got(r) => recvbuf[r][ReceiveIndex(r, s)] = Part(coll[r], PrevRank(r), s + 1)
        BY <1>2, <2>1 DEF Sums
      <3>2. CASE ~ last
        <4>1. SendIndex(r, step'[r]) = i /\ step'[r] + 1 = step[r] + 2
          <5>1. step'[r] = step[r] + 1 /\ step[r] + 1 < Steps
            BY <1>6, <3>2
          <5>2. SendIndex(r, step[r] + 1) = ReceiveIndex(r, step[r])
            BY <1>3, <5>1, IndexSteps
          <5>3. step[r] + 1 + 1 = step[r] + 2
            BY <1>5
          <5> QED BY <1>3, <5>1, <5>2, <5>3
        <4>2. pc'[r] = "send" /\ coll'[r] = coll[r] /\ recvbuf' = recvbuf
          BY <1>2, <1>6, <3>2
        <4>3. sendbuf'[r][SendIndex(r, step'[r])] = Part(coll'[r], r, step'[r] + 1)
          BY <1>6, <2>3, <4>1, <4>2
        <4>4. \A s \in 0 .. Steps - 1 :
                 s < Got(r)' => recvbuf'[r][ReceiveIndex(r, s)] = Part(coll'[r], PrevRank(r), s + 1)
          BY <1>8, <3>1, <4>2
        <4> QED BY <4>2, <4>3, <4>4 DEF Sums
      <3>3. CASE last
        <4>1. i = r /\ step[r] + 2 = N
          <5>1. step[r] + 1 = Steps
            BY <1>9, <3>3
          <5>2. ReceiveIndex(r, step[r]) = r
            BY <1>3, <5>1, IndexSteps
          <5>3. step[r] + 2 = N
            BY <1>5, <5>1, ScatterAssumption
          <5> QED BY <1>3, <5>2, <5>3
        <4>2. pc'[r] = "put"
          BY <1>6, <3>3
        <4>3. v = Total(coll[r])
          BY <2>3, <4>1, PartAll
        <4> QED BY <1>2, <1>6, <4>1, <4>2, <4>3 DEF Sums
      <3> QED BY <3>2, <3>3
    <2>5. \A q \in Rank : Sent(q)' = Sent(q) /\ Received(q)' = Received(q)
      <3>1. Sent(r) = step[r] + 1 /\ Received(r) = Got(r)
        BY <1>2, <1>5, OneEntry DEF Sent, Received
      <3>2. Sent(r)' = step[r] + 1 /\ Received(r)' = Got(r)
        BY <1>5, <1>6, <1>8, <1>9 DEF Sent, Received
      <3>3. \A q \in Rank \ {r} : Sent(q)' = Sent(q)
        BY <1>2, <1>6 DEF Sent
      <3>4. \A q \in Rank \ {r} : Received(q)' = Received(q)
        BY <1>6, <1>8 DEF Received
      <3> QED BY <3>1, <3>2, <3>3, <3>4
    <2> QED BY <1>2, <2>1, <2>2, <2>4, <2>5, PairedKept
  <1> QED BY <1>2, <1>7, <1>10, <1>11, <1>12 DEF IInv, Whole

\* The result is written to the host, if the connection to it is whole.
LEMMA PutIInv == ASSUME IInv, NEW r \in Rank, Put(r) PROVE IInv'
  <1>1. Types /\ Shape /\ Entered
    BY DEF IInv
  <1>2. /\ pc[r] = "put" /\ pc' = [pc EXCEPT ![r] = "idle"]
        /\ dst' = IF <<"host", r>> \in failed THEN dst ELSE [dst EXCEPT ![r] = sendbuf[r][r]]
        /\ UNCHANGED <<coll, step, sendbuf, recvbuf, recvq, sendq, recvPending,
                       sendPending, reading, failed>>
    BY DEF Put
  <1>3. pc'[r] = "idle" /\ \A q \in Rank \ {r} : pc'[q] = pc[q] /\ dst'[q] = dst[q]
    BY <1>1, <1>2 DEF Types
  <1>4. Types'
    <2>1. sendbuf[r][r] \in Value
      BY <1>1 DEF Types
    <2> QED BY <1>1, <1>2, <2>1 DEF Types, PCs
  <1>5. Shape'
    <2>1. RecvShape(r)'
      <3>1. RecvShape(r) /\ recvq[r] = <<>>
        BY <1>1, <1>2 DEF Shape, RecvShape
      <3>2. Got(r)' = Got(r)
        BY <1>2 DEF Got
      <3> QED BY <1>2, <1>3, <3>1, <3>2 DEF RecvShape
    <2>2. SendShape(r)'
      BY <1>1, <1>2, <1>3 DEF Shape, SendShape
    <2>3. \A q \in Rank \ {r} : RecvShape(q)' /\ SendShape(q)'
      BY <1>1, <1>2, <1>3, ShapeKept DEF Shape
    <2> QED BY <2>1, <2>2, <2>3 DEF Shape
  <1>6. Entered'
    BY <1>1, <1>2, <1>3 DEF Entered
  <1>7. ASSUME failed = {} PROVE \A q \in Rank : Paired(q)' /\ Sums(q)'
    <2>1. \A q \in Rank : Paired(q) /\ Sums(q)
      BY <1>7 DEF IInv, Whole
    <2>2. \A q \in Rank \ {r} : Sums(q)'
      BY <1>2, <1>3, <2>1, SumsKept
    <2>3. Sums(r)'
      <3>1. sendbuf[r][r] = Total(coll[r])
        BY <1>2, <2>1 DEF Sums
      <3>2. dst'[r] = Total(coll[r])
        BY <1>1, <1>2, <1>7, <3>1 DEF Types
      <3> QED BY <1>2, <1>3, <3>2 DEF Sums
    <2>4. \A q \in Rank : Sent(q)' = Sent(q) /\ Received(q)' = Received(q)
      BY <1>2, <1>3 DEF Sent, Received, Got
    <2> QED BY <1>2, <2>1, <2>2, <2>3, <2>4, PairedKept
  <1> QED BY <1>2, <1>4, <1>5, <1>6, <1>7 DEF IInv, Whole

-----------------------------------------------------------------------------
(* The NICs.                                                               *)

\* The oldest receive of a rank that is in its steps is the one of the first
\* step still missing.
LEMMA RecvPopped ==
  ASSUME Types, Shape, NEW n \in Rank, recvq[n] # <<>>, PopRecv(n), pc' = pc, step' = step
  PROVE  /\ Got(n) \in 0 .. Steps - 1 /\ pc[n] \in {"first", "send", "wait"}
         /\ Head(recvq[n]).step = Got(n) /\ Head(recvq[n]).chunk = ReceiveIndex(n, Got(n))
         /\ recvq' \in [Rank -> Seq(Recv)]
         /\ recvPending' \in [Rank -> [0 .. Steps - 1 -> 0 .. 1]]
         /\ Got(n)' = Got(n) + 1 /\ RecvShape(n)'
         /\ \A q \in Rank \ {n} : recvq'[q] = recvq[q] /\ recvPending'[q] = recvPending[q]
  <1>8. PICK g : g = Got(n)
    OBVIOUS
  <1> DEFINE t == Tail(recvq[n])
             p == [recvPending[n] EXCEPT ![g] = recvPending[n][g] - 1]
  <1>1. RecvShape(n) /\ recvq[n] \in Seq(Recv) /\ recvPending[n] \in [0 .. Steps - 1 -> 0 .. 1]
    BY DEF Shape, Types
  <1>2. /\ Len(recvq[n]) \in Nat /\ Len(recvq[n]) >= 1 /\ Len(recvq[n]) <= Steps
        /\ Steps \in Nat /\ g \in 0 .. Steps - 1 /\ g \in Nat /\ g = Steps - Len(recvq[n])
    <2>1. Len(recvq[n]) \in Nat /\ Len(recvq[n]) # 0
      BY <1>1, EmptySeq
    <2>2. Len(recvq[n]) <= Steps /\ Steps \in Nat /\ g = Steps - Len(recvq[n])
      BY <1>1, <1>8, Lengths DEF RecvShape, Got
    <2> QED BY <2>1, <2>2
  <1>3. Head(recvq[n]) = [step |-> g, chunk |-> ReceiveIndex(n, g)]
    <2>1. Head(recvq[n]) = recvq[n][1]
      BY <1>1
    <2>2. recvq[n][1] = [step |-> g + 1 - 1, chunk |-> ReceiveIndex(n, g + 1 - 1)]
      <3>1. 1 \in 1 .. Len(recvq[n])
        BY <1>2
      <3> QED BY <1>1, <1>8, <3>1 DEF RecvShape
    <2>3. g + 1 - 1 = g
      BY <1>2
    <2> QED BY <2>1, <2>2, <2>3
  <1>4. pc[n] \in {"first", "send", "wait"}
    BY <1>1 DEF Types, PCs, RecvShape
  <1>5. t \in Seq(Recv) /\ Len(t) = Len(recvq[n]) - 1 /\ \A i \in 1 .. Len(t) : t[i] = recvq[n][i + 1]
    BY <1>1, HeadTailProperties
  <1>6. Head(recvq[n]).step = g /\ Head(recvq[n]).chunk = ReceiveIndex(n, g)
    BY <1>3
  <1>7. /\ recvq' = [recvq EXCEPT ![n] = t]
        /\ recvPending' = [recvPending EXCEPT ![n] = p]
    BY <1>6 DEF PopRecv
  <1>9. /\ p \in [0 .. Steps - 1 -> 0 .. 1] /\ p[g] = 0
        /\ \A s \in 0 .. Steps - 1 : s # g => p[s] = recvPending[n][s]
    <2>1. recvPending[n][g] = 1
      BY <1>1, <1>2, <1>8 DEF RecvShape
    <2>2. p = [recvPending[n] EXCEPT ![g] = 0]
      BY <2>1
    <2> HIDE DEF p
    <2> QED BY <1>1, <1>2, <2>2
  <1> HIDE DEF t, p
  <1>10. /\ recvq'[n] = t /\ recvPending'[n] = p
         /\ \A q \in Rank \ {n} : recvq'[q] = recvq[q] /\ recvPending'[q] = recvPending[q]
    BY <1>7 DEF Types
  <1>11. recvq' \in [Rank -> Seq(Recv)] /\ recvPending' \in [Rank -> [0 .. Steps - 1 -> 0 .. 1]]
    BY <1>5, <1>7, <1>9 DEF Types
  <1>12. Got(n)' = g + 1
    <2>1. Steps - (Len(recvq[n]) - 1) = g + 1
      BY <1>2
    <2> QED BY <1>5, <1>10, <2>1 DEF Got
  <1>14. g \in Nat
    BY <1>2
  <1>13. RecvShape(n)'
    <2>1. Len(t) <= Steps /\ Len(t) \in Nat
      BY <1>2, <1>5
    <2>2. \A i \in 1 .. Len(t) :
             t[i] = [step |-> g + 1 + i - 1, chunk |-> ReceiveIndex(n, g + 1 + i - 1)]
      <3> SUFFICES ASSUME NEW i \in 1 .. Len(t)
                   PROVE  t[i] = [step |-> g + 1 + i - 1, chunk |-> ReceiveIndex(n, g + 1 + i - 1)]
        OBVIOUS
      <3>1. i + 1 \in 1 .. Len(recvq[n]) /\ g + (i + 1) - 1 = g + 1 + i - 1
        <4>1. Len(t) + 1 = Len(recvq[n])
          BY <1>2, <1>5
        <4> QED BY <1>2, <1>14, <2>1, <4>1
      <3>2. recvq[n][i + 1] = [step |-> g + (i + 1) - 1, chunk |-> ReceiveIndex(n, g + (i + 1) - 1)]
        BY <1>1, <1>8, <3>1 DEF RecvShape
      <3> QED BY <1>5, <3>1, <3>2
    <2>3. \A s \in 0 .. Steps - 1 : p[s] = IF s < g + 1 THEN 0 ELSE 1
      <3> SUFFICES ASSUME NEW s \in 0 .. Steps - 1
                   PROVE  p[s] = IF s < g + 1 THEN 0 ELSE 1
        OBVIOUS
      <3>1. CASE s = g
        <4>1. s < g + 1
          BY <1>14, <3>1
        <4> QED BY <1>9, <3>1, <4>1
      <3>2. CASE s # g
        <4>1. p[s] = IF s < g THEN 0 ELSE 1
          BY <1>1, <1>8, <1>9, <3>2 DEF RecvShape
        <4>2. s < g <=> s < g + 1
          BY <1>14, <3>2
        <4> QED BY <4>1, <4>2
      <3> QED BY <3>1, <3>2
    <2>4. pc'[n] \notin {"idle", "barrier", "put"}
      BY <1>4
    <2>5. pc'[n] \in {"send", "wait"} => step'[n] <= g + 1
      <3>1. pc[n] \in {"send", "wait"} => step[n] <= g
        BY <1>1, <1>8 DEF RecvShape
      <3>2. step[n] \in Nat
        BY Lengths
      <3> QED BY <1>14, <3>1, <3>2
    <2> QED BY <1>10, <1>12, <2>1, <2>2, <2>3, <2>4, <2>5 DEF RecvShape
  <1> QED BY <1>2, <1>4, <1>6, <1>8, <1>10, <1>11, <1>12, <1>13

\* The only send of a rank is the one of its step.
LEMMA SendPopped ==
  ASSUME Types, Shape, NEW r \in Rank, sendq[r] # <<>>, PopSend(r), pc' = pc, step' = step,
         reading' = reading
  PROVE  /\ pc[r] = "wait" /\ Head(sendq[r]) = SendIndex(r, step[r])
         /\ Len(sendq[r]) = 1 /\ Len(sendq'[r]) = 0
         /\ sendq' \in [Rank -> Seq(Rank)] /\ sendPending' \in [Rank -> 0 .. 1] /\ SendShape(r)'
         /\ \A q \in Rank \ {r} : sendq'[q] = sendq[q] /\ sendPending'[q] = sendPending[q]
  <1>1. SendShape(r)
    BY DEF Shape
  <1>2. PICK i : i = SendIndex(r, step[r])
    OBVIOUS
  <1>3. pc[r] = "wait" /\ sendq[r] = <<i>>
    BY <1>1, <1>2 DEF SendShape
  <1>4. Head(sendq[r]) = i /\ Len(sendq[r]) = 1 /\ Tail(sendq[r]) = <<>> /\ Len(<<>>) = 0
    BY <1>3, OneEntry
  <1>5. sendPending[r] - 1 = 0
    BY <1>1, <1>4 DEF SendShape
  <1>6. sendq' = [sendq EXCEPT ![r] = <<>>] /\ sendPending' = [sendPending EXCEPT ![r] = 0]
    BY <1>4, <1>5 DEF PopSend
  <1>7. /\ sendq'[r] = <<>> /\ sendPending'[r] = 0
        /\ \A q \in Rank \ {r} : sendq'[q] = sendq[q] /\ sendPending'[q] = sendPending[q]
    BY <1>6 DEF Types
  <1>8. sendq' \in [Rank -> Seq(Rank)] /\ sendPending' \in [Rank -> 0 .. 1]
    BY <1>6 DEF Types
  <1>9. SendShape(r)'
    BY <1>1, <1>4, <1>7 DEF SendShape
  <1> QED BY <1>2, <1>3, <1>4, <1>7, <1>8, <1>9

\* A rank's contribution arrives in the chunk that it does not send.
LEMMA ReadDoneIInv == ASSUME IInv, NEW r \in Rank, ReadDone(r) PROVE IInv'
  <1>1. Types /\ Shape /\ Entered
    BY DEF IInv
  <1>2. PICK i : i = reading[r]
    OBVIOUS
  <1>3. /\ i # NoChunk /\ reading' = [reading EXCEPT ![r] = NoChunk]
        /\ sendbuf' = IF <<"host", r>> \in failed THEN sendbuf
                      ELSE [sendbuf EXCEPT ![r][i] = Own(coll[r], r)]
        /\ UNCHANGED <<coll, pc, step, recvbuf, dst, recvq, sendq, recvPending, sendPending, failed>>
    BY <1>2 DEF ReadDone
  <1>4. i \in Rank
    BY <1>1, <1>2, <1>3 DEF Types
  <1>5. reading'[r] = NoChunk /\ \A q \in Rank \ {r} : reading'[q] = reading[q] /\ sendbuf'[q] = sendbuf[q]
    BY <1>1, <1>3 DEF Types
  <1>6. /\ \/ pc[r] = "first" /\ i = PrevRank(r)
           \/ pc[r] = "wait" /\ i = ReadIndex(r, step[r])
        /\ step[r] \in 0 .. Steps - 1
    <2>1. SendShape(r) /\ step[r] \in 0 .. Steps - 1
      BY <1>1 DEF Shape, Types
    <2> QED BY <1>2, <1>3, <2>1 DEF SendShape
  <1>7. coll[r] \in 1 .. MaxCollectives
    <2>1. coll[r] # 0
      BY <1>1, <1>6 DEF Entered
    <2> QED BY <1>1, <2>1, ScatterAssumption DEF Types
  <1>8. Own(coll[r], r) = Part(coll[r], r, 1) /\ Own(coll[r], r) \in Value
    BY <1>7, PartOne, PartType
  <1>9. Types'
    <2>1. sendbuf' \in [Rank -> [Rank -> Value]]
      BY <1>1, <1>3, <1>4, <1>8 DEF Types
    <2> QED BY <1>1, <1>3, <2>1 DEF Types
  <1>10. Shape'
    <2>1. RecvShape(r)' /\ SendShape(r)'
      BY <1>1, <1>3, <1>5 DEF Shape, RecvShape, SendShape, Got
    <2>2. \A q \in Rank \ {r} : RecvShape(q)' /\ SendShape(q)'
      BY <1>1, <1>3, <1>5, ShapeKept DEF Shape
    <2> QED BY <2>1, <2>2 DEF Shape
  <1>11. Entered'
    BY <1>1, <1>3 DEF Entered
  <1>12. ASSUME failed = {} PROVE \A q \in Rank : Paired(q)' /\ Sums(q)'
    <2>1. \A q \in Rank : Paired(q) /\ Sums(q)
      BY <1>12 DEF IInv, Whole
    <2>2. \A q \in Rank \ {r} : Sums(q)'
      BY <1>3, <1>5, <2>1, SumsKept
    <2>3. /\ sendbuf'[r][i] = Part(coll[r], r, 1)
          /\ \A j \in Rank : j # i => sendbuf'[r][j] = sendbuf[r][j]
      BY <1>1, <1>3, <1>4, <1>8, <1>12 DEF Types
    <2>4. \A s \in 0 .. Steps - 1 :
             s < Got(r)' => recvbuf'[r][ReceiveIndex(r, s)] = Part(coll'[r], PrevRank(r), s + 1)
      BY <1>3, <1>6, <2>1 DEF Sums, Got
    <2>5. Sums(r)'
      <3>1. CASE pc[r] = "first" /\ i = PrevRank(r)
        BY <1>3, <1>5, <2>3, <2>4, <3>1 DEF Sums
      <3>2. CASE pc[r] = "wait" /\ i = ReadIndex(r, step[r])
        <4>1. SendIndex(r, step[r]) # i /\ SendIndex(r, step[r]) \in Rank
          BY <1>6, <3>2, Indices
        <4>2. sendbuf'[r][SendIndex(r, step[r])] = Part(coll[r], r, step[r] + 1)
          BY <2>1, <2>3, <3>2, <4>1 DEF Sums
        <4> QED BY <1>3, <1>5, <2>3, <2>4, <3>2, <4>2 DEF Sums
      <3> QED BY <1>6, <3>1, <3>2
    <2>6. \A q \in Rank : Sent(q)' = Sent(q) /\ Received(q)' = Received(q)
      BY <1>3 DEF Sent, Received, Got
    <2> QED BY <1>3, <2>1, <2>2, <2>5, <2>6, PairedKept
  <1> QED BY <1>3, <1>9, <1>10, <1>11, <1>12 DEF IInv, Whole

\* A chunk arrives: while nothing has failed it is the partial sum that the
\* receive is for.
LEMMA DeliverIInv == ASSUME IInv, NEW r \in Rank, Deliver(r) PROVE IInv'
  <1>1. Types /\ Shape /\ Entered
    BY DEF IInv
  <1>2. PICK n \in Rank : n = NextRank(r) /\ n # r /\ r = PrevRank(n)
    BY Neighbours
  <1>3. /\ sendq[r] # <<>> /\ recvq[n] # <<>> /\ PopSend(r) /\ PopRecv(n)
        /\ recvbuf' = [recvbuf EXCEPT ![n][Head(recvq[n]).chunk] = sendbuf[r][Head(sendq[r])]]
        /\ UNCHANGED <<coll, pc, step, sendbuf, dst, reading, failed>>
    BY <1>2 DEF Deliver
  <1>4. pc' = pc /\ step' = step /\ reading' = reading
    BY <1>3
  <1>5. /\ pc[r] = "wait" /\ Head(sendq[r]) = SendIndex(r, step[r])
        /\ Len(sendq[r]) = 1 /\ Len(sendq'[r]) = 0
        /\ sendq' \in [Rank -> Seq(Rank)] /\ sendPending' \in [Rank -> 0 .. 1] /\ SendShape(r)'
        /\ \A q \in Rank \ {r} : sendq'[q] = sendq[q] /\ sendPending'[q] = sendPending[q]
    BY <1>1, <1>3, <1>4, SendPopped
  <1>6. /\ Got(n) \in 0 .. Steps - 1 /\ pc[n] \in {"first", "send", "wait"}
        /\ Head(recvq[n]).chunk = ReceiveIndex(n, Got(n))
        /\ recvq' \in [Rank -> Seq(Recv)]
        /\ recvPending' \in [Rank -> [0 .. Steps - 1 -> 0 .. 1]]
        /\ Got(n)' = Got(n) + 1 /\ RecvShape(n)'
        /\ \A q \in Rank \ {n} : recvq'[q] = recvq[q] /\ recvPending'[q] = recvPending[q]
    BY <1>1, <1>3, <1>4, RecvPopped
  <1>7. PICK i \in Rank : i = SendIndex(r, step[r])
    BY <1>1, Indices DEF Types
  <1>8. PICK j \in Rank : j = ReceiveIndex(n, Got(n))
    BY <1>6, Indices
  <1>9. recvbuf' = [recvbuf EXCEPT ![n][j] = sendbuf[r][i]]
    BY <1>3, <1>5, <1>6, <1>7, <1>8
  <1>10. Types'
    <2>1. recvbuf' \in [Rank -> [Rank -> Value]]
      BY <1>1, <1>7, <1>8, <1>9 DEF Types
    <2> QED BY <1>1, <1>3, <1>5, <1>6, <2>1 DEF Types
  <1>11. Shape'
    <2>1. RecvShape(r)'
      <3>1. RecvShape(r)
        BY <1>1 DEF Shape
      <3>2. pc' = pc /\ step' = step /\ recvq'[r] = recvq[r] /\ recvPending'[r] = recvPending[r]
        BY <1>2, <1>4, <1>6
      <3> QED BY <3>1, <3>2 DEF RecvShape, Got
    <2>2. SendShape(n)'
      <3>1. SendShape(n)
        BY <1>1 DEF Shape
      <3> QED BY <1>2, <1>3, <1>5, <3>1 DEF SendShape
    <2>3. \A q \in Rank \ {r, n} : RecvShape(q)' /\ SendShape(q)'
      BY <1>1, <1>3, <1>5, <1>6, ShapeKept DEF Shape
    <2> QED BY <1>5, <1>6, <2>1, <2>2, <2>3 DEF Shape
  <1>12. Entered'
    BY <1>1, <1>3 DEF Entered
  <1>13. ASSUME failed = {} PROVE \A q \in Rank : Paired(q)' /\ Sums(q)'
    <2>1. \A q \in Rank : Paired(q) /\ Sums(q)
      BY <1>13 DEF IInv, Whole
    <2>2. /\ Sent(r) = step[r] /\ Received(n) = Got(n) /\ Sent(r)' = step[r] + 1
          /\ Received(n)' = Got(n) + 1 /\ step[r] \in Nat /\ step[r] < Steps
      <3>1. step[r] \in Nat /\ step[r] < Steps /\ step[r] + 1 - 1 = step[r] /\ step[r] + 1 - 0 = step[r] + 1
        BY <1>1, Lengths
      <3>2. Sent(r) = step[r] /\ Sent(r)' = step[r] + 1
        BY <1>4, <1>5, <3>1 DEF Sent
      <3>3. Received(n) = Got(n) /\ Received(n)' = Got(n) + 1
        BY <1>4, <1>6 DEF Received
      <3> QED BY <3>1, <3>2, <3>3
    <2>3. coll[r] = coll[n] /\ step[r] = Got(n)
      <3>1. Sent(r) < Steps /\ Received(n) < Steps /\ Steps \in Nat
        BY <1>1, <1>6, <2>2, Lengths
      <3>2. coll[r] \in Nat /\ coll[n] \in Nat
        BY <1>1, Lengths
      <3>3. ~ (coll[r] > coll[n]) /\ ~ (coll[n] > coll[r])
        BY <1>2, <2>1, <3>1 DEF Paired
      <3>4. coll[r] = coll[n]
        BY <3>2, <3>3
      <3> QED BY <1>2, <2>1, <2>2, <3>4 DEF Paired
    <2>4. /\ recvbuf'[n][j] = sendbuf[r][i]
          /\ \A k \in Rank : k # j => recvbuf'[n][k] = recvbuf[n][k]
          /\ \A q \in Rank \ {n} : recvbuf'[q] = recvbuf[q]
      BY <1>1, <1>9 DEF Types
    <2>5. sendbuf[r][i] = Part(coll[n], PrevRank(n), Got(n) + 1)
      <3>1. sendbuf[r][SendIndex(r, step[r])] = Part(coll[r], r, step[r] + 1)
        BY <1>5, <2>1 DEF Sums
      <3> QED BY <1>2, <1>7, <2>3, <3>1
    <2>6. \A q \in Rank \ {n} : Sums(q)'
      BY <1>3, <1>6, <2>1, <2>4, SumsKept
    <2>7. Sums(n)'
      <3>1. ASSUME NEW s \in 0 .. Steps - 1, s < Got(n) + 1
            PROVE  recvbuf'[n][ReceiveIndex(n, s)] = Part(coll[n], PrevRank(n), s + 1)
        <4>1. CASE s = Got(n)
          BY <1>8, <2>4, <2>5, <4>1
        <4>2. CASE s # Got(n)
          <5>1. s < Got(n)
            BY <1>6, <3>1, <4>2
          <5>2. ReceiveIndex(n, s) # j /\ ReceiveIndex(n, s) \in Rank
            BY <1>6, <1>8, <4>2, Indices, IndexSteps
          <5> QED BY <1>6, <2>1, <2>4, <5>1, <5>2 DEF Sums
        <4> QED BY <4>1, <4>2
      <3>2. Sums(n)
        BY <2>1
      <3> QED BY <1>3, <1>6, <3>1, <3>2 DEF Sums
    <2>8. /\ \A q \in Rank \ {r} : Sent(q)' = Sent(q)
          /\ \A q \in Rank \ {n} : Received(q)' = Received(q)
      <3>1. \A q \in Rank \ {r} : Sent(q)' = Sent(q)
        BY <1>3, <1>5 DEF Sent
      <3>2. \A q \in Rank \ {n} : Received(q)' = Received(q)
        BY <1>3, <1>6 DEF Received, Got
      <3> QED BY <3>1, <3>2
    <2>9. ASSUME NEW q \in Rank PROVE Paired(q)'
      <3>1. CASE q = r
        <4>1. PICK k \in Nat : coll'[r] = k /\ coll'[n] = k
          BY <1>1, <1>3, <2>3, Lengths
        <4>2. ~ (k > k) /\ Sent(r)' = Received(n)'
          BY <2>2, <2>3
        <4>3. Paired(r)'
          BY <1>2, <4>1, <4>2 DEF Paired
        <4> QED BY <3>1, <4>3
      <3>2. CASE q # r
        <4>1. NextRank(q) \in Rank \ {n}
          BY <1>2, <3>2, Neighbours, NextOnce
        <4> QED BY <1>3, <2>1, <2>8, <3>2, <4>1 DEF Paired
      <3> QED BY <3>1, <3>2
    <2> QED BY <2>6, <2>7, <2>9
  <1> QED BY <1>3, <1>10, <1>11, <1>12, <1>13 DEF IInv, Whole

\* A failure is recorded.
LEMMA FailType ==
  ASSUME failed \subseteq Failure, NEW r \in Rank,
         NEW what \in {"ring", "host", "send", "receive"}, Fail(what, r)
  PROVE  failed' \subseteq Failure /\ failed' # {}
  <1>1. <<what, r>> \in Failure
    BY DEF Failure
  <1>2. PICK e : e = <<what, r>>
    OBVIOUS
  <1>3. failed' = failed \cup {e}
    BY <1>2 DEF Fail
  <1> QED BY <1>1, <1>2, <1>3

\* A send of a broken connection ends.
LEMMA FlushSendIInv == ASSUME IInv, NEW r \in Rank, FlushSend(r) PROVE IInv'
  <1>1. Types /\ Shape /\ Entered
    BY DEF IInv
  <1>2. /\ sendq[r] # <<>> /\ PopSend(r) /\ failed' = failed /\ failed # {}
        /\ UNCHANGED <<coll, pc, step, sendbuf, recvbuf, dst, recvq, recvPending, reading>>
    BY DEF FlushSend
  <1>3. /\ sendq' \in [Rank -> Seq(Rank)] /\ sendPending' \in [Rank -> 0 .. 1] /\ SendShape(r)'
        /\ \A q \in Rank \ {r} : sendq'[q] = sendq[q] /\ sendPending'[q] = sendPending[q]
    BY <1>1, <1>2, SendPopped
  <1>4. Types'
    BY <1>1, <1>2, <1>3 DEF Types
  <1>5. Shape'
    <2>1. RecvShape(r)'
      BY <1>1, <1>2 DEF Shape, RecvShape, Got
    <2>2. \A q \in Rank \ {r} : RecvShape(q)' /\ SendShape(q)'
      BY <1>1, <1>2, <1>3, ShapeKept DEF Shape
    <2> QED BY <1>3, <2>1, <2>2 DEF Shape
  <1>6. Entered'
    BY <1>1, <1>2 DEF Entered
  <1> QED BY <1>2, <1>4, <1>5, <1>6 DEF IInv, Whole

\* A receive of a broken connection ends.
LEMMA FlushRecvIInv == ASSUME IInv, NEW r \in Rank, FlushRecv(r) PROVE IInv'
  <1>1. Types /\ Shape /\ Entered
    BY DEF IInv
  <1>2. /\ recvq[r] # <<>> /\ PopRecv(r) /\ failed' = failed /\ failed # {}
        /\ UNCHANGED <<coll, pc, step, sendbuf, recvbuf, dst, sendq, sendPending, reading>>
    BY DEF FlushRecv
  <1>3. /\ recvq' \in [Rank -> Seq(Recv)] /\ recvPending' \in [Rank -> [0 .. Steps - 1 -> 0 .. 1]]
        /\ RecvShape(r)'
        /\ \A q \in Rank \ {r} : recvq'[q] = recvq[q] /\ recvPending'[q] = recvPending[q]
    BY <1>1, <1>2, RecvPopped
  <1>4. Types'
    BY <1>1, <1>2, <1>3 DEF Types
  <1>5. Shape'
    <2>1. SendShape(r)'
      BY <1>1, <1>2 DEF Shape, SendShape
    <2>2. \A q \in Rank \ {r} : RecvShape(q)' /\ SendShape(q)'
      BY <1>1, <1>2, <1>3, ShapeKept DEF Shape
    <2> QED BY <1>3, <2>1, <2>2 DEF Shape
  <1>6. Entered'
    BY <1>1, <1>2 DEF Entered
  <1> QED BY <1>2, <1>4, <1>5, <1>6 DEF IInv, Whole

\* The submission of a send fails.
LEMMA RefuseSendIInv == ASSUME IInv, NEW r \in Rank, RefuseSend(r) PROVE IInv'
  <1>1. Types /\ Shape /\ Entered
    BY DEF IInv
  <1>2. /\ sendq[r] # <<>> /\ PopSend(r) /\ Fail("send", r)
        /\ UNCHANGED <<coll, pc, step, sendbuf, recvbuf, dst, recvq, recvPending, reading>>
    BY DEF RefuseSend
  <1>3. /\ sendq' \in [Rank -> Seq(Rank)] /\ sendPending' \in [Rank -> 0 .. 1] /\ SendShape(r)'
        /\ \A q \in Rank \ {r} : sendq'[q] = sendq[q] /\ sendPending'[q] = sendPending[q]
    BY <1>1, <1>2, SendPopped
  <1>4. Types' /\ failed' # {}
    <2>1. failed' \subseteq Failure /\ failed' # {}
      BY <1>1, <1>2, FailType DEF Types
    <2> QED BY <1>1, <1>2, <1>3, <2>1 DEF Types
  <1>5. Shape'
    <2>1. RecvShape(r)'
      BY <1>1, <1>2 DEF Shape, RecvShape, Got
    <2>2. \A q \in Rank \ {r} : RecvShape(q)' /\ SendShape(q)'
      BY <1>1, <1>2, <1>3, ShapeKept DEF Shape
    <2> QED BY <1>3, <2>1, <2>2 DEF Shape
  <1>6. Entered'
    BY <1>1, <1>2 DEF Entered
  <1> QED BY <1>4, <1>5, <1>6 DEF IInv, Whole

\* The submission of a receive fails.
LEMMA RefuseRecvIInv == ASSUME IInv, NEW r \in Rank, RefuseRecv(r) PROVE IInv'
  <1>1. Types /\ Shape /\ Entered
    BY DEF IInv
  <1>2. /\ recvq[r] # <<>> /\ PopRecv(r) /\ Fail("receive", r)
        /\ UNCHANGED <<coll, pc, step, sendbuf, recvbuf, dst, sendq, sendPending, reading>>
    BY DEF RefuseRecv
  <1>3. /\ recvq' \in [Rank -> Seq(Recv)] /\ recvPending' \in [Rank -> [0 .. Steps - 1 -> 0 .. 1]]
        /\ RecvShape(r)'
        /\ \A q \in Rank \ {r} : recvq'[q] = recvq[q] /\ recvPending'[q] = recvPending[q]
    BY <1>1, <1>2, RecvPopped
  <1>4. Types' /\ failed' # {}
    <2>1. failed' \subseteq Failure /\ failed' # {}
      BY <1>1, <1>2, FailType DEF Types
    <2> QED BY <1>1, <1>2, <1>3, <2>1 DEF Types
  <1>5. Shape'
    <2>1. SendShape(r)'
      BY <1>1, <1>2 DEF Shape, SendShape
    <2>2. \A q \in Rank \ {r} : RecvShape(q)' /\ SendShape(q)'
      BY <1>1, <1>2, <1>3, ShapeKept DEF Shape
    <2> QED BY <1>3, <2>1, <2>2 DEF Shape
  <1>6. Entered'
    BY <1>1, <1>2 DEF Entered
  <1> QED BY <1>4, <1>5, <1>6 DEF IInv, Whole

\* A connection breaks.
LEMMA BreakIInv == ASSUME IInv, NEW r \in Rank, Break(r) PROVE IInv'
  <1>1. Types /\ Shape /\ Entered
    BY DEF IInv
  <1>2. PICK kind \in {"ring", "host"} : Fail(kind, r)
    BY DEF Break
  <1>3. UNCHANGED <<coll, pc, step, sendbuf, recvbuf, dst, recvq, sendq, recvPending,
                    sendPending, reading>>
    BY DEF Break
  <1>4. Types' /\ failed' # {}
    <2>1. failed' \subseteq Failure /\ failed' # {}
      BY <1>1, <1>2, FailType DEF Types
    <2> QED BY <1>1, <1>3, <2>1 DEF Types
  <1>5. Shape'
    BY <1>1, <1>3, ShapeKept DEF Shape
  <1>6. Entered'
    BY <1>1, <1>3 DEF Entered
  <1> QED BY <1>4, <1>5, <1>6 DEF IInv, Whole

\* A step that changes nothing.
LEMMA StutterIInv == ASSUME IInv, UNCHANGED vars PROVE IInv'
  <1>1. Types /\ Shape /\ Entered
    BY DEF IInv
  <1>2. UNCHANGED <<coll, pc, step, sendbuf, recvbuf, dst, recvq, sendq, recvPending,
                    sendPending, reading, failed>>
    BY DEF vars
  <1>3. Types'
    BY <1>1, <1>2 DEF Types
  <1>4. Shape'
    BY <1>1, <1>2, ShapeKept DEF Shape
  <1>5. Entered'
    BY <1>1, <1>2 DEF Entered
  <1>6. ASSUME failed = {} PROVE \A q \in Rank : Paired(q)' /\ Sums(q)'
    <2>1. \A q \in Rank : Paired(q) /\ Sums(q)
      BY <1>6 DEF IInv, Whole
    <2>2. \A q \in Rank : Sent(q)' = Sent(q) /\ Received(q)' = Received(q)
      BY <1>2 DEF Sent, Received, Got
    <2> QED BY <1>2, <2>1, <2>2, SumsKept, PairedKept
  <1> QED BY <1>2, <1>3, <1>4, <1>5, <1>6 DEF IInv, Whole

-----------------------------------------------------------------------------
(* The invariant, and what it says of the collective.                      *)

\* Every state of a sequence of reduce-scatters satisfies the invariant.
THEOREM Invariance == Spec => []IInv
  <1>1. Init => IInv
    BY InitIInv
  <1>2. IInv /\ [Next]_vars => IInv'
    <2> SUFFICES ASSUME IInv, [Next]_vars PROVE IInv'
      OBVIOUS
    <2>1. CASE UNCHANGED vars
      BY <2>1, StutterIInv
    <2>2. ASSUME NEW r \in Rank,
                 \/ Begin(r) \/ Post(r) \/ Thread(r) \/ Nic(r)
                 \/ Break(r) \/ RefuseSend(r) \/ RefuseRecv(r)
          PROVE  IInv'
      <3>1. CASE Begin(r) \/ Post(r) \/ Break(r)
        BY <3>1, BeginIInv, PostIInv, BreakIInv
      <3>2. CASE Thread(r)
        BY <3>2, FirstReadIInv, SendIInv, AggregateIInv, PutIInv DEF Thread
      <3>3. CASE Nic(r)
        BY <3>3, DeliverIInv, ReadDoneIInv, FlushSendIInv, FlushRecvIInv DEF Nic
      <3>4. CASE RefuseSend(r) \/ RefuseRecv(r)
        BY <3>4, RefuseSendIInv, RefuseRecvIInv
      <3> QED BY <2>2, <3>1, <3>2, <3>3, <3>4
    <2> QED BY <2>1, <2>2 DEF Next
  <1> QED BY <1>1, <1>2, PTL DEF Spec

\* Type correctness of the ranks' queues, buffers and counters: no counter of
\* pending transfers goes below zero or above one.
THEOREM TypeCorrect == Spec => []TypeOK
  <1>1. IInv => TypeOK
    BY DEF IInv, Types, TypeOK, PCs, Recv
  <1> QED BY <1>1, Invariance, PTL

\* The NIC never reads and writes one chunk of send_buf at once, whatever fails:
\* the read of the next contribution runs beside the send of the partial sum.
THEOREM NoRace == Spec => []NoDmaRace
  <1>1. IInv => NoDmaRace
    <2> SUFFICES ASSUME IInv, NEW r \in Rank, reading[r] # NoChunk,
                        NEW i \in 1 .. Len(sendq[r])
                 PROVE  sendq[r][i] # reading[r]
      BY DEF NoDmaRace
    <2>1. SendShape(r) /\ step[r] \in 0 .. Steps - 1
      BY DEF IInv, Shape, Types
    <2>2. PICK c : c = SendIndex(r, step[r])
      OBVIOUS
    <2>3. sendq[r] # <<>>
      BY OneEntry
    <2>4. pc[r] = "wait" /\ sendq[r] = <<c>>
      BY <2>1, <2>2, <2>3 DEF SendShape
    <2>5. sendq[r][i] = c
      BY <2>4
    <2>6. reading[r] = ReadIndex(r, step[r])
      BY <2>1, <2>4 DEF SendShape
    <2> QED BY <2>1, <2>2, <2>5, <2>6, Indices
  <1> QED BY <1>1, Invariance, PTL

\* While nothing has failed a send meets the receive posted for its chunk, from
\* one collective to the next and whatever the speeds of the ranks.
THEOREM Fifo == Spec => []FifoMatch
  <1>1. IInv => FifoMatch
    <2> SUFFICES ASSUME IInv, NEW r \in Rank, NEW n \in Rank, n = NextRank(r), failed = {},
                        sendq[r] # <<>>, recvq[n] # <<>>
                 PROVE  Head(sendq[r]) = Head(recvq[n]).chunk
      BY Neighbours DEF FifoMatch
    <2>1. Types /\ Shape /\ Paired(r) /\ SendShape(r) /\ RecvShape(n)
      BY DEF IInv, Whole, Shape
    <2>2. PICK i : i = SendIndex(r, step[r])
      OBVIOUS
    <2>3. pc[r] = "wait" /\ sendq[r] = <<i>>
      BY <2>1, <2>2 DEF SendShape
    <2>4. Head(sendq[r]) = i /\ Len(sendq[r]) = 1
      BY <2>3, OneEntry
    <2>5. /\ Got(n) \in 0 .. Steps - 1 /\ Got(n) \in Nat /\ step[r] \in Nat /\ step[r] < Steps
          /\ coll[r] \in Nat /\ coll[n] \in Nat /\ Steps \in Nat
      BY <2>1, Lengths
    <2>6. Sent(r) = step[r] /\ Received(n) = Got(n)
      <3>1. step[r] + 1 - 1 = step[r]
        BY <2>5
      <3>2. pc[n] # "barrier"
        BY <2>1 DEF RecvShape
      <3> QED BY <2>3, <2>4, <3>1, <3>2 DEF Sent, Received
    <2>7. ~ (coll[r] > coll[n]) /\ ~ (coll[n] > coll[r])
      BY <2>1, <2>5, <2>6 DEF Paired
    <2>8. step[r] = Got(n)
      BY <2>1, <2>5, <2>6, <2>7 DEF Paired
    <2>9. Head(recvq[n]).chunk = ReceiveIndex(n, Got(n))
      <3>1. recvq[n] \in Seq(Recv) /\ Len(recvq[n]) \in Nat /\ Len(recvq[n]) # 0
        BY <2>1, EmptySeq DEF Types
      <3>2. recvq[n][1] = [step |-> Got(n) + 1 - 1, chunk |-> ReceiveIndex(n, Got(n) + 1 - 1)]
        <4>1. \A k \in 1 .. Len(recvq[n]) :
                 recvq[n][k] = [step |-> Got(n) + k - 1, chunk |-> ReceiveIndex(n, Got(n) + k - 1)]
          BY <2>1 DEF RecvShape
        <4>2. 1 \in 1 .. Len(recvq[n])
          BY <3>1
        <4> QED BY ONLY <4>1, <4>2
      <3>3. Got(n) + 1 - 1 = Got(n) /\ Head(recvq[n]) = recvq[n][1]
        BY <2>5, <3>1
      <3> QED BY <3>2, <3>3
    <2> QED BY <2>2, <2>4, <2>5, <2>8, <2>9, IndexSteps
  <1> QED BY <1>1, Invariance, PTL

\* When collective_reduce_scatter returns and nothing failed, the destination is
\* the sum of every rank's contribution to this collective, each exactly once.
THEOREM Correct == Spec => []ReduceScatterCorrect
  <1>1. IInv => ReduceScatterCorrect
    BY DEF IInv, Whole, Sums, ReduceScatterCorrect
  <1> QED BY <1>1, Invariance, PTL

-----------------------------------------------------------------------------
(* The worker pool.                                                        *)

\* The size of a set of workers: T exactly when it holds all of them.
LEMMA WorkerSets ==
  ASSUME NEW S \in SUBSET Worker
  PROVE  /\ IsFiniteSet(S)
         /\ Cardinality(S) \in 0 .. T
         /\ Cardinality(S) = T <=> S = Worker
         /\ \A w \in Worker \ S : Cardinality(S \cup {w}) = Cardinality(S) + 1
  <1>1. IsFiniteSet(Worker) /\ Cardinality(Worker) = T
    BY PoolAssumption, FS_Interval DEF Worker
  <1>2. IsFiniteSet(S) /\ Cardinality(S) <= T /\ (Cardinality(S) = T => S = Worker)
    BY <1>1, FS_Subset
  <1>3. Cardinality(S) \in Nat
    BY <1>2, FS_CardinalityType
  <1>4. \A w \in Worker \ S : Cardinality(S \cup {w}) = Cardinality(S) + 1
    BY <1>2, FS_AddElement
  <1> QED BY <1>1, <1>2, <1>3, <1>4, PoolAssumption

\* There is a worker 0.
LEMMA ZeroWorker == 0 \in Worker
  BY PoolAssumption DEF Worker

\* What the counters say of the workers at their limit.
LEMMA Full ==
  ASSUME PoolTypeOK, Counters, generation > 0
  PROVE  /\ done = T <=> \A w \in Worker : w \in Counted
         /\ ready = T <=> \A w \in Worker : w \in Passed
  <1>1. Counted \in SUBSET Worker /\ Passed \in SUBSET Worker
    BY DEF Counted, Passed
  <1>2. (done = T <=> Counted = Worker) /\ (ready = T <=> Passed = Worker)
    BY <1>1, WorkerSets DEF Counters
  <1> QED BY <1>1, <1>2

\* The queues start and end empty.
LEMMA LenEmpty == \A s : s = <<>> => Len(s) = 0
  OBVIOUS

-----------------------------------------------------------------------------
\* The invariant holds when rs_thread_pool_create returns.
LEMMA InitPool == PoolInit => PoolInv
  <1> SUFFICES ASSUME PoolInit PROVE PoolInv
    OBVIOUS
  <1>1. PoolTypeOK
    BY PoolAssumption DEF PoolInit, PoolTypeOK, WorkerPCs, NoTask
  <1>2. Generations /\ Counters
    BY ZeroWorker DEF PoolInit, Generations, Counters, Inside
  <1>3. Tasks
    BY DEF PoolInit, Tasks, NoTask
  <1>4. Outstanding
    BY DEF PoolInit, Outstanding, Reporting
  <1>5. Shares
    BY DEF PoolInit, Shares, Task
  <1> QED BY <1>1, <1>2, <1>3, <1>4, <1>5 DEF PoolInv

\* A broadcast moves sleepers to the test of their condition, which no count
\* and no share can tell.
LEMMA BroadcastIInv ==
  ASSUME PoolInv, wpc' = Woken,
         UNCHANGED <<submitted, taskq, compq, current, generation, done, ready, my, sum>>,
         client' \in {"poll", "join"}, running' \in BOOLEAN,
         Busy' = Busy, ~running' => client' = "join"
  PROVE  PoolInv'
  <1> USE DEF PoolInv
  <1>1. PoolTypeOK'
    BY DEF PoolTypeOK, Woken, WorkerPCs
  <1>2. \A w \in Worker : /\ Inside(w)' = Inside(w)
                          /\ \A p \in {"work", "count", "report", "gather"} :
                                (wpc'[w] = p) = (wpc[w] = p)
    BY DEF PoolTypeOK, Woken, Inside
  <1>3. Counted' = Counted /\ Passed' = Passed /\ Reporting' = Reporting
    BY <1>2 DEF Counted, Passed, Reporting
  <1>4. Generations' /\ Counters'
    BY <1>2, <1>3, ZeroWorker DEF Generations, Counters
  <1>5. Tasks' /\ Outstanding'
    BY <1>3 DEF Tasks, Outstanding, Busy
  <1>6. Shares'
    BY <1>2 DEF Shares
  <1> QED BY <1>1, <1>4, <1>5, <1>6

\* The steps of the thread of the collective.
LEMMA ClientIInv == ASSUME PoolInv, Client PROVE PoolInv'
  <1> USE DEF PoolInv
  <1>1. CASE Submit
    <2>0. taskq = <<>>
      BY <1>1 DEF Submit, Outstanding, Busy
    <2>1. submitted = generation
      BY <2>0, LenEmpty DEF PoolTypeOK, Tasks
    <2>a. taskq' = <<generation + 1>> /\ Len(taskq') = 1
      BY <1>1, <2>0, <2>1 DEF Submit
    <2>b. submitted + 1 \in Task
      BY <1>1, PoolAssumption DEF Submit, PoolTypeOK, Task
    <2>2. PoolTypeOK'
      BY <1>1, <2>0, <2>b, PoolAssumption DEF Submit, PoolTypeOK, Task
    <2>c. Tasks'
      BY <1>1, <2>1, <2>a DEF Submit, PoolTypeOK, Tasks, Busy
    <2>3. Counted' = Counted /\ Passed' = Passed /\ Reporting' = Reporting
      BY <1>1 DEF Submit, Counted, Passed, Reporting, Inside
    <2>4. Generations' /\ Counters' /\ Shares'
      BY <1>1, <2>3 DEF Submit, Generations, Counters, Shares, Inside
    <2>5. Outstanding'
      BY <1>1, <2>0, <2>3 DEF Submit, Outstanding, Busy
    <2> QED BY <2>2, <2>c, <2>4, <2>5
  <1>2. CASE Wake
    BY <1>2, BroadcastIInv DEF Wake, Busy, PoolTypeOK, Tasks
  <1>3. CASE Destroy
    <2>1. wpc' = Woken /\ client' = "join" /\ Busy' = Busy
      BY <1>3 DEF Destroy, Busy
    <2>2. UNCHANGED <<submitted, taskq, compq, current, generation, done, ready, my, sum>>
      BY <1>3 DEF Destroy
    <2>3. running' \in BOOLEAN
      BY <1>3, Zenon DEF Destroy
    <2> QED BY <2>1, <2>2, <2>3, BroadcastIInv
  <1>4. CASE Poll
    <2>1. compq = <<generation>> /\ taskq = <<>> /\ submitted = generation
      BY <1>4, LenEmpty DEF Poll, Outstanding, Tasks, PoolTypeOK
    <2>2. compq' = <<>> /\ client' = "free"
      BY <1>4, <2>1 DEF Poll, PoolTypeOK
    <2>3. PoolTypeOK' /\ Tasks'
      BY <1>4, <2>1, <2>2 DEF Poll, PoolTypeOK, Tasks, Busy
    <2>4. Counted' = Counted /\ Passed' = Passed /\ Reporting' = Reporting
      BY <1>4 DEF Poll, Counted, Passed, Reporting, Inside
    <2>5. Generations' /\ Counters' /\ Shares'
      BY <1>4, <2>4 DEF Poll, Generations, Counters, Shares, Inside
    <2>6. Outstanding'
      BY <1>4, <2>1, <2>2, <2>4 DEF Poll, Outstanding, Busy
    <2> QED BY <2>3, <2>5, <2>6
  <1>5. CASE Join
    <2>1. PoolTypeOK' /\ Tasks'
      BY <1>5 DEF Join, PoolTypeOK, Tasks, Busy
    <2>2. Counted' = Counted /\ Passed' = Passed /\ Reporting' = Reporting
      BY <1>5 DEF Join, Counted, Passed, Reporting, Inside
    <2>3. Generations' /\ Counters' /\ Shares'
      BY <1>5, <2>2 DEF Join, Generations, Counters, Shares, Inside
    <2>4. Outstanding'
      BY <1>5, <2>2 DEF Join, Outstanding, Busy
    <2> QED BY <2>1, <2>3, <2>4
  <1> QED BY <1>1, <1>2, <1>3, <1>4, <1>5 DEF Client

-----------------------------------------------------------------------------
(* The steps of a worker.                                                  *)

\* When a task waits in the queue, or worker 0 is out of the task, everyone has
\* added its share and come through ready_count.
LEMMA AllPassed ==
  ASSUME PoolInv, ~Inside(0), wpc[0] # "gather", NEW w \in Worker
  PROVE  my[w] = generation /\ ~Inside(w)
  <1> USE DEF PoolInv
  <1>1. CASE generation > 0
    <2>1. ready = T
      BY <1>1 DEF Counters
    <2> QED BY <1>1, <2>1, Full DEF Passed
  <1>2. CASE ~(generation > 0)
    BY <1>2 DEF Generations, PoolTypeOK
  <1> QED BY <1>1, <1>2

\* A worker that moves outside the task, in its own generation, changes nothing
\* that is counted.
LEMMA MoveIInv ==
  ASSUME PoolInv, NEW w \in Worker, NEW to \in {"loop", "test", "asleep", "exited"},
         ~Inside(w), wpc[w] # "gather" \/ ready = T,
         Goto(w, to),
         UNCHANGED <<client, submitted, taskq, compq, running, current, generation,
                     done, ready, my, sum>>
  PROVE  PoolInv'
  <1> USE DEF PoolInv
  <1>0. \A v \in Worker : wpc'[v] = IF v = w THEN to ELSE wpc[v]
    BY DEF Goto, PoolTypeOK
  <1>1. PoolTypeOK'
    BY DEF PoolTypeOK, Goto, WorkerPCs
  <1>2. \A v \in Worker : /\ Inside(v)' = Inside(v)
                          /\ \A p \in {"work", "count", "report"} :
                                (wpc'[v] = p) = (wpc[v] = p)
    BY <1>0 DEF Inside
  <1>3. Counted' = Counted /\ Passed' = Passed /\ Reporting' = Reporting
    BY <1>2 DEF Counted, Passed, Reporting
  <1>4. Generations' /\ Counters'
    BY <1>0, <1>2, <1>3, ZeroWorker DEF Generations, Counters
  <1>5. Tasks' /\ Outstanding'
    BY <1>3 DEF Tasks, Outstanding, Busy
  <1>6. Shares'
    BY <1>2 DEF Shares
  <1> QED BY <1>1, <1>4, <1>5, <1>6

\* Worker 0 takes a task: everyone has come through the one before, so all
\* counts start at zero and every share of the one before has been added.
LEMMA TakeIInv == ASSUME PoolInv, Take PROVE PoolInv'
  <1> USE DEF PoolInv
  <1>1. taskq = <<generation + 1>> /\ Busy
    BY DEF Take, Tasks, Busy
  <1>2. running
    BY <1>1 DEF Tasks, Busy
  <1>3. /\ taskq' = <<>> /\ current' = generation + 1 /\ generation' = generation + 1
        /\ my' = [my EXCEPT ![0] = generation + 1] /\ done' = 0 /\ ready' = 0
        /\ wpc' = [Woken EXCEPT ![0] = "work"]
        /\ UNCHANGED <<client, submitted, compq, running, sum>>
    BY <1>1, <1>2 DEF Take
  <1>4. \A w \in Worker : my[w] = generation /\ ~Inside(w)
    BY AllPassed DEF Take, Inside
  <1>5. /\ \A w \in Worker : wpc'[w] = IF w = 0 THEN "work" ELSE Woken[w]
        /\ \A w \in Worker : my'[w] = IF w = 0 THEN generation + 1 ELSE my[w]
    BY <1>3 DEF PoolTypeOK, Woken
  <1>6. \A w \in Worker \ {0} : ~Inside(w)' /\ my'[w] = generation /\ wpc'[w] # "gather"
    BY <1>4, <1>5 DEF Inside, Woken, Generations
  <1>7. Counted' = {} /\ Passed' = {} /\ Reporting' = {}
    BY <1>3, <1>5, <1>6, ZeroWorker DEF Counted, Passed, Reporting, Inside, PoolTypeOK
  <1>8. generation + 1 \in Task /\ submitted = generation + 1
    <2>1. Len(taskq) = 1
      BY <1>1
    <2> QED BY <2>1 DEF Tasks, PoolTypeOK, Task
  <1>9. PoolTypeOK'
    <2>1. wpc' \in [Worker -> WorkerPCs]
      BY <1>3 DEF PoolTypeOK, Woken, WorkerPCs
    <2>2. my' \in [Worker -> Nat]
      <3>1. my \in [Worker -> Nat] /\ generation + 1 \in Nat
        BY DEF PoolTypeOK
      <3> QED BY <1>3, <3>1
    <2> QED BY <1>3, <1>8, <2>1, <2>2, PoolAssumption DEF PoolTypeOK
  <1>10. Generations'
    <2>1. generation \in Nat /\ generation' = generation + 1
      BY <1>3 DEF PoolTypeOK
    <2>2. my'[0] = generation' /\ wpc'[0] = "work"
      BY <1>3, <1>5, ZeroWorker
    <2> QED BY <1>6, <2>1, <2>2, ZeroWorker DEF Generations, Inside
  <1>11. Counters'
    BY <1>3, <1>5, <1>7, FS_EmptySet, ZeroWorker DEF Counters, Inside
  <1>12. Tasks'
    BY <1>2, <1>3, <1>8, LenEmpty DEF Tasks, PoolTypeOK
  <1>13. Outstanding'
    BY <1>1, <1>3, <1>7 DEF Outstanding, Busy
  <1>14. Shares'
    <2> SUFFICES ASSUME NEW k \in Task, NEW w \in Worker
        PROVE sum[k][w] = IF k < generation + 1 \/ (k = generation + 1
                              /\ my'[w] = generation + 1 /\ wpc'[w] # "work") THEN 1 ELSE 0
      BY <1>3 DEF Shares
    <2>1. ~(my'[w] = generation + 1 /\ wpc'[w] # "work")
      BY <1>5, <1>6 DEF PoolTypeOK
    <2>2. my[w] = generation /\ wpc[w] # "work"
      BY <1>4 DEF Inside
    <2> QED BY <2>1, <2>2 DEF Shares, PoolTypeOK, Task
  <1> QED BY <1>9, <1>10, <1>11, <1>12, <1>13, <1>14

\* A worker joins the generation; only one that worker 0 has opened and that has
\* not been counted on, so it cannot come when the pool stops.
LEMMA FollowIInv == ASSUME PoolInv, NEW w \in Worker, Follow(w) PROVE PoolInv'
  <1> USE DEF PoolInv
  <1>1. wpc[w] = "test" /\ w # 0 /\ ~Inside(w)
    BY DEF Follow, Inside
  <1>2. CASE my[w] = generation
    <2>1. my' = my
      BY <1>2 DEF Follow, PoolTypeOK
    <2>2. CASE running
      BY <1>1, <1>2, <2>1, <2>2, MoveIInv DEF Follow
    <2>3. CASE ~running
      BY <1>1, <1>2, <2>1, <2>3, MoveIInv DEF Follow
    <2> QED BY <2>2, <2>3
  <1>3. CASE my[w] # generation
    <2>1. my[w] = generation - 1 /\ generation > 0
      BY <1>3 DEF Generations, PoolTypeOK
    <2>2. w \notin Counted /\ w \notin Passed /\ done # T /\ ready # T
      BY <1>3, <2>1, Full DEF Counted, Passed
    <2>3. running
      BY <2>1, <2>2 DEF Outstanding, Tasks, Busy
    <2>4. /\ my' = [my EXCEPT ![w] = generation] /\ wpc' = [wpc EXCEPT ![w] = "work"]
          /\ UNCHANGED <<client, submitted, taskq, compq, running, current,
                         generation, done, ready, sum>>
      BY <1>3, <2>3 DEF Follow, Goto
    <2>5. /\ \A v \in Worker : wpc'[v] = IF v = w THEN "work" ELSE wpc[v]
          /\ \A v \in Worker : my'[v] = IF v = w THEN generation ELSE my[v]
      BY <2>4 DEF PoolTypeOK
    <2>6. Counted' = Counted /\ Passed' = Passed /\ Reporting' = Reporting
      BY <1>1, <2>2, <2>4, <2>5 DEF Counted, Passed, Reporting, Inside
    <2>7. PoolTypeOK'
      BY <2>4 DEF PoolTypeOK, WorkerPCs
    <2>8. Generations'
      BY <1>1, <2>1, <2>4, <2>5 DEF Generations, Inside
    <2>9. Counters'
      BY <1>1, <2>4, <2>5, <2>6, ZeroWorker DEF Counters, Inside
    <2>10. Tasks' /\ Outstanding'
      BY <2>4, <2>6 DEF Tasks, Outstanding, Busy
    <2>11. Shares'
      BY <1>3, <2>4, <2>5 DEF Shares
    <2> QED BY <2>7, <2>8, <2>9, <2>10, <2>11
  <1> QED BY <1>2, <1>3

\* A worker adds its share of the current task, which it had not added.
LEMMA AddIInv == ASSUME PoolInv, NEW w \in Worker, AddShare(w) PROVE PoolInv'
  <1> USE DEF PoolInv
  <1>1. /\ wpc[w] = "work" /\ wpc' = [wpc EXCEPT ![w] = "count"]
        /\ sum' = [sum EXCEPT ![current][w] = @ + 1]
        /\ UNCHANGED <<client, submitted, taskq, compq, running, current, generation,
                       done, ready, my>>
    BY DEF AddShare, Goto
  <1>2. my[w] = generation /\ generation > 0 /\ current = generation /\ current \in Task
    BY <1>1 DEF Generations, Inside, Tasks, PoolTypeOK, NoTask
  <1>3. \A v \in Worker : wpc'[v] = IF v = w THEN "count" ELSE wpc[v]
    BY <1>1 DEF PoolTypeOK
  <1>4. \A k \in Task : \A v \in Worker :
            sum'[k][v] = IF k = generation /\ v = w THEN sum[k][v] + 1 ELSE sum[k][v]
    BY <1>1, <1>2 DEF PoolTypeOK
  <1>5. PoolTypeOK'
    <2>1. sum' \in [Task -> [Worker -> Nat]]
      BY <1>1, <1>2 DEF PoolTypeOK
    <2> QED BY <1>1, <2>1 DEF PoolTypeOK, WorkerPCs
  <1>6. Counted' = Counted /\ Passed' = Passed /\ Reporting' = Reporting
    BY <1>1, <1>3 DEF Counted, Passed, Reporting, Inside
  <1>7. Generations' /\ Counters'
    BY <1>1, <1>3, <1>6, ZeroWorker DEF Generations, Counters, Inside
  <1>8. Tasks' /\ Outstanding'
    BY <1>1, <1>6 DEF Tasks, Outstanding, Busy
  <1>9. Shares'
    <2> SUFFICES ASSUME NEW k \in Task, NEW v \in Worker
        PROVE sum'[k][v] = IF k < generation \/ (k = generation
                              /\ my[v] = generation /\ wpc'[v] # "work") THEN 1 ELSE 0
      BY <1>1 DEF Shares
    <2>1. CASE k = generation /\ v = w
      BY <1>1, <1>2, <1>3, <1>4, <2>1 DEF Shares, PoolTypeOK, Task
    <2>2. CASE ~(k = generation /\ v = w)
      BY <1>3, <1>4, <2>2 DEF Shares
    <2> QED BY <2>1, <2>2
  <1> QED BY <1>5, <1>7, <1>8, <1>9

\* A worker counts itself; the one that makes the count complete is the only one
\* to report.
LEMMA CountIInv == ASSUME PoolInv, NEW w \in Worker, Count(w) PROVE PoolInv'
  <1> USE DEF PoolInv
  <1> DEFINE to == IF LastOne THEN "report" ELSE "ready"
  <1>1. /\ wpc[w] = "count" /\ wpc' = [wpc EXCEPT ![w] = to] /\ done' = done + 1
        /\ UNCHANGED <<client, submitted, taskq, compq, running, current, generation,
                       ready, my, sum>>
    BY DEF Count, Goto
  <1>2. my[w] = generation /\ generation > 0 /\ w \notin Counted
    BY <1>1 DEF Generations, Inside, Counted
  <1>3. done # T
    BY <1>2, Full
  <1>4. Busy /\ taskq = <<>> /\ compq = <<>> /\ Reporting = {}
    BY <1>2, <1>3 DEF Outstanding
  <1>5. \A v \in Worker : wpc'[v] = IF v = w THEN to ELSE wpc[v]
    BY <1>1 DEF PoolTypeOK
  <1>6. Counted' = Counted \cup {w} /\ Passed' = Passed
    BY <1>1, <1>2, <1>5 DEF Counted, Passed, Inside
  <1>7. Cardinality(Counted') = done' /\ done' \in 0 .. T
    BY <1>1, <1>2, <1>6, WorkerSets DEF Counted, Counters
  <1>8. PoolTypeOK'
    BY <1>1, <1>7 DEF PoolTypeOK, WorkerPCs
  <1>9. Generations'
    BY <1>1, <1>2, <1>5 DEF Generations, Inside
  <1>10. Counters'
    BY <1>1, <1>5, <1>6, <1>7, ZeroWorker DEF Counters, Inside
  <1>11. Reporting' = IF done' = T THEN {w} ELSE {}
    BY <1>1, <1>4, <1>5 DEF Reporting, LastOne
  <1>12. Tasks' /\ Outstanding'
    BY <1>1, <1>4, <1>11 DEF Tasks, Outstanding, Busy
  <1>13. Shares'
    BY <1>1, <1>5 DEF Shares
  <1> QED BY <1>8, <1>9, <1>10, <1>12, <1>13

\* The completion of the current task is queued.
LEMMA ReportIInv == ASSUME PoolInv, NEW w \in Worker, Report(w) PROVE PoolInv'
  <1> USE DEF PoolInv
  <1>1. /\ wpc[w] = "report" /\ wpc' = [wpc EXCEPT ![w] = "ready"]
        /\ compq' = Append(compq, current)
        /\ UNCHANGED <<client, submitted, taskq, running, current, generation, done,
                       ready, my, sum>>
    BY DEF Report, Goto
  <1>2. w \in Reporting /\ my[w] = generation /\ generation > 0
    BY <1>1 DEF Reporting, Generations, Inside
  <1>3. compq = <<>> /\ Busy /\ taskq = <<>> /\ done = T
    BY <1>2 DEF Outstanding
  <1>4. compq' = <<generation>> /\ generation \in Task
    BY <1>1, <1>2, <1>3 DEF Tasks, PoolTypeOK, NoTask
  <1>5. \A v \in Worker : wpc'[v] = IF v = w THEN "ready" ELSE wpc[v]
    BY <1>1 DEF PoolTypeOK
  <1>6. Counted' = Counted /\ Passed' = Passed
    BY <1>1, <1>5 DEF Counted, Passed, Inside
  <1>7. Reporting' = {}
    BY <1>2, <1>5 DEF Reporting, Outstanding
  <1>8. PoolTypeOK'
    BY <1>1, <1>4 DEF PoolTypeOK, WorkerPCs
  <1>9. Generations' /\ Counters'
    BY <1>1, <1>5, <1>6, ZeroWorker DEF Generations, Counters, Inside
  <1>10. Tasks' /\ Outstanding'
    BY <1>1, <1>3, <1>4, <1>7 DEF Tasks, Outstanding, Busy
  <1>11. Shares'
    BY <1>1, <1>5 DEF Shares
  <1> QED BY <1>8, <1>9, <1>10, <1>11

\* A worker leaves the task; worker 0 stays behind to wait for the others.
LEMMA ReadyIInv == ASSUME PoolInv, NEW w \in Worker, Ready(w) PROVE PoolInv'
  <1> USE DEF PoolInv
  <1> DEFINE to == IF w = 0 THEN "gather" ELSE "loop"
  <1>1. /\ wpc[w] = "ready" /\ wpc' = [wpc EXCEPT ![w] = to] /\ ready' = ready + 1
        /\ UNCHANGED <<client, submitted, taskq, compq, running, current, generation,
                       done, my, sum>>
    BY DEF Ready, Goto
  <1>2. my[w] = generation /\ generation > 0 /\ w \notin Passed
    BY <1>1 DEF Generations, Inside, Passed
  <1>3. \A v \in Worker : wpc'[v] = IF v = w THEN to ELSE wpc[v]
    BY <1>1 DEF PoolTypeOK
  <1>4. ready # T
    BY <1>2, Full
  <1>5. Inside(0) \/ wpc[0] = "gather"
    BY <1>2, <1>4 DEF Counters
  <1>6. Inside(0)' \/ wpc'[0] = "gather"
    BY <1>3, <1>5, ZeroWorker DEF Inside
  <1>7. Counted' = Counted /\ Reporting' = Reporting
    BY <1>1, <1>3 DEF Counted, Reporting
  <1>8. Passed' = Passed \cup {w}
    BY <1>1, <1>2, <1>3 DEF Passed, Inside
  <1>9. Cardinality(Passed') = ready' /\ ready' \in 0 .. T
    BY <1>1, <1>2, <1>8, WorkerSets DEF Passed, Counters
  <1>10. PoolTypeOK'
    BY <1>1, <1>9 DEF PoolTypeOK, WorkerPCs
  <1>11. Generations'
    BY <1>1, <1>2, <1>3 DEF Generations, Inside
  <1>12. Counters'
    BY <1>1, <1>6, <1>7, <1>9 DEF Counters
  <1>13. Tasks' /\ Outstanding'
    BY <1>1, <1>7 DEF Tasks, Outstanding, Busy
  <1>14. Shares'
    BY <1>1, <1>3 DEF Shares
  <1> QED BY <1>10, <1>11, <1>12, <1>13, <1>14

\* Every step of a worker.
LEMMA WorkIInv == ASSUME PoolInv, NEW w \in Worker, Work(w) PROVE PoolInv'
  <1>1. CASE Loop(w)
    <2>1. ~Inside(w) /\ wpc[w] # "gather"
      BY <1>1 DEF Loop, Inside
    <2>2. CASE running
      BY <1>1, <2>1, <2>2, MoveIInv DEF Loop
    <2>3. CASE ~running
      BY <1>1, <2>1, <2>3, MoveIInv DEF Loop
    <2> QED BY <2>2, <2>3
  <1>2. CASE w = 0 /\ NoneToTake
    <2>1. ~Inside(w) /\ wpc[w] # "gather"
      BY <1>2 DEF NoneToTake, Inside
    <2>2. CASE running
      BY <1>2, <2>1, <2>2, MoveIInv DEF NoneToTake
    <2>3. CASE ~running
      BY <1>2, <2>1, <2>3, MoveIInv DEF NoneToTake
    <2> QED BY <2>2, <2>3
  <1>3. CASE w = 0 /\ Gather
    <2>1. ~Inside(w) /\ ready = T
      BY <1>3, PoolAssumption DEF Gather, Inside, AllReady, PoolInv, PoolTypeOK
    <2> QED BY <1>3, <2>1, MoveIInv DEF Gather
  <1> QED BY <1>1, <1>2, <1>3, TakeIInv, FollowIInv, AddIInv, CountIInv, ReportIInv,
             ReadyIInv DEF Work

-----------------------------------------------------------------------------
\* Every step preserves the invariant.
LEMMA NextPool == PoolInv /\ [PoolNext]_poolVars => PoolInv'
  <1>1. ASSUME PoolInv, UNCHANGED poolVars PROVE PoolInv'
    BY <1>1 DEF poolVars, PoolInv, PoolTypeOK, Generations, Counters, Tasks, Outstanding, Shares,
                Counted, Passed, Reporting, Inside, Busy
  <1> QED BY <1>1, ClientIInv, WorkIInv DEF PoolNext

\* The inductive invariant holds in every reachable state.
THEOREM PoolInvariance == PoolSpec => []PoolInv
  BY InitPool, NextPool, PTL DEF PoolSpec

\* Every variable keeps its type: no counter of the pool exceeds the number of
\* workers.
THEOREM PoolTypeCorrect == PoolSpec => []PoolTypeOK
  BY PoolInvariance, PTL DEF PoolInv

\* rs_worker_main: nobody is inside a task other than the current one.
THEOREM Stable == PoolSpec => []TaskStable
  <1>1. PoolInv => TaskStable
    BY DEF PoolInv, Generations, TaskStable
  <1> QED BY <1>1, PoolInvariance, PTL

\* poll_wait_rs_completion: when it has returned, every share has been added
\* exactly once.
THEOREM Exact == PoolSpec => []SumExact
  <1>1. ASSUME PoolInv PROVE SumExact
    <2> USE <1>1 DEF PoolInv
    <2>1. ASSUME NEW k \in Task, NEW w \in Worker PROVE sum[k][w] <= 1
      <3>1. sum[k][w] = 0 \/ sum[k][w] = 1
        BY DEF Shares
      <3> QED BY <3>1
    <2>2. ASSUME ~Busy, NEW k \in 1 .. submitted, NEW w \in Worker PROVE sum[k][w] = 1
      <3>1. submitted = generation
        BY <2>2, LenEmpty DEF Tasks, Outstanding, PoolTypeOK
      <3>2. generation > 0 /\ done = T
        BY <2>2, <3>1 DEF Outstanding, PoolTypeOK
      <3>3. my[w] = generation /\ wpc[w] # "work"
        BY <3>2, Full DEF Counted
      <3> QED BY <3>1, <3>3, PoolAssumption DEF Shares, PoolTypeOK, Task
    <2> QED BY <2>1, <2>2 DEF SumExact
  <1> QED BY <1>1, PoolInvariance, PTL
=============================================================================
