------------------------- MODULE RingAllGatherProofs -------------------------
(***************************************************************************)
(* Proofs about collective_all_gather, for every number of ranks and       *)
(* pieces, any number of collectives and whatever fails: its queues and    *)
(* pending counters; and, when the ranks agree on the setting              *)
(* and nothing has failed, that every send meets the receive posted for it *)
(* and that what is returned is every rank's contribution.                 *)
(*                                                                         *)
(* A transfer is known by its position, the step and the piece, and a rail *)
(* is known by whether its ring is dual (d) and by its number.             *)
(***************************************************************************)
EXTENDS RingAllGather, SequenceTheorems, TLAPS

PCs      == {"idle", "barrier", "post", "read", "write", "send", "wait"}
Recv     == [step : 0 .. N - 1, cell : Cell]
Sending  == [from : {"src", "buf", "dst"}, cell : Cell]

-----------------------------------------------------------------------------
(* The pieces of a rail.                                                   *)

Stride(d)   == IF d THEN 2 ELSE 1
On(d, rail) == {p \in Piece : IF d THEN p % 2 = rail ELSE rail = 0}

\* The pieces of the rail from p on, and all of them.
Left(d, p)   == IF d THEN (Pieces - p + 1) \div 2 ELSE Pieces - p
All(d, rail) == IF d \/ rail = 0 THEN Left(d, rail) ELSE 0

\* The position after pos on a rail.
Follow(d, rail, pos) ==
    IF pos[2] + Stride(d) < Pieces THEN <<pos[1], pos[2] + Stride(d)>> ELSE <<pos[1] + 1, rail>>

\* The transfers of step s from pos on, up to those of step m - 1.
Pend(d, rail, pos, m, s) ==
    IF s < pos[1] \/ s >= m THEN 0 ELSE IF s = pos[1] THEN Left(d, pos[2]) ELSE All(d, rail)

\* A piece of a chunk.
CellAt(x, p) == <<x, p>>

-----------------------------------------------------------------------------
(* The queues.                                                             *)

\* q holds the receives of r from some position on, up to those of step m - 1.
Receives(q, r, d, rail, m) ==
    /\ \A i \in 1 .. Len(q) : /\ q[i].step < m
                              /\ q[i].cell[1] = ReceiveIndex(r, q[i].step)
                              /\ q[i].cell[2] \in On(d, rail)
    /\ \A i \in 1 .. Len(q) - 1 :
         <<q[i + 1].step, q[i + 1].cell[2]>> = Follow(d, rail, <<q[i].step, q[i].cell[2]>>)
    /\ q # <<>> => Follow(d, rail, <<q[Len(q)].step, q[Len(q)].cell[2]>>) = <<m, rail>>

RecvFrom(q, rail, m) == IF q = <<>> THEN <<m, rail>> ELSE <<q[1].step, q[1].cell[2]>>

\* q holds the sends of step s of r from some piece on.
Sends(q, r, d, rail, s, from) ==
    /\ \A i \in 1 .. Len(q) : /\ q[i].from = from /\ q[i].cell[1] = SendIndex(r, s)
                              /\ q[i].cell[2] \in On(d, rail)
    /\ \A i \in 1 .. Len(q) - 1 :
         <<s, q[i + 1].cell[2]>> = Follow(d, rail, <<s, q[i].cell[2]>>)
    /\ q # <<>> => Follow(d, rail, <<s, q[Len(q)].cell[2]>>) = <<s + 1, rail>>

SendFirst(q, rail, s) == IF q = <<>> THEN <<s + 1, rail>> ELSE <<s, q[1].cell[2]>>

\* The queues f of both rails, and what is counted as pending.
RecvQueues(f, p, r, d, m) ==
    /\ \A rail \in Rail : Receives(f[rail], r, d, rail, m)
    /\ \A s \in 0 .. N - 1 :
         p[s] = Pend(d, 0, RecvFrom(f[0], 0, m), m, s) + Pend(d, 1, RecvFrom(f[1], 1, m), m, s)

SendQueues(f, p, r, d, s, from) ==
    /\ \A rail \in Rail : Sends(f[rail], r, d, rail, s, from)
    /\ p = Pend(d, 0, SendFirst(f[0], 0, s), s + 1, s) + Pend(d, 1, SendFirst(f[1], 1, s), s + 1, s)

-----------------------------------------------------------------------------
(* The inductive invariant.                                                *)

Types ==
    /\ setting \in [Rank -> Settings]
    /\ coll \in [Rank -> 0 .. MaxCollectives]
    /\ pc \in [Rank -> PCs]
    /\ step \in [Rank -> 0 .. N - 1]
    /\ buf \in [Rank -> [Cell -> Value]]
    /\ dst \in [Rank -> [Cell -> Value]]
    /\ recvq \in [Rank -> [Rail -> Seq(Recv)]]
    /\ sendq \in [Rank -> [Rail -> Seq(Sending)]]
    /\ recvPending \in [Rank -> [0 .. N - 1 -> Int]]
    /\ sendPending \in [Rank -> Int]
    /\ failed \subseteq Failure

Dual(r) == setting[r].dual

\* The steps whose receives r has posted.
Posted(r) == CASE pc[r] = "barrier" -> 0
               [] pc[r] = "post"    -> step[r]
               [] OTHER             -> TotalSteps(r)

\* Where the receives of a rail stand, and the sends.
RecvPos(r, rail) == RecvFrom(recvq[r][rail], rail, Posted(r))
SendPos(r, rail) ==
    CASE pc[r] = "wait" -> SendFirst(sendq[r][rail], rail, step[r])
      [] pc[r] = "send" -> <<step[r], rail>>
      [] pc[r] = "idle" -> <<TotalSteps(r), rail>>
      [] OTHER          -> <<0, rail>>

\* Where r is in the loops.
PlaceShape(r) ==
    /\ pc[r] \in {"post", "send", "wait"} => step[r] < TotalSteps(r)
    /\ pc[r] \in {"read", "write"} => step[r] = 0 /\ setting[r].mode # "full"

RecvShape(r) ==
    /\ RecvQueues(recvq[r], recvPending[r], r, Dual(r), Posted(r))
    /\ \A rail \in Rail : /\ pc[r] \in {"idle", "barrier"} => recvq[r][rail] = <<>>
                          /\ pc[r] \in {"send", "wait"} => step[r] <= RecvPos(r, rail)[1]

SendShape(r) ==
    /\ SendQueues(sendq[r], sendPending[r], r, Dual(r), step[r], SendFrom(r, step[r]))
    /\ pc[r] # "wait" => \A rail \in Rail : sendq[r][rail] = <<>>

Shape == \A r \in Rank : PlaceShape(r) /\ RecvShape(r) /\ SendShape(r)

\* Nobody leaves the barrier of a collective that another has not begun.
Entered ==
    \A r, q \in Rank : /\ coll[r] <= coll[q] + 1
                       /\ pc[r] # "barrier" => coll[r] <= coll[q]
                       /\ coll[r] = 0 => pc[r] = "idle"

\* The two ends of a rail stand at the same position; a rank that is a
\* collective ahead is ahead of one that has finished its part.
Linked(r) ==
    LET n == NextRank(r) IN
    \A rail \in Rail :
        All(Dual(r), rail) # 0 =>
            /\ coll[r] = coll[n] => SendPos(r, rail) = RecvPos(n, rail)
            /\ coll[r] > coll[n] => RecvPos(n, rail) = <<TotalSteps(n), rail>>
            /\ coll[n] > coll[r] => SendPos(r, rail) = <<TotalSteps(r), rail>>

\* The piece of this collective that belongs in a cell, and whether a receive
\* has ended.
Due(r, c) == <<coll[r], c[1], c[2]>>
Ended(r, s, p) ==
    \A rail \in Rail : p \in On(Dual(r), rail) =>
        LET pos == RecvPos(r, rail) IN s < pos[1] \/ (s = pos[1] /\ p < pos[2])

\* What the memory of r holds of this collective.
Land(r) == IF GpuDirect(r) THEN dst[r] ELSE buf[r]
Received(r) ==
    pc[r] \notin {"idle", "barrier"} =>
        \A s \in 0 .. TotalSteps(r) - 1, p \in Piece :
            Ended(r, s, p) => LET c == CellAt(ReceiveIndex(r, s), p) IN Land(r)[c] = Due(r, c)
OwnChunk(r) ==
    setting[r].mode # "full" =>
        \A p \in Piece :
            /\ pc[r] \in {"write", "send", "wait"} => buf[r][CellAt(r, p)] = Due(r, CellAt(r, p))
            /\ pc[r] \in {"send", "wait"} => dst[r][CellAt(r, p)] = Due(r, CellAt(r, p))
PutChunks(r) ==
    setting[r].mode = "legacy" /\ pc[r] \in {"send", "wait"} =>
        \A s \in 0 .. step[r] - 1, p \in Piece :
            LET c == CellAt(ReceiveIndex(r, s), p) IN dst[r][c] = Due(r, c)
Returns(r) == pc[r] = "idle" /\ coll[r] > 0 => \A c \in Cell : dst[r][c] = Due(r, c)

Data(r) == Received(r) /\ OwnChunk(r) /\ PutChunks(r) /\ Returns(r)

\* The ranks agree on the rails and on the number of steps.
Alike == \A r, q \in Rank : Dual(r) = Dual(q) /\ TotalSteps(r) = TotalSteps(q)

Whole == failed = {} /\ Alike => \A r \in Rank : Linked(r) /\ Data(r)

IInv == Types /\ Shape /\ Entered /\ Whole

-----------------------------------------------------------------------------
(* The indices of the ring, without the modulus.                           *)

\* The successor and the predecessor of a rank.
LEMMA Neighbours ==
  ASSUME NEW r \in Rank
  PROVE  /\ NextRank(r) = IF r = N - 1 THEN 0 ELSE r + 1
         /\ NextRank(r) \in Rank /\ PrevRank(r) \in Rank /\ NextRank(r) # r
         /\ PrevRank(NextRank(r)) = r
  <1>1. NextRank(r) = IF r = N - 1 THEN 0 ELSE r + 1
    BY RingAssumption DEF Rank, NextRank
  <1>2. ASSUME NEW q \in Rank PROVE PrevRank(q) = IF q = 0 THEN N - 1 ELSE q - 1
    BY RingAssumption DEF Rank, PrevRank
  <1>3. NextRank(r) \in Rank /\ NextRank(r) # r
    BY <1>1, RingAssumption DEF Rank
  <1>4. PrevRank(r) \in Rank
    BY <1>2, RingAssumption DEF Rank
  <1>5. PrevRank(NextRank(r)) = r
    BY <1>1, <1>2, <1>3, RingAssumption DEF Rank
  <1> QED BY <1>1, <1>3, <1>4, <1>5

\* No two ranks have the same successor.
LEMMA NextOnce ==
  ASSUME NEW r \in Rank, NEW q \in Rank, NextRank(q) = NextRank(r) PROVE q = r
  BY Neighbours

\* The chunk a rank sends in a step, and the one that it receives.
LEMMA Indices ==
  ASSUME NEW r \in Rank, NEW s \in 0 .. N - 1
  PROVE  /\ SendIndex(r, s) = IF s <= r THEN r - s ELSE r - s + N
         /\ ReceiveIndex(r, s) = IF s < r THEN r - 1 - s ELSE r - 1 - s + N
         /\ SendIndex(r, s) \in Rank /\ ReceiveIndex(r, s) \in Rank
  <1>1. r \in Nat /\ r < N /\ s \in Nat /\ s < N /\ N \in Nat /\ N >= 2
    BY RingAssumption DEF Rank
  <1>2. SendIndex(r, s) = IF s <= r THEN r - s ELSE r - s + N
    <2>1. CASE s <= r
      BY <1>1, <2>1 DEF SendIndex
    <2>2. CASE ~ (s <= r)
      BY <1>1, <2>2 DEF SendIndex
    <2> QED BY <2>1, <2>2
  <1>3. ReceiveIndex(r, s) = IF s < r THEN r - 1 - s ELSE r - 1 - s + N
    <2>1. CASE s < r
      BY <1>1, <2>1 DEF ReceiveIndex
    <2>2. CASE ~ (s < r)
      BY <1>1, <2>2 DEF ReceiveIndex
    <2> QED BY <2>1, <2>2
  <1> QED BY <1>1, <1>2, <1>3 DEF Rank

\* A rank sends its own chunk first, then what it received one step before; the
\* successor receives what it sends.
LEMMA IndexSteps ==
  ASSUME NEW r \in Rank, NEW s \in 0 .. N - 1
  PROVE  /\ ReceiveIndex(NextRank(r), s) = SendIndex(r, s)
         /\ SendIndex(r, 0) = r
         /\ s > 0 => SendIndex(r, s) = ReceiveIndex(r, s - 1)
         /\ ReceiveIndex(r, N - 1) = r
  <1>1. r \in Nat /\ r < N /\ s \in Nat /\ s < N /\ N \in Nat /\ N >= 2
    BY RingAssumption DEF Rank
  <1>2. ReceiveIndex(NextRank(r), s) = SendIndex(r, s)
    <2>1. PICK n \in Rank : n = NextRank(r) /\ n = IF r = N - 1 THEN 0 ELSE r + 1
      BY Neighbours
    <2>2. ReceiveIndex(n, s) = IF s < n THEN n - 1 - s ELSE n - 1 - s + N
      BY Indices
    <2>3. SendIndex(r, s) = IF s <= r THEN r - s ELSE r - s + N
      BY Indices
    <2>4. CASE r = N - 1
      BY <1>1, <2>1, <2>2, <2>3, <2>4
    <2>5. CASE r # N - 1
      BY <1>1, <2>1, <2>2, <2>3, <2>5
    <2> QED BY <2>4, <2>5
  <1>3. SendIndex(r, 0) = r
    <2>1. 0 \in 0 .. N - 1 /\ 0 <= r /\ r - 0 = r
      BY <1>1
    <2> QED BY <2>1, Indices
  <1>4. s > 0 => SendIndex(r, s) = ReceiveIndex(r, s - 1)
    <2> SUFFICES ASSUME s > 0 PROVE SendIndex(r, s) = ReceiveIndex(r, s - 1)
      OBVIOUS
    <2>1. s - 1 \in 0 .. N - 1
      BY <1>1
    <2>2. ReceiveIndex(r, s - 1) = IF s - 1 < r THEN r - 1 - (s - 1) ELSE r - 1 - (s - 1) + N
      BY <2>1, Indices
    <2>3. SendIndex(r, s) = IF s <= r THEN r - s ELSE r - s + N
      BY Indices
    <2> QED BY <1>1, <2>2, <2>3
  <1>5. ReceiveIndex(r, N - 1) = r
    <2>1. N - 1 \in 0 .. N - 1 /\ ~ (N - 1 < r) /\ r - 1 - (N - 1) + N = r
      BY <1>1
    <2> QED BY <2>1, Indices
  <1> QED BY <1>2, <1>3, <1>4, <1>5

\* A rank receives the chunk of every other rank in one of the first N - 1 steps.
LEMMA EveryChunk ==
  ASSUME NEW r \in Rank, NEW q \in Rank, q # r
  PROVE  \E s \in 0 .. N - 2 : ReceiveIndex(r, s) = q
  <1>1. r \in Nat /\ r < N /\ q \in Nat /\ q < N /\ N \in Nat /\ N >= 2
    BY RingAssumption DEF Rank
  <1>2. CASE q < r
    <2>1. r - 1 - q \in 0 .. N - 2 /\ r - 1 - q \in 0 .. N - 1 /\ r - 1 - q < r
      BY <1>1, <1>2
    <2>2. ReceiveIndex(r, r - 1 - q) = r - 1 - (r - 1 - q)
      BY <2>1, Indices
    <2>3. r - 1 - (r - 1 - q) = q
      BY <1>1
    <2> QED BY <2>1, <2>2, <2>3
  <1>3. CASE q > r
    <2>1. r - 1 - q + N \in 0 .. N - 2 /\ r - 1 - q + N \in 0 .. N - 1 /\ ~ (r - 1 - q + N < r)
      BY <1>1, <1>3
    <2>2. ReceiveIndex(r, r - 1 - q + N) = r - 1 - (r - 1 - q + N) + N
      BY <2>1, Indices
    <2>3. r - 1 - (r - 1 - q + N) + N = q
      BY <1>1
    <2> QED BY <2>1, <2>2, <2>3
  <1> QED BY <1>1, <1>2, <1>3

-----------------------------------------------------------------------------
(* The pieces of a rail.                                                   *)

\* The rails share the pieces among them.
LEMMA TwoRails ==
  ASSUME NEW d \in BOOLEAN
  PROVE  /\ All(d, 0) \in Nat /\ All(d, 1) \in Nat /\ All(d, 0) + All(d, 1) = Pieces
         /\ \A p \in Piece : \E rail \in Rail : p \in On(d, rail)
         /\ \A rail \in Rail : All(d, rail) = 0 <=> On(d, rail) = {}
  <1>1. Pieces \in Nat /\ Pieces >= 1
    BY RingAssumption
  <1>2. All(d, 0) \in Nat /\ All(d, 1) \in Nat /\ All(d, 0) + All(d, 1) = Pieces
    <2>1. CASE d
      BY <1>1, <2>1 DEF All, Left
    <2>2. CASE ~ d
      BY <1>1, <2>2 DEF All, Left
    <2> QED BY <2>1, <2>2
  <1>3. ASSUME NEW p \in Piece PROVE \E rail \in Rail : p \in On(d, rail)
    <2>1. p \in Nat /\ p % 2 \in {0, 1}
      BY <1>1 DEF Piece
    <2> QED BY <2>1 DEF Rail, On
  <1>4. ASSUME NEW rail \in Rail PROVE All(d, rail) = 0 <=> On(d, rail) = {}
    <2>1. rail \in {0, 1}
      BY DEF Rail
    <2>2. CASE d
      <3>1. All(d, rail) = 0 <=> rail >= Pieces
        BY <1>1, <2>1, <2>2 DEF All, Left
      <3>2. rail < Pieces => rail \in On(d, rail)
        BY <1>1, <2>1, <2>2 DEF On, Piece
      <3>3. rail >= Pieces => On(d, rail) = {}
        BY <1>1, <2>1, <2>2 DEF On, Piece
      <3> QED BY <1>1, <2>1, <3>1, <3>2, <3>3
    <2>3. CASE ~ d
      <3>1. CASE rail = 0
        <4>1. 0 \in On(d, 0)
          BY <1>1, <2>3 DEF On, Piece
        <4> QED BY <1>1, <2>3, <3>1, <4>1 DEF All, Left
      <3>2. CASE rail # 0
        BY <2>3, <3>2 DEF All, On
      <3> QED BY <3>1, <3>2
    <2> QED BY <2>2, <2>3
  <1> QED BY <1>2, <1>3, <1>4

\* The pieces from one of the rail's pieces on, and from the next.
LEMMA LeftOn ==
  ASSUME NEW d \in BOOLEAN, NEW rail \in Rail, NEW p \in On(d, rail)
  PROVE  /\ p \in Nat /\ p < Pieces /\ p >= rail /\ rail \in Nat /\ Stride(d) \in {1, 2}
         /\ rail \in On(d, rail) /\ Left(d, rail) = All(d, rail)
         /\ Left(d, p) \in Nat /\ Left(d, p) >= 1 /\ Left(d, p) <= All(d, rail)
         /\ p + Stride(d) < Pieces =>
              p + Stride(d) \in On(d, rail) /\ Left(d, p + Stride(d)) = Left(d, p) - 1
         /\ p + Stride(d) >= Pieces => Left(d, p) = 1
  <1>1. Pieces \in Nat /\ Pieces >= 1 /\ p \in Nat /\ p < Pieces /\ rail \in {0, 1}
    BY RingAssumption DEF On, Piece, Rail
  <1>2. CASE d
    <2>1. p % 2 = rail
      BY <1>2 DEF On
    <2>2. p >= rail
      BY <1>1, <2>1
    <2>3. rail \in On(d, rail)
      BY <1>1, <1>2, <2>2 DEF On, Piece
    <2>4. Left(d, p) = (Pieces - p + 1) \div 2 /\ All(d, rail) = (Pieces - rail + 1) \div 2
          /\ Left(d, rail) = All(d, rail) /\ Left(d, p + 2) = (Pieces - (p + 2) + 1) \div 2
      BY <1>2 DEF Left, All
    <2>5. /\ (Pieces - p + 1) \div 2 \in Nat /\ (Pieces - p + 1) \div 2 >= 1
          /\ (Pieces - p + 1) \div 2 <= (Pieces - rail + 1) \div 2
      BY <1>1, <2>2
    <2>6. p + 2 < Pieces => (Pieces - (p + 2) + 1) \div 2 = (Pieces - p + 1) \div 2 - 1
      BY <1>1
    <2>7. p + 2 >= Pieces => (Pieces - p + 1) \div 2 = 1
      BY <1>1
    <2>8. p + 2 < Pieces => p + 2 \in On(d, rail)
      BY <1>1, <1>2, <2>1 DEF On, Piece
    <2>9. Stride(d) = 2
      BY <1>2 DEF Stride
    <2> QED BY <1>1, <2>2, <2>3, <2>4, <2>5, <2>6, <2>7, <2>8, <2>9
  <1>3. CASE ~ d
    <2>1. rail = 0 /\ Stride(d) = 1
      BY <1>3 DEF On, Stride
    <2>2. 0 \in On(d, rail) /\ (p + 1 < Pieces => p + 1 \in On(d, rail))
      BY <1>1, <1>3, <2>1 DEF On, Piece
    <2>3. Left(d, p) = Pieces - p /\ All(d, rail) = Pieces /\ Left(d, rail) = Pieces
          /\ Left(d, p + 1) = Pieces - (p + 1)
      BY <1>1, <1>3, <2>1 DEF Left, All
    <2> QED BY <1>1, <2>1, <2>2, <2>3
  <1> QED BY <1>2, <1>3

\* Where a rail can stand: at a piece of an earlier step, or before step m.
Position(d, rail, m) == ((0 .. m - 1) \X On(d, rail)) \cup {<<m, rail>>}

\* The transfers of a step that are left.
LEMMA PendType ==
  ASSUME NEW d \in BOOLEAN, NEW rail \in Rail, NEW m \in Nat, NEW pos \in Position(d, rail, m),
         NEW s \in Nat
  PROVE  /\ Pend(d, rail, pos, m, s) \in Nat /\ Pend(d, rail, pos, m, s) <= All(d, rail)
         /\ pos[1] \in Nat /\ pos[1] <= m
         /\ Pend(d, rail, pos, m, s) = 0 /\ s < m => s < pos[1]
  <1>1. All(d, rail) \in Nat /\ (All(d, rail) = 0 <=> On(d, rail) = {})
    BY TwoRails DEF Rail
  <1>2. PICK a, b : /\ pos = <<a, b>>
                    /\ \/ a \in 0 .. m - 1 /\ b \in On(d, rail)
                       \/ a = m /\ b = rail
    BY DEF Position
  <1>3. a \in Nat /\ a <= m /\ pos[1] = a /\ pos[2] = b
    BY <1>2
  <1>4. b \in On(d, rail) => Left(d, b) \in Nat /\ Left(d, b) >= 1 /\ Left(d, b) <= All(d, rail)
    BY LeftOn
  <1>5. CASE s < a \/ s >= m
    <2>1. Pend(d, rail, pos, m, s) = 0
      BY <1>3, <1>5 DEF Pend
    <2> QED BY <1>1, <1>3, <1>5, <2>1
  <1>6. CASE s = a /\ s < m
    <2>1. Pend(d, rail, pos, m, s) = Left(d, b)
      BY <1>3, <1>6 DEF Pend
    <2> QED BY <1>1, <1>2, <1>3, <1>4, <1>6, <2>1
  <1>7. CASE s > a /\ s < m
    <2>1. Pend(d, rail, pos, m, s) = All(d, rail)
      BY <1>3, <1>7 DEF Pend
    <2>2. On(d, rail) # {}
      BY <1>2, <1>7
    <2> QED BY <1>1, <1>3, <1>7, <2>1, <2>2
  <1> QED BY <1>3, <1>5, <1>6, <1>7

\* One transfer ends.
LEMMA PendPop ==
  ASSUME NEW d \in BOOLEAN, NEW rail \in Rail, NEW m \in Nat,
         NEW a \in 0 .. m - 1, NEW b \in On(d, rail)
  PROVE  /\ Follow(d, rail, <<a, b>>) \in Position(d, rail, m)
         /\ Follow(d, rail, <<a, b>>)[1] >= a
         /\ \A s \in Nat : Pend(d, rail, Follow(d, rail, <<a, b>>), m, s)
                             = Pend(d, rail, <<a, b>>, m, s) - (IF s = a THEN 1 ELSE 0)
  <1>1. a \in Nat /\ a < m /\ b \in Nat /\ rail \in Nat /\ Stride(d) \in {1, 2} /\ Pieces \in Nat
    BY LeftOn, RingAssumption
  <1>2. CASE b + Stride(d) < Pieces
    <2>1. b + Stride(d) \in On(d, rail) /\ Left(d, b + Stride(d)) = Left(d, b) - 1
      BY <1>2, LeftOn
    <2>2. Follow(d, rail, <<a, b>>) = <<a, b + Stride(d)>>
      BY <1>2 DEF Follow
    <2>3. PICK c : c = b + Stride(d)
      OBVIOUS
    <2>4. Follow(d, rail, <<a, b>>) = <<a, c>> /\ c \in On(d, rail) /\ Left(d, c) = Left(d, b) - 1
      BY <2>1, <2>2, <2>3
    <2>5. ASSUME NEW s \in Nat
          PROVE  Pend(d, rail, <<a, c>>, m, s)
                   = Pend(d, rail, <<a, b>>, m, s) - (IF s = a THEN 1 ELSE 0)
      <3>1. Left(d, b) \in Nat /\ All(d, rail) \in Nat
        BY LeftOn, TwoRails DEF Rail
      <3> QED BY <1>1, <2>4, <3>1 DEF Pend
    <2> QED BY <1>1, <2>4, <2>5 DEF Position
  <1>3. CASE ~ (b + Stride(d) < Pieces)
    <2>1. Left(d, b) = 1 /\ rail \in On(d, rail) /\ Left(d, rail) = All(d, rail) /\ All(d, rail) \in Nat
      <3>1. b + Stride(d) >= Pieces
        BY <1>1, <1>3
      <3>2. Left(d, b) = 1 /\ rail \in On(d, rail) /\ Left(d, rail) = All(d, rail)
        BY <3>1, LeftOn
      <3>3. All(d, rail) \in Nat
        BY TwoRails DEF Rail
      <3> QED BY <3>2, <3>3
    <2>2. Follow(d, rail, <<a, b>>) = <<a + 1, rail>>
      BY <1>3 DEF Follow
    <2>3. ASSUME NEW s \in Nat
          PROVE  Pend(d, rail, <<a + 1, rail>>, m, s)
                   = Pend(d, rail, <<a, b>>, m, s) - (IF s = a THEN 1 ELSE 0)
      BY <1>1, <2>1 DEF Pend
    <2>4. <<a + 1, rail>> \in Position(d, rail, m)
      BY <1>1, <2>1 DEF Position
    <2> QED BY <1>1, <2>2, <2>3, <2>4
  <1> QED BY <1>2, <1>3

\* A step is posted.
LEMMA PendPost ==
  ASSUME NEW d \in BOOLEAN, NEW rail \in Rail, NEW m \in Nat, NEW pos \in Position(d, rail, m),
         NEW n, n = m + 1,
         NEW pos2, \/ All(d, rail) = 0 /\ pos2 = <<n, rail>>
                   \/ All(d, rail) # 0 /\ pos2 = pos,
         NEW s \in Nat
  PROVE  /\ pos2 \in Position(d, rail, n)
         /\ s = m => Pend(d, rail, pos2, n, s) = All(d, rail)
         /\ s # m => Pend(d, rail, pos2, n, s) = Pend(d, rail, pos, m, s)
  <1>1. All(d, rail) \in Nat /\ (All(d, rail) = 0 <=> On(d, rail) = {})
    BY TwoRails DEF Rail
  <1>2. PICK a, b : /\ pos = <<a, b>>
                    /\ \/ a \in 0 .. m - 1 /\ b \in On(d, rail)
                       \/ a = m /\ b = rail
    BY DEF Position
  <1>3. a \in Nat /\ a <= m
    BY <1>2
  <1>4. CASE All(d, rail) = 0
    <2>1. pos2 = <<m + 1, rail>> /\ pos = <<m, rail>>
      BY <1>1, <1>2, <1>4
    <2> QED BY <1>4, <2>1 DEF Pend, Position
  <1>5. CASE All(d, rail) # 0
    <2>1. rail \in On(d, rail) /\ Left(d, rail) = All(d, rail)
      BY <1>1, <1>5, LeftOn
    <2>2. pos2 = <<a, b>>
      BY <1>2, <1>5
    <2>3. <<a, b>> \in Position(d, rail, n)
      BY <1>2, <1>3, <2>1 DEF Position
    <2>4. CASE a < m
      BY <1>2, <1>3, <2>2, <2>3, <2>4 DEF Pend
    <2>5. CASE a = m
      <3>1. b = rail
        BY <1>2, <2>5
      <3> QED BY <1>2, <1>3, <2>1, <2>2, <2>3, <2>5, <3>1 DEF Pend
    <2> QED BY <1>3, <2>2, <2>3, <2>4, <2>5
  <1> QED BY <1>4, <1>5

\* The pieces of a rail in the order in which they are submitted.
PieceSeq(d, rail) ==
    IF d THEN [i \in 1 .. (Pieces - rail + 1) \div 2 |-> 2 * (i - 1) + rail]
    ELSE IF rail = 0 THEN [i \in 1 .. Pieces |-> i - 1]
    ELSE <<>>

LEMMA PieceSeqProperties ==
  ASSUME NEW d \in BOOLEAN, NEW rail \in Rail, NEW ps, ps = PieceSeq(d, rail)
  PROVE  /\ ps \in Seq(Nat) /\ Len(ps) = All(d, rail)
         /\ \A i \in 1 .. Len(ps) : ps[i] \in On(d, rail)
         /\ \A i \in 1 .. Len(ps) - 1 : \A a : Follow(d, rail, <<a, ps[i]>>) = <<a, ps[i + 1]>>
         /\ Len(ps) > 0 => /\ ps[1] = rail
                           /\ \A a : Follow(d, rail, <<a, ps[Len(ps)]>>) = <<a + 1, rail>>
  <1>1. Pieces \in Nat /\ Pieces >= 1 /\ rail \in {0, 1}
    BY RingAssumption DEF Rail
  <1>2. CASE d
    <2>1. PICK k : k = (Pieces - rail + 1) \div 2
      OBVIOUS
    <2>2. k \in Nat /\ 2 * k <= Pieces - rail + 1 /\ Pieces - rail + 1 <= 2 * k + 1
      BY <1>1, <2>1
    <2>3. ps = [i \in 1 .. k |-> 2 * (i - 1) + rail]
      BY <1>2, <2>1 DEF PieceSeq
    <2>4. Len(ps) = k /\ ps \in Seq(Nat) /\ \A i \in 1 .. k : ps[i] = 2 * (i - 1) + rail
      <3>1. \A i \in 1 .. k : 2 * (i - 1) + rail \in Nat
        BY <1>1, <2>2
      <3> QED BY <2>2, <2>3, <3>1
    <2>5. k = All(d, rail)
      BY <1>2, <2>1 DEF All, Left
    <2>6. ASSUME NEW i \in 1 .. k PROVE ps[i] \in On(d, rail)
      <3>1. 2 * (i - 1) + rail \in 0 .. Pieces - 1 /\ (2 * (i - 1) + rail) % 2 = rail
        BY <1>1, <2>2
      <3> QED BY <1>2, <2>4, <3>1 DEF On, Piece
    <2>7. ASSUME NEW i \in 1 .. k - 1, NEW a PROVE Follow(d, rail, <<a, ps[i]>>) = <<a, ps[i + 1]>>
      <3>1. /\ ps[i] = 2 * (i - 1) + rail /\ ps[i + 1] = 2 * (i + 1 - 1) + rail
        BY <2>2, <2>4
      <3>2. 2 * (i - 1) + rail + 2 < Pieces /\ 2 * (i - 1) + rail + 2 = 2 * (i + 1 - 1) + rail
        BY <1>1, <2>2
      <3> QED BY <1>2, <3>1, <3>2 DEF Follow, Stride
    <2>8. ASSUME k > 0 PROVE ps[1] = rail
      BY <1>1, <2>2, <2>4, <2>8
    <2>9. ASSUME k > 0, NEW a PROVE Follow(d, rail, <<a, ps[k]>>) = <<a + 1, rail>>
      <3>1. ps[k] = 2 * (k - 1) + rail /\ ~ (2 * (k - 1) + rail + 2 < Pieces)
        BY <1>1, <2>2, <2>4, <2>9
      <3> QED BY <1>2, <3>1 DEF Follow, Stride
    <2> QED BY <2>4, <2>5, <2>6, <2>7, <2>8, <2>9
  <1>3. CASE ~ d /\ rail = 0
    <2>1. ps = [i \in 1 .. Pieces |-> i - 1]
      BY <1>3 DEF PieceSeq
    <2>2. Len(ps) = Pieces /\ ps \in Seq(Nat) /\ \A i \in 1 .. Pieces : ps[i] = i - 1
      <3>1. \A i \in 1 .. Pieces : i - 1 \in Nat
        BY <1>1
      <3> QED BY <1>1, <2>1, <3>1
    <2>3. Pieces = All(d, rail)
      BY <1>1, <1>3 DEF All, Left
    <2>4. ASSUME NEW i \in 1 .. Pieces PROVE ps[i] \in On(d, rail)
      <3>1. i - 1 \in 0 .. Pieces - 1
        BY <1>1
      <3> QED BY <1>3, <2>2, <3>1 DEF On, Piece
    <2>5. ASSUME NEW i \in 1 .. Pieces - 1, NEW a
          PROVE  Follow(d, rail, <<a, ps[i]>>) = <<a, ps[i + 1]>>
      <3>1. ps[i] = i - 1 /\ ps[i + 1] = i + 1 - 1
        BY <1>1, <2>2
      <3>2. i - 1 + 1 < Pieces /\ i - 1 + 1 = i + 1 - 1
        BY <1>1
      <3> QED BY <1>3, <3>1, <3>2 DEF Follow, Stride
    <2>6. ps[1] = rail
      BY <1>1, <1>3, <2>2
    <2>7. ASSUME NEW a PROVE Follow(d, rail, <<a, ps[Pieces]>>) = <<a + 1, rail>>
      <3>1. ps[Pieces] = Pieces - 1 /\ ~ (Pieces - 1 + 1 < Pieces)
        BY <1>1, <2>2
      <3> QED BY <1>3, <3>1 DEF Follow, Stride
    <2> QED BY <2>2, <2>3, <2>4, <2>5, <2>6, <2>7
  <1>4. CASE ~ d /\ rail # 0
    <2>1. ps = <<>> /\ All(d, rail) = 0
      BY <1>4 DEF PieceSeq, All
    <2> QED BY <2>1
  <1> QED BY <1>2, <1>3, <1>4

\* What a step posts and what it submits on a rail.
NewRecvs(r, d, rail, s) ==
    [i \in 1 .. Len(PieceSeq(d, rail)) |->
       [step |-> s, cell |-> <<ReceiveIndex(r, s), PieceSeq(d, rail)[i]>>]]
NewSends(r, d, rail, s, from) ==
    [i \in 1 .. Len(PieceSeq(d, rail)) |->
       [from |-> from, cell |-> <<SendIndex(r, s), PieceSeq(d, rail)[i]>>]]

\* The queues of both rails and the counters when they are posted.
PostedQueues(f, r, d, m)     == [rail \in Rail |-> f[rail] \o NewRecvs(r, d, rail, m)]
PostedCount(p, m)            == [p EXCEPT ![m] = Pieces]
SentQueues(f, r, d, s, from) == [rail \in Rail |-> f[rail] \o NewSends(r, d, rail, s, from)]

\* The oldest entry of a rail is taken, and a counter goes down by one.
Popped(f, rail) == [f EXCEPT ![rail] = Tail(f[rail])]
Lowered(p, s)   == [p EXCEPT ![s] = p[s] - 1]

-----------------------------------------------------------------------------
(* The queues.                                                             *)

\* What the first element of a queue of receives says.
LEMMA RecvHead ==
  ASSUME NEW r, NEW d \in BOOLEAN, NEW rail \in Rail, NEW m \in 0 .. N,
         NEW q \in Seq(Recv), Receives(q, r, d, rail, m), q # <<>>
  PROVE  \E a \in 0 .. m - 1, b \in On(d, rail) :
           /\ Head(q).step = a /\ Head(q).cell = CellAt(ReceiveIndex(r, a), b)
           /\ RecvFrom(q, rail, m) = <<a, b>>
  <1>1. Len(q) \in Nat /\ Len(q) # 0
    BY EmptySeq
  <1>2. 1 \in 1 .. Len(q) /\ Head(q) = q[1]
    BY <1>1
  <1>3. q[1] \in Recv /\ m \in Int /\ N \in Nat
    BY <1>2, RingAssumption
  <1>4. q[1].step < m /\ q[1].cell[1] = ReceiveIndex(r, q[1].step) /\ q[1].cell[2] \in On(d, rail)
    BY <1>2 DEF Receives
  <1>5. q[1].step \in 0 .. N - 1 /\ q[1].cell \in Rank \X Piece
    BY <1>3 DEF Recv, Cell
  <1>6. q[1].step \in 0 .. m - 1
    BY <1>3, <1>4, <1>5
  <1>7. q[1].cell = CellAt(ReceiveIndex(r, q[1].step), q[1].cell[2])
    BY <1>4, <1>5 DEF CellAt
  <1>8. RecvFrom(q, rail, m) = <<q[1].step, q[1].cell[2]>>
    BY DEF RecvFrom
  <1> QED BY <1>2, <1>4, <1>6, <1>7, <1>8

\* Where a rail stands in its receives.
LEMMA RecvPlace ==
  ASSUME NEW r, NEW d \in BOOLEAN, NEW rail \in Rail, NEW m \in 0 .. N,
         NEW q \in Seq(Recv), Receives(q, r, d, rail, m)
  PROVE  RecvFrom(q, rail, m) \in Position(d, rail, m)
  <1>1. CASE q = <<>>
    BY <1>1 DEF RecvFrom, Position
  <1>2. CASE q # <<>>
    <2>1. PICK a \in 0 .. m - 1, b \in On(d, rail) : RecvFrom(q, rail, m) = <<a, b>>
      BY <1>2, RecvHead
    <2> QED BY <2>1 DEF Position
  <1> QED BY <1>1, <1>2

\* A receive ends.
LEMMA RecvTail ==
  ASSUME NEW r, NEW d \in BOOLEAN, NEW rail \in Rail, NEW m \in 0 .. N,
         NEW q \in Seq(Recv), Receives(q, r, d, rail, m), q # <<>>
  PROVE  /\ Tail(q) \in Seq(Recv) /\ Receives(Tail(q), r, d, rail, m)
         /\ RecvFrom(Tail(q), rail, m) = Follow(d, rail, RecvFrom(q, rail, m))
  <1>1. PICK t : t = Tail(q)
    OBVIOUS
  <1>2. Len(q) \in Nat /\ Len(q) >= 1
    <2>1. Len(q) \in Nat /\ Len(q) # 0
      BY EmptySeq
    <2> QED BY <2>1
  <1>3. t \in Seq(Recv) /\ Len(t) = Len(q) - 1 /\ \A i \in 1 .. Len(t) : t[i] = q[i + 1]
    BY <1>1, HeadTailProperties
  <1>4. PICK k \in Nat : k = Len(t) /\ Len(q) = k + 1
    BY <1>2, <1>3
  <1>5. ASSUME NEW i \in 1 .. k
        PROVE  /\ t[i].step < m /\ t[i].cell[1] = ReceiveIndex(r, t[i].step)
               /\ t[i].cell[2] \in On(d, rail)
    <2>1. PICK j \in 1 .. Len(q) : t[i] = q[j]
      <3>1. i + 1 \in 1 .. Len(q) /\ t[i] = q[i + 1]
        BY <1>3, <1>4
      <3> QED BY <3>1
    <2> QED BY <2>1 DEF Receives
  <1>6. ASSUME NEW i \in 1 .. k - 1
        PROVE  <<t[i + 1].step, t[i + 1].cell[2]>> = Follow(d, rail, <<t[i].step, t[i].cell[2]>>)
    <2>1. i + 1 \in 1 .. Len(q) - 1 /\ t[i] = q[i + 1] /\ t[i + 1] = q[i + 1 + 1]
      <3>1. i \in 1 .. Len(t) /\ i + 1 \in 1 .. Len(t) /\ i + 1 \in 1 .. Len(q) - 1
        BY ONLY <1>4, i \in 1 .. k - 1
      <3>2. \A j \in 1 .. Len(t) : t[j] = q[j + 1]
        BY <1>3
      <3>3. t[i] = q[i + 1]
        BY ONLY <3>1, <3>2
      <3>4. t[i + 1] = q[i + 1 + 1]
        BY ONLY <3>1, <3>2
      <3> QED BY <3>1, <3>3, <3>4
    <2> QED BY ONLY <2>1, Receives(q, r, d, rail, m) DEF Receives
  <1>7. ASSUME k # 0
        PROVE  Follow(d, rail, <<t[k].step, t[k].cell[2]>>) = <<m, rail>>
    <2>1. t[k] = q[Len(q)]
      BY <1>3, <1>4, <1>7
    <2> QED BY <2>1 DEF Receives
  <1>8. t = <<>> <=> k = 0
    BY <1>3, <1>4, EmptySeq
  <1>9. Receives(t, r, d, rail, m)
    BY <1>4, <1>5, <1>6, <1>7, <1>8 DEF Receives
  <1>10. RecvFrom(t, rail, m) = Follow(d, rail, <<q[1].step, q[1].cell[2]>>)
    <2>1. CASE k = 0
      <3>1. Len(q) = 1
        BY <1>4, <2>1
      <3> QED BY <1>8, <2>1, <3>1 DEF Receives, RecvFrom
    <2>2. CASE k # 0
      <3>1. 1 \in 1 .. Len(q) - 1 /\ t[1] = q[1 + 1]
        BY <1>3, <1>4, <2>2
      <3> QED BY <1>8, <2>2, <3>1 DEF Receives, RecvFrom
    <2> QED BY <2>1, <2>2
  <1> QED BY <1>1, <1>3, <1>9, <1>10 DEF RecvFrom

\* The receives of a step are posted.
LEMMA RecvPosted ==
  ASSUME NEW r \in Rank, NEW d \in BOOLEAN, NEW rail \in Rail, NEW m \in 0 .. N - 1,
         NEW q \in Seq(Recv), Receives(q, r, d, rail, m), NEW ps, ps = PieceSeq(d, rail),
         NEW new, new = NewRecvs(r, d, rail, m)
  PROVE  /\ q \o new \in Seq(Recv) /\ Receives(q \o new, r, d, rail, m + 1)
         /\ RecvFrom(q \o new, rail, m + 1)
              = IF All(d, rail) = 0 THEN <<m + 1, rail>> ELSE RecvFrom(q, rail, m)
  <1>1. /\ ps \in Seq(Nat) /\ \A i \in 1 .. Len(ps) : ps[i] \in On(d, rail)
        /\ \A i \in 1 .. Len(ps) - 1 : \A a : Follow(d, rail, <<a, ps[i]>>) = <<a, ps[i + 1]>>
        /\ Len(ps) > 0 => /\ ps[1] = rail
                          /\ \A a : Follow(d, rail, <<a, ps[Len(ps)]>>) = <<a + 1, rail>>
        /\ Len(ps) = 0 <=> On(d, rail) = {}
        /\ All(d, rail) = 0 <=> On(d, rail) = {}
    <2>1. Len(ps) = All(d, rail) /\ (All(d, rail) = 0 <=> On(d, rail) = {})
      BY PieceSeqProperties, TwoRails DEF Rail
    <2> QED BY <2>1, PieceSeqProperties
  <1>2. PICK l \in Nat : l = Len(ps)
    BY <1>1
  <1>3. PICK k \in Nat : k = Len(q)
    OBVIOUS
  <1>4. m \in Nat /\ m < N /\ m + 1 > m
    BY RingAssumption
  <1>5. PICK x \in Rank : x = ReceiveIndex(r, m)
    BY Indices
  <1>6. /\ new \in Seq(Recv) /\ Len(new) = l
        /\ \A i \in 1 .. l : new[i] = [step |-> m, cell |-> <<ReceiveIndex(r, m), ps[i]>>]
    <2>1. ASSUME NEW i \in 1 .. l PROVE [step |-> m, cell |-> <<x, ps[i]>>] \in Recv
      <3>1. ps[i] \in Piece
        BY <1>1, <1>2 DEF On
      <3> QED BY <3>1 DEF Recv, Cell
    <2>2. new = [i \in 1 .. l |-> [step |-> m, cell |-> <<x, ps[i]>>]]
      BY <1>2, <1>5 DEF NewRecvs
    <2> QED BY <1>2, <1>5, <2>1, <2>2
  <1>7. PICK c : c = q \o new
    OBVIOUS
  <1>8. /\ c \in Seq(Recv) /\ Len(c) = k + l
        /\ \A i \in 1 .. k : c[i] = q[i]
        /\ \A i \in 1 .. l : c[k + i] = new[i]
    <2>1. c \in Seq(Recv) /\ Len(c) = k + l
      BY <1>3, <1>6, <1>7, ConcatProperties
    <2>2. \A i \in 1 .. k + l : c[i] = IF i <= k THEN q[i] ELSE new[i - k]
      BY <1>3, <1>6, <1>7, ConcatProperties
    <2>3. ASSUME NEW i \in 1 .. l PROVE c[k + i] = new[i]
      <3>1. PICK j \in 1 .. k + l : j = k + i /\ ~ (j <= k) /\ j - k = i
        <4>1. k + i \in 1 .. k + l /\ ~ (k + i <= k) /\ k + i - k = i
          OBVIOUS
        <4> QED BY <4>1
      <3>2. c[j] = new[j - k]
        BY <2>2, <3>1
      <3> QED BY <3>1, <3>2
    <2>4. ASSUME NEW i \in 1 .. k PROVE c[i] = q[i]
      <3>1. i \in 1 .. k + l /\ i <= k
        OBVIOUS
      <3> QED BY <2>2, <3>1
    <2> QED BY <2>1, <2>3, <2>4
  <1>9. ASSUME NEW i \in 1 .. l
        PROVE  /\ c[k + i].step = m /\ c[k + i].cell[1] = ReceiveIndex(r, m)
               /\ c[k + i].cell[2] = ps[i]
    <2>1. c[k + i] = new[i]
      BY <1>8
    <2>2. new[i] = [step |-> m, cell |-> <<ReceiveIndex(r, m), ps[i]>>]
      BY <1>6
    <2> QED BY <2>1, <2>2
  <1>10. ASSUME NEW i \in 1 .. k + l
         PROVE  /\ c[i].step < m + 1 /\ c[i].cell[1] = ReceiveIndex(r, c[i].step)
                /\ c[i].cell[2] \in On(d, rail)
    <2>1. CASE i <= k
      <3>1. i \in 1 .. Len(q) /\ c[i] = q[i]
        BY <1>3, <1>8, <2>1
      <3>2. q[i] \in Recv
        BY <3>1
      <3>3. q[i].step < m /\ q[i].step \in Int
        BY <3>1, <3>2 DEF Receives, Recv
      <3>4. q[i].step < m + 1
        BY <1>4, <3>3
      <3> QED BY <3>1, <3>4 DEF Receives
    <2>2. CASE i > k
      <3>1. PICK j \in 1 .. l : i = k + j
        <4>1. i - k \in 1 .. l /\ i = k + (i - k)
          BY <2>2
        <4> QED BY <4>1
      <3> QED BY <1>1, <1>2, <1>4, <1>9, <3>1
    <2> QED BY <2>1, <2>2
  <1>11. ASSUME NEW i \in 1 .. k + l - 1
         PROVE  <<c[i + 1].step, c[i + 1].cell[2]>> = Follow(d, rail, <<c[i].step, c[i].cell[2]>>)
    <2>1. CASE i < k
      <3>1. i \in 1 .. Len(q) - 1 /\ c[i] = q[i] /\ c[i + 1] = q[i + 1]
        BY <1>3, <1>8, <2>1
      <3> QED BY <3>1 DEF Receives
    <2>2. CASE i = k
      <3>1. k # 0 /\ l # 0 /\ 1 \in 1 .. l
        BY <2>2
      <3>2. c[i] = q[Len(q)] /\ q # <<>>
        BY <1>3, <1>8, <2>2, <3>1, EmptySeq
      <3>3. Follow(d, rail, <<c[i].step, c[i].cell[2]>>) = <<m, rail>>
        BY <3>2 DEF Receives
      <3>4. c[i + 1].step = m /\ c[i + 1].cell[2] = rail
        BY <1>1, <1>2, <1>9, <2>2, <3>1
      <3> QED BY <3>3, <3>4
    <2>3. CASE i > k
      <3>1. PICK j \in 1 .. l - 1 : i = k + j /\ i + 1 = k + (j + 1)
        <4>1. i - k \in 1 .. l - 1 /\ i = k + (i - k) /\ i + 1 = k + (i - k + 1)
          BY <2>3
        <4> QED BY <4>1
      <3>2. j \in 1 .. l /\ j + 1 \in 1 .. l
        OBVIOUS
      <3>3. c[i].step = m /\ c[i].cell[2] = ps[j] /\ c[i + 1].step = m /\ c[i + 1].cell[2] = ps[j + 1]
        BY <1>9, <3>1, <3>2
      <3> QED BY <1>1, <1>2, <3>1, <3>3
    <2> QED BY <2>1, <2>2, <2>3
  <1>12. ASSUME k + l # 0
         PROVE  Follow(d, rail, <<c[k + l].step, c[k + l].cell[2]>>) = <<m + 1, rail>>
    <2>1. l # 0
      <3> SUFFICES ASSUME l = 0 PROVE FALSE
        OBVIOUS
      <3>1. k \in 1 .. Len(q)
        BY <1>3, <1>12
      <3> QED BY <1>1, <1>2, <3>1 DEF Receives
    <2>2. l \in 1 .. l /\ l > 0
      BY <2>1
    <2> QED BY <1>1, <1>2, <1>9, <2>2
  <1>13. c = <<>> <=> k + l = 0
    BY <1>8, EmptySeq
  <1>14. Receives(c, r, d, rail, m + 1)
    BY <1>8, <1>10, <1>11, <1>12, <1>13 DEF Receives
  <1>15. RecvFrom(c, rail, m + 1)
           = IF All(d, rail) = 0 THEN <<m + 1, rail>> ELSE RecvFrom(q, rail, m)
    <2>1. q = <<>> <=> k = 0
      BY <1>3, EmptySeq
    <2>2. CASE k # 0
      <3>1. 1 \in 1 .. k /\ 1 \in 1 .. Len(q)
        BY <1>3, <2>2
      <3>2. c[1] = q[1] /\ c # <<>> /\ q # <<>>
        BY <1>8, <1>13, <2>1, <2>2, <3>1
      <3>3. q[1].cell[2] \in On(d, rail)
        BY <3>1 DEF Receives
      <3>4. All(d, rail) # 0
        BY <1>1, <3>3
      <3> QED BY <3>2, <3>4 DEF RecvFrom
    <2>3. CASE k = 0 /\ l = 0
      BY <1>1, <1>2, <1>13, <2>3 DEF RecvFrom
    <2>4. CASE k = 0 /\ l # 0
      <3>1. 1 \in 1 .. l /\ k + 1 = 1 /\ l > 0
        BY <2>4
      <3>2. c[1].step = m /\ c[1].cell[2] = rail /\ All(d, rail) # 0 /\ c # <<>> /\ q = <<>>
        BY <1>1, <1>2, <1>9, <1>13, <2>1, <2>4, <3>1
      <3> QED BY <3>2 DEF RecvFrom
    <2> QED BY <2>2, <2>3, <2>4
  <1> QED BY <1>7, <1>8, <1>14, <1>15

\* What the first element of a queue of sends says.
LEMMA SendHead ==
  ASSUME NEW r, NEW d \in BOOLEAN, NEW rail \in Rail, NEW s \in Nat, NEW from,
         NEW q \in Seq(Sending), Sends(q, r, d, rail, s, from), q # <<>>
  PROVE  \E b \in On(d, rail) : /\ Head(q).from = from /\ Head(q).cell = CellAt(SendIndex(r, s), b)
                                /\ SendFirst(q, rail, s) = <<s, b>>
  <1>1. Len(q) \in Nat /\ Len(q) # 0
    BY EmptySeq
  <1>2. 1 \in 1 .. Len(q) /\ Head(q) = q[1]
    BY <1>1
  <1>3. q[1].from = from /\ q[1].cell[1] = SendIndex(r, s) /\ q[1].cell[2] \in On(d, rail)
    BY <1>2 DEF Sends
  <1>4. q[1] \in Sending
    BY <1>2
  <1>5. q[1].cell \in Rank \X Piece
    BY <1>4 DEF Sending, Cell
  <1>6. q[1].cell = CellAt(SendIndex(r, s), q[1].cell[2])
    BY <1>3, <1>5 DEF CellAt
  <1>7. SendFirst(q, rail, s) = <<s, q[1].cell[2]>>
    BY DEF SendFirst
  <1> QED BY <1>2, <1>3, <1>6, <1>7

\* Where a rail stands in its sends.
LEMMA SendPlace ==
  ASSUME NEW r, NEW d \in BOOLEAN, NEW rail \in Rail, NEW s \in Nat, NEW from,
         NEW q \in Seq(Sending), Sends(q, r, d, rail, s, from), NEW n, n = s + 1
  PROVE  /\ SendFirst(q, rail, s) \in Position(d, rail, n)
         /\ q # <<>> => SendFirst(q, rail, s)[1] = s
  <1>1. CASE q = <<>>
    BY <1>1 DEF SendFirst, Position
  <1>2. CASE q # <<>>
    <2>1. PICK b \in On(d, rail) : SendFirst(q, rail, s) = <<s, b>>
      BY <1>2, SendHead
    <2>2. s \in 0 .. n - 1
      OBVIOUS
    <2> QED BY <2>1, <2>2 DEF Position
  <1> QED BY <1>1, <1>2

\* A send ends.
LEMMA SendTail ==
  ASSUME NEW r, NEW d \in BOOLEAN, NEW rail \in Rail, NEW s \in Nat, NEW from,
         NEW q \in Seq(Sending), Sends(q, r, d, rail, s, from), q # <<>>
  PROVE  /\ Tail(q) \in Seq(Sending) /\ Sends(Tail(q), r, d, rail, s, from)
         /\ SendFirst(Tail(q), rail, s) = Follow(d, rail, SendFirst(q, rail, s))
  <1>1. PICK t : t = Tail(q)
    OBVIOUS
  <1>2. Len(q) \in Nat /\ Len(q) >= 1
    <2>1. Len(q) \in Nat /\ Len(q) # 0
      BY EmptySeq
    <2> QED BY <2>1
  <1>3. t \in Seq(Sending) /\ Len(t) = Len(q) - 1 /\ \A i \in 1 .. Len(t) : t[i] = q[i + 1]
    BY <1>1, HeadTailProperties
  <1>4. PICK k \in Nat : k = Len(t) /\ Len(q) = k + 1
    BY <1>2, <1>3
  <1>5. ASSUME NEW i \in 1 .. k
        PROVE  t[i].from = from /\ t[i].cell[1] = SendIndex(r, s) /\ t[i].cell[2] \in On(d, rail)
    <2>1. PICK j \in 1 .. Len(q) : t[i] = q[j]
      <3>1. i + 1 \in 1 .. Len(q) /\ t[i] = q[i + 1]
        BY <1>3, <1>4
      <3> QED BY <3>1
    <2> QED BY <2>1 DEF Sends
  <1>6. ASSUME NEW i \in 1 .. k - 1
        PROVE  <<s, t[i + 1].cell[2]>> = Follow(d, rail, <<s, t[i].cell[2]>>)
    <2>1. i + 1 \in 1 .. Len(q) - 1 /\ t[i] = q[i + 1] /\ t[i + 1] = q[i + 1 + 1]
      <3>1. i \in 1 .. Len(t) /\ i + 1 \in 1 .. Len(t) /\ i + 1 \in 1 .. Len(q) - 1
        BY ONLY <1>4, i \in 1 .. k - 1
      <3>2. \A j \in 1 .. Len(t) : t[j] = q[j + 1]
        BY <1>3
      <3>3. t[i] = q[i + 1]
        BY ONLY <3>1, <3>2
      <3>4. t[i + 1] = q[i + 1 + 1]
        BY ONLY <3>1, <3>2
      <3> QED BY <3>1, <3>3, <3>4
    <2> QED BY ONLY <2>1, Sends(q, r, d, rail, s, from) DEF Sends
  <1>7. ASSUME k # 0 PROVE Follow(d, rail, <<s, t[k].cell[2]>>) = <<s + 1, rail>>
    <2>1. t[k] = q[Len(q)]
      BY <1>3, <1>4, <1>7
    <2> QED BY <2>1 DEF Sends
  <1>8. t = <<>> <=> k = 0
    BY <1>3, <1>4, EmptySeq
  <1>9. Sends(t, r, d, rail, s, from)
    BY <1>4, <1>5, <1>6, <1>7, <1>8 DEF Sends
  <1>10. SendFirst(t, rail, s) = Follow(d, rail, <<s, q[1].cell[2]>>)
    <2>1. CASE k = 0
      <3>1. Len(q) = 1
        BY <1>4, <2>1
      <3> QED BY <1>8, <2>1, <3>1 DEF Sends, SendFirst
    <2>2. CASE k # 0
      <3>1. 1 \in 1 .. Len(q) - 1 /\ t[1] = q[1 + 1]
        BY <1>3, <1>4, <2>2
      <3> QED BY <1>8, <2>2, <3>1 DEF Sends, SendFirst
    <2> QED BY <2>1, <2>2
  <1> QED BY <1>1, <1>3, <1>9, <1>10 DEF SendFirst

\* The sends of a step are submitted.
LEMMA SendPosted ==
  ASSUME NEW r \in Rank, NEW d \in BOOLEAN, NEW rail \in Rail, NEW s \in 0 .. N - 1,
         NEW from \in {"src", "buf", "dst"}, NEW new, new = NewSends(r, d, rail, s, from)
  PROVE  /\ new \in Seq(Sending) /\ Sends(new, r, d, rail, s, from)
         /\ All(d, rail) = 0 => SendFirst(new, rail, s) = <<s + 1, rail>>
         /\ All(d, rail) # 0 => SendFirst(new, rail, s) = <<s, rail>>
  <1>1. PICK ps : ps = PieceSeq(d, rail)
    OBVIOUS
  <1>2. /\ ps \in Seq(Nat) /\ \A i \in 1 .. Len(ps) : ps[i] \in On(d, rail)
        /\ \A i \in 1 .. Len(ps) - 1 : \A a : Follow(d, rail, <<a, ps[i]>>) = <<a, ps[i + 1]>>
        /\ Len(ps) > 0 => /\ ps[1] = rail
                          /\ \A a : Follow(d, rail, <<a, ps[Len(ps)]>>) = <<a + 1, rail>>
        /\ Len(ps) = 0 <=> All(d, rail) = 0
    BY ONLY <1>1, PieceSeqProperties
  <1>3. PICK l \in Nat : l = Len(ps)
    BY <1>2
  <1>4. PICK x \in Rank : x = SendIndex(r, s)
    BY Indices
  <1>5. /\ new \in Seq(Sending) /\ Len(new) = l
        /\ \A i \in 1 .. l : new[i] = [from |-> from, cell |-> <<x, ps[i]>>]
    <2>1. ASSUME NEW i \in 1 .. l PROVE [from |-> from, cell |-> <<x, ps[i]>>] \in Sending
      <3>1. ps[i] \in Piece
        BY <1>2, <1>3 DEF On
      <3> QED BY <3>1 DEF Sending, Cell
    <2>2. new = [i \in 1 .. l |-> [from |-> from, cell |-> <<x, ps[i]>>]]
      BY <1>1, <1>3, <1>4 DEF NewSends
    <2> QED BY <1>3, <2>1, <2>2
  <1>6. ASSUME NEW i \in 1 .. l
        PROVE  new[i].from = from /\ new[i].cell[1] = SendIndex(r, s) /\ new[i].cell[2] = ps[i]
    <2>1. new[i] = [from |-> from, cell |-> <<x, ps[i]>>]
      BY <1>5
    <2> QED BY <1>4, <2>1
  <1>7. new = <<>> <=> l = 0
    BY <1>5, EmptySeq
  <1>8. ASSUME NEW i \in 1 .. l - 1
        PROVE  <<s, new[i + 1].cell[2]>> = Follow(d, rail, <<s, new[i].cell[2]>>)
    <2>1. i \in 1 .. l /\ i + 1 \in 1 .. l
      OBVIOUS
    <2>2. new[i].cell[2] = ps[i] /\ new[i + 1].cell[2] = ps[i + 1]
      BY <1>6, <2>1
    <2> QED BY <1>2, <1>3, <2>2
  <1>9. ASSUME l # 0
        PROVE  Follow(d, rail, <<s, new[l].cell[2]>>) = <<s + 1, rail>> /\ new[1].cell[2] = rail
    <2>1. l \in 1 .. l /\ 1 \in 1 .. l /\ l > 0
      BY <1>9
    <2> QED BY <1>2, <1>3, <1>6, <2>1
  <1>10. Sends(new, r, d, rail, s, from)
    <2>1. \A i \in 1 .. l : /\ new[i].from = from /\ new[i].cell[1] = SendIndex(r, s)
                             /\ new[i].cell[2] \in On(d, rail)
      BY <1>2, <1>3, <1>6
    <2>2. \A i \in 1 .. l - 1 : <<s, new[i + 1].cell[2]>> = Follow(d, rail, <<s, new[i].cell[2]>>)
      BY <1>8
    <2>3. Len(new) = l
      BY <1>5
    <2>4. new # <<>> => Follow(d, rail, <<s, new[Len(new)].cell[2]>>) = <<s + 1, rail>>
      BY <1>7, <1>9, <2>3
    <2> QED BY <2>1, <2>2, <2>3, <2>4 DEF Sends
  <1>11. l = 0 <=> All(d, rail) = 0
    BY <1>2, <1>3
  <1>12. All(d, rail) = 0 => SendFirst(new, rail, s) = <<s + 1, rail>>
    BY <1>7, <1>11 DEF SendFirst
  <1>13. All(d, rail) # 0 => SendFirst(new, rail, s) = <<s, rail>>
    BY <1>7, <1>9, <1>11 DEF SendFirst
  <1> QED BY <1>5, <1>10, <1>12, <1>13

\* Nothing is pending where a rail stands at the end.
LEMMA PendEnd ==
  ASSUME NEW d, NEW rail, NEW m \in Nat, NEW s \in Nat
  PROVE  Pend(d, rail, <<m, rail>>, m, s) = 0
  BY DEF Pend

\* The queues of receives when nothing is posted.
LEMMA RecvNone ==
  ASSUME NEW f, f[0] = <<>>, f[1] = <<>>, NEW p, NEW r, NEW d, NEW m \in Nat
  PROVE  RecvQueues(f, p, r, d, m) <=> \A s \in 0 .. N - 1 : p[s] = 0
  <1>1. \A rail \in Rail : f[rail] = <<>>
    BY DEF Rail
  <1>2. \A rail \in Rail : Receives(f[rail], r, d, rail, m)
    BY <1>1 DEF Receives
  <1>3. RecvFrom(f[0], 0, m) = <<m, 0>> /\ RecvFrom(f[1], 1, m) = <<m, 1>>
    BY DEF RecvFrom
  <1>4. ASSUME NEW s \in 0 .. N - 1
        PROVE  Pend(d, 0, <<m, 0>>, m, s) = 0 /\ Pend(d, 1, <<m, 1>>, m, s) = 0
    <2>1. s \in Nat
      BY RingAssumption
    <2> QED BY <2>1, PendEnd
  <1> QED BY <1>2, <1>3, <1>4 DEF RecvQueues

\* The receives of a step are posted on both rails.
LEMMA RecvQueuesPost ==
  ASSUME NEW r \in Rank, NEW d \in BOOLEAN, NEW m \in 0 .. N - 1,
         NEW f, f \in [Rail -> Seq(Recv)], NEW p, p \in [0 .. N - 1 -> Int],
         RecvQueues(f, p, r, d, m),
         NEW n, n = m + 1,
         NEW f2, f2 = PostedQueues(f, r, d, m), NEW p2, p2 = PostedCount(p, m)
  PROVE  /\ f2 \in [Rail -> Seq(Recv)] /\ p2 \in [0 .. N - 1 -> Int]
         /\ RecvQueues(f2, p2, r, d, n)
         /\ \A rail \in Rail :
              /\ All(d, rail) = 0 => RecvFrom(f2[rail], rail, n) = <<n, rail>>
              /\ All(d, rail) # 0 => RecvFrom(f2[rail], rail, n) = RecvFrom(f[rail], rail, m)
  <1>0. /\ f2 = [rail \in Rail |-> f[rail] \o NewRecvs(r, d, rail, m)]
        /\ p2 = [p EXCEPT ![m] = Pieces]
    BY DEF PostedQueues, PostedCount
  <1>1. m \in Nat /\ m \in 0 .. N /\ 0 \in Rail /\ 1 \in Rail /\ Pieces \in Int
    BY RingAssumption DEF Rail
  <1>2. ASSUME NEW rail \in Rail
        PROVE  /\ f2[rail] \in Seq(Recv) /\ Receives(f2[rail], r, d, rail, m + 1)
               /\ RecvFrom(f2[rail], rail, m + 1)
                    = IF All(d, rail) = 0 THEN <<m + 1, rail>> ELSE RecvFrom(f[rail], rail, m)
    <2>1. PICK ps : ps = PieceSeq(d, rail)
      OBVIOUS
    <2>2. PICK new : new = NewRecvs(r, d, rail, m)
      OBVIOUS
    <2>3. PICK q \in Seq(Recv) : q = f[rail] /\ Receives(q, r, d, rail, m)
      BY DEF RecvQueues
    <2>4. f2[rail] = q \o new
      BY <1>0, <2>1, <2>2, <2>3
    <2>5. /\ q \o new \in Seq(Recv) /\ Receives(q \o new, r, d, rail, m + 1)
          /\ RecvFrom(q \o new, rail, m + 1)
               = IF All(d, rail) = 0 THEN <<m + 1, rail>> ELSE RecvFrom(q, rail, m)
      BY <2>1, <2>2, <2>3, RecvPosted
    <2> QED BY <2>3, <2>4, <2>5
  <1>3. f2 \in [Rail -> Seq(Recv)] /\ p2 \in [0 .. N - 1 -> Int]
    BY <1>0, <1>1, <1>2
  <1>4. ASSUME NEW rail \in Rail, NEW s \in Nat
        PROVE  /\ s = m => Pend(d, rail, RecvFrom(f2[rail], rail, m + 1), m + 1, s) = All(d, rail)
               /\ s # m => Pend(d, rail, RecvFrom(f2[rail], rail, m + 1), m + 1, s)
                             = Pend(d, rail, RecvFrom(f[rail], rail, m), m, s)
    <2>1. RecvFrom(f[rail], rail, m) \in Position(d, rail, m)
      BY <1>1, RecvPlace DEF RecvQueues
    <2>2. PICK pos \in Position(d, rail, m) : pos = RecvFrom(f[rail], rail, m)
      BY <2>1
    <2>3. PICK pos2 : pos2 = RecvFrom(f2[rail], rail, m + 1)
      OBVIOUS
    <2>5. \/ All(d, rail) = 0 /\ pos2 = <<n, rail>>
          \/ All(d, rail) # 0 /\ pos2 = pos
      BY <1>2, <2>2, <2>3
    <2>6. /\ s = m => Pend(d, rail, pos2, n, s) = All(d, rail)
          /\ s # m => Pend(d, rail, pos2, n, s) = Pend(d, rail, pos, m, s)
      <3>1. m \in Nat /\ s \in Nat
        BY <1>1
      <3> QED BY ONLY n = m + 1, <2>5, <3>1, PendPost, d \in BOOLEAN, rail \in Rail, pos \in Position(d, rail, m)
    <2> QED BY <2>2, <2>3, <2>6
  <1>5. ASSUME NEW s \in 0 .. N - 1
        PROVE  p2[s] = Pend(d, 0, RecvFrom(f2[0], 0, m + 1), m + 1, s)
                       + Pend(d, 1, RecvFrom(f2[1], 1, m + 1), m + 1, s)
    <2>1. s \in Nat
      BY RingAssumption
    <2>2. CASE s = m
      <3>1. p2[s] = Pieces
        BY <1>0, <1>1, <2>2
      <3>2. All(d, 0) + All(d, 1) = Pieces
        BY TwoRails
      <3> QED BY <1>1, <1>4, <2>1, <2>2, <3>1, <3>2
    <2>3. CASE s # m
      <3>1. p2[s] = p[s]
        BY <1>0, <1>1, <2>3
      <3>2. p[s] = Pend(d, 0, RecvFrom(f[0], 0, m), m, s) + Pend(d, 1, RecvFrom(f[1], 1, m), m, s)
        BY DEF RecvQueues
      <3> QED BY <1>1, <1>4, <2>1, <2>3, <3>1, <3>2
    <2> QED BY <2>2, <2>3
  <1>6. RecvQueues(f2, p2, r, d, m + 1)
    BY <1>2, <1>5 DEF RecvQueues
  <1> QED BY <1>2, <1>3, <1>6

\* A receive ends on one of the rails.
LEMMA RecvQueuesPop ==
  ASSUME NEW r, NEW d \in BOOLEAN, NEW m \in 0 .. N, NEW rail \in Rail,
         NEW f, f \in [Rail -> Seq(Recv)], NEW p, p \in [0 .. N - 1 -> Int],
         RecvQueues(f, p, r, d, m), f[rail] # <<>>,
         NEW f2, f2 = Popped(f, rail), NEW p2, p2 = Lowered(p, Head(f[rail]).step)
  PROVE  RecvQueues(f2, p2, r, d, m)
  <1>1. f[rail] \in Seq(Recv) /\ Receives(f[rail], r, d, rail, m) /\ N \in Nat /\ m \in Nat
    BY RingAssumption DEF RecvQueues
  <1>2. PICK a \in 0 .. m - 1, b \in On(d, rail) : /\ Head(f[rail]).step = a
                                                   /\ RecvFrom(f[rail], rail, m) = <<a, b>>
    <2>1. PICK q \in Seq(Recv) : q = f[rail]
      BY <1>1
    <2>2. Receives(q, r, d, rail, m) /\ q # <<>>
      BY <1>1, <2>1
    <2>3. PICK a \in 0 .. m - 1, b \in On(d, rail) : Head(q).step = a /\ RecvFrom(q, rail, m) = <<a, b>>
      BY <2>2, RecvHead
    <2> QED BY <2>1, <2>3
  <1>3. a \in 0 .. N - 1 /\ a \in Nat
    BY <1>1, <1>2
  <1>4. /\ Tail(f[rail]) \in Seq(Recv) /\ Receives(Tail(f[rail]), r, d, rail, m)
        /\ RecvFrom(Tail(f[rail]), rail, m) = Follow(d, rail, RecvFrom(f[rail], rail, m))
    BY <1>1, RecvTail
  <1>5. f2[rail] = Tail(f[rail]) /\ \A other \in Rail \ {rail} : f2[other] = f[other]
    BY DEF Popped
  <1>7. p2 = [p EXCEPT ![a] = p[a] - 1]
    BY <1>2 DEF Lowered
  <1>8. p2 \in [0 .. N - 1 -> Int] /\ \A s \in 0 .. N - 1 : p2[s] = p[s] - (IF s = a THEN 1 ELSE 0)
    <2>1. p[a] - 1 \in Int
      BY ONLY <1>3, p \in [0 .. N - 1 -> Int]
    <2>2. \A s \in 0 .. N - 1 : p[s] \in Int
      BY ONLY p \in [0 .. N - 1 -> Int]
    <2> QED BY ONLY <1>3, <1>7, <2>1, <2>2, p \in [0 .. N - 1 -> Int]
  <1>9. \A other \in Rail : Receives(f2[other], r, d, other, m)
    BY <1>4, <1>5 DEF RecvQueues
  <1>10. ASSUME NEW s \in 0 .. N - 1
         PROVE  p2[s] = Pend(d, 0, RecvFrom(f2[0], 0, m), m, s) + Pend(d, 1, RecvFrom(f2[1], 1, m), m, s)
    <2>1. /\ Pend(d, rail, RecvFrom(f2[rail], rail, m), m, s)
               = Pend(d, rail, RecvFrom(f[rail], rail, m), m, s) - (IF s = a THEN 1 ELSE 0)
          /\ s \in Nat
      <3>1. s \in Nat
        BY RingAssumption
      <3>2. RecvFrom(f2[rail], rail, m) = Follow(d, rail, <<a, b>>)
        BY <1>2, <1>4, <1>5
      <3>3. Pend(d, rail, Follow(d, rail, <<a, b>>), m, s)
              = Pend(d, rail, <<a, b>>, m, s) - (IF s = a THEN 1 ELSE 0)
        BY <1>1, <1>2, <3>1, PendPop
      <3> QED BY <1>2, <3>1, <3>2, <3>3
    <2>2. PICK u \in Nat : u = Pend(d, 0, RecvFrom(f[0], 0, m), m, s)
      <3>1. 0 \in Rail
        BY DEF Rail
      <3>2. RecvFrom(f[0], 0, m) \in Position(d, 0, m)
        BY <3>1, RecvPlace DEF RecvQueues
      <3> QED BY <1>1, <2>1, <3>1, <3>2, PendType
    <2>3. PICK v \in Nat : v = Pend(d, 1, RecvFrom(f[1], 1, m), m, s)
      <3>1. 1 \in Rail
        BY DEF Rail
      <3>2. RecvFrom(f[1], 1, m) \in Position(d, 1, m)
        BY <3>1, RecvPlace DEF RecvQueues
      <3> QED BY <1>1, <2>1, <3>1, <3>2, PendType
    <2>4. p[s] = u + v
      BY <2>2, <2>3 DEF RecvQueues
    <2>5. p2[s] = u + v - (IF s = a THEN 1 ELSE 0)
      BY <1>8, <2>4
    <2>6. CASE rail = 0
      <3>1. f2[1] = f[1]
        BY <1>5, <2>6 DEF Rail
      <3> QED BY <2>1, <2>2, <2>3, <2>5, <2>6, <3>1
    <2>7. CASE rail = 1
      <3>1. f2[0] = f[0]
        BY <1>5, <2>7 DEF Rail
      <3> QED BY <2>1, <2>2, <2>3, <2>5, <2>7, <3>1
    <2> QED BY <2>6, <2>7 DEF Rail
  <1>11. RecvQueues(f2, p2, r, d, m)
    BY <1>9, <1>10 DEF RecvQueues
  <1> QED BY <1>11

\* A step whose receives have all ended is behind where both rails stand.
LEMMA RecvDone ==
  ASSUME NEW r, NEW d \in BOOLEAN, NEW m \in 0 .. N, NEW f \in [Rail -> Seq(Recv)], NEW p,
         RecvQueues(f, p, r, d, m), NEW s \in 0 .. N - 1
  PROVE  /\ p[s] \in 0 .. Pieces
         /\ p[s] = 0 /\ s < m => \A rail \in Rail : s < RecvFrom(f[rail], rail, m)[1]
  <1>1. N \in Nat /\ m \in Nat /\ s \in Nat /\ Pieces \in Nat
    BY RingAssumption
  <1>2. ASSUME NEW rail \in Rail
        PROVE  RecvFrom(f[rail], rail, m) \in Position(d, rail, m)
    BY RecvPlace DEF RecvQueues
  <1>3. PICK x \in Position(d, 0, m), y \in Position(d, 1, m) :
          x = RecvFrom(f[0], 0, m) /\ y = RecvFrom(f[1], 1, m)
    BY <1>2 DEF Rail
  <1>4. p[s] = Pend(d, 0, x, m, s) + Pend(d, 1, y, m, s)
    BY <1>3 DEF RecvQueues
  <1>5. /\ Pend(d, 0, x, m, s) \in Nat /\ Pend(d, 0, x, m, s) <= All(d, 0)
        /\ Pend(d, 0, x, m, s) = 0 /\ s < m => s < x[1]
    <2>1. 0 \in Rail
      BY DEF Rail
    <2> QED BY <1>1, <2>1, PendType
  <1>6. /\ Pend(d, 1, y, m, s) \in Nat /\ Pend(d, 1, y, m, s) <= All(d, 1)
        /\ Pend(d, 1, y, m, s) = 0 /\ s < m => s < y[1]
    <2>1. 1 \in Rail
      BY DEF Rail
    <2> QED BY <1>1, <2>1, PendType
  <1>7. All(d, 0) + All(d, 1) = Pieces /\ All(d, 0) \in Nat /\ All(d, 1) \in Nat
    BY TwoRails
  <1>8. p[s] \in 0 .. Pieces
    BY <1>1, <1>4, <1>5, <1>6, <1>7
  <1>9. p[s] = 0 /\ s < m => s < x[1] /\ s < y[1]
    BY <1>4, <1>5, <1>6
  <1> QED BY <1>3, <1>8, <1>9 DEF Rail

\* The queues of sends when nothing is submitted.
LEMMA SendNone ==
  ASSUME NEW f, f[0] = <<>>, f[1] = <<>>, NEW p, NEW r, NEW d, NEW s \in Nat, NEW from
  PROVE  SendQueues(f, p, r, d, s, from) <=> p = 0
  <1>1. \A rail \in Rail : Sends(f[rail], r, d, rail, s, from)
    <2>1. \A rail \in Rail : f[rail] = <<>>
      BY DEF Rail
    <2> QED BY <2>1 DEF Sends
  <1>2. SendFirst(f[0], 0, s) = <<s + 1, 0>> /\ SendFirst(f[1], 1, s) = <<s + 1, 1>>
    BY DEF SendFirst
  <1>3. Pend(d, 0, <<s + 1, 0>>, s + 1, s) = 0 /\ Pend(d, 1, <<s + 1, 1>>, s + 1, s) = 0
    <2>1. PICK n \in Nat : n = s + 1
      OBVIOUS
    <2> QED BY <2>1, PendEnd
  <1> QED BY <1>1, <1>2, <1>3 DEF SendQueues

\* The sends of a step are submitted on both rails.
LEMMA SendQueuesPost ==
  ASSUME NEW r \in Rank, NEW d \in BOOLEAN, NEW s \in 0 .. N - 1,
         NEW from \in {"src", "buf", "dst"},
         NEW f, f \in [Rail -> Seq(Sending)], \A rail \in Rail : f[rail] = <<>>,
         NEW f2, f2 = SentQueues(f, r, d, s, from), NEW n, n = s + 1
  PROVE  /\ f2 \in [Rail -> Seq(Sending)]
         /\ SendQueues(f2, Pieces, r, d, s, from)
         /\ \A rail \in Rail :
              /\ All(d, rail) = 0 => SendFirst(f2[rail], rail, s) = <<n, rail>>
              /\ All(d, rail) # 0 => SendFirst(f2[rail], rail, s) = <<s, rail>>
  <1>1. ASSUME NEW rail \in Rail
        PROVE  /\ f2[rail] \in Seq(Sending) /\ Sends(f2[rail], r, d, rail, s, from)
               /\ All(d, rail) = 0 => SendFirst(f2[rail], rail, s) = <<s + 1, rail>>
               /\ All(d, rail) # 0 => SendFirst(f2[rail], rail, s) = <<s, rail>>
    <2>1. PICK new : new = NewSends(r, d, rail, s, from)
      OBVIOUS
    <2>2. /\ new \in Seq(Sending) /\ Sends(new, r, d, rail, s, from)
          /\ All(d, rail) = 0 => SendFirst(new, rail, s) = <<s + 1, rail>>
          /\ All(d, rail) # 0 => SendFirst(new, rail, s) = <<s, rail>>
      BY <2>1, SendPosted
    <2>3. f2[rail] = new
      BY <2>1, <2>2, ConcatEmptySeq DEF SentQueues
    <2> QED BY <2>2, <2>3
  <1>2. f2 \in [Rail -> Seq(Sending)]
    BY <1>1 DEF SentQueues
  <1>3. s \in Nat /\ 0 \in Rail /\ 1 \in Rail
    BY RingAssumption DEF Rail
  <1>4. ASSUME NEW rail \in Rail
        PROVE  Pend(d, rail, SendFirst(f2[rail], rail, s), s + 1, s) = All(d, rail)
    <2>1. CASE All(d, rail) = 0
      <3>1. SendFirst(f2[rail], rail, s) = <<s + 1, rail>>
        BY <1>1, <2>1
      <3>2. n \in Nat /\ n = s + 1
        BY <1>3
      <3> QED BY <1>3, <2>1, <3>1, <3>2, PendEnd
    <2>2. CASE All(d, rail) # 0
      <3>1. SendFirst(f2[rail], rail, s) = <<s, rail>>
        BY <1>1, <2>2
      <3>2. On(d, rail) # {}
        BY <2>2, TwoRails
      <3>3. Left(d, rail) = All(d, rail)
        BY <3>2, LeftOn
      <3>4. Pend(d, rail, <<s, rail>>, s + 1, s) = Left(d, rail)
        BY <1>3 DEF Pend
      <3> QED BY <3>1, <3>3, <3>4
    <2> QED BY <2>1, <2>2
  <1>5. All(d, 0) + All(d, 1) = Pieces
    BY TwoRails
  <1>6. SendQueues(f2, Pieces, r, d, s, from)
    BY <1>1, <1>3, <1>4, <1>5 DEF SendQueues
  <1> QED BY <1>1, <1>2, <1>6

\* A send ends on one of the rails.
LEMMA SendQueuesPop ==
  ASSUME NEW r, NEW d \in BOOLEAN, NEW s \in Nat, NEW from, NEW rail \in Rail,
         NEW f, f \in [Rail -> Seq(Sending)], NEW p, p \in Int, SendQueues(f, p, r, d, s, from),
         f[rail] # <<>>,
         NEW f2, f2 = Popped(f, rail), NEW p2, p2 = p - 1
  PROVE  SendQueues(f2, p2, r, d, s, from)
  <1>1. f[rail] \in Seq(Sending) /\ Sends(f[rail], r, d, rail, s, from)
    BY DEF SendQueues
  <1>2. PICK n \in Nat : n = s + 1
    OBVIOUS
  <1>3. PICK b \in On(d, rail) : SendFirst(f[rail], rail, s) = <<s, b>>
    <2>1. PICK q \in Seq(Sending) : q = f[rail]
      BY <1>1
    <2>2. Sends(q, r, d, rail, s, from) /\ q # <<>>
      BY <1>1, <2>1
    <2>3. PICK b \in On(d, rail) : SendFirst(q, rail, s) = <<s, b>>
      BY <2>2, SendHead
    <2> QED BY <2>1, <2>3
  <1>4. /\ Tail(f[rail]) \in Seq(Sending) /\ Sends(Tail(f[rail]), r, d, rail, s, from)
        /\ SendFirst(Tail(f[rail]), rail, s) = Follow(d, rail, SendFirst(f[rail], rail, s))
    BY <1>1, SendTail
  <1>5. f2[rail] = Tail(f[rail]) /\ \A other \in Rail \ {rail} : f2[other] = f[other]
    BY DEF Popped
  <1>7. \A other \in Rail : Sends(f2[other], r, d, other, s, from)
    BY <1>4, <1>5 DEF SendQueues
  <1>8. Pend(d, rail, SendFirst(f2[rail], rail, s), n, s)
          = Pend(d, rail, SendFirst(f[rail], rail, s), n, s) - 1
    <2>1. s \in 0 .. n - 1
      BY <1>2
    <2>2. Pend(d, rail, Follow(d, rail, <<s, b>>), n, s)
            = Pend(d, rail, <<s, b>>, n, s) - (IF s = s THEN 1 ELSE 0)
      BY <2>1, PendPop
    <2> QED BY <1>3, <1>4, <1>5, <2>2
  <1>9. ASSUME NEW other \in Rail
        PROVE  Pend(d, other, SendFirst(f[other], other, s), n, s) \in Nat
    <2>1. SendFirst(f[other], other, s) \in Position(d, other, n)
      <3>1. PICK q \in Seq(Sending) : q = f[other]
        OBVIOUS
      <3>2. Sends(q, r, d, other, s, from)
        BY <3>1 DEF SendQueues
      <3>3. SendFirst(q, other, s) \in Position(d, other, n)
        BY <1>2, <3>2, SendPlace
      <3> QED BY <3>1, <3>3
    <2> QED BY <2>1, PendType
  <1>10. PICK u \in Nat, v \in Nat : /\ u = Pend(d, 0, SendFirst(f[0], 0, s), n, s)
                                     /\ v = Pend(d, 1, SendFirst(f[1], 1, s), n, s)
    BY <1>9 DEF Rail
  <1>11. p = u + v
    BY <1>2, <1>10 DEF SendQueues
  <1>12. p2 = Pend(d, 0, SendFirst(f2[0], 0, s), n, s) + Pend(d, 1, SendFirst(f2[1], 1, s), n, s)
    <2>1. CASE rail = 0
      <3>1. f2[1] = f[1]
        BY <1>5, <2>1 DEF Rail
      <3> QED BY <1>8, <1>10, <1>11, <2>1, <3>1
    <2>2. CASE rail = 1
      <3>1. f2[0] = f[0]
        BY <1>5, <2>2 DEF Rail
      <3> QED BY <1>8, <1>10, <1>11, <2>2, <3>1
    <2> QED BY <2>1, <2>2 DEF Rail
  <1>13. SendQueues(f2, p2, r, d, s, from)
    BY <1>7, <1>2, <1>12 DEF SendQueues
  <1> QED BY <1>13

\* When no send is pending both queues are empty.
LEMMA SendDone ==
  ASSUME NEW r, NEW d \in BOOLEAN, NEW s \in Nat, NEW from,
         NEW f \in [Rail -> Seq(Sending)], NEW p, SendQueues(f, p, r, d, s, from)
  PROVE  /\ p \in 0 .. Pieces
         /\ p = 0 => \A rail \in Rail : f[rail] = <<>>
  <1>1. PICK n \in Nat : n = s + 1
    OBVIOUS
  <1>2. ASSUME NEW rail \in Rail
        PROVE  /\ SendFirst(f[rail], rail, s) \in Position(d, rail, n)
               /\ f[rail] # <<>> => SendFirst(f[rail], rail, s)[1] = s
    <2>1. PICK q \in Seq(Sending) : q = f[rail]
      OBVIOUS
    <2>2. Sends(q, r, d, rail, s, from)
      BY <2>1 DEF SendQueues
    <2>3. /\ SendFirst(q, rail, s) \in Position(d, rail, n)
          /\ q # <<>> => SendFirst(q, rail, s)[1] = s
      BY <1>1, <2>2, SendPlace
    <2> QED BY <2>1, <2>3
  <1>3. PICK x \in Position(d, 0, n), y \in Position(d, 1, n) :
          x = SendFirst(f[0], 0, s) /\ y = SendFirst(f[1], 1, s)
    BY <1>2 DEF Rail
  <1>4. p = Pend(d, 0, x, n, s) + Pend(d, 1, y, n, s)
    BY <1>1, <1>3 DEF SendQueues
  <1>5. /\ Pend(d, 0, x, n, s) \in Nat /\ Pend(d, 0, x, n, s) <= All(d, 0)
        /\ Pend(d, 0, x, n, s) = 0 => x[1] # s
    <2>1. 0 \in Rail /\ s < n
      BY <1>1 DEF Rail
    <2>2. /\ Pend(d, 0, x, n, s) \in Nat /\ Pend(d, 0, x, n, s) <= All(d, 0)
          /\ Pend(d, 0, x, n, s) = 0 /\ s < n => s < x[1]
      BY <2>1, PendType
    <2> QED BY <2>1, <2>2
  <1>6. /\ Pend(d, 1, y, n, s) \in Nat /\ Pend(d, 1, y, n, s) <= All(d, 1)
        /\ Pend(d, 1, y, n, s) = 0 => y[1] # s
    <2>1. 1 \in Rail /\ s < n
      BY <1>1 DEF Rail
    <2>2. /\ Pend(d, 1, y, n, s) \in Nat /\ Pend(d, 1, y, n, s) <= All(d, 1)
          /\ Pend(d, 1, y, n, s) = 0 /\ s < n => s < y[1]
      BY <2>1, PendType
    <2> QED BY <2>1, <2>2
  <1>7. All(d, 0) + All(d, 1) = Pieces /\ All(d, 0) \in Nat /\ All(d, 1) \in Nat /\ Pieces \in Nat
    BY TwoRails, RingAssumption
  <1>8. p \in 0 .. Pieces
    BY <1>4, <1>5, <1>6, <1>7
  <1>9. p = 0 => x[1] # s /\ y[1] # s
    BY <1>4, <1>5, <1>6
  <1>10. p = 0 => f[0] = <<>> /\ f[1] = <<>>
    BY <1>2, <1>3, <1>9 DEF Rail
  <1> QED BY <1>8, <1>10 DEF Rail

-----------------------------------------------------------------------------
(* The state of a rank.                                                    *)

\* The parameters of a rank and the types of its variables.
LEMMA Basics ==
  ASSUME Types, NEW r \in Rank
  PROVE  /\ Dual(r) \in BOOLEAN /\ setting[r].mode \in {"legacy", "gpu_direct", "full"}
         /\ N \in Nat /\ N >= 2 /\ TotalSteps(r) \in {N - 1, N} /\ TotalSteps(r) \in 1 .. N
         /\ TotalSteps(r) = N <=> setting[r].mode = "full"
         /\ step[r] \in 0 .. N - 1 /\ step[r] \in Nat /\ coll[r] \in Nat /\ pc[r] \in PCs
         /\ Posted(r) \in 0 .. N
         /\ recvq[r] \in [Rail -> Seq(Recv)] /\ sendq[r] \in [Rail -> Seq(Sending)]
         /\ recvPending[r] \in [0 .. N - 1 -> Int] /\ sendPending[r] \in Int
         /\ \A s : SendFrom(r, s) \in {"src", "buf", "dst"}
  <1>1. setting[r] \in [mode : {"legacy", "gpu_direct", "full"}, dual : BOOLEAN]
    BY RingAssumption DEF Types
  <1>2. N \in Nat /\ N >= 2 /\ MaxCollectives \in Nat
    BY RingAssumption
  <1>3. Dual(r) \in BOOLEAN /\ setting[r].mode \in {"legacy", "gpu_direct", "full"}
    BY <1>1 DEF Dual
  <1>4. /\ TotalSteps(r) \in {N - 1, N} /\ TotalSteps(r) \in 1 .. N
        /\ TotalSteps(r) = N <=> setting[r].mode = "full"
    BY <1>2 DEF TotalSteps
  <1>5. step[r] \in 0 .. N - 1 /\ coll[r] \in 0 .. MaxCollectives /\ pc[r] \in PCs
    BY DEF Types
  <1>6. step[r] \in Nat /\ coll[r] \in Nat
    BY <1>2, <1>5
  <1>7. Posted(r) \in 0 .. N
    BY <1>2, <1>4, <1>5 DEF Posted
  <1>8. /\ recvq[r] \in [Rail -> Seq(Recv)] /\ sendq[r] \in [Rail -> Seq(Sending)]
        /\ recvPending[r] \in [0 .. N - 1 -> Int] /\ sendPending[r] \in Int
    BY DEF Types
  <1>9. \A s : SendFrom(r, s) \in {"src", "buf", "dst"}
    BY DEF SendFrom
  <1> QED BY <1>2, <1>3, <1>4, <1>5, <1>6, <1>7, <1>8, <1>9

\* What depends on the setting alone.
LEMMA SettingKept ==
  ASSUME setting' = setting, NEW q
  PROVE  /\ Dual(q)' = Dual(q) /\ TotalSteps(q)' = TotalSteps(q) /\ GpuDirect(q)' = GpuDirect(q)
         /\ \A s : SendFrom(q, s)' = SendFrom(q, s)
  BY DEF Dual, TotalSteps, GpuDirect, SendFrom

\* The pieces a rank submits.
LEMMA RailPiecesSeq ==
  ASSUME NEW r, NEW rail PROVE RailPieces(r, rail) = PieceSeq(Dual(r), rail)
  BY DEF RailPieces, PieceSeq, Dual

\* Where a rank stands, when a step leaves its place and its queues alone.
LEMMA PosKept ==
  ASSUME setting' = setting, NEW q, pc'[q] = pc[q], step'[q] = step[q], NEW rail
  PROVE  /\ Posted(q)' = Posted(q)
         /\ recvq'[q][rail] = recvq[q][rail] => RecvPos(q, rail)' = RecvPos(q, rail)
         /\ sendq'[q][rail] = sendq[q][rail] => SendPos(q, rail)' = SendPos(q, rail)
  <1>1. TotalSteps(q)' = TotalSteps(q)
    BY SettingKept
  <1>2. Posted(q)' = Posted(q)
    BY <1>1 DEF Posted
  <1> QED BY <1>1, <1>2 DEF RecvPos, SendPos

\* A rank whose place, queues and counters a step leaves alone.
LEMMA ShapeKept ==
  ASSUME setting' = setting, NEW q \in Rank, PlaceShape(q), RecvShape(q), SendShape(q),
         pc'[q] = pc[q], step'[q] = step[q], recvq'[q] = recvq[q], sendq'[q] = sendq[q],
         recvPending'[q] = recvPending[q], sendPending'[q] = sendPending[q]
  PROVE  PlaceShape(q)' /\ RecvShape(q)' /\ SendShape(q)'
  <1>1. PlaceShape(q)'
    BY SettingKept DEF PlaceShape
  <1>2. RecvShape(q)'
    <2>1. Dual(q)' = Dual(q) /\ Posted(q)' = Posted(q)
      BY SettingKept, PosKept
    <2>2. \A rail : RecvPos(q, rail)' = RecvPos(q, rail)
      BY PosKept
    <2> QED BY <2>1, <2>2 DEF RecvShape
  <1>3. SendShape(q)'
    <2>1. Dual(q)' = Dual(q) /\ SendFrom(q, step[q])' = SendFrom(q, step[q])
      BY DEF Dual, SendFrom, GpuDirect
    <2> QED BY <2>1 DEF SendShape
  <1> QED BY <1>1, <1>2, <1>3

\* Which receives of a rank have ended.
LEMMA EndedKept ==
  ASSUME Types, setting' = setting, NEW q \in Rank,
         \A rail \in Rail : All(Dual(q), rail) # 0 => RecvPos(q, rail)' = RecvPos(q, rail)
  PROVE  \A s, p : Ended(q, s, p)' = Ended(q, s, p)
  <1>1. \A rail \in Rail : \A p \in On(Dual(q), rail) : All(Dual(q), rail) # 0
    BY Basics, TwoRails
  <1>2. Dual(q)' = Dual(q)
    BY SettingKept
  <1> QED BY <1>1, <1>2 DEF Ended

\* What a rank has received, when a step neither receives nor writes there.
LEMMA ReceivedKept ==
  ASSUME Types, setting' = setting, NEW q \in Rank, Received(q),
         pc[q] \notin {"idle", "barrier"}, coll'[q] = coll[q], Land(q)' = Land(q),
         \A rail \in Rail : All(Dual(q), rail) # 0 => RecvPos(q, rail)' = RecvPos(q, rail)
  PROVE  Received(q)'
  <1>1. \A s, p : Ended(q, s, p)' = Ended(q, s, p)
    BY EndedKept
  <1>2. TotalSteps(q)' = TotalSteps(q)
    BY SettingKept
  <1> QED BY <1>1, <1>2 DEF Received, Due

\* A rank whose memory, place and receives a step leaves alone.
LEMMA DataKept ==
  ASSUME Types, setting' = setting, NEW q \in Rank, Data(q), coll'[q] = coll[q], pc'[q] = pc[q],
         step'[q] = step[q], buf'[q] = buf[q], dst'[q] = dst[q],
         \A rail \in Rail : All(Dual(q), rail) # 0 => RecvPos(q, rail)' = RecvPos(q, rail)
  PROVE  Data(q)'
  <1>1. Received(q)'
    <2>1. CASE pc[q] \in {"idle", "barrier"}
      BY <2>1 DEF Received
    <2>2. CASE pc[q] \notin {"idle", "barrier"}
      <3>1. Land(q)' = Land(q)
        BY SettingKept DEF Land
      <3> QED BY <2>2, <3>1, ReceivedKept DEF Data
    <2> QED BY <2>1, <2>2
  <1>2. OwnChunk(q)' /\ PutChunks(q)' /\ Returns(q)'
    BY DEF Data, OwnChunk, PutChunks, Returns, Due
  <1> QED BY <1>1, <1>2 DEF Data

\* A step in which no position on a rail that carries pieces moves.
LEMMA LinkedKept ==
  ASSUME Alike, setting' = setting, coll' = coll, \A q \in Rank : Linked(q),
         \A q \in Rank, rail \in Rail :
            All(Dual(q), rail) # 0 => /\ SendPos(q, rail)' = SendPos(q, rail)
                                      /\ RecvPos(q, rail)' = RecvPos(q, rail)
  PROVE  \A q \in Rank : Linked(q)'
  <1> SUFFICES ASSUME NEW q \in Rank PROVE Linked(q)'
    OBVIOUS
  <1>1. PICK n \in Rank : n = NextRank(q)
    BY Neighbours
  <1>2. Dual(n) = Dual(q)
    BY DEF Alike
  <1>3. /\ Dual(q)' = Dual(q) /\ TotalSteps(q)' = TotalSteps(q) /\ TotalSteps(n)' = TotalSteps(n)
    BY SettingKept
  <1>4. coll'[q] = coll[q] /\ coll'[n] = coll[n]
    OBVIOUS
  <1>5. ASSUME NEW rail \in Rail, All(Dual(q), rail) # 0
        PROVE  /\ SendPos(q, rail)' = SendPos(q, rail) /\ RecvPos(n, rail)' = RecvPos(n, rail)
               /\ coll[q] = coll[n] => SendPos(q, rail) = RecvPos(n, rail)
               /\ coll[q] > coll[n] => RecvPos(n, rail) = <<TotalSteps(n), rail>>
               /\ coll[n] > coll[q] => SendPos(q, rail) = <<TotalSteps(q), rail>>
    <2>1. SendPos(q, rail)' = SendPos(q, rail) /\ RecvPos(n, rail)' = RecvPos(n, rail)
      BY <1>2, <1>5
    <2> QED BY <1>1, <1>5, <2>1 DEF Linked
  <1> QED BY <1>1, <1>3, <1>4, <1>5 DEF Linked

\* What has to be shown of a step in which nothing breaks.
LEMMA WholeStep ==
  ASSUME setting' = setting, failed' = failed,
         failed = {} /\ Alike => \A q \in Rank : Linked(q)' /\ Data(q)'
  PROVE  Whole'
  <1>1. Alike' => Alike
    BY SettingKept DEF Alike
  <1> QED BY <1>1 DEF Whole

-----------------------------------------------------------------------------
(* The invariant holds before the first all-gather.                        *)

LEMMA InitIInv == Init => IInv
  <1> SUFFICES ASSUME Init PROVE IInv
    OBVIOUS
  <1>1. N \in Nat /\ N >= 2 /\ 0 \in 0 .. N - 1 /\ 0 \in 0 .. MaxCollectives /\ 0 \in Int
    BY RingAssumption
  <1>2. Empty \in Value
    BY DEF Value
  <1>3. Types
    <2>1. /\ setting \in [Rank -> Settings] /\ coll \in [Rank -> 0 .. MaxCollectives]
          /\ pc \in [Rank -> PCs] /\ step \in [Rank -> 0 .. N - 1] /\ failed \subseteq Failure
      BY <1>1 DEF Init, PCs
    <2>2. buf \in [Rank -> [Cell -> Value]] /\ dst \in [Rank -> [Cell -> Value]]
      BY <1>2 DEF Init
    <2>3. recvq \in [Rank -> [Rail -> Seq(Recv)]] /\ sendq \in [Rank -> [Rail -> Seq(Sending)]]
      BY DEF Init
    <2>4. recvPending \in [Rank -> [0 .. N - 1 -> Int]] /\ sendPending \in [Rank -> Int]
      BY <1>1 DEF Init
    <2> QED BY <2>1, <2>2, <2>3, <2>4 DEF Types
  <1>4. ASSUME NEW r \in Rank PROVE PlaceShape(r) /\ RecvShape(r) /\ SendShape(r)
    <2>1. /\ pc[r] = "idle" /\ recvq[r][0] = <<>> /\ recvq[r][1] = <<>>
          /\ sendq[r][0] = <<>> /\ sendq[r][1] = <<>> /\ step[r] = 0 /\ sendPending[r] = 0
          /\ \A s \in 0 .. N - 1 : recvPending[r][s] = 0
      BY DEF Init, Rail
    <2>2. Posted(r) \in Nat /\ step[r] \in Nat
      BY <1>1, <1>3, Basics
    <2>3. RecvQueues(recvq[r], recvPending[r], r, Dual(r), Posted(r))
      BY <2>1, <2>2, RecvNone
    <2>4. SendQueues(sendq[r], sendPending[r], r, Dual(r), step[r], SendFrom(r, step[r]))
      BY <2>1, <2>2, SendNone
    <2> QED BY <2>1, <2>3, <2>4 DEF PlaceShape, RecvShape, SendShape, Rail
  <1>5. Entered
    BY <1>1 DEF Init, Entered
  <1>6. Whole
    <2> SUFFICES ASSUME Alike, NEW r \in Rank PROVE Linked(r) /\ Data(r)
      BY DEF Whole
    <2>1. PICK n \in Rank : n = NextRank(r)
      BY Neighbours
    <2>2. pc[r] = "idle" /\ pc[n] = "idle" /\ coll[r] = 0 /\ coll[n] = 0
      BY DEF Init
    <2>3. \A rail \in Rail : recvq[n][rail] = <<>>
      BY DEF Init
    <2>4. TotalSteps(n) = TotalSteps(r)
      BY DEF Alike
    <2>5. ASSUME NEW rail \in Rail
          PROVE  SendPos(r, rail) = RecvPos(n, rail)
      BY <2>2, <2>3, <2>4 DEF SendPos, RecvPos, RecvFrom, Posted
    <2>6. Linked(r)
      BY <2>1, <2>2, <2>5 DEF Linked
    <2>7. Data(r)
      BY <2>2 DEF Data, Received, OwnChunk, PutChunks, Returns
    <2> QED BY <2>6, <2>7
  <1> QED BY <1>3, <1>4, <1>5, <1>6 DEF IInv, Shape

-----------------------------------------------------------------------------
(* The thread of a rank.                                                   *)

\* A rank begins a collective: it has finished the one before, and so has the
\* connection to either side.
LEMMA BeginIInv == ASSUME IInv, NEW r \in Rank, Begin(r) PROVE IInv'
  <1>1. Types /\ Shape /\ Entered
    BY DEF IInv
  <1>2. /\ pc[r] = "idle" /\ coll[r] < MaxCollectives
        /\ coll' = [coll EXCEPT ![r] = coll[r] + 1]
        /\ dst' = [dst EXCEPT ![r] = [c \in Cell |-> Empty]]
        /\ pc' = [pc EXCEPT ![r] = "barrier"]
        /\ UNCHANGED <<setting, step, buf, recvq, sendq, recvPending, sendPending, failed>>
    BY DEF Begin
  <1>3. /\ pc'[r] = "barrier" /\ coll'[r] = coll[r] + 1
        /\ \A q \in Rank \ {r} : pc'[q] = pc[q] /\ coll'[q] = coll[q] /\ dst'[q] = dst[q]
    BY <1>1, <1>2 DEF Types
  <1>4. setting' = setting /\ step' = step /\ buf' = buf /\ recvq' = recvq /\ sendq' = sendq
        /\ recvPending' = recvPending /\ sendPending' = sendPending /\ failed' = failed
    BY <1>2
  <1>5. Types'
    <2>1. Empty \in Value
      BY DEF Value
    <2>2. coll[r] + 1 \in 0 .. MaxCollectives
      BY <1>1, <1>2, RingAssumption DEF Types
    <2>3. coll' \in [Rank -> 0 .. MaxCollectives] /\ pc' \in [Rank -> PCs]
      BY <1>1, <1>2, <2>2 DEF Types, PCs
    <2>4. dst' \in [Rank -> [Cell -> Value]]
      BY <1>1, <1>2, <2>1 DEF Types
    <2> QED BY <1>1, <1>4, <2>3, <2>4 DEF Types
  <1>6. recvq[r][0] = <<>> /\ recvq[r][1] = <<>> /\ sendq[r][0] = <<>> /\ sendq[r][1] = <<>>
    BY <1>1, <1>2 DEF Shape, RecvShape, SendShape, Rail
  <1>7. Shape'
    <2>1. PlaceShape(r)'
      BY <1>3 DEF PlaceShape
    <2>2. RecvShape(r)'
      <3>1. Posted(r)' = 0 /\ Posted(r) \in Nat
        BY <1>1, <1>3, Basics DEF Posted
      <3>2. \A s \in 0 .. N - 1 : recvPending[r][s] = 0
        <4>1. RecvQueues(recvq[r], recvPending[r], r, Dual(r), Posted(r))
          BY <1>1 DEF Shape, RecvShape
        <4> QED BY <1>6, <3>1, <4>1, RecvNone
      <3>3. RecvQueues(recvq[r], recvPending[r], r, Dual(r)', 0)
        BY <1>6, <3>2, RecvNone
      <3> QED BY <1>3, <1>4, <1>6, <3>1, <3>3 DEF RecvShape, Rail
    <2>3. SendShape(r)'
      <3>1. SendShape(r)
        BY <1>1 DEF Shape
      <3>2. Dual(r)' = Dual(r) /\ SendFrom(r, step[r])' = SendFrom(r, step[r])
        BY <1>4 DEF Dual, SendFrom, GpuDirect
      <3> QED BY <1>2, <1>3, <1>4, <3>1, <3>2 DEF SendShape
    <2>4. \A q \in Rank \ {r} : PlaceShape(q)' /\ RecvShape(q)' /\ SendShape(q)'
      BY <1>1, <1>3, <1>4, ShapeKept DEF Shape
    <2> QED BY <2>1, <2>2, <2>3, <2>4 DEF Shape
  <1>8. \A q \in Rank : coll[q] \in Nat /\ coll[r] <= coll[q] /\ coll[q] <= coll[r] + 1
    BY <1>1, <1>2, Basics DEF Entered
  <1>9. Entered'
    BY <1>1, <1>3, <1>8 DEF Entered
  <1>10. ASSUME failed = {}, Alike PROVE \A q \in Rank : Linked(q)' /\ Data(q)'
    <2>1. \A q \in Rank : Linked(q) /\ Data(q)
      BY <1>10 DEF IInv, Whole
    <2>2. ASSUME NEW q \in Rank \ {r} PROVE Data(q)'
      <3>1. \A rail \in Rail : RecvPos(q, rail)' = RecvPos(q, rail)
        BY <1>3, <1>4, PosKept
      <3> QED BY <1>1, <1>3, <1>4, <2>1, <3>1, DataKept
    <2>3. Data(r)'
      BY <1>3 DEF Data, Received, OwnChunk, PutChunks, Returns
    <2>4. ASSUME NEW rail \in Rail
          PROVE  /\ SendPos(r, rail) = <<TotalSteps(r), rail>>
                 /\ RecvPos(r, rail) = <<TotalSteps(r), rail>>
                 /\ SendPos(r, rail)' = <<0, rail>> /\ RecvPos(r, rail)' = <<0, rail>>
      <3>1. recvq[r][rail] = <<>>
        BY <1>6 DEF Rail
      <3> QED BY <1>2, <1>3, <3>1 DEF SendPos, RecvPos, RecvFrom, Posted
    <2>5. \A q \in Rank : coll[q] = coll[r] + 1 => pc[q] = "barrier"
      BY <1>1, <1>8 DEF Entered
    <2>6. ASSUME NEW q \in Rank, coll[q] = coll[r] + 1, NEW rail \in Rail
          PROVE  SendPos(q, rail) = <<0, rail>> /\ RecvPos(q, rail) = <<0, rail>>
      <3>1. pc[q] = "barrier"
        BY <2>5, <2>6
      <3>2. recvq[q][rail] = <<>>
        BY <1>1, <3>1 DEF Shape, RecvShape
      <3> QED BY <3>1, <3>2 DEF SendPos, RecvPos, RecvFrom, Posted
    <2>7. \A q \in Rank \ {r} : \A rail \in Rail :
             SendPos(q, rail)' = SendPos(q, rail) /\ RecvPos(q, rail)' = RecvPos(q, rail)
      BY <1>3, <1>4, PosKept
    <2>8. \A q \in Rank : Dual(q)' = Dual(q) /\ TotalSteps(q)' = TotalSteps(q)
      BY <1>4, SettingKept
    <2>9. ASSUME NEW q \in Rank PROVE Linked(q)'
      <3>1. PICK n \in Rank : n = NextRank(q) /\ n # q
        BY Neighbours
      <3> SUFFICES ASSUME NEW rail \in Rail, All(Dual(q), rail) # 0
                   PROVE  /\ coll'[q] = coll'[n] => SendPos(q, rail)' = RecvPos(n, rail)'
                          /\ coll'[q] > coll'[n] => RecvPos(n, rail)' = <<TotalSteps(n), rail>>
                          /\ coll'[n] > coll'[q] => SendPos(q, rail)' = <<TotalSteps(q), rail>>
        BY <2>8, <3>1 DEF Linked
      <3>2. /\ coll[q] = coll[n] => SendPos(q, rail) = RecvPos(n, rail)
            /\ coll[q] > coll[n] => RecvPos(n, rail) = <<TotalSteps(n), rail>>
            /\ coll[n] > coll[q] => SendPos(q, rail) = <<TotalSteps(q), rail>>
        BY <2>1, <3>1 DEF Linked
      <3>3. coll[q] \in Nat /\ coll[n] \in Nat /\ coll[r] \in Nat
        BY <1>8
      <3>4. CASE q = r
        <4>1. coll'[q] = coll[r] + 1 /\ coll'[n] = coll[n] /\ coll[r] <= coll[n] /\ coll[n] <= coll[r] + 1
          BY <1>3, <1>8, <3>1, <3>4
        <4>2. RecvPos(n, rail)' = RecvPos(n, rail) /\ SendPos(q, rail)' = <<0, rail>>
              /\ SendPos(q, rail) = <<TotalSteps(r), rail>>
          BY <2>4, <2>7, <3>1, <3>4
        <4>3. CASE coll[n] = coll[r]
          <5>1. TotalSteps(n) = TotalSteps(r)
            BY <1>10 DEF Alike
          <5>2. RecvPos(n, rail) = <<TotalSteps(n), rail>>
            BY <3>2, <3>4, <4>2, <4>3, <5>1
          <5> QED BY <3>3, <4>1, <4>2, <4>3, <5>2
        <4>4. CASE coll[n] = coll[r] + 1
          <5>1. RecvPos(n, rail) = <<0, rail>>
            BY <2>6, <4>4
          <5> QED BY <3>3, <4>1, <4>2, <4>4, <5>1
        <4> QED BY <3>3, <4>1, <4>3, <4>4
      <3>5. CASE n = r
        <4>1. coll'[n] = coll[r] + 1 /\ coll'[q] = coll[q] /\ coll[r] <= coll[q] /\ coll[q] <= coll[r] + 1
          BY <1>3, <1>8, <3>1, <3>5
        <4>2. SendPos(q, rail)' = SendPos(q, rail) /\ RecvPos(n, rail)' = <<0, rail>>
              /\ RecvPos(n, rail) = <<TotalSteps(r), rail>>
          BY <2>4, <2>7, <3>1, <3>5
        <4>3. CASE coll[q] = coll[r]
          <5>1. TotalSteps(q) = TotalSteps(r)
            BY <1>10 DEF Alike
          <5>2. SendPos(q, rail) = <<TotalSteps(q), rail>>
            BY <3>2, <3>5, <4>2, <4>3, <5>1
          <5> QED BY <3>3, <4>1, <4>2, <4>3, <5>2
        <4>4. CASE coll[q] = coll[r] + 1
          <5>1. SendPos(q, rail) = <<0, rail>>
            BY <2>6, <4>4
          <5> QED BY <3>3, <4>1, <4>2, <4>4, <5>1
        <4> QED BY <3>3, <4>1, <4>3, <4>4
      <3>6. CASE q # r /\ n # r
        <4>1. /\ coll'[q] = coll[q] /\ coll'[n] = coll[n]
              /\ SendPos(q, rail)' = SendPos(q, rail) /\ RecvPos(n, rail)' = RecvPos(n, rail)
          BY <1>3, <2>7, <3>1, <3>6
        <4> QED BY <3>2, <4>1
      <3> QED BY <3>4, <3>5, <3>6
    <2> QED BY <2>2, <2>3, <2>9
  <1>11. Whole'
    BY <1>4, <1>10, WholeStep
  <1> QED BY <1>5, <1>7, <1>9, <1>11 DEF IInv

\* A rank leaves the barrier, as every rank has begun this collective.
LEMMA LeaveBarrierIInv == ASSUME IInv, NEW r \in Rank, LeaveBarrier(r) PROVE IInv'
  <1>1. Types /\ Shape /\ Entered
    BY DEF IInv
  <1>2. /\ pc[r] = "barrier" /\ \A q \in Rank : coll[q] >= coll[r]
        /\ pc' = [pc EXCEPT ![r] = "post"] /\ step' = [step EXCEPT ![r] = 0]
        /\ UNCHANGED <<setting, coll, buf, dst, recvq, sendq, recvPending, sendPending, failed>>
    BY DEF LeaveBarrier
  <1>3. /\ pc'[r] = "post" /\ step'[r] = 0
        /\ \A q \in Rank \ {r} : pc'[q] = pc[q] /\ step'[q] = step[q]
    BY <1>1, <1>2 DEF Types
  <1>4. setting' = setting /\ coll' = coll /\ buf' = buf /\ dst' = dst /\ recvq' = recvq
        /\ sendq' = sendq /\ recvPending' = recvPending /\ sendPending' = sendPending
        /\ failed' = failed
    BY <1>2
  <1>5. Types'
    <2>1. 0 \in 0 .. N - 1
      BY RingAssumption
    <2>2. pc' \in [Rank -> PCs] /\ step' \in [Rank -> 0 .. N - 1]
      BY <1>1, <1>2, <2>1 DEF Types, PCs
    <2> QED BY <1>1, <1>4, <2>2 DEF Types
  <1>6. /\ \A rail \in Rail : recvq[r][rail] = <<>> /\ sendq[r][rail] = <<>>
        /\ Posted(r) = 0 /\ Posted(r)' = 0 /\ Dual(r)' = Dual(r)
    <2>1. \A rail \in Rail : recvq[r][rail] = <<>> /\ sendq[r][rail] = <<>>
      BY <1>1, <1>2 DEF Shape, RecvShape, SendShape
    <2>2. Posted(r) = 0 /\ Posted(r)' = 0
      BY <1>2, <1>3 DEF Posted
    <2>3. Dual(r)' = Dual(r)
      BY <1>4, SettingKept
    <2> QED BY <2>1, <2>2, <2>3
  <1>7. Shape'
    <2>1. PlaceShape(r)'
      <3>1. 0 < TotalSteps(r) /\ TotalSteps(r)' = TotalSteps(r)
        BY <1>1, <1>4, Basics, SettingKept
      <3> QED BY <1>3, <3>1 DEF PlaceShape
    <2>2. RecvShape(r)'
      <3>1. RecvQueues(recvq[r], recvPending[r], r, Dual(r), 0)
        BY <1>1, <1>6 DEF Shape, RecvShape
      <3> QED BY <1>3, <1>4, <1>6, <3>1 DEF RecvShape
    <2>3. SendShape(r)'
      <3>1. SendQueues(sendq[r], sendPending[r], r, Dual(r), step[r], SendFrom(r, step[r]))
        BY <1>1 DEF Shape, SendShape
      <3>2. sendq[r][0] = <<>> /\ sendq[r][1] = <<>> /\ step[r] \in Nat
        BY <1>1, <1>6, Basics DEF Rail
      <3>3. sendPending[r] = 0
        BY <3>1, <3>2, SendNone
      <3>4. SendQueues(sendq[r], sendPending[r], r, Dual(r), 0, SendFrom(r, 0)')
        BY <3>2, <3>3, SendNone
      <3>5. SendFrom(r, step[r])' = SendFrom(r, 0)'
        BY <1>3
      <3> QED BY <1>3, <1>4, <1>6, <3>4, <3>5 DEF SendShape
    <2>4. \A q \in Rank \ {r} : PlaceShape(q)' /\ RecvShape(q)' /\ SendShape(q)'
      BY <1>1, <1>3, <1>4, ShapeKept DEF Shape
    <2> QED BY <2>1, <2>2, <2>3, <2>4 DEF Shape
  <1>8. Entered'
    <2>1. \A q \in Rank : coll[q] \in Nat
      BY <1>1, Basics
    <2>2. coll[r] # 0
      BY <1>1, <1>2 DEF Entered
    <2>3. \A q \in Rank : coll[r] <= coll[q]
      BY <1>2, <2>1
    <2> QED BY <1>1, <1>3, <1>4, <2>2, <2>3 DEF Entered
  <1>9. ASSUME failed = {}, Alike PROVE \A q \in Rank : Linked(q)' /\ Data(q)'
    <2>1. \A q \in Rank : Linked(q) /\ Data(q)
      BY <1>9 DEF IInv, Whole
    <2>2. ASSUME NEW rail \in Rail
          PROVE  SendPos(r, rail)' = SendPos(r, rail) /\ RecvPos(r, rail)' = RecvPos(r, rail)
      <3>1. SendPos(r, rail)' = SendPos(r, rail)
        BY <1>2, <1>3 DEF SendPos
      <3> QED BY <1>4, <1>6, <3>1 DEF RecvPos
    <2>3. \A q \in Rank \ {r} : \A rail \in Rail :
             SendPos(q, rail)' = SendPos(q, rail) /\ RecvPos(q, rail)' = RecvPos(q, rail)
      BY <1>3, <1>4, PosKept
    <2>4. \A q \in Rank : Linked(q)'
      BY <1>4, <1>9, <2>1, <2>2, <2>3, LinkedKept
    <2>5. \A q \in Rank \ {r} : Data(q)'
      BY <1>1, <1>3, <1>4, <2>1, <2>3, DataKept
    <2>6. Data(r)'
      <3>1. ASSUME NEW s \in 0 .. TotalSteps(r) - 1, NEW p \in Piece PROVE ~ Ended(r, s, p)'
        <4>1. PICK rail \in Rail : p \in On(Dual(r), rail)
          BY <1>1, Basics, TwoRails
        <4>2. RecvPos(r, rail)' = <<0, rail>>
          BY <1>4, <1>6 DEF RecvPos, RecvFrom
        <4>3. p \in Nat /\ p >= rail /\ rail \in Nat
          BY <1>1, <4>1, Basics, LeftOn
        <4>4. ~ (s < 0) /\ ~ (p < rail)
          BY <1>1, <4>3, Basics
        <4> QED BY <1>6, <4>1, <4>2, <4>4 DEF Ended
      <3>2. TotalSteps(r)' = TotalSteps(r)
        BY <1>4, SettingKept
      <3> QED BY <1>3, <3>1, <3>2 DEF Data, Received, OwnChunk, PutChunks, Returns
    <2> QED BY <2>4, <2>5, <2>6
  <1>10. Whole'
    BY <1>4, <1>9, WholeStep
  <1> QED BY <1>5, <1>7, <1>8, <1>10 DEF IInv

\* A rank posts the receives of a step.
LEMMA PostRecvsIInv == ASSUME IInv, NEW r \in Rank, PostRecvs(r) PROVE IInv'
  <1> DEFINE m == step[r]
             m1 == m + 1
             d == Dual(r)
  <1>1. Types /\ Shape /\ Entered
    BY DEF IInv
  <1>2. /\ pc[r] = "post"
        /\ recvq' = [recvq EXCEPT ![r] = PostedQueues(recvq[r], r, d, m)]
        /\ recvPending' = [recvPending EXCEPT ![r] = PostedCount(recvPending[r], m)]
        /\ UNCHANGED <<setting, coll, buf, dst, sendq, sendPending, failed>>
    BY RailPiecesSeq DEF PostRecvs, NewRecvs, PostedQueues, PostedCount
  <1>3. /\ m \in Nat /\ m \in 0 .. N - 1 /\ m < TotalSteps(r) /\ TotalSteps(r) \in 1 .. N
        /\ m1 = m + 1 /\ m1 \in Nat /\ m1 \in 0 .. N /\ N \in Nat /\ N >= 2
        /\ Posted(r) = m /\ d \in BOOLEAN /\ d = Dual(r)
    <2>1. m < TotalSteps(r)
      BY <1>1, <1>2 DEF Shape, PlaceShape
    <2>2. Posted(r) = m
      BY <1>2 DEF Posted
    <2> QED BY <1>1, <2>1, <2>2, Basics
  <1>4. \/ m1 < TotalSteps(r) /\ pc' = [pc EXCEPT ![r] = "post"] /\ step' = [step EXCEPT ![r] = m1]
        \/ /\ m1 = TotalSteps(r) /\ step' = [step EXCEPT ![r] = 0]
           /\ setting[r].mode = "full" /\ pc' = [pc EXCEPT ![r] = "send"]
        \/ /\ m1 = TotalSteps(r) /\ step' = [step EXCEPT ![r] = 0]
           /\ setting[r].mode # "full" /\ pc' = [pc EXCEPT ![r] = "read"]
    <2>1. CASE step[r] + 1 < TotalSteps(r)
      <3>1. step' = [step EXCEPT ![r] = step[r] + 1] /\ pc' = pc
        BY <2>1 DEF PostRecvs
      <3>2. pc' = [pc EXCEPT ![r] = "post"]
        BY <1>1, <1>2, <3>1 DEF Types
      <3> QED BY <2>1, <3>1, <3>2
    <2>2. CASE ~ (step[r] + 1 < TotalSteps(r))
      <3>1. /\ step' = [step EXCEPT ![r] = 0]
            /\ pc' = [pc EXCEPT ![r] = IF setting[r].mode = "full" THEN "send" ELSE "read"]
        BY <2>2 DEF PostRecvs
      <3>2. m1 = TotalSteps(r)
        BY <1>3, <2>2
      <3>3. CASE setting[r].mode = "full"
        <4>1. pc' = [pc EXCEPT ![r] = "send"]
          BY <3>1, <3>3
        <4> QED BY <3>1, <3>2, <3>3, <4>1
      <3>4. CASE setting[r].mode # "full"
        <4>1. pc' = [pc EXCEPT ![r] = "read"]
          BY <3>1, <3>4
        <4> QED BY <3>1, <3>2, <3>4, <4>1
      <3> QED BY <3>3, <3>4
    <2> QED BY <2>1, <2>2
  <1> HIDE DEF m, m1, d
  <1>5. /\ pc'[r] \in {"post", "read", "send"} /\ step'[r] \in 0 .. N - 1
        /\ pc'[r] = "post" => step'[r] = m1 /\ m1 < TotalSteps(r)
        /\ pc'[r] # "post" => step'[r] = 0 /\ m1 = TotalSteps(r)
        /\ pc'[r] = "read" => setting[r].mode # "full"
        /\ pc' \in [Rank -> PCs] /\ step' \in [Rank -> 0 .. N - 1]
        /\ \A q \in Rank \ {r} : pc'[q] = pc[q] /\ step'[q] = step[q]
    <2>1. pc \in [Rank -> PCs] /\ step \in [Rank -> 0 .. N - 1]
      BY <1>1 DEF Types
    <2>2. 0 \in 0 .. N - 1 /\ (m1 < TotalSteps(r) => m1 \in 0 .. N - 1) /\ ~ (TotalSteps(r) < TotalSteps(r))
      BY <1>3
    <2>3. CASE m1 < TotalSteps(r) /\ pc' = [pc EXCEPT ![r] = "post"] /\ step' = [step EXCEPT ![r] = m1]
      BY <2>1, <2>2, <2>3 DEF PCs
    <2>4. CASE /\ m1 = TotalSteps(r) /\ step' = [step EXCEPT ![r] = 0]
               /\ setting[r].mode = "full" /\ pc' = [pc EXCEPT ![r] = "send"]
      BY <2>1, <2>2, <2>4 DEF PCs
    <2>5. CASE /\ m1 = TotalSteps(r) /\ step' = [step EXCEPT ![r] = 0]
               /\ setting[r].mode # "full" /\ pc' = [pc EXCEPT ![r] = "read"]
      BY <2>1, <2>2, <2>5 DEF PCs
    <2> QED BY <1>4, <2>3, <2>4, <2>5
  <1>6. /\ setting' = setting /\ coll' = coll /\ buf' = buf /\ dst' = dst
        /\ sendq' = sendq /\ sendPending' = sendPending /\ failed' = failed
    BY <1>2
  <1>7. /\ recvq'[r] = PostedQueues(recvq[r], r, d, m)
        /\ recvPending'[r] = PostedCount(recvPending[r], m)
        /\ \A q \in Rank \ {r} : recvq'[q] = recvq[q] /\ recvPending'[q] = recvPending[q]
    BY <1>1, <1>2 DEF Types
  <1>8. /\ recvq'[r] \in [Rail -> Seq(Recv)] /\ recvPending'[r] \in [0 .. N - 1 -> Int]
        /\ RecvQueues(recvq'[r], recvPending'[r], r, d, m1)
        /\ \A rail \in Rail :
             /\ All(d, rail) = 0 => RecvFrom(recvq'[r][rail], rail, m1) = <<m1, rail>>
             /\ All(d, rail) # 0 =>
                  RecvFrom(recvq'[r][rail], rail, m1) = RecvFrom(recvq[r][rail], rail, m)
    <2>1. RecvQueues(recvq[r], recvPending[r], r, d, m)
      BY <1>1, <1>3 DEF Shape, RecvShape
    <2>2. recvq[r] \in [Rail -> Seq(Recv)] /\ recvPending[r] \in [0 .. N - 1 -> Int]
      BY <1>1, Basics
    <2>3. PICK f, p, f2, p2 : f = recvq[r] /\ p = recvPending[r] /\ f2 = recvq'[r] /\ p2 = recvPending'[r]
      OBVIOUS
    <2>4. /\ f2 = PostedQueues(f, r, d, m) /\ p2 = PostedCount(p, m)
          /\ RecvQueues(f, p, r, d, m) /\ f \in [Rail -> Seq(Recv)] /\ p \in [0 .. N - 1 -> Int]
          /\ d \in BOOLEAN /\ m \in 0 .. N - 1 /\ m1 = m + 1
      BY <1>3, <1>7, <2>1, <2>2, <2>3
    <2>5. /\ f2 \in [Rail -> Seq(Recv)] /\ p2 \in [0 .. N - 1 -> Int]
          /\ RecvQueues(f2, p2, r, d, m1)
          /\ \A rail \in Rail :
               /\ All(d, rail) = 0 => RecvFrom(f2[rail], rail, m1) = <<m1, rail>>
               /\ All(d, rail) # 0 => RecvFrom(f2[rail], rail, m1) = RecvFrom(f[rail], rail, m)
      BY ONLY r \in Rank, <2>4, RecvQueuesPost
    <2> QED BY <2>3, <2>5
  <1>9. Posted(r)' = m1 /\ Dual(r)' = d /\ TotalSteps(r)' = TotalSteps(r)
    <2>1. Dual(r)' = d /\ TotalSteps(r)' = TotalSteps(r)
      BY <1>3, <1>6, SettingKept
    <2>2. Posted(r)' = m1
      BY <1>5, <2>1 DEF Posted
    <2> QED BY <2>1, <2>2
  <1>10. ASSUME NEW rail \in Rail
         PROVE  /\ RecvPos(r, rail)' = IF All(d, rail) = 0 THEN <<m1, rail>> ELSE RecvPos(r, rail)
                /\ RecvPos(r, rail)'[1] \in Nat
                /\ SendPos(r, rail)' = SendPos(r, rail)
    <2>1. RecvPos(r, rail)' = RecvFrom(recvq'[r][rail], rail, m1)
          /\ RecvPos(r, rail) = RecvFrom(recvq[r][rail], rail, m)
      BY <1>3, <1>9 DEF RecvPos
    <2>2. RecvFrom(recvq'[r][rail], rail, m1) \in Position(d, rail, m1)
      <3>1. recvq'[r][rail] \in Seq(Recv) /\ Receives(recvq'[r][rail], r, d, rail, m1)
        BY <1>8 DEF RecvQueues
      <3> QED BY ONLY <1>3, <3>1, rail \in Rail, RecvPlace
    <2>3. RecvFrom(recvq'[r][rail], rail, m1)[1] \in Nat
      BY ONLY <1>3, <2>2, rail \in Rail, PendType
    <2>4. SendPos(r, rail) = <<0, rail>>
      BY <1>2 DEF SendPos
    <2>5. SendPos(r, rail)' = <<0, rail>>
      BY <1>5 DEF SendPos
    <2> QED BY <1>8, <2>1, <2>3, <2>4, <2>5
  <1>11. Types'
    <2>1. recvq' \in [Rank -> [Rail -> Seq(Recv)]] /\ recvPending' \in [Rank -> [0 .. N - 1 -> Int]]
      <3>1. recvq' = [recvq EXCEPT ![r] = recvq'[r]]
            /\ recvPending' = [recvPending EXCEPT ![r] = recvPending'[r]]
        BY <1>2, <1>7
      <3> QED BY <1>1, <1>8, <3>1 DEF Types
    <2> QED BY <1>1, <1>5, <1>6, <2>1 DEF Types
  <1>12. Shape'
    <2>1. PlaceShape(r)'
      <3>1. 0 < TotalSteps(r)
        BY <1>3
      <3> QED BY <1>5, <1>6, <1>9, <3>1 DEF PlaceShape
    <2>2. RecvShape(r)'
      <3>1. \A rail \in Rail : 0 <= RecvPos(r, rail)'[1]
        BY <1>10
      <3>2. \A rail \in Rail : pc'[r] \in {"send", "wait"} => step'[r] <= RecvPos(r, rail)'[1]
        BY <1>5, <3>1
      <3> QED BY <1>5, <1>8, <1>9, <3>2 DEF RecvShape
    <2>3. SendShape(r)'
      <3>1. /\ SendQueues(sendq[r], sendPending[r], r, Dual(r), step[r], SendFrom(r, step[r]))
            /\ \A rail \in Rail : sendq[r][rail] = <<>>
        BY <1>1, <1>2 DEF Shape, SendShape
      <3>2. sendq[r][0] = <<>> /\ sendq[r][1] = <<>> /\ step[r] \in Nat /\ step'[r] \in Nat
        BY <1>1, <1>3, <1>5, <3>1, Basics DEF Rail
      <3>3. sendPending[r] = 0
        BY <3>1, <3>2, SendNone
      <3>4. SendQueues(sendq[r], sendPending[r], r, Dual(r), step'[r], SendFrom(r, step[r])')
        BY <3>2, <3>3, SendNone
      <3> QED BY <1>3, <1>5, <1>6, <1>9, <3>1, <3>4 DEF SendShape
    <2>4. \A q \in Rank \ {r} : PlaceShape(q)' /\ RecvShape(q)' /\ SendShape(q)'
      BY <1>1, <1>5, <1>6, <1>7, ShapeKept DEF Shape
    <2> QED BY <2>1, <2>2, <2>3, <2>4 DEF Shape
  <1>13. Entered'
    BY <1>1, <1>2, <1>5, <1>6 DEF Entered
  <1>14. ASSUME failed = {}, Alike PROVE \A q \in Rank : Linked(q)' /\ Data(q)'
    <2>1. \A q \in Rank : Linked(q) /\ Data(q)
      BY <1>14 DEF IInv, Whole
    <2>2. ASSUME NEW q \in Rank, NEW rail \in Rail, All(Dual(q), rail) # 0
          PROVE  SendPos(q, rail)' = SendPos(q, rail) /\ RecvPos(q, rail)' = RecvPos(q, rail)
      <3>1. CASE q = r
        <4>1. All(d, rail) # 0
          BY <1>3, <2>2, <3>1
        <4> QED BY <1>10, <3>1, <4>1
      <3>2. CASE q # r
        BY <1>5, <1>6, <1>7, <3>2, PosKept
      <3> QED BY <3>1, <3>2
    <2>3. \A q \in Rank : Linked(q)'
      BY <1>6, <1>14, <2>1, <2>2, LinkedKept
    <2>4. \A q \in Rank \ {r} : Data(q)'
      BY <1>1, <1>5, <1>6, <2>1, <2>2, DataKept
    <2>5. Data(r)'
      <3>1. Received(r)'
        <4>1. Land(r)' = Land(r)
          BY <1>6, SettingKept DEF Land
        <4> QED BY <1>1, <1>2, <1>6, <2>1, <2>2, <4>1, ReceivedKept DEF Data
      <3>2. OwnChunk(r)'
        BY <1>5, <1>6, <1>4 DEF OwnChunk
      <3>3. PutChunks(r)'
        <4>1. setting'[r].mode = "legacy" /\ pc'[r] \in {"send", "wait"} => step'[r] = 0
          BY <1>5
        <4>2. 0 .. 0 - 1 = {}
          OBVIOUS
        <4> QED BY <4>1, <4>2 DEF PutChunks
      <3>4. Returns(r)'
        BY <1>5 DEF Returns
      <3> QED BY <3>1, <3>2, <3>3, <3>4 DEF Data
    <2> QED BY <2>3, <2>4, <2>5
  <1>15. Whole'
    BY <1>6, <1>14, WholeStep
  <1> QED BY <1>11, <1>12, <1>13, <1>15 DEF IInv

-----------------------------------------------------------------------------
(* The own chunk of a rank.                                                *)

\* What a rank has received stays, when a step writes only what is due.
LEMMA ReceivedWritten ==
  ASSUME Types, setting' = setting, NEW q \in Rank, Received(q),
         pc[q] \notin {"idle", "barrier"}, coll'[q] = coll[q],
         \A c \in Cell : Land(q)'[c] = Land(q)[c] \/ Land(q)'[c] = Due(q, c),
         \A rail \in Rail : All(Dual(q), rail) # 0 => RecvPos(q, rail)' = RecvPos(q, rail)
  PROVE  Received(q)'
  <1>1. \A s, p : Ended(q, s, p)' = Ended(q, s, p)
    BY EndedKept
  <1>2. TotalSteps(q)' = TotalSteps(q) /\ \A c : Due(q, c)' = Due(q, c)
    BY SettingKept DEF Due
  <1>3. ASSUME NEW s \in 0 .. TotalSteps(q) - 1, NEW p \in Piece
        PROVE  CellAt(ReceiveIndex(q, s), p) \in Cell
    <2>1. s \in 0 .. N - 1
      BY Basics
    <2> QED BY <2>1, Indices DEF CellAt, Cell
  <1> SUFFICES ASSUME NEW s \in 0 .. TotalSteps(q) - 1, NEW p \in Piece, Ended(q, s, p)
               PROVE  LET c == CellAt(ReceiveIndex(q, s), p) IN Land(q)'[c] = Due(q, c)
    BY <1>1, <1>2 DEF Received
  <1>4. PICK c \in Cell : c = CellAt(ReceiveIndex(q, s), p)
    BY <1>3
  <1>5. Land(q)[c] = Due(q, c)
    BY <1>4 DEF Received
  <1> QED BY <1>4, <1>5

\* A rank that has read its own chunk, or written it, goes on; its place in
\* the ring, its queues and its counters stay.
LEMMA OwnKept ==
  ASSUME Types, Shape, Entered, NEW r \in Rank, pc[r] \in {"read", "write"},
         NEW x \in {"write", "send"}, pc' = [pc EXCEPT ![r] = x],
         UNCHANGED <<setting, coll, step, recvq, sendq, recvPending, sendPending, failed>>
  PROVE  /\ Shape' /\ Entered' /\ pc' \in [Rank -> PCs] /\ pc'[r] = x
         /\ step[r] = 0 /\ setting[r].mode # "full"
         /\ \A q \in Rank \ {r} : pc'[q] = pc[q]
         /\ \A q \in Rank, rail \in Rail :
              SendPos(q, rail)' = SendPos(q, rail) /\ RecvPos(q, rail)' = RecvPos(q, rail)
  <1>1. pc \in [Rank -> PCs]
    BY DEF Types
  <1>2. /\ pc' \in [Rank -> PCs] /\ pc'[r] = x /\ \A q \in Rank \ {r} : pc'[q] = pc[q]
    BY <1>1 DEF PCs
  <1>3. /\ setting' = setting /\ coll' = coll /\ step' = step /\ recvq' = recvq /\ sendq' = sendq
        /\ recvPending' = recvPending /\ sendPending' = sendPending
    OBVIOUS
  <1>4. step[r] = 0 /\ setting[r].mode # "full"
    BY DEF Shape, PlaceShape
  <1>5. Dual(r)' = Dual(r) /\ TotalSteps(r)' = TotalSteps(r) /\ SendFrom(r, step[r])' = SendFrom(r, step[r])
    <2>1. setting'[r] = setting[r] /\ step'[r] = step[r]
      BY <1>3
    <2> QED BY <2>1 DEF Dual, TotalSteps, SendFrom, GpuDirect
  <1>6. Posted(r)' = TotalSteps(r) /\ Posted(r) = TotalSteps(r)
    BY <1>2, <1>5 DEF Posted
  <1>7. ASSUME NEW rail \in Rail
        PROVE  SendPos(r, rail)' = SendPos(r, rail) /\ RecvPos(r, rail)' = RecvPos(r, rail)
    <2>1. SendPos(r, rail) = <<0, rail>>
      BY DEF SendPos
    <2>2. SendPos(r, rail)' = <<0, rail>>
      BY <1>2, <1>3, <1>4 DEF SendPos
    <2> QED BY <1>3, <1>6, <2>1, <2>2 DEF RecvPos
  <1>8. Shape'
    <2>1. PlaceShape(r)'
      <3>1. 0 < TotalSteps(r)
        BY Basics
      <3> QED BY <1>2, <1>3, <1>4, <1>5, <3>1 DEF PlaceShape
    <2>2. RecvShape(r)'
      <3>1. RecvQueues(recvq[r], recvPending[r], r, Dual(r), Posted(r))
        BY DEF Shape, RecvShape
      <3>2. ASSUME NEW rail \in Rail PROVE RecvPos(r, rail)[1] \in Nat
        <4>1. recvq[r][rail] \in Seq(Recv) /\ Receives(recvq[r][rail], r, Dual(r), rail, Posted(r))
          BY <3>1, Basics DEF RecvQueues
        <4>2. Dual(r) \in BOOLEAN /\ Posted(r) \in 0 .. N /\ Posted(r) \in Nat
          BY RingAssumption, Basics
        <4>3. RecvFrom(recvq[r][rail], rail, Posted(r)) \in Position(Dual(r), rail, Posted(r))
          BY <4>1, <4>2, RecvPlace
        <4>4. RecvFrom(recvq[r][rail], rail, Posted(r))[1] \in Nat
          BY ONLY <4>2, <4>3, rail \in Rail, PendType
        <4> QED BY <4>4 DEF RecvPos
      <3>3. \A rail \in Rail : step'[r] <= RecvPos(r, rail)'[1]
        BY <1>3, <1>4, <1>7, <3>2
      <3> QED BY <1>2, <1>3, <1>5, <1>6, <3>1, <3>3 DEF RecvShape
    <2>3. SendShape(r)'
      <3>1. /\ SendQueues(sendq[r], sendPending[r], r, Dual(r), step[r], SendFrom(r, step[r]))
            /\ \A rail \in Rail : sendq[r][rail] = <<>>
        BY DEF Shape, SendShape
      <3> QED BY <1>3, <1>5, <3>1 DEF SendShape
    <2>4. \A q \in Rank \ {r} : PlaceShape(q)' /\ RecvShape(q)' /\ SendShape(q)'
      BY <1>2, <1>3, ShapeKept DEF Shape
    <2> QED BY <2>1, <2>2, <2>3, <2>4 DEF Shape
  <1>9. Entered'
    BY <1>2, <1>3 DEF Entered
  <1>10. \A q \in Rank \ {r} : \A rail \in Rail :
            SendPos(q, rail)' = SendPos(q, rail) /\ RecvPos(q, rail)' = RecvPos(q, rail)
    BY <1>2, <1>3, PosKept
  <1> QED BY <1>2, <1>4, <1>7, <1>8, <1>9, <1>10

\* A rank reads its own chunk into the send buffer.
LEMMA ReadOwnIInv == ASSUME IInv, NEW r \in Rank, ReadOwn(r) PROVE IInv'
  <1>1. Types /\ Shape /\ Entered
    BY DEF IInv
  <1>2. /\ pc[r] = "read" /\ pc' = [pc EXCEPT ![r] = "write"]
        /\ buf' = [buf EXCEPT ![r] =
                     [c \in Cell |-> IF c[1] = r THEN <<coll[r], r, c[2]>> ELSE buf[r][c]]]
        /\ UNCHANGED <<setting, coll, step, dst, recvq, sendq, recvPending, sendPending, failed>>
    BY DEF ReadOwn, Read
  <1>3. /\ Shape' /\ Entered' /\ pc' \in [Rank -> PCs] /\ pc'[r] = "write"
        /\ step[r] = 0 /\ setting[r].mode # "full"
        /\ \A q \in Rank \ {r} : pc'[q] = pc[q]
        /\ \A q \in Rank, rail \in Rail :
              SendPos(q, rail)' = SendPos(q, rail) /\ RecvPos(q, rail)' = RecvPos(q, rail)
    <2>1. pc[r] \in {"read", "write"} /\ "write" \in {"write", "send"}
          /\ UNCHANGED <<setting, coll, step, recvq, sendq, recvPending, sendPending, failed>>
      BY <1>2
    <2> QED BY ONLY r \in Rank, <1>1, <1>2, <2>1, OwnKept
  <1>4. setting' = setting /\ coll' = coll /\ step' = step /\ dst' = dst /\ failed' = failed
    BY <1>2
  <1>5. /\ \A q \in Rank \ {r} : buf'[q] = buf[q]
        /\ \A c \in Cell : /\ c[1] = r => buf'[r][c] = Due(r, c)
                           /\ c[1] # r => buf'[r][c] = buf[r][c]
    <2>1. buf'[r] = [c \in Cell |-> IF c[1] = r THEN <<coll[r], r, c[2]>> ELSE buf[r][c]]
      BY <1>1, <1>2 DEF Types
    <2> QED BY <1>1, <1>2, <2>1 DEF Types, Due
  <1>6. Types'
    <2>1. ASSUME NEW c \in Cell
          PROVE (IF c[1] = r THEN <<coll[r], r, c[2]>> ELSE buf[r][c]) \in Value
      <3>1. buf[r][c] \in Value
        BY <1>1 DEF Types
      <3>2. coll[r] \in 1 .. MaxCollectives
        <4>1. coll[r] # 0 /\ coll[r] \in 0 .. MaxCollectives
          BY <1>1, <1>2 DEF Entered, Types
        <4> QED BY <4>1, RingAssumption
      <3>3. <<coll[r], r, c[2]>> \in (1 .. MaxCollectives) \X Rank \X Piece
        BY <3>2 DEF Cell
      <3> QED BY <3>1, <3>3 DEF Value
    <2>2. buf' \in [Rank -> [Cell -> Value]]
      BY <1>1, <1>2, <2>1 DEF Types
    <2> QED BY <1>1, <1>2, <1>3, <2>2 DEF Types
  <1>7. ASSUME failed = {}, Alike PROVE \A q \in Rank : Linked(q)' /\ Data(q)'
    <2>1. \A q \in Rank : Linked(q) /\ Data(q)
      BY <1>7 DEF IInv, Whole
    <2>2. \A q \in Rank : Linked(q)'
      BY <1>3, <1>4, <1>7, <2>1, LinkedKept
    <2>3. \A q \in Rank \ {r} : Data(q)'
      BY <1>1, <1>3, <1>4, <1>5, <2>1, DataKept
    <2>4. Data(r)'
      <3>1. Received(r)'
        <4>1. \A c \in Cell : Land(r)'[c] = Land(r)[c] \/ Land(r)'[c] = Due(r, c)
          <5>1. GpuDirect(r)' = GpuDirect(r)
            BY <1>4, SettingKept
          <5> QED BY <1>4, <1>5, <5>1 DEF Land
        <4> QED BY <1>1, <1>2, <1>3, <1>4, <2>1, <4>1, ReceivedWritten DEF Data
      <3>2. OwnChunk(r)'
        <4>1. \A p \in Piece : CellAt(r, p) \in Cell /\ CellAt(r, p)[1] = r
          BY DEF CellAt, Cell
        <4>2. \A p \in Piece : buf'[r][CellAt(r, p)] = Due(r, CellAt(r, p))
          BY <1>5, <4>1
        <4> QED BY <1>3, <1>4, <4>2 DEF OwnChunk, Due
      <3>3. PutChunks(r)' /\ Returns(r)'
        BY <1>3 DEF PutChunks, Returns
      <3> QED BY <3>1, <3>2, <3>3 DEF Data
    <2> QED BY <2>2, <2>3, <2>4
  <1>8. Whole'
    BY <1>4, <1>7, WholeStep
  <1> QED BY <1>3, <1>6, <1>8 DEF IInv

\* A rank writes its own chunk to the destination.
LEMMA WriteOwnIInv == ASSUME IInv, NEW r \in Rank, WriteOwn(r) PROVE IInv'
  <1>1. Types /\ Shape /\ Entered
    BY DEF IInv
  <1>2. /\ pc[r] = "write" /\ pc' = [pc EXCEPT ![r] = "send"]
        /\ dst' = [dst EXCEPT ![r] =
                     [c \in Cell |-> IF c[1] = r THEN buf[r][c] ELSE dst[r][c]]]
        /\ UNCHANGED <<setting, coll, step, buf, recvq, sendq, recvPending, sendPending, failed>>
    BY DEF WriteOwn
  <1>3. /\ Shape' /\ Entered' /\ pc' \in [Rank -> PCs] /\ pc'[r] = "send"
        /\ step[r] = 0 /\ setting[r].mode # "full"
        /\ \A q \in Rank \ {r} : pc'[q] = pc[q]
        /\ \A q \in Rank, rail \in Rail :
              SendPos(q, rail)' = SendPos(q, rail) /\ RecvPos(q, rail)' = RecvPos(q, rail)
    <2>1. pc[r] \in {"read", "write"} /\ "send" \in {"write", "send"}
          /\ UNCHANGED <<setting, coll, step, recvq, sendq, recvPending, sendPending, failed>>
      BY <1>2
    <2> QED BY ONLY r \in Rank, <1>1, <1>2, <2>1, OwnKept
  <1>4. setting' = setting /\ coll' = coll /\ step' = step /\ buf' = buf /\ failed' = failed
    BY <1>2
  <1>5. /\ \A q \in Rank \ {r} : dst'[q] = dst[q]
        /\ \A c \in Cell : /\ c[1] = r => dst'[r][c] = buf[r][c]
                           /\ c[1] # r => dst'[r][c] = dst[r][c]
    BY <1>1, <1>2 DEF Types
  <1>6. Types'
    <2>1. \A c \in Cell : (IF c[1] = r THEN buf[r][c] ELSE dst[r][c]) \in Value
      BY <1>1 DEF Types
    <2>2. dst' \in [Rank -> [Cell -> Value]]
      BY <1>1, <1>2, <2>1 DEF Types
    <2> QED BY <1>1, <1>2, <1>3, <2>2 DEF Types
  <1>7. ASSUME failed = {}, Alike PROVE \A q \in Rank : Linked(q)' /\ Data(q)'
    <2>1. \A q \in Rank : Linked(q) /\ Data(q)
      BY <1>7 DEF IInv, Whole
    <2>2. \A q \in Rank : Linked(q)'
      BY <1>3, <1>4, <1>7, <2>1, LinkedKept
    <2>3. \A q \in Rank \ {r} : Data(q)'
      BY <1>1, <1>3, <1>4, <1>5, <2>1, DataKept
    <2>4. Data(r)'
      <3>1. /\ \A p \in Piece : CellAt(r, p) \in Cell /\ CellAt(r, p)[1] = r
            /\ \A c \in Cell : c[1] = r => \E p \in Piece : c = CellAt(r, p)
        BY DEF CellAt, Cell
      <3>2. \A p \in Piece : buf[r][CellAt(r, p)] = Due(r, CellAt(r, p))
        BY <1>2, <1>3, <2>1 DEF Data, OwnChunk
      <3>3. \A c \in Cell : dst'[r][c] = dst[r][c] \/ dst'[r][c] = Due(r, c)
        BY <1>5, <3>1, <3>2
      <3>4. Received(r)'
        <4>1. \A c \in Cell : Land(r)'[c] = Land(r)[c] \/ Land(r)'[c] = Due(r, c)
          <5>1. GpuDirect(r)' = GpuDirect(r)
            BY <1>4, SettingKept
          <5> QED BY <1>4, <3>3, <5>1 DEF Land
        <4> QED BY <1>1, <1>2, <1>3, <1>4, <2>1, <4>1, ReceivedWritten DEF Data
      <3>5. OwnChunk(r)'
        <4>1. \A p \in Piece : dst'[r][CellAt(r, p)] = Due(r, CellAt(r, p))
          BY <1>5, <3>1, <3>2
        <4> QED BY <1>3, <1>4, <3>2, <4>1 DEF OwnChunk, Due
      <3>6. PutChunks(r)' /\ Returns(r)'
        <4>1. 0 .. 0 - 1 = {}
          OBVIOUS
        <4> QED BY <1>3, <1>4, <4>1 DEF PutChunks, Returns
      <3> QED BY <3>4, <3>5, <3>6 DEF Data
    <2> QED BY <2>2, <2>3, <2>4
  <1>8. Whole'
    BY <1>4, <1>7, WholeStep
  <1> QED BY <1>3, <1>6, <1>8 DEF IInv

-----------------------------------------------------------------------------
(* The ring steps of a rank.                                               *)

\* A rank submits the sends of a step.
LEMMA SendIInv == ASSUME IInv, NEW r \in Rank, Send(r) PROVE IInv'
  <1> DEFINE s == step[r]
             n == s + 1
             d == Dual(r)
             from == SendFrom(r, step[r])
  <1>1. Types /\ Shape /\ Entered
    BY DEF IInv
  <1>2. /\ pc[r] = "send" /\ pc' = [pc EXCEPT ![r] = "wait"]
        /\ sendq' = [sendq EXCEPT ![r] = SentQueues(sendq[r], r, d, s, from)]
        /\ sendPending' = [sendPending EXCEPT ![r] = Pieces]
        /\ UNCHANGED <<setting, coll, step, buf, dst, recvq, recvPending, failed>>
    BY RailPiecesSeq DEF Send, NewSends, SentQueues
  <1>3. /\ s \in 0 .. N - 1 /\ d \in BOOLEAN /\ from \in {"src", "buf", "dst"} /\ n = s + 1
        /\ s = step[r] /\ d = Dual(r) /\ from = SendFrom(r, step[r])
    BY <1>1, Basics
  <1> HIDE DEF s, n, d, from
  <1>4. /\ setting' = setting /\ coll' = coll /\ step' = step /\ buf' = buf /\ dst' = dst
        /\ recvq' = recvq /\ recvPending' = recvPending /\ failed' = failed
    BY <1>2
  <1>5. /\ pc' \in [Rank -> PCs] /\ pc'[r] = "wait" /\ sendq'[r] = SentQueues(sendq[r], r, d, s, from)
        /\ sendPending'[r] = Pieces
        /\ \A q \in Rank \ {r} :
             pc'[q] = pc[q] /\ sendq'[q] = sendq[q] /\ sendPending'[q] = sendPending[q]
    BY <1>1, <1>2 DEF Types, PCs
  <1>6. /\ sendq'[r] \in [Rail -> Seq(Sending)]
        /\ SendQueues(sendq'[r], Pieces, r, d, s, from)
        /\ \A rail \in Rail : All(d, rail) # 0 => SendFirst(sendq'[r][rail], rail, s) = <<s, rail>>
    <2>1. PICK f, f2 : f = sendq[r] /\ f2 = sendq'[r]
      OBVIOUS
    <2>2. /\ f \in [Rail -> Seq(Sending)] /\ \A rail \in Rail : f[rail] = <<>>
      BY <1>1, <1>2, <2>1, Basics DEF Shape, SendShape
    <2>3. f2 = SentQueues(f, r, d, s, from)
      BY <1>5, <2>1
    <2>4. /\ f2 \in [Rail -> Seq(Sending)]
          /\ SendQueues(f2, Pieces, r, d, s, from)
          /\ \A rail \in Rail : All(d, rail) # 0 => SendFirst(f2[rail], rail, s) = <<s, rail>>
      BY ONLY r \in Rank, <1>3, <2>2, <2>3, SendQueuesPost
    <2> QED BY <2>1, <2>4
  <1>7. Posted(r)' = Posted(r) /\ Dual(r)' = d /\ TotalSteps(r)' = TotalSteps(r) /\ SendFrom(r, step[r])' = from
    <2>1. setting'[r] = setting[r] /\ step'[r] = step[r]
      BY <1>4
    <2>2. Dual(r)' = d /\ TotalSteps(r)' = TotalSteps(r) /\ SendFrom(r, step[r])' = from
      BY <1>3, <2>1 DEF Dual, TotalSteps, SendFrom, GpuDirect
    <2>3. Posted(r)' = Posted(r)
      BY <1>2, <1>5, <2>2 DEF Posted
    <2> QED BY <2>2, <2>3
  <1>8. \A rail \in Rail : RecvPos(r, rail)' = RecvPos(r, rail)
    BY <1>4, <1>7 DEF RecvPos
  <1>9. ASSUME NEW rail \in Rail, All(d, rail) # 0 PROVE SendPos(r, rail)' = SendPos(r, rail)
    <2>1. SendPos(r, rail) = <<s, rail>>
      BY <1>2, <1>3 DEF SendPos
    <2>2. SendPos(r, rail)' = SendFirst(sendq'[r][rail], rail, s)
      BY <1>3, <1>4, <1>5 DEF SendPos
    <2> QED BY <1>6, <1>9, <2>1, <2>2
  <1>10. Types'
    <2>1. sendq' \in [Rank -> [Rail -> Seq(Sending)]]
      <3>1. sendq' = [sendq EXCEPT ![r] = sendq'[r]]
        BY <1>2, <1>5
      <3> QED BY <1>1, <1>6, <3>1 DEF Types
    <2>2. sendPending' \in [Rank -> Int]
      <3>1. Pieces \in Int
        BY RingAssumption
      <3> QED BY <1>1, <1>2, <3>1 DEF Types
    <2> QED BY <1>1, <1>4, <1>5, <2>1, <2>2 DEF Types
  <1>11. Shape'
    <2>1. PlaceShape(r)'
      <3>1. step[r] < TotalSteps(r)
        BY <1>1, <1>2 DEF Shape, PlaceShape
      <3> QED BY <1>4, <1>5, <1>7, <3>1 DEF PlaceShape
    <2>2. RecvShape(r)'
      <3>1. RecvShape(r)
        BY <1>1 DEF Shape
      <3> QED BY <1>2, <1>3, <1>4, <1>5, <1>7, <1>8, <3>1 DEF RecvShape
    <2>3. SendShape(r)'
      BY <1>3, <1>4, <1>5, <1>6, <1>7 DEF SendShape
    <2>4. \A q \in Rank \ {r} : PlaceShape(q)' /\ RecvShape(q)' /\ SendShape(q)'
      BY <1>1, <1>4, <1>5, ShapeKept DEF Shape
    <2> QED BY <2>1, <2>2, <2>3, <2>4 DEF Shape
  <1>12. Entered'
    BY <1>1, <1>2, <1>4, <1>5 DEF Entered
  <1>13. ASSUME failed = {}, Alike PROVE \A q \in Rank : Linked(q)' /\ Data(q)'
    <2>1. \A q \in Rank : Linked(q) /\ Data(q)
      BY <1>13 DEF IInv, Whole
    <2>2. ASSUME NEW q \in Rank, NEW rail \in Rail, All(Dual(q), rail) # 0
          PROVE  SendPos(q, rail)' = SendPos(q, rail) /\ RecvPos(q, rail)' = RecvPos(q, rail)
      <3>1. CASE q = r
        BY <1>3, <1>8, <1>9, <2>2, <3>1
      <3>2. CASE q # r
        BY <1>4, <1>5, <3>2, PosKept
      <3> QED BY <3>1, <3>2
    <2>3. \A q \in Rank : Linked(q)'
      BY <1>4, <1>13, <2>1, <2>2, LinkedKept
    <2>4. \A q \in Rank \ {r} : Data(q)'
      BY <1>1, <1>4, <1>5, <2>1, <2>2, DataKept
    <2>5. Data(r)'
      <3>1. Received(r)'
        <4>1. Land(r)' = Land(r)
          BY <1>4, SettingKept DEF Land
        <4> QED BY <1>1, <1>2, <1>4, <1>8, <2>1, <4>1, ReceivedKept DEF Data
      <3>2. OwnChunk(r)' /\ PutChunks(r)'
        <4>1. OwnChunk(r) /\ PutChunks(r)
          BY <2>1 DEF Data
        <4> QED BY <1>2, <1>4, <1>5, <4>1 DEF OwnChunk, PutChunks, Due
      <3>3. Returns(r)'
        BY <1>5 DEF Returns
      <3> QED BY <3>1, <3>2, <3>3 DEF Data
    <2> QED BY <2>3, <2>4, <2>5
  <1>14. Whole'
    BY <1>4, <1>13, WholeStep
  <1> QED BY <1>10, <1>11, <1>12, <1>14 DEF IInv

\* The wait of a step ends, and the rank goes to the next step or returns:
\* both of its queues have moved past the step.
LEMMA AdvanceKept ==
  ASSUME Types, Shape, Entered, NEW r \in Rank, pc[r] = "wait", StepFinished(r), Advance(r),
         UNCHANGED <<setting, coll, recvq, sendq, recvPending, sendPending, failed>>
  PROVE  /\ Shape' /\ Entered' /\ pc' \in [Rank -> PCs] /\ step' \in [Rank -> 0 .. N - 1]
         /\ \/ pc'[r] = "send" /\ step'[r] = step[r] + 1 /\ step[r] + 1 < TotalSteps(r)
            \/ pc'[r] = "idle" /\ step[r] + 1 = TotalSteps(r)
         /\ \A q \in Rank \ {r} : pc'[q] = pc[q] /\ step'[q] = step[q]
         /\ \A rail \in Rail : step[r] < RecvPos(r, rail)[1] /\ RecvPos(r, rail)[1] \in Nat
         /\ \A q \in Rank, rail \in Rail :
              SendPos(q, rail)' = SendPos(q, rail) /\ RecvPos(q, rail)' = RecvPos(q, rail)
  <1>1. /\ setting' = setting /\ coll' = coll /\ recvq' = recvq /\ sendq' = sendq
        /\ recvPending' = recvPending /\ sendPending' = sendPending
    OBVIOUS
  <1>2. /\ pc \in [Rank -> PCs] /\ step \in [Rank -> 0 .. N - 1]
    BY DEF Types
  <1>3. /\ step[r] \in 0 .. N - 1 /\ step[r] \in Nat /\ step[r] < TotalSteps(r)
        /\ TotalSteps(r) \in 1 .. N /\ N \in Nat
    BY Basics DEF Shape, PlaceShape
  <1>4. /\ \/ /\ pc'[r] = "send" /\ step'[r] = step[r] + 1 /\ step[r] + 1 < TotalSteps(r)
              /\ pc' = [pc EXCEPT ![r] = "send"] /\ step' = [step EXCEPT ![r] = step[r] + 1]
           \/ /\ pc'[r] = "idle" /\ step'[r] = step[r] /\ step[r] + 1 = TotalSteps(r)
              /\ pc' = [pc EXCEPT ![r] = "idle"] /\ step' = step
    <2>1. CASE step[r] + 1 < TotalSteps(r)
      BY <1>2, <2>1 DEF Advance
    <2>2. CASE ~ (step[r] + 1 < TotalSteps(r))
      <3>1. step[r] + 1 = TotalSteps(r)
        BY <1>3, <2>2
      <3>2. step' = step /\ pc' = [pc EXCEPT ![r] = "idle"]
        BY <2>2 DEF Advance
      <3> QED BY <1>2, <3>1, <3>2
    <2> QED BY <2>1, <2>2
  <1>5. /\ pc' \in [Rank -> PCs] /\ step' \in [Rank -> 0 .. N - 1]
        /\ \A q \in Rank \ {r} : pc'[q] = pc[q] /\ step'[q] = step[q]
    <2>1. step[r] + 1 < TotalSteps(r) => step[r] + 1 \in 0 .. N - 1
      BY <1>3
    <2> QED BY <1>2, <1>4, <2>1 DEF PCs
  <1>6. Posted(r) = TotalSteps(r) /\ TotalSteps(r)' = TotalSteps(r) /\ Dual(r)' = Dual(r)
        /\ Posted(r)' = TotalSteps(r)
    <2>1. Posted(r) = TotalSteps(r)
      BY DEF Posted
    <2>2. TotalSteps(r)' = TotalSteps(r) /\ Dual(r)' = Dual(r)
      BY <1>1, SettingKept
    <2>3. pc'[r] \in {"send", "idle"}
      BY <1>4
    <2>4. Posted(r)' = TotalSteps(r)
      BY <2>2, <2>3 DEF Posted
    <2> QED BY <2>1, <2>2, <2>4
  <1>7. \A rail \in Rail : step[r] < RecvPos(r, rail)[1]
    <2>1. RecvQueues(recvq[r], recvPending[r], r, Dual(r), Posted(r))
      BY DEF Shape, RecvShape
    <2>2. recvPending[r][step[r]] = 0 /\ step[r] < Posted(r)
      BY <1>3, <1>6 DEF StepFinished
    <2>3. \A rail \in Rail : step[r] < RecvFrom(recvq[r][rail], rail, Posted(r))[1]
      <3>1. PICK f, p, m, s : f = recvq[r] /\ p = recvPending[r] /\ m = Posted(r) /\ s = step[r]
        OBVIOUS
      <3>2. /\ f \in [Rail -> Seq(Recv)] /\ RecvQueues(f, p, r, Dual(r), m) /\ p[s] = 0 /\ s < m
            /\ m \in 0 .. N /\ s \in 0 .. N - 1 /\ Dual(r) \in BOOLEAN
        BY <2>1, <2>2, <3>1, Basics
      <3>3. \A rail \in Rail : s < RecvFrom(f[rail], rail, m)[1]
        BY ONLY <3>2, RecvDone
      <3> QED BY <3>1, <3>3
    <2> QED BY <2>3 DEF RecvPos
  <1>8. ASSUME NEW rail \in Rail
        PROVE  /\ RecvPos(r, rail)[1] \in Nat
               /\ recvq[r][rail] # <<>> => RecvPos(r, rail)[1] < TotalSteps(r)
    <2>1. PICK q, m : q = recvq[r][rail] /\ m = Posted(r)
      OBVIOUS
    <2>2. /\ q \in Seq(Recv) /\ Receives(q, r, Dual(r), rail, m)
          /\ Dual(r) \in BOOLEAN /\ m \in 0 .. N /\ m \in Nat
      BY <1>3, <1>6, <2>1, Basics DEF Shape, RecvShape, RecvQueues
    <2>3. RecvFrom(q, rail, m) \in Position(Dual(r), rail, m)
      BY ONLY <2>2, rail \in Rail, RecvPlace
    <2>4. RecvFrom(q, rail, m)[1] \in Nat
      BY ONLY <2>2, <2>3, rail \in Rail, PendType
    <2>5. ASSUME q # <<>> PROVE RecvFrom(q, rail, m)[1] < m
      <3>1. \E a \in 0 .. m - 1, b \in On(Dual(r), rail) : RecvFrom(q, rail, m) = <<a, b>>
        BY ONLY <2>2, <2>5, rail \in Rail, RecvHead
      <3> QED BY <2>2, <3>1
    <2> QED BY <1>6, <2>1, <2>4, <2>5 DEF RecvPos
  <1>9. \A rail \in Rail : sendq[r][rail] = <<>>
    <2>1. SendQueues(sendq[r], sendPending[r], r, Dual(r), step[r], SendFrom(r, step[r]))
      BY DEF Shape, SendShape
    <2>2. PICK f, p, s, from : f = sendq[r] /\ p = sendPending[r] /\ s = step[r] /\ from = SendFrom(r, step[r])
      OBVIOUS
    <2>3. /\ f \in [Rail -> Seq(Sending)] /\ p = 0 /\ SendQueues(f, p, r, Dual(r), s, from)
          /\ s \in Nat /\ Dual(r) \in BOOLEAN
      BY <1>3, <2>1, <2>2, Basics DEF StepFinished
    <2>4. \A rail \in Rail : f[rail] = <<>>
      BY ONLY <2>3, SendDone
    <2> QED BY <2>2, <2>4
  <1>10. ASSUME NEW rail \in Rail
         PROVE  SendPos(r, rail)' = SendPos(r, rail) /\ RecvPos(r, rail)' = RecvPos(r, rail)
    <2>1. SendPos(r, rail) = <<step[r] + 1, rail>>
      BY <1>9 DEF SendPos, SendFirst
    <2>2. SendPos(r, rail)' = <<step[r] + 1, rail>>
      BY <1>4, <1>6 DEF SendPos
    <2> QED BY <1>1, <1>6, <2>1, <2>2 DEF RecvPos
  <1>11. Shape'
    <2>1. PlaceShape(r)'
      BY <1>4, <1>6 DEF PlaceShape
    <2>2. RecvShape(r)'
      <3>1. RecvQueues(recvq[r], recvPending[r], r, Dual(r), TotalSteps(r))
        BY <1>6 DEF Shape, RecvShape
      <3>2. ASSUME pc'[r] = "send", NEW rail \in Rail PROVE step'[r] <= RecvPos(r, rail)'[1]
        <4>1. step'[r] = step[r] + 1
          BY <1>4, <3>2
        <4> QED BY <1>3, <1>7, <1>8, <1>10, <4>1
      <3>3. ASSUME pc'[r] = "idle", NEW rail \in Rail PROVE recvq[r][rail] = <<>>
        <4>1. step[r] + 1 = TotalSteps(r)
          BY <1>4, <3>3
        <4> QED BY <1>3, <1>7, <1>8, <4>1
      <3> QED BY <1>1, <1>4, <1>6, <3>1, <3>2, <3>3 DEF RecvShape
    <2>3. SendShape(r)'
      <3>1. SendQueues(sendq[r], sendPending[r], r, Dual(r), step[r], SendFrom(r, step[r]))
        BY DEF Shape, SendShape
      <3>2. sendq[r][0] = <<>> /\ sendq[r][1] = <<>> /\ step'[r] \in Nat
        BY <1>3, <1>4, <1>9 DEF Rail
      <3>3. sendPending[r] = 0
        BY <1>3, <3>1, <3>2, SendNone
      <3>4. SendQueues(sendq[r], sendPending[r], r, Dual(r), step'[r], SendFrom(r, step[r])')
        BY <3>2, <3>3, SendNone
      <3> QED BY <1>1, <1>6, <1>9, <3>4 DEF SendShape
    <2>4. \A q \in Rank \ {r} : PlaceShape(q)' /\ RecvShape(q)' /\ SendShape(q)'
      BY <1>1, <1>5, ShapeKept DEF Shape
    <2> QED BY <2>1, <2>2, <2>3, <2>4 DEF Shape
  <1>12. Entered'
    BY <1>1, <1>4, <1>5 DEF Entered
  <1>13. \A q \in Rank \ {r} : \A rail \in Rail :
            SendPos(q, rail)' = SendPos(q, rail) /\ RecvPos(q, rail)' = RecvPos(q, rail)
    BY <1>1, <1>5, PosKept
  <1> QED BY <1>4, <1>5, <1>7, <1>8, <1>10, <1>11, <1>12, <1>13

\* What the steps of a rank have put in the destination.
LEMMA AdvanceData ==
  ASSUME IInv, NEW r \in Rank, failed = {}, Alike, pc[r] = "wait",
         \A rail \in Rail : step[r] < RecvPos(r, rail)[1] /\ RecvPos(r, rail)[1] \in Nat,
         NEW d2, \/ GpuDirect(r) /\ d2 = dst[r]
                 \/ /\ ~ GpuDirect(r)
                    /\ d2 = [c \in Cell |-> IF c[1] = ReceiveIndex(r, step[r]) THEN buf[r][c]
                                            ELSE dst[r][c]]
  PROVE  /\ \A s \in 0 .. step[r], p \in Piece :
              LET c == CellAt(ReceiveIndex(r, s), p) IN d2[c] = Due(r, c)
         /\ setting[r].mode # "full" => \A p \in Piece : d2[CellAt(r, p)] = Due(r, CellAt(r, p))
  <1>1. Types /\ Shape /\ Received(r) /\ OwnChunk(r) /\ PutChunks(r)
    BY DEF IInv, Whole, Data
  <1>2. step[r] \in Nat /\ step[r] \in 0 .. N - 1 /\ TotalSteps(r) \in 1 .. N /\ N \in Nat
        /\ step[r] < TotalSteps(r)
    BY <1>1, Basics DEF Shape, PlaceShape
  <1>3. ASSUME NEW s \in 0 .. step[r], NEW p \in Piece
        PROVE  /\ s \in 0 .. N - 1 /\ CellAt(ReceiveIndex(r, s), p) \in Cell
               /\ LET c == CellAt(ReceiveIndex(r, s), p) IN Land(r)[c] = Due(r, c)
    <2>1. s \in 0 .. N - 1 /\ s \in 0 .. TotalSteps(r) - 1 /\ s \in Nat /\ s <= step[r]
      BY <1>2
    <2>2. Ended(r, s, p)
      <3>1. \A rail \in Rail : s < RecvPos(r, rail)[1]
        BY <1>2, <2>1
      <3> QED BY <3>1 DEF Ended
    <2>3. CellAt(ReceiveIndex(r, s), p) \in Cell
      BY <2>1, Indices DEF CellAt, Cell
    <2> QED BY <1>1, <2>1, <2>2, <2>3 DEF Received
  <1>4. CASE GpuDirect(r) /\ d2 = dst[r]
    <2>1. Land(r) = d2
      BY <1>4 DEF Land
    <2>2. setting[r].mode # "full" => \A p \in Piece : d2[CellAt(r, p)] = Due(r, CellAt(r, p))
      BY <1>1, <1>4 DEF OwnChunk
    <2> QED BY <1>3, <2>1, <2>2
  <1>5. CASE /\ ~ GpuDirect(r)
             /\ d2 = [c \in Cell |-> IF c[1] = ReceiveIndex(r, step[r]) THEN buf[r][c]
                                     ELSE dst[r][c]]
    <2>1. Land(r) = buf[r] /\ setting[r].mode = "legacy"
      BY <1>5 DEF Land, GpuDirect
    <2>2. step[r] \in 0 .. step[r]
      BY <1>2
    <2>3. ASSUME NEW c \in Cell PROVE /\ c[1] = ReceiveIndex(r, step[r]) => d2[c] = Due(r, c)
                                      /\ c[1] # ReceiveIndex(r, step[r]) => d2[c] = dst[r][c]
      <3>1. PICK p \in Piece : c = CellAt(c[1], p)
        BY DEF Cell, CellAt
      <3>2. c[1] = ReceiveIndex(r, step[r]) => buf[r][c] = Due(r, c)
        BY <1>3, <2>1, <2>2, <3>1
      <3> QED BY <1>5, <3>2
    <2>4. \A x, p : CellAt(x, p)[1] = x
      BY DEF CellAt
    <2>5. ASSUME NEW s \in 0 .. step[r], NEW p \in Piece
          PROVE  LET c == CellAt(ReceiveIndex(r, s), p) IN d2[c] = Due(r, c)
      <3>1. PICK c \in Cell : c = CellAt(ReceiveIndex(r, s), p)
        BY <1>3
      <3>2. CASE s = step[r]
        BY <2>3, <2>4, <3>1, <3>2
      <3>3. CASE s # step[r]
        <4>1. s \in 0 .. step[r] - 1
          BY <1>2, <3>3
        <4>2. dst[r][c] = Due(r, c)
          BY <1>1, <2>1, <3>1, <4>1 DEF PutChunks
        <4> QED BY <2>3, <3>1, <4>2
      <3> QED BY <3>2, <3>3
    <2>6. ASSUME NEW p \in Piece PROVE d2[CellAt(r, p)] = Due(r, CellAt(r, p))
      <3>1. PICK c \in Cell : c = CellAt(r, p)
        BY DEF CellAt, Cell
      <3>2. dst[r][c] = Due(r, c)
        BY <1>1, <2>1, <3>1 DEF OwnChunk
      <3> QED BY <2>3, <3>1, <3>2
    <2> QED BY <2>5, <2>6
  <1> QED BY <1>4, <1>5

\* The wait of a step ends; the chunk received is in place, or is put there.
LEMMA AdvanceIInv ==
  ASSUME IInv, NEW r \in Rank, pc[r] = "wait", StepFinished(r), Advance(r),
         NEW d2, dst' = [dst EXCEPT ![r] = d2],
         \/ GpuDirect(r) /\ d2 = dst[r]
         \/ /\ ~ GpuDirect(r)
            /\ d2 = [c \in Cell |-> IF c[1] = ReceiveIndex(r, step[r]) THEN buf[r][c]
                                    ELSE dst[r][c]],
         UNCHANGED <<setting, coll, buf, recvq, sendq, recvPending, sendPending, failed>>
  PROVE  IInv'
  <1>1. Types /\ Shape /\ Entered
    BY DEF IInv
  <1>2. /\ Shape' /\ Entered' /\ pc' \in [Rank -> PCs] /\ step' \in [Rank -> 0 .. N - 1]
        /\ \/ pc'[r] = "send" /\ step'[r] = step[r] + 1 /\ step[r] + 1 < TotalSteps(r)
           \/ pc'[r] = "idle" /\ step[r] + 1 = TotalSteps(r)
        /\ \A q \in Rank \ {r} : pc'[q] = pc[q] /\ step'[q] = step[q]
        /\ \A rail \in Rail : step[r] < RecvPos(r, rail)[1] /\ RecvPos(r, rail)[1] \in Nat
        /\ \A q \in Rank, rail \in Rail :
             SendPos(q, rail)' = SendPos(q, rail) /\ RecvPos(q, rail)' = RecvPos(q, rail)
    BY <1>1, AdvanceKept
  <1>3. setting' = setting /\ coll' = coll /\ buf' = buf /\ failed' = failed
    OBVIOUS
  <1>4. /\ d2 \in [Cell -> Value] /\ dst' \in [Rank -> [Cell -> Value]] /\ dst'[r] = d2
        /\ \A q \in Rank \ {r} : dst'[q] = dst[q]
    <2>1. /\ buf[r] \in [Cell -> Value] /\ dst[r] \in [Cell -> Value]
          /\ dst \in [Rank -> [Cell -> Value]]
      BY <1>1 DEF Types
    <2>2. d2 \in [Cell -> Value]
      BY <2>1
    <2> QED BY <2>1, <2>2
  <1>5. Types'
    BY <1>1, <1>2, <1>4 DEF Types
  <1>6. ASSUME failed = {}, Alike PROVE \A q \in Rank : Linked(q)' /\ Data(q)'
    <2>1. \A q \in Rank : Linked(q) /\ Data(q)
      BY <1>6 DEF IInv, Whole
    <2>2. \A q \in Rank : Linked(q)'
      BY <1>2, <1>3, <1>6, <2>1, LinkedKept
    <2>3. \A q \in Rank \ {r} : Data(q)'
      BY <1>1, <1>2, <1>3, <1>4, <2>1, DataKept
    <2>4. /\ \A s \in 0 .. step[r], p \in Piece :
               LET c == CellAt(ReceiveIndex(r, s), p) IN d2[c] = Due(r, c)
          /\ setting[r].mode # "full" => \A p \in Piece : d2[CellAt(r, p)] = Due(r, CellAt(r, p))
      BY <1>2, <1>6, AdvanceData
    <2>5. /\ step[r] \in Nat /\ step[r] \in 0 .. N - 1 /\ N \in Nat /\ N >= 2
          /\ TotalSteps(r) \in {N - 1, N} /\ (TotalSteps(r) = N <=> setting[r].mode = "full")
      BY <1>1, Basics
    <2>6. ASSUME pc'[r] = "send", step'[r] = step[r] + 1 PROVE Data(r)'
      <3>1. Received(r)'
        <4>1. Land(r)' = Land(r)
          <5>1. GpuDirect(r)' = GpuDirect(r)
            BY <1>3, SettingKept
          <5> QED BY <1>3, <1>4, <5>1 DEF Land
        <4> QED BY <1>1, <1>2, <1>3, <2>1, <4>1, ReceivedKept DEF Data
      <3>2. OwnChunk(r)'
        <4>1. setting[r].mode # "full" => \A p \in Piece : buf[r][CellAt(r, p)] = Due(r, CellAt(r, p))
          BY <2>1 DEF Data, OwnChunk
        <4> QED BY <1>3, <1>4, <2>4, <2>6, <4>1 DEF OwnChunk, Due
      <3>3. PutChunks(r)'
        <4>1. 0 .. step'[r] - 1 = 0 .. step[r]
          BY <2>5, <2>6
        <4>2. \A s \in 0 .. step[r], p \in Piece :
                 dst'[r][CellAt(ReceiveIndex(r, s), p)] = Due(r, CellAt(ReceiveIndex(r, s), p))'
          BY <1>3, <1>4, <2>4 DEF Due
        <4> QED BY ONLY <4>1, <4>2 DEF PutChunks
      <3>4. Returns(r)'
        BY <2>6 DEF Returns
      <3> QED BY <3>1, <3>2, <3>3, <3>4 DEF Data
    <2>7. ASSUME pc'[r] = "idle", step[r] + 1 = TotalSteps(r) PROVE Data(r)'
      <3>1. ASSUME NEW c \in Cell PROVE d2[c] = Due(r, c)
        <4>1. PICK q \in Rank, p \in Piece : c = CellAt(q, p)
          BY DEF Cell, CellAt
        <4>2. CASE q # r
          <5>1. PICK s \in 0 .. N - 2 : ReceiveIndex(r, s) = q
            BY <4>2, EveryChunk
          <5>2. s \in 0 .. step[r]
            BY <2>5, <2>7
          <5> QED BY <2>4, <4>1, <5>1, <5>2
        <4>3. CASE q = r /\ setting[r].mode # "full"
          BY <2>4, <4>1, <4>3
        <4>4. CASE q = r /\ setting[r].mode = "full"
          <5>1. step[r] = N - 1
            BY <2>5, <2>7, <4>4
          <5>2. N - 1 \in 0 .. step[r] /\ N - 1 \in 0 .. N - 1
            BY <2>5, <5>1
          <5>3. ReceiveIndex(r, N - 1) = r
            BY <5>2, IndexSteps
          <5> QED BY <2>4, <4>1, <4>4, <5>2, <5>3
        <4> QED BY <4>2, <4>3, <4>4
      <3>2. Returns(r)'
        BY <1>3, <1>4, <3>1 DEF Returns, Due
      <3>3. Received(r)' /\ OwnChunk(r)' /\ PutChunks(r)'
        BY <2>7 DEF Received, OwnChunk, PutChunks
      <3> QED BY <3>2, <3>3 DEF Data
    <2> QED BY <1>2, <2>2, <2>3, <2>6, <2>7
  <1>7. Whole'
    BY <1>3, <1>6, WholeStep
  <1> QED BY <1>2, <1>5, <1>7 DEF IInv

LEMMA StepDoneIInv == ASSUME IInv, NEW r \in Rank, StepDone(r) PROVE IInv'
  <1>1. dst' = [dst EXCEPT ![r] = dst[r]]
    BY DEF StepDone, IInv, Types
  <1> QED BY <1>1, AdvanceIInv DEF StepDone

LEMMA StepPutIInv == ASSUME IInv, NEW r \in Rank, StepPut(r) PROVE IInv'
  <1>1. PICK d2 : d2 = [c \in Cell |-> IF c[1] = ReceiveIndex(r, step[r]) THEN buf[r][c]
                                       ELSE dst[r][c]]
    OBVIOUS
  <1>2. dst' = [dst EXCEPT ![r] = d2]
    BY <1>1 DEF StepPut
  <1> QED BY <1>1, <1>2, AdvanceIInv DEF StepPut

-----------------------------------------------------------------------------
(* The fabric: a receive ends, a send ends.                                *)

LEMMA RecvPopped ==
  ASSUME Types, Shape, NEW n \in Rank, NEW rail \in Rail, recvq[n][rail] # <<>>,
         PopRecv(n, rail), setting' = setting, pc' = pc, step' = step
  PROVE  /\ recvq' \in [Rank -> [Rail -> Seq(Recv)]]
         /\ recvPending' \in [Rank -> [0 .. N - 1 -> Int]]
         /\ RecvShape(n)' /\ pc[n] \notin {"idle", "barrier"}
         /\ RecvPos(n, rail)' = Follow(Dual(n), rail, RecvPos(n, rail))
         /\ \E a \in 0 .. TotalSteps(n) - 1, b \in On(Dual(n), rail) :
              /\ RecvPos(n, rail) = <<a, b>>
              /\ Head(recvq[n][rail]).cell = CellAt(ReceiveIndex(n, a), b)
         /\ \A other \in Rail \ {rail} : RecvPos(n, other)' = RecvPos(n, other)
         /\ \A q \in Rank \ {n} : recvq'[q] = recvq[q] /\ recvPending'[q] = recvPending[q]
  <1>1. pc[n] \notin {"idle", "barrier"}
    BY DEF Shape, RecvShape
  <1>2. PICK f, p, f2, p2 : /\ f = recvq[n] /\ p = recvPending[n]
                            /\ f2 = Popped(f, rail) /\ p2 = Lowered(p, Head(f[rail]).step)
    OBVIOUS
  <1>3. recvq' = [recvq EXCEPT ![n] = f2] /\ recvPending' = [recvPending EXCEPT ![n] = p2]
    BY <1>2 DEF PopRecv, Popped, Lowered
  <1>4. recvq \in [Rank -> [Rail -> Seq(Recv)]] /\ recvPending \in [Rank -> [0 .. N - 1 -> Int]]
    BY DEF Types
  <1>5. /\ recvq'[n] = f2 /\ recvPending'[n] = p2
        /\ \A q \in Rank \ {n} : recvq'[q] = recvq[q] /\ recvPending'[q] = recvPending[q]
    BY <1>3, <1>4
  <1>6. PICK d, m : d = Dual(n) /\ m = Posted(n)
    OBVIOUS
  <1>7. /\ d \in BOOLEAN /\ m \in 0 .. N /\ m \in Nat /\ m <= TotalSteps(n) /\ TotalSteps(n) \in Nat
        /\ f \in [Rail -> Seq(Recv)] /\ p \in [0 .. N - 1 -> Int] /\ f[rail] # <<>>
        /\ RecvQueues(f, p, n, d, m)
        /\ f2 = Popped(f, rail) /\ p2 = Lowered(p, Head(f[rail]).step)
    <2>1. d \in BOOLEAN /\ m \in 0 .. N /\ TotalSteps(n) \in 1 .. N /\ N \in Nat /\ step[n] \in Nat
      BY <1>6, Basics
    <2>2. m <= TotalSteps(n)
      BY <1>6, <2>1 DEF Posted, Shape, PlaceShape
    <2>3. RecvQueues(f, p, n, d, m)
      BY <1>2, <1>6 DEF Shape, RecvShape
    <2> QED BY <1>2, <1>4, <2>1, <2>2, <2>3
  <1>8. RecvQueues(f2, p2, n, d, m)
    BY ONLY <1>7, rail \in Rail, RecvQueuesPop
  <1>9. PICK a \in 0 .. m - 1, b \in On(d, rail) :
             /\ RecvFrom(f[rail], rail, m) = <<a, b>>
             /\ Head(f[rail]).cell = CellAt(ReceiveIndex(n, a), b) /\ Head(f[rail]).step = a
             /\ RecvFrom(f2[rail], rail, m) = Follow(d, rail, <<a, b>>)
             /\ f2 \in [Rail -> Seq(Recv)] /\ \A other \in Rail \ {rail} : f2[other] = f[other]
    <2>1. PICK q : q = f[rail]
      OBVIOUS
    <2>2. q \in Seq(Recv) /\ Receives(q, n, d, rail, m) /\ q # <<>>
      BY <1>7, <2>1 DEF RecvQueues
    <2>3. PICK a \in 0 .. m - 1, b \in On(d, rail) :
             /\ RecvFrom(q, rail, m) = <<a, b>> /\ Head(q).cell = CellAt(ReceiveIndex(n, a), b)
             /\ Head(q).step = a
      BY ONLY <1>7, <2>2, rail \in Rail, RecvHead
    <2>4. Tail(q) \in Seq(Recv) /\ RecvFrom(Tail(q), rail, m) = Follow(d, rail, RecvFrom(q, rail, m))
      BY ONLY <1>7, <2>2, rail \in Rail, RecvTail
    <2>5. /\ f2[rail] = Tail(q) /\ \A other \in Rail \ {rail} : f2[other] = f[other]
          /\ f2 \in [Rail -> Seq(Recv)]
      BY <1>7, <2>1, <2>4 DEF Popped
    <2> QED BY <2>1, <2>3, <2>4, <2>5
  <1>10. Posted(n)' = m /\ Dual(n)' = d
    BY <1>6, PosKept, SettingKept
  <1>11. /\ RecvPos(n, rail) = <<a, b>> /\ RecvPos(n, rail)' = Follow(d, rail, <<a, b>>)
         /\ Follow(d, rail, <<a, b>>)[1] >= a /\ Follow(d, rail, <<a, b>>) \in Position(d, rail, m)
    <2>1. RecvPos(n, rail) = RecvFrom(f[rail], rail, m)
      BY <1>2, <1>6 DEF RecvPos
    <2>2. RecvPos(n, rail)' = RecvFrom(f2[rail], rail, m)
      BY <1>5, <1>10 DEF RecvPos
    <2>3. /\ Follow(d, rail, <<a, b>>)[1] >= a
          /\ Follow(d, rail, <<a, b>>) \in Position(d, rail, m)
      BY <1>7, PendPop
    <2> QED BY <1>9, <2>1, <2>2, <2>3
  <1>12. \A other \in Rail \ {rail} : RecvPos(n, other)' = RecvPos(n, other)
    BY <1>2, <1>5, <1>6, <1>9, <1>10 DEF RecvPos
  <1>13. RecvShape(n)'
    <2>1. ASSUME NEW other \in Rail, pc[n] \in {"send", "wait"}
          PROVE  step[n] <= RecvPos(n, other)'[1]
      <3>1. step[n] <= RecvPos(n, other)[1]
        BY <2>1 DEF Shape, RecvShape
      <3>2. CASE other = rail
        <4>1. step[n] <= a /\ a \in Nat /\ step[n] \in Nat
          BY <1>7, <1>11, <3>1, <3>2, Basics
        <4>2. Follow(d, rail, <<a, b>>)[1] \in Nat
          BY <1>7, <1>11, PendType
        <4> QED BY <1>11, <3>2, <4>1, <4>2
      <3>3. CASE other # rail
        BY <1>12, <3>1, <3>3
      <3> QED BY <3>2, <3>3
    <2> QED BY <1>1, <1>5, <1>8, <1>10, <2>1 DEF RecvShape
  <1>14. recvq' \in [Rank -> [Rail -> Seq(Recv)]] /\ recvPending' \in [Rank -> [0 .. N - 1 -> Int]]
    <2>1. p2 = [p EXCEPT ![a] = p[a] - 1] /\ a \in 0 .. N - 1
      <3>1. p2 = Lowered(p, a)
        BY <1>7, <1>9
      <3>2. a \in 0 .. N - 1
        BY <1>7, RingAssumption
      <3> QED BY <3>1, <3>2 DEF Lowered
    <2>2. p[a] - 1 \in Int
      BY <1>7, <2>1
    <2>3. p2 \in [0 .. N - 1 -> Int]
      BY <1>7, <2>1, <2>2
    <2> QED BY <1>3, <1>4, <1>9, <2>3
  <1>15. \E x \in 0 .. TotalSteps(n) - 1, y \in On(Dual(n), rail) :
              /\ RecvPos(n, rail) = <<x, y>>
              /\ Head(recvq[n][rail]).cell = CellAt(ReceiveIndex(n, x), y)
    <2>1. a \in 0 .. TotalSteps(n) - 1
      BY <1>7
    <2> QED BY <1>2, <1>6, <1>9, <1>11, <2>1
  <1> QED BY <1>1, <1>5, <1>6, <1>11, <1>12, <1>13, <1>14, <1>15

LEMMA SendPopped ==
  ASSUME Types, Shape, NEW r \in Rank, NEW rail \in Rail, sendq[r][rail] # <<>>,
         PopSend(r, rail), setting' = setting, pc' = pc, step' = step
  PROVE  /\ sendq' \in [Rank -> [Rail -> Seq(Sending)]] /\ sendPending' \in [Rank -> Int]
         /\ SendShape(r)' /\ pc[r] = "wait"
         /\ SendPos(r, rail)' = Follow(Dual(r), rail, SendPos(r, rail))
         /\ \E b \in On(Dual(r), rail) :
              /\ SendPos(r, rail) = <<step[r], b>>
              /\ Head(sendq[r][rail]).from = SendFrom(r, step[r])
              /\ Head(sendq[r][rail]).cell = CellAt(SendIndex(r, step[r]), b)
         /\ \A other \in Rail \ {rail} : SendPos(r, other)' = SendPos(r, other)
         /\ \A q \in Rank \ {r} : sendq'[q] = sendq[q] /\ sendPending'[q] = sendPending[q]
  <1>1. pc[r] = "wait"
    BY DEF Shape, SendShape
  <1>2. PICK f, p, f2, p2 : /\ f = sendq[r] /\ p = sendPending[r]
                            /\ f2 = Popped(f, rail) /\ p2 = p - 1
    OBVIOUS
  <1>3. sendq' = [sendq EXCEPT ![r] = f2] /\ sendPending' = [sendPending EXCEPT ![r] = p2]
    BY <1>2 DEF PopSend, Popped
  <1>4. sendq \in [Rank -> [Rail -> Seq(Sending)]] /\ sendPending \in [Rank -> Int]
    BY DEF Types
  <1>5. /\ sendq'[r] = f2 /\ sendPending'[r] = p2
        /\ \A q \in Rank \ {r} : sendq'[q] = sendq[q] /\ sendPending'[q] = sendPending[q]
    BY <1>3, <1>4
  <1>6. PICK d, s, from : d = Dual(r) /\ s = step[r] /\ from = SendFrom(r, step[r])
    OBVIOUS
  <1>7. /\ d \in BOOLEAN /\ s \in Nat /\ f \in [Rail -> Seq(Sending)] /\ p \in Int
        /\ f[rail] # <<>> /\ SendQueues(f, p, r, d, s, from)
        /\ f2 = Popped(f, rail) /\ p2 = p - 1
    <2>1. SendQueues(f, p, r, d, s, from)
      BY <1>2, <1>6 DEF Shape, SendShape
    <2> QED BY <1>2, <1>4, <1>6, <2>1, Basics
  <1>8. SendQueues(f2, p2, r, d, s, from)
    BY ONLY <1>7, rail \in Rail, SendQueuesPop
  <1>9. PICK b \in On(d, rail) :
             /\ SendFirst(f[rail], rail, s) = <<s, b>>
             /\ Head(f[rail]).from = from /\ Head(f[rail]).cell = CellAt(SendIndex(r, s), b)
             /\ SendFirst(f2[rail], rail, s) = Follow(d, rail, SendFirst(f[rail], rail, s))
             /\ f2 \in [Rail -> Seq(Sending)] /\ \A other \in Rail \ {rail} : f2[other] = f[other]
    <2>1. PICK q : q = f[rail]
      OBVIOUS
    <2>2. q \in Seq(Sending) /\ Sends(q, r, d, rail, s, from) /\ q # <<>>
      BY <1>7, <2>1 DEF SendQueues
    <2>3. PICK b \in On(d, rail) : /\ SendFirst(q, rail, s) = <<s, b>> /\ Head(q).from = from
                                   /\ Head(q).cell = CellAt(SendIndex(r, s), b)
      BY ONLY <1>7, <2>2, rail \in Rail, SendHead
    <2>4. /\ Tail(q) \in Seq(Sending) /\ Sends(Tail(q), r, d, rail, s, from)
          /\ SendFirst(Tail(q), rail, s) = Follow(d, rail, SendFirst(q, rail, s))
      <3>1. d \in BOOLEAN /\ s \in Nat
        BY <1>7
      <3> QED BY ONLY <2>2, <3>1, rail \in Rail, SendTail
    <2>5. /\ f2[rail] = Tail(q) /\ \A other \in Rail \ {rail} : f2[other] = f[other]
          /\ f2 \in [Rail -> Seq(Sending)]
      BY <1>7, <2>1, <2>4 DEF Popped
    <2> QED BY <2>1, <2>3, <2>4, <2>5
  <1>10. Dual(r)' = d /\ SendFrom(r, step[r])' = from /\ pc'[r] = "wait" /\ step'[r] = s
    <2>1. setting'[r] = setting[r] /\ step'[r] = step[r] /\ pc'[r] = pc[r]
      OBVIOUS
    <2> QED BY <1>1, <1>6, <2>1 DEF Dual, SendFrom, GpuDirect
  <1>11. \A other \in Rail : /\ SendPos(r, other) = SendFirst(f[other], other, s)
                             /\ SendPos(r, other)' = SendFirst(f2[other], other, s)
    BY <1>1, <1>2, <1>5, <1>6, <1>10 DEF SendPos
  <1>12. SendShape(r)'
    BY <1>5, <1>8, <1>10 DEF SendShape
  <1>13. sendq' \in [Rank -> [Rail -> Seq(Sending)]] /\ sendPending' \in [Rank -> Int]
    <2>1. p2 \in Int
      BY <1>7
    <2> QED BY <1>3, <1>4, <1>9, <2>1
  <1>14. SendPos(r, rail)' = Follow(Dual(r), rail, SendPos(r, rail))
    BY <1>6, <1>9, <1>11
  <1>15. \E y \in On(Dual(r), rail) : /\ SendPos(r, rail) = <<step[r], y>>
                                      /\ Head(sendq[r][rail]).from = SendFrom(r, step[r])
                                      /\ Head(sendq[r][rail]).cell = CellAt(SendIndex(r, step[r]), y)
    BY <1>2, <1>6, <1>9, <1>11
  <1>16. \A other \in Rail \ {rail} : SendPos(r, other)' = SendPos(r, other)
    BY <1>9, <1>11
  <1> QED BY <1>1, <1>5, <1>12, <1>13, <1>14, <1>15, <1>16

\* The parts of the shape of a rank that a step leaves alone.
LEMMA PartsKept ==
  ASSUME setting' = setting, NEW q \in Rank, PlaceShape(q), RecvShape(q), SendShape(q),
         pc'[q] = pc[q], step'[q] = step[q]
  PROVE  /\ PlaceShape(q)'
         /\ recvq'[q] = recvq[q] /\ recvPending'[q] = recvPending[q] => RecvShape(q)'
         /\ sendq'[q] = sendq[q] /\ sendPending'[q] = sendPending[q] => SendShape(q)'
  <1>1. PlaceShape(q)'
    BY SettingKept DEF PlaceShape
  <1>2. ASSUME recvq'[q] = recvq[q], recvPending'[q] = recvPending[q] PROVE RecvShape(q)'
    <2>1. Dual(q)' = Dual(q) /\ Posted(q)' = Posted(q)
      BY SettingKept, PosKept
    <2>2. \A rail : RecvPos(q, rail)' = RecvPos(q, rail)
      BY <1>2, PosKept
    <2> QED BY <1>2, <2>1, <2>2 DEF RecvShape
  <1>3. ASSUME sendq'[q] = sendq[q], sendPending'[q] = sendPending[q] PROVE SendShape(q)'
    <2>1. Dual(q)' = Dual(q) /\ SendFrom(q, step[q])' = SendFrom(q, step[q])
      BY DEF Dual, SendFrom, GpuDirect
    <2> QED BY <1>3, <2>1 DEF SendShape
  <1> QED BY <1>1, <1>2, <1>3

\* A failure is recorded.
LEMMA FailType ==
  ASSUME failed \subseteq Failure, NEW r \in Rank, NEW rail \in Rail,
         NEW what \in {"connection", "send", "receive"}, Fail(r, rail, what)
  PROVE  failed' \subseteq Failure /\ failed' # {}
  <1>1. <<r, rail, what>> \in Failure
    BY DEF Failure
  <1>2. PICK e : e = <<r, rail, what>>
    OBVIOUS
  <1>3. failed' = failed \cup {e}
    BY <1>2 DEF Fail
  <1> QED BY <1>1, <1>2, <1>3

\* A send of a broken connection counts as finished.
LEMMA FlushSendIInv ==
  ASSUME IInv, NEW r \in Rank, NEW rail \in Rail, FlushSend(r, rail) PROVE IInv'
  <1>1. Types /\ Shape /\ Entered
    BY DEF IInv
  <1>2. /\ failed # {} /\ sendq[r][rail] # <<>> /\ PopSend(r, rail)
        /\ setting' = setting /\ coll' = coll /\ pc' = pc /\ step' = step /\ buf' = buf /\ dst' = dst
        /\ recvq' = recvq /\ recvPending' = recvPending /\ failed' = failed
    BY DEF FlushSend
  <1>3. /\ sendq' \in [Rank -> [Rail -> Seq(Sending)]] /\ sendPending' \in [Rank -> Int]
        /\ SendShape(r)'
        /\ \A q \in Rank \ {r} : sendq'[q] = sendq[q] /\ sendPending'[q] = sendPending[q]
    BY <1>1, <1>2, SendPopped
  <1>4. Types'
    BY <1>1, <1>2, <1>3 DEF Types
  <1>5. Shape'
    <2>1. PlaceShape(r)' /\ RecvShape(r)'
      BY <1>1, <1>2, PartsKept DEF Shape
    <2>2. \A q \in Rank \ {r} : PlaceShape(q)' /\ RecvShape(q)' /\ SendShape(q)'
      BY <1>1, <1>2, <1>3, PartsKept DEF Shape
    <2> QED BY <1>3, <2>1, <2>2 DEF Shape
  <1>6. Entered'
    BY <1>1, <1>2 DEF Entered
  <1>7. Whole'
    BY <1>2 DEF Whole
  <1> QED BY <1>4, <1>5, <1>6, <1>7 DEF IInv

\* A receive of a broken connection counts as finished.
LEMMA FlushRecvIInv ==
  ASSUME IInv, NEW r \in Rank, NEW rail \in Rail, FlushRecv(r, rail) PROVE IInv'
  <1>1. Types /\ Shape /\ Entered
    BY DEF IInv
  <1>2. /\ failed # {} /\ recvq[r][rail] # <<>> /\ PopRecv(r, rail)
        /\ setting' = setting /\ coll' = coll /\ pc' = pc /\ step' = step /\ buf' = buf /\ dst' = dst
        /\ sendq' = sendq /\ sendPending' = sendPending /\ failed' = failed
    BY DEF FlushRecv
  <1>3. /\ recvq' \in [Rank -> [Rail -> Seq(Recv)]]
        /\ recvPending' \in [Rank -> [0 .. N - 1 -> Int]] /\ RecvShape(r)'
        /\ \A q \in Rank \ {r} : recvq'[q] = recvq[q] /\ recvPending'[q] = recvPending[q]
    BY <1>1, <1>2, RecvPopped
  <1>4. Types'
    BY <1>1, <1>2, <1>3 DEF Types
  <1>5. Shape'
    <2>1. PlaceShape(r)' /\ SendShape(r)'
      BY <1>1, <1>2, PartsKept DEF Shape
    <2>2. \A q \in Rank \ {r} : PlaceShape(q)' /\ RecvShape(q)' /\ SendShape(q)'
      BY <1>1, <1>2, <1>3, PartsKept DEF Shape
    <2> QED BY <1>3, <2>1, <2>2 DEF Shape
  <1>6. Entered'
    BY <1>1, <1>2 DEF Entered
  <1>7. Whole'
    BY <1>2 DEF Whole
  <1> QED BY <1>4, <1>5, <1>6, <1>7 DEF IInv

\* A send whose submission fails counts as finished.
LEMMA RefuseSendIInv ==
  ASSUME IInv, NEW r \in Rank, NEW rail \in Rail, RefuseSend(r, rail) PROVE IInv'
  <1>1. Types /\ Shape /\ Entered
    BY DEF IInv
  <1>2. /\ Fail(r, rail, "send") /\ sendq[r][rail] # <<>> /\ PopSend(r, rail)
        /\ setting' = setting /\ coll' = coll /\ pc' = pc /\ step' = step /\ buf' = buf /\ dst' = dst
        /\ recvq' = recvq /\ recvPending' = recvPending
    BY DEF RefuseSend
  <1>3. /\ sendq' \in [Rank -> [Rail -> Seq(Sending)]] /\ sendPending' \in [Rank -> Int]
        /\ SendShape(r)'
        /\ \A q \in Rank \ {r} : sendq'[q] = sendq[q] /\ sendPending'[q] = sendPending[q]
    BY <1>1, <1>2, SendPopped
  <1>4. Types' /\ failed' # {}
    <2>1. failed' \subseteq Failure /\ failed' # {}
      BY <1>1, <1>2, FailType DEF Types
    <2> QED BY <1>1, <1>2, <1>3, <2>1 DEF Types
  <1>5. Shape'
    <2>1. PlaceShape(r)' /\ RecvShape(r)'
      BY <1>1, <1>2, PartsKept DEF Shape
    <2>2. \A q \in Rank \ {r} : PlaceShape(q)' /\ RecvShape(q)' /\ SendShape(q)'
      BY <1>1, <1>2, <1>3, PartsKept DEF Shape
    <2> QED BY <1>3, <2>1, <2>2 DEF Shape
  <1>6. Entered'
    BY <1>1, <1>2 DEF Entered
  <1>7. Whole'
    BY <1>4 DEF Whole
  <1> QED BY <1>4, <1>5, <1>6, <1>7 DEF IInv

\* A receive whose submission fails counts as finished.
LEMMA RefuseRecvIInv ==
  ASSUME IInv, NEW r \in Rank, NEW rail \in Rail, RefuseRecv(r, rail) PROVE IInv'
  <1>1. Types /\ Shape /\ Entered
    BY DEF IInv
  <1>2. /\ Fail(r, rail, "receive") /\ recvq[r][rail] # <<>> /\ PopRecv(r, rail)
        /\ setting' = setting /\ coll' = coll /\ pc' = pc /\ step' = step /\ buf' = buf /\ dst' = dst
        /\ sendq' = sendq /\ sendPending' = sendPending
    BY DEF RefuseRecv
  <1>3. /\ recvq' \in [Rank -> [Rail -> Seq(Recv)]]
        /\ recvPending' \in [Rank -> [0 .. N - 1 -> Int]] /\ RecvShape(r)'
        /\ \A q \in Rank \ {r} : recvq'[q] = recvq[q] /\ recvPending'[q] = recvPending[q]
    BY <1>1, <1>2, RecvPopped
  <1>4. Types' /\ failed' # {}
    <2>1. failed' \subseteq Failure /\ failed' # {}
      BY <1>1, <1>2, FailType DEF Types
    <2> QED BY <1>1, <1>2, <1>3, <2>1 DEF Types
  <1>5. Shape'
    <2>1. PlaceShape(r)' /\ SendShape(r)'
      BY <1>1, <1>2, PartsKept DEF Shape
    <2>2. \A q \in Rank \ {r} : PlaceShape(q)' /\ RecvShape(q)' /\ SendShape(q)'
      BY <1>1, <1>2, <1>3, PartsKept DEF Shape
    <2> QED BY <1>3, <2>1, <2>2 DEF Shape
  <1>6. Entered'
    BY <1>1, <1>2 DEF Entered
  <1>7. Whole'
    BY <1>4 DEF Whole
  <1> QED BY <1>4, <1>5, <1>6, <1>7 DEF IInv

\* Steps that leave the place, the queues and the counters of every rank alone.
LEMMA RestIInv ==
  ASSUME IInv, UNCHANGED <<setting, coll, pc, step, buf, dst, recvq, sendq, recvPending, sendPending>>,
         failed' \subseteq Failure, failed' = {} => failed = {}
  PROVE  IInv'
  <1>1. Types /\ Shape /\ Entered
    BY DEF IInv
  <1>2. /\ setting' = setting /\ coll' = coll /\ pc' = pc /\ step' = step /\ buf' = buf /\ dst' = dst
        /\ recvq' = recvq /\ sendq' = sendq /\ recvPending' = recvPending /\ sendPending' = sendPending
    OBVIOUS
  <1>3. Types'
    BY <1>1, <1>2 DEF Types
  <1>4. Shape'
    BY <1>1, <1>2, PartsKept DEF Shape
  <1>5. Entered'
    BY <1>1, <1>2 DEF Entered
  <1>6. Whole'
    <2> SUFFICES ASSUME failed' = {}, Alike' PROVE \A q \in Rank : Linked(q)' /\ Data(q)'
      BY DEF Whole
    <2>1. Alike
      BY <1>2, SettingKept DEF Alike
    <2>2. \A q \in Rank : Linked(q) /\ Data(q)
      BY <2>1 DEF IInv, Whole
    <2>3. \A q \in Rank, rail \in Rail :
             SendPos(q, rail)' = SendPos(q, rail) /\ RecvPos(q, rail)' = RecvPos(q, rail)
      BY <1>2, PosKept
    <2>4. \A q \in Rank : Linked(q)'
      BY <1>2, <2>1, <2>2, <2>3, LinkedKept
    <2>5. \A q \in Rank : Data(q)'
      BY <1>1, <1>2, <2>2, <2>3, DataKept
    <2> QED BY <2>4, <2>5
  <1> QED BY <1>3, <1>4, <1>5, <1>6 DEF IInv

LEMMA BreakIInv == ASSUME IInv, NEW r \in Rank, NEW rail \in Rail, Break(r, rail) PROVE IInv'
  <1>1. /\ Fail(r, rail, "connection")
        /\ UNCHANGED <<setting, coll, pc, step, buf, dst, recvq, sendq, recvPending, sendPending>>
    BY DEF Break
  <1>2. failed' \subseteq Failure /\ failed' # {}
    BY <1>1, FailType DEF IInv, Types
  <1> QED BY <1>1, <1>2, RestIInv

LEMMA StutterIInv == ASSUME IInv, UNCHANGED vars PROVE IInv'
  <1>1. UNCHANGED <<setting, coll, pc, step, buf, dst, recvq, sendq, recvPending, sendPending>>
    BY DEF vars
  <1>2. failed' = failed
    BY DEF vars
  <1>3. failed \subseteq Failure
    BY DEF IInv, Types
  <1> QED BY <1>1, <1>2, <1>3, RestIInv

-----------------------------------------------------------------------------
(* A delivery.                                                             *)

\* A receive has ended after a delivery when it had before, or when it is the
\* one delivered.
LEMMA FollowEnded ==
  ASSUME NEW d \in BOOLEAN, NEW rail \in Rail, NEW a \in Nat, NEW b \in On(d, rail),
         NEW pos, pos = Follow(d, rail, <<a, b>>), NEW s \in Nat, NEW p \in On(d, rail),
         s < pos[1] \/ (s = pos[1] /\ p < pos[2])
  PROVE  s < a \/ (s = a /\ p < b) \/ (s = a /\ p = b)
  <1>1. /\ b \in Nat /\ p \in Nat /\ p < Pieces /\ rail \in Nat /\ p >= rail /\ Pieces \in Nat
    BY LeftOn, RingAssumption
  <1>2. p < b + Stride(d) => p <= b
    <2>1. CASE d
      <3>1. p % 2 = b % 2 /\ Stride(d) = 2
        BY <2>1 DEF On, Stride
      <3> QED BY <1>1, <3>1
    <2>2. CASE ~ d
      <3>1. Stride(d) = 1
        BY <2>2 DEF Stride
      <3> QED BY <1>1, <3>1
    <2> QED BY <2>1, <2>2
  <1>3. CASE b + Stride(d) < Pieces
    <2>1. pos[1] = a /\ pos[2] = b + Stride(d)
      BY <1>3 DEF Follow
    <2> QED BY <1>1, <1>2, <2>1
  <1>4. CASE ~ (b + Stride(d) < Pieces)
    <2>1. pos[1] = a + 1 /\ pos[2] = rail
      BY <1>4 DEF Follow
    <2>2. Stride(d) \in Nat
      BY DEF Stride
    <2>3. p <= b
      BY <1>1, <1>2, <1>4, <2>2
    <2> QED BY <1>1, <2>1, <2>3
  <1> QED BY <1>3, <1>4

\* What a rank sends in a step is the contribution that belongs there: its own
\* at step 0, and what it has received in the step before after that.
LEMMA SentDue ==
  ASSUME IInv, NEW r \in Rank, failed = {}, Alike, pc[r] = "wait", NEW b \in Piece
  PROVE  LET c == CellAt(SendIndex(r, step[r]), b)
         IN  Read(r, SendFrom(r, step[r]), c) = Due(r, c)
  <1>1. Types /\ Shape /\ Received(r) /\ OwnChunk(r)
    BY DEF IInv, Whole, Data
  <1>2. /\ step[r] \in 0 .. N - 1 /\ step[r] \in Nat /\ N \in Nat /\ step[r] < TotalSteps(r)
        /\ TotalSteps(r) \in 1 .. N /\ setting[r].mode \in {"legacy", "gpu_direct", "full"}
    BY <1>1, Basics DEF Shape, PlaceShape
  <1>3. PICK c : c = CellAt(SendIndex(r, step[r]), b)
    OBVIOUS
  <1>4. CASE step[r] = 0
    <2>1. c = CellAt(r, b) /\ c[1] = r
      BY <1>2, <1>3, <1>4, IndexSteps DEF CellAt
    <2>2. CASE setting[r].mode = "full"
      <3>1. SendFrom(r, step[r]) = "src"
        BY <1>4, <2>2 DEF SendFrom
      <3>2. Read(r, "src", c) = Due(r, c)
        BY <2>1 DEF Read, Due
      <3> QED BY <1>3, <3>1, <3>2
    <2>3. CASE setting[r].mode # "full"
      <3>1. buf[r][c] = Due(r, c) /\ dst[r][c] = Due(r, c)
        BY <1>1, <2>1, <2>3 DEF OwnChunk
      <3>2. SendFrom(r, step[r]) = "dst" \/ SendFrom(r, step[r]) = "buf"
        BY <2>3 DEF SendFrom
      <3>3. Read(r, "dst", c) = dst[r][c] /\ Read(r, "buf", c) = buf[r][c]
        BY DEF Read
      <3> QED BY <1>3, <3>1, <3>2, <3>3
    <2> QED BY <2>2, <2>3
  <1>5. CASE step[r] # 0
    <2>1. PICK s : s = step[r] - 1
      OBVIOUS
    <2>2. s \in 0 .. TotalSteps(r) - 1 /\ s < step[r] /\ s \in Nat
      BY <1>2, <1>5, <2>1
    <2>3. c = CellAt(ReceiveIndex(r, s), b)
      BY <1>2, <1>3, <1>5, <2>1, IndexSteps
    <2>4. Ended(r, s, b)
      <3>1. ASSUME NEW rail \in Rail PROVE s < RecvPos(r, rail)[1]
        <4>1. step[r] <= RecvPos(r, rail)[1]
          BY <1>1 DEF Shape, RecvShape
        <4>2. RecvPos(r, rail)[1] \in Nat
          <5>1. PICK q, m, d : q = recvq[r][rail] /\ m = Posted(r) /\ d = Dual(r)
            OBVIOUS
          <5>2. /\ q \in Seq(Recv) /\ Receives(q, r, d, rail, m)
                /\ d \in BOOLEAN /\ m \in 0 .. N /\ m \in Nat
            BY <1>1, <1>2, <5>1, Basics DEF Shape, RecvShape, RecvQueues
          <5>3. RecvFrom(q, rail, m) \in Position(d, rail, m)
            BY ONLY <5>2, rail \in Rail, RecvPlace
          <5>4. RecvFrom(q, rail, m)[1] \in Nat
            BY ONLY <5>2, <5>3, rail \in Rail, PendType
          <5> QED BY <5>1, <5>4 DEF RecvPos
        <4> QED BY <1>2, <2>2, <4>1, <4>2
      <3> QED BY <3>1 DEF Ended
    <2>5. Land(r)[c] = Due(r, c)
      BY <1>1, <2>2, <2>3, <2>4 DEF Received
    <2>6. Read(r, SendFrom(r, step[r]), c) = Land(r)[c]
      <3>1. CASE GpuDirect(r)
        <4>1. SendFrom(r, step[r]) = "dst"
          BY <1>5, <3>1 DEF SendFrom
        <4>2. Read(r, "dst", c) = dst[r][c]
          BY DEF Read
        <4> QED BY <3>1, <4>1, <4>2 DEF Land
      <3>2. CASE ~ GpuDirect(r)
        <4>1. SendFrom(r, step[r]) = "buf"
          BY <1>5, <3>2 DEF SendFrom
        <4>2. Read(r, "buf", c) = buf[r][c]
          BY DEF Read
        <4> QED BY <3>2, <4>1, <4>2 DEF Land
      <3> QED BY <3>1, <3>2
    <2> QED BY <1>3, <2>5, <2>6
  <1> QED BY <1>4, <1>5

\* The oldest send on a rail meets the oldest receive.  The two ends are in the
\* same collective, at the same position, so the cell is the one the receive
\* was posted for and what arrives belongs there.
LEMMA DeliverMeets ==
  ASSUME IInv, NEW r \in Rank, NEW n \in Rank, n = NextRank(r), NEW rail \in Rail,
         failed = {}, Alike, pc[r] = "wait",
         NEW x \in On(Dual(r), rail), SendPos(r, rail) = <<step[r], x>>,
         NEW a \in 0 .. TotalSteps(n) - 1, NEW b \in On(Dual(n), rail),
         RecvPos(n, rail) = <<a, b>>
  PROVE  coll[r] = coll[n] /\ a = step[r] /\ b = x
  <1>1. Types /\ Shape /\ Linked(r)
    BY DEF IInv, Whole
  <1>2. /\ coll[r] \in Nat /\ coll[n] \in Nat /\ TotalSteps(n) \in Nat /\ TotalSteps(r) \in Nat
        /\ step[r] \in Nat /\ step[r] < TotalSteps(r)
    <2>1. step[r] < TotalSteps(r)
      BY <1>1 DEF Shape, PlaceShape
    <2>2. \A q \in Rank : coll[q] \in Nat /\ TotalSteps(q) \in 1 .. N /\ step[q] \in Nat /\ N \in Nat
      BY <1>1, Basics
    <2> QED BY <2>1, <2>2
  <1>3. All(Dual(r), rail) # 0
    BY <1>1, Basics, TwoRails
  <1>4. /\ coll[r] = coll[n] => SendPos(r, rail) = RecvPos(n, rail)
        /\ coll[r] > coll[n] => RecvPos(n, rail) = <<TotalSteps(n), rail>>
        /\ coll[n] > coll[r] => SendPos(r, rail) = <<TotalSteps(r), rail>>
    BY <1>1, <1>3 DEF Linked
  <1>5. ~ (coll[r] > coll[n])
    <2>1. a # TotalSteps(n)
      BY <1>2
    <2> QED BY <1>4, <2>1
  <1>6. ~ (coll[n] > coll[r])
    <2>1. step[r] # TotalSteps(r)
      BY <1>2
    <2> QED BY <1>4, <2>1
  <1>7. coll[r] = coll[n]
    BY <1>2, <1>5, <1>6
  <1> QED BY <1>4, <1>7

\* What the memory of a rank holds when a piece has been delivered to it.
LEMMA DeliverData ==
  ASSUME Types, NEW n \in Rank, Data(n), setting' = setting, coll' = coll, pc' = pc, step' = step,
         pc[n] \notin {"idle", "barrier"}, NEW rail \in Rail,
         NEW a \in 0 .. TotalSteps(n) - 1, NEW b \in On(Dual(n), rail),
         RecvPos(n, rail) = <<a, b>>, RecvPos(n, rail)' = Follow(Dual(n), rail, <<a, b>>),
         \A other \in Rail \ {rail} : RecvPos(n, other)' = RecvPos(n, other),
         NEW c0 \in Cell, c0 = CellAt(ReceiveIndex(n, a), b),
         Land(n)'[c0] = Due(n, c0),
         \A c \in Cell : /\ dst'[n][c] = dst[n][c] \/ dst'[n][c] = Due(n, c)
                         /\ buf'[n][c] = buf[n][c] \/ buf'[n][c] = Due(n, c)
  PROVE  Data(n)'
  <1>1. /\ Received(n) /\ OwnChunk(n) /\ PutChunks(n)
        /\ Dual(n)' = Dual(n) /\ TotalSteps(n)' = TotalSteps(n) /\ GpuDirect(n)' = GpuDirect(n)
        /\ Dual(n) \in BOOLEAN /\ TotalSteps(n) \in 1 .. N /\ N \in Nat /\ step[n] \in Nat
        /\ step[n] \in 0 .. N - 1
    BY Basics, SettingKept DEF Data
  <1>2. \A c : Due(n, c)' = Due(n, c)
    BY DEF Due
  <1>3. \A s \in 0 .. N - 1, p \in Piece : CellAt(ReceiveIndex(n, s), p) \in Cell
    BY Indices DEF CellAt, Cell
  <1>4. Received(n)'
    <2> SUFFICES ASSUME NEW s \in 0 .. TotalSteps(n) - 1, NEW p \in Piece, Ended(n, s, p)'
                 PROVE  LET c == CellAt(ReceiveIndex(n, s), p) IN Land(n)'[c] = Due(n, c)
      BY <1>1, <1>2 DEF Received
    <2>1. s \in 0 .. N - 1 /\ s \in Nat /\ a \in Nat
      BY <1>1
    <2>2. PICK c \in Cell : c = CellAt(ReceiveIndex(n, s), p)
      BY <1>3, <2>1
    <2>3. CASE s = a /\ p = b
      BY <2>2, <2>3
    <2>4. CASE ~ (s = a /\ p = b)
      <3>1. ASSUME NEW other \in Rail, p \in On(Dual(n), other)
            PROVE  s < RecvPos(n, other)[1] \/ (s = RecvPos(n, other)[1] /\ p < RecvPos(n, other)[2])
        <4>1. PICK pos : pos = RecvPos(n, other)'
          OBVIOUS
        <4>2. s < pos[1] \/ (s = pos[1] /\ p < pos[2])
          BY <1>1, <3>1, <4>1 DEF Ended
        <4>3. CASE other = rail
          <5>1. PICK d : d = Dual(n)
            OBVIOUS
          <5>2. /\ d \in BOOLEAN /\ b \in On(d, rail) /\ p \in On(d, rail)
                /\ pos = Follow(d, rail, <<a, b>>)
            BY <1>1, <3>1, <4>1, <4>3, <5>1
          <5>3. s < a \/ (s = a /\ p < b) \/ (s = a /\ p = b)
            BY ONLY <2>1, <4>2, <5>2, rail \in Rail, FollowEnded
          <5> QED BY <2>4, <4>3, <5>3
        <4>4. CASE other # rail
          BY <4>1, <4>2, <4>4
        <4> QED BY <4>3, <4>4
      <3>2. Ended(n, s, p)
        BY <3>1 DEF Ended
      <3>3. Land(n)[c] = Due(n, c)
        BY <1>1, <2>2, <3>2 DEF Received
      <3>4. Land(n)'[c] = Land(n)[c] \/ Land(n)'[c] = Due(n, c)
        BY <1>1 DEF Land
      <3> QED BY <2>2, <3>3, <3>4
    <2> QED BY <2>3, <2>4
  <1>5. OwnChunk(n)'
    <2>1. \A p \in Piece : CellAt(n, p) \in Cell
      BY DEF CellAt, Cell
    <2>2. ASSUME NEW p \in Piece
          PROVE /\ buf[n][CellAt(n, p)] = Due(n, CellAt(n, p)) => buf'[n][CellAt(n, p)] = Due(n, CellAt(n, p))
                /\ dst[n][CellAt(n, p)] = Due(n, CellAt(n, p)) => dst'[n][CellAt(n, p)] = Due(n, CellAt(n, p))
      BY <2>1
    <2>3. setting'[n].mode = setting[n].mode /\ pc'[n] = pc[n]
      OBVIOUS
    <2> QED BY <1>1, <1>2, <2>2, <2>3 DEF OwnChunk
  <1>6. PutChunks(n)'
    <2>1. setting'[n].mode = setting[n].mode /\ pc'[n] = pc[n] /\ step'[n] = step[n]
      OBVIOUS
    <2>2. ASSUME setting[n].mode = "legacy", pc[n] \in {"send", "wait"},
                 NEW s \in 0 .. step[n] - 1, NEW p \in Piece
          PROVE  LET c == CellAt(ReceiveIndex(n, s), p) IN dst'[n][c] = Due(n, c)
      <3>1. s \in 0 .. N - 1
        BY <1>1
      <3>2. PICK c \in Cell : c = CellAt(ReceiveIndex(n, s), p)
        BY <1>3, <3>1
      <3>3. dst[n][c] = Due(n, c)
        BY <1>1, <2>2, <3>2 DEF PutChunks
      <3> QED BY <3>2, <3>3
    <2> QED BY <1>2, <2>1, <2>2 DEF PutChunks
  <1>7. Returns(n)'
    BY DEF Returns
  <1> QED BY <1>4, <1>5, <1>6, <1>7 DEF Data

LEMMA DeliverIInv ==
  ASSUME IInv, NEW r \in Rank, NEW rail \in Rail, Deliver(r, rail) PROVE IInv'
  <1>1. Types /\ Shape /\ Entered
    BY DEF IInv
  <1>2. PICK n \in Rank : n = NextRank(r) /\ n # r
    BY Neighbours
  <1>3. PICK snd, into, val : /\ snd = Head(sendq[r][rail]) /\ into = Head(recvq[n][rail]).cell
                              /\ val = Read(r, snd.from, snd.cell)
    OBVIOUS
  <1>4. /\ sendq[r][rail] # <<>> /\ recvq[n][rail] # <<>>
        /\ PopSend(r, rail) /\ PopRecv(n, rail)
        /\ setting' = setting /\ coll' = coll /\ pc' = pc /\ step' = step /\ failed' = failed
    BY <1>2 DEF Deliver
  <1>5. IF GpuDirect(n) THEN dst' = [dst EXCEPT ![n][into] = val] /\ buf' = buf
                        ELSE buf' = [buf EXCEPT ![n][into] = val] /\ dst' = dst
    BY <1>2, <1>3 DEF Deliver
  <1>6. /\ sendq' \in [Rank -> [Rail -> Seq(Sending)]] /\ sendPending' \in [Rank -> Int]
        /\ SendShape(r)' /\ pc[r] = "wait"
        /\ SendPos(r, rail)' = Follow(Dual(r), rail, SendPos(r, rail))
        /\ \E b \in On(Dual(r), rail) :
             /\ SendPos(r, rail) = <<step[r], b>>
             /\ Head(sendq[r][rail]).from = SendFrom(r, step[r])
             /\ Head(sendq[r][rail]).cell = CellAt(SendIndex(r, step[r]), b)
        /\ \A other \in Rail \ {rail} : SendPos(r, other)' = SendPos(r, other)
        /\ \A q \in Rank \ {r} : sendq'[q] = sendq[q] /\ sendPending'[q] = sendPending[q]
    BY ONLY <1>1, <1>4, r \in Rank, rail \in Rail, SendPopped
  <1>7. /\ recvq' \in [Rank -> [Rail -> Seq(Recv)]]
        /\ recvPending' \in [Rank -> [0 .. N - 1 -> Int]]
        /\ RecvShape(n)' /\ pc[n] \notin {"idle", "barrier"}
        /\ RecvPos(n, rail)' = Follow(Dual(n), rail, RecvPos(n, rail))
        /\ \E a \in 0 .. TotalSteps(n) - 1, b \in On(Dual(n), rail) :
             /\ RecvPos(n, rail) = <<a, b>>
             /\ Head(recvq[n][rail]).cell = CellAt(ReceiveIndex(n, a), b)
        /\ \A other \in Rail \ {rail} : RecvPos(n, other)' = RecvPos(n, other)
        /\ \A q \in Rank \ {n} : recvq'[q] = recvq[q] /\ recvPending'[q] = recvPending[q]
    BY ONLY <1>1, <1>4, n \in Rank, rail \in Rail, RecvPopped
  <1>8. PICK x \in On(Dual(r), rail) :
             /\ SendPos(r, rail) = <<step[r], x>> /\ snd.from = SendFrom(r, step[r])
             /\ snd.cell = CellAt(SendIndex(r, step[r]), x)
    BY <1>3, <1>6
  <1>9. PICK a \in 0 .. TotalSteps(n) - 1, b \in On(Dual(n), rail) :
             RecvPos(n, rail) = <<a, b>> /\ into = CellAt(ReceiveIndex(n, a), b)
    BY <1>3, <1>7
  <1>10. /\ TotalSteps(n) \in 1 .. N /\ N \in Nat /\ step[r] \in 0 .. N - 1 /\ a \in 0 .. N - 1
         /\ x \in Piece /\ b \in Piece
         /\ snd.cell \in Cell /\ into \in Cell
    <2>1. TotalSteps(n) \in 1 .. N /\ N \in Nat /\ step[r] \in 0 .. N - 1
      BY <1>1, Basics
    <2>2. a \in 0 .. N - 1
      BY <2>1
    <2>3. x \in Piece /\ b \in Piece
      BY DEF On
    <2>4. SendIndex(r, step[r]) \in Rank /\ ReceiveIndex(n, a) \in Rank
      BY <2>1, <2>2, Indices
    <2> QED BY <1>8, <1>9, <2>1, <2>2, <2>3, <2>4 DEF CellAt, Cell
  <1>11. val \in Value
    <2>1. coll[r] \in 1 .. MaxCollectives
      <3>1. coll[r] # 0
        BY <1>1, <1>6 DEF Entered
      <3>2. coll[r] \in 0 .. MaxCollectives
        BY <1>1 DEF Types
      <3> QED BY <3>1, <3>2, RingAssumption
    <2>2. <<coll[r], r, snd.cell[2]>> \in Value
      BY <1>10, <2>1 DEF Value, Cell
    <2>3. buf[r][snd.cell] \in Value /\ dst[r][snd.cell] \in Value
      BY <1>1, <1>10 DEF Types
    <2>4. snd.from \in {"src", "buf", "dst"}
      BY <1>1, <1>8, Basics
    <2> QED BY <1>3, <2>2, <2>3, <2>4 DEF Read
  <1>12. /\ buf' \in [Rank -> [Cell -> Value]] /\ dst' \in [Rank -> [Cell -> Value]]
         /\ \A q \in Rank \ {n} : buf'[q] = buf[q] /\ dst'[q] = dst[q]
         /\ Land(n)'[into] = val
         /\ \A c \in Cell : c # into => dst'[n][c] = dst[n][c] /\ buf'[n][c] = buf[n][c]
         /\ dst'[n][into] = dst[n][into] \/ dst'[n][into] = val
         /\ buf'[n][into] = buf[n][into] \/ buf'[n][into] = val
    <2>1. GpuDirect(n)' = GpuDirect(n)
      BY <1>4, SettingKept
    <2>2. buf \in [Rank -> [Cell -> Value]] /\ dst \in [Rank -> [Cell -> Value]]
      BY <1>1 DEF Types
    <2>3. CASE GpuDirect(n)
      <3>1. dst' = [dst EXCEPT ![n][into] = val] /\ buf' = buf
        BY <1>5, <2>3
      <3>2. Land(n)' = dst'[n]
        BY <2>1, <2>3 DEF Land
      <3> QED BY <1>10, <1>11, <2>2, <3>1, <3>2
    <2>4. CASE ~ GpuDirect(n)
      <3>1. buf' = [buf EXCEPT ![n][into] = val] /\ dst' = dst
        BY <1>5, <2>4
      <3>2. Land(n)' = buf'[n]
        BY <2>1, <2>4 DEF Land
      <3> QED BY <1>10, <1>11, <2>2, <3>1, <3>2
    <2> QED BY <2>3, <2>4
  <1>13. Types'
    BY <1>1, <1>4, <1>6, <1>7, <1>12 DEF Types
  <1>14. Shape'
    <2>1. PlaceShape(r)' /\ RecvShape(r)'
      BY <1>1, <1>2, <1>4, <1>7, PartsKept DEF Shape
    <2>2. PlaceShape(n)' /\ SendShape(n)'
      BY <1>1, <1>2, <1>4, <1>6, PartsKept DEF Shape
    <2>3. \A q \in Rank \ {r, n} : PlaceShape(q)' /\ RecvShape(q)' /\ SendShape(q)'
      BY <1>1, <1>4, <1>6, <1>7, PartsKept DEF Shape
    <2> QED BY <1>6, <1>7, <2>1, <2>2, <2>3 DEF Shape
  <1>15. Entered'
    BY <1>1, <1>4 DEF Entered
  <1>16. ASSUME failed = {}, Alike PROVE \A q \in Rank : Linked(q)' /\ Data(q)'
    <2>1. \A q \in Rank : Linked(q) /\ Data(q)
      BY <1>16 DEF IInv, Whole
    <2>2. coll[r] = coll[n] /\ a = step[r] /\ b = x
      BY ONLY IInv, <1>2, <1>6, <1>8, <1>9, <1>16, r \in Rank, rail \in Rail, DeliverMeets
    <2>3. /\ \A q \in Rank \ {r}, other \in Rail : SendPos(q, other)' = SendPos(q, other)
          /\ \A q \in Rank \ {n}, other \in Rail : RecvPos(q, other)' = RecvPos(q, other)
      BY <1>4, <1>6, <1>7, PosKept
    <2>4. ASSUME NEW q \in Rank PROVE Linked(q)'
      <3>1. PICK m \in Rank : m = NextRank(q) /\ m # q
        BY Neighbours
      <3>2. /\ Dual(q)' = Dual(q) /\ TotalSteps(q)' = TotalSteps(q) /\ TotalSteps(m)' = TotalSteps(m)
        BY <1>4, SettingKept
      <3>3. CASE q = r
        <4>1. m = n
          BY <1>2, <3>1, <3>3
        <4>2. \A other \in Rail : All(Dual(r), other) # 0 => SendPos(r, other) = RecvPos(n, other)
          BY <1>2, <2>1, <2>2 DEF Linked
        <4>3. Dual(n) = Dual(r)
          BY <1>16 DEF Alike
        <4>4. ASSUME NEW other \in Rail, All(Dual(r), other) # 0
              PROVE  SendPos(r, other)' = RecvPos(n, other)'
          <5>1. CASE other = rail
            BY <1>6, <1>7, <4>2, <4>3, <4>4, <5>1
          <5>2. CASE other # rail
            BY <1>6, <1>7, <4>2, <4>4, <5>2
          <5> QED BY <5>1, <5>2
        <4>5. coll'[q] = coll'[m] /\ coll'[q] \in Nat
          BY <1>1, <1>4, <2>2, <3>3, <4>1, Basics
        <4>6. ~ (coll'[q] > coll'[m]) /\ ~ (coll'[m] > coll'[q])
          BY <4>5
        <4>7. \A other \in Rail : All(Dual(q)', other) # 0 => SendPos(q, other)' = RecvPos(m, other)'
          BY <3>2, <3>3, <4>1, <4>4
        <4> QED BY ONLY <3>1, <4>6, <4>7 DEF Linked
      <3>4. CASE q # r
        <4>1. m # n
          BY <1>2, <3>1, <3>4, NextOnce
        <4>2. \A other \in Rail : /\ SendPos(q, other)' = SendPos(q, other)
                                  /\ RecvPos(m, other)' = RecvPos(m, other)
          BY <2>3, <3>4, <4>1
        <4>3. Linked(q)
          BY <2>1
        <4> QED BY <1>4, <3>1, <3>2, <4>2, <4>3 DEF Linked
      <3> QED BY <3>3, <3>4
    <2>5. \A q \in Rank \ {n} : Data(q)'
      BY <1>1, <1>4, <1>12, <2>1, <2>3, DataKept
    <2>6. snd.cell = into
      <3>1. ReceiveIndex(n, a) = SendIndex(r, a)
        BY <1>2, <1>10, IndexSteps
      <3> QED BY <1>8, <1>9, <2>2, <3>1
    <2>7. val = Due(n, into)
      <3>1. val = Due(r, snd.cell)
        BY <1>3, <1>6, <1>8, <1>10, <1>16, SentDue
      <3> QED BY <2>2, <2>6, <3>1 DEF Due
    <2>8. Data(n)'
      <3>1. \A c \in Cell : /\ dst'[n][c] = dst[n][c] \/ dst'[n][c] = Due(n, c)
                            /\ buf'[n][c] = buf[n][c] \/ buf'[n][c] = Due(n, c)
        BY <1>12, <2>7
      <3>2. Land(n)'[into] = Due(n, into)
        BY <1>12, <2>7
      <3>3. RecvPos(n, rail)' = Follow(Dual(n), rail, <<a, b>>)
        BY <1>7, <1>9
      <3> QED BY <1>1, <1>4, <1>7, <1>9, <1>10, <2>1, <3>1, <3>2, <3>3, DeliverData
    <2> QED BY <2>4, <2>5, <2>8
  <1>17. Whole'
    BY <1>4, <1>16, WholeStep
  <1> QED BY <1>13, <1>14, <1>15, <1>17 DEF IInv

-----------------------------------------------------------------------------
(* The invariant, and what it says of the collective.                      *)

\* Every state of a sequence of all-gathers satisfies the invariant.
THEOREM Invariance == Spec => []IInv
  <1>1. Init => IInv
    BY InitIInv
  <1>2. IInv /\ [Next]_vars => IInv'
    <2> SUFFICES ASSUME IInv, [Next]_vars PROVE IInv'
      OBVIOUS
    <2>1. CASE UNCHANGED vars
      BY <2>1, StutterIInv
    <2>2. ASSUME NEW r \in Rank, Begin(r) \/ LeaveBarrier(r) \/ Ring(r) PROVE IInv'
      <3>1. CASE Begin(r)
        BY <3>1, BeginIInv
      <3>2. CASE LeaveBarrier(r)
        BY <3>2, LeaveBarrierIInv
      <3>3. CASE Ring(r)
        BY <3>3, PostRecvsIInv, ReadOwnIInv, WriteOwnIInv, SendIInv, StepDoneIInv, StepPutIInv DEF Ring
      <3> QED BY <2>2, <3>1, <3>2, <3>3
    <2>3. ASSUME NEW r \in Rank, NEW rail \in Rail,
                 \/ Fabric(r, rail) \/ Break(r, rail)
                 \/ RefuseSend(r, rail) \/ RefuseRecv(r, rail)
          PROVE  IInv'
      <3>1. CASE Fabric(r, rail)
        BY <3>1, DeliverIInv, FlushSendIInv, FlushRecvIInv DEF Fabric
      <3>2. CASE Break(r, rail)
        BY <3>2, BreakIInv
      <3>3. CASE RefuseSend(r, rail) \/ RefuseRecv(r, rail)
        BY <3>3, RefuseSendIInv, RefuseRecvIInv
      <3> QED BY <2>3, <3>1, <3>2, <3>3
    <2> QED BY <2>1, <2>2, <2>3 DEF Next
  <1> QED BY <1>1, <1>2, PTL DEF Spec

\* Type correctness of the ranks' queues, memory and counters: whatever fails, no
\* counter of pending transfers goes below zero or above the pieces of a chunk.
THEOREM TypeCorrect == Spec => []TypeOK
  <1>1. IInv => TypeOK
    <2> SUFFICES ASSUME IInv PROVE TypeOK
      OBVIOUS
    <2>1. Types /\ Shape
      BY DEF IInv
    <2>2. ASSUME NEW r \in Rank PROVE \A s \in 0 .. N - 1 : recvPending[r][s] \in 0 .. Pieces
      <3>1. PICK f, p, m, d : f = recvq[r] /\ p = recvPending[r] /\ m = Posted(r) /\ d = Dual(r)
        OBVIOUS
      <3>2. /\ f \in [Rail -> Seq(Recv)] /\ RecvQueues(f, p, r, d, m) /\ m \in 0 .. N /\ d \in BOOLEAN
        BY <2>1, <3>1, Basics DEF Shape, RecvShape
      <3>3. \A s \in 0 .. N - 1 : p[s] \in 0 .. Pieces
        BY ONLY <3>2, RecvDone
      <3> QED BY <3>1, <3>3
    <2>3. ASSUME NEW r \in Rank PROVE sendPending[r] \in 0 .. Pieces
      <3>1. PICK f, p, s, d, from : /\ f = sendq[r] /\ p = sendPending[r] /\ s = step[r] /\ d = Dual(r)
                                    /\ from = SendFrom(r, step[r])
        OBVIOUS
      <3>2. /\ f \in [Rail -> Seq(Sending)] /\ SendQueues(f, p, r, d, s, from) /\ s \in Nat /\ d \in BOOLEAN
        BY <2>1, <3>1, Basics DEF Shape, SendShape
      <3>3. p \in 0 .. Pieces
        BY ONLY <3>2, SendDone
      <3> QED BY <3>1, <3>3
    <2>4. recvPending \in [Rank -> [0 .. N - 1 -> 0 .. Pieces]] /\ sendPending \in [Rank -> 0 .. Pieces]
      <3>1. recvPending \in [Rank -> [0 .. N - 1 -> Int]] /\ sendPending \in [Rank -> Int]
        BY <2>1 DEF Types
      <3> QED BY <2>2, <2>3, <3>1
    <2>5. \A r \in Rank, rail \in Rail : recvq[r][rail] \in Seq(Recv) /\ sendq[r][rail] \in Seq(Sending)
      BY <2>1 DEF Types
    <2> QED BY <2>1, <2>4, <2>5 DEF Types, TypeOK, PCs, Recv, Sending
  <1> QED BY <1>1, Invariance, PTL

\* The setting of a rank does not change.
LEMMA SettingStays == Spec => [](Uniform => Alike)
  <1> DEFINE Same == Uniform => \A q \in Rank : setting[q] = setting[0]
  <1>1. Init => Same
    BY DEF Init
  <1>2. Same /\ [Next]_vars => Same'
    <2>1. ASSUME NEW r \in Rank, Begin(r) \/ LeaveBarrier(r) \/ Ring(r) PROVE setting' = setting
      BY <2>1 DEF Ring, Begin, LeaveBarrier, PostRecvs, ReadOwn, WriteOwn, Send, StepDone, StepPut
    <2>2. ASSUME NEW r \in Rank, NEW rail \in Rail,
                 \/ Fabric(r, rail) \/ Break(r, rail)
                 \/ RefuseSend(r, rail) \/ RefuseRecv(r, rail)
          PROVE  setting' = setting
      BY <2>2 DEF Fabric, Deliver, FlushSend, FlushRecv, Break, RefuseSend, RefuseRecv
    <2>3. [Next]_vars => setting' = setting
      BY <2>1, <2>2 DEF Next, vars
    <2> QED BY <2>3
  <1>3. Same => (Uniform => Alike)
    BY DEF Alike, Dual, TotalSteps
  <1> QED BY <1>1, <1>2, <1>3, PTL DEF Spec

\* While nothing has failed a send meets the receive posted for its chunk, from
\* one collective to the next and whatever the speeds of the ranks: it is enough
\* that they agree on the rails and on the number of steps.
THEOREM FifoAlike == Spec => [](Alike => FifoMatch)
  <1>1. IInv => (Alike => FifoMatch)
    <2> SUFFICES ASSUME IInv, Alike, NEW r \in Rank, NEW rail \in Rail,
                        NEW n \in Rank, n = NextRank(r), failed = {},
                        sendq[r][rail] # <<>>, recvq[n][rail] # <<>>
                 PROVE  Head(sendq[r][rail]).cell = Head(recvq[n][rail]).cell
      BY Neighbours DEF FifoMatch
    <2>1. Types /\ Shape
      BY DEF IInv
    <2>2. pc[r] = "wait" /\ step[r] \in 0 .. N - 1
      BY <2>1, Basics DEF Shape, SendShape
    <2>3. PICK x \in On(Dual(r), rail) :
               /\ SendPos(r, rail) = <<step[r], x>>
               /\ Head(sendq[r][rail]).cell = CellAt(SendIndex(r, step[r]), x)
      <3>1. PICK q, s, d, from : /\ q = sendq[r][rail] /\ s = step[r] /\ d = Dual(r)
                                 /\ from = SendFrom(r, step[r])
        OBVIOUS
      <3>2. /\ q \in Seq(Sending) /\ Sends(q, r, d, rail, s, from) /\ q # <<>>
            /\ s \in Nat /\ d \in BOOLEAN
        BY <2>1, <3>1, Basics DEF Shape, SendShape, SendQueues
      <3>3. \E b \in On(d, rail) : /\ Head(q).from = from /\ Head(q).cell = CellAt(SendIndex(r, s), b)
                                   /\ SendFirst(q, rail, s) = <<s, b>>
        BY ONLY <3>2, rail \in Rail, SendHead
      <3> QED BY <2>2, <3>1, <3>3 DEF SendPos
    <2>4. PICK a \in 0 .. TotalSteps(n) - 1, b \in On(Dual(n), rail) :
               /\ RecvPos(n, rail) = <<a, b>>
               /\ Head(recvq[n][rail]).cell = CellAt(ReceiveIndex(n, a), b)
      <3>1. PICK q, m, d : q = recvq[n][rail] /\ m = Posted(n) /\ d = Dual(n)
        OBVIOUS
      <3>2. /\ q \in Seq(Recv) /\ Receives(q, n, d, rail, m) /\ q # <<>>
            /\ m \in 0 .. N /\ d \in BOOLEAN
        BY <2>1, <3>1, Basics DEF Shape, RecvShape, RecvQueues
      <3>3. \E a \in 0 .. m - 1, b \in On(d, rail) :
               /\ Head(q).step = a /\ Head(q).cell = CellAt(ReceiveIndex(n, a), b)
               /\ RecvFrom(q, rail, m) = <<a, b>>
        BY ONLY <3>2, rail \in Rail, RecvHead
      <3>4. m \in Nat /\ m <= TotalSteps(n) /\ TotalSteps(n) \in Nat
        BY <2>1, <3>1, Basics DEF Posted, Shape, PlaceShape
      <3>5. 0 .. m - 1 \subseteq 0 .. TotalSteps(n) - 1
        BY <3>4
      <3> QED BY <3>1, <3>3, <3>5 DEF RecvPos
    <2>5. a = step[r] /\ b = x
      BY <2>2, <2>3, <2>4, DeliverMeets
    <2>6. ReceiveIndex(n, step[r]) = SendIndex(r, step[r])
      BY <2>2, IndexSteps
    <2> QED BY <2>3, <2>4, <2>5, <2>6
  <1> QED BY <1>1, Invariance, PTL

\* The same, when every rank runs with one setting.
THEOREM Fifo == ASSUME Uniform PROVE Spec => []FifoMatch
  <1>1. (Uniform => Alike) /\ (Alike => FifoMatch) => FifoMatch
    OBVIOUS
  <1> QED BY <1>1, SettingStays, FifoAlike, PTL

\* When collective_all_gather returns and nothing failed, every chunk of the
\* destination is its owner's contribution to this collective, whatever mix of
\* modes with the same rails and steps the ranks run with.
THEOREM CorrectAlike == Spec => [](Alike => AllGatherCorrect)
  <1>1. IInv => (Alike => AllGatherCorrect)
    <2> SUFFICES ASSUME IInv, Alike, NEW r \in Rank, pc[r] = "idle", coll[r] > 0, failed = {}
                 PROVE  dst[r] = [c \in Cell |-> <<coll[r], c[1], c[2]>>]
      BY DEF AllGatherCorrect
    <2>1. \A c \in Cell : dst[r][c] = <<coll[r], c[1], c[2]>>
      BY DEF IInv, Whole, Data, Returns, Due
    <2>2. dst[r] \in [Cell -> Value]
      BY DEF IInv, Types
    <2> QED BY <2>1, <2>2
  <1> QED BY <1>1, Invariance, PTL

\* The same, when every rank runs with one setting.
THEOREM Correct == ASSUME Uniform PROVE Spec => []AllGatherCorrect
  <1>1. (Uniform => Alike) /\ (Alike => AllGatherCorrect) => AllGatherCorrect
    OBVIOUS
  <1> QED BY <1>1, SettingStays, CorrectAlike, PTL
=============================================================================
