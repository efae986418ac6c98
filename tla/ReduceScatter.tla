---------------------------- MODULE ReduceScatter ----------------------------
(***************************************************************************)
(* collective_reduce_scatter of comch_server.c on all ranks at once, for a *)
(* sequence of reduce-scatters over ring 0.  A rank passes a partial sum   *)
(* of one chunk to its successor in every step while it reads its own      *)
(* contribution to the next chunk from its host into the same buffer, then *)
(* adds what it received to that chunk.  After N-1 steps it holds the sum  *)
(* of its own chunk and puts it to the host.                               *)
(*                                                                         *)
(* The value of a chunk says how often it contains each contribution, so a *)
(* chunk added twice, or one of an earlier collective, shows.  The fabric  *)
(* pairs sends and receives in FIFO order.  As in module RingAllGather the *)
(* transfers of a connection in error end their waits like those that      *)
(* succeed, and so does one whose submission fails, which the other side   *)
(* is not told of.                                                         *)
(***************************************************************************)
EXTENDS Integers, Sequences, FiniteSets

CONSTANTS N,               \* world_size
          MaxCollectives,  \* bound: reduce-scatters a rank begins
          MaxFailures      \* bound: what may fail, of all ranks

ASSUME ScatterAssumption ==
    N \in Nat /\ N >= 2 /\ MaxCollectives \in Nat /\ MaxFailures \in Nat

Rank  == 0 .. N - 1
Steps == N - 1

Failure == {"ring", "host", "send", "receive"} \X Rank

NextRank(r) == (r + 1) % N
PrevRank(r) == (r + N - 1) % N

\* A contribution is that of a rank to a collective.
Contribution == (1 .. MaxCollectives) \X Rank
Value    == [Contribution -> Nat]
Zero     == [c \in Contribution |-> 0]
Own(k, r) == [Zero EXCEPT ![<<k, r>>] = 1]
Add(v, w) == [c \in Contribution |-> v[c] + w[c]]
Total(k)  == [c \in Contribution |-> IF c[1] = k THEN 1 ELSE 0]

VARIABLES coll,         \* coll[r]: reduce-scatters r has begun
          pc,           \* pc[r]: where r is in collective_reduce_scatter
          step,         \* step[r]: the loop index
          sendbuf,      \* sendbuf[r]: send_buf by chunk
          recvbuf,      \* recvbuf[r]: recv_buf by chunk
          dst,          \* dst[r]: the destination of this collective
          recvq,        \* recvq[r]: posted receives, oldest first
          sendq,        \* sendq[r]: chunks submitted to the successor
          recvPending,  \* recvPending[r]: recv_pendings[step]
          sendPending,  \* sendPending[r]: send_p
          reading,      \* reading[r]: chunk of a read in flight, or NoChunk
          failed        \* <<what, r>>: the connection of r to its successor
                        \* ("ring") or to its host, the submission of a send
                        \* or that of a receive

vars == <<coll, pc, step, sendbuf, recvbuf, dst, recvq, sendq,
          recvPending, sendPending, reading, failed>>

NoChunk == -1

-----------------------------------------------------------------------------
(* The indices of a step.                                                  *)

ReceiveIndexBug(r, s) == (r + 2 * N - 1 - s) % N    \* the index of the send
ReadIndexBug(r, s)    == (r + 2 * N - 1 - s) % N    \* the chunk being sent

SendIndex(r, s)    == (r + N - 1 - s) % N
ReceiveIndex(r, s) == (r + 2 * N - 2 - s) % N
ReadIndex(r, s)    == (r + 2 * N - s - 2) % N
SumIndex(r, s)     == (r + N - 1 - (s + 1)) % N

Init ==
    /\ coll = [r \in Rank |-> 0]
    /\ pc   = [r \in Rank |-> "idle"]
    /\ step = [r \in Rank |-> 0]
    /\ sendbuf = [r \in Rank |-> [i \in Rank |-> Zero]]
    /\ recvbuf = [r \in Rank |-> [i \in Rank |-> Zero]]
    /\ dst     = [r \in Rank |-> Zero]
    /\ recvq   = [r \in Rank |-> <<>>]
    /\ sendq   = [r \in Rank |-> <<>>]
    /\ recvPending = [r \in Rank |-> [s \in 0 .. Steps - 1 |-> 0]]
    /\ sendPending = [r \in Rank |-> 0]
    /\ reading = [r \in Rank |-> NoChunk]
    /\ failed  = {}

-----------------------------------------------------------------------------
(* The thread of rank r.                                                   *)

\* The command of the next reduce-scatter reaches r, which enters the barrier.
Begin(r) ==
    /\ pc[r] = "idle"
    /\ coll[r] < MaxCollectives
    /\ coll' = [coll EXCEPT ![r] = @ + 1]
    /\ dst' = [dst EXCEPT ![r] = Zero]
    /\ pc' = [pc EXCEPT ![r] = "barrier"]
    /\ UNCHANGED <<step, sendbuf, recvbuf, recvq, sendq, recvPending, sendPending,
                   reading, failed>>

\* rdb_barrier returns (module Barrier); the receives of all steps are posted
\* and the read of the first chunk is submitted.
Post(r) ==
    /\ pc[r] = "barrier"
    /\ \A q \in Rank : coll[q] >= coll[r]
    /\ recvq' = [recvq EXCEPT ![r] = @ \o
          [i \in 1 .. Steps |-> [step |-> i - 1, chunk |-> ReceiveIndex(r, i - 1)]]]
    /\ recvPending' = [recvPending EXCEPT ![r] = [s \in 0 .. Steps - 1 |-> 1]]
    /\ reading' = [reading EXCEPT ![r] = PrevRank(r)]
    /\ step' = [step EXCEPT ![r] = 0]
    /\ pc' = [pc EXCEPT ![r] = "first"]
    /\ UNCHANGED <<coll, sendbuf, recvbuf, dst, sendq, sendPending, failed>>

\* The wait for the first read ends.
FirstRead(r) ==
    /\ pc[r] = "first"
    /\ reading[r] = NoChunk
    /\ pc' = [pc EXCEPT ![r] = "send"]
    /\ UNCHANGED <<coll, step, sendbuf, recvbuf, dst, recvq, sendq, recvPending,
                   sendPending, reading, failed>>

\* A step: submit the send of one chunk and the read of the next.
Send(r) ==
    /\ pc[r] = "send"
    /\ sendq' = [sendq EXCEPT ![r] = Append(@, SendIndex(r, step[r]))]
    /\ sendPending' = [sendPending EXCEPT ![r] = 1]
    /\ reading' = [reading EXCEPT ![r] = ReadIndex(r, step[r])]
    /\ pc' = [pc EXCEPT ![r] = "wait"]
    /\ UNCHANGED <<coll, step, sendbuf, recvbuf, dst, recvq, recvPending, failed>>

StepFinishedBug(r) == recvPending[r][step[r]] = 0 /\ sendPending[r] = 0

StepFinished(r) ==
    recvPending[r][step[r]] = 0 /\ sendPending[r] = 0 /\ reading[r] = NoChunk

\* The wait of the step ends and the chunk received is added, by this thread
\* or by the pool (module RsPool).
Aggregate(r) ==
    LET i == SumIndex(r, step[r]) IN
    /\ pc[r] = "wait"
    /\ StepFinished(r)
    /\ sendbuf' = [sendbuf EXCEPT ![r][i] = Add(@, recvbuf[r][i])]
    /\ IF step[r] + 1 < Steps
       THEN step' = [step EXCEPT ![r] = @ + 1] /\ pc' = [pc EXCEPT ![r] = "send"]
       ELSE step' = step /\ pc' = [pc EXCEPT ![r] = "put"]
    /\ UNCHANGED <<coll, recvbuf, dst, recvq, sendq, recvPending, sendPending,
                   reading, failed>>

\* The chunk of the rank is written to the host, or the write fails; return.
Put(r) ==
    /\ pc[r] = "put"
    /\ dst' = IF <<"host", r>> \in failed THEN dst
              ELSE [dst EXCEPT ![r] = sendbuf[r][r]]
    /\ pc' = [pc EXCEPT ![r] = "idle"]
    /\ UNCHANGED <<coll, step, sendbuf, recvbuf, recvq, sendq, recvPending,
                   sendPending, reading, failed>>

-----------------------------------------------------------------------------
(* The NICs.                                                               *)

PopSend(r) ==
    /\ sendq' = [sendq EXCEPT ![r] = Tail(@)]
    /\ sendPending' = [sendPending EXCEPT ![r] = @ - 1]

PopRecv(r) ==
    /\ recvq' = [recvq EXCEPT ![r] = Tail(@)]
    /\ recvPending' = [recvPending EXCEPT ![r][Head(recvq[r]).step] = @ - 1]

\* The oldest send of r meets the oldest receive of its successor.
Deliver(r) ==
    LET n == NextRank(r) IN
    /\ <<"ring", r>> \notin failed
    /\ sendq[r] # <<>> /\ recvq[n] # <<>>
    /\ recvbuf' = [recvbuf EXCEPT ![n][Head(recvq[n]).chunk] = sendbuf[r][Head(sendq[r])]]
    /\ PopSend(r) /\ PopRecv(n)
    /\ UNCHANGED <<coll, pc, step, sendbuf, dst, reading, failed>>

\* The read of r's contribution from its host ends, in rdma_read_err_cb if the
\* connection is broken.
ReadDone(r) ==
    /\ reading[r] # NoChunk
    /\ sendbuf' = IF <<"host", r>> \in failed THEN sendbuf
                  ELSE [sendbuf EXCEPT ![r][reading[r]] = Own(coll[r], r)]
    /\ reading' = [reading EXCEPT ![r] = NoChunk]
    /\ UNCHANGED <<coll, pc, step, recvbuf, dst, recvq, sendq, recvPending,
                   sendPending, failed>>

Fail(what, r) ==
    /\ failed' = failed \cup {<<what, r>>}
    /\ Cardinality(failed') <= MaxFailures

\* A connection goes to the error state.
Break(r) ==
    /\ \E kind \in {"ring", "host"} : Fail(kind, r)
    /\ UNCHANGED <<coll, pc, step, sendbuf, recvbuf, dst, recvq, sendq,
                   recvPending, sendPending, reading>>

\* The submission of a send, or of a receive, fails: its counter is lowered and
\* the connection goes on without it.
RefuseSend(r) ==
    /\ sendq[r] # <<>>
    /\ Fail("send", r)
    /\ PopSend(r)
    /\ UNCHANGED <<coll, pc, step, sendbuf, recvbuf, dst, recvq, recvPending, reading>>

RefuseRecv(r) ==
    /\ recvq[r] # <<>>
    /\ Fail("receive", r)
    /\ PopRecv(r)
    /\ UNCHANGED <<coll, pc, step, sendbuf, recvbuf, dst, sendq, sendPending, reading>>

FlushSendBug(r) ==              \* reported twice
    /\ <<"ring", r>> \in failed
    /\ sendq[r] # <<>>
    /\ sendPending' = [sendPending EXCEPT ![r] = @ - 1]
    /\ UNCHANGED <<coll, pc, step, sendbuf, recvbuf, dst, sendq, recvq, recvPending, reading,
                   failed>>

FlushRecvBug(r) ==              \* not reported
    /\ <<"ring", PrevRank(r)>> \in failed
    /\ recvq[r] # <<>>
    /\ recvq' = [recvq EXCEPT ![r] = Tail(@)]
    /\ UNCHANGED <<coll, pc, step, sendbuf, recvbuf, dst, sendq, recvPending, sendPending,
                   reading, failed>>

\* rdma_send_err_cb.
FlushSend(r) ==
    /\ <<"ring", r>> \in failed
    /\ sendq[r] # <<>>
    /\ PopSend(r)
    /\ UNCHANGED <<coll, pc, step, sendbuf, recvbuf, dst, recvq, recvPending, reading,
                   failed>>

\* rdma_recv_err_cb: recv_buf keeps what it held.
FlushRecv(r) ==
    /\ <<"ring", PrevRank(r)>> \in failed
    /\ recvq[r] # <<>>
    /\ PopRecv(r)
    /\ UNCHANGED <<coll, pc, step, sendbuf, recvbuf, dst, sendq, sendPending, reading,
                   failed>>

Thread(r) == FirstRead(r) \/ Send(r) \/ Aggregate(r) \/ Put(r)
Nic(r) == Deliver(r) \/ ReadDone(r) \/ FlushSend(r) \/ FlushRecv(r)

Next == \E r \in Rank : \/ Begin(r) \/ Post(r) \/ Thread(r) \/ Nic(r)
                        \/ Break(r) \/ RefuseSend(r) \/ RefuseRecv(r)

Spec == Init /\ [][Next]_vars

\* As in RingAllGather: the threads spin, the NICs serve their queues, and the
\* barrier lets go as long as nothing fails.
Fairness ==
    /\ WF_vars(\E r \in Rank : Thread(r) \/ Nic(r))
    /\ WF_vars(\E r \in Rank : Post(r) /\ failed = {})

FairSpec == Spec /\ Fairness

-----------------------------------------------------------------------------
TypeOK ==
    /\ coll \in [Rank -> 0 .. MaxCollectives]
    /\ pc \in [Rank -> {"idle", "barrier", "first", "send", "wait", "put"}]
    /\ step \in [Rank -> 0 .. Steps - 1]
    /\ \A r \in Rank : /\ \A i \in Rank : sendbuf[r][i] \in Value /\ recvbuf[r][i] \in Value
                       /\ dst[r] \in Value
                       /\ recvq[r] \in Seq([step : 0 .. Steps - 1, chunk : Rank])
                       /\ sendq[r] \in Seq(Rank)
    /\ recvPending \in [Rank -> [0 .. Steps - 1 -> 0 .. 1]]
    /\ sendPending \in [Rank -> 0 .. 1]
    /\ reading \in [Rank -> Rank \cup {NoChunk}]
    /\ failed \subseteq Failure

\* When collective_reduce_scatter returns and nothing failed, the destination is
\* the sum of every rank's contribution to this collective, each exactly once:
\* whatever send_buf and recv_buf held from the collective before.
ReduceScatterCorrect ==
    \A r \in Rank : pc[r] = "idle" /\ coll[r] > 0 /\ failed = {} => dst[r] = Total(coll[r])

\* A send meets the receive posted for its chunk, from one collective to the
\* next and whatever the speeds of the ranks.
FifoMatch ==
    \A r \in Rank : LET n == NextRank(r) IN
        failed = {} /\ sendq[r] # <<>> /\ recvq[n] # <<>> =>
            Head(sendq[r]) = Head(recvq[n]).chunk

\* The NIC never reads and writes one chunk of send_buf at once: the read of the
\* next contribution runs beside the send of the last partial sum.
NoDmaRace ==
    \A r \in Rank : reading[r] # NoChunk =>
        \A i \in 1 .. Len(sendq[r]) : sendq[r][i] # reading[r]

\* A reduce-scatter that every rank has begun returns on every rank; past the
\* barrier also when connections break, but not when a submission fails: the
\* other side spins on a transfer that has no partner.
AllSubmitted == \A x \in failed : x[1] \in {"ring", "host"}

Past(q, k)     == coll[q] > k \/ (coll[q] = k /\ pc[q] # "barrier")
Returned(q, k) == coll[q] > k \/ (coll[q] = k /\ pc[q] = "idle")

ReduceScatterReturns ==
    \A k \in 1 .. MaxCollectives :
        /\ []AllSubmitted => ((\A q \in Rank : Past(q, k)) ~>
                               (\A q \in Rank : Returned(q, k)))
        /\ [](failed = {}) => ((\A q \in Rank : coll[q] >= k) ~>
                               (\A q \in Rank : Returned(q, k)))
=============================================================================
