--------------------------- MODULE RingAllGather -----------------------------
(***************************************************************************)
(* collective_all_gather of comch_server.c on all ranks at once: a         *)
(* sequence of all-gathers over one ring.  Each rank posts the receives of *)
(* every step in advance, then sends one chunk per step to its successor   *)
(* and waits for that step's receive and send.  A chunk travels in pieces; *)
(* on a dual ring the odd pieces take the second rail.  A connection and   *)
(* rail deliver sends into the posted receives in FIFO order, whatever the *)
(* two sides meant them for; a send with no receive posted waits (the RNR  *)
(* retry count is infinite).                                               *)
(*                                                                         *)
(* Three modes, from what the command let the DPU import:                  *)
(*   legacy      chunks go through the DPU's send_buf                      *)
(*   gpu_direct  receives land in the destination, sends read it           *)
(*   full        also the own chunk: step 0 sends from the source, and a   *)
(*               last step receives the own chunk back (N steps)           *)
(* Two things fail.  A connection in error fails its sends and receives,   *)
(* and a failed one counts as finished: the callbacks decrement the        *)
(* pending counter either way and collective_all_gather returns            *)
(* DOCA_SUCCESS.  A send or receive whose submission fails also counts as  *)
(* finished where it was submitted, but the connection goes on without it: *)
(* what the other side has for it meets the next one, or nothing.          *)
(***************************************************************************)
EXTENDS Integers, Sequences, FiniteSets

CONSTANTS N,               \* world_size
          Pieces,          \* num_pieces
          Settings,        \* what a rank may run with: [mode, dual]
          Uniform,         \* TRUE: every rank runs with the same setting
          MaxCollectives,  \* bound: all-gathers a rank begins
          MaxFailures      \* bound: rails on which something fails

ASSUME RingAssumption ==
    /\ N \in Nat /\ N >= 2 /\ Pieces \in Nat \ {0}
    /\ Settings \subseteq [mode : {"legacy", "gpu_direct", "full"}, dual : BOOLEAN]
    /\ Uniform \in BOOLEAN /\ MaxCollectives \in Nat /\ MaxFailures \in Nat

Rank  == 0 .. N - 1
Piece == 0 .. Pieces - 1
Rail  == {0, 1}
Cell  == Rank \X Piece                 \* a piece of a chunk
Failure == Rank \X Rail \X {"connection", "send", "receive"}
Empty == <<0, 0, 0>>
Value == {Empty} \cup ((1 .. MaxCollectives) \X Rank \X Piece)

NextRank(r) == (r + 1) % N
PrevRank(r) == (r + N - 1) % N

VARIABLES setting,      \* setting[r]: mode and use_dual_ring of r
          coll,         \* coll[r]: all-gathers r has begun
          pc,           \* pc[r]: where r is in collective_all_gather
          step,         \* step[r]: loop index, of the posts then of the ring
          buf,          \* buf[r]: send_buf, kept from one collective to the next
          dst,          \* dst[r]: the destination tensor of this collective
          recvq,        \* recvq[r][rail]: posted receives, oldest first
          sendq,        \* sendq[r][rail]: sends submitted and not delivered
          recvPending,  \* recvPending[r]: recv_pendings[step], per step
          sendPending,  \* sendPending[r]: send_pending
          failed        \* <<rank, rail, what>>: the connection to the next rank,
                        \* the submission of a send or that of a receive

vars == <<setting, coll, pc, step, buf, dst, recvq, sendq,
          recvPending, sendPending, failed>>

-----------------------------------------------------------------------------
(* The indices of the two loops.  The ...Bug operators are mistakes the    *)
(* properties exclude.                                                     *)

ReceiveIndexBug(r, s) == (r - s + N) % N     \* the index of the send

SendIndex(r, s)    == (r - s + N) % N
ReceiveIndex(r, s) == (r - 1 - s + 2 * N) % N
TotalSteps(r) == IF setting[r].mode = "full" THEN N ELSE N - 1
GpuDirect(r)  == setting[r].mode # "legacy"

\* The pieces of a chunk that take this rail, in the order they are submitted:
\* on a dual ring the even ones or the odd ones.
RailPieces(r, rail) ==
    IF setting[r].dual THEN [i \in 1 .. (Pieces - rail + 1) \div 2 |-> 2 * (i - 1) + rail]
    ELSE IF rail = 0 THEN [i \in 1 .. Pieces |-> i - 1]
    ELSE <<>>

\* Where a step's pieces are sent from.
SendFrom(r, s) == IF setting[r].mode = "full" /\ s = 0 THEN "src"
                  ELSE IF GpuDirect(r) THEN "dst" ELSE "buf"

\* What the memory of r holds; the source is this collective's contribution.
Read(r, from, cell) ==
    CASE from = "src" -> <<coll[r], r, cell[2]>>
      [] from = "buf" -> buf[r][cell]
      [] from = "dst" -> dst[r][cell]

-----------------------------------------------------------------------------
Init ==
    /\ setting \in [Rank -> Settings]
    /\ Uniform => \A q \in Rank : setting[q] = setting[0]
    /\ coll = [r \in Rank |-> 0]
    /\ pc   = [r \in Rank |-> "idle"]
    /\ step = [r \in Rank |-> 0]
    /\ buf  = [r \in Rank |-> [c \in Cell |-> Empty]]
    /\ dst  = [r \in Rank |-> [c \in Cell |-> Empty]]
    /\ recvq = [r \in Rank |-> [rail \in Rail |-> <<>>]]
    /\ sendq = [r \in Rank |-> [rail \in Rail |-> <<>>]]
    /\ recvPending = [r \in Rank |-> [s \in 0 .. N - 1 |-> 0]]
    /\ sendPending = [r \in Rank |-> 0]
    /\ failed = {}

\* The command of the next all-gather reaches rank r, which enters the barrier.
\* Every command brings a destination of its own.
Begin(r) ==
    /\ pc[r] = "idle"
    /\ coll[r] < MaxCollectives
    /\ coll' = [coll EXCEPT ![r] = @ + 1]
    /\ dst' = [dst EXCEPT ![r] = [c \in Cell |-> Empty]]
    /\ pc' = [pc EXCEPT ![r] = "barrier"]
    /\ UNCHANGED <<setting, step, buf, recvq, sendq, recvPending, sendPending, failed>>

\* rdb_barrier returns: every rank has begun this collective (module Barrier).
LeaveBarrier(r) ==
    /\ pc[r] = "barrier"
    /\ \A q \in Rank : coll[q] >= coll[r]
    /\ pc' = [pc EXCEPT ![r] = "post"]
    /\ step' = [step EXCEPT ![r] = 0]
    /\ UNCHANGED <<setting, coll, buf, dst, recvq, sendq, recvPending, sendPending, failed>>

\* One turn of the loop that posts the receives.
PostRecvs(r) ==
    /\ pc[r] = "post"
    /\ recvq' = [recvq EXCEPT ![r] = [rail \in Rail |->
           @[rail] \o [i \in 1 .. Len(RailPieces(r, rail)) |->
               [step |-> step[r],
                cell |-> <<ReceiveIndex(r, step[r]), RailPieces(r, rail)[i]>>]]]]
    /\ recvPending' = [recvPending EXCEPT ![r][step[r]] = Pieces]
    /\ IF step[r] + 1 < TotalSteps(r)
       THEN /\ step' = [step EXCEPT ![r] = @ + 1]
            /\ UNCHANGED pc
       ELSE /\ step' = [step EXCEPT ![r] = 0]
            /\ pc' = [pc EXCEPT ![r] = IF setting[r].mode = "full" THEN "send" ELSE "read"]
    /\ UNCHANGED <<setting, coll, buf, dst, sendq, sendPending, failed>>

\* RDMA Read of the own chunk from the host into send_buf, all pieces waited for.
ReadOwn(r) ==
    /\ pc[r] = "read"
    /\ buf' = [buf EXCEPT ![r] =
                 [c \in Cell |-> IF c[1] = r THEN Read(r, "src", c) ELSE @[c]]]
    /\ pc' = [pc EXCEPT ![r] = "write"]
    /\ UNCHANGED <<setting, coll, step, dst, recvq, sendq, recvPending, sendPending, failed>>

\* RDMA Write of the own chunk to its place in the destination.
WriteOwn(r) ==
    /\ pc[r] = "write"
    /\ dst' = [dst EXCEPT ![r] = [c \in Cell |-> IF c[1] = r THEN buf[r][c] ELSE @[c]]]
    /\ pc' = [pc EXCEPT ![r] = "send"]
    /\ UNCHANGED <<setting, coll, step, buf, recvq, sendq, recvPending, sendPending, failed>>

\* A ring step: submit the pieces of the chunk to pass on.
Send(r) ==
    /\ pc[r] = "send"
    /\ sendq' = [sendq EXCEPT ![r] = [rail \in Rail |->
           @[rail] \o [i \in 1 .. Len(RailPieces(r, rail)) |->
               [from |-> SendFrom(r, step[r]),
                cell |-> <<SendIndex(r, step[r]), RailPieces(r, rail)[i]>>]]]]
    /\ sendPending' = [sendPending EXCEPT ![r] = Pieces]
    /\ pc' = [pc EXCEPT ![r] = "wait"]
    /\ UNCHANGED <<setting, coll, step, buf, dst, recvq, recvPending, failed>>

StepFinishedBug(r) == sendPending[r] = 0

StepFinished(r) == recvPending[r][step[r]] = 0 /\ sendPending[r] = 0

\* After the wait of a step, and the put if there is one: on, or return.
Advance(r) ==
    IF step[r] + 1 < TotalSteps(r)
    THEN step' = [step EXCEPT ![r] = @ + 1] /\ pc' = [pc EXCEPT ![r] = "send"]
    ELSE step' = step /\ pc' = [pc EXCEPT ![r] = "idle"]

\* The wait ends; in a gpu_direct mode the data is already in place.
StepDone(r) ==
    /\ pc[r] = "wait"
    /\ StepFinished(r)
    /\ GpuDirect(r)
    /\ Advance(r)
    /\ UNCHANGED <<setting, coll, buf, dst, recvq, sendq, recvPending, sendPending, failed>>

\* The wait ends in legacy mode: put the received chunk to the destination.
StepPut(r) ==
    /\ pc[r] = "wait"
    /\ StepFinished(r)
    /\ ~GpuDirect(r)
    /\ dst' = [dst EXCEPT ![r] = [c \in Cell |->
                 IF c[1] = ReceiveIndex(r, step[r]) THEN buf[r][c] ELSE @[c]]]
    /\ Advance(r)
    /\ UNCHANGED <<setting, coll, buf, recvq, sendq, recvPending, sendPending, failed>>

-----------------------------------------------------------------------------
(* The fabric.                                                             *)

PopSend(r, rail) ==
    /\ sendq' = [sendq EXCEPT ![r][rail] = Tail(@)]
    /\ sendPending' = [sendPending EXCEPT ![r] = @ - 1]

PopRecv(r, rail) ==
    /\ recvq' = [recvq EXCEPT ![r][rail] = Tail(@)]
    /\ recvPending' = [recvPending EXCEPT ![r][Head(recvq[r][rail]).step] = @ - 1]

\* The oldest send on a rail meets the oldest receive of the successor.
Deliver(r, rail) ==
    LET n == NextRank(r) IN
    /\ <<r, rail, "connection">> \notin failed
    /\ sendq[r][rail] # <<>> /\ recvq[n][rail] # <<>>
    /\ LET s    == Head(sendq[r][rail])
           into == Head(recvq[n][rail]).cell
           val  == Read(r, s.from, s.cell)
       IN IF GpuDirect(n)
          THEN dst' = [dst EXCEPT ![n][into] = val] /\ UNCHANGED buf
          ELSE buf' = [buf EXCEPT ![n][into] = val] /\ UNCHANGED dst
    /\ PopSend(r, rail) /\ PopRecv(n, rail)
    /\ UNCHANGED <<setting, coll, pc, step, failed>>

Fail(r, rail, what) ==
    /\ failed' = failed \cup {<<r, rail, what>>}
    /\ Cardinality(failed') <= MaxFailures

\* A connection goes to the error state.
Break(r, rail) ==
    /\ \E q \in Rank : setting[q].dual \/ rail = 0
    /\ Fail(r, rail, "connection")
    /\ UNCHANGED <<setting, coll, pc, step, buf, dst, recvq, sendq, recvPending, sendPending>>

\* The submission of a send fails, in submit_doca_task_from_desc: its counter is
\* lowered and the connection never sees it.  That of a later send in the queue
\* is the same step once the sends before it are gone: until then no wait of r
\* could tell.
RefuseSend(r, rail) ==
    /\ sendq[r][rail] # <<>>
    /\ Fail(r, rail, "send")
    /\ PopSend(r, rail)
    /\ UNCHANGED <<setting, coll, pc, step, buf, dst, recvq, recvPending>>

\* The same of a receive: the next one takes what was sent for it.
RefuseRecv(r, rail) ==
    /\ recvq[r][rail] # <<>>
    /\ Fail(r, rail, "receive")
    /\ PopRecv(r, rail)
    /\ UNCHANGED <<setting, coll, pc, step, buf, dst, sendq, sendPending>>

FlushSendBug(r, rail) ==        \* reported twice
    /\ <<r, rail, "connection">> \in failed
    /\ sendq[r][rail] # <<>>
    /\ sendq' = sendq
    /\ sendPending' = [sendPending EXCEPT ![r] = @ - 1]
    /\ UNCHANGED <<setting, coll, pc, step, buf, dst, recvq, recvPending, failed>>

FlushRecvBug(r, rail) ==        \* not reported
    /\ <<PrevRank(r), rail, "connection">> \in failed
    /\ recvq[r][rail] # <<>>
    /\ recvq' = [recvq EXCEPT ![r][rail] = Tail(@)]
    /\ UNCHANGED <<setting, coll, pc, step, buf, dst, sendq, recvPending, sendPending, failed>>

\* rdma_send_err_cb: the send counts as finished.
FlushSend(r, rail) ==
    /\ <<r, rail, "connection">> \in failed
    /\ sendq[r][rail] # <<>>
    /\ PopSend(r, rail)
    /\ UNCHANGED <<setting, coll, pc, step, buf, dst, recvq, recvPending, failed>>

\* rdma_recv_err_cb: the receive counts as finished, with nothing received.
FlushRecv(r, rail) ==
    /\ <<PrevRank(r), rail, "connection">> \in failed
    /\ recvq[r][rail] # <<>>
    /\ PopRecv(r, rail)
    /\ UNCHANGED <<setting, coll, pc, step, buf, dst, sendq, sendPending, failed>>

Ring(r) == \/ PostRecvs(r) \/ ReadOwn(r) \/ WriteOwn(r)
           \/ Send(r) \/ StepDone(r) \/ StepPut(r)

Fabric(r, rail) == Deliver(r, rail) \/ FlushSend(r, rail) \/ FlushRecv(r, rail)

Next == \E r \in Rank :
            \/ Begin(r) \/ LeaveBarrier(r) \/ Ring(r)
            \/ \E rail \in Rail : \/ Fabric(r, rail) \/ Break(r, rail)
                                  \/ RefuseSend(r, rail) \/ RefuseRecv(r, rail)

Spec == Init /\ [][Next]_vars

\* The threads spin and the fabric makes progress; the hosts call when they
\* like.  When a write of the barrier fails it may never let a rank go.
Fairness ==
    /\ WF_vars(\E r \in Rank : Ring(r) \/ \E rail \in Rail : Fabric(r, rail))
    /\ WF_vars(\E r \in Rank : LeaveBarrier(r) /\ failed = {})

FairSpec == Spec /\ Fairness

-----------------------------------------------------------------------------
TypeOK ==
    /\ setting \in [Rank -> Settings]
    /\ coll \in [Rank -> 0 .. MaxCollectives]
    /\ pc \in [Rank -> {"idle", "barrier", "post", "read", "write", "send", "wait"}]
    /\ step \in [Rank -> 0 .. N - 1]
    /\ buf \in [Rank -> [Cell -> Value]]
    /\ dst \in [Rank -> [Cell -> Value]]
    /\ \A r \in Rank, rail \in Rail :
         /\ recvq[r][rail] \in Seq([step : 0 .. N - 1, cell : Cell])
         /\ sendq[r][rail] \in Seq([from : {"src", "buf", "dst"}, cell : Cell])
    /\ recvPending \in [Rank -> [0 .. N - 1 -> 0 .. Pieces]]
    /\ sendPending \in [Rank -> 0 .. Pieces]
    /\ failed \subseteq Failure

\* When collective_all_gather returns and nothing ever failed, every
\* chunk of the destination is its owner's contribution to this collective:
\* no chunk forwarded too early, none left over from the collective before.
AllGatherCorrect ==
    \A r \in Rank : pc[r] = "idle" /\ coll[r] > 0 /\ failed = {} =>
        dst[r] = [c \in Cell |-> <<coll[r], c[1], c[2]>>]

\* The FIFO of a connection pairs every send with the receive posted for it:
\* the two loops count chunks, pieces and rails in step.
FifoMatch ==
    \A r \in Rank, rail \in Rail :
        LET n == NextRank(r) IN
        failed = {} /\ sendq[r][rail] # <<>> /\ recvq[n][rail] # <<>> =>
            Head(sendq[r][rail]).cell = Head(recvq[n][rail]).cell

\* An all-gather that every rank has begun returns on every rank; once past
\* the barrier also if connections break, since nothing waits for a failed
\* transfer.  Not so when a submission fails: the peer is left with a receive
\* that no send meets, or with a send that finds no receive, and spins.
AllSubmitted == \A x \in failed : x[3] = "connection"

Begun(q, k)  == coll[q] >= k
Past(q, k)   == coll[q] > k \/ (coll[q] = k /\ pc[q] # "barrier")
Returned(q, k) == coll[q] > k \/ (coll[q] = k /\ pc[q] = "idle")

AllGatherReturns ==
    \A k \in 1 .. MaxCollectives :
        /\ []AllSubmitted => ((\A q \in Rank : Past(q, k)) ~>
                               (\A q \in Rank : Returned(q, k)))
        /\ [](failed = {}) => ((\A q \in Rank : Begun(q, k)) ~>
                               (\A q \in Rank : Returned(q, k)))

\* "compute stream が flag を見た時には AG データが GPU 上に揃っている": the completion
\* flag is written when collective_all_gather returns, so a return must mean
\* that the data is there.
ReturnMeansData ==
    \A r \in Rank : pc[r] = "idle" /\ coll[r] > 0 =>
        dst[r] = [c \in Cell |-> <<coll[r], c[1], c[2]>>]
=============================================================================
