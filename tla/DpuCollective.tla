---------------------------- MODULE DpuCollective ----------------------------
(***************************************************************************)
(* The DPU side of the collective offload on one rank: the receive         *)
(* callback and message pool of comch_server.c, the dispatch to the ring   *)
(* threads, and execute_doca_collective_cmd.  The collective itself is one *)
(* step here (module RingAllGather has the inside): what matters is when   *)
(* it ends, and the staging memory around it.                              *)
(*                                                                         *)
(* A job of kind "ag" runs GPU direct and owns no staging buffer; "agcpu"  *)
(* (an all-gather with a copy to a local CPU buffer) and "rs" go through a *)
(* slot of send_pool.  The doorbell value is staged in the first 8 bytes   *)
(* of the job's slot, or of working_buf, which is slot 0, if it has none.  *)
(***************************************************************************)
EXTENDS Integers, Sequences, FiniteSets

CONSTANTS RingModes,      \* the settings of PHASE15_ENABLE_RING_QUEUES looked at
          MsgCap,         \* MSG_QUEUE_CAP
          MaxSeq,         \* bound: doorbell values
          MaxDpuFaults    \* bound: executions that go wrong

VARIABLES ringQueues, \* use_ring_queues: two ring threads execute, not one inline
          msgq,       \* msg_pool
          dropped,    \* jobs whose command found msg_pool full
          ringq,      \* ring_queue of each ring
          agSeq,      \* ag_seq_counter
          worker,     \* the thread that executes: inline 0, or one per ring
          slotsUsed,  \* slots of send_pool in use
          heads,      \* heads[s]: the first 8 bytes of slot s
          dbSeq,      \* doorbell_seq
          results,    \* <<job, what was delivered>>
          copies,     \* <<job, first 8 bytes of the local CPU copy>>
          dpuFaults,  \* <<what, job>> for each execution that went wrong
          channel,    \* commands sent over ComCh and not yet received
          doorbell    \* the counter in host memory

Ring == {0, 1}
Slot == {0, 1}                          \* CW_BUFFER_POOL_SLOTS
Data(j)  == <<"data", j>>
Count(n) == <<"count", n>>
Idle == [at |-> "idle", msg |-> [job |-> 0, kind |-> "none"], slot |-> -1, tmp |-> 0]

DpuInit ==
    /\ ringQueues \in RingModes
    /\ msgq = <<>> /\ dropped = {}
    /\ ringq = [r \in Ring |-> <<>>]
    /\ agSeq = 0
    /\ worker = [w \in Ring |-> Idle]
    /\ slotsUsed = {}
    /\ heads = [s \in Slot |-> Count(0)]
    /\ dbSeq = 0
    /\ results = {} /\ copies = {} /\ dpuFaults = {}

-----------------------------------------------------------------------------
(* From the channel to a thread.                                           *)

\* message_recv_callback: a full queue drops the command.
Receive ==
    /\ channel # <<>>
    /\ channel' = Tail(channel)
    /\ IF Len(msgq) < MsgCap - 1
       THEN msgq' = Append(msgq, Head(channel)) /\ UNCHANGED dropped
       ELSE dropped' = dropped \cup {Head(channel).job} /\ UNCHANGED msgq
    /\ UNCHANGED <<ringQueues, ringq, agSeq, worker, slotsUsed, heads, dbSeq, results,
                   copies, dpuFaults, doorbell>>

Begin(w, msg) == worker' = [worker EXCEPT ![w] = [Idle EXCEPT !.at = "setup", !.msg = msg]]

\* The message thread executes the command itself.
TakeInline ==
    /\ ~ringQueues
    /\ worker[0] = Idle
    /\ msgq # <<>>
    /\ msgq' = Tail(msgq)
    /\ Begin(0, Head(msgq))
    /\ UNCHANGED <<ringQueues, dropped, ringq, agSeq, slotsUsed, heads, dbSeq, results,
                   copies, dpuFaults, channel, doorbell>>

DispatchBug ==            \* a mailbox instead of a queue
    LET msg == Head(msgq) IN
    /\ ringQueues
    /\ msgq # <<>>
    /\ msgq' = Tail(msgq)
    /\ IF msg.kind = "rs"
       THEN ringq' = [ringq EXCEPT ![0] = <<msg>>] /\ UNCHANGED agSeq
       ELSE ringq' = [ringq EXCEPT ![agSeq % 2] = <<msg>>] /\ agSeq' = agSeq + 1
    /\ UNCHANGED <<ringQueues, dropped, worker, slotsUsed, heads, dbSeq, results, copies,
                   dpuFaults, channel, doorbell>>

\* All-gathers alternate between the rings, reduce-scatters take ring 0.
Dispatch ==
    LET msg == Head(msgq) IN
    /\ ringQueues
    /\ msgq # <<>>
    /\ msgq' = Tail(msgq)
    /\ IF msg.kind = "rs"
       THEN ringq' = [ringq EXCEPT ![0] = Append(@, msg)] /\ UNCHANGED agSeq
       ELSE ringq' = [ringq EXCEPT ![agSeq % 2] = Append(@, msg)] /\ agSeq' = agSeq + 1
    /\ UNCHANGED <<ringQueues, dropped, worker, slotsUsed, heads, dbSeq, results, copies,
                   dpuFaults, channel, doorbell>>

\* ring_queue_pop_blocking in ring_proc_main.
TakeRing(w) ==
    /\ ringQueues
    /\ worker[w] = Idle
    /\ ringq[w] # <<>>
    /\ ringq' = [ringq EXCEPT ![w] = Tail(@)]
    /\ Begin(w, Head(ringq[w]))
    /\ UNCHANGED <<ringQueues, msgq, dropped, agSeq, slotsUsed, heads, dbSeq, results,
                   copies, dpuFaults, channel, doorbell>>

-----------------------------------------------------------------------------
(* execute_doca_collective_cmd on thread w.                                *)

OwnSlot(w) == worker[w].slot # -1
At(w, at)  == worker[w].at = at
Goto(w, at) == worker' = [worker EXCEPT ![w].at = at]

\* cw_buffer_pool_acquire takes the first free slot.
Setup(w) ==
    /\ At(w, "setup")
    /\ IF worker[w].msg.kind = "ag"
       THEN Goto(w, "run") /\ UNCHANGED slotsUsed
       ELSE \E s \in Slot \ slotsUsed :
              /\ \A t \in Slot \ slotsUsed : s <= t
              /\ slotsUsed' = slotsUsed \cup {s}
              /\ worker' = [worker EXCEPT ![w].at = "run", ![w].slot = s]
    /\ UNCHANGED <<ringQueues, msgq, dropped, ringq, agSeq, heads, dbSeq, results, copies,
                   dpuFaults, channel, doorbell>>

\* A remote_mem_create fails or the pool is empty: out_dec_inflight, with no
\* doorbell for the job.
SetupFails(w) ==
    /\ At(w, "setup")
    /\ worker[w].msg.kind # "ag"
    /\ Cardinality(dpuFaults) < MaxDpuFaults
    /\ dpuFaults' = dpuFaults \cup {<<"failed", worker[w].msg.job>>}
    /\ worker' = [worker EXCEPT ![w] = Idle]
    /\ UNCHANGED <<ringQueues, msgq, dropped, ringq, agSeq, slotsUsed, heads, dbSeq, results,
                   copies, channel, doorbell>>

\* The collective fills the staging buffer.
Fill(w) ==
    /\ At(w, "run")
    /\ heads' = IF OwnSlot(w)
                THEN [heads EXCEPT ![worker[w].slot] = Data(worker[w].msg.job)]
                ELSE heads
    /\ Goto(w, "filled")
    /\ UNCHANGED <<ringQueues, msgq, dropped, ringq, agSeq, slotsUsed, dbSeq, results,
                   copies, dpuFaults, channel, doorbell>>

\* Its last write to the destination.
Finish(w) ==
    LET j == worker[w].msg.job IN
    /\ At(w, "filled")
    /\ results' = results \cup
         {<<j, IF OwnSlot(w) THEN heads[worker[w].slot] ELSE Data(j)>>}
    /\ Goto(w, "count")
    /\ UNCHANGED <<ringQueues, msgq, dropped, ringq, agSeq, slotsUsed, heads, dbSeq,
                   copies, dpuFaults, channel, doorbell>>

\* cw->doorbell_seq++ is a load and a store: no lock, not atomic.
LoadSeq(w) ==
    /\ At(w, "count")
    /\ worker' = [worker EXCEPT ![w].at = "stage", ![w].tmp = dbSeq]
    /\ UNCHANGED <<ringQueues, msgq, dropped, ringq, agSeq, slotsUsed, heads, dbSeq, results,
                   copies, dpuFaults, channel, doorbell>>

Staging(w) == IF OwnSlot(w) THEN worker[w].slot ELSE 0

Stage(w) ==
    /\ At(w, "stage")
    /\ dbSeq' = worker[w].tmp + 1
    /\ heads' = [heads EXCEPT ![Staging(w)] = Count(worker[w].tmp + 1)]
    /\ Goto(w, "ring")
    /\ UNCHANGED <<ringQueues, msgq, dropped, ringq, agSeq, slotsUsed, results, copies,
                   dpuFaults, channel, doorbell>>

\* The NIC reads the staging buffer and writes the host's counter.  Data in the
\* place of the count is some number.
Doorbell(w) ==
    LET v == heads[Staging(w)] IN
    /\ At(w, "ring")
    /\ \E n \in 0 .. MaxSeq : (v[1] = "count" => n = v[2]) /\ doorbell' = n
    /\ Goto(w, "local")
    /\ UNCHANGED <<ringQueues, msgq, dropped, ringq, agSeq, slotsUsed, heads, dbSeq, results,
                   copies, dpuFaults, channel>>

\* The write fails and submit_and_wait_doca returns all the same.
DoorbellLost(w) ==
    /\ At(w, "ring")
    /\ Cardinality(dpuFaults) < MaxDpuFaults
    /\ dpuFaults' = dpuFaults \cup {<<"unrung", worker[w].msg.job>>}
    /\ Goto(w, "local")
    /\ UNCHANGED <<ringQueues, msgq, dropped, ringq, agSeq, slotsUsed, heads, dbSeq, results,
                   copies, channel, doorbell>>

\* The copy to the local CPU buffer, then the slot is released.
Leave(w) ==
    /\ At(w, "local")
    /\ copies' = IF worker[w].msg.kind = "agcpu"
                 THEN copies \cup {<<worker[w].msg.job, heads[worker[w].slot]>>}
                 ELSE copies
    /\ slotsUsed' = slotsUsed \ {worker[w].slot}
    /\ worker' = [worker EXCEPT ![w] = Idle]
    /\ UNCHANGED <<ringQueues, msgq, dropped, ringq, agSeq, heads, dbSeq, results,
                   dpuFaults, channel, doorbell>>

Execute(w) == \/ Setup(w) \/ SetupFails(w) \/ Fill(w) \/ Finish(w) \/ LoadSeq(w)
              \/ Stage(w) \/ Doorbell(w) \/ DoorbellLost(w) \/ Leave(w)

Worker(w) == TakeRing(w) \/ Execute(w)
DpuNext == Receive \/ TakeInline \/ Dispatch \/ \E w \in Ring : Worker(w)

-----------------------------------------------------------------------------
Word == {Count(n) : n \in 0 .. MaxSeq} \cup {Data(j) : j \in 1 .. MaxSeq}
Message == [job : 1 .. MaxSeq, kind : {"ag", "agcpu", "rs"}]

DpuTypeOK ==
    /\ channel \in Seq(Message) /\ msgq \in Seq(Message)
    /\ Len(msgq) < MsgCap
    /\ dropped \subseteq 1 .. MaxSeq
    /\ \A w \in Ring : /\ ringq[w] \in Seq(Message)
                       /\ worker[w].slot \in Slot \cup {-1}
                       /\ worker[w].tmp \in 0 .. MaxSeq
    /\ slotsUsed \subseteq Slot
    /\ heads \in [Slot -> Word]
    /\ agSeq \in 0 .. MaxSeq /\ dbSeq \in 0 .. MaxSeq /\ doorbell \in 0 .. MaxSeq
    /\ results \subseteq (1 .. MaxSeq) \X Word
    /\ copies \subseteq (1 .. MaxSeq) \X Word
=============================================================================
