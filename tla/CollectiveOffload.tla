-------------------------- MODULE CollectiveOffload --------------------------
(***************************************************************************)
(* A collective from the enqueue on the host to the completion of its job: *)
(* HostCollective and DpuCollective composed over the ComCh channel, which *)
(* keeps the order of the commands, and the doorbell counter.  A job never *)
(* carries an answer of its own: job n is complete when the counter has    *)
(* reached n, whoever rang.                                                *)
(***************************************************************************)
EXTENDS Integers, Sequences, FiniteSets

CONSTANTS Kinds, InflightCap, MaxJobs, MaxHostFaults,
          RingModes, MsgCap, MaxDpuFaults

\* A circular queue keeps one of its MSG_QUEUE_CAP entries free.
ASSUME OffloadAssumption ==
    /\ Kinds \subseteq {"ag", "agcpu", "rs"} /\ RingModes \subseteq BOOLEAN
    /\ InflightCap \in Nat \ {0} /\ MsgCap \in Nat \ {0, 1}
    /\ MaxJobs \in Nat /\ MaxHostFaults \in Nat /\ MaxDpuFaults \in Nat

VARIABLES jobs, caller, hostq, submitter, submitMtx, submitSeq, inflight,
          completer, shutdown, hostFaults,
          ringQueues, msgq, dropped, ringq, agSeq, worker, slotsUsed, heads, dbSeq,
          results, copies, dpuFaults,
          channel, doorbell

Host == INSTANCE HostCollective
Dpu  == INSTANCE DpuCollective WITH MaxSeq <- MaxJobs

hostVars == <<jobs, caller, hostq, submitter, submitMtx, submitSeq, inflight,
              completer, shutdown, hostFaults>>
dpuVars  == <<ringQueues, msgq, dropped, ringq, agSeq, worker, slotsUsed, heads, dbSeq,
              results, copies, dpuFaults>>
vars == <<hostVars, dpuVars, channel, doorbell>>

Init == /\ Host!HostInit /\ Dpu!DpuInit
        /\ channel = <<>> /\ doorbell = 0

Next == \/ Host!HostNext /\ UNCHANGED dpuVars
        \/ Dpu!DpuNext /\ UNCHANGED hostVars

Spec == Init /\ [][Next]_vars

\* Some thread that can go on does: every thread loops a bounded number of times
\* in this model, so this is enough, and less than a fair scheduler gives.  The
\* callers do what they like, and a shutdown that has begun goes on.
HostStep == Host!Submitter \/ Host!Completer \/ Host!ShutdownWake \/ Host!ShutdownJoin

Fairness == WF_vars(\/ HostStep /\ UNCHANGED dpuVars
                    \/ Dpu!DpuNext /\ UNCHANGED hostVars)

FairSpec == Spec /\ Fairness

-----------------------------------------------------------------------------
TypeOK == Host!HostTypeOK /\ Dpu!DpuTypeOK

\* The reference count of a job is the number of its users.
RefCounted == Host!RefCounted

Faulty(what) == \E j \in 1 .. MaxJobs : <<what, j>> \in hostFaults \cup dpuFaults

\* With the ring threads off, a job that its caller sees completed with
\* DOCA_SUCCESS has been executed and its own data delivered, as long as no
\* command was lost on the way and none failed on the DPU: the n-th ring is then
\* that of the n-th command.  Refused submissions and lost doorbells are allowed.
Delivered(j) == <<j, Dpu!Data(j)>> \in results

CompletedMeansDone ==
    ~ringQueues /\ ~Faulty("unsent") /\ ~Faulty("failed") =>
        \A j \in 1 .. Len(jobs) : jobs[j].completed /\ jobs[j].ok => Delivered(j)

\* The message queue of the DPU never overflows: the inflight ring of the host
\* lets fewer commands be outstanding than the queue has room for.
NeverDropped == ~ringQueues => dropped = {}

\* Every job completes, unless a command was lost or failed, a doorbell was
\* lost, a failed submission kept the mutex, or the client shuts down.
NothingLost == dpuFaults = {} /\ ~Faulty("unsent") /\ ~Faulty("stranded")

JobsComplete ==
    [](~ringQueues /\ NothingLost /\ shutdown = "no") =>
        \A j \in 1 .. MaxJobs :
            (Len(jobs) >= j) ~> (Len(jobs) >= j /\ jobs[j].completed)

\* Every job that the submit thread takes on is executed or refused, in either
\* mode and whatever the doorbell shows.
Refused(j) == j \in 1 .. Len(jobs) /\ ~jobs[j].ok

JobsExecuted ==
    [](~Faulty("unsent") /\ ~Faulty("stranded") /\ ~Faulty("failed") /\ dropped = {}) =>
        \A j \in 1 .. MaxJobs :
            (submitter.job = j) ~> (Refused(j) \/ \E v \in Dpu!Word : <<j, v>> \in results)

\* comch_client_shutdown returns, with jobs queued or in flight, unless a job in
\* flight waits for a doorbell that never comes or the inflight ring is full,
\* when the completion thread may leave first and the submit thread waits for
\* room for ever.
ShutdownReturns ==
    [](~ringQueues /\ NothingLost /\ (shutdown # "no" => Len(inflight) < InflightCap)) =>
        ((shutdown # "no") ~> (shutdown = "joined"))
=============================================================================
