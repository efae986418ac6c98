--------------------------- MODULE HostCollective ----------------------------
(***************************************************************************)
(* The host side of the collective offload, the last part of               *)
(* comch_client.c.  Callers enqueue jobs; the submit thread sends each as  *)
(* a command to the DPU and hands it to the completion thread through the  *)
(* inflight ring; the completion thread spins until the doorbell counter,  *)
(* which the DPU writes by RDMA, reaches the job's number, and marks the   *)
(* job completed.  A job is shared by its caller and the pipeline and is   *)
(* freed by whichever releases it last.                                    *)
(*                                                                         *)
(* channel and doorbell are shared with module DpuCollective; module       *)
(* CollectiveOffload composes the two.                                     *)
(***************************************************************************)
EXTENDS Integers, Sequences, FiniteSets

CONSTANTS Kinds,          \* the kinds of job, subset of {"ag", "agcpu", "rs"}
          InflightCap,    \* INFLIGHT_CAP
          MaxJobs,        \* bound: jobs enqueued
          MaxHostFaults   \* bound: submissions that go wrong

VARIABLES jobs,       \* jobs[j]: the j-th job enqueued
          caller,     \* caller[j]: what the caller has done with the handle
          hostq,      \* g_collective_q
          submitter,  \* where the submit thread is, and its job
          submitMtx,  \* g_impl_submit_mtx is locked
          submitSeq,  \* g_doorbell_submit_seq
          inflight,   \* g_inflight_ring
          completer,  \* where the completion thread is
          shutdown,   \* how far comch_client_shutdown is
          hostFaults, \* <<what, job>> for each submission that went wrong
          channel,    \* commands sent over ComCh and not yet received
          doorbell    \* the counter in host memory

Job == 1 .. Len(jobs)
Stopping == shutdown # "no"            \* g_collective_stop

HostInit ==
    /\ jobs = <<>> /\ caller = <<>> /\ hostq = <<>> /\ inflight = <<>>
    /\ submitter = [at |-> "idle", job |-> 0]
    /\ submitMtx = FALSE
    /\ submitSeq = 0
    /\ completer = "check"
    /\ shutdown = "no"
    /\ hostFaults = {}

-----------------------------------------------------------------------------
(* The callers.                                                            *)

\* ucp_collective_enqueue_u64_with_flag; the host does not enqueue while it
\* shuts down.
Enqueue(kind) ==
    /\ Len(jobs) < MaxJobs
    /\ ~Stopping
    /\ jobs' = Append(jobs, [kind |-> kind, seq |-> 0, ok |-> TRUE,
                             completed |-> FALSE, refcnt |-> 2])
    /\ caller' = Append(caller, "holds")
    /\ hostq' = Append(hostq, Len(jobs) + 1)
    /\ UNCHANGED <<submitter, submitMtx, submitSeq, inflight, completer,
                   shutdown, hostFaults, channel, doorbell>>

\* comch_req_release_u64.  A caller that waits (comch_req_wait_u64, which only
\* reads completed and ok) releases after that; one that synchronises through the
\* GPU flag, or drops the handle, releases at any time.
Release(j) ==
    /\ caller[j] # "gone"
    /\ caller' = [caller EXCEPT ![j] = "gone"]
    /\ jobs' = [jobs EXCEPT ![j].refcnt = @ - 1]
    /\ UNCHANGED <<hostq, submitter, submitMtx, submitSeq, inflight,
                   completer, shutdown, hostFaults, channel, doorbell>>

-----------------------------------------------------------------------------
(* The submit thread, collective_submit_main.                              *)

SubmitPop ==
    /\ submitter.at = "idle"
    /\ ~Stopping
    /\ hostq # <<>>
    /\ submitter' = [at |-> "impl", job |-> Head(hostq)]
    /\ hostq' = Tail(hostq)
    /\ UNCHANGED <<jobs, caller, submitMtx, submitSeq, inflight, completer,
                   shutdown, hostFaults, channel, doorbell>>

SubmitExit ==
    /\ submitter.at = "idle"
    /\ Stopping
    /\ submitter' = [at |-> "exited", job |-> 0]
    /\ UNCHANGED <<jobs, caller, hostq, submitMtx, submitSeq, inflight, completer,
                   shutdown, hostFaults, channel, doorbell>>

\* ucp_collective_request_impl up to the send: lock, export the memory, send
\* the command.  A send that ends in the error callback returns DOCA_SUCCESS.
SubmitSend ==
    LET j == submitter.job IN
    /\ submitter.at = "impl"
    /\ ~submitMtx
    /\ submitMtx' = TRUE
    /\ \/ /\ channel' = Append(channel, [job |-> j, kind |-> jobs[j].kind])
          /\ UNCHANGED hostFaults
       \/ /\ Cardinality(hostFaults) < MaxHostFaults
          /\ hostFaults' = hostFaults \cup {<<"unsent", j>>}
          /\ UNCHANGED channel
    /\ submitter' = [submitter EXCEPT !.at = "number"]
    /\ UNCHANGED <<jobs, caller, hostq, submitSeq, inflight, completer, shutdown, doorbell>>

\* ucp_collective_request_impl fails before the send.  The paths that register
\* a local CPU buffer return without unlocking.
SubmitFails ==
    LET j == submitter.job IN
    /\ submitter.at = "impl"
    /\ ~submitMtx
    /\ Cardinality(hostFaults) < MaxHostFaults
    /\ \/ submitMtx' = FALSE /\ hostFaults' = hostFaults \cup {<<"refused", j>>}
       \/ /\ jobs[j].kind = "agcpu"
          /\ submitMtx' = TRUE
          /\ hostFaults' = hostFaults \cup {<<"stranded", j>>}
    /\ jobs' = [jobs EXCEPT ![j].ok = FALSE]
    /\ submitter' = [submitter EXCEPT !.at = "push"]
    /\ UNCHANGED <<caller, hostq, submitSeq, inflight, completer, shutdown, channel, doorbell>>

\* The job gets its number and the mutex is unlocked.
SubmitNumber ==
    /\ submitter.at = "number"
    /\ submitSeq' = submitSeq + 1
    /\ jobs' = [jobs EXCEPT ![submitter.job].seq = submitSeq + 1]
    /\ submitMtx' = FALSE
    /\ submitter' = [submitter EXCEPT !.at = "push"]
    /\ UNCHANGED <<caller, hostq, inflight, completer, shutdown, hostFaults, channel, doorbell>>

SubmitPushBug ==          \* without the wait for room
    /\ submitter.at = "push"
    /\ inflight' = Append(inflight, submitter.job)
    /\ submitter' = [at |-> "signal", job |-> 0]
    /\ UNCHANGED <<jobs, caller, hostq, submitMtx, submitSeq, completer,
                   shutdown, hostFaults, channel, doorbell>>

\* Into the inflight ring once there is room; the job is now the completer's.
SubmitPush ==
    /\ submitter.at = "push"
    /\ Len(inflight) < InflightCap
    /\ inflight' = Append(inflight, submitter.job)
    /\ submitter' = [at |-> "signal", job |-> 0]
    /\ UNCHANGED <<jobs, caller, hostq, submitMtx, submitSeq, completer,
                   shutdown, hostFaults, channel, doorbell>>

SubmitSignalBug ==        \* nobody is woken
    /\ submitter.at = "signal"
    /\ submitter' = [submitter EXCEPT !.at = "idle"]
    /\ UNCHANGED <<jobs, caller, hostq, submitMtx, submitSeq, inflight, completer,
                   shutdown, hostFaults, channel, doorbell>>

\* Wake the completion thread, after the push.
SubmitSignal ==
    /\ submitter.at = "signal"
    /\ completer' = IF completer = "asleep" THEN "locked" ELSE completer
    /\ submitter' = [submitter EXCEPT !.at = "idle"]
    /\ UNCHANGED <<jobs, caller, hostq, submitMtx, submitSeq, inflight,
                   shutdown, hostFaults, channel, doorbell>>

Submitter == \/ SubmitPop \/ SubmitExit \/ SubmitSend \/ SubmitFails
             \/ SubmitNumber \/ SubmitPush \/ SubmitSignal

-----------------------------------------------------------------------------
(* The completion thread, collective_completion_main.                      *)

\* while (!g_collective_stop).
CompleterCheck ==
    /\ completer = "check"
    /\ completer' = IF Stopping THEN "exited" ELSE "look"
    /\ UNCHANGED <<jobs, caller, hostq, submitter, submitMtx, submitSeq, inflight,
                   shutdown, hostFaults, channel, doorbell>>

\* Is the ring empty?  Tested without the mutex, and without the stop flag.
CompleterLook ==
    /\ completer = "look"
    /\ completer' = IF inflight = <<>> THEN "locked" ELSE "spin"
    /\ UNCHANGED <<jobs, caller, hostq, submitter, submitMtx, submitSeq, inflight,
                   shutdown, hostFaults, channel, doorbell>>

\* Under g_inflight_mtx: the test and pthread_cond_wait are one step.
CompleterSleep ==
    /\ completer = "locked"
    /\ inflight = <<>> /\ ~Stopping
    /\ completer' = "asleep"
    /\ UNCHANGED <<jobs, caller, hostq, submitter, submitMtx, submitSeq, inflight,
                   shutdown, hostFaults, channel, doorbell>>

CompleterAwake ==
    /\ completer = "locked"
    /\ inflight # <<>> \/ Stopping
    /\ completer' = IF Stopping THEN "exited" ELSE "spin"
    /\ UNCHANGED <<jobs, caller, hostq, submitter, submitMtx, submitSeq, inflight,
                   shutdown, hostFaults, channel, doorbell>>

RungBug(j) == doorbell + 1 >= jobs[j].seq

\* The test the completion thread spins on.  A job that failed in the submit
\* thread has number 0.
Rung(j) == doorbell >= jobs[j].seq

\* The spin ends: completed = 1 and a broadcast.
CompleterMark ==
    /\ completer = "spin"
    /\ Rung(Head(inflight))
    /\ jobs' = [jobs EXCEPT ![Head(inflight)].completed = TRUE]
    /\ completer' = "pop"
    /\ UNCHANGED <<caller, hostq, submitter, submitMtx, submitSeq, inflight,
                   shutdown, hostFaults, channel, doorbell>>

CompleterPopBug ==        \* released at the mark as well
    /\ completer = "pop"
    /\ inflight' = Tail(inflight)
    /\ jobs' = [jobs EXCEPT ![Head(inflight)].refcnt = @ - 2]
    /\ completer' = "check"
    /\ UNCHANGED <<caller, hostq, submitter, submitMtx, submitSeq,
                   shutdown, hostFaults, channel, doorbell>>

\* g_inflight_head++ and collective_job_release.
CompleterPop ==
    /\ completer = "pop"
    /\ inflight' = Tail(inflight)
    /\ jobs' = [jobs EXCEPT ![Head(inflight)].refcnt = @ - 1]
    /\ completer' = "check"
    /\ UNCHANGED <<caller, hostq, submitter, submitMtx, submitSeq,
                   shutdown, hostFaults, channel, doorbell>>

Completer == \/ CompleterCheck \/ CompleterLook \/ CompleterSleep
             \/ CompleterAwake \/ CompleterMark \/ CompleterPop

-----------------------------------------------------------------------------
(* comch_client_shutdown: stop flag, broadcast, join.                      *)

ShutdownStop ==
    /\ shutdown = "no"
    /\ shutdown' = "stop"
    /\ UNCHANGED <<jobs, caller, hostq, submitter, submitMtx, submitSeq, inflight,
                   completer, hostFaults, channel, doorbell>>

ShutdownWakeBug ==        \* only the submit thread is woken
    /\ shutdown = "stop"
    /\ shutdown' = "woken"
    /\ UNCHANGED <<jobs, caller, hostq, submitter, submitMtx, submitSeq, inflight,
                   completer, hostFaults, channel, doorbell>>

ShutdownWake ==
    /\ shutdown = "stop"
    /\ shutdown' = "woken"
    /\ completer' = IF completer = "asleep" THEN "locked" ELSE completer
    /\ UNCHANGED <<jobs, caller, hostq, submitter, submitMtx, submitSeq, inflight,
                   hostFaults, channel, doorbell>>

ShutdownJoin ==
    /\ shutdown = "woken"
    /\ submitter.at = "exited" /\ completer = "exited"
    /\ shutdown' = "joined"
    /\ UNCHANGED <<jobs, caller, hostq, submitter, submitMtx, submitSeq, inflight,
                   completer, hostFaults, channel, doorbell>>

Shutdown == ShutdownStop \/ ShutdownWake \/ ShutdownJoin

HostNext == \/ \E kind \in Kinds : Enqueue(kind)
            \/ \E j \in Job : Release(j)
            \/ Submitter \/ Completer \/ Shutdown

-----------------------------------------------------------------------------
HostTypeOK ==
    /\ jobs \in Seq([kind : Kinds, seq : 0 .. MaxJobs, ok : BOOLEAN,
                     completed : BOOLEAN, refcnt : 0 .. 2])
    /\ caller \in Seq({"holds", "gone"}) /\ Len(caller) = Len(jobs)
    /\ hostq \in Seq(Job) /\ inflight \in Seq(Job)
    /\ submitter.at \in {"idle", "impl", "number", "push", "signal", "exited"}
    /\ submitter.job \in {0} \cup Job
    /\ submitMtx \in BOOLEAN /\ submitSeq \in 0 .. MaxJobs
    /\ completer \in {"check", "look", "locked", "asleep", "spin", "pop", "exited"}
    /\ shutdown \in {"no", "stop", "woken", "joined"}
    /\ hostFaults \subseteq ({"unsent", "refused", "stranded"} \X Job)

\* The job is somewhere between enqueue and collective_job_release.
InSeq(x, s) == \E i \in 1 .. Len(s) : s[i] = x
InPipeline(j) == InSeq(j, hostq) \/ submitter.job = j \/ InSeq(j, inflight)

\* The reference count is the number of its users, so a job is freed when the
\* last of them lets go: never before, and always then.
RefCounted ==
    \A j \in Job :
        jobs[j].refcnt = (IF caller[j] = "gone" THEN 0 ELSE 1)
                         + (IF InPipeline(j) THEN 1 ELSE 0)
=============================================================================
