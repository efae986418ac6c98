---------------------------- MODULE OffloadProofs ----------------------------
(***************************************************************************)
(* Proofs about the path of a job through host and DPU, for any number of  *)
(* jobs, faults and releases: the reference count of a job is the number   *)
(* of its users, and the types and bounds hold, in either mode of the DPU; *)
(* and with the ring threads off no command is dropped, and a job seen     *)
(* complete has been executed.                                             *)
(***************************************************************************)
EXTENDS CollectiveOffload, SequenceTheorems, TLAPS

Handle == {"holds", "gone"}
JobKind == {"ag", "agcpu", "rs"}
JobRec == [kind : JobKind, seq : Nat, ok : BOOLEAN, completed : BOOLEAN, refcnt : Int]
Cmd == [job : Nat, kind : JobKind]

-----------------------------------------------------------------------------
(* The host: the jobs are in the pipeline in the order of their enqueueing.  *)

HostTypes ==
    /\ jobs \in Seq(JobRec) /\ Len(jobs) <= MaxJobs
    /\ caller \in Seq(Handle) /\ Len(caller) = Len(jobs)
    /\ hostq \in Seq(Nat) /\ inflight \in Seq(Nat) /\ channel \in Seq(Cmd)
    /\ submitter \in [at : {"idle", "impl", "number", "push", "signal", "exited"}, job : Nat]
    /\ submitSeq \in Nat
    /\ Len(inflight) <= InflightCap

\* Jobs with the submit thread, and jobs that have left the pipeline.
Busy == IF submitter.job = 0 THEN 0 ELSE 1
Freed == Len(jobs) - Len(hostq) - Busy - Len(inflight)

Order ==
    /\ Freed \in Nat
    /\ \A i \in 1 .. Len(inflight) : inflight[i] = Freed + i
    /\ \A i \in 1 .. Len(hostq) : hostq[i] = Len(jobs) - Len(hostq) + i
    /\ submitter.job # 0 => submitter.job = Freed + Len(inflight) + 1
    /\ submitter.job # 0 <=> submitter.at \in {"impl", "number", "push"}
    /\ completer \in {"spin", "pop"} => Len(inflight) > 0

\* Whoever can still reach the job has a reference.
Counted ==
    \A j \in 1 .. Len(jobs) :
        jobs[j].refcnt = (IF caller[j] = "gone" THEN 0 ELSE 1) + (IF j > Freed THEN 1 ELSE 0)

HostInv == HostTypes /\ Order /\ Counted

\* An assignment to one job.
LEMMA JobUpdate ==
  ASSUME jobs \in Seq(JobRec), NEW j \in 1 .. Len(jobs), NEW r \in JobRec,
         jobs' = [jobs EXCEPT ![j] = r]
  PROVE  /\ jobs' \in Seq(JobRec) /\ Len(jobs') = Len(jobs)
         /\ \A i \in 1 .. Len(jobs) : jobs'[i] = IF i = j THEN r ELSE jobs[i]
  BY ExceptSeq

\* The positions of a queue with one more element.
LEMMA OneMore ==
  ASSUME NEW S, NEW q \in Seq(S)
  PROVE  \A i \in 1 .. Len(q) + 1 : i \in 1 .. Len(q) \/ i = Len(q) + 1
  OBVIOUS

\* A queue without its first element.
LEMMA Popped ==
  ASSUME NEW S, NEW q \in Seq(S), q # <<>>
  PROVE  /\ Tail(q) \in Seq(S) /\ Len(q) \in Nat /\ Len(q) > 0 /\ Len(Tail(q)) = Len(q) - 1
         /\ Head(q) = q[1] /\ q[1] \in S
         /\ \A i \in 1 .. Len(q) - 1 : Tail(q)[i] = q[i + 1]
  BY HeadTailProperties

\* A queue with one more element.
LEMMA Pushed ==
  ASSUME NEW S, NEW q \in Seq(S), NEW e \in S
  PROVE  /\ Append(q, e) \in Seq(S) /\ Len(q) \in Nat /\ Len(Append(q, e)) = Len(q) + 1
         /\ Append(q, e)[Len(q) + 1] = e
         /\ \A i \in 1 .. Len(q) : Append(q, e)[i] = q[i]
  OBVIOUS


\* A step that keeps the references, the callers and what has left the pipeline.
LEMMA CountedKept ==
  ASSUME Counted, Freed' = Freed, caller' = caller, Len(jobs') = Len(jobs),
         \A j \in 1 .. Len(jobs) : jobs'[j].refcnt = jobs[j].refcnt
  PROVE  Counted'
  BY DEF Counted

\* The invariant of the host holds before the first job.
LEMMA InitHost == Init => HostInv
  BY OffloadAssumption DEF Init, Host!HostInit, HostInv, HostTypes, Order, Counted, Busy, Freed

\* A caller enqueues a job.
LEMMA EnqueueHost == ASSUME HostInv, NEW kind \in Kinds, Host!Enqueue(kind) PROVE HostInv'
  <1> USE DEF HostInv
  <1> DEFINE job == [kind |-> kind, seq |-> 0, ok |-> TRUE, completed |-> FALSE, refcnt |-> 2]
  <1>1. /\ jobs' = Append(jobs, job) /\ caller' = Append(caller, "holds")
        /\ hostq' = Append(hostq, Len(jobs) + 1) /\ Len(jobs) < MaxJobs
        /\ UNCHANGED <<submitter, submitSeq, inflight, completer, channel>>
    BY DEF Host!Enqueue
  <1>2. job \in JobRec
    BY OffloadAssumption DEF JobRec, JobKind
  <1> HIDE DEF job
  <1>3. /\ jobs' \in Seq(JobRec) /\ Len(jobs') = Len(jobs) + 1 /\ jobs'[Len(jobs) + 1] = job
        /\ \A j \in 1 .. Len(jobs) : jobs'[j] = jobs[j]
    BY <1>1, <1>2, Pushed DEF HostTypes
  <1>4. /\ hostq' \in Seq(Nat) /\ Len(hostq') = Len(hostq) + 1 /\ hostq'[Len(hostq) + 1] = Len(jobs) + 1
        /\ \A j \in 1 .. Len(hostq) : hostq'[j] = hostq[j]
    BY <1>1, Pushed DEF HostTypes
  <1>5. /\ caller' \in Seq(Handle) /\ Len(caller') = Len(caller) + 1
        /\ caller'[Len(caller) + 1] = "holds"
        /\ \A j \in 1 .. Len(caller) : caller'[j] = caller[j]
    <2>1. caller \in Seq(Handle) /\ "holds" \in Handle
      BY DEF HostTypes, Handle
    <2> QED BY <2>1, <1>1, Pushed
  <1>6. HostTypes'
    BY <1>1, <1>3, <1>4, <1>5, OffloadAssumption DEF HostTypes
  <1>7. Busy' = Busy /\ Freed' = Freed /\ Freed \in Nat /\ Busy \in Nat
    BY <1>1, <1>3, <1>4 DEF HostTypes, Busy, Freed, Order
  <1>8. \A i \in 1 .. Len(hostq') : hostq'[i] = Len(jobs') - Len(hostq') + i
    <2>1. Len(jobs') - Len(hostq') = Len(jobs) - Len(hostq)
      BY <1>3, <1>4 DEF HostTypes
    <2>2. \A i \in 1 .. Len(hostq) : hostq'[i] = Len(jobs) - Len(hostq) + i
      BY <1>4 DEF Order
    <2>3. hostq'[Len(hostq) + 1] = Len(jobs) - Len(hostq) + (Len(hostq) + 1)
      BY <1>4 DEF HostTypes
    <2>4. \A i \in 1 .. Len(hostq) + 1 : i \in 1 .. Len(hostq) \/ i = Len(hostq) + 1
      BY OneMore DEF HostTypes
    <2> QED BY <2>1, <2>2, <2>3, <2>4, <1>4
  <1>9. Order'
    BY <1>1, <1>7, <1>8 DEF HostTypes, Order
  <1>10. Len(jobs) + 1 > Freed
    BY <1>7 DEF Freed, HostTypes
  <1>11. job.refcnt = 2
    BY DEF job
  <1>12. Counted'
    <2> SUFFICES ASSUME NEW j \in 1 .. Len(jobs) + 1
                 PROVE  jobs'[j].refcnt = (IF caller'[j] = "gone" THEN 0 ELSE 1)
                                          + (IF j > Freed THEN 1 ELSE 0)
      BY <1>3, <1>7 DEF Counted
    <2>1. CASE j \in 1 .. Len(jobs)
      BY <2>1, <1>3, <1>5 DEF Counted, HostTypes
    <2>2. CASE j = Len(jobs) + 1
      <3>1. jobs'[j].refcnt = 2 /\ caller'[j] = "holds" /\ j > Freed
        BY <2>2, <1>3, <1>5, <1>10, <1>11 DEF HostTypes
      <3> QED BY <3>1
    <2> QED BY <2>1, <2>2, OneMore DEF HostTypes
  <1> QED BY <1>6, <1>9, <1>12

\* A caller releases a job.
LEMMA ReleaseHost == ASSUME HostInv, NEW c \in 1 .. Len(jobs), Host!Release(c) PROVE HostInv'
  <1> USE DEF HostInv
  <1> DEFINE job == [jobs[c] EXCEPT !.refcnt = @ - 1]
  <1>1. /\ jobs' = [jobs EXCEPT ![c] = job] /\ caller' = [caller EXCEPT ![c] = "gone"]
        /\ caller[c] # "gone"
        /\ UNCHANGED <<hostq, submitter, submitSeq, inflight, completer, channel>>
    BY DEF Host!Release
  <1>2. jobs[c] \in JobRec
    BY DEF HostTypes
  <1>3. job \in JobRec /\ job.refcnt = jobs[c].refcnt - 1
    BY <1>2 DEF JobRec
  <1> HIDE DEF job
  <1>4. /\ jobs' \in Seq(JobRec) /\ Len(jobs') = Len(jobs)
        /\ \A j \in 1 .. Len(jobs) : jobs'[j] = IF j = c THEN job ELSE jobs[j]
    BY <1>1, <1>3, JobUpdate DEF HostTypes
  <1>5. /\ caller' \in Seq(Handle) /\ Len(caller') = Len(caller)
        /\ \A j \in 1 .. Len(caller) : caller'[j] = IF j = c THEN "gone" ELSE caller[j]
    <2>1. caller \in Seq(Handle) /\ "gone" \in Handle /\ c \in 1 .. Len(caller)
      BY DEF HostTypes, Handle
    <2> QED BY <2>1, <1>1, ExceptSeq
  <1>6. HostTypes'
    BY <1>1, <1>4, <1>5 DEF HostTypes
  <1>7. Busy' = Busy /\ Freed' = Freed
    BY <1>1, <1>4 DEF Busy, Freed
  <1>8. Order'
    BY <1>1, <1>4, <1>7 DEF Order
  <1>9. Counted'
    <2> SUFFICES ASSUME NEW j \in 1 .. Len(jobs)
                 PROVE  jobs'[j].refcnt = (IF caller'[j] = "gone" THEN 0 ELSE 1)
                                          + (IF j > Freed THEN 1 ELSE 0)
      BY <1>4, <1>7 DEF Counted
    <2>1. jobs[j].refcnt = (IF caller[j] = "gone" THEN 0 ELSE 1) + (IF j > Freed THEN 1 ELSE 0)
      BY DEF Counted
    <2>2. CASE j = c
      BY <2>1, <2>2, <1>1, <1>3, <1>4, <1>5 DEF HostTypes
    <2>3. CASE j # c
      BY <2>1, <2>3, <1>4, <1>5 DEF HostTypes
    <2> QED BY <2>2, <2>3
  <1> QED BY <1>6, <1>8, <1>9

\* The submit thread has a job, the first that is neither in flight nor freed.
LEMMA SubmitterJob ==
  ASSUME HostInv, submitter.at \in {"impl", "number", "push"}
  PROVE  /\ submitter.job \in 1 .. Len(jobs)
         /\ submitter.job = Freed + Len(inflight) + 1
         /\ submitter.job = Len(jobs) - Len(hostq)
         /\ Busy = 1 /\ jobs[submitter.job] \in JobRec
  <1>1. Busy = 1 /\ submitter.job = Freed + Len(inflight) + 1
    BY DEF HostInv, Order, Busy
  <1>2. Freed + Len(inflight) + 1 = Len(jobs) - Len(hostq)
    BY <1>1 DEF HostInv, HostTypes, Freed
  <1>3. submitter.job \in 1 .. Len(jobs)
    BY <1>1, <1>2 DEF HostInv, HostTypes, Order
  <1> QED BY <1>1, <1>2, <1>3 DEF HostInv, HostTypes

\* The submit thread changes a job and goes on.
LEMMA SubmitterHost ==
  ASSUME HostInv, submitter.at \in {"impl", "number"}, NEW r \in JobRec,
         r.refcnt = jobs[submitter.job].refcnt,
         jobs' = [jobs EXCEPT ![submitter.job] = r],
         NEW at \in {"number", "push"}, submitter' = [submitter EXCEPT !.at = at],
         channel' \in Seq(Cmd), submitSeq' \in Nat,
         UNCHANGED <<caller, hostq, inflight, completer>>
  PROVE  HostInv'
  <1> USE DEF HostInv
  <1>1. /\ jobs' \in Seq(JobRec) /\ Len(jobs') = Len(jobs)
        /\ \A j \in 1 .. Len(jobs) : jobs'[j] = IF j = submitter.job THEN r ELSE jobs[j]
    BY SubmitterJob, JobUpdate DEF HostTypes
  <1>2. /\ submitter' \in [at : {"idle", "impl", "number", "push", "signal", "exited"}, job : Nat]
        /\ submitter'.job = submitter.job /\ submitter'.at = at
    BY DEF HostTypes
  <1>3. HostTypes'
    BY <1>1, <1>2 DEF HostTypes
  <1>4. Busy' = Busy /\ Freed' = Freed
    BY <1>1, <1>2 DEF Busy, Freed
  <1>5. Order'
    BY <1>1, <1>2, <1>4 DEF Order
  <1>6. Counted'
    BY <1>1, <1>4, CountedKept
  <1> QED BY <1>3, <1>5, <1>6

\* The steps of the submit thread.
LEMMA SubmitHost == ASSUME HostInv, Host!Submitter PROVE HostInv'
  <1> USE DEF HostInv
  <1>1. CASE Host!SubmitPop
    <2>1. /\ submitter.at = "idle" /\ hostq # <<>>
          /\ submitter' = [at |-> "impl", job |-> Head(hostq)] /\ hostq' = Tail(hostq)
          /\ UNCHANGED <<jobs, caller, submitSeq, inflight, completer, channel>>
      BY <1>1 DEF Host!SubmitPop
    <2>2. /\ hostq' \in Seq(Nat) /\ Len(hostq') = Len(hostq) - 1 /\ Len(hostq) \in Nat /\ Len(hostq) > 0
          /\ Head(hostq) = hostq[1] /\ \A i \in 1 .. Len(hostq) - 1 : hostq'[i] = hostq[i + 1]
      BY <2>1, Popped DEF HostTypes
    <2>3. submitter.job = 0 /\ Busy = 0
      BY <2>1 DEF Order, Busy, HostTypes
    <2>4. Head(hostq) = Freed + Len(inflight) + 1 /\ Head(hostq) \in Nat /\ Head(hostq) # 0
      BY <2>2, <2>3 DEF Order, Freed, HostTypes
    <2>5. Busy' = 1 /\ Freed' = Freed
      BY <2>1, <2>2, <2>3, <2>4 DEF Busy, Freed, HostTypes
    <2>6. HostTypes'
      BY <2>1, <2>2, <2>4 DEF HostTypes
    <2>7. \A i \in 1 .. Len(hostq') : hostq'[i] = Len(jobs') - Len(hostq') + i
      BY <2>1, <2>2 DEF Order, HostTypes
    <2>8. Order'
      BY <2>1, <2>4, <2>5, <2>7 DEF Order
    <2>9. Counted'
      BY <2>1, <2>5, CountedKept
    <2> QED BY <2>6, <2>8, <2>9
  <1>2. CASE Host!SubmitExit \/ Host!SubmitSignal
    <2>1. /\ submitter.at \in {"idle", "signal"} /\ submitter'.at \in {"idle", "exited"} /\ submitter'.job = 0
          /\ submitter' \in [at : {"idle", "impl", "number", "push", "signal", "exited"}, job : Nat]
          /\ submitter.job = 0
      BY <1>2 DEF Host!SubmitExit, Host!SubmitSignal, HostTypes, Order
    <2>2. UNCHANGED <<jobs, caller, hostq, submitSeq, inflight, channel>>
      BY <1>2 DEF Host!SubmitExit, Host!SubmitSignal
    <2>3. completer' \in {"spin", "pop"} => completer' = completer
      BY <1>2 DEF Host!SubmitExit, Host!SubmitSignal
    <2>4. Busy' = Busy /\ Freed' = Freed
      BY <2>1, <2>2 DEF Busy, Freed
    <2>5. HostTypes' /\ Order'
      BY <2>1, <2>2, <2>3, <2>4 DEF HostTypes, Order
    <2> QED BY <2>2, <2>4, <2>5, CountedKept
  <1>3. CASE Host!SubmitSend
    <2>1. /\ submitter.at = "impl" /\ submitter' = [submitter EXCEPT !.at = "number"]
          /\ UNCHANGED <<jobs, caller, hostq, submitSeq, inflight, completer>>
          /\ \/ channel' = Append(channel, [job |-> submitter.job, kind |-> jobs[submitter.job].kind])
             \/ channel' = channel
      BY <1>3 DEF Host!SubmitSend
    <2>2. jobs[submitter.job] \in JobRec /\ submitter.job \in 1 .. Len(jobs)
      BY <2>1, SubmitterJob
    <2>3. [job |-> submitter.job, kind |-> jobs[submitter.job].kind] \in Cmd
      BY <2>2 DEF Cmd, JobRec, HostTypes
    <2>4. channel' \in Seq(Cmd)
      <3>1. channel \in Seq(Cmd)
        BY DEF HostTypes
      <3>2. Append(channel, [job |-> submitter.job, kind |-> jobs[submitter.job].kind]) \in Seq(Cmd)
        BY <3>1, <2>3, Pushed
      <3> QED BY <3>1, <3>2, <2>1
    <2>5. jobs' = [jobs EXCEPT ![submitter.job] = jobs[submitter.job]]
      BY <2>1, <2>2 DEF HostTypes
    <2> QED BY <2>1, <2>2, <2>4, <2>5, SubmitterHost DEF HostTypes
  <1>4. CASE Host!SubmitFails
    <2> DEFINE r == [jobs[submitter.job] EXCEPT !.ok = FALSE]
    <2>1. /\ submitter.at = "impl" /\ submitter' = [submitter EXCEPT !.at = "push"]
          /\ jobs' = [jobs EXCEPT ![submitter.job] = r]
          /\ UNCHANGED <<caller, hostq, submitSeq, inflight, completer, channel>>
      BY <1>4 DEF Host!SubmitFails
    <2>2. r \in JobRec /\ r.refcnt = jobs[submitter.job].refcnt
      BY <2>1, SubmitterJob DEF JobRec
    <2> HIDE DEF r
    <2> QED BY <2>1, <2>2, SubmitterHost DEF HostTypes
  <1>5. CASE Host!SubmitNumber
    <2> DEFINE r == [jobs[submitter.job] EXCEPT !.seq = submitSeq + 1]
    <2>1. /\ submitter.at = "number" /\ submitter' = [submitter EXCEPT !.at = "push"]
          /\ jobs' = [jobs EXCEPT ![submitter.job] = r] /\ submitSeq' = submitSeq + 1
          /\ UNCHANGED <<caller, hostq, inflight, completer, channel>>
      BY <1>5 DEF Host!SubmitNumber
    <2>2. r \in JobRec /\ r.refcnt = jobs[submitter.job].refcnt
      <3>1. jobs[submitter.job] \in JobRec
        BY <2>1, SubmitterJob
      <3>2. submitSeq + 1 \in Nat
        BY DEF HostTypes
      <3> QED BY <3>1, <3>2 DEF JobRec
    <2>3. submitSeq' \in Nat /\ channel' \in Seq(Cmd)
      BY <2>1 DEF HostTypes
    <2> HIDE DEF r
    <2> QED BY <2>1, <2>2, <2>3, SubmitterHost
  <1>6. CASE Host!SubmitPush
    <2>1. /\ submitter.at = "push" /\ Len(inflight) < InflightCap
          /\ inflight' = Append(inflight, submitter.job)
          /\ submitter' = [at |-> "signal", job |-> 0]
          /\ UNCHANGED <<jobs, caller, hostq, submitSeq, completer, channel>>
      BY <1>6 DEF Host!SubmitPush
    <2>2. submitter.job = Freed + Len(inflight) + 1 /\ Busy = 1 /\ submitter.job \in Nat
      BY <2>1, SubmitterJob
    <2>3. /\ inflight' \in Seq(Nat) /\ Len(inflight') = Len(inflight) + 1
          /\ inflight'[Len(inflight) + 1] = submitter.job
          /\ \A i \in 1 .. Len(inflight) : inflight'[i] = inflight[i]
      BY <2>1, <2>2, Pushed DEF HostTypes
    <2>4. Busy' = 0 /\ Freed' = Freed
      BY <2>1, <2>2, <2>3 DEF Busy, Freed, HostTypes
    <2>5. HostTypes'
      BY <2>1, <2>3, OffloadAssumption DEF HostTypes
    <2>6. \A i \in 1 .. Len(inflight') : inflight'[i] = Freed' + i
      <3>1. \A i \in 1 .. Len(inflight) : inflight'[i] = Freed + i
        BY <2>3 DEF Order
      <3>2. inflight'[Len(inflight) + 1] = Freed + (Len(inflight) + 1)
        BY <2>2, <2>3 DEF Order, HostTypes
      <3>4. \A i \in 1 .. Len(inflight) + 1 : i \in 1 .. Len(inflight) \/ i = Len(inflight) + 1
        BY OneMore DEF HostTypes
      <3>5. \A i \in 1 .. Len(inflight) + 1 : inflight'[i] = Freed + i
        BY <3>1, <3>2, <3>4
      <3> QED BY <3>5, <2>3, <2>4
    <2>7. Order'
      BY <2>1, <2>3, <2>4, <2>6 DEF Order, HostTypes
    <2>8. Counted'
      BY <2>1, <2>4, CountedKept
    <2> QED BY <2>5, <2>7, <2>8
  <1> QED BY <1>1, <1>2, <1>3, <1>4, <1>5, <1>6 DEF Host!Submitter

\* The steps of the completion thread: the head of the inflight ring is its job.
LEMMA CompleterHost == ASSUME HostInv, Host!Completer PROVE HostInv'
  <1> USE DEF HostInv
  <1>1. CASE Host!CompleterCheck \/ Host!CompleterLook \/ Host!CompleterSleep \/ Host!CompleterAwake
    <2>1. UNCHANGED <<jobs, caller, hostq, submitter, submitSeq, inflight, channel>>
      BY <1>1 DEF Host!CompleterCheck, Host!CompleterLook, Host!CompleterSleep, Host!CompleterAwake
    <2>2. completer' \in {"spin", "pop"} => inflight # <<>>
      BY <1>1 DEF Host!CompleterCheck, Host!CompleterLook, Host!CompleterSleep, Host!CompleterAwake,
                  Host!Stopping, HostTypes
    <2>3. inflight # <<>> => Len(inflight) > 0
      BY Popped DEF HostTypes
    <2>4. Busy' = Busy /\ Freed' = Freed
      BY <2>1 DEF Busy, Freed
    <2>5. HostTypes' /\ Order'
      BY <2>1, <2>2, <2>3, <2>4 DEF HostTypes, Order
    <2> QED BY <2>1, <2>4, <2>5, CountedKept
  <1>2. CASE completer \in {"spin", "pop"} /\ (Host!CompleterMark \/ Host!CompleterPop)
    <2>1. inflight # <<>> /\ Len(inflight) > 0
      BY <1>2 DEF Order, HostTypes
    <2>2. /\ Tail(inflight) \in Seq(Nat) /\ Len(Tail(inflight)) = Len(inflight) - 1
          /\ Head(inflight) = inflight[1] /\ Len(inflight) \in Nat
          /\ \A i \in 1 .. Len(inflight) - 1 : Tail(inflight)[i] = inflight[i + 1]
      BY <2>1, Popped DEF HostTypes
    <2>3. /\ Head(inflight) = Freed + 1 /\ Head(inflight) \in 1 .. Len(jobs)
          /\ jobs[Head(inflight)] \in JobRec
      BY <2>1, <2>2 DEF Order, Freed, Busy, HostTypes
    <2>4. CASE Host!CompleterMark
      <3> DEFINE r == [jobs[Head(inflight)] EXCEPT !.completed = TRUE]
      <3>1. /\ jobs' = [jobs EXCEPT ![Head(inflight)] = r] /\ completer' = "pop"
            /\ UNCHANGED <<caller, hostq, submitter, submitSeq, inflight, channel>>
        BY <2>4 DEF Host!CompleterMark
      <3>2. r \in JobRec /\ r.refcnt = jobs[Head(inflight)].refcnt
        BY <2>3 DEF JobRec
      <3> HIDE DEF r
      <3>3. /\ jobs' \in Seq(JobRec) /\ Len(jobs') = Len(jobs)
            /\ \A j \in 1 .. Len(jobs) : jobs'[j] = IF j = Head(inflight) THEN r ELSE jobs[j]
        BY <2>3, <3>1, <3>2, JobUpdate DEF HostTypes
      <3>4. Busy' = Busy /\ Freed' = Freed
        BY <3>1, <3>3 DEF Busy, Freed
      <3>5. HostTypes' /\ Order'
        BY <2>1, <3>1, <3>3, <3>4 DEF HostTypes, Order
      <3>6. Counted'
        BY <3>1, <3>2, <3>3, <3>4, CountedKept
      <3> QED BY <3>5, <3>6
    <2>5. CASE Host!CompleterPop
      <3> DEFINE r == [jobs[Head(inflight)] EXCEPT !.refcnt = @ - 1]
      <3>1. /\ jobs' = [jobs EXCEPT ![Head(inflight)] = r] /\ completer' = "check"
            /\ inflight' = Tail(inflight)
            /\ UNCHANGED <<caller, hostq, submitter, submitSeq, channel>>
        BY <2>5 DEF Host!CompleterPop
      <3>2. r \in JobRec /\ r.refcnt = jobs[Head(inflight)].refcnt - 1
        BY <2>3 DEF JobRec
      <3> HIDE DEF r
      <3>3. /\ jobs' \in Seq(JobRec) /\ Len(jobs') = Len(jobs)
            /\ \A j \in 1 .. Len(jobs) : jobs'[j] = IF j = Freed + 1 THEN r ELSE jobs[j]
        BY <2>3, <3>1, <3>2, JobUpdate DEF HostTypes
      <3>4. Busy' = Busy /\ Freed' = Freed + 1
        BY <2>2, <3>1, <3>3 DEF Busy, Freed, HostTypes
      <3>5. HostTypes'
        BY <2>2, <3>1, <3>3, OffloadAssumption DEF HostTypes
      <3>6. \A i \in 1 .. Len(inflight') : inflight'[i] = Freed' + i
        BY <2>2, <3>1, <3>4 DEF Order
      <3>7. Order'
        BY <2>2, <3>1, <3>3, <3>4, <3>6 DEF HostTypes, Order
      <3>8. Counted'
        <4> SUFFICES ASSUME NEW j \in 1 .. Len(jobs)
                     PROVE  jobs'[j].refcnt = (IF caller[j] = "gone" THEN 0 ELSE 1)
                                              + (IF j > Freed + 1 THEN 1 ELSE 0)
          BY <3>1, <3>3, <3>4 DEF Counted
        <4>1. jobs[j].refcnt = (IF caller[j] = "gone" THEN 0 ELSE 1) + (IF j > Freed THEN 1 ELSE 0)
          BY DEF Counted
        <4>2. CASE j = Freed + 1
          BY <4>1, <4>2, <2>3, <3>2, <3>3 DEF Order
        <4>3. CASE j # Freed + 1
          BY <4>1, <4>3, <3>3 DEF Order
        <4> QED BY <4>2, <4>3
      <3> QED BY <3>5, <3>7, <3>8
    <2> QED BY <1>2, <2>4, <2>5
  <1> QED BY <1>1, <1>2 DEF Host!Completer, Host!CompleterMark, Host!CompleterPop

\* The steps of the DPU take commands from the channel and move the counter;
\* those of a shutdown wake the completion thread.
LEMMA OtherHost ==
  ASSUME HostInv, Host!Shutdown \/ (Dpu!DpuNext /\ UNCHANGED hostVars) \/ UNCHANGED vars
  PROVE  HostInv'
  <1> USE DEF HostInv
  <1>1. UNCHANGED <<jobs, caller, hostq, submitter, submitSeq, inflight>>
    BY DEF Host!Shutdown, Host!ShutdownStop, Host!ShutdownWake, Host!ShutdownJoin, hostVars, vars
  <1>2. completer' \in {"spin", "pop"} => completer' = completer
    BY DEF Host!Shutdown, Host!ShutdownStop, Host!ShutdownWake, Host!ShutdownJoin, hostVars, vars
  <1>3. channel' = channel \/ (channel # <<>> /\ channel' = Tail(channel))
    BY DEF Host!Shutdown, Host!ShutdownStop, Host!ShutdownWake, Host!ShutdownJoin, vars,
           Dpu!DpuNext, Dpu!Receive, Dpu!TakeInline, Dpu!Dispatch, Dpu!Worker, Dpu!TakeRing,
           Dpu!Execute, Dpu!Setup, Dpu!SetupFails, Dpu!Fill, Dpu!Finish, Dpu!LoadSeq, Dpu!Stage,
           Dpu!Doorbell, Dpu!DoorbellLost, Dpu!Leave
  <1>4. channel' \in Seq(Cmd)
    <2>1. channel \in Seq(Cmd)
      BY DEF HostTypes
    <2>2. channel # <<>> => Tail(channel) \in Seq(Cmd)
      BY <2>1, Popped
    <2> QED BY <1>3, <2>1, <2>2
  <1>5. Busy' = Busy /\ Freed' = Freed
    BY <1>1 DEF Busy, Freed
  <1>6. HostTypes' /\ Order'
    BY <1>1, <1>2, <1>4, <1>5 DEF HostTypes, Order
  <1> QED BY <1>1, <1>5, <1>6, CountedKept

\* Every step keeps the invariant of the host.
LEMMA HostStepInv == HostInv /\ [Next]_vars => HostInv'
  <1> SUFFICES ASSUME HostInv, [Next]_vars PROVE HostInv'
    OBVIOUS
  <1>1. CASE \E kind \in Kinds : Host!Enqueue(kind)
    <2>1. PICK kind \in Kinds : Host!Enqueue(kind)
      BY <1>1
    <2> QED BY <2>1, EnqueueHost
  <1>2. CASE \E j \in 1 .. Len(jobs) : Host!Release(j)
    BY <1>2, ReleaseHost
  <1>3. CASE Host!Submitter \/ Host!Completer
    BY <1>3, SubmitHost, CompleterHost
  <1>4. CASE Host!Shutdown \/ (Dpu!DpuNext /\ UNCHANGED hostVars) \/ UNCHANGED vars
    BY <1>4, OtherHost
  <1> QED BY <1>1, <1>2, <1>3, <1>4 DEF Next, Host!HostNext, Host!Job

\* What has not left the pipeline is in the queue, with the submit thread or in
\* flight.
LEMMA Pipeline ==
  ASSUME HostInv, NEW j \in 1 .. Len(jobs)
  PROVE  Host!InPipeline(j) <=> j > Freed
  <1> USE DEF HostInv
  <1>1. /\ Len(jobs) \in Nat /\ Len(hostq) \in Nat /\ Len(inflight) \in Nat /\ Freed \in Nat
        /\ Freed + Len(inflight) + Busy = Len(jobs) - Len(hostq) /\ Busy \in {0, 1}
    BY DEF HostTypes, Order, Freed, Busy
  <1>2. Host!InSeq(j, inflight) <=> j \in Freed + 1 .. Freed + Len(inflight)
    <2>1. ASSUME Host!InSeq(j, inflight) PROVE j \in Freed + 1 .. Freed + Len(inflight)
      BY <2>1, <1>1 DEF Host!InSeq, Order
    <2>2. ASSUME j \in Freed + 1 .. Freed + Len(inflight) PROVE Host!InSeq(j, inflight)
      <3>1. j - Freed \in 1 .. Len(inflight) /\ Freed + (j - Freed) = j
        BY <2>2, <1>1
      <3> QED BY <3>1 DEF Host!InSeq, Order
    <2> QED BY <2>1, <2>2
  <1>3. Host!InSeq(j, hostq) <=> j > Len(jobs) - Len(hostq)
    <2>1. ASSUME Host!InSeq(j, hostq) PROVE j > Len(jobs) - Len(hostq)
      BY <2>1, <1>1 DEF Host!InSeq, Order
    <2>2. ASSUME j > Len(jobs) - Len(hostq) PROVE Host!InSeq(j, hostq)
      <3> DEFINE i == j - (Len(jobs) - Len(hostq))
      <3>1. i \in 1 .. Len(hostq) /\ Len(jobs) - Len(hostq) + i = j
        BY <2>2, <1>1
      <3> QED BY <3>1 DEF Host!InSeq, Order
    <2> QED BY <2>1, <2>2
  <1>4. submitter.job = j <=> Busy = 1 /\ j = Freed + Len(inflight) + 1
    BY <1>1 DEF Busy, Order
  <1> QED BY <1>1, <1>2, <1>3, <1>4 DEF Host!InPipeline

\* The invariant of the host holds in every state, whatever the DPU does.
LEMMA HostInvariant == Spec => []HostInv
  BY InitHost, HostStepInv, PTL DEF Spec

\* The reference count of a job is the number of its users, its caller and the
\* pipeline (comch_req_release_u64, collective_job_release): with any number of
\* jobs, whenever the caller lets go, whatever submission fails and in either
\* mode of the DPU.
THEOREM ReferenceCount == Spec => []RefCounted
  <1>1. HostInv => RefCounted
    BY Pipeline DEF HostInv, Counted, RefCounted, Host!RefCounted, Host!Job
  <1> QED BY <1>1, HostInvariant, PTL

-----------------------------------------------------------------------------
(* The numbers of the jobs: 0 until the submit thread has sent the command.  *)

\* No number is above the counter; only the completion thread lets go of a
\* job, when the doorbell has reached its number.
Numbers ==
    /\ \A j \in 1 .. Len(jobs) : jobs[j].seq <= submitSeq
    /\ \A j \in 1 .. Freed : jobs[j].seq <= doorbell
    /\ completer = "pop" => jobs[Freed + 1].seq <= doorbell
    /\ \A j \in 1 .. Len(jobs) : jobs[j].completed /\ jobs[j].ok => jobs[j].seq \in 1 .. doorbell
    /\ \A j \in 1 .. Freed + Len(inflight) : jobs[j].ok => jobs[j].seq > 0
    /\ submitter.at = "push" /\ jobs[submitter.job].ok => jobs[submitter.job].seq > 0
    /\ \A j \in Freed + Len(inflight) + 1 .. Len(jobs) : ~ jobs[j].completed
    /\ submitter.at \in {"impl", "number"} => jobs[submitter.job].seq = 0
    /\ \A j \in Len(jobs) - Len(hostq) + 1 .. Len(jobs) : jobs[j].seq = 0

\* The records of the jobs.
LEMMA JobTypes ==
  ASSUME HostInv, NEW j \in 1 .. Len(jobs)
  PROVE  jobs[j] \in JobRec /\ jobs[j].seq \in Nat /\ jobs[j].refcnt \in Int
  <1>1. jobs[j] \in JobRec
    BY DEF HostInv, HostTypes
  <1> QED BY <1>1 DEF JobRec

\* A job that gets a number.
LEMMA Numbered ==
  ASSUME NEW x \in JobRec, NEW n \in Nat
  PROVE  /\ [x EXCEPT !.seq = n] \in JobRec /\ [x EXCEPT !.seq = n].seq = n
         /\ ([x EXCEPT !.seq = n].completed <=> x.completed)
  BY DEF JobRec

\* A job that loses a reference.
LEMMA LetGo ==
  ASSUME NEW x \in JobRec
  PROVE  /\ [x EXCEPT !.refcnt = @ - 1] \in JobRec
         /\ [x EXCEPT !.refcnt = @ - 1].seq = x.seq
         /\ ([x EXCEPT !.refcnt = @ - 1].ok <=> x.ok)
         /\ ([x EXCEPT !.refcnt = @ - 1].completed <=> x.completed)
  BY DEF JobRec

\* A step that keeps the numbers of the jobs and what the threads have.
LEMMA SameNumbers ==
  ASSUME HostInv, Numbers, doorbell \in Nat, doorbell' \in Nat, doorbell <= doorbell',
         UNCHANGED <<hostq, submitter, submitSeq, inflight, completer>>,
         Len(jobs') = Len(jobs),
         \A j \in 1 .. Len(jobs) : /\ jobs'[j].seq = jobs[j].seq /\ (jobs'[j].ok <=> jobs[j].ok)
                                   /\ (jobs'[j].completed <=> jobs[j].completed)
  PROVE  Numbers'
  <1> USE DEF HostInv
  <1>1. /\ Freed' = Freed /\ Freed \in Nat /\ Len(inflight) \in Nat /\ Len(hostq) \in Nat
        /\ Len(jobs) \in Nat
        /\ Freed + Busy + Len(inflight) = Len(jobs) - Len(hostq) /\ Busy \in {0, 1}
    BY DEF HostTypes, Busy, Freed, Order
  <1>2. \A j \in 1 .. Len(jobs) : jobs[j] \in JobRec /\ jobs[j].seq \in Nat
    BY JobTypes
  <1>3. /\ \A j \in 1 .. Len(jobs') : jobs'[j].seq <= submitSeq'
        /\ \A j \in 1 .. Len(jobs') : jobs'[j].completed /\ jobs'[j].ok => jobs'[j].seq \in 1 .. doorbell'
    BY <1>2 DEF Numbers
  <1>4. /\ \A j \in 1 .. Freed' : jobs'[j].seq <= doorbell'
        /\ completer' = "pop" => jobs'[Freed' + 1].seq <= doorbell'
        /\ \A j \in 1 .. Freed' + Len(inflight') : jobs'[j].ok => jobs'[j].seq > 0
    <2>1. \A j \in 1 .. Freed : j \in 1 .. Len(jobs) /\ jobs[j].seq <= doorbell
      BY <1>1 DEF Numbers
    <2>2. completer = "pop" => Freed + 1 \in 1 .. Len(jobs) /\ jobs[Freed + 1].seq <= doorbell
      BY <1>1 DEF Numbers, Order
    <2>3. \A j \in 1 .. Freed + Len(inflight) : j \in 1 .. Len(jobs) /\ (jobs[j].ok => jobs[j].seq > 0)
      BY <1>1 DEF Numbers
    <2> QED BY <1>1, <1>2, <2>1, <2>2, <2>3
  <1>5. /\ submitter'.at = "push" /\ jobs'[submitter'.job].ok => jobs'[submitter'.job].seq > 0
        /\ submitter'.at \in {"impl", "number"} => jobs'[submitter'.job].seq = 0
    BY SubmitterJob DEF Numbers
  <1>6. \A j \in Freed' + Len(inflight') + 1 .. Len(jobs') : ~ jobs'[j].completed
    <2>1. \A j \in Freed + Len(inflight) + 1 .. Len(jobs) : j \in 1 .. Len(jobs) /\ ~ jobs[j].completed
      BY <1>1 DEF Numbers
    <2> QED BY <1>1, <2>1
  <1>7. \A j \in Len(jobs') - Len(hostq') + 1 .. Len(jobs') : jobs'[j].seq = 0
    BY <1>1 DEF Numbers
  <1> QED BY <1>3, <1>4, <1>5, <1>6, <1>7 DEF Numbers

\* A new job has no number.
LEMMA EnqueueNumbers ==
  ASSUME HostInv, Numbers, NEW kind \in Kinds, doorbell \in Nat, Host!Enqueue(kind)
  PROVE  Numbers'
  <1> USE DEF HostInv
  <1> DEFINE job == [kind |-> kind, seq |-> 0, ok |-> TRUE, completed |-> FALSE, refcnt |-> 2]
  <1>1. /\ jobs' = Append(jobs, job) /\ hostq' = Append(hostq, Len(jobs) + 1)
        /\ UNCHANGED <<submitter, submitSeq, inflight, completer, doorbell>>
    BY DEF Host!Enqueue
  <1>2. job \in JobRec /\ job.seq = 0 /\ ~ job.completed
    BY OffloadAssumption DEF JobRec, JobKind
  <1> HIDE DEF job
  <1>3. /\ Len(jobs') = Len(jobs) + 1 /\ jobs'[Len(jobs) + 1] = job
        /\ \A j \in 1 .. Len(jobs) : jobs'[j] = jobs[j]
        /\ \A j \in 1 .. Len(jobs) + 1 : j \in 1 .. Len(jobs) \/ j = Len(jobs) + 1
    BY <1>1, <1>2, Pushed, OneMore DEF HostTypes
  <1>4. Len(hostq') = Len(hostq) + 1
    BY <1>1, Pushed DEF HostTypes
  <1>5. /\ Freed' = Freed /\ Freed \in Nat /\ Len(inflight) \in Nat /\ Len(hostq) \in Nat
        /\ Len(jobs) \in Nat /\ submitSeq \in Nat
        /\ Freed + Busy + Len(inflight) = Len(jobs) - Len(hostq) /\ Busy \in {0, 1}
    BY <1>1, <1>3, <1>4 DEF HostTypes, Busy, Freed, Order
  <1>6. \A j \in 1 .. Len(jobs') : jobs'[j].seq <= submitSeq'
    BY <1>1, <1>2, <1>3, <1>5 DEF Numbers
  <1>7. \A j \in 1 .. Len(jobs') : jobs'[j].completed /\ jobs'[j].ok => jobs'[j].seq \in 1 .. doorbell'
    BY <1>1, <1>2, <1>3 DEF Numbers
  <1>8. /\ \A j \in 1 .. Freed' : jobs'[j].seq <= doorbell'
        /\ completer' = "pop" => jobs'[Freed' + 1].seq <= doorbell'
        /\ \A j \in 1 .. Freed' + Len(inflight') : jobs'[j].ok => jobs'[j].seq > 0
    BY <1>1, <1>3, <1>5 DEF Numbers, Order
  <1>9. /\ submitter'.at = "push" /\ jobs'[submitter'.job].ok => jobs'[submitter'.job].seq > 0
        /\ submitter'.at \in {"impl", "number"} => jobs'[submitter'.job].seq = 0
    BY <1>1, <1>3, SubmitterJob DEF Numbers
  <1>10. \A j \in Freed' + Len(inflight') + 1 .. Len(jobs') : ~ jobs'[j].completed
    BY <1>1, <1>2, <1>3, <1>5 DEF Numbers
  <1>11. \A j \in Len(jobs') - Len(hostq') + 1 .. Len(jobs') : jobs'[j].seq = 0
    BY <1>1, <1>2, <1>3, <1>4, <1>5 DEF Numbers
  <1> QED BY <1>6, <1>7, <1>8, <1>9, <1>10, <1>11 DEF Numbers

\* A caller that releases a job leaves the numbers alone.
LEMMA ReleaseNumbers ==
  ASSUME HostInv, Numbers, NEW c \in 1 .. Len(jobs), doorbell \in Nat, Host!Release(c)
  PROVE  Numbers'
  <1> USE DEF HostInv
  <1> DEFINE r == [jobs[c] EXCEPT !.refcnt = @ - 1]
  <1>1. /\ jobs' = [jobs EXCEPT ![c] = r]
        /\ UNCHANGED <<hostq, submitter, submitSeq, inflight, completer, doorbell>>
    BY DEF Host!Release
  <1>2. /\ r \in JobRec /\ r.seq = jobs[c].seq /\ (r.ok <=> jobs[c].ok)
        /\ (r.completed <=> jobs[c].completed)
    <2>1. jobs[c] \in JobRec
      BY JobTypes
    <2> QED BY <2>1 DEF JobRec
  <1> HIDE DEF r
  <1>3. /\ Len(jobs') = Len(jobs)
        /\ \A j \in 1 .. Len(jobs) : /\ jobs'[j].seq = jobs[j].seq /\ (jobs'[j].ok <=> jobs[j].ok)
                                     /\ (jobs'[j].completed <=> jobs[j].completed)
    BY <1>1, <1>2, JobUpdate DEF HostTypes
  <1> QED BY <1>1, <1>3, SameNumbers

\* The submit thread's steps keep the numbers: the job it has, and those behind
\* it, have none until the command is sent.
LEMMA SubmitNumbers ==
  ASSUME HostInv, HostInv', Numbers, doorbell \in Nat, Host!Submitter
  PROVE  Numbers'
  <1>1. /\ Freed \in Nat /\ Len(inflight) \in Nat /\ Len(hostq) \in Nat
        /\ Len(jobs) \in Nat /\ submitSeq \in Nat
        /\ Freed + Busy + Len(inflight) = Len(jobs) - Len(hostq) /\ Busy \in {0, 1}
    BY DEF HostInv, HostTypes, Busy, Freed, Order
  <1>2. /\ \A j \in 1 .. Freed : j \in 1 .. Len(jobs) /\ jobs[j].seq <= doorbell
        /\ completer = "pop" => Freed + 1 \in 1 .. Len(jobs) /\ jobs[Freed + 1].seq <= doorbell
        /\ \A j \in 1 .. Freed + Len(inflight) : j \in 1 .. Len(jobs) /\ (jobs[j].ok => jobs[j].seq > 0)
        /\ \A j \in Freed + Len(inflight) + 1 .. Len(jobs) : j \in 1 .. Len(jobs) /\ ~ jobs[j].completed
        /\ \A j \in Len(jobs) - Len(hostq) + 1 .. Len(jobs) : j \in 1 .. Len(jobs) /\ jobs[j].seq = 0
    BY <1>1 DEF Numbers, HostInv, Order
  <1>3. completer' = "pop" => completer = "pop"
    BY DEF Host!Submitter, Host!SubmitPop, Host!SubmitExit, Host!SubmitSend, Host!SubmitFails,
           Host!SubmitNumber, Host!SubmitPush, Host!SubmitSignal
  <1>4. UNCHANGED doorbell
    BY DEF Host!Submitter, Host!SubmitPop, Host!SubmitExit, Host!SubmitSend, Host!SubmitFails,
           Host!SubmitNumber, Host!SubmitPush, Host!SubmitSignal
  <1>5. CASE Host!SubmitPop
    <2>1. /\ submitter.at = "idle" /\ hostq # <<>> /\ hostq' = Tail(hostq)
          /\ submitter' = [at |-> "impl", job |-> Head(hostq)]
          /\ UNCHANGED <<jobs, submitSeq, inflight, completer>>
      BY <1>5 DEF Host!SubmitPop
    <2>2. Len(hostq') = Len(hostq) - 1 /\ Len(hostq) > 0 /\ Head(hostq) = hostq[1]
      BY <2>1, Popped DEF HostInv, HostTypes
    <2>3. submitter'.job = Len(jobs) - Len(hostq) + 1
      BY <1>1, <2>1, <2>2 DEF HostInv, Order
    <2>4. Freed' = Freed
      <3>1. submitter.job = 0 /\ submitter'.job # 0
        BY <1>1, <2>1, <2>2, <2>3 DEF HostInv, Order
      <3>2. Busy = 0 /\ Busy' = 1
        BY <3>1 DEF Busy
      <3>3. Len(jobs) - Len(hostq) - 0 - Len(inflight) = Len(jobs) - (Len(hostq) - 1) - 1 - Len(inflight)
        BY <1>1
      <3> QED BY <2>1, <2>2, <3>2, <3>3 DEF Freed
    <2>5. /\ \A j \in 1 .. Len(jobs) : jobs[j].seq <= submitSeq
          /\ \A j \in 1 .. Len(jobs) : jobs[j].completed /\ jobs[j].ok => jobs[j].seq \in 1 .. doorbell
      BY DEF Numbers
    <2>6. /\ \A j \in Freed + Len(inflight) + 1 .. Len(jobs) : ~ jobs[j].completed
          /\ \A j \in Len(jobs) - Len(hostq) + 1 .. Len(jobs) : jobs[j].seq = 0
          /\ \A j \in Freed + Len(inflight) + 1 .. Len(jobs) : j \in 1 .. Len(jobs)
      BY <1>2
    <2>7. jobs[submitter'.job].seq = 0
      BY <1>1, <2>2, <2>3, <2>6
    <2>8. \A j \in Len(jobs) - Len(hostq') + 1 .. Len(jobs) : jobs[j].seq = 0
      BY <1>1, <2>2, <2>6
    <2>9. submitter'.at = "impl"
      BY <2>1
    <2> QED BY <1>2, <1>3, <1>4, <2>1, <2>4, <2>5, <2>6, <2>7, <2>8, <2>9 DEF Numbers
  <1>6. CASE Host!SubmitExit \/ Host!SubmitSignal
    <2>1. /\ submitter'.at \in {"idle", "exited"} /\ submitter'.job = 0 /\ submitter.job = 0
          /\ UNCHANGED <<jobs, hostq, submitSeq, inflight>>
      BY <1>6 DEF Host!SubmitExit, Host!SubmitSignal, HostInv, HostTypes, Order
    <2>2. Freed' = Freed
      BY <2>1 DEF Busy, Freed
    <2> QED BY <1>1, <1>2, <1>3, <1>4, <2>1, <2>2 DEF Numbers
  <1>7. CASE Host!SubmitSend
    <2>1. /\ submitter.at = "impl" /\ submitter' = [submitter EXCEPT !.at = "number"]
          /\ UNCHANGED <<jobs, hostq, submitSeq, inflight, completer>>
      BY <1>7 DEF Host!SubmitSend
    <2>2. submitter'.at = "number" /\ submitter'.job = submitter.job
      BY <2>1 DEF HostInv, HostTypes
    <2>3. Freed' = Freed
      BY <2>1, <2>2 DEF Busy, Freed
    <2> QED BY <1>1, <1>2, <1>4, <2>1, <2>2, <2>3 DEF Numbers
  <1>8. CASE Host!SubmitFails
    <2> DEFINE r == [jobs[submitter.job] EXCEPT !.ok = FALSE]
    <2>1. /\ submitter.at = "impl" /\ submitter' = [submitter EXCEPT !.at = "push"]
          /\ jobs' = [jobs EXCEPT ![submitter.job] = r]
          /\ UNCHANGED <<hostq, submitSeq, inflight, completer>>
      BY <1>8 DEF Host!SubmitFails
    <2>2. submitter'.at = "push" /\ submitter'.job = submitter.job
      BY <2>1 DEF HostInv, HostTypes
    <2>3. /\ submitter.job \in 1 .. Len(jobs) /\ jobs[submitter.job] \in JobRec
          /\ submitter.job = Freed + Len(inflight) + 1
      BY <2>1, SubmitterJob
    <2>4. /\ r \in JobRec /\ r.seq = jobs[submitter.job].seq /\ ~ r.ok
          /\ (r.completed <=> jobs[submitter.job].completed)
      BY <2>3 DEF JobRec
    <2> HIDE DEF r
    <2>5. /\ Len(jobs') = Len(jobs)
          /\ \A j \in 1 .. Len(jobs) : jobs'[j] = IF j = submitter.job THEN r ELSE jobs[j]
      BY <2>1, <2>3, <2>4, JobUpdate DEF HostInv, HostTypes
    <2>6. Freed' = Freed
      BY <2>1, <2>2, <2>5 DEF Busy, Freed
    <2>7. \A j \in 1 .. Len(jobs) : /\ jobs'[j].seq = jobs[j].seq
                                    /\ (jobs'[j].completed <=> jobs[j].completed)
                                    /\ jobs'[j].ok => jobs[j].ok
      BY <2>4, <2>5
    <2>8. ~ jobs'[submitter'.job].ok
      BY <2>2, <2>3, <2>4, <2>5
    <2>9. /\ \A j \in 1 .. Len(jobs) : jobs[j].seq <= submitSeq
          /\ \A j \in 1 .. Len(jobs) : jobs[j].completed /\ jobs[j].ok => jobs[j].seq \in 1 .. doorbell
      BY DEF Numbers
    <2> QED BY <1>1, <1>2, <1>4, <2>1, <2>2, <2>5, <2>6, <2>7, <2>8, <2>9 DEF Numbers
  <1>9. CASE Host!SubmitNumber
    <2> DEFINE r == [jobs[submitter.job] EXCEPT !.seq = submitSeq + 1]
    <2>1. /\ submitter.at = "number" /\ submitter' = [submitter EXCEPT !.at = "push"]
          /\ jobs' = [jobs EXCEPT ![submitter.job] = r] /\ submitSeq' = submitSeq + 1
          /\ UNCHANGED <<hostq, inflight, completer>>
      BY <1>9 DEF Host!SubmitNumber
    <2>2. submitter'.at = "push" /\ submitter'.job = submitter.job
      BY <2>1 DEF HostInv, HostTypes
    <2>3. /\ submitter.job \in 1 .. Len(jobs) /\ jobs[submitter.job] \in JobRec
          /\ submitter.job = Freed + Len(inflight) + 1
          /\ submitter.job = Len(jobs) - Len(hostq)
      BY <2>1, SubmitterJob
    <2>4. /\ r \in JobRec /\ r.seq = submitSeq + 1
          /\ (r.completed <=> jobs[submitter.job].completed)
      <3>1. PICK x \in JobRec, n \in Nat : x = jobs[submitter.job] /\ n = submitSeq + 1
        BY <1>1, <2>3
      <3>2. r = [x EXCEPT !.seq = n]
        BY <3>1
      <3> HIDE DEF r
      <3> QED BY <3>1, <3>2, Numbered
    <2> HIDE DEF r
    <2>5. /\ Len(jobs') = Len(jobs)
          /\ \A j \in 1 .. Len(jobs) : jobs'[j] = IF j = submitter.job THEN r ELSE jobs[j]
      BY <2>1, <2>3, <2>4, JobUpdate DEF HostInv, HostTypes
    <2>6. Freed' = Freed
      BY <2>1, <2>2, <2>5 DEF Busy, Freed
    <2>7. /\ \A j \in 1 .. Len(jobs) : /\ (jobs'[j].completed <=> jobs[j].completed)
                                       /\ j # submitter.job => jobs'[j] = jobs[j]
          /\ jobs'[submitter.job].seq = submitSeq + 1
          /\ ~ jobs'[submitter.job].completed
      BY <1>1, <1>2, <2>3, <2>4, <2>5
    <2>8. /\ \A j \in 1 .. Len(jobs) : jobs[j].seq <= submitSeq /\ jobs[j].seq \in Nat
          /\ \A j \in 1 .. Len(jobs) : jobs[j].completed /\ jobs[j].ok => jobs[j].seq \in 1 .. doorbell
      BY JobTypes DEF Numbers
    <2>9. \A j \in 1 .. Len(jobs) : jobs'[j].seq <= submitSeq'
      BY <1>1, <2>1, <2>7, <2>8
    <2>10. \A j \in 1 .. Len(jobs) : jobs'[j].completed /\ jobs'[j].ok => jobs'[j].seq \in 1 .. doorbell'
      BY <1>4, <2>7, <2>8
    <2>11. completer = "pop" => Freed + 1 # submitter.job
      BY <1>1, <2>3 DEF HostInv, Order
    <2>12. /\ \A j \in 1 .. Freed' : jobs'[j].seq <= doorbell'
           /\ completer' = "pop" => jobs'[Freed' + 1].seq <= doorbell'
           /\ \A j \in 1 .. Freed' + Len(inflight') : jobs'[j].ok => jobs'[j].seq > 0
      BY <1>1, <1>2, <1>4, <2>1, <2>3, <2>6, <2>7, <2>11
    <2>13. /\ \A j \in Freed' + Len(inflight') + 1 .. Len(jobs') : ~ jobs'[j].completed
           /\ \A j \in Len(jobs') - Len(hostq') + 1 .. Len(jobs') : jobs'[j].seq = 0
      BY <1>1, <1>2, <2>1, <2>3, <2>5, <2>6, <2>7
    <2>14. jobs'[submitter'.job].seq > 0
      BY <1>1, <2>2, <2>7
    <2> QED BY <2>2, <2>5, <2>9, <2>10, <2>12, <2>13, <2>14 DEF Numbers
  <1>10. CASE Host!SubmitPush
    <2>1. /\ submitter.at = "push" /\ inflight' = Append(inflight, submitter.job)
          /\ submitter' = [at |-> "signal", job |-> 0]
          /\ UNCHANGED <<jobs, hostq, submitSeq, completer>>
      BY <1>10 DEF Host!SubmitPush
    <2>2. /\ submitter.job \in 1 .. Len(jobs) /\ submitter.job = Freed + Len(inflight) + 1 /\ Busy = 1
      BY <2>1, SubmitterJob
    <2>3. Len(inflight') = Len(inflight) + 1
      BY <2>1, <2>2, Pushed DEF HostInv, HostTypes
    <2>4. Freed' = Freed
      BY <1>1, <2>1, <2>2, <2>3 DEF Busy, Freed
    <2>5. \A j \in 1 .. Freed + Len(inflight) + 1 : jobs[j].ok => jobs[j].seq > 0
      <3>1. jobs[submitter.job].ok => jobs[submitter.job].seq > 0
        BY <2>1 DEF Numbers
      <3>2. \A j \in 1 .. Freed + Len(inflight) + 1 : j \in 1 .. Freed + Len(inflight) \/ j = submitter.job
        BY <1>1, <2>2
      <3> QED BY <1>2, <3>1, <3>2
    <2> QED BY <1>1, <1>2, <1>4, <2>1, <2>3, <2>4, <2>5 DEF Numbers
  <1> QED BY <1>5, <1>6, <1>7, <1>8, <1>9, <1>10 DEF Host!Submitter

\* The completion thread marks a job when the doorbell has reached its number,
\* and takes it off the inflight ring after that.
LEMMA CompleterNumbers ==
  ASSUME HostInv, HostInv', Numbers, doorbell \in Nat, Host!Completer
  PROVE  Numbers'
  <1>1. /\ Freed \in Nat /\ Len(inflight) \in Nat /\ Len(hostq) \in Nat
        /\ Len(jobs) \in Nat /\ submitSeq \in Nat
        /\ Freed + Busy + Len(inflight) = Len(jobs) - Len(hostq) /\ Busy \in {0, 1}
    BY DEF HostInv, HostTypes, Busy, Freed, Order
  <1>2. /\ \A j \in 1 .. Freed : j \in 1 .. Len(jobs) /\ jobs[j].seq <= doorbell
        /\ completer = "pop" => Freed + 1 \in 1 .. Len(jobs) /\ jobs[Freed + 1].seq <= doorbell
        /\ \A j \in 1 .. Freed + Len(inflight) : j \in 1 .. Len(jobs) /\ (jobs[j].ok => jobs[j].seq > 0)
        /\ \A j \in Freed + Len(inflight) + 1 .. Len(jobs) : j \in 1 .. Len(jobs) /\ ~ jobs[j].completed
        /\ \A j \in Len(jobs) - Len(hostq) + 1 .. Len(jobs) : j \in 1 .. Len(jobs) /\ jobs[j].seq = 0
    BY <1>1 DEF Numbers, HostInv, Order
  <1>3. /\ \A j \in 1 .. Len(jobs) : jobs[j].seq <= submitSeq /\ jobs[j].seq \in Nat
        /\ \A j \in 1 .. Len(jobs) : jobs[j].completed /\ jobs[j].ok => jobs[j].seq \in 1 .. doorbell
    BY JobTypes DEF Numbers
  <1>4. /\ submitter.at = "push" /\ jobs[submitter.job].ok => jobs[submitter.job].seq > 0
        /\ submitter.at \in {"impl", "number"} => jobs[submitter.job].seq = 0
        /\ submitter.at \in {"impl", "number", "push"} =>
              submitter.job \in 1 .. Len(jobs) /\ submitter.job = Freed + Len(inflight) + 1
    BY SubmitterJob DEF Numbers
  <1>5. CASE Host!CompleterCheck \/ Host!CompleterLook \/ Host!CompleterSleep \/ Host!CompleterAwake
    <2>1. UNCHANGED <<jobs, hostq, submitter, submitSeq, inflight, doorbell>> /\ completer' # "pop"
      BY <1>5 DEF Host!CompleterCheck, Host!CompleterLook, Host!CompleterSleep, Host!CompleterAwake
    <2>2. Freed' = Freed
      BY <2>1 DEF Busy, Freed
    <2> QED BY <2>1, <2>2 DEF Numbers
  <1>6. ASSUME completer \in {"spin", "pop"}
        PROVE  /\ inflight # <<>> /\ Len(inflight) > 0 /\ Len(Tail(inflight)) = Len(inflight) - 1
               /\ Head(inflight) = Freed + 1 /\ Head(inflight) \in 1 .. Len(jobs)
               /\ jobs[Head(inflight)] \in JobRec
    <2>1. inflight # <<>> /\ Len(inflight) > 0
      BY <1>6 DEF HostInv, Order, HostTypes
    <2>2. Head(inflight) = inflight[1] /\ Len(Tail(inflight)) = Len(inflight) - 1
      BY <2>1, Popped DEF HostInv, HostTypes
    <2>3. Head(inflight) = Freed + 1 /\ Head(inflight) \in 1 .. Len(jobs)
      BY <1>1, <2>1, <2>2 DEF HostInv, Order
    <2> QED BY <2>1, <2>2, <2>3, JobTypes
  <1>7. CASE Host!CompleterMark
    <2> DEFINE r == [jobs[Head(inflight)] EXCEPT !.completed = TRUE]
    <2>1. /\ completer = "spin" /\ doorbell >= jobs[Head(inflight)].seq
          /\ jobs' = [jobs EXCEPT ![Head(inflight)] = r] /\ completer' = "pop"
          /\ UNCHANGED <<hostq, submitter, submitSeq, inflight, doorbell>>
      BY <1>7 DEF Host!CompleterMark, Host!Rung
    <2>2. /\ r \in JobRec /\ r.seq = jobs[Head(inflight)].seq
          /\ (r.ok <=> jobs[Head(inflight)].ok)
      BY <1>6, <2>1 DEF JobRec
    <2> HIDE DEF r
    <2>3. /\ Len(jobs') = Len(jobs)
          /\ \A j \in 1 .. Len(jobs) : jobs'[j] = IF j = Head(inflight) THEN r ELSE jobs[j]
      BY <1>6, <2>1, <2>2, JobUpdate DEF HostInv, HostTypes
    <2>4. Freed' = Freed
      BY <2>1, <2>3 DEF Busy, Freed
    <2>5. \A j \in 1 .. Len(jobs) : /\ jobs'[j].seq = jobs[j].seq /\ (jobs'[j].ok <=> jobs[j].ok)
                                    /\ j # Freed + 1 => (jobs'[j].completed <=> jobs[j].completed)
      BY <1>6, <2>1, <2>2, <2>3
    <2>6. jobs[Freed + 1].seq <= doorbell /\ Freed + 1 \in 1 .. Len(jobs)
      BY <1>3, <1>6, <2>1
    <2>7. jobs[Freed + 1].ok => jobs[Freed + 1].seq \in 1 .. doorbell
      <3>1. Freed + 1 \in 1 .. Freed + Len(inflight)
        BY <1>1, <1>6, <2>1
      <3>2. jobs[Freed + 1].ok => jobs[Freed + 1].seq > 0
        BY <1>2, <3>1
      <3>3. jobs[Freed + 1].seq \in Nat
        BY <1>3, <2>6
      <3> QED BY <2>6, <3>2, <3>3
    <2>8. \A j \in 1 .. Len(jobs') : jobs'[j].completed /\ jobs'[j].ok => jobs'[j].seq \in 1 .. doorbell'
      BY <1>3, <2>1, <2>3, <2>5, <2>7
    <2>9. /\ \A j \in 1 .. Freed' : jobs'[j].seq <= doorbell'
          /\ jobs'[Freed' + 1].seq <= doorbell'
          /\ \A j \in 1 .. Freed' + Len(inflight') : jobs'[j].ok => jobs'[j].seq > 0
      BY <1>2, <2>1, <2>4, <2>5, <2>6
    <2>10. /\ \A j \in Freed' + Len(inflight') + 1 .. Len(jobs') : ~ jobs'[j].completed
           /\ \A j \in Len(jobs') - Len(hostq') + 1 .. Len(jobs') : jobs'[j].seq = 0
      BY <1>1, <1>2, <1>6, <2>1, <2>3, <2>4, <2>5
    <2>11. /\ submitter'.at = "push" /\ jobs'[submitter'.job].ok => jobs'[submitter'.job].seq > 0
           /\ submitter'.at \in {"impl", "number"} => jobs'[submitter'.job].seq = 0
      BY <1>4, <2>1, <2>5
    <2>12. \A j \in 1 .. Len(jobs') : jobs'[j].seq <= submitSeq'
      BY <1>3, <2>1, <2>3, <2>5
    <2> QED BY <2>8, <2>9, <2>10, <2>11, <2>12 DEF Numbers
  <1>8. CASE Host!CompleterPop
    <2> DEFINE r == [jobs[Head(inflight)] EXCEPT !.refcnt = @ - 1]
    <2>1. /\ completer = "pop" /\ inflight' = Tail(inflight)
          /\ jobs' = [jobs EXCEPT ![Head(inflight)] = r] /\ completer' = "check"
          /\ UNCHANGED <<hostq, submitter, submitSeq, doorbell>>
      BY <1>8 DEF Host!CompleterPop
    <2>2. /\ r \in JobRec /\ r.seq = jobs[Head(inflight)].seq
          /\ (r.ok <=> jobs[Head(inflight)].ok)
          /\ (r.completed <=> jobs[Head(inflight)].completed)
      <3>1. PICK x \in JobRec : x = jobs[Head(inflight)]
        BY <1>6, <2>1
      <3>2. r = [x EXCEPT !.refcnt = @ - 1]
        BY <3>1
      <3> HIDE DEF r
      <3> QED BY <3>1, <3>2, LetGo
    <2> HIDE DEF r
    <2>3. /\ Len(jobs') = Len(jobs)
          /\ \A j \in 1 .. Len(jobs) : jobs'[j] = IF j = Head(inflight) THEN r ELSE jobs[j]
      BY <1>6, <2>1, <2>2, JobUpdate DEF HostInv, HostTypes
    <2>4. \A j \in 1 .. Len(jobs) : /\ jobs'[j].seq = jobs[j].seq /\ (jobs'[j].ok <=> jobs[j].ok)
                                    /\ (jobs'[j].completed <=> jobs[j].completed)
      BY <1>6, <2>1, <2>2, <2>3
    <2>5. Freed' = Freed + 1 /\ Freed' + Len(inflight') = Freed + Len(inflight)
      BY <1>1, <1>6, <2>1, <2>3 DEF Busy, Freed
    <2>6. \A j \in 1 .. Freed + 1 : j \in 1 .. Len(jobs) /\ jobs[j].seq <= doorbell
      BY <1>1, <1>2, <2>1
    <2>7. /\ \A j \in 1 .. Freed' : jobs'[j].seq <= doorbell'
          /\ \A j \in 1 .. Freed' + Len(inflight') : jobs'[j].ok => jobs'[j].seq > 0
      BY <1>2, <2>1, <2>4, <2>5, <2>6
    <2>8. /\ \A j \in Freed' + Len(inflight') + 1 .. Len(jobs') : ~ jobs'[j].completed
          /\ \A j \in Len(jobs') - Len(hostq') + 1 .. Len(jobs') : jobs'[j].seq = 0
      BY <1>2, <2>1, <2>3, <2>4, <2>5
    <2>9. /\ submitter'.at = "push" /\ jobs'[submitter'.job].ok => jobs'[submitter'.job].seq > 0
          /\ submitter'.at \in {"impl", "number"} => jobs'[submitter'.job].seq = 0
      BY <1>4, <2>1, <2>4
    <2>10. /\ \A j \in 1 .. Len(jobs') : jobs'[j].seq <= submitSeq'
           /\ \A j \in 1 .. Len(jobs') : jobs'[j].completed /\ jobs'[j].ok => jobs'[j].seq \in 1 .. doorbell'
      BY <1>3, <2>1, <2>3, <2>4
    <2> QED BY <2>1, <2>7, <2>8, <2>9, <2>10 DEF Numbers
  <1> QED BY <1>5, <1>7, <1>8 DEF Host!Completer

\* The steps of the host keep the numbers.
LEMMA HostNumbers ==
  ASSUME HostInv, HostInv', Numbers, doorbell \in Nat, Host!HostNext
  PROVE  Numbers'
  <1>1. CASE \E kind \in Kinds : Host!Enqueue(kind)
    BY <1>1, EnqueueNumbers
  <1>2. CASE \E j \in 1 .. Len(jobs) : Host!Release(j)
    BY <1>2, ReleaseNumbers
  <1>3. CASE Host!Submitter \/ Host!Completer
    BY <1>3, SubmitNumbers, CompleterNumbers
  <1>4. CASE Host!Shutdown
    <2>1. UNCHANGED <<jobs, hostq, submitter, submitSeq, inflight, doorbell>>
      BY <1>4 DEF Host!Shutdown, Host!ShutdownStop, Host!ShutdownWake, Host!ShutdownJoin
    <2>2. completer' = "pop" => completer = "pop"
      BY <1>4 DEF Host!Shutdown, Host!ShutdownStop, Host!ShutdownWake, Host!ShutdownJoin
    <2>3. Freed' = Freed
      BY <2>1 DEF Busy, Freed
    <2> QED BY <2>1, <2>2, <2>3 DEF Numbers
  <1> QED BY <1>1, <1>2, <1>3, <1>4 DEF Host!HostNext, Host!Job

-----------------------------------------------------------------------------
(* The DPU with the ring threads off: one worker.                            *)

WorkerRec == [at : {"idle", "setup", "run", "filled", "count", "stage", "ring", "local"},
              msg : [job : Nat, kind : JobKind \cup {"none"}],
              slot : {-1, 0, 1}, tmp : Nat]

DpuTypes ==
    /\ msgq \in Seq(Cmd)
    /\ worker[0] \in WorkerRec
    /\ worker[1] = Dpu!Idle /\ DOMAIN worker = {0, 1}
    /\ heads \in [{0, 1} -> {"count", "data"} \X Nat]
    /\ dbSeq \in Nat /\ doorbell \in Nat /\ doorbell <= dbSeq
    /\ worker[0].at = "stage" => worker[0].tmp = dbSeq
    /\ worker[0].at = "ring" => heads[Dpu!Staging(0)] = Dpu!Count(dbSeq)

\* The commands that wait, in the message queue and then in the channel.
Waiting == Len(msgq) + Len(channel)
Command(i) == IF i <= Len(msgq) THEN msgq[i] ELSE channel[i - Len(msgq)]

\* A command that a worker has and that has not been counted; one that is sent
\* and whose job has no number yet.
Pending == IF worker[0].at \in {"setup", "run", "filled", "count", "stage"} THEN 1 ELSE 0
Sending == IF submitter.at = "number" THEN 1 ELSE 0
Unsent == IF submitter.at = "impl" THEN 1 ELSE 0

\* The jobs of the waiting commands are in the order of the commands, so there
\* are no more commands than jobs from the first to the last, and the doorbell
\* has not reached the number of any.
Commands ==
    /\ dbSeq + Pending + Waiting <= submitSeq + Sending
    /\ \A i \in 1 .. Waiting :
         /\ Command(i).job \in 1 .. Len(jobs) - Len(hostq) - Unsent
         /\ \/ jobs[Command(i).job].seq >= dbSeq + Pending + i
            \/ submitter.at = "number" /\ Command(i).job = submitter.job
    /\ \A i, k \in 1 .. Waiting : i <= k => Command(k).job - Command(i).job >= k - i
    /\ Pending = 1 => worker[0].msg.job \in 1 .. Len(jobs)

InlineInv == ~ ringQueues => Numbers /\ DpuTypes /\ Commands /\ dropped = {}

\* The inline worker changes.
LEMMA WorkerUpdate ==
  ASSUME DpuTypes, NEW r, worker' = [worker EXCEPT ![0] = r]
  PROVE  worker'[0] = r /\ worker'[1] = Dpu!Idle /\ DOMAIN worker' = {0, 1}
  BY DEF DpuTypes

\* A worker that has set its command up has the command it started with.
LEMMA Running ==
  ASSUME worker[0] \in WorkerRec,
         \/ worker' = [worker EXCEPT ![0] = [worker[0] EXCEPT !.at = "run"]]
         \/ \E t \in {0, 1} : worker' = [worker EXCEPT ![0] = [worker[0] EXCEPT !.at = "run", !.slot = t]]
  PROVE  \E q \in WorkerRec : /\ worker' = [worker EXCEPT ![0] = q]
                              /\ q.at = "run" /\ q.msg = worker[0].msg
  <1>1. PICK x : x = worker[0]
    OBVIOUS
  <1>2. x \in WorkerRec
    BY <1>1
  <1>3. CASE worker' = [worker EXCEPT ![0] = [worker[0] EXCEPT !.at = "run"]]
    <2> DEFINE q == [x EXCEPT !.at = "run"]
    <2>1. q \in WorkerRec /\ q.at = "run" /\ q.msg = x.msg
      BY <1>2 DEF WorkerRec
    <2>2. worker' = [worker EXCEPT ![0] = q]
      BY <1>1, <1>3
    <2> HIDE DEF q
    <2> QED BY <1>1, <2>1, <2>2
  <1>4. ASSUME NEW t \in {0, 1},
               worker' = [worker EXCEPT ![0] = [worker[0] EXCEPT !.at = "run", !.slot = t]]
        PROVE  \E q \in WorkerRec : /\ worker' = [worker EXCEPT ![0] = q]
                                    /\ q.at = "run" /\ q.msg = worker[0].msg
    <2> DEFINE q == [x EXCEPT !.at = "run", !.slot = t]
    <2>1. q \in WorkerRec /\ q.at = "run" /\ q.msg = x.msg
      BY <1>2 DEF WorkerRec
    <2>2. worker' = [worker EXCEPT ![0] = q]
      BY <1>1, <1>4
    <2> HIDE DEF q
    <2> QED BY <1>1, <2>1, <2>2
  <1> QED BY <1>3, <1>4

\* With the ring threads off, the second worker never does anything.
LEMMA InlineStep ==
  ASSUME DpuTypes, ~ ringQueues, Dpu!DpuNext
  PROVE  Dpu!Receive \/ Dpu!TakeInline \/ Dpu!Execute(0)
  <1>1. worker[1].at = "idle"
    BY DEF DpuTypes, Dpu!Idle
  <1>2. ~ Dpu!Execute(1)
    BY <1>1 DEF Dpu!Execute, Dpu!Setup, Dpu!SetupFails, Dpu!Fill, Dpu!Finish, Dpu!LoadSeq,
                Dpu!Stage, Dpu!Doorbell, Dpu!DoorbellLost, Dpu!Leave, Dpu!At
  <1> QED BY <1>2 DEF Dpu!DpuNext, Dpu!Dispatch, Dpu!Worker, Dpu!TakeRing, Dpu!Ring

\* A step of the inline worker: it keeps its command, what is left to count
\* does not grow, and the counter is a number it has staged.
LEMMA ExecuteStep ==
  ASSUME DpuTypes, Dpu!Execute(0)
  PROVE  /\ DpuTypes'
         /\ dbSeq' + Pending' <= dbSeq + Pending /\ dbSeq <= dbSeq' /\ doorbell <= doorbell'
         /\ Pending' = 1 => Pending = 1 /\ worker'[0].msg = worker[0].msg
  <1> DEFINE r == worker[0]
  <1>1. r \in WorkerRec
    BY DEF DpuTypes
  <1>2. dbSeq \in Nat /\ doorbell \in Nat /\ Pending \in {0, 1}
    BY DEF DpuTypes, Pending
  <1>3. CASE Dpu!Setup(0) \/ Dpu!SetupFails(0)
    <2>1. /\ r.at = "setup" /\ UNCHANGED <<msgq, heads, dbSeq, doorbell>>
          /\ \/ worker' = [worker EXCEPT ![0] = [r EXCEPT !.at = "run"]]
             \/ \E s \in {0, 1} : worker' = [worker EXCEPT ![0] = [r EXCEPT !.at = "run", !.slot = s]]
             \/ worker' = [worker EXCEPT ![0] = Dpu!Idle]
      BY <1>3 DEF Dpu!Setup, Dpu!SetupFails, Dpu!At, Dpu!Goto, Dpu!Slot
    <2>2. CASE worker' = [worker EXCEPT ![0] = Dpu!Idle]
      <3>1. Dpu!Idle \in WorkerRec /\ Dpu!Idle.at = "idle"
        BY DEF Dpu!Idle, WorkerRec
      <3>2. /\ worker'[0].at = "idle" /\ worker'[0] \in WorkerRec
            /\ worker'[1] = Dpu!Idle /\ DOMAIN worker' = {0, 1}
        BY <2>2, <3>1, WorkerUpdate
      <3>3. DpuTypes'
        BY <2>1, <3>2 DEF DpuTypes
      <3>4. Pending = 1 /\ Pending' = 0
        BY <2>1, <3>2 DEF Pending
      <3> QED BY <1>2, <2>1, <3>3, <3>4
    <2>3. CASE worker' # [worker EXCEPT ![0] = Dpu!Idle]
      <3>1. PICK q \in WorkerRec : /\ worker' = [worker EXCEPT ![0] = q]
                                   /\ q.at = "run" /\ q.msg = r.msg
        BY <1>1, <2>1, <2>3, Running
      <3>2. worker'[0] = q /\ worker'[1] = Dpu!Idle /\ DOMAIN worker' = {0, 1}
        BY <3>1, WorkerUpdate
      <3> QED BY <1>2, <2>1, <3>1, <3>2 DEF DpuTypes, Pending
    <2> QED BY <2>2, <2>3
  <1>4. CASE Dpu!Fill(0) \/ Dpu!Finish(0)
    <2>1. PICK q \in WorkerRec : /\ worker' = [worker EXCEPT ![0] = q]
                                 /\ q.at \in {"filled", "count"} /\ q.msg = r.msg
      BY <1>1, <1>4 DEF Dpu!Fill, Dpu!Finish, Dpu!Goto, WorkerRec
    <2>2. worker'[0] = q /\ worker'[1] = Dpu!Idle /\ DOMAIN worker' = {0, 1}
      BY <2>1, WorkerUpdate
    <2>3. r.at \in {"run", "filled"} /\ UNCHANGED <<msgq, dbSeq, doorbell>>
      BY <1>4 DEF Dpu!Fill, Dpu!Finish, Dpu!At
    <2>4. heads' \in [{0, 1} -> {"count", "data"} \X Nat]
      BY <1>1, <1>4 DEF DpuTypes, WorkerRec, Dpu!Fill, Dpu!Finish, Dpu!Data, Dpu!OwnSlot
    <2> QED BY <1>2, <2>1, <2>2, <2>3, <2>4 DEF DpuTypes, Pending
  <1>5. CASE Dpu!LoadSeq(0)
    <2> DEFINE q == [r EXCEPT !.at = "stage", !.tmp = dbSeq]
    <2>1. /\ worker' = [worker EXCEPT ![0] = q] /\ r.at = "count"
          /\ UNCHANGED <<msgq, heads, dbSeq, doorbell>>
      BY <1>5 DEF Dpu!LoadSeq, Dpu!At
    <2>2. q \in WorkerRec /\ q.at = "stage" /\ q.tmp = dbSeq /\ q.msg = r.msg
      BY <1>1, <1>2 DEF WorkerRec
    <2>3. worker'[0] = q /\ worker'[1] = Dpu!Idle /\ DOMAIN worker' = {0, 1}
      BY <2>1, WorkerUpdate
    <2> HIDE DEF q
    <2> QED BY <1>2, <2>1, <2>2, <2>3 DEF DpuTypes, Pending
  <1>6. CASE Dpu!Stage(0)
    <2> DEFINE q == [r EXCEPT !.at = "ring"]
    <2>1. /\ worker' = [worker EXCEPT ![0] = q] /\ r.at = "stage" /\ dbSeq' = r.tmp + 1
          /\ heads' = [heads EXCEPT ![Dpu!Staging(0)] = Dpu!Count(r.tmp + 1)]
          /\ UNCHANGED <<msgq, doorbell>>
      BY <1>6 DEF Dpu!Stage, Dpu!At, Dpu!Goto
    <2>2. q \in WorkerRec /\ q.at = "ring" /\ q.slot = r.slot
      BY <1>1 DEF WorkerRec
    <2>3. worker'[0] = q /\ worker'[1] = Dpu!Idle /\ DOMAIN worker' = {0, 1}
      BY <2>1, WorkerUpdate
    <2> HIDE DEF q
    <2>4. dbSeq' = dbSeq + 1
      BY <2>1 DEF DpuTypes
    <2>5. Dpu!Staging(0) \in {0, 1} /\ Dpu!Staging(0)' = Dpu!Staging(0)
      BY <1>1, <2>2, <2>3 DEF Dpu!Staging, Dpu!OwnSlot, WorkerRec
    <2>6. Dpu!Count(dbSeq') \in {"count", "data"} \X Nat
      BY <1>2, <2>4 DEF Dpu!Count
    <2>7. heads' \in [{0, 1} -> {"count", "data"} \X Nat] /\ heads'[Dpu!Staging(0)] = Dpu!Count(dbSeq')
      BY <2>1, <2>5, <2>6 DEF DpuTypes
    <2>8. (heads[Dpu!Staging(0)])' = Dpu!Count(dbSeq')
      BY <2>5, <2>7
    <2> QED BY <1>2, <2>1, <2>2, <2>3, <2>4, <2>5, <2>7, <2>8 DEF DpuTypes, Pending, Dpu!Count
  <1>7. CASE Dpu!Doorbell(0) \/ Dpu!DoorbellLost(0)
    <2> DEFINE q == [r EXCEPT !.at = "local"]
    <2>1. worker' = [worker EXCEPT ![0] = q] /\ r.at = "ring" /\ UNCHANGED <<msgq, heads, dbSeq>>
      BY <1>7 DEF Dpu!Doorbell, Dpu!DoorbellLost, Dpu!At, Dpu!Goto
    <2>2. q \in WorkerRec /\ q.at = "local"
      BY <1>1 DEF WorkerRec
    <2>3. worker'[0] = q /\ worker'[1] = Dpu!Idle /\ DOMAIN worker' = {0, 1}
      BY <2>1, WorkerUpdate
    <2> HIDE DEF q
    <2>4. doorbell' \in {doorbell, dbSeq}
      BY <1>7, <2>1 DEF Dpu!Doorbell, Dpu!DoorbellLost, DpuTypes, Dpu!Count
    <2> QED BY <1>2, <2>1, <2>2, <2>3, <2>4 DEF DpuTypes, Pending
  <1>8. CASE Dpu!Leave(0)
    <2>1. /\ worker' = [worker EXCEPT ![0] = Dpu!Idle] /\ r.at = "local"
          /\ UNCHANGED <<msgq, heads, dbSeq, doorbell>>
      BY <1>8 DEF Dpu!Leave, Dpu!At
    <2>2. Dpu!Idle \in WorkerRec /\ Dpu!Idle.at = "idle"
      BY DEF Dpu!Idle, WorkerRec
    <2>3. worker'[0] = Dpu!Idle /\ worker'[1] = Dpu!Idle /\ DOMAIN worker' = {0, 1}
      BY <2>1, WorkerUpdate
    <2> QED BY <1>2, <2>1, <2>2, <2>3 DEF DpuTypes, Pending
  <1> QED BY <1>3, <1>4, <1>5, <1>6, <1>7, <1>8 DEF Dpu!Execute

\* A step that leaves the channel and the queue alone leaves the commands alone.
LEMMA SameCommands ==
  ASSUME UNCHANGED <<msgq, channel>>
  PROVE  Waiting' = Waiting /\ \A i \in 1 .. Waiting : Command(i)' = Command(i)
  <1>1. Len(msgq') = Len(msgq) /\ Waiting' = Waiting
    BY DEF Waiting
  <1>2. ASSUME NEW i \in 1 .. Waiting PROVE Command(i)' = Command(i)
    BY <1>1 DEF Command
  <1> QED BY <1>1, <1>2

\* The sizes and the elements that the invariants speak of.
LEMMA Sizes ==
  ASSUME HostInv, DpuTypes
  PROVE  /\ Len(jobs) \in Nat /\ Len(hostq) \in Nat /\ Len(inflight) \in Nat
         /\ Len(msgq) \in Nat /\ Len(channel) \in Nat /\ Waiting \in Nat
         /\ submitSeq \in Nat /\ dbSeq \in Nat /\ doorbell \in Nat /\ doorbell <= dbSeq
         /\ Pending \in {0, 1} /\ Sending \in {0, 1} /\ Unsent \in {0, 1} /\ Busy \in {0, 1}
         /\ Freed \in Nat /\ Freed + Busy + Len(inflight) = Len(jobs) - Len(hostq)
         /\ \A i \in 1 .. Waiting : Command(i) \in Cmd /\ Command(i).job \in Nat
         /\ \A j \in 1 .. Len(jobs) : jobs[j].seq \in Nat
  <1>1. /\ Len(jobs) \in Nat /\ Len(hostq) \in Nat /\ Len(inflight) \in Nat
        /\ Len(msgq) \in Nat /\ Len(channel) \in Nat /\ submitSeq \in Nat
        /\ dbSeq \in Nat /\ doorbell \in Nat /\ doorbell <= dbSeq
    BY DEF HostInv, HostTypes, DpuTypes
  <1>2. Pending \in {0, 1} /\ Sending \in {0, 1} /\ Unsent \in {0, 1} /\ Busy \in {0, 1}
    BY DEF Pending, Sending, Unsent, Busy
  <1>3. Freed \in Nat /\ Freed + Busy + Len(inflight) = Len(jobs) - Len(hostq)
    BY <1>1, <1>2 DEF HostInv, Order, Freed
  <1>4. Waiting \in Nat
    BY <1>1 DEF Waiting
  <1>5. ASSUME NEW i \in 1 .. Waiting PROVE Command(i) \in Cmd /\ Command(i).job \in Nat
    <2>1. msgq \in Seq(Cmd) /\ channel \in Seq(Cmd)
      BY DEF HostInv, HostTypes, DpuTypes
    <2>2. Command(i) \in Cmd
      BY <1>1, <1>5, <2>1 DEF Command, Waiting
    <2> QED BY <2>2 DEF Cmd
  <1> QED BY <1>1, <1>2, <1>3, <1>4, <1>5, JobTypes

\* The waiting commands when one is sent, received or taken.
LEMMA Sent ==
  ASSUME HostInv, DpuTypes, NEW c \in Cmd, channel' = Append(channel, c), msgq' = msgq
  PROVE  /\ Waiting' = Waiting + 1 /\ Command(Waiting)' = c
         /\ \A i \in 1 .. Waiting : Command(i)' = Command(i)
  <1>1. channel \in Seq(Cmd) /\ Len(msgq) \in Nat /\ Len(channel) \in Nat
    BY Sizes DEF HostInv, HostTypes
  <1>2. /\ Len(channel') = Len(channel) + 1 /\ channel'[Len(channel) + 1] = c
        /\ \A i \in 1 .. Len(channel) : channel'[i] = channel[i]
    BY <1>1, Pushed
  <1>3. Waiting' = Waiting + 1
    BY <1>1, <1>2 DEF Waiting
  <1>4. Command(Waiting)' = c
    <2>1. ~ (Waiting' <= Len(msgq')) /\ Waiting' - Len(msgq') = Len(channel) + 1
      BY <1>1, <1>2 DEF Waiting
    <2> QED BY <1>2, <2>1 DEF Command
  <1>5. ASSUME NEW i \in 1 .. Waiting PROVE Command(i)' = Command(i)
    BY <1>1, <1>2, <1>5 DEF Waiting, Command
  <1> QED BY <1>3, <1>4, <1>5

\* The waiting commands are the same when the ComCh callback has queued one of them.
LEMMA Received ==
  ASSUME HostInv, DpuTypes, channel # <<>>,
         channel' = Tail(channel), msgq' = Append(msgq, Head(channel))
  PROVE  /\ Waiting' = Waiting /\ msgq' \in Seq(Cmd)
         /\ \A i \in 1 .. Waiting : Command(i)' = Command(i)
  <1>1. channel \in Seq(Cmd) /\ msgq \in Seq(Cmd) /\ Len(msgq) \in Nat /\ Len(channel) \in Nat
    BY Sizes DEF HostInv, HostTypes, DpuTypes
  <1>2. /\ Len(channel') = Len(channel) - 1 /\ Len(channel) > 0
        /\ Head(channel) = channel[1] /\ channel[1] \in Cmd
        /\ \A i \in 1 .. Len(channel) - 1 : channel'[i] = channel[i + 1]
    BY <1>1, Popped
  <1>3. /\ msgq' \in Seq(Cmd) /\ Len(msgq') = Len(msgq) + 1 /\ msgq'[Len(msgq) + 1] = channel[1]
        /\ \A i \in 1 .. Len(msgq) : msgq'[i] = msgq[i]
    BY <1>1, <1>2, Pushed
  <1>4. Waiting' = Waiting
    BY <1>1, <1>2, <1>3 DEF Waiting
  <1>5. ASSUME NEW i \in 1 .. Waiting PROVE Command(i)' = Command(i)
    <2>1. CASE i <= Len(msgq)
      BY <1>1, <1>3, <2>1 DEF Command
    <2>2. CASE i = Len(msgq) + 1
      BY <1>1, <1>3, <2>2 DEF Command
    <2>3. CASE i > Len(msgq) + 1
      <3>1. i - Len(msgq) - 1 \in 1 .. Len(channel) - 1
        BY <1>1, <2>3 DEF Waiting
      <3>2. channel'[i - Len(msgq) - 1] = channel[i - Len(msgq) - 1 + 1]
        BY <1>2, <3>1
      <3>3. /\ i - Len(msgq) - 1 + 1 = i - Len(msgq) /\ i - Len(msgq') = i - Len(msgq) - 1
            /\ ~ (i <= Len(msgq)) /\ ~ (i <= Len(msgq'))
        BY <1>1, <1>3, <2>3
      <3> QED BY <3>2, <3>3 DEF Command
    <2> QED BY <1>1, <2>1, <2>2, <2>3 DEF Waiting
  <1> QED BY <1>3, <1>4, <1>5

\* The message thread takes the first of the waiting commands.
LEMMA Taken ==
  ASSUME HostInv, DpuTypes, msgq # <<>>, msgq' = Tail(msgq), channel' = channel
  PROVE  /\ Waiting' = Waiting - 1 /\ Waiting > 0 /\ msgq' \in Seq(Cmd)
         /\ Command(1) = Head(msgq)
         /\ \A i \in 1 .. Waiting - 1 : Command(i)' = Command(i + 1)
  <1>1. channel \in Seq(Cmd) /\ msgq \in Seq(Cmd) /\ Len(msgq) \in Nat /\ Len(channel) \in Nat
    BY Sizes DEF HostInv, HostTypes, DpuTypes
  <1>2. /\ msgq' \in Seq(Cmd) /\ Len(msgq') = Len(msgq) - 1 /\ Len(msgq) > 0 /\ Head(msgq) = msgq[1]
        /\ \A i \in 1 .. Len(msgq) - 1 : msgq'[i] = msgq[i + 1]
    BY <1>1, Popped
  <1>3. Waiting' = Waiting - 1 /\ Waiting > 0
    BY <1>1, <1>2 DEF Waiting
  <1>4. Command(1) = Head(msgq)
    BY <1>1, <1>2 DEF Command
  <1>5. ASSUME NEW i \in 1 .. Waiting - 1 PROVE Command(i)' = Command(i + 1)
    BY <1>1, <1>2 DEF Command, Waiting
  <1> QED BY <1>2, <1>3, <1>4, <1>5

\* Nothing the commands are compared with moves the wrong way.
LEMMA CommandsKept ==
  ASSUME HostInv, HostInv', DpuTypes, DpuTypes', Commands,
         Waiting' = Waiting, \A i \in 1 .. Waiting : Command(i)' = Command(i),
         dbSeq' + Pending' <= dbSeq + Pending, submitSeq' + Sending' >= submitSeq + Sending,
         Pending' = 1 => Pending = 1 /\ worker'[0].msg = worker[0].msg,
         Len(jobs) <= Len(jobs'),
         Len(jobs) - Len(hostq) - Unsent <= Len(jobs') - Len(hostq') - Unsent',
         \A j \in 1 .. Len(jobs) : jobs'[j].seq >= jobs[j].seq,
         submitter.at = "number" =>
            \/ submitter'.at = "number" /\ submitter'.job = submitter.job
            \/ submitter.job \in 1 .. Len(jobs) => jobs'[submitter.job].seq >= dbSeq + Pending + Waiting
  PROVE  Commands'
  <1>1. /\ Len(jobs) \in Nat /\ Len(hostq) \in Nat /\ Waiting \in Nat
        /\ submitSeq \in Nat /\ dbSeq \in Nat
        /\ Pending \in {0, 1} /\ Sending \in {0, 1} /\ Unsent \in {0, 1}
        /\ \A j \in 1 .. Len(jobs) : jobs[j].seq \in Nat
    BY Sizes
  <1>6. /\ dbSeq' \in Nat /\ Pending' \in {0, 1} /\ submitSeq' \in Nat /\ Sending' \in {0, 1}
        /\ Unsent' \in {0, 1} /\ Len(jobs') \in Nat /\ Len(hostq') \in Nat
    <2>1. dbSeq' \in Nat
      BY DEF DpuTypes
    <2>2. submitSeq' \in Nat
      BY DEF HostInv, HostTypes
    <2>3. Pending' \in {0, 1} /\ Sending' \in {0, 1} /\ Unsent' \in {0, 1}
      BY DEF Pending, Sending, Unsent
    <2>4. Len(jobs') \in Nat
      <3>1. jobs' \in Seq(JobRec)
        BY DEF HostInv, HostTypes
      <3> QED BY <3>1
    <2>5. Len(hostq') \in Nat
      <3>1. hostq' \in Seq(Nat)
        BY DEF HostInv, HostTypes
      <3> QED BY <3>1
    <2> QED BY <2>1, <2>2, <2>3, <2>4, <2>5
  <1>7. \A j \in 1 .. Len(jobs') : jobs'[j].seq \in Nat
    <2>1. \A j \in 1 .. Len(jobs') : jobs'[j] \in JobRec
      BY DEF HostInv, HostTypes
    <2> QED BY <2>1 DEF JobRec
  <1>2. (dbSeq + Pending + Waiting <= submitSeq + Sending)'
    <2>1. dbSeq + Pending + Waiting <= submitSeq + Sending
      BY DEF Commands
    <2>2. PICK d \in Nat, p \in {0, 1}, s \in Nat, n \in {0, 1} :
             dbSeq' = d /\ Pending' = p /\ submitSeq' = s /\ Sending' = n
      BY <1>6
    <2>3. d + p <= dbSeq + Pending /\ s + n >= submitSeq + Sending
      BY <2>2
    <2>4. d + p + Waiting <= s + n
      BY <1>1, <2>1, <2>3
    <2> QED BY <2>2, <2>4
  <1>3. ASSUME NEW i \in 1 .. Waiting
        PROVE  /\ Command(i).job \in 1 .. Len(jobs') - Len(hostq') - Unsent'
               /\ \/ jobs'[Command(i).job].seq >= dbSeq' + Pending' + i
                  \/ submitter'.at = "number" /\ Command(i).job = submitter'.job
    <2>1. PICK j : j = Command(i).job
      OBVIOUS
    <2>2. /\ j \in 1 .. Len(jobs) - Len(hostq) - Unsent
          /\ \/ jobs[j].seq >= dbSeq + Pending + i
             \/ submitter.at = "number" /\ j = submitter.job
      BY <1>3, <2>1 DEF Commands
    <2>3. j \in 1 .. Len(jobs) /\ j \in 1 .. Len(jobs') - Len(hostq') - Unsent' /\ i \in Nat /\ i <= Waiting
      <3>1. j \in Nat /\ j >= 1 /\ j <= Len(jobs) - Len(hostq) - Unsent
        BY <1>1, <2>2
      <3>2. j <= Len(jobs)
        BY <1>1, <3>1
      <3>3. PICK a \in Nat, b \in Nat, u \in {0, 1} :
               Len(jobs') = a /\ Len(hostq') = b /\ Unsent' = u
        BY <1>6
      <3>4. j \in 1 .. a - b - u
        BY <1>1, <3>1, <3>3
      <3> QED BY <1>1, <1>3, <3>1, <3>2, <3>3, <3>4
    <2>4. j \in 1 .. Len(jobs')
      BY <1>1, <1>6, <2>3
    <2>5. jobs[j].seq \in Nat /\ jobs'[j].seq \in Nat /\ jobs'[j].seq >= jobs[j].seq
      BY <1>1, <1>7, <2>3, <2>4
    <2>6. dbSeq \in Nat /\ Pending \in Nat /\ dbSeq' \in Nat /\ Pending' \in Nat /\ Waiting \in Nat
      BY <1>1, <1>6
    <2>7. /\ dbSeq' + Pending' + i <= dbSeq + Pending + i /\ dbSeq + Pending + i <= dbSeq + Pending + Waiting
          /\ dbSeq' + Pending' + i \in Nat /\ dbSeq + Pending + i \in Nat /\ dbSeq + Pending + Waiting \in Nat
      <3>1. PICK d \in Nat, p \in Nat : dbSeq' = d /\ Pending' = p
        BY <2>6
      <3>2. d + p <= dbSeq + Pending
        BY <3>1
      <3>3. /\ d + p + i <= dbSeq + Pending + i /\ dbSeq + Pending + i <= dbSeq + Pending + Waiting
            /\ d + p + i \in Nat /\ dbSeq + Pending + i \in Nat /\ dbSeq + Pending + Waiting \in Nat
        BY <2>3, <2>6, <3>2
      <3> QED BY <3>1, <3>3
    <2>8. CASE jobs[j].seq >= dbSeq + Pending + i
      BY <2>1, <2>3, <2>5, <2>7, <2>8
    <2>9. CASE submitter.at = "number" /\ j = submitter.job
      <3>1. \/ submitter'.at = "number" /\ submitter'.job = j
            \/ jobs'[j].seq >= dbSeq + Pending + Waiting
        BY <2>3, <2>9
      <3> QED BY <2>1, <2>3, <2>5, <2>7, <3>1
    <2> QED BY <2>2, <2>8, <2>9
  <1>4. (Pending = 1 => worker[0].msg.job \in 1 .. Len(jobs))'
    <2>1. Pending = 1 => worker[0].msg.job \in 1 .. Len(jobs)
      BY DEF Commands
    <2> QED BY <1>1, <1>6, <2>1
  <1>5. \A i, k \in 1 .. Waiting : i <= k => Command(k).job - Command(i).job >= k - i
    BY DEF Commands
  <1> QED BY <1>2, <1>3, <1>4, <1>5 DEF Commands

\* The jobs of the waiting commands have not left the host's pipeline and no
\* more than the inflight ring and the submit thread hold are in it.
LEMMA QueueBound ==
  ASSUME HostInv, Numbers, DpuTypes, Commands
  PROVE  Waiting <= InflightCap + 1
  <1>1. CASE Waiting = 0
    BY <1>1, OffloadAssumption
  <1>2. CASE Waiting > 0
    <2>6. /\ Waiting \in Nat /\ Len(inflight) \in Nat /\ Freed \in Nat /\ Busy \in {0, 1}
          /\ Unsent \in {0, 1} /\ Freed + Busy + Len(inflight) = Len(jobs) - Len(hostq)
          /\ Len(jobs) \in Nat /\ Len(hostq) \in Nat /\ Command(Waiting).job \in Nat /\ Command(1).job \in Nat
      BY <1>2, Sizes
    <2>1. 1 \in 1 .. Waiting /\ Waiting \in 1 .. Waiting
      BY <1>2, Sizes
    <2>2. Command(Waiting).job - Command(1).job >= Waiting - 1
      BY <2>1, Sizes DEF Commands
    <2>3. Command(Waiting).job <= Freed + Busy + Len(inflight) /\ Command(1).job \in 1 .. Len(jobs)
      <3>1. /\ Command(Waiting).job \in 1 .. Len(jobs) - Len(hostq) - Unsent
            /\ Command(1).job \in 1 .. Len(jobs) - Len(hostq) - Unsent
        BY <2>1 DEF Commands
      <3> QED BY <2>6, <3>1
    <2>4. Command(1).job > Freed
      <3>1. CASE jobs[Command(1).job].seq >= dbSeq + Pending + 1
        <4>1. /\ dbSeq \in Nat /\ Pending \in {0, 1} /\ doorbell \in Nat /\ doorbell <= dbSeq
              /\ \A j \in 1 .. Len(jobs) : jobs[j].seq \in Nat
          BY Sizes
        <4>2. jobs[Command(1).job].seq > doorbell
          BY <2>3, <3>1, <4>1
        <4>3. \A j \in 1 .. Freed : jobs[j].seq <= doorbell
          BY DEF Numbers
        <4>4. PICK c : c = Command(1).job
          OBVIOUS
        <4>5. c \in 1 .. Len(jobs) /\ ~ (jobs[c].seq <= doorbell)
          BY <2>3, <4>1, <4>2, <4>4
        <4>6. ~ (c \in 1 .. Freed)
          BY <4>3, <4>5
        <4>7. c > Freed
          BY <2>6, <4>5, <4>6
        <4> QED BY <4>4, <4>7
      <3>2. CASE submitter.at = "number" /\ Command(1).job = submitter.job
        BY <3>2, SubmitterJob, Sizes
      <3> QED BY <2>1, <3>1, <3>2 DEF Commands
    <2>5. Len(inflight) <= InflightCap
      BY DEF HostInv, HostTypes
    <2> QED BY <2>2, <2>3, <2>4, <2>5, <2>6, OffloadAssumption
  <1> QED BY <1>1, <1>2, Sizes

\* What the DPU can see of a step of the host that neither sends a command nor
\* gives a job its number: jobs without a number are added.
Quiet ==
    /\ UNCHANGED <<submitSeq, channel, doorbell>>
    /\ Len(jobs) <= Len(jobs')
    /\ Len(jobs) - Len(hostq) - Unsent <= Len(jobs') - Len(hostq') - Unsent'
    /\ \A j \in 1 .. Len(jobs) : jobs'[j].seq = jobs[j].seq
    /\ \A j \in Len(jobs) + 1 .. Len(jobs') : jobs'[j].seq = 0
    /\ submitter.at = "number" => UNCHANGED submitter
    /\ submitter'.at = "number" => submitter.at = "number"

\* A step that changes one job, and not its number.
LEMMA OneJob ==
  ASSUME HostInv, NEW c \in 1 .. Len(jobs), NEW r \in JobRec, r.seq = jobs[c].seq,
         jobs' = [jobs EXCEPT ![c] = r]
  PROVE  /\ Len(jobs') = Len(jobs)
         /\ \A j \in 1 .. Len(jobs) : jobs'[j].seq = jobs[j].seq
  <1>1. /\ Len(jobs') = Len(jobs)
        /\ \A j \in 1 .. Len(jobs) : jobs'[j] = IF j = c THEN r ELSE jobs[j]
    BY JobUpdate DEF HostInv, HostTypes
  <1> QED BY <1>1

\* Apart from sending a command and giving its job the number, every step of the
\* host is one the DPU cannot see.
LEMMA HostQuiet ==
  ASSUME HostInv, DpuTypes, Host!HostNext, ~ Host!SubmitSend, ~ Host!SubmitNumber
  PROVE  Quiet
  <1>1. Len(jobs) \in Nat /\ Len(hostq) \in Nat /\ Unsent \in {0, 1}
    BY Sizes
  <1>2. ASSUME NEW kind \in Kinds, Host!Enqueue(kind) PROVE Quiet
    <2> DEFINE job == [kind |-> kind, seq |-> 0, ok |-> TRUE, completed |-> FALSE, refcnt |-> 2]
    <2>1. /\ jobs' = Append(jobs, job) /\ hostq' = Append(hostq, Len(jobs) + 1)
          /\ UNCHANGED <<submitter, submitSeq, channel, doorbell>>
      BY <1>2 DEF Host!Enqueue
    <2>2. job \in JobRec /\ job.seq = 0
      BY OffloadAssumption DEF JobRec, JobKind
    <2> HIDE DEF job
    <2>3. /\ Len(jobs') = Len(jobs) + 1 /\ jobs'[Len(jobs) + 1] = job
          /\ \A j \in 1 .. Len(jobs) : jobs'[j] = jobs[j]
      BY <2>1, <2>2, Pushed DEF HostInv, HostTypes
    <2>4. Len(hostq') = Len(hostq) + 1
      BY <2>1, Pushed DEF HostInv, HostTypes
    <2>5. Unsent' = Unsent
      BY <2>1 DEF Unsent
    <2>6. \A j \in Len(jobs) + 1 .. Len(jobs') : jobs'[j].seq = 0
      BY <1>1, <2>2, <2>3
    <2> QED BY <1>1, <2>1, <2>3, <2>4, <2>5, <2>6 DEF Quiet
  <1>3. ASSUME NEW c \in 1 .. Len(jobs), Host!Release(c) PROVE Quiet
    <2> DEFINE r == [jobs[c] EXCEPT !.refcnt = @ - 1]
    <2>1. /\ jobs' = [jobs EXCEPT ![c] = r]
          /\ UNCHANGED <<hostq, submitter, submitSeq, channel, doorbell>>
      BY <1>3 DEF Host!Release
    <2>2. r \in JobRec /\ r.seq = jobs[c].seq
      BY JobTypes DEF JobRec
    <2> HIDE DEF r
    <2>3. Len(jobs') = Len(jobs) /\ \A j \in 1 .. Len(jobs) : jobs'[j].seq = jobs[j].seq
      BY <2>1, <2>2, OneJob
    <2>4. Unsent' = Unsent
      BY <2>1 DEF Unsent
    <2> QED BY <1>1, <2>1, <2>3, <2>4 DEF Quiet
  <1>4. CASE Host!SubmitPop
    <2>1. /\ submitter.at = "idle" /\ hostq # <<>> /\ hostq' = Tail(hostq)
          /\ submitter' = [at |-> "impl", job |-> Head(hostq)]
          /\ UNCHANGED <<jobs, submitSeq, channel, doorbell>>
      BY <1>4 DEF Host!SubmitPop
    <2>2. Len(hostq') = Len(hostq) - 1
      BY <2>1, Popped DEF HostInv, HostTypes
    <2>3. Unsent' = 1 /\ Unsent = 0
      BY <2>1 DEF Unsent
    <2> QED BY <1>1, <2>1, <2>2, <2>3 DEF Quiet
  <1>5. CASE Host!SubmitExit \/ Host!SubmitSignal \/ Host!SubmitPush
    <2>1. /\ submitter.at \in {"idle", "signal", "push"} /\ submitter'.at \in {"idle", "exited", "signal"}
          /\ UNCHANGED <<jobs, hostq, submitSeq, channel, doorbell>>
      BY <1>5 DEF Host!SubmitExit, Host!SubmitSignal, Host!SubmitPush, HostInv, HostTypes
    <2>2. Unsent' = 0 /\ Unsent = 0
      BY <2>1 DEF Unsent
    <2> QED BY <1>1, <2>1, <2>2 DEF Quiet
  <1>6. CASE Host!SubmitFails
    <2> DEFINE r == [jobs[submitter.job] EXCEPT !.ok = FALSE]
    <2>1. /\ submitter.at = "impl" /\ submitter' = [submitter EXCEPT !.at = "push"]
          /\ jobs' = [jobs EXCEPT ![submitter.job] = r]
          /\ UNCHANGED <<hostq, submitSeq, channel, doorbell>>
      BY <1>6 DEF Host!SubmitFails
    <2>2. submitter'.at = "push"
      BY <2>1 DEF HostInv, HostTypes
    <2>3. submitter.job \in 1 .. Len(jobs) /\ r \in JobRec /\ r.seq = jobs[submitter.job].seq
      BY <2>1, SubmitterJob DEF JobRec
    <2> HIDE DEF r
    <2>4. Len(jobs') = Len(jobs) /\ \A j \in 1 .. Len(jobs) : jobs'[j].seq = jobs[j].seq
      BY <2>1, <2>3, OneJob
    <2>5. Unsent' = 0 /\ Unsent = 1
      BY <2>1, <2>2 DEF Unsent
    <2> QED BY <1>1, <2>1, <2>2, <2>4, <2>5 DEF Quiet
  <1>7. CASE Host!Completer
    <2>1. UNCHANGED <<hostq, submitter, submitSeq, channel, doorbell>> /\ Unsent' = Unsent
      BY <1>7 DEF Host!Completer, Host!CompleterCheck, Host!CompleterLook, Host!CompleterSleep,
                  Host!CompleterAwake, Host!CompleterMark, Host!CompleterPop, Unsent
    <2>2. ASSUME completer \in {"spin", "pop"}
          PROVE  Head(inflight) \in 1 .. Len(jobs) /\ jobs[Head(inflight)] \in JobRec
      <3>1. inflight # <<>> /\ Len(inflight) > 0
        BY <2>2 DEF HostInv, Order, HostTypes
      <3>2. Head(inflight) = inflight[1]
        BY <3>1, Popped DEF HostInv, HostTypes
      <3>3. Head(inflight) \in 1 .. Len(jobs)
        <4>1. /\ inflight[1] = Freed + 1 /\ Freed \in Nat /\ Len(inflight) \in Nat /\ Busy \in {0, 1}
              /\ Freed + Busy + Len(inflight) = Len(jobs) - Len(hostq)
          BY <3>1, Sizes DEF HostInv, Order
        <4> QED BY <1>1, <3>1, <3>2, <4>1
      <3> QED BY <3>3, JobTypes
    <2>3. CASE Host!CompleterMark
      <3> DEFINE r == [jobs[Head(inflight)] EXCEPT !.completed = TRUE]
      <3>1. completer = "spin" /\ jobs' = [jobs EXCEPT ![Head(inflight)] = r]
        BY <2>3 DEF Host!CompleterMark
      <3>2. r \in JobRec /\ r.seq = jobs[Head(inflight)].seq
        BY <2>2, <3>1 DEF JobRec
      <3> HIDE DEF r
      <3>3. Len(jobs') = Len(jobs) /\ \A j \in 1 .. Len(jobs) : jobs'[j].seq = jobs[j].seq
        BY <2>2, <3>1, <3>2, OneJob
      <3> QED BY <1>1, <2>1, <3>3 DEF Quiet
    <2>4. CASE Host!CompleterPop
      <3> DEFINE r == [jobs[Head(inflight)] EXCEPT !.refcnt = @ - 1]
      <3>1. completer = "pop" /\ jobs' = [jobs EXCEPT ![Head(inflight)] = r]
        BY <2>4 DEF Host!CompleterPop
      <3>2. r \in JobRec /\ r.seq = jobs[Head(inflight)].seq
        BY <2>2, <3>1 DEF JobRec
      <3> HIDE DEF r
      <3>3. Len(jobs') = Len(jobs) /\ \A j \in 1 .. Len(jobs) : jobs'[j].seq = jobs[j].seq
        BY <2>2, <3>1, <3>2, OneJob
      <3> QED BY <1>1, <2>1, <3>3 DEF Quiet
    <2>5. CASE UNCHANGED jobs
      BY <1>1, <2>1, <2>5 DEF Quiet
    <2> QED BY <1>7, <2>3, <2>4, <2>5 DEF Host!Completer, Host!CompleterCheck, Host!CompleterLook,
                                            Host!CompleterSleep, Host!CompleterAwake
  <1>8. CASE Host!Shutdown
    <2>1. UNCHANGED <<jobs, hostq, submitter, submitSeq, channel, doorbell>>
      BY <1>8 DEF Host!Shutdown, Host!ShutdownStop, Host!ShutdownWake, Host!ShutdownJoin
    <2>2. Unsent' = Unsent
      BY <2>1 DEF Unsent
    <2> QED BY <1>1, <2>1, <2>2 DEF Quiet
  <1> QED BY <1>2, <1>3, <1>4, <1>5, <1>6, <1>7, <1>8 DEF Host!HostNext, Host!Submitter, Host!Job

\* Numbers that stay do not go down.
LEMMA NumbersUp ==
  ASSUME HostInv, \A j \in 1 .. Len(jobs) : jobs'[j].seq = jobs[j].seq
  PROVE  \A j \in 1 .. Len(jobs) : jobs'[j].seq >= jobs[j].seq
  <1>1. ASSUME NEW j \in 1 .. Len(jobs) PROVE jobs'[j].seq >= jobs[j].seq
    <2>1. PICK n \in Nat : n = jobs[j].seq
      BY JobTypes
    <2> QED BY <2>1
  <1> QED BY <1>1

\* The steps of the host keep the order of the commands: one that is sent comes
\* behind the others, and its job gets the next number.
LEMMA HostCommands ==
  ASSUME HostInv, HostInv', Numbers, DpuTypes, DpuTypes', Commands, Host!HostNext, UNCHANGED dpuVars
  PROVE  Commands'
  <1>1. UNCHANGED <<msgq, worker, dbSeq>> /\ Pending' = Pending
    BY DEF dpuVars, Pending
  <1>2. CASE ~ Host!SubmitSend /\ ~ Host!SubmitNumber
    <2>1. Quiet
      BY <1>2, HostQuiet
    <2>2. Waiting' = Waiting /\ \A i \in 1 .. Waiting : Command(i)' = Command(i)
      <3>1. UNCHANGED <<msgq, channel>>
        BY <1>1, <2>1 DEF Quiet
      <3> QED BY <3>1, SameCommands
    <2>3. Sending' = Sending
      BY <2>1 DEF Quiet, Sending
    <2>4. \A j \in 1 .. Len(jobs) : jobs'[j].seq >= jobs[j].seq
      BY <2>1, NumbersUp DEF Quiet
    <2>5. dbSeq' + Pending' <= dbSeq + Pending /\ submitSeq' + Sending' >= submitSeq + Sending
      BY <1>1, <2>1, <2>3, Sizes DEF Quiet
    <2> QED BY <1>1, <2>1, <2>2, <2>4, <2>5, CommandsKept DEF Quiet
  <1>3. CASE Host!SubmitNumber
    <2> DEFINE r == [jobs[submitter.job] EXCEPT !.seq = submitSeq + 1]
    <2>1. /\ submitter.at = "number" /\ submitter' = [submitter EXCEPT !.at = "push"]
          /\ jobs' = [jobs EXCEPT ![submitter.job] = r] /\ submitSeq' = submitSeq + 1
          /\ UNCHANGED <<hostq, channel>>
      BY <1>3 DEF Host!SubmitNumber
    <2>2. submitter'.at = "push"
      BY <2>1 DEF HostInv, HostTypes
    <2>3. submitter.job \in 1 .. Len(jobs) /\ r \in JobRec /\ r.seq = submitSeq + 1
      <3>1. submitter.job \in 1 .. Len(jobs) /\ jobs[submitter.job] \in JobRec
        BY <2>1, SubmitterJob
      <3>2. submitSeq + 1 \in Nat
        BY Sizes
      <3> QED BY <3>1, <3>2 DEF JobRec
    <2> HIDE DEF r
    <2>4. /\ Len(jobs') = Len(jobs)
          /\ \A j \in 1 .. Len(jobs) : jobs'[j] = IF j = submitter.job THEN r ELSE jobs[j]
      BY <2>1, <2>3, JobUpdate DEF HostInv, HostTypes
    <2>5. Waiting' = Waiting /\ \A i \in 1 .. Waiting : Command(i)' = Command(i)
      BY <1>1, <2>1 DEF Waiting, Command
    <2>6. Sending = 1 /\ Sending' = 0 /\ Unsent' = 0 /\ Unsent = 0
      BY <2>1, <2>2 DEF Sending, Unsent
    <2>7. \A j \in 1 .. Len(jobs) : jobs'[j].seq >= jobs[j].seq
      <3>1. submitSeq \in Nat /\ \A j \in 1 .. Len(jobs) : jobs[j].seq \in Nat /\ jobs[j].seq <= submitSeq
        BY Sizes DEF Numbers
      <3> QED BY <2>3, <2>4, <3>1
    <2>8. jobs'[submitter.job].seq >= dbSeq + Pending + Waiting
      BY <2>3, <2>4, <2>6, Sizes DEF Commands
    <2>9. dbSeq' + Pending' <= dbSeq + Pending /\ submitSeq' + Sending' >= submitSeq + Sending
      BY <1>1, <2>1, <2>6, Sizes
    <2>10. Len(jobs) - Len(hostq) - Unsent <= Len(jobs') - Len(hostq') - Unsent' /\ Len(jobs) <= Len(jobs')
      BY <2>1, <2>4, <2>6, Sizes
    <2> QED BY <1>1, <2>5, <2>7, <2>8, <2>9, <2>10, CommandsKept
  <1>4. CASE Host!SubmitSend
    <2>1. /\ submitter.at = "impl" /\ submitter' = [submitter EXCEPT !.at = "number"]
          /\ UNCHANGED <<jobs, hostq, submitSeq>>
      BY <1>4 DEF Host!SubmitSend
    <2>2. submitter'.at = "number" /\ submitter'.job = submitter.job
      BY <2>1 DEF HostInv, HostTypes
    <2>3. /\ jobs[submitter.job] \in JobRec /\ submitter.job \in 1 .. Len(jobs)
          /\ submitter.job = Len(jobs) - Len(hostq)
      BY <2>1, SubmitterJob
    <2>4. Unsent = 1 /\ Unsent' = 0 /\ Sending = 0 /\ Sending' = 1
      BY <2>1, <2>2 DEF Unsent, Sending
    <2>5. CASE channel' = channel
      <3>1. Waiting' = Waiting /\ \A i \in 1 .. Waiting : Command(i)' = Command(i)
        BY <1>1, <2>5 DEF Waiting, Command
      <3> QED BY <1>1, <2>1, <2>4, <3>1, Sizes, CommandsKept
    <2>6. CASE channel' # channel
      <3> DEFINE c == [job |-> submitter.job, kind |-> jobs[submitter.job].kind]
      <3>1. channel' = Append(channel, c) /\ msgq' = msgq
        BY <1>1, <1>4, <2>6 DEF Host!SubmitSend
      <3>2. c \in Cmd /\ c.job = submitter.job
        BY <2>3 DEF Cmd, JobRec
      <3> HIDE DEF c
      <3>3. /\ Waiting' = Waiting + 1 /\ Command(Waiting)' = c
            /\ \A i \in 1 .. Waiting : Command(i)' = Command(i)
        BY <3>1, <3>2, Sent
      <3>4. \A i \in 1 .. Waiting + 1 : i \in 1 .. Waiting \/ i = Waiting + 1
        BY Sizes
      <3>5. \A i \in 1 .. Waiting + 1 : Command(i)' = IF i = Waiting + 1 THEN c ELSE Command(i)
        BY <3>3, <3>4
      <3>6. /\ Len(jobs) \in Nat /\ Len(hostq) \in Nat /\ Waiting \in Nat /\ submitSeq \in Nat
            /\ dbSeq \in Nat /\ Pending \in {0, 1} /\ \A i \in 1 .. Waiting : Command(i).job \in Nat
        BY Sizes
      <3>7. /\ dbSeq + Pending + Waiting <= submitSeq
            /\ Pending = 1 => worker[0].msg.job \in 1 .. Len(jobs)
            /\ \A i \in 1 .. Waiting : /\ Command(i).job \in 1 .. Len(jobs) - Len(hostq) - 1
                                       /\ jobs[Command(i).job].seq >= dbSeq + Pending + i
            /\ \A i, k \in 1 .. Waiting : i <= k => Command(k).job - Command(i).job >= k - i
        BY <2>1, <2>4, <3>6 DEF Commands
      <3>8. (dbSeq + Pending + Waiting <= submitSeq + Sending)'
        BY <1>1, <2>1, <2>4, <3>3, <3>6, <3>7
      <3>9. ASSUME NEW i \in 1 .. Waiting + 1
            PROVE  /\ Command(i)'.job \in 1 .. Len(jobs') - Len(hostq') - Unsent'
                   /\ \/ jobs'[Command(i)'.job].seq >= dbSeq' + Pending' + i
                      \/ submitter'.at = "number" /\ Command(i)'.job = submitter'.job
        <4>1. CASE i = Waiting + 1
          BY <2>1, <2>2, <2>3, <2>4, <3>2, <3>5, <3>6, <4>1
        <4>2. CASE i \in 1 .. Waiting
          BY <1>1, <2>1, <2>4, <3>3, <3>6, <3>7, <4>2
        <4> QED BY <3>4, <4>1, <4>2
      <3>10. ASSUME NEW i \in 1 .. Waiting + 1, NEW k \in 1 .. Waiting + 1, i <= k
             PROVE  Command(k)'.job - Command(i)'.job >= k - i
        <4>1. CASE k \in 1 .. Waiting
          <5>1. i \in 1 .. Waiting
            BY <3>6, <3>10, <4>1
          <5> QED BY <3>3, <3>7, <3>10, <4>1, <5>1
        <4>2. CASE k = Waiting + 1 /\ i \in 1 .. Waiting
          <5>1. Waiting \in 1 .. Waiting /\ i <= Waiting
            BY <3>6, <4>2
          <5>2. Command(Waiting).job - Command(i).job >= Waiting - i
            BY <3>7, <4>2, <5>1
          <5>3. Command(Waiting).job <= submitter.job - 1
            BY <2>3, <3>6, <3>7, <5>1
          <5>4. Command(k)'.job = submitter.job /\ Command(i)' = Command(i)
            BY <3>2, <3>3, <3>5, <4>2
          <5>5. submitter.job - Command(i).job >= k - i
            BY <2>3, <3>6, <4>2, <5>1, <5>2, <5>3
          <5> QED BY <5>4, <5>5
        <4>3. CASE k = Waiting + 1 /\ i = Waiting + 1
          BY <2>3, <3>2, <3>5, <3>6, <4>3
        <4> QED BY <3>4, <4>1, <4>2, <4>3
      <3>11. (Pending = 1 => worker[0].msg.job \in 1 .. Len(jobs))'
        BY <1>1, <2>1, <3>7
      <3> QED BY <3>3, <3>8, <3>9, <3>10, <3>11 DEF Commands
    <2> QED BY <2>5, <2>6
  <1> QED BY <1>2, <1>3, <1>4

\* The message thread receives a command: the queue has room for all that the
\* host lets be outstanding.
LEMMA ReceiveInline ==
  ASSUME HostInv, HostInv', Numbers, DpuTypes, Commands, InflightCap + 2 <= MsgCap,
         Dpu!Receive, UNCHANGED hostVars
  PROVE  /\ Len(msgq) < MsgCap - 1 /\ msgq' = Append(msgq, Head(channel)) /\ UNCHANGED dropped
         /\ DpuTypes' /\ Commands'
  <1>1. /\ channel # <<>> /\ channel' = Tail(channel)
        /\ IF Len(msgq) < MsgCap - 1
           THEN msgq' = Append(msgq, Head(channel)) /\ UNCHANGED dropped
           ELSE dropped' = dropped \cup {Head(channel).job} /\ UNCHANGED msgq
        /\ UNCHANGED <<worker, heads, dbSeq, doorbell>>
    BY DEF Dpu!Receive
  <1>2. UNCHANGED <<jobs, hostq, submitter, submitSeq>>
    BY DEF hostVars
  <1>3. Len(channel) > 0
    BY <1>1, Popped DEF HostInv, HostTypes
  <1>4. Len(msgq) < MsgCap - 1
    BY <1>3, QueueBound, Sizes, OffloadAssumption DEF Waiting
  <1>5. msgq' = Append(msgq, Head(channel)) /\ UNCHANGED dropped
    BY <1>1, <1>4
  <1>6. /\ Waiting' = Waiting /\ msgq' \in Seq(Cmd)
        /\ \A i \in 1 .. Waiting : Command(i)' = Command(i)
    BY <1>1, <1>5, Received
  <1>7. DpuTypes'
    BY <1>1, <1>6 DEF DpuTypes, Dpu!Staging, Dpu!OwnSlot
  <1>8. Pending' = Pending /\ Sending' = Sending /\ Unsent' = Unsent
    BY <1>1, <1>2 DEF Pending, Sending, Unsent
  <1>9. /\ dbSeq' + Pending' <= dbSeq + Pending /\ submitSeq' + Sending' >= submitSeq + Sending
        /\ Len(jobs) - Len(hostq) - Unsent <= Len(jobs') - Len(hostq') - Unsent' /\ Len(jobs) <= Len(jobs')
        /\ \A j \in 1 .. Len(jobs) : jobs'[j].seq >= jobs[j].seq
    <2>1. /\ Len(jobs) \in Nat /\ Len(hostq) \in Nat /\ submitSeq \in Nat /\ dbSeq \in Nat
          /\ Pending \in {0, 1} /\ Sending \in {0, 1} /\ Unsent \in {0, 1}
          /\ \A j \in 1 .. Len(jobs) : jobs[j].seq \in Nat
      BY Sizes
    <2>2. /\ dbSeq + Pending <= dbSeq + Pending /\ submitSeq + Sending >= submitSeq + Sending
          /\ Len(jobs) - Len(hostq) - Unsent <= Len(jobs) - Len(hostq) - Unsent /\ Len(jobs) <= Len(jobs)
          /\ \A j \in 1 .. Len(jobs) : jobs[j].seq >= jobs[j].seq
      BY <2>1
    <2> QED BY <1>1, <1>2, <1>8, <2>2
  <1>10. Commands'
    BY <1>1, <1>2, <1>6, <1>7, <1>8, <1>9, CommandsKept
  <1> QED BY <1>4, <1>5, <1>7, <1>10

\* A worker that has nothing to do.
LEMMA IdleTypes == Dpu!Idle \in WorkerRec /\ Dpu!Idle.at = "idle" /\ Dpu!Idle.tmp = 0
  BY DEF Dpu!Idle, WorkerRec

\* The message thread starts on a command, which was the first in the queue.
LEMMA TakeCommand ==
  ASSUME HostInv, HostInv', DpuTypes, Commands, Dpu!TakeInline, UNCHANGED hostVars
  PROVE  /\ Pending = 0 /\ Pending' = 1 /\ Waiting' = Waiting - 1 /\ Waiting > 0
         /\ worker'[0].msg = Command(1) /\ worker'[0].at = "setup"
         /\ \A i \in 1 .. Waiting - 1 : Command(i)' = Command(i + 1)
         /\ DpuTypes' /\ Commands'
  <1> DEFINE q == [Dpu!Idle EXCEPT !.at = "setup", !.msg = Head(msgq)]
  <1>1. /\ worker[0] = Dpu!Idle /\ msgq # <<>> /\ msgq' = Tail(msgq) /\ worker' = [worker EXCEPT ![0] = q]
        /\ UNCHANGED <<channel, heads, dbSeq, doorbell>>
    BY DEF Dpu!TakeInline, Dpu!Begin
  <1>2. UNCHANGED <<jobs, hostq, submitter, submitSeq>>
    BY DEF hostVars
  <1>3. /\ Waiting' = Waiting - 1 /\ Waiting > 0 /\ msgq' \in Seq(Cmd) /\ Command(1) = Head(msgq)
        /\ \A i \in 1 .. Waiting - 1 : Command(i)' = Command(i + 1)
    BY <1>1, Taken
  <1>4. Waiting \in Nat /\ 1 \in 1 .. Waiting
    BY <1>3, Sizes
  <1>5. Command(1) \in Cmd /\ Command(1).job \in 1 .. Len(jobs)
    BY <1>4, Sizes DEF Commands
  <1>6. q \in WorkerRec /\ q.at = "setup" /\ q.msg = Command(1)
    <2>1. Command(1) \in [job : Nat, kind : JobKind \cup {"none"}]
      BY <1>5 DEF Cmd
    <2>2. Head(msgq) = Command(1)
      BY <1>3
    <2>3. q \in WorkerRec /\ q.at = "setup" /\ q.msg = Head(msgq)
      BY <2>1, <2>2, IdleTypes DEF WorkerRec
    <2> QED BY <2>2, <2>3
  <1> HIDE DEF q
  <1>7. worker'[0] = q /\ worker'[1] = Dpu!Idle /\ DOMAIN worker' = {0, 1}
    BY <1>1, WorkerUpdate
  <1>8. Pending = 0 /\ Pending' = 1 /\ Sending' = Sending /\ Unsent' = Unsent
    BY <1>1, <1>2, <1>6, <1>7 DEF Pending, Dpu!Idle, Sending, Unsent
  <1>9. DpuTypes'
    BY <1>1, <1>3, <1>6, <1>7 DEF DpuTypes
  <1>10. /\ Len(jobs) \in Nat /\ Len(hostq) \in Nat /\ submitSeq \in Nat /\ dbSeq \in Nat
         /\ Sending \in {0, 1} /\ Unsent \in {0, 1}
         /\ \A j \in 1 .. Len(jobs) : jobs[j].seq \in Nat
         /\ \A i \in 1 .. Waiting : Command(i).job \in Nat
    BY Sizes
  <1>11. /\ dbSeq + Waiting <= submitSeq + Sending
         /\ \A i \in 1 .. Waiting :
              /\ Command(i).job \in 1 .. Len(jobs) - Len(hostq) - Unsent
              /\ \/ jobs[Command(i).job].seq >= dbSeq + i
                 \/ submitter.at = "number" /\ Command(i).job = submitter.job
         /\ \A i, k \in 1 .. Waiting : i <= k => Command(k).job - Command(i).job >= k - i
    BY <1>8, <1>10 DEF Commands
  <1>12. (dbSeq + Pending + Waiting <= submitSeq + Sending)'
    BY <1>1, <1>2, <1>3, <1>4, <1>8, <1>10, <1>11
  <1>13. ASSUME NEW i \in 1 .. Waiting - 1
         PROVE  /\ Command(i + 1).job \in 1 .. Len(jobs') - Len(hostq') - Unsent'
                /\ \/ jobs'[Command(i + 1).job].seq >= dbSeq' + Pending' + i
                   \/ submitter'.at = "number" /\ Command(i + 1).job = submitter'.job
    <2>1. i + 1 \in 1 .. Waiting /\ i \in Nat
      BY <1>4, <1>13
    <2>2. dbSeq + (i + 1) = dbSeq' + Pending' + i
      BY <1>1, <1>8, <1>10, <2>1
    <2> QED BY <1>2, <1>8, <1>11, <2>1, <2>2
  <1>14. ASSUME NEW i \in 1 .. Waiting - 1, NEW k \in 1 .. Waiting - 1, i <= k
         PROVE  Command(k + 1).job - Command(i + 1).job >= k - i
    <2>1. i + 1 \in 1 .. Waiting /\ k + 1 \in 1 .. Waiting /\ i + 1 <= k + 1 /\ k + 1 - (i + 1) = k - i
      BY <1>4, <1>14
    <2>2. Command(k + 1).job - Command(i + 1).job >= k + 1 - (i + 1)
      BY <1>11, <2>1
    <2> QED BY <2>1, <2>2
  <1>15. worker'[0].msg.job \in 1 .. Len(jobs')
    BY <1>2, <1>5, <1>6, <1>7
  <1>16. Commands'
    BY <1>3, <1>8, <1>12, <1>13, <1>14, <1>15 DEF Commands
  <1> QED BY <1>3, <1>6, <1>7, <1>8, <1>9, <1>16

\* The steps of the DPU with the ring threads off.
LEMMA DpuInline ==
  ASSUME HostInv, HostInv', Numbers, DpuTypes, Commands, InflightCap + 2 <= MsgCap, ~ ringQueues,
         Dpu!DpuNext, UNCHANGED hostVars
  PROVE  Numbers' /\ DpuTypes' /\ Commands' /\ dropped' = dropped
  <1>1. UNCHANGED <<jobs, caller, hostq, submitter, submitSeq, inflight, completer>>
    BY DEF hostVars
  <1>2. doorbell \in Nat
    BY Sizes
  <1>3. CASE Dpu!Receive
    <2>1. UNCHANGED doorbell
      BY <1>3 DEF Dpu!Receive
    <2>2. Numbers'
      BY <1>1, <1>2, <2>1, SameNumbers
    <2> QED BY <1>3, <2>2, ReceiveInline
  <1>4. CASE Dpu!TakeInline
    <2>1. UNCHANGED <<doorbell, dropped>>
      BY <1>4 DEF Dpu!TakeInline
    <2>2. Numbers'
      BY <1>1, <1>2, <2>1, SameNumbers
    <2> QED BY <1>4, <2>1, <2>2, TakeCommand
  <1>5. CASE Dpu!Execute(0)
    <2>1. UNCHANGED <<msgq, channel, dropped>>
      BY <1>5 DEF Dpu!Execute, Dpu!Setup, Dpu!SetupFails, Dpu!Fill, Dpu!Finish, Dpu!LoadSeq,
                  Dpu!Stage, Dpu!Doorbell, Dpu!DoorbellLost, Dpu!Leave
    <2>2. /\ DpuTypes'
          /\ dbSeq' + Pending' <= dbSeq + Pending /\ doorbell <= doorbell'
          /\ Pending' = 1 => Pending = 1 /\ worker'[0].msg = worker[0].msg
      BY <1>5, ExecuteStep
    <2>3. doorbell' \in Nat
      BY <2>2 DEF DpuTypes
    <2>4. Numbers'
      BY <1>1, <1>2, <2>2, <2>3, SameNumbers
    <2>5. Waiting' = Waiting /\ \A i \in 1 .. Waiting : Command(i)' = Command(i)
      BY <2>1, SameCommands
    <2>6. Sending' = Sending /\ Unsent' = Unsent
      BY <1>1 DEF Sending, Unsent
    <2>7. /\ submitSeq' + Sending' >= submitSeq + Sending
          /\ Len(jobs) - Len(hostq) - Unsent <= Len(jobs') - Len(hostq') - Unsent' /\ Len(jobs) <= Len(jobs')
          /\ \A j \in 1 .. Len(jobs) : jobs'[j].seq >= jobs[j].seq
      <3>1. /\ Len(jobs) \in Nat /\ Len(hostq) \in Nat /\ submitSeq \in Nat
            /\ Sending \in {0, 1} /\ Unsent \in {0, 1}
            /\ \A j \in 1 .. Len(jobs) : jobs[j].seq \in Nat
        BY Sizes
      <3>2. jobs' = jobs /\ hostq' = hostq /\ submitSeq' = submitSeq
        BY <1>1
      <3>3. \A j \in 1 .. Len(jobs) : jobs'[j].seq >= jobs[j].seq
        BY <3>1, <3>2
      <3>4. /\ submitSeq + Sending >= submitSeq + Sending
            /\ Len(jobs) - Len(hostq) - Unsent <= Len(jobs) - Len(hostq) - Unsent
            /\ Len(jobs) <= Len(jobs)
        BY <3>1
      <3> QED BY <2>6, <3>2, <3>3, <3>4
    <2>8. Commands'
      BY <1>1, <2>2, <2>5, <2>7, CommandsKept
    <2> QED BY <2>1, <2>2, <2>4, <2>8
  <1> QED BY <1>3, <1>4, <1>5, InlineStep

\* Every step keeps the invariant, as long as the message queue is large enough
\* for what the host lets be outstanding.
LEMMA InlineStepInv ==
  ASSUME InflightCap + 2 <= MsgCap
  PROVE  HostInv /\ HostInv' /\ InlineInv /\ [Next]_vars => InlineInv'
  <1> SUFFICES ASSUME HostInv, HostInv', InlineInv, [Next]_vars, ~ ringQueues'
               PROVE  Numbers' /\ DpuTypes' /\ Commands' /\ dropped' = {}
    BY DEF InlineInv
  <1>1. ~ ringQueues
    BY DEF Next, dpuVars, vars, Dpu!DpuNext, Dpu!Receive, Dpu!TakeInline, Dpu!Dispatch, Dpu!Worker,
           Dpu!TakeRing, Dpu!Execute, Dpu!Setup, Dpu!SetupFails, Dpu!Fill, Dpu!Finish, Dpu!LoadSeq,
           Dpu!Stage, Dpu!Doorbell, Dpu!DoorbellLost, Dpu!Leave
  <1>2. Numbers /\ DpuTypes /\ Commands /\ dropped = {}
    BY <1>1 DEF InlineInv
  <1>3. doorbell \in Nat
    BY <1>2, Sizes
  <1>4. CASE Host!HostNext /\ UNCHANGED dpuVars
    <2>1. UNCHANGED <<msgq, worker, heads, dbSeq, dropped>>
      BY <1>4 DEF dpuVars
    <2>2. UNCHANGED doorbell
      BY <1>4 DEF Host!HostNext, Host!Enqueue, Host!Release, Host!Submitter, Host!SubmitPop,
                  Host!SubmitExit, Host!SubmitSend, Host!SubmitFails, Host!SubmitNumber,
                  Host!SubmitPush, Host!SubmitSignal, Host!Completer, Host!CompleterCheck,
                  Host!CompleterLook, Host!CompleterSleep, Host!CompleterAwake, Host!CompleterMark,
                  Host!CompleterPop, Host!Shutdown, Host!ShutdownStop, Host!ShutdownWake,
                  Host!ShutdownJoin
    <2>3. DpuTypes'
      BY <1>2, <2>1, <2>2 DEF DpuTypes, Dpu!Staging, Dpu!OwnSlot
    <2>4. Commands'
      BY <1>2, <1>4, <2>3, HostCommands
    <2>5. Numbers'
      BY <1>2, <1>3, <1>4, HostNumbers
    <2> QED BY <1>2, <2>1, <2>3, <2>4, <2>5
  <1>5. CASE Dpu!DpuNext /\ UNCHANGED hostVars
    BY <1>1, <1>2, <1>5, DpuInline
  <1>6. CASE UNCHANGED vars
    <2>1. /\ UNCHANGED <<jobs, hostq, submitter, submitSeq, inflight, completer>>
          /\ UNCHANGED <<msgq, channel, worker, heads, dbSeq, doorbell, dropped>>
      BY <1>6 DEF vars, hostVars, dpuVars
    <2>2. DpuTypes'
      BY <1>2, <2>1 DEF DpuTypes, Dpu!Staging, Dpu!OwnSlot
    <2>3. Numbers'
      BY <1>2, <1>3, <2>1, SameNumbers
    <2>4. Waiting' = Waiting /\ \A i \in 1 .. Waiting : Command(i)' = Command(i)
      BY <2>1, SameCommands
    <2>5. Pending' = Pending /\ Sending' = Sending /\ Unsent' = Unsent
      BY <2>1 DEF Pending, Sending, Unsent
    <2>6. /\ dbSeq' + Pending' <= dbSeq + Pending /\ submitSeq' + Sending' >= submitSeq + Sending
          /\ Len(jobs) - Len(hostq) - Unsent <= Len(jobs') - Len(hostq') - Unsent' /\ Len(jobs) <= Len(jobs')
          /\ \A j \in 1 .. Len(jobs) : jobs'[j].seq >= jobs[j].seq
      <3>1. /\ dbSeq' + Pending' <= dbSeq + Pending /\ submitSeq' + Sending' >= submitSeq + Sending
            /\ Len(jobs) - Len(hostq) - Unsent <= Len(jobs') - Len(hostq') - Unsent'
            /\ Len(jobs) <= Len(jobs')
        BY <1>2, <2>1, <2>5, Sizes
      <3>2. \A j \in 1 .. Len(jobs) : jobs'[j].seq >= jobs[j].seq
        BY <1>2, <2>1, NumbersUp
      <3> QED BY <3>1, <3>2
    <2>7. Commands'
      BY <1>2, <2>1, <2>2, <2>4, <2>5, <2>6, CommandsKept
    <2> QED BY <1>2, <2>1, <2>2, <2>3, <2>7
  <1> QED BY <1>4, <1>5, <1>6 DEF Next

\* The invariant holds before the first job.
LEMMA InitInline == Init => InlineInv
  <1> SUFFICES ASSUME Init PROVE Numbers /\ DpuTypes /\ Commands /\ dropped = {}
    BY DEF InlineInv
  <1>1. /\ jobs = <<>> /\ hostq = <<>> /\ inflight = <<>> /\ channel = <<>> /\ msgq = <<>>
        /\ submitter = [at |-> "idle", job |-> 0] /\ completer = "check"
        /\ submitSeq = 0 /\ dbSeq = 0 /\ doorbell = 0 /\ dropped = {}
        /\ worker = [w \in {0, 1} |-> Dpu!Idle] /\ heads = [s \in {0, 1} |-> Dpu!Count(0)]
    BY DEF Init, Host!HostInit, Dpu!DpuInit, Dpu!Ring, Dpu!Slot
  <1>2. Dpu!Idle \in WorkerRec /\ Dpu!Idle.at = "idle"
    BY DEF Dpu!Idle, WorkerRec
  <1>3. DpuTypes
    BY <1>1, <1>2 DEF DpuTypes, Dpu!Count
  <1>4. Numbers /\ Commands
    BY <1>1, <1>2 DEF Numbers, Commands, Waiting, Command, Pending, Sending, Unsent, Freed, Busy
  <1> QED BY <1>1, <1>3, <1>4

\* With a queue that is large enough, the numbers and the waiting commands agree in every state.
LEMMA InlineInvariant ==
  ASSUME InflightCap + 2 <= MsgCap
  PROVE  Spec => []InlineInv
  <1>1. HostInv /\ HostInv' /\ InlineInv /\ [Next]_vars => InlineInv'
    BY InlineStepInv
  <1> QED BY <1>1, InitInline, HostInvariant, PTL DEF Spec

\* The message queue of the DPU never overflows with the ring threads off
\* (message_recv_callback): MSG_QUEUE_CAP need be no more than two above the
\* INFLIGHT_CAP of the host, whose inflight ring and submit thread hold every job
\* with a command that waits.
THEOREM QueueNeverOverflows ==
  ASSUME InflightCap + 2 <= MsgCap
  PROVE  Spec => []NeverDropped
  <1>1. InlineInv => NeverDropped
    BY DEF InlineInv, NeverDropped
  <1> QED BY <1>1, InlineInvariant, PTL

-----------------------------------------------------------------------------
(* No command lost or failed: the numbers are those of the commands.         *)

\* The job of the last command sent, while it has no number.
LastSent ==
    \/ Waiting > 0 /\ Command(Waiting).job = submitter.job
    \/ Waiting = 0 /\ Pending = 1 /\ worker[0].msg.job = submitter.job
    \/ Waiting = 0 /\ Pending = 0 /\ Delivered(submitter.job)

\* The worker's staging buffer, and later the destination, has its job's data.
OwnData ==
    /\ worker[0].at \in {"count", "stage"} => Delivered(worker[0].msg.job)
    /\ worker[0].at = "filled" /\ worker[0].slot # -1 => heads[worker[0].slot] = Dpu!Data(worker[0].msg.job)

\* As many numbers as commands, each job's number that of its own command, and
\* what the worker has finished is its own job.
Exact ==
    /\ dbSeq + Pending + Waiting = submitSeq + Sending
    /\ submitter.at = "number" => LastSent
    /\ \A j \in 1 .. Len(jobs) :
         /\ jobs[j].seq \in 1 .. dbSeq => Delivered(j)
         /\ jobs[j].seq = dbSeq + 1 /\ Pending = 1 => worker[0].msg.job = j
         /\ \A i \in 1 .. Waiting : jobs[j].seq = dbSeq + Pending + i => Command(i).job = j
    /\ OwnData

ExactInv == ~ ringQueues /\ ~ Faulty("unsent") /\ ~ Faulty("failed") => Exact

\* A step that keeps the numbers, the commands and the counter.
LEMMA ExactKept ==
  ASSUME Exact, OwnData', Waiting' = Waiting, \A i \in 1 .. Waiting : Command(i)' = Command(i),
         dbSeq' = dbSeq, Pending' = Pending, submitSeq' = submitSeq, Sending' = Sending,
         Pending = 1 => worker'[0].msg = worker[0].msg, results \subseteq results',
         HostInv, HostInv', DpuTypes, Len(jobs) <= Len(jobs'),
         \A j \in 1 .. Len(jobs) : jobs'[j].seq = jobs[j].seq,
         \A j \in Len(jobs) + 1 .. Len(jobs') : jobs'[j].seq = 0,
         submitter'.at = "number" => submitter.at = "number" /\ submitter'.job = submitter.job
  PROVE  Exact'
  <1>1. /\ Len(jobs) \in Nat /\ Len(jobs') \in Nat /\ dbSeq \in Nat /\ Waiting \in Nat /\ Pending \in {0, 1}
    BY Sizes DEF HostInv, HostTypes
  <1>2. \A j : Delivered(j) => Delivered(j)'
    BY DEF Delivered, Dpu!Data
  <1>3. (dbSeq + Pending + Waiting = submitSeq + Sending)'
    BY DEF Exact
  <1>4. submitter'.at = "number" => LastSent'
    <2>1. Waiting > 0 => Command(Waiting)' = Command(Waiting)
      <3> SUFFICES ASSUME Waiting > 0 PROVE Command(Waiting)' = Command(Waiting)
        OBVIOUS
      <3>1. Waiting \in 1 .. Waiting
        BY <1>1
      <3>2. PICK w \in 1 .. Waiting : w = Waiting
        BY <3>1
      <3>3. Command(w)' = Command(w)
        BY <3>2
      <3> QED BY <3>2, <3>3
    <2> QED BY <1>2, <2>1 DEF Exact, LastSent
  <1>5. ASSUME NEW j \in 1 .. Len(jobs')
        PROVE  /\ jobs'[j].seq \in 1 .. dbSeq => Delivered(j)'
               /\ jobs'[j].seq = dbSeq + 1 /\ Pending = 1 => worker'[0].msg.job = j
               /\ \A i \in 1 .. Waiting : jobs'[j].seq = dbSeq + Pending + i => Command(i)'.job = j
    <2>1. CASE j \in 1 .. Len(jobs)
      BY <1>2, <2>1 DEF Exact
    <2>2. CASE j \in Len(jobs) + 1 .. Len(jobs')
      <3>1. jobs'[j].seq = 0
        BY <2>2
      <3>2. /\ ~ (0 \in 1 .. dbSeq) /\ 0 # dbSeq + 1
            /\ \A i \in 1 .. Waiting : 0 # dbSeq + Pending + i
        BY <1>1
      <3> QED BY <3>1, <3>2
    <2>3. j \in 1 .. Len(jobs) \/ j \in Len(jobs) + 1 .. Len(jobs')
      BY <1>1, <1>5
    <2> QED BY <2>1, <2>2, <2>3
  <1> QED BY <1>3, <1>4, <1>5 DEF Exact

\* The steps of the host.
LEMMA ExactHost ==
  ASSUME HostInv, HostInv', Numbers, DpuTypes, Commands, Exact,
         Host!HostNext, UNCHANGED dpuVars, ~ Faulty("unsent")'
  PROVE  Exact'
  <1>1. UNCHANGED <<msgq, worker, dbSeq, results, heads>>
    BY DEF dpuVars
  <1>2. Pending' = Pending
    BY <1>1 DEF Pending
  <1>3. OwnData'
    BY <1>1 DEF Exact, OwnData, Delivered
  <1>4. /\ Len(jobs) \in Nat /\ dbSeq \in Nat /\ Waiting \in Nat /\ Pending \in {0, 1}
        /\ submitSeq \in Nat /\ \A j \in 1 .. Len(jobs) : jobs[j].seq \in Nat
    BY Sizes
  <1>5. CASE ~ Host!SubmitSend /\ ~ Host!SubmitNumber
    <2>1. Quiet
      BY <1>5, HostQuiet
    <2>2. Waiting' = Waiting /\ \A i \in 1 .. Waiting : Command(i)' = Command(i)
      BY <1>1, <2>1 DEF Quiet, Waiting, Command
    <2>3. Sending' = Sending
      BY <2>1 DEF Quiet, Sending
    <2> QED BY <1>1, <1>2, <1>3, <2>1, <2>2, <2>3, ExactKept DEF Quiet
  <1>6. CASE Host!SubmitNumber
    <2> DEFINE r == [jobs[submitter.job] EXCEPT !.seq = submitSeq + 1]
    <2>1. /\ submitter.at = "number" /\ submitter' = [submitter EXCEPT !.at = "push"]
          /\ jobs' = [jobs EXCEPT ![submitter.job] = r] /\ submitSeq' = submitSeq + 1
          /\ channel' = channel
      BY <1>6 DEF Host!SubmitNumber
    <2>2. submitter'.at = "push"
      BY <2>1 DEF HostInv, HostTypes
    <2>3. submitter.job \in 1 .. Len(jobs) /\ r \in JobRec /\ r.seq = submitSeq + 1
      <3>1. submitter.job \in 1 .. Len(jobs) /\ jobs[submitter.job] \in JobRec
        BY <2>1, SubmitterJob
      <3>2. submitSeq + 1 \in Nat
        BY <1>4
      <3> QED BY <3>1, <3>2 DEF JobRec
    <2> HIDE DEF r
    <2>4. /\ Len(jobs') = Len(jobs)
          /\ \A j \in 1 .. Len(jobs) : jobs'[j] = IF j = submitter.job THEN r ELSE jobs[j]
      BY <2>1, <2>3, JobUpdate DEF HostInv, HostTypes
    <2>5. Waiting' = Waiting /\ \A i \in 1 .. Waiting : Command(i)' = Command(i)
      BY <1>1, <2>1 DEF Waiting, Command
    <2>6. Sending = 1 /\ Sending' = 0
      BY <2>1, <2>2 DEF Sending
    <2>7. dbSeq + Pending + Waiting = submitSeq + 1 /\ LastSent
      BY <2>1, <2>6 DEF Exact
    <2>8. \A j : Delivered(j)' <=> Delivered(j)
      BY <1>1 DEF Delivered, Dpu!Data
    <2>9. ASSUME NEW j \in 1 .. Len(jobs)
          PROVE  /\ jobs'[j].seq \in 1 .. dbSeq => Delivered(j)
                 /\ jobs'[j].seq = dbSeq + 1 /\ Pending = 1 => worker[0].msg.job = j
                 /\ \A i \in 1 .. Waiting : jobs'[j].seq = dbSeq + Pending + i => Command(i).job = j
      <3>1. CASE j # submitter.job
        BY <2>4, <3>1 DEF Exact
      <3>2. CASE j = submitter.job
        <4>1. jobs'[j].seq = dbSeq + Pending + Waiting
          BY <2>3, <2>4, <2>7, <3>2
        <4>2. CASE Waiting > 0
          <5>1. Command(Waiting).job = j
            BY <1>4, <2>7, <3>2, <4>2 DEF LastSent
          <5>2. /\ ~ (dbSeq + Pending + Waiting \in 1 .. dbSeq)
                /\ ~ (Pending = 1 /\ dbSeq + Pending + Waiting = dbSeq + 1)
                /\ \A i \in 1 .. Waiting : dbSeq + Pending + Waiting = dbSeq + Pending + i => i = Waiting
            BY <1>4, <4>2
          <5> QED BY <4>1, <5>1, <5>2
        <4>3. CASE Waiting = 0 /\ Pending = 1
          <5>1. worker[0].msg.job = j
            BY <2>7, <3>2, <4>3 DEF LastSent
          <5>2. ~ (dbSeq + Pending + Waiting \in 1 .. dbSeq) /\ 1 .. Waiting = {}
            BY <1>4, <4>3
          <5> QED BY <4>1, <5>1, <5>2
        <4>4. CASE Waiting = 0 /\ Pending = 0
          <5>1. Delivered(j)
            BY <2>7, <3>2, <4>4 DEF LastSent
          <5>2. 1 .. Waiting = {}
            BY <4>4
          <5> QED BY <4>4, <5>1, <5>2
        <4> QED BY <1>4, <4>2, <4>3, <4>4
      <3> QED BY <3>1, <3>2
    <2>10. (dbSeq + Pending + Waiting = submitSeq + Sending)'
      BY <1>1, <1>2, <1>4, <2>1, <2>5, <2>6, <2>7
    <2> QED BY <1>1, <1>2, <1>3, <2>2, <2>4, <2>5, <2>8, <2>9, <2>10 DEF Exact
  <1>7. CASE Host!SubmitSend
    <2> DEFINE c == [job |-> submitter.job, kind |-> jobs[submitter.job].kind]
    <2>1. /\ submitter.at = "impl" /\ submitter' = [submitter EXCEPT !.at = "number"]
          /\ UNCHANGED <<jobs, submitSeq>>
          /\ \/ channel' = Append(channel, c)
             \/ hostFaults' = hostFaults \cup {<<"unsent", submitter.job>>}
      BY <1>7 DEF Host!SubmitSend
    <2>2. submitter'.at = "number" /\ submitter'.job = submitter.job
      BY <2>1 DEF HostInv, HostTypes
    <2>3. jobs[submitter.job] \in JobRec /\ submitter.job \in 1 .. Len(jobs)
      BY <2>1, SubmitterJob
    <2>4. submitter.job \in 1 .. MaxJobs
      BY <1>4, <2>3, OffloadAssumption DEF HostInv, HostTypes
    <2>5. channel' = Append(channel, c) /\ msgq' = msgq
      BY <1>1, <2>1, <2>4 DEF Faulty
    <2>6. c \in Cmd /\ c.job = submitter.job
      BY <1>4, <2>3 DEF Cmd, JobRec
    <2> HIDE DEF c
    <2>7. /\ Waiting' = Waiting + 1 /\ Command(Waiting)' = c
          /\ \A i \in 1 .. Waiting : Command(i)' = Command(i)
      BY <2>5, <2>6, Sent
    <2>8. Sending = 0 /\ Sending' = 1
      BY <2>1, <2>2 DEF Sending
    <2>9. dbSeq + Pending + Waiting = submitSeq
      BY <1>4, <2>8 DEF Exact
    <2>10. (dbSeq + Pending + Waiting = submitSeq + Sending)'
      BY <1>1, <1>2, <1>4, <2>1, <2>7, <2>8, <2>9
    <2>11. LastSent'
      BY <1>4, <2>2, <2>6, <2>7 DEF LastSent
    <2>12. \A j : Delivered(j)' <=> Delivered(j)
      BY <1>1 DEF Delivered, Dpu!Data
    <2>13. ASSUME NEW j \in 1 .. Len(jobs), NEW i \in 1 .. Waiting + 1, jobs[j].seq = dbSeq + Pending + i
           PROVE  Command(i)'.job = j
      <3>1. i \in 1 .. Waiting
        BY <1>4, <2>9, <2>13 DEF Numbers
      <3> QED BY <2>7, <2>13, <3>1 DEF Exact
    <2> QED BY <1>1, <1>2, <1>3, <2>1, <2>7, <2>10, <2>11, <2>12, <2>13 DEF Exact
  <1> QED BY <1>5, <1>6, <1>7

\* The steps of the inline worker: it counts a command when its job is done.
LEMMA ExactExecute ==
  ASSUME HostInv, HostInv', DpuTypes, DpuTypes', Commands, Exact,
         Dpu!Execute(0), UNCHANGED hostVars, ~ Faulty("failed")'
  PROVE  Exact'
  <1> DEFINE r == worker[0]
  <1>1. UNCHANGED <<jobs, hostq, submitter, submitSeq>>
    BY DEF hostVars
  <1>2. UNCHANGED <<msgq, channel>>
    BY DEF Dpu!Execute, Dpu!Setup, Dpu!SetupFails, Dpu!Fill, Dpu!Finish, Dpu!LoadSeq,
           Dpu!Stage, Dpu!Doorbell, Dpu!DoorbellLost, Dpu!Leave
  <1>3. /\ Waiting' = Waiting /\ \A i \in 1 .. Waiting : Command(i)' = Command(i)
        /\ Sending' = Sending
    BY <1>1, <1>2 DEF Waiting, Command, Sending
  <1>4. /\ Len(jobs) \in Nat /\ dbSeq \in Nat /\ Waiting \in Nat /\ Pending \in {0, 1}
        /\ submitSeq \in Nat /\ \A j \in 1 .. Len(jobs) : jobs[j].seq \in Nat
    BY Sizes
  <1>5. r \in WorkerRec
    BY DEF DpuTypes
  <1>6. ASSUME dbSeq' = dbSeq, Pending' = Pending, Pending = 1 => worker'[0].msg = worker[0].msg,
               results \subseteq results', OwnData'
        PROVE  Exact'
    BY <1>1, <1>3, <1>4, <1>6, ExactKept
  <1>7. CASE Dpu!Setup(0)
    <2>1. /\ r.at = "setup" /\ UNCHANGED <<dbSeq, results>>
          /\ \/ worker' = [worker EXCEPT ![0] = [r EXCEPT !.at = "run"]]
             \/ \E t \in {0, 1} : worker' = [worker EXCEPT ![0] = [r EXCEPT !.at = "run", !.slot = t]]
      BY <1>7 DEF Dpu!Setup, Dpu!At, Dpu!Goto, Dpu!Slot
    <2>2. PICK q \in WorkerRec : worker' = [worker EXCEPT ![0] = q] /\ q.at = "run" /\ q.msg = r.msg
      BY <1>5, <2>1, Running
    <2>3. worker'[0] = q
      BY <2>2, WorkerUpdate
    <2>4. Pending = 1 /\ Pending' = 1 /\ OwnData'
      BY <2>1, <2>2, <2>3 DEF Pending, OwnData
    <2> QED BY <1>6, <2>1, <2>2, <2>3, <2>4
  <1>8. CASE Dpu!SetupFails(0)
    <2>1. /\ r.at = "setup" /\ dpuFaults' = dpuFaults \cup {<<"failed", worker[0].msg.job>>}
      BY <1>8 DEF Dpu!SetupFails, Dpu!At
    <2>2. Pending = 1
      BY <2>1 DEF Pending
    <2>3. worker[0].msg.job \in 1 .. MaxJobs
      <3>1. worker[0].msg.job \in 1 .. Len(jobs)
        BY <2>2 DEF Commands
      <3>2. Len(jobs) <= MaxJobs
        BY DEF HostInv, HostTypes
      <3> QED BY <1>4, <3>1, <3>2, OffloadAssumption
    <2> QED BY <2>1, <2>3 DEF Faulty
  <1>9. CASE Dpu!Fill(0)
    <2> DEFINE q == [r EXCEPT !.at = "filled"]
    <2>1. /\ r.at = "run" /\ UNCHANGED <<dbSeq, results>> /\ worker' = [worker EXCEPT ![0] = q]
          /\ heads' = IF r.slot # -1 THEN [heads EXCEPT ![r.slot] = Dpu!Data(r.msg.job)] ELSE heads
      BY <1>9 DEF Dpu!Fill, Dpu!At, Dpu!Goto, Dpu!OwnSlot
    <2>2. q \in WorkerRec /\ q.at = "filled" /\ q.msg = r.msg /\ q.slot = r.slot /\ r.slot \in {-1, 0, 1}
      BY <1>5 DEF WorkerRec
    <2> HIDE DEF q
    <2>3. worker'[0] = q
      BY <2>1, WorkerUpdate
    <2>4. r.slot # -1 => heads'[r.slot] = Dpu!Data(r.msg.job)
      BY <2>1, <2>2 DEF DpuTypes
    <2>5. Pending = 1 /\ Pending' = 1
      BY <2>1, <2>2, <2>3 DEF Pending
    <2>6. OwnData'
      BY <2>2, <2>3, <2>4 DEF OwnData, Dpu!Data
    <2> QED BY <1>6, <2>1, <2>2, <2>3, <2>5, <2>6
  <1>10. CASE Dpu!Finish(0)
    <2> DEFINE q == [r EXCEPT !.at = "count"]
    <2>1. /\ r.at = "filled" /\ UNCHANGED dbSeq /\ worker' = [worker EXCEPT ![0] = q]
          /\ results' = results \cup
                {<<r.msg.job, IF r.slot # -1 THEN heads[r.slot] ELSE Dpu!Data(r.msg.job)>>}
      BY <1>10 DEF Dpu!Finish, Dpu!At, Dpu!Goto, Dpu!OwnSlot
    <2>2. q \in WorkerRec /\ q.at = "count" /\ q.msg = r.msg
      BY <1>5 DEF WorkerRec
    <2> HIDE DEF q
    <2>3. worker'[0] = q
      BY <2>1, WorkerUpdate
    <2>4. <<r.msg.job, Dpu!Data(r.msg.job)>> \in results'
      BY <2>1 DEF Exact, OwnData
    <2>5. Pending = 1 /\ Pending' = 1
      BY <2>1, <2>2, <2>3 DEF Pending
    <2>6. OwnData'
      BY <2>2, <2>3, <2>4 DEF OwnData, Delivered, Dpu!Data
    <2> QED BY <1>6, <2>1, <2>2, <2>3, <2>5, <2>6
  <1>11. CASE Dpu!LoadSeq(0)
    <2> DEFINE q == [r EXCEPT !.at = "stage", !.tmp = dbSeq]
    <2>1. r.at = "count" /\ UNCHANGED <<dbSeq, results>> /\ worker' = [worker EXCEPT ![0] = q]
      BY <1>11 DEF Dpu!LoadSeq, Dpu!At
    <2>2. q.at = "stage" /\ q.msg = r.msg
      BY <1>5 DEF WorkerRec
    <2> HIDE DEF q
    <2>3. worker'[0] = q
      BY <2>1, WorkerUpdate
    <2>4. Delivered(r.msg.job)
      BY <2>1 DEF Exact, OwnData
    <2>5. Pending = 1 /\ Pending' = 1
      BY <2>1, <2>2, <2>3 DEF Pending
    <2>6. OwnData'
      BY <2>1, <2>2, <2>3, <2>4 DEF OwnData, Delivered, Dpu!Data
    <2> QED BY <1>6, <2>1, <2>2, <2>3, <2>5, <2>6
  <1>12. CASE Dpu!Stage(0)
    <2> DEFINE q == [r EXCEPT !.at = "ring"]
    <2>1. /\ r.at = "stage" /\ worker' = [worker EXCEPT ![0] = q] /\ dbSeq' = r.tmp + 1
          /\ UNCHANGED results
      BY <1>12 DEF Dpu!Stage, Dpu!At, Dpu!Goto
    <2>2. q.at = "ring"
      BY <1>5 DEF WorkerRec
    <2> HIDE DEF q
    <2>3. worker'[0] = q
      BY <2>1, WorkerUpdate
    <2>4. dbSeq' = dbSeq + 1
      BY <2>1 DEF DpuTypes
    <2>5. Pending = 1 /\ Pending' = 0
      BY <2>1, <2>2, <2>3 DEF Pending
    <2>6. Delivered(r.msg.job) /\ \A j : Delivered(j)' <=> Delivered(j)
      BY <2>1 DEF Exact, OwnData, Delivered, Dpu!Data
    <2>7. OwnData'
      BY <2>2, <2>3 DEF OwnData
    <2>8. dbSeq + 1 + Waiting = submitSeq + Sending
      BY <2>5 DEF Exact
    <2>9. (dbSeq + Pending + Waiting = submitSeq + Sending)'
      BY <1>1, <1>3, <1>4, <2>4, <2>5, <2>8
    <2>10. submitter.at = "number" =>
              \/ Waiting > 0 /\ Command(Waiting).job = submitter.job
              \/ Waiting = 0 /\ Delivered(submitter.job)
      BY <2>5, <2>6 DEF Exact, LastSent
    <2>11. Waiting > 0 => Command(Waiting)' = Command(Waiting)
      BY <1>1, <1>2 DEF Waiting, Command
    <2>12. submitter.at = "number" => LastSent'
      BY <1>1, <1>3, <2>5, <2>6, <2>10, <2>11 DEF LastSent
    <2>13. ASSUME NEW j \in 1 .. Len(jobs)
           PROVE  /\ jobs[j].seq \in 1 .. dbSeq + 1 => Delivered(j)
                  /\ \A i \in 1 .. Waiting : jobs[j].seq = dbSeq + 1 + i => Command(i).job = j
      <3>1. CASE jobs[j].seq = dbSeq + 1
        <4>1. r.msg.job = j
          BY <2>5, <3>1 DEF Exact
        <4>2. \A i \in 1 .. Waiting : dbSeq + 1 # dbSeq + 1 + i
          BY <1>4
        <4> QED BY <2>6, <3>1, <4>1, <4>2
      <3>2. CASE jobs[j].seq # dbSeq + 1
        <4>1. jobs[j].seq \in 1 .. dbSeq + 1 => jobs[j].seq \in 1 .. dbSeq
          BY <1>4, <3>2
        <4> QED BY <2>5, <4>1 DEF Exact
      <3> QED BY <3>1, <3>2
    <2> QED BY <1>1, <1>3, <1>4, <2>4, <2>5, <2>6, <2>7, <2>9, <2>12, <2>13 DEF Exact
  <1>13. CASE Dpu!Doorbell(0) \/ Dpu!DoorbellLost(0) \/ Dpu!Leave(0)
    <2>1. /\ r.at \in {"ring", "local"} /\ UNCHANGED <<dbSeq, results>>
          /\ \/ worker' = [worker EXCEPT ![0] = [r EXCEPT !.at = "local"]]
             \/ worker' = [worker EXCEPT ![0] = Dpu!Idle]
      BY <1>13 DEF Dpu!Doorbell, Dpu!DoorbellLost, Dpu!Leave, Dpu!At, Dpu!Goto
    <2>2. PICK q : worker' = [worker EXCEPT ![0] = q] /\ q.at \in {"local", "idle"}
      BY <1>5, <2>1 DEF WorkerRec, Dpu!Idle
    <2>3. worker'[0] = q
      BY <2>2, WorkerUpdate
    <2>4. Pending = 0 /\ Pending' = 0 /\ OwnData'
      BY <2>1, <2>2, <2>3 DEF Pending, OwnData
    <2> QED BY <1>6, <2>1, <2>4
  <1> QED BY <1>7, <1>8, <1>9, <1>10, <1>11, <1>12, <1>13 DEF Dpu!Execute

\* A command that a worker starts on is the one the counter comes to next.
LEMMA ExactTake ==
  ASSUME HostInv, HostInv', DpuTypes, Commands, Exact, Dpu!TakeInline, UNCHANGED hostVars
  PROVE  Exact'
  <1>1. UNCHANGED <<jobs, hostq, submitter, submitSeq, dbSeq, results>>
    BY DEF hostVars, Dpu!TakeInline
  <1>2. /\ Pending = 0 /\ Pending' = 1 /\ Waiting' = Waiting - 1 /\ Waiting > 0
        /\ worker'[0].msg = Command(1) /\ worker'[0].at = "setup"
        /\ \A i \in 1 .. Waiting - 1 : Command(i)' = Command(i + 1)
    BY TakeCommand
  <1>3. /\ Len(jobs) \in Nat /\ dbSeq \in Nat /\ Waiting \in Nat /\ 1 \in 1 .. Waiting
        /\ submitSeq \in Nat /\ Sending \in {0, 1} /\ Sending' = Sending
    BY <1>1, <1>2, Sizes DEF Sending
  <1>4. \A j : Delivered(j)' <=> Delivered(j)
    BY <1>1 DEF Delivered, Dpu!Data
  <1>5. OwnData'
    BY <1>2 DEF OwnData
  <1>6. dbSeq + Waiting = submitSeq + Sending
    BY <1>2, <1>3 DEF Exact
  <1>7. (dbSeq + Pending + Waiting = submitSeq + Sending)'
    BY <1>1, <1>2, <1>3, <1>6
  <1>8. ASSUME submitter.at = "number" PROVE LastSent'
    <2>1. Command(Waiting).job = submitter.job
      BY <1>2, <1>8 DEF Exact, LastSent
    <2>2. CASE Waiting = 1
      BY <1>1, <1>2, <2>1, <2>2 DEF LastSent
    <2>3. CASE Waiting > 1
      <3>1. PICK w \in 1 .. Waiting - 1 : w = Waiting - 1 /\ w + 1 = Waiting
        BY <1>3, <2>3
      <3>2. Command(w)' = Command(Waiting)
        BY <1>2, <3>1
      <3>3. Command(Waiting)' = Command(Waiting) /\ Waiting' > 0
        BY <1>2, <1>3, <2>3, <3>1, <3>2
      <3> QED BY <1>1, <2>1, <3>3 DEF LastSent
    <2> QED BY <1>2, <1>3, <2>2, <2>3
  <1>9. ASSUME NEW j \in 1 .. Len(jobs)
        PROVE  /\ jobs[j].seq \in 1 .. dbSeq => Delivered(j)
               /\ jobs[j].seq = dbSeq + 1 => Command(1).job = j
               /\ \A i \in 1 .. Waiting - 1 : jobs[j].seq = dbSeq + 1 + i => Command(i + 1).job = j
    <2>1. \A i \in 1 .. Waiting : jobs[j].seq = dbSeq + i => Command(i).job = j
      BY <1>2, <1>3 DEF Exact
    <2>2. ASSUME NEW i \in 1 .. Waiting - 1 PROVE i + 1 \in 1 .. Waiting /\ dbSeq + 1 + i = dbSeq + (i + 1)
      BY <1>3
    <2> QED BY <1>3, <2>1, <2>2 DEF Exact
  <1> QED BY <1>1, <1>2, <1>3, <1>4, <1>5, <1>7, <1>8, <1>9 DEF Exact

\* Every step keeps the numbers exact while no command is lost or fails.
LEMMA ExactStepInv ==
  ASSUME InflightCap + 2 <= MsgCap
  PROVE  HostInv /\ HostInv' /\ InlineInv /\ InlineInv' /\ ExactInv /\ [Next]_vars => ExactInv'
  <1> SUFFICES ASSUME HostInv, HostInv', InlineInv, InlineInv', ExactInv, [Next]_vars,
                      ~ ringQueues', ~ Faulty("unsent")', ~ Faulty("failed")'
               PROVE  Exact'
    BY DEF ExactInv
  <1>1. ~ ringQueues
    BY DEF Next, dpuVars, vars, Dpu!DpuNext, Dpu!Receive, Dpu!TakeInline, Dpu!Dispatch, Dpu!Worker,
           Dpu!TakeRing, Dpu!Execute, Dpu!Setup, Dpu!SetupFails, Dpu!Fill, Dpu!Finish, Dpu!LoadSeq,
           Dpu!Stage, Dpu!Doorbell, Dpu!DoorbellLost, Dpu!Leave
  <1>2. Numbers /\ DpuTypes /\ Commands /\ DpuTypes'
    BY <1>1 DEF InlineInv
  <1>3. hostFaults \subseteq hostFaults'
    BY DEF Next, vars, hostVars, Host!HostNext, Host!Enqueue, Host!Release, Host!Submitter,
           Host!SubmitPop, Host!SubmitExit, Host!SubmitSend, Host!SubmitFails, Host!SubmitNumber,
           Host!SubmitPush, Host!SubmitSignal, Host!Completer, Host!CompleterCheck,
           Host!CompleterLook, Host!CompleterSleep, Host!CompleterAwake, Host!CompleterMark,
           Host!CompleterPop, Host!Shutdown, Host!ShutdownStop, Host!ShutdownWake, Host!ShutdownJoin
  <1>4. dpuFaults \subseteq dpuFaults'
    BY DEF Next, dpuVars, vars, Dpu!DpuNext, Dpu!Receive, Dpu!TakeInline, Dpu!Dispatch, Dpu!Worker,
           Dpu!TakeRing, Dpu!Execute, Dpu!Setup, Dpu!SetupFails, Dpu!Fill, Dpu!Finish, Dpu!LoadSeq,
           Dpu!Stage, Dpu!Doorbell, Dpu!DoorbellLost, Dpu!Leave
  <1>5. Exact
    BY <1>1, <1>3, <1>4 DEF ExactInv, Faulty
  <1>6. CASE Host!HostNext /\ UNCHANGED dpuVars
    BY <1>2, <1>5, <1>6, ExactHost
  <1>7. CASE Dpu!Receive /\ UNCHANGED hostVars
    <2>1. UNCHANGED <<jobs, hostq, submitter, submitSeq>>
      BY <1>7 DEF hostVars
    <2>2. UNCHANGED <<worker, heads, dbSeq, results>> /\ channel # <<>> /\ channel' = Tail(channel)
      BY <1>7 DEF Dpu!Receive
    <2>3. msgq' = Append(msgq, Head(channel))
      BY <1>2, <1>7, ReceiveInline
    <2>4. Waiting' = Waiting /\ \A i \in 1 .. Waiting : Command(i)' = Command(i)
      BY <1>2, <2>2, <2>3, Received
    <2>5. Pending' = Pending /\ Sending' = Sending
      BY <2>1, <2>2 DEF Pending, Sending
    <2>6. OwnData'
      BY <1>5, <2>2 DEF Exact, OwnData, Delivered, Dpu!Data
    <2>7. Len(jobs) \in Nat
      BY <1>2, Sizes
    <2> QED BY <1>2, <1>5, <2>1, <2>2, <2>4, <2>5, <2>6, <2>7, ExactKept
  <1>8. CASE Dpu!TakeInline /\ UNCHANGED hostVars
    BY <1>2, <1>5, <1>8, ExactTake
  <1>9. CASE Dpu!Execute(0) /\ UNCHANGED hostVars
    BY <1>2, <1>5, <1>9, ExactExecute
  <1>10. CASE UNCHANGED vars
    <2>1. UNCHANGED <<jobs, hostq, submitter, submitSeq, msgq, channel, worker, heads, dbSeq, results>>
      BY <1>10 DEF vars, hostVars, dpuVars
    <2>2. Waiting' = Waiting /\ \A i \in 1 .. Waiting : Command(i)' = Command(i)
      BY <2>1, SameCommands
    <2>3. Pending' = Pending /\ Sending' = Sending
      BY <2>1 DEF Pending, Sending
    <2>4. OwnData'
      BY <1>5, <2>1 DEF Exact, OwnData, Delivered, Dpu!Data
    <2>5. Len(jobs) \in Nat
      BY <1>2, Sizes
    <2> QED BY <1>2, <1>5, <2>1, <2>2, <2>3, <2>4, <2>5, ExactKept
  <1> QED BY <1>1, <1>2, <1>6, <1>7, <1>8, <1>9, <1>10, InlineStep DEF Next

\* The counter and the numbers agree before the first job.
LEMMA InitExact == Init => ExactInv
  <1> SUFFICES ASSUME Init PROVE Exact
    BY DEF ExactInv
  <1>1. /\ jobs = <<>> /\ channel = <<>> /\ msgq = <<>> /\ submitSeq = 0 /\ dbSeq = 0
        /\ submitter = [at |-> "idle", job |-> 0] /\ worker = [w \in {0, 1} |-> Dpu!Idle]
    BY DEF Init, Host!HostInit, Dpu!DpuInit, Dpu!Ring
  <1>2. Dpu!Idle.at = "idle"
    BY DEF Dpu!Idle
  <1> QED BY <1>1, <1>2 DEF Exact, OwnData, Waiting, Pending, Sending

\* With the ring threads off, a job that its caller sees completed with
\* DOCA_SUCCESS has been executed and its own data delivered (comch_req_wait_u64,
\* completed by "doorbell >= seq" in collective_completion_main), whatever
\* submissions are refused and doorbells lost, unless a command was lost or failed.
THEOREM CompletedIsDone ==
  ASSUME InflightCap + 2 <= MsgCap
  PROVE  Spec => []CompletedMeansDone
  <1>1. HostInv /\ InlineInv /\ ExactInv => CompletedMeansDone
    <2> SUFFICES ASSUME HostInv, InlineInv, ExactInv, ~ ringQueues,
                        ~ Faulty("unsent"), ~ Faulty("failed"),
                        NEW j \in 1 .. Len(jobs), jobs[j].completed, jobs[j].ok
                 PROVE  Delivered(j)
      BY DEF CompletedMeansDone
    <2>1. Numbers /\ DpuTypes /\ Exact
      BY DEF InlineInv, ExactInv
    <2>2. jobs[j].seq \in 1 .. doorbell
      BY <2>1 DEF Numbers
    <2>3. jobs[j].seq \in 1 .. dbSeq
      BY <2>1, <2>2, Sizes
    <2> QED BY <2>1, <2>3 DEF Exact
  <1>2. HostInv /\ HostInv' /\ InlineInv /\ InlineInv' /\ ExactInv /\ [Next]_vars => ExactInv'
    BY ExactStepInv
  <1> QED BY <1>1, <1>2, InitExact, HostInvariant, InlineInvariant, PTL DEF Spec

-----------------------------------------------------------------------------
(* Types and bounds, in either mode of the DPU: every counter counts         *)
(* commands that have left the host, and there is at most one for each job.  *)

Msg == [job : 1 .. MaxJobs, kind : JobKind]

\* Jobs that have left the host's queue for good, sent or not; a worker that has
\* a command it has not counted; the commands in the rings' queues, with the
\* workers, and all that are sent and not counted.
Gone == Len(jobs) - Len(hostq) - Unsent
Uncounted(w) == IF worker[w].at \in {"setup", "run", "filled", "count", "stage"} THEN 1 ELSE 0
Lanes == Len(ringq[0]) + Len(ringq[1])
Held == Uncounted(0) + Uncounted(1)
Open == Waiting + Lanes + Held

HostPart ==
    /\ \A j \in 1 .. Len(jobs) : jobs[j].kind \in Kinds /\ jobs[j].seq <= submitSeq
    /\ submitSeq + Sending <= Gone
    /\ submitMtx \in BOOLEAN
    /\ completer \in {"check", "look", "locked", "asleep", "spin", "pop", "exited"}
    /\ shutdown \in {"no", "stop", "woken", "joined"}
    /\ hostFaults \subseteq {"unsent", "refused", "stranded"} \X (1 .. Len(jobs))

QueuePart ==
    /\ channel \in Seq(Msg) /\ msgq \in Seq(Msg) /\ ringq \in [{0, 1} -> Seq(Msg)]
    /\ Len(msgq) < MsgCap
    /\ dropped \subseteq 1 .. MaxJobs

WorkerPart ==
    /\ worker \in [{0, 1} -> WorkerRec]
    /\ \A w \in {0, 1} :
         /\ worker[w].at # "idle" => worker[w].msg \in Msg
         /\ worker[w].at \notin {"idle", "setup"} /\ worker[w].msg.kind = "agcpu" =>
                worker[w].slot # -1
         /\ worker[w].tmp <= MaxJobs

MemoryPart ==
    /\ slotsUsed \subseteq {0, 1}
    /\ heads \in [{0, 1} -> Dpu!Word]
    /\ doorbell \in 0 .. MaxJobs
    /\ results \subseteq (1 .. MaxJobs) \X Dpu!Word
    /\ copies \subseteq (1 .. MaxJobs) \X Dpu!Word

\* With two ring threads a store may take dbSeq back to a smaller number: what a
\* thread has loaded is bounded on its own.
Counts ==
    /\ agSeq \in Nat /\ agSeq + Waiting <= Gone
    /\ dbSeq \in Nat /\ dbSeq + Open <= Gone
    /\ \A w \in {0, 1} : worker[w].at = "stage" => worker[w].tmp + Open <= Gone

TypeInv == HostPart /\ QueuePart /\ WorkerPart /\ MemoryPart /\ Counts

\* A sequence all of whose elements are in T.
LEMMA Elements ==
  ASSUME NEW S, NEW T, NEW q \in Seq(S), \A i \in 1 .. Len(q) : q[i] \in T
  PROVE  q \in Seq(T)
  <1>1. Len(q) \in Nat /\ q \in [1 .. Len(q) -> T]
    BY LenProperties
  <1> QED BY <1>1, SeqDef

\* The sizes the counters are compared with.
LEMMA Lengths ==
  ASSUME HostInv
  PROVE  /\ Len(jobs) \in Nat /\ Len(hostq) \in Nat /\ Len(inflight) \in Nat /\ submitSeq \in Nat
         /\ Unsent \in {0, 1} /\ Sending \in {0, 1} /\ Busy \in {0, 1}
         /\ Freed \in Nat /\ Freed + Busy + Len(inflight) = Len(jobs) - Len(hostq)
         /\ Gone \in Nat /\ Gone <= Len(jobs) /\ Len(jobs) <= MaxJobs /\ MaxJobs \in Nat
         /\ \A j \in 1 .. Len(jobs) : jobs[j] \in JobRec /\ jobs[j].seq \in Nat
  <1>1. /\ Len(jobs) \in Nat /\ Len(hostq) \in Nat /\ Len(inflight) \in Nat /\ submitSeq \in Nat
        /\ Len(jobs) <= MaxJobs /\ MaxJobs \in Nat
    BY OffloadAssumption DEF HostInv, HostTypes
  <1>2. Unsent \in {0, 1} /\ Sending \in {0, 1} /\ Busy \in {0, 1}
    BY DEF Unsent, Sending, Busy
  <1>3. Freed \in Nat /\ Freed + Busy + Len(inflight) = Len(jobs) - Len(hostq)
    BY <1>1, <1>2 DEF HostInv, Order, Freed
  <1>4. Unsent <= Busy
    BY DEF Unsent, Busy, HostInv, Order
  <1>5. Gone \in Nat /\ Gone <= Len(jobs)
    BY <1>1, <1>2, <1>3, <1>4 DEF Gone
  <1>6. \A j \in 1 .. Len(jobs) : jobs[j] \in JobRec
    BY DEF HostInv, HostTypes
  <1> QED BY <1>1, <1>2, <1>3, <1>5, <1>6, JobTypes

\* What a caller or a thread of the host does to the jobs, their numbers, the
\* channel and what has left the queue.
LEMMA EnqueueTypes ==
  ASSUME HostInv, HostPart, NEW kind \in Kinds, Host!Enqueue(kind)
  PROVE  HostPart' /\ Gone' = Gone /\ channel' = channel
  <1> DEFINE job == [kind |-> kind, seq |-> 0, ok |-> TRUE, completed |-> FALSE, refcnt |-> 2]
  <1>1. /\ jobs' = Append(jobs, job) /\ hostq' = Append(hostq, Len(jobs) + 1)
        /\ UNCHANGED <<submitter, submitMtx, submitSeq, completer, shutdown, hostFaults, channel>>
    BY DEF Host!Enqueue
  <1>2. job.kind \in Kinds /\ job.seq = 0 /\ job \in JobRec
    BY OffloadAssumption DEF JobRec, JobKind
  <1> HIDE DEF job
  <1>3. jobs \in Seq(JobRec) /\ hostq \in Seq(Nat) /\ Len(jobs) + 1 \in Nat
    BY Lengths DEF HostInv, HostTypes
  <1>4. /\ Len(jobs') = Len(jobs) + 1 /\ jobs'[Len(jobs) + 1] = job
        /\ \A i \in 1 .. Len(jobs) : jobs'[i] = jobs[i]
    BY <1>1, <1>2, <1>3, Pushed
  <1>5. Len(hostq') = Len(hostq) + 1
    BY <1>1, <1>3, Pushed
  <1>6. Gone' = Gone /\ Sending' = Sending
    BY <1>1, <1>4, <1>5, Lengths DEF Gone, Unsent, Sending
  <1>7. \A i \in 1 .. Len(jobs) + 1 : jobs'[i].kind \in Kinds /\ jobs'[i].seq <= submitSeq
    <2> SUFFICES ASSUME NEW i \in 1 .. Len(jobs) + 1
                 PROVE  jobs'[i].kind \in Kinds /\ jobs'[i].seq <= submitSeq
      OBVIOUS
    <2>1. CASE i \in 1 .. Len(jobs)
      BY <1>4, <2>1 DEF HostPart
    <2>2. CASE i = Len(jobs) + 1
      BY <1>2, <1>4, <2>2, Lengths
    <2> QED BY <2>1, <2>2, Lengths
  <1>8. {"unsent", "refused", "stranded"} \X (1 .. Len(jobs))
          \subseteq {"unsent", "refused", "stranded"} \X (1 .. Len(jobs'))
    BY <1>4, Lengths
  <1>9. hostFaults' \subseteq {"unsent", "refused", "stranded"} \X (1 .. Len(jobs'))
    BY <1>1, <1>8 DEF HostPart
  <1> QED BY <1>1, <1>4, <1>6, <1>7, <1>9 DEF HostPart

\* An assignment to one job that keeps its kind and does not raise its number.
LEMMA JobTypesKept ==
  ASSUME HostInv, HostPart, NEW j \in 1 .. Len(jobs), NEW x \in JobRec,
         jobs' = [jobs EXCEPT ![j] = x], x.kind = jobs[j].kind,
         x.seq <= submitSeq', submitSeq <= submitSeq', submitSeq' \in Nat
  PROVE  /\ Len(jobs') = Len(jobs)
         /\ \A i \in 1 .. Len(jobs) : jobs'[i].kind \in Kinds /\ jobs'[i].seq <= submitSeq'
  <1>1. jobs \in Seq(JobRec)
    BY DEF HostInv, HostTypes
  <1>2. Len(jobs') = Len(jobs) /\ \A i \in 1 .. Len(jobs) : jobs'[i] = IF i = j THEN x ELSE jobs[i]
    BY <1>1, JobUpdate
  <1>3. ASSUME NEW i \in 1 .. Len(jobs) PROVE jobs'[i].kind \in Kinds /\ jobs'[i].seq <= submitSeq'
    <2>1. jobs[i].kind \in Kinds /\ jobs[i].seq <= submitSeq /\ jobs[i].seq \in Nat
      BY Lengths DEF HostPart
    <2>2. CASE i = j
      BY <1>2, <2>1, <2>2
    <2>3. CASE i # j
      <3>1. jobs'[i] = jobs[i]
        BY <1>2, <2>3
      <3> QED BY <2>1, <3>1, Lengths
    <2> QED BY <2>2, <2>3
  <1> QED BY <1>2, <1>3

\* A caller lets go of a job, or the completion thread marks it or lets go of it.
LEMMA JobStepTypes ==
  ASSUME HostInv, HostPart, NEW j \in 1 .. Len(jobs), NEW x \in JobRec,
         jobs' = [jobs EXCEPT ![j] = x], x.kind = jobs[j].kind, x.seq = jobs[j].seq,
         completer' \in {"check", "look", "locked", "asleep", "spin", "pop", "exited"},
         UNCHANGED <<hostq, submitter, submitMtx, submitSeq, shutdown, hostFaults, channel>>
  PROVE  HostPart' /\ Gone' = Gone /\ channel' = channel
  <1>1. x.seq <= submitSeq /\ submitSeq' = submitSeq /\ submitSeq <= submitSeq /\ submitSeq \in Nat
    BY Lengths DEF HostPart
  <1>2. /\ Len(jobs') = Len(jobs)
        /\ \A i \in 1 .. Len(jobs) : jobs'[i].kind \in Kinds /\ jobs'[i].seq <= submitSeq
    BY <1>1, JobTypesKept
  <1>3. Gone' = Gone /\ Sending' = Sending
    BY <1>2 DEF Gone, Unsent, Sending
  <1> QED BY <1>1, <1>2, <1>3 DEF HostPart

\* A step that leaves the jobs as they are, apart from a submission.
LEMMA SameJobsTypes ==
  ASSUME HostInv, HostPart, UNCHANGED <<jobs, submitSeq, submitMtx, hostFaults, channel>>,
         completer' \in {"check", "look", "locked", "asleep", "spin", "pop", "exited"},
         shutdown' \in {"no", "stop", "woken", "joined"},
         Gone' = Gone, Sending' = Sending
  PROVE  HostPart' /\ Gone' = Gone /\ channel' = channel
  BY DEF HostPart

\* The record of a job with one field changed.
LEMMA Fields ==
  ASSUME NEW x \in JobRec
  PROVE  /\ [x EXCEPT !.refcnt = @ - 1] \in JobRec
         /\ [x EXCEPT !.refcnt = @ - 1].kind = x.kind /\ [x EXCEPT !.refcnt = @ - 1].seq = x.seq
         /\ [x EXCEPT !.completed = TRUE] \in JobRec
         /\ [x EXCEPT !.completed = TRUE].kind = x.kind /\ [x EXCEPT !.completed = TRUE].seq = x.seq
         /\ [x EXCEPT !.ok = FALSE] \in JobRec
         /\ [x EXCEPT !.ok = FALSE].kind = x.kind /\ [x EXCEPT !.ok = FALSE].seq = x.seq
         /\ \A n \in Nat : /\ [x EXCEPT !.seq = n] \in JobRec
                           /\ [x EXCEPT !.seq = n].kind = x.kind /\ [x EXCEPT !.seq = n].seq = n
  <1>1. ASSUME NEW n \in Nat
        PROVE  /\ [x EXCEPT !.seq = n] \in JobRec
               /\ [x EXCEPT !.seq = n].kind = x.kind /\ [x EXCEPT !.seq = n].seq = n
    BY DEF JobRec
  <1>2. /\ [x EXCEPT !.refcnt = @ - 1] \in JobRec
        /\ [x EXCEPT !.refcnt = @ - 1].kind = x.kind /\ [x EXCEPT !.refcnt = @ - 1].seq = x.seq
    BY DEF JobRec
  <1>3. /\ [x EXCEPT !.completed = TRUE] \in JobRec
        /\ [x EXCEPT !.completed = TRUE].kind = x.kind /\ [x EXCEPT !.completed = TRUE].seq = x.seq
    BY DEF JobRec
  <1>4. /\ [x EXCEPT !.ok = FALSE] \in JobRec
        /\ [x EXCEPT !.ok = FALSE].kind = x.kind /\ [x EXCEPT !.ok = FALSE].seq = x.seq
    BY DEF JobRec
  <1> QED BY <1>1, <1>2, <1>3, <1>4

\* The completion thread.
LEMMA CompleterTypes ==
  ASSUME HostInv, HostPart, Host!Completer
  PROVE  HostPart' /\ Gone' = Gone /\ channel' = channel
  <1>1. CASE \/ Host!CompleterCheck \/ Host!CompleterLook \/ Host!CompleterSleep
             \/ Host!CompleterAwake
    <2>1. /\ UNCHANGED <<jobs, hostq, submitter, submitSeq, submitMtx, hostFaults, channel, shutdown>>
          /\ completer' \in {"check", "look", "locked", "asleep", "spin", "pop", "exited"}
      BY <1>1 DEF Host!CompleterCheck, Host!CompleterLook, Host!CompleterSleep, Host!CompleterAwake
    <2>2. Gone' = Gone /\ Sending' = Sending /\ shutdown' \in {"no", "stop", "woken", "joined"}
      BY <2>1 DEF Gone, Unsent, Sending, HostPart
    <2> QED BY <2>1, <2>2, SameJobsTypes
  <1>2. CASE Host!CompleterMark \/ Host!CompleterPop
    <2> DEFINE j == Head(inflight)
    <2>1. j \in 1 .. Len(jobs)
      <3>1. inflight \in Seq(Nat) /\ Len(inflight) > 0
        BY <1>2 DEF HostInv, HostTypes, Order, Host!CompleterMark, Host!CompleterPop
      <3>2. inflight[1] = Freed + 1 /\ Head(inflight) = inflight[1]
        BY <3>1, Popped, Lengths DEF HostInv, Order
      <3> QED BY <3>1, <3>2, Lengths
    <2>2. /\ \/ jobs' = [jobs EXCEPT ![j].completed = TRUE]
             \/ jobs' = [jobs EXCEPT ![j].refcnt = @ - 1]
          /\ completer' \in {"check", "look", "locked", "asleep", "spin", "pop", "exited"}
          /\ UNCHANGED <<hostq, submitter, submitMtx, submitSeq, shutdown, hostFaults, channel>>
      BY <1>2 DEF Host!CompleterMark, Host!CompleterPop
    <2> HIDE DEF j
    <2>3. jobs[j] \in JobRec
      BY <2>1, Lengths
    <2>4. \E x \in JobRec : /\ jobs' = [jobs EXCEPT ![j] = x]
                            /\ x.kind = jobs[j].kind /\ x.seq = jobs[j].seq
      <3>1. CASE jobs' = [jobs EXCEPT ![j].completed = TRUE]
        BY <2>3, <3>1, Fields
      <3>2. CASE jobs' = [jobs EXCEPT ![j].refcnt = @ - 1]
        BY <2>3, <3>2, Fields
      <3> QED BY <2>2, <3>1, <3>2
    <2> QED BY <2>1, <2>2, <2>4, JobStepTypes
  <1> QED BY <1>1, <1>2 DEF Host!Completer

\* A caller releases its job.
LEMMA ReleaseTypes ==
  ASSUME HostInv, HostPart, NEW j \in 1 .. Len(jobs), Host!Release(j)
  PROVE  HostPart' /\ Gone' = Gone /\ channel' = channel
  <1>1. /\ jobs' = [jobs EXCEPT ![j].refcnt = @ - 1]
        /\ completer' \in {"check", "look", "locked", "asleep", "spin", "pop", "exited"}
        /\ UNCHANGED <<hostq, submitter, submitMtx, submitSeq, shutdown, hostFaults, channel>>
    BY DEF Host!Release, HostPart
  <1>2. jobs[j] \in JobRec
    BY Lengths
  <1>3. \E x \in JobRec : /\ jobs' = [jobs EXCEPT ![j] = x]
                          /\ x.kind = jobs[j].kind /\ x.seq = jobs[j].seq
    BY <1>1, <1>2, Fields
  <1> QED BY <1>1, <1>3, JobStepTypes

\* The shutdown.
LEMMA ShutdownTypes ==
  ASSUME HostInv, HostPart, Host!Shutdown
  PROVE  HostPart' /\ Gone' = Gone /\ channel' = channel
  <1>1. /\ UNCHANGED <<jobs, hostq, submitter, submitSeq, submitMtx, hostFaults, channel>>
        /\ completer' \in {"check", "look", "locked", "asleep", "spin", "pop", "exited"}
        /\ shutdown' \in {"no", "stop", "woken", "joined"}
    BY DEF HostPart, Host!Shutdown, Host!ShutdownStop, Host!ShutdownWake, Host!ShutdownJoin
  <1>2. Gone' = Gone /\ Sending' = Sending
    BY <1>1 DEF Gone, Unsent, Sending
  <1> QED BY <1>1, <1>2, SameJobsTypes

\* The submit thread, where it takes no job on and sends nothing.
LEMMA SubmitRestTypes ==
  ASSUME HostInv, HostPart,
         Host!SubmitPop \/ Host!SubmitExit \/ Host!SubmitPush \/ Host!SubmitSignal
  PROVE  HostPart' /\ Gone' = Gone /\ channel' = channel
  <1>1. /\ UNCHANGED <<jobs, submitSeq, submitMtx, hostFaults, channel>>
        /\ completer' \in {"check", "look", "locked", "asleep", "spin", "pop", "exited"}
        /\ shutdown' \in {"no", "stop", "woken", "joined"}
    BY DEF HostPart, Host!SubmitPop, Host!SubmitExit, Host!SubmitPush, Host!SubmitSignal
  <1>2. submitter \in [at : {"idle", "impl", "number", "push", "signal", "exited"}, job : Nat]
    BY DEF HostInv, HostTypes
  <1>3. CASE Host!SubmitPop
    <2>1. hostq \in Seq(Nat) /\ hostq # <<>> /\ hostq' = Tail(hostq)
          /\ submitter.at = "idle" /\ submitter'.at = "impl"
      BY <1>3 DEF Host!SubmitPop, HostInv, HostTypes
    <2>2. Len(hostq') = Len(hostq) - 1
      BY <2>1, Popped
    <2>3. Unsent = 0 /\ Unsent' = 1 /\ Sending' = Sending
      BY <2>1 DEF Unsent, Sending
    <2>4. Gone' = Gone
      BY <1>1, <2>2, <2>3, Lengths DEF Gone
    <2> QED BY <1>1, <2>3, <2>4, SameJobsTypes
  <1>4. CASE ~ Host!SubmitPop
    <2>1. hostq' = hostq /\ submitter.at \in {"idle", "push", "signal"}
          /\ submitter'.at \in {"exited", "signal", "idle"}
      BY <1>2, <1>4 DEF Host!SubmitExit, Host!SubmitPush, Host!SubmitSignal
    <2>2. Unsent' = Unsent /\ Sending' = Sending
      BY <2>1 DEF Unsent, Sending
    <2>3. Gone' = Gone
      BY <1>1, <2>1, <2>2 DEF Gone
    <2> QED BY <1>1, <2>2, <2>3, SameJobsTypes
  <1> QED BY <1>3, <1>4

\* The submit thread's job while it is with it.
LEMMA SubmittedJob ==
  ASSUME HostInv, submitter.at \in {"impl", "number"}
  PROVE  submitter.job \in 1 .. Len(jobs)
  <1>1. submitter.job # 0 /\ submitter.job = Freed + Len(inflight) + 1 /\ Busy = 1
    BY DEF HostInv, Order, Busy
  <1> QED BY <1>1, Lengths

\* A command is sent, or lost on the way.
LEMMA SendTypes ==
  ASSUME HostInv, HostPart, QueuePart, Host!SubmitSend
  PROVE  /\ HostPart' /\ Gone' = Gone + 1 /\ channel' \in Seq(Msg)
         /\ Len(channel') \in {Len(channel), Len(channel) + 1}
  <1> DEFINE j == submitter.job
             c == [job |-> j, kind |-> jobs[j].kind]
  <1>1. /\ submitter.at = "impl" /\ submitMtx' = TRUE
        /\ UNCHANGED <<jobs, hostq, submitSeq, completer, shutdown>>
        /\ \/ channel' = Append(channel, c) /\ hostFaults' = hostFaults
           \/ channel' = channel /\ hostFaults' = hostFaults \cup {<<"unsent", j>>}
        /\ submitter' = [submitter EXCEPT !.at = "number"]
    BY DEF Host!SubmitSend
  <1>2. j \in 1 .. Len(jobs)
    BY <1>1, SubmittedJob
  <1>3. c \in Msg
    <2>1. jobs[j].kind \in JobKind
      BY <1>2, OffloadAssumption DEF HostPart, JobKind
    <2>2. j \in 1 .. MaxJobs
      BY <1>2, Lengths
    <2> QED BY <2>1, <2>2 DEF Msg
  <1>4. submitter'.at = "number"
    BY <1>1 DEF HostInv, HostTypes
  <1>5. Unsent = 1 /\ Unsent' = 0 /\ Sending = 0 /\ Sending' = 1
    BY <1>1, <1>4 DEF Unsent, Sending
  <1>6. Gone' = Gone + 1
    BY <1>1, <1>5, Lengths DEF Gone
  <1>7. submitSeq' + Sending' <= Gone'
    BY <1>1, <1>5, <1>6, Lengths DEF HostPart
  <1>8. <<"unsent", j>> \in {"unsent", "refused", "stranded"} \X (1 .. Len(jobs))
    BY <1>2
  <1> HIDE DEF c, j
  <1>9. HostPart'
    BY <1>1, <1>7, <1>8 DEF HostPart
  <1>10. channel \in Seq(Msg)
    BY DEF QueuePart
  <1>11. channel' \in Seq(Msg) /\ Len(channel') \in {Len(channel), Len(channel) + 1}
    BY <1>1, <1>3, <1>10, Pushed
  <1> QED BY <1>6, <1>9, <1>11

\* A submission is refused.
LEMMA FailTypes ==
  ASSUME HostInv, HostPart, Host!SubmitFails
  PROVE  HostPart' /\ Gone' = Gone + 1 /\ channel' = channel
  <1> DEFINE j == submitter.job
  <1>1. /\ submitter.at = "impl" /\ submitMtx' \in BOOLEAN
        /\ UNCHANGED <<hostq, submitSeq, completer, shutdown, channel>>
        /\ \/ hostFaults' = hostFaults \cup {<<"refused", j>>}
           \/ hostFaults' = hostFaults \cup {<<"stranded", j>>}
        /\ jobs' = [jobs EXCEPT ![j].ok = FALSE]
        /\ submitter' = [submitter EXCEPT !.at = "push"]
    BY DEF Host!SubmitFails
  <1>2. j \in 1 .. Len(jobs)
    BY <1>1, SubmittedJob
  <1>3. submitter'.at = "push"
    BY <1>1 DEF HostInv, HostTypes
  <1>4. /\ <<"refused", j>> \in {"unsent", "refused", "stranded"} \X (1 .. Len(jobs))
        /\ <<"stranded", j>> \in {"unsent", "refused", "stranded"} \X (1 .. Len(jobs))
    BY <1>2
  <1> HIDE DEF j
  <1>5. PICK x \in JobRec : /\ jobs' = [jobs EXCEPT ![j] = x]
                            /\ x.kind = jobs[j].kind /\ x.seq = jobs[j].seq
    BY <1>1, <1>2, Lengths, Fields
  <1>6. x.seq <= submitSeq /\ submitSeq <= submitSeq /\ submitSeq \in Nat /\ submitSeq' = submitSeq
    BY <1>1, <1>2, <1>5, Lengths DEF HostPart
  <1>7. /\ Len(jobs') = Len(jobs)
        /\ \A i \in 1 .. Len(jobs) : jobs'[i].kind \in Kinds /\ jobs'[i].seq <= submitSeq
    BY <1>2, <1>5, <1>6, JobTypesKept
  <1>8. Unsent = 1 /\ Unsent' = 0 /\ Sending = 0 /\ Sending' = 0
    BY <1>1, <1>3 DEF Unsent, Sending
  <1>9. Gone' = Gone + 1
    BY <1>1, <1>7, <1>8, Lengths DEF Gone
  <1>10. submitSeq + Sending' <= Gone'
    BY <1>8, <1>9, Lengths DEF HostPart
  <1> QED BY <1>1, <1>4, <1>6, <1>7, <1>9, <1>10 DEF HostPart

\* A job gets its number.
LEMMA NumberTypes ==
  ASSUME HostInv, HostPart, Host!SubmitNumber
  PROVE  HostPart' /\ Gone' = Gone /\ channel' = channel
  <1> DEFINE j == submitter.job
  <1>1. /\ submitter.at = "number" /\ submitMtx' = FALSE /\ submitSeq' = submitSeq + 1
        /\ UNCHANGED <<hostq, completer, shutdown, channel, hostFaults>>
        /\ jobs' = [jobs EXCEPT ![j].seq = submitSeq + 1]
        /\ submitter' = [submitter EXCEPT !.at = "push"]
    BY DEF Host!SubmitNumber
  <1>2. j \in 1 .. Len(jobs)
    BY <1>1, SubmittedJob
  <1>3. submitter'.at = "push"
    BY <1>1 DEF HostInv, HostTypes
  <1> HIDE DEF j
  <1>4. submitSeq \in Nat /\ submitSeq + 1 \in Nat /\ submitSeq <= submitSeq + 1
    BY Lengths
  <1>5. PICK x \in JobRec : /\ jobs' = [jobs EXCEPT ![j] = x]
                            /\ x.kind = jobs[j].kind /\ x.seq = submitSeq + 1
    <2> DEFINE x == [jobs[j] EXCEPT !.seq = submitSeq + 1]
    <2>1. jobs[j] \in JobRec
      BY <1>2, Lengths
    <2>2. x \in JobRec /\ x.kind = jobs[j].kind /\ x.seq = submitSeq + 1
      BY <1>4, <2>1, Fields
    <2>3. jobs' = [jobs EXCEPT ![j] = x]
      BY <1>1
    <2> HIDE DEF x
    <2> QED BY <2>2, <2>3
  <1>6. x.seq <= submitSeq' /\ submitSeq <= submitSeq' /\ submitSeq' \in Nat
    BY <1>1, <1>4, <1>5
  <1>7. /\ Len(jobs') = Len(jobs)
        /\ \A i \in 1 .. Len(jobs) : jobs'[i].kind \in Kinds /\ jobs'[i].seq <= submitSeq'
    BY <1>2, <1>5, <1>6, JobTypesKept
  <1>8. Unsent = 0 /\ Unsent' = 0 /\ Sending = 1 /\ Sending' = 0
    BY <1>1, <1>3 DEF Unsent, Sending
  <1>9. Gone' = Gone
    BY <1>1, <1>7, <1>8 DEF Gone
  <1>10. submitSeq' + Sending' <= Gone'
    BY <1>1, <1>8, <1>9, Lengths DEF HostPart
  <1> QED BY <1>1, <1>7, <1>9, <1>10 DEF HostPart

\* Every step of the host: a command that is added to the channel has left the queue.
LEMMA HostStepTypes ==
  ASSUME HostInv, HostPart, QueuePart, Host!HostNext
  PROVE  /\ HostPart' /\ channel' \in Seq(Msg)
         /\ \E c, g \in {0, 1} : c <= g /\ Len(channel') = Len(channel) + c /\ Gone' = Gone + g
  <1>1. channel \in Seq(Msg) /\ Len(channel) \in Nat /\ Gone \in Nat
    BY Lengths DEF QueuePart
  <1>2. ASSUME HostPart', Gone' = Gone, channel' = channel
        PROVE  /\ HostPart' /\ channel' \in Seq(Msg)
               /\ Len(channel') = Len(channel) + 0 /\ Gone' = Gone + 0
    BY <1>1, <1>2
  <1>3. CASE Host!SubmitFails
    <2>1. HostPart' /\ Gone' = Gone + 1 /\ channel' = channel
      BY <1>3, FailTypes
    <2>2. Len(channel') = Len(channel) + 0 /\ channel' \in Seq(Msg)
      BY <1>1, <2>1
    <2> QED BY <2>1, <2>2
  <1>4. CASE Host!SubmitSend
    <2>1. /\ HostPart' /\ Gone' = Gone + 1 /\ channel' \in Seq(Msg)
          /\ Len(channel') \in {Len(channel), Len(channel) + 1}
      BY <1>4, SendTypes
    <2>2. Len(channel') = Len(channel) + 0 \/ Len(channel') = Len(channel) + 1
      BY <1>1, <2>1
    <2> QED BY <2>1, <2>2
  <1>5. ASSUME NEW kind \in Kinds, Host!Enqueue(kind)
        PROVE  HostPart' /\ Gone' = Gone /\ channel' = channel
    BY <1>5, EnqueueTypes
  <1>6. ASSUME NEW j \in 1 .. Len(jobs), Host!Release(j)
        PROVE  HostPart' /\ Gone' = Gone /\ channel' = channel
    BY <1>6, ReleaseTypes
  <1>7. Host!SubmitFails \/ Host!SubmitSend \/ (HostPart' /\ Gone' = Gone /\ channel' = channel)
    BY <1>5, <1>6, CompleterTypes, ShutdownTypes, SubmitRestTypes, NumberTypes
       DEF Host!HostNext, Host!Job, Host!Submitter
  <1>8. 0 \in {0, 1} /\ 1 \in {0, 1} /\ 0 <= 0 /\ 0 <= 1 /\ 1 <= 1
    OBVIOUS
  <1> QED BY <1>2, <1>3, <1>4, <1>7, <1>8

\* What may be in the first words of a slot.
LEMMA Words ==
  /\ \A n \in 0 .. MaxJobs : Dpu!Count(n) \in Dpu!Word
  /\ \A j \in 1 .. MaxJobs : Dpu!Data(j) \in Dpu!Word
  BY DEF Dpu!Word

\* The sizes of the queues.
LEMMA QueueSizes ==
  ASSUME QueuePart
  PROVE  /\ Len(channel) \in Nat /\ Len(msgq) \in Nat
         /\ Len(ringq[0]) \in Nat /\ Len(ringq[1]) \in Nat
         /\ Uncounted(0) \in {0, 1} /\ Uncounted(1) \in {0, 1}
         /\ Waiting \in Nat /\ Lanes \in Nat /\ Held \in Nat /\ Open \in Nat
  <1>1. channel \in Seq(Msg) /\ msgq \in Seq(Msg) /\ ringq[0] \in Seq(Msg) /\ ringq[1] \in Seq(Msg)
    BY DEF QueuePart
  <1>2. /\ Len(channel) \in Nat /\ Len(msgq) \in Nat
        /\ Len(ringq[0]) \in Nat /\ Len(ringq[1]) \in Nat
    BY <1>1
  <1>3. Uncounted(0) \in {0, 1} /\ Uncounted(1) \in {0, 1}
    BY DEF Uncounted
  <1>4. \A a, b \in Nat : a + b \in Nat
    OBVIOUS
  <1>5. Waiting \in Nat /\ Lanes \in Nat /\ Held \in Nat
    BY <1>2, <1>3, <1>4, Zenon DEF Waiting, Lanes, Held
  <1>6. Waiting + Lanes \in Nat
    BY <1>4, <1>5, Zenon
  <1>7. Open \in Nat
    BY <1>4, <1>5, <1>6, Zenon DEF Open
  <1> QED BY <1>2, <1>3, <1>5, <1>7

\* The sizes after a step, from the change of each queue and of the workers.
LEMMA WaitingMoved ==
  ASSUME QueuePart, NEW c \in Int, NEW m \in Int,
         Len(channel') = Len(channel) + c, Len(msgq') = Len(msgq) + m
  PROVE  Waiting' = Waiting + (c + m)
  <1>1. PICK x, y : x = Len(channel) /\ y = Len(msgq)
    OBVIOUS
  <1>2. x \in Nat /\ y \in Nat
    BY <1>1, QueueSizes
  <1>3. Waiting = y + x /\ Waiting' = (y + m) + (x + c)
    BY <1>1 DEF Waiting
  <1>4. (y + m) + (x + c) = (y + x) + (c + m)
    BY ONLY <1>2, c \in Int, m \in Int
  <1> QED BY <1>3, <1>4

\* The same for the rings' queues, from the change of either.
LEMMA LanesMoved ==
  ASSUME QueuePart, NEW c \in Int, NEW m \in Int,
         Len(ringq'[0]) = Len(ringq[0]) + c, Len(ringq'[1]) = Len(ringq[1]) + m
  PROVE  Lanes' = Lanes + (c + m)
  <1>1. PICK x, y : x = Len(ringq[0]) /\ y = Len(ringq[1])
    OBVIOUS
  <1>2. x \in Nat /\ y \in Nat
    BY <1>1, QueueSizes
  <1>3. Lanes = x + y /\ Lanes' = (x + c) + (y + m)
    BY <1>1 DEF Lanes
  <1>4. (x + c) + (y + m) = (x + y) + (c + m)
    BY ONLY <1>2, c \in Int, m \in Int
  <1> QED BY <1>3, <1>4

\* The same for what the workers hold.
LEMMA HeldMoved ==
  ASSUME NEW c \in Int, NEW m \in Int,
         Uncounted(0)' = Uncounted(0) + c, Uncounted(1)' = Uncounted(1) + m
  PROVE  Held' = Held + (c + m)
  <1>1. PICK x, y : x = Uncounted(0) /\ y = Uncounted(1)
    OBVIOUS
  <1>2. x \in Nat /\ y \in Nat
    BY <1>1 DEF Uncounted
  <1>3. Held = x + y /\ Held' = (x + c) + (y + m)
    BY <1>1 DEF Held
  <1>4. (x + c) + (y + m) = (x + y) + (c + m)
    BY ONLY <1>2, c \in Int, m \in Int
  <1> QED BY <1>3, <1>4

\* The same for all that is not counted.
LEMMA OpenMoved ==
  ASSUME QueuePart, NEW d \in Int, NEW l \in Int, NEW u \in Int,
         Waiting' = Waiting + d, Lanes' = Lanes + l, Held' = Held + u
  PROVE  Open' = Open + (d + l + u)
  <1>1. PICK x, y, z : x = Waiting /\ y = Lanes /\ z = Held
    OBVIOUS
  <1>2. x \in Nat /\ y \in Nat /\ z \in Nat
    BY <1>1, QueueSizes
  <1>3. Open = x + y + z /\ Open' = (x + d) + (y + l) + (z + u)
    BY <1>1 DEF Open
  <1>4. (x + d) + (y + l) + (z + u) = (x + y + z) + (d + l + u)
    BY ONLY <1>2, d \in Int, l \in Int, u \in Int
  <1> QED BY <1>3, <1>4

\* The counters stay below as long as no more is sent than has left the host's
\* queue: what a bound of the commands not counted says before the step it says after.
LEMMA CountsMoved ==
  ASSUME QueuePart, HostInv, Gone' \in Nat,
         NEW d \in Int, NEW a \in Int, NEW g \in Nat, NEW o \in Int,
         Waiting' = Waiting + d, Gone' = Gone + g, Open' = Open + o
  PROVE  /\ \A n \in Nat, k \in Int : n + Open <= Gone /\ k + o <= g => n + k + Open' <= Gone'
         /\ \A n \in Nat : n + Waiting <= Gone /\ a + d <= g => n + a + Waiting' <= Gone'
  <1>1. PICK x1, x2, x3 : x1 = Waiting /\ x2 = Open /\ x3 = Gone
    OBVIOUS
  <1>2. x1 \in Nat /\ x2 \in Nat /\ x3 \in Nat
    BY <1>1, QueueSizes, Lengths
  <1>3. /\ \A n \in Nat, k \in Int : n + x2 <= x3 /\ k + o <= g => n + k + (x2 + o) <= x3 + g
        /\ \A n \in Nat : n + x1 <= x3 /\ a + d <= g => n + a + (x1 + d) <= x3 + g
    BY ONLY <1>2, d \in Int, a \in Int, g \in Nat, o \in Int
  <1> QED BY <1>1, <1>3

\* A step that moves no worker, and what is counted no faster than it leaves the host.
LEMMA CountsKept ==
  ASSUME HostInv, QueuePart, WorkerPart, Counts, Gone' \in Nat,
         NEW d \in Int, NEW a \in {0, 1}, NEW g \in Nat, NEW o \in Int,
         Waiting' = Waiting + d, Gone' = Gone + g, Open' = Open + o, a + d <= g, o <= g,
         agSeq' = agSeq + a, dbSeq' = dbSeq,
         \A w \in {0, 1} : worker'[w].at = "stage" =>
             worker[w].at = "stage" /\ worker'[w].tmp = worker[w].tmp
  PROVE  Counts'
  <1>1. /\ 0 \in Int /\ 0 + o <= g /\ a \in Int /\ agSeq \in Nat /\ dbSeq \in Nat
    <2>1. 0 + o <= g /\ a \in Int
      OBVIOUS
    <2> QED BY <2>1 DEF Counts
  <1>2. /\ \A n \in Nat : n + Open <= Gone => n + 0 + Open' <= Gone'
        /\ \A n \in Nat : n + Waiting <= Gone => n + a + Waiting' <= Gone'
    BY <1>1, CountsMoved
  <1>3. \A n \in Nat : n + 0 = n
    OBVIOUS
  <1>4. agSeq' + Waiting' <= Gone'
    BY <1>1, <1>2 DEF Counts
  <1>5. dbSeq' + Open' <= Gone'
    BY <1>1, <1>2, <1>3 DEF Counts
  <1>6. ASSUME NEW w \in {0, 1}, worker'[w].at = "stage" PROVE worker'[w].tmp + Open' <= Gone'
    <2>1. worker[w].tmp \in Nat /\ worker[w].tmp + Open <= Gone /\ worker'[w].tmp = worker[w].tmp
      BY <1>6 DEF Counts, WorkerPart, WorkerRec
    <2> QED BY <1>2, <1>3, <2>1
  <1>7. agSeq' \in Nat
    BY <1>1
  <1> QED BY <1>1, <1>4, <1>5, <1>6, <1>7 DEF Counts

\* A step of the host does not disturb the DPU's.
LEMMA HostTypeInv ==
  ASSUME HostInv, TypeInv, Host!HostNext, UNCHANGED dpuVars
  PROVE  TypeInv'
  <1>1. HostPart /\ QueuePart /\ WorkerPart /\ MemoryPart /\ Counts
    BY DEF TypeInv
  <1>2. HostPart' /\ channel' \in Seq(Msg)
    BY <1>1, HostStepTypes
  <1>3. PICK c, g \in {0, 1} : c <= g /\ Len(channel') = Len(channel) + c /\ Gone' = Gone + g
    BY <1>1, HostStepTypes
  <1>4. UNCHANGED <<ringQueues, msgq, dropped, ringq, agSeq, worker, slotsUsed, heads, dbSeq,
                    results, copies>>
    BY DEF dpuVars
  <1>5. UNCHANGED doorbell
    BY DEF Host!HostNext, Host!Enqueue, Host!Release, Host!Submitter, Host!SubmitPop,
           Host!SubmitExit, Host!SubmitSend, Host!SubmitFails, Host!SubmitNumber,
           Host!SubmitPush, Host!SubmitSignal, Host!Completer, Host!CompleterCheck,
           Host!CompleterLook, Host!CompleterSleep, Host!CompleterAwake, Host!CompleterMark,
           Host!CompleterPop, Host!Shutdown, Host!ShutdownStop, Host!ShutdownWake,
           Host!ShutdownJoin
  <1>6. QueuePart'
    BY <1>1, <1>2, <1>4 DEF QueuePart
  <1>7. WorkerPart' /\ MemoryPart'
    BY <1>1, <1>4, <1>5 DEF WorkerPart, MemoryPart
  <1> PICK z \in Int : z = 0
    OBVIOUS
  <1>8. Len(msgq') = Len(msgq) + z /\ Lanes' = Lanes + z /\ Held' = Held + z
    BY <1>1, <1>4, QueueSizes DEF Uncounted, Lanes, Held
  <1>9. Waiting' = Waiting + (c + z) /\ Open' = Open + ((c + z) + z + z)
    <2>1. c \in Int /\ c + z \in Int
      OBVIOUS
    <2>2. Waiting' = Waiting + (c + z)
      BY <1>1, <1>3, <1>8, <2>1, WaitingMoved
    <2> QED BY <1>1, <1>8, <2>1, <2>2, OpenMoved
  <1>10. /\ c + z \in Int /\ (c + z) + z + z \in Int /\ g \in Nat /\ 0 \in {0, 1}
         /\ 0 + (c + z) <= g /\ (c + z) + z + z <= g
    BY <1>3
  <1>11. Gone' \in Nat /\ agSeq' = agSeq + 0 /\ dbSeq' = dbSeq
    BY <1>1, <1>3, <1>4, Lengths DEF Counts
  <1>12. Counts'
    BY <1>1, <1>3, <1>4, <1>6, <1>9, <1>10, <1>11, CountsKept
  <1> QED BY <1>2, <1>6, <1>7, <1>12 DEF TypeInv

\* A step of the DPU leaves the host alone.
LEMMA HostPartKept ==
  ASSUME HostInv, HostPart, UNCHANGED hostVars
  PROVE  HostPart' /\ Gone' \in Nat /\ Gone' = Gone + 0
  <1>1. HostPart' /\ Gone' = Gone
    BY DEF HostPart, hostVars, Gone, Unsent, Sending
  <1> QED BY <1>1, Lengths

\* A command comes in.
LEMMA ReceiveTypes ==
  ASSUME HostInv, TypeInv, Dpu!Receive, UNCHANGED hostVars
  PROVE  TypeInv'
  <1>1. HostPart /\ QueuePart /\ WorkerPart /\ MemoryPart /\ Counts
    BY DEF TypeInv
  <1>2. HostPart' /\ Gone' \in Nat /\ Gone' = Gone + 0
    BY <1>1, HostPartKept
  <1>3. /\ channel # <<>> /\ channel' = Tail(channel)
        /\ UNCHANGED <<ringq, agSeq, worker, slotsUsed, heads, dbSeq, results, copies, doorbell>>
        /\ \/ Len(msgq) < MsgCap - 1 /\ msgq' = Append(msgq, Head(channel)) /\ dropped' = dropped
           \/ dropped' = dropped \cup {Head(channel).job} /\ msgq' = msgq
    BY DEF Dpu!Receive
  <1>4. /\ channel' \in Seq(Msg) /\ Len(channel') = Len(channel) + (-1) /\ Head(channel) \in Msg
    <2>1. channel \in Seq(Msg)
      BY <1>1 DEF QueuePart
    <2> QED BY <1>3, <2>1, Popped
  <1>5. MsgCap \in Nat /\ msgq \in Seq(Msg) /\ Len(msgq) \in Nat /\ Len(msgq) < MsgCap
    BY <1>1, OffloadAssumption DEF QueuePart
  <1>6. PICK m \in {0, 1} : msgq' \in Seq(Msg) /\ Len(msgq') = Len(msgq) + m /\ Len(msgq') < MsgCap
    <2>1. CASE Len(msgq) < MsgCap - 1 /\ msgq' = Append(msgq, Head(channel))
      <3>1. msgq' \in Seq(Msg) /\ Len(msgq') = Len(msgq) + 1
        BY <1>4, <1>5, <2>1, Pushed
      <3> QED BY <1>5, <2>1, <3>1
    <2>2. CASE msgq' = msgq
      <3>1. Len(msgq') = Len(msgq) + 0
        BY <1>5, <2>2
      <3> QED BY <1>5, <2>2, <3>1
    <2> QED BY <1>3, <2>1, <2>2
  <1>7. dropped' \subseteq 1 .. MaxJobs
    BY <1>1, <1>3, <1>4 DEF QueuePart, Msg
  <1>8. QueuePart'
    BY <1>1, <1>3, <1>4, <1>6, <1>7 DEF QueuePart
  <1>9. WorkerPart' /\ MemoryPart'
    BY <1>1, <1>3 DEF WorkerPart, MemoryPart
  <1> PICK z, c \in Int : z = 0 /\ c = -1
    OBVIOUS
  <1>10. Len(channel') = Len(channel) + c /\ Lanes' = Lanes + z /\ Held' = Held + z
    BY <1>1, <1>3, <1>4, QueueSizes DEF Uncounted, Lanes, Held
  <1>11. Waiting' = Waiting + (c + m) /\ Open' = Open + ((c + m) + z + z)
    <2>1. m \in Int /\ c + m \in Int
      OBVIOUS
    <2>2. Waiting' = Waiting + (c + m)
      BY <1>1, <1>6, <1>10, <2>1, WaitingMoved
    <2> QED BY <1>1, <1>10, <2>1, <2>2, OpenMoved
  <1>12. /\ c + m \in Int /\ (c + m) + z + z \in Int /\ 0 \in Nat /\ 0 \in {0, 1}
         /\ 0 + (c + m) <= 0 /\ (c + m) + z + z <= 0
    BY <1>6
  <1>13. agSeq' = agSeq + 0 /\ dbSeq' = dbSeq
    BY <1>1, <1>3 DEF Counts
  <1>14. Counts'
    BY <1>1, <1>2, <1>3, <1>8, <1>11, <1>12, <1>13, CountsKept
  <1> QED BY <1>2, <1>8, <1>9, <1>14 DEF TypeInv

\* One worker changes: it has a command unless it is idle, its own slot if it
\* has gone past the set-up of a copy, and a bounded number.
LEMMA WorkerChanges ==
  ASSUME WorkerPart, NEW w \in {0, 1}, NEW x \in WorkerRec,
         worker' = [worker EXCEPT ![w] = x],
         x.at # "idle" => x.msg \in Msg,
         x.at \notin {"idle", "setup"} /\ x.msg.kind = "agcpu" => x.slot # -1,
         x.tmp <= MaxJobs
  PROVE  /\ WorkerPart' /\ worker'[w] = x
         /\ \A v \in {0, 1} : v # w => worker'[v] = worker[v]
  <1>1. worker' \in [{0, 1} -> WorkerRec]
    BY DEF WorkerPart
  <1>2. worker'[w] = x /\ \A v \in {0, 1} : v # w => worker'[v] = worker[v]
    BY DEF WorkerPart
  <1>3. ASSUME NEW v \in {0, 1}
        PROVE  /\ worker'[v].at # "idle" => worker'[v].msg \in Msg
               /\ worker'[v].at \notin {"idle", "setup"} /\ worker'[v].msg.kind = "agcpu" =>
                      worker'[v].slot # -1
               /\ worker'[v].tmp <= MaxJobs
    <2>1. CASE v = w
      BY <1>2, <2>1
    <2>2. CASE v # w
      BY <1>2, <2>2 DEF WorkerPart
    <2> QED BY <2>1, <2>2
  <1> QED BY <1>1, <1>2, <1>3 DEF WorkerPart

\* What the workers hold when one of them changes.
LEMMA HeldChanges ==
  ASSUME NEW w \in {0, 1}, NEW u \in Int, Uncounted(w)' = Uncounted(w) + u,
         \A v \in {0, 1} : v # w => worker'[v] = worker[v]
  PROVE  Held' = Held + u
  <1> PICK z \in Int : z = 0
    OBVIOUS
  <1>1. Uncounted(0) \in {0, 1} /\ Uncounted(1) \in {0, 1}
    BY DEF Uncounted
  <1>2. Held \in Int /\ u + z = u /\ z + u = u
    BY <1>1 DEF Held
  <1>3. CASE w = 0
    <2>1. Uncounted(0)' = Uncounted(0) + u
      BY <1>3
    <2>2. Uncounted(1)' = Uncounted(1) + z
      <3>1. Uncounted(1)' = Uncounted(1)
        BY <1>3 DEF Uncounted
      <3> QED BY <1>1, <3>1
    <2>3. Held' = Held + (u + z)
      BY <2>1, <2>2, HeldMoved
    <2> QED BY <1>2, <2>3
  <1>4. CASE w = 1
    <2>1. Uncounted(1)' = Uncounted(1) + u
      BY <1>4
    <2>2. Uncounted(0)' = Uncounted(0) + z
      <3>1. Uncounted(0)' = Uncounted(0)
        BY <1>4 DEF Uncounted
      <3> QED BY <1>1, <3>1
    <2>3. Held' = Held + (z + u)
      BY <2>1, <2>2, HeldMoved
    <2> QED BY <1>2, <2>3
  <1> QED BY <1>3, <1>4

\* An idle worker starts a command.
LEMMA BeginTypes ==
  ASSUME WorkerPart, NEW w \in {0, 1}, NEW msg \in Msg, worker[w] = Dpu!Idle, Dpu!Begin(w, msg)
  PROVE  /\ WorkerPart' /\ Held' = Held + 1
         /\ \A v \in {0, 1} : worker'[v].at = "stage" =>
                worker[v].at = "stage" /\ worker'[v].tmp = worker[v].tmp
  <1>1. PICK i \in WorkerRec : i = Dpu!Idle /\ i.tmp = 0
    BY DEF Dpu!Idle, WorkerRec
  <1> DEFINE x == [i EXCEPT !.at = "setup", !.msg = msg]
  <1>2. /\ x \in WorkerRec /\ x.at = "setup" /\ x.msg = msg /\ x.tmp = 0
        /\ worker' = [worker EXCEPT ![w] = x]
    <2>1. worker' = [worker EXCEPT ![w] = x]
      BY <1>1 DEF Dpu!Begin
    <2>2. msg \in [job : Nat, kind : JobKind \cup {"none"}]
      BY OffloadAssumption DEF Msg
    <2> QED BY <1>1, <2>1, <2>2 DEF WorkerRec
  <1> HIDE DEF x
  <1>3. 0 <= MaxJobs
    BY OffloadAssumption
  <1>4. /\ WorkerPart' /\ worker'[w] = x
        /\ \A v \in {0, 1} : v # w => worker'[v] = worker[v]
    BY <1>2, <1>3, WorkerChanges
  <1>5. Uncounted(w) = 0 /\ Uncounted(w)' = 1
    BY <1>2, <1>4 DEF Uncounted, Dpu!Idle
  <1>6. Uncounted(w)' = Uncounted(w) + 1
    BY <1>5
  <1>7. Held' = Held + 1
    BY <1>4, <1>6, HeldChanges
  <1>8. \A v \in {0, 1} : worker'[v].at = "stage" =>
            worker[v].at = "stage" /\ worker'[v].tmp = worker[v].tmp
    BY <1>2, <1>4
  <1> QED BY <1>4, <1>7, <1>8

\* The message thread takes a command to execute itself.
LEMMA InlineTypes ==
  ASSUME HostInv, TypeInv, Dpu!TakeInline, UNCHANGED hostVars
  PROVE  TypeInv'
  <1>1. HostPart /\ QueuePart /\ WorkerPart /\ MemoryPart /\ Counts
    BY DEF TypeInv
  <1>2. HostPart' /\ Gone' \in Nat /\ Gone' = Gone + 0
    BY <1>1, HostPartKept
  <1>3. /\ worker[0] = Dpu!Idle /\ msgq # <<>> /\ msgq' = Tail(msgq) /\ Dpu!Begin(0, Head(msgq))
        /\ UNCHANGED <<dropped, ringq, agSeq, slotsUsed, heads, dbSeq, results, copies, channel, doorbell>>
    BY DEF Dpu!TakeInline
  <1>4. /\ msgq' \in Seq(Msg) /\ Len(msgq') = Len(msgq) + (-1) /\ Head(msgq) \in Msg
        /\ Len(msgq') < MsgCap
    <2>1. msgq \in Seq(Msg) /\ Len(msgq) < MsgCap /\ MsgCap \in Nat
      BY <1>1, OffloadAssumption DEF QueuePart
    <2>2. /\ msgq' \in Seq(Msg) /\ Len(msgq') = Len(msgq) - 1 /\ Head(msgq) \in Msg /\ Len(msgq) \in Nat
      BY <1>3, <2>1, Popped
    <2> QED BY <2>1, <2>2
  <1>5. QueuePart'
    BY <1>1, <1>3, <1>4 DEF QueuePart
  <1>6. MemoryPart'
    BY <1>1, <1>3 DEF MemoryPart
  <1>7. /\ WorkerPart' /\ Held' = Held + 1
        /\ \A v \in {0, 1} : worker'[v].at = "stage" =>
               worker[v].at = "stage" /\ worker'[v].tmp = worker[v].tmp
    BY <1>1, <1>3, <1>4, BeginTypes
  <1> PICK z, m, u \in Int : z = 0 /\ m = -1 /\ u = 1
    OBVIOUS
  <1>8. /\ Len(channel') = Len(channel) + z /\ Len(msgq') = Len(msgq) + m
        /\ Lanes' = Lanes + z /\ Held' = Held + u
    BY <1>1, <1>3, <1>4, <1>7, QueueSizes DEF Lanes
  <1>9. Waiting' = Waiting + (z + m) /\ Open' = Open + ((z + m) + z + u)
    <2>1. z + m \in Int
      OBVIOUS
    <2>2. Waiting' = Waiting + (z + m)
      BY <1>1, <1>8, WaitingMoved
    <2> QED BY <1>1, <1>8, <2>1, <2>2, OpenMoved
  <1>10. /\ z + m \in Int /\ (z + m) + z + u \in Int /\ 0 \in Nat /\ 0 \in {0, 1}
         /\ 0 + (z + m) <= 0 /\ (z + m) + z + u <= 0
    OBVIOUS
  <1>11. agSeq' = agSeq + 0 /\ dbSeq' = dbSeq
    BY <1>1, <1>3 DEF Counts
  <1>12. Counts'
    BY <1>1, <1>2, <1>7, <1>9, <1>10, <1>11, CountsKept
  <1> QED BY <1>2, <1>5, <1>6, <1>7, <1>12 DEF TypeInv

\* A ring thread takes a command from its queue.
LEMMA TakeRingTypes ==
  ASSUME HostInv, TypeInv, NEW w \in {0, 1}, Dpu!TakeRing(w), UNCHANGED hostVars
  PROVE  TypeInv'
  <1>1. HostPart /\ QueuePart /\ WorkerPart /\ MemoryPart /\ Counts
    BY DEF TypeInv
  <1>2. HostPart' /\ Gone' \in Nat /\ Gone' = Gone + 0
    BY <1>1, HostPartKept
  <1>3. /\ worker[w] = Dpu!Idle /\ ringq[w] # <<>> /\ ringq' = [ringq EXCEPT ![w] = Tail(ringq[w])]
        /\ Dpu!Begin(w, Head(ringq[w]))
        /\ UNCHANGED <<dropped, msgq, agSeq, slotsUsed, heads, dbSeq, results, copies, channel, doorbell>>
    BY DEF Dpu!TakeRing
  <1>4. /\ Tail(ringq[w]) \in Seq(Msg) /\ Len(Tail(ringq[w])) = Len(ringq[w]) + (-1)
        /\ Head(ringq[w]) \in Msg
    <2>1. ringq[w] \in Seq(Msg)
      BY <1>1 DEF QueuePart
    <2> QED BY <1>3, <2>1, Popped
  <1>5. /\ ringq' \in [{0, 1} -> Seq(Msg)] /\ Len(ringq'[w]) = Len(ringq[w]) + (-1)
        /\ \A v \in {0, 1} : v # w => ringq'[v] = ringq[v]
    BY <1>1, <1>3, <1>4 DEF QueuePart
  <1>6. QueuePart'
    BY <1>1, <1>3, <1>5 DEF QueuePart
  <1>7. MemoryPart'
    BY <1>1, <1>3 DEF MemoryPart
  <1>8. /\ WorkerPart' /\ Held' = Held + 1
        /\ \A v \in {0, 1} : worker'[v].at = "stage" =>
               worker[v].at = "stage" /\ worker'[v].tmp = worker[v].tmp
    BY <1>1, <1>3, <1>4, BeginTypes
  <1> PICK z, l, u \in Int : z = 0 /\ l = -1 /\ u = 1
    OBVIOUS
  <1>9. /\ Len(channel') = Len(channel) + z /\ Len(msgq') = Len(msgq) + z /\ Held' = Held + u
    BY <1>1, <1>3, <1>8, QueueSizes
  <1>10. Lanes' = Lanes + l
    <2>1. l + z = l /\ z + l = l /\ Lanes \in Int
      BY <1>1, QueueSizes
    <2>2. CASE w = 0
      <3>1. Len(ringq'[0]) = Len(ringq[0]) + l /\ Len(ringq'[1]) = Len(ringq[1]) + z
        BY <1>1, <1>5, <2>2, QueueSizes
      <3> QED BY <1>1, <2>1, <3>1, LanesMoved
    <2>3. CASE w = 1
      <3>1. Len(ringq'[0]) = Len(ringq[0]) + z /\ Len(ringq'[1]) = Len(ringq[1]) + l
        BY <1>1, <1>5, <2>3, QueueSizes
      <3> QED BY <1>1, <2>1, <3>1, LanesMoved
    <2> QED BY <2>2, <2>3
  <1>11. Waiting' = Waiting + (z + z) /\ Open' = Open + ((z + z) + l + u)
    <2>1. z + z \in Int
      OBVIOUS
    <2>2. Waiting' = Waiting + (z + z)
      BY <1>1, <1>9, WaitingMoved
    <2> QED BY <1>1, <1>9, <1>10, <2>1, <2>2, OpenMoved
  <1>12. /\ z + z \in Int /\ (z + z) + l + u \in Int /\ 0 \in Nat /\ 0 \in {0, 1}
         /\ 0 + (z + z) <= 0 /\ (z + z) + l + u <= 0
    OBVIOUS
  <1>13. agSeq' = agSeq + 0 /\ dbSeq' = dbSeq
    BY <1>1, <1>3 DEF Counts
  <1>14. Counts'
    BY <1>1, <1>2, <1>8, <1>11, <1>12, <1>13, CountsKept
  <1> QED BY <1>2, <1>6, <1>7, <1>8, <1>14 DEF TypeInv

\* The message thread hands a command to a ring.
LEMMA DispatchTypes ==
  ASSUME HostInv, TypeInv, Dpu!Dispatch, UNCHANGED hostVars
  PROVE  TypeInv'
  <1>1. HostPart /\ QueuePart /\ WorkerPart /\ MemoryPart /\ Counts
    BY DEF TypeInv
  <1>2. HostPart' /\ Gone' \in Nat /\ Gone' = Gone + 0
    BY <1>1, HostPartKept
  <1>3. agSeq \in Nat /\ agSeq % 2 \in {0, 1}
    BY <1>1 DEF Counts
  <1>4. PICK k \in {0, 1}, a \in {0, 1} :
           ringq' = [ringq EXCEPT ![k] = Append(ringq[k], Head(msgq))] /\ agSeq' = agSeq + a
    <2>1. CASE Head(msgq).kind = "rs"
      <3>1. ringq' = [ringq EXCEPT ![0] = Append(ringq[0], Head(msgq))] /\ agSeq' = agSeq + 0
        BY <1>3, <2>1 DEF Dpu!Dispatch
      <3> QED BY <3>1
    <2>2. CASE Head(msgq).kind # "rs"
      <3>1. /\ ringq' = [ringq EXCEPT ![agSeq % 2] = Append(ringq[agSeq % 2], Head(msgq))]
            /\ agSeq' = agSeq + 1
        BY <2>2 DEF Dpu!Dispatch
      <3> QED BY <1>3, <3>1
    <2> QED BY <2>1, <2>2
  <1>5. /\ msgq # <<>> /\ msgq' = Tail(msgq)
        /\ UNCHANGED <<dropped, worker, slotsUsed, heads, dbSeq, results, copies, channel, doorbell>>
    BY DEF Dpu!Dispatch
  <1>6. /\ msgq' \in Seq(Msg) /\ Len(msgq') = Len(msgq) + (-1) /\ Head(msgq) \in Msg
        /\ Len(msgq') < MsgCap
    <2>1. msgq \in Seq(Msg) /\ Len(msgq) < MsgCap /\ MsgCap \in Nat
      BY <1>1, OffloadAssumption DEF QueuePart
    <2>2. /\ msgq' \in Seq(Msg) /\ Len(msgq') = Len(msgq) - 1 /\ Head(msgq) \in Msg /\ Len(msgq) \in Nat
      BY <1>5, <2>1, Popped
    <2> QED BY <2>1, <2>2
  <1>7. Append(ringq[k], Head(msgq)) \in Seq(Msg) /\ Len(Append(ringq[k], Head(msgq))) = Len(ringq[k]) + 1
    <2>1. ringq[k] \in Seq(Msg)
      BY <1>1 DEF QueuePart
    <2> QED BY <1>6, <2>1, Pushed
  <1>8. /\ ringq' \in [{0, 1} -> Seq(Msg)] /\ Len(ringq'[k]) = Len(ringq[k]) + 1
        /\ \A v \in {0, 1} : v # k => ringq'[v] = ringq[v]
    BY <1>1, <1>4, <1>7 DEF QueuePart
  <1>9. QueuePart'
    BY <1>1, <1>5, <1>6, <1>8 DEF QueuePart
  <1>10. WorkerPart' /\ MemoryPart'
    BY <1>1, <1>5 DEF WorkerPart, MemoryPart
  <1> PICK z, m, l \in Int : z = 0 /\ m = -1 /\ l = 1
    OBVIOUS
  <1>11. /\ Len(channel') = Len(channel) + z /\ Len(msgq') = Len(msgq) + m /\ Held' = Held + z
    BY <1>1, <1>5, <1>6, QueueSizes DEF Held, Uncounted
  <1>12. Lanes' = Lanes + l
    <2>1. l + z = l /\ z + l = l /\ Lanes \in Int
      BY <1>1, QueueSizes
    <2>2. CASE k = 0
      <3>1. Len(ringq'[0]) = Len(ringq[0]) + l /\ Len(ringq'[1]) = Len(ringq[1]) + z
        BY <1>1, <1>8, <2>2, QueueSizes
      <3> QED BY <1>1, <2>1, <3>1, LanesMoved
    <2>3. CASE k = 1
      <3>1. Len(ringq'[0]) = Len(ringq[0]) + z /\ Len(ringq'[1]) = Len(ringq[1]) + l
        BY <1>1, <1>8, <2>3, QueueSizes
      <3> QED BY <1>1, <2>1, <3>1, LanesMoved
    <2> QED BY <2>2, <2>3
  <1>13. Waiting' = Waiting + (z + m) /\ Open' = Open + ((z + m) + l + z)
    <2>1. z + m \in Int
      OBVIOUS
    <2>2. Waiting' = Waiting + (z + m)
      BY <1>1, <1>11, WaitingMoved
    <2> QED BY <1>1, <1>11, <1>12, <2>1, <2>2, OpenMoved
  <1>14. /\ z + m \in Int /\ (z + m) + l + z \in Int /\ 0 \in Nat
         /\ a + (z + m) <= 0 /\ (z + m) + l + z <= 0
    OBVIOUS
  <1>15. Counts'
    BY <1>1, <1>2, <1>4, <1>5, <1>13, <1>14, CountsKept
  <1> QED BY <1>2, <1>9, <1>10, <1>15 DEF TypeInv

\* A worker goes on: it counts its command at most once, with the number that it
\* has loaded, and loads the counter as it is.
LEMMA WorkerStep ==
  ASSUME HostInv, TypeInv, NEW w \in {0, 1}, NEW x \in WorkerRec, UNCHANGED hostVars,
         worker' = [worker EXCEPT ![w] = x],
         x.at # "idle" => x.msg \in Msg,
         x.at \notin {"idle", "setup"} /\ x.msg.kind = "agcpu" => x.slot # -1,
         x.at \in {"run", "filled", "count", "stage"} => Uncounted(w) = 1,
         x.at # "setup",
         x.at = "stage" => x.tmp = dbSeq,
         x.tmp <= MaxJobs,
         \/ dbSeq' = dbSeq
         \/ dbSeq' = worker[w].tmp + 1 /\ worker[w].at = "stage" /\ x.at = "ring",
         UNCHANGED <<channel, msgq, ringq, dropped, agSeq>>, MemoryPart'
  PROVE  TypeInv'
  <1>1. HostPart /\ QueuePart /\ WorkerPart /\ MemoryPart /\ Counts
    BY DEF TypeInv
  <1>2. HostPart' /\ Gone' \in Nat /\ Gone' = Gone + 0
    BY <1>1, HostPartKept
  <1>3. QueuePart'
    BY <1>1 DEF QueuePart
  <1>4. /\ WorkerPart' /\ worker'[w] = x
        /\ \A v \in {0, 1} : v # w => worker'[v] = worker[v]
    BY <1>1, WorkerChanges
  <1>5. Uncounted(w) \in {0, 1} /\ Uncounted(w)' \in {0, 1} /\ Uncounted(w)' <= Uncounted(w)
    <2>1. x.at \in {"idle", "setup", "run", "filled", "count", "stage", "ring", "local"}
      BY DEF WorkerRec
    <2>2. Uncounted(w)' = IF x.at \in {"run", "filled", "count", "stage"} THEN 1 ELSE 0
      BY <1>4 DEF Uncounted
    <2>3. Uncounted(w) \in {0, 1}
      BY DEF Uncounted
    <2> QED BY <2>2, <2>3
  <1>6. PICK u \in {-1, 0} : Uncounted(w)' = Uncounted(w) + u
    BY <1>5
  <1> PICK z \in Int : z = 0
    OBVIOUS
  <1>7. u \in Int /\ {-1, 0} \subseteq Int
    OBVIOUS
  <1>8. Held' = Held + u
    BY <1>4, <1>6, <1>7, HeldChanges
  <1>9. Len(channel') = Len(channel) + z /\ Len(msgq') = Len(msgq) + z /\ Lanes' = Lanes + z
    BY <1>1, QueueSizes DEF Lanes
  <1>10. Waiting' = Waiting + z /\ Open' = Open + u
    <2>1. Waiting' = Waiting + (z + z)
      BY <1>1, <1>9, WaitingMoved
    <2>2. Open' = Open + (z + z + u)
      <3>1. Waiting' = Waiting + z
        BY <2>1
      <3> QED BY <1>1, <1>7, <1>8, <1>9, <3>1, OpenMoved
    <2> QED BY <1>7, <2>1, <2>2
  <1> PICK g \in Nat : g = 0
    OBVIOUS
  <1>11. Gone' = Gone + g
    BY <1>2
  <1>12. agSeq' = agSeq + 0 /\ agSeq \in Nat /\ dbSeq \in Nat /\ worker[w].tmp \in Nat
    BY <1>1 DEF Counts, WorkerPart, WorkerRec
  <1>13. /\ \A n \in Nat, k \in Int : n + Open <= Gone /\ k + u <= g => n + k + Open' <= Gone'
         /\ \A n \in Nat : n + Waiting <= Gone /\ z + z <= g => n + z + Waiting' <= Gone'
    BY <1>1, <1>2, <1>7, <1>10, <1>11, CountsMoved
  <1>14. /\ \A n \in Nat : n + Open <= Gone => n + Open' <= Gone'
         /\ \A n \in Nat : n + Open <= Gone /\ u = -1 => n + 1 + Open' <= Gone'
         /\ \A n \in Nat : n + Waiting <= Gone => n + Waiting' <= Gone'
    <2>1. z + u <= g /\ (u = -1 => 1 + u <= g) /\ 1 \in Int /\ z + z <= g
      OBVIOUS
    <2>2. \A n \in Nat : n + z = n
      OBVIOUS
    <2> QED BY <1>13, <2>1, <2>2
  <1>15. dbSeq' \in Nat /\ dbSeq' + Open' <= Gone'
    <2>1. CASE dbSeq' = dbSeq
      BY <1>1, <1>12, <1>14, <2>1 DEF Counts
    <2>2. CASE dbSeq' = worker[w].tmp + 1 /\ worker[w].at = "stage" /\ x.at = "ring"
      <3>1. Uncounted(w) = 1 /\ Uncounted(w)' = 0
        BY <1>4, <2>2 DEF Uncounted
      <3>2. u = -1
        BY <1>6, <3>1
      <3>3. worker[w].tmp + Open <= Gone
        BY <1>1, <2>2 DEF Counts
      <3>4. worker[w].tmp + 1 + Open' <= Gone'
        BY <1>12, <1>14, <3>2, <3>3
      <3> QED BY <1>12, <2>2, <3>4
    <2> QED BY <2>1, <2>2
  <1>16. ASSUME NEW v \in {0, 1}, worker'[v].at = "stage" PROVE worker'[v].tmp + Open' <= Gone'
    <2>1. CASE v = w
      <3>1. worker'[v].tmp = dbSeq
        BY <1>4, <1>16, <2>1
      <3> QED BY <1>1, <1>12, <1>14, <3>1 DEF Counts
    <2>2. CASE v # w
      <3>1. worker'[v].tmp = worker[v].tmp /\ worker[v].at = "stage" /\ worker[v].tmp \in Nat
        BY <1>1, <1>4, <1>16, <2>2 DEF WorkerPart, WorkerRec
      <3>2. worker[v].tmp + Open <= Gone
        BY <1>1, <3>1 DEF Counts
      <3> QED BY <1>14, <3>1, <3>2
    <2> QED BY <2>1, <2>2
  <1>17. agSeq' \in Nat /\ agSeq' + Waiting' <= Gone'
    BY <1>1, <1>12, <1>14 DEF Counts
  <1>18. Counts'
    BY <1>15, <1>16, <1>17 DEF Counts
  <1> QED BY <1>2, <1>3, <1>4, <1>18 DEF TypeInv

\* A worker that goes on with the same command.
LEMMA Advanced ==
  ASSUME NEW q \in WorkerRec, NEW a \in {"run", "filled", "count", "ring", "local"}
  PROVE  \E x \in WorkerRec : /\ x = [q EXCEPT !.at = a] /\ x.at = a
                              /\ x.msg = q.msg /\ x.tmp = q.tmp /\ x.slot = q.slot
  <1> DEFINE x == [q EXCEPT !.at = a]
  <1>1. x \in WorkerRec /\ x.at = a /\ x.msg = q.msg /\ x.tmp = q.tmp /\ x.slot = q.slot
    BY DEF WorkerRec
  <1>2. x = [q EXCEPT !.at = a]
    OBVIOUS
  <1> HIDE DEF x
  <1> QED BY <1>1, <1>2

\* A thread executes its command, step by step.
LEMMA ExecuteTypes ==
  ASSUME HostInv, TypeInv, NEW w \in {0, 1}, Dpu!Execute(w), UNCHANGED hostVars
  PROVE  TypeInv'
  <1>1. QueuePart /\ WorkerPart /\ MemoryPart /\ Counts
    BY DEF TypeInv
  <1>2. PICK q \in WorkerRec : q = worker[w]
    BY <1>1 DEF WorkerPart
  <1>3. /\ q.at # "idle" => q.msg \in Msg /\ q.msg.job \in 1 .. MaxJobs
        /\ q.at \notin {"idle", "setup"} /\ q.msg.kind = "agcpu" => q.slot # -1
        /\ q.tmp \in Nat /\ q.tmp <= MaxJobs
    BY <1>1, <1>2 DEF WorkerPart, WorkerRec, Msg
  <1>4. /\ slotsUsed \subseteq {0, 1} /\ heads \in [{0, 1} -> Dpu!Word] /\ doorbell \in 0 .. MaxJobs
        /\ results \subseteq (1 .. MaxJobs) \X Dpu!Word /\ copies \subseteq (1 .. MaxJobs) \X Dpu!Word
        /\ MaxJobs \in Nat
    BY <1>1, OffloadAssumption DEF MemoryPart
  <1>5. dbSeq \in Nat /\ dbSeq <= MaxJobs /\ (q.at = "stage" => q.tmp + 1 <= MaxJobs)
    <2>1. dbSeq \in Nat /\ dbSeq + Open <= Gone /\ (q.at = "stage" => q.tmp + Open <= Gone)
      BY <1>1, <1>2 DEF Counts
    <2>2. Open \in Nat /\ Gone \in Nat /\ Gone <= MaxJobs
      <3>1. Gone \in Nat /\ Gone <= Len(jobs) /\ Len(jobs) <= MaxJobs /\ Len(jobs) \in Nat
        BY Lengths
      <3> QED BY <1>1, <1>4, <3>1, QueueSizes
    <2>3. q.at = "stage" => Open >= 1
      <3> SUFFICES ASSUME q.at = "stage" PROVE Open >= 1
        OBVIOUS
      <3>1. Uncounted(w) = 1 /\ Uncounted(0) \in {0, 1} /\ Uncounted(1) \in {0, 1}
        BY <1>2 DEF Uncounted
      <3>2. PICK a, b \in {0, 1} : a = Uncounted(0) /\ b = Uncounted(1)
        BY <3>1
      <3>3. a = 1 \/ b = 1
        BY <3>1, <3>2
      <3>4. Held = a + b
        BY <3>2 DEF Held
      <3>5. PICK x, y \in Nat : x = Waiting /\ y = Lanes
        BY <1>1, QueueSizes
      <3>6. Open = x + y + (a + b)
        BY <3>4, <3>5 DEF Open
      <3> QED BY <3>3, <3>6
    <2>4. PICK o, g \in Nat : o = Open /\ g = Gone
      BY <2>2
    <2> QED BY <1>3, <1>4, <2>1, <2>2, <2>3, <2>4
  <1>6. PICK i \in WorkerRec : i = Dpu!Idle /\ i.at = "idle" /\ i.tmp = 0
    BY IdleTypes
  <1>7. 0 <= MaxJobs
    BY <1>4
  <1>8. CASE Dpu!Setup(w)
    <2>1. /\ q.at = "setup" /\ UNCHANGED <<channel, msgq, ringq, dropped, agSeq, dbSeq>>
          /\ UNCHANGED <<heads, results, copies, doorbell>>
      BY <1>2, <1>8 DEF Dpu!Setup, Dpu!At
    <2>2. Uncounted(w) = 1
      BY <1>2, <2>1 DEF Uncounted
    <2>3. PICK x \in WorkerRec :
            /\ worker' = [worker EXCEPT ![w] = x] /\ x.at = "run" /\ x.msg = q.msg /\ x.tmp = q.tmp
            /\ x.msg.kind = "agcpu" => x.slot # -1
            /\ slotsUsed' \subseteq {0, 1}
      <3>1. CASE q.msg.kind = "ag"
        <4>1. worker' = [worker EXCEPT ![w] = [q EXCEPT !.at = "run"]] /\ slotsUsed' = slotsUsed
          BY <1>2, <1>8, <3>1 DEF Dpu!Setup, Dpu!Goto
        <4> DEFINE x == [q EXCEPT !.at = "run"]
        <4>2. x \in WorkerRec /\ x.at = "run" /\ x.msg = q.msg /\ x.tmp = q.tmp
          BY DEF WorkerRec
        <4> HIDE DEF x
        <4>3. x.msg.kind # "agcpu"
          BY <3>1, <4>2
        <4> QED BY <1>4, <4>1, <4>2, <4>3 DEF x
      <3>2. CASE q.msg.kind # "ag"
        <4>1. PICK s \in {0, 1} : /\ slotsUsed' = slotsUsed \cup {s}
                                  /\ worker' = [worker EXCEPT ![w].at = "run", ![w].slot = s]
          BY <1>2, <1>8, <3>2 DEF Dpu!Setup, Dpu!Slot
        <4> DEFINE x == [q EXCEPT !.at = "run", !.slot = s]
        <4>2. worker' = [worker EXCEPT ![w] = x]
          <5>1. worker \in [{0, 1} -> WorkerRec]
            BY <1>1 DEF WorkerPart
          <5> QED BY <1>2, <4>1, <5>1
        <4>3. x \in WorkerRec /\ x.at = "run" /\ x.msg = q.msg /\ x.tmp = q.tmp /\ x.slot = s
          BY DEF WorkerRec
        <4> HIDE DEF x
        <4>4. x.slot # -1
          BY <4>3
        <4> QED BY <1>4, <4>1, <4>2, <4>3, <4>4
      <3> QED BY <3>1, <3>2
    <2>4. MemoryPart'
      BY <1>4, <2>1, <2>3 DEF MemoryPart
    <2> QED BY <1>3, <2>1, <2>2, <2>3, <2>4, WorkerStep
  <1>9. CASE Dpu!SetupFails(w)
    <2>1. /\ worker' = [worker EXCEPT ![w] = i]
          /\ UNCHANGED <<channel, msgq, ringq, dropped, agSeq, dbSeq>>
          /\ UNCHANGED <<slotsUsed, heads, results, copies, doorbell>>
      BY <1>6, <1>9 DEF Dpu!SetupFails
    <2>2. MemoryPart'
      BY <1>4, <2>1 DEF MemoryPart
    <2> QED BY <1>6, <1>7, <2>1, <2>2, WorkerStep
  <1>10. CASE Dpu!Fill(w)
    <2>1. /\ q.at = "run" /\ worker' = [worker EXCEPT ![w] = [q EXCEPT !.at = "filled"]]
          /\ UNCHANGED <<channel, msgq, ringq, dropped, agSeq, dbSeq>>
          /\ UNCHANGED <<slotsUsed, results, copies, doorbell>>
          /\ \/ heads' = heads
             \/ heads' = [heads EXCEPT ![q.slot] = Dpu!Data(q.msg.job)]
      BY <1>2, <1>10 DEF Dpu!Fill, Dpu!At, Dpu!Goto
    <2>2. Uncounted(w) = 1
      BY <1>2, <2>1 DEF Uncounted
    <2>3. PICK x \in WorkerRec : /\ x = [q EXCEPT !.at = "filled"]
                                 /\ x.at = "filled" /\ x.msg = q.msg /\ x.tmp = q.tmp /\ x.slot = q.slot
      BY Advanced
    <2>4. Dpu!Data(q.msg.job) \in Dpu!Word
      BY <1>3, <2>1, Words
    <2>5. heads' \in [{0, 1} -> Dpu!Word]
      BY <1>4, <2>1, <2>4
    <2>6. MemoryPart'
      BY <1>4, <2>1, <2>5 DEF MemoryPart
    <2> QED BY <1>3, <2>1, <2>2, <2>3, <2>6, WorkerStep
  <1>11. CASE Dpu!Finish(w)
    <2>1. /\ q.at = "filled" /\ worker' = [worker EXCEPT ![w] = [q EXCEPT !.at = "count"]]
          /\ UNCHANGED <<channel, msgq, ringq, dropped, agSeq, dbSeq>>
          /\ UNCHANGED <<slotsUsed, heads, copies, doorbell>>
          /\ \/ results' = results \cup {<<q.msg.job, heads[q.slot]>>} /\ q.slot # -1
             \/ results' = results \cup {<<q.msg.job, Dpu!Data(q.msg.job)>>}
      BY <1>2, <1>11 DEF Dpu!Finish, Dpu!At, Dpu!Goto, Dpu!OwnSlot
    <2>2. Uncounted(w) = 1
      BY <1>2, <2>1 DEF Uncounted
    <2>3. PICK x \in WorkerRec : /\ x = [q EXCEPT !.at = "count"]
                                 /\ x.at = "count" /\ x.msg = q.msg /\ x.tmp = q.tmp /\ x.slot = q.slot
      BY Advanced
    <2>4. q.msg.job \in 1 .. MaxJobs /\ Dpu!Data(q.msg.job) \in Dpu!Word
      BY <1>3, <2>1, Words
    <2>5. q.slot # -1 => heads[q.slot] \in Dpu!Word
      <3>1. q.slot \in {-1, 0, 1}
        BY DEF WorkerRec
      <3> QED BY <1>4, <3>1
    <2>6. results' \subseteq (1 .. MaxJobs) \X Dpu!Word
      BY <1>4, <2>1, <2>4, <2>5
    <2>7. MemoryPart'
      BY <1>4, <2>1, <2>6 DEF MemoryPart
    <2> QED BY <1>3, <2>1, <2>2, <2>3, <2>7, WorkerStep
  <1>12. CASE Dpu!LoadSeq(w)
    <2>1. /\ q.at = "count" /\ worker' = [worker EXCEPT ![w].at = "stage", ![w].tmp = dbSeq]
          /\ UNCHANGED <<channel, msgq, ringq, dropped, agSeq, dbSeq>>
          /\ UNCHANGED <<slotsUsed, heads, results, copies, doorbell>>
      BY <1>2, <1>12 DEF Dpu!LoadSeq, Dpu!At
    <2>2. Uncounted(w) = 1
      BY <1>2, <2>1 DEF Uncounted
    <2> DEFINE x == [q EXCEPT !.at = "stage", !.tmp = dbSeq]
    <2>3. x \in WorkerRec /\ x.at = "stage" /\ x.msg = q.msg /\ x.tmp = dbSeq /\ x.slot = q.slot
      BY <1>5 DEF WorkerRec
    <2>4. worker' = [worker EXCEPT ![w] = x]
      <3>1. worker \in [{0, 1} -> WorkerRec]
        BY <1>1 DEF WorkerPart
      <3> QED BY <1>2, <2>1, <3>1
    <2> HIDE DEF x
    <2>5. MemoryPart'
      BY <1>4, <2>1 DEF MemoryPart
    <2> QED BY <1>3, <1>5, <2>1, <2>2, <2>3, <2>4, <2>5, WorkerStep
  <1>13. CASE Dpu!Stage(w)
    <2>1. /\ q.at = "stage" /\ worker' = [worker EXCEPT ![w] = [q EXCEPT !.at = "ring"]]
          /\ UNCHANGED <<channel, msgq, ringq, dropped, agSeq>>
          /\ UNCHANGED <<slotsUsed, results, copies, doorbell>>
          /\ dbSeq' = q.tmp + 1
          /\ heads' = [heads EXCEPT ![Dpu!Staging(w)] = Dpu!Count(q.tmp + 1)]
      BY <1>2, <1>13 DEF Dpu!Stage, Dpu!At, Dpu!Goto
    <2>2. PICK x \in WorkerRec : /\ x = [q EXCEPT !.at = "ring"]
                                 /\ x.at = "ring" /\ x.msg = q.msg /\ x.tmp = q.tmp /\ x.slot = q.slot
      BY Advanced
    <2>3. q.tmp + 1 \in 0 .. MaxJobs
      BY <1>3, <1>4, <1>5, <2>1
    <2>4. Dpu!Count(q.tmp + 1) \in Dpu!Word
      BY <2>3, Words
    <2>5. heads' \in [{0, 1} -> Dpu!Word]
      BY <1>4, <2>1, <2>4
    <2>6. MemoryPart'
      BY <1>4, <2>1, <2>5 DEF MemoryPart
    <2>7. dbSeq' = worker[w].tmp + 1 /\ worker[w].at = "stage"
      BY <1>2, <2>1
    <2> QED BY <1>3, <2>1, <2>2, <2>6, <2>7, WorkerStep
  <1>14. CASE Dpu!Doorbell(w) \/ Dpu!DoorbellLost(w)
    <2>1. /\ q.at = "ring" /\ worker' = [worker EXCEPT ![w] = [q EXCEPT !.at = "local"]]
          /\ UNCHANGED <<channel, msgq, ringq, dropped, agSeq, dbSeq>>
          /\ UNCHANGED <<slotsUsed, heads, results, copies>>
      BY <1>2, <1>14 DEF Dpu!Doorbell, Dpu!DoorbellLost, Dpu!At, Dpu!Goto
    <2>2. doorbell' \in 0 .. MaxJobs
      <3>1. CASE Dpu!Doorbell(w)
        BY <3>1 DEF Dpu!Doorbell
      <3>2. CASE Dpu!DoorbellLost(w)
        BY <1>4, <3>2 DEF Dpu!DoorbellLost
      <3> QED BY <1>14, <3>1, <3>2
    <2>3. PICK x \in WorkerRec : /\ x = [q EXCEPT !.at = "local"]
                                 /\ x.at = "local" /\ x.msg = q.msg /\ x.tmp = q.tmp /\ x.slot = q.slot
      BY Advanced
    <2>4. MemoryPart'
      BY <1>4, <2>1, <2>2 DEF MemoryPart
    <2> QED BY <1>3, <2>1, <2>3, <2>4, WorkerStep
  <1>15. CASE Dpu!Leave(w)
    <2>1. /\ q.at = "local" /\ worker' = [worker EXCEPT ![w] = i]
          /\ UNCHANGED <<channel, msgq, ringq, dropped, agSeq, dbSeq>>
          /\ UNCHANGED <<heads, results, doorbell>>
          /\ slotsUsed' \subseteq slotsUsed
          /\ \/ copies' = copies
             \/ copies' = copies \cup {<<q.msg.job, heads[q.slot]>>} /\ q.msg.kind = "agcpu"
      BY <1>2, <1>6, <1>15 DEF Dpu!Leave, Dpu!At
    <2>2. q.msg.job \in 1 .. MaxJobs /\ (q.msg.kind = "agcpu" => q.slot \in {0, 1})
      BY <1>3, <2>1 DEF WorkerRec
    <2>3. copies' \subseteq (1 .. MaxJobs) \X Dpu!Word
      BY <1>4, <2>1, <2>2
    <2>4. MemoryPart'
      BY <1>4, <2>1, <2>3 DEF MemoryPart
    <2> QED BY <1>6, <1>7, <2>1, <2>4, WorkerStep
  <1> QED BY <1>8, <1>9, <1>10, <1>11, <1>12, <1>13, <1>14, <1>15 DEF Dpu!Execute

\* A step that changes nothing.
LEMMA StutterTypes == ASSUME TypeInv, UNCHANGED vars PROVE TypeInv'
  <1>1. UNCHANGED hostVars /\ UNCHANGED dpuVars /\ UNCHANGED <<channel, doorbell>>
    BY DEF vars
  <1>2. HostPart'
    BY <1>1 DEF TypeInv, HostPart, hostVars, Gone, Unsent, Sending
  <1>3. QueuePart' /\ WorkerPart' /\ MemoryPart'
    BY <1>1 DEF TypeInv, QueuePart, WorkerPart, MemoryPart, dpuVars
  <1>4. Counts'
    BY <1>1 DEF TypeInv, Counts, hostVars, dpuVars, Gone, Unsent, Waiting, Open, Lanes, Held, Uncounted
  <1> QED BY <1>2, <1>3, <1>4 DEF TypeInv

\* The types and bounds hold after every step.
LEMMA StepTypes == HostInv /\ TypeInv /\ [Next]_vars => TypeInv'
  <1> SUFFICES ASSUME HostInv, TypeInv, [Next]_vars PROVE TypeInv'
    OBVIOUS
  <1>1. CASE Host!HostNext /\ UNCHANGED dpuVars
    BY <1>1, HostTypeInv
  <1>2. CASE Dpu!DpuNext /\ UNCHANGED hostVars
    <2>1. CASE Dpu!Receive
      BY <1>2, <2>1, ReceiveTypes
    <2>2. CASE Dpu!TakeInline
      BY <1>2, <2>2, InlineTypes
    <2>3. CASE Dpu!Dispatch
      BY <1>2, <2>3, DispatchTypes
    <2>4. ASSUME NEW w \in {0, 1}, Dpu!Worker(w) PROVE TypeInv'
      BY <1>2, <2>4, TakeRingTypes, ExecuteTypes DEF Dpu!Worker
    <2> QED BY <1>2, <2>1, <2>2, <2>3, <2>4 DEF Dpu!DpuNext, Dpu!Ring
  <1>3. CASE UNCHANGED vars
    BY <1>3, StutterTypes
  <1> QED BY <1>1, <1>2, <1>3 DEF Next

\* Before the first job nothing is queued and every counter is zero.
LEMMA InitTypes == Init => TypeInv
  <1> SUFFICES ASSUME Init PROVE TypeInv
    OBVIOUS
  <1>1. /\ jobs = <<>> /\ hostq = <<>> /\ submitter = [at |-> "idle", job |-> 0]
        /\ submitMtx = FALSE /\ submitSeq = 0 /\ completer = "check" /\ shutdown = "no"
        /\ hostFaults = {} /\ channel = <<>> /\ doorbell = 0
    BY DEF Init, Host!HostInit
  <1>2. /\ msgq = <<>> /\ dropped = {} /\ ringq = [r \in {0, 1} |-> <<>>] /\ agSeq = 0
        /\ worker = [w \in {0, 1} |-> Dpu!Idle] /\ slotsUsed = {}
        /\ heads = [s \in {0, 1} |-> Dpu!Count(0)] /\ dbSeq = 0 /\ results = {} /\ copies = {}
    BY DEF Init, Dpu!DpuInit, Dpu!Ring, Dpu!Slot
  <1>3. 0 \in 0 .. MaxJobs /\ 0 <= MaxJobs /\ MsgCap > 0
    BY OffloadAssumption
  <1>4. Gone = 0 /\ Sending = 0 /\ Len(jobs) = 0
    <2>1. Len(jobs) = 0 /\ Len(hostq) = 0 /\ submitter.at = "idle"
      BY <1>1
    <2> QED BY <2>1 DEF Gone, Sending, Unsent
  <1>5. HostPart
    <2>1. \A j \in 1 .. Len(jobs) : FALSE
      BY <1>4
    <2>2. submitSeq + Sending <= Gone
      BY <1>1, <1>4
    <2>3. submitMtx \in BOOLEAN /\ completer = "check" /\ shutdown = "no" /\ hostFaults = {}
      BY <1>1
    <2> QED BY <2>1, <2>2, <2>3 DEF HostPart
  <1>6. QueuePart
    <2>1. <<>> \in Seq(Msg) /\ Len(msgq) = 0
      BY <1>2
    <2> QED BY <1>1, <1>2, <1>3, <2>1 DEF QueuePart
  <1>7. WorkerPart
    BY <1>2, <1>3, IdleTypes DEF WorkerPart
  <1>8. MemoryPart
    <2>1. Dpu!Count(0) \in Dpu!Word
      BY <1>3, Words
    <2> QED BY <1>1, <1>2, <1>3, <2>1 DEF MemoryPart
  <1>9. Counts
    <2>1. Waiting = 0 /\ Lanes = 0
      BY <1>1, <1>2 DEF Waiting, Lanes
    <2>2. worker[0].at = "idle" /\ worker[1].at = "idle"
      BY <1>2, IdleTypes
    <2>3. Uncounted(0) = 0 /\ Uncounted(1) = 0
      BY <2>2 DEF Uncounted
    <2>4. Open = 0
      BY <2>1, <2>3 DEF Open, Held
    <2> QED BY <1>2, <1>4, <2>1, <2>2, <2>4 DEF Counts
  <1> QED BY <1>5, <1>6, <1>7, <1>8, <1>9 DEF TypeInv

\* What the references, the numbers and the queues of the host are, in a set that
\* does not grow.
LEMMA HostTyped == HostInv /\ TypeInv => Host!HostTypeOK
  <1> SUFFICES ASSUME HostInv, TypeInv PROVE Host!HostTypeOK
    OBVIOUS
  <1> DEFINE R == [kind : Kinds, seq : 0 .. MaxJobs, ok : BOOLEAN,
                   completed : BOOLEAN, refcnt : 0 .. 2]
  <1>1. HostTypes /\ Order /\ Counted /\ HostPart
    BY DEF HostInv, TypeInv
  <1>2. /\ Len(jobs) \in Nat /\ Len(hostq) \in Nat /\ Len(inflight) \in Nat /\ submitSeq \in Nat
        /\ Sending \in {0, 1} /\ Busy \in {0, 1}
        /\ Freed \in Nat /\ Freed + Busy + Len(inflight) = Len(jobs) - Len(hostq)
        /\ Gone \in Nat /\ Gone <= Len(jobs) /\ Len(jobs) <= MaxJobs /\ MaxJobs \in Nat
        /\ \A j \in 1 .. Len(jobs) : jobs[j] \in JobRec /\ jobs[j].seq \in Nat
    BY Lengths
  <1>3. submitSeq \in 0 .. MaxJobs
    BY <1>1, <1>2 DEF HostPart
  <1>4. ASSUME NEW j \in 1 .. Len(jobs) PROVE jobs[j] \in R
    <2>1. jobs[j] \in JobRec /\ jobs[j].kind \in Kinds /\ jobs[j].seq \in Nat /\ jobs[j].seq <= submitSeq
      BY <1>1, <1>2 DEF HostPart
    <2>2. jobs[j].seq \in 0 .. MaxJobs
      BY <1>2, <1>3, <2>1
    <2>3. jobs[j].refcnt \in 0 .. 2
      BY <1>1 DEF Counted
    <2> QED BY <2>1, <2>2, <2>3 DEF JobRec
  <1>5. jobs \in Seq(R)
    <2> HIDE DEF R
    <2>1. jobs \in Seq(JobRec)
      BY <1>1 DEF HostTypes
    <2> QED BY <1>4, <2>1, Elements
  <1>6. ASSUME NEW i \in 1 .. Len(hostq) PROVE hostq[i] \in 1 .. Len(jobs)
    <2>1. hostq[i] = Len(jobs) - Len(hostq) + i
      BY <1>1 DEF Order
    <2>2. Len(jobs) - Len(hostq) \in Nat
      BY <1>2
    <2> QED BY <1>2, <2>1, <2>2
  <1>7. hostq \in Seq(1 .. Len(jobs))
    <2>1. hostq \in Seq(Nat)
      BY <1>1 DEF HostTypes
    <2> QED BY <1>6, <2>1, Elements
  <1>8. ASSUME NEW i \in 1 .. Len(inflight) PROVE inflight[i] \in 1 .. Len(jobs)
    <2>1. inflight[i] = Freed + i
      BY <1>1 DEF Order
    <2> QED BY <1>2, <2>1
  <1>9. inflight \in Seq(1 .. Len(jobs))
    <2>1. inflight \in Seq(Nat)
      BY <1>1 DEF HostTypes
    <2> QED BY <1>8, <2>1, Elements
  <1>10. submitter.job \in {0} \cup 1 .. Len(jobs)
    <2>1. CASE submitter.job = 0
      BY <2>1
    <2>2. CASE submitter.job # 0
      <3>1. submitter.job = Freed + Len(inflight) + 1 /\ Busy = 1
        BY <1>1, <2>2 DEF Order, Busy
      <3> QED BY <1>2, <3>1
    <2> QED BY <2>1, <2>2
  <1> HIDE DEF R
  <1>11. /\ caller \in Seq({"holds", "gone"}) /\ Len(caller) = Len(jobs)
         /\ submitter.at \in {"idle", "impl", "number", "push", "signal", "exited"}
    BY <1>1 DEF HostTypes, Handle
  <1>12. /\ submitMtx \in BOOLEAN
         /\ completer \in {"check", "look", "locked", "asleep", "spin", "pop", "exited"}
         /\ shutdown \in {"no", "stop", "woken", "joined"}
         /\ hostFaults \subseteq {"unsent", "refused", "stranded"} \X (1 .. Len(jobs))
    BY <1>1 DEF HostPart
  <1> QED BY <1>3, <1>5, <1>7, <1>9, <1>10, <1>11, <1>12 DEF Host!HostTypeOK, Host!Job, R

\* The counters of the DPU stay within the number of jobs.
LEMMA DpuTyped == HostInv /\ TypeInv => Dpu!DpuTypeOK
  <1> SUFFICES ASSUME HostInv, TypeInv PROVE Dpu!DpuTypeOK
    OBVIOUS
  <1>1. QueuePart /\ WorkerPart /\ MemoryPart /\ Counts
    BY DEF TypeInv
  <1>2. agSeq \in 0 .. MaxJobs /\ dbSeq \in 0 .. MaxJobs
    <2>1. Waiting \in Nat /\ Open \in Nat
      BY <1>1, QueueSizes
    <2>2. Gone \in Nat /\ Gone <= Len(jobs) /\ Len(jobs) <= MaxJobs /\ MaxJobs \in Nat /\ Len(jobs) \in Nat
      BY Lengths
    <2>3. PICK x, o, g \in Nat : x = Waiting /\ o = Open /\ g = Gone
      BY <2>1, <2>2
    <2>4. agSeq \in Nat /\ agSeq + x <= g /\ dbSeq \in Nat /\ dbSeq + o <= g
      BY <1>1, <2>3 DEF Counts
    <2> QED BY <2>2, <2>3, <2>4
  <1>3. MaxJobs \in Nat /\ Msg = Dpu!Message
    BY OffloadAssumption DEF Msg, Dpu!Message, JobKind
  <1>4. ASSUME NEW w \in {0, 1}
        PROVE  /\ ringq[w] \in Seq(Dpu!Message)
               /\ worker[w].slot \in {0, 1} \cup {-1} /\ worker[w].tmp \in 0 .. MaxJobs
    <2>1. ringq[w] \in Seq(Dpu!Message)
      BY <1>1, <1>3 DEF QueuePart
    <2>2. worker[w] \in WorkerRec /\ worker[w].tmp <= MaxJobs
      BY <1>1 DEF WorkerPart
    <2> QED BY <1>3, <2>1, <2>2 DEF WorkerRec
  <1>5. /\ channel \in Seq(Dpu!Message) /\ msgq \in Seq(Dpu!Message) /\ Len(msgq) < MsgCap
        /\ dropped \subseteq 1 .. MaxJobs
    BY <1>1, <1>3 DEF QueuePart
  <1>6. /\ slotsUsed \subseteq {0, 1} /\ heads \in [{0, 1} -> Dpu!Word] /\ doorbell \in 0 .. MaxJobs
        /\ results \subseteq (1 .. MaxJobs) \X Dpu!Word /\ copies \subseteq (1 .. MaxJobs) \X Dpu!Word
    BY <1>1 DEF MemoryPart
  <1> QED BY <1>2, <1>4, <1>5, <1>6 DEF Dpu!DpuTypeOK, Dpu!Ring, Dpu!Slot

\* In either mode of the DPU the offload keeps its types and bounds.  The ones
\* that take an argument: doorbell_seq of the DPU, an unlocked counter that two
\* ring threads load and store, never exceeds the number of the jobs enqueued, nor
\* does a value one of them has loaded and not stored; the numbers the host gives
\* do not either; and a job is freed once, its count never below zero.
THEOREM TypeCorrect == Spec => []TypeOK
  <1>1. HostInv /\ TypeInv => TypeOK
    BY HostTyped, DpuTyped DEF TypeOK
  <1> QED BY <1>1, InitTypes, StepTypes, HostInvariant, PTL DEF Spec
=============================================================================
