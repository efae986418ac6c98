------------------------------- MODULE RsPool --------------------------------
(***************************************************************************)
(* The worker pool of comch_server.c that adds a received chunk to the     *)
(* partial sum in a reduce-scatter.  The thread of the collective pushes   *)
(* one task, wakes the workers and polls for its completion.  Worker 0     *)
(* takes the task and publishes it as current_task under a new generation; *)
(* every worker adds its share of the range; the last one to finish        *)
(* reports the completion; worker 0 takes no further task before all have  *)
(* come through ready_count.  All wait on one condition variable.          *)
(***************************************************************************)
EXTENDS Integers, Sequences, FiniteSets

CONSTANTS T,         \* num_threads: the workers are 0 .. T-1
          MaxTasks   \* bound: tasks submitted, numbered from 1

ASSUME PoolAssumption == T \in Nat \ {0} /\ MaxTasks \in Nat

Worker == 0 .. T - 1
Task   == 1 .. MaxTasks
NoTask == 0

VARIABLES client,       \* where the thread of the collective is
          submitted,    \* tasks it has submitted
          taskq,        \* task_queue
          compq,        \* completion_queue: stride ids
          running,      \* the flag rs_thread_pool_destroy clears
          current,      \* current_task
          generation,   \* task_generation
          done, ready,  \* done_count, ready_count
          wpc,          \* wpc[w]: where worker w is
          my,           \* my[w]: its my_generation
          sum           \* sum[k][w]: times w's share of task k has been added

poolVars == <<client, submitted, taskq, compq, running, current, generation,
              done, ready, wpc, my, sum>>

PoolInit ==
    /\ client = "free" /\ submitted = 0
    /\ taskq = <<>> /\ compq = <<>>
    /\ running = TRUE
    /\ current = NoTask /\ generation = 0
    /\ done = 0 /\ ready = 0
    /\ wpc = [w \in Worker |-> "loop"]
    /\ my = [w \in Worker |-> 0]
    /\ sum = [k \in Task |-> [w \in Worker |-> 0]]

\* pthread_cond_broadcast: every sleeper tests its condition again.
Woken == [w \in Worker |-> IF wpc[w] = "asleep" THEN "test" ELSE wpc[w]]

-----------------------------------------------------------------------------
(* The thread of the collective.                                           *)

\* submit_rs_task: the push.
Submit ==
    /\ client = "free"
    /\ submitted < MaxTasks
    /\ submitted' = submitted + 1
    /\ taskq' = Append(taskq, submitted + 1)
    /\ client' = "wake"
    /\ UNCHANGED <<compq, running, current, generation, done, ready, wpc, my, sum>>

WakeBug ==                \* a signal wakes some one worker
    /\ client = "wake"
    /\ client' = "poll"
    /\ IF \E w \in Worker : wpc[w] = "asleep"
       THEN \E w \in Worker : wpc[w] = "asleep" /\ wpc' = [wpc EXCEPT ![w] = "test"]
       ELSE wpc' = wpc
    /\ UNCHANGED <<submitted, taskq, compq, running, current, generation, done, ready,
                   my, sum>>

\* submit_rs_task: the broadcast, under the mutex.
Wake ==
    /\ client = "wake"
    /\ wpc' = Woken
    /\ client' = "poll"
    /\ UNCHANGED <<submitted, taskq, compq, running, current, generation, done, ready,
                   my, sum>>

\* poll_wait_rs_completion: completions of other strides are thrown away.
Poll ==
    /\ client = "poll"
    /\ compq # <<>>
    /\ compq' = Tail(compq)
    /\ client' = IF Head(compq) = submitted THEN "free" ELSE "poll"
    /\ UNCHANGED <<submitted, taskq, running, current, generation, done, ready, wpc,
                   my, sum>>

DestroyBug ==             \* nobody is woken
    /\ client = "free"
    /\ running' = FALSE
    /\ client' = "join"
    /\ UNCHANGED <<submitted, taskq, compq, current, generation, done, ready, wpc, my, sum>>

\* rs_thread_pool_destroy: stop and broadcast under the mutex, then join.
Destroy ==
    /\ client = "free"
    /\ running' = FALSE
    /\ wpc' = Woken
    /\ client' = "join"
    /\ UNCHANGED <<submitted, taskq, compq, current, generation, done, ready, my, sum>>

Join ==
    /\ client = "join"
    /\ \A w \in Worker : wpc[w] = "exited"
    /\ client' = "destroyed"
    /\ UNCHANGED <<submitted, taskq, compq, running, current, generation, done, ready,
                   wpc, my, sum>>

Client == Submit \/ Wake \/ Poll \/ Destroy \/ Join

-----------------------------------------------------------------------------
(* rs_worker_main.                                                         *)

Goto(w, at) == wpc' = [wpc EXCEPT ![w] = at]

\* while (running), outside the mutex.
Loop(w) ==
    /\ wpc[w] = "loop"
    /\ Goto(w, IF running THEN "test" ELSE "exited")
    /\ UNCHANGED <<client, submitted, taskq, compq, running, current, generation,
                   done, ready, my, sum>>

\* Worker 0, under the mutex: take a task, sleep, or leave.  A task taken when
\* the pool stops is dropped.
Take ==
    /\ wpc[0] = "test"
    /\ taskq # <<>>
    /\ taskq' = Tail(taskq)
    /\ IF running
       THEN /\ current' = Head(taskq)
            /\ generation' = generation + 1
            /\ my' = [my EXCEPT ![0] = generation + 1]
            /\ done' = 0 /\ ready' = 0
            /\ wpc' = [Woken EXCEPT ![0] = "work"]
       ELSE /\ Goto(0, "exited")
            /\ UNCHANGED <<current, generation, my, done, ready>>
    /\ UNCHANGED <<client, submitted, compq, running, sum>>

\* Worker 0 has no task.
NoneToTake ==
    /\ wpc[0] = "test"
    /\ taskq = <<>>
    /\ Goto(0, IF running THEN "asleep" ELSE "exited")
    /\ UNCHANGED <<client, submitted, taskq, compq, running, current, generation,
                   done, ready, my, sum>>

\* Another worker, under the mutex: join the generation, sleep, or leave.
Follow(w) ==
    /\ w # 0
    /\ wpc[w] = "test"
    /\ IF generation = my[w] /\ running
       THEN Goto(w, "asleep") /\ UNCHANGED my
       ELSE /\ my' = [my EXCEPT ![w] = generation]
            /\ Goto(w, IF running THEN "work" ELSE "exited")
    /\ UNCHANGED <<client, submitted, taskq, compq, running, current, generation,
                   done, ready, sum>>

\* The worker adds its share of the range of current_task.
AddShare(w) ==
    /\ wpc[w] = "work"
    /\ sum' = [sum EXCEPT ![current][w] = @ + 1]
    /\ Goto(w, "count")
    /\ UNCHANGED <<client, submitted, taskq, compq, running, current, generation,
                   done, ready, my>>

LastOneBug == done + 2 >= T

\* atomic_fetch_add(&done_count, 1) + 1 == num_threads
LastOne == done + 1 = T

Count(w) ==
    /\ wpc[w] = "count"
    /\ done' = done + 1
    /\ Goto(w, IF LastOne THEN "report" ELSE "ready")
    /\ UNCHANGED <<client, submitted, taskq, compq, running, current, generation,
                   ready, my, sum>>

\* The last one reports the completion, with the stride of current_task.  The
\* queue has room: one task is out at a time.
Report(w) ==
    /\ wpc[w] = "report"
    /\ compq' = Append(compq, current)
    /\ Goto(w, "ready")
    /\ UNCHANGED <<client, submitted, taskq, running, current, generation, done, ready,
                   my, sum>>

\* atomic_fetch_add(&ready_count, 1); worker 0 then waits for the others.
Ready(w) ==
    /\ wpc[w] = "ready"
    /\ ready' = ready + 1
    /\ Goto(w, IF w = 0 THEN "gather" ELSE "loop")
    /\ UNCHANGED <<client, submitted, taskq, compq, running, current, generation, done,
                   my, sum>>

AllReadyBug == TRUE
AllReady == ready >= T

Gather ==
    /\ wpc[0] = "gather"
    /\ AllReady
    /\ Goto(0, "loop")
    /\ UNCHANGED <<client, submitted, taskq, compq, running, current, generation, done,
                   ready, my, sum>>

Work(w) == \/ Loop(w) \/ Follow(w) \/ AddShare(w) \/ Count(w) \/ Report(w) \/ Ready(w)
           \/ w = 0 /\ (Take \/ NoneToTake \/ Gather)

PoolNext == Client \/ \E w \in Worker : Work(w)

PoolSpec == PoolInit /\ [][PoolNext]_poolVars

\* The workers are threads of their own; the collective's thread goes on once it
\* has submitted a task or begun to destroy the pool.
PoolFairness ==
    /\ \A w \in Worker : WF_poolVars(Work(w))
    /\ WF_poolVars(Wake \/ Poll \/ Join)

PoolFairSpec == PoolSpec /\ PoolFairness

-----------------------------------------------------------------------------
WorkerPCs == {"loop", "test", "asleep", "work", "count", "report", "ready", "gather", "exited"}

PoolTypeOK ==
    /\ client \in {"free", "wake", "poll", "join", "destroyed"}
    /\ submitted \in 0 .. MaxTasks
    /\ taskq \in Seq(Task) /\ compq \in Seq(Task)
    /\ running \in BOOLEAN
    /\ current \in Task \cup {NoTask}
    /\ generation \in Nat /\ done \in 0 .. T /\ ready \in 0 .. T
    /\ wpc \in [Worker -> WorkerPCs]
    /\ my \in [Worker -> Nat]
    /\ sum \in [Task -> [Worker -> Nat]]

\* A worker inside a task works on the current one: current_task, done_count and
\* ready_count are not set for the next task while anyone still uses them.
Inside(w) == wpc[w] \in {"work", "count", "report", "ready"}
TaskStable == \A w \in Worker : Inside(w) => my[w] = generation

\* The collective's thread waits for a task.
Busy == client \in {"wake", "poll"}

\* When poll_wait_rs_completion returns for a task, every worker has added its
\* share of it exactly once, and no share is ever added twice.
SumExact ==
    /\ ~Busy =>
         \A k \in 1 .. submitted : \A w \in Worker : sum[k][w] = 1
    /\ \A k \in Task : \A w \in Worker : sum[k][w] <= 1

-----------------------------------------------------------------------------
(* The inductive invariant.                                                *)

\* The workers that have added to done_count, and to ready_count, since the
\* current task was taken.
Counted == {w \in Worker : my[w] = generation /\ wpc[w] \notin {"work", "count"}}
Passed  == {w \in Worker : my[w] = generation /\ ~Inside(w)}
Reporting == {w \in Worker : wpc[w] = "report"}

\* A worker is in the current generation or in the one before, and only in the
\* current one when it works; worker 0 opens the generation.
Generations ==
    /\ my[0] = generation
    /\ \A w \in Worker : my[w] \in {generation - 1, generation}
    /\ \A w \in Worker : Inside(w) => my[w] = generation /\ generation > 0
    /\ wpc[0] = "gather" => generation > 0
    /\ \A w \in Worker \ {0} : wpc[w] # "gather"

\* The counters count, and worker 0 leaves a task last.
Counters ==
    generation > 0 =>
        /\ done = Cardinality(Counted) /\ ready = Cardinality(Passed)
        /\ ~Inside(0) /\ wpc[0] # "gather" => ready = T

\* Tasks are taken in the order of submission, one by one.
Tasks ==
    /\ current = generation
    /\ submitted = generation + Len(taskq)
    /\ taskq # <<>> => taskq = <<generation + 1>> /\ client \in {"wake", "poll"}
    /\ ~running => client \in {"join", "destroyed"}

\* A task is out until its completion has been polled, and completes once.
Outstanding ==
    /\ compq # <<>> => compq = <<generation>> /\ Reporting = {}
    /\ \A v, w \in Reporting : v = w
    /\ compq # <<>> \/ Reporting # {} => Busy /\ taskq = <<>> /\ done = T
    /\ generation > 0 /\ done # T => Busy /\ taskq = <<>>
    /\ ~Busy => taskq = <<>>

\* What has been added: everything of the tasks before, and of the current task
\* the shares of the workers that have left "work".
Shares ==
    \A k \in Task : \A w \in Worker :
        sum[k][w] = IF k < generation \/ (k = generation /\ my[w] = generation
                                                        /\ wpc[w] # "work")
                    THEN 1 ELSE 0

\* What rs_worker_main, submit_rs_task and poll_wait_rs_completion keep between
\* them; TaskStable and SumExact follow.
PoolInv == PoolTypeOK /\ Generations /\ Counters /\ Tasks /\ Outstanding /\ Shares

-----------------------------------------------------------------------------
\* Every task submitted completes, though all workers sleep on one condition
\* variable, and rs_thread_pool_destroy returns.
TaskCompletes == \A k \in Task : (submitted = k) ~> (submitted >= k /\ ~Busy)
DestroyReturns == (client = "join") ~> (client = "destroyed")
=============================================================================
