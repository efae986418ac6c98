# A TLA+ model of the SmartNIC collective offload

The repository trains a model with ZeRO-3 style partitioning and moves the
collectives (all-gather of parameters, reduce-scatter of gradients) from the GPU
to a BlueField DPU. This directory holds TLA+ modules of the parts whose
correctness rests on the order of steps of several threads, processes, GPU streams or NICs,
the TLC configurations that check them, and machine-checked proofs.

Paths below are relative to the repository root; `comch_server.c` is
`src/smartnic_offload/comch_mpi/dpu/comch_server.c`, `comch_client.c` is
`src/smartnic_offload/comch_mpi/host/comch_client.c`, and the Python files are those of
`src/smartnic_offload/` unless `baseline/` is written before them.

## 1. The system

One training process runs per GPU ("rank"), beside one DPU process. A collective
goes this way:

1. Python (`partition_parameters.py`, `zero_optimizer.py`) enqueues a job through
   the pybind wrapper; the handle is waited for, or dropped when the GPU stream
   synchronises through a GPU flag.
2. The host library (`comch_client.c`) has a job queue, a *submit thread* that
   exports the memory and sends a command over ComCh, an *inflight ring* and a
   *completion thread* that spins on a doorbell counter in host memory.
3. The DPU (`comch_server.c`) receives the command in a callback, queues it in a
   message pool with one thread, which executes it or (with
   `PHASE15_ENABLE_RING_QUEUES=1`) hands it to one of two ring threads.
4. The collective starts with a barrier of all DPUs (the *RDMA doorbell barrier*),
   then runs a ring algorithm with RDMA sends and receives.
5. The DPU writes the GPU flag, then the doorbell counter by RDMA, then the copy to a
   local CPU buffer if one was asked for.

Above that path, two parts of the Python code decide when a collective is asked for, and
rely on CUDA streams for the order of what they queue:

* the *parameters*: module hooks (`parameter_offload.py`) call the coordinator
  (`partitioned_param_coordinator.py`) before and after each submodule; it gathers,
  prefetches by a recorded trace, and releases. The host thread waits for nothing: the
  allgather stream waits for a generation number that the DPU writes in a slot of the
  flag pool, and the compute stream for the allgather stream.
* the *gradients*: gradient hooks (`zero_optimizer.py`) pack a bucket on the reduce
  stream; a full bucket is reduce-scattered and waited for one bucket later; the shards go to
  one of two banks, and a separate Adam process works on the other.

### Inventory

| Component | State | Operations | Hard behaviour |
|---|---|---|---|
| RDMA doorbell barrier (`comch_server.c` 2078-2281) | slot, sequence number, two send buffers per rank | enter, write next, wait for own slot | two waves round a ring of ranks, failed writes, a second thread on the same state |
| Ring all-gather (2704-3078) | pending counters per step, posted receives, buffers | post receives, read, write, send, wait, put | FIFO pairing across ranks, forwarding, dual rail, transfers that fail |
| Ring reduce-scatter and pool (784-975, 2498-2615) | current task, generation, counters, SPSC queues | submit, work, complete | a hand-made barrier of workers; overlap of read, send and receive |
| Host job queue (`comch_client.c` 1730-2169) | queue, inflight ring, sequence number, reference counts | enqueue, submit, complete, wait, release, shutdown | shared ownership, lost wake-ups, shutdown, failed submissions |
| DPU dispatch and execution (4131-5004) | message queue, ring queues, buffer pools, doorbell counter | receive, dispatch, execute, ring | doorbell order, staging memory, executions that fail |
| DPU bring-up (3145-4062) | connections, exported memory | connect, create ring, init flag pool | decisions taken per rank that must agree |
| GPU flag pool (`gpu_flag_pool.py`, `cuda_stream_wait.py`) | slots, generations | acquire, reset, stream wait | a generation overwritten before the wait |
| Gathers of parameters (`partition_parameters.py`) | shards, buffers, handles, host copies | partition, gather alone / as a list / coalesced / from host memory, wait | buffers reused while copies are queued; element order across ranks, padding |
| Parameter coordinator and hooks (`partitioned_param_coordinator.py`, `parameter_offload.py`) | status of each parameter, trace, prefetch queue, registry of handles, counters of the hooks | fetch, prefetch, release, reset, pre/post forward/backward | prefetch against a trace that no longer fits; shared, nested and repeated submodules |
| Optimizer (`zero_optimizer.py`, `zero_wrapper_example.py`) | bucket, pending reduce-scatter, gradient buffer, two banks, weights, pipe to the Adam process | gradient hook, reduce, partition, epilogue, step, step_dpu, update_new_params | three queues behind the host thread; a delay of one iteration; views of buffers that are reused |
| Training loop (`run_zero.py`, `baseline/run_zero.py`) | iteration, epoch | synchronous and delayed branch, shutdown | the change from one branch to the other |
| Baseline (`baseline/`) | the same, with NCCL | the same | what the offload must not change |
| Benchmarks, data, logging, DOCA helpers | | | outside the model |

What makes each component correct:

* barrier: no rank leaves its k-th call before every rank has made its k-th; every
  call returns if the writes arrive.
* all-gather: on return the destination holds every rank's chunk of *this*
  collective; every call returns.
* reduce-scatter: on return the destination is the sum of every rank's contribution to
  this collective, each exactly once; a chunk is not read from the host while it is
  being sent; every call returns.
* pool: no worker still uses the counters of a task when the next one resets them;
  each share is added exactly once; every task completes; destroy returns.
* host and DPU together: a job reported complete has been executed; memory is freed
  once and never under a user; no command is dropped; jobs complete; shutdown
  returns.
* flag pool and parameters: a kernel reads the parameter it was queued for, with the
  weights of this iteration; no stream waits for a generation that has been overwritten; a parameter is in
  flight exactly when a handle for it is still to be waited for; nothing is released from under a
  submodule; an iteration that runs the same submodules raises no exception; the shards are not updated under a gather.
* gradients: every gradient applied is the complete one of a single iteration, at its
  element; the weights are late by exactly one update on the delayed path; no gradient is
  applied twice or skipped; the bank the Adam process reads is not written; training ends.

## 2. Modules

| Module | Models | Notes |
|---|---|---|
| `Barrier` | what a barrier promises | abstract; also the `MPI_Barrier` fall-back |
| `RdbBarrier` | `rdb_barrier` and its RDMA writes | implements `Barrier` |
| `RdbBarrierProofs` | theorems about `RdbBarrier` | TLAPS |
| `RdbTwoRings` | `rdb_barrier` called by two ring threads of each rank | load and store of the counter are two steps |
| `RingAllGather`, `MCRingAllGather` | `collective_all_gather` on all ranks | uses the guarantee of `Barrier` for `LeaveBarrier` |
| `RingAllGatherProofs` | theorems about `RingAllGather` | TLAPS |
| `ReduceScatter` | `collective_reduce_scatter` on all ranks | the sum of a step is one action; `RsPool` models what is behind it |
| `ReduceScatterProofs` | theorems about `ReduceScatter` and `RsPool` | TLAPS |
| `RsPool` | `rs_worker_main` and the submit, poll and destroy functions | the SPSC queues are sequences; one task is out at a time |
| `HostCollective` | job queue, submit and completion threads, shutdown | actions over the host's variables |
| `DpuCollective` | receive, dispatch, execution, doorbell on one DPU | the collective is abstracted to "fill" and "finish" |
| `CollectiveOffload` | the two composed over the ComCh channel and the doorbell | properties of the whole path |
| `OffloadProofs` | theorems about `CollectiveOffload` | TLAPS |
| `GatherStreams` | flag pool, gathers, the two streams, the DPU or NCCL, the allocator | actions of the device, and what the host queues |
| `ParamCoordinator` | `PartitionedParameterCoordinator` | extends `GatherStreams` |
| `ZeroOffload` | the module hooks, driven by autograd | extends `ParamCoordinator` |
| `ParamGather`, `MCParamGather` | bring-up and training loop around the three, on one rank | implements `ParamLifecycle` |
| `ParamGatherProofs`, `RegistryProofs` | theorems about `ParamGather` | the second extends the first; TLAPS |
| `ParamLifecycle`, `ParamLifecycleProofs` | what the baseline promises a user of the parameters | abstract; TLAPS |
| `ZeroLayout` | arithmetic of shards, padding, sub-groups, buffers | pure operators, no state |
| `GradReduce`, `MCGradReduce` | buckets, reduce-scatter, banks, Adam process, training loop, on one rank | implements `DelayedUpdate` |
| `DelayedUpdate` | what the baseline's delayed update promises | abstract |
| `OptimizerProofs` | theorems about `GradReduce` and `DelayedUpdate` | TLAPS |

`CollectiveOffload` composes host and DPU; `ParamGather` composes host thread, streams and
DPU; both Python models take from the lower ones only what those check: a command is
executed once, in any order, and its flag or completion comes after its data.

### How the actions correspond to the code

**RdbBarrier.** `Enter` is `my_seq = ++rdb_my_seq`. `rdb_write_next` is split at the
points where another actor can see the difference: `WriteGather`/`WriteRelease`
(store in the send buffer and submit), `Deliver` or `WriteError` (the NIC), and
`GatherDone`/`ReleaseDone` (`submit_and_wait_doca` returns). `GatherSeen` and
`ReleaseSeen` are the ends of `rdb_wait_local_slot`. The error callback decrements the
same pending counter as the success callback and no status is read, so `WriteError`
lets the sender go on.

**RingAllGather.** `PostRecvs` is one turn of the posting loop, `Send` one submission
of a ring step, `StepDone`/`StepPut` the end of its wait. `Deliver` pairs the oldest
send of a connection and rail with the oldest posted receive. A value is
`<<collective, rank, piece>>`, so data of an earlier collective is told from this
one's. A send with no receive posted waits: the code sets the RNR retry count to 7,
which is "for ever" (`common/doca_rdma_utils.c` 114-117). Two kinds of things fail. `Break` puts a
connection in error: its sends and receives end in the error callbacks (`FlushSend`, `FlushRecv`), at both
ends. `RefuseSend` and `RefuseRecv` are the failure path of `submit_doca_task_from_desc` (499-525): the newest
send or receive of a rank is withdrawn and its counter decremented, and the connection goes on without it, so that later
sends meet receives meant for others and the last receive of the neighbour is never matched. `failed` records what has failed.

**ReduceScatter.** `Post` posts the receives of all steps and submits the first read;
`FirstRead` is the end of its wait. A step is `Send` (the send of one chunk and the read
of the next contribution into the same buffer) and `Aggregate` (the end of the wait, and
the sum). `Deliver` reads the sender's buffer when it pairs, not when the send was
submitted, so a buffer changed too early shows. A value counts how often it contains
each contribution, by collective and rank. A small chunk is added by the thread
itself and a large one (`RS_AGGREGATION_THRESHOLD`) by the pool; both are the one action. Failures are those of
`RingAllGather`, and the connection to the host's memory may break too.

**RsPool.** An action of a worker is what it does under one hold of the mutex, or one
operation on an atomic counter. `Loop` is the test of `running` outside the mutex, `Take`
and `NoneToTake` what worker 0 does inside it, `Follow` what the others do; `Woken` is the
broadcast, which brings every sleeper back to the test of its condition.

**HostCollective.** One action per interval between two points where the thread can be
overtaken. A job's `refcnt` starts at 2 (caller and pipeline). The completion thread
tests the stop flag, then the ring without the mutex, then both under the mutex:
`CompleterCheck`, `CompleterLook`, `CompleterSleep`/`CompleterAwake`. Three things can
go wrong with a submission: refused, with the mutex released; *stranded*, refused by the
code that registers a local CPU buffer, which returns with the mutex held; *unsent*, when the
error callback of the ComCh send reports success all the same.

**DpuCollective.** `Setup` takes a staging slot; the kinds of job tell whether there is
one: `ag` is a GPU-direct all-gather (none), `agcpu` an all-gather with a copy to a local
CPU buffer, `rs` a reduce-scatter. `LoadSeq` and `Stage` are the two halves of
`doorbell_seq++`, `Doorbell` is the NIC reading the staging memory. `Dispatch` assumes
that the second ring was created (`ring_r1_enabled`).

**GatherStreams.** A stream is a queue of operations; `AllGatherStream` and
`ComputeStream` execute the head of theirs. `transport` is fixed for a run: `"flag"` is the DPU
with the flag pool, `"copy"` the same with `ENABLE_FULL_PARAM_TRANSFER`, `"host"` the DPU
without the pool (the host thread waits), `"nccl"` the baseline. `QueueWait` is
`AllGatherHandle.wait` and `AllGatherCoalescedHandle.wait`: what they put on the stream and the blocks
they take and give back. Memory is a set of equal blocks, and a freed block is handed
out again as early as the caching allocator of PyTorch may do it: the buffer of a coalesced gather at once, since
`record_stream` names the stream it was allocated on. `odd` is a history variable with the two accesses that nothing in the
code orders: `"reused"`, a block handed out while a queued copy has still to read it, and `"early"`, a load from host memory
executed while the save of the same parameter is still queued.

Smartnic and baseline share most functions of these modules line by line; a definition names the lines of one of them.

**ParamCoordinator.** `tr` holds the trace with the names of the code. `BeginFetch`,
`WaitParam` (once per parameter, in any order: the code iterates over a frozenset) and
`EndFetch` are the parts of `fetch_sub_module` between which the device may run;
`ReleaseSubModule`, `ReleaseAndResetAll` and `ResetStep` are whole methods. A `raise` or a
failed `assert` sets `err`, and the host thread stops.

**ZeroOffload.** A forward script is a sequence of hook events; `Backward` derives the
events of the backward pass as autograd does, one `PreBackwardFunction` per output and a
`PostBackwardFunction` where a gradient flows to the input. `hook` holds the counters
that the hooks keep on a submodule.

**ZeroLayout.** Tensors are sequences of elements `<<parameter, index>>` (or cells, sets of
contributions), so that a misplaced, lost or repeated element shows. The four gather paths
and the two ways to reduce are operators on them.

**GradReduce.** One action per hook, reduction, epilogue, step or command of the Adam process, and
one per operation of a stream. A cell of a gradient is the set of contributions
`<<parameter, index, iteration>>` added up in it: `{}` is padding or memory nobody has written.
The DPU may read a bucket while its packing is still queued (`EarlyIters`); the history variable `odd`
records that (`"early"`), a bucket packed over before it was read (`"overwritten"`) and a shard added to that of the iteration
before (`"added"`). A synchronous step is `StepBegin`, one `StepSubGroup` per sub-group,
`StepEnd`. The other ranks' gradients of the same element are not told apart: their sum is the
subject of `ReduceScatter`.

**ParamLifecycle, DelayedUpdate.** The abstract modules leave open what is prefetched and
what is released early, and when a bucket is reduced. Baseline and offload share the coordinator and the
hooks line by line; the modules say what a user of either may rely on.

## 3. Runs

| Run | Configuration | Result | What it shows |
|---|---|---|---|
| `rdb_barrier` | 4 ranks, 3 barriers, 2 lost writes | pass | safety, monotone slots, refinement, termination |
| `rdb_two_rings` | 2 ranks, 2 rings, 1 call per thread | violation | ring threads share the barrier state |
| `ring_all_gather` | 3 ranks, 2 pieces, 2 collectives, 1 failure (connection, send or receive), 3 settings | pass | correct data, FIFO pairing, every call returns unless a submission failed |
| `ring_ag_flag` | 2 ranks, 1 piece, 1 failure | violation | the GPU flag does not mean that the data is there |
| `reduce_scatter` | 3 ranks, 2 collectives, 1 failure (connection, send or receive) | pass | sums contain each contribution once, FIFO pairing, no read into a chunk in flight, every call returns unless a submission failed |
| `rs_pool` | 4 workers, 3 tasks | pass | tasks do not overlap, shares added once, tasks complete, destroy returns |
| `collective_offload` | 3 jobs, ring of 1, message queue of 3, 1 host and 1 DPU fault | pass | completion means done, reference counts, no drop |
| `collective_offload_live` | 2 jobs, ring of 2, 1 host fault, inline and ring threads | pass | jobs complete and are executed, shutdown returns |
| `param_gather` | 3 parameters, 4 submodules, 5 schedules of 1 to 3 iterations, 4 transports, flag pool of 4, 6 blocks | pass | kernels read the right data, registry, counters and exceptions, refinement of the lifecycle, training ends |
| `buffer_kept` | the same | violation | a gather is written into a buffer that queued copies have still to read |
| `grad_reduce` | last of 3 ranks, 5 parameters, 3 sub-groups, buckets of 8, 4 iterations (2 synchronous), 3 orders, DPU ahead of the reduce stream in 1 iteration | pass | layout, exact gradients, delay of one, refinement of the delayed update, training ends |
| `rs_input_order` | the same, DPU ahead of the reduce stream in any iteration | violation | the DPU may read a bucket before it is packed |

**Bounds.** Three consecutive barriers make every value of a slot meet its predecessor
and successor; four ranks have two that are neither first nor last. Two all-gathers in a
row are needed for stale buffers, three ranks for a chunk that is forwarded, two pieces
for the second rail. Two reduce-scatters let sums left in the buffers by the first be seen in the second; three
ranks give a sum that is received, added to and passed on. Three tasks let a slow worker meet
the two tasks after its own, and four workers one that is neither worker 0, nor the last
to finish, nor the only one left behind. Three jobs with an inflight ring of one fill the ring while one job
waits in the queue and one is being submitted; the message queue of three keeps the code's relation
(`INFLIGHT_CAP` 256 < `MSG_QUEUE_CAP` 4096), and holds one command fewer than its
capacity.

The five schedules of `param_gather` are the cases the coordinator tells apart: the same
order twice (trace recorded, then used to prefetch), another order (trace invalidated and
recorded again), a layer called twice in a pass, a layer left out (the exceptions), and a root that
shares a parameter with a child and uses it after the child has released it. Three parameters, one
of them twice as large, make coalesced and single gathers; `PrefetchBucket = 2` and `MaxLive = 3`
cut a prefetch short; a pool of four slots is passed several times in an iteration;
`MaxFetchEvents = 1` (1024 in the code) makes the host wait for an event. There are six GPU blocks, and the
host goes on while `MinFree = 3` of them are free: one gather brings at most every parameter, each
to a block of its own (`MemoryAssumption`), and with fewer the host waits for the streams to free
some, as the caching allocator does before it fails. The schedules are made of calls: a submodule is entered, computes
with its parameters and is left, and returns at least one tensor (`CallAssumption`, `OffloadAssumption`).
`Prepared` lets the streams run dry between the preparation and the first iteration.

In `grad_reduce` the rank is the last one, because it alone has shards that are short or
empty; the five sizes give a full, a short and an empty shard, a tensor larger than the bucket
and one sent as it is; the three orders give contiguous and other buckets, first, in the middle and last.
In the code the DPU may overtake the reduce stream in every iteration. `grad_reduce` lets it do so in one, with one of the orders
(`EarlyIters`), which is enough for the early read to be followed by everything else; with no bound one order alone has several
hundred thousand states. `rs_input_order` has no such bound.
Two synchronous iterations come before two delayed ones, so that the change of branch, the first
command of the Adam process and the first exchange of the banks are covered.
`MaxReduceEvents = 1` (2 in the code) makes the host wait for an event.

`MaxBarriers`, `MaxLost`, `MaxCollectives`, `MaxFailures`, `EarlyIters`, `MaxTasks`, `MaxJobs`, `MaxHostFaults`,
`MaxDpuFaults`, `MaxIters`, `Schedules`, `MinFree` and `NBlocks` are bounds of the model and
not of the code. Deadlock is not checked: with the bounds reached every system here
stops, and the waits that can go on for ever are the subject of the liveness
properties.

**Conditions.** Properties of the offload name the faults they exclude, each a fault the
model contains: for instance `CompletedMeansDone` allows refused submissions and lost
doorbells, but not a command that failed on the DPU, after which the counter is one behind the
commands and later jobs are reported early. `ShutdownReturns` excludes a full
inflight ring: the completion thread may leave first, and the submit thread then waits for room
without looking at the stop flag (`comch_client.c` 1870).

`AllGatherReturns` and `ReduceScatterReturns` allow connections that break, at any point, and exclude submissions that fail
(`AllSubmitted`): without the condition TLC finds, in both models, a neighbour that spins for ever on a receive that no send will meet.

The Python models have five conditions of this kind, each a place where the code relies on timing that
nothing enforces. No action of the models is restricted; a history variable, `odd`, records that it has happened, and TLC finds the
violation without the condition:

* `"reused"`, in `KernelDataCorrect`: the flat buffer of a coalesced gather is handed out again while copies from it are
  queued (`partition_parameters.py` 1212). The run `buffer_kept` shows it.
* `"early"` of `GatherStreams`, in `KernelDataCorrect`: a parameter is copied back from host memory before the copy to it
  (`parameter_offload.py` 518). The scripts leave the option off.
* `"early"` of `GradReduce`, in `GradientsExact`: the DPU reads a bucket before the reduce stream has packed it
  (`zero_optimizer.py` 427). The run `rs_input_order` shows it.
* `"overwritten"`: a bucket sent as a view of the flat buffer has been packed over before it was reduced (346).
* `"added"`: the last bucket is not contiguous and its result is added to the gradient of the
  iteration before, because `micro_step_id` has been incremented (1030).

All other properties of the two models hold, and are proved, whether or not these happen; `ImplementsDelayedUpdate` speaks of
the steps until one of the last three does.

**Fairness.** The barrier's threads spin and never sleep, and the NIC serves its queue:
weak fairness of `Thread(r)` and `Deliver(r)`; a call of the barrier (`Enter`) and a failing write
have none. In the all-gather, a single weak fairness over all threads and the fabric is
enough, since every behaviour of the model is finite, and it is weaker than a fair scheduler; a rank
leaves the barrier only by the liveness of `RdbBarrier`, which speaks of writes that arrive, so not when something has failed; the reduce-scatter is fair in the same way. In the pool every worker is an
operating system thread of its own, so each has weak fairness (a mutex is held only for the
length of an action); the caller is fair once it has submitted or begun to destroy. In
the offload one weak fairness covers both host threads, the shutdown
once begun, and the DPU; callers (`Enqueue`, `Release`, `ShutdownStop`) have none.

In `ParamGather` the host thread, the allgather stream, the compute stream and the DPU have weak fairness of their own: the first
three are threads or in-order queues of the GPU, and `CollectiveOffload` checks that an accepted command is executed. That the DPU
goes on with some command is enough, since only finitely many are asked for. In `GradReduce` one weak fairness covers
all of them and the Adam process, each of which always has only finitely much to do.

## 4. Proofs

`RdbBarrierProofs` proves for every number of ranks `N >= 2`, every number of barriers
and every number of failed writes:

* `Invariance`: `Spec => []IInv`; `TypeCorrect`: `Spec => []TypeOK`;
* `Safety`: `Spec => []BarrierSafe`;
* `Monotone`: `Spec => SlotMonotone`;
* `Refinement`: `Spec => BarrierRefinement`, the barrier implements `Barrier`.

`BarrierSafe` alone is not inductive: it says nothing of ranks still inside. `IInv` adds
what a value in a slot proves about its writer: `Sends` bounds the slot of a rank by what
its predecessor can have sent at its place in the code, `Sees` bounds it from below
by what the owner has seen, `Buffers` ties a write in flight to the place in the
code that submitted it (this is where the two send buffers matter), and `Chain` says that values reach the
slots in ring order, so the slot of rank 0, the last of each wave, is the smallest.
From rank 0 leaving the gather wait, `Chain` gives that every rank has entered. The only
assumptions are `NAssumption` and `BoundsAssumption`.

`Monotone` follows from the step lemma for `Deliver`: what is delivered is at least
what `Sends` allows to be there. `Refinement` maps a rank's call to `entered` and its
return to `exited`; every other step is a stutter.

`OffloadProofs` proves for every number of jobs, any faults on both sides and any caller:

* `ReferenceCount`: `Spec => []RefCounted`, in either mode of the DPU;
* `QueueNeverOverflows`: `Spec => []NeverDropped`, and `CompletedIsDone`:
  `Spec => []CompletedMeansDone`, both with the ring threads off and for
  `InflightCap + 2 <= MsgCap`. The code has 256 (`comch_client.c:1769`) and 4096
  (`comch_server.c:1084`); the runs have 1 and 3, where the assumption is tight;
* `TypeCorrect`: `Spec => []TypeOK`, again in either mode of the DPU.

The three invariants `HostInv`, `InlineInv` and `ExactInv` build on each other. `HostInv` says that the pipeline (inflight ring, submit
thread, job queue) holds the last jobs in the order of their enqueueing, so whether a job is in it is a
comparison of numbers; the reference counts follow. `InlineInv` adds what the numbers of the
jobs (`Numbers`) and the commands that wait in the channel and the queue (`Commands`) prove about each other: the i-th
command that waits belongs to a job whose number the doorbell has not reached by i, so all of them
but the first belong to jobs still in the inflight ring or with the submit thread, and the queue
cannot be longer than that. A lost command or a failed job makes numbers and doorbells disagree for
good, and the inequality still holds; `ExactInv` is what is true when neither happens: as many
numbers as commands, each job's number that of its own command, and the
worker's data its own job's. `CompletedMeansDone` follows because a completed job has a number that
the doorbell has reached. With ring threads a completed job need not have been executed (section 5).

What `TypeOK` says beyond types is that the unlocked `doorbell_seq` stays within the number of jobs when two ring
threads load and store it. That is not inductive. `TypeInv`, next to `HostInv`, counts: `doorbell_seq` and the commands that
are sent and not counted (`Open`: in the channel, in a queue, with a worker) are together at most the jobs that have
left the host's queue (`Gone`). A thread that stores an old value takes the counter back, so the value that the
other thread has loaded may be above the counter; `Counts` bounds it on its own, and each store by one
command that stops being open.

`RingAllGatherProofs` proves for every number of ranks `N >= 2`, every number of pieces, any number of
collectives, any connections that break and submissions that fail, and any mix of modes and rails among the ranks:

* `Invariance`: `Spec => []IInv`; `TypeCorrect`: `Spec => []TypeOK`;
* `FifoAlike`: `Spec => [](Alike => FifoMatch)`, and `CorrectAlike`: `Spec => [](Alike => AllGatherCorrect)`,
  where `Alike` says that the ranks agree on the rails and on the number of steps;
* `Fifo`: `Spec => []FifoMatch`, and `Correct`: `Spec => []AllGatherCorrect`, for ranks that all run with one
  setting (`Uniform`), as they do in the runs.

`FifoMatch` and `AllGatherCorrect` speak of runs in which nothing has failed; they are not inductive. A
transfer is known by its position, a step and a piece, and a rail visits its positions in the order
`Follow`: every piece on a single rail, every other one on each rail of a dual ring. `Shape` gives from a
rank's place in its loops the content of the queues of both rails, which start at some position and then
follow it, and says that the counter of a step is the number of positions of this step still left on the two rails
(`Pend`); it holds whatever fails. `Entered`, from the barrier, says that a rank
is at most one collective ahead. `Linked` says that the two ends of a rail stand at one position, or that the
one a collective behind has finished its part: so the heads of the two queues are meant for each other. `Data`
says which chunks have arrived by then: a receive that has ended has put the right chunk in place (`Received`),
the own chunk is in `send_buf` and in the destination (`OwnChunk`), the chunks of earlier steps are put
(`PutChunks`). A chunk is passed on one step after it came, so `Received` at the sender is what makes the
delivery right at its successor. Without `Alike` the loops of two ranks count differently and neither property
holds; legacy and `gpu_direct` ranks may mix, a `full` rank, which makes one step more, may not mix with them.
The assumptions are `RingAssumption` and, for the last two theorems, `Uniform`.

`ReduceScatterProofs` proves for every number of ranks `N >= 2`, any number of collectives, any
connections that break and any submissions that fail:

* `Invariance`: `Spec => []IInv`; `TypeCorrect`: `Spec => []TypeOK`;
* `NoRace`: `Spec => []NoDmaRace`, whatever fails;
* `Fifo`: `Spec => []FifoMatch`, and `Correct`: `Spec => []ReduceScatterCorrect`, which both speak of
  runs in which nothing has failed.

None of the three is inductive. `FifoMatch` looks only at the heads of two queues: `Shape` gives the whole
content of a rank's queues and counters from its place in the loop, so that the posted receives
are the last ones of the collective in the order of the steps, and `Paired` says that as many sends as
receives have ended at the two ends of a connection, also when one rank is a collective ahead
(`Entered`, from the barrier, says that it is at most one). `NoDmaRace` follows from `Shape` and
the index formulas alone, which is why it survives failures.
`ReduceScatterCorrect` needs `Sums`: what each chunk in `send_buf` and `recv_buf` holds at every
step, a partial sum of the ranks it has passed. The only assumption is `ScatterAssumption`.

Its second part is about `RsPool` and proves for every number of workers `T >= 1` and every number of tasks:

* `PoolInvariance`: `PoolSpec => []PoolInv`; `PoolTypeCorrect`: `PoolSpec => []PoolTypeOK`;
* `Stable`: `PoolSpec => []TaskStable`, nobody is inside a task that is not the current one;
* `Exact`: `PoolSpec => []SumExact`, a task that has been polled was added by every worker exactly
  once.

`SumExact` needs to know that the last increment of `done_count` comes after every
addition, and `TaskStable` that worker 0 does not reset the counters before everyone has
passed `ready_count`. The invariant says so by counting: `Counters` makes
`done_count` and `ready_count` the sizes of the sets of workers that have passed them, so a counter
equal to `T` means that the set is all workers (`WorkerSets`, from the library's facts on
finite sets); `Generations` says that a worker is at most one generation behind;
`Outstanding` says that one task is out and is reported once, which also gives that no worker can
join a generation while the pool is being destroyed; `Shares` says what has been added. The only assumption
is `PoolAssumption`.

`ParamLifecycleProofs` proves for every set of parameters and submodules, whatever is prefetched
and released: `TypeCorrect`; `InUse` (`Spec => []ActiveAvailable`); `InFlight`, a parameter is
in flight exactly when one gather and only one brings it; `NoStaleCopy`, the shards change only when no
gather reads them. `ActiveAvailable` is not inductive, since a parameter is marked as used while
others of the same submodule are still in flight: `Inv` adds `InFlightOnce`, that no empty set is gathered,
and that what a submodule is fetching is not given back (`FetchedStays`). The assumption is
`LifecycleAssumption`.

`OptimizerProofs` proves of `GradReduce`, for every set of parameters and their sizes, every rank, sub-group
size, bucket size, order of the gradients, threshold and number of iterations:

* `LoopInvariance`: `Spec => []LoopInv`;
* `OptimizerDelayedByOne`: `Spec => []DelayedByOne`, the weights a pass uses are late by exactly one
  update on the delayed path and by none before;
* `LayoutIsExact`: `LayoutRoundTrip`, that neither a gather nor a reduction loses, repeats or misplaces an element;
* `OptimizerTypeCorrect`: `Spec => []TypeOK`, which says among others that what is packed in the flat buffer fits
  and that the input of a reduce-scatter divides among the ranks;
* `GradInvariance`: `Spec => [](LoopInv /\ TypInv /\ GradInv)`, and from it `OptimizerGradientsExact`:
  `Spec => []GradientsExact`. Neither assumes anything of the order of DPU and streams: `GradInv` and `GradientsExact` themselves speak of
  states in which `odd` is empty.

`DelayedByOne` compares the number of an iteration with the length of `fp16`, which `update_new_params` takes from weights
another process updates. `LoopInv` fixes for every place of the host thread what the pipe and the answers
hold, what the worker does and how many gradients the weights have taken: nothing is under way in the
synchronous iterations and the first delayed one (`Starting`, `InSync`, `InFirstDelayed`, `Quiet`); later exactly one step is in the
pipe, with the worker, or answered (`StepSent`, `StepTaken`, `StepDone`), `StepTaken` counting the sub-groups done.
It rests on two facts about the layout: the synchronous iterations are the first ones (`SyncFacts`), and the
sub-groups hold every parameter (`SubGroupsFacts`), by induction over the split that `_create_fp16_sub_groups` makes.
The assumptions are `LayoutAssumption` and `ReduceAssumption`.

`LayoutIsExact` follows an element through the two conversions: a flattened sequence of tensors holds the j-th element of the i-th at
the sum of the lengths before it plus j (`FlattenSlices`, by induction; `FlattenEven` for ranks of one length), and division with
remainder gives the rank and the place of an element back (`PlaceFacts`), also where the last rank has only padding.

`OptimizerTypeCorrect` rests on `TypInv` next to `LoopInv`. The queue of the reduce stream outlives the bucket it was filled
from, so `StreamTypes` says of every operation still queued that its sources are places that can be read (`Places`), and
`BucketTypes` that the bucket holds only gradients the backward pass has come to, each once, since the order repeats none
(`OrderFacts`). That the input divides among the ranks follows from `InterleavedFacts`, the place of every piece of
every tensor in a coalesced reduce-scatter. `MicroTypes` says where `micro_step_id` is 0.

`GradInv` follows a gradient from its kernel to the weight while nothing is `odd`. `GradientsExact` looks only at
the end of that way, so the invariant says for each stretch of it what is there or what is queued to bring it:
`KernelsInv` (the kernel of the j-th gradient has run or is at its place in the compute stream), `CopiesInv` (an operation that
packs a gradient is behind a wait for its kernel), `BucketInv` (after what is queued every gradient of the bucket is where `loc`
says, since no later operation touches its place in the flat buffer: `Held`, `Clear`), `PendingInv` (what
is ahead of the pending reduce-scatter leaves its input complete, `SentInv`, and when it is done the shards are where
the DPU writes them, `ScatteredInv`), `BankInv` (a packed gradient is in the bucket, in the pending reduce-scatter
or in the bank; the bank of the finished iteration, the current or the other one, is exact: `BankExact`) and
`MastersInv`. The three places differ per bucket: one that divides and is alone is sent as a view, several are put
together, and a contiguous one is scattered to the gradient buffer itself. `OrderCovers` (the order names every parameter)
makes `BankExact` of what is packed, `HitOnlyOwn` and `CellPlaces` that cutting a shard out touches no other.
`GradientsExact` is about the sub-groups with an element on this rank (`HasElement`); one that is only padding, where the shards
of its parameters are empty, has no gradient to compare with.

Its last section proves of the abstract `DelayedUpdate`, for every number of synchronous iterations, every set of shards and
sub-groups and any number of iterations: `TypeCorrect`; `Delay` (`Spec => []DelayedByOne`); `InOrder`, a
weight takes one gradient at a time and none is skipped; `Stable`, the bank the worker reads is not
written. `Inv` says in each of four phases (before or after an iteration's end, before or after the change of
branch) which iteration the banks, the fp32 and the fp16 weights stand for; while the worker is
busy, a weight is one ahead if its sub-group has been updated. The assumption is `UpdateAssumption`.

`ParamGatherProofs` is about the detailed coordinator, for every set of parameters and submodules, every
schedule, trace and prefetch, and every pool and bucket size:

* `ControlInvariance`: `Spec => []CtlInv`;
* `TypeInvariance`, `TypeCorrect`: `Spec => []TypeInv` and `Spec => []TypeOK`;
* `DataInvariance`, `KernelsReadTheirParameters`: `Spec => [](TypeInv /\ DataInv)` and `Spec => []KernelDataCorrect`, which
  excludes by `odd = {}` the two accesses the code leaves unordered;
* `ActiveParametersStay`: `Spec => []ActiveAvailable`;
* in `RegistryProofs`, `RegistryInvariance`: `Spec => [](TypeInv /\ RegistryInv)`, and `RegistryHolds`: `Spec => []RegistrySound`;
* also there, `GatheredToCompute`: `Spec => [](TypeInv /\ Computing)`, and `ShardsChangeWhenIdle`:
  `Spec => UpdateWhenIdle`;
* `CoordinatorImplementsLifecycle`: `Spec => ImplementsLifecycle`, every step of the host thread is a
  step of `ParamLifecycle` or leaves its variables alone.

`CtlInv` ties the parameters to the place of the host thread in its script: `AtScript` (what is left to
run is the end of the script of the iteration), `BeforeLoop` (which parameters are converted, gathered or
whole at every point of the preparation), `InFlightTogether` (a gather is one handle shared by the parameters it brings,
all in flight), `FetchUnderWay` (what `fetch_sub_module` no longer waits for is taken), `Released`
(between the release of all parameters and the next iteration nothing is gathered), `IsTrace` (the structures
of the trace belong together, so that it can be completed), and the invariant of `ParamLifecycleProofs`
under the refinement mapping. `BeforeLoop` is why the abstract module may start from parameters that are available. Facts
about the n-th element of a set, the blocks handed out next and flattened sequences are lemmas at its beginning, by induction
over sets of numbers (every non-empty set of naturals has a smallest element).

`TypeInv` adds the types and what they depend on: `Calls` (a submodule that returns still has its parameters,
so what the hook copies to host memory is in a block; from `CallAssumption`), `Starting` and `AtUpdate` (what is
queued before the first iteration, and left when the shards change). The steps are first reduced to the few things they do
to queues, blocks and handles (`DataStep`: kernels, copies and frees queued behind each other, a gather asked for, a
gather waited for, the shards changed, an operation executed), so the rest is proved about those and not about every hook.
`MemoryAssumption` gives every gather its blocks.

`DataInv` is why a kernel finds its parameter though host, DPU and two streams share only flags and positions. Its first half,
`BlockInv`, always holds: `Ownership` (a block belongs to one parameter, one gather not waited for, or one free that the compute stream
has not come to, and the allocator knows), `Flags` (no flag a gather has still to write is in its slot already), `Awaited` (a gather
the DPU has still to execute is in flight or waited for on the allgather stream), `Reads` (what the compute stream reads is given back
behind the read) and `Joined` (`fetch_sub_module` leaves the compute stream behind the allgather stream). `RegistryHolds` and
`ShardsChangeWhenIdle` need only that half. The other, `StreamInv`, holds while `odd` is empty: `Order` (what is written to a block comes
before every kernel, copy and free of it, by a `wait_stream` in between; the buffer of a coalesced gather, dropped before the copies from
it, is nobody else's), `Contents` (a block holds its parameter from this iteration's shards, or what is queued will bring it)
and `Saved` (the same of host memory).

`RegistryInv` is about the order of the two passes. `release_sub_module` does not look at the registry: released
by a submodule that is not using it, a prefetched parameter would be partitioned with its handle left behind, and the next
fetch would wait for a gather of the past. `Registered` says that this does not happen, because a submodule uses its parameters
from its first backward pass to the countdown of its gradients: `CallCounts` bounds the stack and the counters in its
hooks, and `PassCounts` ties them to the events of the script that have begun or run (a submodule that has run forward and
not yet backward has its call on the stack and references left; while its gradients are awaited it uses its
parameters). `PassCounts` needs that the script of the backward pass is the forward
pass undone (`BackwardOrder`, from `CallAssumption`: every call returns and computes in between).

`Computing` says why the shards change when nothing is under way, though `optimizer.step` only waits for the compute stream:
whatever the allgather stream has still to do, a `wait_stream` of the compute stream comes behind it and a
computation behind that, queued or still in the script (`WaitsFor`). At the update the
computations have drained (`AtUpdate`), so the stream is empty, and by `Awaited` the DPU is idle.

That `GradReduce`
implements `DelayedUpdate` is checked by TLC (`ImplementsDelayedUpdate`) and not proved: it rests on what the
streams have copied of every bucket, on top of what `LayoutIsExact` says of one reduction.

Not proved, only model-checked: liveness under fairness (`BarrierCompletes`,
`AllGatherReturns`, `ReduceScatterReturns`, `TaskCompletes`, `DestroyReturns`, `JobsComplete`, `JobsExecuted`, `ShutdownReturns`,
`TrainingEnds`), which is out of
the prover's reach; of `ParamGather`, `FlagNotOvertaken`, `FaultOnlyIfModelChanged` and
`LiveAccounted`; of `GradReduce`, `ImplementsDelayedUpdate`.
`FlagNotOvertaken` does not hold for every pool: the code relies on there being more slots than
gathers under way, which nothing in it bounds.

## 5. Disagreements between code and documentation

* `rdb_two_rings`: the comment at `comch_server.c:2776` says the barriers of the two rings
  are kept apart by a communicator of their own; that holds only for the `MPI_Barrier` fall-back.
* `ring_ag_flag`: the comment at `comch_server.c:4081` promises the data to whoever sees
  the flag; a failed transfer counts as finished.
* `buffer_kept`: `partition_parameters.py:1212` says that `record_stream` keeps the buffer of a coalesced gather alive until the
  current stream is done with it. The current stream is the one the buffer was allocated on, so the call delays nothing, and the
  buffer is dropped (1215) while the copies out of it are only queued.
* `rs_input_order`: `zero_optimizer.py:1132` says that a gradient is packed once it exists; the packing
  is queued, but the command to the DPU is not.

The first needs `PHASE15_ENABLE_RING_QUEUES=1`, which is off by default; the last two need a GPU that
is behind when the command reaches the DPU.

Four more were met and have no run of their own. `comch_client.c:1768` has the order of the doorbells be that of the jobs, which does not
survive two ring threads: each counts and rings when it has finished, so a job may be reported complete before it has been executed; the
properties about doorbells exclude the ring threads by name. The fall-back to one rail (`comch_server.c` 2746) is decided per rank: with
`Uniform = FALSE` TLC finds an all-gather that never returns. The local CPU copy, which
`client.py:1106` compares with the GPU output, starts with the doorbell counter staged in the same buffer
(`comch_server.c` 4413, 4440). `_allgather_params_coalesced` waits for the first of its gathers and
not for the last (`partition_parameters.py` 1784); only synchronous callers with several parameters, of which there are
none in training, would see it.

## 6. Not modelled

Data is abstracted to its origin; lengths, addresses, key encoding, timing records and
logging are left out.

* DPU: the bring-up (MPI and TCP exchange, ring creation, import of exported memory), the import
  caches, clean-up, failed allocations, the polling of DOCA contexts. Their results are initial states of the modules.
  The write of the GPU flag is the one in `GatherStreams`; its order relative to the data is in `ring_ag_flag`.
* Host: the fall-back without a doorbell, connection set-up, caches of registrations and their lifetime, bindings.
* Parameters: external parameters, `InsertPostInitMethodToModuleSubClasses` (unused),
  `GpuFlagPool.reset` (a debugging aid that nothing calls) and the overflow of a generation at 2^30, the coordinator of evaluation, submodules with several tensor
  inputs, more than one rank at once (the ranks run the same code on the same schedule; a difference
  of traces between ranks is asserted away by `assert_ints_same_as_other_ranks`).
* Gradients: `RS_USE_NCCL`, accumulation over several micro batches (the scripts fix it at 1), the Adam worker as a thread
  (`DISABLE_ADAM_FORK`), the arithmetic of Adam. The gradients of the last delayed iteration are never
  applied, in the code as in the model.
* The baseline's own buckets and gathers in detail: its promises are `ParamLifecycle` and `DelayedUpdate`, its gather is the
  transport `"nccl"`.
* `client.py` and the benchmarks, data sets (the token cache of `text_dataset.py` 69-71 is written by every
  rank to one temporary file, which is not safe when ranks start together), model definitions, measurement.
