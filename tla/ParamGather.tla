------------------------------ MODULE ParamGather ------------------------------
(***************************************************************************)
(* The parameters of one rank through the iterations of the training loop  *)
(* (smartnic_offload/run_zero.py, zero_wrapper_example.py): forward pass,   *)
(* backward pass, reset_step, the epilogue that waits for the compute       *)
(* stream, the release of every parameter, the update of the shards.       *)
(* Before them the model is partitioned and the gradient hooks installed.   *)
(* Composes the host thread (hooks and coordinator) with the DPU and the   *)
(* two streams.                                                            *)
(***************************************************************************)
EXTENDS ZeroOffload

CONSTANTS
  Schedules,  \* what the loop may run: sequences of forward scripts
  MinFree     \* bound: free blocks the host goes on with

\* What the forward hooks and the computations of the submodules make up.
ForwardEvents == {Event(kind, m) : kind \in {"pre_fwd", "use", "post_fwd"}, m \in Mods}

\* The call from f[i] to f[j]: the hooks around the forward of a submodule,
\* which computes with its parameters and does not call itself.
IsCall(f, i, j) ==
  LET m == f[i].m IN
  /\ i < j /\ f[i] = Event("pre_fwd", m) /\ f[j] = Event("post_fwd", m)
  /\ \E k \in i + 1 .. j - 1 : f[k] = Event("use", m)
  /\ \A k \in i + 1 .. j - 1 : f[k] \notin {f[i], f[j]}

Called(f) ==
  \A j \in DOMAIN f :
    /\ f[j].ev = "pre_fwd" => \E i \in DOMAIN f : IsCall(f, j, i)
    /\ f[j].ev = "post_fwd" => \E i \in DOMAIN f : IsCall(f, i, j)

ASSUME ScheduleAssumption == Schedules \subseteq Seq(Seq(ForwardEvents))
ASSUME CallAssumption == \A s \in Schedules : \A n \in DOMAIN s : Called(s[n])

\* One gather brings at most every parameter.
ASSUME MemoryAssumption == MinFree \in Nat /\ MinFree >= Cardinality(Params)

VARIABLES
  schedule,  \* the forward scripts of the iterations of this run
  iter       \* iterations begun

vars == <<schedule, iter, todo, hook, tr, nAvail, registry, status, data, active, fetching, waiting, cpuFull, err,
          transport, dpu, flag, gens, nextSlot, agQ, agPos, cuQ, events, held, mem, weights, pinned, odd>>
loopVars == <<schedule, iter>>

Running == err = "none"
EndOfStep == <<Event("reset_step", NoMod), Event("epilogue", NoMod),
               Event("release_all", NoMod), Event("update", NoMod)>>

\* ZeroOffload.__init__ converts the parameters one by one; the optimizer then
\* gathers each to install its gradient hook.
BringUp ==
  LET ps == Ascending(Params)
      all(kind) == [i \in DOMAIN ps |-> Event(kind, ps[i])]
  IN  all("convert") \o FlattenSeq([i \in DOMAIN ps |-> <<Event("gather", ps[i]), Event("add_hook", ps[i])>>])

Init ==
  /\ StreamsInit /\ CoordinatorInit
  /\ todo = BringUp /\ hook = [m \in Mods |-> NoHooks]
  /\ schedule \in Schedules /\ iter = 0

\* _convert_to_zero_parameters, of the parameter the event names.
ConvertParam ==
  /\ Now("convert")
  /\ PartitionParams({Mod}, <<>>)
  /\ todo' = Tail(todo)
  /\ UNCHANGED <<tr, nAvail, registry, active, fetching, waiting, cpuFull, err>>
  /\ UNCHANGED <<transport, dpu, flag, gens, nextSlot, agQ, agPos, events, mem, weights, pinned, odd>>
  /\ UNCHANGED hook

\* create_reduce_and_remove_grad_hooks: all_gather(), a list gather without a
\* flag, for which the host waits ...
GatherForHook ==
  /\ Now("gather")
  /\ EnqueueList(Mod)
  /\ status' = [status EXCEPT ![Mod] = "AVAILABLE"]
  /\ data' = [data EXCEPT ![Mod] = ListHandle(Mod).out]
  /\ todo' = Tail(todo)
  /\ UNCHANGED <<tr, nAvail, registry, active, fetching, waiting, cpuFull, err>>
  /\ UNCHANGED <<transport, flag, gens, nextSlot, agQ, agPos, cuQ, events, mem, weights, pinned>>
  /\ UNCHANGED hook

\* ... then the hook on the accumulator of its gradient, and partition().
AddHook ==
  /\ Now("add_hook") /\ dpu = {}
  /\ PartitionParams({Mod}, <<>>)
  /\ todo' = Tail(todo)
  /\ UNCHANGED <<tr, nAvail, registry, active, fetching, waiting, cpuFull, err>>
  /\ UNCHANGED <<transport, dpu, flag, gens, nextSlot, agQ, agPos, events, mem, weights, pinned, odd>>
  /\ UNCHANGED hook

ModsOf(script) == {script[i].m : i \in DOMAIN script}

\* Bound: the streams have executed what the preparation queued when the first
\* iteration starts; start_adam_process waits for another process in between.
Prepared == iter = 0 => dpu = {} /\ cuQ = <<>>

\* The next iteration of the loop.
StartIteration ==
  /\ todo = <<>> /\ iter < Len(schedule)
  /\ Prepared
  /\ iter' = iter + 1
  /\ todo' = schedule[iter'] \o Backward(schedule[iter']) \o EndOfStep
  /\ UNCHANGED <<schedule, hook>> /\ UNCHANGED coordVars /\ UNCHANGED streamVars

\* DeepSpeedZeroOptimizer_Stage3.backward ends with reset_step.
StepReset ==
  /\ Now("reset_step")
  /\ ResetStep
  /\ todo' = Tail(todo)
  /\ UNCHANGED hook

\* Mutant: the epilogue does not wait for the reduction stream.
EpilogueUnsynchronized ==
  /\ Now("epilogue")
  /\ todo' = Tail(todo)
  /\ UNCHANGED hook /\ UNCHANGED coordVars /\ UNCHANGED streamVars

\* independent_gradient_partition_epilogue: the last bucket is reduced behind
\* every gradient kernel, and the host waits for it.
Epilogue ==
  /\ Now("epilogue")
  /\ KernelsDrained
  /\ todo' = Tail(todo)
  /\ UNCHANGED hook /\ UNCHANGED coordVars /\ UNCHANGED streamVars

\* _partition_all_parameters
ReleaseAll ==
  /\ Now("release_all")
  /\ ReleaseAndResetAll
  /\ todo' = Tail(todo)
  /\ UNCHANGED hook

\* update_new_params: the shards change.
UpdateShards ==
  /\ Now("update")
  /\ weights' = weights + 1
  /\ todo' = Tail(todo)
  /\ UNCHANGED hook /\ UNCHANGED coordVars
  /\ UNCHANGED <<transport, dpu, flag, gens, nextSlot, agQ, agPos, cuQ, events, held, mem, pinned, odd>>

Hooks == PreForward \/ UseParams \/ PostForward \/ PreBackward \/ PostBackward \/ FetchParam \/ FetchDone
Start == ConvertParam \/ GatherForHook \/ AddHook
Loop == StepReset \/ Epilogue \/ ReleaseAll \/ UpdateShards

\* Bound: with less than MinFree blocks free the host thread waits for the
\* streams to free some (as the caching allocator does before it fails).
MemoryBound == Cardinality(Block \ held) >= MinFree

Host ==
  /\ Running /\ MemoryBound
  /\ \/ StartIteration
     \/ (Start \/ Hooks \/ Loop) /\ UNCHANGED loopVars

\* The DPU and the streams go on whatever the host thread does.
Device ==
  /\ \/ \E h \in dpu : DpuGather(h)
     \/ AllGatherStream
     \/ ComputeStream
  /\ UNCHANGED coordVars /\ UNCHANGED hookVars /\ UNCHANGED loopVars

Next == Host \/ Device

Spec == Init /\ [][Next]_vars

Fairness ==
  /\ WF_vars(Host)
  /\ WF_vars(Device /\ \E h \in dpu : DpuGather(h))
  /\ WF_vars(Device /\ AllGatherStream)
  /\ WF_vars(Device /\ ComputeStream)

FairSpec == Spec /\ Fairness

-----------------------------------------------------------------------------
\* The gathers under way as ParamLifecycle sees them.
UnderWay == {registry[p].ps : p \in {q \in Params : status[q] = "INFLIGHT"}}

L == INSTANCE ParamLifecycle WITH at <- fetching, gathers <- UnderWay

Kinds == {"convert", "gather", "add_hook", "pre_fwd", "use", "post_fwd", "pre_bwd", "post_bwd", "reset_step", "epilogue", "release_all", "update"}

\* The variables have the types of the data structures they stand for.
TypeOK ==
  /\ transport \in {"flag", "copy", "host", "nccl"} /\ dpu \subseteq Handle
  /\ flag \in [Slot -> Nat] /\ gens \in [Slot -> Nat] /\ nextSlot \in Slot
  /\ agPos \in Nat /\ weights \in Nat
  /\ held \subseteq Block /\ \A b \in Block : mem[b] \in Content
  /\ tr.mode \in {"RECORD", "COMPLETE", "INVALID"} /\ tr.step_id \in Nat
  /\ \A i \in DOMAIN tr.submodule_order : tr.submodule_order[i] \in Mods
  /\ \A i \in DOMAIN tr.queue : tr.queue[i] \in Use
  /\ nAvail \in Int
  /\ registry \in [Params -> Handle]
  /\ status \in [Params -> {"NOT_AVAILABLE", "INFLIGHT", "AVAILABLE"}]
  /\ data \in [Params -> 0 .. NBlocks]
  /\ active \in [Params -> SUBSET Mods]
  /\ cpuFull \subseteq Params /\ \A p \in Params : pinned[p] \in Nat
  /\ odd \subseteq {"reused", "early"}
  /\ fetching \in Mods \cup {NoMod} /\ waiting \subseteq Params
  /\ \A i \in DOMAIN todo : todo[i].ev \in Kinds
  /\ \A m \in Mods : hook[m].calls \in Nat /\ hook[m].refs \in Nat /\ hook[m].gradsLeft \in Int
  /\ iter \in 0 .. Len(schedule)

\* A kernel that runs reads the parameter it was queued for, gathered from
\* this iteration's shards: neither a buffer the DPU has not filled, nor one
\* given to another parameter, nor the weights of an earlier iteration.  This
\* as long as none of the two unordered accesses of the code has happened: a
\* block given out again before it has been copied from, a parameter loaded
\* from host memory before it has been saved there.
KernelDataCorrect ==
  (odd = {} /\ cuQ # <<>> /\ Head(cuQ).op = "kernel") =>
     LET k == Head(cuQ) IN k.p \in mem[k.src].ps /\ mem[k.src].ver = k.n

\* "Keep the buffer alive until the current stream is done with it", says the
\* comment above record_stream in wait(): no gather under way writes to a
\* buffer that a queued copy is still to take another parameter from.
BufferKeptUntilCopied ==
  \A h \in dpu, i \in DOMAIN agQ : agQ[i].op = "cat" /\ agQ[i].src = h.out => agQ[i].p \in h.ps

\* The generation a stream or a parameter in flight will wait for is still to be
\* written or is the one in the slot: the wait, for equality, cannot be missed
\* because the slot came round again.
FlagNotOvertaken ==
  flagPool =>
    /\ \A i \in DOMAIN agQ : agQ[i].op = "wait_flag" => flag[agQ[i].src] <= agQ[i].n
    /\ \A p \in Params : status[p] = "INFLIGHT" /\ ~ FromHost(registry[p]) => flag[registry[p].slot] <= registry[p].gen

\* A parameter is in flight exactly when the registry has a handle for it that
\* nobody has waited for; a partitioned one is not in the registry and owns no
\* memory, and an available one owns a block nobody else has.
RegistrySound ==
  \A p \in Params :
    /\ status[p] = "INFLIGHT" => InRegistry(p) /\ p \in registry[p].ps
    /\ status[p] = "NOT_AVAILABLE" => ~ InRegistry(p) /\ data[p] = NoBlock
    /\ status[p] = "AVAILABLE" => data[p] \in held /\ \A q \in Params \ {p} : data[q] # data[p]

\* No release takes a parameter from a submodule that is still using it: what a
\* submodule has taken in fetch_sub_module stays available until it leaves.
ActiveAvailable == L!ActiveAvailable

\* As long as every iteration runs the same set of submodules, in whatever
\* order, no RuntimeError or assertion of the coordinator is raised.
FaultOnlyIfModelChanged ==
  err # "none" => \E i, j \in DOMAIN schedule : ModsOf(schedule[i]) # ModsOf(schedule[j])

\* A submodule called twice in a pass: the second call starts its count of
\* gradients again, so the backward pass of the first releases nothing.
CalledTwice(m) ==
  \E k \in DOMAIN schedule : \E i, j \in DOMAIN schedule[k] :
    i # j /\ schedule[k][i] = Event("pre_fwd", m) /\ schedule[k][j] = Event("pre_fwd", m)

\* Parameters of the submodules that keep them after the backward pass.
Leftover == UNION {ParamsOf[m] : m \in {n \in Mods : n \in NoGradIn \/ CalledTwice(n)}}

\* __n_available_params counts the gathered parameters, short by at most those
\* reset_step found still gathered when it set the counter to zero.
LiveAccounted ==
  LET live == NumelOf({p \in Params : status[p] # "NOT_AVAILABLE"})
  IN  iter > 0 /\ err = "none" => live - nAvail \in 0 .. NumelOf(Leftover)

\* The shards only change when no gather that reads them is under way.
UpdateWhenIdle == [][weights' # weights => dpu = {} /\ \A p \in Params : status[p] = "NOT_AVAILABLE"]_vars

\* The coordinator, whatever its trace says, and the streams implement the life
\* of the parameters in the baseline; an exception ends it.
ImplementsLifecycle == L!Init /\ [][err' = "none" => L!Next]_(L!vars)

Drained == dpu = {} /\ agQ = <<>> /\ cuQ = <<>>

\* The host ends the training loop unless it raises an error, and whatever it
\* has queued is executed: no stream waits for ever for a flag, no fetch waits
\* for ever for an event.
TrainingEnds == <>[]((err # "none" \/ (iter = Len(schedule) /\ todo = <<>>)) /\ Drained)
=============================================================================
