--------------------------- MODULE ParamCoordinator ---------------------------
(***************************************************************************)
(* PartitionedParameterCoordinator of one rank                             *)
(* (smartnic_offload/partitioned_param_coordinator.py): when the           *)
(* parameters of a submodule are gathered, prefetched and released.        *)
(*                                                                         *)
(* The trace structures are one record, tr, with the names of the code.    *)
(* A fetch of a submodule is three host steps, so that the DPU and the     *)
(* streams of GatherStreams run in between: BeginFetch kicks the gathers   *)
(* off, WaitParam takes one parameter of the frozenset at a time, EndFetch *)
(* joins the streams and prefetches.  An exception leaves err set and      *)
(* stops the host thread.                                                  *)
(***************************************************************************)
EXTENDS GatherStreams, SequencesExt

CONSTANTS
  Mods,            \* the submodules
  ParamsOf,        \* their own parameters (iter_params, recurse=False)
  Numel,           \* ds_numel of a parameter
  PrefetchBucket,  \* __prefetch_bucket_sz
  MaxLive,         \* __max_n_available_params
  MaxReuse         \* __max_reuse_dist_in_numel

ASSUME CoordinatorAssumption ==
  /\ ParamsOf \in [Mods -> SUBSET Params] /\ Numel \in [Params -> Nat \ {0}]
  /\ PrefetchBucket \in Nat /\ MaxLive \in Nat /\ MaxReuse \in Nat
  /\ "no module" \notin Mods

VARIABLES
  tr,        \* the trace: mode, orders, queue, step id
  nAvail,    \* __n_available_params
  registry,  \* __inflight_param_registry
  status,    \* param.ds_status
  data,      \* block of param.data
  active,    \* param.ds_active_sub_modules
  fetching,  \* submodule in fetch_sub_module, or NoMod
  waiting,   \* its parameters the loop has not come to
  cpuFull,   \* parameters whose cpu_full_param is not None
  err        \* exception raised, or "none"

coordVars == <<tr, nAvail, registry, status, data, active, fetching, waiting, cpuFull, err>>

NoMod == "no module"
Never == -1000     \* stands for int(-1e10)
Use == [p : Params, step : Nat]   \* __ParamInTrace

EmptyTrace == [mode |-> "RECORD", submodule_order |-> <<>>, param_order |-> <<>>,
               recent |-> [p \in Params |-> Never], fetched_for |-> [m \in Mods |-> <<>>],
               queue |-> <<>>, step_id |-> 0]

CoordinatorInit ==
  /\ tr = EmptyTrace
  /\ nAvail = 0
  /\ registry = [p \in Params |-> NoHandle]
  /\ status = [p \in Params |-> "AVAILABLE"]
  /\ data = ModelBlock
  /\ active = [p \in Params |-> {}]
  /\ fetching = NoMod /\ waiting = {}
  /\ cpuFull = {}
  /\ err = "none"

Complete == tr.mode = "COMPLETE"
InRegistry(p) == registry[p] # NoHandle
NumelOf(S) == SumFunctionOnSet(Numel, S)

Raise(e) ==
  /\ err' = e
  /\ UNCHANGED <<tr, nAvail, registry, status, data, active, fetching, waiting, cpuFull>>
  /\ UNCHANGED streamVars

-----------------------------------------------------------------------------
(* The trace *)

\* _invalidate_trace
Invalidated(t) ==
  [t EXCEPT !.mode = "INVALID", !.submodule_order = <<>>, !.param_order = <<>>,
            !.recent = [p \in Params |-> Never], !.queue = <<>>]

\* trace_prologue: a submodule the trace does not expect invalidates it.
Prologue(t, m) ==
  IF t.mode = "COMPLETE" /\ t.submodule_order[t.step_id + 1] # m THEN Invalidated(t) ELSE t

\* record_module
Recorded(t, m) ==
  IF t.mode # "RECORD" THEN t
  ELSE [t EXCEPT !.submodule_order = Append(@, m), !.fetched_for[m] = Append(@, t.step_id)]

\* record_parameters of the i-th submodule of the trace: its parameters in the
\* order of ds_id, with the step it was fetched at.
UsesAt(t, i) ==
  LET m == t.submodule_order[i]
      nth == Cardinality({j \in 1 .. i : t.submodule_order[j] = m})
      ps == Ascending(ParamsOf[m])
  IN  [k \in DOMAIN ps |-> [p |-> ps[k], step |-> t.fetched_for[m][nth]]]

\* construct_parameter_trace_from_module_trace
ParamTrace(t) ==
  FlattenSeq([i \in DOMAIN t.submodule_order |-> UsesAt(t, i)])

\* What reset_step makes of the trace: a recorded one is complete, an invalid
\* one is recorded again, and the prefetch queue is the whole trace.
NextTrace(t) ==
  LET order == IF t.mode = "RECORD" THEN ParamTrace(t) ELSE t.param_order
  IN  [mode |-> IF t.mode = "INVALID" THEN "RECORD" ELSE "COMPLETE",
       submodule_order |-> t.submodule_order, param_order |-> order,
       recent |-> [p \in Params |-> Never], fetched_for |-> [m \in Mods |-> <<>>],
       queue |-> order, step_id |-> 0]

ResetStep ==
  IF \E p \in Params : InRegistry(p)
  THEN Raise("still have inflight params")
  ELSE /\ tr' = NextTrace(tr)
       /\ nAvail' = 0
       /\ UNCHANGED <<registry, status, data, active, fetching, waiting, cpuFull, err>>
       /\ UNCHANGED streamVars

-----------------------------------------------------------------------------
(* Fetching *)

NotAvailable(S) == {p \in S : status[p] = "NOT_AVAILABLE"}

\* The handle of a gather from host memory (CPUAllGatherCoalescedHandle).
HostHandle(ps) == [ps |-> ps, out |-> NoBlock, slot |-> 0, gen |-> NoFlag]

\* __all_gather_params: one gather for those of S that are not available, from
\* host memory if all of them are there.
AllGatherParams(S) ==
  LET ps == NotAvailable(S)
      h == IF ps \subseteq cpuFull THEN HostHandle(ps) ELSE NewHandle(ps)
  IN  IF ps = {}
      THEN UNCHANGED <<nAvail, registry, status, gens, nextSlot, held, dpu, odd>>
      ELSE /\ IF FromHost(h) THEN UNCHANGED <<gens, nextSlot, held, dpu, odd>> ELSE EnqueueGather(h)
           /\ registry' = [p \in Params |-> IF p \in ps THEN h ELSE registry[p]]
           /\ status' = [p \in Params |-> IF p \in ps THEN "INFLIGHT" ELSE status[p]]
           /\ nAvail' = nAvail + NumelOf(ps)

\* pre_sub_module_*_function up to the wait loop of fetch_sub_module.
BeginFetch(m) ==
  IF Complete /\ tr.step_id >= Len(tr.submodule_order)
  THEN Raise("IndexError")
  ELSE /\ tr' = Recorded(Prologue(tr, m), m)
       /\ AllGatherParams(ParamsOf[m])
       /\ fetching' = m /\ waiting' = ParamsOf[m]
       /\ UNCHANGED <<data, active, cpuFull, err>>
       /\ UNCHANGED <<transport, flag, agQ, agPos, cuQ, events, mem, weights, pinned>>

\* One round of the wait loop.  A handle is waited for once, for all its
\* parameters; the others only leave the registry.
WaitRound(p) ==
  /\ waiting' = waiting \ {p}
  /\ active' = [active EXCEPT ![p] = @ \cup {fetching}]
  /\ IF InRegistry(p)
     THEN LET h == registry[p] IN
       /\ registry' = [registry EXCEPT ![p] = NoHandle]
       /\ IF status[p] = "INFLIGHT"
          THEN /\ QueueWait(h)
               /\ status' = [q \in Params |-> IF q \in h.ps THEN "AVAILABLE" ELSE status[q]]
               /\ data' = [q \in Params |-> IF q \in h.ps THEN DataBlock(h, q) ELSE data[q]]
          ELSE QueueNoWait /\ UNCHANGED <<status, data>>
     ELSE UNCHANGED <<registry, status, data, agQ, held, events, odd>>
  /\ err' = IF status'[p] = "AVAILABLE" THEN err ELSE "expected available"
  /\ UNCHANGED <<tr, nAvail, fetching, cpuFull>>
  /\ UNCHANGED <<transport, dpu, flag, gens, nextSlot, agPos, cuQ, mem, weights, pinned>>

\* A copy that was in host memory when the gather was asked for is gone.
CopyMissing(p) ==
  status[p] = "INFLIGHT" /\ InRegistry(p) /\ FromHost(registry[p]) /\ ~ registry[p].ps \subseteq cpuFull

WaitParam(p) ==
  /\ p \in waiting /\ LoadsDone
  /\ InRegistry(p) => MayQueueFetch /\ HostMayPass(registry[p])
  /\ IF CopyMissing(p) THEN Raise("cpu_full_param is None") ELSE WaitRound(p)

\* Position in the queue q where the uses up to there add up to enough, or
\* its end.
Shortest(q, from, Enough(_)) ==
  CHOOSE k \in from .. Len(q) :
    /\ Enough(k) \/ k = Len(q)
    /\ \A j \in from .. k - 1 : ~ Enough(j)

ParamsIn(q, i, j) == {q[k].p : k \in i .. j}

\* Parameters of m whose use at this step no prefetch has gone past.
NotFetched(m) == {p \in ParamsOf[m] : tr.recent[p] < tr.step_id}

\* The uses taken off the queue for m itself end at this position ...
Discarded(m) ==
  Shortest(tr.queue, 0,
           LAMBDA k : Cardinality(ParamsIn(tr.queue, 1, k)) >= Cardinality(NotFetched(m)))

PrefetchRoom == Min({MaxLive - nAvail, PrefetchBucket})

\* ... and the ones scanned for the prefetch at this one.
Scanned(m) ==
  IF PrefetchBucket = 0 THEN Discarded(m)
  ELSE Shortest(tr.queue, Discarded(m),
         LAMBDA k : NumelOf(NotAvailable(ParamsIn(tr.queue, Discarded(m) + 1, k))) >= PrefetchRoom)

\* most_recent_step_id_param_fetched_for after both.
RecentAfter(m) ==
  LET steps(p, i, j) == {tr.queue[k].step : k \in {l \in i .. j : tr.queue[l].p = p}}
      d == Discarded(m)
      e == Scanned(m)
      used(p) == LET S == steps(p, 1, d) IN IF S = {} THEN tr.recent[p] ELSE Max(S)
  IN  [p \in Params |-> Max({used(p)} \cup steps(p, d + 1, e))]

\* The end of fetch_sub_module: wait_stream, then the prefetch if the trace is
\* complete.
EndFetch ==
  /\ fetching # NoMod /\ waiting = {} /\ LoadsDone
  /\ IF Complete /\ ParamsIn(tr.queue, 1, Discarded(fetching)) # NotFetched(fetching)
     THEN Raise("tracing error")
     ELSE /\ cuQ' = cuQ \o JoinOps
          /\ IF Complete
             THEN /\ tr' = [tr EXCEPT !.step_id = @ + 1, !.recent = RecentAfter(fetching),
                              !.queue = SubSeq(@, Scanned(fetching) + 1, Len(@))]
                  /\ AllGatherParams(ParamsIn(tr.queue, Discarded(fetching) + 1, Scanned(fetching)))
             ELSE tr' = [tr EXCEPT !.step_id = @ + 1] /\ AllGatherParams({})
          /\ fetching' = NoMod
          /\ UNCHANGED <<data, active, waiting, cpuFull, err>>
          /\ UNCHANGED <<transport, flag, agQ, agPos, events, mem, weights, pinned>>

-----------------------------------------------------------------------------
(* Releasing *)

\* Parameters of the submodules that follow within MaxReuse elements.
ReusedSoon ==
  LET order == tr.submodule_order
      before(i) == MapThenSumSet(LAMBDA j : NumelOf(ParamsOf[order[j]]), tr.step_id + 1 .. i - 1)
  IN  UNION {ParamsOf[order[i]] : i \in {j \in tr.step_id + 1 .. Len(order) : before(j) < MaxReuse}}

\* __params_to_release, or every parameter while there is no complete trace.
ParamsToRelease(m) ==
  IF Complete THEN {p \in ParamsOf[m] : tr.recent[p] <= tr.step_id} \ ReusedSoon ELSE ParamsOf[m]

\* Mutant: __release_param forgets who else is using the parameter.
ReleasableAnyway(ps, act) == {p \in ps : status[p] = "AVAILABLE"}

\* __release_param acts on the available ones no submodule is using.
Releasable(ps, act) == {p \in ps : status[p] = "AVAILABLE" /\ act[p] = {}}

\* _partition_param with a shard that is up to date: free_param, NOT_AVAILABLE.
\* ops is what the caller has queued on the compute stream before.
PartitionParams(ps, ops) ==
  /\ Free({data[p] : p \in ps}, ops)
  /\ status' = [p \in Params |-> IF p \in ps THEN "NOT_AVAILABLE" ELSE status[p]]
  /\ data' = [p \in Params |-> IF p \in ps THEN NoBlock ELSE data[p]]

\* Mutant: the released parameters go on being counted as available.
PartitionUncounted(ps, ops) == PartitionParams(ps, ops) /\ UNCHANGED nAvail

\* What __release_param does with the parameters ps it may release.
Partition(ps, ops) == PartitionParams(ps, ops) /\ nAvail' = nAvail - NumelOf(ps)

\* release_sub_module
ReleaseSubModule(m, ops) ==
  /\ active' = [p \in Params |-> IF p \in ParamsOf[m] THEN active[p] \ {m} ELSE active[p]]
  /\ Partition(Releasable(ParamsToRelease(m), active'), ops)
  /\ UNCHANGED <<tr, registry, fetching, waiting, err>>
  /\ UNCHANGED <<transport, dpu, flag, gens, nextSlot, agQ, agPos, events, mem, weights, pinned, odd>>

\* Mutant: the parameters are released before the submodules forget them.
ReleaseAndResetAllSwapped ==
  /\ active' = [p \in Params |-> {}]
  /\ Partition(Releasable(Params, active), <<>>)
  /\ cpuFull' = {}
  /\ UNCHANGED <<tr, registry, fetching, waiting, err>>
  /\ UNCHANGED <<transport, dpu, flag, gens, nextSlot, agQ, agPos, events, mem, weights, pinned, odd>>

\* release_and_reset_all
ReleaseAndResetAll ==
  IF \E p \in Params : InRegistry(p)
  THEN Raise("still in flight")
  ELSE /\ active' = [p \in Params |-> {}]
       /\ Partition(Releasable(Params, active'), <<>>)
       /\ cpuFull' = {}
       /\ UNCHANGED <<tr, registry, fetching, waiting, err>>
       /\ UNCHANGED <<transport, dpu, flag, gens, nextSlot, agQ, agPos, events, mem, weights, pinned, odd>>
=============================================================================
