---------------------------- MODULE ParamLifecycle ----------------------------
(***************************************************************************)
(* What becomes of the parameters of a rank, whatever gathers them and       *)
(* whatever the trace of the coordinator says: the part of the baseline      *)
(* (baseline/partitioned_param_coordinator.py, parameter_offload.py,         *)
(* partition_parameters.py) that a user of the parameters depends on.        *)
(* Which parameters are prefetched and which of the unused ones are released *)
(* is left open.  ParamGather, with the trace, the streams, NCCL or the DPU, *)
(* implements it.                                                           *)
(***************************************************************************)
EXTENDS Integers

CONSTANTS
  Params,   \* the parameters
  Mods,     \* the submodules
  ParamsOf  \* the parameters of each

LifecycleAssumption == ParamsOf \in [Mods -> SUBSET Params]

VARIABLES
  status,   \* param.ds_status
  active,   \* param.ds_active_sub_modules
  gathers,  \* the sets of parameters gathered together and not waited for
  at,       \* the submodule in fetch_sub_module, or NoMod
  weights   \* version of the shards

vars == <<status, active, gathers, at, weights>>

NoMod == "no module"

\* The model before Init(module) partitions it.
Init ==
  /\ status = [p \in Params |-> "AVAILABLE"]
  /\ active = [p \in Params |-> {}]
  /\ gathers = {}
  /\ at = NoMod
  /\ weights = 1

WithStatus(S, s) == [p \in Params |-> IF p \in S THEN s ELSE status[p]]
NotAvailable(S) == {p \in S : status[p] = "NOT_AVAILABLE"}

\* __all_gather_params and all_gather_coalesced: the parameters of S that are
\* not available are gathered together.
Gather(S) ==
  /\ gathers' = gathers \cup ({NotAvailable(S)} \ {{}})
  /\ status' = WithStatus(NotAvailable(S), "INFLIGHT")

\* The parameters R are released to their shards.
Partition(R, act) ==
  /\ \A p \in R : status[p] = "AVAILABLE" /\ act[p] = {}
  /\ status' = WithStatus(R, "NOT_AVAILABLE")

\* partition(), of the conversion of the model and of the gradient hooks.
PartitionParam(p) ==
  /\ at = NoMod
  /\ Partition({p}, active)
  /\ UNCHANGED <<active, gathers, at, weights>>

\* all_gather(), which returns when the parameter is there.
AllGather(p) ==
  /\ at = NoMod /\ status[p] = "NOT_AVAILABLE"
  /\ status' = WithStatus({p}, "AVAILABLE")
  /\ UNCHANGED <<active, gathers, at, weights>>

\* The hook before the forward or the backward pass of m.
Fetch(m) ==
  /\ at = NoMod
  /\ at' = m
  /\ Gather(ParamsOf[m])
  /\ UNCHANGED <<active, weights>>

\* The wait loop: p with whatever was gathered with it.
Take(p) ==
  /\ at # NoMod /\ p \in ParamsOf[at]
  /\ LET S == UNION {T \in gathers : p \in T} IN
       /\ status' = WithStatus(S, "AVAILABLE")
       /\ gathers' = {T \in gathers : p \notin T}
  /\ active' = [active EXCEPT ![p] = @ \cup {at}]
  /\ UNCHANGED <<at, weights>>

\* The end of fetch_sub_module, with a prefetch of S.
Fetched(S) ==
  /\ at # NoMod /\ \A p \in ParamsOf[at] : at \in active[p]
  /\ at' = NoMod
  /\ Gather(S)
  /\ UNCHANGED <<active, weights>>

\* The hook after the forward or the backward pass of m: R is released.
Leave(m, R) ==
  /\ at = NoMod
  /\ active' = [p \in Params |-> IF p \in ParamsOf[m] THEN active[p] \ {m} ELSE active[p]]
  /\ Partition(R, active')
  /\ UNCHANGED <<gathers, at, weights>>

\* release_and_reset_all
ReleaseAll ==
  /\ at = NoMod /\ gathers = {}
  /\ active' = [p \in Params |-> {}]
  /\ status' = [p \in Params |-> "NOT_AVAILABLE"]
  /\ UNCHANGED <<gathers, at, weights>>

\* The optimizer changes the shards.
Update ==
  /\ \A p \in Params : status[p] = "NOT_AVAILABLE"
  /\ weights' = weights + 1
  /\ UNCHANGED <<status, active, gathers, at>>

Next ==
  \/ ReleaseAll \/ Update
  \/ \E p \in Params : PartitionParam(p) \/ AllGather(p) \/ Take(p)
  \/ \E m \in Mods : Fetch(m)
  \/ \E S \in SUBSET Params : Fetched(S)
  \/ \E m \in Mods, R \in SUBSET Params : Leave(m, R)

Spec == Init /\ [][Next]_vars

-----------------------------------------------------------------------------
TypeOK ==
  /\ status \in [Params -> {"NOT_AVAILABLE", "INFLIGHT", "AVAILABLE"}]
  /\ active \in [Params -> SUBSET Mods]
  /\ gathers \subseteq SUBSET Params
  /\ at \in Mods \cup {NoMod}
  /\ weights \in Nat

\* No release takes a parameter from a submodule that uses it (__release_param).
ActiveAvailable == \A p \in Params : active[p] # {} => status[p] = "AVAILABLE"

\* A parameter is in flight exactly when one gather, and only one, is bringing
\* it (__inflight_param_registry).
InFlightOnce ==
  \A p \in Params :
    /\ status[p] = "INFLIGHT" <=> \E S \in gathers : p \in S
    /\ \A S, T \in gathers : p \in S /\ p \in T => S = T

\* The shards change when no gather reads them and no gathered copy of them is
\* left to become stale (update_new_params).
UpdateWhenIdle ==
  [][weights' # weights => gathers = {} /\ \A p \in Params : status[p] = "NOT_AVAILABLE"]_vars
=============================================================================
