------------------------- MODULE ParamLifecycleProofs -------------------------
(***************************************************************************)
(* Proofs about the life of the parameters, for any model, any prefetch and *)
(* any choice of what is released.  The inductive invariant adds to the      *)
(* properties that nothing empty is gathered, and that what a submodule is   *)
(* fetching is not given back while it fetches.                              *)
(***************************************************************************)
EXTENDS ParamLifecycle, TLAPS

NoEmptyGather == {} \notin gathers
FetchedStays == at # NoMod => \A p \in ParamsOf[at] : status[p] # "NOT_AVAILABLE"

Inv == TypeOK /\ ActiveAvailable /\ InFlightOnce /\ NoEmptyGather /\ FetchedStays

-----------------------------------------------------------------------------
\* Gathering what is not available makes every one of S wait for exactly one
\* gather, and changes no other parameter (__all_gather_params).
LEMMA GatherOnce ==
  ASSUME Inv, NEW S \in SUBSET Params, Gather(S)
  PROVE  /\ status' \in [Params -> {"NOT_AVAILABLE", "INFLIGHT", "AVAILABLE"}]
         /\ gathers' \subseteq SUBSET Params
         /\ InFlightOnce' /\ NoEmptyGather'
         /\ \A p \in S : status'[p] # "NOT_AVAILABLE"
         /\ \A p \in Params : status[p] # "NOT_AVAILABLE" => status'[p] = status[p]
<1> DEFINE N == NotAvailable(S)
<1>1. N \in SUBSET Params /\ \A p \in N : status[p] = "NOT_AVAILABLE"
  BY DEF NotAvailable
<1>2. status' = [p \in Params |-> IF p \in N THEN "INFLIGHT" ELSE status[p]]
  BY DEF Gather, WithStatus
<1>3. gathers' = gathers \cup ({N} \ {{}})
  BY DEF Gather
<1>4. \A p \in S : p \notin N => status[p] # "NOT_AVAILABLE"
  BY DEF NotAvailable
<1>5. \A T \in gathers : T \cap N = {}
  <2> SUFFICES ASSUME NEW T \in gathers, NEW p \in T, p \in N PROVE FALSE
    OBVIOUS
  <2>1. p \in Params /\ status[p] = "NOT_AVAILABLE"
    BY <1>1
  <2>2. status[p] = "INFLIGHT"
    BY <2>1 DEF Inv, InFlightOnce
  <2> QED BY <2>1, <2>2
<1> HIDE DEF N
<1>6. InFlightOnce'
  <2> SUFFICES ASSUME NEW p \in Params
               PROVE  /\ status'[p] = "INFLIGHT" <=> \E T \in gathers' : p \in T
                      /\ \A T, U \in gathers' : p \in T /\ p \in U => T = U
    BY DEF InFlightOnce
  <2>1. /\ status[p] = "INFLIGHT" <=> \E T \in gathers : p \in T
        /\ \A T, U \in gathers : p \in T /\ p \in U => T = U
    BY DEF Inv, InFlightOnce
  <2>2. CASE p \in N
    <3>1. N \in gathers' /\ status'[p] = "INFLIGHT"
      BY <1>2, <1>3, <2>2
    <3>2. \A T \in gathers' : p \in T => T = N
      BY <1>3, <1>5, <2>2
    <3> QED BY <3>1, <3>2, <2>2
  <2>3. CASE p \notin N
    <3>1. status'[p] = status[p]
      BY <1>2, <2>3
    <3>2. \A T : (T \in gathers' /\ p \in T) <=> (T \in gathers /\ p \in T)
      BY <1>3, <2>3
    <3> QED BY <2>1, <3>1, <3>2
  <2> QED BY <2>2, <2>3
<1>7. NoEmptyGather'
  BY <1>3 DEF Inv, NoEmptyGather
<1>8. gathers' \subseteq SUBSET Params
  BY <1>1, <1>3 DEF Inv, TypeOK
<1>9. status' \in [Params -> {"NOT_AVAILABLE", "INFLIGHT", "AVAILABLE"}]
  BY <1>2 DEF Inv, TypeOK
<1>10. \A p \in S : status'[p] # "NOT_AVAILABLE"
  BY <1>2, <1>4
<1>11. \A p \in Params : status[p] # "NOT_AVAILABLE" => status'[p] = status[p]
  BY <1>1, <1>2
<1> QED BY <1>6, <1>7, <1>8, <1>9, <1>10, <1>11

\* Releasing takes only what is available and nobody uses (__release_param).
LEMMA PartitionUnused ==
  ASSUME Inv, NEW R \in SUBSET Params, NEW act \in [Params -> SUBSET Mods],
         \A p \in Params : act[p] \subseteq active[p],
         Partition(R, act), UNCHANGED gathers
  PROVE  /\ status' \in [Params -> {"NOT_AVAILABLE", "INFLIGHT", "AVAILABLE"}]
         /\ InFlightOnce'
         /\ \A p \in Params : act[p] # {} => status'[p] = "AVAILABLE"
<1>1. status' = [p \in Params |-> IF p \in R THEN "NOT_AVAILABLE" ELSE status[p]]
  BY DEF Partition, WithStatus
<1>2. \A p \in R : status[p] = "AVAILABLE" /\ act[p] = {}
  BY DEF Partition
<1>3. \A p \in Params : status'[p] = "INFLIGHT" <=> status[p] = "INFLIGHT"
  BY <1>1, <1>2
<1>4. InFlightOnce'
  BY <1>3 DEF Inv, InFlightOnce
<1>5. status' \in [Params -> {"NOT_AVAILABLE", "INFLIGHT", "AVAILABLE"}]
  BY <1>1 DEF Inv, TypeOK
<1>6. \A p \in Params : act[p] # {} => status'[p] = "AVAILABLE"
  BY <1>1, <1>2 DEF Inv, ActiveAvailable
<1> QED BY <1>4, <1>5, <1>6

-----------------------------------------------------------------------------
\* The model before it is partitioned satisfies the invariant.
LEMMA InitInv == Init => Inv
BY DEF Init, Inv, TypeOK, ActiveAvailable, InFlightOnce, NoEmptyGather, FetchedStays

\* Every hook, gather, release and update preserves it.
LEMMA StepInv ==
  ASSUME LifecycleAssumption, Inv, [Next]_vars
  PROVE  Inv'
<1> USE DEF LifecycleAssumption
<1>1. CASE ReleaseAll
  <2>1. status' = [p \in Params |-> "NOT_AVAILABLE"] /\ active' = [p \in Params |-> {}]
    BY <1>1 DEF ReleaseAll
  <2>2. gathers = {} /\ gathers' = {} /\ at' = NoMod /\ weights' = weights
    BY <1>1 DEF ReleaseAll
  <2> QED BY <2>1, <2>2 DEF Inv, TypeOK, ActiveAvailable, InFlightOnce, NoEmptyGather, FetchedStays
<1>2. CASE Update
  BY <1>2 DEF Update, Inv, TypeOK, ActiveAvailable, InFlightOnce, NoEmptyGather, FetchedStays
<1>3. ASSUME NEW p \in Params, PartitionParam(p) PROVE Inv'
  <2>1. UNCHANGED <<active, gathers, at, weights>> /\ at = NoMod /\ Partition({p}, active)
    BY <1>3 DEF PartitionParam
  <2>2. active \in [Params -> SUBSET Mods]
    BY DEF Inv, TypeOK
  <2>3. /\ status' \in [Params -> {"NOT_AVAILABLE", "INFLIGHT", "AVAILABLE"}]
        /\ InFlightOnce'
        /\ \A q \in Params : active[q] # {} => status'[q] = "AVAILABLE"
    BY <2>1, <2>2, PartitionUnused
  <2> QED BY <2>1, <2>3 DEF Inv, TypeOK, ActiveAvailable, NoEmptyGather, FetchedStays
<1>4. ASSUME NEW p \in Params, AllGather(p) PROVE Inv'
  <2>1. UNCHANGED <<active, gathers, at, weights>> /\ at = NoMod /\ status[p] = "NOT_AVAILABLE"
    BY <1>4 DEF AllGather
  <2>2. status' = [q \in Params |-> IF q = p THEN "AVAILABLE" ELSE status[q]]
    BY <1>4 DEF AllGather, WithStatus
  <2>3. \A q \in Params : status'[q] = "INFLIGHT" <=> status[q] = "INFLIGHT"
    BY <2>1, <2>2
  <2>4. InFlightOnce'
    BY <2>1, <2>3 DEF Inv, InFlightOnce
  <2> QED BY <2>1, <2>2, <2>4 DEF Inv, TypeOK, ActiveAvailable, NoEmptyGather, FetchedStays
<1>5. ASSUME NEW p \in Params, Take(p) PROVE Inv'
  <2> DEFINE S == UNION {T \in gathers : p \in T}
  <2>1. at # NoMod /\ at \in Mods /\ p \in ParamsOf[at]
    BY <1>5 DEF Take, Inv, TypeOK
  <2>2. status' = [q \in Params |-> IF q \in S THEN "AVAILABLE" ELSE status[q]]
    BY <1>5 DEF Take, WithStatus
  <2>3. gathers' = {T \in gathers : p \notin T}
    BY <1>5 DEF Take
  <2>4. active' = [active EXCEPT ![p] = @ \cup {at}] /\ UNCHANGED <<at, weights>>
    BY <1>5 DEF Take
  <2>5. \A q \in S : status[q] = "INFLIGHT"
    BY DEF Inv, InFlightOnce, TypeOK
  <2>6. status[p] = "INFLIGHT" => p \in S
    BY DEF Inv, InFlightOnce
  <2>7. \A T \in gathers : p \notin T => T \cap S = {}
    BY DEF Inv, InFlightOnce, TypeOK
  <2>8. \A T \in gathers : p \in T => T \subseteq S
    OBVIOUS
  <2> HIDE DEF S
  <2>9. InFlightOnce'
    <3> SUFFICES ASSUME NEW q \in Params
                 PROVE  /\ status'[q] = "INFLIGHT" <=> \E T \in gathers' : q \in T
                        /\ \A T, U \in gathers' : q \in T /\ q \in U => T = U
      BY DEF InFlightOnce
    <3>1. /\ status[q] = "INFLIGHT" <=> \E T \in gathers : q \in T
          /\ \A T, U \in gathers : q \in T /\ q \in U => T = U
      BY DEF Inv, InFlightOnce
    <3>2. (\E T \in gathers' : q \in T) <=> (\E T \in gathers : q \in T) /\ q \notin S
      BY <2>3, <2>7, <2>8
    <3>3. status'[q] = "INFLIGHT" <=> status[q] = "INFLIGHT" /\ q \notin S
      BY <2>2
    <3> QED BY <2>3, <3>1, <3>2, <3>3
  <2>10. TypeOK'
    BY <2>1, <2>2, <2>3, <2>4 DEF Inv, TypeOK
  <2>11. ActiveAvailable'
    <3> SUFFICES ASSUME NEW q \in Params, active'[q] # {} PROVE status'[q] = "AVAILABLE"
      BY DEF ActiveAvailable
    <3>1. CASE q = p
      BY <2>1, <2>2, <2>6, <3>1 DEF Inv, FetchedStays, TypeOK
    <3>2. CASE q # p
      BY <2>2, <2>4, <3>2 DEF Inv, ActiveAvailable, TypeOK
    <3> QED BY <3>1, <3>2
  <2>12. FetchedStays'
    BY <2>1, <2>2, <2>4 DEF Inv, FetchedStays
  <2> QED BY <2>3, <2>9, <2>10, <2>11, <2>12 DEF Inv, NoEmptyGather
<1>6. ASSUME NEW m \in Mods, Fetch(m) PROVE Inv'
  <2>1. at' = m /\ Gather(ParamsOf[m]) /\ UNCHANGED <<active, weights>>
    BY <1>6 DEF Fetch
  <2>2. ParamsOf[m] \in SUBSET Params
    OBVIOUS
  <2>3. /\ status' \in [Params -> {"NOT_AVAILABLE", "INFLIGHT", "AVAILABLE"}]
        /\ gathers' \subseteq SUBSET Params
        /\ InFlightOnce' /\ NoEmptyGather'
        /\ \A p \in ParamsOf[m] : status'[p] # "NOT_AVAILABLE"
        /\ \A p \in Params : status[p] # "NOT_AVAILABLE" => status'[p] = status[p]
    BY <2>1, <2>2, GatherOnce
  <2> QED BY <2>1, <2>3 DEF Inv, TypeOK, ActiveAvailable, FetchedStays
<1>7. ASSUME NEW S \in SUBSET Params, Fetched(S) PROVE Inv'
  <2>1. at' = NoMod /\ Gather(S) /\ UNCHANGED <<active, weights>>
    BY <1>7 DEF Fetched
  <2>2. /\ status' \in [Params -> {"NOT_AVAILABLE", "INFLIGHT", "AVAILABLE"}]
        /\ gathers' \subseteq SUBSET Params
        /\ InFlightOnce' /\ NoEmptyGather'
        /\ \A p \in Params : status[p] # "NOT_AVAILABLE" => status'[p] = status[p]
    BY <2>1, GatherOnce
  <2> QED BY <2>1, <2>2 DEF Inv, TypeOK, ActiveAvailable, FetchedStays
<1>8. ASSUME NEW m \in Mods, NEW R \in SUBSET Params, Leave(m, R) PROVE Inv'
  <2>1. active' = [p \in Params |-> IF p \in ParamsOf[m] THEN active[p] \ {m} ELSE active[p]]
    BY <1>8 DEF Leave
  <2>2. Partition(R, active') /\ UNCHANGED <<gathers, at, weights>> /\ at = NoMod
    BY <1>8 DEF Leave
  <2>3. active' \in [Params -> SUBSET Mods] /\ \A p \in Params : active'[p] \subseteq active[p]
    BY <2>1 DEF Inv, TypeOK
  <2>4. /\ status' \in [Params -> {"NOT_AVAILABLE", "INFLIGHT", "AVAILABLE"}]
        /\ InFlightOnce'
        /\ \A p \in Params : active'[p] # {} => status'[p] = "AVAILABLE"
    BY <2>2, <2>3, PartitionUnused
  <2> QED BY <2>2, <2>3, <2>4 DEF Inv, TypeOK, ActiveAvailable, NoEmptyGather, FetchedStays
<1>9. CASE UNCHANGED vars
  BY <1>9 DEF vars, Inv, TypeOK, ActiveAvailable, InFlightOnce, NoEmptyGather, FetchedStays
<1> QED BY <1>1, <1>2, <1>3, <1>4, <1>5, <1>6, <1>7, <1>8, <1>9 DEF Next

\* The invariant holds in every reachable state.
LEMMA Invariance ==
  ASSUME LifecycleAssumption
  PROVE  Spec => []Inv
<1>1. Init => Inv
  BY InitInv
<1>2. Inv /\ [Next]_vars => Inv'
  BY StepInv
<1> QED BY <1>1, <1>2, PTL DEF Spec

\* The variables keep their types.
THEOREM TypeCorrect ==
  ASSUME LifecycleAssumption
  PROVE  Spec => []TypeOK
<1>1. Inv => TypeOK
  BY DEF Inv
<1> QED BY <1>1, Invariance, PTL

\* What a submodule has taken in fetch_sub_module stays available until it
\* leaves, whatever is prefetched and released in between (__release_param).
THEOREM InUse ==
  ASSUME LifecycleAssumption
  PROVE  Spec => []ActiveAvailable
<1>1. Inv => ActiveAvailable
  BY DEF Inv
<1> QED BY <1>1, Invariance, PTL

\* A parameter is in flight exactly while one gather is bringing it, so that a
\* handle is waited for once (__inflight_param_registry).
THEOREM InFlight ==
  ASSUME LifecycleAssumption
  PROVE  Spec => []InFlightOnce
<1>1. Inv => InFlightOnce
  BY DEF Inv
<1> QED BY <1>1, Invariance, PTL

\* The shards change when no gather reads them and no gathered copy is left to
\* become stale (update_new_params).
THEOREM NoStaleCopy ==
  ASSUME LifecycleAssumption
  PROVE  Spec => UpdateWhenIdle
<1>1. ASSUME Inv, [Next]_vars, weights' # weights
      PROVE  gathers = {} /\ \A p \in Params : status[p] = "NOT_AVAILABLE"
  <2>1. Update
    BY <1>1 DEF Next, vars, ReleaseAll, PartitionParam, AllGather, Take, Fetch, Fetched, Leave
  <2>2. \A p \in Params : status[p] = "NOT_AVAILABLE"
    BY <2>1 DEF Update
  <2>3. \A T \in gathers : \A p \in T : FALSE
    BY <1>1, <2>2 DEF Inv, InFlightOnce, TypeOK
  <2>4. gathers = {}
    BY <1>1, <2>3 DEF Inv, NoEmptyGather
  <2> QED BY <2>2, <2>4
<1>2. Inv /\ [Next]_vars =>
        [weights' # weights => gathers = {} /\ \A p \in Params : status[p] = "NOT_AVAILABLE"]_vars
  BY <1>1
<1> QED BY <1>2, Invariance, PTL DEF Spec, UpdateWhenIdle
=============================================================================
