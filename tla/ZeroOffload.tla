------------------------------ MODULE ZeroOffload ------------------------------
(***************************************************************************)
(* The module hooks of ZeroOffload (smartnic_offload/parameter_offload.py):*)
(* what runs before and after a submodule in the forward and the backward  *)
(* pass, driven by autograd.                                               *)
(*                                                                         *)
(* A pass is a script of events.  The events of the backward pass are the  *)
(* mirror image of the forward ones, the order in which autograd walks a   *)
(* chain.  A submodule may contain others, be called several times in a    *)
(* pass, or have no input that needs a gradient: then autograd never       *)
(* reaches its PostBackwardFunction.  Each submodule has one tensor input. *)
(***************************************************************************)
EXTENDS ParamCoordinator

CONSTANTS
  NoGradIn,  \* submodules whose input does not require a gradient
  Outputs    \* number of tensors a submodule returns

ASSUME OffloadAssumption == NoGradIn \subseteq Mods /\ Outputs \in [Mods -> Nat \ {0}]

VARIABLES
  todo,  \* what the host thread has still to run, a sequence of events
  hook   \* the counters the hooks keep on each submodule

hookVars == <<todo, hook>>

None == 0
NoHooks == [calls |-> 0,         \* _timing_call_counter
            stack |-> <<>>,      \* _timing_fwd_call_stack
            current |-> None,    \* _timing_bwd_active_call
            lastPre |-> None,    \* _timing_last_bwd_pre_call
            refs |-> 0,          \* applied_pre_backward_ref_cnt
            gradsLeft |-> 0]     \* ds_grads_remaining

Event(kind, m) == [ev |-> kind, m |-> m]

\* A forward script is a sequence of "pre_fwd", "use" and "post_fwd" events.
\* What autograd runs for one of them: the PreBackwardFunction of every output,
\* and the PostBackwardFunction only where a gradient flows to the input.
Undo(e) ==
  CASE e.ev = "post_fwd" -> [i \in 1 .. Outputs[e.m] |-> Event("pre_bwd", e.m)]
    [] e.ev = "pre_fwd"  -> IF e.m \in NoGradIn THEN <<>> ELSE <<Event("post_bwd", e.m)>>
    [] OTHER             -> <<e>>

Backward(script) == FlattenSeq([i \in DOMAIN script |-> Undo(script[Len(script) + 1 - i])])

Now(kind) == todo # <<>> /\ fetching = NoMod /\ Head(todo).ev = kind
Mod == Head(todo).m

-----------------------------------------------------------------------------
\* _pre_forward_module_hook and the forward half of the post-backward hook,
\* which starts the count of gradients again.
PreForward ==
  /\ Now("pre_fwd")
  /\ BeginFetch(Mod)
  /\ hook' = [hook EXCEPT ![Mod].calls = @ + 1,
                          ![Mod].stack = Append(@, hook[Mod].calls + 1),
                          ![Mod].gradsLeft = IF Mod \in NoGradIn THEN 0 ELSE 1]
  /\ UNCHANGED todo

\* The forward or backward computation of the submodule with its own
\* parameters: kernels on the compute stream.
UseParams ==
  /\ Now("use")
  /\ todo' = Tail(todo)
  /\ IF \A p \in ParamsOf[Mod] : status[p] = "AVAILABLE"
     THEN /\ cuQ' = cuQ \o [i \in 1 .. Cardinality(ParamsOf[Mod]) |->
                              LET p == Nth(ParamsOf[Mod], i)
                              IN  KernelOp(p, data[p], weights)]
          /\ UNCHANGED <<transport, dpu, flag, gens, nextSlot, agQ, agPos, events, held, mem, weights, pinned, odd>>
          /\ UNCHANGED coordVars
     ELSE Raise("use of a partitioned parameter")
  /\ UNCHANGED hook

\* With ENABLE_FULL_PARAM_TRANSFER the parameters to release go to host memory.
ToSave(m) == IF transport = "copy" THEN ParamsToRelease(m) ELSE {}
SaveOps(ps) == [i \in 1 .. Cardinality(ps) |-> SaveOp(Nth(ps, i), data[Nth(ps, i)])]

\* _post_forward_module_hook releases; _pre_backward_module_hook then puts a
\* PreBackwardFunction on every output.
PostForward ==
  /\ Now("post_fwd")
  /\ ReleaseSubModule(Mod, SaveOps(ToSave(Mod)))
  /\ cpuFull' = cpuFull \cup ToSave(Mod)
  /\ hook' = [hook EXCEPT ![Mod].refs = @ + Outputs[Mod]]
  /\ todo' = Tail(todo)

\* Mutant: a submodule called several times is fetched for the first of its
\* backward passes only.
AlreadyFetchedOnce(h) == h.refs = 0 \/ h.lastPre # None

\* _run_before_backward_function does nothing when no output is left, or when
\* it has run already for the call whose backward pass this is.
AlreadyFetched(h) == h.refs = 0 \/ (h.stack # <<>> /\ Last(h.stack) = h.lastPre)

CurrentCall(h) == IF h.stack = <<>> THEN None ELSE Last(h.stack)

PreBackward ==
  /\ Now("pre_bwd")
  /\ IF AlreadyFetched(hook[Mod])
     THEN /\ hook' = IF hook[Mod].refs = 0 THEN hook
                     ELSE [hook EXCEPT ![Mod].current = CurrentCall(hook[Mod])]
          /\ todo' = Tail(todo)
          /\ UNCHANGED coordVars /\ UNCHANGED streamVars
     ELSE /\ hook' = [hook EXCEPT ![Mod].current = CurrentCall(hook[Mod]),
                                  ![Mod].lastPre = IF hook[Mod].stack = <<>> THEN @ ELSE Last(hook[Mod].stack),
                                  ![Mod].refs = @ - 1]
          /\ BeginFetch(Mod)
          /\ UNCHANGED todo

\* PostBackwardFunction.backward: the hook runs when the count comes to zero.
\* The copies of the parameters to release are no longer valid.
PostBackward ==
  /\ Now("post_bwd")
  /\ todo' = Tail(todo)
  /\ IF hook[Mod].gradsLeft = 1
     THEN /\ hook' = [hook EXCEPT ![Mod].gradsLeft = 0, ![Mod].current = None,
                                  ![Mod].stack = IF @ = <<>> THEN @ ELSE Front(@)]
          /\ ReleaseSubModule(Mod, <<>>)
          /\ cpuFull' = cpuFull \ ParamsToRelease(Mod)
     ELSE /\ hook' = [hook EXCEPT ![Mod].gradsLeft = @ - 1]
          /\ UNCHANGED coordVars /\ UNCHANGED streamVars

\* The wait loop and the end of fetch_sub_module.
FetchParam == \E p \in Params : WaitParam(p) /\ UNCHANGED hookVars

FetchDone ==
  /\ EndFetch
  /\ todo' = Tail(todo)
  /\ UNCHANGED hook
=============================================================================
