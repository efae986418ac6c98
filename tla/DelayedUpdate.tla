----------------------------- MODULE DelayedUpdate -----------------------------
(***************************************************************************)
(* What the delayed parameter update promises, whatever moves the           *)
(* gradients: the optimizer of the baseline, where the reduction of a       *)
(* bucket ends inside the hook that fills it (baseline/zero_optimizer.py,   *)
(* baseline/run_zero.py).  GradReduce, where a reduction ends one bucket    *)
(* later and a DPU writes the result, implements it.                        *)
(*                                                                         *)
(* The gradient of a parameter is the number of its iteration; a weight is  *)
(* the number of the last iteration whose gradient it has been updated      *)
(* with.                                                                   *)
(***************************************************************************)
EXTENDS Integers

CONSTANTS
  Shards,     \* parameters with a shard on this rank
  Groups,     \* sub-groups
  InGroup,    \* the sub-group of each
  SyncIters   \* iterations of the epochs up to DPU_THRESHOLD

UpdateAssumption == SyncIters \in Nat /\ InGroup \in [Shards -> Groups]

VARIABLES
  iter,    \* iterations begun
  busy,    \* an iteration is under way
  bank,    \* fp32_grad_bufs
  switch,  \* grad_buf_switch
  adam,    \* the step sent to the worker: the bank, the sub-groups left
  master,  \* fp32 weights
  fp16     \* weights the forward and the backward pass use

vars == <<iter, busy, bank, switch, adam, master, fp16>>

NoStep == [st |-> "none", idx |-> 0, todo |-> {}]
Zero == [p \in Shards |-> 0]

Init ==
  /\ iter = 0 /\ busy = FALSE
  /\ bank = [b \in {0, 1} |-> Zero] /\ switch = 0
  /\ adam = NoStep
  /\ master = Zero /\ fp16 = Zero

Synchronous(i) == i <= SyncIters

\* An iteration starts.  step_dpu sends the gradients of the one before, but
\* in the first delayed iteration.
Begin ==
  /\ ~ busy
  /\ iter' = iter + 1 /\ busy' = TRUE
  /\ adam' = IF iter > SyncIters THEN [st |-> "busy", idx |-> 1 - switch, todo |-> Groups]
             ELSE NoStep
  /\ UNCHANGED <<bank, switch, master, fp16>>

\* The shards whose gradient has been reduced in this iteration.
Reduced == {p \in Shards : bank[switch][p] = iter}
WithReduced(S) == [bank EXCEPT ![switch] = [p \in Shards |-> IF p \in S THEN iter ELSE @[p]]]

\* A bucket is reduced, scattered and partitioned.
Reduce(S) ==
  /\ busy /\ S \cap Reduced = {}
  /\ bank' = WithReduced(S)
  /\ UNCHANGED <<iter, busy, switch, adam, master, fp16>>

\* step, with what is left to reduce: the main process updates from bank 0.
Step ==
  /\ busy /\ Synchronous(iter)
  /\ bank' = WithReduced(Shards)
  /\ master' = bank'[0] /\ fp16' = bank'[0]
  /\ busy' = FALSE
  /\ UNCHANGED <<iter, switch, adam>>

\* The worker updates a sub-group from the bank it was sent.
AdamGroup(g) ==
  /\ adam.st = "busy" /\ g \in adam.todo
  /\ master' = [p \in Shards |-> IF InGroup[p] = g THEN bank[adam.idx][p] ELSE master[p]]
  /\ adam' = [st |-> "busy", idx |-> adam.idx, todo |-> adam.todo \ {g}]
  /\ UNCHANGED <<iter, busy, bank, switch, fp16>>

AdamDone ==
  /\ adam.st = "busy" /\ adam.todo = {}
  /\ adam' = [st |-> "done", idx |-> adam.idx, todo |-> {}]
  /\ UNCHANGED <<iter, busy, bank, switch, master, fp16>>

\* update_new_params: waits for the answer, takes the weights, exchanges the
\* banks.
Update ==
  /\ busy /\ ~ Synchronous(iter) /\ Reduced = Shards
  /\ adam.st # "busy"
  /\ fp16' = master /\ switch' = 1 - switch
  /\ adam' = NoStep /\ busy' = FALSE
  /\ UNCHANGED <<iter, bank, master>>

Next ==
  \/ Begin \/ Step \/ AdamDone \/ Update
  \/ \E S \in SUBSET Shards : Reduce(S)
  \/ \E g \in Groups : AdamGroup(g)

Spec == Init /\ [][Next]_vars

-----------------------------------------------------------------------------
TypeOK ==
  /\ iter \in Nat /\ busy \in BOOLEAN
  /\ bank \in [{0, 1} -> [Shards -> Nat]] /\ switch \in {0, 1}
  /\ adam \in [st : {"none", "busy", "done"}, idx : {0, 1}, todo : SUBSET Groups]
  /\ master \in [Shards -> Nat] /\ fp16 \in [Shards -> Nat]

\* The iteration whose gradients the weights of a forward pass contain: the one
\* before, or the one before that on the delayed path.
Applied == IF iter <= SyncIters + 1 THEN iter - 1 ELSE iter - 2

\* During an iteration every weight the passes use is late by exactly one
\* update on the delayed path, by none before (run_zero.py, the two branches of
\* the loop).
DelayedByOne == busy => \A p \in Shards : fp16[p] = Applied

\* No gradient is applied twice, skipped or applied out of order
\* (_adam_worker, step).
AppliedInOrder == [][\A p \in Shards : master'[p] # master[p] => master'[p] = master[p] + 1]_vars

\* While the worker reads a bank nobody writes it (grad_buf_switch).
BankStable == [][adam.st = "busy" => bank'[adam.idx] = bank[adam.idx]]_vars
=============================================================================
