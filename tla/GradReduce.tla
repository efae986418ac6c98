------------------------------ MODULE GradReduce ------------------------------
(***************************************************************************)
(* The gradients of one rank, from the kernels of the backward pass to the  *)
(* weights (smartnic_offload/zero_optimizer.py, zero_wrapper_example.py,    *)
(* run_zero.py).  The host thread queues the gradient kernels on the        *)
(* compute stream; the hook of each gradient packs it in the bucket on the  *)
(* reduce stream and, when the bucket is full, has the DPU reduce-scatter   *)
(* it.  The result is waited for one bucket later, and copied to one of two *)
(* banks; the Adam worker, another process, works on the other bank.        *)
(***************************************************************************)
EXTENDS ZeroLayout

CONSTANTS
  BucketSize,       \* reduce_bucket_size
  MaxReduceEvents,  \* __max_param_reduce_events
  DpuThreshold,     \* DPU_THRESHOLD: the last epoch of synchronous steps
  StepsPerEpoch,
  MaxIters,         \* bound: iterations of the training loop
  Orders,           \* orders in which the gradients of a backward pass come
  EarlyIters        \* bound: with each order, the iterations in which the DPU may
                    \* overtake the reduce stream; in the code it may in all

ASSUME ReduceAssumption ==
  /\ BucketSize \in Nat /\ MaxReduceEvents \in Nat /\ MaxIters \in Nat
  /\ DpuThreshold \in Int /\ StepsPerEpoch \in Nat \ {0}
  /\ \A o \in Orders : o \in Seq(Params) /\ ToSet(o) = Params /\ Len(o) = Cardinality(Params)

VARIABLES
  pc, order, iter, next,  \* the host thread: where it is, the iterations begun,
                          \* the next gradient of the backward pass, or the next
                          \* sub-group of a synchronous step
  dpuSteps,    \* ZeroWrapperExample.dpu_steps
  micro,       \* micro_step_id
  ipg,         \* __params_in_ipg_bucket
  loc,         \* where the data of param.grad is
  pending,     \* _pending_rs
  evs,         \* __param_reduce_events: positions of the reduce stream
  gradPart,    \* __grad_partitions_flat_buffer
  bank,        \* fp32_grad_bufs
  switch,      \* grad_buf_switch
  stepPending, \* _adam_step_pending
  own,         \* the tensor a gradient is computed in
  flat,        \* __ipg_bucket_flat_buffer
  cat,         \* the buffer torch.cat returned last: its memory is reused
  rsOut,       \* the output of a reduce-scatter that is not gradPart
  cuQ, cuPos,  \* compute stream: queue, number of operations executed
  rsQ, rsPos,  \* reduce stream
  pipe, replies, worker,  \* the pipe to and from the Adam worker, the worker
  master,      \* fp32 weights of each sub-group: the iterations applied
  fp16,        \* the same for the shards the next forward pass gathers
  odd          \* history: what made a gradient inexact, see the properties

hostVars   == <<pc, order, iter, next, dpuSteps, odd>>
bucketVars == <<micro, ipg, loc, evs>>
resultVars == <<gradPart, bank, switch, rsOut>>
streamVars == <<own, flat, cat, cuQ, cuPos, rsQ, rsPos>>
adamVars   == <<stepPending, pipe, replies, worker, master, fp16>>
vars == <<hostVars, bucketVars, pending, resultVars, streamVars, adamVars>>

Blank(n) == [j \in 1 .. n |-> {}]
GroupNumel == [g \in Groups |-> SumPart(SubGroups[g])]
SumNumel(ps) == SumOver(Numel, ps)

\* The gradient of p in iteration k: one cell per element.
Gradient(p, k) == [i \in 1 .. Numel[p] |-> {<<p, i, k>>}]

\* Where the data of param.grad is.
NoGrad == [at |-> "none", p |-> 0, off |-> 0]
Own(p) == [at |-> "own", p |-> p, off |-> 0]
Flat(p, off) == [at |-> "flat", p |-> p, off |-> off]
Read(l) == IF l.at = "flat" THEN Narrow(flat, l.off, Numel[l.p]) ELSE own[l.p]

\* Operations of the reduce stream.
WaitOp(n) == [op |-> "wait", n |-> n, src |-> <<>>]
CopyOp(l) == [op |-> "copy", n |-> 0, src |-> <<l>>]
CatOp(ls) == [op |-> "cat", n |-> 0, src |-> ls]
DivOp == [op |-> "div", n |-> 0, src |-> <<>>]

NoRs == [ps |-> <<>>, src |-> <<>>, direct |-> FALSE, at |-> 0, pos |-> 0, done |-> FALSE]
NoWorker == [st |-> "boot", idx |-> 0, group |-> 1]

\* initialize_optimizer_states: two banks of zeros for each sub-group.  The Adam
\* step it takes, with the first bank, changes no weight.
ZeroBanks == [b \in {0, 1} |-> [g \in Groups |-> Blank(GroupNumel[g])]]

Init ==
  /\ pc = "start" /\ order \in Orders /\ iter = 0 /\ next = 1 /\ dpuSteps = 0 /\ odd = {}
  /\ micro = 0 /\ ipg = <<>> /\ loc = [p \in Params |-> NoGrad] /\ evs = <<>>
  /\ pending = NoRs
  /\ gradPart = Blank(SumPart(AllParams))
  /\ bank = ZeroBanks
  /\ switch = 0 /\ rsOut = <<>>
  /\ own = [p \in Params |-> Blank(Numel[p])] /\ flat = Blank(BucketSize) /\ cat = <<>>
  /\ cuQ = <<>> /\ cuPos = 0 /\ rsQ = <<>> /\ rsPos = 0
  /\ stepPending = FALSE /\ pipe = <<>> /\ replies = <<>> /\ worker = NoWorker
  /\ master = [g \in Groups |-> <<>>] /\ fp16 = master

-----------------------------------------------------------------------------
(* The training loop *)

\* start_adam_process: waits for "ready", then sets the affinity.
StartAdam ==
  /\ pc = "start" /\ replies = <<"ready">>
  /\ replies' = <<>>
  /\ pipe' = <<[cmd |-> "set_affinity", idx |-> 0]>>
  /\ pc' = "loop"
  /\ UNCHANGED <<order, iter, next, dpuSteps, odd, bucketVars, pending, resultVars, streamVars,
                 stepPending, worker, master, fp16>>

Synchronous(i) == (i - 1) \div StepsPerEpoch <= DpuThreshold

\* Mutant: the bank being written is sent.
StepCommandSame == [cmd |-> "step", idx |-> switch]

\* step_dpu: the bank the backward pass does not write.
StepCommand == [cmd |-> "step", idx |-> 1 - switch]

\* The start of an iteration.  On the delayed path step_dpu sends the step,
\* except the first time, and zero_grad follows.
BeginIteration ==
  /\ pc = "loop" /\ iter < MaxIters
  /\ iter' = iter + 1 /\ next' = 1 /\ pc' = "backward"
  /\ IF Synchronous(iter')
     THEN UNCHANGED <<dpuSteps, stepPending, pipe, micro, loc>>
     ELSE /\ dpuSteps' = dpuSteps + 1
          /\ stepPending' = (dpuSteps > 0)
          /\ pipe' = IF dpuSteps > 0 THEN Append(pipe, StepCommand) ELSE pipe
          /\ micro' = 0 /\ loc' = [p \in Params |-> NoGrad]
  /\ UNCHANGED <<order, odd, ipg, evs, pending, resultVars, streamVars, replies, worker, master, fp16>>

\* The backward pass queues the kernel of the next gradient.
GradKernel ==
  /\ pc = "backward" /\ next <= Len(order)
  /\ cuQ' = Append(cuQ, <<order[next], iter>>)
  /\ loc' = [loc EXCEPT ![order[next]] = Own(order[next])]
  /\ pc' = "hook"
  /\ UNCHANGED <<order, iter, next, dpuSteps, odd, micro, ipg, evs, pending, resultVars,
                 own, flat, cat, cuPos, rsQ, rsPos, adamVars>>

-----------------------------------------------------------------------------
(* The bucket *)

BucketFull(p) == ipg # <<>> /\ SumNumel(ipg) + Numel[p] > BucketSize

\* Mutant: the reduce stream does not wait for the compute stream.
PackOpsUnordered(l) == <<CopyOp(l)>>

\* What __add_grad_to_ipg_bucket queues: the wait for the default stream and,
\* if the gradient fits, the copy to the flat buffer.
PackOps(l) == <<WaitOp(cuPos + Len(cuQ))>> \o (IF l.at = "flat" THEN <<CopyOp(l)>> ELSE <<>>)

\* Mutant: a gradient that does not fit is packed too.
PlaceAlways(p) == Flat(p, SumNumel(ipg))

Place(p) ==
  IF SumNumel(ipg) + Numel[p] < BucketSize THEN Flat(p, SumNumel(ipg)) ELSE Own(p)

\* reduce_ready_partitions_and_remove_grads, once the bucket has room.
AddGrad ==
  /\ pc = "hook" /\ ~ BucketFull(order[next])
  /\ LET p == order[next] IN
       /\ rsQ' = rsQ \o PackOps(Place(p))
       /\ loc' = [loc EXCEPT ![p] = Place(p)]
       /\ ipg' = Append(ipg, p)
       /\ odd' = IF Place(p).at = "flat" /\ ~ pending.done /\ pending.src # <<>> /\ pending.src[1].at = "flat"
                 THEN odd \cup {"overwritten"} ELSE odd
  /\ next' = next + 1
  /\ pc' = IF next < Len(order) THEN "backward" ELSE "epilogue"
  /\ UNCHANGED <<order, iter, dpuSteps, micro, evs, pending, resultVars,
                 own, flat, cat, cuQ, cuPos, rsPos, adamVars>>

\* Events the reduce stream has not reached.  The host goes on when at most
\* __max_param_reduce_events are left.
Ongoing(es) == SelectSeq(es, LAMBDA e : e > rsPos)
MayReduce == Len(Ongoing(evs)) <= MaxReduceEvents

\* The result of a reduce-scatter is waited for on the host.
RsReady == pending # NoRs => pending.done

\* The slice of the i-th parameter of the pending reduce-scatter, and whether
\* it already is the parameter's part of gradPart.
SameBuffer(i) == pending.direct /\ pending.at + ViewOffset(pending.ps, i) = GradOffset[pending.ps[i]]
View(i) ==
  Narrow(IF pending.direct THEN gradPart ELSE rsOut,
         (IF pending.direct THEN pending.at ELSE 0) + ViewOffset(pending.ps, i), ViewNumel[pending.ps[i]])

\* The cell of the j-th element of p's shard after __partition_grads: copied in
\* the first micro step, added afterwards.
Stored(p, i, j) ==
  IF SameBuffer(i) THEN gradPart[GradOffset[p] + j]
  ELSE IF micro = 0 THEN View(i)[j]
  ELSE gradPart[GradOffset[p] + j] \cup View(i)[j]

\* The parameters of the pending reduce-scatter that have a shard here.
ToPartition == {i \in DOMAIN pending.ps : pending.ps[i] \notin EmptyShards}

\* __partition_grads: gradPart, then the current bank, at a gradient
\* accumulation boundary (every backward pass is one).
PartitionGrads ==
  /\ gradPart' = [c \in DOMAIN gradPart |->
       LET hit(i) == c - GradOffset[pending.ps[i]] \in 1 .. ViewNumel[pending.ps[i]]
       IN  IF \E i \in ToPartition : hit(i)
           THEN LET i == CHOOSE i \in ToPartition : hit(i)
                    p == pending.ps[i]
                IN  Stored(p, i, c - GradOffset[p])
           ELSE gradPart[c]]
  /\ bank' = [bank EXCEPT ![switch] = [g \in Groups |-> [c \in DOMAIN @[g] |->
       LET hit(i) == GroupOf[pending.ps[i]] = g
                     /\ c - GradPosition[pending.ps[i]] \in 1 .. ViewNumel[pending.ps[i]]
       IN  IF \E i \in ToPartition : hit(i)
           THEN LET i == CHOOSE i \in ToPartition : hit(i)
                    p == pending.ps[i]
                IN  Stored(p, i, c - GradPosition[p])
           ELSE @[g][c]]]]

Released == [p \in Params |-> IF \E i \in ToPartition : pending.ps[i] = p THEN NoGrad ELSE loc[p]]

\* The parameters of the bucket, sorted by ds_id, are one after the other in
\* gradPart: the DPU writes there.
Contiguous(ps) == GradOffset[ps[1]] + SumPart(ps) = GradOffset[Last(ps)] + PartNumel[Last(ps)]

\* The bucket, sorted by ds_id.
Bucket == [i \in DOMAIN ipg |-> CHOOSE p \in ToSet(ipg) : Cardinality({q \in ToSet(ipg) : q < p}) = i - 1]
Locs(ps) == [i \in DOMAIN ps |-> loc[ps[i]]]
AsIs(ps) == SentAsIs([i \in DOMAIN ps |-> Numel[ps[i]]])

\* __reduce_and_partition_ipg_grads: the previous reduce-scatter is waited for
\* and partitioned, then the bucket is sent: torch.cat allocates its result, what
\* it holds comes when the reduce stream executes it.
ReduceIpg ==
  /\ ipg # <<>>
  /\ MayReduce /\ RsReady
  /\ PartitionGrads
  /\ evs' = IF pending = NoRs THEN Ongoing(evs) ELSE Append(Ongoing(evs), rsPos + Len(rsQ))
  /\ loc' = Released
  /\ LET ps == Bucket
         asIs == AsIs(ps)
         q == Append(rsQ, IF asIs THEN DivOp ELSE CatOp(Locs(ps)))
     IN  /\ rsQ' = q
         /\ pending' = [ps |-> ps, src |-> IF asIs THEN Locs(ps) ELSE <<>>,
                        direct |-> Contiguous(ps),
                        at |-> IF Contiguous(ps) THEN GradOffset[ps[1]] ELSE 0,
                        pos |-> rsPos + Len(q), done |-> FALSE]
         /\ cat' = IF asIs THEN cat ELSE Blank(World * SumPart(ps))
         /\ odd' = IF pc = "epilogue" /\ ~ Contiguous(ps) THEN odd \cup {"added"} ELSE odd
  /\ ipg' = <<>>
  /\ UNCHANGED <<rsOut, switch>>

\* A gradient that does not fit: the bucket is reduced first.
ReduceFullBucket ==
  /\ pc = "hook" /\ BucketFull(order[next])
  /\ ReduceIpg
  /\ UNCHANGED <<pc, order, iter, next, dpuSteps, micro, own, flat, cuQ, cuPos, rsPos, adamVars>>

\* independent_gradient_partition_epilogue: the last bucket is reduced ...
ReduceLastBucket ==
  /\ pc = "epilogue"
  /\ ReduceIpg
  /\ pc' = "sync"
  /\ UNCHANGED <<order, iter, next, dpuSteps, micro, own, flat, cuQ, cuPos, rsPos, adamVars>>

\* ... and the host waits for the reduce stream.
EpilogueSync ==
  /\ pc = "sync" /\ rsQ = <<>>
  /\ micro' = micro + 1
  /\ pc' = IF Synchronous(iter) THEN "step" ELSE "flush"
  /\ UNCHANGED <<order, iter, next, dpuSteps, odd, ipg, loc, evs, pending, resultVars, streamVars, adamVars>>

\* _flush_pending_rs
Flush ==
  /\ pending # NoRs /\ RsReady
  /\ PartitionGrads
  /\ evs' = Append(evs, rsPos + Len(rsQ))
  /\ pending' = NoRs

\* _partition_all_parameters
PartitionAll ==
  /\ pc = "flush"
  /\ Flush
  /\ loc' = Released
  /\ pc' = "update"
  /\ UNCHANGED <<order, iter, next, dpuSteps, odd, micro, ipg, switch, rsOut, streamVars, adamVars>>

-----------------------------------------------------------------------------
(* The weights *)

\* The bank holds, at every element of the weights, that element's gradient of
\* iteration k; 0 when there is no such k.
ExactFor(cells, g, k) ==
  \A j \in DOMAIN cells :
    LET e == WeightLayout[g][j]
    IN  e # PadElem => cells[j] = {<<e[1], e[2], k>>}
Applied(cells, g) ==
  IF \E k \in 1 .. iter : ExactFor(cells, g, k) THEN CHOOSE k \in 1 .. iter : ExactFor(cells, g, k) ELSE 0

\* step: what is still to be reduced, and the release of the parameters ...
StepBegin ==
  /\ pc = "step"
  /\ Flush
  /\ micro' = 0 /\ loc' = Released
  /\ next' = 1
  /\ pc' = "groups"
  /\ UNCHANGED <<order, iter, dpuSteps, odd, ipg, switch, rsOut, streamVars, adamVars>>

\* ... the update of one sub-group after the other with bank 0, by the main
\* process, each followed by the copy to the shards ...
StepSubGroup ==
  /\ pc = "groups" /\ next \in Groups
  /\ master' = [master EXCEPT ![next] = Append(@, Applied(bank[0][next], next))]
  /\ fp16' = [fp16 EXCEPT ![next] = master'[next]]
  /\ next' = next + 1
  /\ UNCHANGED <<pc, order, iter, dpuSteps, odd, bucketVars, pending, resultVars, streamVars,
                 stepPending, pipe, replies, worker>>

\* ... and zero_grad.
StepEnd ==
  /\ pc = "groups" /\ next \notin Groups
  /\ micro' = 0 /\ loc' = [p \in Params |-> NoGrad]
  /\ pc' = "loop"
  /\ UNCHANGED <<order, iter, next, dpuSteps, odd, ipg, evs, pending, resultVars, streamVars, adamVars>>

Step == StepBegin \/ StepSubGroup \/ StepEnd

\* Mutant: update_new_params does not wait for "done".
StepAnsweredAlways == TRUE

StepAnswered == stepPending => replies = <<"done">>

\* update_new_params
UpdateNewParams ==
  /\ pc = "update" /\ StepAnswered
  /\ replies' = <<>>
  /\ fp16' = master
  /\ switch' = 1 - switch
  /\ pc' = "loop"
  /\ UNCHANGED <<order, iter, next, dpuSteps, odd, bucketVars, pending, gradPart, bank, rsOut, streamVars,
                 stepPending, pipe, worker, master>>

\* stop_adam_process, after the last iteration: join waits ten seconds, then
\* the process is terminated.
StopAdam ==
  /\ pc = "loop" /\ iter = MaxIters
  /\ pipe' = Append(pipe, [cmd |-> "shutdown", idx |-> 0])
  /\ pc' = "join"
  /\ UNCHANGED <<order, iter, next, dpuSteps, odd, bucketVars, pending, resultVars, streamVars,
                 stepPending, replies, worker, master, fp16>>

JoinAdam ==
  /\ pc = "join"
  /\ worker' = [worker EXCEPT !.st = "stopped"]
  /\ pc' = "end"
  /\ UNCHANGED <<order, iter, next, dpuSteps, odd, bucketVars, pending, resultVars, streamVars,
                 stepPending, pipe, replies, master, fp16>>

Host == \/ StartAdam \/ BeginIteration \/ GradKernel \/ ReduceFullBucket \/ AddGrad
        \/ ReduceLastBucket \/ EpilogueSync \/ PartitionAll \/ Step \/ UpdateNewParams
        \/ StopAdam \/ JoinAdam

-----------------------------------------------------------------------------
(* The streams, the DPU and the Adam worker *)

\* A gradient kernel writes the gradient of the iteration that queued it.
ComputeStream ==
  /\ cuQ # <<>>
  /\ LET p == Head(cuQ)[1] IN own' = [own EXCEPT ![p] = Gradient(p, Head(cuQ)[2])]
  /\ cuQ' = Tail(cuQ) /\ cuPos' = cuPos + 1
  /\ UNCHANGED <<hostVars, bucketVars, pending, resultVars, flat, cat, rsQ, rsPos, adamVars>>

ReduceStream ==
  /\ rsQ # <<>>
  /\ LET o == Head(rsQ) IN
     \/ /\ o.op = "wait" /\ cuPos >= o.n
        /\ UNCHANGED <<flat, cat>>
     \/ /\ o.op = "div"
        /\ UNCHANGED <<flat, cat>>
     \/ /\ o.op = "copy"
        /\ LET l == o.src[1] IN
           flat' = [c \in DOMAIN flat |->
                      IF c - l.off \in 1 .. Numel[l.p] THEN own[l.p][c - l.off] ELSE flat[c]]
        /\ UNCHANGED cat
     \/ /\ o.op = "cat"
        /\ cat' = Interleaved([i \in DOMAIN o.src |-> Read(o.src[i])])
        /\ UNCHANGED flat
  /\ rsQ' = Tail(rsQ) /\ rsPos' = rsPos + 1
  /\ UNCHANGED <<hostVars, bucketVars, pending, resultVars, own, cuQ, cuPos, adamVars>>

RsInput == IF pending.src # <<>> THEN Read(pending.src[1]) ELSE cat

\* The DPU reduces and scatters, as soon as it is told: nothing makes it wait for
\* what the reduce stream has still to put into its input.  The other ranks'
\* gradients of the same elements are not told apart.
DpuReduceScatter ==
  /\ pending # NoRs /\ ~ pending.done
  /\ rsPos >= pending.pos \/ iter \in EarlyIters[order]
  /\ odd' = IF rsPos >= pending.pos THEN odd ELSE odd \cup {"early"}
  /\ LET out == ReduceScattered(RsInput) IN
     IF pending.direct
     THEN /\ gradPart' = [c \in DOMAIN gradPart |->
                            IF c - pending.at \in 1 .. Len(out) THEN out[c - pending.at] ELSE gradPart[c]]
          /\ UNCHANGED rsOut
     ELSE rsOut' = out /\ UNCHANGED gradPart
  /\ pending' = [pending EXCEPT !.done = TRUE]
  /\ UNCHANGED <<pc, order, iter, next, dpuSteps, bucketVars, bank, switch, streamVars, adamVars>>

\* _adam_worker
AdamReady ==
  /\ worker.st = "boot"
  /\ replies' = Append(replies, "ready")
  /\ worker' = [worker EXCEPT !.st = "idle"]
  /\ UNCHANGED <<hostVars, bucketVars, pending, resultVars, streamVars, stepPending, pipe, master, fp16>>

AdamCommand ==
  /\ worker.st = "idle" /\ pipe # <<>>
  /\ worker' = CASE Head(pipe).cmd = "step" -> [st |-> "step", idx |-> Head(pipe).idx, group |-> 1]
                 [] Head(pipe).cmd = "shutdown" -> [worker EXCEPT !.st = "stopped"]
                 [] OTHER -> worker
  /\ pipe' = Tail(pipe)
  /\ UNCHANGED <<hostVars, bucketVars, pending, resultVars, streamVars, stepPending, replies, master, fp16>>

\* The sub-groups one after the other.
AdamSubGroup ==
  /\ worker.st = "step" /\ worker.group \in Groups
  /\ LET g == worker.group IN
     master' = [master EXCEPT ![g] = Append(@, Applied(bank[worker.idx][g], g))]
  /\ worker' = [worker EXCEPT !.group = @ + 1]
  /\ UNCHANGED <<hostVars, bucketVars, pending, resultVars, streamVars, stepPending, pipe, replies, fp16>>

\* Mutant: no answer.
AdamDoneSilent ==
  /\ worker.st = "step" /\ worker.group \notin Groups
  /\ worker' = NoWorker
  /\ UNCHANGED <<hostVars, bucketVars, pending, resultVars, streamVars, stepPending, pipe, replies, master, fp16>>

AdamDone ==
  /\ worker.st = "step" /\ worker.group \notin Groups
  /\ replies' = Append(replies, "done")
  /\ worker' = [st |-> "idle", idx |-> 0, group |-> 1]
  /\ UNCHANGED <<hostVars, bucketVars, pending, resultVars, streamVars, stepPending, pipe, master, fp16>>

Adam == AdamReady \/ AdamCommand \/ AdamSubGroup \/ AdamDone

Next == Host \/ ComputeStream \/ ReduceStream \/ DpuReduceScatter \/ Adam

Spec == Init /\ [][Next]_vars

\* Every thread, stream and process that can go on does.
Fairness ==
  WF_vars(Host) /\ WF_vars(ComputeStream) /\ WF_vars(ReduceStream)
  /\ WF_vars(DpuReduceScatter) /\ WF_vars(Adam)

FairSpec == Spec /\ Fairness

-----------------------------------------------------------------------------
(* Properties.  odd records the three cases in which the code may not reduce *)
(* the gradient of the iteration: "early", the DPU reads the input of a      *)
(* reduce-scatter before the reduce stream has filled it; "overwritten", a   *)
(* bucket sent as it is from the flat buffer while the next gradients are    *)
(* packed over it; "added", a last bucket that is not contiguous and is      *)
(* partitioned after the end of the micro step, on top of the gradient of    *)
(* the iteration before.                                                     *)

Locations == [at : {"none", "own", "flat"}, p : Params \cup {0}, off : 0 .. BucketSize]

\* Every gradient packed in the flat buffer fits in it, the bucket holds a
\* parameter once, and an input of the DPU divides among the ranks.
TypeOK ==
  /\ pc \in {"start", "loop", "backward", "hook", "epilogue", "sync", "step", "groups", "flush", "update", "join", "end"}
  /\ iter \in 0 .. MaxIters /\ dpuSteps \in 0 .. iter /\ micro \in {0, 1} /\ switch \in {0, 1}
  /\ loc \in [Params -> Locations]
  /\ \A p \in Params : loc[p].at = "flat" => loc[p].off + Numel[p] <= BucketSize
  /\ IsInjective(ipg) /\ ToSet(ipg) \subseteq Params
  /\ Len(pipe) <= 2 /\ Len(replies) <= 1
  /\ DOMAIN flat = 1 .. BucketSize /\ DOMAIN gradPart = 1 .. SumPart(AllParams)
  /\ (pending # NoRs /\ pending.src = <<>> /\ rsPos >= pending.pos) => Len(cat) % World = 0

\* A sub-group that holds an element of a parameter on this rank; the others
\* are nothing but padding.
HasElement(g) == \E j \in DOMAIN WeightLayout[g] : WeightLayout[g][j] # PadElem

\* Every weight of every sub-group is updated with its own gradient of
\* iteration 1, 2, 3, ...: no element of another parameter, no padding, no
\* older iteration (reduce_scatter_coalesced, __partition_grads,
\* set_grad_positions).
GradientsExact ==
  odd = {} => \A g \in Groups : HasElement(g) => \A i \in DOMAIN master[g] : master[g][i] = i

\* What the DPU should read for the bucket ps.
Reduction(ps) ==
  LET grads == [i \in DOMAIN ps |-> Gradient(ps[i], iter)]
  IN  IF AsIs(ps) THEN grads[1] ELSE Interleaved(grads)

\* A reduce-scatter reads the gradients of this iteration and nothing else
\* (__add_grad_to_ipg_bucket: the reduce stream waits for the default stream so
\* that a gradient is packed once it exists).
RsReadsGradients ==
  [][pending' = [pending EXCEPT !.done = TRUE] /\ pending' # pending /\ odd = {} =>
       RsInput = Reduction(pending.ps)]_vars

\* The last iteration whose gradient fills p's part of a bank.
FilledBy(b, p) ==
  LET n == PartNumel[p]
      cell(j) == bank[b][GroupOf[p]][GradPosition[p] + j]
      full(k) == \A j \in 1 .. ViewNumel[p] : cell(j) = {<<p, Rank * n + j, k>>}
  IN  IF \E k \in 1 .. iter : full(k) THEN CHOOSE k \in 1 .. iter : full(k) ELSE 0

Shards == {p \in Params : ViewNumel[p] > 0}

\* The baseline's step is one step of DelayedUpdate, the one that reduces what
\* is left: the updates a synchronous step has still to make count as made.
Due(g) == IF pc = "groups" /\ g >= next THEN 1 ELSE 0

D == INSTANCE DelayedUpdate WITH
  Shards <- Shards,
  InGroup <- [p \in Shards |-> GroupOf[p]],
  SyncIters <- Cardinality({i \in 1 .. MaxIters : Synchronous(i)}),
  busy <- pc \notin {"start", "loop", "groups", "join", "end"},
  bank <- [b \in {0, 1} |-> [p \in Shards |-> FilledBy(b, p)]],
  adam <- IF replies = <<"done">> THEN [st |-> "done", idx |-> 1 - switch, todo |-> {}]
          ELSE IF worker.st = "step" THEN [st |-> "busy", idx |-> worker.idx,
                                           todo |-> {g \in Groups : g >= worker.group}]
          ELSE IF pipe # <<>> /\ Last(pipe).cmd = "step"
               THEN [st |-> "busy", idx |-> Last(pipe).idx, todo |-> Groups]
          ELSE [st |-> "none", idx |-> 0, todo |-> {}],
  master <- [p \in Shards |-> Len(master[GroupOf[p]]) + Due(GroupOf[p])],
  fp16 <- [p \in Shards |-> Len(fp16[GroupOf[p]]) + Due(GroupOf[p])]

\* Streams, deferred reductions and the worker implement the delayed update of
\* the baseline: every step is one of its steps or changes nothing it sees.
ImplementsDelayedUpdate == (odd = {} => D!Init) /\ [][odd' = {} => D!Next]_(D!vars)

\* The weights a forward or backward pass uses are late by one update on the
\* delayed path, by none before (run_zero.py, update_new_params).
DelayedByOne == D!DelayedByOne

\* The loop ends: no wait of the host, of a stream, of the DPU or of the worker
\* is for ever.
TrainingEnds == <>(pc = "end")
=============================================================================
