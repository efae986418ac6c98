---------------------------- MODULE GatherStreams ----------------------------
(***************************************************************************)
(* What one rank's GPU and DPU do for a parameter gather once the host     *)
(* thread has asked for it (smartnic_offload/partition_parameters.py,      *)
(* gpu_flag_pool.py, cuda_stream_wait.py).                                 *)
(*                                                                         *)
(* Three queues run behind the host thread and at their own pace: the      *)
(* commands accepted by the DPU (in any order: it may run several rings),  *)
(* the allgather stream and the compute stream, both FIFO.  The host only  *)
(* appends to them.  The DPU writes the gathered shards into a GPU buffer  *)
(* and then a generation number into a slot of the flag pool; a stream     *)
(* waits for that number with an EQUAL comparison.  In the baseline NCCL   *)
(* gathers, on a stream of its own, and an event stands for the number.    *)
(* With ENABLE_FULL_PARAM_TRANSFER a parameter that is released in the     *)
(* forward pass is copied to host memory, and copied back when it is       *)
(* gathered again in the same iteration.                                   *)
(*                                                                         *)
(* GPU memory is a set of equal blocks.  A block freed by the host is      *)
(* reused as eagerly as the caching allocator of PyTorch may: at once, or, *)
(* after record_stream, when the compute stream has passed that point.     *)
(***************************************************************************)
EXTENDS Integers, Sequences, FiniteSets

CONSTANTS
  Params,          \* ds_id of the parameters, a set of naturals
  NBlocks,         \* number of GPU blocks, enough for every run
  PoolSize,        \* GpuFlagPool size, a power of two
  MaxFetchEvents   \* __max_ongoing_fetch_events

ASSUME StreamsAssumption ==
  /\ Params \subseteq Nat /\ IsFiniteSet(Params)
  /\ NBlocks \in Nat /\ NBlocks >= Cardinality(Params) /\ PoolSize \in Nat \ {0} /\ MaxFetchEvents \in Nat

VARIABLES
  transport, \* what gathers, for the whole run: "flag", the DPU with the GPU
             \* flag pool, "copy", the same with full parameter transfer,
             \* "host", the DPU without the pool, or "nccl", the baseline
  dpu,       \* gathers handed to the DPU, or to NCCL, and not executed yet
  flag,      \* GpuFlagPool._flags
  gens,      \* GpuFlagPool._gens
  nextSlot,  \* GpuFlagPool._next
  agQ,       \* operations queued on the allgather stream
  agPos,     \* number of operations the allgather stream has executed
  cuQ,       \* operations queued on the compute stream
  events,    \* __ongoing_fetch_events: positions of the allgather stream
  held,      \* blocks the allocator considers in use
  mem,       \* what a block holds: the parameters, and the weights' version
  weights,   \* version of the parameter shards (ds_tensor) in host memory
  pinned,    \* version in the pinned buffer of a parameter (cpu_full_param_pool)
  odd        \* history: the unordered accesses that have happened, "reused", a
             \* block given out again that a queued copy is still to read, and
             \* "early", a parameter loaded from host memory before it was saved

streamVars == <<transport, dpu, flag, gens, nextSlot, agQ, agPos, cuQ, events, held, mem, weights, pinned, odd>>

\* gpu_flag_pool.is_enabled()
flagPool == transport \in {"flag", "copy"}

Slot == 0 .. PoolSize - 1
Block == 1 .. NBlocks
NoBlock == 0
Content == [ps : SUBSET Params, ver : Nat]
Nothing == [ps |-> {}, ver |-> 0]   \* what a block holds once it is freed

\* A queued operation of a stream.  All have the same fields.
Op(kind, p, src, dst, n) == [op |-> kind, p |-> p, src |-> src, dst |-> dst, n |-> n]
WaitFlagOp(slot, gen) == Op("wait_flag", 0, slot, 0, gen)
WaitNcclOp            == Op("wait_nccl", 0, 0, 0, 0)
CatOp(p, src, dst)    == Op("cat", p, src, dst, 0)
LoadOp(p, dst)        == Op("load", p, 0, dst, 0)
SaveOp(p, b)          == Op("save", p, b, 0, 0)
WaitStreamOp(pos)     == Op("wait_stream", 0, 0, 0, pos)
KernelOp(p, b, ver)   == Op("kernel", p, b, 0, ver)
FreeOp(b)             == Op("free", 0, b, 0, 0)

\* The model before it is partitioned: every parameter in a block of its own.
ModelBlock == [p \in Params |-> Cardinality({q \in Params : q <= p})]

StreamsInit ==
  /\ transport \in {"flag", "copy", "host", "nccl"}
  /\ dpu = {}
  /\ flag = [s \in Slot |-> 0]
  /\ gens = [s \in Slot |-> 0]
  /\ nextSlot = 0
  /\ agQ = <<>> /\ agPos = 0
  /\ cuQ = <<>>
  /\ events = <<>>
  /\ held = {ModelBlock[p] : p \in Params}
  /\ mem = [b \in Block |-> [ps |-> {p \in Params : ModelBlock[p] = b}, ver |-> 0]]
  /\ weights = 1
  /\ pinned = [p \in Params |-> 0]
  /\ odd = {}

\* The n blocks the allocator hands out next: the lowest free ones.
FreshBlocks(n) ==
  CHOOSE S \in SUBSET (Block \ held) :
    /\ Cardinality(S) = n
    /\ \A b \in S, c \in (Block \ held) \ S : b < c

\* What giving out the blocks bs adds to the history: nothing orders what is
\* written to them with the copies queued earlier.
Reused(bs) == IF \E i \in DOMAIN agQ : agQ[i].op = "cat" /\ agQ[i].src \in bs THEN {"reused"} ELSE {}

-----------------------------------------------------------------------------
(* The flag pool *)

\* Mutant: the round robin is stuck on a slot.
AcquireStuck ==
  /\ nextSlot' = nextSlot
  /\ gens' = [gens EXCEPT ![nextSlot] = @ + 1]

\* Mutant: the round robin leaves the pool.
AcquireNoWrap ==
  /\ nextSlot' = nextSlot + 1
  /\ gens' = [gens EXCEPT ![nextSlot] = @ + 1]

\* acquire(): the slots go round, each use of a slot has the next generation.
Acquired == [slot |-> nextSlot, gen |-> gens[nextSlot] + 1]

Acquire ==
  /\ nextSlot' = (nextSlot + 1) % PoolSize
  /\ gens' = [gens EXCEPT ![nextSlot] = @ + 1]

-----------------------------------------------------------------------------
(* What the host thread queues.  A handle is what the gather of the set ps *)
(* of parameters leaves with the caller: its buffer and its flag.           *)

Handle == [ps : SUBSET Params, out : 0 .. NBlocks, slot : 0 .. PoolSize - 1, gen : Nat]
NoFlag == 0   \* generations count from 1
NoHandle == [ps |-> {}, out |-> NoBlock, slot |-> 0, gen |-> 0]

\* The handle all_gather_coalesced(ps) returns.
NewHandle(ps) ==
  [ps |-> ps, out |-> CHOOSE b \in FreshBlocks(1) : TRUE,
   slot |-> Acquired.slot, gen |-> IF flagPool THEN Acquired.gen ELSE NoFlag]

\* The baseline measures the copy of its shard with torch.cuda.synchronize():
\* the host thread hands a gather over once the streams and NCCL are idle.
DeviceIdle == dpu = {} /\ agQ = <<>> /\ cuQ = <<>>

\* all_gather_coalesced: a flag slot, a buffer, a command to the DPU.
EnqueueGather(h) ==
  /\ transport = "nccl" => DeviceIdle
  /\ IF flagPool THEN Acquire ELSE UNCHANGED <<gens, nextSlot>>
  /\ held' = held \cup {h.out}
  /\ odd' = odd \cup Reused({h.out})
  /\ dpu' = dpu \cup {h}

\* _allgather_params: the list version of the gather, that the host waits for.
ListHandle(p) == [ps |-> {p}, out |-> CHOOSE b \in FreshBlocks(1) : TRUE, slot |-> 0, gen |-> NoFlag]

EnqueueList(p) ==
  /\ dpu' = dpu \cup {ListHandle(p)}
  /\ held' = held \cup {ListHandle(p).out}
  /\ odd' = odd \cup Reused({ListHandle(p).out})

\* Fetch events not reached by the allgather stream (Event.query() is FALSE).
Ongoing(evs) == SelectSeq(evs, LAMBDA e : e > agPos)

\* The host goes on with a fetch while at most __max_ongoing_fetch_events
\* are ongoing; otherwise it waits for the oldest one.
MayQueueFetch == Len(Ongoing(events)) <= MaxFetchEvents

\* A gather of parameters that all are in host memory: no communication.
FromHost(h) == h.out = NoBlock

\* The n-th element of a set of numbers, the smallest first.
Nth(S, n) == CHOOSE x \in S : Cardinality({y \in S : y < x}) = n - 1

\* A set of numbers in that order.
Ascending(S) == [n \in 1 .. Cardinality(S) |-> Nth(S, n)]

\* The copies that make the parameters of h, in the order of ds_id, each to a
\* block of its own: from the buffer of a coalesced gather, or from the host.
CatOps(h) ==
  LET dst == FreshBlocks(Cardinality(h.ps))
  IN  [i \in 1 .. Cardinality(h.ps) |->
         IF FromHost(h) THEN LoadOp(Nth(h.ps, i), Nth(dst, i))
         ELSE CatOp(Nth(h.ps, i), h.out, Nth(dst, i))]

\* A gather whose buffer becomes its one parameter.
Single(h) == Cardinality(h.ps) = 1 /\ ~ FromHost(h)

\* The copies, none if the buffer becomes the parameter.
CopyOps(h) == IF Single(h) THEN <<>> ELSE CatOps(h)

\* The wait of the stream for the gather.
ArrivalOps(h) ==
  IF FromHost(h) THEN <<>>
  ELSE CASE flagPool           -> <<WaitFlagOp(h.slot, h.gen)>>
         [] transport = "nccl" -> <<WaitNcclOp>>
         [] OTHER              -> <<>>

\* What wait() puts on the current (allgather) stream: the wait for the gather
\* and, for several parameters, one torch.cat per parameter.
WaitOps(h) == ArrivalOps(h) \o CopyOps(h)

\* Mutant: every parameter of a coalesced gather is the first one.
DataBlockFirst(h, p) == IF Single(h) THEN h.out ELSE CatOps(h)[1].dst

\* The block parameter p lives in after wait().  The buffer of a single
\* gather becomes the parameter; the one of a coalesced gather is dropped.
DataBlock(h, p) ==
  IF Single(h) THEN h.out
  ELSE LET ops == CatOps(h) IN ops[CHOOSE i \in DOMAIN ops : ops[i].p = p].dst

\* Without the flag pool the host thread itself waits for the DPU
\* (comch_req_wait_py) before it queues anything.
HostMayPass(h) == transport = "host" => h \notin dpu

\* The wait for a gather from host memory ends when the host thread sees the
\* flag that the allgather stream writes behind the copies.
LoadsDone == \A i \in DOMAIN agQ : agQ[i].op # "load"

\* wait() of a handle that has not been waited for.  partitions = None gives
\* the flat buffer back to the allocator while the copies are still queued:
\* record_stream with the stream the buffer was allocated on does not delay
\* that.
QueueWait(h) ==
  /\ agQ' = agQ \o WaitOps(h)
  /\ held' = (held \ (IF Single(h) THEN {} ELSE {h.out})) \cup {DataBlock(h, p) : p \in h.ps}
  /\ odd' = odd \cup (IF Single(h) THEN {} ELSE Reused({DataBlock(h, p) : p \in h.ps}))
  /\ events' = Append(Ongoing(events), agPos + Len(agQ) + Len(WaitOps(h)))

\* wait() of a handle that is complete already: only the event is recorded.
QueueNoWait ==
  /\ events' = Append(Ongoing(events), agPos + Len(agQ))
  /\ UNCHANGED <<agQ, held, odd>>

\* Mutant: the compute stream does not wait for the allgather stream.
JoinOpsMissing == <<>>

\* torch.cuda.current_stream().wait_stream(self.__allgather_stream)
JoinOps == <<WaitStreamOp(agPos + Len(agQ))>>

\* free_param of the parameters in the blocks bs: record_stream keeps a block
\* until the compute stream has gone past everything queued so far, the
\* operations ops included.
Free(bs, ops) ==
  /\ cuQ' = cuQ \o ops \o [i \in 1 .. Cardinality(bs) |-> FreeOp(Nth(bs, i))]
  /\ UNCHANGED held

-----------------------------------------------------------------------------
(* What happens behind the host *)

\* The DPU, or NCCL, has gathered the shards of every rank into the buffer of
\* h; the DPU then writes the generation into the slot.
DpuGather(h) ==
  /\ h \in dpu
  /\ mem' = [mem EXCEPT ![h.out] = [ps |-> h.ps, ver |-> weights]]
  /\ flag' = IF h.gen # NoFlag THEN [flag EXCEPT ![h.slot] = h.gen] ELSE flag
  /\ dpu' = dpu \ {h}
  /\ UNCHANGED <<transport, gens, nextSlot, agQ, agPos, cuQ, events, held, weights, pinned, odd>>

\* Mutant: the stream waits for the generation before.
FlagReachedOld(o) == flag[o.src] = o.n - 1

\* cuStreamWaitValue32(EQ)
FlagReached(o) == flag[o.src] = o.n

\* The copy to host memory that a load of the parameter p should follow.
SavePending(p) == \E i \in DOMAIN cuQ : cuQ[i].op = "save" /\ cuQ[i].p = p

AllGatherStream ==
  /\ agQ # <<>>
  /\ LET o == Head(agQ) IN
     \/ /\ o.op = "wait_flag" /\ FlagReached(o)
        /\ UNCHANGED <<mem, odd>>
     \/ \* the event of the one gather NCCL has
        /\ o.op = "wait_nccl" /\ dpu = {}
        /\ UNCHANGED <<mem, odd>>
     \/ /\ o.op = "cat"
        /\ mem' = [mem EXCEPT ![o.dst] =
                     [ps |-> mem[o.src].ps \cap {o.p}, ver |-> mem[o.src].ver]]
        /\ UNCHANGED odd
     \/ \* nothing orders the two copies: they are on two streams
        /\ o.op = "load"
        /\ mem' = [mem EXCEPT ![o.dst] = [ps |-> {o.p}, ver |-> pinned[o.p]]]
        /\ odd' = odd \cup (IF SavePending(o.p) THEN {"early"} ELSE {})
  /\ agQ' = Tail(agQ) /\ agPos' = agPos + 1
  /\ UNCHANGED <<transport, dpu, flag, gens, nextSlot, cuQ, events, held, weights, pinned>>

ComputeStream ==
  /\ cuQ # <<>>
  /\ LET o == Head(cuQ) IN
     \/ /\ o.op = "wait_stream" /\ o.n <= agPos
        /\ UNCHANGED <<held, mem, pinned>>
     \/ /\ o.op = "kernel"
        /\ UNCHANGED <<held, mem, pinned>>
     \/ /\ o.op = "save"
        /\ pinned' = [pinned EXCEPT ![o.p] = mem[o.src].ver]
        /\ UNCHANGED <<held, mem>>
     \/ /\ o.op = "free"
        /\ held' = held \ {o.src}
        /\ mem' = [mem EXCEPT ![o.src] = Nothing]
        /\ UNCHANGED pinned
  /\ cuQ' = Tail(cuQ)
  /\ UNCHANGED <<transport, dpu, flag, gens, nextSlot, agQ, agPos, events, weights, odd>>

\* __reduce_and_partition_stream.synchronize() at the end of a backward pass:
\* the stream has waited for every kernel queued so far.
KernelsDrained == \A i \in DOMAIN cuQ : cuQ[i].op # "kernel"
=============================================================================
