------------------------------ MODULE ZeroLayout ------------------------------
(***************************************************************************)
(* Where the elements of the parameters and of their gradients lie: the     *)
(* shard of a rank, the flat buffers of the sub-groups, the input and the   *)
(* output of a coalesced reduce-scatter, a gathered parameter               *)
(* (smartnic_offload/partition_parameters.py, zero_optimizer.py).           *)
(*                                                                         *)
(* A tensor is a sequence; offsets count from 0, as in the code.            *)
(***************************************************************************)
EXTENDS Integers, Sequences, FiniteSets, SequencesExt

CONSTANTS
  Params,       \* ds_id of the parameters, a set of naturals
  Numel,        \* ds_numel of each
  World,        \* world_size
  Rank,         \* rank of the process the model is about
  SubGroupSize  \* sub_group_size

ASSUME LayoutAssumption ==
  /\ Params \subseteq Nat /\ IsFiniteSet(Params) /\ Params # {}
  /\ Numel \in [Params -> Nat \ {0}]
  /\ World \in Nat \ {0} /\ Rank \in 0 .. World - 1
  /\ SubGroupSize \in Nat \ {0}

Ranks == 0 .. World - 1

\* tensor.narrow(0, off, n)
Narrow(t, off, n) == SubSeq(t, off + 1, off + n)

\* t[a:b], cut at the end of t
Slice(t, a, b) == SubSeq(t, a + 1, IF b < Len(t) THEN b ELSE Len(t))

\* math.ceil(n / world_sz)
CeilDiv(n) == (n + World - 1) \div World

-----------------------------------------------------------------------------
(* Parameters *)

PaddingSize(n) == IF n % World = 0 THEN 0 ELSE World - (n % World)
AlignedSize(n) == n + PaddingSize(n)
PartitionSize(n) == AlignedSize(n) \div World

\* param.partition_numel()
PartNumel == [p \in Params |-> PartitionSize(Numel[p])]

\* Padding: an element of no parameter.
PadElem == <<0, 0>>
Elems(p) == [i \in 1 .. Numel[p] |-> <<p, i>>]

\* _partition_param: the shard of rank r of the flattened tensor t.
Shard(t, r) ==
  LET n == PartitionSize(Len(t))
  IN  [j \in 1 .. n |-> IF r * n + j <= Len(t) THEN t[r * n + j] ELSE PadElem]

\* What an all-gather leaves in the flat buffer: the inputs in rank order.
AllGathered(inputs) == FlattenSeq([r \in 1 .. World |-> inputs[r - 1]])

\* _allgather_param and AllGatherHandle: one parameter from its flat buffer.
GatherSingle(p, flat) == Narrow(flat, 0, Numel[p])

\* The coalesced buffer: each rank's shards of the parameters ps, in a row.
CoalescedInput(ps, r) == FlattenSeq([i \in DOMAIN ps |-> Shard(Elems(ps[i]), r)])

SumOver(w, ps) ==
  LET sum[i \in 0 .. Len(ps)] == IF i = 0 THEN 0 ELSE sum[i - 1] + w[ps[i]]
  IN  sum[Len(ps)]
SumPart(ps) == SumOver(PartNumel, ps)

\* Mutant: the pieces of a parameter are cut without the offset of the
\* parameters before it.
GatherCoalescedAtZero(ps, i, flat) ==
  Narrow(FlattenSeq([r \in 1 .. World |-> Narrow(flat, (r - 1) * SumPart(ps), PartNumel[ps[i]])]),
         0, Numel[ps[i]])

\* AllGatherCoalescedHandle.wait: the i-th parameter is the concatenation of
\* its piece of each rank's part, without the padding.
GatherCoalesced(ps, i, flat) ==
  LET off == SumPart(SubSeq(ps, 1, i - 1))
      piece(r) == Narrow(flat, (r - 1) * SumPart(ps) + off, PartNumel[ps[i]])
  IN  Narrow(FlattenSeq([r \in 1 .. World |-> piece(r)]), 0, Numel[ps[i]])

\* _scatter_flat_to_list: the tensors of the output list, one of each rank.
Scattered(flat) ==
  LET n == Len(flat) \div World IN [r \in 1 .. World |-> Narrow(flat, (r - 1) * n, n)]

\* _allgather_params: each piece is copied to its place, the last one cut.
GatherList(ps, i, flat) ==
  LET part == PartNumel[ps[i]]
      off == SumPart(SubSeq(ps, 1, i - 1))
  IN  [k \in 1 .. Numel[ps[i]] |-> Scattered(flat)[((k - 1) \div part) + 1][off + ((k - 1) % part) + 1]]

\* _allgather_params_coalesced: one flat buffer per parameter.
GatherEach(ps, i, flats) == Narrow(flats[i], 0, Numel[ps[i]])

-----------------------------------------------------------------------------
(* Sub-groups and flat buffers.  There is one param_group, whose parameters  *)
(* are in the order of ds_id.                                               *)

AllParams == CHOOSE s \in [1 .. Cardinality(Params) -> Params] :
               \A i, j \in DOMAIN s : i < j => s[i] < s[j]

\* _create_fp16_sub_groups
SubGroups ==
  LET start == [open |-> <<>>, done |-> <<>>]
      split[n \in 0 .. Len(AllParams)] ==
        IF n = 0 THEN start
        ELSE LET g == Append(split[n - 1].open, AllParams[n]) IN
             IF SumPart(g) >= SubGroupSize \/ n = Len(AllParams)
             THEN [open |-> <<>>, done |-> Append(split[n - 1].done, g)]
             ELSE [split[n - 1] EXCEPT !.open = g]
  IN  IF SubGroupSize >= SumPart(AllParams)
      THEN <<AllParams>>
      ELSE split[Len(AllParams)].done

Groups == DOMAIN SubGroups
GroupOf == [p \in Params |-> CHOOSE g \in Groups : p \in ToSet(SubGroups[g])]
IndexOf(s, x) == CHOOSE i \in DOMAIN s : s[i] = x

\* _move_to_flat_buffer: the shards of a sub-group one after the other.
WeightLayout == [g \in Groups |->
  FlattenSeq([i \in DOMAIN SubGroups[g] |-> Shard(Elems(SubGroups[g][i]), Rank)])]

\* set_grad_positions: offset in the flat buffer of the sub-group.
GradPosition == [p \in Params |->
  LET g == SubGroups[GroupOf[p]] IN SumPart(SubSeq(g, 1, IndexOf(g, p) - 1))]

\* __param_id_to_grad_offset: offset in __grad_partitions_flat_buffer.
GradOffset == [p \in Params |-> SumPart(SubSeq(AllParams, 1, IndexOf(AllParams, p) - 1))]

-----------------------------------------------------------------------------
(* reduce_scatter_coalesced.  Tensors hold cells; PadCell is what padding     *)
(* (torch.empty) holds, a value nobody may use.                              *)

PadCell == {}

\* The rank's chunk of a tensor, not padded.
Chunk(t, r) == Slice(t, r * CeilDiv(Len(t)), (r + 1) * CeilDiv(Len(t)))
Padded(c, n) == c \o [j \in 1 .. n - Len(c) |-> PadCell]

\* A single tensor that divides is sent as it is.
SentAsIs(ns) == Len(ns) = 1 /\ ns[1] % World = 0

\* torch.cat of every rank's chunks, rank by rank.
Interleaved(ts) ==
  FlattenSeq([r \in 1 .. World |->
    FlattenSeq([i \in DOMAIN ts |-> Padded(Chunk(ts[i], r - 1), CeilDiv(Len(ts[i])))])])

\* What the reduce-scatter leaves in the output of this rank.
ReduceScattered(input) == Narrow(input, Rank * (Len(input) \div World), Len(input) \div World)

\* output_lst: the slice of the i-th parameter of ps in the output.
ChunkNumel == [p \in Params |-> CeilDiv(Numel[p])]
ViewOffset(ps, i) == SumOver(ChunkNumel, SubSeq(ps, 1, i - 1))
ViewNumel == [p \in Params |-> Len(Chunk(Elems(p), Rank))]

\* __partition_grads does nothing for a parameter whose shard is empty.
EmptyShards == {p \in Params : PartNumel[p] * Rank > Numel[p]}

-----------------------------------------------------------------------------
(* The reduction of one gradient on its own, reduce_gradients_at_owner and     *)
(* partition_gradients of a parameter: the optimizer does without them.       *)

\* _reduce_scatter_gradient: the piece of rank r, padded with zeros.
GradPiece(g, r) ==
  LET n == PartitionSize(Len(g)) IN Slice(g, r * n, (r + 1) * n) \o
      [j \in 1 .. n - Len(Slice(g, r * n, (r + 1) * n)) |-> PadCell]

\* torch.distributed.reduce_scatter: rank r gets the sum of its pieces.  A cell
\* is the set of what has been added up.
PiecesReduced(grads, r) ==
  LET pieces == [q \in Ranks |-> GradPiece(grads[q], r)]
  IN  [j \in DOMAIN pieces[0] |-> UNION {pieces[q][j] : q \in Ranks}]

\* _reduce_scatter_gradients: on rank r the result is in the gradient itself,
\* where the piece is a view of it, or copied there without the padding.
GradReduced(grads, r) ==
  LET start == r * PartitionSize(Len(grads[r]))
      out == PiecesReduced(grads, r)
  IN  [i \in DOMAIN grads[r] |-> IF i - start \in DOMAIN out THEN out[i - start] ELSE grads[r][i]]

\* _partition_gradient: the shard of rank r, into the buffer or added to it.
GradPartitioned(g, r, buffer, accumulate) ==
  LET start == r * PartitionSize(Len(g))
  IN  [j \in DOMAIN buffer |->
         IF start + j > Len(g) THEN buffer[j]
         ELSE IF accumulate THEN buffer[j] \cup g[start + j] ELSE g[start + j]]

-----------------------------------------------------------------------------
\* Whatever way a parameter is gathered, alone or with others, its elements
\* come back in order and without padding (_partition_param against the four
\* gather paths of partition_parameters.py).
GatherRoundTrip ==
  \A n \in 1 .. Cardinality(Params) :
    LET ps == SubSeq(AllParams, 1, n)
        flat == AllGathered([r \in Ranks |-> CoalescedInput(ps, r)])
        flats == [i \in 1 .. n |-> AllGathered([r \in Ranks |-> Shard(Elems(ps[i]), r)])]
    IN  \A i \in 1 .. n :
          /\ GatherSingle(ps[i], flats[i]) = Elems(ps[i])
          /\ GatherCoalesced(ps, i, flat) = Elems(ps[i])
          /\ GatherList(ps, i, flat) = Elems(ps[i])
          /\ GatherEach(ps, i, flats) = Elems(ps[i])

\* One gradient reduced on its own, then partitioned, is what is left of it in
\* the output of a coalesced reduce-scatter, and a second one is added to the
\* first (_reduce_scatter_gradients, _partition_gradient against
\* reduce_scatter_coalesced).
ReduceRoundTrip ==
  \A p \in Params :
    LET grads == [r \in Ranks |-> [i \in 1 .. Numel[p] |-> {<<r, i>>}]]
        sum == [i \in 1 .. Numel[p] |-> UNION {grads[r][i] : r \in Ranks}]
        own == GradReduced(grads, Rank)
        zeros == [j \in 1 .. PartNumel[p] |-> PadCell]
        first == GradPartitioned(own, Rank, zeros, FALSE)
        older == [j \in 1 .. PartNumel[p] |-> {<<World, j>>}]
    IN  /\ Narrow(ReduceScattered(Interleaved(<<sum>>)), 0, ViewNumel[p]) = Narrow(first, 0, ViewNumel[p])
        /\ \A j \in ViewNumel[p] + 1 .. PartNumel[p] : first[j] = PadCell
        /\ GradPartitioned(own, Rank, older, TRUE) = [j \in DOMAIN older |-> older[j] \cup first[j]]

\* Neither a gather nor a reduction loses, repeats or misplaces an element.
LayoutRoundTrip == GatherRoundTrip /\ ReduceRoundTrip
=============================================================================
