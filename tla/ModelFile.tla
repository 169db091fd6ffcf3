----------------------------- MODULE ModelFile -----------------------------
(***************************************************************************)
(* Loading a model: the header and tensor table of a GGUF file             *)
(* (swamp-gguf/src/mmap.rs, metadata.rs), the ring buffer of a layer's     *)
(* seven tensors and the groups of layers with equal weights               *)
(* (swamp-engine/src/model.rs).                                            *)
(*                                                                         *)
(* A byte of a tensor is a member of a small set; 0 is padding.  A key of  *)
(* the metadata is a pair of its prefix and the rest.                      *)
(***************************************************************************)
EXTENDS Naturals, FiniteSets, SequencesExt

CONSTANTS Alignment,   \* GGUF_ALIGNMENT: 32
          RingPadding, \* 64
          OffsetLimit, \* 2^64
          Archs,    \* the architectures of resolve, in order; the first is llama
          MetaFields       \* what is looked up under a prefix

ASSUME ModelFileAssumption ==
    /\ Alignment \in Nat \ {0} /\ RingPadding \in Nat \ {0}
    /\ Len(Archs) \in Nat \ {0} /\ OffsetLimit \in Nat

VARIABLE model         \* a file, as it was opened

TensorNames == 1..7    \* q, k, v, output, gate, up, down

RoundUp(n, a) == ((n + a - 1) \div a) * a

\* parse: where the data starts, and the offset of a tensor in the file.  The sum is
\* not checked; a release build wraps it.
DataOffset(f) == RoundUp(f.headerEnd, Alignment)
AbsoluteOffset(f, t) ==
    LET sum == t.offset + DataOffset(f)
    IN  IF sum < OffsetLimit THEN sum ELSE sum - OffsetLimit

\* tensor_raw_bytes: an error if the range ends outside the file.
InFile_start(f, t) == AbsoluteOffset(f, t) <= f.length
InFile(f, t) == AbsoluteOffset(f, t) + t.nbytes <= f.length
TensorRawBytes(f, t) ==
    {b \in 0 .. (AbsoluteOffset(f, t) + t.nbytes) : InFile(f, t) /\ b >= AbsoluteOffset(f, t)
                                                     /\ b < AbsoluteOffset(f, t) + t.nbytes}

\* resolve: the key itself, or the key under another prefix.  Only the name of the
\* file's own architecture is ever replaced or put in.
KeyCandidates_direct(arch, field) == <<<<Archs[1], field>>>>
KeyCandidates(arch, field) ==
    <<<<Archs[1], field>>>> \o
        (IF arch = Archs[1] THEN [i \in 1 .. Len(Archs) - 1 |-> <<Archs[i + 1], field>>]
                               ELSE <<<<arch, field>>>>)
Resolve(f, field) ==
    LET keys == KeyCandidates(f.arch, field)
        found == {i \in DOMAIN keys : keys[i] \in f.keys}
    IN  IF found = {} THEN <<>> ELSE keys[Min(found)]

\* build_layer_ring: the tensors one after the other, padded to a cache line.
Offset_after(layer, t) == Len(FlattenSeq(SubSeq(layer, 1, t)))
Offset(layer, t) == Len(FlattenSeq(SubSeq(layer, 1, t - 1)))
Ring(layer) ==
    LET all == FlattenSeq(layer)
    IN  [i \in 1 .. RoundUp(Len(all), RingPadding) |-> IF i <= Len(all) THEN all[i] ELSE 0]
\* q_slice .. down_slice: up to the next offset, the last up to the end of the ring.
Slice(layer, t) ==
    SubSeq(Ring(layer), Offset(layer, t) + 1,
           IF t < 7 THEN Offset(layer, t + 1) ELSE Len(Ring(layer)))

\* detect_weight_groups
NextLayer(layers, acc, l) ==
    IF l > 1 /\ Ring(layers[l]) = Ring(layers[l - 1])
    THEN [acc EXCEPT !.current = Append(@, l)]
    ELSE [groups |-> IF acc.current = <<>> THEN acc.groups ELSE Append(acc.groups, acc.current),
          current |-> <<l>>]
Grouped(layers) ==
    FoldLeft(LAMBDA acc, l : NextLayer(layers, acc, l), [groups |-> <<>>, current |-> <<>>],
             [l \in DOMAIN layers |-> l])
WeightGroups_lastLost(layers) == Grouped(layers).groups
WeightGroups(layers) ==
    IF layers = <<>> THEN <<>> ELSE Append(Grouped(layers).groups, Grouped(layers).current)

\* VirtualExpertPrefetcher: the rows of expert e, the last taking the remainder, and
\* the bytes of them the executor asks PrefetchEngine for in a tensor of that many rows.
ExpertEnd_even(rows, n, e) == (e + 1) * (rows \div n)
ExpertEnd(rows, n, e) == IF e = n - 1 THEN rows ELSE (e + 1) * (rows \div n)
ExpertRows(rows, n, e) == (e * (rows \div n)) .. (ExpertEnd(rows, n, e) - 1)
PredictExpert(hash, n) == hash % n
ExpertBytes(f, t, rows, n, e) ==
    LET rowSize == t.nbytes \div rows
        start == AbsoluteOffset(f, t) + e * (rows \div n) * rowSize
    IN  start .. (start + Cardinality(ExpertRows(rows, n, e)) * rowSize - 1)
\* prefetch_range
Prefetched(f, t, rows, n, e) ==
    {b \in ExpertBytes(f, t, rows, n, e) : Max(ExpertBytes(f, t, rows, n, e)) < f.length}

-----------------------------------------------------------------------------
\* A file as open and load leave it; no offset in it wraps; and the rings of layers of unlike tensors, whose
\* offsets detect_weight_groups does not compare, happen never to be equal.
Opened(f) ==
    /\ f.headerEnd \in Nat /\ f.length \in Nat
    /\ \A t \in f.tensors : t.offset \in 0 .. OffsetLimit - 1 /\ t.nbytes \in Nat
    /\ f.layers \in Seq([TensorNames -> Seq(Nat)])
    /\ f.ffnRows \in Nat \ {0} /\ f.experts \in Nat \ {0}
OffsetsFit(f) == \A t \in f.tensors : t.offset + DataOffset(f) < OffsetLimit
RingsTellSizes(f) ==
    \A l, m \in DOMAIN f.layers : Ring(f.layers[l]) = Ring(f.layers[m]) =>
        \A t \in TensorNames : Len(f.layers[l][t]) = Len(f.layers[m][t])

\* What tensor_raw_bytes hands out lies inside the file and behind the header, for
\* every header end and every file cut short.
TensorsInFile ==
    \A t \in model.tensors :
        /\ TensorRawBytes(model, t) \subseteq model.headerEnd .. model.length - 1
        /\ Cardinality(TensorRawBytes(model, t)) \in {0, t.nbytes}

\* The slices of a ring are the tensors it was built of, in their order; only the
\* last is followed by padding, by less than a cache line.
SlicesAreTensors ==
    \A l \in DOMAIN model.layers : \A t \in TensorNames :
        LET s == Slice(model.layers[l], t)  tensor == model.layers[l][t] IN
        /\ SubSeq(s, 1, Len(tensor)) = tensor
        /\ Len(s) < Len(tensor) + (IF t = 7 THEN RingPadding ELSE 1)

\* The groups are all the layers in order, cut exactly where two neighbours differ in
\* a tensor.
GroupsPartitionLayers ==
    LET groups == WeightGroups(model.layers) IN
    /\ FlattenSeq(groups) = [l \in DOMAIN model.layers |-> l]
    /\ \A g \in DOMAIN groups : \A i, j \in DOMAIN groups[g] :
          model.layers[groups[g][i]] = model.layers[groups[g][j]]
    /\ \A g \in 1 .. Len(groups) - 1 :
          model.layers[Last(groups[g])] /= model.layers[groups[g + 1][1]]

\* A value the file gives for its own architecture is found, and only a key llama.*
\* in the same file can hide it.
OwnKeyFound ==
    \A field \in MetaFields :
        <<model.arch, field>> \in model.keys =>
            Resolve(model, field) \in {<<model.arch, field>>, <<Archs[1], field>>} \cap model.keys

\* The experts share out the rows of a tensor, each row to one of them, and the bytes
\* fetched for one are bytes of that tensor, whatever remainder the division leaves.
ExpertsShareRows ==
    LET rows == model.ffnRows  n == model.experts IN
    /\ UNION {ExpertRows(rows, n, e) : e \in 0 .. n - 1} = 0 .. rows - 1
    /\ \A e, g \in 0 .. n - 1 : e /= g => ExpertRows(rows, n, e) \cap ExpertRows(rows, n, g) = {}
    /\ \A hash \in 0 .. 2 * n : \A t \in model.tensors : InFile(model, t) =>
          Prefetched(model, t, rows, n, PredictExpert(hash, n)) \subseteq TensorRawBytes(model, t)

\* What loading makes of a file: tensors inside it, slices and groups that are theirs,
\* the values of its own architecture, and experts that share out its rows.
ModelFileInv ==
    /\ TensorsInFile
    /\ SlicesAreTensors
    /\ GroupsPartitionLayers
    /\ OwnKeyFound
    /\ ExpertsShareRows
=============================================================================
