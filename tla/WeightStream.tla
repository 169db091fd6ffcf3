---------------------------- MODULE WeightStream ----------------------------
(***************************************************************************)
(* Streaming of weights from a shard to the GPU: HyperStreamEngine         *)
(* (swamp-engine/src/streamer.rs) over TransferEngine, TripleBuffer and    *)
(* ShardReader (swamp-gpu/src/streaming).  One client thread calls it; the *)
(* choices are what the Vulkan calls return.                               *)
(*                                                                         *)
(* A tensor is its key <<layer, name>>.  Of the transfers, slots and       *)
(* timeline values are kept, not the bytes.                                *)
(***************************************************************************)
EXTENDS Integers, SequencesExt

CONSTANTS
    StreamLayers,   \* the shard's num_layers
    AllNames,       \* ALL_WEIGHT_NAMES, a sequence
    CoreNames,      \* CORE_WEIGHT_NAMES, a sequence
    Absent,         \* keys the index lacks, or whose range ends past the data
    TooBig,         \* keys of tensors larger than a slot
    MaxTimeline,    \* bound: uploads started
    MaxAhead        \* bound: the K that set_k may choose, and the drafted tokens

ASSUME StreamAssumption == MaxTimeline \in Nat

VARIABLES
    slotState,      \* TripleBuffer.slots[i].state
    writeIndex,     \* TripleBuffer.write_index
    timeline,       \* timeline_val
    queue,          \* prefetch_queue: [key, slot, tv]
    kAhead,         \* k
    todo,           \* the prefetch_layer calls the running call still makes
    answer,         \* the last LayerResult: [key, decision, data]
    failed,         \* history: uploads that failed after taking a slot
    closing         \* "open", or drop is "waiting" in sync_all, or "closed"

streamVars == <<slotState, writeIndex, timeline, queue, kAhead, todo, answer, failed, closing>>

Slots == 0..2
Names == ToSet(AllNames)
Keys == (0..(StreamLayers - 1)) \X Names
NoAnswer == [key |-> <<>>, decision |-> "none", data |-> FALSE]

StreamInit ==
    /\ slotState = [i \in Slots |-> "free"]
    /\ writeIndex = 0 /\ timeline = 0
    /\ queue = <<>>
    /\ kAhead = 3
    /\ todo = <<>>
    /\ answer = NoAnswer
    /\ failed = 0
    /\ closing = "open"

\* get_tensor
InShard(key) == key \in Keys \ Absent

\* No call is running
Idle == todo = <<>> /\ closing = "open"

-----------------------------------------------------------------------------
\* acquire_write_slot: the first free slot from write_index on, round the ring
FreeFrom == {d \in 0..2 : slotState[(writeIndex + d) % 3] = "free"}

\* Mutant: the index is not taken round the ring
WriteSlot_past == writeIndex + Min(FreeFrom)

WriteSlot == (writeIndex + Min(FreeFrom)) % 3

\* Mutant: the value before the increment
NextTimeline_old == timeline

\* next_timeline
NextTimeline == timeline + 1

\* prefetch_layer: a tensor that is not there, is too big, or finds no free slot
\* is a miss.  Any Vulkan call of upload_slot after the slot was taken may fail,
\* and then the slot stays in Staging.  Otherwise it is marked DeviceReady as
\* soon as the copy is submitted and queued with its timeline value.
PrefetchLayer(key) ==
    IF InShard(key) /\ key \notin TooBig /\ FreeFrom # {}
    THEN /\ timeline' = timeline + 1
         /\ writeIndex' = WriteSlot
         /\ \/ /\ slotState' = [slotState EXCEPT ![WriteSlot] = "staging"]
               /\ failed' = failed + 1
               /\ UNCHANGED queue
            \/ /\ slotState' = [slotState EXCEPT ![WriteSlot] = "ready"]
               /\ queue' = Append(queue, [key |-> key, slot |-> WriteSlot, tv |-> NextTimeline])
               /\ UNCHANGED failed
    ELSE UNCHANGED <<slotState, writeIndex, timeline, queue, failed>>

\* One of the calls the client makes, or that a prefetch_* call still has to make
CallPrefetch(key) ==
    /\ Idle /\ timeline < MaxTimeline
    /\ PrefetchLayer(key)
    /\ UNCHANGED <<kAhead, todo, answer, closing>>

PrefetchStep ==
    /\ todo # <<>> /\ timeline < MaxTimeline
    /\ PrefetchLayer(Head(todo))
    /\ todo' = Tail(todo)
    /\ UNCHANGED <<kAhead, answer, closing>>

KeysOf(l, names) == [i \in DOMAIN names |-> <<l, names[i]>>]
LayerKeys(l, names) == IF l < StreamLayers THEN KeysOf(l, names) ELSE <<>>

\* prefetch_k_ahead: all weights of the next layer, attention's of those beyond
AheadKeys(l) ==
    LayerKeys(l + 1, AllNames)
        \o FlattenSeq([a \in 1..Max({0, kAhead - 1}) |-> LayerKeys(l + 1 + a, CoreNames)])

PrefetchKAhead(l) ==
    /\ Idle
    /\ todo' = AheadKeys(l)
    /\ UNCHANGED <<slotState, writeIndex, timeline, queue, kAhead, answer, failed, closing>>

\* prefetch_with_dspark: per drafted token, by its confidence, the two layers at
\* an offset of num_layers / k each
DsparkKeys(l, conf) ==
    FlattenSeq([i \in DOMAIN conf |->
        IF conf[i] = "low" THEN <<>>
        ELSE LET off == l + 1 + (i - 1) * (StreamLayers \div kAhead)
                 names == IF conf[i] = "high" THEN AllNames ELSE CoreNames
             IN  FlattenSeq([j \in 1..2 |-> LayerKeys(off + j - 1, names)])])

PrefetchWithDspark(l) ==
    /\ Idle
    /\ \E conf \in [1..Min({MaxAhead, kAhead}) -> {"low", "mid", "high"}] :
        todo' = DsparkKeys(l, conf)
    /\ UNCHANGED <<slotState, writeIndex, timeline, queue, kAhead, answer, failed, closing>>

SetK(k) ==
    /\ Idle
    /\ kAhead' = Max({k, 1})
    /\ UNCHANGED <<slotState, writeIndex, timeline, queue, todo, answer, failed, closing>>

\* wait_for_timeline: the submission carries signal values and no semaphore to
\* signal, so the semaphore stays at 0 and the wait for a value times out
Signalled(tv) == tv <= 0

Matching(key) == {i \in DOMAIN queue : queue[i].key = key}

\* Mutant: the slot is kept when the wait times out
Released_onSuccess(r) == IF Signalled(r.tv) THEN [slotState EXCEPT ![r.slot] = "free"] ELSE slotState

\* Both outcomes of the wait release the record's slot
Released(r) == [slotState EXCEPT ![r.slot] = "free"]

\* Mutant: a prefetched tensor is answered from the GPU whatever the wait returned
Decision_queued(key) == IF Matching(key) # {} THEN "gpu" ELSE "cpu"

Decision(key) ==
    IF Matching(key) # {} /\ Signalled(queue[Min(Matching(key))].tv) THEN "gpu" ELSE "cpu"

\* wait_for_layer: the first record of the tensor is removed and its slot
\* released; unless the wait succeeded the data is read from the shard
WaitForLayer(key) ==
    /\ Idle
    /\ IF Matching(key) = {}
       THEN UNCHANGED <<queue, slotState>>
       ELSE LET i == Min(Matching(key)) IN
            /\ queue' = RemoveAt(queue, i)
            /\ slotState' = Released(queue[i])
    /\ answer' = [key |-> key, decision |-> Decision(key),
                  data |-> Decision(key) = "cpu" /\ InShard(key)]
    /\ UNCHANGED <<writeIndex, timeline, kAhead, todo, failed, closing>>

\* release_pending
ReleasePending ==
    /\ Idle
    /\ slotState' = [i \in Slots |->
                        IF \E r \in ToSet(queue) : r.slot = i THEN "free" ELSE slotState[i]]
    /\ queue' = <<>>
    /\ UNCHANGED <<writeIndex, timeline, kAhead, todo, answer, failed, closing>>

\* Drop: sync_all waits for the last timeline value without a timeout
DropEngine ==
    /\ Idle
    /\ closing' = IF timeline > 0 THEN "waiting" ELSE "closed"
    /\ UNCHANGED <<slotState, writeIndex, timeline, queue, kAhead, todo, answer, failed>>

StreamNext ==
    \/ \E key \in Keys : CallPrefetch(key) \/ WaitForLayer(key)
    \/ \E l \in 0..(StreamLayers - 1) : PrefetchKAhead(l) \/ PrefetchWithDspark(l)
    \/ \E k \in 0..MaxAhead : SetK(k)
    \/ PrefetchStep
    \/ ReleasePending
    \/ DropEngine

StreamSpec == StreamInit /\ [][StreamNext]_streamVars

-----------------------------------------------------------------------------
\* Properties

StreamTypeOK ==
    /\ slotState \in [Slots -> {"free", "staging", "ready"}]
    /\ writeIndex \in Slots
    /\ timeline \in 0..MaxTimeline
    /\ \A i \in DOMAIN queue : queue[i].key \in Keys /\ queue[i].slot \in Slots

\* No slot is lost or handed out twice: the ready slots are exactly those of the
\* queued records, one each, and only uploads that failed hold any other, for
\* every order of prefetches, waits that time out and releases.
SlotsAccounted ==
    /\ {i \in Slots : slotState[i] = "ready"} = {r.slot : r \in ToSet(queue)}
    /\ \A i, j \in DOMAIN queue : queue[i].slot = queue[j].slot => i = j
    /\ Cardinality({i \in Slots : slotState[i] = "staging"}) = failed

\* Records are queued in the order of their timeline values, and none waits for a
\* value no upload was given.
QueueInTimelineOrder ==
    /\ \A i, j \in DOMAIN queue : i < j => queue[i].tv < queue[j].tv
    /\ \A i \in DOMAIN queue : queue[i].tv \in 1..timeline

\* What wait_for_layer returns can be computed with: the tensor's data comes with
\* it exactly when the shard has it, whether or not a prefetch of it was queued,
\* as the slot it names was released and no transfer is known to be complete.
AnswerUsable == answer # NoAnswer => (answer.data <=> InShard(answer.key))

\* The engine through failed uploads, waits that time out and releases: slots, queue
\* and answers agree.
StreamInv == StreamTypeOK /\ SlotsAccounted /\ QueueInTimelineOrder /\ AnswerUsable
=============================================================================
