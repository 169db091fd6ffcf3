------------------------------ MODULE Drafting ------------------------------
(***************************************************************************)
(* Speculative decoding with PatternDraft (swamp-engine/src/dspark.rs), as *)
(* the decode loop of executor.rs uses it: a ring of the last observations *)
(* (hash of the hidden state, token, position), the draft and the similar  *)
(* positions looked up in it, the cold pages predicted from them, the      *)
(* positions attention_fugu attends to, and the file that carries the ring *)
(* from one generation to the next.                                        *)
(*                                                                         *)
(* A hidden state is abstracted to its hash, the set of its one bits.      *)
(* Generations follow one another; one may end, or the process may crash,  *)
(* between any two steps.                                                  *)
(***************************************************************************)
EXTENDS Naturals, FiniteSets, SequencesExt

CONSTANTS
    Hashes, NumBits,       \* the hashes that occur, subsets of 1..NumBits
    Tokens,
    Capacity, DraftLength, \* PatternDraft::new
    SaveEvery,             \* save_if_due: 100
    StartPositions,        \* positions of the first sampled token: prompt length - 1, so
                           \* 0 for a prompt of one token
    MaxPos,                \* bound: a generation stops there
    MaxObservations,       \* bound on the observations the ring goes back to
    Candidates,            \* num_dspark of Fugu's strategy
    Window, Stride,        \* window and sentinel_stride of Fugu's strategy
    Matches, TooNear, Lookback, Lookahead, MaxPages, PageTokens \* predict_cold_pages

ASSUME DraftingAssumption ==
    /\ {Capacity, DraftLength, SaveEvery, Window, Stride, PageTokens} \subseteq Nat \ {0}
    /\ NumBits \in Nat /\ \A h \in Hashes : h \subseteq 1..NumBits
    /\ StartPositions \subseteq Nat
    /\ {Candidates, Matches, TooNear, Lookback, Lookahead, MaxPages} \subseteq Nat

VARIABLES
    ring,      \* hashes, tokens and positions of the slots
    head, len,
    count,     \* draft_observations of the running generation
    pos,       \* pos of the decode loop
    pc,        \* where the generation stands in its step
    predicted, \* predicted_cold_pages
    file,      \* SWAMP_DRAFT_PATH
    tmp,       \* how much the file with ".tmp" holds of the ring that is being saved
    hist,      \* ghost: what the ring has observed since it was last empty, with the
               \* token the client was sent
    unsaved    \* ghost: a save has failed since the last one that succeeded

draftVars == <<ring, head, len, count, pos, pc, predicted, file, tmp, hist, unsaved>>

Slots == 0 .. Capacity - 1
Empty == [hash |-> {}, token |-> 0, pos |-> 0]

\* The file.  save_to writes the ring, head and len in one write_all.
Absent == [kind |-> "absent"]
Partial == [kind |-> "partial"]
Whole == [kind |-> "whole", ring |-> ring, head |-> head, len |-> len, hist |-> hist]

\* (hash ^ h).count_ones()
Distance(a, b) == Cardinality((a \ b) \cup (b \ a))

\* ordered_idx: the slot of the logical-th oldest observation.
OrderedIdx_fromZero(logical) == logical
OrderedIdx(logical) == IF len < Capacity THEN logical ELSE (head + logical) % Capacity

At(logical) == ring[OrderedIdx(logical)]

\* draft: the first of the nearest observations that have draft_length followers.
SearchLen_all == len
SearchLen == len - DraftLength
Best(h) ==
    CHOOSE i \in 0 .. SearchLen - 1 :
        /\ \A j \in 0 .. SearchLen - 1 : Distance(h, At(i).hash) <= Distance(h, At(j).hash)
        /\ \A j \in 0 .. i - 1 : Distance(h, At(i).hash) < Distance(h, At(j).hash)
\* 90, 50 and 10 per cent, or no draft at all
Confidence(d) == CASE d = 0 -> 90 [] d > 0 /\ d <= NumBits \div 4 -> 50
                   [] d > NumBits \div 4 /\ d <= NumBits \div 2 -> 10 [] OTHER -> 0
Draft(h) ==
    IF len < DraftLength + 1 \/ Confidence(Distance(h, At(Best(h)).hash)) = 0 THEN <<>>
    ELSE [j \in 1 .. Cardinality({k \in 1..DraftLength : Best(h) + k < len}) |->
            [token |-> At(Best(h) + j).token, conf |-> Confidence(Distance(h, At(Best(h)).hash))]]

\* find_similar_positions: sorted by distance, the older of two equal ones first, so
\* that k - 1 observations come before the k-th.
Nearer(h, i, j) ==
    LET di == Distance(h, At(i).hash)
        dj == Distance(h, At(j).hash)
    IN  di < dj \/ (di = dj /\ i < j)
Rank(h, i) == Cardinality({j \in 0 .. len - 1 : Nearer(h, j, i)})
FindSimilar(h, n) ==
    IF len < 2 THEN <<>>
    ELSE [k \in 1 .. Min({n, len}) |-> At(CHOOSE i \in 0 .. len - 1 : Rank(h, i) = k - 1).pos]

\* if !contains { push }
AddNew(acc, x) == IF Contains(acc, x) THEN acc ELSE Append(acc, x)

\* PagedKVCache::page_id
PageId(p) == p \div PageTokens

\* The last page predicted around match m, for the step at position p.
LastPredicted_unclamped(m, p) == PageId(m + Lookahead)
LastPredicted(m, p) == PageId(Min({m + Lookahead, p}))

\* The pages around a match that is far enough back.
PagesAround(m, p) ==
    LET start == PageId(IF m > Lookback THEN m - Lookback ELSE 0)
    IN  [i \in 1 .. (LastPredicted(m, p) + 1 - start) |-> start + i - 1]
AddPages(acc, m, p) ==
    IF m < p /\ p - m >= TooNear THEN FoldLeft(AddNew, acc, PagesAround(m, p)) ELSE acc

\* predict_cold_pages, and what the executor keeps of it: sorted, without repeats.
\* Both truncate to MaxPages.
PredictColdPages(h, p) ==
    LET found == FoldLeft(LAMBDA acc, m : AddPages(acc, m, p), <<>>, FindSimilar(h, Matches))
    IN  Range(SubSeq(found, 1, Min({MaxPages, Len(found)})))

\* attention_fugu: sentinels, the window, then the candidates it does not have yet.
\* The query is the newest position, so valid_end = q_pos.
Selectable_any(dp, p) == TRUE
Selectable(dp, p) == dp <= p
Attend(acc, dp, p) == IF Selectable(dp, p) THEN AddNew(acc, dp) ELSE acc
FuguPositions(candidates, p) ==
    LET start == IF p > Window THEN p - Window + 1 ELSE 0
        sentinels == [i \in 1 .. Min({start \div Stride, 128}) |-> Stride * (i - 1)]
        window == [i \in 1 .. (p + 1 - start) |-> start + i - 1]
    IN  FoldLeft(LAMBDA acc, dp : Attend(acc, dp, p), sentinels \o window, candidates)

\* PatternDraft::new
FreshRing == [s \in Slots |-> Empty]
\* load_draft_cache: a file that is absent or too short leaves the fresh ring.  The
\* count of observations goes on from the length of the ring.
LoadDraftCache(f) ==
    LET w == IF f.kind = "whole" THEN f
             ELSE [ring |-> FreshRing, head |-> 0, len |-> 0, hist |-> <<>>]
    IN  /\ ring' = w.ring /\ head' = w.head /\ len' = w.len /\ hist' = w.hist
        /\ count' = w.len

\* A prompt of several tokens ends with an observation of its own; the only token of
\* a short one is a step of the loop.
Begin(p) == IF p > 0 THEN "prefill" ELSE "sample"

DraftingInit ==
    /\ ring = FreshRing /\ head = 0 /\ len = 0 /\ count = 0 /\ hist = <<>>
    /\ pos \in StartPositions
    /\ pc = Begin(pos)
    /\ predicted = {}
    /\ file = Absent /\ tmp = "absent"
    /\ unsaved = FALSE

\* A generation starts: the one before has ended, or its process crashed.
StartGeneration ==
    /\ LoadDraftCache(file)
    /\ pos' \in StartPositions
    /\ pc' = Begin(pos')
    /\ predicted' = {}
    /\ unsaved' = FALSE
    /\ UNCHANGED <<file, tmp>>

\* The draft is taken only if it is sure and says what the sampler says.
Accepts(draft, sampled) == draft /= <<>> /\ draft[1].conf > 60 /\ draft[1].token = sampled

\* save_if_due
Due_next(n) == n > 1 /\ (n - 1) % SaveEvery = 0
Due(n) == n > 0 /\ n % SaveEvery = 0

\* observe_at
Observe(h, token, sampled) ==
    /\ pos <= MaxPos /\ Len(hist) < MaxObservations
    /\ ring' = [ring EXCEPT ![head] = [hash |-> h, token |-> token, pos |-> pos]]
    /\ head' = (head + 1) % Capacity
    /\ len' = Min({len + 1, Capacity})
    /\ hist' = Append(hist, [hash |-> h, token |-> sampled, pos |-> pos])

\* The token sampled after a prompt of several is observed at the last of the prompt,
\* without a draft; it is not counted, saved or predicted from.
PrefillObserve(h, sampled) ==
    /\ pc = "prefill"
    /\ Observe(h, sampled, sampled)
    /\ pos' = pos + 1
    /\ pc' = "sample"
    /\ UNCHANGED <<count, predicted, file, tmp, unsaved>>

\* sample, draft, observe_at
SampleAndObserve(h, sampled) ==
    LET token == IF Accepts(Draft(h), sampled) THEN Draft(h)[1].token ELSE sampled
    IN  /\ pc = "sample"
        /\ Observe(h, token, sampled)
        /\ count' = count + 1
        /\ pc' = IF Due(count + 1) THEN "create" ELSE "predict"
        /\ UNCHANGED <<pos, predicted, file, tmp, unsaved>>

\* save_to: File::create truncates, write_all and sync_all, rename.  An error in any of
\* them leaves the rest out, and save_if_due drops it.
SaveCreate_renamesFirst ==
    /\ pc = "create"
    /\ tmp' = "partial" /\ pc' = "rename"
    /\ UNCHANGED <<ring, head, len, count, pos, predicted, file, hist, unsaved>>
SaveCreate ==
    /\ pc = "create"
    /\ tmp' = "partial" /\ pc' = "write"
    /\ UNCHANGED <<ring, head, len, count, pos, predicted, file, hist, unsaved>>
SaveWrite ==
    /\ pc = "write"
    /\ tmp' = "whole" /\ pc' = "rename"
    /\ UNCHANGED <<ring, head, len, count, pos, predicted, file, hist, unsaved>>
SaveRename ==
    /\ pc = "rename"
    /\ file' = (IF tmp = "whole" THEN Whole ELSE Partial)
    /\ tmp' = "absent" /\ pc' = "predict" /\ unsaved' = FALSE
    /\ UNCHANGED <<ring, head, len, count, pos, predicted, hist>>
SaveFails ==
    /\ pc \in {"create", "write", "rename"}
    /\ pc' = "predict" /\ unsaved' = TRUE
    /\ UNCHANGED <<ring, head, len, count, pos, predicted, file, tmp, hist>>

\* The pages of the step before were fetched and cleared when this step began.
Predict ==
    /\ pc = "predict"
    /\ predicted' = PredictColdPages(Last(hist).hash, pos)
    /\ pos' = pos + 1
    /\ pc' = "sample"
    /\ UNCHANGED <<ring, head, len, count, file, tmp, hist, unsaved>>

DraftingNext ==
    \/ \E h \in Hashes, sampled \in Tokens :
          PrefillObserve(h, sampled) \/ SampleAndObserve(h, sampled)
    \/ SaveCreate \/ SaveWrite \/ SaveRename \/ SaveFails \/ Predict
    \/ StartGeneration

-----------------------------------------------------------------------------
\* The ring and its logical order are the last observations, oldest first, with the
\* tokens the client was sent, across wrap-around, save, crash and load.
RingIsHistory ==
    /\ len = Min({Len(hist), Capacity})
    /\ \A i \in 0 .. len - 1 : At(i) = hist[Len(hist) - len + i + 1]

\* There is a draft exactly when an observation with draft_length followers is within
\* half of the bits; then it is the whole stretch of history that followed one no
\* other such observation is nearer than.
DraftFollowsMatch ==
    LET followed == (Len(hist) - len + 1) .. (Len(hist) - DraftLength) IN
    \A h \in Hashes : LET d == Draft(h) IN
        /\ (d = <<>>) <=> \A m \in followed : Distance(h, hist[m].hash) > NumBits \div 2
        /\ d /= <<>> => \E m \in followed :
              /\ Len(d) = DraftLength
              /\ \A j \in 1..DraftLength : d[j].token = hist[m + j].token
              /\ \A k \in followed : Distance(h, hist[m].hash) <= Distance(h, hist[k].hash)

\* Every position attention_fugu reads has been written by this generation and is
\* read once, also when the ring came from a file and holds positions of a longer
\* generation.
AttendsWrittenOnce ==
    \A h \in Hashes : LET s == FuguPositions(FindSimilar(h, Candidates), pos) IN
        /\ \A i \in DOMAIN s : s[i] <= pos
        /\ Cardinality(Range(s)) = Len(s)

\* No page is fetched ahead that holds no position of this generation yet, and never
\* more than MaxPages.
PredictedPagesWritten ==
    /\ \A q \in predicted : q <= PageId(pos)
    /\ Cardinality(predicted) <= MaxPages

\* A crash between any two steps of a save leaves a whole ring in the file, and unless
\* a save failed it is never further behind than the SaveEvery observations that are
\* counted and the one after the prompt that is not.
FileIsSnapshot ==
    /\ file.kind /= "partial"
    /\ file.kind = "whole" => file.len = Min({Len(file.hist), Capacity})
    /\ ~unsaved => Len(hist) <= SaveEvery + 1 + (IF file.kind = "whole" THEN Len(file.hist) ELSE 0)

\* The draft cache across generations, crashes and loads: its ring, what is drafted,
\* attended and fetched from it, and its file.
DraftInv ==
    /\ RingIsHistory
    /\ DraftFollowsMatch
    /\ AttendsWrittenOnce
    /\ PredictedPagesWritten
    /\ FileIsSnapshot

\* What the comment of positions says: absolute positions in the KV cache.  The ones a
\* file brought in are positions of another generation's cache.
PositionsAreOurs == \A i \in 0 .. len - 1 : At(i).pos <= pos
=============================================================================
