---------------------------- MODULE Speculation ----------------------------
(***************************************************************************)
(* The verification of a draft, DSparkEngine::speculate, and the LogitCache*)
(* beside it (swamp-engine/src/dspark.rs).  Neither is called by the       *)
(* decode loop of this version.  Logits are abstracted to the number of    *)
(* the insertion that brought them.                                        *)
(***************************************************************************)
EXTENDS Drafting

CONSTANTS LcHashes, LcTokens, LcCapacity, MaxInserts, \* LOGIT_CACHE_CAPACITY: 8
          MaxDraft, MaxSteps                          \* draft_length, and a bound

\* The logits of an entry are None until it is inserted, which 0 stands for.
ASSUME SpeculationAssumption ==
    LcCapacity \in Nat \ {0} /\ MaxInserts \in Nat /\ MaxDraft \in Nat /\ MaxSteps \in Nat

VARIABLES
    entries, lcHead, lcLen, \* LogitCache
    inserts,                \* ghost: all insertions, oldest first
    cleared,                \* ghost: how many of them the last clear has seen
    stats,                  \* DSparkStats
    returned                \* ghost: the tokens speculate has returned in all

specVars == <<entries, lcHead, lcLen, inserts, cleared, stats, returned>>

SpeculationInit ==
    /\ entries = [i \in 0 .. LcCapacity - 1 |-> [hash |-> 0, token |-> 0, logits |-> 0]]
    /\ lcHead = 0 /\ lcLen = 0 /\ inserts = <<>> /\ cleared = 0
    /\ stats = [steps |-> 0, drafts |-> 0, accepted |-> 0, rejectedSteps |-> 0,
                draftAccepted |-> 0, draftRejected |-> 0]
    /\ returned = 0

\* lookup: the first slot that fits; 0 is None.
Lookup(hash, token) ==
    LET hits == {i \in 0 .. lcLen - 1 : entries[i].hash = hash /\ entries[i].token = token
                                          /\ entries[i].logits /= 0}
    IN  IF hits = {} THEN 0 ELSE entries[Min(hits)].logits

Insert(hash, token) ==
    /\ Len(inserts) < MaxInserts
    /\ inserts' = Append(inserts, [hash |-> hash, token |-> token])
    /\ entries' = [entries EXCEPT ![lcHead] =
                      [hash |-> hash, token |-> token, logits |-> Len(inserts) + 1]]
    /\ lcHead' = (lcHead + 1) % LcCapacity
    /\ lcLen' = Min({lcLen + 1, LcCapacity})
    /\ UNCHANGED <<cleared, stats, returned>>

\* clear leaves the entries and their logits where they are.
AfterClear_headOnly == [head |-> 0, len |-> lcLen]
AfterClear == [head |-> 0, len |-> 0]
Clear ==
    /\ lcHead' = AfterClear.head /\ lcLen' = AfterClear.len
    /\ cleared' = Len(inserts)
    /\ UNCHANGED <<entries, inserts, stats, returned>>

\* speculate, on a draft whose tokens fare as in outcome: "accept" when r < ratio,
\* "reject" when not, "zero" when the target gives the token no probability.  The first
\* that is not accepted ends the loop, a rejected one with a resampled token.
Examined_all(outcome) == outcome
Examined(outcome) ==
    LET ends == {i \in DOMAIN outcome : outcome[i] /= "accept"}
    IN  IF ends = {} THEN outcome ELSE SubSeq(outcome, 1, Min(ends))
Count(s, what) == Cardinality({i \in DOMAIN s : s[i] = what})
Speculate(outcome) ==
    LET seen == Examined(outcome) IN
    /\ stats.steps < MaxSteps
    /\ stats' = [steps |-> stats.steps + 1,
                 drafts |-> stats.drafts + Len(seen),
                 accepted |-> stats.accepted + 1 + Count(seen, "accept"),
                 rejectedSteps |-> stats.rejectedSteps + Count(seen, "zero") + Count(seen, "reject"),
                 draftAccepted |-> stats.draftAccepted + Count(seen, "accept"),
                 draftRejected |-> stats.draftRejected + Count(seen, "reject")]
    /\ returned' = returned + 1 + Count(seen, "accept") + Count(seen, "reject")
    /\ UNCHANGED <<entries, lcHead, lcLen, inserts, cleared>>

CacheNext ==
    \/ \E hash \in LcHashes, token \in LcTokens : Insert(hash, token)
    \/ Clear
SpeculateNext ==
    \E n \in 0..MaxDraft : \E outcome \in [1..n -> {"accept", "reject", "zero"}] : Speculate(outcome)

\* DSparkEngine: the draft model and these beside it.
DsparkNext ==
    \/ DraftingNext /\ UNCHANGED specVars
    \/ (CacheNext \/ SpeculateNext) /\ UNCHANGED draftVars

DsparkSpec == DraftingInit /\ SpeculationInit /\ [][DsparkNext]_<<draftVars, specVars>>

-----------------------------------------------------------------------------
\* A hit brings logits inserted for that very pair after the last clear, of a pair
\* inserted twice possibly the older ones, and a pair inserted less than LcCapacity
\* insertions ago and not cleared is always a hit.
HitsAreCurrent ==
    \A hash \in LcHashes, token \in LcTokens :
        LET hit == Lookup(hash, token)
            recent == {n \in (cleared + 1) .. Len(inserts) : n + LcCapacity > Len(inserts)
                                                             /\ inserts[n] = [hash |-> hash, token |-> token]}
        IN  /\ hit /= 0 => hit > cleared /\ inserts[hit] = [hash |-> hash, token |-> token]
            /\ hit = 0 <=> recent = {}

\* A step rejects at most once, so what it returns is t0, a prefix of the draft and at
\* most one resampled token: the counters add up to the tokens returned.
SpeculationAccounted ==
    /\ stats.rejectedSteps <= stats.steps
    /\ returned = stats.accepted + stats.draftRejected
    /\ stats.accepted = stats.steps + stats.draftAccepted

\* The logit cache and the counters of speculation.
SpeculationInv == HitsAreCurrent /\ SpeculationAccounted

\* All that a decoder keeps from one token to the next to guess the following ones.
DsparkInv == DraftInv /\ SpeculationInv
=============================================================================
