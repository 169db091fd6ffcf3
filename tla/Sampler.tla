------------------------------ MODULE Sampler ------------------------------
(***************************************************************************)
(* Sampling of a token from logits (swamp-engine/src/sampler.rs).  A logit *)
(* is abstracted to the weight its exponential has, 0 for minus infinity,  *)
(* or Nan for one that makes every probability a NaN (a NaN, or plus       *)
(* infinity).  Weights are not normalised; top_p is TopP / PDenominator.   *)
(***************************************************************************)
EXTENDS Naturals, FiniteSets, SequencesExt

CONSTANTS Vocabulary,   \* number of tokens
          Weights, Nan, \* the weights that occur; Nan is larger than all of them
          TopKs, TopPs, PDenominator

ASSUME SamplerAssumption ==
    /\ Vocabulary \in Nat \ {0} /\ PDenominator \in Nat \ {0}
    /\ Weights \subseteq Nat /\ Nan \in Nat /\ \A x \in Weights : x < Nan
    /\ TopKs \subseteq Nat /\ TopPs \subseteq Nat

VARIABLES request,      \* logits, top_k and top_p of a call
          sampled       \* what it returned, 0 before

samplerVars == <<request, sampled>>

TokenIds == 1..Vocabulary
Mass(w, s) == FoldLeft(LAMBDA sum, t : sum + w[t], 0, s)

\* One NaN makes the sum and with it every probability NaN; so do weights that are all 0.
Broken(w) == (\E t \in TokenIds : w[t] = Nan) \/ (\A t \in TokenIds : w[t] = 0)

\* sort_by: stable, decreasing, so that i - 1 tokens come before the i-th.
Outranks(w, a, b) == w[a] > w[b] \/ (w[a] = w[b] /\ a < b)
Ranked(w) ==
    [i \in TokenIds |->
        CHOOSE t \in TokenIds : Cardinality({u \in TokenIds : Outranks(w, u, t)}) = i - 1]
\* Top-K
TopK(r) == SubSeq(Ranked(r.w), 1, IF r.k > 0 /\ r.k < Vocabulary THEN r.k ELSE Vocabulary)
\* Top-P: up to and with the token that reaches top_p of what Top-K left.
Cutoff_exclusive(r, s) ==
    LET reach == {i \in DOMAIN s : Mass(r.w, SubSeq(s, 1, i)) * PDenominator >= r.p * Mass(r.w, s)}
    IN  IF r.p > 0 /\ r.p < PDenominator /\ reach /= {} THEN Min(reach) - 1 ELSE Len(s)
Cutoff(r, s) ==
    LET reach == {i \in DOMAIN s : Mass(r.w, SubSeq(s, 1, i)) * PDenominator >= r.p * Mass(r.w, s)}
    IN  IF r.p > 0 /\ r.p < PDenominator /\ reach /= {} THEN Min(reach) ELSE Len(s)
Kept(r) == SubSeq(TopK(r), 1, Cutoff(r, TopK(r)))

\* The fallback: max_by keeps the last of the largest finite logits; 1 if there is none.
Fallback(w) ==
    LET finite == {t \in TokenIds : w[t] \notin {0, Nan}}
        largest == {t \in finite : \A u \in finite : w[u] <= w[t]}
    IN  IF finite = {} THEN 1 ELSE Max(largest)

\* The roulette stops at a token that raises the sum, or rounding leaves r above all of
\* it.  The comparisons of a NaN are all false.
Outcomes(r) ==
    {Fallback(r.w)} \cup
        (IF Broken(r.w) THEN {} ELSE {t \in Range(Kept(r)) : r.w[t] > 0})

SamplerInit ==
    /\ request \in [w : [TokenIds -> Weights \cup {Nan}], k : TopKs, p : TopPs]
    /\ sampled = 0

Sample ==
    /\ sampled = 0
    /\ sampled' \in Outcomes(request)
    /\ UNCHANGED request

SamplerSpec == SamplerInit /\ [][Sample]_samplerVars

-----------------------------------------------------------------------------
Heavier(w, t) == {u \in TokenIds : w[u] /= Nan /\ w[u] > w[t]}
SumOver(w, S) == Mass([t \in TokenIds |-> IF t \in S THEN w[t] ELSE 0], [i \in TokenIds |-> i])

\* Whatever the ties, zeros and NaNs: a token is returned only if it has a weight,
\* fewer than top_k tokens are heavier, and the heavier ones do not reach top_p; and
\* the tokens kept do reach top_p.
SamplesNucleus ==
    LET w == request.w  k == request.k  p == request.p IN
    sampled /= 0 =>
        /\ \/ w[sampled] \notin {0, Nan}
           \/ \A t \in TokenIds : w[t] \in {0, Nan}
        /\ ~Broken(w) =>
            /\ k > 0 => Cardinality(Heavier(w, sampled)) < k
            /\ p > 0 => SumOver(w, Heavier(w, sampled)) * PDenominator < p * Mass(w, TopK(request))
            /\ p \in 1..PDenominator =>
                 Mass(w, Kept(request)) * PDenominator >= p * Mass(w, TopK(request))
=============================================================================
