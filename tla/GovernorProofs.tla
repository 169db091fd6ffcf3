--------------------------- MODULE GovernorProofs ---------------------------
(***************************************************************************)
(* Proofs about the resources of the engine: the control loops of          *)
(* ResourceRamp, the tokens of TokenPool, and the sessions and opcodes of  *)
(* Governor.                                                               *)
(*                                                                         *)
(* The loops keep every flag in range and move the budget as Budget        *)
(* allows, for every base of threads and every set of temperatures.  That  *)
(* two stressed cycles are felt is not inductive: RampIInv adds that the   *)
(* last one has cut the budget unless its assessment was lost, and two     *)
(* assessments in a row are never lost.                                    *)
(*                                                                         *)
(* Tokens are counted and bounded for every set of threads, finite or not, *)
(* and every limit.  The bound alone is not inductive: an exchange is      *)
(* right because a value is only loaded below the limit and only exchanged *)
(* while the counter still has it.                                         *)
(*                                                                         *)
(* The governor's counts agree with its sessions, and its VM's with the    *)
(* opcodes, for every set of models, finite or not, every capacity and     *)
(* every bound on sessions, opcodes and slots.  GovernorInv is not         *)
(* inductive: a registered session is only a new user of its model because *)
(* its id was never given out (IdsInOrder), and no opcode runs on the GPU  *)
(* because no slot ever gets the state that the GPU path asks for          *)
(* (gpuState = {}).                                                        *)
(***************************************************************************)
EXTENDS Governor, ResourceRamp, TokenPool, FiniteSetTheorems, SequenceTheorems, TLAPS

\* The larger of two numbers.
LEMMA MaxOfTwo ==
    ASSUME NEW a \in Int, NEW b \in Int
    PROVE  Max({a, b}) = IF a >= b THEN a ELSE b
<1> DEFINE m == IF a >= b THEN a ELSE b
<1>1. m \in {a, b} /\ \A y \in {a, b} : m >= y OBVIOUS
<1>2. \A x \in {a, b} : (\A y \in {a, b} : x >= y) => x = m OBVIOUS
<1> HIDE DEF m
<1>3. Max({a, b}) \in {a, b} /\ \A y \in {a, b} : Max({a, b}) >= y
  BY <1>1, Zenon DEF Max
<1>4. Max({a, b}) = m BY <1>2, <1>3
<1> QED BY <1>4 DEF m

\* The smaller of two numbers.
LEMMA MinOfTwo ==
    ASSUME NEW a \in Int, NEW b \in Int
    PROVE  Min({a, b}) = IF a <= b THEN a ELSE b
<1> DEFINE m == IF a <= b THEN a ELSE b
<1>1. m \in {a, b} /\ \A y \in {a, b} : m <= y OBVIOUS
<1>2. \A x \in {a, b} : (\A y \in {a, b} : x <= y) => x = m OBVIOUS
<1> HIDE DEF m
<1>3. Min({a, b}) \in {a, b} /\ \A y \in {a, b} : Min({a, b}) <= y
  BY <1>1, Zenon DEF Min
<1>4. Min({a, b}) = m BY <1>2, <1>3
<1> QED BY <1>4 DEF m

-----------------------------------------------------------------------------
(* The control loop *)

Budgets == MinBudget..MaxBudget

\* A halving goes down, and not below the minimum; a doubling stays within the
\* maximum.
LEMMA BudgetStep ==
    ASSUME NEW b \in Budgets
    PROVE  /\ Halved(b) \in Budgets /\ Doubled(b) \in Budgets
           /\ Halved(b) < b \/ Halved(b) = MinBudget
<1>1. b \in Int /\ b \div 2 \in Int /\ b * 2 \in Int /\ 1 <= b /\ b <= 128
  BY DEF Budgets, MinBudget, MaxBudget
<1>2. Halved(b) = IF b \div 2 >= 1 THEN b \div 2 ELSE 1
  BY <1>1, MaxOfTwo DEF Halved, MinBudget
<1>3. Doubled(b) = IF b * 2 <= 128 THEN b * 2 ELSE 128
  BY <1>1, MinOfTwo DEF Doubled, MaxBudget
<1> QED BY <1>1, <1>2, <1>3 DEF Budgets, MinBudget, MaxBudget

\* clamp() and max(1).
LEMMA ClampRange ==
    ASSUME NEW x \in Int, NEW lo \in Int, NEW hi \in Int, lo <= hi
    PROVE  Clamp(x, lo, hi) \in Int /\ lo <= Clamp(x, lo, hi) /\ Clamp(x, lo, hi) <= hi
<1>1. Min({x, hi}) \in Int /\ Min({x, hi}) <= hi BY MinOfTwo
<1>2. Max({lo, Min({x, hi})}) = IF lo >= Min({x, hi}) THEN lo ELSE Min({x, hi})
  BY <1>1, MaxOfTwo
<1> QED BY <1>1, <1>2 DEF Clamp

LEMMA ScaledRange ==
    ASSUME NEW base \in Nat, NEW b \in Budgets
    PROVE  ScaledThreads(base, b) \in 1..12
<1>1. base * b \in Nat BY DEF Budgets, MinBudget, MaxBudget
<1>2. Round(base * b, 8) \in Int BY <1>1 DEF Round
<1>3. PICK r \in Int : r = Round(base * b, 8) BY <1>2
<1>4. ScaledThreads(base, b) = Clamp(r, 1, 12) BY <1>3 DEF ScaledThreads
<1>5. Clamp(r, 1, 12) \in Int /\ 1 <= Clamp(r, 1, 12) /\ Clamp(r, 1, 12) <= 12
  BY ClampRange, 1 \in Int, 12 \in Int, 1 <= 12
<1> QED BY <1>4, <1>5

\* The threads that a CPU share of f twentieths leaves of n.
Share(n, f) == Max({1, Round(n * f, 20)})

\* A share of at most 17 twentieths of at most 12 threads is 1 to 12 threads.
LEMMA ShareRange ==
    ASSUME NEW n \in 1..12, NEW f \in 4..17
    PROVE  Share(n, f) \in 1..12
<1>1. n * f \in Nat /\ n * f <= 204
  <2>1. n * f <= 12 * f
    <3>1. 12 * f = n * f + (12 - n) * f OBVIOUS
    <3>2. (12 - n) * f \in Nat /\ n * f \in Nat
      <4>1. 12 - n \in Nat /\ f \in Nat /\ n \in Nat OBVIOUS
      <4> QED BY <4>1
    <3> QED BY <3>1, <3>2
  <2> QED BY <2>1
<1>2. Round(n * f, 20) \in 0..10 BY <1>1 DEF Round
<1>3. Max({1, Round(n * f, 20)}) = IF 1 >= Round(n * f, 20) THEN 1 ELSE Round(n * f, 20)
  BY <1>2, MaxOfTwo
<1> QED BY <1>2, <1>3 DEF Share

\* The stressed cycle noted last has cut the budget, or its assessment was lost;
\* with it StressIsFelt is inductive, because two in a row cannot be lost.
LastFelt ==
    /\ stress \in Seq(Budgets) /\ Len(stress) <= 2
    /\ stress # <<>> => LET b == stress[Len(stress)] IN
                        budget8 = Halved(b) \/ (lateAimd /\ budget8 = b)

RampIInv == RampTypeOK /\ lateAimd \in BOOLEAN /\ LastFelt /\ StressIsFelt

LEMMA RampInitInv == RampInit => RampIInv
<1> SUFFICES ASSUME RampInit PROVE RampIInv OBVIOUS
<1>1. BaseThreads \in Nat \ {0} BY RampAssumption DEF RampAssumption
<1>2. Max({12, BaseThreads}) = IF 12 >= BaseThreads THEN 12 ELSE BaseThreads
  BY <1>1, MaxOfTwo
<1>3. RampTypeOK
  BY <1>1, <1>2 DEF RampInit, BudgetInit, RampTypeOK, MinBudget, MaxBudget, GoodCap
<1>4. stress = <<>> /\ stress \in Seq(Budgets) /\ Len(stress) = 0 /\ lateAimd \in BOOLEAN
  <2>1. stress = <<>> /\ lateAimd = FALSE BY DEF RampInit
  <2>2. <<>> \in Seq(Budgets) /\ Len(<<>>) = 0 OBVIOUS
  <2> QED BY <2>1, <2>2
<1> QED BY <1>3, <1>4 DEF RampIInv, LastFelt, StressIsFelt

\* What an assessment and an arbitration leave in their ranges.
LEMMA AssessType ==
    ASSUME RampTypeOK, NEW stressed \in BOOLEAN, NEW hitHigh \in BOOLEAN, Assess(stressed, hitHigh)
    PROVE  budget8' \in Budgets /\ good' \in 0..GoodCap
<1>1. budget8 \in Budgets /\ good \in 0..5 BY DEF RampTypeOK, Budgets, GoodCap
<1>2. budget8' \in Budgets BY <1>1, BudgetStep DEF Assess
<1>3. Min({good + 1, 5}) = IF good + 1 <= 5 THEN good + 1 ELSE 5 BY <1>1, MinOfTwo
<1> QED BY <1>1, <1>2, <1>3 DEF Assess, GoodCap

LEMMA ArbitrateType ==
    ASSUME RampTypeOK, Arbitrate
    PROVE  frac20' \in 4..17
<1>1. frac20 \in 4..17 BY DEF RampTypeOK
<1>2. /\ Max({frac20 - 2, 4}) = IF frac20 - 2 >= 4 THEN frac20 - 2 ELSE 4
      /\ Max({frac20 - 1, 6}) = IF frac20 - 1 >= 6 THEN frac20 - 1 ELSE 6
      /\ Min({frac20 + 1, 17}) = IF frac20 + 1 <= 17 THEN frac20 + 1 ELSE 17
  BY <1>1, MaxOfTwo, MinOfTwo
<1>3. frac20' \in {Max({frac20 - 2, 4}), Max({frac20 - 1, 6}), Min({frac20 + 1, 17}), frac20}
  BY DEF Arbitrate
<1> QED BY <1>1, <1>2, <1>3

InChunks(c) == c \in Int /\ 512 <= c /\ c <= 16384

\* The flags of every cycle are in range.
LEMMA TunedType ==
    ASSUME NEW new \in Nat, NEW b \in Budgets, NEW f \in 4..17
    PROVE  Tuned(new, b, f).threads \in 1..12 /\ InChunks(Tuned(new, b, f).chunk)
<1>1. ScaledThreads(BaseThreads, b) \in 1..12
  BY ScaledRange, RampAssumption DEF RampAssumption
<1>2. BudgetFlags(b, f).threads \in 1..12
  <2> DEFINE n == Share(ScaledThreads(BaseThreads, b), f)
             c == Clamp(512 * b, 512, 16384)
             g == IF b < 4 THEN "4GB" ELSE IF b < 8 THEN "3GB" ELSE "1.5GB"
  <2>1. BudgetFlags(b, f) = [threads |-> n, chunk |-> c, gpuAt |-> g]
    BY DEF BudgetFlags, Share
  <2>2. n \in 1..12 BY <1>1, ShareRange
  <2> HIDE DEF n, c, g
  <2> QED BY <2>1, <2>2
<1>3. PICK c \in Int : c = 512 * b BY DEF Budgets, MinBudget, MaxBudget
<1>4. BudgetFlags(b, f).chunk = Clamp(c, 512, 16384) BY <1>3 DEF BudgetFlags
<1>5. InChunks(BudgetFlags(b, f).chunk) BY <1>4, ClampRange DEF InChunks
<1>6. CASE new >= 85 BY <1>6, SMTT(40) DEF Tuned, InChunks
<1>7. CASE ~(new >= 85) BY <1>2, <1>5, <1>7, Zenon DEF Tuned
<1> QED BY <1>6, <1>7, Zenon

\* The governor's cycle in the terms the invariant needs.
CycleFacts(new, isLate, stressed) ==
    /\ lateAimd' = isLate /\ isLate \in MayBeLate(lateAimd)
    /\ IF isLate THEN UNCHANGED <<budget8, good>> ELSE Assess(stressed, TRUE)
    /\ UNCHANGED frac20 \/ Arbitrate
    /\ threads' = Tuned(new, budget8', frac20').threads
    /\ chunk' = Tuned(new, budget8', frac20').chunk
    /\ Noted(stressed)
    /\ UNCHANGED prefetchWindow

LEMMA RampCycleFacts ==
    ASSUME RampCycle
    PROVE  \E new \in Temperatures, isLate \in BOOLEAN, stressed \in BOOLEAN :
              CycleFacts(new, isLate, stressed)
<1>1. PICK new \in Temperatures, powerHigh \in BOOLEAN,
           aimdLate \in MayBeLate(lateAimd), arbiterLate \in MayBeLate(lateArbiter) :
        /\ lateAimd' = aimdLate /\ lateArbiter' = arbiterLate
        /\ IF aimdLate THEN UNCHANGED <<budget8, good>>
           ELSE Assess(Stressed(new, powerHigh), TRUE)
        /\ IF arbiterLate THEN UNCHANGED frac20 ELSE Arbitrate
        /\ threads' = Tuned(new, budget8', frac20').threads
        /\ chunk' = Tuned(new, budget8', frac20').chunk
        /\ Noted(Stressed(new, powerHigh))
        /\ UNCHANGED prefetchWindow
  BY ZenonT(40) DEF RampCycle
<1>2. aimdLate \in BOOLEAN BY DEF MayBeLate
<1>3. Stressed(new, powerHigh) \in BOOLEAN BY DEF Stressed
<1>4. CycleFacts(new, aimdLate, Stressed(new, powerHigh)) BY <1>1, Zenon DEF CycleFacts
<1> QED BY <1>2, <1>3, <1>4, Zenon

LEMMA RampStep == RampIInv /\ [RampCycle]_rampVars => RampIInv'
<1> SUFFICES ASSUME RampIInv, [RampCycle]_rampVars PROVE RampIInv' OBVIOUS
<1>0. RampTypeOK /\ lateAimd \in BOOLEAN /\ LastFelt /\ StressIsFelt BY DEF RampIInv
<1>1. CASE RampCycle
  <2>1. PICK new \in Temperatures, isLate \in BOOLEAN, stressed \in BOOLEAN :
          CycleFacts(new, isLate, stressed)
    BY <1>1, RampCycleFacts, Zenon
  <2>2. budget8' \in Budgets /\ good' \in 0..GoodCap
    <3>1. CASE isLate BY <1>0, <2>1, <3>1 DEF CycleFacts, RampTypeOK, Budgets
    <3>2. CASE ~isLate
      <4>1. Assess(stressed, TRUE) BY <2>1, <3>2, Zenon DEF CycleFacts
      <4> QED BY <1>0, <4>1, AssessType
    <3> QED BY <3>1, <3>2
  <2>3. frac20' \in 4..17
    <3>1. CASE UNCHANGED frac20 BY <1>0, <3>1 DEF RampTypeOK
    <3>2. CASE Arbitrate BY <1>0, <3>2, ArbitrateType
    <3> QED BY <2>1, <3>1, <3>2, Zenon DEF CycleFacts
  <2>4. threads' \in 1..12 /\ InChunks(chunk')
    <3>1. new \in Nat BY RampAssumption
    <3>2. /\ Tuned(new, budget8', frac20').threads \in 1..12
          /\ InChunks(Tuned(new, budget8', frac20').chunk)
      BY <2>2, <2>3, <3>1, TunedType
    <3> QED BY <2>1, <3>2, Zenon DEF CycleFacts
  <2>5. RampTypeOK'
    <3>1. Max({12, BaseThreads}) >= 12 /\ Max({12, BaseThreads}) \in Int
      BY MaxOfTwo, RampAssumption DEF RampAssumption
    <3>2. threads' \in 1..Max({12, BaseThreads}) BY <2>4, <3>1
    <3>3. prefetchWindow' = prefetchWindow BY <2>1, SMTT(40) DEF CycleFacts
    <3>4. chunk' \in 512..16384 BY <2>4, SMTT(40) DEF InChunks
    <3> QED BY <1>0, <2>2, <2>3, <3>2, <3>3, <3>4, SMTT(40) DEF RampTypeOK, Budgets
  <2>6. lateAimd' \in BOOLEAN BY <2>1 DEF CycleFacts
  <2>7. CASE ~stressed
    <3>1. stress' = <<>> BY <2>1, <2>7 DEF CycleFacts, Noted
    <3>2. stress' \in Seq(Budgets) /\ Len(stress') = 0 BY <3>1
    <3> QED BY <2>5, <2>6, <3>1, <3>2 DEF RampIInv, LastFelt, StressIsFelt
  <2>8. CASE stressed
    <3>1. budget8 \in Budgets BY <1>0 DEF RampTypeOK, Budgets
    <3>2. budget8' = Halved(budget8) \/ (lateAimd' /\ ~lateAimd /\ budget8' = budget8)
      <4>1. isLate => ~lateAimd BY <1>0, <2>1 DEF CycleFacts, MayBeLate
      <4>2. CASE isLate BY <2>1, <4>1, <4>2 DEF CycleFacts
      <4>3. CASE ~isLate
        <5>1. Assess(stressed, TRUE) BY <2>1, <4>3, Zenon DEF CycleFacts
        <5> QED BY <2>8, <5>1 DEF Assess
      <4> QED BY <4>2, <4>3
    <3>3. stress' = IF Len(stress) < 2 THEN Append(stress, budget8) ELSE <<stress[2], budget8>>
      BY <2>1, <2>8 DEF CycleFacts, Noted
    <3>4. stress \in Seq(Budgets) /\ Len(stress) \in {0, 1, 2}
      <4>1. stress \in Seq(Budgets) /\ Len(stress) <= 2 BY <1>0 DEF LastFelt
      <4>2. PICK k \in Nat : k = Len(stress) BY <4>1
      <4>3. k <= 2 BY <4>1, <4>2
      <4>4. k \in {0, 1, 2} BY <4>3
      <4> QED BY <4>1, <4>2, <4>4, Zenon
    <3>5. /\ stress' \in Seq(Budgets) /\ Len(stress') \in {1, 2} /\ stress'[Len(stress')] = budget8
          /\ Len(stress') = 2 => Len(stress) # 0 /\ stress'[1] = stress[Len(stress)]
      <4>1. CASE Len(stress) < 2 BY <3>1, <3>3, <3>4, <4>1
      <4>2. CASE Len(stress) = 2
        <5>1. stress' = <<stress[2], budget8>> /\ stress[2] \in Budgets BY <3>3, <3>4, <4>2, SMTT(40)
        <5> QED BY <3>1, <4>2, <5>1
      <4> QED BY <3>4, <4>1, <4>2
    <3>6. LastFelt'
      <4>1. stress' # <<>> BY <3>5, SMTT(40)
      <4> QED BY <3>2, <3>5 DEF LastFelt
    <3>7. StressIsFelt'
      <4> SUFFICES ASSUME Len(stress') = 2 PROVE budget8' < stress'[1] \/ budget8' = MinBudget
        BY DEF StressIsFelt
      <4> DEFINE b == stress[Len(stress)]
      <4>1. stress # <<>> /\ b \in Budgets /\ stress'[1] = b BY <3>4, <3>5
      <4>2. budget8 = Halved(b) \/ (lateAimd /\ budget8 = b) BY <1>0, <4>1 DEF LastFelt
      <4> HIDE DEF b
      <4>3. /\ Halved(b) \in Budgets /\ (Halved(b) < b \/ Halved(b) = MinBudget)
            /\ Halved(budget8) < budget8 \/ Halved(budget8) = MinBudget
            /\ Halved(budget8) \in Budgets
        BY <3>1, <4>1, BudgetStep
      <4>4. \/ budget8 = b /\ budget8' = Halved(b)
            \/ budget8 = Halved(b) /\ budget8' \in {Halved(budget8), budget8}
        <5>1. budget8' = Halved(budget8) \/ (~lateAimd /\ budget8' = budget8) BY <3>2, Zenon
        <5> QED BY <4>2, <5>1, Zenon
      <4> DEFINE h == Halved(b)
                 g == Halved(budget8)
      <4>5. /\ h \in 1..128 /\ g \in 1..128 /\ b \in 1..128
            /\ h < b \/ h = 1
            /\ g < budget8 \/ g = 1
        BY <4>1, <4>3 DEF Budgets, MinBudget, MaxBudget
      <4>6. (budget8 = b /\ budget8' = h) \/ (budget8 = h /\ budget8' \in {g, budget8}) BY <4>4
      <4> HIDE DEF h, g
      <4>7. budget8' < b \/ budget8' = 1
        <5>1. CASE budget8 = b /\ budget8' = h BY <4>5, <5>1
        <5>2. CASE budget8 = h /\ budget8' = g BY <4>5, <5>2
        <5>3. CASE budget8 = h /\ budget8' = budget8 BY <4>5, <5>3, SMTT(40)
        <5> QED BY <4>6, <5>1, <5>2, <5>3
      <4> QED BY <4>1, <4>7 DEF MinBudget
    <3> QED BY <2>5, <2>6, <3>6, <3>7 DEF RampIInv
  <2> QED BY <2>7, <2>8
<1>2. CASE UNCHANGED rampVars
  BY <1>0, <1>2, SMTT(40) DEF rampVars, RampIInv, RampTypeOK, LastFelt, StressIsFelt
<1> QED BY <1>1, <1>2

\* The governor's control loop keeps every flag in the range its users rely on,
\* and two stressed cycles in a row cut the budget, for every base of threads and
\* every set of temperatures.
THEOREM RampInRange == RampSpec => []RampInv
<1>1. RampIInv => RampInv BY DEF RampIInv, RampInv
<1> QED BY RampInitInv, RampStep, <1>1, PTL DEF RampSpec

\* The executor's copy of the loop: twenty steps may take less than the interval
\* any number of times, so only the ranges are promised.
LEMMA ExecutorStep == RampTypeOK /\ [ExecutorRamp]_rampVars => RampTypeOK'
<1> SUFFICES ASSUME RampTypeOK, [ExecutorRamp]_rampVars PROVE RampTypeOK' OBVIOUS
<1>1. CASE ExecutorRamp
  <2>1. PICK new \in Temperatures, slow \in BOOLEAN, hits \in {"low", "mid", "high"},
             aimdLate \in BOOLEAN, arbiterLate \in BOOLEAN :
          LET stressed == new > 80 \/ slow \/ hits = "low" IN
          /\ temp' = new
          /\ IF aimdLate THEN UNCHANGED <<budget8, good>> ELSE Assess(stressed, hits = "high")
          /\ IF arbiterLate THEN UNCHANGED frac20 ELSE Arbitrate
          /\ prefetchWindow' = ScaledK(budget8')
          /\ threads' = Max({1, Round(ScaledThreads(IF stressed THEN 2 ELSE 6, budget8') * frac20', 20)})
          /\ UNCHANGED <<lateAimd, lateArbiter, chunk, gpuAt, stress>>
    BY <1>1, Zenon DEF ExecutorRamp
  <2> DEFINE base == IF new > 80 \/ slow \/ hits = "low" THEN 2 ELSE 6
  <2>2. budget8' \in Budgets /\ good' \in 0..GoodCap
    <3>1. CASE aimdLate BY <2>1, <3>1 DEF RampTypeOK, Budgets
    <3>2. CASE ~aimdLate
      <4> DEFINE str == new > 80 \/ slow \/ hits = "low"
                 high == hits = "high"
      <4>1. Assess(str, high) BY <2>1, <3>2, Zenon
      <4>2. str \in BOOLEAN /\ high \in BOOLEAN OBVIOUS
      <4> HIDE DEF str, high
      <4> QED BY <4>1, <4>2, AssessType, Zenon
    <3> QED BY <3>1, <3>2, SMTT(40)
  <2>3. frac20' \in 4..17
    <3>1. CASE arbiterLate BY <2>1, <3>1 DEF RampTypeOK
    <3>2. CASE ~arbiterLate
      <4>1. Arbitrate BY <2>1, <3>2, Zenon
      <4> QED BY <4>1, ArbitrateType
    <3> QED BY <3>1, <3>2, SMTT(40)
  <2>4. threads' \in 1..12
    <3>1. base \in Nat OBVIOUS
    <3>2. threads' = Share(ScaledThreads(base, budget8'), frac20') BY <2>1, Zenon DEF Share
    <3> HIDE DEF base
    <3>3. ScaledThreads(base, budget8') \in 1..12 BY <2>2, <3>1, ScaledRange
    <3>4. Share(ScaledThreads(base, budget8'), frac20') \in 1..12
      BY <2>3, <3>3, ShareRange
    <3> QED BY <3>2, <3>4, Zenon
  <2>5. threads' \in 1..Max({12, BaseThreads})
    <3>1. Max({12, BaseThreads}) >= 12 /\ Max({12, BaseThreads}) \in Int
      BY MaxOfTwo, RampAssumption DEF RampAssumption
    <3> QED BY <2>4, <3>1
  <2>6. prefetchWindow' \in 1..12 /\ chunk' = chunk
    <3>1. prefetchWindow' = ScaledK(budget8') /\ chunk' = chunk BY <2>1, SMTT(40)
    <3> QED BY <2>2, <3>1 DEF ScaledK
  <2> QED BY <2>2, <2>3, <2>5, <2>6 DEF RampTypeOK, Budgets
<1>2. CASE UNCHANGED rampVars BY <1>2 DEF rampVars, RampTypeOK
<1> QED BY <1>1, <1>2

\* The executor's threads, budget, CPU share and prefetch window stay in range.
THEOREM ExecutorInRange == ExecutorRampSpec => []RampTypeOK
<1>1. RampInit => RampTypeOK BY RampInitInv DEF RampIInv
<1> QED BY <1>1, ExecutorStep, PTL DEF ExecutorRampSpec

\* The control loop of the governor moves the budget only as Budget allows.
THEOREM RampKeepsToBudget == RampSpec => BudgetSpec
<1>1. RampInit => BudgetInit BY DEF RampInit
<1>2. [RampCycle]_rampVars => [BudgetMoves]_budget8
  <2>1. ASSUME RampCycle PROVE [BudgetMoves]_budget8
    <3>1. UNCHANGED budget8 \/ \E s \in BOOLEAN, h \in BOOLEAN : Assess(s, h)
      <4>1. PICK new \in Temperatures, isLate \in BOOLEAN, stressed \in BOOLEAN :
              CycleFacts(new, isLate, stressed)
        BY <2>1, RampCycleFacts, Zenon
      <4> QED BY <4>1, Zenon DEF CycleFacts
    <3> QED BY <3>1 DEF Assess, BudgetMoves
  <2> QED BY <2>1 DEF rampVars
<1> QED BY <1>1, <1>2, PTL DEF RampSpec, BudgetSpec

\* So does the executor's.
THEOREM ExecutorKeepsToBudget == ExecutorRampSpec => BudgetSpec
<1>1. RampInit => BudgetInit BY DEF RampInit
<1>2. [ExecutorRamp]_rampVars => [BudgetMoves]_budget8
  <2>1. ASSUME ExecutorRamp PROVE [BudgetMoves]_budget8 BY <2>1 DEF ExecutorRamp, Assess, BudgetMoves
  <2> QED BY <2>1 DEF rampVars
<1> QED BY <1>1, <1>2, PTL DEF ExecutorRampSpec, BudgetSpec

-----------------------------------------------------------------------------
(* The tokens *)

Holders == {t \in PoolThreads : poolPc[t] = "holding"}

PoolTypeOK ==
    /\ active \in Nat
    /\ poolPc \in [PoolThreads -> {"out", "loaded", "holding"}]
    /\ seen \in [PoolThreads -> Nat]

LoadedBelow == \A t \in PoolThreads : poolPc[t] = "loaded" => seen[t] < Limit

Counted == IsFiniteSet(Holders) /\ active = Cardinality(Holders)

PoolInv == PoolTypeOK /\ LoadedBelow /\ Counted /\ active <= Limit

\* A thread that takes a token becomes a holder, and the holders stay finitely many.
LEMMA TakesToken ==
    ASSUME PoolTypeOK, NEW t \in PoolThreads, poolPc[t] # "holding",
           poolPc' = [poolPc EXCEPT ![t] = "holding"], IsFiniteSet(Holders)
    PROVE  IsFiniteSet(Holders') /\ Cardinality(Holders') = Cardinality(Holders) + 1
<1>1. Holders' = Holders \cup {t} BY DEF Holders, PoolTypeOK
<1>2. t \notin Holders BY DEF Holders
<1> QED BY <1>1, <1>2, FS_AddElement

\* A token that is dropped takes its thread out of the holders.
LEMMA DropsToken ==
    ASSUME PoolTypeOK, NEW t \in PoolThreads, poolPc[t] = "holding",
           poolPc' = [poolPc EXCEPT ![t] = "out"], IsFiniteSet(Holders)
    PROVE  /\ IsFiniteSet(Holders')
           /\ Cardinality(Holders') = Cardinality(Holders) - 1
           /\ Cardinality(Holders) > 0
<1>1. Holders' = Holders \ {t} BY DEF Holders, PoolTypeOK
<1>2. t \in Holders BY DEF Holders
<1>3. IsFiniteSet(Holders') /\ Cardinality(Holders') = Cardinality(Holders) - 1
  BY <1>1, <1>2, FS_RemoveElement
<1>4. Cardinality(Holders) > 0
  BY <1>2, FS_EmptySet, FS_CardinalityType
<1> QED BY <1>3, <1>4

\* A thread that moves between "out" and "loaded" leaves the holders as they are.
LEMMA KeepsHolders ==
    ASSUME PoolTypeOK, NEW t \in PoolThreads, NEW p \in {"out", "loaded"},
           poolPc[t] # "holding", poolPc' = [poolPc EXCEPT ![t] = p]
    PROVE  Holders' = Holders
BY DEF Holders, PoolTypeOK

LEMMA PoolInitInv == PoolInit => PoolInv
<1> SUFFICES ASSUME PoolInit PROVE PoolInv OBVIOUS
<1>1. PoolTypeOK /\ LoadedBelow BY DEF PoolInit, PoolTypeOK, LoadedBelow
<1>2. Holders = {} BY DEF PoolInit, Holders
<1>3. Counted BY <1>2, FS_EmptySet DEF PoolInit, Counted
<1> QED BY <1>1, <1>3, LimitAssumption DEF PoolInit, PoolInv

\* Every step of a thread, and a stutter, preserves the invariant.
LEMMA PoolStepInv == PoolInv /\ [PoolNext]_poolVars => PoolInv'
<1> SUFFICES ASSUME PoolInv, [PoolNext]_poolVars PROVE PoolInv' OBVIOUS
<1>0. PoolTypeOK /\ LoadedBelow /\ IsFiniteSet(Holders) /\ active = Cardinality(Holders) /\ active <= Limit
  BY DEF PoolInv, Counted
<1>1. ASSUME NEW t \in PoolThreads, Load(t) PROVE PoolInv'
  <2>1. Holders' = Holders BY <1>0, <1>1, KeepsHolders DEF Load
  <2>2. PoolTypeOK' BY <1>0, <1>1 DEF Load, PoolTypeOK
  <2>3. LoadedBelow' BY <1>0, <1>1 DEF Load, PoolTypeOK, LoadedBelow
  <2> QED BY <1>0, <1>1, <2>1, <2>2, <2>3 DEF Load, PoolInv, Counted
<1>2. ASSUME NEW t \in PoolThreads, Exchange(t) PROVE PoolInv'
  <2>1. IsFiniteSet(Holders') /\ Cardinality(Holders') = Cardinality(Holders) + 1
    BY <1>0, <1>2, TakesToken DEF Exchange
  <2>2. active < Limit BY <1>0, <1>2 DEF Exchange, Exchanges, LoadedBelow
  <2>3. PoolTypeOK' BY <1>0, <1>2 DEF Exchange, PoolTypeOK
  <2>4. LoadedBelow' BY <1>0, <1>2 DEF Exchange, PoolTypeOK, LoadedBelow
  <2>5. active' <= Limit
    BY <1>0, <1>2, <2>2, LimitAssumption DEF Exchange, PoolTypeOK
  <2> QED BY <1>0, <1>2, <2>1, <2>3, <2>4, <2>5 DEF Exchange, PoolInv, Counted
<1>3. ASSUME NEW t \in PoolThreads, Retry(t) PROVE PoolInv'
  <2>1. Holders' = Holders BY <1>0, <1>3, KeepsHolders DEF Retry
  <2>2. PoolTypeOK' BY <1>0, <1>3 DEF Retry, PoolTypeOK
  <2>3. LoadedBelow' BY <1>0, <1>3 DEF Retry, PoolTypeOK, LoadedBelow
  <2> QED BY <1>0, <1>3, <2>1, <2>2, <2>3 DEF Retry, PoolInv, Counted
<1>4. ASSUME NEW t \in PoolThreads, DropToken(t) PROVE PoolInv'
  <2>1. /\ IsFiniteSet(Holders')
        /\ Cardinality(Holders') = Cardinality(Holders) - 1
        /\ Cardinality(Holders) > 0
    BY <1>0, <1>4, DropsToken DEF DropToken
  <2>2. PoolTypeOK' BY <1>0, <1>4, <2>1 DEF DropToken, PoolTypeOK
  <2>3. LoadedBelow' BY <1>0, <1>4 DEF DropToken, PoolTypeOK, LoadedBelow
  <2>4. active' <= Limit BY <1>0, <1>4, LimitAssumption DEF DropToken, PoolTypeOK
  <2> QED BY <1>0, <1>4, <2>1, <2>2, <2>3, <2>4 DEF DropToken, PoolInv, Counted
<1>5. CASE UNCHANGED poolVars
  BY <1>0, <1>5 DEF poolVars, PoolInv, PoolTypeOK, LoadedBelow, Counted, Holders
<1> QED BY <1>1, <1>2, <1>3, <1>4, <1>5 DEF PoolNext

\* For every set of threads and every limit, the counter of CognitiveWorkerPool and
\* PipelineToken is the number of tokens held and never passes the limit.
THEOREM TokensCountedAndBounded == PoolSpec => []TokensBounded
<1>1. PoolInv => TokensBounded BY DEF PoolInv, Counted, Holders, TokensBounded
<1> QED BY PoolInitInv, PoolStepInv, <1>1, PTL DEF PoolSpec

-----------------------------------------------------------------------------
(* The governor's sessions *)

\* The sessions that use a model, as NeverOverCounted counts them.
Users(m) == {i \in Live : sessions[i].model = m}

\* Ids are given out in order, so register_session's is new.
IdsInOrder == \E n \in 0..MaxSessions : \A i \in Ids : sessions[i].st # "never" <=> i <= n

-----------------------------------------------------------------------------
(* The swapper's list *)

\* Taking a place out of a list without repetitions leaves none.
LEMMA RemoveAtKeeps ==
    ASSUME NEW S, NEW s \in Seq(S), IsInjective(s), NEW p \in 1..Len(s)
    PROVE  /\ RemoveAt(s, p) \in Seq(S)
           /\ IsInjective(RemoveAt(s, p))
           /\ \A i \in DOMAIN RemoveAt(s, p) : RemoveAt(s, p)[i] # s[p]
<1> DEFINE a == SubSeq(s, 1, p - 1)
           z == SubSeq(s, p + 1, Len(s))
           t == a \o z
<1>1. a \in Seq(S) /\ Len(a) = p - 1 /\ \A i \in 1..(p - 1) : a[i] = s[i] OBVIOUS
<1>2. z \in Seq(S) /\ Len(z) = Len(s) - p /\ \A i \in 1..(Len(s) - p) : z[i] = s[p + i]
  OBVIOUS
<1> HIDE DEF a, z
<1>3. /\ t \in Seq(S) /\ Len(t) = Len(s) - 1
      /\ \A i \in 1..Len(t) : t[i] = IF i < p THEN s[i] ELSE s[i + 1]
  <2>1. /\ t \in Seq(S) /\ Len(t) = Len(a) + Len(z)
        /\ \A i \in 1..(Len(a) + Len(z)) : t[i] = IF i <= Len(a) THEN a[i] ELSE z[i - Len(a)]
    BY <1>1, <1>2, ConcatProperties, Zenon
  <2> HIDE DEF t
  <2>2. Len(t) = Len(s) - 1 BY <1>1, <1>2, <2>1
  <2>3. ASSUME NEW i \in 1..Len(t) PROVE t[i] = IF i < p THEN s[i] ELSE s[i + 1]
    <3>1. CASE i < p BY <1>1, <1>2, <2>1, <3>1
    <3>2. CASE ~(i < p)
      <4>1. t[i] = z[i - (p - 1)] BY <1>1, <1>2, <2>1, <3>2
      <4>2. i - (p - 1) \in 1..(Len(s) - p) /\ p + (i - (p - 1)) = i + 1 BY <2>2, <3>2
      <4> QED BY <1>2, <3>2, <4>1, <4>2
    <3> QED BY <3>1, <3>2
  <2> QED BY <2>1, <2>2, <2>3
<1>4. RemoveAt(s, p) = t BY DEF RemoveAt, a, z
<1> HIDE DEF t
<1>5. DOMAIN t = 1..Len(t) /\ DOMAIN s = 1..Len(s) BY <1>3
<1>6. \A i, j \in 1..Len(s) : s[i] = s[j] => i = j BY <1>5 DEF IsInjective
<1>7. IsInjective(t)
  <2> SUFFICES ASSUME NEW i \in 1..Len(t), NEW j \in 1..Len(t), t[i] = t[j] PROVE i = j
    BY <1>5 DEF IsInjective
  <2>1. i \in 1..Len(s) /\ j \in 1..Len(s) /\ i + 1 \in 1..Len(s) /\ j + 1 \in 1..Len(s)
    BY <1>3
  <2> QED BY <1>3, <1>6, <2>1
<1>8. ASSUME NEW i \in 1..Len(t) PROVE t[i] # s[p]
  <2>1. i \in 1..Len(s) /\ i + 1 \in 1..Len(s) BY <1>3
  <2> QED BY <1>3, <1>6, <2>1
<1> QED BY <1>3, <1>4, <1>5, <1>7, <1>8

\* touch() leaves every model once in the list.
LEMMA TouchedKeeps ==
    ASSUME NEW S, lru \in Seq(S), IsInjective(lru), NEW m \in S
    PROVE  Touched(m) \in Seq(S) /\ IsInjective(Touched(m))
<1> DEFINE r == RemoveFirst(lru, m)
<1>1. r \in Seq(S) /\ IsInjective(r) /\ \A i \in DOMAIN r : r[i] # m
  <2>1. CASE \E i \in 1..Len(lru) : lru[i] = m
    <3>1. PICK p \in 1..Len(lru) : lru[p] = m BY <2>1
    <3>2. {i \in 1..Len(lru) : lru[i] = m} = {p} BY <3>1 DEF IsInjective
    <3>3. Min({p}) = p BY DEF Min
    <3>4. SelectInSeq(lru, LAMBDA v : v = m) = p BY <3>2, <3>3 DEF SelectInSeq
    <3>5. r = RemoveAt(lru, p) BY <2>1, <3>4 DEF RemoveFirst
    <3> QED BY <3>1, <3>5, RemoveAtKeeps
  <2>2. CASE ~\E i \in 1..Len(lru) : lru[i] = m
    <3>1. r = lru BY <2>2 DEF RemoveFirst
    <3> QED BY <2>2, <3>1
  <2> QED BY <2>1, <2>2
<1> HIDE DEF r
<1>2. /\ Append(r, m) \in Seq(S) /\ Len(Append(r, m)) = Len(r) + 1
      /\ \A i \in 1..Len(r) : Append(r, m)[i] = r[i]
      /\ Append(r, m)[Len(r) + 1] = m
  BY <1>1
<1> DEFINE t == Append(r, m)
<1> HIDE DEF t
<1>3. DOMAIN t = 1..(Len(r) + 1) /\ DOMAIN r = 1..Len(r) /\ Len(r) \in Nat BY <1>1, <1>2 DEF t
<1>4. /\ \A i \in 1..Len(r) : t[i] = r[i] /\ t[i] # m
      /\ t[Len(r) + 1] = m
  BY <1>1, <1>2, <1>3 DEF t
<1>5. IsInjective(t)
  <2> SUFFICES ASSUME NEW i \in 1..(Len(r) + 1), NEW j \in 1..(Len(r) + 1), t[i] = t[j] PROVE i = j
    BY <1>3 DEF IsInjective
  <2>1. CASE i \in 1..Len(r) /\ j \in 1..Len(r) BY <1>1, <1>3, <1>4, <2>1 DEF IsInjective
  <2>2. CASE i = Len(r) + 1 BY <1>3, <1>4, <2>2
  <2>3. CASE j = Len(r) + 1 BY <1>3, <1>4, <2>3
  <2> QED BY <1>3, <2>1, <2>2, <2>3
<1> QED BY <1>2, <1>5 DEF t, Touched, r

-----------------------------------------------------------------------------
(* Sessions and registry *)

SessionRecords ==
    [st : {"never", "live", "gone"}, gen : 0..MaxGen, quiet : BOOLEAN,
     cls : {"none", "interactive", "batch"}, model : Models \cup {"none"}]

RegistryOK == registry \in [Models -> [tier : Tiers \cup {"absent"}, active : Nat]]
LruOK == lru \in Seq(Models) /\ IsInjective(lru)
SessionsOK ==
    /\ sessions \in [Ids -> SessionRecords]
    /\ \A i \in Live : sessions[i].model \in Models

SessionsInv == RegistryOK /\ LruOK /\ SessionsOK /\ IdsInOrder /\ NeverOverCounted

\* Sessions are finitely many, so a model's users can be counted.
LEMMA UsersFinite ==
    ASSUME NEW m
    PROVE  IsFiniteSet(Users(m)) /\ Cardinality(Users(m)) \in Nat
<1>1. IsFiniteSet(Ids) BY FS_Interval, GovernorAssumption DEF Ids
<1>2. Users(m) \subseteq Ids BY DEF Users, Live
<1> QED BY <1>1, <1>2, FS_Subset, FS_CardinalityType

\* The id that register_session gives out was never used.
LEMMA NewId ==
    ASSUME IdsInOrder, NextId \in Ids
    PROVE  \A i \in Ids : sessions[i].st # "never" <=> i <= NextId - 1
<1>1. PICK n \in 0..MaxSessions : \A i \in Ids : sessions[i].st # "never" <=> i <= n
  BY DEF IdsInOrder
<1>2. {i \in Ids : sessions[i].st # "never"} = 1..n BY <1>1, GovernorAssumption DEF Ids
<1>3. Cardinality(1..n) = n BY FS_Interval
<1>4. NextId = n + 1 BY <1>2, <1>3 DEF NextId
<1> QED BY <1>1, <1>4

\* A step that changes neither statuses nor models of sessions keeps what is said
\* of them.
LEMMA SameUsers ==
    ASSUME \A i \in Ids : sessions'[i].st = sessions[i].st /\ sessions'[i].model = sessions[i].model
    PROVE  Live' = Live /\ (IdsInOrder => IdsInOrder') /\ \A m : Users(m)' = Users(m)
BY DEF Live, Users, IdsInOrder, Ids

LEMMA RegisterModelInv ==
    ASSUME SessionsInv, NEW m \in Models, NEW tier \in Tiers, RegisterModel(m, tier)
    PROVE  SessionsInv'
<1>0. RegistryOK /\ LruOK /\ SessionsOK /\ IdsInOrder /\ NeverOverCounted BY DEF SessionsInv
<1>1. /\ registry' = [registry EXCEPT ![m] = [tier |-> tier, active |-> 0]]
      /\ UNCHANGED <<lru, sessions>>
  BY DEF RegisterModel
<1>2. RegistryOK' BY <1>0, <1>1 DEF RegistryOK
<1>3. LruOK' /\ SessionsOK' /\ IdsInOrder' BY <1>0, <1>1 DEF LruOK, SessionsOK, IdsInOrder, Live
<1>4. ASSUME NEW k \in Entries' PROVE registry'[k].active <= Cardinality(Users(k))
  <2>1. CASE k = m BY <1>0, <1>1, <2>1, UsersFinite DEF RegistryOK
  <2>2. CASE k # m
    <3>1. k \in Models /\ registry'[k] = registry[k] BY <1>0, <1>1, <2>2 DEF RegistryOK, Entries
    <3>2. k \in Entries BY <3>1 DEF Entries
    <3> QED BY <1>0, <3>1, <3>2 DEF NeverOverCounted, Users
  <2> QED BY <2>1, <2>2
<1>5. \A k : Users(k)' = Users(k) BY <1>1 DEF Users, Live
<1>6. NeverOverCounted' BY <1>4, <1>5 DEF NeverOverCounted, Users
<1> QED BY <1>2, <1>3, <1>6 DEF SessionsInv

LEMMA RegisterSessionInv ==
    ASSUME SessionsInv, NEW m \in Models, NEW cls \in {"interactive", "batch"}, RegisterSession(m, cls)
    PROVE  SessionsInv'
<1>0. RegistryOK /\ LruOK /\ SessionsOK /\ IdsInOrder /\ NeverOverCounted BY DEF SessionsInv
<1> DEFINE id == NextId
           new == [st |-> "live", cls |-> cls, model |-> m, gen |-> 0, quiet |-> FALSE]
<1>1. /\ id \in Ids
      /\ sessions' = [sessions EXCEPT ![id] = new]
      /\ lru' = IF m \in Entries THEN Touched(m) ELSE lru
      /\ registry' = IF m \in Entries /\ registry[m].tier = "vram" THEN Acquired(registry, m)
                     ELSE registry
  BY DEF RegisterSession
<1>2. \A i \in Ids : sessions[i].st # "never" <=> i <= id - 1 BY <1>0, <1>1, NewId
<1> HIDE DEF id
<1>3. id \notin Live BY <1>1, <1>2 DEF Live, Ids
<1>4. LruOK'
  <2>1. CASE m \in Entries BY <1>0, <1>1, <2>1, TouchedKeeps DEF LruOK
  <2>2. CASE m \notin Entries BY <1>0, <1>1, <2>2 DEF LruOK
  <2> QED BY <2>1, <2>2
<1>5. new \in SessionRecords BY GovernorAssumption DEF SessionRecords
<1>6. Live' = Live \cup {id}
  BY <1>0, <1>1 DEF Live, SessionsOK
<1>7. SessionsOK'
  <2>1. sessions' \in [Ids -> SessionRecords] BY <1>0, <1>1, <1>5 DEF SessionsOK
  <2>2. ASSUME NEW i \in Live' PROVE sessions'[i].model \in Models
    <3>1. CASE i = id BY <1>0, <1>1, <3>1 DEF SessionsOK
    <3>2. CASE i # id BY <1>0, <1>1, <1>6, <3>2 DEF SessionsOK, Live
    <3> QED BY <3>1, <3>2
  <2> QED BY <2>1, <2>2 DEF SessionsOK
<1>8. IdsInOrder'
  <2>1. id \in 0..MaxSessions BY <1>1 DEF Ids
  <2>2. ASSUME NEW i \in Ids PROVE sessions'[i].st # "never" <=> i <= id
    <3>1. CASE i = id BY <1>0, <1>1, <3>1 DEF SessionsOK, Ids
    <3>2. CASE i # id
      <4>1. sessions'[i] = sessions[i] BY <1>0, <1>1, <3>2 DEF SessionsOK
      <4>2. i <= id - 1 <=> i <= id BY <2>1, <3>2 DEF Ids
      <4> QED BY <1>2, <4>1, <4>2
    <3> QED BY <3>1, <3>2
  <2> QED BY <2>1, <2>2 DEF IdsInOrder
<1>9. RegistryOK' /\ \A k \in Models : /\ registry'[k].tier = registry[k].tier
                                       /\ registry'[k].active \in {registry[k].active} \cup
                                             (IF k = m THEN {registry[k].active + 1} ELSE {})
  BY <1>0, <1>1 DEF RegistryOK, Acquired
<1>10. Users(m)' = Users(m) \cup {id} /\ id \notin Users(m)
  BY <1>0, <1>1, <1>3, <1>6 DEF Users, SessionsOK, Live
<1>11. \A k : k # m => Users(k)' = Users(k)
  BY <1>0, <1>1, <1>3, <1>6 DEF Users, SessionsOK, Live
<1>12. ASSUME NEW k \in Entries' PROVE registry'[k].active <= Cardinality(Users(k)')
  <2>1. k \in Entries /\ k \in Models BY <1>9 DEF Entries
  <2>2. registry[k].active <= Cardinality(Users(k)) /\ registry[k].active \in Nat
    BY <1>0, <2>1 DEF NeverOverCounted, Users, RegistryOK
  <2>3. IsFiniteSet(Users(k)) /\ Cardinality(Users(k)) \in Nat BY UsersFinite
  <2>4. CASE k = m
    <3>1. Cardinality(Users(m)') = Cardinality(Users(m)) + 1 BY <1>10, <2>3, <2>4, FS_AddElement
    <3> QED BY <1>9, <2>1, <2>2, <2>3, <2>4, <3>1
  <2>5. CASE k # m BY <1>9, <1>11, <2>1, <2>2, <2>5
  <2> QED BY <2>4, <2>5
<1>13. NeverOverCounted' BY <1>12 DEF NeverOverCounted, Users
<1> QED BY <1>4, <1>7, <1>8, <1>9, <1>13 DEF SessionsInv

\* Sessions that end: the users that are left are those of before without them.
LEMMA SessionsEnd ==
    ASSUME SessionsOK, IdsInOrder, NEW old \in SUBSET Live, SessionsOK',
           \A i \in Ids : IF i \in old THEN sessions'[i] = NoSession("gone")
                          ELSE /\ sessions'[i].st = sessions[i].st
                               /\ sessions'[i].model = sessions[i].model
    PROVE  /\ IdsInOrder'
           /\ \A m : Users(m)' = Users(m) \ old
<1>1. PICK n \in 0..MaxSessions : \A i \in Ids : sessions[i].st # "never" <=> i <= n
  BY DEF IdsInOrder
<1>2. \A i \in Ids : sessions'[i].st # "never" <=> sessions[i].st # "never"
  BY DEF Live, NoSession
<1>3. IdsInOrder' BY <1>1, <1>2 DEF IdsInOrder, Ids
<1>4. Live' = Live \ old BY DEF Live, NoSession, Ids
<1>5. ASSUME NEW m PROVE Users(m)' = Users(m) \ old
  BY <1>4 DEF Users, Live
<1> QED BY <1>3, <1>5

\* A count from which as much is taken as users leave is still no larger than them.
LEMMA CountsDown ==
    ASSUME NEW a \in Nat, NEW k \in Nat, NEW u \in Nat, a <= u, k <= u
    PROVE  Max({a - k, 0}) \in Nat /\ Max({a - k, 0}) <= u - k
<1>1. Max({a - k, 0}) = IF a - k >= 0 THEN a - k ELSE 0 BY MaxOfTwo
<1> QED BY <1>1

LEMMA UnregisterInv ==
    ASSUME SessionsInv, NEW i \in Live, UnregisterSession(i)
    PROVE  SessionsInv'
<1>0. RegistryOK /\ LruOK /\ SessionsOK /\ IdsInOrder /\ NeverOverCounted BY DEF SessionsInv
<1> DEFINE m == sessions[i].model
<1>1. /\ registry' = Released(registry, m)
      /\ sessions' = [sessions EXCEPT ![i] = NoSession("gone")]
      /\ lru' = lru
  BY DEF UnregisterSession
<1>2. i \in Ids /\ m \in Models /\ i \in Users(m) BY <1>0 DEF Live, SessionsOK, Users
<1> HIDE DEF m
<1>3. NoSession("gone") \in SessionRecords BY GovernorAssumption DEF NoSession, SessionRecords
<1>4. SessionsOK'
  <2>1. sessions' \in [Ids -> SessionRecords] BY <1>0, <1>1, <1>3 DEF SessionsOK
  <2>2. ASSUME NEW j \in Live' PROVE sessions'[j].model \in Models
    <3>1. j # i BY <1>0, <1>1 DEF Live, SessionsOK, NoSession
    <3>2. sessions'[j] = sessions[j] /\ j \in Live BY <1>0, <1>1, <3>1 DEF Live, SessionsOK
    <3> QED BY <1>0, <3>2 DEF SessionsOK
  <2> QED BY <2>1, <2>2 DEF SessionsOK
<1>5. IdsInOrder' /\ \A k : Users(k)' = Users(k) \ {i}
  <2>1. \A j \in Ids : IF j \in {i} THEN sessions'[j] = NoSession("gone")
                       ELSE sessions'[j].st = sessions[j].st /\ sessions'[j].model = sessions[j].model
    BY <1>0, <1>1 DEF SessionsOK
  <2> QED BY <1>0, <1>4, <2>1, SessionsEnd
<1>6. \A k \in Models : k # m => registry'[k] = registry[k] /\ i \notin Users(k)
  BY <1>0, <1>1 DEF RegistryOK, Released, Users, m
<1>7. /\ registry'[m].tier = registry[m].tier
      /\ registry'[m].active = IF registry[m].tier = "absent" THEN registry[m].active
                               ELSE Max({registry[m].active - 1, 0})
  BY <1>0, <1>1, <1>2 DEF RegistryOK, Released
<1>8. Max({registry[m].active - 1, 0}) \in Nat
  <2>1. registry[m].active \in Nat BY <1>0, <1>2 DEF RegistryOK
  <2> QED BY <2>1, MaxOfTwo
<1>9. RegistryOK'
  <2>1. registry' = [registry EXCEPT ![m].active = registry'[m].active]
    BY <1>0, <1>1, <1>2, <1>7 DEF RegistryOK, Released
  <2>2. registry'[m].active \in Nat BY <1>0, <1>2, <1>7, <1>8 DEF RegistryOK
  <2> QED BY <1>0, <1>2, <2>1, <2>2 DEF RegistryOK
<1>10. ASSUME NEW k \in Entries' PROVE registry'[k].active <= Cardinality(Users(k)')
  <2>1. k \in Entries /\ k \in Models BY <1>6, <1>7 DEF Entries
  <2>2. registry[k].active <= Cardinality(Users(k)) /\ registry[k].active \in Nat
    BY <1>0, <2>1 DEF NeverOverCounted, Users, RegistryOK
  <2>3. IsFiniteSet(Users(k)) /\ Cardinality(Users(k)) \in Nat BY UsersFinite
  <2>4. CASE k = m
    <3>1. Cardinality(Users(k)') = Cardinality(Users(k)) - 1 BY <1>2, <1>5, <2>3, <2>4, FS_RemoveElement
    <3>2. Cardinality(Users(k)) # 0 BY <1>2, <2>3, <2>4, FS_EmptySet
    <3>3. Max({registry[k].active - 1, 0}) <= Cardinality(Users(k)) - 1
      <4>1. 1 \in Nat /\ 1 <= Cardinality(Users(k)) BY <2>3, <3>2
      <4> QED BY <2>2, <2>3, <4>1, CountsDown
    <3>4. registry'[k].active = Max({registry[k].active - 1, 0}) BY <1>7, <2>1, <2>4 DEF Entries
    <3> QED BY <3>1, <3>3, <3>4
  <2>5. CASE k # m
    <3>1. Users(k)' = Users(k) BY <1>5, <1>6, <2>1, <2>5
    <3> QED BY <1>6, <2>1, <2>2, <2>5, <3>1
  <2> QED BY <2>4, <2>5
<1>11. NeverOverCounted' BY <1>10 DEF NeverOverCounted, Users
<1>12. LruOK' BY <1>0, <1>1 DEF LruOK
<1> QED BY <1>4, <1>5, <1>9, <1>11, <1>12 DEF SessionsInv

LEMMA TouchInv ==
    ASSUME SessionsInv, NEW i \in Live, TouchSession(i)
    PROVE  SessionsInv'
<1>0. RegistryOK /\ LruOK /\ SessionsOK /\ IdsInOrder /\ NeverOverCounted BY DEF SessionsInv
<1>1. /\ sessions[i].gen < MaxGen /\ UNCHANGED <<registry, lru>> /\ i \in Ids
      /\ sessions' = [sessions EXCEPT ![i].gen = @ + 1, ![i].quiet = FALSE]
  BY DEF TouchSession, Live
<1>2. \A j \in Ids : sessions'[j].st = sessions[j].st /\ sessions'[j].model = sessions[j].model
  BY <1>0, <1>1 DEF SessionsOK, SessionRecords
<1>3. Live' = Live /\ IdsInOrder' /\ \A m : Users(m)' = Users(m) BY <1>0, <1>2, SameUsers
<1>4. SessionsOK'
  <2>1. sessions[i].gen + 1 \in 0..MaxGen BY <1>0, <1>1, GovernorAssumption DEF SessionsOK, SessionRecords
  <2>2. sessions' \in [Ids -> SessionRecords] BY <1>0, <1>1, <2>1, ZenonT(40) DEF SessionsOK, SessionRecords
  <2> QED BY <1>0, <1>2, <1>3, <2>2 DEF SessionsOK, Live
<1>5. RegistryOK' /\ LruOK' BY <1>0, <1>1 DEF RegistryOK, LruOK
<1>6. NeverOverCounted' BY <1>0, <1>1, <1>3 DEF NeverOverCounted, Users, Entries
<1> QED BY <1>3, <1>4, <1>5, <1>6 DEF SessionsInv

LEMMA CycleInv ==
    ASSUME SessionsInv, Cycle
    PROVE  SessionsInv'
<1>0. RegistryOK /\ LruOK /\ SessionsOK /\ IdsInOrder /\ NeverOverCounted BY DEF SessionsInv
<1>1. PICK old \in SUBSET {i \in Live : sessions[i].quiet} :
        /\ registry' = ReleaseAll(registry, old)
        /\ sessions' = [i \in Ids |->
                           IF i \in old THEN NoSession("gone")
                           ELSE IF i \in Live THEN [sessions[i] EXCEPT !.quiet = TRUE]
                           ELSE sessions[i]]
  BY DEF Cycle
<1>2. old \in SUBSET Live /\ lru' = lru BY DEF Cycle
<1>3. NoSession("gone") \in SessionRecords BY GovernorAssumption DEF NoSession, SessionRecords
<1>4. \A j \in Ids : IF j \in old THEN sessions'[j] = NoSession("gone")
                     ELSE sessions'[j].st = sessions[j].st /\ sessions'[j].model = sessions[j].model
  BY <1>0, <1>1 DEF SessionsOK, SessionRecords
<1>5. SessionsOK'
  <2>1. \A j \in Ids : sessions'[j] \in SessionRecords
    <3> SUFFICES ASSUME NEW j \in Ids PROVE sessions'[j] \in SessionRecords OBVIOUS
    <3>1. sessions[j] \in SessionRecords BY <1>0 DEF SessionsOK
    <3>2. [sessions[j] EXCEPT !.quiet = TRUE] \in SessionRecords BY <3>1 DEF SessionRecords
    <3>3. sessions'[j] \in {NoSession("gone"), [sessions[j] EXCEPT !.quiet = TRUE], sessions[j]}
      BY <1>1
    <3> QED BY <1>3, <3>1, <3>2, <3>3
  <2>2. sessions' \in [Ids -> SessionRecords] BY <1>1, <2>1
  <2>3. ASSUME NEW j \in Live' PROVE sessions'[j].model \in Models
    <3>1. j \in Live /\ j \notin old /\ j \in Ids BY <1>4 DEF Live, NoSession
    <3> QED BY <1>0, <1>4, <3>1 DEF SessionsOK
  <2> QED BY <2>2, <2>3 DEF SessionsOK
<1>6. IdsInOrder' /\ \A m : Users(m)' = Users(m) \ old BY <1>0, <1>2, <1>4, <1>5, SessionsEnd
<1> DEFINE left(m) == Cardinality(Users(m) \cap old)
<1>7. ASSUME NEW m \in Models
      PROVE  /\ left(m) \in Nat /\ left(m) <= Cardinality(Users(m))
             /\ Cardinality(Users(m)') = Cardinality(Users(m)) - left(m)
             /\ left(m) = Cardinality({i \in old : sessions[i].model = m})
  <2>1. IsFiniteSet(Users(m)) BY UsersFinite
  <2>2. {i \in old : sessions[i].model = m} = Users(m) \cap old BY <1>2 DEF Users
  <2>3. Cardinality(Users(m) \ old) = Cardinality(Users(m)) - left(m) BY <2>1, FS_Difference
  <2>4. IsFiniteSet(Users(m) \cap old) /\ left(m) <= Cardinality(Users(m)) BY <2>1, FS_Intersection
  <2>5. left(m) \in Nat BY <2>4, FS_CardinalityType
  <2> QED BY <1>6, <2>2, <2>3, <2>4, <2>5
<1>8. ASSUME NEW m \in Models
      PROVE  registry'[m] = IF registry[m].tier = "absent" THEN registry[m]
                            ELSE [registry[m] EXCEPT !.active = Max({registry[m].active - left(m), 0})]
  BY <1>1, <1>7 DEF ReleaseAll
<1>9. registry' = [m \in Models |-> registry'[m]] BY <1>1 DEF ReleaseAll
<1> HIDE DEF left
<1>10. ASSUME NEW m \in Models
       PROVE  /\ registry'[m] \in [tier : Tiers \cup {"absent"}, active : Nat]
              /\ registry'[m].tier = registry[m].tier
              /\ m \in Entries => registry'[m].active <= Cardinality(Users(m)')
  <2>1. registry[m] \in [tier : Tiers \cup {"absent"}, active : Nat] BY <1>0 DEF RegistryOK
  <2>2. CASE registry[m].tier = "absent" BY <1>8, <2>1, <2>2 DEF Entries
  <2>3. CASE registry[m].tier # "absent"
    <3> DEFINE x == Max({registry[m].active - left(m), 0})
    <3>1. registry'[m] = [registry[m] EXCEPT !.active = x] BY <1>8, <2>3
    <3>2. registry[m].active <= Cardinality(Users(m)) /\ registry[m].active \in Nat
      BY <1>0, <2>1, <2>3 DEF NeverOverCounted, Users, Entries
    <3>3. x \in Nat /\ x <= Cardinality(Users(m)) - left(m) BY <1>7, <3>2, UsersFinite, CountsDown
    <3> HIDE DEF x
    <3> QED BY <1>7, <2>1, <3>1, <3>3
  <2> QED BY <2>2, <2>3
<1>11. RegistryOK' BY <1>9, <1>10 DEF RegistryOK
<1>12. NeverOverCounted' BY <1>10 DEF NeverOverCounted, Users, Entries
<1>13. LruOK' BY <1>0, <1>2 DEF LruOK
<1> QED BY <1>5, <1>6, <1>11, <1>12, <1>13 DEF SessionsInv

LEMMA CheckSwapInv ==
    ASSUME SessionsInv, NEW m \in Models, CheckSwap(m)
    PROVE  SessionsInv'
<1>0. RegistryOK /\ LruOK /\ SessionsOK /\ IdsInOrder /\ NeverOverCounted BY DEF SessionsInv
<1>1. UNCHANGED <<registry, sessions>> BY DEF CheckSwap
<1>2. lru' = lru \/ \E p \in DOMAIN lru : lru' = RemoveAt(lru, p) BY DEF CheckSwap, Oldest
<1>3. LruOK' BY <1>0, <1>2, RemoveAtKeeps DEF LruOK
<1>4. RegistryOK' /\ SessionsOK' /\ IdsInOrder' /\ NeverOverCounted'
  BY <1>0, <1>1 DEF RegistryOK, SessionsOK, IdsInOrder, NeverOverCounted, Live, Entries
<1> QED BY <1>3, <1>4 DEF SessionsInv

-----------------------------------------------------------------------------
(* The VM *)

VmTypeOK ==
    /\ ring \in Seq(Opcodes)
    /\ dispatchPc \in {"recv", "route"}
    /\ current \in Opcodes \cup {NoOp} /\ (dispatchPc = "route" => current \in Opcodes)
    /\ stats \in [{"total", "stale", "cognitive", "gpu", "cpu", "unknown"} -> Nat]
    /\ slots \in Seq(Tiers)

VmInv == VmTypeOK /\ OpsAccounted /\ gpuState = {}

LEMMA RegisterSlotInv ==
    ASSUME VmInv, NEW tier \in Tiers, RegisterSlot(tier)
    PROVE  VmInv'
BY DEF VmInv, VmTypeOK, OpsAccounted, RegisterSlot

LEMMA EnqueueInv ==
    ASSUME VmInv, SessionsInv, NEW i \in Live, NEW cls \in {"interactive", "cognitive"},
           NEW slot \in 1..MaxSlots, Enqueue(i, cls, slot)
    PROVE  VmInv'
<1> DEFINE op == [sid |-> i, gen |-> sessions[i].gen, cls |-> cls, slot |-> slot]
<1>1. ring' = Append(ring, op) /\ UNCHANGED <<current, dispatchPc, stats, slots, gpuState>> BY DEF Enqueue
<1>2. op \in Opcodes BY DEF SessionsInv, SessionsOK, SessionRecords, Live, Opcodes
<1> HIDE DEF op
<1>3. ring' \in Seq(Opcodes) BY <1>1, <1>2 DEF VmInv, VmTypeOK
<1> QED BY <1>1, <1>3 DEF VmInv, VmTypeOK, OpsAccounted

\* The counters before and after a step, field by field.
LEMMA FieldCounted ==
    ASSUME VmInv, NEW field \in {"stale", "unknown", "cognitive"}, Count(field)
    PROVE  /\ stats' \in [{"total", "stale", "cognitive", "gpu", "cpu", "unknown"} -> Nat]
           /\ OpsAccounted /\ dispatchPc' = dispatchPc => OpsAccounted'
<1>1. stats \in [{"total", "stale", "cognitive", "gpu", "cpu", "unknown"} -> Nat] /\ OpsAccounted
  BY DEF VmInv, VmTypeOK
<1>2. CASE field = "stale" BY <1>1, <1>2 DEF Count, OpsAccounted
<1>3. CASE field = "unknown" BY <1>1, <1>3 DEF Count, OpsAccounted
<1>4. CASE field = "cognitive" BY <1>1, <1>4 DEF Count, OpsAccounted
<1> QED BY <1>2, <1>3, <1>4

LEMMA DispatchInv ==
    ASSUME VmInv, Dispatch
    PROVE  VmInv'
<1>0. VmTypeOK /\ OpsAccounted /\ gpuState = {} BY DEF VmInv
<1>1. dispatchPc = "recv" /\ ring # <<>> /\ ring' = Tail(ring) /\ UNCHANGED <<slots, gpuState>>
  BY DEF Dispatch
<1>2. ring' \in Seq(Opcodes) /\ Head(ring) \in Opcodes BY <1>0, <1>1 DEF VmTypeOK
<1>3. \/ /\ \E field \in {"stale", "unknown", "cognitive"} : Count(field)
         /\ UNCHANGED <<current, dispatchPc>>
      \/ /\ stats' = [stats EXCEPT !.total = @ + 1]
         /\ current' = Head(ring) /\ dispatchPc' = "route"
  BY Zenon DEF Dispatch
<1>4. CASE /\ \E field \in {"stale", "unknown", "cognitive"} : Count(field)
           /\ UNCHANGED <<current, dispatchPc>>
  <2>1. PICK field \in {"stale", "unknown", "cognitive"} : Count(field) BY <1>4
  <2>2. /\ stats' \in [{"total", "stale", "cognitive", "gpu", "cpu", "unknown"} -> Nat]
        /\ OpsAccounted'
    BY <1>0, <1>4, <2>1, FieldCounted
  <2> QED BY <1>0, <1>1, <1>2, <1>4, <2>2 DEF VmInv, VmTypeOK
<1>5. CASE /\ stats' = [stats EXCEPT !.total = @ + 1]
           /\ current' = Head(ring) /\ dispatchPc' = "route"
  <2>1. stats' \in [{"total", "stale", "cognitive", "gpu", "cpu", "unknown"} -> Nat]
    BY <1>0, <1>5, SMTT(40) DEF VmTypeOK
  <2>2. OpsAccounted' BY <1>0, <1>1, <1>5 DEF OpsAccounted, VmTypeOK
  <2> QED BY <1>0, <1>1, <1>2, <1>5, <2>1, <2>2 DEF VmInv, VmTypeOK
<1> QED BY <1>3, <1>4, <1>5

\* No opcode is routed to the GPU while no slot has a state there.
LEMMA RouteInv ==
    ASSUME VmInv, Route
    PROVE  VmInv'
<1>0. VmTypeOK /\ OpsAccounted /\ gpuState = {} BY DEF VmInv
<1>1. dispatchPc = "route" /\ current' = NoOp /\ dispatchPc' = "recv" /\ UNCHANGED <<ring, slots>>
  BY DEF Route
<1>2. ~RouteToGpu(current.slot) BY <1>0 DEF RouteToGpu
<1>3. stats' = [stats EXCEPT !["cpu"] = @ + 1] /\ gpuState' = gpuState BY <1>2 DEF Route
<1>4. stats' \in [{"total", "stale", "cognitive", "gpu", "cpu", "unknown"} -> Nat]
  BY <1>0, <1>3 DEF VmTypeOK
<1>5. OpsAccounted' BY <1>0, <1>1, <1>3 DEF OpsAccounted, VmTypeOK
<1> QED BY <1>0, <1>1, <1>3, <1>4, <1>5 DEF VmInv, VmTypeOK

-----------------------------------------------------------------------------
LEMMA GovInitInv == GovInit => SessionsInv /\ VmInv
<1> SUFFICES ASSUME GovInit PROVE SessionsInv /\ VmInv OBVIOUS
<1>1. RegistryOK BY DEF GovInit, SessionsInit, RegistryOK
<1>2. LruOK BY DEF GovInit, SessionsInit, LruOK, IsInjective
<1>3. NoSession("never") \in SessionRecords BY GovernorAssumption DEF NoSession, SessionRecords
<1>4. \A i \in Ids : sessions[i] = NoSession("never") BY DEF GovInit, SessionsInit
<1>5. SessionsOK
  <2>1. sessions \in [Ids -> SessionRecords] BY <1>3 DEF GovInit, SessionsInit
  <2>2. Live = {} BY <1>4 DEF Live, NoSession
  <2> QED BY <2>1, <2>2 DEF SessionsOK
<1>6. IdsInOrder
  <2>1. 0 \in 0..MaxSessions BY GovernorAssumption
  <2>2. \A i \in Ids : sessions[i].st # "never" <=> i <= 0 BY <1>4 DEF NoSession, Ids
  <2> QED BY <2>1, <2>2 DEF IdsInOrder
<1>7. NeverOverCounted
  <2>1. Entries = {} BY DEF GovInit, SessionsInit, Entries
  <2> QED BY <2>1 DEF NeverOverCounted
<1>8. VmTypeOK BY DEF GovInit, VmInit, VmTypeOK
<1>9. OpsAccounted /\ gpuState = {} BY DEF GovInit, VmInit, OpsAccounted
<1> QED BY <1>1, <1>2, <1>5, <1>6, <1>7, <1>8, <1>9 DEF SessionsInv, VmInv

\* Every call on the governor and every step of the dispatcher keeps both parts.
LEMMA GovStep ==
    SessionsInv /\ VmInv /\ [SessionStep \/ CycleStep \/ VmStep]_govVars => (SessionsInv /\ VmInv)'
<1> SUFFICES ASSUME SessionsInv, VmInv, [SessionStep \/ CycleStep \/ VmStep]_govVars
             PROVE  SessionsInv' /\ VmInv'
  OBVIOUS
<1>1. ASSUME UNCHANGED vmVars PROVE VmInv'
  BY <1>1 DEF vmVars, VmInv, VmTypeOK, OpsAccounted
<1>2. ASSUME UNCHANGED sessionVars PROVE SessionsInv'
  BY <1>2 DEF sessionVars, SessionsInv, RegistryOK, LruOK, SessionsOK, IdsInOrder,
              NeverOverCounted, Live, Entries
<1>3. CASE SessionStep
  <2>1. UNCHANGED vmVars
    BY <1>3 DEF SessionStep, RegisterModel, RegisterSession, UnregisterSession, TouchSession
  <2>2. SessionsInv'
    BY <1>3, RegisterModelInv, RegisterSessionInv, UnregisterInv, TouchInv, Zenon
    DEF SessionStep, Tiers
  <2> QED BY <1>1, <2>1, <2>2
<1>4. CASE CycleStep
  <2>1. UNCHANGED vmVars BY <1>4 DEF CycleStep, Cycle, CheckSwap
  <2> QED BY <1>1, <1>4, <2>1, CycleInv, CheckSwapInv DEF CycleStep
<1>5. CASE VmStep
  <2>1. UNCHANGED sessionVars BY <1>5 DEF VmStep, RegisterSlot, Enqueue, Dispatch, Route
  <2>2. VmInv' BY <1>5, RegisterSlotInv, EnqueueInv, DispatchInv, RouteInv, Zenon DEF VmStep, Tiers
  <2> QED BY <1>2, <2>1, <2>2
<1>6. CASE UNCHANGED govVars BY <1>1, <1>2, <1>6 DEF govVars
<1> QED BY <1>3, <1>4, <1>5, <1>6

\* For every set of models and every number of sessions, opcodes and slots, no model
\* is counted as used by more sessions than it has, and every opcode received is
\* counted once.
THEOREM GovernorCountsAgree == GovSpec => []GovernorInv
<1>1. SessionsInv /\ VmInv => GovernorInv
  BY DEF SessionsInv, VmInv, RegistryOK, LruOK, SessionsOK, SessionRecords, VmTypeOK,
         GovernorInv, GovTypeOK
<1> QED BY GovInitInv, GovStep, <1>1, PTL DEF GovSpec

-----------------------------------------------------------------------------
(* What comes through between the two locks of a dispatch *)

\* A session has reached a generation, or is over; it is past the generation, or over.
\* Both stay true.
Reached(i, g) == sessions[i].st = "gone" \/ (sessions[i].st = "live" /\ sessions[i].gen >= g)
Past(i, g)    == sessions[i].st = "gone" \/ (sessions[i].st = "live" /\ sessions[i].gen > g)

\* Once an opcode ran late, its session is past the generation, so that the opcodes still
\* waiting are stale; and none has run late of that in dispatch.
LateInv ==
    /\ late \in [Ids -> [0..MaxGen -> Nat]]
    /\ AtMostOneLate
    /\ \A i \in Ids, g \in 0..MaxGen : late[i][g] # 0 => Past(i, g)
    /\ dispatchPc = "route" => /\ late[current.sid][current.gen] = 0
                               /\ Reached(current.sid, current.gen)

LEMMA StaysPast ==
    ASSUME SessionsInv, SessionStep \/ CycleStep \/ UNCHANGED sessionVars,
           NEW i \in Ids, NEW g \in 0..MaxGen
    PROVE  (Past(i, g) => Past(i, g)') /\ (Reached(i, g) => Reached(i, g)')
<1>0. sessions \in [Ids -> SessionRecords] /\ sessions[i].gen \in Nat /\ g \in Nat
  BY GovernorAssumption DEF SessionsInv, SessionsOK, SessionRecords
<1>1. ASSUME UNCHANGED sessions PROVE (Past(i, g) => Past(i, g)') /\ (Reached(i, g) => Reached(i, g)')
  BY <1>1 DEF Past, Reached
<1>2. ASSUME NEW m \in Models, NEW cls, RegisterSession(m, cls)
      PROVE  (Past(i, g) => Past(i, g)') /\ (Reached(i, g) => Reached(i, g)')
  <2>1. NextId \in Ids /\ NextId \in Int BY <1>2 DEF RegisterSession, Ids
  <2>2. sessions[NextId].st = "never"
    <3>1. sessions[NextId].st # "never" <=> NextId <= NextId - 1 BY <2>1, NewId DEF SessionsInv
    <3> QED BY <2>1, <3>1
  <2>3. i # NextId => sessions'[i] = sessions[i] BY <1>0, <1>2 DEF RegisterSession
  <2> QED BY <2>2, <2>3 DEF Past, Reached
<1>3. ASSUME NEW j \in Live, UnregisterSession(j)
      PROVE  (Past(i, g) => Past(i, g)') /\ (Reached(i, g) => Reached(i, g)')
  <2>1. sessions'[i] = IF i = j THEN NoSession("gone") ELSE sessions[i]
    BY <1>0, <1>3 DEF UnregisterSession
  <2> QED BY <2>1 DEF Past, Reached, NoSession
<1>4. ASSUME NEW j \in Live, TouchSession(j)
      PROVE  (Past(i, g) => Past(i, g)') /\ (Reached(i, g) => Reached(i, g)')
  <2>1. /\ sessions'[i].st = sessions[i].st
        /\ sessions'[i].gen = IF i = j THEN sessions[i].gen + 1 ELSE sessions[i].gen
    BY <1>0, <1>4 DEF TouchSession, SessionRecords
  <2> QED BY <1>0, <2>1 DEF Past, Reached
<1>5. ASSUME Cycle PROVE (Past(i, g) => Past(i, g)') /\ (Reached(i, g) => Reached(i, g)')
  <2>1. \/ sessions'[i] = NoSession("gone")
        \/ sessions'[i].st = sessions[i].st /\ sessions'[i].gen = sessions[i].gen
    BY <1>0, <1>5 DEF Cycle, SessionRecords
  <2> QED BY <2>1 DEF Past, Reached, NoSession
<1>6. ASSUME \/ \E m \in Models, tier \in Tiers : RegisterModel(m, tier)
             \/ \E m \in Models : CheckSwap(m)
             \/ UNCHANGED sessionVars
      PROVE  UNCHANGED sessions
  BY <1>6 DEF RegisterModel, CheckSwap, sessionVars
<1> QED
  BY <1>1, <1>2, <1>3, <1>4, <1>5, <1>6, Zenon DEF SessionStep, CycleStep, Tiers

LEMMA LateDispatch ==
    ASSUME SessionsInv, VmInv, LateInv, Dispatch
    PROVE  LateInv'
<1>1. UNCHANGED <<late, sessions>> /\ dispatchPc = "recv" BY DEF Dispatch, sessionVars
<1>2. \/ UNCHANGED <<current, dispatchPc>>
      \/ current' = Head(ring) /\ ~Stale(Head(ring))
  BY Zenon DEF Dispatch
<1>3. ring # <<>> /\ ring \in Seq(Opcodes) BY DEF VmInv, VmTypeOK, Dispatch
<1>4. PICK op \in Opcodes : op = Head(ring) BY <1>3
<1>5. /\ late \in [Ids -> [0..MaxGen -> Nat]] /\ AtMostOneLate
      /\ \A i \in Ids, g \in 0..MaxGen : late[i][g] # 0 => Past(i, g)
  BY DEF LateInv
<1>6. /\ late' \in [Ids -> [0..MaxGen -> Nat]] /\ AtMostOneLate'
      /\ \A i \in Ids, g \in 0..MaxGen : late'[i][g] # 0 => Past(i, g)'
  BY <1>1, <1>5 DEF AtMostOneLate, Past
<1>7. ASSUME dispatchPc' = "route" PROVE /\ late'[current'.sid][current'.gen] = 0
                                         /\ Reached(current.sid, current.gen)'
  <2>1. current' = op /\ ~Stale(op) BY <1>1, <1>2, <1>4, <1>7
  <2>2. op.sid \in Ids /\ op.gen \in 0..MaxGen /\ op.gen \in Nat BY DEF Opcodes
  <2>3. sessions[op.sid].st = "live" /\ sessions[op.sid].gen = op.gen BY <2>1 DEF Stale, Live
  <2>4. ~Past(op.sid, op.gen) BY <2>2, <2>3 DEF Past
  <2>5. late[op.sid][op.gen] = 0 BY <1>5, <2>2, <2>4
  <2>6. Reached(op.sid, op.gen)' BY <1>1, <2>2, <2>3 DEF Reached
  <2> QED BY <1>1, <2>1, <2>5, <2>6 DEF Reached
<1> QED BY <1>6, <1>7 DEF LateInv

LEMMA LateRoute ==
    ASSUME SessionsInv, VmInv, LateInv, Route
    PROVE  LateInv'
<1>1. /\ UNCHANGED sessions /\ dispatchPc = "route" /\ dispatchPc' = "recv"
      /\ late' = IF Outlived(current) THEN [late EXCEPT ![current.sid][current.gen] = @ + 1] ELSE late
  BY DEF Route, sessionVars
<1>2. current \in Opcodes BY <1>1 DEF VmInv, VmTypeOK
<1>3. PICK i \in Ids, g \in 0..MaxGen : i = current.sid /\ g = current.gen BY <1>2 DEF Opcodes
<1>4. /\ late \in [Ids -> [0..MaxGen -> Nat]]
      /\ \A j \in Ids, h \in 0..MaxGen : late[j][h] <= 1
      /\ \A j \in Ids, h \in 0..MaxGen : late[j][h] # 0 => Past(j, h)
      /\ late[i][g] = 0 /\ Reached(i, g)
  BY <1>1, <1>3 DEF LateInv, AtMostOneLate
<1>5. CASE Outlived(current)
  <2>1. late' = [late EXCEPT ![i] = [late[i] EXCEPT ![g] = late[i][g] + 1]] BY <1>1, <1>3, <1>5
  <2>2. sessions[i].gen \in Nat /\ g \in Nat
    BY GovernorAssumption DEF SessionsInv, SessionsOK, SessionRecords
  <2>3. Past(i, g) BY <1>3, <1>4, <1>5, <2>2 DEF Outlived, Reached, Past
  <2>4. late[i] \in [0..MaxGen -> Nat] /\ late[i][g] + 1 = 1 BY <1>4
  <2>5. PICK row \in [0..MaxGen -> Nat] : /\ row = [late[i] EXCEPT ![g] = 1]
                                        /\ row[g] = 1
                                        /\ \A h \in (0..MaxGen) \ {g} : row[h] = late[i][h]
    <3>1. PICK f \in [0..MaxGen -> Nat] : f = late[i] BY <2>4
    <3>2. PICK row : row = [f EXCEPT ![g] = 1] OBVIOUS
    <3>3. row \in [0..MaxGen -> Nat] /\ row[g] = 1 BY <3>1, <3>2
    <3>4. \A h \in (0..MaxGen) \ {g} : row[h] = f[h] BY <3>1, <3>2
    <3> QED BY <3>1, <3>2, <3>3, <3>4
  <2>6. late' = [late EXCEPT ![i] = row] BY <2>1, <2>4, <2>5
  <2>7. /\ late' \in [Ids -> [0..MaxGen -> Nat]]
        /\ late'[i] = row /\ \A j \in Ids \ {i} : late'[j] = late[j]
    BY <1>4, <2>5, <2>6
  <2>8. \A j \in Ids, h \in 0..MaxGen : late'[j][h] = IF j = i /\ h = g THEN 1 ELSE late[j][h]
    BY <2>5, <2>7
  <2>9. \A j \in Ids, h \in 0..MaxGen : late'[j][h] <= 1 BY <1>4, <2>8
  <2>10. \A j \in Ids, h \in 0..MaxGen : late'[j][h] # 0 => Past(j, h)' BY <1>1, <1>4, <2>3, <2>8 DEF Past
  <2> QED BY <1>1, <2>7, <2>9, <2>10 DEF LateInv, AtMostOneLate
<1>6. CASE ~Outlived(current)
  <2>1. UNCHANGED late BY <1>1, <1>6
  <2>2. \A j \in Ids, h \in 0..MaxGen : late'[j][h] # 0 => Past(j, h)' BY <1>1, <1>4, <2>1 DEF Past
  <2> QED BY <1>1, <1>4, <2>1, <2>2 DEF LateInv, AtMostOneLate
<1> QED BY <1>5, <1>6

LEMMA LateStep ==
    SessionsInv /\ VmInv /\ LateInv /\ [SessionStep \/ CycleStep \/ VmStep]_govVars => LateInv'
<1> SUFFICES ASSUME SessionsInv, VmInv, LateInv, [SessionStep \/ CycleStep \/ VmStep]_govVars
             PROVE  LateInv'
  OBVIOUS
<1>1. ASSUME UNCHANGED <<late, dispatchPc, current>>,
             SessionStep \/ CycleStep \/ UNCHANGED sessionVars
      PROVE  LateInv'
  <2>1. /\ late \in [Ids -> [0..MaxGen -> Nat]] /\ AtMostOneLate
        /\ \A i \in Ids, g \in 0..MaxGen : late[i][g] # 0 => Past(i, g)
        /\ dispatchPc = "route" => /\ late[current.sid][current.gen] = 0
                                   /\ Reached(current.sid, current.gen)
    BY DEF LateInv
  <2>2. \A i \in Ids, g \in 0..MaxGen : late'[i][g] # 0 => Past(i, g)'
    BY <1>1, <2>1, StaysPast, Zenon
  <2>3. ASSUME dispatchPc' = "route"
        PROVE  late'[current'.sid][current'.gen] = 0 /\ Reached(current.sid, current.gen)'
    <3>1. dispatchPc = "route" BY <1>1, <2>3
    <3>2. current.sid \in Ids /\ current.gen \in 0..MaxGen BY <3>1 DEF VmInv, VmTypeOK, Opcodes
    <3>3. PICK i \in Ids, g \in 0..MaxGen : i = current.sid /\ g = current.gen BY <3>2
    <3>4. Reached(i, g)' BY <1>1, <2>1, <3>1, <3>3, StaysPast, Zenon
    <3>5. current' = current /\ late' = late BY <1>1
    <3> QED BY <2>1, <3>1, <3>3, <3>4, <3>5 DEF Reached
  <2>4. late' \in [Ids -> [0..MaxGen -> Nat]] /\ AtMostOneLate'
    BY <1>1, <2>1 DEF AtMostOneLate
  <2> QED BY <2>2, <2>3, <2>4 DEF LateInv
<1>2. CASE SessionStep \/ CycleStep
  BY <1>1, <1>2 DEF SessionStep, RegisterModel, RegisterSession, UnregisterSession, TouchSession,
                   CycleStep, Cycle, CheckSwap, vmVars
<1>3. CASE VmStep
  BY <1>1, <1>3, LateDispatch, LateRoute DEF VmStep, RegisterSlot, Enqueue
<1>4. CASE UNCHANGED govVars BY <1>1, <1>4 DEF govVars, vmVars
<1> QED BY <1>2, <1>3, <1>4

\* However many opcodes are waiting when a session is touched, unregistered or evicted,
\* at most one of a generation runs after that: the one between the dispatcher's locks.
THEOREM OneLateOpcode == GovSpec => []AtMostOneLate
<1>1. GovInit => LateInv
  BY DEF GovInit, VmInit, LateInv, AtMostOneLate
<1>2. LateInv => AtMostOneLate BY DEF LateInv
<1> QED BY <1>1, <1>2, GovInitInv, GovStep, LateStep, PTL DEF GovSpec

\* Whatever the governor's callers do, its budget moves as Budget allows.
THEOREM GovernorKeepsToBudget == GovSpec => BudgetSpec
<1>1. GovInit => BudgetInit BY DEF GovInit
<1>2. [SessionStep \/ CycleStep \/ VmStep]_govVars => [BudgetMoves]_budget8
  <2> SUFFICES ASSUME SessionStep \/ CycleStep \/ VmStep PROVE BudgetMoves \/ UNCHANGED budget8
    BY DEF govVars
  <2>1. CASE SessionStep
    BY <2>1 DEF SessionStep, RegisterModel, RegisterSession, UnregisterSession, TouchSession
  <2>2. CASE CycleStep BY <2>2 DEF CycleStep, Cycle, CheckSwap
  <2>3. CASE VmStep BY <2>3 DEF VmStep, RegisterSlot, Enqueue, Dispatch, Route
  <2> QED BY <2>1, <2>2, <2>3
<1> QED BY <1>1, <1>2, PTL DEF GovSpec, BudgetSpec
=============================================================================
