---------------------------- MODULE ResourceRamp ----------------------------
(***************************************************************************)
(* The control loop that scales concurrency: AimdRamp (aimd.rs),           *)
(* ThermalLSC (thermal.rs) and PowerArbiter (power_arbiter.rs).  The       *)
(* ResourceGovernor's cycle (governor.rs) drives one set of them every     *)
(* half second, the executor's decode loop another every twenty tokens.    *)
(*                                                                         *)
(* The CPU fraction is kept in twentieths, the step of the code's          *)
(* arithmetic.  Sensors return any of a few readings that the thresholds   *)
(* tell apart.                                                             *)
(***************************************************************************)
EXTENDS Budget, Sequences

CONSTANTS
    BaseThreads,    \* the governor's max_n_threads
    Temperatures    \* readings of the package temperature, in degrees Celsius

\* max_n_threads is a count of cores.
ASSUME RampAssumption == BaseThreads \in Nat \ {0} /\ Temperatures \subseteq Nat

VARIABLES
    good,           \* consecutive_good_steps, counted up to GoodCap
    lateAimd,       \* AimdRamp's interval was not over at the last assess()
    lateArbiter,    \* likewise PowerArbiter's
    temp,           \* the temperature read last
    frac20,         \* PowerArbiter.cpu_fraction * 20
    threads, chunk, gpuAt,   \* cpu_threads, prefill_chunk_size, gpu_model_threshold
    prefetchWindow, \* the executor's prefetch_k
    stress          \* history: the budgets before the stressed cycles of the
                    \* current run of them, the last two

rampVars == <<budget8, good, lateAimd, lateArbiter, temp, frac20, threads, chunk,
              gpuAt, prefetchWindow, stress>>

GoodCap == 5

RampInit ==
    /\ BudgetInit
    /\ good = 0
    /\ lateAimd = FALSE /\ lateArbiter = FALSE
    /\ temp = 45
    /\ frac20 = 14
    /\ threads = BaseThreads /\ chunk = 4096 /\ gpuAt = "3GB"
    /\ prefetchWindow = 6
    /\ stress = <<>>

Clamp(x, lo, hi) == Max({lo, Min({x, hi})})

\* round() of a quotient of naturals
Round(a, b) == (2 * a + b) \div (2 * b)

-----------------------------------------------------------------------------
\* Mutant: stress drops the budget to its minimum at once
Assess_reset(stressed, hitHigh) ==
    /\ budget8' = IF stressed THEN MinBudget ELSE Doubled(budget8)
    /\ good' = IF ~stressed /\ hitHigh THEN Min({good + 1, GoodCap}) ELSE 0

\* assess_inner; the executor counts calm steps with a high hit rate
Assess(stressed, hitHigh) ==
    /\ budget8' = IF stressed THEN Halved(budget8) ELSE Doubled(budget8)
    /\ good' = IF ~stressed /\ hitHigh THEN Min({good + 1, GoodCap}) ELSE 0

\* scaled_threads(base)
ScaledThreads(base, b) == Clamp(Round(base * b, 8), 1, 12)

\* scaled_k(6): six times the square root of the budget, in 1..12
ScaledK(b) ==
    CASE b = 1 -> 2 [] b = 2 -> 3 [] b = 4 -> 4 [] b = 8 -> 6 [] b = 16 -> 8 [] OTHER -> 12

\* Mutant: the clocks of cycle() and assess() may disagree time and again
MayBeLate_always(late) == BOOLEAN

\* cycle(), assess() and reassess() check the same interval, each against an
\* Instant of its own taken at a different moment, so the later two may find it
\* not over and keep their old values.  The next cycle is then far past it.
MayBeLate(late) == IF late THEN {FALSE} ELSE BOOLEAN

\* ThermalLSC::update, predictive_throttle and the Warning state: near the power
\* limit while heating, or 75 degrees and more
Stressed(new, powerHigh) == (powerHigh /\ new > temp) \/ new >= 75

\* reassess: near the power limit and heating fast, hot and heating, or cool and
\* idle; its power and temperature are readings of its own
Arbitrate ==
    \E power \in {"low", "mid", "high"}, reading \in {"cool", "warm", "hot"},
       trend \in {"falling", "slow", "fast"} :
        frac20' = IF power = "high" /\ trend = "fast" THEN Max({frac20 - 2, 4})
                  ELSE IF reading = "hot" /\ trend # "falling" THEN Max({frac20 - 1, 6})
                  ELSE IF power = "low" /\ reading = "cool" THEN Min({frac20 + 1, 17})
                  ELSE frac20

Noted(stressed) ==
    stress' = IF ~stressed THEN <<>>
              ELSE IF Len(stress) < 2 THEN Append(stress, budget8)
              ELSE <<stress[2], budget8>>

-----------------------------------------------------------------------------
BudgetFlags(b, f) ==
    [threads |-> Max({1, Round(ScaledThreads(BaseThreads, b) * f, 20)}),
     chunk |-> Clamp(512 * b, 512, 16384),
     gpuAt |-> IF b < 4 THEN "4GB" ELSE IF b < 8 THEN "3GB" ELSE "1.5GB"]

\* tune_flags; at 85 degrees and above everything goes to the minimum
Tuned(new, b, f) ==
    IF new >= 85 THEN [threads |-> 1, chunk |-> 512, gpuAt |-> "never"] ELSE BudgetFlags(b, f)

\* Steps 1 to 4 of ResourceGovernor::cycle
RampCycle ==
    \E new \in Temperatures, powerHigh \in BOOLEAN,
       aimdLate \in MayBeLate(lateAimd), arbiterLate \in MayBeLate(lateArbiter) :
        LET stressed == Stressed(new, powerHigh) IN
        /\ temp' = new
        /\ lateAimd' = aimdLate /\ lateArbiter' = arbiterLate
        /\ IF aimdLate THEN UNCHANGED <<budget8, good>> ELSE Assess(stressed, TRUE)
        /\ IF arbiterLate THEN UNCHANGED frac20 ELSE Arbitrate
        /\ LET t == Tuned(new, budget8', frac20') IN
           threads' = t.threads /\ chunk' = t.chunk /\ gpuAt' = t.gpuAt
        /\ Noted(stressed)
        /\ UNCHANGED prefetchWindow

\* The executor, every twenty steps: the temperature, the frequency and the share
\* of prefetched layers decide; twenty steps may well take less than the interval.
\* The boost of the window is overwritten by scaled_k.
ExecutorRamp ==
    \E new \in Temperatures, slow \in BOOLEAN, hits \in {"low", "mid", "high"},
       aimdLate \in BOOLEAN, arbiterLate \in BOOLEAN :
        LET stressed == new > 80 \/ slow \/ hits = "low" IN
        /\ temp' = new
        /\ IF aimdLate THEN UNCHANGED <<budget8, good>> ELSE Assess(stressed, hits = "high")
        /\ IF arbiterLate THEN UNCHANGED frac20 ELSE Arbitrate
        /\ prefetchWindow' = ScaledK(budget8')
        /\ threads' = Max({1, Round(ScaledThreads(IF stressed THEN 2 ELSE 6, budget8') * frac20', 20)})
        /\ UNCHANGED <<lateAimd, lateArbiter, chunk, gpuAt, stress>>

\* The governor and the executor each drive a ramp of their own.
RampSpec == RampInit /\ [][RampCycle]_rampVars
ExecutorRampSpec == RampInit /\ [][ExecutorRamp]_rampVars

-----------------------------------------------------------------------------
\* Properties

RampTypeOK ==
    /\ budget8 \in MinBudget..MaxBudget
    /\ good \in 0..GoodCap
    /\ frac20 \in 4..17
    /\ threads \in 1..Max({12, BaseThreads})
    /\ chunk \in 512..16384
    /\ prefetchWindow \in 1..12

\* Stress is felt: after two stressed cycles in a row the budget is below what it
\* was before them, or at its minimum, although an assessment may be lost because
\* cycle() and AimdRamp time the same interval separately.
StressIsFelt == Len(stress) = 2 => budget8 < stress[1] \/ budget8 = MinBudget

\* The ramp stays in the ranges its users rely on and reacts to stress.
RampInv == RampTypeOK /\ StressIsFelt
=============================================================================
