--------------------------- MODULE CircuitBreaker ---------------------------
(***************************************************************************)
(* CircuitBreaker (swamp-server/src/circuit_breaker.rs): two atomics that  *)
(* request handlers and reset timers write without a lock.                 *)
(*                                                                         *)
(* A call is split at its atomic accesses.  The reset timers are anonymous *)
(* tasks that all do the same, so they are counted by how far they are.    *)
(***************************************************************************)
EXTENDS Integers, FiniteSets

CONSTANTS Callers,      \* the tasks that report to the breaker
          Threshold,    \* threshold
          MaxFailures,  \* bound on failures counted in a row
          MaxTimers     \* bound on the reset timers alive at once

ASSUME CircuitBreakerAssumption ==
  /\ Threshold \in Nat \ {0}
  /\ MaxFailures \in Nat
  /\ MaxTimers \in Nat

VARIABLES failures, open,
          reporting,  \* by caller: where it is in record_failure
          sleeping,   \* reset timers that have not fired
          clearing    \* reset timers that have stored open, not yet failures

breakerVars == <<failures, open, reporting, sleeping, clearing>>

BreakerInit ==
  /\ failures = 0 /\ open = FALSE
  /\ reporting = [c \in Callers |-> "no"]
  /\ sleeping = 0 /\ clearing = 0

\* The faulty variant takes one failure back.
SuccessDecrements(c) ==
  /\ reporting[c] = "no"
  /\ failures' = failures - 1
  /\ UNCHANGED <<open, reporting, sleeping, clearing>>

record_success(c) ==
  /\ reporting[c] = "no"
  /\ failures' = 0
  /\ UNCHANGED <<open, reporting, sleeping, clearing>>

\* fetch_add; the returned count decides whether the breaker is to open.
record_failure(c) ==
  /\ reporting[c] = "no"
  /\ failures < MaxFailures
  /\ failures' = failures + 1
  /\ reporting' = [reporting EXCEPT ![c] = IF failures' >= Threshold THEN "opening" ELSE "no"]
  /\ UNCHANGED <<open, sleeping, clearing>>

OpenBreaker(c) ==
  /\ reporting[c] = "opening"
  /\ open' = TRUE
  /\ reporting' = [reporting EXCEPT ![c] = "spawning"]
  /\ UNCHANGED <<failures, sleeping, clearing>>

\* The faulty variant starts a timer only when none is running.
SpawnOneTimer(c) ==
  /\ reporting[c] = "spawning"
  /\ sleeping' = IF sleeping + clearing = 0 THEN 1 ELSE sleeping
  /\ reporting' = [reporting EXCEPT ![c] = "no"]
  /\ UNCHANGED <<failures, open, clearing>>

\* Every failure at or over the threshold starts a timer of its own.
SpawnTimer(c) ==
  /\ reporting[c] = "spawning"
  /\ sleeping + clearing < MaxTimers
  /\ sleeping' = sleeping + 1
  /\ reporting' = [reporting EXCEPT ![c] = "no"]
  /\ UNCHANGED <<failures, open, clearing>>

TimerCloses ==
  /\ sleeping > 0
  /\ open' = FALSE
  /\ sleeping' = sleeping - 1 /\ clearing' = clearing + 1
  /\ UNCHANGED <<failures, reporting>>

\* The faulty variant leaves the count as it was.
TimerKeepsCount ==
  /\ clearing > 0
  /\ clearing' = clearing - 1
  /\ UNCHANGED <<failures, open, reporting, sleeping>>

TimerClears ==
  /\ clearing > 0
  /\ failures' = 0
  /\ clearing' = clearing - 1
  /\ UNCHANGED <<open, reporting, sleeping>>

Report(c) == OpenBreaker(c) \/ SpawnTimer(c)

BreakerNext ==
  \/ \E c \in Callers : record_success(c) \/ record_failure(c) \/ Report(c)
  \/ TimerCloses
  \/ TimerClears

BreakerSpec == BreakerInit /\ [][BreakerNext]_breakerVars
----------------------------------------------------------------------------
(* Properties *)

BreakerTypeOK ==
  /\ failures \in 0..MaxFailures
  /\ open \in BOOLEAN
  /\ reporting \in [Callers -> {"no", "opening", "spawning"}]
  /\ sleeping \in Nat /\ clearing \in Nat

\* An open breaker is about to be closed again: a timer sleeps, or the caller
\* that opened it has still to start one.  No interleaving of callers and
\* older timers leaves the breaker open for good.
OpenHasTimer == open => sleeping > 0 \/ \E c \in Callers : reporting[c] = "spawning"

\* A count at the threshold is never left unanswered: the breaker is open, a
\* caller is about to open it, or a timer that just closed it is about to
\* clear the count.
TripIsAnswered ==
  failures >= Threshold => open \/ clearing > 0 \/ \E c \in Callers : reporting[c] = "opening"

\* Every time the breaker opens it closes again, also when failures go on.
BreakerCloses == open ~> ~open
=============================================================================
