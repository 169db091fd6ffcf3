----------------------------- MODULE TokenPool -----------------------------
(***************************************************************************)
(* The counting of tokens by compare-and-exchange, shared by               *)
(* CognitiveWorkerPool (swamp-engine/src/governor.rs) and PipelineToken    *)
(* (swamp-engine/src/scheduler.rs): load, compare with the limit, exchange *)
(* or start over; dropping a token subtracts one.                          *)
(***************************************************************************)
EXTENDS Integers, FiniteSets

CONSTANTS PoolThreads, Limit

ASSUME LimitAssumption == Limit \in Nat

VARIABLES
    active,     \* the atomic counter
    poolPc,     \* thread |-> "out", "loaded" or "holding"
    seen        \* thread |-> the value it loaded

poolVars == <<active, poolPc, seen>>

PoolInit ==
    /\ active = 0
    /\ poolPc = [t \in PoolThreads |-> "out"]
    /\ seen = [t \in PoolThreads |-> 0]

\* The load; at the limit the call returns None
Load(t) ==
    /\ poolPc[t] = "out"
    /\ active < Limit
    /\ seen' = [seen EXCEPT ![t] = active]
    /\ poolPc' = [poolPc EXCEPT ![t] = "loaded"]
    /\ UNCHANGED active

\* Mutant: the exchange does not compare
Exchanges_blindly(t) == TRUE

\* compare_exchange_weak may succeed
Exchanges(t) == active = seen[t]

Exchange(t) ==
    /\ poolPc[t] = "loaded"
    /\ Exchanges(t)
    /\ active' = active + 1
    /\ poolPc' = [poolPc EXCEPT ![t] = "holding"]
    /\ UNCHANGED seen

\* It fails, spuriously or because the counter moved: load again
Retry(t) ==
    /\ poolPc[t] = "loaded"
    /\ poolPc' = [poolPc EXCEPT ![t] = "out"]
    /\ UNCHANGED <<active, seen>>

DropToken(t) ==
    /\ poolPc[t] = "holding"
    /\ active' = active - 1
    /\ poolPc' = [poolPc EXCEPT ![t] = "out"]
    /\ UNCHANGED seen

PoolNext == \E t \in PoolThreads : Load(t) \/ Exchange(t) \/ Retry(t) \/ DropToken(t)

PoolSpec == PoolInit /\ [][PoolNext]_poolVars

-----------------------------------------------------------------------------
\* The counter is the number of tokens held and never passes the limit, for every
\* interleaving of the loads, exchanges and drops of the threads.
TokensBounded ==
    /\ active = Cardinality({t \in PoolThreads : poolPc[t] = "holding"})
    /\ active <= Limit
=============================================================================
