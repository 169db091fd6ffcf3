----------------------------- MODULE MCGovernor -----------------------------
(***************************************************************************)
(* Several models and requests in one process, for TLC: the parts of the   *)
(* governor that its callers use separately, which are its control loop,   *)
(* the executor's copy of that loop, its sessions (the budget moving as    *)
(* Budget allows, which the control loops are shown to keep to), its       *)
(* sessions with the VM between two cycles, and the token pool; and the    *)
(* calls that run several models or requests, which share nothing with it. *)
(* One of them moves in a behaviour.                                       *)
(***************************************************************************)
EXTENDS Governor, ResourceRamp, TokenPool, MultiRequest

VARIABLE part

MCSize == [big |-> 30, small |-> 10]

allVars == <<govVars, rampVars, poolVars, mrVars, part>>

MCInit ==
    /\ GovInit
    /\ RampInit
    /\ PoolInit
    /\ MRInit
    /\ part \in {"ramp", "executor", "sessions", "vm", "pool", "requests"}
    /\ part # "requests" => api = "execute" /\ conc = Min(Concurrencies)

Others == UNCHANGED <<good, lateAimd, lateArbiter, temp, frac20, threads, chunk, gpuAt,
                      prefetchWindow, stress>>

Ramp == part = "ramp" /\ RampCycle /\ UNCHANGED <<sessionVars, vmVars, poolVars, mrVars, part>>

\* A step of the call, which changes nothing of the governor
InCall(Step) == part = "requests" /\ Step /\ Others /\ UNCHANGED <<govVars, poolVars, part>>

MCNext ==
    \/ Ramp
    \/ part = "executor" /\ ExecutorRamp /\ UNCHANGED <<sessionVars, vmVars, poolVars, mrVars, part>>
    \/ part = "sessions" /\ (SessionStep \/ CycleStep) /\ Others /\ UNCHANGED <<poolVars, mrVars, part>>
    \/ part = "vm" /\ (SessionStep \/ VmStep) /\ Others /\ UNCHANGED <<poolVars, mrVars, part>>
    \/ part = "pool" /\ PoolNext /\ Others /\ UNCHANGED <<govVars, mrVars, part>>
    \/ InCall(MRNext)

\* cycle() is called again and again, and the threads of a call run (MRSpec).
MCSpec ==
    /\ MCInit /\ [][MCNext]_allVars
    /\ WF_allVars(Ramp)
    /\ WF_allVars(InCall(MainStep))
    /\ \A s \in Stages : WF_allVars(InCall(StageStep(s)))
    /\ \A w \in BatchThreads : WF_allVars(InCall(WorkerStep(w)))

\* Once the governor's readings stay calm the budget climbs back to its maximum,
\* however far it was cut and although assessments are lost on the way.
BudgetRecovers == (part = "ramp" /\ <>[](stress = <<>>)) => <>(budget8 = MaxBudget)

\* The call returns, whatever fails or panics and for every capacity of the channels,
\* 0 included, unless a generation filled the channel nobody reads.
RequestsReturn == part = "requests" => CallReturns
=============================================================================
