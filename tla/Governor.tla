------------------------------ MODULE Governor ------------------------------
(***************************************************************************)
(* ResourceGovernor (swamp-engine/src/governor.rs) with the ModelRegistry  *)
(* and the ModelSwapper it owns, and SwampVm (swamp_vm.rs), whose          *)
(* dispatcher thread shares the governor with its other users through a    *)
(* mutex.  Every call on the governor is one step; the dispatcher takes    *)
(* the lock twice per opcode, with steps of the others in between.         *)
(***************************************************************************)
EXTENDS Budget, SequencesExt

CONSTANTS
    Models,        \* model names
    Size,          \* model |-> size in VRAM units
    Capacity,      \* vram_capacity
    MaxSessions,   \* bound: sessions ever registered
    MaxGen,        \* bound: a session's generation
    MaxOps,        \* bound: opcodes ever enqueued
    MaxSlots       \* bound: models registered with the VM

ASSUME GovernorAssumption ==
    MaxSessions \in Nat /\ MaxGen \in Nat /\ MaxOps \in Nat /\ MaxSlots \in Nat

VARIABLES
    registry,      \* model |-> [tier, active]; tier "absent" before register
    lru,           \* ModelSwapper.lru_order, most recent last
    evicted,       \* the last check_swap: [for, out], out the models to evict
    sessions,      \* id |-> [st, cls, model, gen, quiet]; st is "never", "live" or "gone"
    predicted,     \* predicted_next
    ring,          \* opcodes waiting: [sid, gen, cls, slot]
    current,       \* the opcode in dispatch, or NoOp
    dispatchPc,    \* "recv", or "route" between the two locks of dispatch
    stats,         \* VmStats, and the opcodes of unknown models
    slots,         \* the tiers of the ModelSlots register_model pushed
    gpuState,      \* those slots whose gpu_state is Some
    late           \* history: opcodes that ran after their session ended or was touched,
                   \* by session and generation

sessionVars == <<registry, lru, evicted, sessions, predicted>>
vmVars == <<ring, current, dispatchPc, stats, slots, gpuState, late>>
govVars == <<budget8, sessionVars, vmVars>>

Ids == 1..MaxSessions
NoOp == [sid |-> 0, gen |-> 0, cls |-> "none", slot |-> 0]
NoSession(st) == [st |-> st, cls |-> "none", model |-> "none", gen |-> 0, quiet |-> FALSE]

\* The sessions of the Vec; ids only grow, so its order is that of the ids
Live == {i \in Ids : sessions[i].st = "live"}
Entries == {m \in Models : registry[m].tier # "absent"}

SessionsInit ==
    /\ registry = [m \in Models |-> [tier |-> "absent", active |-> 0]]
    /\ lru = <<>>
    /\ evicted = [for |-> "none", out |-> {}]
    /\ sessions = [i \in Ids |-> NoSession("never")]
    /\ predicted = "none"

VmInit ==
    /\ ring = <<>>
    /\ current = NoOp
    /\ dispatchPc = "recv"
    /\ stats = [total |-> 0, stale |-> 0, cognitive |-> 0, gpu |-> 0, cpu |-> 0, unknown |-> 0]
    /\ slots = <<>> /\ gpuState = {}
    /\ late = [i \in Ids |-> [g \in 0..MaxGen |-> 0]]

-----------------------------------------------------------------------------
\* ModelRegistry

\* register: loads the model and replaces the entry, count included
RegisterModel(m, tier) ==
    /\ registry' = [registry EXCEPT ![m] = [tier |-> tier, active |-> 0]]
    /\ UNCHANGED <<budget8, lru, evicted, sessions, predicted, vmVars>>

Acquired(reg, m) == [reg EXCEPT ![m].active = @ + 1]

\* release: nothing for a model that is not registered, otherwise saturating_sub
Released(reg, m) ==
    [reg EXCEPT ![m].active = IF reg[m].tier = "absent" THEN @ ELSE Max({@ - 1, 0})]

\* total_vram_active, without the model given
VramActive(but) ==
    MapThenSumSet(LAMBDA m : Size[m],
        {m \in Entries \ but : registry[m].tier = "vram" /\ registry[m].active > 0})

-----------------------------------------------------------------------------
\* ResourceGovernor

\* can_admit for what classify_workload returns (it never returns Cognitive): no
\* admission below the headroom of 0.15; batch sessions may use half
Usable == (Max({Capacity - VramActive({}), 0}) * (20 * budget8 - 24)) \div (20 * budget8)
CanAdmit(m, cls) ==
    /\ budget8 > 1
    /\ Size[m] <= IF cls = "batch" THEN Usable \div 2 ELSE Usable

NextId == Cardinality({i \in Ids : sessions[i].st # "never"}) + 1

\* Mutant: the name is appended and its old place kept
Touched_append(m) == Append(lru, m)

\* touch: to the end of the list
Touched(m) == Append(RemoveFirst(lru, m), m)

\* register_session: the model is acquired only if it is in VRAM by now
RegisterSession(m, cls) ==
    /\ NextId \in Ids
    /\ CanAdmit(m, cls)
    /\ sessions' = [sessions EXCEPT ![NextId] =
                       [st |-> "live", cls |-> cls, model |-> m, gen |-> 0, quiet |-> FALSE]]
    /\ lru' = IF m \in Entries THEN Touched(m) ELSE lru
    /\ registry' = IF m \in Entries /\ registry[m].tier = "vram" THEN Acquired(registry, m)
                   ELSE registry
    /\ UNCHANGED <<budget8, evicted, predicted, vmVars>>

\* unregister_session
UnregisterSession(i) ==
    /\ registry' = Released(registry, sessions[i].model)
    /\ sessions' = [sessions EXCEPT ![i] = NoSession("gone")]
    /\ UNCHANGED <<budget8, lru, evicted, predicted, vmVars>>

\* touch_session
TouchSession(i) ==
    /\ sessions[i].gen < MaxGen
    /\ sessions' = [sessions EXCEPT ![i].gen = @ + 1, ![i].quiet = FALSE]
    /\ UNCHANGED <<budget8, registry, lru, evicted, predicted, vmVars>>

\* Mutant: the sessions are retained away and their models stay acquired
ReleaseAll_none(reg, ids) == reg

\* evict_stale_sessions releases the model of each: as often as m has sessions in ids
ReleaseAll(reg, ids) ==
    [m \in Models |->
        IF reg[m].tier = "absent" THEN reg[m]
        ELSE [reg[m] EXCEPT !.active =
                 Max({@ - Cardinality({i \in ids : sessions[i].model = m}), 0})]]

\* cycle(): the ramp (ResourceRamp), then the eviction of sessions without activity for 30 s (any
\* that were not touched since the last cycle), then the hint to the swapper
Cycle ==
    /\ BudgetMoves
    /\ \E old \in SUBSET {i \in Live : sessions[i].quiet} :
        /\ registry' = ReleaseAll(registry, old)
        /\ sessions' = [i \in Ids |->
                           IF i \in old THEN NoSession("gone")
                           ELSE IF i \in Live THEN [sessions[i] EXCEPT !.quiet = TRUE]
                           ELSE sessions[i]]
    /\ predicted' = IF Live' = {} THEN "none" ELSE sessions[Min(Live')].model
    /\ UNCHANGED <<lru, evicted, vmVars>>

-----------------------------------------------------------------------------
\* ModelSwapper::check_swap: nothing for a hot model; room beside the active ones
\* is enough; otherwise the least recently used other model is taken off the
\* list, whatever its active_count
Oldest(m) == {p \in DOMAIN lru : lru[p] # m /\ \A q \in 1..(p - 1) : lru[q] = m}
CheckSwap(m) ==
    /\ m \in Entries
    /\ IF registry[m].tier = "vram" \/ Capacity - VramActive({m}) >= Size[m] \/ Oldest(m) = {}
       THEN evicted' = [for |-> m, out |-> {}] /\ UNCHANGED lru
       ELSE \E p \in Oldest(m) : /\ evicted' = [for |-> m, out |-> {lru[p]}]
                                 /\ lru' = RemoveAt(lru, p)
    /\ UNCHANGED <<budget8, registry, sessions, predicted, vmVars>>

-----------------------------------------------------------------------------
\* SwampVm

\* register_model, on a VM whose mutex the dispatcher does not hold; the slot keeps
\* the tier it is registered with, whatever the registry says later
RegisterSlot(tier) ==
    /\ dispatchPc = "recv"
    /\ Len(slots) < MaxSlots
    /\ slots' = Append(slots, tier)
    /\ UNCHANGED <<budget8, sessionVars, ring, current, dispatchPc, stats, gpuState, late>>

\* enqueue: a client makes the opcode with its session's generation of that moment
\* and the index of a model
Enqueue(i, cls, slot) ==
    /\ stats.total + Len(ring) < MaxOps
    /\ ring' = Append(ring, [sid |-> i, gen |-> sessions[i].gen, cls |-> cls, slot |-> slot])
    /\ UNCHANGED <<budget8, sessionVars, current, dispatchPc, stats, slots, gpuState, late>>

\* Mutant: a session that is gone is not stale
Stale_gone(op) == op.sid \in Live /\ sessions[op.sid].gen # op.gen

\* session_generation is None or another one
Stale(op) == op.sid \notin Live \/ sessions[op.sid].gen # op.gen

Count(field) == stats' = [stats EXCEPT !.total = @ + 1, ![field] = @ + 1]

\* dispatch up to the release of the governor's lock; a cognitive opcode runs to its
\* end, with a token of the pool, which its only user here never exhausts
Dispatch ==
    /\ dispatchPc = "recv" /\ ring # <<>>
    /\ ring' = Tail(ring)
    /\ LET op == Head(ring)
           known == op.slot \in DOMAIN slots
       IN  \/ Stale(op) /\ Count("stale") /\ UNCHANGED <<current, dispatchPc>>
           \/ ~Stale(op) /\ ~known /\ Count("unknown") /\ UNCHANGED <<current, dispatchPc>>
           \/ /\ ~Stale(op) /\ known /\ op.cls = "cognitive"
              /\ Count("cognitive") /\ UNCHANGED <<current, dispatchPc>>
           \/ /\ ~Stale(op) /\ known /\ op.cls # "cognitive"
              /\ stats' = [stats EXCEPT !.total = @ + 1]
              /\ current' = op
              /\ dispatchPc' = "route"
    /\ UNCHANGED <<budget8, sessionVars, slots, gpuState, late>>

\* Mutant: the missing state does not keep the opcode off the GPU
RouteToGpu_lazy(slot) == slots[slot] = "vram"

\* can_route_to_gpu, for a model whose size reaches gpu_model_threshold
RouteToGpu(slot) == slots[slot] = "vram" /\ slot \in gpuState

\* The session of an opcode is over, or has moved on since the opcode was made
Outlived(op) == sessions[op.sid].st = "gone" \/ sessions[op.sid].gen # op.gen

\* The second lock, for the threshold; then the step runs to its end.  On the GPU
\* path the state is made when it is missing.
Route ==
    /\ dispatchPc = "route"
    /\ \E overThreshold \in BOOLEAN :
        LET field == IF overThreshold /\ RouteToGpu(current.slot) THEN "gpu" ELSE "cpu" IN
        /\ stats' = [stats EXCEPT ![field] = @ + 1]
        /\ gpuState' = IF field = "gpu" THEN gpuState \cup {current.slot} ELSE gpuState
    /\ late' = IF Outlived(current) THEN [late EXCEPT ![current.sid][current.gen] = @ + 1] ELSE late
    /\ current' = NoOp
    /\ dispatchPc' = "recv"
    /\ UNCHANGED <<budget8, sessionVars, ring, slots>>

-----------------------------------------------------------------------------
GovInit == BudgetInit /\ SessionsInit /\ VmInit

SessionStep ==
    \/ \E m \in Models :
        \/ \E tier \in {"vram", "ram"} : RegisterModel(m, tier)
        \/ \E cls \in {"interactive", "batch"} : RegisterSession(m, cls)
    \/ \E i \in Live : UnregisterSession(i) \/ TouchSession(i)

CycleStep == Cycle \/ \E m \in Models : CheckSwap(m)

VmStep ==
    \/ \E tier \in {"vram", "ram"} : RegisterSlot(tier)
    \/ \E i \in Live, cls \in {"interactive", "cognitive"}, slot \in 1..MaxSlots :
            Enqueue(i, cls, slot)
    \/ Dispatch
    \/ Route

GovSpec == GovInit /\ [][SessionStep \/ CycleStep \/ VmStep]_govVars

-----------------------------------------------------------------------------
\* Properties

Tiers == {"vram", "ram"}

Opcodes == [sid : Ids, gen : 0..MaxGen, cls : {"interactive", "cognitive"}, slot : 1..MaxSlots]

\* Besides the types: no model is twice in the swapper's order.
GovTypeOK ==
    /\ registry \in [Models -> [tier : Tiers \cup {"absent"}, active : Nat]]
    /\ lru \in Seq(Models) /\ IsInjective(lru)
    /\ sessions \in [Ids -> [st : {"never", "live", "gone"}, gen : 0..MaxGen, quiet : BOOLEAN,
                             cls : {"none", "interactive", "batch"}, model : Models \cup {"none"}]]
    /\ \A i \in Live : sessions[i].model \in Models
    /\ ring \in Seq(Opcodes)
    /\ dispatchPc \in {"recv", "route"}
    /\ current \in Opcodes \cup {NoOp} /\ (dispatchPc = "route" => current \in Opcodes)
    /\ stats \in [{"total", "stale", "cognitive", "gpu", "cpu", "unknown"} -> Nat]
    /\ slots \in Seq(Tiers) /\ gpuState \subseteq 1..MaxSlots

\* No model stays pinned: a model is never counted as used by more sessions than
\* it has, through unregistering, eviction and models registered anew or only
\* after their sessions.
NeverOverCounted ==
    \A m \in Entries :
        registry[m].active <= Cardinality({i \in Live : sessions[i].model = m})

\* Every opcode received is counted once: dropped as stale or of an unknown model,
\* run as cognitive or on the CPU, or still between the dispatcher's two locks.
\* None runs on the GPU: its state is made only on the path that requires it.
OpsAccounted ==
    /\ stats.total = stats.stale + stats.unknown + stats.cognitive + stats.cpu
                        + (IF dispatchPc = "route" THEN 1 ELSE 0)
    /\ stats.gpu = 0

\* The counts of the governor and of its VM agree with the sessions and opcodes they
\* count, for every order of registrations, evictions and dispatches.
GovernorInv == GovTypeOK /\ NeverOverCounted /\ OpsAccounted

\* The check of the session and the routing of the opcode are two critical sections.
\* What comes through between them is at most one opcode of a session and generation
\* that is over by then, however many were waiting when it ended.
AtMostOneLate == \A i \in Ids, g \in 0..MaxGen : late[i][g] <= 1

\* "Swap out: modelo menos recentemente usado com active_count == 0": check_swap
\* never names a model that a session is using.  It does not hold (model_swapper.rs
\* leaves active_count out), and no configuration lists it.
EvictsIdle ==
    [][\A m \in evicted'.out : evicted' # evicted => registry[m].active = 0]_govVars
=============================================================================
