---------------------------- MODULE HybridClock ----------------------------
(***************************************************************************)
(* The hybrid logical clock of src/swamp-engine/src/hlc.rs.  A WallClock   *)
(* turns the time stamp counter into nanoseconds; a HybridClock pairs such *)
(* a reading with a logical counter so that readings inside the same       *)
(* nanosecond still differ.  now() and witness() take &self and keep their *)
(* state in two separate atomics, last_wall and last_logical: the wall is  *)
(* committed with a compare_exchange, the counter with a store that        *)
(* follows it.  Each atomic access is a step of its own here, so that      *)
(* threads sharing a clock interleave between any two of them.             *)
(***************************************************************************)
EXTENDS Integers, FiniteSets

CONSTANTS Threads,        \* the threads that share the clock
          LogicalModulus, \* 2^32: last_logical is an AtomicU32
          Scales,         \* the results measure_scale may return, in ns/tick
          Received,       \* the timestamps handed to witness (none: never called)
          MaxTsc,         \* bound on the time stamp counter
          MaxCalls,       \* bound on the calls of now() and witness()
          None            \* no timestamp: the call is now()

Timestamps == [wall : Nat, logical : 0 .. LogicalModulus - 1]

ASSUME HybridClockAssumption ==
    /\ LogicalModulus \in Nat \ {0, 1}
    /\ Scales \subseteq Nat \ {0}
    /\ Scales # {}
    /\ Received \subseteq Timestamps
    /\ MaxTsc \in Nat
    /\ MaxCalls \in Nat
    /\ None \notin Timestamps

VARIABLES tsc, tsc0, monon0, scale,  \* the counter, and the fields of WallClock
          last_wall, last_logical,   \* the two atomics of HybridClock
          pc,                        \* where each thread is in its call
          ts,                        \* the argument of its witness(), or None
          physical, last_w, last_l,  \* the values its call has read
          stamp,                     \* what it computed, and then returns
          latest,                    \* history: the greatest timestamp returned
          before,                    \* history: latest, when the call began
          calls,                     \* history: the number of calls so far
          overlaps                   \* history: those of witness(), and those
                                     \* that began while another was running

wallVars == <<tsc, tsc0, monon0, scale>>
atomics == <<last_wall, last_logical>>
history == <<latest, before, calls, overlaps>>
clockVars == <<wallVars, atomics, pc, ts, physical, last_w, last_l, stamp, history>>

ZERO == [wall |-> 0, logical |-> 0]

now_ns == monon0 + (tsc - tsc0) * scale

happened_before(a, b) ==
    \/ a.wall < b.wall
    \/ a.wall = b.wall /\ a.logical < b.logical

\* last_l.wrapping_add(1)
Bump(l) == (l + 1) % LogicalModulus

\* Faulty variant: the counter is left as it was for a reading inside the same nanosecond
NowKeepsLogical(ph, w, l) ==
    IF ph > w THEN [wall |-> ph, logical |-> 0]
              ELSE [wall |-> w, logical |-> l]

NowStamp(ph, w, l) ==
    IF ph > w THEN [wall |-> ph, logical |-> 0]
              ELSE [wall |-> w, logical |-> Bump(l)]

(* The four branches of witness(), in the order of the code.  The last one *)
(* cannot be reached: a received wall that is not strictly ahead of both   *)
(* other readings is at most one of them, which a middle branch takes.     *)
WitnessStamp(r, ph, w, l) ==
    CASE r.wall > w /\ r.wall > ph -> [wall |-> r.wall, logical |-> 0]
      [] ~(r.wall > w /\ r.wall > ph) /\ ph >= w /\ ph >= r.wall ->
            [wall |-> ph, logical |-> 0]
      [] OTHER -> [wall |-> w, logical |-> Bump(l)]

ClockInit ==
    /\ tsc = 0 /\ tsc0 = 0 /\ monon0 = 0
    /\ scale \in Scales
    /\ last_wall = now_ns
    /\ last_logical = 0
    /\ pc = [t \in Threads |-> "idle"]
    /\ ts = [t \in Threads |-> None]
    /\ physical = [t \in Threads |-> 0]
    /\ last_w = [t \in Threads |-> 0]
    /\ last_l = [t \in Threads |-> 0]
    /\ stamp = [t \in Threads |-> ZERO]
    /\ latest = ZERO
    /\ before = [t \in Threads |-> ZERO]
    /\ calls = 0 /\ overlaps = 0

-----------------------------------------------------------------------------
\* Time passes.
Tick ==
    /\ tsc < MaxTsc
    /\ tsc' = tsc + 1
    /\ UNCHANGED <<tsc0, monon0, scale, atomics, pc, ts, physical, last_w, last_l,
                   stamp, history>>

\* Faulty variant: the new base counter is taken, the time it stands for is not
RecalibrateKeepsBase ==
    /\ \A t \in Threads : pc[t] = "idle"
    /\ \E slept \in 1 .. MaxTsc - tsc :
          /\ tsc' = tsc + slept
          /\ tsc0' = tsc + slept
    /\ scale' \in Scales
    /\ UNCHANGED <<monon0, atomics, pc, ts, physical, last_w, last_l, stamp, history>>

(* recalibrate() takes &mut self, so no thread is inside a call.  It reads *)
(* the time, sleeps while it measures, and restarts the clock from the     *)
(* time it read: the ticks of the measurement are dropped.                 *)
recalibrate ==
    /\ \A t \in Threads : pc[t] = "idle"
    /\ \E slept \in 1 .. MaxTsc - tsc :
          /\ tsc' = tsc + slept
          /\ tsc0' = tsc + slept
    /\ monon0' = now_ns
    /\ scale' \in Scales
    /\ UNCHANGED <<atomics, pc, ts, physical, last_w, last_l, stamp, history>>

\* A call of now() (arg = None) or of witness(arg) reads the wall clock.
Call(t, arg) ==
    /\ pc[t] = "idle"
    /\ calls < MaxCalls
    /\ calls' = calls + 1
    /\ overlaps' = IF arg = None /\ \A s \in Threads : pc[s] = "idle"
                   THEN overlaps ELSE overlaps + 1
    /\ ts' = [ts EXCEPT ![t] = arg]
    /\ physical' = [physical EXCEPT ![t] = now_ns]
    /\ before' = [before EXCEPT ![t] = latest]
    /\ pc' = [pc EXCEPT ![t] = "wall"]
    /\ UNCHANGED <<wallVars, atomics, last_w, last_l, stamp, latest>>

LoadWall(t) ==
    /\ pc[t] = "wall"
    /\ last_w' = [last_w EXCEPT ![t] = last_wall]
    /\ pc' = [pc EXCEPT ![t] = "logical"]
    /\ UNCHANGED <<wallVars, atomics, ts, physical, last_l, stamp, history>>

LoadLogical(t) ==
    /\ pc[t] = "logical"
    /\ last_l' = [last_l EXCEPT ![t] = last_logical]
    /\ pc' = [pc EXCEPT ![t] = "commit"]
    /\ UNCHANGED <<wallVars, atomics, ts, physical, last_w, stamp, history>>

NewStamp(t) ==
    IF ts[t] = None
    THEN NowStamp(physical[t], last_w[t], last_l[t])
    ELSE WitnessStamp(ts[t], physical[t], last_w[t], last_l[t])

\* Faulty variant: the wall is stored without comparing it with the value loaded
CommitUnconditionally(t) ==
    /\ pc[t] = "commit"
    /\ last_wall' = NewStamp(t).wall
    /\ stamp' = [stamp EXCEPT ![t] = NewStamp(t)]
    /\ pc' = [pc EXCEPT ![t] = "store"]
    /\ UNCHANGED <<wallVars, last_logical, ts, physical, last_w, last_l, history>>

\* compare_exchange: the wall is still the one loaded, and is replaced ...
Commit(t) ==
    /\ pc[t] = "commit"
    /\ last_wall = last_w[t]
    /\ last_wall' = NewStamp(t).wall
    /\ stamp' = [stamp EXCEPT ![t] = NewStamp(t)]
    /\ pc' = [pc EXCEPT ![t] = "store"]
    /\ UNCHANGED <<wallVars, last_logical, ts, physical, last_w, last_l, history>>

\* ... or it has changed, and the loop starts over with the same physical.
Retry(t) ==
    /\ pc[t] = "commit"
    /\ last_wall # last_w[t]
    /\ pc' = [pc EXCEPT ![t] = "wall"]
    /\ UNCHANGED <<wallVars, atomics, ts, physical, last_w, last_l, stamp, history>>

\* The counter is stored and the timestamp returned.
StoreReturn(t) ==
    /\ pc[t] = "store"
    /\ last_logical' = stamp[t].logical
    /\ latest' = IF happened_before(latest, stamp[t]) THEN stamp[t] ELSE latest
    /\ pc' = [pc EXCEPT ![t] = "idle"]
    /\ UNCHANGED <<wallVars, last_wall, ts, physical, last_w, last_l, stamp, before, calls,
                   overlaps>>

ClockNext ==
    \/ Tick
    \/ recalibrate
    \/ \E t \in Threads :
          \/ \E arg \in Received \cup {None} : Call(t, arg)
          \/ LoadWall(t)
          \/ LoadLogical(t)
          \/ Commit(t)
          \/ Retry(t)
          \/ StoreReturn(t)

ClockSpec == ClockInit /\ [][ClockNext]_clockVars

-----------------------------------------------------------------------------
(* Properties.                                                             *)

ClockTypeOK ==
    /\ tsc \in Nat /\ tsc0 \in 0 .. tsc /\ monon0 \in Nat /\ scale \in Scales
    /\ last_wall \in Nat
    /\ last_logical \in 0 .. LogicalModulus - 1
    /\ pc \in [Threads -> {"idle", "wall", "logical", "commit", "store"}]
    /\ ts \in [Threads -> Received \cup {None}]
    /\ physical \in [Threads -> Nat]
    /\ last_w \in [Threads -> Nat]
    /\ last_l \in [Threads -> 0 .. LogicalModulus - 1]
    /\ stamp \in [Threads -> Timestamps]
    /\ latest \in Timestamps
    /\ before \in [Threads -> Timestamps]
    /\ calls \in Nat /\ overlaps \in Nat

(* now_ns() never runs backwards, over any number of recalibrations with   *)
(* any measured scale ("wall clock must be monotonic", the assertion of    *)
(* test_wall_clock_monotonic).                                             *)
WallClockMonotonic == [][now_ns' >= now_ns]_clockVars

(* However the calls of now() and witness() interleave, a timestamp that   *)
(* is returned has a wall at least as late as that of every timestamp      *)
(* returned before its call began: only the logical part can be out of     *)
(* order, because only the wall is committed by compare_exchange.          *)
WallNotBehind ==
    \A t \in Threads : pc[t] = "store" => stamp[t].wall >= before[t].wall

(* now() promises "a new timestamp guaranteed to be > any previous         *)
(* timestamp from this clock instance": what it returns is later than      *)
(* everything returned before it was called.                               *)
StrictlyAfter ==
    \A t \in Threads :
        pc[t] = "store" /\ ts[t] = None => happened_before(before[t], stamp[t])

(* Calls of now() that do not overlap, before any witness(), are strictly  *)
(* ordered whatever threads they are made on and however the wall clock is *)
(* recalibrated in between, until the logical counter could have wrapped.  *)
SerialCallsOrdered == overlaps = 0 /\ calls < LogicalModulus => StrictlyAfter
=============================================================================
