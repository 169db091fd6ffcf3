-------------------------- MODULE ThreadsProofs --------------------------
(***************************************************************************)
(* The two parts whose threads share atomics and channels and no lock.     *)
(*                                                                         *)
(* HybridClock: types, the order of the walls for any set of threads, and  *)
(* the full order of now() for calls that do not overlap.                  *)
(*                                                                         *)
(* MultiRequest: for any number of requests, stages, threads and any       *)
(* capacity of the channels, results come in the order of the stages,      *)
(* requests do not overtake one another, none is lost but by a stage that  *)
(* failed on it, and a job of a batch is held once.                        *)
(***************************************************************************)
EXTENDS HybridClock, MultiRequest, SequenceTheorems, TLAPS

-----------------------------------------------------------------------------
(* Part 1: the hybrid logical clock                                        *)

Call_(t) == \E arg \in Received \cup {None} : Call(t, arg)

(* The wall clock reads a natural number.                                  *)
LEMMA NowNsIsNat == ClockTypeOK => now_ns \in Nat
<1> SUFFICES ASSUME ClockTypeOK PROVE now_ns \in Nat
    OBVIOUS
<1>1. tsc - tsc0 \in Nat /\ scale \in Nat /\ monon0 \in Nat
    BY HybridClockAssumption DEF ClockTypeOK, HybridClockAssumption
<1>2. \A a, b \in Nat : a * b \in Nat
    BY SMT
<1>3. (tsc - tsc0) * scale \in Nat
    BY <1>1, <1>2
<1> QED
    BY <1>1, <1>3 DEF now_ns

(* Whatever now() or witness() computes is a timestamp whose wall is not   *)
(* behind the one the call has loaded.                                     *)
LEMMA NewStampType ==
    ASSUME ClockTypeOK, NEW t \in Threads
    PROVE  /\ NewStamp(t) \in Timestamps
           /\ NewStamp(t).wall >= last_w[t]
<1> DEFINE ph == physical[t]
           w  == last_w[t]
           l  == last_l[t]
<1>1. ph \in Nat /\ w \in Nat /\ l \in 0 .. LogicalModulus - 1
    BY DEF ClockTypeOK
<1>2. Bump(l) \in 0 .. LogicalModulus - 1 /\ 0 \in 0 .. LogicalModulus - 1
    BY <1>1, HybridClockAssumption DEF Bump, HybridClockAssumption
<1>3. NowStamp(ph, w, l) \in Timestamps /\ NowStamp(ph, w, l).wall >= w
    BY <1>1, <1>2 DEF NowStamp, Timestamps
<1>4. ASSUME ts[t] # None
      PROVE  /\ WitnessStamp(ts[t], ph, w, l) \in Timestamps
             /\ WitnessStamp(ts[t], ph, w, l).wall >= w
    <2>1. ts[t] \in Timestamps
        BY <1>4, HybridClockAssumption DEF ClockTypeOK, HybridClockAssumption
    <2>2. ts[t].wall \in Nat
        BY <2>1 DEF Timestamps
    <2>3. CASE ts[t].wall > w /\ ts[t].wall > ph
        BY <1>1, <1>2, <2>2, <2>3 DEF WitnessStamp, Timestamps
    <2>4. CASE ~(ts[t].wall > w /\ ts[t].wall > ph) /\ ph >= w /\ ph >= ts[t].wall
        BY <1>1, <1>2, <2>2, <2>4 DEF WitnessStamp, Timestamps
    <2>5. CASE /\ ~(ts[t].wall > w /\ ts[t].wall > ph)
               /\ ~(ph >= w /\ ph >= ts[t].wall)
        BY <1>1, <1>2, <2>2, <2>5 DEF WitnessStamp, Timestamps
    <2> QED
        BY <2>3, <2>4, <2>5
<1> QED
    BY <1>3, <1>4 DEF NewStamp

-----------------------------------------------------------------------------
(* The inductive invariant behind WallNotBehind: last_wall bounds the wall *)
(* of everything returned or about to be, and what a call has loaded of it *)
(* is bounded below by what was returned before the call began.            *)
WallInv ==
    /\ latest.wall <= last_wall
    /\ \A t \in Threads :
          /\ pc[t] # "idle" => before[t].wall <= last_wall
          /\ pc[t] \in {"logical", "commit"} => before[t].wall <= last_w[t]
          /\ pc[t] = "store" => /\ before[t].wall <= stamp[t].wall
                                /\ stamp[t].wall <= last_wall

LEMMA ClockInitOK == ClockInit => ClockTypeOK /\ WallInv
<1> SUFFICES ASSUME ClockInit PROVE ClockTypeOK /\ WallInv
    OBVIOUS
<1>1. scale \in Nat /\ tsc = 0 /\ tsc0 = 0 /\ monon0 = 0
    BY HybridClockAssumption DEF ClockInit, HybridClockAssumption
<1>2. now_ns = 0
    BY <1>1 DEF now_ns
<1>3. ZERO \in Timestamps /\ ZERO.wall = 0
    BY HybridClockAssumption DEF ZERO, Timestamps, HybridClockAssumption
<1>4. ClockTypeOK
    BY <1>1, <1>2, <1>3, HybridClockAssumption
    DEF ClockInit, ClockTypeOK, HybridClockAssumption
<1>5. WallInv
    BY <1>2, <1>3 DEF ClockInit, WallInv
<1> QED
    BY <1>4, <1>5

LEMMA TypeStep == ClockTypeOK /\ [ClockNext]_clockVars => ClockTypeOK'
<1> SUFFICES ASSUME ClockTypeOK, [ClockNext]_clockVars PROVE ClockTypeOK'
    OBVIOUS
<1> USE DEF ClockTypeOK
<1>1. CASE Tick
    BY <1>1 DEF Tick, atomics, history
<1>2. CASE recalibrate
    <2>1. PICK slept \in 1 .. MaxTsc - tsc : tsc' = tsc + slept /\ tsc0' = tsc + slept
        BY <1>2 DEF recalibrate
    <2>2. tsc' \in Nat /\ tsc0' \in 0 .. tsc'
        BY <2>1, HybridClockAssumption DEF HybridClockAssumption
    <2> QED
        BY <1>2, <2>2, NowNsIsNat DEF recalibrate, atomics, history
<1>3. ASSUME NEW t \in Threads, Call_(t) PROVE ClockTypeOK'
    BY <1>3, NowNsIsNat DEF Call_, Call, wallVars, atomics
<1>4. ASSUME NEW t \in Threads, LoadWall(t) PROVE ClockTypeOK'
    BY <1>4 DEF LoadWall, wallVars, atomics, history
<1>5. ASSUME NEW t \in Threads, LoadLogical(t) PROVE ClockTypeOK'
    BY <1>5 DEF LoadLogical, wallVars, atomics, history
<1>6. ASSUME NEW t \in Threads, Commit(t) PROVE ClockTypeOK'
    <2>1. NewStamp(t) \in Timestamps /\ NewStamp(t).wall \in Nat
        BY NewStampType DEF Timestamps
    <2> QED
        BY <1>6, <2>1 DEF Commit, wallVars, history
<1>7. ASSUME NEW t \in Threads, Retry(t) PROVE ClockTypeOK'
    BY <1>7 DEF Retry, wallVars, atomics, history
<1>8. ASSUME NEW t \in Threads, StoreReturn(t) PROVE ClockTypeOK'
    BY <1>8 DEF StoreReturn, wallVars, Timestamps
<1>9. CASE UNCHANGED clockVars
    BY <1>9 DEF clockVars, wallVars, atomics, history
<1> QED
    BY <1>1, <1>2, <1>3, <1>4, <1>5, <1>6, <1>7, <1>8, <1>9 DEF ClockNext, Call_

LEMMA WallStep == ClockTypeOK /\ WallInv /\ [ClockNext]_clockVars => WallInv'
<1> SUFFICES ASSUME ClockTypeOK, WallInv, [ClockNext]_clockVars PROVE WallInv'
    OBVIOUS
<1>0. /\ last_wall \in Nat /\ latest.wall \in Nat
      /\ \A t \in Threads : /\ before[t].wall \in Nat /\ stamp[t].wall \in Nat
                            /\ last_w[t] \in Nat
      /\ pc \in [Threads -> {"idle", "wall", "logical", "commit", "store"}]
      /\ before \in [Threads -> Timestamps] /\ stamp \in [Threads -> Timestamps]
      /\ last_w \in [Threads -> Nat]
    BY DEF ClockTypeOK, Timestamps
<1> USE DEF WallInv
<1>1. CASE Tick
    BY <1>1 DEF Tick, atomics, history
<1>2. CASE recalibrate
    BY <1>2 DEF recalibrate, atomics, history
<1>3. ASSUME NEW t \in Threads, Call_(t) PROVE WallInv'
    BY <1>0, <1>3 DEF Call_, Call, atomics
<1>4. ASSUME NEW t \in Threads, LoadWall(t) PROVE WallInv'
    BY <1>0, <1>4 DEF LoadWall, atomics, history
<1>5. ASSUME NEW t \in Threads, LoadLogical(t) PROVE WallInv'
    BY <1>0, <1>5 DEF LoadLogical, atomics, history
<1>6. ASSUME NEW t \in Threads, Commit(t) PROVE WallInv'
    <2>1. NewStamp(t).wall \in Nat /\ NewStamp(t).wall >= last_w[t]
        BY NewStampType DEF Timestamps
    <2>2. last_wall' = NewStamp(t).wall /\ last_wall' >= last_wall /\ last_wall' \in Nat
        BY <1>0, <1>6, <2>1 DEF Commit
    <2>3. before[t].wall <= last_w[t]
        BY <1>6 DEF Commit
    <2>4. /\ stamp' = [stamp EXCEPT ![t] = NewStamp(t)]
          /\ pc' = [pc EXCEPT ![t] = "store"]
          /\ latest' = latest /\ before' = before /\ last_w' = last_w
        BY <1>6 DEF Commit, history
    <2> QED
        BY <1>0, <2>1, <2>2, <2>3, <2>4
<1>7. ASSUME NEW t \in Threads, Retry(t) PROVE WallInv'
    BY <1>0, <1>7 DEF Retry, atomics, history
<1>8. ASSUME NEW t \in Threads, StoreReturn(t) PROVE WallInv'
    BY <1>0, <1>8 DEF StoreReturn
<1>9. CASE UNCHANGED clockVars
    BY <1>9 DEF clockVars, wallVars, atomics, history
<1> QED
    BY <1>1, <1>2, <1>3, <1>4, <1>5, <1>6, <1>7, <1>8, <1>9 DEF ClockNext, Call_

(* The state of the clock and of its callers keeps its types: the logical  *)
(* counter in particular stays within its 32 bits.                         *)
THEOREM ClockTypeCorrect == ClockSpec => []ClockTypeOK
<1>1. ClockInit => ClockTypeOK
    BY ClockInitOK
<1> QED
    BY <1>1, TypeStep, PTL DEF ClockSpec

(* For any set of threads, now() and witness() never return a wall behind  *)
(* one that was returned before they were called.                          *)
THEOREM WallsInOrder == ClockSpec => []WallNotBehind
<1>1. ClockInit => ClockTypeOK /\ WallInv
    BY ClockInitOK
<1>2. ClockTypeOK /\ WallInv /\ [ClockNext]_clockVars => (ClockTypeOK /\ WallInv)'
    BY TypeStep, WallStep
<1>3. ClockTypeOK /\ WallInv => WallNotBehind
    BY DEF ClockTypeOK, Timestamps, WallInv, WallNotBehind
<1> QED
    BY <1>1, <1>2, <1>3, PTL DEF ClockSpec

-----------------------------------------------------------------------------
(* While no call has overlapped another, and none was of witness(), and    *)
(* there were fewer than the logical counter has values: the two atomics   *)
(* are together the last timestamp returned, the values the running call   *)
(* has loaded are current, and the counter has not wrapped.                *)
SerialCall(t) ==
    /\ ts[t] = None
    /\ pc[t] # "idle" => before[t] = latest /\ calls > 0
    /\ pc[t] \in {"wall", "logical", "commit"} => last_logical < calls
    /\ pc[t] \in {"logical", "commit"} => last_w[t] = last_wall
    /\ pc[t] = "commit" => last_l[t] = last_logical
    /\ pc[t] = "store" => /\ happened_before(before[t], stamp[t])
                          /\ stamp[t].wall = last_wall
                          /\ stamp[t].logical <= calls

Serial ==
    overlaps = 0 /\ calls < LogicalModulus =>
        /\ \A t, u \in Threads : pc[t] # "idle" /\ pc[u] # "idle" => t = u
        /\ (\A t \in Threads : pc[t] # "store") =>
              /\ latest = [wall |-> last_wall, logical |-> last_logical]
              /\ last_logical <= calls
        /\ \A t \in Threads : SerialCall(t)

LEMMA SerialInit == ClockInit => Serial
<1> SUFFICES ASSUME ClockInit PROVE Serial
    OBVIOUS
<1>1. scale \in Nat /\ tsc = 0 /\ tsc0 = 0 /\ monon0 = 0
    BY HybridClockAssumption DEF ClockInit, HybridClockAssumption
<1>2. now_ns = 0
    BY <1>1 DEF now_ns
<1> QED
    BY <1>2 DEF ClockInit, Serial, SerialCall, ZERO

LEMMA SerialStep == ClockTypeOK /\ Serial /\ [ClockNext]_clockVars => Serial'
<1> SUFFICES ASSUME ClockTypeOK, Serial, [ClockNext]_clockVars,
                    overlaps' = 0, calls' < LogicalModulus
             PROVE  /\ \A t, u \in Threads : pc'[t] # "idle" /\ pc'[u] # "idle" => t = u
                    /\ (\A t \in Threads : pc'[t] # "store") =>
                          /\ latest' = [wall |-> last_wall', logical |-> last_logical']
                          /\ last_logical' <= calls'
                    /\ \A t \in Threads : SerialCall(t)'
    BY DEF Serial
<1>0. /\ last_wall \in Nat /\ last_logical \in Nat /\ calls \in Nat /\ overlaps \in Nat
      /\ physical \in [Threads -> Nat]
      /\ LogicalModulus \in Nat
      /\ pc \in [Threads -> {"idle", "wall", "logical", "commit", "store"}]
      /\ ts \in [Threads -> Received \cup {None}]
      /\ before \in [Threads -> Timestamps] /\ stamp \in [Threads -> Timestamps]
      /\ last_w \in [Threads -> Nat]
      /\ last_l \in [Threads -> 0 .. LogicalModulus - 1]
    BY HybridClockAssumption DEF ClockTypeOK, HybridClockAssumption
<1>h. overlaps = 0 /\ calls < LogicalModulus
    <2>1. ASSUME NEW t \in Threads, Call_(t) PROVE overlaps = 0 /\ calls < LogicalModulus
        BY <1>0, <2>1 DEF Call_, Call
    <2>2. ASSUME ~(\E t \in Threads : Call_(t))
          PROVE  overlaps = 0 /\ calls < LogicalModulus
        BY <1>0, <2>2 DEF ClockNext, Tick, recalibrate, LoadWall, LoadLogical, Commit,
           Retry, StoreReturn, Call_, clockVars, history
    <2> QED
        BY <2>1, <2>2
<1>s. /\ \A t, u \in Threads : pc[t] # "idle" /\ pc[u] # "idle" => t = u
      /\ (\A t \in Threads : pc[t] # "store") =>
            /\ latest = [wall |-> last_wall, logical |-> last_logical]
            /\ last_logical <= calls
      /\ \A t \in Threads : SerialCall(t)
    BY <1>h DEF Serial
<1>i. ASSUME NEW t \in Threads, pc[t] \in {"wall", "logical", "commit"}
      PROVE  /\ latest = [wall |-> last_wall, logical |-> last_logical]
             /\ last_logical < calls /\ before[t] = latest
    <2>1. \A u \in Threads : pc[u] # "store"
        BY <1>i, <1>s
    <2> QED
        BY <2>1, <1>i, <1>s DEF SerialCall
<1>1. CASE Tick
    BY <1>1, <1>s DEF Tick, atomics, history, SerialCall, happened_before
<1>2. CASE recalibrate
    BY <1>2, <1>s DEF recalibrate, atomics, history, SerialCall, happened_before
<1>3. ASSUME NEW x \in Threads, Call_(x) PROVE Serial'
    <2>1. PICK arg \in Received \cup {None} : Call(x, arg)
        BY <1>3 DEF Call_
    <2>2. arg = None /\ \A u \in Threads : pc[u] = "idle"
        BY <1>0, <1>h, <2>1 DEF Call
    <2>3. /\ latest = [wall |-> last_wall, logical |-> last_logical]
          /\ last_logical <= calls
        BY <1>s, <2>2
    <2>4. /\ calls' = calls + 1 /\ ts' = [ts EXCEPT ![x] = None]
          /\ pc' = [pc EXCEPT ![x] = "wall"]
          /\ before' = [before EXCEPT ![x] = latest]
          /\ UNCHANGED <<last_wall, last_logical, last_w, last_l, stamp, latest>>
        BY <2>1, <2>2 DEF Call, atomics
    <2>5. ASSUME NEW t \in Threads PROVE SerialCall(t)'
        BY <1>0, <1>s, <2>2, <2>3, <2>4 DEF SerialCall
    <2> QED
        BY <1>0, <2>2, <2>3, <2>4, <2>5 DEF Serial
<1>4. ASSUME NEW x \in Threads, LoadWall(x) PROVE Serial'
    <2>1. ASSUME NEW t \in Threads PROVE SerialCall(t)'
        BY <1>0, <1>s, <1>i, <1>4 DEF LoadWall, atomics, history, SerialCall, happened_before
    <2> QED
        BY <1>0, <1>s, <1>i, <1>4, <2>1 DEF LoadWall, atomics, history, Serial
<1>5. ASSUME NEW x \in Threads, LoadLogical(x) PROVE Serial'
    <2>1. ASSUME NEW t \in Threads PROVE SerialCall(t)'
        BY <1>0, <1>s, <1>i, <1>5 DEF LoadLogical, atomics, history, SerialCall, happened_before
    <2> QED
        BY <1>0, <1>s, <1>i, <1>5, <2>1 DEF LoadLogical, atomics, history, Serial
<1>6. ASSUME NEW x \in Threads, Commit(x) PROVE Serial'
    <2>1. /\ last_w[x] = last_wall /\ last_l[x] = last_logical
          /\ last_logical < calls /\ ts[x] = None
          /\ before[x] = [wall |-> last_wall, logical |-> last_logical]
          /\ before[x] = latest
          /\ \A t \in Threads : t # x => pc[t] = "idle"
        BY <1>s, <1>i, <1>6 DEF Commit, SerialCall
    <2>2. NewStamp(x) = NowStamp(physical[x], last_wall, last_logical)
        BY <2>1 DEF NewStamp
    <2>3. Bump(last_logical) = last_logical + 1
        BY <1>0, <1>h, <2>1 DEF Bump
    <2>4. /\ happened_before(before[x], NewStamp(x))
          /\ NewStamp(x).logical <= calls
        BY <1>0, <2>1, <2>2, <2>3 DEF NowStamp, happened_before
    <2>5. /\ stamp' = [stamp EXCEPT ![x] = NewStamp(x)] /\ last_wall' = NewStamp(x).wall
          /\ pc' = [pc EXCEPT ![x] = "store"]
          /\ ts' = ts /\ calls' = calls /\ latest' = latest /\ before' = before
        BY <1>6 DEF Commit, history
    <2>6. SerialCall(x)'
        <3>1. stamp'[x] = NewStamp(x) /\ pc'[x] = "store" /\ calls > 0
            BY <1>0, <2>1, <2>5
        <3>2. happened_before(before[x], stamp[x])'
            BY <2>4, <2>5, <3>1 DEF happened_before
        <3> QED
            BY <2>1, <2>4, <2>5, <3>1, <3>2 DEF SerialCall
    <2>7. ASSUME NEW t \in Threads, t # x PROVE SerialCall(t)'
        <3>1. pc'[t] = "idle" /\ ts'[t] = None
            BY <1>0, <1>s, <2>1, <2>5, <2>7 DEF SerialCall
        <3> QED
            BY <3>1 DEF SerialCall
    <2>8. pc'[x] = "store" /\ \A t \in Threads : t # x => pc'[t] = "idle"
        BY <1>0, <2>1, <2>5
    <2> QED
        BY <2>6, <2>7, <2>8 DEF Serial
<1>7. ASSUME NEW x \in Threads, Retry(x) PROVE Serial'
    BY <1>7, <1>s DEF Retry, SerialCall
<1>8. ASSUME NEW x \in Threads, StoreReturn(x) PROVE Serial'
    <2>1. latest' = stamp[x]
        BY <1>8, <1>s DEF StoreReturn, SerialCall
    <2>2. stamp[x] = [wall |-> stamp[x].wall, logical |-> stamp[x].logical]
        BY <1>0 DEF Timestamps
    <2>3. /\ pc' = [pc EXCEPT ![x] = "idle"] /\ last_logical' = stamp[x].logical
          /\ last_wall' = last_wall /\ ts' = ts /\ calls' = calls
        BY <1>8 DEF StoreReturn
    <2>4. \A t \in Threads : pc'[t] = "idle" /\ ts'[t] = None
        BY <1>0, <1>8, <1>s, <2>3 DEF StoreReturn, SerialCall
    <2>5. stamp[x].wall = last_wall /\ stamp[x].logical <= calls
        BY <1>8, <1>s DEF StoreReturn, SerialCall
    <2>6. latest' = [wall |-> last_wall', logical |-> last_logical'] /\ last_logical' <= calls'
        BY <2>1, <2>2, <2>3, <2>5
    <2>7. \A t \in Threads : SerialCall(t)'
        BY <2>4 DEF SerialCall
    <2> QED
        BY <2>4, <2>6, <2>7 DEF Serial
<1>9. CASE UNCHANGED clockVars
    BY <1>9, <1>s DEF clockVars, wallVars, atomics, history, happened_before, SerialCall
<1> QED
    BY <1>1, <1>2, <1>3, <1>4, <1>5, <1>6, <1>7, <1>8, <1>9 DEF ClockNext, Call_, Serial

(* Calls of now() that do not overlap, fewer than 2^32 of them and before  *)
(* any witness(), return timestamps each strictly later than all before:   *)
(* the documented guarantee of now(), under the conditions it needs, for   *)
(* any set of threads and any recalibrations.                              *)
THEOREM SerialCallsMonotonic == ClockSpec => []SerialCallsOrdered
<1>1. ClockInit => ClockTypeOK /\ Serial
    BY ClockInitOK, SerialInit
<1>2. ClockTypeOK /\ Serial /\ [ClockNext]_clockVars => (ClockTypeOK /\ Serial)'
    BY TypeStep, SerialStep
<1>3. Serial => SerialCallsOrdered
    BY DEF Serial, SerialCall, SerialCallsOrdered, StrictlyAfter
<1> QED
    BY <1>1, <1>2, <1>3, PTL DEF ClockSpec

-----------------------------------------------------------------------------
(* The wall clock on its own: a tick adds the scale, a recalibration       *)
(* restarts from the time it read, and nothing else touches the fields.    *)
LEMMA WallClockStep == ClockTypeOK /\ [ClockNext]_clockVars => now_ns' >= now_ns
<1> SUFFICES ASSUME ClockTypeOK, [ClockNext]_clockVars PROVE now_ns' >= now_ns
    OBVIOUS
<1>0. now_ns \in Nat /\ tsc \in Nat /\ tsc0 \in Nat /\ scale \in Nat /\ monon0 \in Nat
    BY NowNsIsNat, HybridClockAssumption DEF ClockTypeOK, HybridClockAssumption
<1>1. CASE Tick
    <2>1. ((tsc + 1) - tsc0) * scale = (tsc - tsc0) * scale + scale
        BY <1>0
    <2>2. (tsc - tsc0) * scale \in Int
        BY <1>0
    <2> QED
        BY <1>0, <1>1, <2>1, <2>2 DEF Tick, now_ns
<1>2. CASE recalibrate
    <2>1. monon0' = now_ns /\ scale' \in Nat
        BY <1>2, HybridClockAssumption DEF recalibrate, HybridClockAssumption
    <2>2. PICK slept \in 1 .. MaxTsc - tsc : tsc' = tsc + slept /\ tsc0' = tsc + slept
        BY <1>2 DEF recalibrate
    <2>3. tsc' - tsc0' = 0
        BY <1>0, <2>2, HybridClockAssumption DEF HybridClockAssumption
    <2>4. (tsc' - tsc0') * scale' = 0
        BY <2>1, <2>3
    <2>5. now_ns' = monon0' + (tsc' - tsc0') * scale'
        BY DEF now_ns
    <2> HIDE DEF now_ns
    <2> QED
        BY <1>0, <2>1, <2>4, <2>5
<1>3. CASE UNCHANGED wallVars
    BY <1>0, <1>3 DEF wallVars, now_ns
<1>4. ASSUME NEW t \in Threads,
             \/ Call_(t) \/ LoadWall(t) \/ LoadLogical(t)
             \/ Commit(t) \/ Retry(t) \/ StoreReturn(t)
      PROVE  UNCHANGED wallVars
    BY <1>4, Zenon DEF Call_, Call, LoadWall, LoadLogical, Commit, Retry, StoreReturn
<1> QED
    BY <1>1, <1>2, <1>3, <1>4 DEF ClockNext, Call_, clockVars

(* now_ns() never runs backwards, whatever scales the recalibrations       *)
(* measure and however long they sleep.                                    *)
THEOREM WallClockNeverBack == ClockSpec => WallClockMonotonic
<1>1. ClockTypeOK /\ [ClockNext]_clockVars => [now_ns' >= now_ns]_clockVars
    BY WallClockStep
<1> QED
    BY <1>1, ClockTypeCorrect, PTL DEF ClockSpec, WallClockMonotonic

-----------------------------------------------------------------------------
(* Part 2: requests, stages and batches                                    *)

-----------------------------------------------------------------------------
(* The inductive invariant *)

Places(s) == 1..Len(chan[s])
Busy(s) == stage[s].pc \in {"run", "send"}

\* Request r is in the channel of stage s, or its thread works on it
In(s, r) ==
    \/ \E i \in Places(s) : chan[s][i] = r
    \/ Busy(s) /\ stage[s].req = r

MRTypes ==
    /\ api \in {"execute", "concurrent", "batch"}
    /\ conc \in Nat
    /\ mainPc \in {"run", "join", "done"}
    /\ nextReq \in Nat \ {0}
    /\ chan \in [Stages -> Seq(Requests)]
    /\ \A s \in Stages : Len(chan[s]) <= conc + 1
    /\ stage \in [Stages -> [pc : {"recv", "run", "send"} \cup Gone, req : Nat]]
    /\ \A s \in Stages : Busy(s) => stage[s].req \in Requests
    /\ results \in [Requests -> Seq(Stages)]
    /\ jobs \in Seq(Requests)
    /\ worker \in [BatchThreads -> [pc : {"loop", "gen", "collect", "stuck"} \cup Gone, req : Nat]]

\* execute has stored the results of the stages before nextReq, of request 1
ExecuteInv ==
    api = "execute" =>
        /\ mainPc = "run" => nextReq <= NumStages
        /\ mainPc = "run" => Len(results[1]) = nextReq - 1

\* The stage threads exist in execute_concurrent only
IdleInv == api # "concurrent" => \A s \in Stages : stage[s].pc = "exit" /\ chan[s] = <<>>

\* What is queued for a stage is behind what its thread works on
StageOrder(s) ==
    /\ \A i, j \in Places(s) : i < j => chan[s][i] < chan[s][j]
    /\ Busy(s) => \A i \in Places(s) : stage[s].req < chan[s][i]

\* How many stages have stored a result for the requests that are at stage s
StageResults(s) ==
    /\ \A i \in Places(s) : Len(results[chan[s][i]]) = s - 1
    /\ stage[s].pc = "run" => Len(results[stage[s].req]) = s - 1
    /\ stage[s].pc = "send" => Len(results[stage[s].req]) = s /\ s < NumStages

\* A thread that has gone left nothing behind, and one that ended did so because
\* nothing more could come
StageGone(s) ==
    /\ stage[s].pc \in Gone => chan[s] = <<>>
    /\ stage[s].pc = "exit" => mainPc # "run" /\ (s > 1 => stage[s - 1].pc \in Gone)

LocalInv == \A s \in Stages : StageOrder(s) /\ StageResults(s) /\ StageGone(s)

\* What is at a later stage is ahead of what is at an earlier one, and nothing
\* behind a request that is still on its way has more results than it
OrderInv ==
    /\ \A s, t \in Stages : \A q, r \in Requests : s < t /\ In(s, q) /\ In(t, r) => r < q
    /\ \A s \in Stages : \A q, r \in Requests :
          In(s, q) /\ q < r => Len(results[r]) <= Len(results[q])

\* A request is not sent yet, is at some stage, is through, or was hurt
FlowInv ==
    /\ \A s \in Stages : \A r \in Requests : In(s, r) => r < nextReq
    /\ \A r \in Requests : r >= nextReq => results[r] = <<>>
    /\ \A r \in Requests \ hurt :
          r < nextReq => Len(results[r]) = NumStages \/ \E s \in Stages : In(s, r)
    /\ mainPc # "run" => nextReq > NumRequests
    /\ mainPc = "done" => \A s \in Stages : stage[s].pc \in Gone

PipeInv == api = "concurrent" => LocalInv /\ OrderInv /\ FlowInv

\* The jobs left are the first ones, and every worker took one of the others
BatchInv ==
    /\ \A i \in 1..Len(jobs) : jobs[i] = i
    /\ \A w \in BatchThreads : worker[w].pc = "loop" => worker[w].req = 0
    /\ \A w \in BatchThreads : worker[w].req # 0 => worker[w].req > Len(jobs)
    /\ \A v, w \in BatchThreads : v # w /\ worker[v].req # 0 => worker[v].req # worker[w].req

MRIInv == MRTypes /\ StagesInOrder /\ ExecuteInv /\ IdleInv /\ PipeInv /\ BatchInv

\* What the steps of execute_concurrent keep
Pipe == MRTypes /\ StagesInOrder /\ api = "concurrent" /\ LocalInv /\ OrderInv /\ FlowInv

-----------------------------------------------------------------------------
(* What the steps have in common *)

LEMMA StageTypes ==
    ASSUME MRTypes, NEW s \in Stages
    PROVE  /\ chan[s] \in Seq(Requests) /\ Len(chan[s]) \in Nat
           /\ DOMAIN chan[s] = Places(s)
           /\ \A i \in Places(s) : chan[s][i] \in Requests
           /\ stage[s] \in [pc : {"recv", "run", "send"} \cup Gone, req : Nat]
BY DEF MRTypes, Places

LEMMA RequestsAreNats == Requests \subseteq Nat /\ Stages \subseteq Nat
BY DEF Requests, Stages

LEMMA StageBefore ==
    ASSUME NEW s \in Stages, s > 1
    PROVE  s - 1 \in Stages /\ s - 1 # s
BY MultiRequestAssumption DEF Stages

\* Set writes one thread's place.
LEMMA SetIs ==
    ASSUME MRTypes, NEW s \in Stages, NEW p \in {"recv", "run", "send"} \cup Gone, NEW r \in Nat,
           Set(s, p, r)
    PROVE  /\ stage' \in [Stages -> [pc : {"recv", "run", "send"} \cup Gone, req : Nat]]
           /\ stage'[s].pc = p /\ stage'[s].req = r
           /\ \A t \in Stages \ {s} : stage'[t] = stage[t]
BY DEF MRTypes, Set

\* A stage none of whose parts changes keeps its invariant.
LEMMA LocalStays ==
    ASSUME NEW s \in Stages,
           StageOrder(s), StageResults(s), StageGone(s),
           chan'[s] = chan[s], stage'[s] = stage[s],
           \A i \in Places(s) : Len(results'[chan[s][i]]) = Len(results[chan[s][i]]),
           Busy(s) => Len(results'[stage[s].req]) = Len(results[stage[s].req]),
           mainPc # "run" => mainPc' # "run",
           s > 1 /\ stage[s - 1].pc \in Gone => stage'[s - 1].pc \in Gone
    PROVE  StageOrder(s)' /\ StageResults(s)' /\ StageGone(s)'
<1>1. Places(s)' = Places(s) /\ Busy(s)' = Busy(s) BY DEF Places, Busy
<1>2. StageOrder(s)' BY <1>1 DEF StageOrder
<1>3. StageResults(s)' BY <1>1 DEF StageResults, Busy
<1>4. StageGone(s)' BY Zenon DEF StageGone
<1> QED BY <1>2, <1>3, <1>4

\* Steps that store nothing and send nothing on: requests stay where they are, or leave
\* for being hurt.
LEMMA FlowLeaves ==
    ASSUME OrderInv, FlowInv,
           \A s \in Stages : \A r \in Requests : In(s, r)' => In(s, r),
           \A s \in Stages : \A r \in Requests : In(s, r) => In(s, r)' \/ r \in hurt',
           hurt \subseteq hurt', UNCHANGED <<nextReq, results>>,
           mainPc' # "run" => nextReq > NumRequests,
           mainPc' = "done" => \A s \in Stages : stage'[s].pc \in Gone
    PROVE  OrderInv' /\ FlowInv'
<1>1. OrderInv'
  <2>1. \A s, t \in Stages : \A q, r \in Requests : s < t /\ In(s, q)' /\ In(t, r)' => r < q
    BY Zenon DEF OrderInv
  <2>2. \A s \in Stages : \A q, r \in Requests :
          In(s, q)' /\ q < r => Len(results'[r]) <= Len(results'[q])
    BY Zenon DEF OrderInv
  <2> QED BY <2>1, <2>2 DEF OrderInv
<1>2. FlowInv'
  <2>1. \A s \in Stages : \A r \in Requests : In(s, r)' => r < nextReq BY Zenon DEF FlowInv
  <2>2. ASSUME NEW r \in Requests \ hurt', r < nextReq
        PROVE  Len(results[r]) = NumStages \/ \E s \in Stages : In(s, r)'
    BY <2>2, Zenon DEF FlowInv
  <2> QED BY <2>1, <2>2 DEF FlowInv
<1> QED BY <1>1, <1>2

\* The steps of the threads that only one stage takes part in: what is left to show is
\* what becomes of that stage.
LEMMA OneStage ==
    ASSUME Pipe, NEW s \in Stages,
           \A t \in Stages \ {s} : chan'[t] = chan[t] /\ stage'[t] = stage[t],
           stage[s].pc \notin Gone,
           UNCHANGED <<mainPc, nextReq, results>>, hurt \subseteq hurt',
           StageOrder(s)', StageResults(s)', StageGone(s)',
           \A r \in Requests : In(s, r)' => In(s, r),
           \A r \in Requests : In(s, r) => In(s, r)' \/ r \in hurt'
    PROVE  LocalInv' /\ OrderInv' /\ FlowInv'
<1>1. ASSUME NEW t \in Stages \ {s} PROVE StageOrder(t)' /\ StageResults(t)' /\ StageGone(t)'
  <2>1. t > 1 /\ stage[t - 1].pc \in Gone => stage'[t - 1].pc \in Gone
    <3>1. t > 1 => t - 1 \in Stages BY StageBefore
    <3> QED BY <3>1
  <2> QED BY <1>1, <2>1, LocalStays DEF Pipe, LocalInv
<1>2. LocalInv' BY <1>1 DEF LocalInv
<1>3. \A t \in Stages \ {s} : \A r \in Requests : In(t, r)' = In(t, r)
  BY DEF In, Places, Busy
<1>4. \A t \in Stages : \A r \in Requests :
        (In(t, r)' => In(t, r)) /\ (In(t, r) => In(t, r)' \/ r \in hurt')
  BY <1>3
<1>5. mainPc' # "run" => nextReq > NumRequests BY DEF Pipe, FlowInv
<1>6. mainPc' = "done" => \A t \in Stages : stage'[t].pc \in Gone
  BY DEF Pipe, FlowInv
<1>7. OrderInv' /\ FlowInv' BY <1>4, <1>5, <1>6, FlowLeaves, Zenon DEF Pipe
<1> QED BY <1>2, <1>7

-----------------------------------------------------------------------------
(* The steps of one stage *)

LEMMA RecvInv ==
    ASSUME Pipe, NEW s \in Stages, Recv(s)
    PROVE  Pipe'
<1> DEFINE c == chan[s]
<1>1. MRTypes BY DEF Pipe
<1>2. /\ stage[s].pc = "recv" /\ c # <<>>
      /\ Set(s, "run", Head(c))
      /\ chan' = [chan EXCEPT ![s] = Tail(c)]
      /\ UNCHANGED <<api, conc, mainPc, nextReq, results, hurt, jobs, worker>>
  BY DEF Recv, At, Taken
<1>3. c \in Seq(Requests) /\ \A i \in Places(s) : c[i] \in Requests BY <1>1, StageTypes
<1>4. PICK n \in Nat : Len(c) = n + 1
  <2>1. Len(c) \in Nat /\ Len(c) # 0 BY <1>2, <1>3
  <2>2. Len(c) - 1 \in Nat /\ Len(c) = (Len(c) - 1) + 1 BY <2>1
  <2> QED BY <2>2
<1>5. Head(c) = c[1] /\ c[1] \in Requests BY <1>3, <1>4
<1>6. Tail(c) \in Seq(Requests) /\ Len(Tail(c)) = n /\ \A i \in 1..n : Tail(c)[i] = c[i + 1]
  BY <1>3, <1>4
<1>7. c[1] \in Nat BY <1>5, RequestsAreNats
<1>8. /\ stage' \in [Stages -> [pc : {"recv", "run", "send"} \cup Gone, req : Nat]]
      /\ stage'[s].pc = "run" /\ stage'[s].req = c[1]
      /\ \A t \in Stages \ {s} : stage'[t] = stage[t]
  BY <1>1, <1>2, <1>5, <1>7, SetIs
<1>9. /\ chan' \in [Stages -> Seq(Requests)] /\ chan'[s] = Tail(c)
      /\ \A t \in Stages \ {s} : chan'[t] = chan[t]
  BY <1>1, <1>2, <1>6 DEF MRTypes
<1> HIDE DEF c
<1>10. MRTypes'
  <2>1. \A t \in Stages : Len(chan'[t]) <= conc + 1
    <3>1. n <= conc + 1 BY <1>1, <1>4 DEF MRTypes, c
    <3> QED BY <1>1, <1>6, <1>9, <3>1 DEF MRTypes
  <2>2. \A t \in Stages : Busy(t)' => stage'[t].req \in Requests
    BY <1>1, <1>5, <1>8 DEF MRTypes, Busy
  <2> QED BY <1>1, <1>2, <1>8, <1>9, <2>1, <2>2 DEF MRTypes
<1>11. Places(s) = 1..(n + 1) /\ Places(s)' = 1..n BY <1>4, <1>6, <1>9 DEF Places, c
<1>12. ~Busy(s) /\ Busy(s)' BY <1>2, <1>8 DEF Busy
<1>13. StageOrder(s) /\ StageResults(s) BY DEF Pipe, LocalInv
<1>14. StageOrder(s)'
  <2>1. \A i \in 1..n : i + 1 \in Places(s) /\ 1 \in Places(s) /\ 1 < i + 1 BY <1>11
  <2>2. \A i, j \in 1..n : i < j => i + 1 < j + 1 OBVIOUS
  <2>3. \A i, j \in 1..n : i < j => c[i + 1] < c[j + 1]
    BY <1>13, <2>1, <2>2, Zenon DEF StageOrder, c
  <2>4. \A i \in 1..n : c[1] < c[i + 1] BY <1>13, <2>1, Zenon DEF StageOrder, c
  <2>5. \A i \in 1..n : chan'[s][i] = c[i + 1] BY <1>6, <1>9
  <2>6. \A i, j \in Places(s)' : i < j => chan'[s][i] < chan'[s][j]
    BY <1>11, <2>3, <2>5
  <2>7. \A i \in Places(s)' : stage'[s].req < chan'[s][i] BY <1>8, <1>11, <2>4, <2>5
  <2> QED BY <2>6, <2>7 DEF StageOrder
<1>15. StageResults(s)'
  <2>1. \A i \in 1..(n + 1) : Len(results[c[i]]) = s - 1 BY <1>11, <1>13 DEF StageResults, c
  <2>2. \A i \in 1..n : i + 1 \in 1..(n + 1) /\ 1 \in 1..(n + 1) BY <1>4
  <2>3. Len(results[c[1]]) = s - 1 BY <2>1, <1>4
  <2>4. \A i \in Places(s)' : Len(results'[chan'[s][i]]) = s - 1
    <3>1. \A i \in 1..n : chan'[s][i] = c[i + 1] BY <1>6, <1>9
    <3> QED BY <1>2, <1>11, <2>1, <2>2, <3>1
  <2>5. results' = results BY <1>2
  <2>6. Len(results'[stage'[s].req]) = s - 1 BY <1>8, <2>3, <2>5
  <2>7. stage'[s].pc # "send" BY <1>8
  <2> QED BY <2>4, <2>6, <2>7, Zenon DEF StageResults
<1>16. StageGone(s)' BY <1>8 DEF StageGone, Gone
<1>17. ASSUME NEW r \in Requests PROVE In(s, r)' <=> In(s, r)
  <2>1. In(s, r) <=> \E i \in 1..(n + 1) : c[i] = r BY <1>11, <1>12 DEF In, c
  <2>2. In(s, r)' <=> (\E i \in 1..n : c[i + 1] = r) \/ c[1] = r
    <3>1. \A i \in 1..n : chan'[s][i] = c[i + 1] BY <1>6, <1>9
    <3> QED BY <1>8, <1>11, <1>12, <3>1, ZenonT(40) DEF In
  <2>3. \A i \in 1..(n + 1) : i = 1 \/ (i - 1 \in 1..n /\ i = (i - 1) + 1) OBVIOUS
  <2>4. \A i \in 1..n : i + 1 \in 1..(n + 1) OBVIOUS
  <2>5. 1 \in 1..(n + 1) OBVIOUS
  <2> QED BY <2>1, <2>2, <2>3, <2>4, <2>5
<1>18. stage[s].pc \notin Gone BY <1>2 DEF Gone
<1>19. LocalInv' /\ OrderInv' /\ FlowInv'
  BY <1>2, <1>8, <1>9, <1>14, <1>15, <1>16, <1>17, <1>18, OneStage
<1> QED BY <1>2, <1>10, <1>19 DEF Pipe, StagesInOrder

\* A stage that ends: it had nothing, and nothing more can come.
LEMMA StageEndsInv ==
    ASSUME Pipe, NEW s \in Stages, StageEnds(s)
    PROVE  Pipe'
<1>1. MRTypes BY DEF Pipe
<1>2. /\ stage[s].pc = "recv" /\ chan[s] = <<>> /\ SendersGone(s)
      /\ Set(s, "exit", 0)
      /\ UNCHANGED <<api, conc, mainPc, nextReq, chan, results, hurt, jobs, worker>>
  BY DEF StageEnds, At
<1>3. /\ stage' \in [Stages -> [pc : {"recv", "run", "send"} \cup Gone, req : Nat]]
      /\ stage'[s].pc = "exit"
      /\ \A t \in Stages \ {s} : stage'[t] = stage[t]
  BY <1>1, <1>2, SetIs DEF Gone
<1>4. MRTypes' BY <1>1, <1>2, <1>3 DEF MRTypes, Busy
<1>5. ~Busy(s) /\ ~Busy(s)' /\ Places(s)' = {} BY <1>2, <1>3 DEF Busy, Places
<1>6. StageOrder(s)' BY <1>5 DEF StageOrder
<1>7. StageResults(s)' BY <1>3, <1>5 DEF StageResults
<1>8. StageGone(s)'
  <2>1. s > 1 => s - 1 \in Stages /\ s - 1 # s BY StageBefore
  <2> QED BY <1>2, <1>3, <2>1 DEF StageGone, SendersGone
<1>9. ASSUME NEW r \in Requests PROVE In(s, r)' <=> In(s, r)
  BY <1>2, <1>5 DEF In, Places
<1>10. stage[s].pc \notin Gone BY <1>2 DEF Gone
<1>11. LocalInv' /\ OrderInv' /\ FlowInv'
  BY <1>2, <1>3, <1>6, <1>7, <1>8, <1>9, <1>10, OneStage
<1> QED BY <1>2, <1>4, <1>11 DEF Pipe, StagesInOrder

LEMMA StageFailsInv ==
    ASSUME Pipe, NEW s \in Stages, StageFails(s)
    PROVE  Pipe'
<1>1. MRTypes BY DEF Pipe
<1>2. /\ stage[s].pc = "run"
      /\ Set(s, "recv", 0)
      /\ hurt' = hurt \cup {stage[s].req}
      /\ UNCHANGED <<api, conc, mainPc, nextReq, chan, results, jobs, worker>>
  BY DEF StageFails, At
<1>3. /\ stage' \in [Stages -> [pc : {"recv", "run", "send"} \cup Gone, req : Nat]]
      /\ stage'[s].pc = "recv"
      /\ \A t \in Stages \ {s} : stage'[t] = stage[t]
  BY <1>1, <1>2, SetIs
<1>4. MRTypes' BY <1>1, <1>2, <1>3 DEF MRTypes, Busy
<1>5. Busy(s) /\ ~Busy(s)' /\ Places(s)' = Places(s) BY <1>2, <1>3 DEF Busy, Places
<1>6. StageOrder(s) /\ StageResults(s) BY DEF Pipe, LocalInv
<1>7. StageOrder(s)' BY <1>2, <1>5, <1>6 DEF StageOrder
<1>8. StageResults(s)' BY <1>2, <1>3, <1>5, <1>6 DEF StageResults
<1>9. StageGone(s)' BY <1>3 DEF StageGone, Gone
<1>10. ASSUME NEW r \in Requests
       PROVE  (In(s, r)' => In(s, r)) /\ (In(s, r) => In(s, r)' \/ r \in hurt')
  BY <1>2, <1>5 DEF In
<1>11. stage[s].pc \notin Gone BY <1>2 DEF Gone
<1>12. LocalInv' /\ OrderInv' /\ FlowInv'
  BY <1>2, <1>3, <1>7, <1>8, <1>9, <1>10, <1>11, OneStage
<1> QED BY <1>2, <1>4, <1>12 DEF Pipe, StagesInOrder

LEMMA StagePanicsInv ==
    ASSUME Pipe, NEW s \in Stages, StagePanics(s)
    PROVE  Pipe'
<1>1. MRTypes BY DEF Pipe
<1>2. /\ stage[s].pc = "run"
      /\ Set(s, "panicked", 0)
      /\ hurt' = hurt \cup {stage[s].req} \cup {chan[s][i] : i \in Places(s)}
      /\ chan' = [chan EXCEPT ![s] = <<>>]
      /\ UNCHANGED <<api, conc, mainPc, nextReq, results, jobs, worker>>
  BY <1>1, StageTypes DEF StagePanics, At
<1>3. /\ stage' \in [Stages -> [pc : {"recv", "run", "send"} \cup Gone, req : Nat]]
      /\ stage'[s].pc = "panicked"
      /\ \A t \in Stages \ {s} : stage'[t] = stage[t]
  BY <1>1, <1>2, SetIs DEF Gone
<1>4. /\ chan' \in [Stages -> Seq(Requests)] /\ chan'[s] = <<>>
      /\ \A t \in Stages \ {s} : chan'[t] = chan[t]
  BY <1>1, <1>2 DEF MRTypes
<1>5. MRTypes'
  <2>1. \A t \in Stages : Len(chan'[t]) <= conc + 1
    <3>1. Len(chan'[s]) <= conc + 1 BY <1>1, <1>4 DEF MRTypes
    <3>2. \A t \in Stages \ {s} : Len(chan'[t]) <= conc + 1 BY <1>1, <1>4 DEF MRTypes
    <3> QED BY <3>1, <3>2
  <2>2. \A t \in Stages : Busy(t)' => stage'[t].req \in Requests
    BY <1>1, <1>3 DEF MRTypes, Busy
  <2> QED BY <1>1, <1>2, <1>3, <1>4, <2>1, <2>2 DEF MRTypes
<1>6. ~Busy(s)' /\ Places(s)' = {} BY <1>3, <1>4 DEF Busy, Places
<1>7. StageOrder(s)' BY <1>6 DEF StageOrder
<1>8. StageResults(s)' BY <1>3, <1>6 DEF StageResults
<1>9. StageGone(s)' BY <1>3, <1>4 DEF StageGone
<1>10. ASSUME NEW r \in Requests
       PROVE  (In(s, r)' => In(s, r)) /\ (In(s, r) => In(s, r)' \/ r \in hurt')
  BY <1>2, <1>6 DEF In
<1>11. stage[s].pc \notin Gone BY <1>2 DEF Gone
<1>12. hurt \subseteq hurt' BY <1>2
<1>13. LocalInv' /\ OrderInv' /\ FlowInv'
  BY <1>2, <1>3, <1>4, <1>7, <1>8, <1>9, <1>10, <1>11, <1>12, OneStage
<1> QED BY <1>2, <1>5, <1>13 DEF Pipe, StagesInOrder

\* What stage s has, and what that says of the requests there.
LEMMA AtStage ==
    ASSUME Pipe, NEW s \in Stages, NEW r \in Requests, In(s, r)
    PROVE  Len(results[r]) >= s - 1
<1>1. StageResults(s) /\ s \in Nat BY RequestsAreNats DEF Pipe, LocalInv
<1> QED BY <1>1 DEF In, Busy, StageResults

\* A stage's result is stored behind those of the stages before it; the requests of
\* other stages, and those queued here, are not touched.
LEMMA StageStoresInv ==
    ASSUME Pipe, NEW s \in Stages, StageStores(s)
    PROVE  Pipe'
<1>1. MRTypes /\ OrderInv /\ FlowInv BY DEF Pipe
<1>2. PICK x : x = stage[s].req OBVIOUS
<1>3. /\ stage[s].pc = "run"
      /\ results' = [results EXCEPT ![x] = Append(@, s)]
      /\ Set(s, IF s < NumStages THEN "send" ELSE "recv", x)
      /\ UNCHANGED <<api, conc, mainPc, nextReq, chan, hurt, jobs, worker>>
  BY <1>2 DEF StageStores, At, Stored
<1>4. x \in Requests /\ x \in Nat /\ In(s, x)
  BY <1>1, <1>2, <1>3, RequestsAreNats DEF MRTypes, Busy, In
<1>5. /\ stage' \in [Stages -> [pc : {"recv", "run", "send"} \cup Gone, req : Nat]]
      /\ stage'[s].pc = IF s < NumStages THEN "send" ELSE "recv"
      /\ stage'[s].req = x
      /\ \A t \in Stages \ {s} : stage'[t] = stage[t]
  <2>1. PICK p \in {"recv", "send"} : p = IF s < NumStages THEN "send" ELSE "recv" OBVIOUS
  <2>2. Set(s, p, x) BY <1>3, <2>1
  <2> QED BY <1>1, <1>4, <2>1, <2>2, SetIs
<1>6. StageOrder(s) /\ StageResults(s) BY DEF Pipe, LocalInv
<1>7. results[x] \in Seq(Stages) /\ Len(results[x]) = s - 1
  BY <1>1, <1>2, <1>3, <1>4, <1>6 DEF MRTypes, StageResults
<1>8. /\ results' \in [Requests -> Seq(Stages)]
      /\ results'[x] = Append(results[x], s)
      /\ \A r \in Requests \ {x} : results'[r] = results[r]
  BY <1>1, <1>3, <1>4, <1>7 DEF MRTypes
<1>9. s \in Nat /\ s >= 1 /\ s <= NumStages BY MultiRequestAssumption DEF Stages
<1>10. Len(results'[x]) = s /\ \A i \in 1..(s - 1) : results'[x][i] = results[x][i]
  BY <1>7, <1>8, <1>9
<1>11. StagesInOrder'
  <2>1. results'[x][s] = s BY <1>7, <1>8, <1>9
  <2>2. DOMAIN results[x] = 1..(s - 1) /\ DOMAIN results'[x] = 1..s
    BY <1>4, <1>7, <1>8, <1>10
  <2>3. \A i \in 1..s : i = s \/ i \in 1..(s - 1) BY <1>9
  <2>4. \A i \in DOMAIN results'[x] : results'[x][i] = i
    BY <1>4, <1>10, <2>1, <2>2, <2>3, Zenon DEF Pipe, StagesInOrder
  <2> QED BY <1>8, <2>4 DEF Pipe, StagesInOrder
<1>12. \A t \in Stages \ {s} : Busy(t)' = Busy(t) /\ Places(t)' = Places(t)
  BY <1>3, <1>5 DEF Busy, Places
<1>13. Busy(s) /\ Places(s)' = Places(s) /\ (Busy(s)' <=> s < NumStages)
  BY <1>3, <1>5 DEF Busy, Places
<1>14. \A t \in Stages : \A r \in Requests : In(t, r)' => In(t, r)
  BY <1>2, <1>3, <1>5, <1>12, <1>13 DEF In
<1>15. \A t \in Stages : \A r \in Requests : In(t, r) => In(t, r)' \/ (t = s /\ r = x)
  BY <1>2, <1>3, <1>5, <1>12, <1>13 DEF In
<1>16. \A i \in Places(s) : chan[s][i] \in Requests \ {x}
  <2>1. \A i \in Places(s) : chan[s][i] \in Requests BY <1>1, StageTypes
  <2>2. \A i \in Places(s) : x < chan[s][i] BY <1>2, <1>6, <1>13 DEF StageOrder
  <2> QED BY <1>4, <2>1, <2>2, RequestsAreNats
<1>17. \A t \in Stages \ {s} : \A r \in Requests : In(t, r) => r # x
  <2> SUFFICES ASSUME NEW t \in Stages \ {s}, In(t, x) PROVE FALSE OBVIOUS
  <2>1. t < s \/ s < t BY RequestsAreNats
  <2>2. x < x BY <1>1, <1>4, <2>1, Zenon DEF OrderInv
  <2> QED BY <1>4, <2>2
<1>18. LocalInv'
  <2>1. ASSUME NEW t \in Stages \ {s} PROVE StageOrder(t)' /\ StageResults(t)' /\ StageGone(t)'
    <3>1. \A i \in Places(t) : chan[t][i] \in Requests BY <1>1, StageTypes
    <3>2. \A i \in Places(t) : results'[chan[t][i]] = results[chan[t][i]]
      BY <1>8, <1>17, <3>1 DEF In
    <3>3. Busy(t) => results'[stage[t].req] = results[stage[t].req]
      BY <1>1, <1>8, <1>17 DEF In, MRTypes
    <3>4. t > 1 /\ stage[t - 1].pc \in Gone => stage'[t - 1].pc \in Gone
      BY <1>3, <1>5, StageBefore DEF Gone
    <3> QED BY <1>3, <1>5, <3>2, <3>3, <3>4, LocalStays DEF Pipe, LocalInv
  <2>2. StageOrder(s)' BY <1>2, <1>3, <1>5, <1>6, <1>13 DEF StageOrder
  <2>3. StageResults(s)'
    <3>1. \A i \in Places(s) : results'[chan[s][i]] = results[chan[s][i]] BY <1>8, <1>16
    <3> QED BY <1>3, <1>5, <1>6, <1>10, <1>13, <3>1, ZenonT(60) DEF StageResults
  <2>4. StageGone(s)' BY <1>5 DEF StageGone, Gone
  <2> QED BY <2>1, <2>2, <2>3, <2>4 DEF LocalInv
<1>19. \A r \in Requests : Len(results[r]) \in Nat BY <1>1 DEF MRTypes
<1>20. OrderInv'
  <2>1. \A t, u \in Stages : \A q, r \in Requests : t < u /\ In(t, q)' /\ In(u, r)' => r < q
    BY <1>1, <1>14, Zenon DEF OrderInv
  <2>2. ASSUME NEW t \in Stages, NEW q \in Requests, NEW r \in Requests, In(t, q)', q < r
        PROVE  Len(results'[r]) <= Len(results'[q])
    <3>1. In(t, q) BY <1>14, <2>2
    <3>2. Len(results[r]) <= Len(results[q]) BY <1>1, <2>2, <3>1, Zenon DEF OrderInv
    <3>3. CASE r = x
      <4>1. q # x /\ q \in Nat BY <1>4, <2>2, <3>3, RequestsAreNats
      <4>2. ~(x < q) BY <1>4, <2>2, <3>3, <4>1
      <4>3. t # s
        <5>1. SUFFICES ASSUME t = s PROVE FALSE OBVIOUS
        <5>2. \E i \in Places(s) : chan[s][i] = q BY <1>2, <3>1, <4>1, <5>1 DEF In
        <5> QED BY <1>2, <1>6, <1>13, <4>2, <5>2 DEF StageOrder
      <4>4. ~(t < s) BY <1>1, <1>4, <3>1, <4>2, Zenon DEF OrderInv
      <4>5. t - 1 >= s BY <1>9, <4>3, <4>4, RequestsAreNats
      <4>6. Len(results[q]) >= t - 1 BY <3>1, AtStage
      <4>7. t \in Nat BY RequestsAreNats
      <4> QED BY <1>8, <1>9, <1>10, <1>19, <3>3, <4>1, <4>5, <4>6, <4>7
    <3>4. CASE r # x
      <4>1. Len(results'[q]) >= Len(results[q]) BY <1>7, <1>8, <1>9, <1>10, <1>19
      <4>2. results'[r] = results[r] BY <1>8, <3>4
      <4>3. Len(results'[q]) \in Nat BY <1>8
      <4> QED BY <1>19, <3>2, <4>1, <4>2, <4>3
    <3> QED BY <3>3, <3>4
  <2> QED BY <2>1, <2>2 DEF OrderInv
<1>21. FlowInv'
  <2>1. x < nextReq BY <1>1, <1>4 DEF FlowInv
  <2>2. \A t \in Stages : \A r \in Requests : In(t, r)' => r < nextReq'
    BY <1>1, <1>3, <1>14 DEF FlowInv
  <2>3. nextReq \in Nat BY <1>1 DEF MRTypes
  <2>4. \A r \in Requests : r >= nextReq' => results'[r] = <<>>
    <3> SUFFICES ASSUME NEW r \in Requests, r >= nextReq PROVE results'[r] = <<>> BY <1>3
    <3>1. r # x BY <1>4, <2>1, <2>3
    <3> QED BY <1>1, <1>8, <3>1 DEF FlowInv
  <2>5. ASSUME NEW r \in Requests \ hurt', r < nextReq'
        PROVE  Len(results'[r]) = NumStages \/ \E t \in Stages : In(t, r)'
    <3>1. CASE r = x
      <4>1. CASE s < NumStages
        <5>1. In(s, x)' BY <1>5, <1>13, <4>1 DEF In
        <5> QED BY <3>1, <5>1
      <4>2. CASE ~(s < NumStages) BY <1>9, <1>10, <3>1, <4>2, MultiRequestAssumption
      <4> QED BY <4>1, <4>2
    <3>2. CASE r # x
      <4>1. Len(results[r]) = NumStages \/ \E t \in Stages : In(t, r)
        BY <1>1, <1>3, <2>5 DEF FlowInv
      <4> QED BY <1>8, <1>15, <3>2, <4>1
    <3> QED BY <3>1, <3>2
  <2>6. mainPc # "done" BY <1>1, <1>3 DEF FlowInv, Gone
  <2> QED BY <1>1, <1>3, <2>2, <2>4, <2>5, <2>6 DEF FlowInv
<1>22. MRTypes' BY <1>1, <1>3, <1>4, <1>5, <1>8, <1>12 DEF MRTypes
<1> QED BY <1>3, <1>11, <1>18, <1>20, <1>21, <1>22 DEF Pipe

-----------------------------------------------------------------------------
(* Sending *)

\* A message put last into a stage's channel, when everything there is ahead of it.
LEMMA Appended ==
    ASSUME Pipe, NEW s \in Stages, NEW x \in Requests,
           chan' = [chan EXCEPT ![s] = Append(@, x)], stage'[s] = stage[s],
           Room(s), UNCHANGED <<conc, results>>,
           \A r \in Requests : In(s, r) => r < x,
           Len(results[x]) = s - 1, stage[s].pc \notin Gone
    PROVE  /\ chan' \in [Stages -> Seq(Requests)]
           /\ \A t \in Stages \ {s} : chan'[t] = chan[t]
           /\ \A t \in Stages : Len(chan'[t]) <= conc' + 1
           /\ StageOrder(s)' /\ StageResults(s)' /\ StageGone(s)'
           /\ \A r \in Requests : In(s, r)' <=> In(s, r) \/ r = x
<1>1. MRTypes /\ StageOrder(s) /\ StageResults(s) BY DEF Pipe, LocalInv
<1>2. PICK n \in Nat : n = Len(chan[s]) BY <1>1, StageTypes
<1>3. /\ chan[s] \in Seq(Requests) /\ Places(s) = 1..n
      /\ \A i \in 1..n : chan[s][i] \in Requests
  BY <1>1, <1>2, StageTypes DEF Places
<1>4. /\ chan' \in [Stages -> Seq(Requests)] /\ chan'[s] = Append(chan[s], x)
      /\ \A t \in Stages \ {s} : chan'[t] = chan[t]
  BY <1>1, <1>3 DEF MRTypes
<1>5. /\ Len(chan'[s]) = n + 1 /\ chan'[s][n + 1] = x
      /\ \A i \in 1..n : chan'[s][i] = chan[s][i]
  BY <1>2, <1>3, <1>4
<1>6. Places(s)' = 1..(n + 1) /\ Busy(s)' = Busy(s) BY <1>5 DEF Places, Busy
<1>7. \A i \in 1..(n + 1) : i \in 1..n \/ i = n + 1 OBVIOUS
<1>8. \A i \in 1..n : chan[s][i] < x BY <1>3 DEF In
<1>9. \A t \in Stages : Len(chan'[t]) <= conc' + 1
  <2>1. n <= conc
    <3>1. CASE n < conc BY <1>1, <3>1 DEF MRTypes
    <3>2. CASE chan[s] = <<>> BY <1>1, <1>2, <3>2 DEF MRTypes
    <3> QED BY <1>2, <3>1, <3>2 DEF Room
  <2>2. Len(chan'[s]) <= conc + 1 BY <1>1, <1>5, <2>1 DEF MRTypes
  <2> QED BY <1>1, <1>4, <2>2 DEF MRTypes
<1>10. StageOrder(s)'
  <2>1. \A i, j \in 1..n : i < j => chan[s][i] < chan[s][j] BY <1>1, <1>3 DEF StageOrder
  <2>2. ASSUME NEW i \in 1..(n + 1), NEW j \in 1..(n + 1), i < j
        PROVE  chan'[s][i] < chan'[s][j]
    <3>1. i \in 1..n BY <2>2
    <3>2. CASE j \in 1..n BY <1>5, <2>1, <2>2, <3>1, <3>2
    <3>3. CASE j = n + 1 BY <1>5, <1>8, <3>1, <3>3
    <3> QED BY <1>7, <3>2, <3>3
  <2>3. Busy(s) => stage[s].req \in Requests /\ stage[s].req < x
    BY <1>1 DEF In, MRTypes
  <2>4. ASSUME Busy(s), NEW i \in 1..(n + 1) PROVE stage[s].req < chan'[s][i]
    <3>1. CASE i \in 1..n BY <1>1, <1>3, <1>5, <2>4, <3>1 DEF StageOrder
    <3>2. CASE i = n + 1 BY <1>5, <2>3, <2>4, <3>2
    <3> QED BY <1>7, <3>1, <3>2
  <2> QED BY <1>6, <2>2, <2>4 DEF StageOrder
<1>11. StageResults(s)'
  <2>1. \A i \in 1..(n + 1) : Len(results[chan'[s][i]]) = s - 1
    <3> SUFFICES ASSUME NEW i \in 1..(n + 1) PROVE Len(results[chan'[s][i]]) = s - 1 OBVIOUS
    <3>1. CASE i \in 1..n BY <1>1, <1>3, <1>5, <3>1 DEF StageResults
    <3>2. CASE i = n + 1 BY <1>5, <3>2
    <3> QED BY <1>7, <3>1, <3>2
  <2> QED BY <1>1, <1>6, <2>1 DEF StageResults
<1>12. StageGone(s)' BY DEF StageGone, Gone
<1>13. ASSUME NEW r \in Requests PROVE In(s, r)' <=> In(s, r) \/ r = x
  <2>1. In(s, r)' <=> (\E i \in 1..(n + 1) : chan'[s][i] = r) \/ (Busy(s) /\ stage[s].req = r)
    BY <1>6 DEF In
  <2>2. (\E i \in 1..(n + 1) : chan'[s][i] = r) <=> (\E i \in 1..n : chan[s][i] = r) \/ r = x
    <3>1. n + 1 \in 1..(n + 1) /\ \A i \in 1..n : i \in 1..(n + 1) OBVIOUS
    <3> QED BY <1>5, <1>7, <3>1
  <2>3. In(s, r) <=> (\E i \in 1..n : chan[s][i] = r) \/ (Busy(s) /\ stage[s].req = r)
    BY <1>3 DEF In
  <2> QED BY <2>1, <2>2, <2>3
<1> QED BY <1>4, <1>9, <1>10, <1>11, <1>12, <1>13

\* A stage passes its request on to the next, or loses it when that one is gone.
LEMMA StageSendsInv ==
    ASSUME Pipe, NEW s \in Stages, StageSends(s)
    PROVE  Pipe'
<1>1. MRTypes /\ OrderInv /\ FlowInv /\ StageOrder(s) /\ StageResults(s) /\ StageGone(s)
  BY DEF Pipe, LocalInv
<1>2. PICK x : x = stage[s].req OBVIOUS
<1>3. /\ stage[s].pc = "send" /\ Send(s + 1, x) /\ Set(s, "recv", 0)
      /\ UNCHANGED <<api, conc, mainPc, nextReq, results, jobs, worker>>
  BY <1>2 DEF StageSends, At
<1>4. x \in Requests /\ x \in Nat /\ In(s, x) /\ Busy(s)
  BY <1>1, <1>2, <1>3, RequestsAreNats DEF MRTypes, Busy, In
<1>5. s < NumStages /\ Len(results[x]) = s BY <1>1, <1>2, <1>3 DEF StageResults
<1>6. PICK t \in Stages : t = s + 1 /\ t # s /\ s = t - 1 /\ t > 1
  BY <1>5, MultiRequestAssumption DEF Stages
<1>7. /\ stage' \in [Stages -> [pc : {"recv", "run", "send"} \cup Gone, req : Nat]]
      /\ stage'[s].pc = "recv"
      /\ \A u \in Stages \ {s} : stage'[u] = stage[u]
  BY <1>1, <1>3, SetIs
<1>8. ~Busy(s)' BY <1>7 DEF Busy
<1>9. \A r \in Requests : In(s, r) <=> r = x \/ \E i \in Places(s) : chan[s][i] = r
  BY <1>2, <1>4 DEF In
<1>10. \A i \in Places(s) : x < chan[s][i] BY <1>1, <1>2, <1>4 DEF StageOrder
<1>11. chan'[s] = chan[s] =>
         /\ StageOrder(s)' /\ StageResults(s)' /\ StageGone(s)'
         /\ \A r \in Requests : In(s, r)' <=> In(s, r) /\ r # x
  <2> SUFFICES ASSUME chan'[s] = chan[s]
               PROVE  /\ StageOrder(s)' /\ StageResults(s)' /\ StageGone(s)'
                      /\ \A r \in Requests : In(s, r)' <=> In(s, r) /\ r # x
    OBVIOUS
  <2>1. Places(s)' = Places(s) BY DEF Places
  <2>2. StageOrder(s)' BY <1>1, <1>8, <2>1 DEF StageOrder
  <2>3. StageResults(s)' BY <1>1, <1>3, <1>7, <2>1 DEF StageResults
  <2>4. StageGone(s)' BY <1>7 DEF StageGone, Gone
  <2>5. \A r \in Requests : In(s, r)' <=> \E i \in Places(s) : chan[s][i] = r
    BY <1>8, <2>1 DEF In
  <2>6. \A i \in Places(s) : chan[s][i] # x BY <1>4, <1>10
  <2> QED BY <1>9, <2>2, <2>3, <2>4, <2>5, <2>6
<1>12. stage[s].pc \notin Gone BY <1>3 DEF Gone
<1>13. CASE stage[t].pc = "panicked"
  <2>1. hurt' = hurt \cup {x} /\ chan' = chan BY <1>3, <1>6, <1>13 DEF Send, At
  <2>2. MRTypes' BY <1>1, <1>3, <1>7, <2>1 DEF MRTypes, Busy
  <2>3. \A r \in Requests : (In(s, r)' => In(s, r)) /\ (In(s, r) => In(s, r)' \/ r \in hurt')
    BY <1>11, <2>1
  <2>4. LocalInv' /\ OrderInv' /\ FlowInv'
    BY <1>3, <1>7, <1>11, <1>12, <2>1, <2>3, OneStage
  <2> QED BY <1>3, <2>2, <2>4 DEF Pipe, StagesInOrder
<1>14. CASE stage[t].pc # "panicked"
  <2>1. Room(t) /\ chan' = [chan EXCEPT ![t] = Append(@, x)] /\ hurt' = hurt
    BY <1>3, <1>6, <1>14 DEF Send, At
  <2>2. stage[t].pc \notin Gone
    <3>1. stage[t].pc # "exit" BY <1>6, <1>12 DEF Pipe, LocalInv, StageGone
    <3> QED BY <1>14, <3>1 DEF Gone
  <2>3. s < t BY <1>6, RequestsAreNats
  <2>4. \A r \in Requests : In(t, r) => r < x BY <1>1, <1>4, <2>3, Zenon DEF OrderInv
  <2>5. Len(results[x]) = t - 1 BY <1>5, <1>6
  <2>6. stage'[t] = stage[t] BY <1>6, <1>7
  <2>7. /\ chan' \in [Stages -> Seq(Requests)]
        /\ \A u \in Stages \ {t} : chan'[u] = chan[u]
        /\ \A u \in Stages : Len(chan'[u]) <= conc' + 1
        /\ StageOrder(t)' /\ StageResults(t)' /\ StageGone(t)'
        /\ \A r \in Requests : In(t, r)' <=> In(t, r) \/ r = x
    BY <1>3, <1>4, <2>1, <2>2, <2>4, <2>5, <2>6, Appended
  <2>8. /\ StageOrder(s)' /\ StageResults(s)' /\ StageGone(s)'
        /\ \A r \in Requests : In(s, r)' <=> In(s, r) /\ r # x
    BY <1>6, <1>11, <2>7
  <2>9. \A u \in Stages \ {s, t} : \A r \in Requests : In(u, r)' <=> In(u, r)
    BY <1>7, <2>7 DEF In, Places, Busy
  <2>10. LocalInv'
    <3>1. ASSUME NEW u \in Stages \ {s, t} PROVE StageOrder(u)' /\ StageResults(u)' /\ StageGone(u)'
      <4>1. u > 1 /\ stage[u - 1].pc \in Gone => stage'[u - 1].pc \in Gone
        BY <1>7, <1>12, StageBefore
      <4> QED BY <1>3, <1>7, <2>7, <4>1, LocalStays DEF Pipe, LocalInv
    <3> QED BY <2>7, <2>8, <3>1 DEF LocalInv
  <2>11. \A u \in Stages : \A r \in Requests : In(u, r)' => In(u, r) \/ (u = t /\ r = x)
    BY <2>7, <2>8, <2>9
  <2>12. \A u \in Stages : \A r \in Requests : In(u, r) => In(u, r)' \/ (r = x /\ In(t, x)')
    BY <1>4, <2>7, <2>8, <2>9
  <2>13. OrderInv'
    <3>1. ASSUME NEW u \in Stages, NEW v \in Stages, NEW q \in Requests, NEW r \in Requests,
                 u < v, In(u, q)', In(v, r)'
          PROVE  r < q
      <4>1. CASE In(u, q) /\ In(v, r) BY <1>1, <3>1, <4>1, Zenon DEF OrderInv
      <4>2. CASE v = t /\ r = x /\ In(u, q)
        <5>1. CASE u = s
          <6>1. q # x BY <2>8, <3>1, <5>1
          <6>2. PICK i \in Places(s) : chan[s][i] = q BY <1>9, <4>2, <5>1, <6>1
          <6> QED BY <1>10, <4>2, <6>2
        <5>2. CASE u # s
          <6>1. u < s BY <1>6, <3>1, <4>2, <5>2, RequestsAreNats
          <6> QED BY <1>1, <1>4, <4>2, <6>1, Zenon DEF OrderInv
        <5> QED BY <5>1, <5>2
      <4>3. CASE u = t /\ q = x
        <5>1. v # t /\ s < v BY <2>3, <3>1, <4>3, RequestsAreNats
        <5>2. In(v, r) BY <2>11, <3>1, <5>1
        <5> QED BY <1>1, <1>4, <4>3, <5>1, <5>2, Zenon DEF OrderInv
      <4> QED BY <2>11, <3>1, <4>1, <4>2, <4>3
    <3>2. ASSUME NEW u \in Stages, NEW q \in Requests, NEW r \in Requests, In(u, q)', q < r
          PROVE  Len(results'[r]) <= Len(results'[q])
      <4>1. PICK v \in Stages : In(v, q) BY <1>4, <2>11, <3>2
      <4> QED BY <1>1, <1>3, <3>2, <4>1, Zenon DEF OrderInv
    <3> QED BY <3>1, <3>2 DEF OrderInv
  <2>14. FlowInv'
    <3>1. \A u \in Stages : \A r \in Requests : In(u, r)' => r < nextReq'
      BY <1>1, <1>3, <1>4, <2>11, Zenon DEF FlowInv
    <3>2. \A r \in Requests : r >= nextReq' => results'[r] = <<>> BY <1>1, <1>3 DEF FlowInv
    <3>3. \A r \in Requests \ hurt' :
            r < nextReq' => Len(results'[r]) = NumStages \/ \E u \in Stages : In(u, r)'
      BY <1>1, <1>3, <2>1, <2>12 DEF FlowInv
    <3>4. mainPc # "done" BY <1>1, <1>12 DEF FlowInv
    <3> QED BY <1>1, <1>3, <3>1, <3>2, <3>3, <3>4 DEF FlowInv
  <2>15. \A u \in Stages : Busy(u)' => stage'[u].req \in Requests
    BY <1>1, <1>7, <1>8 DEF MRTypes, Busy
  <2>16. MRTypes' BY <1>1, <1>3, <1>7, <2>7, <2>15 DEF MRTypes
  <2> QED BY <1>3, <2>10, <2>13, <2>14, <2>16 DEF Pipe, StagesInOrder
<1> QED BY <1>13, <1>14

\* The calling thread sends the next request to the first stage, or loses it when that
\* one is gone.
LEMMA MainSendInv ==
    ASSUME Pipe, MainSend
    PROVE  Pipe'
<1>1. MRTypes /\ OrderInv /\ FlowInv BY DEF Pipe
<1>2. PICK x : x = nextReq OBVIOUS
<1>3. /\ mainPc = "run" /\ x <= NumRequests /\ Send(1, x) /\ nextReq' = x + 1
      /\ UNCHANGED <<api, conc, mainPc, stage, results, jobs, worker>>
  BY <1>2 DEF MainSend
<1>4. x \in Requests /\ x \in Nat BY <1>1, <1>2, <1>3 DEF MRTypes, Requests
<1>5. 1 \in Stages BY MultiRequestAssumption DEF Stages
<1>6. \A r \in Requests : r < nextReq' => r < nextReq \/ r = x
  BY <1>2, <1>3, <1>4, RequestsAreNats
<1>7. \A r \in Requests : (r < nextReq => r < nextReq') /\ (r >= nextReq' => r >= nextReq)
  BY <1>2, <1>3, <1>4, RequestsAreNats
<1>8. nextReq' \in Nat \ {0} BY <1>3, <1>4
<1>9. CASE stage[1].pc = "panicked"
  <2>1. hurt' = hurt \cup {x} /\ chan' = chan BY <1>3, <1>9 DEF Send, At
  <2>2. MRTypes' BY <1>1, <1>3, <1>8, <2>1 DEF MRTypes, Busy
  <2>3. LocalInv' BY <1>3, <2>1 DEF Pipe, LocalInv, StageOrder, StageResults, StageGone, Places, Busy
  <2>4. \A s \in Stages : \A r \in Requests : In(s, r)' <=> In(s, r)
    BY <1>3, <2>1 DEF In, Places, Busy
  <2>5. OrderInv' BY <1>1, <1>3, <2>4, Zenon DEF OrderInv
  <2>6. FlowInv'
    <3>1. \A s \in Stages : \A r \in Requests : In(s, r)' => r < nextReq'
      BY <1>1, <1>7, <2>4, Zenon DEF FlowInv
    <3>2. ASSUME NEW r \in Requests \ hurt', r < nextReq'
          PROVE  Len(results'[r]) = NumStages \/ \E s \in Stages : In(s, r)'
      <4>1. r \notin hurt /\ r # x /\ r < nextReq BY <1>6, <2>1, <3>2
      <4>2. Len(results[r]) = NumStages \/ \E s \in Stages : In(s, r)
        BY <1>1, <4>1, Zenon DEF FlowInv
      <4> QED BY <1>3, <2>4, <4>2, Zenon
    <3>3. \A r \in Requests : r >= nextReq' => results'[r] = <<>> BY <1>1, <1>3, <1>7 DEF FlowInv
    <3> QED BY <1>3, <3>1, <3>2, <3>3, Zenon DEF FlowInv
  <2> QED BY <1>3, <2>2, <2>3, <2>5, <2>6 DEF Pipe, StagesInOrder
<1>10. CASE stage[1].pc # "panicked"
  <2>1. Room(1) /\ chan' = [chan EXCEPT ![1] = Append(@, x)] /\ hurt' = hurt
    BY <1>3, <1>10 DEF Send, At
  <2>2. stage[1].pc \notin Gone
    <3>1. stage[1].pc # "exit" BY <1>3, <1>5 DEF Pipe, LocalInv, StageGone
    <3> QED BY <1>10, <3>1 DEF Gone
  <2>3. \A r \in Requests : In(1, r) => r < x BY <1>1, <1>2, <1>5 DEF FlowInv
  <2>4. Len(results[x]) = 1 - 1
    <3>1. results[x] = <<>> BY <1>1, <1>2, <1>4 DEF FlowInv
    <3> QED BY <3>1
  <2>5. stage'[1] = stage[1] BY <1>3
  <2>6. /\ chan' \in [Stages -> Seq(Requests)]
        /\ \A u \in Stages \ {1} : chan'[u] = chan[u]
        /\ \A u \in Stages : Len(chan'[u]) <= conc' + 1
        /\ StageOrder(1)' /\ StageResults(1)' /\ StageGone(1)'
        /\ \A r \in Requests : In(1, r)' <=> In(1, r) \/ r = x
    BY <1>3, <1>4, <1>5, <2>1, <2>2, <2>3, <2>4, <2>5, Appended
  <2>7. \A u \in Stages \ {1} : \A r \in Requests : In(u, r)' <=> In(u, r)
    BY <1>3, <2>6 DEF In, Places, Busy
  <2>8. LocalInv'
    <3>1. ASSUME NEW u \in Stages \ {1} PROVE StageOrder(u)' /\ StageResults(u)' /\ StageGone(u)'
      BY <1>3, <2>6, LocalStays DEF Pipe, LocalInv
    <3> QED BY <2>6, <3>1 DEF LocalInv
  <2>9. \A u \in Stages : \A r \in Requests : In(u, r)' => In(u, r) \/ (u = 1 /\ r = x)
    BY <2>6, <2>7
  <2>10. \A u \in Stages : \A r \in Requests : In(u, r) => In(u, r)' BY <2>6, <2>7
  <2>11. In(1, x)' BY <1>4, <2>6
  <2>12. \A r \in Requests : Len(results[r]) \in Nat BY <1>1 DEF MRTypes
  <2>13. OrderInv'
    <3>1. ASSUME NEW u \in Stages, NEW v \in Stages, NEW q \in Requests, NEW r \in Requests,
                 u < v, In(u, q)', In(v, r)'
          PROVE  r < q
      <4>1. v # 1 BY <3>1 DEF Stages
      <4>2. In(v, r) BY <2>9, <3>1, <4>1
      <4>3. CASE In(u, q) BY <1>1, <3>1, <4>2, <4>3, Zenon DEF OrderInv
      <4>4. CASE q = x BY <1>1, <1>2, <4>2, <4>4 DEF FlowInv
      <4> QED BY <2>9, <3>1, <4>3, <4>4
    <3>2. ASSUME NEW u \in Stages, NEW q \in Requests, NEW r \in Requests, In(u, q)', q < r
          PROVE  Len(results'[r]) <= Len(results'[q])
      <4>1. CASE In(u, q) BY <1>1, <1>3, <3>2, <4>1, Zenon DEF OrderInv
      <4>2. CASE q = x
        <5>1. r >= nextReq BY <1>2, <1>4, <3>2, <4>2, RequestsAreNats
        <5>2. results[r] = <<>> BY <1>1, <5>1 DEF FlowInv
        <5>3. Len(results[r]) = 0 BY <5>2
        <5> QED BY <1>3, <2>12, <5>3
      <4> QED BY <2>9, <3>2, <4>1, <4>2
    <3> QED BY <3>1, <3>2 DEF OrderInv
  <2>14. FlowInv'
    <3>1. x < nextReq' BY <1>3, <1>4
    <3>2. \A u \in Stages : \A r \in Requests : In(u, r)' => r < nextReq'
      BY <1>1, <1>7, <2>9, <3>1 DEF FlowInv
    <3>3. \A r \in Requests : r >= nextReq' => results'[r] = <<>> BY <1>1, <1>3, <1>7 DEF FlowInv
    <3>4. \A r \in Requests \ hurt' :
            r < nextReq' => Len(results'[r]) = NumStages \/ \E u \in Stages : In(u, r)'
      BY <1>1, <1>3, <1>5, <1>6, <2>1, <2>10, <2>11 DEF FlowInv
    <3> QED BY <1>3, <3>2, <3>3, <3>4 DEF FlowInv
  <2>15. MRTypes' BY <1>1, <1>3, <1>8, <2>6 DEF MRTypes, Busy
  <2> QED BY <1>3, <2>8, <2>13, <2>14, <2>15 DEF Pipe, StagesInOrder
<1> QED BY <1>9, <1>10

\* The calling thread stops sending, and joins.
LEMMA MainWaitsInv ==
    ASSUME Pipe, MainDrop \/ MainJoins
    PROVE  Pipe'
<1>1. MRTypes /\ OrderInv /\ FlowInv BY DEF Pipe
<1>2. /\ UNCHANGED <<api, conc, nextReq, chan, stage, results, hurt, jobs, worker>>
      /\ mainPc' \in {"join", "done"} /\ nextReq > NumRequests
      /\ mainPc' = "done" => \A s \in Stages : stage[s].pc \in Gone
  BY <1>1 DEF MainDrop, MainJoins, FlowInv
<1>3. MRTypes' BY <1>1, <1>2 DEF MRTypes, Busy
<1>4. LocalInv'
  BY <1>2, ZenonT(40) DEF Pipe, LocalInv, StageOrder, StageResults, StageGone, Places, Busy
<1>5. \A s \in Stages : \A r \in Requests : In(s, r)' <=> In(s, r)
  BY <1>2 DEF In, Places, Busy
<1>6. OrderInv' /\ FlowInv' BY <1>1, <1>2, <1>5, FlowLeaves
<1> QED BY <1>2, <1>3, <1>4, <1>6 DEF Pipe, StagesInOrder

-----------------------------------------------------------------------------
(* The other two ways, and the whole *)

LEMMA ExecuteKeeps ==
    ASSUME MRIInv, Execute
    PROVE  MRIInv'
<1>1. /\ api = "execute" /\ mainPc = "run"
      /\ UNCHANGED <<api, conc, chan, stage, jobs, worker>>
      /\ \/ /\ results' = [results EXCEPT ![1] = Append(@, nextReq)]
            /\ nextReq' = nextReq + 1
            /\ mainPc' = IF nextReq = NumStages THEN "done" ELSE "run"
         \/ mainPc' = "done" /\ UNCHANGED <<results, nextReq>>
  BY DEF Execute
<1>2. MRTypes /\ StagesInOrder /\ nextReq \in Stages /\ Len(results[1]) = nextReq - 1
  BY <1>1, MultiRequestAssumption, SMTT(40) DEF MRIInv, ExecuteInv, MRTypes, Stages
<1>3. 1 \in Requests BY MultiRequestAssumption DEF Requests
<1>4. IdleInv' /\ PipeInv' BY <1>1 DEF MRIInv, IdleInv, PipeInv
<1>5. BatchInv' BY <1>1 DEF MRIInv, BatchInv
<1>6. CASE mainPc' = "done" /\ UNCHANGED <<results, nextReq>>
  <2>1. MRTypes' BY <1>1, <1>2, <1>6 DEF MRTypes, Busy
  <2>2. StagesInOrder' /\ ExecuteInv' BY <1>2, <1>6 DEF StagesInOrder, ExecuteInv
  <2> QED BY <1>4, <1>5, <2>1, <2>2 DEF MRIInv
<1>7. CASE /\ results' = [results EXCEPT ![1] = Append(@, nextReq)]
           /\ nextReq' = nextReq + 1
           /\ mainPc' = IF nextReq = NumStages THEN "done" ELSE "run"
  <2>1. results[1] \in Seq(Stages) BY <1>2, <1>3 DEF MRTypes
  <2>2. /\ results' \in [Requests -> Seq(Stages)]
        /\ results'[1] = Append(results[1], nextReq)
        /\ \A r \in Requests \ {1} : results'[r] = results[r]
    BY <1>2, <1>3, <1>7, <2>1 DEF MRTypes
  <2>3. nextReq \in Nat /\ nextReq >= 1 /\ nextReq <= NumStages
    BY <1>2, MultiRequestAssumption DEF Stages
  <2>4. /\ Len(results'[1]) = nextReq
        /\ \A i \in 1..(nextReq - 1) : results'[1][i] = results[1][i]
        /\ results'[1][nextReq] = nextReq
    BY <1>2, <2>1, <2>2, <2>3
  <2>5. StagesInOrder'
    <3>1. DOMAIN results[1] = 1..(nextReq - 1) /\ DOMAIN results'[1] = 1..nextReq
      BY <1>2, <1>3, <2>1, <2>2, <2>4
    <3>2. \A i \in 1..nextReq : i = nextReq \/ i \in 1..(nextReq - 1) BY <2>3
    <3>3. \A i \in DOMAIN results'[1] : results'[1][i] = i
      BY <1>2, <1>3, <2>4, <3>1, <3>2, Zenon DEF StagesInOrder
    <3> QED BY <1>2, <2>2, <3>3 DEF StagesInOrder
  <2>6. ExecuteInv' BY <1>7, <2>3, <2>4, MultiRequestAssumption DEF ExecuteInv
  <2>7. nextReq' \in Nat \ {0} BY <1>7, <2>3
  <2>8. MRTypes' BY <1>1, <1>2, <1>7, <2>2, <2>7 DEF MRTypes, Busy
  <2> QED BY <1>4, <1>5, <2>5, <2>6, <2>8 DEF MRIInv
<1> QED BY <1>1, <1>6, <1>7

\* A worker takes the last job, and keeps it to its end.
LEMMA WorkerKeeps ==
    ASSUME MRIInv, NEW w \in BatchThreads, WorkerStep(w)
    PROVE  MRIInv'
<1>1. MRTypes /\ BatchInv BY DEF MRIInv
<1>2. UNCHANGED <<api, conc, mainPc, nextReq, chan, stage, results>>
  BY Zenon DEF WorkerStep, PopJob, Generate, Collect, KeepPipeline
<1>3. BatchThreads = Requests BY DEF BatchThreads, Requests
<1>4. ASSUME NEW p \in {"loop", "gen", "collect", "stuck"} \cup Gone, p # "loop",
             NEW r \in Nat, Work(w, p, r)
      PROVE  /\ worker' \in [BatchThreads ->
                    [pc : {"loop", "gen", "collect", "stuck"} \cup Gone, req : Nat]]
             /\ worker'[w].pc = p /\ worker'[w].req = r
             /\ \A v \in BatchThreads \ {w} : worker'[v] = worker[v]
  BY <1>1, <1>4 DEF MRTypes, Work
<1>5. /\ jobs' \in Seq(Requests)
      /\ worker' \in [BatchThreads -> [pc : {"loop", "gen", "collect", "stuck"} \cup Gone, req : Nat]]
      /\ BatchInv'
  <2>1. CASE worker[w].pc = "loop" /\ jobs # <<>> /\ PopJob(w)
    <3>1. PICK n \in Nat : Len(jobs) = n + 1
      <4>1. Len(jobs) \in Nat /\ Len(jobs) # 0 BY <1>1, <2>1 DEF MRTypes
      <4>2. Len(jobs) - 1 \in Nat /\ Len(jobs) = (Len(jobs) - 1) + 1 BY <4>1
      <4> QED BY <4>2, ZenonT(40)
    <3>2. jobs[n + 1] = n + 1 BY <1>1, <3>1 DEF BatchInv
    <3>3. Work(w, "gen", n + 1) /\ jobs' = SubSeq(jobs, 1, n)
      BY <2>1, <3>1, <3>2 DEF PopJob, JobsLeft
    <3>4. jobs' \in Seq(Requests) /\ Len(jobs') = n /\ \A i \in 1..n : jobs'[i] = jobs[i]
      BY <1>1, <3>1, <3>3 DEF MRTypes
    <3>5. /\ worker' \in [BatchThreads ->
                    [pc : {"loop", "gen", "collect", "stuck"} \cup Gone, req : Nat]]
          /\ worker'[w].pc = "gen" /\ worker'[w].req = n + 1
          /\ \A v \in BatchThreads \ {w} : worker'[v] = worker[v]
      BY <1>4, <3>3
    <3>6. \A v \in BatchThreads : worker[v].req \in Nat BY <1>1 DEF MRTypes
    <3>7. \A i \in 1..n : jobs'[i] = i BY <1>1, <3>1, <3>4 DEF BatchInv
    <3>8. \A v \in BatchThreads : worker'[v].pc = "loop" => worker'[v].req = 0
      BY <1>1, <3>5 DEF BatchInv
    <3>9. \A v \in BatchThreads \ {w} : worker[v].req # 0 => worker[v].req > n + 1
      BY <1>1, <3>1 DEF BatchInv
    <3>10. \A v \in BatchThreads : worker'[v].req # 0 => worker'[v].req > n
      BY <3>5, <3>6, <3>9
    <3>11. \A u, v \in BatchThreads : u # v /\ worker'[u].req # 0 => worker'[u].req # worker'[v].req
      BY <1>1, <3>5, <3>6, <3>9 DEF BatchInv
    <3>12. BatchInv' BY <3>4, <3>7, <3>8, <3>10, <3>11, Zenon DEF BatchInv
    <3> QED BY <3>4, <3>5, <3>12, SMTT(40)
  <2>2. ASSUME NEW p \in {"collect", "stuck", "exit", "panicked"}, NEW r \in {0, worker[w].req},
               Work(w, p, r), UNCHANGED jobs
        PROVE  /\ jobs' \in Seq(Requests)
               /\ worker' \in [BatchThreads ->
                        [pc : {"loop", "gen", "collect", "stuck"} \cup Gone, req : Nat]]
               /\ BatchInv'
    <3>1. worker[w].req \in Nat BY <1>1 DEF MRTypes
    <3>2. p \in {"loop", "gen", "collect", "stuck"} \cup Gone /\ p # "loop" /\ r \in Nat
      BY <2>2, <3>1 DEF Gone
    <3>3. /\ worker' \in [BatchThreads ->
                    [pc : {"loop", "gen", "collect", "stuck"} \cup Gone, req : Nat]]
          /\ worker'[w].pc = p /\ worker'[w].req = r
          /\ \A v \in BatchThreads \ {w} : worker'[v] = worker[v]
      BY <1>4, <2>2, <3>2
    <3>4. BatchInv' BY <1>1, <2>2, <3>3 DEF BatchInv
    <3> QED BY <1>1, <2>2, <3>3, <3>4 DEF MRTypes
  <2>3. CASE PopJob(w) /\ jobs = <<>>
    BY <2>2, <2>3, Zenon DEF PopJob
  <2>4. CASE Generate(w)
    <3>1. PICK p \in {"collect", "stuck"} : Work(w, p, worker[w].req)
      BY <2>4, Zenon DEF Generate
    <3> QED BY <2>2, <2>4, <3>1, Zenon DEF Generate
  <2>5. CASE Collect(w) BY <2>2, <2>5, Zenon DEF Collect
  <2> QED BY <2>1, <2>3, <2>4, <2>5, Zenon DEF WorkerStep, PopJob
<1>6. MRTypes' BY <1>1, <1>2, <1>5 DEF MRTypes, Busy
<1>7. StagesInOrder' /\ ExecuteInv' /\ IdleInv'
  BY <1>2 DEF MRIInv, StagesInOrder, ExecuteInv, IdleInv
<1>8. PipeInv'
  <2> SUFFICES ASSUME api = "concurrent", Pipe PROVE LocalInv' /\ OrderInv' /\ FlowInv'
    BY <1>2 DEF PipeInv, MRIInv, Pipe
  <2>1. LocalInv'
    BY <1>2 DEF Pipe, LocalInv, StageOrder, StageResults, StageGone, Places, Busy
  <2>2. \A s \in Stages : \A r \in Requests : In(s, r)' <=> In(s, r)
    BY <1>2 DEF In, Places, Busy
  <2>3. OrderInv' BY <1>2, <2>2, Zenon DEF Pipe, OrderInv
  <2>4. hurt \subseteq hurt' BY DEF WorkerStep, PopJob, Generate, Collect
  <2>5. FlowInv' BY <1>2, <2>2, <2>4, FlowLeaves, Zenon DEF Pipe, FlowInv
  <2> QED BY <2>1, <2>3, <2>5
<1> QED BY <1>5, <1>6, <1>7, <1>8 DEF MRIInv

LEMMA MRInitInv == MRInit => MRIInv
<1> SUFFICES ASSUME MRInit PROVE MRIInv OBVIOUS
<1>1. conc \in Nat BY MultiRequestAssumption DEF MRInit
<1>2. \A s \in Stages : /\ chan[s] = <<>> /\ stage[s].req = 0 /\ ~Busy(s) /\ Places(s) = {}
                        /\ stage[s].pc = IF api = "concurrent" THEN "recv" ELSE "exit"
  BY DEF MRInit, Busy, Places
<1>3. \A r \in Requests : results[r] = <<>> /\ Len(results[r]) = 0 BY DEF MRInit
<1>4. \A s \in Stages : \A r \in Requests : ~In(s, r) BY <1>2 DEF In
<1>5. jobs \in Seq(Requests) /\ \A i \in 1..Len(jobs) : jobs[i] = i
  <2>1. CASE api = "batch"
    <3>1. jobs = [r \in 1..NumRequests |-> r] BY <2>1 DEF MRInit, Requests
    <3>2. jobs \in Seq(Requests) /\ Len(jobs) = NumRequests
      BY <3>1, MultiRequestAssumption DEF Requests
    <3> QED BY <3>1, <3>2
  <2>2. CASE api # "batch" BY <2>2 DEF MRInit
  <2> QED BY <2>1, <2>2
<1>6. MRTypes
  <2>1. chan \in [Stages -> Seq(Requests)] /\ \A s \in Stages : Len(chan[s]) <= conc + 1
    BY <1>1 DEF MRInit
  <2>2. stage \in [Stages -> [pc : {"recv", "run", "send"} \cup Gone, req : Nat]]
    BY DEF MRInit, Gone
  <2>3. worker \in [BatchThreads -> [pc : {"loop", "gen", "collect", "stuck"} \cup Gone, req : Nat]]
    BY DEF MRInit, Gone
  <2>4. results \in [Requests -> Seq(Stages)] BY DEF MRInit
  <2> QED BY <1>1, <1>2, <1>5, <2>1, <2>2, <2>3, <2>4 DEF MRInit, MRTypes
<1>7. StagesInOrder BY <1>3 DEF StagesInOrder
<1>8. ExecuteInv
  <2>1. 1 \in Requests BY MultiRequestAssumption DEF Requests
  <2> QED BY <1>3, <2>1, MultiRequestAssumption DEF MRInit, ExecuteInv
<1>9. IdleInv BY <1>2 DEF IdleInv
<1>10. PipeInv
  <2> SUFFICES ASSUME api = "concurrent" PROVE LocalInv /\ OrderInv /\ FlowInv BY DEF PipeInv
  <2>1. \A s \in Stages : stage[s].pc = "recv" BY <1>2
  <2>2. LocalInv BY <1>2, <2>1 DEF LocalInv, StageOrder, StageResults, StageGone, Gone
  <2>3. OrderInv BY <1>4 DEF OrderInv
  <2>4. nextReq = 1 /\ mainPc = "run" /\ \A r \in Requests : ~(r < 1) BY DEF MRInit, Requests
  <2>5. FlowInv BY <1>3, <1>4, <2>4 DEF FlowInv
  <2> QED BY <2>2, <2>3, <2>5
<1>11. BatchInv
  <2>1. \A w \in BatchThreads : worker[w].req = 0 BY DEF MRInit
  <2> QED BY <1>5, <2>1 DEF BatchInv
<1> QED BY <1>6, <1>7, <1>8, <1>9, <1>10, <1>11 DEF MRIInv

LEMMA MRStep == MRIInv /\ [MRNext]_mrVars => MRIInv'
<1> SUFFICES ASSUME MRIInv, [MRNext]_mrVars PROVE MRIInv' OBVIOUS
<1>1. ASSUME api = "concurrent", Pipe', UNCHANGED <<api, jobs, worker>> PROVE MRIInv'
  <2>1. BatchInv' BY <1>1 DEF MRIInv, BatchInv
  <2> QED BY <1>1, <2>1 DEF Pipe, MRIInv, ExecuteInv, IdleInv, PipeInv
<1>2. api = "concurrent" => Pipe BY DEF MRIInv, PipeInv, Pipe
<1>3. ASSUME NEW s \in Stages, StageStep(s) PROVE MRIInv'
  <2>1. UNCHANGED <<api, jobs, worker>>
    BY <1>3, Zenon DEF StageStep, Recv, StageEnds, StageFails, StagePanics, StageStores, StageSends
  <2>2. stage[s].pc # "exit"
    BY <1>3 DEF StageStep, Recv, StageEnds, StageFails, StagePanics, StageStores, StageSends, At
  <2>3. api = "concurrent" BY <2>2 DEF MRIInv, IdleInv
  <2>4. Pipe'
    BY <1>2, <1>3, <2>3, RecvInv, StageEndsInv, StageFailsInv, StagePanicsInv, StageStoresInv,
       StageSendsInv, Zenon DEF StageStep
  <2> QED BY <1>1, <2>1, <2>3, <2>4
<1>4. CASE MainSend \/ MainDrop \/ MainJoins
  <2>1. api = "concurrent" /\ UNCHANGED <<api, jobs, worker>>
    BY <1>4, Zenon DEF MainSend, MainDrop, MainJoins
  <2>2. Pipe' BY <1>2, <1>4, <2>1, MainSendInv, MainWaitsInv, Zenon
  <2> QED BY <1>1, <2>1, <2>2
<1>5. CASE Execute BY <1>5, ExecuteKeeps
<1>6. CASE BatchJoins
  <2>1. /\ api = "batch" /\ mainPc' = "done"
        /\ UNCHANGED <<api, conc, nextReq, chan, stage, results, hurt, jobs, worker>>
    BY <1>6, Zenon DEF BatchJoins, KeepPipeline
  <2>2. MRTypes' BY <2>1 DEF MRIInv, MRTypes, Busy
  <2>3. StagesInOrder' /\ ExecuteInv' /\ IdleInv' /\ PipeInv' /\ BatchInv'
    BY <2>1 DEF MRIInv, StagesInOrder, ExecuteInv, IdleInv, PipeInv, BatchInv
  <2> QED BY <2>2, <2>3 DEF MRIInv
<1>7. ASSUME NEW w \in BatchThreads, WorkerStep(w) PROVE MRIInv' BY <1>7, WorkerKeeps
<1>8. CASE UNCHANGED mrVars
  <2>1. UNCHANGED <<api, conc, mainPc, nextReq, chan, stage, results, hurt, jobs, worker>>
    BY <1>8, Zenon DEF mrVars
  <2>2. MRTypes' BY <2>1 DEF MRIInv, MRTypes, Busy
  <2>3. StagesInOrder' /\ ExecuteInv' /\ IdleInv' /\ BatchInv'
    BY <2>1 DEF MRIInv, StagesInOrder, ExecuteInv, IdleInv, BatchInv
  <2>4. LocalInv' = LocalInv /\ OrderInv' = OrderInv /\ FlowInv' = FlowInv
    BY <2>1 DEF LocalInv, OrderInv, FlowInv, StageOrder, StageResults, StageGone, In, Places, Busy
  <2> QED BY <2>1, <2>2, <2>3, <2>4 DEF MRIInv, PipeInv
<1> QED BY <1>3, <1>4, <1>5, <1>6, <1>7, <1>8, Zenon DEF MRNext, MainStep

\* Of two requests nothing failed on, the later one never has more results: what is not
\* sent has none, and what is on its way is behind.
LEMMA InOrder == MRIInv => NoOvertaking
<1> SUFFICES ASSUME MRIInv, api = "concurrent",
                    NEW q \in Requests \ hurt, NEW r \in Requests \ hurt, q < r
             PROVE  Len(results[q]) >= Len(results[r])
  BY DEF NoOvertaking
<1>1. MRTypes /\ StagesInOrder /\ OrderInv /\ FlowInv BY DEF MRIInv, PipeInv
<1>2. \A p \in Requests : Len(results[p]) \in Nat /\ Len(results[p]) <= NumStages
  <2> SUFFICES ASSUME NEW p \in Requests
               PROVE  Len(results[p]) \in Nat /\ Len(results[p]) <= NumStages
    OBVIOUS
  <2>1. results[p] \in Seq(Stages) BY <1>1 DEF MRTypes
  <2>2. PICK n \in Nat : n = Len(results[p]) BY <2>1
  <2>3. CASE n = 0 BY <2>2, <2>3, MultiRequestAssumption
  <2>4. CASE n # 0
    <3>1. n \in DOMAIN results[p] /\ results[p][n] \in Stages BY <2>1, <2>2, <2>4
    <3>2. results[p][n] = n BY <1>1, <3>1 DEF StagesInOrder
    <3> QED BY <2>2, <3>1, <3>2 DEF Stages
  <2> QED BY <2>3, <2>4
<1>3. CASE r >= nextReq
  <2>1. results[r] = <<>> BY <1>1, <1>3 DEF FlowInv
  <2>2. Len(results[r]) = 0 BY <2>1
  <2> QED BY <1>2, <2>2
<1>4. CASE r < nextReq
  <2>1. q < nextReq BY <1>1, <1>4, RequestsAreNats DEF MRTypes
  <2>2. CASE Len(results[q]) = NumStages BY <1>2, <2>2
  <2>3. ASSUME NEW s \in Stages, In(s, q) PROVE Len(results[q]) >= Len(results[r])
    <3>1. Len(results[r]) <= Len(results[q]) BY <1>1, <2>3, Zenon DEF OrderInv
    <3> QED BY <1>2, <3>1
  <2> QED BY <1>1, <2>1, <2>2, <2>3 DEF FlowInv
<1>5. r >= nextReq \/ r < nextReq BY <1>1, RequestsAreNats DEF MRTypes
<1> QED BY <1>3, <1>4, <1>5

\* When all stages are gone there is nowhere left for a request to be.
LEMMA NothingLost == MRIInv => NoneLost
<1> SUFFICES ASSUME MRIInv, api = "concurrent", mainPc = "done", NEW r \in Requests \ hurt
             PROVE  Len(results[r]) = NumStages
  BY DEF NoneLost
<1>1. MRTypes /\ LocalInv /\ FlowInv BY DEF MRIInv, PipeInv
<1>2. \A s \in Stages : stage[s].pc \in Gone /\ chan[s] = <<>>
  BY <1>1 DEF FlowInv, LocalInv, StageGone
<1>3. \A s \in Stages : ~In(s, r)
  <2>1. \A s \in Stages : Places(s) = {} /\ ~Busy(s) BY <1>2 DEF Places, Busy, Gone
  <2> QED BY <2>1 DEF In
<1>4. r < nextReq
  <2>1. nextReq > NumRequests /\ nextReq \in Nat BY <1>1 DEF FlowInv, MRTypes
  <2>2. r \in 1..NumRequests BY DEF Requests
  <2> QED BY <2>1, <2>2, MultiRequestAssumption
<1> QED BY <1>1, <1>3, <1>4 DEF FlowInv

LEMMA MRIInvImplies == MRIInv => RequestInv
<1> SUFFICES ASSUME MRIInv PROVE RequestInv OBVIOUS
<1>1. MRTypeOK
  <2>1. \A s \in Stages : chan[s] \in Seq(Requests) /\ Len(chan[s]) <= conc + 1
    BY DEF MRIInv, MRTypes
  <2>2. \A r \in Requests : results[r] \in Seq(Stages) BY DEF MRIInv, MRTypes
  <2>3. mainPc \in {"run", "join", "done"} /\ jobs \in Seq(Requests) BY DEF MRIInv, MRTypes
  <2> QED BY <2>1, <2>2, <2>3, Zenon DEF MRTypeOK
<1>2. JobOnce
  <2>1. \A i \in DOMAIN jobs : \A w \in BatchThreads : worker[w].req # jobs[i]
    <3> SUFFICES ASSUME NEW i \in DOMAIN jobs, NEW w \in BatchThreads PROVE worker[w].req # jobs[i]
      OBVIOUS
    <3>1. i \in 1..Len(jobs) /\ jobs[i] = i /\ worker[w].req \in Nat /\ Len(jobs) \in Nat
      BY DEF MRIInv, MRTypes, BatchInv
    <3>2. worker[w].req # 0 => worker[w].req > Len(jobs) BY DEF MRIInv, BatchInv
    <3> QED BY <3>1, <3>2
  <2> QED BY <2>1 DEF MRIInv, BatchInv, JobOnce
<1> QED BY <1>1, <1>2, InOrder, NothingLost DEF MRIInv, RequestInv

\* What becomes of the requests of execute, execute_concurrent and generate_batch: for
\* every number of requests, stages and threads and every capacity of the channels, 0
\* included, results come in the order of the stages, requests stay in order, only a
\* request that a stage failed, lost or panicked on does not go through all stages, and
\* no job of a batch is held twice.
THEOREM RequestsThrough == MRSpec => []RequestInv
<1>1. MRSpec => []MRIInv BY MRInitInv, MRStep, PTL DEF MRSpec
<1> QED BY <1>1, MRIInvImplies, PTL

=============================================================================
