---------------------------- MODULE ServerProofs ----------------------------
(***************************************************************************)
(* For any finite set of requests, any queue limit and batch size: the     *)
(* queue outgrows its limit by no more than the handlers that were between *)
(* the length check and the push at the same time, and the sender of every *)
(* waiting request's channel is in exactly one place; the counters and     *)
(* gauges the server publishes stay within their types and are true.       *)
(***************************************************************************)
EXTENDS Server, FiniteSetTheorems, SequenceTheorems, TLAPS

-----------------------------------------------------------------------------
(***************************************************************************)
(* The circuit breaker alone: for any number of callers, any threshold and *)
(* any number of timers it never stays open without a timer that will      *)
(* close it, and never stays closed with a count at the threshold.         *)
(***************************************************************************)

\* The three invariants together are inductive: OpenHasTimer needs the
\* counters of timers to be natural numbers, TripIsAnswered does not need
\* OpenHasTimer, but both rest on the type of reporting.
BreakerInv == BreakerTypeOK /\ OpenHasTimer /\ TripIsAnswered

\* A fresh breaker is closed, counts nothing and has no timer.
LEMMA BreakerInitInv == BreakerInit => BreakerInv
<1> SUFFICES ASSUME BreakerInit PROVE BreakerInv
  OBVIOUS
<1>0. open \in BOOLEAN
  BY Zenon DEF BreakerInit
<1>1. BreakerTypeOK
  BY <1>0, CircuitBreakerAssumption DEF CircuitBreakerAssumption, BreakerInit, BreakerTypeOK
<1>2. OpenHasTimer
  BY Zenon DEF BreakerInit, OpenHasTimer
<1>3. ~(failures >= Threshold)
  BY CircuitBreakerAssumption DEF CircuitBreakerAssumption, BreakerInit
<1> QED BY <1>1, <1>2, <1>3 DEF BreakerInv, TripIsAnswered

\* No atomic access of a caller or of a timer breaks the invariant.
LEMMA BreakerStep == BreakerInv /\ [BreakerNext]_breakerVars => BreakerInv'
<1> SUFFICES ASSUME BreakerInv, [BreakerNext]_breakerVars PROVE BreakerInv'
  OBVIOUS
<1> USE CircuitBreakerAssumption
<1> USE DEF CircuitBreakerAssumption, BreakerInv, BreakerTypeOK
<1>1. ASSUME NEW c \in Callers, record_success(c) PROVE BreakerInv'
  <2>1. BreakerTypeOK' /\ ~(failures' >= Threshold)
    BY <1>1 DEF record_success
  <2>2. OpenHasTimer'
    BY <1>1, Zenon DEF record_success, OpenHasTimer
  <2> QED BY <2>1, <2>2 DEF TripIsAnswered
<1>2. ASSUME NEW c \in Callers, record_failure(c) PROVE BreakerInv'
  <2>1. BreakerTypeOK'
    BY <1>2 DEF record_failure
  <2>2. OpenHasTimer'
    <3>1. \A d \in Callers : reporting[d] = "spawning" => reporting'[d] = "spawning"
      BY <1>2 DEF record_failure
    <3> QED BY <1>2, <3>1 DEF record_failure, OpenHasTimer
  <2>3. TripIsAnswered'
    <3>1. failures' >= Threshold => reporting'[c] = "opening"
      BY <1>2 DEF record_failure
    <3> QED BY <3>1 DEF TripIsAnswered
  <2> QED BY <2>1, <2>2, <2>3
<1>3. ASSUME NEW c \in Callers, OpenBreaker(c) PROVE BreakerInv'
  <2>1. BreakerTypeOK'
    BY <1>3 DEF OpenBreaker
  <2>2. reporting'[c] = "spawning" /\ open'
    BY <1>3 DEF OpenBreaker
  <2> QED BY <2>1, <2>2 DEF OpenHasTimer, TripIsAnswered
<1>4. ASSUME NEW c \in Callers, SpawnTimer(c) PROVE BreakerInv'
  <2>1. BreakerTypeOK'
    BY <1>4 DEF SpawnTimer
  <2>2. OpenHasTimer'
    BY <1>4 DEF SpawnTimer, OpenHasTimer
  <2>3. \A d \in Callers : reporting[d] = "opening" => reporting'[d] = "opening"
    BY <1>4 DEF SpawnTimer
  <2> QED BY <1>4, <2>1, <2>2, <2>3 DEF SpawnTimer, TripIsAnswered
<1>5. CASE TimerCloses
  <2>0. open' \in BOOLEAN
    BY <1>5, Zenon DEF TimerCloses
  <2>1. BreakerTypeOK' /\ clearing' > 0
    BY <1>5, <2>0 DEF TimerCloses
  <2>2. OpenHasTimer'
    BY <1>5, Zenon DEF TimerCloses, OpenHasTimer
  <2> QED BY <2>1, <2>2 DEF TripIsAnswered
<1>6. CASE TimerClears
  <2>1. BreakerTypeOK' /\ ~(failures' >= Threshold)
    BY <1>6 DEF TimerClears
  <2>2. OpenHasTimer'
    BY <1>6, Zenon DEF TimerClears, OpenHasTimer
  <2> QED BY <2>1, <2>2 DEF TripIsAnswered
<1>7. CASE UNCHANGED breakerVars
  BY <1>7, Zenon DEF breakerVars, OpenHasTimer, TripIsAnswered
<1> QED BY <1>1, <1>2, <1>3, <1>4, <1>5, <1>6, <1>7 DEF BreakerNext, Report

\* All three invariants of the breaker hold in every state.
THEOREM BreakerInvariance == BreakerSpec => []BreakerInv
  BY BreakerInitInv, BreakerStep, PTL DEF BreakerSpec

\* An open breaker always has a timer that will close it, or a caller that is
\* about to start one.
THEOREM OpenBreakerHasTimer == BreakerSpec => []OpenHasTimer
<1>1. BreakerInv => OpenHasTimer
  BY DEF BreakerInv
<1> QED BY <1>1, BreakerInvariance, PTL

\* A count at the threshold is always answered by an open breaker, a caller
\* that opens it or a timer that clears the count.
THEOREM TrippedBreakerOpens == BreakerSpec => []TripIsAnswered
<1>1. BreakerInv => TripIsAnswered
  BY DEF BreakerInv
<1> QED BY <1>1, BreakerInvariance, PTL

-----------------------------------------------------------------------------
(***************************************************************************)
(* The server.                                                             *)
(***************************************************************************)

\* The part of the type invariant the proofs below need.
PlaceType ==
  /\ pc \in [Requests -> {"new", "len", "submit", "push", "pushed", "reading", "failing",
                          "ok", "rejected", "error", "gone"}]
  /\ heap \subseteq Requests /\ batch \subseteq Requests
  /\ task \in [Requests -> {"none", "spawned", "running", "closed", "done"}]
  /\ peak \in Nat

\* A request that has not been pushed is nowhere; with it OneHolder is
\* inductive, because a push cannot add what is already there.
NowhereBefore ==
  \A r \in Requests : r \in heap \cup batch \/ task[r] # "none" =>
                      pc[r] \in {"pushed", "reading", "ok", "gone"}

\* peak really is the most handlers ever between check and push; with it
\* QueueBounded is inductive.
PeakCovers == Cardinality(Between) <= peak

\* A generation is on at most one pool thread, once, and exactly while it runs.
OneThread ==
  /\ \A w \in Workers : \A i \in 1..Len(stack[w]) : task[stack[w][i]] = "running"
  /\ \A r \in Requests : task[r] = "running" =>
        \E w \in Workers : \E i \in 1..Len(stack[w]) : stack[w][i] = r
  /\ \A v, w \in Workers : \A i \in 1..Len(stack[v]), j \in 1..Len(stack[w]) :
        stack[v][i] = stack[w][j] => v = w /\ i = j

\* That the generations on a thread's stack are the running ones is needed to
\* know that the one that returns had its sender.
ThreadInv == stack \in [Workers -> Seq(Requests)] /\ OneThread

PlaceInv == PlaceType /\ NowhereBefore /\ OneHolder /\ ThreadInv
QueueInv == PlaceType /\ PeakCovers /\ QueueBounded

\* Sets of requests are finite, so that their sizes are natural numbers, and
\* a subset is not larger.
LEMMA RequestSets ==
  ASSUME NEW S, NEW T, S \subseteq T, T \subseteq Requests
  PROVE  /\ IsFiniteSet(T) /\ IsFiniteSet(S)
         /\ Cardinality(T) \in Nat /\ Cardinality(S) \in Nat
         /\ Cardinality(S) <= Cardinality(T)
<1>1. IsFiniteSet(T)
  BY ServerAssumption, FS_Subset DEF ServerAssumption
<1> QED BY <1>1, FS_Subset, FS_CardinalityType

\* Every step keeps the places of requests well typed.
LEMMA PlaceTypeStep == PlaceType /\ [ServerNext]_serverVars => PlaceType'
<1> SUFFICES ASSUME PlaceType, [ServerNext]_serverVars PROVE PlaceType'
  OBVIOUS
<1> USE DEF PlaceType
<1>1. ASSUME NEW r \in Requests, CheckBreaker(r) PROVE PlaceType'
  BY <1>1 DEF CheckBreaker, Goto, queueVars
<1>2. ASSUME NEW r \in Requests, CheckLen(r) PROVE PlaceType'
  <2>1. Between' \subseteq Requests
    BY DEF Between
  <2>2. Cardinality(Between') \in Nat
    BY <2>1, RequestSets
  <2> QED BY <1>2, <2>2 DEF CheckLen, Goto, queueVars
<1>3. ASSUME NEW r \in Requests, Evaluate(r) PROVE PlaceType'
  BY <1>3 DEF Evaluate, Goto
<1>4. ASSUME NEW r \in Requests, PolicyFails(r) PROVE PlaceType'
  BY <1>4 DEF PolicyFails, Goto, queueVars
<1>5. ASSUME NEW r \in Requests, ReportFailure(r) PROVE PlaceType'
  BY <1>5 DEF ReportFailure, Goto, queueVars
<1>6. ASSUME NEW r \in Requests, Push(r) PROVE PlaceType'
  BY <1>6 DEF Push, Goto
<1>7. ASSUME NEW r \in Requests, StreamQueued(r) PROVE PlaceType'
  BY <1>7 DEF StreamQueued, Goto, queueVars
<1>8. ASSUME NEW r \in Requests, Client(r) PROVE PlaceType'
  BY <1>8 DEF Client, Receive, EndOfStream, Goto, queueVars
<1>9. ASSUME NEW r \in Requests, Disconnect(r) PROVE PlaceType'
  BY <1>9 DEF Disconnect, Goto, queueVars
<1>10. ASSUME NEW r \in Requests, TaskEnds(r) PROVE PlaceType'
  BY <1>10 DEF TaskEnds, queueVars
<1>11. CASE CountQueue \/ TakeBatch
  BY <1>11 DEF CountQueue, TakeBatch, IsBatch, queueVars
<1>12. ASSUME NEW r \in Requests, Spawn(r) PROVE PlaceType'
  BY <1>12 DEF Spawn
<1>13. ASSUME NEW w \in Workers, SendWord(w) \/ SendTrailer(w) PROVE PlaceType'
  BY <1>13 DEF SendWord, SendTrailer, queueVars
<1>14. ASSUME NEW w \in Workers, Return(w) PROVE PlaceType'
  BY <1>14 DEF Return, queueVars
<1>15. ASSUME NEW w \in Workers, NEW r \in Requests, TakeUp(w, r) PROVE PlaceType'
  BY <1>15 DEF TakeUp, queueVars
<1>16. CASE Timers
  BY <1>16 DEF Timers, queueVars
<1>17. CASE UNCHANGED serverVars
  BY <1>17 DEF serverVars, queueVars
<1> QED
  BY <1>1, <1>2, <1>3, <1>4, <1>5, <1>6, <1>7, <1>8, <1>9, <1>10, <1>11, <1>12, <1>13,
     <1>14, <1>15, <1>16, <1>17
  DEF ServerNext, AllServed, Handler, Batcher, Work, Finish, GenerationFails

\* A step that adds nothing to the queue or to those about to push keeps the
\* bound.
LEMMA NothingAdded ==
  ASSUME QueueInv, PlaceType', heap' \subseteq heap, Between' \subseteq Between, peak' = peak
  PROVE  QueueInv'
<1>1. heap \subseteq Requests /\ Between \subseteq Requests
  BY DEF QueueInv, PlaceType, Between
<1>2. /\ Cardinality(heap') <= Cardinality(heap)
      /\ Cardinality(heap') \in Nat /\ Cardinality(heap) \in Nat
  BY <1>1, RequestSets
<1>3. /\ Cardinality(Between') <= Cardinality(Between)
      /\ Cardinality(Between') \in Nat /\ Cardinality(Between) \in Nat
  BY <1>1, RequestSets
<1> QED BY <1>2, <1>3, ServerAssumption
  DEF QueueInv, PlaceType, PeakCovers, QueueBounded, ServerAssumption

\* A handler that stays on the same side of the check adds nothing.
LEMMA HandlerMoves ==
  ASSUME QueueInv, PlaceType', NEW r \in Requests, NEW label, Goto(r, label),
         label \in {"submit", "push"} => pc[r] \in {"submit", "push"},
         heap' = heap, peak' = peak
  PROVE  QueueInv'
<1>1. Between' \subseteq Between
  BY DEF QueueInv, PlaceType, Between, Goto
<1> QED BY <1>1, NothingAdded

\* Every step keeps the bound on the queue.
LEMMA QueueStep == QueueInv /\ [ServerNext]_serverVars => QueueInv'
<1> SUFFICES ASSUME QueueInv, [ServerNext]_serverVars PROVE QueueInv'
  OBVIOUS
<1>0. PlaceType /\ PlaceType'
  BY PlaceTypeStep DEF QueueInv
<1>1. ASSUME NEW r \in Requests, CheckBreaker(r) PROVE QueueInv'
  <2>1. heap' = heap /\ peak' = peak
    BY <1>1 DEF CheckBreaker, queueVars
  <2>2. Goto(r, "rejected") \/ Goto(r, "len")
    BY <1>1 DEF CheckBreaker
  <2> QED BY <1>0, <2>1, <2>2, HandlerMoves
<1>2. ASSUME NEW r \in Requests, CheckLen(r) PROVE QueueInv'
  <2>0. heap' = heap
    BY <1>2 DEF CheckLen, queueVars
  <2>1. CASE Cardinality(heap) > QueueLimit
    <3>1. Goto(r, "rejected") /\ peak' = peak
      BY <1>2, <2>1 DEF CheckLen
    <3> QED BY <1>0, <2>0, <3>1, HandlerMoves
  <2>2. CASE ~(Cardinality(heap) > QueueLimit)
    <3>1. heap \subseteq Requests /\ Between' \subseteq Requests
      BY <1>0 DEF PlaceType, Between
    <3>2. Cardinality(heap) \in Nat /\ Cardinality(Between') \in Nat
      BY <3>1, RequestSets
    <3>3. peak' = IF Cardinality(Between') > peak THEN Cardinality(Between') ELSE peak
      BY <1>2, <2>2 DEF CheckLen
    <3>4. Cardinality(Between') <= peak'
      BY <1>0, <3>2, <3>3 DEF PlaceType
    <3> QED BY <1>0, <2>0, <2>2, <3>2, <3>4, ServerAssumption
      DEF QueueInv, PlaceType, PeakCovers, QueueBounded, ServerAssumption
  <2> QED BY <2>1, <2>2
<1>3. ASSUME NEW r \in Requests, Evaluate(r) PROVE QueueInv'
  <2>1. heap' = heap /\ peak' = peak /\ Goto(r, "push") /\ pc[r] = "submit"
    BY <1>3 DEF Evaluate
  <2> QED BY <1>0, <2>1, HandlerMoves
<1>4. ASSUME NEW r \in Requests, PolicyFails(r) PROVE QueueInv'
  <2>1. heap' = heap /\ peak' = peak /\ Goto(r, "failing")
    BY <1>4 DEF PolicyFails, queueVars
  <2> QED BY <1>0, <2>1, HandlerMoves
<1>5. ASSUME NEW r \in Requests, ReportFailure(r) PROVE QueueInv'
  <2>1. heap' = heap /\ peak' = peak
    BY <1>5 DEF ReportFailure, queueVars
  <2>2. Goto(r, "error") \/ pc' = pc
    BY <1>5 DEF ReportFailure
  <2>3. CASE pc' = pc
    BY <1>0, <2>1, <2>3, NothingAdded DEF Between
  <2> QED BY <1>0, <2>1, <2>2, <2>3, HandlerMoves
<1>6. ASSUME NEW r \in Requests, Push(r) PROVE QueueInv'
  <2>1. Between' = Between \ {r} /\ r \in Between
    BY <1>0, <1>6 DEF Push, Goto, Between, PlaceType
  <2>2. heap \subseteq Requests /\ Between \subseteq Requests
    BY <1>0 DEF PlaceType, Between
  <2>3. IsFiniteSet(heap) /\ IsFiniteSet(Between)
    BY <2>2, RequestSets
  <2>4. /\ Cardinality(heap) \in Nat /\ Cardinality(heap') \in Nat
        /\ Cardinality(heap') <= Cardinality(heap) + 1
    <3>1. heap' = heap \cup {r}
      BY <1>6 DEF Push
    <3>2. /\ IsFiniteSet(heap')
          /\ Cardinality(heap') = Cardinality(heap) \/ Cardinality(heap') = Cardinality(heap) + 1
      BY <2>3, <3>1, FS_AddElement
    <3>3. Cardinality(heap) \in Nat
      BY <2>3, FS_CardinalityType
    <3> QED BY <3>2, <3>3
  <2>5. /\ Cardinality(Between) \in Nat /\ Cardinality(Between') \in Nat
        /\ Cardinality(Between') = Cardinality(Between) - 1
    BY <2>1, <2>3, FS_RemoveElement, FS_CardinalityType
  <2>6. peak' = peak
    BY <1>6 DEF Push
  <2> QED BY <1>0, <2>4, <2>5, <2>6, ServerAssumption
    DEF QueueInv, PlaceType, PeakCovers, QueueBounded, ServerAssumption
<1>7. ASSUME NEW r \in Requests, StreamQueued(r) PROVE QueueInv'
  <2>1. heap' = heap /\ peak' = peak /\ Goto(r, "reading")
    BY <1>7 DEF StreamQueued, queueVars
  <2> QED BY <1>0, <2>1, HandlerMoves
<1>8. ASSUME NEW r \in Requests, EndOfStream(r) PROVE QueueInv'
  <2>1. heap' = heap /\ peak' = peak /\ Goto(r, "ok")
    BY <1>8 DEF EndOfStream, queueVars
  <2> QED BY <1>0, <2>1, HandlerMoves
<1>9. ASSUME NEW r \in Requests, Disconnect(r) PROVE QueueInv'
  <2>1. heap' = heap /\ peak' = peak /\ Goto(r, "gone")
    BY <1>9 DEF Disconnect, queueVars
  <2> QED BY <1>0, <2>1, HandlerMoves
<1>10. CASE TakeBatch
  <2>1. heap' \subseteq heap /\ pc' = pc /\ peak' = peak
    BY <1>10 DEF TakeBatch
  <2> QED BY <1>0, <2>1, NothingAdded DEF Between
<1>11. CASE heap' = heap /\ pc' = pc /\ peak' = peak
  BY <1>0, <1>11, NothingAdded DEF Between
<1>12. ASSUME NEW r \in Requests, Receive(r) \/ TaskEnds(r) \/ Spawn(r) PROVE QueueInv'
  BY <1>11, <1>12 DEF Receive, TaskEnds, Spawn, queueVars
<1>13. ASSUME NEW w \in Workers, SendWord(w) \/ SendTrailer(w) \/ Return(w) PROVE QueueInv'
  BY <1>11, <1>13 DEF SendWord, SendTrailer, Return, queueVars
<1>14. ASSUME NEW w \in Workers, NEW r \in Requests, TakeUp(w, r) PROVE QueueInv'
  BY <1>11, <1>14 DEF TakeUp, queueVars
<1>15. CASE CountQueue \/ Timers \/ UNCHANGED serverVars
  BY <1>11, <1>15 DEF CountQueue, Timers, serverVars, queueVars
<1> QED
  BY <1>1, <1>2, <1>3, <1>4, <1>5, <1>6, <1>7, <1>8, <1>9, <1>10, <1>12, <1>13, <1>14, <1>15
  DEF ServerNext, AllServed, Handler, Client, Batcher, Work, Finish, GenerationFails

\* The queue starts empty, with nobody about to push.
LEMMA QueueInit == ServerInit => QueueInv
<1> SUFFICES ASSUME ServerInit PROVE QueueInv
  OBVIOUS
<1>1. heap = {} /\ Between = {} /\ peak = 0
  BY DEF ServerInit, Between
<1>2. Cardinality({}) = 0
  BY FS_EmptySet
<1> QED BY <1>1, <1>2, ServerAssumption
  DEF ServerInit, QueueInv, PlaceType, PeakCovers, QueueBounded, ServerAssumption

\* However many requests arrive, the queue and those about to join it exceed
\* the limit by no more than the handlers that raced between check and push.
THEOREM BackpressureBound == ServerSpec => []QueueBounded
<1>1. QueueInv => QueueBounded
  BY DEF QueueInv
<1> QED BY <1>1, QueueInit, QueueStep, PTL DEF ServerSpec

----------------------------------------------------------------------------
(* Where the sender of each channel is *)

\* A handler goes on without a sender changing place: it has pushed its request
\* before the step, or not even after it.
GoesOn(r) ==
  \/ pc'[r] = pc[r]
  \/ pc[r] \in {"pushed", "reading"} /\ pc'[r] \in {"reading", "ok", "gone"}
  \/ /\ pc[r] \in {"new", "len", "submit", "push", "failing"}
     /\ pc'[r] \notin {"pushed", "reading", "ok"}

\* A step in which handlers at most go on keeps every sender in its one place.
LEMMA SendersStay ==
  ASSUME PlaceInv, PlaceType', heap' = heap, batch' = batch, task' = task,
         stack' = stack, \A r \in Requests : GoesOn(r)
  PROVE  PlaceInv'
<1>1. NowhereBefore'
  BY DEF PlaceInv, PlaceType, NowhereBefore, GoesOn
<1>2. OneHolder'
  <2>1. (heap \cap batch = {})' /\ (\A r \in heap \cup batch : task[r] = "none")'
    BY DEF PlaceInv, OneHolder
  <2>2. ASSUME NEW r \in Requests, pc'[r] \in {"pushed", "reading", "ok"}
        PROVE  pc[r] \in {"pushed", "reading", "ok"}
    BY <2>2 DEF GoesOn
  <2> QED BY <2>1, <2>2 DEF PlaceInv, OneHolder
<1>3. ThreadInv'
  BY DEF PlaceInv, ThreadInv, OneThread
<1> QED BY <1>1, <1>2, <1>3 DEF PlaceInv

\* A thread that takes up a spawned generation puts it on top of its stack.
LEMMA ThreadTakesUp ==
  ASSUME PlaceType, ThreadInv, NEW w \in Workers, NEW r \in Requests, task[r] = "spawned",
         stack' = [stack EXCEPT ![w] = Append(@, r)],
         task' = [task EXCEPT ![r] = "running"]
  PROVE  ThreadInv'
<1>1. stack' \in [Workers -> Seq(Requests)]
  BY DEF ThreadInv
<1>2. /\ Len(stack'[w]) = Len(stack[w]) + 1
      /\ stack'[w][Len(stack[w]) + 1] = r
      /\ \A i \in 1..Len(stack[w]) : stack'[w][i] = stack[w][i]
      /\ Len(stack[w]) \in Nat
  BY DEF ThreadInv
<1>3. \A v \in Workers \ {w} : stack'[v] = stack[v]
  BY DEF ThreadInv
<1>4. \A v \in Workers : \A i \in 1..Len(stack[v]) :
         stack[v][i] \in Requests /\ task[stack[v][i]] = "running" /\ stack[v][i] # r
  BY DEF ThreadInv, OneThread
<1>5. \A q \in Requests : task'[q] = IF q = r THEN "running" ELSE task[q]
  BY DEF PlaceType
<1>6. \A v \in Workers : \A i \in 1..Len(stack'[v]) :
         \/ i \in 1..Len(stack[v]) /\ stack'[v][i] = stack[v][i]
         \/ v = w /\ i = Len(stack[w]) + 1 /\ stack'[v][i] = r
  BY <1>2, <1>3
<1>7. \A v \in Workers : \A i \in 1..Len(stack'[v]) : task'[stack'[v][i]] = "running"
  BY <1>4, <1>5, <1>6
<1>8. \A q \in Requests : task'[q] = "running" =>
        \E v \in Workers : \E i \in 1..Len(stack'[v]) : stack'[v][i] = q
  <2> SUFFICES ASSUME NEW q \in Requests, task'[q] = "running"
               PROVE  \E v \in Workers : \E i \in 1..Len(stack'[v]) : stack'[v][i] = q
    OBVIOUS
  <2>1. CASE q = r
    <3>1. Len(stack[w]) + 1 \in 1..Len(stack'[w])
      BY <1>2
    <3> QED BY <1>2, <2>1, <3>1
  <2>2. CASE q # r
    <3>0. PICK v \in Workers : \E i \in 1..Len(stack[v]) : stack[v][i] = q
      BY <1>5, <2>2 DEF ThreadInv, OneThread
    <3>1. PICK i \in 1..Len(stack[v]) : stack[v][i] = q
      BY <3>0
    <3>2. i \in 1..Len(stack'[v]) /\ stack'[v][i] = q
      BY <1>2, <1>3, <3>1
    <3> QED BY <3>2
  <2> QED BY <2>1, <2>2
<1>9. ASSUME NEW u \in Workers, NEW v \in Workers,
             NEW i \in 1..Len(stack'[u]), NEW j \in 1..Len(stack'[v]),
             stack'[u][i] = stack'[v][j]
      PROVE  u = v /\ i = j
  <2>1. CASE i \in 1..Len(stack[u]) /\ j \in 1..Len(stack[v])
    <3>1. stack'[u][i] = stack[u][i] /\ stack'[v][j] = stack[v][j]
      BY <1>2, <1>3, <2>1
    <3> QED BY <1>9, <2>1, <3>1 DEF ThreadInv, OneThread
  <2>2. CASE ~(i \in 1..Len(stack[u]) /\ j \in 1..Len(stack[v]))
    BY <1>4, <1>6, <1>9, <2>2
  <2> QED BY <2>1, <2>2
<1> QED BY <1>1, <1>7, <1>8, <1>9 DEF ThreadInv, OneThread

\* A thread that returns takes the generation off its stack; no other entry
\* of any stack is that generation.
LEMMA ThreadReturns ==
  ASSUME PlaceType, ThreadInv, NEW w \in Workers, ~Idle(w),
         stack' = [stack EXCEPT ![w] = SubSeq(@, 1, Len(@) - 1)],
         task' = [task EXCEPT ![Top(w)] = "closed"]
  PROVE  Top(w) \in Requests /\ task[Top(w)] = "running" /\ ThreadInv'
<1>1. stack[w] \in Seq(Requests) /\ stack[w] # <<>> /\ Len(stack[w]) \in Nat \ {0}
  BY DEF ThreadInv, Idle
<1>2. Len(stack[w]) \in 1..Len(stack[w])
  BY <1>1
<1>3. Top(w) \in Requests /\ task[Top(w)] = "running"
  BY <1>1, <1>2 DEF ThreadInv, OneThread, Top
<1>4. /\ stack'[w] \in Seq(Requests)
      /\ Len(stack'[w]) = Len(stack[w]) - 1
      /\ \A i \in 1..(Len(stack[w]) - 1) : stack'[w][i] = stack[w][i]
  <2>1. stack'[w] = SubSeq(stack[w], 1, Len(stack[w]) - 1)
    BY DEF ThreadInv
  <2>2. \A i \in 1..(Len(stack[w]) - 1) : stack[w][i] \in Requests
    BY <1>1
  <2> QED BY <1>1, <2>1, <2>2, SubSeqProperties
<1>5. \A v \in Workers \ {w} : stack'[v] = stack[v]
  BY DEF ThreadInv
<1>6. stack' \in [Workers -> Seq(Requests)]
  BY <1>4 DEF ThreadInv
<1>7. \A v \in Workers : \A i \in 1..Len(stack'[v]) :
         /\ i \in 1..Len(stack[v]) /\ stack'[v][i] = stack[v][i]
         /\ ~(v = w /\ i = Len(stack[w]))
  BY <1>1, <1>4, <1>5
<1>8. \A q \in Requests : task'[q] = IF q = Top(w) THEN "closed" ELSE task[q]
  BY DEF PlaceType
<1>9. \A v \in Workers : \A i \in 1..Len(stack'[v]) : stack[v][i] \in Requests \ {Top(w)}
  <2> SUFFICES ASSUME NEW v \in Workers, NEW i \in 1..Len(stack'[v])
               PROVE  stack[v][i] \in Requests \ {Top(w)}
    OBVIOUS
  <2>1. i \in 1..Len(stack[v]) /\ ~(v = w /\ i = Len(stack[w]))
    BY <1>7
  <2>2. stack[v][i] \in Requests
    BY <2>1 DEF ThreadInv
  <2>3. stack[v][i] # stack[w][Len(stack[w])]
    BY <1>2, <2>1 DEF ThreadInv, OneThread
  <2> QED BY <2>2, <2>3 DEF Top
<1>10. \A v \in Workers : \A i \in 1..Len(stack'[v]) : task'[stack'[v][i]] = "running"
  BY <1>7, <1>8, <1>9, SMTT(40) DEF ThreadInv, OneThread
<1>11. \A q \in Requests : task'[q] = "running" =>
        \E v \in Workers : \E i \in 1..Len(stack'[v]) : stack'[v][i] = q
  <2> SUFFICES ASSUME NEW q \in Requests, task'[q] = "running"
               PROVE  \E v \in Workers : \E i \in 1..Len(stack'[v]) : stack'[v][i] = q
    OBVIOUS
  <2>1. task[q] = "running" /\ q # Top(w)
    BY <1>8
  <2>0. PICK v \in Workers : \E i \in 1..Len(stack[v]) : stack[v][i] = q
    BY <2>1 DEF ThreadInv, OneThread
  <2>2. PICK i \in 1..Len(stack[v]) : stack[v][i] = q
    BY <2>0
  <2>3. ~(v = w /\ i = Len(stack[w]))
    BY <2>1, <2>2 DEF Top
  <2>4. i \in 1..Len(stack'[v]) /\ stack'[v][i] = q
    BY <1>1, <1>4, <1>5, <2>2, <2>3
  <2> QED BY <2>4
<1>12. ASSUME NEW u \in Workers, NEW v \in Workers,
             NEW i \in 1..Len(stack'[u]), NEW j \in 1..Len(stack'[v]),
             stack'[u][i] = stack'[v][j]
      PROVE  u = v /\ i = j
  BY <1>7, <1>12 DEF ThreadInv, OneThread
<1> QED BY <1>3, <1>6, <1>10, <1>11, <1>12 DEF ThreadInv, OneThread

\* Every step keeps every sender in one place.
LEMMA PlaceStep == PlaceInv /\ [ServerNext]_serverVars => PlaceInv'
<1> SUFFICES ASSUME PlaceInv, [ServerNext]_serverVars PROVE PlaceInv'
  OBVIOUS
<1>0. PlaceType /\ PlaceType'
  BY PlaceTypeStep DEF PlaceInv
<1>1. ASSUME NEW r \in Requests,
             CheckBreaker(r) \/ CheckLen(r) \/ Evaluate(r) \/ PolicyFails(r) \/ ReportFailure(r)
      PROVE  PlaceInv'
  <2>1. heap' = heap /\ batch' = batch /\ task' = task /\ stack' = stack
    BY <1>1 DEF CheckBreaker, CheckLen, Evaluate, PolicyFails, ReportFailure, queueVars, genVars
  <2>2. \/ pc' = pc
        \/ /\ pc[r] \in {"new", "len", "submit", "push", "failing"}
           /\ \E label \in {"rejected", "len", "submit", "push", "failing", "error"} : Goto(r, label)
    BY <1>1 DEF CheckBreaker, CheckLen, Evaluate, PolicyFails, ReportFailure
  <2>3. \A q \in Requests : GoesOn(q)
    BY <1>0, <2>2 DEF Goto, PlaceType, GoesOn
  <2> QED BY <1>0, <2>1, <2>3, SendersStay, Zenon
<1>2. ASSUME NEW r \in Requests, Push(r) PROVE PlaceInv'
  <2>1. r \notin heap \cup batch /\ task[r] = "none"
    BY <1>2 DEF PlaceInv, NowhereBefore, Push
  <2>2. /\ heap' = heap \cup {r} /\ batch' = batch /\ task' = task
        /\ pc'[r] \in {"pushed", "reading"}
        /\ \A q \in Requests \ {r} : pc'[q] = pc[q]
    BY <1>0, <1>2 DEF Push, Goto, PlaceType
  <2>3. NowhereBefore'
    BY <2>2 DEF PlaceInv, NowhereBefore
  <2>4. OneHolder'
    BY <1>0, <2>1, <2>2 DEF PlaceInv, OneHolder, PlaceType
  <2>5. ThreadInv'
    BY <1>2, <2>2 DEF PlaceInv, ThreadInv, OneThread, Push, genVars
  <2> QED BY <1>0, <2>3, <2>4, <2>5 DEF PlaceInv
<1>3. ASSUME NEW r \in Requests, StreamQueued(r) \/ Client(r) \/ Disconnect(r) PROVE PlaceInv'
  <2>1. heap' = heap /\ batch' = batch /\ task' = task /\ stack' = stack
    BY <1>3 DEF StreamQueued, Client, Receive, EndOfStream, Disconnect, queueVars, genVars
  <2>2. \/ pc' = pc
        \/ pc[r] \in {"pushed", "reading"} /\ \E label \in {"reading", "ok", "gone"} : Goto(r, label)
        \/ pc[r] \in {"len", "submit", "push"} /\ Goto(r, "gone")
    BY <1>3 DEF StreamQueued, Client, Receive, EndOfStream, Disconnect
  <2>3. \A q \in Requests : GoesOn(q)
    BY <1>0, <2>2 DEF Goto, PlaceType, GoesOn
  <2> QED BY <1>0, <2>1, <2>3, SendersStay, Zenon
<1>4. CASE TakeBatch
  <2>1. PICK B \in SUBSET heap : batch' = B /\ heap' = heap \ B
    BY <1>4 DEF TakeBatch
  <2>2. batch = {} /\ pc' = pc /\ task' = task
    BY <1>4 DEF TakeBatch
  <2>3. NowhereBefore' /\ OneHolder'
    BY <2>1, <2>2 DEF PlaceInv, NowhereBefore, OneHolder
  <2>4. ThreadInv'
    BY <1>4, <2>2 DEF PlaceInv, ThreadInv, OneThread, TakeBatch, genVars
  <2> QED BY <1>0, <2>3, <2>4 DEF PlaceInv
<1>5. ASSUME NEW r \in Requests, Spawn(r) PROVE PlaceInv'
  <2>1. /\ r \in batch /\ batch' = batch \ {r} /\ heap' = heap /\ pc' = pc
        /\ task'[r] = "spawned" /\ \A q \in Requests \ {r} : task'[q] = task[q]
    BY <1>0, <1>5 DEF Spawn, PlaceType
  <2>2. NowhereBefore'
    BY <2>1 DEF PlaceInv, NowhereBefore
  <2>3. OneHolder'
    BY <1>0, <2>1 DEF PlaceInv, OneHolder, PlaceType
  <2>4. task[r] = "none" /\ stack' = stack
    BY <1>5, <2>1 DEF PlaceInv, OneHolder, Spawn, genVars
  <2>5. ThreadInv'
    BY <1>0, <2>1, <2>4 DEF PlaceInv, ThreadInv, OneThread, PlaceType
  <2> QED BY <1>0, <2>2, <2>3, <2>5 DEF PlaceInv
<1>6. ASSUME heap' = heap, batch' = batch, pc' = pc, ThreadInv',
             \A r \in Requests : task'[r] = task[r] \/ (task[r] # "none" /\ task'[r] # "none")
      PROVE  PlaceInv'
  <2>1. NowhereBefore'
    BY <1>6 DEF PlaceInv, NowhereBefore
  <2>2. OneHolder'
    BY <1>0, <1>6 DEF PlaceInv, OneHolder, PlaceType
  <2> QED BY <1>0, <1>6, <2>1, <2>2 DEF PlaceInv
<1>7. ASSUME NEW r \in Requests, TaskEnds(r) PROVE PlaceInv'
  <2>1. /\ task[r] = "closed" /\ task'[r] = "done"
        /\ \A q \in Requests \ {r} : task'[q] = task[q]
        /\ heap' = heap /\ batch' = batch /\ pc' = pc /\ stack' = stack
    BY <1>0, <1>7 DEF TaskEnds, queueVars, genVars, PlaceType
  <2>2. ThreadInv'
    BY <1>0, <2>1 DEF PlaceInv, ThreadInv, OneThread, PlaceType
  <2> QED BY <1>6, <2>1, <2>2
<1>8. ASSUME NEW w \in Workers, NEW r \in Requests, TakeUp(w, r) PROVE PlaceInv'
  <2>1. /\ task[r] = "spawned" /\ task'[r] = "running"
        /\ \A q \in Requests \ {r} : task'[q] = task[q]
        /\ heap' = heap /\ batch' = batch /\ pc' = pc
    BY <1>0, <1>8 DEF TakeUp, queueVars, PlaceType
  <2>2. ThreadInv'
    BY <1>8, <2>1, ThreadTakesUp DEF PlaceInv, TakeUp
  <2> QED BY <1>6, <2>1, <2>2
<1>9. ASSUME NEW w \in Workers, ~Idle(w), Return(w) PROVE PlaceInv'
  <2>1. heap' = heap /\ batch' = batch /\ pc' = pc
    BY <1>9 DEF Return, queueVars
  <2>2. /\ Top(w) \in Requests /\ task[Top(w)] = "running"
        /\ ThreadInv'
    BY <1>0, <1>9, ThreadReturns DEF PlaceInv, Return
  <2>3. /\ task'[Top(w)] = "closed"
        /\ \A q \in Requests \ {Top(w)} : task'[q] = task[q]
    BY <1>0, <1>9, <2>2 DEF Return, PlaceType
  <2> QED BY <1>6, <2>1, <2>2, <2>3
<1>10. CASE heap' = heap /\ batch' = batch /\ pc' = pc /\ task' = task /\ stack' = stack
  <2>1. ThreadInv'
    BY <1>10 DEF PlaceInv, ThreadInv, OneThread
  <2> QED BY <1>6, <1>10, <2>1
<1>11. ASSUME NEW w \in Workers, SendWord(w) \/ SendTrailer(w) PROVE PlaceInv'
  BY <1>10, <1>11 DEF SendWord, SendTrailer, queueVars
<1>12. CASE CountQueue \/ Timers \/ UNCHANGED serverVars
  BY <1>10, <1>12 DEF CountQueue, Timers, serverVars, queueVars, genVars
<1> QED
  BY <1>1, <1>2, <1>3, <1>4, <1>5, <1>7, <1>8, <1>9, <1>11, <1>12
  DEF ServerNext, AllServed, Handler, Batcher, Work, Finish, GenerationFails, Generating

\* At first no request is anywhere and no thread has work.
LEMMA PlaceInit == ServerInit => PlaceInv
<1> SUFFICES ASSUME ServerInit PROVE PlaceInv
  OBVIOUS
<1>1. PlaceType /\ NowhereBefore /\ OneHolder
  BY DEF ServerInit, PlaceType, NowhereBefore, OneHolder
<1>2. \A w \in Workers : stack[w] = <<>> /\ Len(stack[w]) = 0
  BY DEF ServerInit
<1>3. ThreadInv
  BY <1>2 DEF ServerInit, ThreadInv, OneThread
<1> QED BY <1>1, <1>3 DEF PlaceInv

\* The sender of a waiting request's channel is in the queue, in the batch or
\* with a generation, and never in two of them.
THEOREM SenderInOnePlace == ServerSpec => []OneHolder
<1>1. PlaceInv => OneHolder
  BY DEF PlaceInv
<1> QED BY <1>1, PlaceInit, PlaceStep, PTL DEF ServerSpec

----------------------------------------------------------------------------
(* The breaker inside the server *)

\* Seen from its own variables, whatever the server does is a step of the
\* breaker: a handler reports, or a timer fires.
LEMMA BreakerStepOfServer == [ServerNext]_serverVars => [BreakerNext]_breakerVars
<1> SUFFICES ASSUME [ServerNext]_serverVars PROVE BreakerNext \/ UNCHANGED breakerVars
  OBVIOUS
<1> USE DEF Requests
<1>1. ASSUME NEW r \in Requests, CheckBreaker(r) \/ CheckLen(r) \/ Evaluate(r) \/ Push(r)
                                 \/ Receive(r) \/ Disconnect(r) \/ TaskEnds(r) \/ Spawn(r)
      PROVE  UNCHANGED breakerVars
  BY <1>1, Zenon DEF CheckBreaker, CheckLen, Evaluate, Push, Receive, Disconnect, TaskEnds, Spawn
<1>2. ASSUME NEW r \in Requests, PolicyFails(r) \/ StreamQueued(r) PROVE BreakerNext
  BY <1>2, Zenon DEF PolicyFails, StreamQueued, BreakerNext
<1>3. ASSUME NEW r \in Requests, ReportFailure(r) \/ EndOfStream(r)
      PROVE  BreakerNext \/ UNCHANGED breakerVars
  BY <1>3, Zenon DEF ReportFailure, EndOfStream, BreakerNext
<1>4. ASSUME NEW w \in Workers, \/ SendWord(w) \/ SendTrailer(w) \/ Return(w)
                                \/ \E r \in Requests : TakeUp(w, r)
      PROVE  UNCHANGED breakerVars
  BY <1>4, Zenon DEF SendWord, SendTrailer, Return, TakeUp
<1>5. CASE CountQueue \/ TakeBatch \/ AllServed \/ UNCHANGED serverVars
  BY <1>5, Zenon DEF CountQueue, TakeBatch, AllServed, serverVars
<1>6. CASE Timers
  BY <1>6, Zenon DEF Timers, BreakerNext
<1> QED
  BY <1>1, <1>2, <1>3, <1>4, <1>5, <1>6, Zenon
  DEF ServerNext, Handler, Client, Batcher, Work, Finish, GenerationFails

\* The server uses its breaker as CircuitBreaker allows, so what is proved of
\* the breaker on its own holds inside the server.
THEOREM ServerImplementsBreaker == ServerSpec => BreakerSpec
<1>1. ServerInit => BreakerInit
  BY DEF ServerInit
<1> QED BY <1>1, BreakerStepOfServer, PTL DEF ServerSpec, BreakerSpec

\* In the server, too, an open breaker always has a timer that will close it
\* or a handler about to start one, and a count at the threshold is answered.
THEOREM ServerBreakerRecovers == ServerSpec => [](OpenHasTimer /\ TripIsAnswered)
  BY ServerImplementsBreaker, OpenBreakerHasTimer, TrippedBreakerOpens, PTL

----------------------------------------------------------------------------
(* Counters and gauges *)

\* No more tokens than messages; with it a token is only counted while the
\* count is below max_tokens.
WordsSent == \A r \in Requests : words[r] <= sent[r]

Active == {r \in Requests : task[r] \in {"spawned", "running", "closed"}}

CountInv == ServerTypeOK /\ WordsSent /\ GaugesHonest

\* What the steps of the handlers and the batcher change of the counters keeps
\* them in their types.
LEMMA ServerTypeStep ==
  PlaceInv /\ ServerTypeOK /\ WordsSent /\ active_requests = Cardinality(Active)
    /\ [ServerNext]_serverVars
  => ServerTypeOK' /\ WordsSent'
<1> SUFFICES ASSUME PlaceInv, ServerTypeOK, WordsSent, active_requests = Cardinality(Active),
                    [ServerNext]_serverVars
             PROVE  ServerTypeOK' /\ WordsSent'
  OBVIOUS
<1>0. PlaceType' /\ ThreadInv'
  BY PlaceStep DEF PlaceInv
<1>a. MaxTokens \in Nat \ {0} /\ Trailer \in Nat /\ Priorities \subseteq Nat /\ Capacity \in Nat
  BY ServerAssumption DEF ServerAssumption, Capacity
<1> DEFINE Rest == /\ priority \in [Requests -> Nat] /\ created_at \in [Requests -> Nat]
                   /\ now \in Nat
                   /\ sent \in [Requests -> 0..(MaxTokens + Trailer)]
                   /\ words \in [Requests -> 0..MaxTokens]
                   /\ buffered \in [Requests -> 0..Capacity]
                   /\ active_requests \in Nat /\ queued_requests \in Nat
                   /\ rejected_requests \in Nat /\ tokens_generated \in Nat
<1>b. Rest
  BY DEF ServerTypeOK
<1> SUFFICES Rest' /\ WordsSent'
  BY <1>0 DEF ServerTypeOK, PlaceType, ThreadInv
<1>1. ASSUME NEW r \in Requests, CheckBreaker(r) \/ CheckLen(r) PROVE Rest' /\ WordsSent'
  BY <1>b, <1>1 DEF CheckBreaker, CheckLen, queueVars, genVars, metricVars, WordsSent
<1>2. ASSUME NEW r \in Requests, Evaluate(r) PROVE Rest' /\ WordsSent'
  BY <1>a, <1>b, <1>2 DEF Evaluate, genVars, metricVars, WordsSent
<1>3. ASSUME NEW r \in Requests,
             PolicyFails(r) \/ ReportFailure(r) \/ Push(r) \/ StreamQueued(r) \/ EndOfStream(r)
      PROVE  Rest' /\ WordsSent'
  BY <1>b, <1>3
     DEF PolicyFails, ReportFailure, Push, StreamQueued, EndOfStream, queueVars, genVars,
         metricVars, WordsSent
<1>4. ASSUME NEW r \in Requests, Receive(r) \/ Disconnect(r) PROVE Rest' /\ WordsSent'
  <2>1. buffered' \in [Requests -> 0..Capacity]
    BY <1>a, <1>b, <1>4 DEF Receive, Disconnect
  <2> QED BY <1>b, <1>4, <2>1 DEF Receive, Disconnect, queueVars, genVars, metricVars, WordsSent
<1>5. CASE CountQueue \/ TakeBatch
  <2>1. heap \subseteq Requests /\ heap' \subseteq Requests
    BY <1>0 DEF PlaceInv, PlaceType
  <2>2. queued_requests' \in Nat
    BY <1>5, <2>1, RequestSets DEF CountQueue, TakeBatch
  <2> QED BY <1>b, <1>5, <2>2 DEF CountQueue, TakeBatch, queueVars, genVars, WordsSent
<1>6. ASSUME NEW r \in Requests, Spawn(r) PROVE Rest' /\ WordsSent'
  BY <1>b, <1>6 DEF Spawn, genVars, WordsSent
\* A generation that ends was active, so the gauge is at least 1.
<1>7. ASSUME NEW r \in Requests, TaskEnds(r) PROVE Rest' /\ WordsSent'
  <2>1. r \in Active /\ Active \subseteq Requests
    BY <1>7 DEF TaskEnds, Active
  <2>2. IsFiniteSet(Active) /\ Cardinality(Active) \in Nat /\ Cardinality(Active) # 0
    BY <2>1, RequestSets, FS_EmptySet
  <2>3. active_requests' \in Nat /\ tokens_generated' \in Nat
    BY <1>a, <1>b, <1>7, <2>2 DEF TaskEnds
  <2> QED BY <1>b, <1>7, <2>3 DEF TaskEnds, queueVars, genVars, WordsSent
<1>8. ASSUME NEW w \in Workers, ~Idle(w) PROVE Top(w) \in Requests
  <2>1. stack[w] \in Seq(Requests) /\ stack[w] # <<>>
    BY <1>8 DEF PlaceInv, ThreadInv, Idle
  <2> QED BY <2>1 DEF Top
<1>9. ASSUME NEW w \in Workers, SendWord(w) PROVE Rest' /\ WordsSent'
  <2> DEFINE r == Top(w)
  <2>1. r \in Requests /\ sent[r] < MaxTokens /\ ~Idle(w)
    BY <1>8, <1>9 DEF SendWord, Generating
  <2> HIDE DEF r
  <2>2. sent[r] \in Nat /\ words[r] \in Nat /\ words[r] <= sent[r] /\ buffered[r] \in Nat
    BY <1>a, <1>b, <2>1 DEF WordsSent
  <2>3. CASE /\ buffered[r] < Capacity
             /\ buffered' = [buffered EXCEPT ![r] = @ + 1]
             /\ sent' = [sent EXCEPT ![r] = @ + 1]
             /\ words' = [words EXCEPT ![r] = @ + 1]
    <3>1. buffered' \in [Requests -> 0..Capacity]
      BY <1>a, <1>b, <2>1, <2>2, <2>3
    <3>2. sent' \in [Requests -> 0..(MaxTokens + Trailer)]
      BY <1>a, <1>b, <2>1, <2>2, <2>3
    <3>3. words' \in [Requests -> 0..MaxTokens]
      BY <1>a, <1>b, <2>1, <2>2, <2>3
    <3>4. WordsSent'
      BY <1>a, <1>b, <2>1, <2>2, <2>3 DEF WordsSent
    <3> QED BY <1>b, <1>9, <3>1, <3>2, <3>3, <3>4 DEF SendWord, queueVars, metricVars
  <2>4. CASE /\ sent[r] = 0 /\ sent' = [sent EXCEPT ![r] = 1]
             /\ words' = [words EXCEPT ![r] = 1] /\ UNCHANGED buffered
    <3>1. sent' \in [Requests -> 0..(MaxTokens + Trailer)] /\ words' \in [Requests -> 0..MaxTokens]
      BY <1>a, <1>b, <2>1, <2>2, <2>4
    <3>2. WordsSent'
      BY <1>a, <1>b, <2>1, <2>2, <2>4 DEF WordsSent
    <3> QED BY <1>b, <1>9, <2>4, <3>1, <3>2 DEF SendWord, queueVars, metricVars
  <2>5. CASE sent' = [sent EXCEPT ![r] = MaxTokens] /\ UNCHANGED words /\ UNCHANGED buffered
    <3>1. sent' \in [Requests -> 0..(MaxTokens + Trailer)]
      BY <1>a, <1>b, <2>1, <2>2, <2>5
    <3>2. WordsSent'
      BY <1>a, <1>b, <2>1, <2>2, <2>5 DEF WordsSent
    <3> QED BY <1>b, <1>9, <2>5, <3>1, <3>2 DEF SendWord, queueVars, metricVars
  <2> QED BY <1>9, <2>3, <2>4, <2>5 DEF SendWord, FirstOfPrefill, r
<1>10. ASSUME NEW w \in Workers, SendTrailer(w) PROVE Rest' /\ WordsSent'
  <2> DEFINE r == Top(w)
  <2>1. /\ r \in Requests /\ sent[r] < MaxTokens + Trailer /\ sent' = [sent EXCEPT ![r] = @ + 1]
        /\ \/ buffered[r] < Capacity /\ buffered' = [buffered EXCEPT ![r] = @ + 1]
           \/ UNCHANGED buffered
    BY <1>8, <1>10 DEF SendTrailer
  <2>2. words' = words
    BY <1>10 DEF SendTrailer
  <2> HIDE DEF r
  <2>3. sent' \in [Requests -> 0..(MaxTokens + Trailer)] /\ buffered' \in [Requests -> 0..Capacity]
    BY <1>a, <1>b, <2>1
  <2>4. WordsSent'
    BY <1>a, <1>b, <2>1, <2>2 DEF WordsSent
  <2> QED BY <1>b, <1>10, <2>2, <2>3, <2>4 DEF SendTrailer, queueVars, metricVars
<1>11. ASSUME NEW w \in Workers, Return(w) PROVE Rest' /\ WordsSent'
  BY <1>b, <1>11 DEF Return, queueVars, metricVars, WordsSent
<1>12. ASSUME NEW w \in Workers, NEW r \in Requests, TakeUp(w, r) PROVE Rest' /\ WordsSent'
  BY <1>b, <1>12 DEF TakeUp, queueVars, metricVars, WordsSent
<1>13. CASE Timers \/ UNCHANGED serverVars
  BY <1>b, <1>13 DEF Timers, serverVars, queueVars, genVars, metricVars, WordsSent
<1> QED
  BY <1>1, <1>2, <1>3, <1>4, <1>5, <1>6, <1>7, <1>9, <1>10, <1>11, <1>12, <1>13
  DEF ServerNext, AllServed, Handler, Client, Batcher, Work, Finish, GenerationFails

\* A step that leaves the tasks, the queue and their gauges alone keeps the
\* gauges honest; so does one that adds to the queue.
LEMMA GaugesStay ==
  ASSUME PlaceType, PlaceType', ServerTypeOK, GaugesHonest, Active' = Active,
         active_requests' = active_requests, queued_requests' = queued_requests,
         heap \subseteq heap'
  PROVE  GaugesHonest'
<1>1. heap' \subseteq Requests
  BY DEF PlaceType
<1>2. /\ Cardinality(heap) <= Cardinality(heap')
      /\ Cardinality(heap) \in Nat /\ Cardinality(heap') \in Nat
  BY <1>1, RequestSets
<1>3. queued_requests \in Nat
  BY DEF ServerTypeOK
<1>4. queued_requests' <= Cardinality(heap')
  BY <1>2, <1>3 DEF GaugesHonest
<1> QED BY <1>4 DEF GaugesHonest, Active

LEMMA GaugesStep ==
  PlaceInv /\ ServerTypeOK /\ GaugesHonest /\ [ServerNext]_serverVars => GaugesHonest'
<1> SUFFICES ASSUME PlaceInv, ServerTypeOK, GaugesHonest, [ServerNext]_serverVars
             PROVE  GaugesHonest'
  OBVIOUS
<1>0. PlaceType /\ PlaceType'
  BY PlaceStep DEF PlaceInv
<1>a. Active \subseteq Requests /\ IsFiniteSet(Active) /\ Cardinality(Active) \in Nat
  BY RequestSets DEF Active
<1>b. active_requests = Cardinality(Active)
  BY DEF GaugesHonest, Active
<1>1. ASSUME task' = task, heap \subseteq heap', active_requests' = active_requests,
             queued_requests' = queued_requests
      PROVE  GaugesHonest'
  BY <1>0, <1>1, GaugesStay DEF Active
<1>2. ASSUME NEW r \in Requests,
             \/ CheckBreaker(r) \/ CheckLen(r) \/ Evaluate(r) \/ PolicyFails(r)
             \/ ReportFailure(r) \/ Push(r) \/ StreamQueued(r) \/ Receive(r)
             \/ EndOfStream(r) \/ Disconnect(r)
      PROVE  GaugesHonest'
  BY <1>1, <1>2
     DEF CheckBreaker, CheckLen, Evaluate, PolicyFails, ReportFailure, Push, StreamQueued,
         Receive, EndOfStream, Disconnect, queueVars, metricVars
<1>3. CASE CountQueue \/ TakeBatch
  <2>1. heap' \subseteq Requests
    BY <1>0 DEF PlaceType
  <2>2. Cardinality(heap') \in Nat
    BY <2>1, RequestSets
  <2>3. queued_requests' = Cardinality(heap') /\ task' = task /\ active_requests' = active_requests
    BY <1>3 DEF CountQueue, TakeBatch, queueVars
  <2> QED BY <2>2, <2>3 DEF GaugesHonest
<1>4. ASSUME NEW r \in Requests, Spawn(r) PROVE GaugesHonest'
  <2>1. /\ r \in batch /\ task' = [task EXCEPT ![r] = "spawned"] /\ heap' = heap
        /\ active_requests' = active_requests + 1 /\ queued_requests' = queued_requests
    BY <1>4 DEF Spawn
  <2>2. task[r] = "none"
    BY <2>1 DEF PlaceInv, OneHolder
  <2>3. Active' = Active \cup {r} /\ r \notin Active
    BY <1>0, <2>1, <2>2 DEF Active, PlaceType
  <2>4. Cardinality(Active') = Cardinality(Active) + 1
    BY <1>a, <2>3, FS_AddElement
  <2> QED BY <1>b, <2>1, <2>4 DEF GaugesHonest, Active
<1>5. ASSUME NEW r \in Requests, TaskEnds(r) PROVE GaugesHonest'
  <2>1. /\ task[r] = "closed" /\ task' = [task EXCEPT ![r] = "done"] /\ heap' = heap
        /\ active_requests' = active_requests - 1 /\ queued_requests' = queued_requests
    BY <1>5 DEF TaskEnds, queueVars
  <2>2. Active' = Active \ {r} /\ r \in Active
    BY <1>0, <2>1 DEF Active, PlaceType
  <2>3. Cardinality(Active') = Cardinality(Active) - 1
    BY <1>a, <2>2, FS_RemoveElement
  <2> QED BY <1>b, <2>1, <2>3 DEF GaugesHonest, Active
<1>6. ASSUME NEW w \in Workers, SendWord(w) \/ SendTrailer(w) PROVE GaugesHonest'
  BY <1>1, <1>6 DEF SendWord, SendTrailer, queueVars, metricVars
\* Taken up, running and closed generations count as active all the same.
<1>7. ASSUME NEW w \in Workers, ~Idle(w), Return(w) PROVE GaugesHonest'
  <2>1. task' = [task EXCEPT ![Top(w)] = "closed"] /\ heap' = heap
    BY <1>7 DEF Return, queueVars
  <2>2. Top(w) \in Requests /\ task[Top(w)] = "running"
    BY <1>0, <1>7, ThreadReturns DEF PlaceInv, Return
  <2>3. Active' = Active
    BY <1>0, <2>1, <2>2 DEF Active, PlaceType
  <2> QED BY <1>0, <1>7, <2>1, <2>3, GaugesStay DEF Return, metricVars
<1>8. ASSUME NEW w \in Workers, NEW r \in Requests, TakeUp(w, r) PROVE GaugesHonest'
  <2>1. /\ task[r] = "spawned" /\ task' = [task EXCEPT ![r] = "running"] /\ heap' = heap
    BY <1>8 DEF TakeUp, queueVars
  <2>2. Active' = Active
    BY <1>0, <2>1 DEF Active, PlaceType
  <2> QED BY <1>0, <1>8, <2>1, <2>2, GaugesStay DEF TakeUp, metricVars
<1>9. CASE Timers \/ UNCHANGED serverVars
  BY <1>1, <1>9 DEF Timers, serverVars, queueVars, metricVars
<1> QED
  BY <1>2, <1>3, <1>4, <1>5, <1>6, <1>7, <1>8, <1>9
  DEF ServerNext, AllServed, Handler, Client, Batcher, Work, Finish, GenerationFails, Generating

\* Everything starts at zero.
LEMMA CountInit == ServerInit => CountInv
<1> SUFFICES ASSUME ServerInit PROVE CountInv
  OBVIOUS
<1>1. MaxTokens \in Nat \ {0} /\ Trailer \in Nat /\ Capacity \in Nat
  BY ServerAssumption DEF ServerAssumption, Capacity
<1>2. ServerTypeOK
  BY <1>1, PlaceInit DEF ServerInit, ServerTypeOK, PlaceInv, PlaceType, ThreadInv
<1>3. WordsSent
  BY DEF ServerInit, WordsSent
<1>4. heap = {} /\ {r \in Requests : task[r] \in {"spawned", "running", "closed"}} = {}
  BY DEF ServerInit
<1>5. GaugesHonest
  <2>1. Cardinality(heap) = 0
    BY <1>4, FS_EmptySet
  <2>2. Cardinality({r \in Requests : task[r] \in {"spawned", "running", "closed"}}) = 0
    BY <1>4, FS_EmptySet
  <2> QED BY <2>1, <2>2 DEF ServerInit, GaugesHonest
<1> QED BY <1>2, <1>3, <1>5 DEF CountInv

LEMMA CountStep == PlaceInv /\ CountInv /\ [ServerNext]_serverVars => CountInv'
<1>1. GaugesHonest => active_requests = Cardinality(Active)
  BY DEF GaugesHonest, Active
<1> QED BY <1>1, ServerTypeStep, GaugesStep DEF CountInv

\* The counters never leave their types, the gauge of active requests is the
\* number of generations under way, and the gauge of queued requests never
\* overstates the queue: for any number of requests, threads and tokens.
THEOREM CountersHonest == ServerSpec => []CountersInv
<1>1. BreakerTypeOK /\ CountInv => CountersInv
  BY DEF CountInv, CountersInv
<1>2. BreakerInv => BreakerTypeOK
  BY DEF BreakerInv
<1> QED BY <1>1, <1>2, ServerImplementsBreaker, BreakerInvariance, PlaceInit, PlaceStep,
           CountInit, CountStep, PTL DEF ServerSpec
=============================================================================
