------------------------------- MODULE Server -------------------------------
(***************************************************************************)
(* The inference server (swamp-server): request handlers (main.rs), the    *)
(* priority queue and its batcher (scheduler.rs), the circuit breaker, and *)
(* as much of ModelExecutor::generate as the server depends on: a thread   *)
(* of the rayon pool that sends words, then a few trailing messages, into  *)
(* the request's bounded channel.                                          *)
(*                                                                         *)
(* Every request is made once.  A handler is split at its awaits and at    *)
(* its accesses to shared state; a client may disconnect at any await.     *)
(***************************************************************************)
EXTENDS CircuitBreaker, Sequences

CONSTANTS Streams,      \* the requests made to /generate-stream
          LongPrompts,  \* the requests whose prompt has more than one token
          QueueLimit,   \* length of the queue up to which requests are taken (20)
          MaxBatch,     \* max_batch_size
          MaxTokens,    \* max_tokens of every request
          Trailer,      \* messages generate sends after the words
          Priorities,   \* what assign_priority may return; lower is better
          Workers       \* threads of the rayon pool

Requests == Callers
Capacity == MaxTokens + 1

ASSUME ServerAssumption ==
  /\ IsFiniteSet(Requests)
  /\ Streams \subseteq Requests /\ LongPrompts \subseteq Requests
  /\ QueueLimit \in Nat /\ MaxBatch \in Nat \ {0}
  /\ MaxTokens \in Nat \ {0} /\ Trailer \in Nat
  /\ Priorities \subseteq Nat

VARIABLES pc,             \* where the handler of each request is
          heap,           \* the requests in the priority queue
          priority, created_at, now,
          batch,          \* popped by the batcher, not yet spawned
          task,           \* the generation of each request
          stack,          \* the generations a pool thread has taken up, last on top
          sent, words,    \* messages sent and tokens generated, by request
          buffered,       \* messages in the request's channel
          active_requests, queued_requests, rejected_requests, tokens_generated,
          peak            \* history: most handlers ever between check and push

queueVars  == <<heap, priority, created_at, now, batch>>
genVars    == <<stack, sent, words>>
metricVars == <<active_requests, queued_requests, rejected_requests, tokens_generated>>
serverVars == <<pc, queueVars, task, genVars, buffered, metricVars, peak, breakerVars>>

\* Admitted by the length check and not yet in the queue.
Between == {r \in Requests : pc[r] \in {"submit", "push"}}

ServerInit ==
  /\ pc = [r \in Requests |-> "new"]
  /\ heap = {} /\ batch = {} /\ now = 0
  /\ priority = [r \in Requests |-> 0]
  /\ created_at = [r \in Requests |-> 0]
  /\ task = [r \in Requests |-> "none"]
  /\ stack = [w \in Workers |-> <<>>]
  /\ sent = [r \in Requests |-> 0]
  /\ words = [r \in Requests |-> 0]
  /\ buffered = [r \in Requests |-> 0]
  /\ active_requests = 0 /\ queued_requests = 0
  /\ rejected_requests = 0 /\ tokens_generated = 0
  /\ peak = 0
  /\ BreakerInit

----------------------------------------------------------------------------
(* handle_generate and handle_generate_stream *)

Goto(r, label) == pc' = [pc EXCEPT ![r] = label]

CheckBreaker(r) ==
  /\ pc[r] = "new"
  /\ IF open
     THEN Goto(r, "rejected") /\ rejected_requests' = rejected_requests + 1
     ELSE Goto(r, "len") /\ UNCHANGED rejected_requests
  /\ UNCHANGED <<queueVars, task, genVars, buffered, active_requests, queued_requests,
                 tokens_generated, peak, breakerVars>>

\* The faulty variant forgets to look at the queue.
AdmitAll(r) ==
  /\ pc[r] = "len"
  /\ Goto(r, "submit")
  /\ peak' = IF Cardinality(Between') > peak THEN Cardinality(Between') ELSE peak
  /\ UNCHANGED <<queueVars, task, genVars, buffered, metricVars, breakerVars>>

CheckLen(r) ==
  /\ pc[r] = "len"
  /\ IF Cardinality(heap) > QueueLimit
     THEN /\ Goto(r, "rejected") /\ rejected_requests' = rejected_requests + 1
          /\ UNCHANGED peak
     ELSE /\ Goto(r, "submit") /\ UNCHANGED rejected_requests
          /\ peak' = IF Cardinality(Between') > peak THEN Cardinality(Between') ELSE peak
  /\ UNCHANGED <<queueVars, task, genVars, buffered, active_requests, queued_requests,
                 tokens_generated, breakerVars>>

\* submit: the Lua policy gives a priority, and the request is stamped before
\* the queue is locked.  Two stamps may be equal.
Evaluate(r) ==
  /\ pc[r] = "submit"
  /\ Goto(r, "push")
  /\ \E p \in Priorities : priority' = [priority EXCEPT ![r] = p]
  /\ now' \in {now, now + 1}
  /\ created_at' = [created_at EXCEPT ![r] = now']
  /\ UNCHANGED <<heap, batch, task, genVars, buffered, metricVars, peak, breakerVars>>

\* The policy fails: the handler reports it and answers with an error.
PolicyFails(r) ==
  /\ pc[r] = "submit"
  /\ Goto(r, "failing")
  /\ record_failure(r)
  /\ UNCHANGED <<queueVars, task, genVars, buffered, metricVars, peak>>

ReportFailure(r) ==
  /\ pc[r] = "failing"
  /\ IF reporting[r] = "no"
     THEN Goto(r, "error") /\ UNCHANGED breakerVars
     ELSE Report(r) /\ UNCHANGED pc
  /\ UNCHANGED <<queueVars, task, genVars, buffered, metricVars, peak>>

Push(r) ==
  /\ pc[r] = "push"
  /\ heap' = heap \cup {r}
  /\ Goto(r, IF r \in Streams THEN "pushed" ELSE "reading")
  /\ UNCHANGED <<priority, created_at, now, batch, task, genVars, buffered, metricVars,
                 peak, breakerVars>>

\* A stream counts as a success as soon as it is queued.
StreamQueued(r) ==
  /\ pc[r] = "pushed"
  /\ record_success(r)
  /\ Goto(r, "reading")
  /\ UNCHANGED <<queueVars, task, genVars, buffered, metricVars, peak>>

Receive(r) ==
  /\ pc[r] = "reading"
  /\ buffered[r] > 0
  /\ buffered' = [buffered EXCEPT ![r] = @ - 1]
  /\ UNCHANGED <<pc, queueVars, task, genVars, metricVars, peak, breakerVars>>

\* The faulty variant of /generate holds on to a sender of its own channel.
HandlerKeepsSender(r) ==
  /\ pc[r] = "reading" /\ r \in Streams
  /\ buffered[r] = 0
  /\ task[r] \in {"closed", "done"}
  /\ Goto(r, "ok")
  /\ UNCHANGED <<breakerVars, queueVars, task, genVars, buffered, metricVars, peak>>

\* The channel is empty and its sender is gone.
EndOfStream(r) ==
  /\ pc[r] = "reading"
  /\ buffered[r] = 0
  /\ task[r] \in {"closed", "done"}
  /\ Goto(r, "ok")
  /\ IF r \in Streams THEN UNCHANGED breakerVars ELSE record_success(r)
  /\ UNCHANGED <<queueVars, task, genVars, buffered, metricVars, peak>>

\* The client goes away while its handler awaits: the handler is dropped, and
\* with it the receiver.
Disconnect(r) ==
  /\ pc[r] \in {"len", "submit", "push", "reading"}
  /\ Goto(r, "gone")
  /\ buffered' = [buffered EXCEPT ![r] = 0]
  /\ UNCHANGED <<queueVars, task, genVars, metricVars, peak, breakerVars>>

----------------------------------------------------------------------------
(* start_batcher_loop *)

\* Ord of PriorityRequest: a comes strictly before b.
Before(a, b) == \/ priority[a] < priority[b]
                \/ priority[a] = priority[b] /\ created_at[a] < created_at[b]

\* The best requests of the queue, as many as fit in a batch.
IsBatch(B) ==
  /\ B # {} /\ B \subseteq heap
  /\ Cardinality(B) <= MaxBatch
  /\ B = heap \/ Cardinality(B) = MaxBatch
  /\ \A a \in heap \ B, b \in B : ~Before(a, b)

\* A wake of the batcher first publishes the length of the queue as it finds it, and
\* is all there is to it when the queue is empty.  Nobody else sees the queue until
\* the batch is out of it, so the pops under the lock are one step.
CountQueue ==
  /\ batch = {}
  /\ queued_requests' = Cardinality(heap)
  /\ UNCHANGED <<pc, queueVars, task, genVars, buffered, active_requests, rejected_requests,
                 tokens_generated, peak, breakerVars>>

\* The faulty variant looks at the best requests without removing them.
PeekBatch ==
  /\ batch = {}
  /\ \E B \in SUBSET heap : IsBatch(B) /\ batch' = B
  /\ queued_requests' = Cardinality(heap)
  /\ UNCHANGED <<pc, heap, priority, created_at, now, task, genVars, buffered,
                 active_requests, rejected_requests, tokens_generated, peak, breakerVars>>

\* The faulty variant publishes the length from before the batch was taken.
TakeThenForget ==
  /\ batch = {}
  /\ \E B \in SUBSET heap : IsBatch(B) /\ batch' = B /\ heap' = heap \ B
  /\ queued_requests' = Cardinality(heap)
  /\ UNCHANGED <<pc, priority, created_at, now, task, genVars, buffered,
                 active_requests, rejected_requests, tokens_generated, peak, breakerVars>>

TakeBatch ==
  /\ batch = {}
  /\ queued_requests = Cardinality(heap)
  /\ \E B \in SUBSET heap : IsBatch(B) /\ batch' = B /\ heap' = heap \ B
  /\ queued_requests' = Cardinality(heap')
  /\ UNCHANGED <<pc, priority, created_at, now, task, genVars, buffered,
                 active_requests, rejected_requests, tokens_generated, peak, breakerVars>>

\* The batch is spawned in order; priority and stamp are dropped with the item.
Spawn(r) ==
  /\ r \in batch
  /\ \A q \in batch : ~Before(q, r)
  /\ batch' = batch \ {r}
  /\ priority' = [priority EXCEPT ![r] = 0]
  /\ created_at' = [created_at EXCEPT ![r] = 0]
  /\ active_requests' = active_requests + 1
  /\ task' = [task EXCEPT ![r] = "spawned"]
  /\ UNCHANGED <<pc, heap, now, genVars, buffered, queued_requests, rejected_requests,
                 tokens_generated, peak, breakerVars>>

\* The faulty variant takes a failed generation off the gauge twice.
ErrorCountsTwice(r) ==
  /\ task[r] = "closed"
  /\ task' = [task EXCEPT ![r] = "done"]
  /\ active_requests' = active_requests - IF words[r] < MaxTokens THEN 2 ELSE 1
  /\ tokens_generated' = tokens_generated + MaxTokens
  /\ UNCHANGED <<pc, queueVars, genVars, buffered, queued_requests, rejected_requests,
                 peak, breakerVars>>

\* generate has returned.
TaskEnds(r) ==
  /\ task[r] = "closed"
  /\ task' = [task EXCEPT ![r] = "done"]
  /\ active_requests' = active_requests - 1
  /\ tokens_generated' = tokens_generated + MaxTokens
  /\ UNCHANGED <<pc, queueVars, genVars, buffered, queued_requests, rejected_requests,
                 peak, breakerVars>>

----------------------------------------------------------------------------
(* generate, on a thread of the rayon pool *)

Idle(w) == stack[w] = <<>>
Top(w)  == stack[w][Len(stack[w])]
Generating(w) == ~Idle(w) /\ sent[Top(w)] < MaxTokens

\* A free thread takes up a generation; so does one that waits inside a
\* parallel loop of its own for others to finish, on top of its own work.
TakeUp(w, r) ==
  /\ task[r] = "spawned"
  /\ Idle(w) \/ (Generating(w) /\ Workers # {w})
  /\ stack' = [stack EXCEPT ![w] = Append(@, r)]
  /\ task' = [task EXCEPT ![r] = "running"]
  /\ UNCHANGED <<pc, queueVars, sent, words, buffered, metricVars, peak, breakerVars>>

\* The prefill of a long prompt gives the first word and does not look whether it
\* could be sent.
FirstOfPrefill(r) == sent[r] = 0 /\ r \in LongPrompts

\* A word.  When the receiver is gone the loop ends, unless it is that of the prefill.
SendWord(w) ==
  LET r == Top(w)
  IN  /\ Generating(w)
      /\ IF pc[r] # "gone"
         THEN /\ buffered[r] < Capacity
              /\ buffered' = [buffered EXCEPT ![r] = @ + 1]
              /\ sent' = [sent EXCEPT ![r] = @ + 1]
              /\ words' = [words EXCEPT ![r] = @ + 1]
         ELSE /\ IF FirstOfPrefill(r)
                 THEN sent' = [sent EXCEPT ![r] = 1] /\ words' = [words EXCEPT ![r] = 1]
                 ELSE sent' = [sent EXCEPT ![r] = MaxTokens] /\ UNCHANGED words
              /\ UNCHANGED buffered
      /\ UNCHANGED <<pc, queueVars, task, stack, metricVars, peak, breakerVars>>

\* A trailing message, which waits for room in the channel like any other.
SendTrailer(w) ==
  LET r == Top(w)
  IN  /\ ~Idle(w) /\ sent[r] >= MaxTokens /\ sent[r] < MaxTokens + Trailer
      /\ IF pc[r] # "gone"
         THEN buffered[r] < Capacity /\ buffered' = [buffered EXCEPT ![r] = @ + 1]
         ELSE UNCHANGED buffered
      /\ sent' = [sent EXCEPT ![r] = @ + 1]
      /\ UNCHANGED <<pc, queueVars, task, stack, words, metricVars, peak, breakerVars>>

\* The closure returns and drops the sender; the thread goes on with what it
\* had below.
Return(w) ==
  /\ stack' = [stack EXCEPT ![w] = SubSeq(@, 1, Len(@) - 1)]
  /\ task' = [task EXCEPT ![Top(w)] = "closed"]
  /\ UNCHANGED <<pc, queueVars, sent, words, buffered, metricVars, peak, breakerVars>>

Finish(w) == ~Idle(w) /\ sent[Top(w)] = MaxTokens + Trailer /\ Return(w)

\* A tensor is missing or a kernel fails: generate ends early, with an error
\* that is only logged.
GenerationFails(w) == Generating(w) /\ Return(w)
----------------------------------------------------------------------------

Handler(r) == \/ CheckLen(r) \/ Evaluate(r) \/ PolicyFails(r) \/ ReportFailure(r)
              \/ Push(r) \/ StreamQueued(r)
Client(r)  == Receive(r) \/ EndOfStream(r)
Batcher    == CountQueue \/ TakeBatch \/ \E r \in Requests : Spawn(r)
Work(w)    == \/ SendWord(w) \/ SendTrailer(w) \/ Finish(w)
              \/ Idle(w) /\ \E r \in Requests : TakeUp(w, r)

Timers ==
  /\ TimerCloses \/ TimerClears
  /\ UNCHANGED <<pc, queueVars, task, genVars, buffered, metricVars, peak>>

\* Every request has been made and has run its course.
AllServed ==
  /\ \A r \in Requests : /\ pc[r] \in {"ok", "rejected", "error", "gone"}
                         /\ task[r] \in {"none", "done"}
  /\ heap = {} /\ batch = {} /\ sleeping + clearing = 0
  /\ UNCHANGED serverVars

ServerNext ==
  \/ AllServed
  \/ \E r \in Requests : \/ CheckBreaker(r) \/ Handler(r) \/ Client(r)
                         \/ Disconnect(r) \/ TaskEnds(r)
  \/ Batcher
  \/ \E w \in Workers : \/ Work(w) \/ GenerationFails(w)
                        \/ \E r \in Requests : TakeUp(w, r)
  \/ Timers

ServerSpec == ServerInit /\ [][ServerNext]_serverVars

\* tokio polls every ready task, the batcher wakes every 50 ms, the pool's
\* threads run, every client reads on until its stream ends or it leaves, and
\* tokio wakes every timer.
ServerFairness ==
  /\ \A r \in Requests : /\ WF_serverVars(Handler(r))
                         /\ WF_serverVars(Client(r))
                         /\ WF_serverVars(TaskEnds(r))
  /\ WF_serverVars(Batcher)
  /\ WF_serverVars(Timers)
  /\ \A w \in Workers : WF_serverVars(Work(w))

FairServerSpec == ServerSpec /\ ServerFairness
----------------------------------------------------------------------------
(* Properties *)

ServerTypeOK ==
  /\ pc \in [Requests -> {"new", "len", "submit", "push", "pushed", "reading", "failing",
                          "ok", "rejected", "error", "gone"}]
  /\ heap \subseteq Requests /\ batch \subseteq Requests
  /\ priority \in [Requests -> Nat] /\ created_at \in [Requests -> Nat] /\ now \in Nat
  /\ task \in [Requests -> {"none", "spawned", "running", "closed", "done"}]
  /\ stack \in [Workers -> Seq(Requests)]
  /\ sent \in [Requests -> 0..(MaxTokens + Trailer)]
  /\ words \in [Requests -> 0..MaxTokens]
  /\ buffered \in [Requests -> 0..Capacity]
  /\ active_requests \in Nat /\ queued_requests \in Nat
  /\ rejected_requests \in Nat /\ tokens_generated \in Nat
  /\ peak \in Nat

\* Backpressure: the check and the push are not atomic, so the queue can grow
\* past the limit, but only by the handlers that were between the two at once.
QueueBounded == Cardinality(heap) + Cardinality(Between) <= QueueLimit + peak

\* Whoever waits for an answer is owed one: the sender of its channel is in
\* exactly one place (queue, batch, or a generation) until it is dropped.
OneHolder ==
  /\ heap \cap batch = {}
  /\ \A r \in heap \cup batch : task[r] = "none"
  /\ \A r \in Requests : pc[r] \in {"pushed", "reading", "ok"} =>
                          r \in heap \cup batch \/ task[r] # "none"

\* The gauges: active counts the spawned generations that have not ended, also
\* those that failed or whose client left; queued never overstates the queue.
GaugesHonest ==
  /\ active_requests = Cardinality({r \in Requests : task[r] \in {"spawned", "running", "closed"}})
  /\ queued_requests <= Cardinality(heap)

\* Counters and gauges: within their types whatever the order of failures, successes
\* and disconnects, and true to the tasks and the queue they describe.
CountersInv == BreakerTypeOK /\ ServerTypeOK /\ GaugesHonest

\* Every request that came in is answered or abandoned by its client.
Answered == \A r \in Requests :
  pc[r] = "len" ~> pc[r] \in {"ok", "rejected", "error", "gone"}

\* "responde após a conclusão de todos os tokens" (main.rs): a request to
\* /generate is answered 200 only when all its tokens were generated.
AnsweredInFull == \A r \in Requests \ Streams : pc[r] = "ok" => words[r] = MaxTokens
=============================================================================
