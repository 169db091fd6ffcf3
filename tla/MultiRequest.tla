---------------------------- MODULE MultiRequest ----------------------------
(***************************************************************************)
(* The three ways the engine runs several models or requests in one call:  *)
(* PipelineExecutor::execute and ::execute_concurrent                      *)
(* (swamp-engine/src/pipeline.rs) and ModelExecutor::generate_batch        *)
(* (swamp-engine/src/executor.rs).  A behaviour is one call of one of      *)
(* them, with the threads it spawns.                                       *)
(*                                                                         *)
(* A request is its index; a result is the sequence of the stages that     *)
(* stored one.                                                             *)
(***************************************************************************)
EXTENDS Integers, Sequences, FiniteSets

CONSTANTS
    NumRequests,
    NumStages,
    Concurrencies,   \* values of max_concurrency
    ChannelCap       \* the 64 messages of generate_batch's channel

\* Without requests or without stages execute_concurrent returns at once
ASSUME MultiRequestAssumption ==
    /\ NumRequests \in Nat \ {0} /\ NumStages \in Nat \ {0}
    /\ Concurrencies \subseteq Nat

VARIABLES
    api,        \* "execute", "concurrent" or "batch"
    conc,       \* max_concurrency
    mainPc,     \* the calling thread
    nextReq,    \* the request main sends (or execute's stage) next
    chan,       \* stage |-> the messages in its sync_channel
    stage,      \* stage |-> [pc, req] of its thread
    results,    \* request |-> stages that stored a result
    hurt,       \* history: requests some stage failed, lost or panicked on
    jobs,       \* generate_batch's job_queue
    worker      \* generate_batch's threads |-> [pc, req]

mrVars == <<api, conc, mainPc, nextReq, chan, stage, results, hurt, jobs, worker>>

Requests == 1..NumRequests
Stages == 1..NumStages
BatchThreads == 1..NumRequests
Gone == {"exit", "panicked"}

\* max_concurrency.min(n) threads are spawned
Spawned == {w \in BatchThreads : w <= conc}

MRInit ==
    /\ api \in {"execute", "concurrent", "batch"}
    /\ conc \in Concurrencies
    /\ mainPc = "run"
    /\ nextReq = 1
    /\ chan = [s \in Stages |-> <<>>]
    /\ stage = [s \in Stages |-> [pc |-> IF api = "concurrent" THEN "recv" ELSE "exit", req |-> 0]]
    /\ results = [r \in Requests |-> <<>>]
    /\ hurt = {}
    /\ jobs = IF api = "batch" THEN [r \in Requests |-> r] ELSE <<>>
    /\ worker = [w \in BatchThreads |->
                    [pc |-> IF api = "batch" /\ w \in Spawned THEN "loop" ELSE "exit", req |-> 0]]

-----------------------------------------------------------------------------
\* execute: the stages of one request, one after the other; a missing model or an
\* error ends the call with Err
Execute ==
    /\ api = "execute" /\ mainPc = "run"
    /\ \/ /\ results' = [results EXCEPT ![1] = Append(@, nextReq)]
          /\ nextReq' = nextReq + 1
          /\ mainPc' = IF nextReq = NumStages THEN "done" ELSE "run"
          /\ UNCHANGED hurt
       \/ /\ hurt' = {1}
          /\ mainPc' = "done"
          /\ UNCHANGED <<results, nextReq>>
    /\ UNCHANGED <<api, conc, chan, stage, jobs, worker>>

-----------------------------------------------------------------------------
\* execute_concurrent

At(s, p) == stage[s].pc = p
Set(s, p, r) == stage' = [stage EXCEPT ![s] = [pc |-> p, req |-> r]]

\* Mutant: the channels are unbounded
Room_unbounded(s) == TRUE

\* Room in a sync_channel; with capacity 0 a send returns when the receiver is
\* there to take the message
Room(s) == Len(chan[s]) < conc \/ (conc = 0 /\ At(s, "recv") /\ chan[s] = <<>>)

\* send: an error (the receiver is gone) is ignored and the message is lost
Send(s, r) ==
    \/ /\ At(s, "panicked")
       /\ hurt' = hurt \cup {r}
       /\ UNCHANGED chan
    \/ /\ ~At(s, "panicked") /\ Room(s)
       /\ chan' = [chan EXCEPT ![s] = Append(@, r)]
       /\ UNCHANGED hurt

MainSend ==
    /\ api = "concurrent" /\ mainPc = "run" /\ nextReq <= NumRequests
    /\ Send(1, nextReq)
    /\ nextReq' = nextReq + 1
    /\ UNCHANGED <<api, conc, mainPc, stage, results, jobs, worker>>

\* drop(channels)
MainDrop ==
    /\ api = "concurrent" /\ mainPc = "run" /\ nextReq > NumRequests
    /\ mainPc' = "join"
    /\ UNCHANGED <<api, conc, nextReq, chan, stage, results, hurt, jobs, worker>>

\* Mutant: the newest message first
Taken_newest(s) ==
    [msg |-> chan[s][Len(chan[s])], rest |-> SubSeq(chan[s], 1, Len(chan[s]) - 1)]

\* The message recv returns, and those it leaves
Taken(s) == [msg |-> Head(chan[s]), rest |-> Tail(chan[s])]

Recv(s) ==
    /\ At(s, "recv") /\ chan[s] # <<>>
    /\ Set(s, "run", Taken(s).msg)
    /\ chan' = [chan EXCEPT ![s] = Taken(s).rest]
    /\ UNCHANGED <<api, conc, mainPc, nextReq, results, hurt, jobs, worker>>

\* Mutant: main still owns its senders while it joins
SendersGone_kept(s) == mainPc = "done" /\ (s > 1 => stage[s - 1].pc \in Gone)

\* recv returns Err: main dropped its senders and the previous stage its clone
SendersGone(s) == mainPc # "run" /\ (s > 1 => stage[s - 1].pc \in Gone)

StageEnds(s) ==
    /\ At(s, "recv") /\ chan[s] = <<>> /\ SendersGone(s)
    /\ Set(s, "exit", 0)
    /\ UNCHANGED <<api, conc, mainPc, nextReq, chan, results, hurt, jobs, worker>>

\* The model is missing or run_stage returned Err: the request goes no further
StageFails(s) ==
    /\ At(s, "run")
    /\ hurt' = hurt \cup {stage[s].req}
    /\ Set(s, "recv", 0)
    /\ UNCHANGED <<api, conc, mainPc, nextReq, chan, results, jobs, worker>>

\* run_stage panics: the thread unwinds, its receiver and its messages with it
StagePanics(s) ==
    /\ At(s, "run")
    /\ hurt' = hurt \cup {stage[s].req} \cup {chan[s][i] : i \in DOMAIN chan[s]}
    /\ chan' = [chan EXCEPT ![s] = <<>>]
    /\ Set(s, "panicked", 0)
    /\ UNCHANGED <<api, conc, mainPc, nextReq, results, jobs, worker>>

\* Mutant: the result of a later stage replaces what was stored
Stored_replaced(s, r) == [results EXCEPT ![r] = <<s>>]

\* Under the lock: pushed to what the request has, or the first
Stored(s, r) == [results EXCEPT ![r] = Append(@, s)]

StageStores(s) ==
    /\ At(s, "run")
    /\ results' = Stored(s, stage[s].req)
    /\ Set(s, IF s < NumStages THEN "send" ELSE "recv", stage[s].req)
    /\ UNCHANGED <<api, conc, mainPc, nextReq, chan, hurt, jobs, worker>>

\* Mutant: a full channel loses the message
StageSends_try(s) ==
    /\ At(s, "send")
    /\ IF Room(s + 1) THEN Send(s + 1, stage[s].req) ELSE UNCHANGED <<chan, hurt>>
    /\ Set(s, "recv", 0)
    /\ UNCHANGED <<api, conc, mainPc, nextReq, results, jobs, worker>>

StageSends(s) ==
    /\ At(s, "send")
    /\ Send(s + 1, stage[s].req)
    /\ Set(s, "recv", 0)
    /\ UNCHANGED <<api, conc, mainPc, nextReq, results, jobs, worker>>

MainJoins ==
    /\ api = "concurrent" /\ mainPc = "join"
    /\ \A s \in Stages : stage[s].pc \in Gone
    /\ mainPc' = "done"
    /\ UNCHANGED <<api, conc, nextReq, chan, stage, results, hurt, jobs, worker>>

-----------------------------------------------------------------------------
\* generate_batch

Work(w, p, r) == worker' = [worker EXCEPT ![w] = [pc |-> p, req |-> r]]
KeepPipeline == UNCHANGED <<api, conc, nextReq, chan, stage, results>>

\* Mutant: the job is read and removed later
JobsLeft_kept == jobs

\* jobs after q.pop(), which takes the last one
JobsLeft == SubSeq(jobs, 1, Len(jobs) - 1)

PopJob(w) ==
    /\ worker[w].pc = "loop"
    /\ IF jobs = <<>>
       THEN Work(w, "exit", 0) /\ UNCHANGED jobs
       ELSE Work(w, "gen", jobs[Len(jobs)]) /\ jobs' = JobsLeft
    /\ KeepPipeline
    /\ UNCHANGED <<mainPc, hurt>>

\* generate(): nobody reads the channel until it returns, so a generation of more
\* messages than the channel holds never returns
Generate(w) ==
    /\ worker[w].pc = "gen"
    /\ \E messages \in {ChannelCap, ChannelCap + 1} :
        Work(w, IF messages <= ChannelCap THEN "collect" ELSE "stuck", worker[w].req)
    /\ KeepPipeline
    /\ UNCHANGED <<mainPc, hurt, jobs>>

\* rx.blocking_recv() inside block_on: tokio panics and the thread ends
Collect(w) ==
    /\ worker[w].pc = "collect"
    /\ hurt' = hurt \cup {worker[w].req}
    /\ Work(w, "panicked", worker[w].req)
    /\ KeepPipeline
    /\ UNCHANGED <<mainPc, jobs>>

BatchJoins ==
    /\ api = "batch" /\ mainPc = "run"
    /\ \A w \in BatchThreads : worker[w].pc \in Gone
    /\ mainPc' = "done"
    /\ KeepPipeline
    /\ UNCHANGED <<hurt, jobs, worker>>

StageStep(s) ==
    \/ Recv(s)
    \/ StageEnds(s)
    \/ StageFails(s)
    \/ StagePanics(s)
    \/ StageStores(s)
    \/ StageSends(s)
WorkerStep(w) == PopJob(w) \/ Generate(w) \/ Collect(w)
MainStep == Execute \/ MainSend \/ MainDrop \/ MainJoins \/ BatchJoins

MRNext ==
    \/ MainStep
    \/ \E s \in Stages : StageStep(s)
    \/ \E w \in BatchThreads : WorkerStep(w)

\* Every thread is scheduled, and run_stage and generate return
MRSpec ==
    /\ MRInit
    /\ [][MRNext]_mrVars
    /\ WF_mrVars(MainStep)
    /\ \A s \in Stages : WF_mrVars(StageStep(s))
    /\ \A w \in BatchThreads : WF_mrVars(WorkerStep(w))

-----------------------------------------------------------------------------
\* Properties

MRTypeOK ==
    /\ mainPc \in {"run", "join", "done"}
    /\ \A s \in Stages : chan[s] \in Seq(Requests) /\ Len(chan[s]) <= conc + 1
    /\ \A r \in Requests : results[r] \in Seq(Stages)
    /\ jobs \in Seq(Requests)

\* A request's results are stages 1, 2, ... in order and each once, wherever it
\* failed and however the stage threads interleave on the shared vector.
StagesInOrder == \A r \in Requests : \A i \in DOMAIN results[r] : results[r][i] = i

\* Requests do not overtake one another between stages.
NoOvertaking ==
    \A q, r \in Requests \ hurt :
        api = "concurrent" /\ q < r => Len(results[q]) >= Len(results[r])

\* When execute_concurrent returns, a request that no stage failed on has been
\* through all stages, although other requests failed, stages panicked and the
\* channels between them were full.
NoneLost ==
    api = "concurrent" /\ mainPc = "done" =>
        \A r \in Requests \ hurt : Len(results[r]) = NumStages

\* A job of generate_batch is held by one thread or still queued, never both, also
\* when threads panic.
JobOnce ==
    api = "batch" =>
        /\ \A v, w \in BatchThreads :
               v # w /\ worker[v].req # 0 => worker[v].req # worker[w].req
        /\ \A i \in DOMAIN jobs : \A w \in BatchThreads : worker[w].req # jobs[i]

\* What becomes of the requests of a call: in order through the stages, none lost but
\* by a stage that failed, and each job of a batch to one worker.
RequestInv == MRTypeOK /\ StagesInOrder /\ NoOvertaking /\ NoneLost /\ JobOnce

\* The call returns, whatever fails or panics and for every capacity of the
\* channels, 0 included, unless a generation filled the channel nobody reads.
CallReturns == <>(mainPc = "done" \/ \E w \in BatchThreads : worker[w].pc = "stuck")

\* Two statements of the comments that do not hold and that no configuration lists.
\* "processa até max_concurrency requests em paralelo": a batch that returns has a
\* result for some request.
BatchAnswers == api = "batch" /\ mainPc = "done" => \E r \in Requests : results[r] # <<>>

\* "AIMD budget - quantas reqs ativas simultaneamente": no more requests than
\* max_concurrency are inside the pipeline.
Active == {r \in Requests : \E s \in Stages :
              \/ stage[s].req = r /\ stage[s].pc \in {"run", "send"}
              \/ \E i \in DOMAIN chan[s] : chan[s][i] = r}
WithinBudget == api = "concurrent" /\ conc > 0 => Cardinality(Active) <= conc
=============================================================================
