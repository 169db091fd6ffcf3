------------------------------ MODULE DataPlane ------------------------------
(***************************************************************************)
(* The command queue (swamp-engine/src/control_plane.rs), the data plane   *)
(* that consumes it (data_plane.rs), and the producers that fill it: the   *)
(* Lua policy's gpu.tensor.create and gpu.commit (policy.rs) and direct    *)
(* callers of push.  Two kinds of consumer take commands: the threads that *)
(* start() spawns, and the owner of the DataPlane in process_sync().       *)
(*                                                                         *)
(* Push of a Commit is two steps (raise pending_frames, send); a pop is    *)
(* one step per try_recv under the receiver's lock; a batch is processed   *)
(* one command at a time.                                                  *)
(***************************************************************************)
EXTENDS ComputeGraph, Integers

CONSTANTS
    Producers,   \* threads that push commands
    Owner,       \* the thread that owns the DataPlane and its context
    None,        \* no thread
    MaxThreads,  \* bound: calls of start(), each of which spawns a thread
    Commands,    \* the commands that are pushed, besides Commit
    MaxSends,    \* bound: commands pushed in all
    MaxCalls     \* bound: calls of start, stop and process_sync by the owner

Threads == 1..MaxThreads
Consumers == Threads \cup {Owner}

VARIABLES
    chan,        \* the mpsc channel
    pending,     \* CommandQueue.pending_frames
    pushing,     \* producers that raised pending_frames and have not sent yet
    sent,        \* number of commands sent; the n of each is its place in the
                 \* channel's order, and the ResourceHandle of a create
    rxLock,      \* holder of the receiver's mutex
    batch,       \* per consumer: the commands it has taken and not yet handled
    pc,          \* per consumer: where it is
    running,     \* DataPlane.running
    handle,      \* DataPlane.thread: the thread stop() joins
    hasCtx,      \* DataPlane.ctx is Some (the GPU is there)
    store,       \* OpaqueHandleStore: handle |-> device_handle (0 = none)
    log,         \* history: <<n, consumer>> of every command handled, in order
    lost,        \* history: commands taken in a batch and never looked at
    calls        \* calls the owner has made

queueVars == <<chan, pending, pushing, sent>>
planeVars == <<running, handle, hasCtx, calls>>
vars == <<queueVars, rxLock, batch, pc, planeVars, store, log, lost, graphVars>>

\* What is pushed besides Commit: a TensorCreate for a location, its dimensions
\* within the four that dims holds or not (wide), a KernelDispatch on a set of
\* handles, a Shutdown, and "other": the commands no consumer looks at.
Command ==
    [k : {"create"}, loc : {"host", "device"}, wide : BOOLEAN]
        \cup [k : {"dispatch"}, kernel : {"gemv", "attention", "unknown"},
              bufs : SUBSET (1..MaxSends)]
        \cup [k : {"shutdown", "other"}]

ASSUME CommandsAssumption == Commands \subseteq Command /\ MaxSends \in Nat

\* The DataPlane owns its GpuComputeContext.
ASSUME OwnerAssumption == Owner \in Contexts

DataInit ==
    /\ chan = <<>> /\ pending = 0 /\ pushing = {} /\ sent = 0
    /\ rxLock = None
    /\ batch = [c \in Consumers |-> <<>>]
    /\ pc = [c \in Consumers |-> IF c = Owner THEN "idle" ELSE "unborn"]
    /\ running = FALSE /\ handle = None
    /\ hasCtx \in BOOLEAN
    /\ store = [h \in {} |-> 0]
    /\ log = <<>> /\ lost = {} /\ calls = 0
    /\ GraphInit

-----------------------------------------------------------------------------
\* Producers

Send(cmd) ==
    /\ sent' = sent + 1
    /\ chan' = Append(chan, [n |-> sent + 1, cmd |-> cmd])

\* push of anything but a Commit, or the same through the channel end that sender()
\* hands out (nothing in the repository asks for one, so no Commit goes around the
\* counter that way); a create takes ResourceHandle::new()
Push(cmd) ==
    /\ sent + Cardinality(pushing) < MaxSends
    /\ Send(cmd)
    /\ UNCHANGED <<pending, pushing, rxLock, batch, pc, planeVars, store, log, lost, graphVars>>

\* Mutant: the producer does not count its frame
CountFrame_missing(p) ==
    /\ p \notin pushing
    /\ sent + Cardinality(pushing) < MaxSends
    /\ pushing' = pushing \cup {p}
    /\ UNCHANGED pending

\* push of a Commit: pending_frames is raised first ...
CountFrame(p) ==
    /\ p \notin pushing
    /\ sent + Cardinality(pushing) < MaxSends
    /\ pushing' = pushing \cup {p}
    /\ pending' = pending + 1

PushCommit(p) ==
    /\ CountFrame(p)
    /\ UNCHANGED <<chan, sent, rxLock, batch, pc, planeVars, store, log, lost, graphVars>>

\* ... and then the command is sent
SendCommit(p) ==
    /\ p \in pushing
    /\ pushing' = pushing \ {p}
    /\ Send([k |-> "commit"])
    /\ UNCHANGED <<pending, rxLock, batch, pc, planeVars, store, log, lost, graphVars>>

-----------------------------------------------------------------------------
\* Taking a batch

\* pop_frame_batch (threads) and pop_all (the owner) take the receiver's lock
LockReceiver(c) ==
    /\ pc[c] = "lock"
    /\ rxLock = None
    /\ rxLock' = c
    /\ pc' = [pc EXCEPT ![c] = "pop"]
    /\ UNCHANGED <<queueVars, batch, planeVars, store, log, lost, graphVars>>

\* Mutant: the Commit that empties the count ends the batch before it is kept
Taken_short(c) ==
    IF Head(chan).cmd.k = "commit" /\ c # Owner /\ pending = 1
    THEN batch[c] ELSE Append(batch[c], Head(chan))

\* Mutant: the batch is kept newest first
Taken_stack(c) == <<Head(chan)>> \o batch[c]

Taken(c) == Append(batch[c], Head(chan))

\* The last counted frame ends the batch of a thread: prev == 1
LastFrame(c) == Head(chan).cmd.k = "commit" /\ c # Owner /\ pending = 1

\* After a batch a thread looks at running again, and process_sync returns
After(c, rest) ==
    [pc EXCEPT ![c] = IF rest # <<>> THEN "run" ELSE IF c = Owner THEN "idle" ELSE "top"]

\* try_recv returned a command.  pop_all takes a Commit without lowering
\* pending_frames.
PopOne(c) ==
    /\ pc[c] = "pop"
    /\ chan # <<>>
    /\ chan' = Tail(chan)
    /\ batch' = [batch EXCEPT ![c] = Taken(c)]
    /\ pending' = IF Head(chan).cmd.k = "commit" /\ c # Owner THEN pending - 1 ELSE pending
    /\ IF LastFrame(c)
       THEN rxLock' = None /\ pc' = [pc EXCEPT ![c] = "run"]
       ELSE UNCHANGED <<rxLock, pc>>
    /\ UNCHANGED <<pushing, sent, planeVars, store, log, lost, graphVars>>

\* Mutant: an empty batch returns with the lock still held
PopUnlock_nonempty(c) == IF batch[c] = <<>> THEN rxLock ELSE None

PopUnlock(c) == None

\* try_recv returned Empty: the lock is released.  An empty batch is no work,
\* and a batch of process_sync is dropped when there is no GPU context.
PopDone(c) ==
    /\ pc[c] = "pop"
    /\ chan = <<>>
    /\ rxLock' = PopUnlock(c)
    /\ IF c = Owner /\ ~hasCtx
       THEN /\ lost' = lost \cup {batch[c][i].n : i \in DOMAIN batch[c]}
            /\ batch' = [batch EXCEPT ![c] = <<>>]
       ELSE UNCHANGED <<lost, batch>>
    /\ pc' = After(c, batch'[c])
    /\ UNCHANGED <<queueVars, planeVars, store, log, graphVars>>

-----------------------------------------------------------------------------
\* Handling one command

Next1(c) == Head(batch[c]).cmd
Num(c) == Head(batch[c]).n

Handled(c) ==
    /\ pc[c] = "run"
    /\ batch[c] # <<>>
    /\ log' = Append(log, <<Num(c), c>>)

Advance(c) ==
    /\ batch' = [batch EXCEPT ![c] = Tail(@)]
    /\ pc' = After(c, batch'[c])
    /\ UNCHANGED lost

\* The rest of the batch is never looked at
Abandon(c) ==
    /\ batch' = [batch EXCEPT ![c] = <<>>]
    /\ lost' = lost \cup {batch[c][i].n : i \in 2..Len(batch[c])}

\* TensorCreate: allocate (the result is not looked at) and register the device
\* handle: 0 for host memory, for the host fallback of an allocator without a
\* device, and for a device allocation that failed.  What the allocation does
\* to the arena is modelled in HostArena.
Create(c) ==
    /\ Handled(c)
    /\ Next1(c).k = "create" /\ ~Next1(c).wide
    /\ Advance(c)
    /\ \E dev \in (IF Next1(c).loc = "device" THEN {0, Num(c)} ELSE {0}) :
        store' = [h \in DOMAIN store \cup {Num(c)} |-> IF h = Num(c) THEN dev ELSE store[h]]
    /\ UNCHANGED <<queueVars, rxLock, planeVars, graphVars>>

\* A create of more than four dimensions slices past dims and panics: the
\* thread ends, or process_sync unwinds into the drop of the DataPlane
CreatePanics(c) ==
    /\ Handled(c)
    /\ Next1(c).k = "create" /\ Next1(c).wide
    /\ Abandon(c)
    /\ pc' = [pc EXCEPT ![c] = IF c = Owner THEN "unwind" ELSE "dead"]
    /\ running' = IF c = Owner THEN FALSE ELSE running
    /\ UNCHANGED <<queueVars, rxLock, handle, hasCtx, calls, store, graphVars>>

\* resolve_buf: every buffer is registered and has a device handle
Resolved(bufs) == \A h \in bufs : h \in DOMAIN store /\ store[h] # 0

\* KernelDispatch: a thread only logs it; with a context a known kernel whose
\* buffers all resolve becomes a node, any other is skipped
Dispatch(c) ==
    /\ Handled(c)
    /\ Next1(c).k = "dispatch"
    /\ Advance(c)
    /\ IF c = Owner /\ Next1(c).kernel # "unknown" /\ Resolved(Next1(c).bufs)
       THEN AddCounted(c, Node(Num(c), Next1(c).kernel, {}))
       ELSE UNCHANGED graphVars
    /\ UNCHANGED <<queueVars, rxLock, planeVars, store>>

\* Commit: with a context submit_and_wait, then reset_graph (count only)
Commit(c) ==
    /\ Handled(c)
    /\ Next1(c).k = "commit"
    /\ Advance(c)
    /\ IF c = Owner THEN SubmitAndWait(c) ELSE UNCHANGED graphVars
    /\ UNCHANGED <<queueVars, rxLock, planeVars, store>>

\* Shutdown returns from the batch; the thread's loop goes on
Shutdown(c) ==
    /\ Handled(c)
    /\ Next1(c).k = "shutdown"
    /\ Abandon(c)
    /\ pc' = After(c, <<>>)
    /\ UNCHANGED <<queueVars, rxLock, planeVars, store, graphVars>>

\* Upload, Download and Free fall through
Ignore(c) ==
    /\ Handled(c)
    /\ Next1(c).k = "other"
    /\ Advance(c)
    /\ UNCHANGED <<queueVars, rxLock, planeVars, store, graphVars>>

Handle(c) ==
    \/ Create(c)
    \/ CreatePanics(c)
    \/ Dispatch(c)
    \/ Commit(c)
    \/ Shutdown(c)
    \/ Ignore(c)

-----------------------------------------------------------------------------
\* The loop of a thread, and the owner's calls

\* Mutant: the loop looks at running only when the queue is empty
KeepsGoing_busy == running \/ chan # <<>> \/ pushing # {} \/ sent < MaxSends

KeepsGoing == running

ThreadTop(t) ==
    /\ pc[t] = "top"
    /\ pc' = [pc EXCEPT ![t] = IF KeepsGoing THEN "lock" ELSE "exited"]
    /\ UNCHANGED <<queueVars, rxLock, batch, planeVars, store, log, lost, graphVars>>

OwnerCalls ==
    /\ pc[Owner] = "idle"
    /\ calls < MaxCalls
    /\ calls' = calls + 1

\* start: a second call replaces the handle, so the first thread is detached
Start(t) ==
    /\ OwnerCalls
    /\ pc[t] = "unborn" /\ \A u \in Threads : u < t => pc[u] # "unborn"
    /\ running' = TRUE
    /\ handle' = t
    /\ pc' = [pc EXCEPT ![t] = "top"]
    /\ UNCHANGED <<queueVars, rxLock, batch, hasCtx, store, log, lost, graphVars>>

\* stop: running is cleared, then the joined thread is waited for
Stop ==
    /\ OwnerCalls
    /\ running' = FALSE
    /\ pc' = [pc EXCEPT ![Owner] = "join"]
    /\ UNCHANGED <<queueVars, rxLock, batch, handle, hasCtx, store, log, lost, graphVars>>

Joined == \A t \in Threads : handle = t => pc[t] \in {"exited", "dead"}

StopReturns ==
    /\ pc[Owner] = "join"
    /\ Joined
    /\ handle' = None
    /\ pc' = [pc EXCEPT ![Owner] = "idle"]
    /\ UNCHANGED <<queueVars, rxLock, batch, running, hasCtx, calls, store, log, lost, graphVars>>

\* The unwinding owner drops the DataPlane: stop(), and no call afterwards
Unwind ==
    /\ pc[Owner] = "unwind"
    /\ Joined
    /\ handle' = None
    /\ pc' = [pc EXCEPT ![Owner] = "gone"]
    /\ UNCHANGED <<queueVars, rxLock, batch, running, hasCtx, calls, store, log, lost, graphVars>>

\* process_sync
ProcessSync ==
    /\ OwnerCalls
    /\ pc' = [pc EXCEPT ![Owner] = "lock"]
    /\ UNCHANGED <<queueVars, rxLock, batch, running, handle, hasCtx, store, log, lost, graphVars>>

Consume(c) ==
    \/ LockReceiver(c)
    \/ PopOne(c)
    \/ PopDone(c)
    \/ Handle(c)
    \/ c \in Threads /\ ThreadTop(c)

OwnerFinishes == StopReturns \/ Unwind

DataNext ==
    \/ \E cmd \in Commands : Push(cmd)
    \/ \E p \in Producers : PushCommit(p) \/ SendCommit(p)
    \/ \E c \in Consumers : Consume(c)
    \/ \E t \in Threads : Start(t)
    \/ Stop
    \/ OwnerFinishes
    \/ ProcessSync

\* The producer finishes a push it has begun; a consumer that has work and a
\* joiner whose thread has ended are scheduled
DataSpec ==
    /\ DataInit
    /\ [][DataNext]_vars
    /\ \A p \in Producers : WF_vars(SendCommit(p))
    /\ \A c \in Consumers : WF_vars(Consume(c))
    /\ WF_vars(OwnerFinishes)

-----------------------------------------------------------------------------
\* Properties

\* The frames in the channel
Frames == {chan[i].n : i \in {i \in DOMAIN chan : chan[i].cmd.k = "commit"}}

PlaneTypeOK ==
    /\ Len(chan) <= sent /\ sent <= MaxSends
    /\ pending \in Nat
    /\ rxLock \in Consumers \cup {None}
    /\ pc \in [Consumers -> {"idle", "unborn", "top", "lock", "pop", "run",
                               "join", "unwind", "gone", "exited", "dead"}]
    /\ DOMAIN store \subseteq 1..sent

\* pending_frames never wraps below zero and never under-reports the frames in
\* the channel: push counts a Commit before it sends it, whatever consumers do
\* in between, so fetch_sub always finds at least the frame it takes.
PendingCoversFrames == pending >= Cardinality(Frames) + Cardinality(pushing)

NumbersOf(s) == {s[i].n : i \in DOMAIN s}
Queued == NumbersOf(chan)
Batched == UNION {NumbersOf(batch[c]) : c \in Consumers}
Logged == {log[i][1] : i \in DOMAIN log}

\* Every command sent is, at every moment, in exactly one place: the channel,
\* one consumer's batch, handled once, or given up with its batch.  Two
\* consumers that race for the channel neither duplicate nor forget one.
EachCommandOnce ==
    /\ Queued \cup Batched \cup Logged \cup lost = 1..sent
    /\ Queued \cap (Batched \cup Logged \cup lost) = {}
    /\ Batched \cap (Logged \cup lost) = {}
    /\ Logged \cap lost = {}
    /\ \A i, j \in DOMAIN chan : chan[i].n = chan[j].n => i = j
    /\ \A i, j \in DOMAIN log : log[i][1] = log[j][1] => i = j
    /\ \A c, d \in Consumers : \A i \in DOMAIN batch[c], j \in DOMAIN batch[d] :
            batch[c][i].n = batch[d][j].n => c = d /\ i = j

\* One consumer handles commands in the order of the channel, and a swap of two
\* commands is only ever the work of two consumers that held batches at once
\* (a second start(), or process_sync() beside the thread).
OrderPerConsumer ==
    \A i, j \in DOMAIN log :
        (i < j /\ log[i][1] > log[j][1]) => log[i][2] # log[j][2]

\* The graph the owner fills holds exactly the nodes its context counted, so a
\* Commit submits all of them and never an empty graph.
GraphIsCounted == Len(nodes) = nodeCount[Owner]

\* The queue and its consumers: the statements above, for every interleaving of
\* producers, direct senders, threads and the owner.
PlaneInv ==
    /\ PlaneTypeOK
    /\ PendingCoversFrames
    /\ EachCommandOnce
    /\ OrderPerConsumer
    /\ GraphIsCounted

\* A thread that was started, not stopped and not killed by a command gets to
\* every command that was sent.
CommandsHandled ==
    \A n \in 1..MaxSends :
        sent >= n ~> \/ n \in Logged \cup lost
                     \/ ~running
                     \/ \A t \in Threads : pc[t] \in {"unborn", "dead", "exited"}

\* stop() returns: the thread leaves its loop however full the queue is.
StopTerminates == pc[Owner] \in {"join", "unwind"} ~> pc[Owner] \in {"idle", "gone"}
=============================================================================
