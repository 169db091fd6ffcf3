# Verification of Nyion.rs

TLA+ models of the inference engine and server in `src/`, the TLC runs that
check them on small instances, and proofs checked by TLAPS. `PROJECT.json` maps
every definition to the lines it models and lists runs, mutants, findings,
hazards and theorems.

## 1. Inventory

| Component | State | Operations | Interacts with | Hard behaviour |
|---|---|---|---|---|
| Paged KV cache (`swamp-engine/src/cache.rs`) | pages by zone (hot, cold slot), LRU links, hot counts, importance, slots and cursor of the cold file, Q4 and FP32 contents, current position | `ensure_pages_hot(_f32)`, `save`, `save_at`, `record_importance`, `reset_entropy`, `advance`, `reset` | executor, attention (`ops.rs`), a file | hand-kept links and counters, eviction in the middle of a range, two copies of the data |
| Cold file | one file per process | open, write slot, read slot | the caches of all generations | shared by concurrent generations |
| HTTP server (`swamp-server/src/main.rs`, `scheduler.rs`, `metrics.rs`) | priority queue, batch, tasks, channels, gauges | `/generate`, `/generate-stream`, batcher loop | breaker, executor, clients | check-then-push, disconnects, failures in spawned tasks, bounded channels |
| Circuit breaker (`circuit_breaker.rs`) | failure count, open flag, timers | `record_success`, `record_failure`, timer | handlers | two atomics, overlapping timers |
| Generation (`executor.rs::generate`) | token loop, rayon pool of 6 threads | prefill, decode, send words and trailers | cache, channel, pool | blocking sends on pool threads, work stealing |
| Hybrid clock (`hlc.rs`) | wall clock calibration, last wall, last logical | `now`, `witness`, `recalibrate` | profiler | two atomics, one compare-exchange |
| `generate_batch` (`executor.rs`), pipeline (`pipeline.rs`) | job stack, worker threads, a channel per worker; stage threads, bounded channels, results | `execute`, `execute_concurrent`, `generate_batch` | models, `generate` | channel read only after generation, requests dropped by failing stages, joins |
| Command queue, data plane (`control_plane.rs`, `data_plane.rs`), commands of the Lua policy | channel, pending frames, resource store, running flag, threads | `push`, `pop_all`, `pop_frame_batch`, `start`, `stop`, `process_sync`, drop | allocator, compute graph | counter and channel are not atomic, several consumers, panics, shutdown |
| GPU layer state and compute graph (`scheduler.rs`, `swamp-gpu/src/lib.rs`, `compute_graph.rs`) | residency of weights, device KV ring, graph nodes and their count | upload, attention, gemv, submit and wait, prefetch | executor, Vulkan | partial uploads, failed launches, nodes left over |
| Weight streaming (`swamp-gpu/src/streaming`, `streamer.rs`) | three slots, timeline, prefetch queue | prefetch, wait, release, drop | shard file, Vulkan | slots kept by failures, waits that time out |
| Governor, registry, swapper, SwampVM | sessions, use counts, tiers, recency order, ring of opcodes | register, unregister, touch, cycle, check_swap, dispatch | AIMD, power | acquire and release by different paths, two locks |
| AIMD, power, thermal; worker and pipeline tokens | budget, fractions, derived sizes; a counter | assess, reassess; acquire, drop | executor, governor | separate rate limits; compare-exchange |
| DSpark (`dspark.rs`) | ring of observations, logit cache, counters, a file | observe, draft, select positions, predict pages, speculate, save, load | executor | ring order, crash in a save, positions of another generation |
| Virtual NPU (`vnpu.rs`) | moving average, suggested threads | record, reset | linear layers | lock-free update by many threads |
| Sampler, GGUF reader, model loading, experts | none between calls | sample; resolve a key, slice a tensor, group layers | a mapped file | boundaries |
| Linear layers, fused kernels, dequantizers | outputs written by many threads | `forward_*`, `fused_gemv_*`, `dequantize` | rayon | raw pointers, addressing repeated by hand |
| Host arena (`swamp-tensors/src/hma.rs`) | blocks, bump offset | allocate, drop, reset | data plane | boundaries, reset |
| Tensor operations, training, MoE, ACE, tokenizer, chat template, shaders, tools | none, or numerical | | | arithmetic or text only |

What makes the modelled components correct:

* **Paging.** Each zone's links form a doubly linked list of exactly its hot
  pages; the counter counts them; a cold page owns its slot and finds its own
  image there; the pages a caller ensured are in RAM when the call returns.
* **Contents.** What was saved last at a position is what attention reads,
  through evictions, reloads and FP32 copies. (Not of a page whose cold image a
  page of another zone was written into, which the code allows.)
* **Server.** A request that was accepted is in exactly one place and its client
  gets an end of stream; the queue is bounded; gauges return to what they count.
* **Breaker.** It opens at the threshold and always closes again.
* **Clock.** Timestamps of one clock are ordered.
* **Data plane.** A command goes to one consumer, in order, and is handled while
  somebody consumes; frames are never under-counted; `stop` returns.
* **GPU and streaming.** What counts as loaded is; no output of a decoded layer is
  left unwritten, and the host computes it when there is no device or its queue
  refused; slots, queue and answers agree. (That the device computed what is read
  back from it does not hold.)
* **Several requests.** Each passes the stages in order, is lost only by a stage
  that failed, and the call returns.
* **Governor.** Use counts do not exceed the sessions; of the opcodes waiting when a
  session ends at most one still runs; the budget keeps to its bounds, reacts to stress and recovers.
* **Decoding.** The draft ring is the history, its file whole, cached logits are
  those of their pair, a sample is from the nucleus, the average is the fold of
  the times swapped in.
* **Kernels and files.** Threads share out the rows, elements are paired with
  their own quanta, slices are their own tensors.

## 2. Modules

| Module | Models | State and actions |
|---|---|---|
| `KVPages` | paging in `cache.rs` | The fields of `CacheZone` and the cold-file fields of `PagedKVCache`. A call of `ensure_pages_hot` is unfolded: `EnsureTouch` (the page is hot), `EnsureRoom` (limit check), `EvictScan` (one page of the scan per step), `EvictWrite`, `EnsureAlloc`, `EnsureReload`. The cold file records by unit of space which page was written there, so that overlapping slots show. |
| `LruCache` | what paging promises | A recency sequence per zone: use, enter, give up. |
| `KVPagesLru` | extends `KVPages` | No state or actions of its own: maps the links of `KVPages` to the sequences of `LruCache`. |
| `KVData` | contents, extends `KVPages` | Q4 blocks (header and nibble bits), FP32 copies, position. `save`, `save_at`, attention of the prefill (chunk by chunk) and of decoding (with skipped layers and prefetched pages), `advance`, `reset`; each paging step gets its effect on data. `torn` remembers pages into whose image a page of another zone was written. |
| `SharedColdFile` | one file, many caches | Each generation has its page states and slot record; the file is shared. |
| `CircuitBreaker` | `circuit_breaker.rs` | Each atomic access is a step; timers sleep, close, then clear. |
| `Server` | `main.rs`, `scheduler.rs`, `generate` as seen from outside; extends `CircuitBreaker` | A handler per request with a program counter, the heap, the batch, a task per request, a stack of generations per pool thread. |
| `HybridClock` | `hlc.rs` | Threads inside `now()` and `witness()`, one atomic access per step; `recalibrate` needs the clock to itself (`&mut self`). |
| `ComputeGraph` | `compute_graph.rs`, `submit_and_wait` | Nodes in a graph, the count kept by the context, the command buffer with its barriers. Used by the next two. |
| `DataPlane` | `control_plane.rs`, `data_plane.rs`, the closures of `policy.rs` that push; extends `ComputeGraph` | A push of a commit is two steps (count, send). A consumer locks the receiver, takes one command per step, unlocks, and handles its batch command by command; the owner starts, stops, joins, drains. |
| `GpuLayers` | `scheduler.rs`, the GPU branches of `executor.rs`; extends `ComputeGraph` | Prefill attention in chunks, then per token and layer: ensure, projections, attention, prefetch. Uploads, submissions and waits fail by choice. `fence` is that of the graph, which a refused submission loses; `origin` says of each output whether the CPU wrote it or it was copied from the device's buffers. Nothing is said of what those held. |
| `WeightStream` | `streamer.rs`, `swamp-gpu/src/streaming` | Slots, timeline values, prefetch by layer, window or draft confidence; wait, release, drop. |
| `MultiRequest` | `pipeline.rs`, `generate_batch` | `api` says which function is called. Stages with channels of `conc` places (0: a rendezvous); workers with a stack of jobs. |
| `Budget` | what `aimd.rs` promises | The budget halves, doubles or stays. |
| `ResourceRamp` | `aimd.rs`, `power_arbiter.rs`, `thermal.rs`, the cycles of governor and executor; extends `Budget` | One action per cycle, with sensor readings and lost assessments chosen. |
| `Governor` | `governor.rs`, `model_registry.rs`, `model_swapper.rs`, `swamp_vm.rs`; extends `Budget` | Sessions, registry, recency order; opcodes in a ring, dispatched in two steps between which sessions may change; `late` counts those that ran after that. |
| `TokenPool` | `CognitiveWorkerPool`, `PipelineToken` | Load, exchange, retry, drop. |
| `Drafting` | ring, drafting and file of `dspark.rs`, position choice of `fugu.rs` | Observe (the first token after a longer prompt without counting it), draft, predict; save in three steps with a crash between any two; load by the next generation. |
| `Speculation` | logit cache and `speculate` of `dspark.rs` | Insert, clear, look up; a step with its outcomes. |
| `Sampler` | `sampler.rs` | Integer weights for probabilities, NaN as a value of its own. |
| `VirtualNpu` | `vnpu.rs` | Each atomic access of `record` and `reset` is a step. |
| `ModelFile` | `mmap.rs`, `tensor_info.rs`, `metadata.rs`, `model.rs`, `virtual_experts.rs` | Operators over a chosen file; no actions. |
| `Gemv` | `linear.rs` and the row loops of the kernels | A call splits the rows over threads; a thread computes a row per step. An output is the set of calls whose product it holds. |
| `QuantBlocks` | `swamp-gguf/src/quant`, the inner loops of the fused kernels | For each format the bits read for an element; for each kernel the quantum, scale and minimum paired with an element. |
| `HostArena` | `hma.rs` | Allocate, allocate and drop, drop, reset. |
| `MC*` | values of constants; `MCGpu`, `MCGovernor` and `MCDecode` put programs or parts that share no state side by side, one of which moves in a behaviour | |
| `*Proofs` | theorems (section 5) | |

Operators described as faulty variants are mutants: `PROJECT.json` names the
definition each replaces and the property that must then fail.

Invariants of a component are conjunctions of named parts (`PlaneInv`, `GpuInv`,
`StreamInv`, `RequestInv`, `GovernorInv`, `RampInv`, `DsparkInv`, `NpuInv`,
`ModelFileInv`, `KernelInv`, `DataInv`, `CountersInv`, `HotPagesBounded`); each
part has its comment, and a mutant that breaks it.

Abstractions. Vectors are model values with a set of nibble bits; quantization
error is not modelled. Page sizes are in units of file space. Importance is a
small natural number. Prompts and words are counted, not spelled. That a handler is dropped when its client disconnects is
axum's doing, and external to the repository. A pool thread
that waits inside a parallel loop may take up another generation (rayon's work
stealing). Memory accesses are sequentially consistent, which is what x86 gives
the locked instructions used here; the delayed visibility of a plain store is
covered by the store being a step of its own. I/O errors and failed allocations
end the process in the code (`expect`, `panic!`) and are left out.

## 3. Runs

Passing runs:

| Run | Checks | Instance |
|---|---|---|
| `KVPages_paging` | types, lists, counts, RAM limit, slots, cold images, the ensured window, calls return, refinement of `LruCache` | one zone of 4 pages, 3 in RAM, 2 slots, scan depth 2 so that the scan leaves a page out, ranges up to 4 pages |
| `KVData` | saved vectors survive, FP32 only while hot, slots shared by zones, what a decoded sequence attends to | 7 positions, 2 layers, three zones with blocks of 1, 2 and 4 positions, 1 page in RAM each, and the third cut short within its block; 3 slots, each zone writing at its own stride; decoding from position 0, or a prompt of 5 in chunks of 2; a layer of one token skipped; every layer and position has its own vector |
| `Server_safety` | breaker timers and trips, queue bound, one place, counters and gauges | 3 requests (a stream, a long prompt, a plain one), 2 pool threads (symmetric), queue limit 1, batches of 2, breaker threshold 2 |
| `Server_live` | every accepted request is answered or abandoned, the breaker closes | 2 requests, a trailer longer than the channel's spare room, threshold 1 |
| `HybridClock` | order of walls, strict order of calls that do not overlap, monotonic wall clock | 2 threads (symmetric), 4 calls of `now` or `witness`, a 2-bit counter so that it wraps, two scales |
| `DataPlane` | counts, single handling and order of commands, the graph; commands get handled, `stop` returns | a producer that counts its commits beside direct senders, 3 commands of 6 kinds, 2 threads, 2 calls of the owner |
| `GpuWeights` | residency, graph, barriers, outputs written and fallback after a refused submission; slots, queue, answers | 2 layers, a prompt of 3 in chunks of 2 and a decoded token, a ring of 2 positions; 3 streamed layers of 2 tensors (one absent, one too big), 5 timeline values |
| `Governor` | counts, opcodes, ramp, tokens; refinement of `Budget`; late opcodes; recovery; of the calls that run several requests: order, loss, overtaking, jobs, return | 2 models of 30 and 10 in 40 units of VRAM, 2 sessions, 2 opcodes, a slot; 3 temperatures; 3 threads for 2 tokens; 3 requests, 3 stages, capacities 0, 1 and 2, stages failing or panicking at any point |
| `Decode` | the rest of section 2, part by part | a ring of 3 with 5 observations, saves every 2; a logit cache of 2 with 5 insertions; 4 tokens of weight 0 to 2 or NaN; 2 recorders with 3 records; files of up to 4 layers; up to 3 rows and 3 threads; offsets up to 64; 3 allocations in blocks of 4; every block format and kernel |

The bounds are the smallest in which the case of interest happens: a zone with
more pages than RAM and an eviction scan shorter than the zone; a slot that is
given back and used again; a batch smaller than the queue; a generation stacked
on another; a timer that outlives the opening it was made for. Counters that
grow for ever in the code are capped by a named constant in a guard
(`MaxImportance`, `MaxRange`, `MaxFailures`, `MaxTimers`, `MaxTsc`, `MaxCalls`,
`MaxSends`, `MaxTimeline`, `MaxSessions`, `MaxGen`, `MaxOps`, `MaxSlots`,
`MaxObservations`, `MaxInserts`, `MaxRecords`, `MaxAllocations`).
Deadlock checking is off where the program may stop: when the bounds are
reached, every generation has ended, the data plane was dropped, or a call has
returned.  For the data plane and the pipeline, where a deadlock is a real
danger, `StopTerminates` and `RequestsReturn` say what must not be waited for.

Three runs end in a violation and show where the code and its own comments
disagree; each has a finding in `PROJECT.json`:

| Run | What it shows |
|---|---|
| `SharedColdFile` | concurrent generations overwrite each other's cold pages |
| `GpuWeights_device` | the nodes of a projection are not counted, so nothing is submitted (`lib.rs:480`); the scratch buffers are read back and taken for the device's answer (`scheduler.rs:211`), although the call is to return false when there is none |
| `Kernels_simd` | the AVX2 and VNNI kernels of Q4_K pair elements with other quanta than the scalar kernel and the dequantizer |

Further configurations reproduce disagreements found earlier; each ends in a
violation of the property it names:

| Command | What it shows |
|---|---|
| `tlc -config KVPages_overlap.cfg MCKVPages` | pages of different sizes write their slots at different strides (`cache.rs:451`), although `cache.rs:260-261` sizes slots so that "any zone's page fits": `ColdImagesIntact` |
| `tlc -config KVPages_range.cfg MCKVPages` | a range longer than the RAM limit is not hot when the call returns (`ops.rs:486` says "Ensure all needed pages are hot"): `EnsuredRangeIsHot` |
| `tlc -config KVData_prefill_f32.cfg MCKVData` | `save_at` leaves a stale FP32 copy for later layers of a prefill: `AttentionReadsSaved` |
| `tlc -config HybridClock_race.cfg MCHybridClock` | two threads get the same timestamp (`hlc.rs:172` says it is greater than any before): `StrictlyAfter` |

`reset` has no caller in the repository but a test, and is in no configuration. With
`SPECIFICATION ReuseSpec` in `KVData.cfg` TLC shows that old and new nibbles are
ORed together after it (`DataInv`).

Statements of comments that the modules define and that do not hold, without a
configuration: `AttentionComputed` (`GpuLayers`: the attention of a prefill has no
fallback when the device fails), `BatchAnswers` (`MultiRequest`: `blocking_recv`
inside `block_on` panics, so a batch answers nothing), `WithinBudget`
(`MultiRequest`: the channels hold requests beyond `max_concurrency`),
`EvictsIdle` (`Governor`: the victim of a swap may be in use), `OutputIsProduct`
(`Gemv`: the VNNI kernel adds to what the buffer held), `PositionsAreOurs`
(`Drafting`: a loaded ring brings positions of another generation),
`AnsweredInFull` (`Server`: a failed generation is answered 200, and `main.rs:145`
says after all tokens).

Smaller disagreements met on the way: the queue is checked with `> 20` before it
is pushed to, so it holds more than the 20 the comment allows (`QueueBounded`
says how many more); `tokens_generated` rises by `max_tokens` whatever was
generated; `witness` drops the logical part of a timestamp from the future;
`pop_all` does not lower `pending_frames`; the boost of `prefetch_k` is
overwritten by `scaled_k` in the same cycle (`executor.rs:551-557`); opcodes that
are dropped as stale never answer their `result_tx`, and the GPU path of the VM
is not reachable; no command buffer holds a dispatch, so that nothing writes the
scratch buffers (`compute_graph.rs:114-192`); `fallback_gemv` takes whatever is not
Q6_K for Q4_K (`linear.rs:459`), and with few rows of a dense matrix for the number
of threads `re - rs` underflows (`linear.rs:203`), both of which `KernelInv`
excepts; the logit cache returns the older logits of a pair inserted twice, while
those are in it (`dspark.rs:303`); `upload_slot` keeps its slot when it fails, and signals no
semaphore when it succeeds; a `llama.*` key is preferred to the model's own.

## 4. Fairness

* Paging: weak fairness of the steps inside a call. A call runs on its caller's
  thread and nothing in it waits.
* Breaker, inside the server: a report is part of its handler, and timers are
  weakly fair because tokio wakes every sleeper.
* Server: weak fairness of handlers past their first check, the batcher (wakes
  every 50 ms), tasks, pool threads, and of clients that are reading. The last
  one is an assumption about clients: one that neither reads nor disconnects
  holds a pool thread, because `generate` sends more trailing messages than its
  channel has room for. No fairness for failures or disconnects.
* Data plane (`DataSpec`): weak fairness of a producer between its count and its
  send, of every consumer inside its loop and of the owner inside `stop`: they
  are running threads, and the loop polls. None for the owner's decision to
  start, stop or drain.
* Several requests (`MRSpec`, and the same in `MCGovernor`): weak fairness of the
  caller and of each stage and worker thread; none for failures and panics.
* Governor: weak fairness of the cycle, which a caller repeats every half second.
* Streaming, GPU and the parts of decoding: only safety.
* Clock: only safety. With unboundedly many callers a thread may lose every
  compare-exchange, so no call is guaranteed to return.

## 5. Proofs

TLAPS checks the theorems below for every value of the constants that satisfies
the named assumptions of the modules. Those only give constants their types and
say that bounds are positive, rings not empty and so on (`KVPagesAssumption`,
`KVDataAssumption`, `ServerAssumption`, `RampAssumption`, ...); TLC evaluates them
in the runs. Where a theorem needs more, it says so in its hypotheses, which
are discussed here. No invariant of the runs was inductive as it stands; each
entry says what had to be added.

**`KVPagesProofs`**, paging for any zones, RAM limit and cold store:

* `TypeCorrect`, `LruListsWellFormed`. Unlinking a page is only right for a page
  that is in its zone's list, and the scan holds pages across steps. `IInv` adds
  that pages of a zone are pushed in order, that a call that inserts works on a
  page that is not hot, and that the scan's candidate and cursor are hot pages
  of its zone.
* `RamLimitKept`: hot counts are exact and within the RAM limit.
* `SlotsStayOwned`, `ColdImagesKept`, for a cold store with a slot to spare when
  every page is in use (`SlotsSuffice`). A reload evicts a page *before* it
  gives back its own slot, so for a moment one slot more is taken than there are
  pages beyond the RAM limit. The default `cold_capacity`, `total_pages` less the
  limit (`cache.rs:133-142`), is one short of that for a cache that fills every
  page; it suffices for any sequence that leaves a page unused. `ColdImagesKept`
  also assumes that slots are written at one stride; without that it fails, as
  `KVPages_overlap.cfg` shows.

* `PagesImplementLru`: paging refines `LruCache`. The mapping (`KVPagesLru`) numbers
  the hot pages of a zone by following `lru_next` and reads the sequence off. Its
  invariant `LruInv` (`LruInvariance`) joins `IInv` and `CountInv`, which make that
  sequence the hot pages once each, with two parts: absent pages have no
  importance (`LightInv`), so that a page enters the sequence with the weight
  `LruCache` gives it, and an eviction scan under way stands at a known place of
  the sequence with the cheapest page behind it (`ScanInv`), so that its end is
  the victim `LruCache` chooses at once.
* `EnsuredWindowStaysHot`: while no importance was recorded, the last pages of a range, as many
  in a zone as the RAM limit, are hot when the call returns. `WindowInv` says that a
  page ensured by the running call has at most as many pages before it in the
  recency order as pages of its zone were ensured after it; an eviction takes the last page.

**`KVDataProofs`**, contents, on top of the former:

* `ContentsKept`, `DecodingReadsSaved`: what was saved last is what a block decodes
  to and what decoding attends to, in behaviours where evictions find a free
  slot (`SlotLeft`, a condition on the states of the behaviour, not on the
  constants). Both except the pages in `torn`; that those of one zone never tear
  each other is part of what is proved.
* `ShortSequencesKept` discharges the condition: in a sequence no longer than the
  first zone (4096 positions) the pages of the other zones are to spare in the
  default capacity, which counts all zones; and nothing is torn there.
* The inductive invariant `ContentsInv` has seven parts, each checked by TLC
  before it was proved: shapes, the progress of a token through the layers, that
  positions are saved in order, what the running call is about, that each page
  stores what was saved in it (in RAM, or at its slot), that FP32 copies belong
  to hot pages, and that those copies are current.

**`ServerProofs`**, for any requests, pool, queue limit and threshold:

* `OpenBreakerHasTimer`, `TrippedBreakerOpens` for the breaker alone;
  `ServerImplementsBreaker` (every step of the server is a step or a stutter of
  `CircuitBreaker`) and from it `ServerBreakerRecovers`.
* `BackpressureBound`: `QueueInv` counts handlers between check and push against
  their historical maximum.
* `SenderInOnePlace`: `PlaceInv` adds where a request cannot be before it is pushed,
  and that a generation is on one thread.
* `CountersHonest`: gauges and counters are what they claim to count. Each is
  tied to the set of requests at the program counters between its increment and
  its decrement.

**`ThreadsProofs`**, the clock for any threads, and several requests:

* `ClockTypeCorrect`; `WallsInOrder` from `WallInv` (`last_wall` bounds every wall
  returned or computed, and what a call has loaded is bounded below by what was
  returned before it).
* `SerialCallsMonotonic` for calls of `now` that do not overlap, fewer than the
  counter has values, from `Serial` (between calls the two atomics are together
  the last timestamp, and what the running call loaded is current).
* `WallClockNeverBack`: no step, recalibration included, moves the wall clock back.
* `RequestsThrough` for any requests, stages, workers and capacity of
  `MultiRequest`. `MRIInv` says in which stage or channel a request can be and that
  they are there in the order of their numbers (`StagesInOrder`, `PipeInv`), with a
  part for each of the three functions.

**`DataPlaneProofs`**, for any producers, threads and commands:

* `PlaneCorrect`. `FlowInv` says where commands are: the channel holds the last ones
  sent, in order (`ChannelInv`); those that left it are in one batch, handled or
  lost, and batches are increasing (`PlacesInv`); a consumer has handled what is
  below what it holds (`HistoryInv`). `CountsInv` counts the frames and the
  producers between count and send, `OwnerGraphInv` the nodes.
* `ArenaAllocationsApart`, for any block size. `ArenaIInv` adds that allocations in
  the last block end before the bump offset. That a size has a power of two
  above it is an assumption (`ArenaAssumption`): it needs induction.

**`GpuProofs`**: `StreamAgrees` for any tensors, layers and timeline, and
`LayersFallBack` for any layers, prompt and chunks, with device calls failing at
will: residency, a bounded graph with its barriers, every output of a decoded layer
written, by the host when there is no context or the fence is lost. `GpuIInv` adds
what each program counter knows of the layer it is at, and that the nodes of the
graph are those the layer has added so far. The theorem does not say that the
device computed what is taken from it: `GpuWeights_device` refutes that.

**`GovernorProofs`**, for any models, sizes, sessions, opcodes and slots:

* `RampInRange`, `ExecutorInRange`: budgets and derived sizes keep to their bounds
  for any sensor readings; `RampKeepsToBudget`, `ExecutorKeepsToBudget`,
  `GovernorKeepsToBudget` show the three loops to refine `Budget`.
* `GovernorCountsAgree`, an inductive counting argument: registering a session and
  raising a use count are one action, and the VM's counters sum to the opcodes
  taken from the ring. It rests on opcodes having increasing identities and on
  `gpu_state` staying empty, which makes the GPU path dead code.
* `OneLateOpcode`: the session of an opcode is checked under one lock and the opcode
  routed under another. `LateInv` says that once an opcode ran late, its session is
  over or past that generation, for good, so that all that wait are stale.
* `TokensCountedAndBounded` for any set of threads, finite or not: `PoolInv` adds
  that a value is only loaded below the limit and that the holders are finitely
  many, counted by the counter.

**`DecodeProofs`**, the parts around a decode step. What a loop computes is a fold,
and a fold is a recursive function. Induction over data is not available, so
what a fold satisfies is shown from the least number at which it would not
(`LeastNumber`): `FoldExists` and `FoldsAgree` say that a fold is the one function
with its equations, `FoldKeeps` that it keeps what its step keeps. What sorting
computes is shown by counting (`RanksTaken`): ranks that differ fill the places.

* `ProductsComputed`, the part of `KernelInv` that is about threads, for any drivers,
  kernels, heights and number of threads, with the exceptions named in section 3: chunks share out the rows (nonlinear
  arithmetic on quotients), and `KernelInvariant` adds which rows a thread still
  has to do.
* `AverageKept`: `NpuInv` for any recorders and samples. A fold over one more sample
  is one more step, and the compare-exchange only succeeds on the average that was
  loaded.
* `DecoderKeepsTrack`: `DsparkInv` for any hashes, tokens, ring, file interval and
  page sizes. `RingInv` relates ring, head and length to the history by the age of
  a slot; `FileInv`, `StepInv` and `SavedInv` say what the file and its temporary
  hold at each step of a save, crashes included, and how far the file is behind: the
  counted observations of one interval and the one after a prompt, which the code
  does not count. The lemmas about drafting, sparse
  attention, pages and the logit cache hold in every such state.
* `SampledFromNucleus`: `SamplesNucleus` for any vocabulary, weights, top-k and top-p.
  The tokens heavier than one at place i of the ranking are those of some
  first places before i; masses of first places grow, so the least place that
  reaches top-p exists.
* `FileLoads`: `ModelFileInv` for any file that opens (`Opened`: its offsets and
  sizes are numbers, its layers have seven tensors) and none of whose offsets wraps
  when the start of the data is added (`OffsetsFit`; the sum at `mmap.rs:82` is not
  checked). `FlatHolds` says where a tensor
  is found in what a ring flattens to; `Cut` says of the groups after each layer
  that they are runs of layers with equal rings, cut where rings differ. The code
  compares rings whole and not their offsets, so that a group's layers are equal in
  each tensor rests on `RingsTellSizes`: equal rings are of equal tensor sizes.
  Layers of one quantization satisfy it always, and TLC evaluates the hypotheses
  for every file of the instance.
* `BlocksRead`: whole blocks are reserved for any number of elements, and the scalar
  kernels, which walk a row in their own order, agree with the dequantizers
  (quotients by constants, element by element).

Only model-checked, and why:

* Liveness under fairness (`Answered`, `BreakerCloses`, `CallReturns`, `RequestsReturn`,
  `CommandsHandled`, `StopTerminates`, `BudgetRecovers`): beyond this prover.
* That the fields of a block tile it (`Tiles`, in `BlockTiled`): a table of bits without
  parameters, which TLC evaluates completely. `KernelInv` is therefore not one
  theorem: its threads are `ProductsComputed`, the rest of its blocks `BlocksRead`.
* The three runs that end in a violation.

## 6. Plan

Modelled: the components of section 1 but the last row. Left, in this order:

1. Proofs: `OwnImages` of `SharedColdFile` for a single generation.
2. An unbounded client of the server, for starvation by later requests.
3. The hot reload of the policy inside the decode loop.

## 7. Not modelled

* Floating-point results of kernels, attention, tensor operations (`swamp-tensors`
  but the arena), training (`qat.rs`), mixture of experts and ACE: no state
  is shared between calls, and correctness is about real numbers. What can be
  checked of kernels without them, the splitting of rows and the addressing of
  blocks, is in `Gemv` and `QuantBlocks`. The conversion of a block's factors from
  half precision is among the results left out: the Q6_K kernels have their own
  (`fused_gemv_q6k.rs:11-20`), which takes exponent 0 for a normal number, and the
  dequantizer does not.
* Tokenizer and chat template: conversions of text without state.
* Vulkan, CUDA, shaders, the Mojo bridge: device code and drivers. What the Rust
  side does with their results is modelled.
* `prefetch.rs` gives hints to the operating system; the staging buffer
  (`staging.rs`) is only reset by the executor, and the results of `lsc.rs` and
  `timewarp.rs` are used by nobody.
* Sensors, metrics text, logging, command-line tools: input and output.
* Lua scripts: what a script does is the user's; the commands it can send are
  inputs of `DataPlane`, its priority an input of `Server`.
