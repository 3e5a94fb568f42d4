# vLLM V1 engine core: a TLA+ verification project

This directory models the part of the repository (a vLLM fork) that decides
*which request computes which tokens into which KV cache blocks, and when*: the
V1 engine core loop, its scheduler, the KV cache manager with the prefix cache,
and the bookkeeping of the worker that executes the batches; and what holds the
processes of a deployment together: the lock-free shared-memory queue and the
remote calls through which engine and workers talk, the cache of encoder outputs
that scheduler and worker keep in two copies, and the waves by which data-parallel
engines start and stop together. The modules are
translated from the Python sources under `vllm/v1/` and
`vllm/distributed/device_communicators/`; `PROJECT.json` maps every definition
to the lines it stands for.

## 1. The system

A client adds a request. The engine core keeps it in a waiting queue, admits it
when blocks are free, computes its prompt in chunks, decodes token by token, and
finishes it on a stop token, on `max_tokens`, on the model length or on an
abort. All requests share one pool of KV blocks; full blocks are entered in a
prefix cache under the hash of all the tokens up to their end, so that another
request with the same prefix can reuse them. When blocks run out a running
request is *preempted*: it loses its blocks and starts again later.

| component | state | operations | interacts with |
|---|---|---|---|
| free block queue (`kv_cache_utils.py`, `FreeKVCacheBlockQueue`) | doubly linked list threaded through the blocks, a counter | `popleft`, `popleft_n`, `remove`, `append`, `append_n`, `get_all_free_blocks` | block pool |
| block pool (`block_pool.py`) | reference counts, hashes of cached blocks, hash index, free queue, null block | `get_new_blocks`, `touch`, `free_blocks`, `cache_full_blocks`, eviction, `reset_prefix_cache` | KV cache manager |
| KV cache manager (`kv_cache_manager.py`, `kv_cache_coordinator.py`, `single_type_kv_cache_manager.py`) | each request's block table and number of cached blocks | `get_computed_blocks`, `allocate_slots`, `cache_blocks`, `free`, `reset_prefix_cache` | scheduler |
| scheduler (`sched/scheduler.py`, `sched/async_scheduler.py`, `sched/request_queue.py`, `sched/utils.py`, `request.py`) | waiting and running queues, per-request progress, ids finished since the last step, ids of the last step | `add_request`, `finish_requests`, `schedule`, `update_from_output`, `reset_prefix_cache` | engine core; sends `SchedulerOutput` to the worker |
| engine core (`engine/core.py`) | busy loop, queue of batches in flight | `step`, `step_with_batch_queue`, client calls | clients, scheduler, executor |
| model runner (`worker/gpu_model_runner.py`, `gpu_input_batch.py`) | cached request states, persistent batch, KV cache contents, sampled tokens still on the device | `_update_states`, input preparation, forward pass, sampling | executor |
| shared-memory message queue (`device_communicators/shm_broadcast.py`) | per chunk a written flag and a read flag per reader, the chunk's contents; sockets for large messages and wake-ups; an index on each side | `enqueue` (`acquire_write`), `dequeue` (`acquire_read`), `SpinCondition.wait`/`notify`/`cancel`, `shutdown` | carries batches to the workers and results back |
| encoder cache (`encoder_cache_manager.py`, the encoder parts of `scheduler.py` and `gpu_model_runner.py`) | manager: outputs cached by hash with the requests that refer to them, eviction order, evictions not yet announced, slot counters; worker: the outputs | `check_and_update_cache`, `can_allocate`, `allocate`, `free_encoder_input`, `free`, `reset`; `_try_schedule_encoder_inputs`; `_execute_mm_encoder`, `_gather_mm_embeddings` | scheduler and worker, through the batches |
| executor (`executor/multiproc_executor.py`) | pending futures, the queues of calls and answers, liveness of the workers | `collective_rpc`, `FutureWrapper.result`, the worker's loops, `monitor_workers`, `shutdown` | engine core; runs over the message queue |
| data-parallel coordination (`engine/coordinator.py`, `DPEngineCoreProc` of `engine/core.py`, `DPAsyncMPClient` of `engine/core_client.py`) | each process's idea of the wave and of whether engines run; pass counters, pause states; messages in the sockets | requests, aborts, pause and resume; FIRST_REQ, START_DP_WAVE, wave_complete and start_wave; forward passes and all-reduces | front ends, engines and coordinator, by messages |
| around it, not modelled | KV connectors, hybrid/sliding-window managers, sleep, streaming sessions, KV offloading, speculative decoding, structured output, output processor, API servers | | |

What is hard to get right, and where the properties are aimed:

* **Batches in flight.** With async scheduling or pipeline parallelism a step is
  scheduled before the result of earlier steps is known. A request can be
  preempted, aborted, stopped or reset while an older batch that writes its
  blocks, or samples a token for it, is still executing.
* **Optimistic caching.** `allocate_slots` enters blocks into the prefix cache
  when they are *scheduled*, before they are computed.
* **Lazy eviction and sharing.** A freed block keeps its contents and its hash
  until it is handed out again; a prefix hit takes it out of the middle of the
  free list.
* **Output placeholders.** The async scheduler counts tokens that are not there
  yet, and must take each one back exactly once.
* **Preemption inside `schedule()`.** The running loop preempts while it
  iterates over the list it shrinks, and under the priority policy may preempt
  a request it has already put in the batch.
* **Flags without a lock.** Writer and readers of a chunk look at each other's
  flags one at a time; a sleeping reader depends on a ping that can cross its
  decision to sleep; a timeout or an exception can hit between any two of these
  steps.
* **Two copies, two speeds.** The encoder cache is decided in the scheduler and
  lives in the worker, which learns of evictions up to two batches later.
* **Answers without numbers.** Nothing in a worker's answer says which call it
  belongs to; futures are left pending, and a dying worker has the queues closed
  under a call that is under way.
* **Beliefs about waves.** Whether the engines run is known in three places that
  tell each other by messages that cross; a rank that is woken alone hangs in a
  collective.
* **Limits.** The last free block, the last token of the model length, the block
  set aside as the null block.

The full list, each at its line and with the properties that cover it, is
`hazards` in `PROJECT.json`.

## 2. The modules

```
FreeQueue                abstract queue           BlockPool
   ^  refined by                                     ^ extends
FreeKVCacheBlockQueue    linked list              KVCacheManager  <-  KVCacheProof
   ^  extends                                        ^                     ^
FreeQueueProof           theorems                 Scheduler                |
MCFreeQueue              TLC instance                ^   (FCFS, priority)  |
                                                  ModelRunner (worker)     |
                                                     ^                     |
ShmRingBuffer            writer, readers          EngineCore  <-  EngineCoreProof
   ^  extends                                        ^   (busy loop)       ^
ShmDeliveryProof         exclusive chunks,        MCEngine         EngineAsyncProof
                         delivery in order           (TLC instances)       ^
                                                                   EngineSyncProof

EncoderCache  <- MCEncoderCache        manager, schedule() and worker composed
MultiprocExecutor  <- MCExecutor       engine, workers and monitor composed
                   <- MultiprocExecutorProof
DPWaves  <- MCDPWaves                  front ends, coordinator and engines composed
         <- DPWavesProof
```

**FreeKVCacheBlockQueue** keeps `next_free_block`, `prev_free_block` and
`num_free_blocks` exactly as the class does, with the two fake nodes; each
method is one action with the assignments of the method, and `ret`/`raised`
record its result. It starts from the list that `BlockPool` builds, the blocks in
the order of their ids; lists in another order are reached by the operations. What
`append` and `append_n` check of the fake tail is left out: `WellLinked` says that it
always has a predecessor. `get_all_free_blocks` is the list the links spell out. **FreeQueue** is the promise: a sequence with operations at
its ends and removal in the middle.

**BlockPool** and **KVCacheManager** are records with operations on them (the
scheduler calls them inside its own steps, so they are not processes). The pool
uses the abstract sequence for the free queue, which the proofs justify. A block
hash is the token prefix it stands for, since the code's hash chains over all
previous blocks. The `assert`s and `raise`s of the pool, the manager and the
scheduler that depend on more than the shape of the code are kept, as an `error`
field that is set instead of raising. Left out are those that hold trivially or are
implied by other properties: the status of a request that is admitted, preempted or
freed (`scheduler.py:818`, 962, 1821, 1837) follows from `QueuesMatchStatus` and from
the assignment before it; the sums of a step (854, 856) are `StepConsistent` and
`TypeOK`; that a request gets at least one token (681, 1346, `kv_cache_manager.py:341`)
and is not found to have more computed tokens than it has tokens (644) follows from the
guards of the model and from the look-up leaving out the last token; an id is only
added again when nothing remembers it (1738); and a request with blocks brings no new
prefix hits (`single_type_kv_cache_manager.py:110`).

**Scheduler** splits `schedule()` into its loop iterations: `SkipRunning`,
`EnterRunning`, `ScheduleRunning`, `PreemptForRunning` for the running loop,
`RunningDone`, `ScheduleWaiting` for the waiting loop, and `schedule_end` for
building the output, `_update_after_schedule` included. `step` holds the local
variables of the method (`req_index`, `token_budget`, the scheduled lists).
`update_request` is one iteration of the loop in `update_from_output`. The
subclass `AsyncScheduler` is selected by `AsyncScheduling`: its two overrides
are the `IF AsyncScheduling` branches of `AfterSchedule` and `ApplyOutput`. A token
is a pair of the position it was computed for and a value, so that a lost or
repeated token is visible.

**ModelRunner** is what the worker remembers between batches (`_update_states`),
which tokens it feeds at which positions (host-known ones, or the ones that never
left the device under async scheduling), which are discarded, and, as external
definitions for the attention kernels, that a forward pass writes the keys and
values of the fed tokens in the block table's slots and reads those of the whole
prefix. `kv_cache[b]` is the token prefix whose keys and values block `b` holds.

**EngineCore** is the busy loop: client calls between steps (aborts also just
before an output is processed), `schedule`, submission to the worker, and
`update_from_output` on the oldest batch. `BatchQueueSize = 1` is `step()`,
larger values are `step_with_batch_queue()`. The worker's `Execute` runs
concurrently; it shares nothing with the scheduler, so it is interleaved with
whole `schedule()` and `update_from_output()` calls rather than with their inner
steps.

**ShmRingBuffer** is a writer and its local readers, each a small program with a
program counter (`wpc`, `rpc`) whose steps are single accesses to a flag:
`CountFlag` is one term of `sum(metadata_buffer[1:])`, `ResetFlag` one iteration
of the reset loop, `LoadReadFlag` and `TestWrittenFlag` the two loads of
`acquire_read`. The memory fences are taken to do what the comments at them say,
so accesses happen in program order. The copies in and out of a chunk last from
the step before them to the step after; `ExclusiveAccess` says that they never
overlap. A message is `inline`, has large out-of-band `buffers`, or is an
`overflow` sent through `local_socket`. A reader may at any time decide that it
has been idle long enough to `poll`. Where `TimeoutsAllowed`, waits may end in
`TimeoutError`; where `FailuresAllowed`, copying may raise, and so may unpickling, of
a chunk (`ReadFails`) and of the payload of an overflowing message, which has then been
taken from the socket (`RecvFails`).

**EncoderCache** has the manager as a record (`manager`) with one operator per
method. Each round of the loop in `_try_schedule_encoder_inputs` is `TryInput`, on
a record of the loop's trackers. `schedule()` is split as in `Scheduler`, by the
request it looks at: `ScheduleRunning` (with the preemptions of its inner loop),
`ScheduleWaiting`, `EndStep` with `_update_after_schedule`. Of the KV cache only
the outcomes remain: a chunk of any size, success or failure of `allocate_slots`,
any number of preemptions, a prefix hit of any length below the request's own: the
prefix may have been computed by it or by any request before it that began alike.
`execute_model` is the worker: it frees, encodes, then reads what
`_gather_mm_embeddings` reads, for the model and, with EAGLE, one token ahead for
the drafter. `reset_encoder_cache` of the worker travels behind the batches, as the
call of the executor does. `config` is one of several configurations, chosen in
the initial state.

**MultiprocExecutor** follows one engine thread through a call: `collective_rpc` up
to the broadcast, `Register` (the look-up of the response queues, which the monitor
may have dropped), and `Drain`, `Dequeue`, `CompleteResponse` for the loops that
read answers, one dequeue per step. The worker has its busy loop and, with async
scheduling, an output thread. That thread has no `try` around `enqueue_output`: it may
end when getting or pickling an output raises (`OutputThreadEnds`), while the process
and its busy loop live on and nobody notices. A worker may `Die` at any moment, and the monitor's
`Notice`, `Terminate`, `Close` and `Callback` are separate steps. The queues lose
and reorder nothing, which is what `ShmRingBuffer` shows of them.

**DPWaves** has one action per message a process handles. An engine is in `input`
(emptying its input queue), in a forward `pass`, or in the `all-reduce`; a pass and
an all-reduce end in one joint step of all ranks, since each is a collective. Aborts
are also taken just before the output of a pass is processed. Requests are reduced
to the number of passes they need.

## 3. The runs

| run | instance | shows |
|---|---|---|
| `free_queue` | 4 blocks, every sequence of calls with every argument | links always spell out one list (`WellLinked`), every call does what the abstract queue's does (`ImplementsQueue`) |
| `engine_sync` | synchronous, priority policy; 3 requests, two share a first block, the oldest is the least urgent; 3 usable blocks of 2 tokens, budget 2, 2 running; an abort; a reset anywhere, with or without preempting | no assertion fails; reference counts, free queue and block tables agree (`BlocksAccountedFor`); hash index and block hashes agree (`CacheIndexConsistent`); cached chains have no hole (`ChainClosed`); each request is in the queue of its status, once (`QueuesMatchStatus`); inside `schedule()`, batch, running list, index and budget stay consistent through preemption of an already scheduled request (`StepConsistent`) |
| `engine_async` | async scheduling, FCFS, 2 batches in flight, stop tokens, an abort, `max_tokens` beyond the model length | placeholders are exactly the tokens in flight, no token is lost or repeated, cached blocks hold what their hash says (`CachedBlocksComputed`), attention reads the request's own prefix (`AttentionReadsOwnPrefix`); under fairness every request finishes, through preemptions (`EveryRequestFinishes`) |
| `engine_pipeline` | plain FCFS scheduler, up to 3 batches in flight, stop tokens, an abort, no full-sequence reservation | blocks freed and reused under older batches never corrupt what a batch reads; a request that stops after a preemption leaves the right queue. The loop may also wait for each output, so the steps of the synchronous FCFS engine are included |
| `ring_buffer` | 2 readers, 2 chunks, 3 messages, in chunks and overflowing, timeouts, failing copies and failing unpickling everywhere | no chunk is filled or reset while it is read (`ExclusiveAccess`); no reader gets a message twice (`DeliveredOnce`); it gets every message in order, through chunk or socket, as long as no `dequeue` gave up between the two (`DeliveredInOrder`) |
| `ring_live` | 2 readers, 1 chunk, 2 messages, no timeouts, one reader shut down | every message reaches every reader, so no wake-up is lost (`EveryMessageArrives`); a reader that is shut down stops, asleep or not (`ShutdownEnds`) |
| `dp_waves` | 2 engines, a front end, all-reduce every 2nd pass, 2 requests (1 and 2 passes), 3 calls; an abort, a failing preprocessing, pauses of all modes | ranks are never in different collectives (`CollectivesMatch`); nobody believes in, or sends, a wave the engines have not reached (`NoWaveAhead`); when all is quiet the coordinator knows that the engines sleep (`QuietMeansPaused`); every request finishes, every pause is answered and the engines go to sleep (`EverythingComesToRest`) |
| `encoder_cache` | 2 requests of 4 tokens, each with an input of 2 embeddings of its own and then a shared one of 1, in a cache of 4; 2 batches in flight, a preemption, a reset; chunked input, or EAGLE with `disable_chunked_mm_input` | no cache miss, no failing assertion (`NoAssertionFails`); `SlotsAccountedFor`; the worker never holds more than the cache size (`WorkerFits`) and agrees with the manager once it has caught up (`WorkerInStep`); only running requests pin outputs (`NoLeakedReference`); when each request is in the middle of its first input, which fills the cache, and needs the second, somebody can still be scheduled (`SomeoneCanRun`) |
| `executor_rpc` | 2 workers, the second answers single-answer calls, 3 calls of 4 kinds, 2 futures pending, the death of a worker at any moment, and of output threads | a call returns its own answers (`AnswersMatch`); what is under way from a worker is awaited, and as long as its output thread is there nothing awaited is missing (`NoStaleResponse`); waits end, except one without a timeout for a worker that lost its output thread (`WaitsEnd`); a death of a worker ends the engine (`DeathIsNoticed`) |
| `find_priority_preempt`, `find_encoder_eagle`, `find_rpc_failure` | see section 5 | a comment, document or test that the code contradicts |

The configurations leave out what a run would only repeat: `TypeOK` of the free queue
and of the ring buffer is part of the theorems of section 4 (which also state most of
the safety properties above for every instance), and `NoAssertionFails` and
`BlocksAccountedFor` hold in the `engine_pipeline` instance too when they are added to
`MCEnginePipeline.cfg`.

Deadlock is checked in the queue and engine runs: a request may be added again
under an id that nothing remembers any more, so the engine never legitimately
stops for good. It is not checked in the `ring_*` runs: once `MaxMessages`
messages are sent and read, sleeping readers are where they belong. That nobody
gets stuck earlier is `EveryMessageArrives`. Nor is it checked in `dp_waves`,
`encoder_cache` and `executor_rpc`: when the bounded calls are made and all requests
are done, sleeping engines and an idle executor are where they belong. That they do
not stop before is `EverythingComesToRest`, `SomeoneCanRun` and `WaitsEnd`.

**Bounds.** Blocks hold 2 tokens: enough for a block to be partly full, and for a
chunk to end inside one. Three usable blocks and a model length of 6 let one
request of maximal length fit and no two, so every instance preempts, evicts and
reuses. The token budget of 2 is below the longest prompt so prefill is
chunked. Two or three requests are enough for sharing, for preemption of
another, and for a third that finds the cache changed. Three batches in flight
are the smallest number at which a preempted request can come back before the
batch that was in flight when it was preempted is done. `MaxResets` is the only
bound on an otherwise unbounded counter. Two chunks and three
messages take the ring past its end, so that a chunk is reused while its flags
still tell of its previous round and the other is of that round (with four messages
the run passes as well, in 12 million states); with one chunk and two messages (`ring_live`)
the writer has to wait for every reader. Two readers let one be a round behind
the other. In `encoder_cache` the three inputs together exceed the cache, so that outputs are
evicted, and the first inputs of both requests fill it: each request can be in the
middle of its own while there is no room for the second, which they share. In
`dp_waves` one request is shorter than the interval between two all-reduces and one
needs all of it, and they go to different engines; three calls are enough for a wave
to end while a request for it is on its way, and for a pause and its resume around
one (four calls meet the disagreement of section 5). In `executor_rpc` three calls
are two futures and one that has to get past them; a run with `AsyncScheduling =
FALSE` and four calls passes as well. Sampled values are one ordinary token, or that and the stop token:
which ordinary token is sampled never steers the control.

**Fairness.** `WF_vars(Engine \/ Execute)`: as long as the busy loop or the
worker has something to do, one of them does something. `run_busy_loop` is a
`while` loop that blocks only when there is no request and no batch, and the
worker process loops over submitted batches, so each of them would justify a
fairness condition of its own; the property holds under the weaker joint one.
`LiveSpec` of `MCEngine` is `FairSpec` with the enabling condition written out as
`~ Idle`, since TLC would evaluate a whole `schedule()` for `ENABLED` in every state.
Nothing is assumed of clients. In the ring buffer the writer, each reader, and
the thread that shuts a reader down are weakly fair: they are separate processes
or threads that spin, or call `enqueue` and `dequeue` in the loops of the
executor and of `worker_busy_loop`. A reader's `Poll` is enabled only once a
ping or a cancellation is there, so fairness does not wake it by itself.

In `DPWaves` the tasks of the front ends, the coordinator, and the loops of the
engines are each weakly fair: they are event loops and `while` loops that block only
without input. Taking messages is strongly fair for each engine: `_process_input_queue`
empties the queue in every round of the busy loop, so an engine that is in a pass
again and again still gets to each message. A front end that paused the engines is
assumed to resume them; nobody has to send requests, to abort, or to pause. The
republishing of the coordinator's state every few seconds is not relied on. In
`MultiprocExecutor` the engine's thread, the monitor, and each of a worker's two
threads are weakly fair, the output thread as long as it is there: it may end at any
output and nothing starts it again. Nobody has to make calls, ask for results, or die.

## 4. The proofs

`FreeQueueProof` proves, for every `NumBlocks \in Nat \ {0}` (the constructor's
precondition that there is a first and a last block to link):

* `ListWellLinked == Spec => [](TypeOK /\ WellLinked)`
* `ListImplementsQueue == Spec => ImplementsQueue`

`WellLinked` says there *is* a list of distinct blocks that the links spell out
in both directions, whose length is the counter, with every other block
detached. Together with `TypeOK` it is inductive: detached blocks having null
links is what makes `append_n` and the error branch of `remove` work. The
argument reduces every method to one of three changes of that list: the first
`n` blocks are dropped (`DropList`: `popleft`, `popleft_n`), the `k`-th is
unlinked (`UnlinkList`: `remove`), blocks are added at the end (`ExtendList`:
`append`, `append_n`). Each lemma says what the new links spell out. Since a walk
along `next_free_block` is unique (`WalkUnique`), the list in the invariant is
the one `get_all_free_blocks` returns, which is the refinement mapping; so the
same lemmas (`StepList`) give invariance and simulation. Where an induction over
the position in the list would be natural, the proofs use the least
counterexample (`LeastNat`), as the library's induction theorems take an
operator the provers cannot instantiate.

`ShmDeliveryProof` proves, for every number of readers, chunks and messages,
with or without timeouts, failures and shutdowns:

* `ChunksExclusive == Spec => [](TypeOK /\ ExclusiveAccess)`

`ExclusiveAccess` is not inductive: both sides act on flags they looked at some
steps ago. The invariant adds why these are not out of date.
`CountedFlagsStayUp`: as long as the writer has found every flag up, the ones it
has counted are still up, since readers only raise flags; so when the count
reaches the number of readers, none of them is reading. `SeenFlagIsCurrent`: a
flag its reader found down is still down when it then finds the chunk written,
since only the reader raises it. `FilledIsUnwritten` and `ReadIsWritten` tie the
two sides to the written flag: the chunk being filled has it down, a chunk being
read has it up and the reader's flag down, and the two together exclude each
other. The writer lowers the written flag only when it was down already or all
read flags were up, and in both cases `ReadIsWritten` says that nobody reads.

and goes on from there to what the queue is for:

* `AlwaysDeliveredOnce == Spec => []DeliveredOnce`
* `AlwaysDeliveredInOrder == Spec => []DeliveredInOrder`

No sequence number travels with a message; the order is kept by the places of writer
and readers in the ring and by flags that tell a chunk of this round from one of the
last. `OnceInv` says where a message can still come from: the written chunks hold
different messages (`ChunksDiffer`), and one that a reader has not marked is neither
in its socket nor received (`UnreadIsNew`). It holds with timeouts and failures too.
`OrderInv` fixes the ring: `Age(c)`, how many chunks ago the writer was at `c`,
determines the message in `c` (`RingInOrder`), and a reader that has not given up
stands less than a round behind where the number of its messages says, its flags
telling the messages it has read from the others (`ReaderInRing`), with the
overflowing messages it has yet to get, in order, in its socket (`SocketInOrder`).

`MultiprocExecutorProof` proves, for every number of workers, calls and futures and
every set of kinds of call:

* `TypeCorrect == Spec => []TypeOK`
* `AnswersMatchUntilLeftOver == Spec => [](LeftOver \/ AnswersMatch)`
* `AnswersAlwaysMatch`, `NeverStaleResponse`: `[]AnswersMatch` and `[]NoStaleResponse`,
  assuming `KindsSafe`.

`get_response` takes whatever comes first. The answers match because of `Aligned(w)`:
the calls in worker `w`'s three queues (to be executed, executed, answered) are in
order, those `w` answers are ones that somebody has yet to read from it, and of those
none is missing but what an output thread that ended has lost or kept (`Missing`): all
that is missing comes after everything sent, so nothing is read in its place. `FuturesOK` and
`TargetOK` say that the executor reads for the oldest pending call. This lasts until a
call is given up while answers to it are under way (`LeftOver`). `KindsSafe` says of the
calls that this does not happen: none times out, and one that every worker answers does
not raise. It is a hypothesis of two theorems, not an assumption of the module, since
the code does not enforce it: `find_rpc_failure` is a run without it, and
`AnswersMatchUntilLeftOver` is what remains then.

`DPWavesProof` proves, for every number of engines, front ends and requests, and with
aborts, failing preprocessing and pauses of all modes:

* `TypeCorrect`, `CollectivesAlwaysMatch`, `NeverAWaveAhead`, `QuietAlwaysMeansPaused`,
  each `Spec => []P` for the property of the run.

`CollectivesMatch` follows from `Lockstep` (the step counters agree and the ranks enter
the all-reduce together). The other two need what the messages under way say: none is
ahead and a completed wave is over (`MessagesBehind`), a coordinator that is behind has
the notice of completion coming from rank 0 (`CompletionUnderWay`), and one that
believes the engines run is right about one of them or has a START_DP_WAVE for it under
way (`StartUnderWay`). Typing is not free either: that the passes a request has left
never go below zero needs that its ADD is handled once, and before an abort of it, which
is the order of messages within a socket (`RequestsOK`, `MessagesInOrder`).

`KVCacheProof` and `EngineCoreProof` prove of the engine, for every number of requests
and blocks, every block size, budget and model length, both policies, sync and
async scheduling, any number of batches in flight, and with preemption, aborts and
resets:

* `BlocksAlwaysAccountedFor == Spec => []BlocksAccountedFor`
* `CacheIndexAlwaysConsistent == Spec => []CacheIndexConsistent`
* `QueuesAlwaysMatchStatus == Spec => []QueuesMatchStatus`

all from one inductive invariant (`Inductive == Spec => []IInv`). None of the three is
inductive alone. Reference counts stay right through a prefix hit only if the blocks
found are distinct, which needs the index to be consistent (a block is under the one
hash it carries, and different prefixes have different hashes); `allocate_slots` adds
blocks to those a request holds only if a request that is admitted holds none, which
needs the queues to match the status (`Held`: only running requests hold blocks);
and the queues stay right through preemption only if the victim is running: the order
of victims is total, so there is one (`VictimRuns`), and a request the loop is about to
give blocks to is still running (`StepOK`, about the local variables of `schedule()`). `BatchesOK` says that what comes back from the worker speaks of
requests the engine knows. `KVCacheProof` has a lemma for each operation of pool and
manager on any state that is OK (`touch`, `get_new_blocks`, `free_blocks`,
`cache_full_blocks`, `find_longest_cache_hit`, `allocate_slots`, `free`);
`EngineCoreProof` one for each change of the queues (`PlacedFinish`, `PlacedPreempt`,
`PlacedAdd`, `PlacedAdmit`, `PreemptAllFacts`) and one for each action. Loops of the
code are recursive functions in these modules (`cache_full_blocks`, `PreemptAll`), and
what they compute is shown by the least counterexample, as above. TLC checked `IInv` on
the engine instances before it was proved.

They, `EngineAsyncProof` and `EngineSyncProof` go on to the assertions and exceptions of
the code, cached chains, the tokens in flight and the inside of `schedule()`:

* `OnlyPlaceholdersMayFail == Spec => [](manager.pool.error \in {"none", Underflow})` and
  `ChainsClosedUntilFailure == Spec => [](NoAssertionFails => ChainClosed)`, with no
  hypothesis at all;
* `AssertionsNeverFail`, `ChainsAlwaysClosed`, `PlaceholdersAlwaysInFlight`,
  `TypeCorrect`: `[]P` for the property of the run, assuming `AsyncSafe`;
* `TokensAlwaysInOrder`, assuming also `AsyncScheduling \/ OneAtATime`, and
  `StepAlwaysConsistent`, assuming also `Policy = "fcfs" \/ OneAtATime`, where
  `OneAtATime` is one batch in flight without async scheduling;
* `CachedBlocksAlwaysComputed` and `AttentionAlwaysReadsOwnPrefix`, assuming
  `OneAtATime` and `Policy = "fcfs"`.

*The second invariant* is `Sound`. Half of the assertions are bounds on counts:
`allocate_slots` must not be asked for more blocks than the model length has, nor
`cache_full_blocks` for blocks that are not full. `TokensCounted` says that the computed
tokens of a request fit its blocks and do not exceed the tokens it has or has in flight;
`Entries` says the same of what `schedule()` has decided so far, and that it names each
request once, all of them before `req_index`, so that a victim is found in the batch it
is taken from. `PreemptedNow` is about the assertion in `_make_cached_request_data` that
a resumed request was not in the previous step: a request of the last batch that is
preempted was preempted by this very `schedule()`, after which no waiting request is
looked at. `OneEach`: a batch brings at most one token of each request. `Linked` ties the
index to the chains: a request's full blocks carry its prefixes, the block before one that
is held is held, and in the free queue a block comes *before* its predecessor, as `free`
returns blocks tail first, so evicting from the front takes chains from their end. One
error is not excluded by `Sound`: the assertion `num_output_placeholders >= 0` of
`AsyncScheduler`. The invariant proved is therefore `SoundUnlessUnderflow`.

*The third invariant*, `InFlightInv`, excludes that one. The scheduler counts a
placeholder when the sum of computed and scheduled tokens reaches what it believes the
request has; the worker samples when it reaches the number of tokens the worker knows,
two batches behind and with requests leaving and entering its persistent batch.
`Tracked` says that the two agree: along the batches in flight, the tokens
the worker has of a request when it comes to a batch (`Tracks`) are those the batch
counts on, and those after the last one are those the scheduler has counted.
`Progress` then says that a live request has as many placeholders as batches that bring
a token for it. `Batches` is what the worker relies on: a batch has a request once and
not among those it finishes, and an entry finds its output tokens in the persistent
batch or brings them along. `Worker` and `Kinds` are about types and the order of
entries.

*The fourth invariant*, `Ordered`, for async scheduling, adds positions: the tokens a request has are those of
positions 1, 2, 3, ... and what each batch in flight brings, or will bring, is the next
one after those of the batches before it (`Numbers`). So a token is neither lost nor
repeated when it arrives.

*Inside `schedule()`.* `Budget` says that the tokens scheduled so far, counted as the set
of pairs of a request and a number, and the budget left make up the whole; it needs
that no request is scheduled twice, and is what `TypeCorrect` needs to bound the budget.
`AtRequest` says that `req_index` stands at the request that slots are sought for. A
preemption takes a request out of `self.running`, so the index has to move back if that
one stood before it; the code decides this by whether the victim was scheduled in this
step. Under FCFS the victim is last, and never before the index. Under the priority
policy the two agree only if `schedule()` has passed over no running request
(`NobodySkipped`). A running request is passed over when it has nothing to compute, and
with one batch at a time it always has.

*The fifth invariant*, `SyncInv`, shows the latter, for one batch at a time and either
policy. Outside a batch a running request has a token to compute (`Idle`), since the last
one it was given is not computed yet, unless its prompt is not. So `InStep` follows a
request through its batch: what the worker samples is nothing exactly if the request has
tokens left to compute, and otherwise the token after them, which is appended before the
next `schedule()`. The worker can only know this if it has the same tokens, hence
`WorkerStaysInStep == Spec => [](SyncInv /\ AtRequest)`: the worker's copy of every live
request is what the scheduler has whenever the two are compared, through preemption,
resumption, resets and reuse of an id. `TokensInOrder` without async scheduling follows.

*The sixth invariant*, `ContentInv`, is about what the blocks hold, for one batch at a
time under FCFS. A block is entered in the prefix cache, and found there, before the
batch that fills it has run, so what it holds *now* says little. `ContentNow` speaks of
what the blocks will hold when the batch in flight (`Coming`) and the one that
`schedule()` is making (`Ahead`) are executed: a block with a hash then holds the prefix
of that hash (`HashesKept`), a full block of a running request its prefix
(`TablesKept`), a partly filled one its tokens so far (`PartsKept`). A block that two
requests share is filled by one of them at most (`OneFills`), so that neither
overwrites what the other relies on. `SameTables` says that the worker writes and reads through
the block tables the manager has, or will when it has taken the batch, and `Promised` that
the batch in flight will read its own prefixes. Between steps nothing is ahead and
`ContentNow` becomes `CachedBlocksComputed`. FCFS is needed because under the priority
policy a request may lose its place in the batch after its blocks were cached
(`find_priority_preempt`); under FCFS the victim is never in the batch yet.

`AsyncSafe` is the hypothesis, under async scheduling, that resets leave running
requests alone and that a prompt has at least `BatchQueueSize - 1` tokens, so that the
worker can recover a resumed request from what the scheduler knows of it. Two batches in
flight, the default of async scheduling, always satisfy the second part as prompts are not
empty. It is a hypothesis of the theorems and not an assumption of the module: the code does
not enforce it, and items 1 and 2 of section 5 are instances that do without and violate
`TokensInOrder` and `CachedBlocksComputed`. `PlaceholdersAlwaysInFlight` assumes finitely
many requests, only so that the counts in its statement are defined. TLC checked each of
the invariants on the engine instances before it was proved.

The assumptions are those of the modules' `ASSUME`s: there are blocks and they hold
tokens, limits are positive where the configuration classes require it, a prompt is not
empty and shorter than the model length (the input processor's check), priorities are
integers, the cache holds one sequence of maximal length.

Only model-checked:

* of the engine, `CachedBlocksComputed` and `AttentionReadsOwnPrefix` with async
  scheduling or several batches in flight (they fail in `find_priority_preempt` and in
  item 2 of section 5);
* the encoder cache: its loops are folds with an operator argument over sets and
  sequences, which the provers cannot instantiate;
* all liveness (the proof system does not handle `ENABLED` and fairness).

## 5. What the models disagree about with the code's own words

Three runs are expected to fail; the finding of each in `PROJECT.json` quotes the
lines.

* `find_priority_preempt`. Under the priority policy a request scheduled earlier in a
  step may be preempted in the same step (`scheduler.py:481`). Its chunk never runs,
  but `allocate_slots` has entered the blocks in the prefix cache already, and
  `_preempt_request` frees them with their hashes: a later hit attends to keys and
  values nobody computed, where `docs/design/prefix_caching.md:143` says of
  `get_computed_blocks()` that it returns "a sequence of blocks that have already been
  computed". In the instance a prompt of six tokens is cut into chunks of two; with
  chunks of at most one block the case is hidden, because `free` returns the tail first
  and the request that caused the preemption evicts that block at once. Under FCFS the
  victim is the last running request, which the step has not reached yet.
* `find_encoder_eagle`. With EAGLE and chunked multimodal input, a chunk may end
  exactly where an input begins. The test whether the input is needed is shifted by
  the drafter's one token, the range of embeddings computed from it is not: the
  input is skipped as having none in range, and the drafter asserts on a cache miss.
  The existing test has a chunk that covers the whole input and does not meet the
  case. With `disable_chunked_mm_input` the chunk is cut one token earlier, and
  `encoder_cache` passes.
* `find_rpc_failure`. A utility call that raises on one worker leaves the answers of
  the others behind. The engine lives on, and the next call that reads those queues
  returns another call's answers. A call that times out does the same
  (`expires |-> TRUE` in a kind).

The instances below show further disagreements. They are not runs of the project:
each is a small change of one that is, and can be checked by writing the change into
a copy of its configuration.

1. *Reset under async scheduling* (`scheduler.py:1887`; line 1884 gives the intent, "we
   need to discard the latest output token on the fly"). Every running request is
   marked to drop its token in flight, also one that has none: its next real token
   disappears. `MCEngineAsync.cfg` with `Prompt <- SharedPrefix`,
   `MaxTokens <- ThreeEach`, `NumGpuBlocks = 5`, `MaxModelLen = 8`, `MaxResets = 1`,
   `ResetRunningAllowed = TRUE`, no aborts violates `TokensInOrder`. (With
   `AsyncScheduling = FALSE` a token is repeated instead.)
2. *Resumption with three batches in flight* (`gpu_model_runner.py:1318`; line 1315 says
   "We must recover the output token ids for resumed requests"). `num_output_tokens`
   counts placeholders that `all_token_ids` lacks, so a request resumed before its
   tokens arrive is rebuilt with a shifted sequence, and blocks are cached under the
   wrong hash. `MCEngineAsync.cfg` with `MaxTokens <- TwoEach`,
   `MaxNumScheduledTokens = 3`, `BatchQueueSize = 3`, `NumGpuBlocks = 4`,
   `MaxModelLen = 6`, no aborts violates `CachedBlocksComputed`.
3. *The null block* (`kv_cache_utils.py:725` checks that the cache can "hold at least one
   request with the model's max_model_len"). The check accepts exactly one maximal
   sequence, but one block is set aside, so such a request is preempted for ever.
   `MCEngineAsync.cfg` with `Request = {1}`, `AsyncScheduling = FALSE`,
   `BatchQueueSize = 1`, `MaxTokens <- ThreeEach`, `NumGpuBlocks = 3`, no aborts
   violates `EveryRequestFinishes`. `engine_async` has one block more.
4. *Objects in the ring* (`shm_broadcast.py:693`; line 246 says "Only after the caller
   finishes reading the block, the reader can mark the block as read"). `dequeue`
   unpickles large buffers in place and marks the chunk as read once the object is
   built; the caller's arrays change when the writer has gone round. `RingBuffer.cfg`
   with `NReader = 1`, `MaxMessages = 3`, `Kinds = {"buffers"}`, no timeouts or
   failures violates `ObjectsIntact`.
5. *Resume and abort* (`core.py:1656`; `coordinator.py:51` says "Engines will move into
   running state when receiving a new request or START_DP_WAVE message"). An engine
   that resumes with a request held back asks for a wave but does not join it, and is
   left out of START_DP_WAVE as the one that asked. If the request is aborted before
   its first pass, the others wait for this engine in a dummy pass until it gets
   another request. `DPWaves.cfg` with `Request = {1}`, `PauseModes = {"keep"}`,
   `DropAllowed = {}`, `MaxCalls = 4` violates `EverythingComesToRest`.
6. *Priority preemption and encoder inputs* (`scheduler.py:481`). As in
   `find_priority_preempt`: the inputs of
   the preempted request stay cached in the manager though no batch encodes them, and
   the next request that finds them there misses them in the worker.
   `EncoderCache.cfg` with `Configs <- PriorityConfigs`, for two requests of 4 tokens
   with the one input `Item("A", 1, 2)` and `Item("A", 2, 2)`, violates
   `NoAssertionFails`. (With the
   features as they are, `TypeOK` already fails there: a victim that was skipped leaves
   `req_index` past the end of the list, see the hazard at `scheduler.py:480`.)
7. *EAGLE and inputs that touch* (`scheduler.py:1228`, whose comment explains the branch by
   prefix caching alone). With two adjacent inputs that do not fit together, the chunk
   that should end before the second is cut one token early, so the first is never
   passed and never freed, and the request waits for ever (`SomeoneCanRun`). A waiting
   request stopped this way also keeps its references (`scheduler.py:697`), unlike one
   stopped by the KV cache, of which line 760 says "we need to untouch the request"
   (`NoLeakedReference`). `EncoderCache.cfg` with `Item("A", 0, 2)`, `Item("B", 2, 1)`
   for request 1, `Item("C", 0, 2)`, `Item("B", 3, 1)` for request 2, and
   `CacheSize = 2`, violates both. With `Item("C", 0, 2)`, `Item("D", 2, 1)` for
   request 2 and `CacheSize = 4` two requests hold what keeps the other from running.
8. *EAGLE and inputs that must not be split* (`scheduler.py:1207`). With
   `disable_chunked_mm_input` a chunk that ends inside an input is cut before it, and
   with EAGLE one token more. `encoder_cache_manager.py:297` only checks that
   `max_num_batched_tokens` is not below the largest input. With a budget of exactly that
   size, an input one token ahead is not covered by the chunk, which is then cut to
   nothing in every step, and the request never runs.
   `EncoderCache.cfg` with the one input `Item("A", 1, 2)` for both requests and
   `Longest(r)` in place of `Longest(r) + 1` in `SomeoneCanRun`, which is the
   smallest chunk the property supposes, violates it.
9. *The output thread* (`multiproc_executor.py:913`; line 851 says of an exception that
   "we send a FAILURE message over the MQ RPC to notify the Executor, which triggers
   system shutdown"). `async_output_busy_loop` has no `try`: if getting or pickling an
   output raises, the thread ends, no FAILURE is sent, the process lives and the monitor
   sees nothing. A call without a timeout then waits for ever. `Executor.cfg` with
   `(engine = "waiting") ~> (engine # "waiting")` in place of `WaitsEnd` is violated;
   with `expires |-> TRUE` in every kind it holds. `execute_model` and `sample_tokens`
   have a timeout (lines 304, 316); utility calls have none unless the caller gives one.

One behaviour contradicts no line of the code but is worth knowing: for an
overflowing message the chunk is marked as read before the payload is received.
If `recv` then times out, the payload stays in the socket and comes out with a
later overflowing message. `gave_up` records it. Another: once a worker has died, and
until the engine learns of it, a call may read answers that an interrupted call left,
and one with several answers may return none if the monitor drops the queues between
its broadcast and its look-up; `AnswersMatch` therefore speaks of the time before. And
a third: a front end names the engine to leave out of START_DP_WAVE by its two-byte
socket identity, which the engine compares with an integer, so nobody is ever left out
(`identity` in `DPWaves`): harmless, as the engine would join by itself.

## 6. Limits of the model

* One worker stands for all tensor- and pipeline-parallel ranks; they see the
  same batches in the same order.
* One full-attention KV cache group. No sliding window, hybrid groups, Mamba,
  cross attention; no KV connector, LoRA, structured output, speculative tokens,
  streaming input or sleep. The corresponding branches of the code are not taken.
  Encoder inputs and pauses are not part of the engine modules; they have modules
  of their own.
* Hashes do not collide; request ids are unique while anything in the engine
  remembers them (the input processor adds a random suffix).
* Kernels are represented by which slots they write and read.
* Of the shared-memory queue, local readers only: remote ones use a socket alone.
  Queue and sockets are taken as connected, the handshake of `wait_until_ready`
  and the creation from process groups are left out. Sockets do not lose
  overflowing messages, and keep one ping. Sending the payload of an overflowing
  message (`shm_broadcast.py:726`) does not raise: if it did after the chunk was
  published, readers would take the next overflowing payload for it.
* Encoder cache: every position of an input has an embedding; no EC connector, no
  encoder-decoder models; the limit on running requests does not bind. The size of a
  chunk is chosen freely below what the request has left.
* Executor: the queues are unbounded and sending never blocks, whereas `acquire_write`
  (`shm_broadcast.py:541`) spins while the ring is full without looking at
  `shutting_down`: an engine that is blocked there is not woken by a death. The failure
  callback is registered from the start, and the executor is shut down only by its
  monitor. The kinds of call of `executor_rpc` have no timeout, although `execute_model`
  and `sample_tokens` have one (`VLLM_EXECUTE_MODEL_TIMEOUT_SECONDS`). With
  `expires |-> TRUE` every wait ends, but a call that is made behind one that timed out
  may take its late answer: with `Kinds` a `Batch` that expires and `Utility`, and
  `MaxPending = 1`, `AnswersMatch` is violated. `KindsSafe` excludes this from the
  theorems.
* Data-parallel waves: one batch at a time per engine (`step`), requests as numbers of
  passes, free placement, no elastic scaling, no load statistics, no shutdown. What a
  pause resets is left out. A front end's task may read updates of the coordinator
  although a note waits: `poll` may have returned before the note came. The model allows
  this at any time.
* `StepConsistent` is checked with one batch in flight; with several and the priority
  policy, a preempted victim that was passed over earlier in the step leaves the index
  one too far. `CachedBlocksComputed` is stated between steps when nothing is left to
  execute: before that, a block may be cached and still be on its way.

## 7. Plan

Modelled: blocks, scheduler, engine loop, worker, the queue and the calls between
them, the encoder cache, data-parallel waves and pauses (above). Next, in order:

1. **Proofs**: `CachedBlocksComputed` and `AttentionReadsOwnPrefix` of the engine also with
   async scheduling and several batches in flight, by extending `ContentInv` over a queue
   of batches with `Ordered`; `SlotsAccountedFor` for the operations of the
   encoder cache manager, once its loops are recursive functions.
2. **KV connectors** (`WAITING_FOR_REMOTE_KVS`, delayed frees, invalid blocks) as an
   extension of `Scheduler`, with partial load failures.
3. **The ring buffer refined** to the queue the executor uses.
4. **Sliding window and hybrid coordinator**: `find_longest_cache_hit` of the hybrid
   coordinator as an operator against a reference definition; `remove_skipped_blocks`.
5. **CPU offloading managers**; **streaming sessions**; **output processor**.

**Not modelled.** Most of the repository is numerical code: model definitions, layers,
quantization, CUDA kernels and their bindings, and the benchmarks and examples around
them. They compute tensors from tensors and keep no state across calls that a model of
control could follow; they enter as the external definitions of `ModelRunner`. API
servers, argument parsing and configuration are sequential glue around the engine.
