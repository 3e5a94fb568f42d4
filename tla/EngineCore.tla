----------------------------- MODULE EngineCore -----------------------------
(***************************************************************************)
(* class EngineCore (vllm/v1/engine/core.py): the busy loop that takes     *)
(* client calls between steps, schedules, hands batches to the worker and  *)
(* updates the scheduler from the outputs, with up to BatchQueueSize       *)
(* batches in flight (step for 1, step_with_batch_queue for more).         *)
(*                                                                         *)
(* The worker executes the batches in the order they were submitted,       *)
(* concurrently with the loop.  A client may add a request, abort one, or  *)
(* reset the prefix cache.                                                 *)
(***************************************************************************)
EXTENDS ModelRunner

CONSTANTS
    BatchQueueSize,     \* batch_queue_size (max_concurrent_batches)
    SampledValues,      \* the values the sampler may draw
    AbortAllowed,       \* the requests a client may abort
    MaxResets,          \* bound on the client's reset_prefix_cache calls
    ResetRunningAllowed \* whether they may say reset_running_requests

\* check_enough_kv_cache_memory at startup: as many blocks as one sequence of
\* MaxModelLen tokens fills.
ASSUME EngineAssumption ==
    /\ cdiv(MaxModelLen, BlockSize) <= NumGpuBlocks
    /\ BatchQueueSize \in Nat \ {0}
    /\ AbortAllowed \subseteq Request
    /\ MaxResets \in Nat

VARIABLES
    phase,          \* where the busy loop is
    batch_queue,    \* the batches in flight, the oldest first
    resets          \* reset_prefix_cache calls so far

engineVars == <<phase, batch_queue, resets>>
vars == <<schedulerVars, runnerVars, engineVars>>

Init ==
    /\ InitScheduler
    /\ InitRunner
    /\ phase = "input"
    /\ batch_queue = <<>>
    /\ resets = 0

-----------------------------------------------------------------------------
\* Client calls.

\* Request ids are unique (InputProcessor.assign_request_id adds a random
\* suffix): an id may serve again once nothing in the engine remembers it.
Fresh(r) ==
    /\ requests[r].status \notin {"WAITING", "RUNNING", "PREEMPTED"}
    /\ r \notin finished_req_ids \cup input_batch
    /\ \A i \in DOMAIN batch_queue : r \notin ScheduledIds(batch_queue[i].out)
    /\ runner_requests[r] = NoState

Add(r) ==
    /\ phase = "input"
    /\ Fresh(r)
    /\ add_request(r)
    /\ UNCHANGED <<runnerVars, engineVars>>

\* An abort is taken from the input queue between steps, or from the aborts
\* queue just before an output is processed.
Abort(r) ==
    /\ phase \in {"input", "output"}
    /\ r \in AbortAllowed
    /\ finish_requests(r)
    /\ UNCHANGED <<runnerVars, engineVars>>

Reset(reset_running_requests) ==
    /\ phase = "input"
    /\ resets < MaxResets
    /\ resets' = resets + 1
    /\ IF reset_running_requests THEN ResetRunning ELSE ResetIdle
    /\ UNCHANGED <<runnerVars, phase, batch_queue>>

Client ==
    \/ \E r \in Request : Add(r)
    \/ \E r \in Request : Abort(r)
    \/ \E b \in {FALSE, ResetRunningAllowed} : Reset(b)

-----------------------------------------------------------------------------
\* The busy loop.

StepStart ==
    /\ phase = "input"
    /\ \/ /\ has_requests
          /\ schedule_start
          /\ phase' = "schedule"
       \/ /\ ~ has_requests
          /\ batch_queue # <<>>
          /\ phase' = "output"
          /\ UNCHANGED schedulerVars
    /\ UNCHANGED <<runnerVars, batch_queue, resets>>

Schedule ==
    /\ phase = "schedule"
    /\ \/ SkipRunning
       \/ EnterRunning
       \/ ScheduleRunning
       \/ PreemptForRunning
       \/ RunningDone
       \/ ScheduleWaiting
    /\ UNCHANGED <<runnerVars, engineVars>>

\* The batch is submitted.  The loop goes on to the next step without waiting
\* for an output when the queue has room and its oldest batch is not done;
\* the worker may just have finished it.
Submit ==
    LET batch == [out |-> SchedulerOutput, done |-> FALSE, sampled |-> <<>>, reads_ok |-> TRUE]
        room == step.scheduled # <<>> /\ Len(batch_queue) + 1 < BatchQueueSize
    IN
    /\ phase = "schedule"
    /\ schedule_end
    /\ batch_queue' = Append(batch_queue, batch)
    /\ \/ room /\ ~ batch_queue'[1].done /\ phase' = "input"
       \/ phase' = "output"
    /\ UNCHANGED <<runnerVars, resets>>

\* update_from_output on the oldest batch, one request at a time.
UpdateRequest ==
    LET batch == batch_queue[1]
        e == batch.out.reqs[1]
    IN
    /\ phase \in {"output", "update"}
    /\ batch.done
    /\ batch.out.reqs # <<>>
    /\ update_request(e.id, batch.sampled[1])
    /\ batch_queue' = [batch_queue EXCEPT ![1].out.reqs = Tail(@), ![1].sampled = Tail(@)]
    /\ phase' = "update"
    /\ UNCHANGED <<runnerVars, resets>>

StepEnd ==
    /\ phase \in {"output", "update"}
    /\ batch_queue[1].done
    /\ batch_queue[1].out.reqs = <<>>
    /\ batch_queue' = Tail(batch_queue)
    /\ phase' = "input"
    /\ UNCHANGED <<schedulerVars, runnerVars, resets>>

\* The worker runs the oldest batch that is not done.  It shares nothing with
\* the scheduler, so its step commutes with those of schedule() and
\* update_from_output() and is taken before or after them.
Execute ==
    /\ phase \in {"input", "output"}
    /\ \E i \in DOMAIN batch_queue :
        LET out == batch_queue[i].out IN
        /\ ~ batch_queue[i].done
        /\ \A j \in 1 .. (i - 1) : batch_queue[j].done
        /\ \E value \in [ScheduledIds(out) -> SampledValues] :
              /\ execute_model(out, value)
              /\ batch_queue' =
                   [batch_queue EXCEPT
                      ![i].done = TRUE,
                      ![i].sampled = [k \in DOMAIN out.reqs |-> SampledToken(out, out.reqs[k], value)],
                      ![i].reads_ok = ReadsOwnPrefix(out)]
        /\ UNCHANGED <<schedulerVars, phase, resets>>

Engine == StepStart \/ Schedule \/ Submit \/ UpdateRequest \/ StepEnd

Next == Client \/ Engine \/ Execute

Spec == Init /\ [][Next]_vars

\* While the busy loop has work, or the worker a batch, one of them goes on.
Fairness == WF_vars(Engine \/ Execute)

FairSpec == Spec /\ Fairness

-----------------------------------------------------------------------------
Status == {"NONE", "WAITING", "RUNNING", "PREEMPTED", "FINISHED", "FINISHED_ABORTED"}

\* Types: the queues hold request ids, the block tables and the free queue
\* hold blocks, and a request never counts more computed tokens than fit the
\* model, nor negative placeholders.
TypeOK ==
    /\ phase \in {"input", "schedule", "output", "update"}
    /\ Len(batch_queue) <= BatchQueueSize
    /\ Range(waiting) \cup Range(running) \subseteq Request
    /\ \A r \in Request :
          /\ requests[r].status \in Status
          /\ requests[r].num_computed_tokens \in 0 .. MaxModelLen
          /\ requests[r].num_output_placeholders \in 0 .. BatchQueueSize
          /\ Range(manager.req_to_blocks[r]) \subseteq Block
    /\ Range(manager.pool.free) \subseteq Block \ {NullBlock}
    /\ step.token_budget \in 0 .. MaxNumScheduledTokens

\* No assertion of the scheduler, the KV cache manager or the block pool fails
\* and none of them raises: a block handed out is unreferenced, a block that
\* is cached was not cached before, a revived block is in the free queue, a
\* resumed request was not in the last step, placeholders stay non-negative.
NoAssertionFails == manager.pool.error = "none"

\* Every block is held by as many requests as its reference count says and
\* is in the free queue, once, exactly when nobody holds it: no block leaks,
\* none is freed twice.
BlocksAccountedFor ==
    LET pool == manager.pool
        holders(b) == {r \in Request : b \in Range(manager.req_to_blocks[r])}
    IN /\ \A b \in Block \ {NullBlock} :
             /\ pool.ref_cnt[b] = Cardinality(holders(b))
             /\ b \in Range(pool.free) <=> holders(b) = {}
       /\ IsInjective(pool.free)
       /\ \A r \in Request : /\ IsInjective(manager.req_to_blocks[r])
                             /\ manager.req_to_blocks[r] # <<>> => requests[r].status = "RUNNING"

\* A block is in the prefix cache under exactly the hash it carries.
CacheIndexConsistent ==
    LET pool == manager.pool
    IN /\ \A h \in DOMAIN pool.cached : pool.cached[h] # <<>> /\ IsInjective(pool.cached[h])
       /\ \A b \in Block : \A h \in DOMAIN pool.cached :
             b \in Range(pool.cached[h]) <=> (pool.block_hash[b] = h)
       /\ \A b \in Block : pool.block_hash[b] # NoHash => pool.block_hash[b] \in DOMAIN pool.cached

\* find_longest_cache_hit stops at the first miss: whenever a block is cached,
\* so is every block before it in its chain.
ChainClosed ==
    \A h \in DOMAIN manager.pool.cached :
        \A k \in 1 .. ((Len(h) \div BlockSize) - 1) : SubSeq(h, 1, k * BlockSize) \in DOMAIN manager.pool.cached

\* Between steps, with nothing left to execute, a cached block holds the keys
\* and values its hash promises.
CachedBlocksComputed ==
    (phase = "input" /\ \A i \in DOMAIN batch_queue : batch_queue[i].done) =>
        \A b \in Block : manager.pool.block_hash[b] # NoHash => kv_cache[b] = manager.pool.block_hash[b]

\* No batch attends to keys and values of tokens that are not the request's:
\* blocks are shared, freed, evicted and reused under batches in flight.
AttentionReadsOwnPrefix == \A i \in DOMAIN batch_queue : batch_queue[i].reads_ok

\* The tokens of the batch: request and number, from 1 for each request.
ScheduledTokens == UNION {{e.id} \X (1 .. e.num_scheduled_tokens) : e \in Range(step.scheduled)}

\* Inside schedule(): every request of the batch is running, is in it once, and
\* the budget is what the batch left of it; req_index stands at the request
\* being scheduled, whoever was preempted before it.
StepConsistent ==
    step.loop # "none" =>
        LET ids == [i \in DOMAIN step.scheduled |-> step.scheduled[i].id]
        IN /\ IsInjective(ids)
           /\ Range(ids) \subseteq Range(running)
           /\ step.token_budget + Cardinality(ScheduledTokens) = MaxNumScheduledTokens
           /\ InnerLoop => step.req_index <= Len(running) /\ running[step.req_index] = step.request

\* A request is in exactly the queue its status says, once.
QueuesMatchStatus ==
    /\ IsInjective(waiting) /\ IsInjective(running)
    /\ \A r \in Request :
          /\ r \in Range(running) <=> requests[r].status = "RUNNING"
          /\ r \in Range(waiting) <=> requests[r].status \in {"WAITING", "PREEMPTED"}
    /\ Len(running) <= MaxNumRunningReqs

\* Each token of a request was sampled for the position it stands at: none is
\* lost, none repeated, whatever was preempted, reset or in flight.
TokensInOrder == \A r \in Request : \A i \in DOMAIN requests[r].tokens : requests[r].tokens[i][1] = i

\* An output placeholder stands for one token in flight.
InFlight(r) ==
    LET sampled(batch, k) ==
            LET e == batch.out.reqs[k]
            IN /\ e.id = r
               /\ IF batch.done THEN batch.sampled[k] # <<>>
                  ELSE SeqLen(e) >= Len(Prompt[r]) + e.num_output_tokens
    IN Cardinality({w \in (DOMAIN batch_queue) \X (1 .. Cardinality(Request)) :
                      /\ w[2] \in DOMAIN batch_queue[w[1]].out.reqs
                      /\ sampled(batch_queue[w[1]], w[2])})

PlaceholdersAreInFlight ==
    \A r \in Request :
        requests[r].status \in {"WAITING", "RUNNING", "PREEMPTED"} =>
            requests[r].num_output_placeholders = (IF AsyncScheduling THEN InFlight(r) ELSE 0)

\* Every request that is added finishes or is aborted, through any number of
\* preemptions.
EveryRequestFinishes ==
    \A r \in Request :
        requests[r].status = "WAITING" ~> requests[r].status \in {"FINISHED", "FINISHED_ABORTED"}
=============================================================================
