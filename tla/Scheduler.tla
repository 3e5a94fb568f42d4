----------------------------- MODULE Scheduler -----------------------------
(***************************************************************************)
(* class Scheduler (vllm/v1/core/sched/scheduler.py) and its subclass      *)
(* AsyncScheduler (async_scheduler.py): the request queues, schedule(),    *)
(* preemption and update_from_output().                                    *)
(*                                                                         *)
(* schedule() is one action per iteration of its two loops, between        *)
(* schedule_start and schedule_end; update_from_output() is one action per *)
(* scheduled request.  The engine (module EngineCore) lets nothing else    *)
(* touch the scheduler in between.                                         *)
(*                                                                         *)
(* Configuration: chunked prefill, prefix caching, one full attention KV   *)
(* cache group; no KV or encoder connector, LoRA, structured output,       *)
(* speculative decoding or streaming input, hence no request is ever       *)
(* blocked and skipped_waiting stays empty.                                *)
(*                                                                         *)
(* A token is a pair <<position, value>>: the position it was sampled for  *)
(* makes a lost or repeated token visible.                                 *)
(***************************************************************************)
EXTENDS KVCacheManager

CONSTANTS
    Prompt,                 \* prompt_token_ids of each request
    MaxTokens,              \* sampling_params.max_tokens of each request
    Priority,               \* request.priority; request ids are in arrival order
    Policy,                 \* "fcfs" or "priority"
    AsyncScheduling,        \* AsyncScheduler instead of Scheduler
    MaxNumScheduledTokens,  \* max_num_scheduled_tokens, the token budget
    LongPrefillTokenThreshold,  \* long_prefill_token_threshold, 0 for none
    MaxNumRunningReqs,      \* max_num_running_reqs
    ReserveFullISL          \* scheduler_reserve_full_isl

ASSUME SchedulerAssumption ==
    /\ Request \subseteq Int
    /\ \A r \in Request : Len(Prompt[r]) \in 1 .. (MaxModelLen - 1) /\ MaxTokens[r] \in Nat \ {0}
    /\ \A r \in Request : Priority[r] \in Int
    /\ Policy \in {"fcfs", "priority"}
    /\ AsyncScheduling \in BOOLEAN /\ ReserveFullISL \in BOOLEAN
    /\ MaxNumScheduledTokens \in Nat \ {0} /\ MaxNumRunningReqs \in Nat \ {0}
    /\ LongPrefillTokenThreshold \in Nat

VARIABLES
    requests,   \* self.requests, and what is left of a request that is not in it
    waiting,    \* self.waiting: the FCFS deque, or the heap in sorted order
    running,    \* self.running
    finished_req_ids,
    prev_step_scheduled_req_ids,
    manager,    \* self.kv_cache_manager
    step        \* the local variables of schedule()

schedulerVars ==
    <<requests, waiting, running, finished_req_ids, prev_step_scheduled_req_ids, manager, step>>

NoRequest == -1

Eos == "eos"

PromptTokens(r) == [i \in 1 .. Len(Prompt[r]) |-> <<i, Prompt[r][i]>>]

\* The locals of schedule(): the loop it is in, the request and the token
\* count of allocate_slots' inner loop, the scheduled requests in the order of
\* num_scheduled_tokens, and whether preempted_reqs is non-empty.
NoStep == [loop |-> "none", req_index |-> 1, token_budget |-> 0, request |-> NoRequest,
           num_new_tokens |-> 0, scheduled |-> <<>>, preempted |-> FALSE]

NewRequest(r, status) ==
    [status |-> status, tokens |-> PromptTokens(r), num_computed_tokens |-> 0,
     num_output_placeholders |-> 0, discard_latest_async_tokens |-> FALSE]

InitScheduler ==
    /\ requests = [r \in Request |-> NewRequest(r, "NONE")]
    /\ waiting = <<>>
    /\ running = <<>>
    /\ finished_req_ids = {}
    /\ prev_step_scheduled_req_ids = {}
    /\ manager = InitManager
    /\ step = NoStep

\* Request.__lt__: what the heap of PriorityRequestQueue is ordered by.
Before(r, s) == Priority[r] < Priority[s] \/ (Priority[r] = Priority[s] /\ r < s)

Without(queue, r) == Keep(queue, Request \ {r})

Insert(queue, r) ==
    Keep(queue, {s \in Request : Before(s, r)}) \o <<r>> \o Keep(queue, {s \in Request : Before(r, s)})

\* add_request and prepend_request of the two kinds of RequestQueue.
Enqueue(queue, r) == IF Policy = "fcfs" THEN Append(queue, r) ELSE Insert(queue, r)
Prepend(queue, r) == IF Policy = "fcfs" THEN <<r>> \o queue ELSE Insert(queue, r)

has_requests == waiting # <<>> \/ running # <<>> \/ finished_req_ids # {}

-----------------------------------------------------------------------------
add_request(r) ==
    /\ requests' = [requests EXCEPT ![r] = NewRequest(r, "WAITING")]
    /\ waiting' = Enqueue(waiting, r)
    /\ UNCHANGED <<running, finished_req_ids, prev_step_scheduled_req_ids, manager, step>>

\* Mutant of finish_requests: a preempted request is looked for in self.running.
finish_requests_LeavesPreempted(r) ==
    /\ requests[r].status \in {"WAITING", "RUNNING", "PREEMPTED"}
    /\ running' = Without(running, r)
    /\ waiting' = IF requests[r].status = "WAITING" THEN Without(waiting, r) ELSE waiting
    /\ requests' = [requests EXCEPT ![r].status = "FINISHED_ABORTED"]
    /\ finished_req_ids' = finished_req_ids \cup {r}
    /\ manager' = free(manager, r)
    /\ UNCHANGED <<prev_step_scheduled_req_ids, step>>

\* finish_requests for one request that is still in self.requests.
finish_requests(r) ==
    /\ requests[r].status \in {"WAITING", "RUNNING", "PREEMPTED"}
    /\ running' = IF requests[r].status = "RUNNING" THEN Without(running, r) ELSE running
    /\ waiting' = IF requests[r].status = "RUNNING" THEN waiting ELSE Without(waiting, r)
    /\ requests' = [requests EXCEPT ![r].status = "FINISHED_ABORTED"]
    /\ finished_req_ids' = finished_req_ids \cup {r}
    /\ manager' = free(manager, r)
    /\ UNCHANGED <<prev_step_scheduled_req_ids, step>>

\* reset_prefix_cache.
ResetIdle ==
    /\ manager' = reset_prefix_cache(manager)
    /\ UNCHANGED <<requests, waiting, running, finished_req_ids, prev_step_scheduled_req_ids, step>>

\* Mutant of ForgetPrevStep: the forced preemption does not clear the set.
ForgetPrevStep_Not == UNCHANGED prev_step_scheduled_req_ids

ForgetPrevStep == prev_step_scheduled_req_ids' = {}

\* With reset_running_requests the running requests us are preempted from the
\* last to the first, so that they resume in order: the manager and the queue
\* of waiting requests this leaves.
PreemptAll(m, queue, us) ==
    LET n == Len(us)
        left[i \in 0 .. n] ==
            IF i = 0 THEN [manager |-> m, waiting |-> queue]
            ELSE [manager |-> free(left[i - 1].manager, us[n + 1 - i]),
                  waiting |-> Prepend(left[i - 1].waiting, us[n + 1 - i])]
    IN left[n]

ResetRunning ==
    LET left == PreemptAll(manager, waiting, running)
    IN
    /\ manager' = IF CanReset(left.manager.pool) THEN reset_prefix_cache(left.manager)
                  ELSE [left.manager EXCEPT !.pool = Fail(@, "reset_prefix_cache: RuntimeError")]
    /\ waiting' = left.waiting
    /\ running' = <<>>
    /\ requests' = [r \in Request |->
                      IF r \in Range(running)
                      THEN [requests[r] EXCEPT !.status = "PREEMPTED", !.num_computed_tokens = 0,
                                               !.num_output_placeholders = 0,
                                               !.discard_latest_async_tokens = TRUE]
                      ELSE requests[r]]
    /\ ForgetPrevStep
    /\ UNCHANGED <<finished_req_ids, step>>

-----------------------------------------------------------------------------
\* schedule(), the loop over the running requests.

schedule_start ==
    /\ step' = [NoStep EXCEPT !.loop = "running", !.token_budget = MaxNumScheduledTokens]
    /\ UNCHANGED <<requests, waiting, running, finished_req_ids, prev_step_scheduled_req_ids, manager>>

InnerLoop == step.request # NoRequest

RunningLeft == /\ step.loop = "running"
               /\ ~ InnerLoop
               /\ step.req_index <= Len(running)
               /\ step.token_budget > 0

RunningDone ==
    /\ step.loop = "running" /\ ~ InnerLoop /\ ~ RunningLeft
    /\ step' = [step EXCEPT !.loop = "waiting"]
    /\ UNCHANGED <<requests, waiting, running, finished_req_ids, prev_step_scheduled_req_ids, manager>>

\* Async scheduling: the step in flight already reaches max_tokens.
ReachesMaxTokens(r) ==
    LET q == requests[r]
    IN /\ q.num_output_placeholders > 0
       /\ q.num_computed_tokens + 2 - q.num_output_placeholders >= Len(Prompt[r]) + MaxTokens[r]

\* Mutant of Chunk: the token budget is not applied.
Chunk_IgnoresBudget(n) == n

\* What is left of n tokens after long_prefill_token_threshold and the budget.
Chunk(n) ==
    LesserOf(IF LongPrefillTokenThreshold > 0 THEN LesserOf(n, LongPrefillTokenThreshold) ELSE n,
             step.token_budget)

NumNewTokens(r) ==
    LET q == requests[r]
    IN LesserOf(Chunk(Len(q.tokens) + q.num_output_placeholders - q.num_computed_tokens),
                MaxModelLen - 1 - q.num_computed_tokens)

SkipRunning ==
    LET r == running[step.req_index] IN
    /\ RunningLeft
    /\ ReachesMaxTokens(r) \/ NumNewTokens(r) = 0
    /\ step' = [step EXCEPT !.req_index = @ + 1]
    /\ UNCHANGED <<requests, waiting, running, finished_req_ids, prev_step_scheduled_req_ids, manager>>

EnterRunning ==
    LET r == running[step.req_index] IN
    /\ RunningLeft
    /\ ~ ReachesMaxTokens(r) /\ NumNewTokens(r) # 0
    /\ step' = [step EXCEPT !.request = r, !.num_new_tokens = NumNewTokens(r)]
    /\ UNCHANGED <<requests, waiting, running, finished_req_ids, prev_step_scheduled_req_ids, manager>>

CanAllocateRunning ==
    CanAllocate(manager, step.request, requests[step.request].num_computed_tokens,
                step.num_new_tokens, <<>>)

\* A scheduled request, as the SchedulerOutput will describe it.
Scheduled(r, kind, n, blocks) == [id |-> r, kind |-> kind, num_scheduled_tokens |-> n, blocks |-> blocks]

ScheduleRunning ==
    LET r == step.request
        q == requests[r]
        held == Len(manager.req_to_blocks[r])
        m == allocate_slots(manager, r, q.tokens, q.num_computed_tokens, step.num_new_tokens, <<>>)
        new_blocks == SubSeq(m.req_to_blocks[r], held + 1, Len(m.req_to_blocks[r]))
    IN
    /\ InnerLoop
    /\ CanAllocateRunning
    /\ manager' = m
    /\ step' = [step EXCEPT !.scheduled = Append(@, Scheduled(r, "running", step.num_new_tokens,
                                                              new_blocks)),
                            !.token_budget = @ - step.num_new_tokens,
                            !.req_index = @ + 1,
                            !.request = NoRequest,
                            !.num_new_tokens = 0]
    /\ UNCHANGED <<requests, waiting, running, finished_req_ids, prev_step_scheduled_req_ids>>

\* The request preempted when a running request gets no slots: the last one,
\* or the one with the largest (priority, arrival_time).
Victim ==
    IF Policy = "fcfs" THEN running[Len(running)]
    ELSE CHOOSE v \in Range(running) : \A r \in Range(running) : r = v \/ Before(r, v)

\* Mutant of Preempt: the tokens in flight are forgotten.
Preempt_DropsPlaceholders(v) ==
    /\ manager' = free(manager, v)
    /\ requests' = [requests EXCEPT ![v].status = "PREEMPTED", ![v].num_computed_tokens = 0,
                                    ![v].num_output_placeholders = 0]
    /\ waiting' = Prepend(waiting, v)

\* _preempt_request, without the removal from self.running.
Preempt(v) ==
    /\ manager' = free(manager, v)
    /\ requests' = [requests EXCEPT ![v].status = "PREEMPTED", ![v].num_computed_tokens = 0]
    /\ waiting' = Prepend(waiting, v)

\* Mutant of StepBack: the index is left alone when the list shrinks before it.
StepBack_Not(req_index, taken) == req_index

StepBack(req_index, taken) == IF taken = {} THEN req_index ELSE req_index - 1

\* Under the priority policy the victim may have been scheduled in this very
\* step: the batch without it, with its tokens back in the budget.
Unscheduled(v) ==
    LET taken == {i \in DOMAIN step.scheduled : step.scheduled[i].id = v}
        back == IF taken = {} THEN 0
                ELSE step.scheduled[CHOOSE i \in taken : TRUE].num_scheduled_tokens
    IN [step EXCEPT !.scheduled = Keep(@, {e \in Range(@) : e.id # v}),
                    !.token_budget = @ + back,
                    !.req_index = StepBack(@, taken)]

\* One more request is preempted.
PreemptForRunning ==
    LET v == Victim IN
    /\ InnerLoop
    /\ ~ CanAllocateRunning
    /\ Preempt(v)
    /\ running' = Without(running, v)
    /\ step' = [Unscheduled(v) EXCEPT !.loop = IF v = step.request THEN "waiting" ELSE @,
                                      !.request = IF v = step.request THEN NoRequest ELSE @,
                                      !.num_new_tokens = IF v = step.request THEN 0 ELSE @,
                                      !.preempted = TRUE]
    /\ UNCHANGED <<finished_req_ids, prev_step_scheduled_req_ids>>

-----------------------------------------------------------------------------
\* schedule(), the loop over the waiting requests.

CanAdmit ==
    LET r == Head(waiting)
        q == requests[r]
        hits == get_computed_blocks(manager, q.tokens)
        computed == Len(hits) * BlockSize
        n == Chunk(Len(q.tokens) - computed)
    IN
    /\ step.loop = "waiting"
    /\ ~ step.preempted
    /\ waiting # <<>>
    /\ step.token_budget > 0
    /\ Len(running) # MaxNumRunningReqs
    /\ ReserveFullISL => can_fit_full_sequence(manager, r, q.tokens, hits)
    /\ CanAllocate(manager, r, computed, n, hits)

ScheduleWaiting ==
    LET r == Head(waiting)
        q == requests[r]
        hits == get_computed_blocks(manager, q.tokens)
        computed == Len(hits) * BlockSize
        n == Chunk(Len(q.tokens) - computed)
        m == allocate_slots(manager, r, q.tokens, computed, n, hits)
        kind == IF q.status = "WAITING" THEN "new" ELSE "resumed"
    IN
    /\ CanAdmit
    /\ manager' = m
    /\ waiting' = Tail(waiting)
    /\ running' = Append(running, r)
    /\ requests' = [requests EXCEPT ![r].status = "RUNNING", ![r].num_computed_tokens = computed]
    /\ step' = [step EXCEPT !.scheduled = Append(@, Scheduled(r, kind, n, m.req_to_blocks[r])),
                            !.token_budget = @ - n]
    /\ UNCHANGED <<finished_req_ids, prev_step_scheduled_req_ids>>

-----------------------------------------------------------------------------
\* schedule(), after the loops.

\* What the SchedulerOutput says of a scheduled request: NewRequestData, or
\* its part of _make_cached_request_data.  all_token_ids is left out for a
\* request the previous step scheduled too.
OutputOf(e) ==
    LET q == requests[e.id] IN
    [id |-> e.id,
     kind |-> e.kind,
     num_scheduled_tokens |-> e.num_scheduled_tokens,
     blocks |-> e.blocks,
     num_computed_tokens |-> q.num_computed_tokens,
     all_token_ids |-> IF e.id \in prev_step_scheduled_req_ids THEN <<>> ELSE q.tokens,
     num_output_tokens |-> Len(q.tokens) - Len(Prompt[e.id]) + q.num_output_placeholders]

SchedulerOutput ==
    [reqs |-> [i \in DOMAIN step.scheduled |-> OutputOf(step.scheduled[i])],
     finished_req_ids |-> finished_req_ids]

\* Mutant of AfterSchedule: a prefill chunk gets a placeholder too.
AfterSchedule_EveryChunk(r, n) ==
    [requests[r] EXCEPT !.num_computed_tokens = @ + n,
                        !.num_output_placeholders = IF AsyncScheduling THEN @ + 1 ELSE @]

\* _update_after_schedule of Scheduler, then of AsyncScheduler.
AfterSchedule(r, n) ==
    LET q == requests[r]
        computed == q.num_computed_tokens + n
        is_prefill_chunk == computed < Len(q.tokens) + q.num_output_placeholders
    IN [q EXCEPT !.num_computed_tokens = computed,
                 !.num_output_placeholders =
                     IF AsyncScheduling /\ ~ is_prefill_chunk THEN @ + 1 ELSE @]

schedule_end ==
    LET ids == {step.scheduled[i].id : i \in DOMAIN step.scheduled}
        tokens(r) == LET i == CHOOSE j \in DOMAIN step.scheduled : step.scheduled[j].id = r
                     IN step.scheduled[i].num_scheduled_tokens
        resumed == {step.scheduled[i].id : i \in {j \in DOMAIN step.scheduled :
                                                    step.scheduled[j].kind = "resumed"}}
    IN
    /\ step.loop = "waiting"
    /\ ~ CanAdmit
    /\ requests' = [r \in Request |-> IF r \in ids THEN AfterSchedule(r, tokens(r)) ELSE requests[r]]
    /\ prev_step_scheduled_req_ids' = ids
    /\ finished_req_ids' = {}
    /\ manager' = IF /\ Len(step.scheduled) <= Len(running)
                     /\ Len(running) <= MaxNumRunningReqs
                     /\ resumed \cap prev_step_scheduled_req_ids = {}
                  THEN manager
                  ELSE [manager EXCEPT !.pool = Fail(@, "schedule: AssertionError")]
    /\ step' = NoStep
    /\ UNCHANGED <<waiting, running>>

-----------------------------------------------------------------------------
\* update_from_output for one scheduled request r and the tokens the model
\* runner returned for it (none for a prefill chunk, otherwise one).

\* Mutant of check_stop: the model length is not a reason to stop.
check_stop_Unbounded(r, tokens) ==
    tokens[Len(tokens)][2] = Eos \/ Len(tokens) - Len(Prompt[r]) >= MaxTokens[r]

\* check_stop, for a request without stop strings and min_tokens.
check_stop(r, tokens) ==
    \/ tokens[Len(tokens)][2] = Eos
    \/ Len(tokens) >= MaxModelLen
    \/ Len(tokens) - Len(Prompt[r]) >= MaxTokens[r]

\* Aborted meanwhile, or nothing sampled, or (AsyncScheduler) a token that
\* was on the fly when the running requests were preempted.
IgnoreOutput(r, sampled) ==
    LET alive == requests[r].status \in {"WAITING", "RUNNING", "PREEMPTED"}
        discard == AsyncScheduling /\ requests[r].discard_latest_async_tokens
    IN
    /\ ~ alive \/ sampled = <<>> \/ discard
    /\ requests' = [requests EXCEPT ![r].discard_latest_async_tokens =
                                       @ /\ ~ (alive /\ sampled # <<>> /\ AsyncScheduling)]
    /\ UNCHANGED <<waiting, running, finished_req_ids, prev_step_scheduled_req_ids, manager, step>>

\* AsyncScheduler caches the blocks its new tokens complete; a preempted
\* request has none.
CachedWithOutput(r, tokens, placeholders) ==
    IF AsyncScheduling /\ requests[r].status = "RUNNING"
    THEN cache_blocks(manager, r, tokens, requests[r].num_computed_tokens - placeholders)
    ELSE manager

\* Mutant of RemoveStopped: only self.running is cleaned up.
RemoveStopped_Running(r) ==
    /\ running' = Without(running, r)
    /\ UNCHANGED waiting

\* A stopped request leaves the queue it was in before it stopped.
RemoveStopped(r) ==
    IF requests[r].status = "RUNNING"
    THEN running' = Without(running, r) /\ UNCHANGED waiting
    ELSE waiting' = Without(waiting, r) /\ UNCHANGED running

ApplyOutput(r, sampled) ==
    LET q == requests[r]
        tokens == q.tokens \o sampled
        placeholders == q.num_output_placeholders - (IF AsyncScheduling THEN 1 ELSE 0)
        cached == CachedWithOutput(r, tokens, placeholders)
        m == IF placeholders >= 0 THEN cached
             ELSE [cached EXCEPT !.pool = Fail(@, "num_output_placeholders < 0")]
        stopped == check_stop(r, tokens)
    IN
    /\ q.status \in {"WAITING", "RUNNING", "PREEMPTED"}
    /\ sampled # <<>>
    /\ ~ (AsyncScheduling /\ q.discard_latest_async_tokens)
    /\ requests' = [requests EXCEPT ![r].tokens = tokens,
                                    ![r].num_output_placeholders = placeholders,
                                    ![r].status = IF stopped THEN "FINISHED" ELSE @]
    /\ manager' = IF stopped THEN free(m, r) ELSE m
    /\ finished_req_ids' = IF stopped THEN finished_req_ids \cup {r} ELSE finished_req_ids
    /\ IF stopped THEN RemoveStopped(r) ELSE UNCHANGED <<running, waiting>>
    /\ UNCHANGED <<prev_step_scheduled_req_ids, step>>

update_request(r, sampled) == IgnoreOutput(r, sampled) \/ ApplyOutput(r, sampled)
=============================================================================
