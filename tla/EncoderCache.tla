---------------------------- MODULE EncoderCache ----------------------------
(***************************************************************************)
(* The cache of encoder outputs (image and audio embeddings) of a          *)
(* multimodal model: class EncoderCacheManager                             *)
(* (vllm/v1/core/encoder_cache_manager.py), how the scheduler uses it      *)
(* (vllm/v1/core/sched/scheduler.py), and the copy that holds the outputs, *)
(* encoder_cache of the model runner (vllm/v1/worker/gpu_model_runner.py). *)
(*                                                                         *)
(* The manager decides what is cached when it plans a step; the worker     *)
(* learns of it from the batches, up to MaxInFlight steps later.  Outputs  *)
(* are shared between requests by the hash of the input; one that nobody   *)
(* refers to stays until its room is needed.                               *)
(*                                                                         *)
(* Of the KV cache only its outcomes are here: allocate_slots may succeed, *)
(* fail, or succeed after preempting requests, and the prefix cache may    *)
(* hold any prefix of a request, be it that another one computed it.       *)
(***************************************************************************)
EXTENDS Integers, Sequences, FiniteSets, SequencesExt, FiniteSetsExt

CONSTANTS
    Request,                \* numbers: the larger, the less urgent and the later
    NumTokens,              \* tokens of each request
    Features,               \* mm_features: per request a sequence of records
                            \*   [identifier, offset, length]
    CacheSize,              \* cache_size, in embeddings
    ComputeBudget,          \* max_num_encoder_input_tokens
    Configs,                \* configurations to choose from: records of
                            \*   policy, "fcfs" or "priority"
                            \*   disable_chunked_mm_input
                            \*   use_eagle, the drafter reads one token ahead
    MaxInFlight,            \* batches planned and not executed yet
    MaxPreemptions,         \* bound on the preemptions
    MaxResets               \* bound on the calls of reset_encoder_cache

\* identifier, the hash of an input, and get_num_encoder_embeds: every position
\* of an input takes an embedding.
HashesOf(r) == {Features[r][i].identifier : i \in DOMAIN Features[r]}
Hash == UNION {HashesOf(r) : r \in Request}
Embeds(h) ==
    CHOOSE n \in {f.length : f \in {f \in UNION {Range(Features[r]) : r \in Request} :
                                       f.identifier = h}} : TRUE

ASSUME EncoderAssumption ==
    /\ Request \subseteq Nat
    /\ NumTokens \in [Request -> Nat \ {0}]
    /\ Configs \subseteq [policy : {"fcfs", "priority"},
                          disable_chunked_mm_input : BOOLEAN, use_eagle : BOOLEAN]
    /\ CacheSize \in Nat /\ ComputeBudget \in Nat
    /\ MaxInFlight \in Nat \ {0} /\ MaxPreemptions \in Nat /\ MaxResets \in Nat
    \* compute_mm_encoder_budget: any one input fits
    /\ \A r \in Request : \A i \in DOMAIN Features[r] :
          /\ Features[r][i].length \in 1 .. CacheSize
          /\ Features[r][i].length <= ComputeBudget
          /\ Features[r][i].length = Embeds(Features[r][i].identifier)
          /\ Features[r][i].offset + Features[r][i].length <= NumTokens[r]
          /\ i > 1 => Features[r][i - 1].offset + Features[r][i - 1].length
                          <= Features[r][i].offset

VARIABLES
    \* EncoderCacheManager
    manager,        \* its fields, see EmptyManager
    \* the scheduler
    not_added,      \* requests that have not arrived
    running, waiting, \* queues of requests
    num_computed_tokens,
    preemptions, resets, \* counted to bound them
    \* schedule(), which is under way unless phase is "idle"
    phase,          \* "idle", "running" or "waiting" (the queue looked at)
    req_index,      \* position in running
    scheduled,      \* requests scheduled: [req, start, num, inputs]
    encoder_compute_budget,
    preempted,      \* whether the step preempted a request
    \* the worker
    in_flight,      \* batches and resets on their way to it
    encoder_cache,  \* the hashes whose outputs it holds
    \* history
    assertion_failed, \* an assertion of allocate or _gather_mm_embeddings
    config          \* the configuration, which never changes

schedulerVars == <<not_added, running, waiting, num_computed_tokens>>
boundVars == <<preemptions, resets>>
stepVars == <<phase, req_index, scheduled, encoder_compute_budget, preempted>>
workerVars == <<in_flight, encoder_cache>>
vars == <<manager, schedulerVars, boundVars, stepVars, workerVars, assertion_failed, config>>

-----------------------------------------------------------------------------
(* EncoderCacheManager: operations from manager to manager *)

EmptyManager ==
    [cached |-> <<>>,                 \* hash -> requests that refer to it
     freeable |-> <<>>,               \* hashes nobody refers to, oldest first
     freed |-> {},                    \* hashes evicted since the last batch
     num_free_slots |-> CacheSize,
     num_freeable_slots |-> CacheSize]

IsCached(m, h) == h \in DOMAIN m.cached

\* Mutant of Refer: an output that waits for eviction is not taken off the list.
Refer_StaysFreeable(m, r, h) ==
    [m EXCEPT !.cached[h] = @ \cup {r},
              !.num_freeable_slots = IF m.cached[h] = {} THEN @ - Embeds(h) ELSE @]

\* check_and_update_cache, for a hash that is cached.
Refer(m, r, h) ==
    IF m.cached[h] = {}
    THEN [m EXCEPT !.cached[h] = {r},
                   !.freeable = Remove(@, h),
                   !.num_freeable_slots = @ - Embeds(h)]
    ELSE [m EXCEPT !.cached[h] = @ \cup {r}]

\* can_allocate, its answer: there is room, if need be after evicting.
can_allocate(m, h, budget, num_embeds_to_schedule) ==
    /\ Embeds(h) <= budget
    /\ Embeds(h) + num_embeds_to_schedule <= m.num_freeable_slots

\* Mutant of Evict: the worker is not told.
Evict_Silent(m, num) ==
    LET Room(k) == m.num_free_slots
                   + FoldLeft(LAMBDA n, h : n + Embeds(h), 0, SubSeq(m.freeable, 1, k))
        k == CHOOSE k \in 0 .. Len(m.freeable) :
                 Room(k) >= num /\ \A j \in 0 .. (k - 1) : Room(j) < num
        evicted == {m.freeable[i] : i \in 1 .. k}
    IN  [m EXCEPT !.cached = [h \in DOMAIN @ \ evicted |-> @[h]],
                  !.freeable = SubSeq(@, k + 1, Len(@)),
                  !.num_free_slots = Room(k)]

\* can_allocate, its effect: the oldest outputs are evicted until num slots are free.
Evict(m, num) ==
    LET Room(k) == m.num_free_slots
                   + FoldLeft(LAMBDA n, h : n + Embeds(h), 0, SubSeq(m.freeable, 1, k))
        k == CHOOSE k \in 0 .. Len(m.freeable) :
                 Room(k) >= num /\ \A j \in 0 .. (k - 1) : Room(j) < num
        evicted == {m.freeable[i] : i \in 1 .. k}
    IN  [m EXCEPT !.cached = [h \in DOMAIN @ \ evicted |-> @[h]],
                  !.freeable = SubSeq(@, k + 1, Len(@)),
                  !.freed = @ \cup evicted,
                  !.num_free_slots = Room(k)]

\* allocate.
allocate(m, r, h) ==
    [m EXCEPT !.cached = [g \in DOMAIN @ \cup {h} |->
                             IF g # h THEN @[g]
                             ELSE IF IsCached(m, h) THEN @[h] \cup {r} ELSE {r}],
              !.num_free_slots = @ - Embeds(h),
              !.num_freeable_slots = @ - Embeds(h)]

\* Mutant of free_encoder_input: a reference already dropped is dropped again.
free_encoder_input_Twice(m, r, h) ==
    IF ~IsCached(m, h) THEN m
    ELSE IF m.cached[h] \ {r} # {} THEN [m EXCEPT !.cached[h] = @ \ {r}]
    ELSE [m EXCEPT !.cached[h] = {},
                   !.freeable = Append(@, h),
                   !.num_freeable_slots = @ + Embeds(h)]

\* free_encoder_input: an output nobody refers to any more becomes freeable.
free_encoder_input(m, r, h) ==
    IF ~IsCached(m, h) THEN m
    ELSE IF m.cached[h] = {} THEN m
    ELSE IF m.cached[h] \ {r} # {} THEN [m EXCEPT !.cached[h] = @ \ {r}]
    ELSE [m EXCEPT !.cached[h] = {},
                   !.freeable = Append(@, h),
                   !.num_freeable_slots = @ + Embeds(h)]

\* free(request) and _free_encoder_inputs(request): the inputs that end at or
\* before token n.
FreeUpTo(m, r, n) ==
    FoldLeft(LAMBDA mm, f : IF f.offset + f.length <= n
                            THEN free_encoder_input(mm, r, f.identifier) ELSE mm,
             m, Features[r])

\* Mutant of free: inputs the request has not got to are left out.
free_Computed(m, r) == FreeUpTo(m, r, num_computed_tokens[r])

free(m, r) == FreeUpTo(m, r, NumTokens[r])

-----------------------------------------------------------------------------
(* Scheduler: _try_schedule_encoder_inputs *)

\* shift_computed_tokens
Shift == IF config.use_eagle THEN 1 ELSE 0

\* Mutant of TryInput: a chunk whose input has no room is not shortened but given up.
TryInput_GivesUp(r, start, t, f) ==
    LET before == IF start + Shift < f.offset THEN f.offset - (start + Shift) ELSE 0
        Stop(num) == [t EXCEPT !.done = TRUE, !.num = num]
        needed == t.num_embeds + Embeds(f.identifier)
        evicted == Evict(t.manager, needed)
    IN  CASE t.done -> t
          [] f.offset >= start + t.num + Shift -> Stop(t.num)
          [] f.offset + f.length <= start -> t
          [] f.identifier \in t.inputs -> t
          [] IsCached(t.manager, f.identifier) ->
                [t EXCEPT !.manager = Refer(@, r, f.identifier)]
          [] /\ config.disable_chunked_mm_input /\ start < f.offset
             /\ start + t.num < f.offset + f.length -> Stop(before)
          [] ~can_allocate(t.manager, f.identifier, t.budget, t.num_embeds) -> Stop(0)
          [] f.offset >= start + t.num -> [t EXCEPT !.manager = evicted]
          [] OTHER ->
                [t EXCEPT !.manager = evicted,
                          !.inputs = @ \cup {f.identifier},
                          !.num_embeds = needed,
                          !.budget = @ - Embeds(f.identifier)]

\* One round of its loop, on the trackers t of the request.  A round that ends
\* the loop (done) may shorten the chunk to end before the input.
TryInput(r, start, t, f) ==
    LET before == IF start + Shift < f.offset THEN f.offset - (start + Shift) ELSE 0
        Stop(num) == [t EXCEPT !.done = TRUE, !.num = num]
        needed == t.num_embeds + Embeds(f.identifier)
        evicted == Evict(t.manager, needed)
    IN  CASE t.done -> t
          [] f.offset >= start + t.num + Shift -> Stop(t.num)
          [] f.offset + f.length <= start -> t
          [] f.identifier \in t.inputs -> t
          [] IsCached(t.manager, f.identifier) ->
                [t EXCEPT !.manager = Refer(@, r, f.identifier)]
          [] /\ config.disable_chunked_mm_input /\ start < f.offset
             /\ start + t.num < f.offset + f.length -> Stop(before)
          [] ~can_allocate(t.manager, f.identifier, t.budget, t.num_embeds) -> Stop(before)
          \* no embedding in the range (which ends where the input starts)
          [] f.offset >= start + t.num -> [t EXCEPT !.manager = evicted]
          [] OTHER ->
                [t EXCEPT !.manager = evicted,
                          !.inputs = @ \cup {f.identifier},
                          !.num_embeds = needed,
                          !.budget = @ - Embeds(f.identifier)]

\* The chunk of num tokens from start, as far as its inputs can be encoded.
_try_schedule_encoder_inputs(r, start, num) ==
    FoldLeft(LAMBDA t, f : TryInput(r, start, t, f),
             [manager |-> manager, num |-> num, budget |-> encoder_compute_budget,
              inputs |-> {}, num_embeds |-> 0, done |-> FALSE],
             Features[r])

\* allocate for every input scheduled.
AllocateInputs(m, r, inputs) ==
    FoldSet(LAMBDA h, mm : allocate(mm, r, h), m, inputs)
\* What the assertions of allocate say of them.
RoomForInputs(m, inputs) ==
    MapThenSumSet(Embeds, inputs) <= Min({m.num_free_slots, m.num_freeable_slots})

-----------------------------------------------------------------------------
(* Scheduler: schedule() *)

Init ==
    /\ config \in Configs
    /\ manager = EmptyManager
    /\ running = <<>>
    /\ waiting = <<>> /\ not_added = Request
    /\ num_computed_tokens = [r \in Request |-> 0]
    /\ preemptions = 0 /\ resets = 0
    /\ phase = "idle" /\ req_index = 1 /\ scheduled = <<>>
    /\ encoder_compute_budget = ComputeBudget /\ preempted = FALSE
    /\ in_flight = <<>> /\ encoder_cache = {}
    /\ assertion_failed = FALSE

BeginStep ==
    /\ phase = "idle"
    /\ Len(in_flight) < MaxInFlight
    /\ running # <<>> \/ waiting # <<>>
    /\ phase' = "running"
    /\ UNCHANGED <<manager, schedulerVars, boundVars, req_index, scheduled,
                   encoder_compute_budget, preempted, workerVars, assertion_failed, config>>

\* The request to preempt: the last one, or the least urgent one.
Victim(queue) ==
    IF config.policy = "priority" THEN Max(Range(queue)) ELSE Last(queue)

\* Preemption of one request (_preempt_request and the lines before its call), on
\* the locals s of schedule().  If it was scheduled in this step its entry is taken
\* back and its encoder budget restored; that happens to priority scheduling only,
\* as otherwise the victim comes after the requests scheduled.
PreemptOne(s) ==
    LET v == Victim(s.running)
        entries == SelectSeq(s.scheduled, LAMBDA e : e.req = v)
    IN  [manager |-> free(s.manager, v),
         running |-> Remove(s.running, v),
         waiting |-> IF config.policy = "priority"
                     THEN SetToSortSeq(Range(s.waiting) \cup {v}, <)
                     ELSE <<v>> \o s.waiting,
         scheduled |-> SelectSeq(s.scheduled, LAMBDA e : e.req # v),
         budget |-> s.budget + FoldLeft(LAMBDA n, e : n + MapThenSumSet(Embeds, e.inputs),
                                        0, entries),
         req_index |-> s.req_index - Len(entries),
         victims |-> s.victims \cup {v}]

\* The state of the step after k preemptions.
Preempt(m, k) ==
    FoldLeft(LAMBDA s, i : PreemptOne(s),
             [manager |-> m, running |-> running, waiting |-> waiting,
              scheduled |-> scheduled, budget |-> encoder_compute_budget,
              req_index |-> req_index, victims |-> {}],
             [i \in 1 .. k |-> i])

\* The request at req_index gets a chunk of n tokens, as the token budget allows,
\* and the KV cache has room for it after k preemptions.  Past its prompt it gets
\* tokens that concern no input: n is 0.
ScheduleRunning(n, k) ==
    /\ phase = "running" /\ req_index <= Len(running)
    /\ LET r == running[req_index]
           start == num_computed_tokens[r]
           past == start = NumTokens[r]
           t == _try_schedule_encoder_inputs(r, start, n)
           s == Preempt(t.manager, k)
       IN  /\ n <= NumTokens[r] - start /\ (n = 0 <=> past)
           /\ \/ \* no token can be scheduled: the request is skipped
                 /\ t.num = 0 /\ k = 0
                 /\ manager' = t.manager
                 /\ req_index' = req_index + 1
                 /\ UNCHANGED <<schedulerVars, boundVars, phase, scheduled,
                                encoder_compute_budget, preempted, assertion_failed>>
              \/ /\ t.num > 0 \/ past
                 /\ k <= Len(running) /\ preemptions + k <= MaxPreemptions
                 /\ k > 0 => r \notin Preempt(t.manager, k - 1).victims
                 /\ running' = s.running /\ waiting' = s.waiting
                 /\ num_computed_tokens' = [q \in Request |->
                       IF q \in s.victims THEN 0 ELSE num_computed_tokens[q]]
                 /\ preempted' = (preempted \/ k > 0)
                 /\ preemptions' = preemptions + k
                 /\ IF r \in s.victims
                    THEN \* no more request to preempt
                         /\ manager' = s.manager
                         /\ scheduled' = s.scheduled
                         /\ encoder_compute_budget' = s.budget
                         /\ req_index' = s.req_index
                         /\ phase' = "done"
                         /\ UNCHANGED assertion_failed
                    ELSE /\ manager' = AllocateInputs(s.manager, r, t.inputs)
                         /\ scheduled' = Append(s.scheduled,
                               [req |-> r, start |-> start, num |-> t.num,
                                inputs |-> t.inputs])
                         /\ encoder_compute_budget' =
                               IF t.inputs # {} THEN t.budget ELSE s.budget
                         /\ req_index' = s.req_index + 1
                         /\ assertion_failed' =
                               (assertion_failed \/ ~RoomForInputs(s.manager, t.inputs))
                         /\ UNCHANGED phase
                 /\ UNCHANGED <<not_added, resets>>
    /\ UNCHANGED <<workerVars, config>>

\* The requests in running have had their turn and none was preempted.
AtWaiting ==
    \/ phase = "waiting"
    \/ phase = "running" /\ req_index > Len(running) /\ ~preempted

\* The head of waiting: the prefix cache holds its first c tokens (of earlier requests
\* that began alike, or its own), the token budget allows a chunk of n, the KV cache has
\* room for it (fits) or has not.
ScheduleWaiting(c, n, fits) ==
    /\ AtWaiting /\ waiting # <<>>
    /\ LET r == Head(waiting)
           t == _try_schedule_encoder_inputs(r, c, n)
       IN  /\ n <= NumTokens[r] - c
           /\ \/ /\ t.num = 0 /\ fits
                 /\ manager' = t.manager
                 /\ phase' = "done"
                 /\ UNCHANGED <<schedulerVars, scheduled, encoder_compute_budget, assertion_failed>>
              \/ /\ t.num > 0 /\ ~fits
                 /\ manager' = free(t.manager, r)
                 /\ phase' = "done"
                 /\ UNCHANGED <<schedulerVars, scheduled, encoder_compute_budget, assertion_failed>>
              \/ /\ t.num > 0 /\ fits
                 /\ manager' = AllocateInputs(t.manager, r, t.inputs)
                 /\ waiting' = Tail(waiting) /\ running' = Append(running, r)
                 /\ num_computed_tokens' = [num_computed_tokens EXCEPT ![r] = c]
                 /\ scheduled' = Append(scheduled, [req |-> r, start |-> c, num |-> t.num,
                                                    inputs |-> t.inputs])
                 /\ encoder_compute_budget' = t.budget
                 /\ phase' = "waiting"
                 /\ assertion_failed' =
                       (assertion_failed \/ ~RoomForInputs(t.manager, t.inputs))
                 /\ UNCHANGED not_added
    /\ UNCHANGED <<boundVars, req_index, preempted, workerVars, config>>

\* What schedule() returns: the scheduled chunks with the inputs to encode, and
\* free_encoder_mm_hashes.
SchedulerOutput == [reset |-> FALSE, scheduled |-> scheduled, free |-> manager.freed]

\* The end of schedule(), wherever the token budget runs out: the batch leaves, and
\* _update_after_schedule advances the requests and drops the references to the
\* inputs they are past.  (A batch that holds nothing is not recorded.)
EndStep ==
    /\ phase # "idle"
    /\ LET Advance(s, e) == FreeUpTo(s, e.req, e.start + e.num)
       IN  manager' = FoldLeft(Advance, [manager EXCEPT !.freed = {}], scheduled)
    /\ num_computed_tokens' = [r \in Request |->
          LET chunks == {e \in Range(scheduled) : e.req = r}
          IN  num_computed_tokens[r] + FoldSet(LAMBDA e, n : n + e.num, 0, chunks)]
    /\ in_flight' = IF scheduled = <<>> /\ manager.freed = {} THEN in_flight
                    ELSE Append(in_flight, SchedulerOutput)
    /\ phase' = "idle" /\ req_index' = 1 /\ scheduled' = <<>>
    /\ encoder_compute_budget' = ComputeBudget /\ preempted' = FALSE
    /\ UNCHANGED <<not_added, running, waiting, boundVars, encoder_cache, assertion_failed, config>>

-----------------------------------------------------------------------------
(* The other operations of the scheduler, between steps *)

\* add_request, in the order of the policy.
add_request(r) ==
    /\ phase = "idle"
    /\ r \in not_added
    /\ not_added' = not_added \ {r}
    /\ waiting' = IF config.policy = "priority"
                  THEN SetToSortSeq(Range(waiting) \cup {r}, <)
                  ELSE Append(waiting, r)
    /\ UNCHANGED <<manager, running, num_computed_tokens, boundVars, stepVars, workerVars,
                   assertion_failed, config>>

\* finish_requests and a request that stops: _free_request.
_free_request(r) ==
    /\ phase = "idle"
    /\ r \in Range(running) \cup Range(waiting)
    /\ running' = Remove(running, r) /\ waiting' = Remove(waiting, r)
    /\ manager' = free(manager, r)
    /\ UNCHANGED <<not_added, num_computed_tokens, boundVars, stepVars, workerVars,
                   assertion_failed, config>>

\* Mutant of reset_encoder_cache: the manager only.
reset_encoder_cache_Manager ==
    /\ phase = "idle" /\ resets < MaxResets
    /\ resets' = resets + 1
    /\ manager' = EmptyManager
    /\ UNCHANGED <<schedulerVars, preemptions, stepVars, workerVars, assertion_failed, config>>

\* reset_encoder_cache of the engine: the manager at once, the worker after the
\* batches on their way.
reset_encoder_cache ==
    /\ phase = "idle" /\ resets < MaxResets
    /\ resets' = resets + 1
    /\ manager' = EmptyManager
    /\ in_flight' = Append(in_flight, [reset |-> TRUE, scheduled |-> <<>>, free |-> {}])
    /\ UNCHANGED <<schedulerVars, preemptions, stepVars, encoder_cache, assertion_failed, config>>

-----------------------------------------------------------------------------
(* Model runner *)

\* _gather_mm_embeddings: the outputs the chunk reads, the drafter's one token ahead.
Gathered(e, shift) ==
    LET start == e.start + shift
    IN  {Features[e.req][i].identifier : i \in {i \in DOMAIN Features[e.req] :
            /\ Features[e.req][i].offset < start + e.num
            /\ Features[e.req][i].offset + Features[e.req][i].length > start}}

Encoded(batch) == UNION {e.inputs : e \in Range(batch.scheduled)}
Read(batch) == UNION {Gathered(e, s) : e \in Range(batch.scheduled), s \in {0, Shift}}

\* Mutant of Updated: outputs are freed last.
Updated_FreesLast(batch) == (encoder_cache \cup Encoded(batch)) \ batch.free

\* The outputs are freed (_update_states), then the inputs encoded
\* (_execute_mm_encoder).
Updated(batch) == (encoder_cache \ batch.free) \cup Encoded(batch)

\* execute_model: the outputs are read once they are up to date; or
\* reset_encoder_cache of the worker.
execute_model ==
    /\ in_flight # <<>>
    /\ in_flight' = Tail(in_flight)
    /\ LET batch == Head(in_flight)
       IN  /\ encoder_cache' = IF batch.reset THEN {} ELSE Updated(batch)
           /\ assertion_failed' =
                 (assertion_failed \/ ~(Read(batch) \subseteq Updated(batch)))
    /\ UNCHANGED <<manager, schedulerVars, boundVars, stepVars, config>>

Next ==
    \/ BeginStep
    \/ \E n \in 0 .. Max(Range(NumTokens)), k \in 0 .. MaxPreemptions : ScheduleRunning(n, k)
    \/ \E c \in 0 .. Max(Range(NumTokens)), n \in 1 .. Max(Range(NumTokens)), fits \in BOOLEAN :
          ScheduleWaiting(c, n, fits)
    \/ EndStep
    \/ \E r \in Request : add_request(r) \/ _free_request(r)
    \/ reset_encoder_cache
    \/ execute_model

Spec == Init /\ [][Next]_vars

-----------------------------------------------------------------------------
(* Type invariant: queues of distinct requests, counters within the cache. *)
TypeOK ==
    /\ config \in Configs
    /\ DOMAIN manager.cached \subseteq Hash /\ Range(manager.cached) \subseteq SUBSET Request
    /\ Range(manager.freeable) \cup manager.freed \subseteq Hash
    /\ manager.num_free_slots \in 0 .. CacheSize
    /\ manager.num_freeable_slots \in manager.num_free_slots .. CacheSize
    /\ IsInjective(running \o waiting)
    /\ Range(running \o waiting) \cup not_added \subseteq Request
    /\ num_computed_tokens \in [Request -> Nat]
    /\ \A r \in Request : num_computed_tokens[r] <= NumTokens[r]
    /\ phase \in {"idle", "running", "waiting", "done"}
    /\ req_index \in 1 .. Len(running) + 1
    /\ encoder_compute_budget \in 0 .. ComputeBudget
    /\ \A b \in Range(in_flight) : b.free \subseteq Hash
    /\ Len(in_flight) <= MaxInFlight + MaxResets
    /\ encoder_cache \subseteq Hash

(* Every output a batch reads is in the worker's cache when it is read (the  *)
(* assertion "Encoder cache miss"), and every input scheduled has its room   *)
(* (the assertions of allocate), whatever was evicted, encoded again, freed  *)
(* by a preemption or reset while earlier batches were on their way.         *)
NoAssertionFails == ~assertion_failed

(* The slots are accounted for: free slots are those no output holds,        *)
(* freeable ones besides those of the outputs nobody refers to, and these    *)
(* are in the queue of evictions, once each.                                 *)
SlotsAccountedFor ==
    LET unreferenced == {h \in DOMAIN manager.cached : manager.cached[h] = {}}
    IN  /\ manager.num_free_slots = CacheSize - MapThenSumSet(Embeds, DOMAIN manager.cached)
        /\ manager.num_freeable_slots =
              manager.num_free_slots + MapThenSumSet(Embeds, unreferenced)
        /\ Range(manager.freeable) = unreferenced /\ IsInjective(manager.freeable)

(* The outputs in the worker's memory never take more than the cache size,   *)
(* although the worker is told of evictions a batch at a time.               *)
WorkerFits == MapThenSumSet(Embeds, encoder_cache) <= CacheSize

(* An output is referred to by requests that run only: one that was          *)
(* preempted, finished, or put back because the KV cache was full keeps no   *)
(* output from being evicted.                                                *)
NoLeakedReference ==
    \A h \in DOMAIN manager.cached : manager.cached[h] \subseteq Range(running)

(* Once the worker has caught up it holds exactly the outputs the manager    *)
(* counts on, but for those it is to be told to free.                        *)
WorkerInStep ==
    phase = "idle" /\ in_flight = <<>> =>
        encoder_cache = DOMAIN manager.cached \cup manager.freed

(* Requests never wait for one another's outputs for ever, although one      *)
(* holds the output it is in the middle of while it asks for the next:       *)
(* between steps there is a request that runs and gets tokens in the next    *)
(* step whatever chunk the token budget leaves it, or if none runs the first *)
(* that waits does.  (Each request may be left a chunk of its own size, so   *)
(* one that gets tokens whatever it is left is what it takes.)               *)
SomeoneCanRun ==
    LET Left(r, start) == NumTokens[r] - start
        Longest(r) == Max({0} \cup {f.length : f \in Range(Features[r])})
        \* Where chunks must not split an input, its first one must hold all of it
        \* and the token before it that the drafter's shift holds back.
        Chunks(r, start) ==
            IF config.disable_chunked_mm_input /\ config.use_eagle
            THEN Min({Left(r, start), Longest(r) + 1}) .. Left(r, start)
            ELSE 1 .. Left(r, start)
        Can(r, start) ==
            \/ start = NumTokens[r]
            \/ \A n \in Chunks(r, start) :
                  _try_schedule_encoder_inputs(r, start, n).num > 0
    IN  phase = "idle" =>
           /\ running # <<>> => \E r \in Range(running) : Can(r, num_computed_tokens[r])
           /\ running = <<>> /\ waiting # <<>> =>
                 \A c \in 0 .. NumTokens[Head(waiting)] - 1 : Can(Head(waiting), c)

=============================================================================
