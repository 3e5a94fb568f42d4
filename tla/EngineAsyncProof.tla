-------------------------- MODULE EngineAsyncProof --------------------------
(***************************************************************************)
(* Async scheduling: an output placeholder stands for one token in flight, *)
(* so the assertion on num_output_placeholders holds.  The worker decides  *)
(* by the number of tokens it knows whether a request is sampled, the      *)
(* scheduler by the number it has counted up to the batches in flight; the *)
(* two agree.                                                              *)
(***************************************************************************)
EXTENDS EngineCoreProof, FunctionTheorems

-----------------------------------------------------------------------------
(* The third invariant *)

\* The tokens of request q, those in flight included.
Known(q) == Len(q.tokens) + q.num_output_placeholders

\* The tokens of a request that a batch counts on when it executes its entry e,
\* whether the entry gets one more, and the tokens there are then.
Base(e) == Len(Prompt[e.id]) + e.num_output_tokens
Samples(e) == SeqLen(e) >= Base(e)
Left(e) == IF Samples(e) THEN Base(e) + 1 ELSE Base(e)

\* Batch b brings, or will bring, a token for r.
Brings(b, r) ==
    \E k \in DOMAIN b.out.reqs :
        /\ b.out.reqs[k].id = r
        /\ IF b.done THEN b.sampled[k] # <<>> ELSE Samples(b.out.reqs[k])

Pending(queue, r) == {i \in DOMAIN queue : Brings(queue[i], r)}

\* The entry of r in batch b.
Has(b, r) == \E k \in DOMAIN b.out.reqs : b.out.reqs[k].id = r

\* r is in the batch that schedule() makes for the first time.
IsNew(s, r) == \E i \in DOMAIN s.scheduled : s.scheduled[i].id = r /\ s.scheduled[i].kind = "new"

\* The worker knows r, or will from a batch in flight.
Started(q, s, r) == q[r].status \in {"RUNNING", "PREEMPTED"} /\ ~IsNew(s, r)

\* f[i] is the number of tokens the worker has of r when it comes to batch i.
Tracks(f, queue, runner, r) ==
    /\ DOMAIN f = 1 .. (Len(queue) + 1)
    /\ \A i \in DOMAIN f : (\A j \in 1 .. (i - 1) : queue[j].done) => f[i] = Len(runner[r].tokens)
    /\ \A i \in DOMAIN queue : ~queue[i].done =>
          /\ ~Has(queue[i], r) =>
                f[i + 1] = IF r \in queue[i].out.finished_req_ids THEN 0 ELSE f[i]
          /\ \A k \in DOMAIN queue[i].out.reqs :
                LET e == queue[i].out.reqs[k]
                IN e.id = r => /\ Base(e) = IF e.kind = "new" THEN Len(Prompt[r]) ELSE f[i]
                               /\ f[i + 1] = Left(e)

Tracked ==
    \A r \in Request : requests[r].status \in Alive =>
        \E f : /\ Tracks(f, batch_queue, runner_requests, r)
               /\ Started(requests, step, r) => f[Len(batch_queue) + 1] = Known(requests[r])

\* The requests of the batch before the i-th.
IdsBefore(queue, in_batch, i) ==
    IF \A j \in 1 .. (i - 1) : queue[j].done THEN in_batch ELSE ScheduledIds(queue[i - 1].out)

\* Entry e finds the output tokens it counts on in the persistent batch, whose
\* requests are ids, or brings them along.
Recoverable(e, ids) ==
    \/ e.kind = "new"
    \/ Len(e.all_token_ids) >= e.num_output_tokens
    \/ e.kind = "running" /\ e.id \in ids

IsOutput(e) ==
    /\ e.num_computed_tokens \in Int /\ e.num_scheduled_tokens \in Int
    /\ e.num_output_tokens \in Nat /\ IsSeq(e.all_token_ids)

\* Batch b has each request once, and none that finished.
BatchOK(b) ==
    /\ \A k, l \in DOMAIN b.out.reqs : b.out.reqs[k].id = b.out.reqs[l].id => k = l
    /\ \A k \in DOMAIN b.out.reqs : /\ IsOutput(b.out.reqs[k])
                                    /\ b.out.reqs[k].id \notin b.out.finished_req_ids

\* The batches of queue, for what was scheduled last and the persistent batch.
BatchesOf(queue, in_batch, previous) ==
    /\ \A i \in DOMAIN queue :
          /\ BatchOK(queue[i])
          /\ queue[i].done \in BOOLEAN
          /\ queue[i].done => \A j \in 1 .. (i - 1) : queue[j].done
          /\ ~queue[i].done =>
                \A k \in DOMAIN queue[i].out.reqs :
                   Recoverable(queue[i].out.reqs[k], IdsBefore(queue, in_batch, i))
    /\ previous = IdsBefore(queue, in_batch, Len(queue) + 1)

Batches ==
    /\ Len(batch_queue) <= BatchQueueSize
    /\ phase \in {"input", "schedule"} => Len(batch_queue) < BatchQueueSize
    /\ BatchesOf(batch_queue, input_batch, prev_step_scheduled_req_ids)

Worker == DOMAIN runner_requests = Request /\ \A r \in Request : IsSeq(runner_requests[r].tokens)

\* A request that the worker does not know yet has its prompt only.
Unstarted(q, queue, r) ==
    /\ Len(q.tokens) = Len(Prompt[r]) /\ q.num_output_placeholders = 0
    /\ \A i \in DOMAIN queue : ~Has(queue[i], r)

Kinds ==
    /\ \A i \in DOMAIN step.scheduled : step.scheduled[i].kind \in {"new", "resumed", "running"}
    /\ step.loop = "running" => \A i \in DOMAIN step.scheduled : step.scheduled[i].kind = "running"

Progress ==
    \A r \in Request :
        /\ Len(requests[r].tokens) >= Len(Prompt[r])
        /\ requests[r].discard_latest_async_tokens = FALSE
        /\ requests[r].num_output_placeholders <= BatchQueueSize
        /\ requests[r].status \in Alive =>
              /\ r \notin finished_req_ids
              /\ requests[r].num_output_placeholders = Cardinality(Pending(batch_queue, r))
              /\ ~Started(requests, step, r) => Unstarted(requests[r], batch_queue, r)

\* The third invariant.
InFlightInv == Batches /\ Worker /\ Kinds /\ Progress /\ Tracked

-----------------------------------------------------------------------------
(* What each action does to it *)

\* A step leaves tokens and placeholders alone and lets no request start or
\* come to life.
SameLives ==
    /\ Kinds'
    /\ \A r \in Request :
          /\ requests'[r].tokens = requests[r].tokens
          /\ requests'[r].num_output_placeholders = requests[r].num_output_placeholders
          /\ requests'[r].discard_latest_async_tokens = requests[r].discard_latest_async_tokens
          /\ requests'[r].status \in Alive =>
                /\ requests[r].status \in Alive
                /\ r \in finished_req_ids' => r \in finished_req_ids
                /\ Started(requests', step', r) <=> Started(requests, step, r)

(***************************************************************************)
(* Such a step keeps the third invariant if it leaves batches and worker   *)
(* alone.                                                                  *)
(***************************************************************************)
LEMMA CarryInFlight ==
    ASSUME InFlightInv, SameLives,
           UNCHANGED <<batch_queue, runner_requests, input_batch, prev_step_scheduled_req_ids>>,
           phase' \in {"input", "schedule"} => phase \in {"input", "schedule"}
    PROVE  InFlightInv'
<1> USE DEF SameLives
<1>1. Batches'
  BY DEF InFlightInv, Batches
<1>2. Worker'
  BY DEF InFlightInv, Worker
<1>3. \A r \in Request : requests'[r].status \in Alive =>
         (Unstarted(requests[r], batch_queue, r) => Unstarted(requests'[r], batch_queue, r))
  BY DEF Unstarted
<1>4. Progress'
  <2> SUFFICES ASSUME NEW r \in Request
               PROVE  /\ Len(requests'[r].tokens) >= Len(Prompt[r])
                      /\ requests'[r].discard_latest_async_tokens = FALSE
                      /\ requests'[r].num_output_placeholders <= BatchQueueSize
                      /\ requests'[r].status \in Alive =>
                            /\ r \notin finished_req_ids'
                            /\ requests'[r].num_output_placeholders
                                  = Cardinality(Pending(batch_queue, r))
                            /\ ~Started(requests', step', r) =>
                                  Unstarted(requests'[r], batch_queue, r)
    BY DEF Progress
  <2> QED BY <1>3 DEF InFlightInv, Progress
<1>5. \A r \in Request : Known(requests'[r]) = Known(requests[r])
  BY DEF Known
<1>6. Tracked'
  BY <1>5 DEF InFlightInv, Tracked
<1> QED BY <1>1, <1>2, <1>4, <1>6 DEF InFlightInv

(***************************************************************************)
(* abort_requests ends one request.                                        *)
(***************************************************************************)
LEMMA AbortLives ==
    ASSUME IInv, Kinds, NEW r \in Request, Abort(r)
    PROVE  SameLives
<1>1. /\ requests' = [requests EXCEPT ![r].status = "FINISHED_ABORTED"]
      /\ finished_req_ids' = finished_req_ids \cup {r} /\ step' = step
  BY DEF Abort, finish_requests
<1>2. DOMAIN requests = Request /\ \A s \in Request : IsRequest(requests[s])
  BY Basics
<1>3. /\ \A s \in Request : s # r => requests'[s] = requests[s]
      /\ requests'[r] = [requests[r] EXCEPT !.status = "FINISHED_ABORTED"]
  BY <1>1, <1>2
<1>4. /\ requests'[r].status \notin Alive /\ requests'[r].tokens = requests[r].tokens
      /\ requests'[r].num_output_placeholders = requests[r].num_output_placeholders
      /\ requests'[r].discard_latest_async_tokens = requests[r].discard_latest_async_tokens
  BY <1>2, <1>3 DEF IsRequest, Alive
<1>5. \A s \in Request : s # r => (Started(requests', step', s) <=> Started(requests, step, s))
  BY <1>1, <1>3 DEF Started
<1>6. Kinds'
  BY <1>1 DEF Kinds
<1> QED BY <1>1, <1>3, <1>4, <1>5, <1>6 DEF SameLives

(***************************************************************************)
(* A step may leave the requests alone and put nothing new in the batch.   *)
(***************************************************************************)
LEMMA SameRequestsLives ==
    ASSUME requests' = requests, finished_req_ids' = finished_req_ids, Kinds',
           \A r : IsNew(step', r) <=> IsNew(step, r)
    PROVE  SameLives
<1> QED BY DEF Started, SameLives

(***************************************************************************)
(* reset_prefix_cache.                                                     *)
(***************************************************************************)
LEMMA ResetIdleLives ==
    ASSUME Kinds, ResetIdle
    PROVE  SameLives
<1>1. requests' = requests /\ step' = step /\ finished_req_ids' = finished_req_ids
  BY DEF ResetIdle
<1>2. Kinds'
  BY <1>1 DEF Kinds
<1> QED BY <1>1, <1>2, SameRequestsLives

(***************************************************************************)
(* The start of a step.                                                    *)
(***************************************************************************)
LEMMA StepStartLives ==
    ASSUME IInv, StepStart
    PROVE  SameLives
<1>1. requests' = requests /\ finished_req_ids' = finished_req_ids /\ phase = "input"
  BY DEF StepStart, schedule_start, schedulerVars
<1>2. step.scheduled = <<>>
  BY <1>1 DEF IInv, StepOK, NoStep
<1>3. step'.scheduled = <<>>
  <2>1. CASE schedule_start
    BY <2>1 DEF schedule_start, NoStep
  <2>2. CASE step' = step
    BY <1>2, <2>2
  <2> QED BY <2>1, <2>2 DEF StepStart, schedulerVars
<1>4. DOMAIN step'.scheduled = {} /\ DOMAIN step.scheduled = {}
  BY <1>2, <1>3
<1>5. Kinds' /\ \A r : IsNew(step', r) <=> IsNew(step, r)
  BY <1>4 DEF Kinds, IsNew
<1> QED BY <1>1, <1>5, SameRequestsLives

(***************************************************************************)
(* schedule() moving along self.running.                                   *)
(***************************************************************************)
LEMMA WalkLives ==
    ASSUME IInv, Kinds, SkipRunning \/ EnterRunning \/ RunningDone
    PROVE  SameLives
<1>1. requests' = requests /\ finished_req_ids' = finished_req_ids
  BY DEF SkipRunning, EnterRunning, RunningDone
<1>2. IsStep(step) /\ step.loop = "running"
  BY DEF IInv, StepOK, SkipRunning, EnterRunning, RunningDone, RunningLeft
<1>3. step'.scheduled = step.scheduled
  BY <1>2 DEF SkipRunning, EnterRunning, RunningDone, IsStep
<1>4. Kinds' /\ \A r : IsNew(step', r) <=> IsNew(step, r)
  BY <1>2, <1>3 DEF Kinds, IsNew
<1> QED BY <1>1, <1>4, SameRequestsLives

(***************************************************************************)
(* A running request that gets its slots.                                  *)
(***************************************************************************)
LEMMA ScheduleRunningLives ==
    ASSUME IInv, Kinds, Sound, ScheduleRunning
    PROVE  SameLives
<1> DEFINE s == step.scheduled
           x == step.request
           m == allocate_slots(manager, x, requests[x].tokens, requests[x].num_computed_tokens,
                               step.num_new_tokens, <<>>)
           e == Scheduled(x, "running", step.num_new_tokens,
                          SubSeq(m.req_to_blocks[x], Len(manager.req_to_blocks[x]) + 1,
                                 Len(m.req_to_blocks[x])))
<1>1. /\ requests' = requests /\ finished_req_ids' = finished_req_ids
      /\ step.request # NoRequest
      /\ step' = [step EXCEPT !.scheduled = Append(@, e), !.token_budget = @ - step.num_new_tokens,
                              !.req_index = @ + 1, !.request = NoRequest, !.num_new_tokens = 0]
  BY DEF ScheduleRunning, InnerLoop
<1>2. IsStep(step) /\ step.loop = "running"
  BY <1>1 DEF IInv, StepOK, Sound, Entries, EntriesOf, Asking
<1>3. e.kind = "running" /\ step'.scheduled = Append(s, e) /\ step'.loop = "running"
  <2>1. e.kind = "running"
    BY DEF Scheduled
  <2> HIDE DEF e
  <2> QED BY <1>1, <1>2, <2>1 DEF IsStep
<1> HIDE DEF e
<1>4. /\ DOMAIN s = 1 .. Len(s) /\ Len(s) \in Nat
      /\ DOMAIN step'.scheduled = 1 .. (Len(s) + 1)
      /\ step'.scheduled[Len(s) + 1] = e
      /\ \A i \in DOMAIN s : step'.scheduled[i] = s[i]
  BY <1>2, <1>3, SeqAppend DEF IsStep
<1>5. \A i \in DOMAIN step'.scheduled : i \in DOMAIN s \/ i = Len(s) + 1
  BY <1>4
<1>6. \A i \in DOMAIN s : s[i].kind = "running"
  BY <1>2 DEF Kinds
<1>7. \A i \in DOMAIN step'.scheduled : step'.scheduled[i].kind = "running"
  BY <1>3, <1>4, <1>5, <1>6
<1>8. Kinds' /\ \A r : IsNew(step', r) <=> IsNew(step, r)
  BY <1>6, <1>7 DEF Kinds, IsNew
<1> QED BY <1>1, <1>8, SameRequestsLives

(***************************************************************************)
(* A preempted request keeps its placeholders: its tokens in flight arrive *)
(* all the same.                                                           *)
(***************************************************************************)
LEMMA PreemptLives ==
    ASSUME IInv, Kinds, Sound, PreemptForRunning
    PROVE  SameLives
<1> DEFINE v == Victim
           s == Unscheduled(v)
<1>1. /\ requests' = [requests EXCEPT ![v].status = "PREEMPTED", ![v].num_computed_tokens = 0]
      /\ finished_req_ids' = finished_req_ids
      /\ step.request # NoRequest
      /\ step' = [s EXCEPT !.loop = IF v = step.request THEN "waiting" ELSE @,
                           !.request = IF v = step.request THEN NoRequest ELSE @,
                           !.num_new_tokens = IF v = step.request THEN 0 ELSE @,
                           !.preempted = TRUE]
  BY DEF PreemptForRunning, Preempt, InnerLoop
<1>2. /\ IsStep(step) /\ step.loop = "running" /\ step.request \in Range(running)
      /\ running \in Seq(Request)
      /\ \A r \in Request : r \in Range(running) <=> requests[r].status = "RUNNING"
      /\ DOMAIN requests = Request /\ \A r \in Request : IsRequest(requests[r])
  BY <1>1, Basics DEF IInv, StepOK, QueuesOK, Placed, Sound, Entries, EntriesOf, Asking
<1>3. v \in Request /\ requests[v].status = "RUNNING"
  <2>1. running # <<>>
    BY <1>2 DEF Range
  <2>2. v \in Range(running)
    BY <1>2, <2>1, VictimRuns
  <2> HIDE DEF v
  <2> QED BY <1>2, <2>2 DEF Range
<1>4. /\ IsStep(s) /\ \A i \in DOMAIN s.scheduled : \E j \in DOMAIN step.scheduled :
                         s.scheduled[i] = step.scheduled[j]
  BY <1>2, UnscheduledFacts, UnscheduledEntries DEF Sound, Entries, EntriesOf
<1> HIDE DEF v, s
<1>5. step'.scheduled = s.scheduled
  BY <1>1, <1>4 DEF IsStep
<1>6. \A i \in DOMAIN step.scheduled : step.scheduled[i].kind = "running"
  BY <1>2 DEF Kinds
<1>7. \A i \in DOMAIN step'.scheduled : step'.scheduled[i].kind = "running"
  BY <1>4, <1>5, <1>6
<1>8. Kinds' /\ \A r : ~IsNew(step', r) /\ ~IsNew(step, r)
  BY <1>6, <1>7 DEF Kinds, IsNew
<1>9. /\ \A r \in Request : r # v => requests'[r] = requests[r]
      /\ requests'[v] = [requests[v] EXCEPT !.status = "PREEMPTED", !.num_computed_tokens = 0]
  BY <1>1, <1>2, <1>3
<1>10. /\ requests'[v].status = "PREEMPTED" /\ requests'[v].tokens = requests[v].tokens
       /\ requests'[v].num_output_placeholders = requests[v].num_output_placeholders
       /\ requests'[v].discard_latest_async_tokens = requests[v].discard_latest_async_tokens
  BY <1>2, <1>3, <1>9 DEF IsRequest
<1>11. \A r \in Request : Started(requests', step', r) <=> Started(requests, step, r)
  BY <1>3, <1>8, <1>9, <1>10 DEF Started
<1>12. \A r \in Request : requests'[r].status \in Alive => requests[r].status \in Alive
  BY <1>3, <1>9 DEF Alive
<1> QED BY <1>1, <1>8, <1>9, <1>10, <1>11, <1>12 DEF SameLives

(***************************************************************************)
(* A waiting request that is admitted has started only if it is resumed.   *)
(***************************************************************************)
LEMMA ScheduleWaitingLives ==
    ASSUME IInv, Kinds, Sound, ScheduleWaiting
    PROVE  SameLives
<1> DEFINE r == Head(waiting)
           q == requests[r]
           hits == get_computed_blocks(manager, q.tokens)
           c == Len(hits) * BlockSize
           k == Chunk(Len(q.tokens) - c)
           m == allocate_slots(manager, r, q.tokens, c, k, hits)
           kind == IF q.status = "WAITING" THEN "new" ELSE "resumed"
           e == Scheduled(r, kind, k, m.req_to_blocks[r])
           s == step.scheduled
           n == Len(s)
<1>1. /\ requests' = [requests EXCEPT ![r].status = "RUNNING", ![r].num_computed_tokens = c]
      /\ finished_req_ids' = finished_req_ids
      /\ step' = [step EXCEPT !.scheduled = Append(@, e), !.token_budget = @ - k]
      /\ waiting # <<>> /\ step.loop = "waiting"
  BY DEF ScheduleWaiting, CanAdmit
<1>2. /\ waiting \in Seq(Request) /\ IsStep(step)
      /\ \A x \in Request : x \in Range(waiting) <=> requests[x].status \in Queued
      /\ \A x \in Request : x \in Range(running) <=> requests[x].status = "RUNNING"
      /\ DOMAIN requests = Request /\ \A x \in Request : IsRequest(requests[x])
  BY Basics DEF IInv, QueuesOK, Placed, StepOK
<1>3. r \in Request /\ r \in Range(waiting)
  BY <1>1, <1>2, TailFacts
<1>4. q.status \in Queued /\ \A i \in DOMAIN s : s[i].id # r
  <2>1. q.status \in Queued /\ r \notin Range(running)
    BY <1>2, <1>3 DEF Queued
  <2>2. \A i \in DOMAIN s : s[i].id \in Range(running)
    BY DEF Sound, Entries, EntriesOf, EntryOK
  <2> QED BY <2>1, <2>2
<1>5. e.id = r /\ e.kind = kind
  BY DEF Scheduled
<1> HIDE DEF e, r, c, k
<1>6. step'.scheduled = Append(s, e) /\ step'.loop = "waiting"
  BY <1>1, <1>2 DEF IsStep
<1>7. /\ DOMAIN s = 1 .. n /\ n \in Nat /\ DOMAIN step'.scheduled = 1 .. (n + 1)
      /\ step'.scheduled[n + 1] = e
      /\ \A i \in DOMAIN s : step'.scheduled[i] = s[i]
  BY <1>2, <1>6, SeqAppend DEF IsStep
<1> HIDE DEF n
<1>8. \A i \in DOMAIN step'.scheduled : i \in DOMAIN s \/ i = n + 1
  BY <1>7
<1>9. n + 1 \in DOMAIN step'.scheduled /\ \A i \in DOMAIN s : i \in DOMAIN step'.scheduled
  BY <1>7
<1>10. Kinds'
  BY <1>5, <1>6, <1>7, <1>8 DEF Kinds
<1>11. /\ \A x : x # r => (IsNew(step', x) <=> IsNew(step, x))
       /\ IsNew(step', r) <=> (kind = "new")
       /\ ~IsNew(step, r)
  <2> HIDE DEF kind, s
  <2>1. ~IsNew(step, r)
    BY <1>4 DEF IsNew, s
  <2>2. IsNew(step', r) <=> (kind = "new")
    BY <1>4, <1>5, <1>7, <1>8, <1>9 DEF IsNew
  <2>3. \A x : x # r => (IsNew(step', x) <=> IsNew(step, x))
    BY <1>5, <1>7, <1>8, <1>9 DEF IsNew, s
  <2> QED BY <2>1, <2>2, <2>3
<1>12. /\ \A x \in Request : x # r => requests'[x] = requests[x]
       /\ requests'[r] = [requests[r] EXCEPT !.status = "RUNNING", !.num_computed_tokens = c]
  BY <1>1, <1>2, <1>3
<1>13. /\ requests'[r].status = "RUNNING" /\ requests'[r].tokens = requests[r].tokens
       /\ requests'[r].num_output_placeholders = requests[r].num_output_placeholders
       /\ requests'[r].discard_latest_async_tokens = requests[r].discard_latest_async_tokens
  BY <1>2, <1>3, <1>12 DEF IsRequest
<1>14. \A x \in Request : Started(requests', step', x) <=> Started(requests, step, x)
  <2>1. Started(requests', step', r) <=> (q.status = "PREEMPTED")
    BY <1>4, <1>11, <1>13 DEF Started, Queued
  <2>2. Started(requests, step, r) <=> (q.status = "PREEMPTED")
    BY <1>4, <1>11 DEF Started, Queued
  <2> QED BY <1>11, <1>12, <2>1, <2>2 DEF Started
<1>15. \A x \in Request : requests'[x].status \in Alive => requests[x].status \in Alive
  BY <1>3, <1>4, <1>12 DEF Alive, Queued
<1> QED BY <1>1, <1>10, <1>12, <1>13, <1>14, <1>15 DEF SameLives

\* The actions that touch neither the batches nor the worker, nor bring a
\* request to life.
Quiet ==
    \/ \E r \in Request : Abort(r)
    \/ Reset(FALSE)
    \/ StepStart
    \/ Schedule
    \/ UNCHANGED vars

(***************************************************************************)
(* What they leave alone.                                                  *)
(***************************************************************************)
LEMMA QuietLives ==
    ASSUME IInv, Kinds, Sound, Quiet
    PROVE  /\ SameLives
           /\ UNCHANGED <<batch_queue, runnerVars, prev_step_scheduled_req_ids>>
           /\ phase' \in {"input", "schedule"} => phase \in {"input", "schedule"}
<1>1. CASE \E r \in Request : Abort(r)
  <2>1. SameLives
    BY <1>1, AbortLives
  <2> QED BY <1>1, <2>1 DEF Abort, finish_requests, engineVars
<1>2. CASE Reset(FALSE)
  <2>1. ResetIdle /\ UNCHANGED <<runnerVars, phase, batch_queue>>
    BY <1>2 DEF Reset
  <2>2. SameLives
    BY <2>1, ResetIdleLives
  <2> QED BY <2>1, <2>2 DEF ResetIdle
<1>3. CASE StepStart
  <2>1. SameLives
    BY <1>3, StepStartLives
  <2> QED BY <1>3, <2>1 DEF StepStart, schedule_start, schedulerVars
<1>4. CASE Schedule
  <2>1. phase = "schedule" /\ UNCHANGED <<runnerVars, engineVars>>
    BY <1>4 DEF Schedule
  <2>2. CASE SkipRunning \/ EnterRunning \/ RunningDone
    BY <2>1, <2>2, WalkLives DEF SkipRunning, EnterRunning, RunningDone, engineVars
  <2>3. CASE ScheduleRunning
    BY <2>1, <2>3, ScheduleRunningLives DEF ScheduleRunning, engineVars
  <2>4. CASE PreemptForRunning
    BY <2>1, <2>4, PreemptLives DEF PreemptForRunning, engineVars
  <2>5. CASE ScheduleWaiting
    BY <2>1, <2>5, ScheduleWaitingLives DEF ScheduleWaiting, engineVars
  <2> QED BY <1>4, <2>2, <2>3, <2>4, <2>5 DEF Schedule
<1>5. CASE UNCHANGED vars
  <2>1. /\ requests' = requests /\ finished_req_ids' = finished_req_ids /\ step' = step
        /\ UNCHANGED <<batch_queue, runnerVars, prev_step_scheduled_req_ids>>
        /\ phase' = phase
    BY <1>5 DEF vars, schedulerVars, engineVars
  <2>2. Kinds'
    BY <2>1 DEF Kinds
  <2> QED BY <2>1, <2>2, SameRequestsLives
<1> QED BY <1>1, <1>2, <1>3, <1>4, <1>5 DEF Quiet

(***************************************************************************)
(* The other actions.                                                      *)
(***************************************************************************)
LEMMA QuietOrNot ==
    ASSUME [Next]_vars
    PROVE  \/ Quiet
           \/ \E r \in Request : Add(r)
           \/ Reset(ResetRunningAllowed)
           \/ Submit \/ UpdateRequest \/ StepEnd \/ Execute
<1>1. CASE Client
  BY <1>1 DEF Client, Quiet
<1>2. CASE Engine
  BY <1>2 DEF Engine, Quiet
<1>3. CASE Execute \/ UNCHANGED vars
  BY <1>3 DEF Quiet
<1> QED BY <1>1, <1>2, <1>3 DEF Next

(***************************************************************************)
(* The prompt of a request as tokens.                                      *)
(***************************************************************************)
LEMMA PromptFacts ==
    ASSUME NEW r \in Request
    PROVE  /\ IsSeq(PromptTokens(r)) /\ Len(PromptTokens(r)) = Len(Prompt[r])
           /\ Len(Prompt[r]) \in Nat /\ Len(Prompt[r]) > 0
<1> DEFINE n == Len(Prompt[r])
           T == {<<i, Prompt[r][i]>> : i \in 1 .. n}
<1>1. n \in Nat /\ n > 0
  BY SchedulerAssumption, SizesAssumption
<1> HIDE DEF n
<1>2. PromptTokens(r) = [i \in 1 .. n |-> <<i, Prompt[r][i]>>]
  BY DEF PromptTokens, n
<1>3. PromptTokens(r) \in Seq(T) /\ Len(PromptTokens(r)) = n
  BY <1>1, <1>2
<1> QED BY <1>1, <1>3, SeqIs DEF n

(***************************************************************************)
(* add_request keeps the third invariant: an id that comes back is nowhere *)
(* in the engine or the worker.                                            *)
(***************************************************************************)
LEMMA AddInFlight ==
    ASSUME IInv, InFlightInv, NEW r \in Request, Add(r)
    PROVE  InFlightInv'
<1>1. /\ requests' = [requests EXCEPT ![r] = NewRequest(r, "WAITING")]
      /\ batch_queue' = batch_queue /\ runner_requests' = runner_requests
      /\ input_batch' = input_batch /\ phase' = phase /\ step' = step
      /\ prev_step_scheduled_req_ids' = prev_step_scheduled_req_ids
      /\ finished_req_ids' = finished_req_ids
  BY DEF Add, add_request, runnerVars, engineVars
<1>2. /\ r \notin finished_req_ids /\ runner_requests[r] = NoState
      /\ \A i \in DOMAIN batch_queue : r \notin ScheduledIds(batch_queue[i].out)
  BY DEF Add, Fresh
<1>3. DOMAIN requests = Request
  BY Basics
<1>4. (\A s \in Request : s # r => requests'[s] = requests[s]) /\ requests'[r] = NewRequest(r, "WAITING")
  BY <1>1, <1>3
<1>5. /\ requests'[r].status = "WAITING" /\ requests'[r].tokens = PromptTokens(r)
      /\ requests'[r].num_output_placeholders = 0
      /\ requests'[r].discard_latest_async_tokens = FALSE
  BY <1>4 DEF NewRequest
<1>6. \A i \in DOMAIN batch_queue : ~Has(batch_queue[i], r) /\ ~Brings(batch_queue[i], r)
  BY <1>2 DEF ScheduledIds, Has, Brings
<1>7. Batches' /\ Worker' /\ Kinds'
  BY <1>1 DEF InFlightInv, Batches, Worker, Kinds
<1>8. \A s \in Request : s # r => (Started(requests', step', s) <=> Started(requests, step, s))
  BY <1>1, <1>4 DEF Started
<1>9. ~Started(requests', step', r)
  BY <1>5 DEF Started
<1>10. Progress'
  <2>1. Cardinality(Pending(batch_queue, r)) = 0
    <3>1. Pending(batch_queue, r) = {}
      BY <1>6 DEF Pending
    <3> QED BY <3>1, FS_EmptySet
  <2>2. /\ Len(requests'[r].tokens) >= Len(Prompt[r])
        /\ requests'[r].discard_latest_async_tokens = FALSE
        /\ requests'[r].num_output_placeholders <= BatchQueueSize
        /\ r \notin finished_req_ids'
        /\ requests'[r].num_output_placeholders = Cardinality(Pending(batch_queue, r))
        /\ Unstarted(requests'[r], batch_queue, r)
    BY <1>1, <1>2, <1>5, <1>6, <2>1, PromptFacts, EngineAssumption DEF Unstarted
  <2>3. \A s \in Request : s # r =>
           /\ Len(requests'[s].tokens) >= Len(Prompt[s])
           /\ requests'[s].discard_latest_async_tokens = FALSE
           /\ requests'[s].num_output_placeholders <= BatchQueueSize
           /\ requests'[s].status \in Alive =>
                 /\ s \notin finished_req_ids'
                 /\ requests'[s].num_output_placeholders = Cardinality(Pending(batch_queue, s))
                 /\ ~Started(requests', step', s) => Unstarted(requests'[s], batch_queue, s)
    BY <1>1, <1>4, <1>8 DEF InFlightInv, Progress
  <2> QED BY <1>1, <2>2, <2>3 DEF Progress
<1>11. Tracked'
  <2> DEFINE n == Len(batch_queue)
             f == [i \in 1 .. (n + 1) |-> 0]
  <2>1. Len(runner_requests[r].tokens) = 0
    BY <1>2 DEF NoState
  <2>2. n \in Nat /\ DOMAIN batch_queue = 1 .. n
    BY DEF IInv, BatchesOK, IsSeq
  <2>3. \A i \in DOMAIN batch_queue : i \in 1 .. (n + 1) /\ i + 1 \in 1 .. (n + 1)
    <3> HIDE DEF n
    <3> QED BY <2>2
  <2>4. \A i \in DOMAIN batch_queue : \A k \in DOMAIN batch_queue[i].out.reqs :
           batch_queue[i].out.reqs[k].id # r
    BY <1>6 DEF Has
  <2>5. Tracks(f, batch_queue, runner_requests, r)
    <3>1. DOMAIN f = 1 .. (Len(batch_queue) + 1) /\ \A i \in DOMAIN f : f[i] = 0
      OBVIOUS
    <3>2. \A i \in DOMAIN batch_queue : f[i] = 0 /\ f[i + 1] = 0
      BY <2>3
    <3> HIDE DEF f
    <3> QED BY <2>1, <2>4, <3>1, <3>2 DEF Tracks
  <2>6. \A s \in Request : s # r => Known(requests'[s]) = Known(requests[s])
    BY <1>4
  <2> HIDE DEF f
  <2> QED BY <1>1, <1>4, <1>8, <1>9, <2>5, <2>6 DEF InFlightInv, Tracked
<1> QED BY <1>7, <1>10, <1>11 DEF InFlightInv

-----------------------------------------------------------------------------
(* The oldest batch leaves the queue *)

(***************************************************************************)
(* The batches that bring a token are finitely many, at most as many as    *)
(* are in the queue.                                                       *)
(***************************************************************************)
LEMMA PendingFinite ==
    ASSUME NEW queue, IsSeq(queue), NEW r
    PROVE  /\ IsFiniteSet(Pending(queue, r)) /\ Cardinality(Pending(queue, r)) \in Nat
           /\ Cardinality(Pending(queue, r)) <= Len(queue)
<1> DEFINE n == Len(queue)
<1>1. n \in Nat /\ DOMAIN queue = 1 .. n
  BY DEF IsSeq
<1>2. IsFiniteSet(1 .. n) /\ Cardinality(1 .. n) = n
  <2> HIDE DEF n
  <2> QED BY <1>1, FS_Interval
<1>3. Pending(queue, r) \in SUBSET (1 .. n)
  BY <1>1 DEF Pending
<1> HIDE DEF n
<1>4. IsFiniteSet(Pending(queue, r)) /\ Cardinality(Pending(queue, r)) <= n
  BY <1>2, <1>3, FS_Subset
<1> QED BY <1>4, FS_CardinalityType DEF n

(***************************************************************************)
(* A batch that brings no token leaves as many batches that do.            *)
(***************************************************************************)
LEMMA TailPending ==
    ASSUME NEW queue, IsSeq(queue), queue # <<>>, NEW r, ~Brings(queue[1], r)
    PROVE  Cardinality(Pending(Tail(queue), r)) = Cardinality(Pending(queue, r))
<1> DEFINE S == Pending(Tail(queue), r)
           T == Pending(queue, r)
           f == [i \in S |-> i + 1]
           n == Len(queue)
<1>1. /\ IsSeq(Tail(queue)) /\ DOMAIN Tail(queue) = 1 .. (n - 1) /\ DOMAIN queue = 1 .. n
      /\ \A i \in DOMAIN Tail(queue) : i + 1 \in DOMAIN queue /\ Tail(queue)[i] = queue[i + 1]
  BY SeqTail
<1>2. n \in Nat
  BY DEF IsSeq
<1> HIDE DEF n
<1>3. \A i \in S : i \in Int /\ i + 1 \in T
  BY <1>1, <1>2 DEF Pending
<1>4. \A j \in T : j - 1 \in S /\ (j - 1) + 1 = j
  <2> SUFFICES ASSUME NEW j \in T PROVE j - 1 \in S /\ (j - 1) + 1 = j
    OBVIOUS
  <2>1. j \in 1 .. n /\ Brings(queue[j], r)
    BY <1>1 DEF Pending
  <2>2. j # 1
    BY <2>1
  <2>3. j - 1 \in 1 .. (n - 1) /\ (j - 1) + 1 = j
    BY <1>2, <2>1, <2>2
  <2> QED BY <1>1, <2>1, <2>3 DEF Pending
<1> HIDE DEF S, T
<1>5. f \in Injection(S, T)
  <2>1. f \in [S -> T]
    BY <1>3
  <2>2. \A i, j \in S : f[i] = f[j] => i = j
    BY <1>3
  <2> HIDE DEF f
  <2> QED BY <2>1, <2>2 DEF Injection, IsInjective
<1>6. f \in Surjection(S, T)
  <2>1. f \in [S -> T]
    BY <1>3
  <2>2. \A j \in T : f[j - 1] = j /\ j - 1 \in S
    BY <1>4
  <2> HIDE DEF f
  <2> QED BY <2>1, <2>2 DEF Surjection
<1>7. ExistsBijection(S, T)
  BY <1>5, <1>6 DEF ExistsBijection, Bijection
<1>8. IsFiniteSet(S)
  BY <1>1, PendingFinite DEF S
<1>9. Cardinality(T) = Cardinality(S)
  BY <1>7, <1>8, FS_Bijection
<1> QED BY <1>9 DEF S, T

(***************************************************************************)
(* The batch before each one stays the same when a done batch leaves.      *)
(***************************************************************************)
LEMMA TailIdsBefore ==
    ASSUME NEW queue, IsSeq(queue), queue # <<>>, queue[1].done, NEW ids, NEW i \in 1 .. Len(queue)
    PROVE  IdsBefore(Tail(queue), ids, i) = IdsBefore(queue, ids, i + 1)
<1> DEFINE n == Len(queue)
           t == Tail(queue)
<1>1. /\ DOMAIN t = 1 .. (n - 1) /\ n \in Nat
      /\ \A j \in DOMAIN t : t[j] = queue[j + 1]
  BY SeqTail DEF IsSeq
<1> HIDE DEF n, t
<1>2. i \in 1 .. n
  BY DEF n
<1>3. \A j \in 1 .. (i - 1) : j \in DOMAIN t /\ j + 1 \in 1 .. ((i + 1) - 1)
  BY <1>1, <1>2
<1>4. \A j \in 1 .. ((i + 1) - 1) : j = 1 \/ (j - 1 \in 1 .. (i - 1) /\ (j - 1) + 1 = j)
  BY <1>1, <1>2
<1>5. (\A j \in 1 .. (i - 1) : t[j].done) <=> (\A j \in 1 .. ((i + 1) - 1) : queue[j].done)
  <2>1. ASSUME \A j \in 1 .. (i - 1) : t[j].done, NEW j \in 1 .. ((i + 1) - 1)
        PROVE  queue[j].done
    <3>1. CASE j = 1
      BY <3>1
    <3>2. CASE j - 1 \in 1 .. (i - 1) /\ (j - 1) + 1 = j
      <4>1. t[j - 1] = queue[j]
        BY <1>1, <1>3, <3>2
      <4> QED BY <2>1, <3>2, <4>1
    <3> QED BY <1>4, <3>1, <3>2
  <2>2. ASSUME \A j \in 1 .. ((i + 1) - 1) : queue[j].done, NEW j \in 1 .. (i - 1)
        PROVE  t[j].done
    BY <1>1, <1>3, <2>2
  <2> QED BY <2>1, <2>2
<1>6. ~(\A j \in 1 .. (i - 1) : t[j].done) => t[i - 1] = queue[(i + 1) - 1]
  <2> SUFFICES ASSUME NEW j \in 1 .. (i - 1) PROVE t[i - 1] = queue[(i + 1) - 1]
    OBVIOUS
  <2>1. i - 1 \in 1 .. (i - 1) /\ (i - 1) + 1 = (i + 1) - 1
    BY <1>1, <1>2
  <2> QED BY <1>1, <1>3, <2>1
<1> QED BY <1>5, <1>6 DEF IdsBefore, t

(***************************************************************************)
(* The worker's tokens are tracked the same when a done batch leaves.      *)
(***************************************************************************)
LEMMA TailTracks ==
    ASSUME NEW queue, IsSeq(queue), queue # <<>>, queue[1].done, NEW runner, NEW r, NEW f,
           Tracks(f, queue, runner, r)
    PROVE  \E g : /\ Tracks(g, Tail(queue), runner, r)
                  /\ g[Len(Tail(queue)) + 1] = f[Len(queue) + 1]
<1> DEFINE n == Len(queue)
           t == Tail(queue)
           g == [i \in 1 .. n |-> f[i + 1]]
<1>1. /\ DOMAIN t = 1 .. (n - 1) /\ n \in Nat /\ n > 0 /\ DOMAIN queue = 1 .. n /\ Len(t) = n - 1
      /\ \A j \in DOMAIN t : j + 1 \in DOMAIN queue /\ t[j] = queue[j + 1]
  <2>1. n \in Nat /\ 1 \in 1 .. n
    BY SeqTail DEF IsSeq
  <2> QED BY <2>1, SeqTail
<1>2. /\ DOMAIN f = 1 .. (n + 1)
      /\ \A i \in DOMAIN f :
            (\A j \in 1 .. (i - 1) : queue[j].done) => f[i] = Len(runner[r].tokens)
  BY DEF Tracks
<1> HIDE DEF n, t
<1>3. (n - 1) + 1 = n /\ n \in 1 .. n /\ \A i \in 1 .. n : i + 1 \in DOMAIN f
  BY <1>1, <1>2
<1>4. \A i \in 1 .. n : g[i] = f[i + 1]
  OBVIOUS
<1>5. \A i \in 1 .. n :
         (\A j \in 1 .. (i - 1) : t[j].done) => (\A j \in 1 .. ((i + 1) - 1) : queue[j].done)
  <2> SUFFICES ASSUME NEW i \in 1 .. n, \A j \in 1 .. (i - 1) : t[j].done,
                      NEW j \in 1 .. ((i + 1) - 1)
               PROVE  queue[j].done
    OBVIOUS
  <2>1. CASE j = 1
    BY <2>1
  <2>2. CASE j # 1
    <3>1. j - 1 \in 1 .. (i - 1) /\ (j - 1) + 1 = j /\ j - 1 \in 1 .. (n - 1)
      BY <1>1, <2>2
    <3>2. t[j - 1] = queue[j]
      BY <1>1, <3>1
    <3> QED BY <3>1, <3>2
  <2> QED BY <2>1, <2>2
<1>6. \A i \in 1 .. n :
         (\A j \in 1 .. (i - 1) : t[j].done) => g[i] = Len(runner[r].tokens)
  BY <1>2, <1>3, <1>4, <1>5
<1>7. \A i \in DOMAIN t : /\ g[i] = f[i + 1] /\ g[i + 1] = f[(i + 1) + 1]
                          /\ i + 1 \in DOMAIN queue /\ t[i] = queue[i + 1]
  <2>1. \A i \in DOMAIN t : i \in 1 .. n /\ i + 1 \in 1 .. n
    BY <1>1
  <2> QED BY <1>1, <1>4, <2>1
<1>8. DOMAIN g = 1 .. n
  OBVIOUS
<1> HIDE DEF g
<1>9. \A i \in DOMAIN queue : ~queue[i].done =>
          /\ ~Has(queue[i], r) =>
                f[i + 1] = IF r \in queue[i].out.finished_req_ids THEN 0 ELSE f[i]
          /\ \A k \in DOMAIN queue[i].out.reqs :
                LET e == queue[i].out.reqs[k]
                IN e.id = r => /\ Base(e) = IF e.kind = "new" THEN Len(Prompt[r]) ELSE f[i]
                               /\ f[i + 1] = Left(e)
  BY DEF Tracks
<1>10. \A i \in DOMAIN t : ~t[i].done =>
          /\ ~Has(t[i], r) =>
                g[i + 1] = IF r \in t[i].out.finished_req_ids THEN 0 ELSE g[i]
          /\ \A k \in DOMAIN t[i].out.reqs :
                LET e == t[i].out.reqs[k]
                IN e.id = r => /\ Base(e) = IF e.kind = "new" THEN Len(Prompt[r]) ELSE g[i]
                               /\ g[i + 1] = Left(e)
  BY <1>7, <1>9
<1>11. Tracks(g, t, runner, r)
  BY <1>1, <1>3, <1>6, <1>8, <1>10 DEF Tracks
<1>12. g[Len(t) + 1] = f[n + 1]
  BY <1>1, <1>3, <1>4 DEF g
<1> QED BY <1>11, <1>12 DEF n, t

(***************************************************************************)
(* The batches are as they should be when a done one leaves.               *)
(***************************************************************************)
LEMMA TailBatches ==
    ASSUME NEW queue, IsSeq(queue), queue # <<>>, queue[1].done, NEW ids, NEW previous,
           BatchesOf(queue, ids, previous)
    PROVE  BatchesOf(Tail(queue), ids, previous)
<1> DEFINE n == Len(queue)
           t == Tail(queue)
<1>1. /\ DOMAIN t = 1 .. (n - 1) /\ n \in Nat /\ n > 0 /\ DOMAIN queue = 1 .. n /\ Len(t) = n - 1
      /\ \A j \in DOMAIN t : j + 1 \in DOMAIN queue /\ t[j] = queue[j + 1]
  <2>1. n \in Nat /\ 1 \in 1 .. n
    BY SeqTail DEF IsSeq
  <2> QED BY <2>1, SeqTail
<1>2. \A i \in 1 .. n : IdsBefore(t, ids, i) = IdsBefore(queue, ids, i + 1)
  BY TailIdsBefore
<1>3. previous = IdsBefore(queue, ids, n + 1)
  BY DEF BatchesOf
<1>4. \A i \in DOMAIN queue :
          /\ BatchOK(queue[i])
          /\ queue[i].done \in BOOLEAN
          /\ queue[i].done => \A j \in 1 .. (i - 1) : queue[j].done
          /\ ~queue[i].done =>
                \A k \in DOMAIN queue[i].out.reqs :
                   Recoverable(queue[i].out.reqs[k], IdsBefore(queue, ids, i))
  BY DEF BatchesOf
<1> HIDE DEF n, t
<1>5. previous = IdsBefore(t, ids, Len(t) + 1)
  <2>1. n \in 1 .. n /\ (n - 1) + 1 = n
    BY <1>1
  <2> QED BY <1>1, <1>2, <1>3, <2>1
<1>6. ASSUME NEW i \in DOMAIN t
      PROVE  /\ BatchOK(t[i])
             /\ t[i].done \in BOOLEAN
             /\ t[i].done => \A j \in 1 .. (i - 1) : t[j].done
             /\ ~t[i].done =>
                   \A k \in DOMAIN t[i].out.reqs :
                      Recoverable(t[i].out.reqs[k], IdsBefore(t, ids, i))
  <2>1. i \in 1 .. n /\ i + 1 \in DOMAIN queue /\ t[i] = queue[i + 1]
    BY <1>1, <1>6
  <2>2. IdsBefore(t, ids, i) = IdsBefore(queue, ids, i + 1)
    BY <1>2, <2>1
  <2>3. \A j \in 1 .. (i - 1) : j \in DOMAIN t /\ j + 1 \in 1 .. ((i + 1) - 1)
    BY <1>1, <1>6
  <2>4. \A j \in 1 .. (i - 1) : t[j] = queue[j + 1] /\ j + 1 \in 1 .. ((i + 1) - 1)
    BY <1>1, <2>3
  <2>5. t[i].done => \A j \in 1 .. (i - 1) : t[j].done
    BY <1>4, <2>1, <2>4
  <2> QED BY <1>4, <2>1, <2>2, <2>5
<1> QED BY <1>5, <1>6 DEF BatchesOf, t

(***************************************************************************)
(* The end of a step keeps the third invariant.                            *)
(***************************************************************************)
LEMMA StepEndInFlight ==
    ASSUME IInv, InFlightInv, StepEnd
    PROVE  InFlightInv'
<1> DEFINE t == Tail(batch_queue)
           n == Len(batch_queue)
<1>1. /\ phase \in {"output", "update"} /\ batch_queue' = t /\ phase' = "input"
      /\ batch_queue[1].done /\ batch_queue[1].out.reqs = <<>>
      /\ requests' = requests /\ finished_req_ids' = finished_req_ids /\ step' = step
      /\ prev_step_scheduled_req_ids' = prev_step_scheduled_req_ids
      /\ runner_requests' = runner_requests /\ input_batch' = input_batch
  BY DEF StepEnd, schedulerVars, runnerVars
<1>2. IsSeq(batch_queue) /\ batch_queue # <<>> /\ n \in Nat
  BY <1>1 DEF IInv, BatchesOK, IsSeq
<1>3. /\ Len(t) = n - 1
      /\ \A i \in DOMAIN t : i + 1 \in DOMAIN batch_queue /\ t[i] = batch_queue[i + 1]
  BY <1>2, SeqTail
<1>4. Batches'
  <2>1. BatchesOf(batch_queue, input_batch, prev_step_scheduled_req_ids)
    BY DEF InFlightInv, Batches, BatchesOf
  <2>2. BatchesOf(t, input_batch, prev_step_scheduled_req_ids)
    BY <1>1, <1>2, <2>1, TailBatches
  <2>3. n <= BatchQueueSize
    BY DEF InFlightInv, Batches
  <2> HIDE DEF n, t
  <2>4. Len(t) <= BatchQueueSize /\ Len(t) < BatchQueueSize
    BY <1>2, <1>3, <2>3, EngineAssumption
  <2> QED BY <1>1, <2>2, <2>4 DEF Batches, BatchesOf
<1>5. Worker' /\ Kinds'
  BY <1>1 DEF InFlightInv, Worker, Kinds
<1>6. \A r \in Request : Cardinality(Pending(t, r)) = Cardinality(Pending(batch_queue, r))
  <2> SUFFICES ASSUME NEW r \in Request
               PROVE  Cardinality(Pending(t, r)) = Cardinality(Pending(batch_queue, r))
    OBVIOUS
  <2>1. DOMAIN batch_queue[1].out.reqs = {}
    BY <1>1
  <2>2. ~Brings(batch_queue[1], r)
    BY <2>1 DEF Brings
  <2> QED BY <1>2, <2>2, TailPending
<1>7. \A r \in Request : \A q : Unstarted(q, batch_queue, r) => Unstarted(q, t, r)
  <2> HIDE DEF t
  <2> QED BY <1>3 DEF Unstarted
<1>8. Progress'
  <2> HIDE DEF t
  <2> QED BY <1>1, <1>6, <1>7 DEF InFlightInv, Progress, Started
<1>9. Tracked'
  <2> SUFFICES ASSUME NEW r \in Request, requests[r].status \in Alive
               PROVE  \E f : /\ Tracks(f, t, runner_requests, r)
                             /\ Started(requests, step, r) => f[Len(t) + 1] = Known(requests[r])
    BY <1>1 DEF Tracked
  <2>1. PICK f : /\ Tracks(f, batch_queue, runner_requests, r)
                 /\ Started(requests, step, r) => f[n + 1] = Known(requests[r])
    BY DEF InFlightInv, Tracked
  <2>2. \E g : Tracks(g, t, runner_requests, r) /\ g[Len(t) + 1] = f[n + 1]
    BY <1>1, <1>2, <2>1, TailTracks
  <2> QED BY <2>1, <2>2
<1> QED BY <1>4, <1>5, <1>8, <1>9 DEF InFlightInv

-----------------------------------------------------------------------------
(* update_from_output() *)

\* update_from_output has dealt with the first request of batch b.
HeadLeft(b, c) == c = [b EXCEPT !.out.reqs = Tail(@), !.sampled = Tail(@)]

(***************************************************************************)
(* What a done batch brings once its first request is dealt with.          *)
(***************************************************************************)
LEMMA HeadBrings ==
    ASSUME NEW b, IsBatch(b), BatchOK(b), b.done, b.out.reqs # <<>>,
           NEW c, HeadLeft(b, c)
    PROVE  /\ BatchOK(c) /\ c.done = b.done
           /\ \A r : Has(c, r) => Has(b, r)
           /\ \A r : r # b.out.reqs[1].id => (Brings(c, r) <=> Brings(b, r))
           /\ ~Brings(c, b.out.reqs[1].id)
           /\ Brings(b, b.out.reqs[1].id) <=> (b.sampled[1] # <<>>)
           /\ Has(b, b.out.reqs[1].id)
<1> DEFINE s == b.out.reqs
           t == b.sampled
           n == Len(s)
<1>1. IsSeq(s) /\ s # <<>> /\ IsSeq(t) /\ Len(t) = Len(s)
  BY DEF IsBatch
<1>2. /\ c.out.reqs = Tail(s) /\ c.sampled = Tail(t) /\ c.done = b.done
      /\ c.out.finished_req_ids = b.out.finished_req_ids
  BY DEF IsBatch, HeadLeft
<1>3. /\ \A i, j \in DOMAIN s : s[i].id = s[j].id => i = j
      /\ \A i \in DOMAIN s : IsOutput(s[i]) /\ s[i].id \notin b.out.finished_req_ids
  BY DEF BatchOK
<1>4. /\ \A r : Has(b, r) <=> \E k \in DOMAIN s : s[k].id = r
      /\ \A r : Brings(b, r) <=> \E k \in DOMAIN s : s[k].id = r /\ t[k] # <<>>
  BY DEF Has, Brings
<1>5. /\ \A r : Has(c, r) <=> \E k \in DOMAIN Tail(s) : Tail(s)[k].id = r
      /\ \A r : Brings(c, r) <=> \E k \in DOMAIN Tail(s) : Tail(s)[k].id = r /\ Tail(t)[k] # <<>>
  BY <1>2 DEF Has, Brings
<1> HIDE DEF s, t
<1>6. /\ n \in Nat /\ n > 0 /\ DOMAIN s = 1 .. n /\ DOMAIN Tail(s) = 1 .. (n - 1)
      /\ \A i \in DOMAIN Tail(s) : i + 1 \in DOMAIN s /\ Tail(s)[i] = s[i + 1]
      /\ 1 \in DOMAIN s
  <2>1. n \in Nat /\ 1 \in 1 .. n
    BY <1>1, SeqTail DEF IsSeq
  <2> QED BY <1>1, <2>1, SeqTail
<1>7. \A i \in DOMAIN Tail(s) : Tail(t)[i] = t[i + 1]
  <2>1. Len(t) = n /\ t # <<>>
    BY <1>1, <1>6
  <2>2. DOMAIN Tail(t) = 1 .. (n - 1) /\ \A i \in DOMAIN Tail(t) : Tail(t)[i] = t[i + 1]
    BY <1>1, <2>1, SeqTail
  <2> QED BY <1>6, <2>2
<1> HIDE DEF n
<1>8. \A i \in DOMAIN Tail(s) : i \in Int /\ i + 1 # 1
  BY <1>6
<1>9. \A i \in DOMAIN s : i # 1 => (i - 1 \in DOMAIN Tail(s) /\ (i - 1) + 1 = i)
  BY <1>6
<1>10. BatchOK(c)
  <2>1. \A i, j \in DOMAIN Tail(s) : Tail(s)[i].id = Tail(s)[j].id => i = j
    <3>1. \A i, j \in DOMAIN Tail(s) : i + 1 = j + 1 => i = j
      BY <1>8
    <3> QED BY <1>3, <1>6, <3>1
  <2>2. \A i \in DOMAIN Tail(s) : IsOutput(Tail(s)[i]) /\ Tail(s)[i].id \notin b.out.finished_req_ids
    BY <1>3, <1>6
  <2> QED BY <1>2, <2>1, <2>2 DEF BatchOK
<1>11. \A r : Has(c, r) => Has(b, r)
  BY <1>4, <1>5, <1>6
<1>12. ASSUME NEW r, r # s[1].id
       PROVE  Brings(c, r) <=> Brings(b, r)
  <2>1. ASSUME Brings(c, r) PROVE Brings(b, r)
    <3>1. PICK k \in DOMAIN Tail(s) : Tail(s)[k].id = r /\ Tail(t)[k] # <<>>
      BY <1>5, <2>1
    <3>2. k + 1 \in DOMAIN s /\ s[k + 1].id = r /\ t[k + 1] # <<>>
      BY <1>6, <1>7, <3>1
    <3> QED BY <1>4, <3>2
  <2>2. ASSUME Brings(b, r) PROVE Brings(c, r)
    <3>1. PICK k \in DOMAIN s : s[k].id = r /\ t[k] # <<>>
      BY <1>4, <2>2
    <3>2. k - 1 \in DOMAIN Tail(s) /\ (k - 1) + 1 = k
      BY <1>9, <1>12, <3>1
    <3>3. Tail(s)[k - 1] = s[k] /\ Tail(t)[k - 1] = t[k]
      BY <1>6, <1>7, <3>2
    <3> QED BY <1>5, <3>1, <3>2, <3>3
  <2> QED BY <2>1, <2>2
<1>13. ~Brings(c, s[1].id)
  BY <1>3, <1>5, <1>6, <1>8
<1>14. Brings(b, s[1].id) <=> (t[1] # <<>>)
  BY <1>3, <1>4, <1>6
<1>15. Has(b, s[1].id)
  BY <1>4, <1>6
<1> QED BY <1>2, <1>10, <1>11, <1>12, <1>13, <1>14, <1>15 DEF s, t

\* queue and later differ in done batches only.
SameLeft(queue, later) ==
    /\ DOMAIN later = DOMAIN queue /\ Len(later) = Len(queue)
    /\ \A i \in DOMAIN queue : /\ later[i].done = queue[i].done
                               /\ ~queue[i].done => later[i] = queue[i]

(***************************************************************************)
(* What is said of the batches that are not done does not depend on the    *)
(* ones that are.                                                          *)
(***************************************************************************)
LEMMA SameLeftFacts ==
    ASSUME NEW queue, IsSeq(queue), NEW later, SameLeft(queue, later), NEW ids, NEW previous,
           BatchesOf(queue, ids, previous),
           \A i \in DOMAIN queue : BatchOK(later[i])
    PROVE  /\ BatchesOf(later, ids, previous)
           /\ \A f, runner, r : Tracks(f, queue, runner, r) => Tracks(f, later, runner, r)
<1> DEFINE n == Len(queue)
<1>1. /\ DOMAIN later = DOMAIN queue /\ Len(later) = n
      /\ \A i \in DOMAIN queue : /\ later[i].done = queue[i].done
                                 /\ ~queue[i].done => later[i] = queue[i]
  BY DEF SameLeft
<1>2. n \in Nat /\ DOMAIN queue = 1 .. n
  BY DEF IsSeq
<1>3. /\ previous = IdsBefore(queue, ids, n + 1)
      /\ \A i \in DOMAIN queue :
          /\ queue[i].done \in BOOLEAN
          /\ queue[i].done => \A j \in 1 .. (i - 1) : queue[j].done
          /\ ~queue[i].done =>
                \A k \in DOMAIN queue[i].out.reqs :
                   Recoverable(queue[i].out.reqs[k], IdsBefore(queue, ids, i))
  BY DEF BatchesOf
<1> HIDE DEF n
<1>4. \A i \in 1 .. (n + 1) : \A j \in 1 .. (i - 1) : j \in DOMAIN queue
  BY <1>2
<1>5. \A i \in 1 .. (n + 1) :
         (\A j \in 1 .. (i - 1) : later[j].done) <=> (\A j \in 1 .. (i - 1) : queue[j].done)
  BY <1>1, <1>4
<1>6. ASSUME NEW i \in 1 .. (n + 1)
      PROVE  IdsBefore(later, ids, i) = IdsBefore(queue, ids, i)
  <2>1. CASE \A j \in 1 .. (i - 1) : queue[j].done
    BY <1>5, <2>1 DEF IdsBefore
  <2>2. CASE ~\A j \in 1 .. (i - 1) : queue[j].done
    <3>1. PICK j \in 1 .. (i - 1) : ~queue[j].done
      BY <2>2
    <3>2. i - 1 \in 1 .. (i - 1) /\ (j = i - 1 \/ j \in 1 .. ((i - 1) - 1))
      BY <1>2, <1>6, <3>1
    <3>3. i - 1 \in DOMAIN queue
      BY <1>4, <3>2
    <3>4. ~queue[i - 1].done
      BY <1>3, <3>1, <3>2, <3>3
    <3>5. later[i - 1] = queue[i - 1]
      BY <1>1, <3>3, <3>4
    <3> QED BY <1>5, <2>2, <3>5 DEF IdsBefore
  <2> QED BY <2>1, <2>2
<1>7. n + 1 \in 1 .. (n + 1) /\ \A i \in DOMAIN queue : i \in 1 .. (n + 1)
  BY <1>2
<1>8. BatchesOf(later, ids, previous)
  <2>1. previous = IdsBefore(later, ids, Len(later) + 1)
    BY <1>1, <1>3, <1>6, <1>7
  <2>2. \A i \in DOMAIN later : later[i].done => \A j \in 1 .. (i - 1) : later[j].done
    BY <1>1, <1>3, <1>4, <1>7
  <2>3. \A i \in DOMAIN later : ~later[i].done =>
                \A k \in DOMAIN later[i].out.reqs :
                   Recoverable(later[i].out.reqs[k], IdsBefore(later, ids, i))
    BY <1>1, <1>3, <1>6, <1>7
  <2>4. \A i \in DOMAIN later : later[i].done \in BOOLEAN
    BY <1>1, <1>3
  <2> QED BY <1>1, <2>1, <2>2, <2>3, <2>4 DEF BatchesOf
<1>9. ASSUME NEW f, NEW runner, NEW r, Tracks(f, queue, runner, r)
      PROVE  Tracks(f, later, runner, r)
  <2>1. /\ DOMAIN f = 1 .. (n + 1)
        /\ \A i \in DOMAIN f : (\A j \in 1 .. (i - 1) : queue[j].done) => f[i] = Len(runner[r].tokens)
    BY <1>9 DEF Tracks, n
  <2>2. \A i \in DOMAIN queue : ~queue[i].done =>
          /\ ~Has(queue[i], r) =>
                f[i + 1] = IF r \in queue[i].out.finished_req_ids THEN 0 ELSE f[i]
          /\ \A k \in DOMAIN queue[i].out.reqs :
                LET e == queue[i].out.reqs[k]
                IN e.id = r => /\ Base(e) = IF e.kind = "new" THEN Len(Prompt[r]) ELSE f[i]
                               /\ f[i + 1] = Left(e)
    BY <1>9 DEF Tracks
  <2>3. \A i \in DOMAIN later : ~later[i].done =>
          /\ ~Has(later[i], r) =>
                f[i + 1] = IF r \in later[i].out.finished_req_ids THEN 0 ELSE f[i]
          /\ \A k \in DOMAIN later[i].out.reqs :
                LET e == later[i].out.reqs[k]
                IN e.id = r => /\ Base(e) = IF e.kind = "new" THEN Len(Prompt[r]) ELSE f[i]
                               /\ f[i + 1] = Left(e)
    BY <1>1, <2>2
  <2>4. \A i \in DOMAIN f : (\A j \in 1 .. (i - 1) : later[j].done) => f[i] = Len(runner[r].tokens)
    BY <1>5, <2>1
  <2> QED BY <1>1, <2>1, <2>3, <2>4 DEF Tracks
<1> QED BY <1>8, <1>9

HeadGone(queue, later) == later = [queue EXCEPT ![1].out.reqs = Tail(@), ![1].sampled = Tail(@)]

(***************************************************************************)
(* The batches once the first request of the oldest one is dealt with.     *)
(***************************************************************************)
LEMMA HeadFacts ==
    ASSUME NEW queue, IsSeq(queue), queue # <<>>, \A i \in DOMAIN queue : IsBatch(queue[i]),
           NEW ids, NEW previous, BatchesOf(queue, ids, previous),
           queue[1].done, queue[1].out.reqs # <<>>,
           NEW later, HeadGone(queue, later),
           NEW r, r = queue[1].out.reqs[1].id, NEW t, t = queue[1].sampled[1]
    PROVE  /\ SameLeft(queue, later) /\ \A i \in DOMAIN queue : BatchOK(later[i])
           /\ \A s : s # r => Pending(later, s) = Pending(queue, s)
           /\ Pending(later, r) = Pending(queue, r) \ {1}
           /\ 1 \in Pending(queue, r) <=> t # <<>>
           /\ Has(queue[1], r) /\ 1 \in DOMAIN queue
           /\ \A i \in DOMAIN queue : \A s : Has(later[i], s) => Has(queue[i], s)
<1> DEFINE b == queue[1]
           c == later[1]
           n == Len(queue)
<1>1. n \in Nat /\ DOMAIN queue = 1 .. n /\ 1 \in DOMAIN queue
  BY SeqTail DEF IsSeq
<1>2. /\ DOMAIN later = DOMAIN queue
      /\ \A i \in DOMAIN queue : i # 1 => later[i] = queue[i]
      /\ HeadLeft(b, c)
  BY <1>1 DEF HeadLeft, HeadGone
<1>3. Len(later) = n
  BY <1>1, <1>2
<1>4. IsBatch(b) /\ BatchOK(b) /\ b.done /\ b.out.reqs # <<>>
      /\ \A i \in DOMAIN queue : BatchOK(queue[i])
  BY <1>1 DEF BatchesOf
<1>5. /\ BatchOK(c) /\ c.done = b.done
      /\ \A s : Has(c, s) => Has(b, s)
      /\ \A s : s # r => (Brings(c, s) <=> Brings(b, s))
      /\ ~Brings(c, r)
      /\ Brings(b, r) <=> (b.sampled[1] # <<>>)
      /\ Has(b, r)
  <2>1. r = b.out.reqs[1].id /\ t = b.sampled[1]
    OBVIOUS
  <2> HIDE DEF b, c
  <2>2. /\ BatchOK(c) /\ c.done = b.done
        /\ \A s : Has(c, s) => Has(b, s)
        /\ \A s : s # b.out.reqs[1].id => (Brings(c, s) <=> Brings(b, s))
        /\ ~Brings(c, b.out.reqs[1].id)
        /\ Brings(b, b.out.reqs[1].id) <=> (b.sampled[1] # <<>>)
        /\ Has(b, b.out.reqs[1].id)
    BY <1>2, <1>4, HeadBrings
  <2> QED BY <2>1, <2>2
<1> HIDE DEF n
<1>6. SameLeft(queue, later)
  BY <1>1, <1>2, <1>3, <1>4, <1>5 DEF SameLeft, n
<1>7. \A i \in DOMAIN queue : BatchOK(later[i])
  BY <1>2, <1>4, <1>5
<1>8. \A s : s # r => Pending(later, s) = Pending(queue, s)
  <2> SUFFICES ASSUME NEW s, s # r PROVE Pending(later, s) = Pending(queue, s)
    OBVIOUS
  <2>1. \A i \in DOMAIN queue : Brings(later[i], s) <=> Brings(queue[i], s)
    BY <1>2, <1>5
  <2> QED BY <1>2, <2>1 DEF Pending
<1>9. Pending(later, r) = Pending(queue, r) \ {1}
  <2>1. \A i \in DOMAIN queue : Brings(later[i], r) <=> (Brings(queue[i], r) /\ i # 1)
    BY <1>2, <1>5
  <2> QED BY <1>2, <2>1 DEF Pending
<1>10. 1 \in Pending(queue, r) <=> t # <<>>
  BY <1>1, <1>5 DEF Pending
<1>11. \A i \in DOMAIN queue : \A s : Has(later[i], s) => Has(queue[i], s)
  BY <1>2, <1>5
<1> QED BY <1>1, <1>5, <1>6, <1>7, <1>8, <1>9, <1>10, <1>11

(***************************************************************************)
(* update_from_output for one request under async scheduling: a token that *)
(* is taken stands where a placeholder stood.                              *)
(***************************************************************************)
LEMMA OutputFacts ==
    ASSUME IInv, InFlightInv, AsyncScheduling, NEW r \in Request, NEW t, IsSeq(t), Len(t) <= 1,
           update_request(r, t)
    PROVE  /\ \A s \in Request : s # r => requests'[s] = requests[s]
           /\ Len(requests'[r].tokens) >= Len(requests[r].tokens)
           /\ requests'[r].discard_latest_async_tokens = FALSE
           /\ requests'[r].num_output_placeholders <= requests[r].num_output_placeholders
           /\ requests'[r].status \in Alive =>
                 /\ requests[r].status = requests'[r].status
                 /\ Known(requests'[r]) = Known(requests[r])
                 /\ r \notin finished_req_ids'
                 /\ t = <<>> => /\ requests'[r].tokens = requests[r].tokens
                                /\ requests'[r].num_output_placeholders
                                     = requests[r].num_output_placeholders
                 /\ t # <<>> => requests'[r].num_output_placeholders
                                  = requests[r].num_output_placeholders - 1
           /\ \A s \in Request : s # r /\ s \notin finished_req_ids => s \notin finished_req_ids'
           /\ prev_step_scheduled_req_ids' = prev_step_scheduled_req_ids /\ step' = step
<1> DEFINE q == requests[r]
           p == requests'[r]
           a == Len(q.tokens)
           o == q.num_output_placeholders
<1>1. DOMAIN requests = Request /\ IsRequest(q)
  BY Basics
<1>2. q.discard_latest_async_tokens = FALSE /\ (q.status \in Alive => r \notin finished_req_ids)
  BY DEF InFlightInv, Progress
<1>3. a \in Nat /\ o \in Int
  BY <1>1 DEF IsRequest, IsSeq
<1>4. CASE IgnoreOutput(r, t)
  <2> DEFINE d == q.discard_latest_async_tokens
                  /\ ~ (q.status \in {"WAITING", "RUNNING", "PREEMPTED"}
                        /\ t # <<>> /\ AsyncScheduling)
  <2>1. /\ requests' = [requests EXCEPT ![r].discard_latest_async_tokens = d]
        /\ finished_req_ids' = finished_req_ids /\ step' = step
        /\ prev_step_scheduled_req_ids' = prev_step_scheduled_req_ids
        /\ q.status \notin Alive \/ t = <<>> \/ (AsyncScheduling /\ q.discard_latest_async_tokens)
    BY <1>4 DEF IgnoreOutput, Alive
  <2>2. d = FALSE /\ (q.status \notin Alive \/ t = <<>>)
    BY <1>2, <2>1
  <2> HIDE DEF d
  <2>3. /\ \A s \in Request : s # r => requests'[s] = requests[s]
        /\ p = [q EXCEPT !.discard_latest_async_tokens = d]
    BY <1>1, <2>1
  <2> HIDE DEF q, p
  <2>4. /\ p.tokens = q.tokens /\ p.num_output_placeholders = o /\ p.status = q.status
        /\ p.discard_latest_async_tokens = FALSE
    BY <1>1, <2>2, <2>3 DEF IsRequest
  <2>5. Known(p) = Known(q)
    BY <2>4 DEF Known
  <2>6. Len(p.tokens) >= Len(q.tokens) /\ p.num_output_placeholders <= q.num_output_placeholders
    BY <1>3, <2>4
  <2> QED BY <1>2, <2>1, <2>2, <2>3, <2>4, <2>5, <2>6 DEF q, p
<1>5. CASE ApplyOutput(r, t)
  <2> DEFINE new == q.tokens \o t
             x == o - 1
             stopped == check_stop(r, new)
             status == IF stopped THEN "FINISHED" ELSE q.status
  <2>1. /\ requests' = [requests EXCEPT ![r].tokens = new, ![r].num_output_placeholders = x,
                                        ![r].status = status]
        /\ finished_req_ids' = IF stopped THEN finished_req_ids \cup {r} ELSE finished_req_ids
        /\ step' = step /\ prev_step_scheduled_req_ids' = prev_step_scheduled_req_ids
        /\ t # <<>> /\ q.status \in Alive
    BY <1>5 DEF ApplyOutput, Alive
  <2>2. Len(new) = a + 1
    <3>1. IsSeq(q.tokens)
      BY <1>1 DEF IsRequest
    <3> DEFINE k == Len(t)
               u == q.tokens
    <3>2. k \in Nat /\ k # 0 /\ k <= 1
      BY <2>1 DEF IsSeq
    <3> HIDE DEF k
    <3>3. k = 1
      BY <3>2
    <3> HIDE DEF u
    <3>4. Len(u \o t) = Len(u) + k
      BY <3>1 DEF k, u, IsSeq
    <3> QED BY <3>3, <3>4 DEF u
  <2>3. stopped => status \notin Alive
    BY DEF Alive
  <2>4. ~stopped => status = q.status
    OBVIOUS
  <2> HIDE DEF new, x, stopped, status
  <2>5. /\ \A s \in Request : s # r => requests'[s] = requests[s]
        /\ p = [q EXCEPT !.tokens = new, !.num_output_placeholders = x, !.status = status]
    BY <1>1, <2>1
  <2> HIDE DEF q, p
  <2>6. /\ p.tokens = new /\ p.num_output_placeholders = x /\ p.status = status
        /\ p.discard_latest_async_tokens = FALSE
    BY <1>1, <1>2, <2>5 DEF IsRequest
  <2> HIDE DEF a, o
  <2>7. (a + 1) + x = a + o /\ x <= o /\ a + 1 >= a
    BY <1>3 DEF x
  <2>8. Known(p) = Known(q) /\ Len(p.tokens) >= Len(q.tokens)
        /\ p.num_output_placeholders <= q.num_output_placeholders
        /\ p.num_output_placeholders = q.num_output_placeholders - 1
    BY <2>2, <2>6, <2>7 DEF Known, a, o, x
  <2>9. p.status \in Alive => (p.status = q.status /\ finished_req_ids' = finished_req_ids)
    BY <2>1, <2>3, <2>4, <2>6
  <2>10. \A s : s # r /\ s \notin finished_req_ids => s \notin finished_req_ids'
    BY <2>1
  <2> QED BY <1>2, <2>1, <2>5, <2>6, <2>8, <2>9, <2>10 DEF q, p
<1> QED BY <1>4, <1>5 DEF update_request

(***************************************************************************)
(* update_from_output keeps the third invariant.                           *)
(***************************************************************************)
LEMMA UpdateRequestInFlight ==
    ASSUME IInv, InFlightInv, Sound, AsyncScheduling, UpdateRequest
    PROVE  InFlightInv'
<1> DEFINE batch == batch_queue[1]
           r == batch.out.reqs[1].id
           t == batch.sampled[1]
<1>1. /\ phase \in {"output", "update"} /\ batch.done /\ batch.out.reqs # <<>>
      /\ update_request(r, t)
      /\ batch_queue' = [batch_queue EXCEPT ![1].out.reqs = Tail(@), ![1].sampled = Tail(@)]
      /\ phase' = "update"
      /\ runner_requests' = runner_requests /\ input_batch' = input_batch
  BY DEF UpdateRequest, runnerVars
<1>2. /\ IsSeq(batch_queue) /\ batch_queue # <<>>
      /\ \A i \in DOMAIN batch_queue : IsBatch(batch_queue[i])
      /\ BatchesOf(batch_queue, input_batch, prev_step_scheduled_req_ids)
      /\ Len(batch_queue) <= BatchQueueSize
  BY <1>1 DEF IInv, BatchesOK, InFlightInv, Batches
<1>3. /\ SameLeft(batch_queue, batch_queue')
      /\ \A i \in DOMAIN batch_queue : BatchOK(batch_queue'[i])
      /\ \A s : s # r => Pending(batch_queue', s) = Pending(batch_queue, s)
      /\ Pending(batch_queue', r) = Pending(batch_queue, r) \ {1}
      /\ 1 \in Pending(batch_queue, r) <=> t # <<>>
      /\ Has(batch, r) /\ 1 \in DOMAIN batch_queue
      /\ \A i \in DOMAIN batch_queue : \A s : Has(batch_queue'[i], s) => Has(batch_queue[i], s)
  <2>1. HeadGone(batch_queue, batch_queue')
    BY <1>1 DEF HeadGone
  <2> HIDE DEF r, t
  <2>2. r = batch_queue[1].out.reqs[1].id /\ t = batch_queue[1].sampled[1]
    BY DEF r, t
  <2>3. batch_queue[1].done /\ batch_queue[1].out.reqs # <<>>
    BY <1>1
  <2> DEFINE later == batch_queue'
  <2> HIDE DEF later
  <2>4. HeadGone(batch_queue, later)
    BY <2>1 DEF later
  <2>5. /\ SameLeft(batch_queue, later)
        /\ \A i \in DOMAIN batch_queue : BatchOK(later[i])
        /\ \A s : s # r => Pending(later, s) = Pending(batch_queue, s)
        /\ Pending(later, r) = Pending(batch_queue, r) \ {1}
        /\ 1 \in Pending(batch_queue, r) <=> t # <<>>
        /\ Has(batch_queue[1], r) /\ 1 \in DOMAIN batch_queue
        /\ \A i \in DOMAIN batch_queue : \A s : Has(later[i], s) => Has(batch_queue[i], s)
    BY <1>2, <2>2, <2>3, <2>4, HeadFacts
  <2> QED BY <2>5 DEF later
<1>4. r \in Request /\ IsSeq(t) /\ Len(t) <= 1
  <2>1. IsBatch(batch) /\ OneToken(batch)
    BY <1>1, <1>2, <1>3 DEF Sound, OneEach
  <2> DEFINE reqs == batch.out.reqs
             sampled == batch.sampled
  <2>2. /\ IsSeq(reqs) /\ reqs # <<>> /\ IsSeq(sampled) /\ Len(sampled) = Len(reqs)
        /\ \A k \in DOMAIN reqs : reqs[k].id \in Request
        /\ \A k \in DOMAIN sampled : IsSeq(sampled[k]) /\ Len(sampled[k]) <= 1
    BY <1>1, <2>1 DEF IsBatch, OneToken
  <2> HIDE DEF reqs, sampled
  <2>3. 1 \in DOMAIN reqs /\ DOMAIN reqs = DOMAIN sampled
    BY <2>2, SeqTail DEF IsSeq
  <2> QED BY <2>2, <2>3 DEF reqs, sampled
<1> HIDE DEF r, t, batch
<1>5. /\ \A s \in Request : s # r => requests'[s] = requests[s]
      /\ Len(requests'[r].tokens) >= Len(requests[r].tokens)
      /\ requests'[r].discard_latest_async_tokens = FALSE
      /\ requests'[r].num_output_placeholders <= requests[r].num_output_placeholders
      /\ \A s \in Request : s # r /\ s \notin finished_req_ids => s \notin finished_req_ids'
      /\ prev_step_scheduled_req_ids' = prev_step_scheduled_req_ids /\ step' = step
  BY <1>1, <1>4, OutputFacts
<1>6. requests'[r].status \in Alive =>
        /\ requests[r].status = requests'[r].status
        /\ Known(requests'[r]) = Known(requests[r])
        /\ r \notin finished_req_ids'
        /\ t = <<>> => requests'[r].num_output_placeholders = requests[r].num_output_placeholders
        /\ t # <<>> => requests'[r].num_output_placeholders
                          = requests[r].num_output_placeholders - 1
  BY <1>1, <1>4, OutputFacts
<1>7. /\ BatchesOf(batch_queue', input_batch, prev_step_scheduled_req_ids)
      /\ \A f, runner, s : Tracks(f, batch_queue, runner, s) => Tracks(f, batch_queue', runner, s)
  BY <1>2, <1>3, SameLeftFacts
<1>8. Len(batch_queue') = Len(batch_queue) /\ DOMAIN batch_queue' = DOMAIN batch_queue
  BY <1>3 DEF SameLeft
<1>9. Batches'
  BY <1>1, <1>2, <1>5, <1>7, <1>8 DEF Batches
<1>10. Worker' /\ Kinds'
  BY <1>1, <1>5 DEF InFlightInv, Worker, Kinds
<1>11. \A s \in Request : requests'[s].status \in Alive =>
          /\ requests[s].status \in Alive
          /\ Known(requests'[s]) = Known(requests[s])
          /\ Started(requests', step', s) <=> Started(requests, step, s)
  BY <1>5, <1>6 DEF Started
<1>12. Tracked'
  <2> SUFFICES ASSUME NEW s \in Request, requests'[s].status \in Alive
               PROVE  \E f : /\ Tracks(f, batch_queue', runner_requests, s)
                             /\ Started(requests', step', s) =>
                                   f[Len(batch_queue') + 1] = Known(requests'[s])
    BY <1>1 DEF Tracked
  <2>1. requests[s].status \in Alive
    BY <1>11
  <2>2. PICK f : /\ Tracks(f, batch_queue, runner_requests, s)
                 /\ Started(requests, step, s) => f[Len(batch_queue) + 1] = Known(requests[s])
    BY <2>1 DEF InFlightInv, Tracked
  <2> QED BY <1>7, <1>8, <1>11, <2>2
<1>13. Progress'
  <2>1. \A s \in Request : s # r =>
           /\ Len(requests'[s].tokens) >= Len(Prompt[s])
           /\ requests'[s].discard_latest_async_tokens = FALSE
           /\ requests'[s].num_output_placeholders <= BatchQueueSize
           /\ requests'[s].status \in Alive =>
                 /\ s \notin finished_req_ids'
                 /\ requests'[s].num_output_placeholders = Cardinality(Pending(batch_queue', s))
                 /\ ~Started(requests', step', s) => Unstarted(requests'[s], batch_queue', s)
    BY <1>3, <1>5, <1>8, <1>11 DEF InFlightInv, Progress, Unstarted
  <2>2. /\ Len(requests'[r].tokens) >= Len(Prompt[r])
        /\ requests'[r].num_output_placeholders <= BatchQueueSize
    <3> DEFINE a == Len(requests[r].tokens)
               b == Len(requests'[r].tokens)
               o == requests[r].num_output_placeholders
               x == requests'[r].num_output_placeholders
    <3>1. a \in Nat /\ b \in Nat /\ o \in Int /\ x \in Int
      <4>1. IsRequest(requests[r]) /\ IsRequest(requests'[r])
        BY <1>4, Basics, UpdateRequestKeeps DEF IInv, RequestsOK
      <4> QED BY <4>1 DEF IsRequest, IsSeq
    <3>2. a >= Len(Prompt[r]) /\ o <= BatchQueueSize /\ b >= a /\ x <= o
      BY <1>4, <1>5 DEF InFlightInv, Progress
    <3>3. Len(Prompt[r]) \in Nat /\ BatchQueueSize \in Nat
      BY <1>4, PromptFacts, EngineAssumption
    <3> HIDE DEF a, b, o, x
    <3>4. b >= Len(Prompt[r]) /\ x <= BatchQueueSize
      BY <3>1, <3>2, <3>3
    <3> QED BY <3>4 DEF b, x
  <2>3. ASSUME requests'[r].status \in Alive
        PROVE  /\ requests'[r].num_output_placeholders = Cardinality(Pending(batch_queue', r))
               /\ Started(requests', step', r)
    <3>1. requests[r].status \in Alive
      BY <1>4, <1>11, <2>3
    <3> DEFINE S == Pending(batch_queue, r)
    <3>2. IsFiniteSet(S) /\ requests[r].num_output_placeholders = Cardinality(S)
      BY <1>2, <1>4, <3>1, PendingFinite DEF InFlightInv, Progress
    <3> HIDE DEF S
    <3>3. Started(requests', step', r)
      <4>1. ~Unstarted(requests[r], batch_queue, r)
        BY <1>3 DEF Unstarted, batch
      <4>2. Started(requests, step, r)
        BY <1>4, <3>1, <4>1 DEF InFlightInv, Progress
      <4> QED BY <1>4, <1>11, <2>3, <4>2
    <3>4. CASE t = <<>>
      <4>1. Pending(batch_queue', r) = S
        BY <1>3, <3>4 DEF S
      <4> QED BY <1>6, <2>3, <3>2, <3>3, <3>4, <4>1
    <3>5. CASE t # <<>>
      <4>1. Pending(batch_queue', r) = S \ {1} /\ 1 \in S
        BY <1>3, <3>5 DEF S
      <4>2. Cardinality(S \ {1}) = Cardinality(S) - 1
        BY <3>2, <4>1, FS_RemoveElement
      <4> QED BY <1>6, <2>3, <3>2, <3>3, <3>5, <4>1, <4>2
    <3> QED BY <3>4, <3>5
  <2> QED BY <1>4, <1>5, <1>6, <2>1, <2>2, <2>3 DEF Progress
<1> QED BY <1>9, <1>10, <1>12, <1>13 DEF InFlightInv

-----------------------------------------------------------------------------
(* A batch is submitted *)

(***************************************************************************)
(* The batches are as they should be with one more to execute.             *)
(***************************************************************************)
LEMMA AppendBatches ==
    ASSUME NEW queue, IsSeq(queue), NEW ids, NEW previous, BatchesOf(queue, ids, previous),
           NEW b, BatchOK(b), b.done = FALSE,
           \A k \in DOMAIN b.out.reqs : Recoverable(b.out.reqs[k], previous)
    PROVE  BatchesOf(Append(queue, b), ids, ScheduledIds(b.out))
<1> DEFINE n == Len(queue)
           later == Append(queue, b)
<1>1. /\ DOMAIN later = 1 .. (n + 1) /\ Len(later) = n + 1 /\ later[n + 1] = b
      /\ n \in Nat /\ DOMAIN queue = 1 .. n
      /\ \A i \in DOMAIN queue : later[i] = queue[i]
  BY SeqAppend
<1>2. /\ previous = IdsBefore(queue, ids, n + 1)
      /\ \A i \in DOMAIN queue :
          /\ BatchOK(queue[i])
          /\ queue[i].done \in BOOLEAN
          /\ queue[i].done => \A j \in 1 .. (i - 1) : queue[j].done
          /\ ~queue[i].done =>
                \A k \in DOMAIN queue[i].out.reqs :
                   Recoverable(queue[i].out.reqs[k], IdsBefore(queue, ids, i))
  BY DEF BatchesOf
<1> HIDE DEF n, later
<1>3. \A i \in 1 .. (n + 1) : \A j \in 1 .. (i - 1) : j \in DOMAIN queue
  BY <1>1
<1>4. \A i \in 1 .. (n + 1) : (\E j \in 1 .. (i - 1) : TRUE) => i - 1 \in DOMAIN queue
  BY <1>1
<1>5. \A i \in 1 .. (n + 1) : IdsBefore(later, ids, i) = IdsBefore(queue, ids, i)
  <2> SUFFICES ASSUME NEW i \in 1 .. (n + 1)
               PROVE  IdsBefore(later, ids, i) = IdsBefore(queue, ids, i)
    OBVIOUS
  <2>1. (\A j \in 1 .. (i - 1) : later[j].done) <=> (\A j \in 1 .. (i - 1) : queue[j].done)
    BY <1>1, <1>3
  <2>2. ~(\A j \in 1 .. (i - 1) : queue[j].done) => later[i - 1] = queue[i - 1]
    BY <1>1, <1>4
  <2> QED BY <2>1, <2>2 DEF IdsBefore
<1>6. \A i \in DOMAIN later : (i \in DOMAIN queue /\ i \in 1 .. (n + 1)) \/ i = n + 1
  BY <1>1
<1>7. ASSUME NEW i \in DOMAIN later
      PROVE  /\ BatchOK(later[i])
             /\ later[i].done \in BOOLEAN
             /\ later[i].done => \A j \in 1 .. (i - 1) : later[j].done
             /\ ~later[i].done =>
                   \A k \in DOMAIN later[i].out.reqs :
                      Recoverable(later[i].out.reqs[k], IdsBefore(later, ids, i))
  <2>1. CASE i \in DOMAIN queue /\ i \in 1 .. (n + 1)
    <3>1. later[i] = queue[i] /\ IdsBefore(later, ids, i) = IdsBefore(queue, ids, i)
      BY <1>1, <1>5, <2>1
    <3>2. later[i].done => \A j \in 1 .. (i - 1) : later[j].done
      BY <1>1, <1>2, <1>3, <2>1
    <3> QED BY <1>2, <2>1, <3>1, <3>2
  <2>2. CASE i = n + 1
    <3>1. later[i] = b /\ IdsBefore(later, ids, i) = previous
      <4>1. n + 1 \in 1 .. (n + 1)
        BY <1>1
      <4> QED BY <1>1, <1>2, <1>5, <2>2, <4>1
    <3> QED BY <3>1
  <2> QED BY <1>6, <1>7, <2>1, <2>2
<1>8. IdsBefore(later, ids, Len(later) + 1) = ScheduledIds(b.out)
  <2>1. n + 1 \in 1 .. (((n + 1) + 1) - 1) /\ ((n + 1) + 1) - 1 = n + 1
    BY <1>1
  <2>2. ~\A j \in 1 .. (((n + 1) + 1) - 1) : later[j].done
    BY <1>1, <2>1
  <2> QED BY <1>1, <2>1, <2>2 DEF IdsBefore
<1> QED BY <1>7, <1>8 DEF BatchesOf, later

(***************************************************************************)
(* The batches that bring a token for r, with one more batch.              *)
(***************************************************************************)
LEMMA AppendPending ==
    ASSUME NEW queue, IsSeq(queue), NEW b, NEW r
    PROVE  /\ ~Brings(b, r) => Pending(Append(queue, b), r) = Pending(queue, r)
           /\ Brings(b, r) => /\ Cardinality(Pending(Append(queue, b), r))
                                   = Cardinality(Pending(queue, r)) + 1
                              /\ Cardinality(Pending(queue, r)) \in Nat
<1> DEFINE n == Len(queue)
           later == Append(queue, b)
           S == Pending(queue, r)
<1>1. /\ DOMAIN later = 1 .. (n + 1) /\ later[n + 1] = b
      /\ n \in Nat /\ DOMAIN queue = 1 .. n
      /\ \A i \in DOMAIN queue : later[i] = queue[i]
  BY SeqAppend
<1>2. IsFiniteSet(S) /\ Cardinality(S) \in Nat
  BY PendingFinite
<1> HIDE DEF n, later
<1>3. \A i : i \in DOMAIN later <=> (i \in DOMAIN queue \/ i = n + 1)
  BY <1>1
<1>4. n + 1 \notin S
  BY <1>1 DEF Pending
<1>5. ~Brings(b, r) => Pending(later, r) = S
  BY <1>1, <1>3 DEF Pending
<1>6. Brings(b, r) => Pending(later, r) = S \cup {n + 1}
  BY <1>1, <1>3 DEF Pending
<1> HIDE DEF S
<1>7. Cardinality(S \cup {n + 1}) = Cardinality(S) + 1
  BY <1>2, <1>4, FS_AddElement
<1> QED BY <1>2, <1>5, <1>6, <1>7 DEF S, later

\* Batch b takes the worker's tokens of r from h to x.
Leads(b, r, h, x) ==
    /\ ~Has(b, r) => x = IF r \in b.out.finished_req_ids THEN 0 ELSE h
    /\ \A k \in DOMAIN b.out.reqs :
          LET e == b.out.reqs[k]
          IN e.id = r => /\ Base(e) = IF e.kind = "new" THEN Len(Prompt[r]) ELSE h
                         /\ x = Left(e)

\* The worker has x tokens of r at the end of the queue.
Reaching(queue, runner, r, x) == \E g : Tracks(g, queue, runner, r) /\ g[Len(queue) + 1] = x

(***************************************************************************)
(* The worker's tokens of r are tracked through one more batch, after      *)
(* which it has x of them.                                                 *)
(***************************************************************************)
LEMMA AppendTracks ==
    ASSUME NEW queue, IsSeq(queue), NEW b, b.done = FALSE, NEW runner, NEW r, NEW f,
           Tracks(f, queue, runner, r), NEW x, Leads(b, r, f[Len(queue) + 1], x)
    PROVE  Reaching(Append(queue, b), runner, r, x)
<1> DEFINE n == Len(queue)
           later == Append(queue, b)
           g == [i \in 1 .. ((n + 1) + 1) |-> IF i = (n + 1) + 1 THEN x ELSE f[i]]
<1>1. /\ DOMAIN later = 1 .. (n + 1) /\ Len(later) = n + 1 /\ later[n + 1] = b
      /\ n \in Nat /\ DOMAIN queue = 1 .. n
      /\ \A i \in DOMAIN queue : later[i] = queue[i]
  BY SeqAppend
<1>2. /\ DOMAIN f = 1 .. (n + 1)
      /\ \A i \in DOMAIN f : (\A j \in 1 .. (i - 1) : queue[j].done) => f[i] = Len(runner[r].tokens)
  BY DEF Tracks
<1>3. \A i \in DOMAIN queue : ~queue[i].done =>
          /\ ~Has(queue[i], r) =>
                f[i + 1] = IF r \in queue[i].out.finished_req_ids THEN 0 ELSE f[i]
          /\ \A k \in DOMAIN queue[i].out.reqs :
                LET e == queue[i].out.reqs[k]
                IN e.id = r => /\ Base(e) = IF e.kind = "new" THEN Len(Prompt[r]) ELSE f[i]
                               /\ f[i + 1] = Left(e)
  BY DEF Tracks
<1>4. /\ ~Has(b, r) => x = IF r \in b.out.finished_req_ids THEN 0 ELSE f[n + 1]
      /\ \A k \in DOMAIN b.out.reqs :
            LET e == b.out.reqs[k]
            IN e.id = r => /\ Base(e) = IF e.kind = "new" THEN Len(Prompt[r]) ELSE f[n + 1]
                           /\ x = Left(e)
  BY DEF Leads
<1> HIDE DEF n, later
<1>5. /\ g[(n + 1) + 1] = x /\ \A i \in 1 .. (n + 1) : g[i] = f[i]
      /\ DOMAIN g = 1 .. ((n + 1) + 1)
  BY <1>1
<1> HIDE DEF g
<1>6. \A i \in DOMAIN g : (\A j \in 1 .. (i - 1) : later[j].done) => g[i] = Len(runner[r].tokens)
  <2> SUFFICES ASSUME NEW i \in DOMAIN g, \A j \in 1 .. (i - 1) : later[j].done
               PROVE  g[i] = Len(runner[r].tokens)
    OBVIOUS
  <2>1. i # (n + 1) + 1
    <3> SUFFICES ASSUME i = (n + 1) + 1 PROVE FALSE
      OBVIOUS
    <3>1. n + 1 \in 1 .. (i - 1)
      BY <1>1
    <3> QED BY <1>1, <3>1
  <2>2. i \in 1 .. (n + 1) /\ \A j \in 1 .. (i - 1) : j \in DOMAIN queue
    BY <1>1, <1>5, <2>1
  <2>3. \A j \in 1 .. (i - 1) : queue[j].done
    BY <1>1, <2>2
  <2> QED BY <1>2, <1>5, <2>2, <2>3
<1>7. ASSUME NEW i \in DOMAIN later, ~later[i].done
      PROVE  /\ ~Has(later[i], r) =>
                   g[i + 1] = IF r \in later[i].out.finished_req_ids THEN 0 ELSE g[i]
             /\ \A k \in DOMAIN later[i].out.reqs :
                   LET e == later[i].out.reqs[k]
                   IN e.id = r => /\ Base(e) = IF e.kind = "new" THEN Len(Prompt[r]) ELSE g[i]
                                  /\ g[i + 1] = Left(e)
  <2>1. i = n + 1 \/ (i \in DOMAIN queue /\ i \in 1 .. (n + 1) /\ i + 1 \in 1 .. (n + 1))
    BY <1>1, <1>7
  <2>2. CASE i = n + 1
    <3>1. later[i] = b /\ g[i] = f[n + 1] /\ g[i + 1] = x
      <4>1. n + 1 \in 1 .. (n + 1)
        BY <1>1
      <4> QED BY <1>1, <1>5, <2>2, <4>1
    <3> QED BY <1>4, <3>1
  <2>3. CASE i \in DOMAIN queue /\ i \in 1 .. (n + 1) /\ i + 1 \in 1 .. (n + 1)
    <3>1. later[i] = queue[i] /\ g[i] = f[i] /\ g[i + 1] = f[i + 1]
      BY <1>1, <1>5, <2>3
    <3> QED BY <1>3, <1>7, <2>3, <3>1
  <2> QED BY <2>1, <2>2, <2>3
<1>8. Tracks(g, later, runner, r)
  BY <1>1, <1>5, <1>6, <1>7 DEF Tracks
<1>9. g[Len(later) + 1] = x
  BY <1>1, <1>5
<1>10. Reaching(later, runner, r, x)
  BY <1>8, <1>9 DEF Reaching
<1> QED BY <1>10 DEF later

\* What a batch with entry e, made of entry x of schedule(), counts on is what
\* the scheduler counts: p is the request of the entry after the batch.
Matches(e, x, q, p) ==
    /\ e.id = x.id /\ e.kind = x.kind /\ IsOutput(e)
    /\ Base(e) = Known(q) /\ Left(e) = Known(p)
    /\ p.tokens = q.tokens /\ p.status = q.status
    /\ p.discard_latest_async_tokens = q.discard_latest_async_tokens
    /\ Samples(e) => p.num_output_placeholders = q.num_output_placeholders + 1
    /\ ~Samples(e) => p.num_output_placeholders = q.num_output_placeholders

(***************************************************************************)
(* What the SchedulerOutput says of a scheduled request, and what          *)
(* _update_after_schedule does to it.                                      *)
(***************************************************************************)
LEMMA OutputMatches ==
    ASSUME AsyncScheduling, NEW x, x.id \in Request, x.num_scheduled_tokens \in Nat,
           IsRequest(requests[x.id]), requests[x.id].num_output_placeholders \in Nat,
           Len(requests[x.id].tokens) >= Len(Prompt[x.id])
    PROVE  Matches(OutputOf(x), x, requests[x.id], AfterSchedule(x.id, x.num_scheduled_tokens))
<1> DEFINE r == x.id
           m == x.num_scheduled_tokens
           q == requests[r]
           e == OutputOf(x)
           p == AfterSchedule(r, m)
           a == Len(q.tokens)
           o == q.num_output_placeholders
           d == q.num_computed_tokens
           l == Len(Prompt[r])
           c == d + m
           y == IF AsyncScheduling /\ ~(c < a + o) THEN o + 1 ELSE o
           w == (a - l) + o
<1>1. /\ p = [q EXCEPT !.num_computed_tokens = c, !.num_output_placeholders = y]
  BY DEF AfterSchedule
<1>2. /\ e.id = r /\ e.kind = x.kind /\ e.num_scheduled_tokens = m /\ e.num_computed_tokens = d
      /\ e.num_output_tokens = w
      /\ e.all_token_ids = IF r \in prev_step_scheduled_req_ids THEN <<>> ELSE q.tokens
  BY DEF OutputOf
<1>3. a \in Nat /\ o \in Nat /\ l \in Nat /\ a >= l /\ m \in Nat /\ d \in Int /\ IsSeq(q.tokens)
  BY PromptFacts DEF IsRequest, IsSeq
<1>4. IsRequest(q) /\ r \in Request
  OBVIOUS
<1> HIDE DEF e, p, q, r, m, a, o, d, l
<1>5. c \in Int /\ y \in Nat /\ w \in Nat /\ l + w = a + o
  BY <1>3
<1>6. y = IF c >= a + o THEN o + 1 ELSE o
  BY <1>3, <1>5
<1>7. a + y = IF c >= a + o THEN (a + o) + 1 ELSE a + o
  BY <1>3, <1>6
<1>8. /\ p.num_output_placeholders = y /\ p.tokens = q.tokens /\ p.status = q.status
      /\ p.discard_latest_async_tokens = q.discard_latest_async_tokens
  <2> HIDE DEF c, y
  <2> QED BY <1>1, <1>4 DEF IsRequest
<1>9. Base(e) = a + o /\ SeqLen(e) = c
  <2>1. Base(e) = l + w /\ SeqLen(e) = c
    BY <1>2 DEF Base, SeqLen, l
  <2> QED BY <1>5, <2>1
<1> HIDE DEF c, y, w
<1>10. Samples(e) <=> c >= a + o
  BY <1>9 DEF Samples
<1>11. Left(e) = IF c >= a + o THEN (a + o) + 1 ELSE a + o
  BY <1>9, <1>10 DEF Left
<1>12. Known(q) = a + o /\ Known(p) = a + y
  BY <1>8 DEF Known, a, o
<1>13. IsOutput(e)
  <2>1. IsSeq(e.all_token_ids)
    <3>1. <<>> \in Seq({0})
      OBVIOUS
    <3>2. IsSeq(<<>>)
      BY <3>1, SeqIs
    <3> QED BY <1>2, <1>3, <3>2
  <2> QED BY <1>2, <1>3, <1>5, <2>1 DEF IsOutput
<1>14. Left(e) = Known(p)
  BY <1>7, <1>11, <1>12
<1>15. Matches(e, x, q, p)
  BY <1>2, <1>6, <1>8, <1>9, <1>10, <1>12, <1>13, <1>14 DEF Matches, o, r
<1> QED BY <1>15 DEF e, p, q, r, m

(***************************************************************************)
(* A request that comes back has its output tokens on the scheduler's      *)
(* side: fewer of them are in flight than it has prompt tokens.            *)
(***************************************************************************)
LEMMA OutputRecoverable ==
    ASSUME NEW x, x.id \in Request, IsRequest(requests[x.id]),
           requests[x.id].num_output_placeholders \in Nat,
           requests[x.id].num_output_placeholders <= Len(Prompt[x.id]),
           x.kind \in {"new", "resumed", "running"},
           x.kind = "resumed" => x.id \notin prev_step_scheduled_req_ids
    PROVE  Recoverable(OutputOf(x), prev_step_scheduled_req_ids)
<1> DEFINE r == x.id
           q == requests[r]
           e == OutputOf(x)
           a == Len(q.tokens)
           o == q.num_output_placeholders
           l == Len(Prompt[r])
           w == (a - l) + o
<1>1. /\ e.id = r /\ e.kind = x.kind /\ e.num_output_tokens = w
      /\ e.all_token_ids = IF r \in prev_step_scheduled_req_ids THEN <<>> ELSE q.tokens
  BY DEF OutputOf
<1>2. a \in Nat /\ o \in Nat /\ l \in Nat /\ o <= l
  BY PromptFacts DEF IsRequest, IsSeq
<1> HIDE DEF e, a, o, l
<1>3. a >= w
  BY <1>2
<1> HIDE DEF w
<1>4. ASSUME r \in prev_step_scheduled_req_ids
      PROVE  Recoverable(e, prev_step_scheduled_req_ids)
  BY <1>1, <1>4 DEF Recoverable
<1>5. ASSUME r \notin prev_step_scheduled_req_ids
      PROVE  Recoverable(e, prev_step_scheduled_req_ids)
  <2>1. Len(e.all_token_ids) >= e.num_output_tokens
    BY <1>1, <1>3, <1>5 DEF a
  <2> QED BY <2>1 DEF Recoverable
<1> QED BY <1>4, <1>5 DEF e

(***************************************************************************)
(* Everything the batch that is submitted says matches what the scheduler  *)
(* will have counted.                                                      *)
(***************************************************************************)
LEMMA SubmitMatches ==
    ASSUME IInv, InFlightInv, Sound, AsyncScheduling, Submit,
           \A r \in Request : BatchQueueSize <= Len(Prompt[r]) + 1,
           NEW j \in DOMAIN step.scheduled, NEW x, x = step.scheduled[j]
    PROVE  /\ x.id \in Request /\ requests[x.id].status = "RUNNING"
           /\ Matches(OutputOf(x), x, requests[x.id], requests'[x.id])
           /\ Recoverable(OutputOf(x), prev_step_scheduled_req_ids)
<1> DEFINE s == step.scheduled
           ids == {s[i].id : i \in DOMAIN s}
           index(r) == CHOOSE i \in DOMAIN s : s[i].id = r
           tokens(r) == s[index(r)].num_scheduled_tokens
           r == x.id
           q == requests[r]
<1>1. /\ requests' = [y \in Request |-> IF y \in ids THEN AfterSchedule(y, tokens(y))
                                        ELSE requests[y]]
      /\ phase = "schedule"
  BY DEF Submit, schedule_end
<1>2. /\ IsStep(step) /\ Once(step)
      /\ EntryOK(x, step, running, requests, manager, prev_step_scheduled_req_ids)
      /\ \A y \in Request : y \in Range(running) <=> requests[y].status = "RUNNING"
      /\ \A y \in Request : IsRequest(requests[y])
      /\ \A y \in Request : Counts(requests[y], Slots(manager, y))
  BY Basics DEF IInv, QueuesOK, Placed, Sound, Entries, EntriesOf, TokensCounted, CountsOf
<1>3. /\ r \in Request /\ q.status = "RUNNING" /\ IsRequest(q)
      /\ x.num_scheduled_tokens \in Nat /\ q.num_output_placeholders \in Nat
      /\ x.kind = "resumed" => r \notin prev_step_scheduled_req_ids
  <2>1. r \in Request
    BY <1>2 DEF IsStep, IsEntry
  <2> QED BY <1>2, <2>1 DEF EntryOK, Reaches, Counts
<1>4. x.kind \in {"new", "resumed", "running"} /\ q.status \in Alive
  BY <1>3 DEF InFlightInv, Kinds, Alive
<1>5. index(r) = j /\ r \in ids
  <2>1. index(r) \in DOMAIN s /\ s[index(r)].id = r
    OBVIOUS
  <2> HIDE DEF index
  <2> QED BY <1>2, <2>1 DEF Once
<1>6. requests'[r] = AfterSchedule(r, x.num_scheduled_tokens)
  <2> HIDE DEF index, ids
  <2> QED BY <1>1, <1>3, <1>5
<1>7. Len(q.tokens) >= Len(Prompt[r])
  BY <1>3 DEF InFlightInv, Progress
<1>8. q.num_output_placeholders <= Len(Prompt[r])
  <2> DEFINE n == Len(batch_queue)
             o == q.num_output_placeholders
             l == Len(Prompt[r])
  <2>1. n \in Nat /\ IsSeq(batch_queue)
    BY DEF IInv, BatchesOK, IsSeq
  <2>2. n < BatchQueueSize
    BY <1>1 DEF InFlightInv, Batches
  <2>3. o = Cardinality(Pending(batch_queue, r))
    BY <1>3, <1>4 DEF InFlightInv, Progress
  <2>4. o <= n
    BY <2>1, <2>3, PendingFinite
  <2>5. l \in Nat /\ BatchQueueSize <= l + 1 /\ BatchQueueSize \in Nat /\ o \in Nat
    BY <1>3, PromptFacts, EngineAssumption
  <2> HIDE DEF n, o, l
  <2>6. o <= l
    BY <2>1, <2>2, <2>4, <2>5
  <2> QED BY <2>6 DEF o, l
<1> HIDE DEF ids, index
<1>9. Matches(OutputOf(x), x, q, requests'[r])
  BY <1>3, <1>6, <1>7, OutputMatches
<1>10. Recoverable(OutputOf(x), prev_step_scheduled_req_ids)
  BY <1>3, <1>4, <1>8, OutputRecoverable
<1> QED BY <1>3, <1>9, <1>10

(***************************************************************************)
(* The end of schedule() and the submission of the batch keep the third    *)
(* invariant.                                                              *)
(***************************************************************************)
LEMMA SubmitInFlight ==
    ASSUME IInv, InFlightInv, Sound, AsyncScheduling, Submit,
           \A r \in Request : BatchQueueSize <= Len(Prompt[r]) + 1
    PROVE  InFlightInv'
<1> DEFINE s == step.scheduled
           ids == {s[i].id : i \in DOMAIN s}
           n == Len(batch_queue)
           batch == [out |-> SchedulerOutput, done |-> FALSE, sampled |-> <<>>, reads_ok |-> TRUE]
<1>1. /\ phase = "schedule" /\ phase' \in {"input", "output"}
      /\ phase' = "input" => n + 1 < BatchQueueSize
      /\ batch_queue' = Append(batch_queue, batch)
      /\ \A r \in Request : r \notin ids => requests'[r] = requests[r]
      /\ prev_step_scheduled_req_ids' = ids /\ finished_req_ids' = {} /\ step' = NoStep
      /\ runner_requests' = runner_requests /\ input_batch' = input_batch
  BY DEF Submit, schedule_end, runnerVars
<1>2. /\ DOMAIN batch.out.reqs = DOMAIN s /\ \A j \in DOMAIN s : batch.out.reqs[j] = OutputOf(s[j])
      /\ batch.done = FALSE /\ batch.out.finished_req_ids = finished_req_ids
  BY DEF SchedulerOutput
<1> HIDE DEF batch
<1>3. \A j \in DOMAIN s :
         /\ s[j].id \in Request /\ requests[s[j].id].status = "RUNNING"
         /\ Matches(batch.out.reqs[j], s[j], requests[s[j].id], requests'[s[j].id])
         /\ Recoverable(batch.out.reqs[j], prev_step_scheduled_req_ids)
  BY <1>2, SubmitMatches
<1>4. /\ IsSeq(batch_queue) /\ n \in Nat /\ n < BatchQueueSize
      /\ BatchesOf(batch_queue, input_batch, prev_step_scheduled_req_ids)
      /\ Once(step)
  BY <1>1 DEF IInv, BatchesOK, IsSeq, InFlightInv, Batches, Sound, Entries, EntriesOf
<1>5. \A j \in DOMAIN s : batch.out.reqs[j].id = s[j].id /\ IsOutput(batch.out.reqs[j])
                          /\ batch.out.reqs[j].kind = s[j].kind
  BY <1>3 DEF Matches
<1>6. /\ \A r : Has(batch, r) <=> r \in ids
      /\ ScheduledIds(batch.out) = ids
      /\ \A r : Brings(batch, r) <=> \E j \in DOMAIN s : s[j].id = r /\ Samples(batch.out.reqs[j])
  BY <1>2, <1>5 DEF Has, ScheduledIds, Brings
<1>7. \A r \in Request : requests[r].status \in Alive => r \notin finished_req_ids
  BY DEF InFlightInv, Progress
<1>8. BatchOK(batch)
  <2>1. \A j \in DOMAIN s : s[j].id \notin finished_req_ids
    BY <1>3, <1>7 DEF Alive
  <2> QED BY <1>2, <1>4, <1>5, <2>1 DEF BatchOK, Once
<1>9. Len(batch_queue') = n + 1 /\ DOMAIN batch_queue' = 1 .. (n + 1) /\ batch_queue'[n + 1] = batch
      /\ DOMAIN batch_queue = 1 .. n /\ \A i \in DOMAIN batch_queue : batch_queue'[i] = batch_queue[i]
  BY <1>1, <1>4, SeqAppend
<1>10. Batches'
  <2>1. BatchesOf(batch_queue', input_batch, ids)
    <3>1. \A k \in DOMAIN batch.out.reqs :
             Recoverable(batch.out.reqs[k], prev_step_scheduled_req_ids)
      BY <1>2, <1>3
    <3> HIDE DEF ids
    <3>2. BatchesOf(Append(batch_queue, batch), input_batch, ScheduledIds(batch.out))
      BY <1>2, <1>4, <1>8, <3>1, AppendBatches
    <3> QED BY <1>1, <1>6, <3>2
  <2> HIDE DEF n, ids
  <2>2. Len(batch_queue') <= BatchQueueSize
    BY <1>4, <1>9, EngineAssumption
  <2> QED BY <1>1, <1>9, <2>1, <2>2 DEF Batches
<1>11. Worker' /\ Kinds'
  <2>1. DOMAIN NoStep.scheduled = {} /\ NoStep.loop = "none"
    BY DEF NoStep
  <2> QED BY <1>1, <2>1 DEF InFlightInv, Worker, Kinds
<1>12. \A r : ~IsNew(NoStep, r)
  <2>1. DOMAIN NoStep.scheduled = {}
    BY DEF NoStep
  <2> QED BY <2>1 DEF IsNew
<1>13. \A r \in Request : requests'[r].status = requests[r].status
                          /\ requests'[r].tokens = requests[r].tokens
                          /\ requests'[r].discard_latest_async_tokens
                               = requests[r].discard_latest_async_tokens
  BY <1>1, <1>3 DEF Matches
<1>14. \A r \in Request : r \notin ids =>
          (Started(requests', step', r) <=> Started(requests, step, r))
  BY <1>1, <1>12, <1>13 DEF Started, IsNew
<1>15. \A r \in Request : r \in ids =>
          /\ requests[r].status = "RUNNING" /\ Started(requests', step', r)
          /\ \E j \in DOMAIN s : s[j].id = r
  BY <1>1, <1>3, <1>12, <1>13 DEF Started
<1> HIDE DEF ids
<1>16. ASSUME NEW r \in Request, requests[r].status \in Alive
       PROVE  requests'[r].num_output_placeholders = Cardinality(Pending(batch_queue', r))
  <2>1. requests[r].num_output_placeholders = Cardinality(Pending(batch_queue, r))
    BY <1>16 DEF InFlightInv, Progress
  <2>2. /\ ~Brings(batch, r) => Pending(batch_queue', r) = Pending(batch_queue, r)
        /\ Brings(batch, r) => Cardinality(Pending(batch_queue', r))
                                   = Cardinality(Pending(batch_queue, r)) + 1
    BY <1>1, <1>4, AppendPending
  <2>3. CASE r \notin ids
    <3>1. ~Brings(batch, r)
      BY <1>6, <2>3 DEF ids
    <3> QED BY <1>1, <2>1, <2>2, <2>3, <3>1
  <2>4. CASE r \in ids
    <3>1. PICK j \in DOMAIN s : s[j].id = r
      BY <1>15, <2>4
    <3>2. Brings(batch, r) <=> Samples(batch.out.reqs[j])
      BY <1>4, <1>6, <3>1 DEF Once
    <3>3. /\ Samples(batch.out.reqs[j]) =>
               requests'[r].num_output_placeholders = requests[r].num_output_placeholders + 1
          /\ ~Samples(batch.out.reqs[j]) =>
               requests'[r].num_output_placeholders = requests[r].num_output_placeholders
      BY <1>3, <3>1 DEF Matches
    <3> QED BY <2>1, <2>2, <3>2, <3>3
  <2> QED BY <2>3, <2>4
<1>17. ASSUME NEW r \in Request
       PROVE  requests'[r].num_output_placeholders <= BatchQueueSize
  <2>1. CASE requests[r].status \in Alive
    <3> DEFINE o == requests'[r].num_output_placeholders
    <3>1. IsSeq(batch_queue')
      BY <1>1, <1>4, SeqAppend
    <3>2. Cardinality(Pending(batch_queue', r)) \in Nat
          /\ Cardinality(Pending(batch_queue', r)) <= Len(batch_queue')
      BY <3>1, PendingFinite
    <3>3. o = Cardinality(Pending(batch_queue', r))
      BY <1>16, <2>1
    <3>4. o \in Nat /\ o <= n + 1
      BY <1>9, <3>2, <3>3
    <3> HIDE DEF o, n
    <3>5. o <= BatchQueueSize
      BY <1>4, <3>4, EngineAssumption
    <3> QED BY <3>5 DEF o
  <2>2. CASE requests[r].status \notin Alive
    <3>1. r \notin ids
      BY <1>15, <2>2 DEF Alive
    <3>2. requests'[r] = requests[r]
      BY <1>1, <3>1
    <3> QED BY <3>2 DEF InFlightInv, Progress
  <2> QED BY <2>1, <2>2
<1>18. ASSUME NEW r \in Request, requests[r].status \in Alive, ~Started(requests', step', r)
       PROVE  Unstarted(requests'[r], batch_queue', r)
  <2>1. r \notin ids
    BY <1>15, <1>18
  <2>2. Unstarted(requests[r], batch_queue, r) /\ requests'[r] = requests[r]
    BY <1>1, <1>14, <1>18, <2>1 DEF InFlightInv, Progress
  <2>3. \A i \in DOMAIN batch_queue' : i \in DOMAIN batch_queue \/ i = n + 1
    <3> HIDE DEF n
    <3> QED BY <1>4, <1>9
  <2>4. ~Has(batch, r)
    BY <1>6, <2>1
  <2> QED BY <1>9, <2>2, <2>3, <2>4 DEF Unstarted
<1>19. Progress'
  BY <1>1, <1>13, <1>16, <1>17, <1>18 DEF InFlightInv, Progress
<1>20. Tracked'
  <2> SUFFICES ASSUME NEW r \in Request, requests[r].status \in Alive
               PROVE  \E f : /\ Tracks(f, batch_queue', runner_requests, r)
                             /\ Started(requests', step', r) =>
                                   f[Len(batch_queue') + 1] = Known(requests'[r])
    BY <1>1, <1>13 DEF Tracked
  <2>1. PICK f : /\ Tracks(f, batch_queue, runner_requests, r)
                 /\ Started(requests, step, r) => f[n + 1] = Known(requests[r])
    BY DEF InFlightInv, Tracked
  <2>2. r \notin finished_req_ids
    BY <1>7
  <2> DEFINE x == IF r \in ids THEN Known(requests'[r]) ELSE f[n + 1]
  <2>3. ASSUME NEW j \in DOMAIN s, s[j].id = r
        PROVE  /\ Base(batch.out.reqs[j]) = IF batch.out.reqs[j].kind = "new" THEN Len(Prompt[r])
                                            ELSE f[n + 1]
               /\ x = Left(batch.out.reqs[j])
    <3>1. Base(batch.out.reqs[j]) = Known(requests[r]) /\ Left(batch.out.reqs[j]) = Known(requests'[r])
      BY <1>3, <2>3 DEF Matches
    <3>2. r \in ids
      BY <2>3 DEF ids
    <3>3. CASE s[j].kind = "new"
      <4>1. ~Started(requests, step, r)
        BY <2>3, <3>3 DEF Started, IsNew
      <4>2. Unstarted(requests[r], batch_queue, r)
        BY <4>1 DEF InFlightInv, Progress
      <4>3. Len(Prompt[r]) \in Nat
        BY PromptFacts
      <4>4. Known(requests[r]) = Len(Prompt[r])
        BY <4>2, <4>3 DEF Known, Unstarted
      <4> QED BY <1>5, <2>3, <3>1, <3>2, <3>3, <4>4
    <3>4. CASE s[j].kind # "new"
      <4>1. ~IsNew(step, r)
        BY <1>4, <2>3, <3>4 DEF IsNew, Once
      <4>2. Started(requests, step, r)
        BY <1>3, <2>3, <4>1 DEF Started
      <4> QED BY <1>5, <2>1, <2>3, <3>1, <3>2, <3>4, <4>2
    <3> QED BY <3>3, <3>4
  <2>4. ~Has(batch, r) => x = f[n + 1]
    BY <1>6
  <2> HIDE DEF x
  <2>5. Reaching(Append(batch_queue, batch), runner_requests, r, x)
    <3>1. Leads(batch, r, f[n + 1], x)
      BY <1>2, <1>5, <2>2, <2>3, <2>4 DEF Leads
    <3>2. batch.done = FALSE /\ IsSeq(batch_queue) /\ Tracks(f, batch_queue, runner_requests, r)
      BY <1>2, <1>4, <2>1
    <3>3. Leads(batch, r, f[Len(batch_queue) + 1], x)
      BY <3>1
    <3> HIDE DEF n
    <3> QED BY <3>2, <3>3, AppendTracks
  <2>6. Started(requests', step', r) => x = Known(requests'[r])
    <3>1. CASE r \in ids
      BY <3>1 DEF x
    <3>2. CASE r \notin ids
      BY <1>1, <1>14, <2>1, <3>2 DEF x
    <3> QED BY <3>1, <3>2
  <2>7. Reaching(batch_queue', runner_requests, r, x)
    BY <1>1, <2>5
  <2> QED BY <2>6, <2>7 DEF Reaching
<1> QED BY <1>10, <1>11, <1>19, <1>20 DEF InFlightInv

-----------------------------------------------------------------------------
(* The worker executes a batch *)

\* The worker comes from queue to later by its batch i, the first to execute.
Runs(queue, later, i) ==
    /\ i \in DOMAIN queue /\ ~queue[i].done /\ \A j \in 1 .. (i - 1) : queue[j].done
    /\ DOMAIN later = DOMAIN queue /\ Len(later) = Len(queue)
    /\ \A j \in DOMAIN queue : j # i => later[j] = queue[j]
    /\ later[i].out = queue[i].out /\ later[i].done = TRUE

(***************************************************************************)
(* The batches after the one that was executed are to execute.             *)
(***************************************************************************)
LEMMA RunsOrder ==
    ASSUME NEW queue, IsSeq(queue), NEW ids, NEW previous, BatchesOf(queue, ids, previous),
           NEW later, NEW i, Runs(queue, later, i)
    PROVE  /\ i \in Nat /\ i > 0 /\ i <= Len(queue) /\ Len(queue) \in Nat
           /\ DOMAIN queue = 1 .. Len(queue)
           /\ \A j \in DOMAIN queue : j > i => ~queue[j].done /\ ~later[j].done
           /\ \A j \in DOMAIN queue : j <= i => later[j].done
           /\ \A j \in 1 .. (Len(queue) + 1) :
                 (\A l \in 1 .. (j - 1) : later[l].done) <=> j <= i + 1
<1> DEFINE n == Len(queue)
<1>1. n \in Nat /\ DOMAIN queue = 1 .. n
  BY DEF IsSeq
<1>2. /\ i \in DOMAIN queue /\ ~queue[i].done /\ \A j \in 1 .. (i - 1) : queue[j].done
      /\ \A j \in DOMAIN queue : j # i => later[j] = queue[j]
      /\ later[i].done = TRUE
  BY DEF Runs
<1>3. \A j \in DOMAIN queue : queue[j].done => \A l \in 1 .. (j - 1) : queue[l].done
  BY DEF BatchesOf
<1> HIDE DEF n
<1>4. i \in Nat /\ i > 0 /\ i <= n
  BY <1>1, <1>2
<1>5. ASSUME NEW j \in DOMAIN queue, j > i
      PROVE  ~queue[j].done /\ ~later[j].done
  <2>1. i \in 1 .. (j - 1) /\ j # i
    BY <1>1, <1>4, <1>5
  <2> QED BY <1>2, <1>3, <1>5, <2>1
<1>6. ASSUME NEW j \in DOMAIN queue, j <= i
      PROVE  later[j].done
  <2>1. j = i \/ (j \in 1 .. (i - 1) /\ j # i)
    BY <1>1, <1>4, <1>6
  <2> QED BY <1>2, <1>6, <2>1
<1>7. ASSUME NEW j \in 1 .. (n + 1)
      PROVE  (\A l \in 1 .. (j - 1) : later[l].done) <=> j <= i + 1
  <2>1. ASSUME j <= i + 1, NEW l \in 1 .. (j - 1)
        PROVE  later[l].done
    <3>1. l \in DOMAIN queue /\ l <= i
      BY <1>1, <1>4, <1>7, <2>1
    <3> QED BY <1>6, <3>1
  <2>2. ASSUME ~(j <= i + 1)
        PROVE  \E l \in 1 .. (j - 1) : ~later[l].done
    <3>1. i + 1 \in 1 .. (j - 1) /\ i + 1 \in DOMAIN queue /\ i + 1 > i
      BY <1>1, <1>4, <1>7, <2>2
    <3> QED BY <1>5, <3>1
  <2> QED BY <2>1, <2>2
<1> QED BY <1>1, <1>4, <1>5, <1>6, <1>7 DEF n

(***************************************************************************)
(* The batches are as they should be when the worker has executed one.     *)
(***************************************************************************)
LEMMA RunsBatches ==
    ASSUME NEW queue, IsSeq(queue), NEW ids, NEW previous, BatchesOf(queue, ids, previous),
           NEW later, NEW i, Runs(queue, later, i)
    PROVE  BatchesOf(later, ScheduledIds(queue[i].out), previous)
<1> DEFINE n == Len(queue)
           now == ScheduledIds(queue[i].out)
<1>1. /\ i \in Nat /\ i > 0 /\ i <= n /\ n \in Nat /\ DOMAIN queue = 1 .. n
      /\ \A j \in DOMAIN queue : j > i => ~queue[j].done /\ ~later[j].done
      /\ \A j \in DOMAIN queue : j <= i => later[j].done
      /\ \A j \in 1 .. (n + 1) : (\A l \in 1 .. (j - 1) : later[l].done) <=> j <= i + 1
  BY RunsOrder
<1>2. /\ i \in DOMAIN queue /\ ~queue[i].done
      /\ DOMAIN later = DOMAIN queue /\ Len(later) = n
      /\ \A j \in DOMAIN queue : j # i => later[j] = queue[j]
      /\ later[i].out = queue[i].out /\ later[i].done = TRUE
  BY DEF Runs
<1>3. /\ previous = IdsBefore(queue, ids, n + 1)
      /\ \A j \in DOMAIN queue :
          /\ BatchOK(queue[j])
          /\ queue[j].done \in BOOLEAN
          /\ ~queue[j].done =>
                \A k \in DOMAIN queue[j].out.reqs :
                   Recoverable(queue[j].out.reqs[k], IdsBefore(queue, ids, j))
  BY DEF BatchesOf
<1> HIDE DEF n, now
<1>4. ASSUME NEW j \in 1 .. (n + 1), j > i
      PROVE  IdsBefore(later, now, j) = IdsBefore(queue, ids, j)
  <2>1. j - 1 \in DOMAIN queue /\ i \in 1 .. (j - 1)
    BY <1>1, <1>4
  <2>2. later[j - 1].out = queue[j - 1].out
    BY <1>2, <2>1
  <2>3. IdsBefore(queue, ids, j) = ScheduledIds(queue[j - 1].out)
    BY <1>2, <2>1 DEF IdsBefore
  <2>4. CASE j <= i + 1
    <3>1. j - 1 = i
      BY <1>1, <1>4, <2>4
    <3>2. IdsBefore(later, now, j) = now
      BY <1>1, <2>4 DEF IdsBefore
    <3> QED BY <2>3, <3>1, <3>2 DEF now
  <2>5. CASE ~(j <= i + 1)
    <3>1. IdsBefore(later, now, j) = ScheduledIds(later[j - 1].out)
      BY <1>1, <2>5 DEF IdsBefore
    <3> QED BY <2>2, <2>3, <3>1
  <2> QED BY <2>4, <2>5
<1>5. previous = IdsBefore(later, now, Len(later) + 1)
  <2>1. n + 1 \in 1 .. (n + 1) /\ n + 1 > i
    BY <1>1
  <2> QED BY <1>2, <1>3, <1>4, <2>1
<1>6. BatchOK(later[i])
  BY <1>2, <1>3 DEF BatchOK
<1>7. ASSUME NEW j \in DOMAIN later
      PROVE  /\ BatchOK(later[j])
             /\ later[j].done \in BOOLEAN
             /\ later[j].done => \A l \in 1 .. (j - 1) : later[l].done
             /\ ~later[j].done =>
                   \A k \in DOMAIN later[j].out.reqs :
                      Recoverable(later[j].out.reqs[k], IdsBefore(later, now, j))
  <2>1. j \in DOMAIN queue /\ j \in 1 .. (n + 1)
    BY <1>1, <1>2, <1>7
  <2>2. CASE j <= i
    <3>1. later[j].done /\ j <= i + 1
      BY <1>1, <2>1, <2>2
    <3>2. \A l \in 1 .. (j - 1) : later[l].done
      BY <1>1, <2>1, <3>1
    <3>3. BatchOK(later[j]) /\ later[j].done \in BOOLEAN
      BY <1>2, <1>3, <1>6, <2>1
    <3> QED BY <3>1, <3>2, <3>3
  <2>3. CASE ~(j <= i)
    <3>1. j > i /\ j # i
      BY <1>1, <2>1, <2>3
    <3>2. later[j] = queue[j] /\ ~later[j].done
      BY <1>1, <1>2, <2>1, <3>1
    <3>3. IdsBefore(later, now, j) = IdsBefore(queue, ids, j)
      BY <1>4, <2>1, <3>1
    <3> QED BY <1>3, <2>1, <3>2, <3>3
  <2> QED BY <2>2, <2>3
<1> QED BY <1>5, <1>7 DEF BatchesOf, now

(***************************************************************************)
(* The worker's tokens of r are tracked once it has executed a batch.      *)
(***************************************************************************)
LEMMA RunsTracks ==
    ASSUME NEW queue, IsSeq(queue), NEW ids, NEW previous, BatchesOf(queue, ids, previous),
           NEW later, NEW i, Runs(queue, later, i), NEW runner, NEW r, NEW f,
           Tracks(f, queue, runner, r), NEW new, Len(new[r].tokens) = f[i + 1]
    PROVE  Reaching(later, new, r, f[Len(queue) + 1])
<1> DEFINE n == Len(queue)
           x == Len(new[r].tokens)
           g == [j \in 1 .. (n + 1) |-> IF j <= i THEN x ELSE f[j]]
<1>1. /\ i \in Nat /\ i > 0 /\ i <= n /\ n \in Nat /\ DOMAIN queue = 1 .. n
      /\ \A j \in DOMAIN queue : j <= i => later[j].done
      /\ \A j \in 1 .. (n + 1) : (\A l \in 1 .. (j - 1) : later[l].done) <=> j <= i + 1
  BY RunsOrder
<1>2. /\ DOMAIN later = DOMAIN queue /\ Len(later) = n
      /\ \A j \in DOMAIN queue : j # i => later[j] = queue[j]
  BY DEF Runs
<1>3. x = f[i + 1]
  OBVIOUS
<1>4. \A j \in DOMAIN queue : ~queue[j].done =>
          /\ ~Has(queue[j], r) =>
                f[j + 1] = IF r \in queue[j].out.finished_req_ids THEN 0 ELSE f[j]
          /\ \A k \in DOMAIN queue[j].out.reqs :
                LET e == queue[j].out.reqs[k]
                IN e.id = r => /\ Base(e) = IF e.kind = "new" THEN Len(Prompt[r]) ELSE f[j]
                               /\ f[j + 1] = Left(e)
  BY DEF Tracks
<1> HIDE DEF n, x
<1>5. /\ DOMAIN g = 1 .. (n + 1)
      /\ \A j \in 1 .. (n + 1) : j <= i => g[j] = x
      /\ \A j \in 1 .. (n + 1) : ~(j <= i) => g[j] = f[j]
  OBVIOUS
<1> HIDE DEF g
<1>6. ASSUME NEW j \in 1 .. (n + 1), j <= i + 1
      PROVE  g[j] = x
  <2>1. j <= i \/ (~(j <= i) /\ j = i + 1)
    BY <1>1, <1>6
  <2> QED BY <1>3, <1>5, <2>1
<1>7. \A j \in DOMAIN g : (\A l \in 1 .. (j - 1) : later[l].done) => g[j] = Len(new[r].tokens)
  BY <1>1, <1>5, <1>6 DEF x
<1>8. ASSUME NEW j \in DOMAIN later, ~later[j].done
      PROVE  /\ ~Has(later[j], r) =>
                   g[j + 1] = IF r \in later[j].out.finished_req_ids THEN 0 ELSE g[j]
             /\ \A k \in DOMAIN later[j].out.reqs :
                   LET e == later[j].out.reqs[k]
                   IN e.id = r => /\ Base(e) = IF e.kind = "new" THEN Len(Prompt[r]) ELSE g[j]
                                  /\ g[j + 1] = Left(e)
  <2>1. j \in DOMAIN queue /\ ~(j <= i)
    BY <1>1, <1>2, <1>8
  <2>2. /\ j # i /\ j \in 1 .. (n + 1) /\ j + 1 \in 1 .. (n + 1)
        /\ ~(j + 1 <= i)
    BY <1>1, <2>1
  <2>3. later[j] = queue[j] /\ g[j] = f[j] /\ g[j + 1] = f[j + 1]
    BY <1>2, <1>5, <2>1, <2>2
  <2> QED BY <1>4, <1>8, <2>1, <2>3
<1>9. Tracks(g, later, new, r)
  BY <1>2, <1>5, <1>7, <1>8 DEF Tracks
<1>10. g[Len(later) + 1] = f[n + 1]
  <2>1. n + 1 \in 1 .. (n + 1) /\ ~(n + 1 <= i)
    BY <1>1
  <2> QED BY <1>2, <1>5, <2>1
<1> QED BY <1>9, <1>10 DEF Reaching, n

(***************************************************************************)
(* A slice of a sequence.                                                  *)
(***************************************************************************)
LEMMA SliceFacts ==
    ASSUME NEW s, IsSeq(s), NEW a \in Nat, NEW b \in Nat, a >= 1, b <= Len(s), a <= b + 1
    PROVE  IsSeq(SubSeq(s, a, b)) /\ Len(SubSeq(s, a, b)) = (b - a) + 1
<1>1. s \in Seq(Range(s)) /\ Len(s) \in Nat /\ DOMAIN s = 1 .. Len(s)
  BY DEF IsSeq
<1>2. \A i \in a .. b : i \in 1 .. Len(s)
  BY <1>1
<1>3. SubSeq(s, a, b) \in Seq(Range(s)) /\ Len(SubSeq(s, a, b)) = (b - a) + 1
  BY <1>1, <1>2
<1> QED BY <1>3, SeqIs

(***************************************************************************)
(* Two sequences in a row.                                                 *)
(***************************************************************************)
LEMMA TokensConcat ==
    ASSUME NEW s, IsSeq(s), NEW t, IsSeq(t)
    PROVE  IsSeq(s \o t) /\ Len(s \o t) = Len(s) + Len(t) /\ Len(s) \in Nat /\ Len(t) \in Nat
<1> DEFINE T == Range(s) \cup Range(t)
<1>1. s \in Seq(T) /\ t \in Seq(T)
  BY DEF IsSeq, Range
<1> HIDE DEF T
<1>2. s \o t \in Seq(T) /\ Len(s \o t) = Len(s) + Len(t) /\ Len(s) \in Nat /\ Len(t) \in Nat
  BY <1>1
<1> QED BY <1>2, SeqIs

(***************************************************************************)
(* The last tokens of a sequence are as many as asked for, if there are so *)
(* many.                                                                   *)
(***************************************************************************)
LEMMA LastTokensFacts ==
    ASSUME NEW s, IsSeq(s), NEW k \in Nat
    PROVE  IsSeq(LastTokens(s, k)) /\ (Len(s) >= k => Len(LastTokens(s, k)) = k)
<1> DEFINE n == Len(s)
           a == IF k < n THEN (n - k) + 1 ELSE 1
<1>1. n \in Nat
  BY DEF IsSeq
<1>2. LastTokens(s, k) = SubSeq(s, a, n)
  BY DEF LastTokens
<1> HIDE DEF n
<1>3. a \in Nat /\ a >= 1 /\ a <= n + 1 /\ (n >= k => (n - a) + 1 = k)
  BY <1>1
<1> HIDE DEF a
<1>4. n <= Len(s)
  BY <1>1 DEF n
<1>5. IsSeq(SubSeq(s, a, n)) /\ Len(SubSeq(s, a, n)) = (n - a) + 1
  BY <1>1, <1>3, <1>4, SliceFacts
<1> QED BY <1>2, <1>3, <1>5 DEF n

(***************************************************************************)
(* _update_states leaves a request with a sequence of tokens, and with as  *)
(* many as the scheduler counts on.                                        *)
(***************************************************************************)
LEMMA UpdatedFacts ==
    ASSUME Worker, NEW out, NEW k \in DOMAIN out.reqs, NEW e, e = out.reqs[k],
           e.id \in Request, IsOutput(e), e.id \notin out.finished_req_ids
    PROVE  /\ IsSeq(UpdatedState(out, e).tokens)
           /\ (/\ AsyncScheduling /\ Recoverable(e, input_batch)
               /\ Base(e) = IF e.kind = "new" THEN Len(Prompt[e.id])
                            ELSE Len(runner_requests[e.id].tokens))
              => Len(UpdatedState(out, e).tokens) = Base(e)
<1> DEFINE r == e.id
           p == PromptTokens(r)
           w == e.num_output_tokens
           u == runner_requests[r].tokens
           h == Len(u)
           l == Len(Prompt[r])
           y == LesserOf(h, l + w)
           kept == SubSeq(u, 1, y)
           t == UpdatedState(out, e).tokens
           all == e.all_token_ids
<1>1. /\ IsSeq(p) /\ Len(p) = l /\ l \in Nat /\ w \in Nat /\ IsSeq(u) /\ h \in Nat /\ IsSeq(all)
      /\ Base(e) = l + w
  BY PromptFacts DEF IsOutput, Worker, IsSeq, Base
<1>2. CASE e.kind = "new"
  <2>1. t = p
    BY <1>2 DEF UpdatedState, NewState
  <2> QED BY <1>1, <1>2, <2>1
<1>3. CASE e.kind # "new" /\ Recovers(out, e)
  <2>1. t = p \o LastTokens(all, w)
    BY <1>3 DEF UpdatedState, CachedState
  <2>2. IsSeq(LastTokens(all, w)) /\ (Len(all) >= w => Len(LastTokens(all, w)) = w)
    BY <1>1, LastTokensFacts
  <2>3. Recoverable(e, input_batch) => Len(all) >= w
    <3>1. r \notin StillInBatch(out)
      BY <1>3 DEF Recovers
    <3>2. ~(e.kind = "running" /\ r \in input_batch)
      BY <3>1 DEF StillInBatch
    <3> QED BY <1>3, <3>2 DEF Recoverable
  <2> HIDE DEF t, p, w, all, l
  <2>4. IsSeq(t) /\ Len(t) = Len(p) + Len(LastTokens(all, w))
    BY <1>1, <2>1, <2>2, TokensConcat
  <2>5. Recoverable(e, input_batch) => Len(t) = Base(e)
    BY <1>1, <2>2, <2>3, <2>4
  <2> QED BY <2>4, <2>5 DEF t
<1>4. CASE e.kind # "new" /\ ~Recovers(out, e)
  <2>1. t = SubSeq(u, 1, LesserOf(h, Len(p) + w))
    BY <1>4 DEF UpdatedState, CachedState
  <2>2. t = kept
    BY <1>1, <2>1
  <2> HIDE DEF t, u, h, l, w
  <2>3. y \in Nat /\ y <= h /\ (l + w = h => y = l + w)
    BY <1>1 DEF LesserOf
  <2> HIDE DEF y
  <2>4. y <= Len(u) /\ 1 <= y + 1
    BY <2>3 DEF h
  <2>5. IsSeq(kept) /\ Len(kept) = (y - 1) + 1
    BY <1>1, <2>3, <2>4, SliceFacts
  <2>6. IsSeq(t) /\ Len(t) = y
    BY <2>2, <2>3, <2>5
  <2> QED BY <1>1, <1>4, <2>3, <2>6 DEF t, h, u
<1> QED BY <1>2, <1>3, <1>4

(***************************************************************************)
(* execute_model and sample_tokens for one entry: the tokens stay a        *)
(* sequence; a request with the tokens the scheduler counts on is sampled  *)
(* when the scheduler expects it.                                          *)
(***************************************************************************)
LEMMA SampledFacts ==
    ASSUME Worker, NEW out, NEW k \in DOMAIN out.reqs, NEW e, e = out.reqs[k],
           e.id \in Request, IsOutput(e), e.id \notin out.finished_req_ids, NEW value
    PROVE  /\ IsSeq(AfterSampling(out, e, value).tokens)
           /\ (/\ AsyncScheduling /\ Recoverable(e, input_batch)
               /\ Base(e) = IF e.kind = "new" THEN Len(Prompt[e.id])
                            ELSE Len(runner_requests[e.id].tokens))
              => /\ Len(AfterSampling(out, e, value).tokens) = Left(e)
                 /\ Samples(e) <=> SampledToken(out, e, value) # <<>>
<1> DEFINE state == UpdatedState(out, e)
           u == state.tokens
           t == SampledToken(out, e, value)
           v == <<SeqLen(e) + 1, value[e.id]>>
           all == u \o t
           unsynced == IF AsyncScheduling THEN state.unsynced \cup (DOMAIN all \ DOMAIN u)
                       ELSE state.unsynced
           known == /\ AsyncScheduling /\ Recoverable(e, input_batch)
                    /\ Base(e) = IF e.kind = "new" THEN Len(Prompt[e.id])
                                 ELSE Len(runner_requests[e.id].tokens)
<1>1. IsSeq(u) /\ (known => Len(u) = Base(e))
  BY UpdatedFacts
<1>2. AfterSampling(out, e, value).tokens = all
  <2>1. AfterSampling(out, e, value) = [state EXCEPT !.tokens = all, !.unsynced = unsynced]
    BY DEF AfterSampling
  <2>2. DOMAIN state = {"tokens", "blocks", "unsynced"}
    BY DEF UpdatedState, NewState, CachedState
  <2> HIDE DEF state, all, unsynced
  <2> QED BY <2>1, <2>2
<1>3. t = IF SeqLen(e) < Len(u) THEN <<>> ELSE <<v>>
  BY DEF SampledToken, Discarded
<1>4. SeqLen(e) \in Int /\ Base(e) \in Nat
  BY PromptFacts DEF IsOutput, SeqLen, Base
<1> HIDE DEF u, t, v, known
<1>5. IsSeq(<<>>) /\ IsSeq(<<v>>) /\ Len(<<>>) = 0 /\ Len(<<v>>) = 1 /\ <<v>> # <<>>
  <2>1. <<>> \in Seq({v}) /\ <<v>> \in Seq({v})
    OBVIOUS
  <2>2. IsSeq(<<>>) /\ IsSeq(<<v>>)
    BY <2>1, SeqIs
  <2> QED BY <2>2
<1>6. IsSeq(t)
  BY <1>3, <1>5
<1>7. IsSeq(all) /\ Len(all) = Len(u) + Len(t)
  BY <1>1, <1>6, TokensConcat
<1> HIDE DEF all
<1>8. ASSUME known
      PROVE  Len(all) = Left(e) /\ (Samples(e) <=> t # <<>>)
  <2> DEFINE c == SeqLen(e)
             b == Base(e)
  <2> HIDE DEF c, b
  <2>1. c \in Int /\ b \in Nat /\ Len(u) = b
    BY <1>1, <1>4, <1>8 DEF c, b
  <2>2. t = IF c < b THEN <<>> ELSE <<v>>
    BY <1>3, <2>1 DEF c
  <2>3. Samples(e) <=> ~(c < b)
    BY <2>1 DEF Samples, c, b
  <2>4. Left(e) = IF c < b THEN b ELSE b + 1
    BY <2>3 DEF Left, b
  <2>5. CASE c < b
    BY <1>5, <1>7, <2>1, <2>2, <2>3, <2>4, <2>5
  <2>6. CASE ~(c < b)
    BY <1>5, <1>7, <2>1, <2>2, <2>3, <2>4, <2>6
  <2> QED BY <2>5, <2>6
<1> QED BY <1>2, <1>7, <1>8 DEF t, known

\* The worker comes from queue to later by a batch that has a token for r if the
\* scheduler expects one, the one after those it computed.
Delivers(queue, later, r) ==
    \E i : /\ Runs(queue, later, i)
           /\ \A k \in DOMAIN queue[i].out.reqs :
                 LET e == queue[i].out.reqs[k]
                 IN e.id = r => /\ Samples(e) <=> later[i].sampled[k] # <<>>
                                /\ later[i].sampled[k] # <<>> =>
                                      later[i].sampled[k][1][1] = SeqLen(e) + 1

(***************************************************************************)
(* The worker finishing a batch keeps the third invariant: it samples a    *)
(* token for exactly the requests that the scheduler gave a placeholder.   *)
(***************************************************************************)
LEMMA ExecuteInFlight ==
    ASSUME IInv, InFlightInv, AsyncScheduling, Execute
    PROVE  /\ InFlightInv' /\ requests' = requests
           /\ \A r \in Request : requests[r].status \in Alive => Delivers(batch_queue, batch_queue', r)
<1>1. PICK i \in DOMAIN batch_queue :
        /\ ~batch_queue[i].done /\ \A j \in 1 .. (i - 1) : batch_queue[j].done
        /\ \E value \in [ScheduledIds(batch_queue[i].out) -> SampledValues] :
             /\ execute_model(batch_queue[i].out, value)
             /\ batch_queue' =
                  [batch_queue EXCEPT
                     ![i].done = TRUE,
                     ![i].sampled = [k \in DOMAIN batch_queue[i].out.reqs |->
                                       SampledToken(batch_queue[i].out, batch_queue[i].out.reqs[k], value)],
                     ![i].reads_ok = ReadsOwnPrefix(batch_queue[i].out)]
        /\ UNCHANGED <<schedulerVars, phase, resets>>
  BY DEF Execute
<1> DEFINE b == batch_queue[i]
           out == b.out
           reqs == out.reqs
           n == Len(batch_queue)
<1>2. PICK value :
        /\ execute_model(out, value)
        /\ batch_queue' =
             [batch_queue EXCEPT
                ![i].done = TRUE,
                ![i].sampled = [k \in DOMAIN reqs |-> SampledToken(out, reqs[k], value)],
                ![i].reads_ok = ReadsOwnPrefix(out)]
  BY <1>1
<1>3. /\ requests' = requests /\ step' = step /\ phase' = phase
      /\ finished_req_ids' = finished_req_ids
      /\ prev_step_scheduled_req_ids' = prev_step_scheduled_req_ids
      /\ ~b.done /\ \A j \in 1 .. (i - 1) : batch_queue[j].done
  BY <1>1 DEF schedulerVars
<1>4. /\ IsSeq(batch_queue) /\ n \in Nat /\ DOMAIN batch_queue = 1 .. n
      /\ BatchesOf(batch_queue, input_batch, prev_step_scheduled_req_ids)
      /\ IsBatch(b) /\ Worker
  BY DEF IInv, BatchesOK, IsSeq, InFlightInv, Batches
<1> DEFINE c == batch_queue'[i]
           tok(k) == SampledToken(out, reqs[k], value)
           sampled == [k \in DOMAIN reqs |-> tok(k)]
<1>5. /\ DOMAIN batch_queue' = DOMAIN batch_queue
      /\ \A j \in DOMAIN batch_queue : j # i => batch_queue'[j] = batch_queue[j]
      /\ c = [b EXCEPT !.done = TRUE, !.sampled = sampled, !.reads_ok = ReadsOwnPrefix(out)]
  BY <1>2
<1>6. c.out = out /\ c.done = TRUE /\ c.sampled = sampled
  <2> HIDE DEF c, sampled
  <2>1. DOMAIN b = {"out", "done", "sampled", "reads_ok"}
    BY <1>4 DEF IsBatch
  <2> QED BY <1>5, <2>1
<1>7. DOMAIN sampled = DOMAIN reqs /\ \A k \in DOMAIN reqs : sampled[k] = tok(k)
  OBVIOUS
<1> HIDE DEF sampled, tok
<1>8. /\ runner_requests' =
           [r \in Request |->
              IF r \in ScheduledIds(out)
              THEN AfterSampling(out, reqs[CHOOSE k \in DOMAIN reqs : reqs[k].id = r], value)
              ELSE IF r \in out.finished_req_ids THEN NoState
              ELSE runner_requests[r]]
      /\ input_batch' = ScheduledIds(out)
  BY <1>2 DEF execute_model
<1>9. Len(batch_queue') = n
  <2>1. IsSeq(batch_queue')
    BY ExecuteKeeps DEF IInv, BatchesOK
  <2> DEFINE m == Len(batch_queue')
  <2>2. m \in Nat /\ 1 .. m = 1 .. n
    BY <1>4, <1>5, <2>1 DEF IsSeq
  <2> HIDE DEF m, n
  <2>3. m = n
    BY <1>4, <2>2
  <2> QED BY <2>3 DEF m
<1>10. Runs(batch_queue, batch_queue', i)
  BY <1>3, <1>5, <1>6, <1>9 DEF Runs
<1>11. BatchOK(b) /\ \A k \in DOMAIN reqs : Recoverable(reqs[k], input_batch)
  <2>1. IdsBefore(batch_queue, input_batch, i) = input_batch
    BY <1>3 DEF IdsBefore
  <2>2. BatchOK(b)
    BY <1>4 DEF BatchesOf
  <2>3. \A k \in DOMAIN b.out.reqs :
           Recoverable(b.out.reqs[k], IdsBefore(batch_queue, input_batch, i))
    BY <1>3, <1>4 DEF BatchesOf
  <2> QED BY <2>1, <2>2, <2>3
<1>12. /\ \A k, l \in DOMAIN reqs : reqs[k].id = reqs[l].id => k = l
       /\ \A k \in DOMAIN reqs : /\ IsOutput(reqs[k]) /\ reqs[k].id \in Request
                                 /\ reqs[k].id \notin out.finished_req_ids
  BY <1>4, <1>11 DEF BatchOK, IsBatch
<1> HIDE DEF c
<1>13. \A r : /\ r \in ScheduledIds(out) <=> \E k \in DOMAIN reqs : reqs[k].id = r
              /\ Has(b, r) <=> \E k \in DOMAIN reqs : reqs[k].id = r
              /\ Brings(b, r) <=> \E k \in DOMAIN reqs : reqs[k].id = r /\ Samples(reqs[k])
              /\ Has(c, r) <=> \E k \in DOMAIN reqs : reqs[k].id = r
              /\ Brings(c, r) <=> \E k \in DOMAIN reqs : reqs[k].id = r /\ tok(k) # <<>>
  <2>1. \A r : r \in ScheduledIds(out) <=> \E k \in DOMAIN reqs : reqs[k].id = r
    BY DEF ScheduledIds
  <2>2. \A r : /\ Has(b, r) <=> \E k \in DOMAIN reqs : reqs[k].id = r
               /\ Brings(b, r) <=> \E k \in DOMAIN reqs : reqs[k].id = r /\ Samples(reqs[k])
    BY <1>3 DEF Has, Brings
  <2> HIDE DEF out
  <2>3. \A r : /\ Has(c, r) <=> \E k \in DOMAIN reqs : reqs[k].id = r
               /\ Brings(c, r) <=> \E k \in DOMAIN reqs : reqs[k].id = r /\ tok(k) # <<>>
    BY <1>6, <1>7 DEF Has, Brings
  <2> QED BY <2>1, <2>2, <2>3
<1> HIDE DEF out, reqs
<1>14. \A k \in DOMAIN reqs :
          runner_requests'[reqs[k].id] = AfterSampling(out, reqs[k], value)
  <2> SUFFICES ASSUME NEW k \in DOMAIN reqs
               PROVE  runner_requests'[reqs[k].id] = AfterSampling(out, reqs[k], value)
    OBVIOUS
  <2> DEFINE r == reqs[k].id
             l == CHOOSE j \in DOMAIN reqs : reqs[j].id = r
  <2>1. l \in DOMAIN reqs /\ reqs[l].id = r
    OBVIOUS
  <2>2. l = k
    <3> HIDE DEF l
    <3> QED BY <1>12, <2>1
  <2>3. r \in ScheduledIds(out) /\ r \in Request
    BY <1>12, <1>13
  <2>4. runner_requests'[r] = AfterSampling(out, reqs[l], value)
    BY <1>8, <2>3
  <2> QED BY <2>2, <2>4
<1>15. \A r \in Request : r \notin ScheduledIds(out) =>
          runner_requests'[r] = IF r \in out.finished_req_ids THEN NoState ELSE runner_requests[r]
  BY <1>8
<1>16. Worker'
  <2>1. \A k \in DOMAIN reqs : IsSeq(AfterSampling(out, reqs[k], value).tokens)
    BY <1>4, <1>12, SampledFacts DEF reqs
  <2>2. IsSeq(NoState.tokens)
    <3>1. <<>> \in Seq({0})
      OBVIOUS
    <3>2. IsSeq(<<>>)
      BY <3>1, SeqIs
    <3> QED BY <3>2 DEF NoState
  <2>3. \A r \in Request : IsSeq(runner_requests'[r].tokens)
    BY <1>4, <1>13, <1>14, <1>15, <2>1, <2>2 DEF Worker
  <2> QED BY <1>8, <2>3 DEF Worker
<1>17. ASSUME NEW r \in Request, NEW f, Tracks(f, batch_queue, runner_requests, r)
       PROVE  /\ Len(runner_requests'[r].tokens) = f[i + 1]
              /\ Brings(c, r) <=> Brings(b, r)
              /\ \A k \in DOMAIN reqs : reqs[k].id = r => (Samples(reqs[k]) <=> tok(k) # <<>>)
  <2>1. f[i] = Len(runner_requests[r].tokens)
    <3>1. i \in 1 .. (n + 1)
      <4> HIDE DEF n
      <4> QED BY <1>4
    <3> QED BY <1>3, <1>17, <3>1 DEF Tracks
  <2>2. /\ ~Has(b, r) => f[i + 1] = IF r \in out.finished_req_ids THEN 0 ELSE f[i]
        /\ \A k \in DOMAIN reqs :
              reqs[k].id = r =>
                 /\ Base(reqs[k]) = IF reqs[k].kind = "new" THEN Len(Prompt[r]) ELSE f[i]
                 /\ f[i + 1] = Left(reqs[k])
    BY <1>3, <1>17 DEF Tracks, out, reqs
  <2>3. ASSUME NEW k \in DOMAIN reqs, reqs[k].id = r
        PROVE  /\ Len(AfterSampling(out, reqs[k], value).tokens) = Left(reqs[k])
               /\ Samples(reqs[k]) <=> tok(k) # <<>>
    <3>1. Base(reqs[k]) = IF reqs[k].kind = "new" THEN Len(Prompt[reqs[k].id])
                          ELSE Len(runner_requests[reqs[k].id].tokens)
      BY <2>1, <2>2, <2>3
    <3>2. k \in DOMAIN out.reqs /\ reqs[k] = out.reqs[k] /\ Recoverable(reqs[k], input_batch)
      BY <1>11 DEF reqs
    <3>3. reqs[k].id \in Request /\ IsOutput(reqs[k]) /\ reqs[k].id \notin out.finished_req_ids
      BY <1>12
    <3>4. /\ Len(AfterSampling(out, reqs[k], value).tokens) = Left(reqs[k])
          /\ Samples(reqs[k]) <=> SampledToken(out, reqs[k], value) # <<>>
      BY <1>4, <3>1, <3>2, <3>3, SampledFacts
    <3> QED BY <3>4 DEF tok
  <2>4. CASE Has(b, r)
    <3>1. PICK k \in DOMAIN reqs : reqs[k].id = r
      BY <1>13, <2>4
    <3>2. Len(runner_requests'[r].tokens) = f[i + 1]
      BY <1>14, <2>2, <2>3, <3>1
    <3>3. Brings(c, r) <=> Brings(b, r)
      BY <1>13, <2>3
    <3> QED BY <2>3, <3>2, <3>3
  <2>5. CASE ~Has(b, r)
    <3>1. r \notin ScheduledIds(out) /\ ~Brings(b, r) /\ ~Brings(c, r)
      BY <1>13, <2>5
    <3>2. Len(NoState.tokens) = 0
      BY DEF NoState
    <3>3. Len(runner_requests'[r].tokens) = f[i + 1]
      BY <1>15, <2>1, <2>2, <2>5, <3>1, <3>2
    <3> QED BY <2>3, <3>1, <3>3
  <2> QED BY <2>4, <2>5
<1>18. Batches'
  <2>1. BatchesOf(batch_queue', ScheduledIds(out), prev_step_scheduled_req_ids)
    BY <1>4, <1>10, RunsBatches DEF out
  <2> QED BY <1>3, <1>8, <1>9, <2>1 DEF Batches, InFlightInv
<1>19. Kinds'
  BY <1>3 DEF InFlightInv, Kinds
<1>20. ASSUME NEW r \in Request, requests[r].status \in Alive
       PROVE  /\ Pending(batch_queue', r) = Pending(batch_queue, r)
              /\ \E f : /\ Tracks(f, batch_queue', runner_requests', r)
                        /\ Started(requests, step, r) =>
                              f[Len(batch_queue') + 1] = Known(requests[r])
  <2>1. PICK f : /\ Tracks(f, batch_queue, runner_requests, r)
                 /\ Started(requests, step, r) => f[n + 1] = Known(requests[r])
    BY <1>20 DEF InFlightInv, Tracked
  <2>2. Len(runner_requests'[r].tokens) = f[i + 1] /\ (Brings(c, r) <=> Brings(b, r))
    BY <1>17, <2>1
  <2>3. Reaching(batch_queue', runner_requests', r, f[n + 1])
    BY <1>4, <1>10, <2>1, <2>2, RunsTracks
  <2>4. \A j \in DOMAIN batch_queue : Brings(batch_queue'[j], r) <=> Brings(batch_queue[j], r)
    BY <1>5, <2>2 DEF c
  <2>5. Pending(batch_queue', r) = Pending(batch_queue, r)
    BY <1>5, <2>4 DEF Pending
  <2> QED BY <2>1, <2>3, <2>5 DEF Reaching
<1>21. \A r \in Request : Unstarted(requests[r], batch_queue, r) => Unstarted(requests[r], batch_queue', r)
  <2>1. \A r : Has(c, r) <=> Has(b, r)
    BY <1>13
  <2>2. \A j \in DOMAIN batch_queue : \A r : Has(batch_queue'[j], r) <=> Has(batch_queue[j], r)
    BY <1>5, <2>1 DEF c
  <2> QED BY <1>5, <2>2 DEF Unstarted
<1>22. Progress'
  BY <1>3, <1>20, <1>21 DEF InFlightInv, Progress
<1>23. Tracked'
  BY <1>3, <1>20 DEF Tracked
<1>24. ASSUME NEW r \in Request, requests[r].status \in Alive
       PROVE  Delivers(batch_queue, batch_queue', r)
  <2>1. PICK f : Tracks(f, batch_queue, runner_requests, r)
    BY <1>24 DEF InFlightInv, Tracked
  <2>2. \A k \in DOMAIN reqs : reqs[k].id = r => (Samples(reqs[k]) <=> tok(k) # <<>>)
    BY <1>17, <2>1
  <2>3. ASSUME NEW k \in DOMAIN reqs, tok(k) # <<>>
        PROVE  tok(k)[1][1] = SeqLen(reqs[k]) + 1
    <3> DEFINE v == <<SeqLen(reqs[k]) + 1, value[reqs[k].id]>>
    <3>1. tok(k) = <<v>>
      BY <2>3 DEF tok, SampledToken
    <3> QED BY <3>1
  <2>4. reqs = batch_queue[i].out.reqs /\ \A k \in DOMAIN reqs : batch_queue'[i].sampled[k] = tok(k)
    BY <1>6, <1>7 DEF c, out, reqs
  <2>5. \A k \in DOMAIN batch_queue[i].out.reqs :
           batch_queue[i].out.reqs[k].id = r =>
              /\ Samples(batch_queue[i].out.reqs[k]) <=> batch_queue'[i].sampled[k] # <<>>
              /\ batch_queue'[i].sampled[k] # <<>> =>
                    batch_queue'[i].sampled[k][1][1] = SeqLen(batch_queue[i].out.reqs[k]) + 1
    BY <2>2, <2>3, <2>4
  <2> HIDE DEF b
  <2> QED BY <1>10, <2>5 DEF Delivers
<1> QED BY <1>3, <1>16, <1>18, <1>19, <1>22, <1>23, <1>24 DEF InFlightInv

-----------------------------------------------------------------------------
(* The theorems on async scheduling *)

(***************************************************************************)
(* Nothing is in flight when the engine starts.                            *)
(***************************************************************************)
LEMMA InitInFlight ==
    ASSUME Init
    PROVE  InFlightInv
<1>1. /\ requests = [r \in Request |-> NewRequest(r, "NONE")] /\ step = NoStep
      /\ prev_step_scheduled_req_ids = {} /\ input_batch = {} /\ batch_queue = <<>>
      /\ runner_requests = [r \in Request |-> NoState]
  BY DEF Init, InitScheduler, InitRunner
<1>2. Len(batch_queue) = 0 /\ DOMAIN batch_queue = {}
  BY <1>1
<1>3. Batches
  <2>1. \A j \in 1 .. ((0 + 1) - 1) : FALSE
    OBVIOUS
  <2>2. IdsBefore(batch_queue, input_batch, Len(batch_queue) + 1) = input_batch
    BY <1>2, <2>1 DEF IdsBefore
  <2>3. 0 <= BatchQueueSize /\ 0 < BatchQueueSize
    BY EngineAssumption
  <2> QED BY <1>1, <1>2, <2>2, <2>3 DEF Batches, BatchesOf
<1>4. Worker
  <2>1. <<>> \in Seq({0})
    OBVIOUS
  <2>2. IsSeq(<<>>)
    BY <2>1, SeqIs
  <2>3. IsSeq(NoState.tokens)
    BY <2>2 DEF NoState
  <2> QED BY <1>1, <2>3 DEF Worker
<1>5. Kinds
  <2>1. DOMAIN NoStep.scheduled = {}
    BY DEF NoStep
  <2> QED BY <1>1, <2>1 DEF Kinds
<1>6. \A r \in Request : /\ requests[r].status = "NONE" /\ requests[r].tokens = PromptTokens(r)
                         /\ requests[r].num_output_placeholders = 0
                         /\ requests[r].discard_latest_async_tokens = FALSE
  BY <1>1 DEF NewRequest
<1>7. \A r \in Request : requests[r].status \notin Alive
  BY <1>6 DEF Alive
<1>8. Progress
  <2>1. \A r \in Request : /\ Len(requests[r].tokens) >= Len(Prompt[r])
                           /\ requests[r].num_output_placeholders <= BatchQueueSize
    BY <1>6, PromptFacts, EngineAssumption
  <2> QED BY <1>6, <1>7, <2>1 DEF Progress
<1>9. Tracked
  BY <1>7 DEF Tracked
<1> QED BY <1>3, <1>4, <1>5, <1>8, <1>9 DEF InFlightInv

(***************************************************************************)
(* A token that update_from_output comes to has its placeholder.           *)
(***************************************************************************)
LEMMA NothingMissing ==
    ASSUME IInv, InFlightInv
    PROVE  ~Missing
<1> SUFFICES ASSUME Missing PROVE FALSE
  OBVIOUS
<1> DEFINE batch == batch_queue[1]
           reqs == batch.out.reqs
           r == reqs[1].id
           S == Pending(batch_queue, r)
<1>1. /\ batch_queue # <<>> /\ batch.done /\ reqs # <<>> /\ batch.sampled[1] # <<>>
      /\ requests[r].status \in Alive /\ requests[r].num_output_placeholders = 0
  BY DEF Missing
<1>2. IsSeq(batch_queue) /\ 1 \in DOMAIN batch_queue /\ IsBatch(batch)
  BY <1>1, SeqTail DEF IInv, BatchesOK
<1>3. 1 \in DOMAIN reqs /\ r \in Request
  <2>1. IsSeq(reqs) /\ \A k \in DOMAIN reqs : reqs[k].id \in Request
    BY <1>2 DEF IsBatch
  <2> HIDE DEF reqs
  <2> QED BY <1>1, <2>1, SeqTail
<1>4. 1 \in S
  BY <1>1, <1>2, <1>3 DEF Pending, Brings
<1>5. IsFiniteSet(S) /\ Cardinality(S) = 0
  BY <1>1, <1>2, <1>3, PendingFinite DEF InFlightInv, Progress
<1> HIDE DEF S
<1> QED BY <1>4, <1>5, FS_EmptySet

(***************************************************************************)
(* Every step keeps the third invariant, under async scheduling, if no     *)
(* reset preempts the running requests and prompts are as long as batches  *)
(* may be behind.                                                          *)
(***************************************************************************)
LEMMA NextInFlight ==
    ASSUME AsyncScheduling, ~ResetRunningAllowed,
           \A r \in Request : BatchQueueSize <= Len(Prompt[r]) + 1,
           IInv, Sound, InFlightInv, [Next]_vars
    PROVE  InFlightInv'
<1>1. CASE Quiet
  <2>1. SameLives /\ UNCHANGED <<batch_queue, runner_requests, input_batch, prev_step_scheduled_req_ids>>
        /\ (phase' \in {"input", "schedule"} => phase \in {"input", "schedule"})
    BY <1>1, QuietLives DEF InFlightInv, runnerVars
  <2> QED BY <2>1, CarryInFlight
<1>2. CASE \E r \in Request : Add(r)
  BY <1>2, AddInFlight
<1>3. CASE Reset(ResetRunningAllowed)
  <2>1. Reset(FALSE)
    BY <1>3 DEF Reset
  <2>2. Quiet
    BY <2>1 DEF Quiet
  <2> QED BY <1>1, <2>2
<1>4. CASE Submit
  BY <1>4, SubmitInFlight
<1>5. CASE UpdateRequest
  BY <1>5, UpdateRequestInFlight
<1> QED BY <1>1, <1>2, <1>3, <1>4, <1>5, QuietOrNot, StepEndInFlight, ExecuteInFlight

-----------------------------------------------------------------------------
(* The theorems *)

(***************************************************************************)
(* Under async scheduling the second and the third invariant hold in every *)
(* reachable state, if no reset preempts the running requests and prompts  *)
(* are as long as batches may be behind.                                   *)
(***************************************************************************)
THEOREM ThirdInductive ==
    ASSUME AsyncScheduling, ~ResetRunningAllowed,
           \A r \in Request : BatchQueueSize <= Len(Prompt[r]) + 1
    PROVE  Spec => [](Sound /\ InFlightInv)
<1>1. Init => Sound /\ InFlightInv
  BY InitSound, InitInFlight
<1>2. IInv /\ IInv' /\ Sound /\ InFlightInv /\ [Next]_vars => (Sound /\ InFlightInv)'
  <2> SUFFICES ASSUME IInv, IInv', Sound, InFlightInv, [Next]_vars
               PROVE  Sound' /\ InFlightInv'
    OBVIOUS
  <2>1. ~Missing
    BY NothingMissing
  <2>2. Sound'
    BY <2>1, StepSound
  <2>3. InFlightInv'
    BY NextInFlight
  <2> QED BY <2>2, <2>3
<1> QED BY <1>1, <1>2, Inductive, PTL DEF Spec

(***************************************************************************)
(* What the first two invariants say of the properties.                    *)
(***************************************************************************)
LEMMA SoundIsSafe ==
    ASSUME IInv, Sound
    PROVE  NoAssertionFails /\ ChainClosed
<1>1. ManagerOK(manager) /\ HasTokens(requests) /\ Linked(manager, requests)
  BY Basics DEF Sound
<1>2. Closed(manager.pool)
  BY <1>1, LinkedClosed
<1>3. ChainClosed
  BY <1>2 DEF Closed, ChainClosed
<1>4. manager.pool.error = "none"
  BY <1>1 DEF Linked
<1> QED BY <1>3, <1>4 DEF NoAssertionFails

(***************************************************************************)
(* A batch has at most as many entries as there are requests.              *)
(***************************************************************************)
LEMMA EntriesBounded ==
    ASSUME NEW b, IsBatch(b), BatchOK(b), IsFiniteSet(Request)
    PROVE  \A k \in DOMAIN b.out.reqs : k \in 1 .. Cardinality(Request)
<1> DEFINE s == b.out.reqs
           ids == [i \in DOMAIN s |-> s[i].id]
           c == Cardinality(Request)
<1>1. IsSeq(s) /\ \A k \in DOMAIN s : s[k].id \in Request
  BY DEF IsBatch
<1>2. \A k, l \in DOMAIN s : s[k].id = s[l].id => k = l
  BY DEF BatchOK
<1>3. DOMAIN s = 1 .. Len(s) /\ Len(s) \in Nat
  BY <1>1 DEF IsSeq
<1> HIDE DEF s
<1>4. ids \in Seq(Request) /\ Len(ids) = Len(s)
  BY <1>1, <1>3
<1>5. IsInjective(ids) /\ Range(ids) \subseteq Request
  <2>1. DOMAIN ids = DOMAIN s /\ \A i \in DOMAIN s : ids[i] = s[i].id
    OBVIOUS
  <2> HIDE DEF ids
  <2>2. IsInjective(ids)
    BY <1>2, <2>1 DEF IsInjective
  <2> QED BY <1>1, <2>1, <2>2 DEF Range
<1> HIDE DEF ids
<1>6. IsFiniteSet(Range(ids)) /\ Cardinality(Range(ids)) = Len(ids)
  BY <1>4, <1>5, InjectiveLen
<1>7. Cardinality(Range(ids)) <= c
  BY <1>5, FS_Subset
<1>8. c \in Nat
  BY FS_CardinalityType
<1> HIDE DEF c
<1>9. \A k \in DOMAIN s : k \in 1 .. c
  BY <1>3, <1>4, <1>6, <1>7, <1>8
<1> QED BY <1>9 DEF s, c

(***************************************************************************)
(* The tokens of r in flight are as many as the batches that bring one.    *)
(***************************************************************************)
LEMMA InFlightPending ==
    ASSUME IInv, InFlightInv, IsFiniteSet(Request), NEW r \in Request
    PROVE  InFlight(r) = Cardinality(Pending(batch_queue, r))
<1> DEFINE N == 1 .. Cardinality(Request)
           D == DOMAIN batch_queue
           Reqs(i) == batch_queue[i].out.reqs
           Yes(i, k) == IF batch_queue[i].done THEN batch_queue[i].sampled[k] # <<>>
                        ELSE Samples(Reqs(i)[k])
           W == {w \in D \X N : /\ w[2] \in DOMAIN Reqs(w[1])
                                /\ Reqs(w[1])[w[2]].id = r
                                /\ Yes(w[1], w[2])}
           P == Pending(batch_queue, r)
           f == [w \in W |-> w[1]]
<1>1. InFlight(r) = Cardinality(W)
  <2>1. \A i \in D, k \in N :
           Reqs(i)[k].id = r =>
              (Samples(Reqs(i)[k]) <=> (SeqLen(Reqs(i)[k]) >= Len(Prompt[r]) + Reqs(i)[k].num_output_tokens))
    BY DEF Samples, Base
  <2>2. W = {w \in D \X N :
               /\ w[2] \in DOMAIN batch_queue[w[1]].out.reqs
               /\ /\ batch_queue[w[1]].out.reqs[w[2]].id = r
                  /\ IF batch_queue[w[1]].done THEN batch_queue[w[1]].sampled[w[2]] # <<>>
                     ELSE SeqLen(batch_queue[w[1]].out.reqs[w[2]])
                             >= Len(Prompt[r]) + batch_queue[w[1]].out.reqs[w[2]].num_output_tokens}
    BY <2>1
  <2> QED BY <2>2 DEF InFlight
<1>2. /\ IsSeq(batch_queue)
      /\ \A i \in D : IsBatch(batch_queue[i]) /\ BatchOK(batch_queue[i])
  BY DEF IInv, BatchesOK, InFlightInv, Batches, BatchesOf
<1>3. \A i \in D : \A k \in DOMAIN Reqs(i) : k \in N
  BY <1>2, EntriesBounded
<1>4. \A i \in D : \A k, l \in DOMAIN Reqs(i) : Reqs(i)[k].id = r /\ Reqs(i)[l].id = r => k = l
  BY <1>2 DEF BatchOK
<1>5. \A i : i \in P <=> i \in D /\ \E k \in DOMAIN Reqs(i) : Reqs(i)[k].id = r /\ Yes(i, k)
  BY DEF Pending, Brings
<1>6. IsFiniteSet(P)
  BY <1>2, PendingFinite
<1> HIDE DEF P, Yes, Reqs, D, N
<1>7. f \in [W -> P]
  BY <1>5
<1>8. \A v, w \in W : f[v] = f[w] => v = w
  <2> SUFFICES ASSUME NEW v \in W, NEW w \in W, v[1] = w[1] PROVE v = w
    OBVIOUS
  <2>1. v \in D \X N /\ w \in D \X N
    OBVIOUS
  <2>2. v[2] = w[2]
    BY <1>4
  <2> QED BY <2>1, <2>2
<1>9. \A i \in P : \E w \in W : f[w] = i
  <2> SUFFICES ASSUME NEW i \in P PROVE \E w \in W : w[1] = i
    OBVIOUS
  <2>1. i \in D /\ \E k \in DOMAIN Reqs(i) : Reqs(i)[k].id = r /\ Yes(i, k)
    BY <1>5
  <2>2. PICK k \in DOMAIN Reqs(i) : Reqs(i)[k].id = r /\ Yes(i, k)
    BY <2>1
  <2>3. k \in N
    BY <1>3, <2>1
  <2>4. <<i, k>> \in W
    BY <2>1, <2>2, <2>3
  <2> QED BY <2>4
<1> HIDE DEF f, W
<1>10. f \in Bijection(W, P)
  BY <1>7, <1>8, <1>9 DEF Bijection, Injection, Surjection, IsInjective
<1>11. ExistsBijection(P, W)
  BY <1>10, Fun_ExistsBijSymmetric DEF ExistsBijection
<1>12. Cardinality(W) = Cardinality(P)
  BY <1>6, <1>11, FS_Bijection
<1> QED BY <1>1, <1>12 DEF P

(***************************************************************************)
(* What async scheduling needs to be safe: no reset that preempts running  *)
(* requests, whose tokens in flight are then discarded by a flag, and no   *)
(* more batches in flight than a prompt has tokens, and one.  Two batches, *)
(* as the engine has, are always few enough.                               *)
(***************************************************************************)
AsyncSafe ==
    AsyncScheduling =>
        /\ ~ResetRunningAllowed
        /\ \A r \in Request : BatchQueueSize <= Len(Prompt[r]) + 1

(***************************************************************************)
(* No assertion of the scheduler, the KV cache manager or the block pool   *)
(* fails and none of them raises, with any number of requests, blocks and  *)
(* batches in flight: AsyncScheduler never comes to a token without a      *)
(* placeholder for it.                                                     *)
(***************************************************************************)
THEOREM AssertionsNeverFail ==
    ASSUME AsyncSafe
    PROVE  Spec => []NoAssertionFails
<1>1. ASSUME AsyncScheduling PROVE Spec => []NoAssertionFails
  <2>1. ~ResetRunningAllowed /\ \A r \in Request : BatchQueueSize <= Len(Prompt[r]) + 1
    BY <1>1 DEF AsyncSafe
  <2>2. Spec => [](Sound /\ InFlightInv)
    BY <1>1, <2>1, ThirdInductive
  <2>3. IInv /\ Sound => NoAssertionFails
    BY SoundIsSafe
  <2> QED BY <2>2, <2>3, Inductive, PTL
<1>2. ASSUME ~AsyncScheduling PROVE Spec => []NoAssertionFails
  BY <1>2, SyncNeverFails
<1> QED BY <1>1, <1>2

(***************************************************************************)
(* BlockPool: whenever a block is in the prefix cache so is every block    *)
(* before it in its chain.                                                 *)
(***************************************************************************)
THEOREM ChainsAlwaysClosed ==
    ASSUME AsyncSafe
    PROVE  Spec => []ChainClosed
<1>1. NoAssertionFails /\ (NoAssertionFails => ChainClosed) => ChainClosed
  OBVIOUS
<1> QED BY <1>1, AssertionsNeverFail, ChainsClosedUntilFailure, PTL

(***************************************************************************)
(* Without async scheduling there is no placeholder.                       *)
(***************************************************************************)
LEMMA SyncPlaceholders ==
    ASSUME ~AsyncScheduling, IInv, SoundUnlessUnderflow
    PROVE  PlaceholdersAreInFlight
<1>1. Sound
  BY DEF SoundUnlessUnderflow
<1>2. \A r \in Request : requests[r].num_output_placeholders = 0
  BY <1>1 DEF Sound, TokensCounted, CountsOf, Counts
<1> QED BY <1>2 DEF PlaceholdersAreInFlight

(***************************************************************************)
(* AsyncScheduler: a request that waits, runs or is preempted has as many  *)
(* output placeholders as tokens in flight, whatever was preempted,        *)
(* resumed, aborted or scheduled while they were.                          *)
(***************************************************************************)
THEOREM PlaceholdersAlwaysInFlight ==
    ASSUME AsyncSafe, IsFiniteSet(Request)
    PROVE  Spec => []PlaceholdersAreInFlight
<1>1. ASSUME AsyncScheduling PROVE Spec => []PlaceholdersAreInFlight
  <2>1. ~ResetRunningAllowed /\ \A r \in Request : BatchQueueSize <= Len(Prompt[r]) + 1
    BY <1>1 DEF AsyncSafe
  <2>2. Spec => [](Sound /\ InFlightInv)
    BY <1>1, <2>1, ThirdInductive
  <2>3. IInv /\ InFlightInv => PlaceholdersAreInFlight
    <3> SUFFICES ASSUME IInv, InFlightInv, NEW r \in Request, requests[r].status \in Alive
                 PROVE  requests[r].num_output_placeholders = InFlight(r)
      BY <1>1 DEF PlaceholdersAreInFlight, Alive
    <3>1. requests[r].num_output_placeholders = Cardinality(Pending(batch_queue, r))
      BY DEF InFlightInv, Progress
    <3> QED BY <3>1, InFlightPending
  <2> QED BY <2>2, <2>3, Inductive, PTL
<1>2. ASSUME ~AsyncScheduling PROVE Spec => []PlaceholdersAreInFlight
  <2>1. IInv /\ SoundUnlessUnderflow => PlaceholdersAreInFlight
    BY <1>2, SyncPlaceholders
  <2> QED BY <2>1, Inductive, SecondInductive, PTL
<1> QED BY <1>1, <1>2

-----------------------------------------------------------------------------
(* The order of tokens *)

\* The entry of r in batch b counts on n tokens, computes no more than those,
\* and brings, if any, the next one.
InPlace(b, r, n) ==
    \A k \in DOMAIN b.out.reqs :
        LET e == b.out.reqs[k]
        IN e.id = r => /\ Base(e) = n /\ SeqLen(e) <= n
                       /\ (b.done /\ b.sampled[k] # <<>>) => b.sampled[k][1][1] = n + 1

\* g[i] is the number of tokens request q of r has when update_from_output comes
\* to batch i.
Numbers(g, queue, q, r) ==
    /\ DOMAIN g = 1 .. (Len(queue) + 1)
    /\ g[1] = Len(q.tokens) /\ g[Len(queue) + 1] = Known(q)
    /\ \A i \in DOMAIN queue : /\ g[i + 1] = IF Brings(queue[i], r) THEN g[i] + 1 ELSE g[i]
                               /\ InPlace(queue[i], r, g[i])

Numbered(queue, q, r) == \E g : Numbers(g, queue, q, r)

InOrder(q) == \A i \in DOMAIN q.tokens : q.tokens[i][1] = i

\* The fourth invariant: the tokens a request has are in order, and those in
\* flight continue them.
Ordered ==
    \A r \in Request :
        /\ InOrder(requests[r])
        /\ requests[r].status \in Alive => Numbered(batch_queue, requests[r], r)

(***************************************************************************)
(* A step that leaves batches, tokens and placeholders alone and lets no   *)
(* request come to life keeps the fourth invariant.                        *)
(***************************************************************************)
LEMMA CarryOrdered ==
    ASSUME Ordered, batch_queue' = batch_queue,
           \A r \in Request :
              /\ requests'[r].tokens = requests[r].tokens
              /\ requests'[r].num_output_placeholders = requests[r].num_output_placeholders
              /\ requests'[r].status \in Alive => requests[r].status \in Alive
    PROVE  Ordered'
<1> SUFFICES ASSUME NEW r \in Request
             PROVE  /\ InOrder(requests'[r])
                    /\ requests'[r].status \in Alive => Numbered(batch_queue, requests'[r], r)
  BY DEF Ordered
<1>1. Known(requests'[r]) = Known(requests[r])
  BY DEF Known
<1>2. InOrder(requests'[r])
  BY DEF Ordered, InOrder
<1>3. ASSUME requests'[r].status \in Alive PROVE Numbered(batch_queue, requests'[r], r)
  <2>1. Numbered(batch_queue, requests[r], r)
    BY <1>3 DEF Ordered
  <2>2. PICK g : Numbers(g, batch_queue, requests[r], r)
    BY <2>1 DEF Numbered
  <2>3. Numbers(g, batch_queue, requests'[r], r)
    BY <1>1, <2>2 DEF Numbers
  <2> QED BY <2>3 DEF Numbered
<1> QED BY <1>2, <1>3

(***************************************************************************)
(* The oldest batch, with nothing left in it, leaves.                      *)
(***************************************************************************)
LEMMA TailNumbers ==
    ASSUME NEW queue, IsSeq(queue), queue # <<>>, NEW q, NEW r, ~Brings(queue[1], r),
           Numbered(queue, q, r)
    PROVE  Numbered(Tail(queue), q, r)
<1> DEFINE n == Len(queue)
           t == Tail(queue)
<1>1. PICK f : Numbers(f, queue, q, r)
  BY DEF Numbered
<1> DEFINE g == [i \in 1 .. n |-> f[i + 1]]
<1>2. /\ DOMAIN t = 1 .. (n - 1) /\ n \in Nat /\ n > 0 /\ DOMAIN queue = 1 .. n /\ Len(t) = n - 1
      /\ \A j \in DOMAIN t : j + 1 \in DOMAIN queue /\ t[j] = queue[j + 1]
      /\ 1 \in DOMAIN queue
  <2>1. n \in Nat /\ 1 \in 1 .. n
    BY SeqTail DEF IsSeq
  <2> QED BY <2>1, SeqTail
<1>3. /\ f[1] = Len(q.tokens) /\ f[n + 1] = Known(q)
      /\ \A i \in DOMAIN queue : /\ f[i + 1] = IF Brings(queue[i], r) THEN f[i] + 1 ELSE f[i]
                                 /\ InPlace(queue[i], r, f[i])
  BY <1>1 DEF Numbers
<1> HIDE DEF n, t
<1>4. /\ DOMAIN g = 1 .. n /\ \A i \in 1 .. n : g[i] = f[i + 1]
  OBVIOUS
<1> HIDE DEF g
<1>5. 1 \in 1 .. n /\ n \in 1 .. n /\ (n - 1) + 1 = n /\ 1 + 1 = 2
  BY <1>2
<1>6. g[1] = Len(q.tokens) /\ g[n] = Known(q)
  BY <1>2, <1>3, <1>4, <1>5
<1>7. \A i \in DOMAIN t : i \in 1 .. n /\ i + 1 \in 1 .. n
  BY <1>2
<1>8. \A i \in DOMAIN t : /\ g[i + 1] = IF Brings(t[i], r) THEN g[i] + 1 ELSE g[i]
                          /\ InPlace(t[i], r, g[i])
  <2> SUFFICES ASSUME NEW i \in DOMAIN t
               PROVE  /\ g[i + 1] = IF Brings(t[i], r) THEN g[i] + 1 ELSE g[i]
                      /\ InPlace(t[i], r, g[i])
    OBVIOUS
  <2>1. t[i] = queue[i + 1] /\ i + 1 \in DOMAIN queue
    BY <1>2
  <2>2. g[i] = f[i + 1] /\ g[i + 1] = f[(i + 1) + 1]
    BY <1>4, <1>7
  <2> QED BY <1>3, <2>1, <2>2
<1>9. Numbers(g, t, q, r)
  BY <1>2, <1>4, <1>5, <1>6, <1>8 DEF Numbers
<1> QED BY <1>9 DEF Numbered, t

(***************************************************************************)
(* One more batch is submitted.                                            *)
(***************************************************************************)
LEMMA AppendNumbers ==
    ASSUME NEW queue, IsSeq(queue), NEW b, NEW q, NEW p, NEW r, Numbered(queue, q, r),
           p.tokens = q.tokens, InPlace(b, r, Known(q)),
           Known(p) = IF Brings(b, r) THEN Known(q) + 1 ELSE Known(q)
    PROVE  Numbered(Append(queue, b), p, r)
<1> DEFINE n == Len(queue)
           later == Append(queue, b)
           x == Known(p)
<1>1. PICK f : Numbers(f, queue, q, r)
  BY DEF Numbered
<1> DEFINE g == [i \in 1 .. ((n + 1) + 1) |-> IF i = (n + 1) + 1 THEN x ELSE f[i]]
<1>2. /\ DOMAIN later = 1 .. (n + 1) /\ Len(later) = n + 1 /\ later[n + 1] = b
      /\ n \in Nat /\ DOMAIN queue = 1 .. n
      /\ \A i \in DOMAIN queue : later[i] = queue[i]
  BY SeqAppend
<1>3. /\ f[1] = Len(p.tokens) /\ f[n + 1] = Known(q)
      /\ \A i \in DOMAIN queue : /\ f[i + 1] = IF Brings(queue[i], r) THEN f[i] + 1 ELSE f[i]
                                 /\ InPlace(queue[i], r, f[i])
  BY <1>1 DEF Numbers
<1> HIDE DEF n, later, x
<1>4. /\ g[(n + 1) + 1] = x /\ \A i \in 1 .. (n + 1) : g[i] = f[i]
      /\ DOMAIN g = 1 .. ((n + 1) + 1)
  BY <1>2
<1> HIDE DEF g
<1>5. 1 \in 1 .. (n + 1) /\ n + 1 \in 1 .. (n + 1)
  BY <1>2
<1>6. ASSUME NEW i \in DOMAIN later
      PROVE  /\ g[i + 1] = IF Brings(later[i], r) THEN g[i] + 1 ELSE g[i]
             /\ InPlace(later[i], r, g[i])
  <2>1. i = n + 1 \/ (i \in DOMAIN queue /\ i \in 1 .. (n + 1) /\ i + 1 \in 1 .. (n + 1))
    BY <1>2, <1>6
  <2>2. CASE i = n + 1
    <3>1. later[i] = b /\ g[i] = Known(q) /\ g[i + 1] = x
      BY <1>2, <1>3, <1>4, <1>5, <2>2
    <3> QED BY <3>1 DEF x
  <2>3. CASE i \in DOMAIN queue /\ i \in 1 .. (n + 1) /\ i + 1 \in 1 .. (n + 1)
    <3>1. later[i] = queue[i] /\ g[i] = f[i] /\ g[i + 1] = f[i + 1]
      BY <1>2, <1>4, <2>3
    <3> QED BY <1>3, <2>3, <3>1
  <2> QED BY <2>1, <2>2, <2>3
<1>7. g[1] = Len(p.tokens) /\ g[Len(later) + 1] = Known(p)
  BY <1>2, <1>3, <1>4, <1>5 DEF x
<1>8. DOMAIN g = 1 .. (Len(later) + 1)
  BY <1>2, <1>4
<1>9. Numbers(g, later, p, r)
  BY <1>6, <1>7, <1>8 DEF Numbers
<1> QED BY <1>9 DEF Numbered, later

(***************************************************************************)
(* A batch keeps what it says of the other requests when its first one is  *)
(* dealt with.                                                             *)
(***************************************************************************)
LEMMA HeadInPlace ==
    ASSUME NEW b, IsBatch(b), BatchOK(b), b.done, b.out.reqs # <<>>, NEW c, HeadLeft(b, c)
    PROVE  /\ \A s, n : InPlace(b, s, n) => InPlace(c, s, n)
           /\ \A n : InPlace(c, b.out.reqs[1].id, n)
           /\ \A s, n : InPlace(b, s, n) /\ b.out.reqs[1].id = s /\ b.sampled[1] # <<>>
                           => b.sampled[1][1][1] = n + 1
<1> DEFINE s == b.out.reqs
           t == b.sampled
           n == Len(s)
<1>1. IsSeq(s) /\ s # <<>> /\ IsSeq(t) /\ Len(t) = Len(s)
  BY DEF IsBatch
<1>2. c.out.reqs = Tail(s) /\ c.sampled = Tail(t) /\ c.done = b.done
  BY DEF IsBatch, HeadLeft
<1>3. \A i, j \in DOMAIN s : s[i].id = s[j].id => i = j
  BY DEF BatchOK
<1>4. \A x, m : InPlace(b, x, m) <=>
         \A k \in DOMAIN s : s[k].id = x => /\ Base(s[k]) = m /\ SeqLen(s[k]) <= m
                                            /\ t[k] # <<>> => t[k][1][1] = m + 1
  BY DEF InPlace
<1>5. \A x, m : InPlace(c, x, m) <=>
         \A k \in DOMAIN Tail(s) :
            Tail(s)[k].id = x => /\ Base(Tail(s)[k]) = m /\ SeqLen(Tail(s)[k]) <= m
                                 /\ Tail(t)[k] # <<>> => Tail(t)[k][1][1] = m + 1
  BY <1>2 DEF InPlace
<1> HIDE DEF s, t
<1>6. /\ n \in Nat /\ DOMAIN s = 1 .. n /\ DOMAIN Tail(s) = 1 .. (n - 1)
      /\ \A i \in DOMAIN Tail(s) : i + 1 \in DOMAIN s /\ Tail(s)[i] = s[i + 1]
      /\ 1 \in DOMAIN s /\ n # 0
  <2>1. n \in Nat /\ 1 \in 1 .. n
    BY <1>1, SeqTail DEF IsSeq
  <2> QED BY <1>1, <2>1, SeqTail
<1>7. \A i \in DOMAIN Tail(s) : Tail(t)[i] = t[i + 1]
  <2>1. Len(t) = n /\ t # <<>>
    BY <1>1, <1>6
  <2>2. DOMAIN Tail(t) = 1 .. (n - 1) /\ \A i \in DOMAIN Tail(t) : Tail(t)[i] = t[i + 1]
    BY <1>1, <2>1, SeqTail
  <2> QED BY <1>6, <2>2
<1> HIDE DEF n
<1>8. \A i \in DOMAIN Tail(s) : i + 1 # 1
  BY <1>6
<1>9. ASSUME NEW x, NEW m, InPlace(b, x, m) PROVE InPlace(c, x, m)
  <2> SUFFICES ASSUME NEW k \in DOMAIN Tail(s), Tail(s)[k].id = x
               PROVE  /\ Base(Tail(s)[k]) = m /\ SeqLen(Tail(s)[k]) <= m
                      /\ Tail(t)[k] # <<>> => Tail(t)[k][1][1] = m + 1
    BY <1>5
  <2>1. k + 1 \in DOMAIN s /\ Tail(s)[k] = s[k + 1] /\ Tail(t)[k] = t[k + 1]
    BY <1>6, <1>7
  <2>2. s[k + 1].id = x
    BY <2>1
  <2>3. /\ Base(s[k + 1]) = m /\ SeqLen(s[k + 1]) <= m
        /\ t[k + 1] # <<>> => t[k + 1][1][1] = m + 1
    BY <1>4, <1>9, <2>1, <2>2
  <2> QED BY <2>1, <2>3
<1>10. \A i \in DOMAIN Tail(s) : Tail(s)[i].id # s[1].id
  BY <1>3, <1>6, <1>8
<1>11. \A m : InPlace(c, s[1].id, m)
  BY <1>5, <1>10
<1>12. \A x, m : InPlace(b, x, m) /\ s[1].id = x /\ t[1] # <<>> => t[1][1][1] = m + 1
  BY <1>4, <1>6
<1> QED BY <1>9, <1>11, <1>12 DEF s, t

(***************************************************************************)
(* add_request keeps the fourth invariant: no batch is about the request.  *)
(***************************************************************************)
LEMMA AddOrdered ==
    ASSUME IInv, Ordered, NEW r \in Request, Add(r)
    PROVE  Ordered'
<1> DEFINE n == Len(batch_queue)
           m == Len(Prompt[r])
           f == [i \in 1 .. (n + 1) |-> m]
<1>1. requests' = [requests EXCEPT ![r] = NewRequest(r, "WAITING")] /\ batch_queue' = batch_queue
  BY DEF Add, add_request, runnerVars, engineVars
<1>2. \A i \in DOMAIN batch_queue : r \notin ScheduledIds(batch_queue[i].out)
  BY DEF Add, Fresh
<1>3. DOMAIN requests = Request
  BY Basics
<1>4. (\A s \in Request : s # r => requests'[s] = requests[s]) /\ requests'[r] = NewRequest(r, "WAITING")
  BY <1>1, <1>3
<1>5. requests'[r].tokens = PromptTokens(r) /\ requests'[r].num_output_placeholders = 0
  BY <1>4 DEF NewRequest
<1>6. \A i \in DOMAIN batch_queue : /\ ~Brings(batch_queue[i], r)
                                    /\ \A k \in DOMAIN batch_queue[i].out.reqs :
                                          batch_queue[i].out.reqs[k].id # r
  BY <1>2 DEF ScheduledIds, Brings
<1>7. m \in Nat /\ Len(requests'[r].tokens) = m
  BY <1>5, PromptFacts
<1>8. InOrder(requests'[r])
  BY <1>5 DEF InOrder, PromptTokens
<1>9. n \in Nat /\ DOMAIN batch_queue = 1 .. n
  BY DEF IInv, BatchesOK, IsSeq
<1>10. Known(requests'[r]) = m
  <2> HIDE DEF m
  <2> QED BY <1>5, <1>7 DEF Known
<1>11. DOMAIN f = 1 .. (n + 1) /\ \A i \in 1 .. (n + 1) : f[i] = m
  OBVIOUS
<1>12. \A i \in DOMAIN batch_queue : InPlace(batch_queue[i], r, f[i])
  BY <1>6 DEF InPlace
<1> HIDE DEF n, m, f
<1>13. /\ 1 \in 1 .. (n + 1) /\ n + 1 \in 1 .. (n + 1)
       /\ \A i \in DOMAIN batch_queue : i \in 1 .. (n + 1) /\ i + 1 \in 1 .. (n + 1)
  BY <1>9
<1>14. f[1] = m /\ f[n + 1] = m /\ \A i \in DOMAIN batch_queue : f[i + 1] = f[i]
  BY <1>11, <1>13
<1>15. Numbers(f, batch_queue, requests'[r], r)
  BY <1>6, <1>7, <1>10, <1>11, <1>12, <1>14 DEF Numbers, n
<1>16. Numbered(batch_queue, requests'[r], r)
  BY <1>15 DEF Numbered
<1> QED BY <1>1, <1>4, <1>8, <1>16 DEF Ordered

(***************************************************************************)
(* The end of a step keeps the fourth invariant.                           *)
(***************************************************************************)
LEMMA StepEndOrdered ==
    ASSUME IInv, Ordered, StepEnd
    PROVE  Ordered'
<1>1. /\ phase \in {"output", "update"} /\ batch_queue' = Tail(batch_queue)
      /\ batch_queue[1].out.reqs = <<>> /\ requests' = requests
  BY DEF StepEnd, schedulerVars
<1>2. IsSeq(batch_queue) /\ batch_queue # <<>>
  BY <1>1 DEF IInv, BatchesOK, IsSeq
<1>3. \A r \in Request : ~Brings(batch_queue[1], r)
  BY <1>1 DEF Brings
<1>4. ASSUME NEW r \in Request, Numbered(batch_queue, requests[r], r)
      PROVE  Numbered(Tail(batch_queue), requests[r], r)
  BY <1>2, <1>3, <1>4, TailNumbers
<1> QED BY <1>1, <1>4 DEF Ordered

(***************************************************************************)
(* What update_from_output does to the tokens of a request.                *)
(***************************************************************************)
LEMMA OutputTokens ==
    ASSUME IInv, NEW r \in Request, NEW t, IsSeq(t), update_request(r, t)
    PROVE  \/ requests'[r].tokens = requests[r].tokens
           \/ /\ requests'[r].tokens = requests[r].tokens \o t
              /\ t # <<>> /\ requests[r].status \in Alive
<1> DEFINE q == requests[r]
<1>1. DOMAIN requests = Request /\ IsRequest(q)
  BY Basics
<1>2. CASE IgnoreOutput(r, t)
  <2> DEFINE d == q.discard_latest_async_tokens
                  /\ ~ (q.status \in {"WAITING", "RUNNING", "PREEMPTED"}
                        /\ t # <<>> /\ AsyncScheduling)
  <2>1. requests' = [requests EXCEPT ![r].discard_latest_async_tokens = d]
    BY <1>2 DEF IgnoreOutput
  <2> HIDE DEF d
  <2>2. requests'[r] = [q EXCEPT !.discard_latest_async_tokens = d]
    BY <1>1, <2>1
  <2>3. requests'[r].tokens = q.tokens
    BY <1>1, <2>2 DEF IsRequest
  <2> QED BY <2>3
<1>3. CASE ApplyOutput(r, t)
  <2>1. PICK x, status :
           /\ requests' = [requests EXCEPT ![r].tokens = q.tokens \o t,
                                           ![r].num_output_placeholders = x, ![r].status = status]
           /\ t # <<>> /\ q.status \in Alive
    BY <1>3 DEF ApplyOutput, Alive
  <2> DEFINE new == q.tokens \o t
  <2> HIDE DEF new
  <2>2. requests'[r] = [q EXCEPT !.tokens = new, !.num_output_placeholders = x, !.status = status]
    BY <1>1, <2>1 DEF new
  <2>3. requests'[r].tokens = new
    BY <1>1, <2>2 DEF IsRequest
  <2> QED BY <2>1, <2>3 DEF new
<1> QED BY <1>2, <1>3 DEF update_request

\* Request q becomes p when tokens t arrive, which had a placeholder.
Advances(q, p, t) ==
    /\ Known(p) = Known(q)
    /\ Len(p.tokens) = IF t # <<>> THEN Len(q.tokens) + 1 ELSE Len(q.tokens)

\* Tokens t of request r, when they leave queue for later, come next.
Continues(queue, later, r, t) ==
    /\ \A s, q : s # r /\ Numbered(queue, q, s) => Numbered(later, q, s)
    /\ \A q, p : Numbered(queue, q, r) /\ Advances(q, p, t) => Numbered(later, p, r)
    /\ \A q : Numbered(queue, q, r) /\ t # <<>> => t[1][1] = Len(q.tokens) + 1

(***************************************************************************)
(* The numbers of tokens once the first request of the oldest batch is     *)
(* dealt with: the token it brings, if any, is the next one.               *)
(***************************************************************************)
LEMMA HeadNumbers ==
    ASSUME NEW queue, IsSeq(queue), queue # <<>>, \A i \in DOMAIN queue : IsBatch(queue[i]),
           NEW ids, NEW previous, BatchesOf(queue, ids, previous),
           queue[1].done, queue[1].out.reqs # <<>>,
           NEW later, HeadGone(queue, later),
           NEW r, r = queue[1].out.reqs[1].id, NEW t, t = queue[1].sampled[1]
    PROVE  Continues(queue, later, r, t)
<1> DEFINE b == queue[1]
           c == later[1]
           n == Len(queue)
<1>1. n \in Nat /\ DOMAIN queue = 1 .. n /\ 1 \in DOMAIN queue
  BY SeqTail DEF IsSeq
<1>2. /\ DOMAIN later = DOMAIN queue
      /\ \A i \in DOMAIN queue : i # 1 => later[i] = queue[i]
      /\ HeadLeft(b, c)
  BY <1>1 DEF HeadLeft, HeadGone
<1>3. Len(later) = n
  BY <1>1, <1>2
<1>4. IsBatch(b) /\ BatchOK(b) /\ b.done /\ b.out.reqs # <<>>
  BY <1>1 DEF BatchesOf
<1>5. r = b.out.reqs[1].id /\ t = b.sampled[1]
  OBVIOUS
<1> HIDE DEF b, c
<1>6. /\ \A s : s # r => (Brings(c, s) <=> Brings(b, s))
      /\ ~Brings(c, r)
      /\ Brings(b, r) <=> (t # <<>>)
  <2>1. /\ \A s : s # b.out.reqs[1].id => (Brings(c, s) <=> Brings(b, s))
        /\ ~Brings(c, b.out.reqs[1].id)
        /\ Brings(b, b.out.reqs[1].id) <=> (b.sampled[1] # <<>>)
    BY <1>2, <1>4, HeadBrings
  <2> QED BY <1>5, <2>1
<1>7. /\ \A s, m : InPlace(b, s, m) => InPlace(c, s, m)
      /\ \A m : InPlace(c, r, m)
      /\ \A m : InPlace(b, r, m) /\ t # <<>> => t[1][1] = m + 1
  <2>1. /\ \A s, m : InPlace(b, s, m) => InPlace(c, s, m)
        /\ \A m : InPlace(c, b.out.reqs[1].id, m)
        /\ \A s, m : InPlace(b, s, m) /\ b.out.reqs[1].id = s /\ b.sampled[1] # <<>>
                        => b.sampled[1][1][1] = m + 1
    BY <1>2, <1>4, HeadInPlace
  <2> QED BY <1>5, <2>1
<1>8. queue[1] = b /\ later[1] = c
  BY DEF b, c
<1>9. \A f, q, s : Numbers(f, queue, q, s) <=>
         /\ DOMAIN f = 1 .. (n + 1) /\ f[1] = Len(q.tokens) /\ f[n + 1] = Known(q)
         /\ \A i \in DOMAIN queue :
               /\ f[i + 1] = IF Brings(queue[i], s) THEN f[i] + 1 ELSE f[i]
               /\ InPlace(queue[i], s, f[i])
  BY DEF Numbers
<1>10. \A f, q, s : Numbers(f, later, q, s) <=>
         /\ DOMAIN f = 1 .. (n + 1) /\ f[1] = Len(q.tokens) /\ f[n + 1] = Known(q)
         /\ \A i \in DOMAIN queue :
               /\ f[i + 1] = IF Brings(later[i], s) THEN f[i] + 1 ELSE f[i]
               /\ InPlace(later[i], s, f[i])
  BY <1>2, <1>3 DEF Numbers
<1> HIDE DEF n
<1>11. ASSUME NEW s, NEW q, s # r, Numbered(queue, q, s) PROVE Numbered(later, q, s)
  <2>1. PICK f : Numbers(f, queue, q, s)
    BY <1>11 DEF Numbered
  <2>2. \A i \in DOMAIN queue : /\ Brings(later[i], s) <=> Brings(queue[i], s)
                                /\ \A m : InPlace(queue[i], s, m) => InPlace(later[i], s, m)
    BY <1>2, <1>6, <1>7, <1>8, <1>11
  <2>3. Numbers(f, later, q, s)
    BY <1>9, <1>10, <2>1, <2>2
  <2> QED BY <2>3 DEF Numbered
<1>12. ASSUME NEW q, Numbered(queue, q, r), t # <<>> PROVE t[1][1] = Len(q.tokens) + 1
  <2>1. PICK f : Numbers(f, queue, q, r)
    BY <1>12 DEF Numbered
  <2>2. f[1] = Len(q.tokens) /\ InPlace(queue[1], r, f[1])
    BY <1>1, <2>1 DEF Numbers
  <2> QED BY <1>7, <1>8, <1>12, <2>2
<1>13. ASSUME NEW q, NEW p, Numbered(queue, q, r), Advances(q, p, t)
       PROVE  Numbered(later, p, r)
  <2> DEFINE x == Len(p.tokens)
  <2>0. Known(p) = Known(q) /\ x = IF t # <<>> THEN Len(q.tokens) + 1 ELSE Len(q.tokens)
    BY <1>13 DEF Advances
  <2>1. PICK f : Numbers(f, queue, q, r)
    BY <1>13 DEF Numbered
  <2>2. /\ DOMAIN f = 1 .. (n + 1) /\ f[1] = Len(q.tokens) /\ f[n + 1] = Known(q)
        /\ \A i \in DOMAIN queue :
              /\ f[i + 1] = IF Brings(queue[i], r) THEN f[i] + 1 ELSE f[i]
              /\ InPlace(queue[i], r, f[i])
    BY <1>9, <2>1
  <2> DEFINE g == [i \in 1 .. (n + 1) |-> IF i = 1 THEN x ELSE f[i]]
  <2>3. /\ DOMAIN g = 1 .. (n + 1)
        /\ g[1] = x /\ \A i \in 1 .. (n + 1) : i # 1 => g[i] = f[i]
    BY <1>1
  <2>4. x = f[1 + 1]
    BY <1>1, <1>6, <1>8, <2>0, <2>2
  <2> HIDE DEF g, x
  <2>5. /\ n + 1 \in 1 .. (n + 1) /\ n + 1 # 1
        /\ \A i \in DOMAIN queue : /\ i \in 1 .. (n + 1) /\ i + 1 \in 1 .. (n + 1) /\ i + 1 # 1
    BY <1>1
  <2>6. g[n + 1] = Known(p)
    BY <2>0, <2>2, <2>3, <2>5
  <2>7. ASSUME NEW i \in DOMAIN queue
        PROVE  /\ g[i + 1] = IF Brings(later[i], r) THEN g[i] + 1 ELSE g[i]
               /\ InPlace(later[i], r, g[i])
    <3>1. g[i + 1] = f[i + 1]
      BY <2>3, <2>5
    <3>2. CASE i = 1
      BY <1>6, <1>7, <1>8, <2>3, <2>4, <3>1, <3>2
    <3>3. CASE i # 1
      <4>1. g[i] = f[i] /\ later[i] = queue[i]
        BY <1>2, <2>3, <2>5, <3>3
      <4> QED BY <2>2, <3>1, <4>1
    <3> QED BY <3>2, <3>3
  <2>8. Numbers(g, later, p, r)
    <3>1. g[1] = Len(p.tokens) /\ DOMAIN g = 1 .. (Len(later) + 1) /\ g[Len(later) + 1] = Known(p)
      BY <1>3, <2>3, <2>6 DEF x
    <3> QED BY <1>2, <2>7, <3>1 DEF Numbers
  <2> QED BY <2>8 DEF Numbered
<1> QED BY <1>11, <1>12, <1>13 DEF Continues

(***************************************************************************)
(* One more token.                                                         *)
(***************************************************************************)
LEMMA ConcatOne ==
    ASSUME NEW s, IsSeq(s), NEW t, IsSeq(t), Len(t) = 1
    PROVE  /\ DOMAIN (s \o t) = 1 .. (Len(s) + 1) /\ (s \o t)[Len(s) + 1] = t[1]
           /\ \A i \in 1 .. Len(s) : (s \o t)[i] = s[i]
           /\ DOMAIN s = 1 .. Len(s)
<1> DEFINE T == Range(s) \cup Range(t)
<1>1. s \in Seq(T) /\ t \in Seq(T)
  BY DEF IsSeq, Range
<1> HIDE DEF T
<1>2. s \o t \in Seq(T) /\ Len(s \o t) = Len(s) + 1 /\ Len(s) \in Nat
  <2>1. s \o t \in Seq(T)
    BY <1>1
  <2>2. Len(s \o t) = Len(s) + Len(t) /\ Len(s) \in Nat
    BY TokensConcat
  <2> QED BY <2>1, <2>2
<1>3. DOMAIN (s \o t) = 1 .. (Len(s) + 1)
  BY <1>2
<1>4. \A i \in 1 .. Len(s) : (s \o t)[i] = s[i]
  BY <1>1
<1>5. (s \o t)[Len(s) + 1] = t[1]
  BY <1>1, <1>2
<1> QED BY <1>1, <1>3, <1>4, <1>5

(***************************************************************************)
(* update_from_output keeps the fourth invariant: the token it appends is  *)
(* the next one.                                                           *)
(***************************************************************************)
LEMMA UpdateRequestOrdered ==
    ASSUME IInv, InFlightInv, Sound, Ordered, AsyncScheduling, UpdateRequest
    PROVE  Ordered'
<1> DEFINE batch == batch_queue[1]
           r == batch.out.reqs[1].id
           t == batch.sampled[1]
           later == batch_queue'
           q == requests[r]
           p == requests'[r]
<1>1. /\ phase \in {"output", "update"} /\ batch.done /\ batch.out.reqs # <<>>
      /\ update_request(r, t) /\ HeadGone(batch_queue, later)
  BY DEF UpdateRequest, HeadGone
<1>2. /\ IsSeq(batch_queue) /\ batch_queue # <<>> /\ 1 \in DOMAIN batch_queue
      /\ \A i \in DOMAIN batch_queue : IsBatch(batch_queue[i])
      /\ BatchesOf(batch_queue, input_batch, prev_step_scheduled_req_ids)
  <2>1. /\ IsSeq(batch_queue) /\ batch_queue # <<>>
        /\ \A i \in DOMAIN batch_queue : IsBatch(batch_queue[i])
        /\ BatchesOf(batch_queue, input_batch, prev_step_scheduled_req_ids)
    BY <1>1 DEF IInv, BatchesOK, InFlightInv, Batches
  <2> QED BY <2>1, SeqTail DEF IsSeq
<1>3. r \in Request /\ IsSeq(t) /\ Len(t) <= 1
  <2>1. IsBatch(batch) /\ OneToken(batch)
    BY <1>1, <1>2 DEF Sound, OneEach
  <2> DEFINE reqs == batch.out.reqs
             sampled == batch.sampled
  <2>2. /\ IsSeq(reqs) /\ reqs # <<>> /\ IsSeq(sampled) /\ Len(sampled) = Len(reqs)
        /\ \A k \in DOMAIN reqs : reqs[k].id \in Request
        /\ \A k \in DOMAIN sampled : IsSeq(sampled[k]) /\ Len(sampled[k]) <= 1
    BY <1>1, <2>1 DEF IsBatch, OneToken
  <2> HIDE DEF reqs, sampled
  <2>3. 1 \in DOMAIN reqs /\ DOMAIN reqs = DOMAIN sampled
    BY <2>2, SeqTail DEF IsSeq
  <2> QED BY <2>2, <2>3 DEF reqs, sampled
<1>4. batch_queue[1] = batch /\ r = batch_queue[1].out.reqs[1].id /\ t = batch_queue[1].sampled[1]
  OBVIOUS
<1> HIDE DEF r, t, batch, later, q, p
<1>5. /\ \A s, u : s # r /\ Numbered(batch_queue, u, s) => Numbered(later, u, s)
      /\ \A u, v : Numbered(batch_queue, u, r) /\ Advances(u, v, t) => Numbered(later, v, r)
      /\ \A u : Numbered(batch_queue, u, r) /\ t # <<>> => t[1][1] = Len(u.tokens) + 1
  <2>1. batch_queue[1].done /\ batch_queue[1].out.reqs # <<>>
    BY <1>1, <1>4
  <2>2. Continues(batch_queue, later, r, t)
    BY <1>1, <1>2, <1>4, <2>1, HeadNumbers
  <2> QED BY <2>2 DEF Continues
<1>6. /\ \A s \in Request : s # r => requests'[s] = requests[s]
      /\ p.status \in Alive =>
            /\ q.status = p.status /\ Known(p) = Known(q)
            /\ t = <<>> => p.tokens = q.tokens
            /\ t # <<>> => p.num_output_placeholders = q.num_output_placeholders - 1
  BY <1>1, <1>3, OutputFacts DEF p, q
<1>7. p.tokens = q.tokens \/ (p.tokens = q.tokens \o t /\ t # <<>> /\ q.status \in Alive)
  BY <1>1, <1>3, OutputTokens DEF p, q
<1>8. InOrder(q) /\ (q.status \in Alive => Numbered(batch_queue, q, r))
  BY <1>3 DEF Ordered, q
<1>9. /\ IsSeq(q.tokens) /\ Len(q.tokens) \in Nat /\ q.num_output_placeholders \in Int
  <2>1. IsRequest(q)
    BY <1>3, Basics DEF q
  <2> QED BY <2>1 DEF IsRequest, IsSeq
<1>10. t # <<>> => Len(t) = 1
  <2> DEFINE k == Len(t)
  <2>1. k \in Nat /\ (t # <<>> => k # 0) /\ k <= 1
    BY <1>3 DEF IsSeq
  <2> HIDE DEF k
  <2>2. t # <<>> => k = 1
    BY <2>1
  <2> QED BY <2>2 DEF k
<1>11. InOrder(p)
  <2>1. CASE p.tokens = q.tokens
    BY <1>8, <2>1 DEF InOrder
  <2>2. CASE p.tokens = q.tokens \o t /\ t # <<>> /\ q.status \in Alive
    <3> DEFINE u == q.tokens
               n == Len(u)
               w == p.tokens
    <3>1. t[1][1] = n + 1
      BY <1>5, <1>8, <2>2
    <3>2. IsSeq(u) /\ w = u \o t /\ IsSeq(t) /\ Len(t) = 1 /\ n \in Nat
      BY <1>3, <1>9, <1>10, <2>2
    <3>3. \A i \in DOMAIN u : u[i][1] = i
      BY <1>8 DEF InOrder
    <3> HIDE DEF u, w
    <3>4. /\ DOMAIN w = 1 .. (n + 1) /\ w[n + 1] = t[1] /\ \A i \in 1 .. n : w[i] = u[i]
          /\ DOMAIN u = 1 .. n
      <4>1. /\ DOMAIN (u \o t) = 1 .. (Len(u) + 1) /\ (u \o t)[Len(u) + 1] = t[1]
            /\ \A i \in 1 .. Len(u) : (u \o t)[i] = u[i]
            /\ DOMAIN u = 1 .. Len(u)
        BY <3>2, ConcatOne
      <4> QED BY <3>2, <4>1
    <3> HIDE DEF n
    <3>5. \A i \in DOMAIN w : i = n + 1 \/ i \in 1 .. n
      BY <3>2, <3>4
    <3>6. \A i \in DOMAIN w : w[i][1] = i
      BY <3>1, <3>3, <3>4, <3>5
    <3> QED BY <3>6 DEF w, InOrder
  <2> QED BY <1>7, <2>1, <2>2
<1>12. ASSUME p.status \in Alive PROVE Numbered(later, p, r)
  <2>1. q.status \in Alive /\ Known(p) = Known(q)
    BY <1>6, <1>12
  <2>2. Len(p.tokens) = IF t # <<>> THEN Len(q.tokens) + 1 ELSE Len(q.tokens)
    <3>1. CASE t = <<>>
      BY <1>6, <1>12, <3>1
    <3>2. CASE t # <<>>
      <4> DEFINE a == Len(p.tokens)
                 c == Len(q.tokens)
                 o == q.num_output_placeholders
                 x == p.num_output_placeholders
      <4>1. a + x = c + o /\ x = o - 1
        BY <1>6, <1>12, <2>1, <3>2 DEF Known
      <4>2. a \in Nat
        <5>1. IsRequest(p)
          BY <1>3, UpdateRequestKeeps DEF IInv, RequestsOK, p
        <5> QED BY <5>1 DEF IsRequest, IsSeq
      <4>3. c \in Nat /\ o \in Int
        BY <1>9
      <4> HIDE DEF a, c, o, x
      <4>4. a = c + 1
        BY <4>1, <4>2, <4>3
      <4> QED BY <3>2, <4>4 DEF a, c
    <3> QED BY <3>1, <3>2
  <2>3. Numbered(batch_queue, q, r) /\ Advances(q, p, t)
    BY <1>8, <2>1, <2>2 DEF Advances
  <2> QED BY <1>5, <2>3
<1>13. ASSUME NEW s \in Request
       PROVE  /\ InOrder(requests'[s])
              /\ requests'[s].status \in Alive => Numbered(later, requests'[s], s)
  <2>1. CASE s = r
    BY <1>11, <1>12, <2>1 DEF p
  <2>2. CASE s # r
    BY <1>5, <1>6, <2>2 DEF Ordered
  <2> QED BY <2>1, <2>2
<1> QED BY <1>13 DEF Ordered, later

(***************************************************************************)
(* The worker finishing a batch leaves the numbers of tokens as they are:  *)
(* the token it samples for r is the one after those it computed, and it   *)
(* computed all there are.                                                 *)
(***************************************************************************)
LEMMA RunsNumbers ==
    ASSUME NEW queue, NEW later, NEW r \in Request, Delivers(queue, later, r),
           \A i \in DOMAIN queue : BatchOK(queue[i]), NEW q, Numbered(queue, q, r)
    PROVE  Numbered(later, q, r)
<1>1. PICK i :
         /\ Runs(queue, later, i)
         /\ \A k \in DOMAIN queue[i].out.reqs :
               queue[i].out.reqs[k].id = r =>
                  /\ Samples(queue[i].out.reqs[k]) <=> later[i].sampled[k] # <<>>
                  /\ later[i].sampled[k] # <<>> =>
                        later[i].sampled[k][1][1] = SeqLen(queue[i].out.reqs[k]) + 1
  BY DEF Delivers
<1> DEFINE b == queue[i]
           c == later[i]
           s == b.out.reqs
           t == c.sampled
<1>2. /\ i \in DOMAIN queue /\ ~b.done /\ DOMAIN later = DOMAIN queue /\ Len(later) = Len(queue)
      /\ \A j \in DOMAIN queue : j # i => later[j] = queue[j]
      /\ c.out = b.out /\ c.done = TRUE
  BY <1>1 DEF Runs
<1>3. \A k \in DOMAIN s :
         s[k].id = r => /\ Samples(s[k]) <=> t[k] # <<>>
                        /\ t[k] # <<>> => t[k][1][1] = SeqLen(s[k]) + 1
  BY <1>1
<1>4. \A k \in DOMAIN s : IsOutput(s[k])
  BY <1>2 DEF BatchOK
<1>5. c.out.reqs = s
  BY <1>2
<1>6. Brings(b, r) <=> \E k \in DOMAIN s : s[k].id = r /\ Samples(s[k])
  BY <1>2 DEF Brings
<1>7. \A n : InPlace(b, r, n) => \A k \in DOMAIN s : s[k].id = r => Base(s[k]) = n /\ SeqLen(s[k]) <= n
  BY DEF InPlace
<1>8. queue[i] = b /\ later[i] = c
  OBVIOUS
<1> HIDE DEF b, c
<1>9. Brings(c, r) <=> \E k \in DOMAIN s : s[k].id = r /\ t[k] # <<>>
  BY <1>2, <1>5 DEF Brings
<1>10. Brings(c, r) <=> Brings(b, r)
  <2> HIDE DEF s, t
  <2> QED BY <1>3, <1>6, <1>9
<1>11. ASSUME NEW n, InPlace(b, r, n) PROVE InPlace(c, r, n)
  <2>1. ASSUME NEW k \in DOMAIN s, s[k].id = r
        PROVE  /\ Base(s[k]) = n /\ SeqLen(s[k]) <= n
               /\ t[k] # <<>> => t[k][1][1] = n + 1
    <3> DEFINE x == Base(s[k])
               y == SeqLen(s[k])
    <3>1. x = n /\ y <= n
      BY <1>7, <1>11, <2>1
    <3>2. x \in Nat /\ y \in Int
      <4> DEFINE e == s[k]
      <4>1. IsOutput(e) /\ Len(Prompt[r]) \in Nat /\ e.id = r
        BY <1>4, <2>1, PromptFacts
      <4> HIDE DEF e
      <4>2. /\ e.num_computed_tokens \in Int /\ e.num_scheduled_tokens \in Int
            /\ e.num_output_tokens \in Nat
        BY <4>1 DEF IsOutput
      <4>3. Base(e) = Len(Prompt[r]) + e.num_output_tokens
        BY <4>1 DEF Base
      <4>4. Base(e) \in Nat /\ SeqLen(e) \in Int
        BY <4>1, <4>2, <4>3 DEF SeqLen
      <4> QED BY <4>4 DEF e
    <3>3. t[k] # <<>> => (y >= x /\ t[k][1][1] = y + 1)
      BY <1>3, <2>1 DEF Samples
    <3> HIDE DEF x, y
    <3>4. t[k] # <<>> => y = n
      BY <3>1, <3>2, <3>3
    <3> QED BY <3>1, <3>3, <3>4 DEF x, y
  <2> HIDE DEF s, t
  <2>2. \A k \in DOMAIN s : s[k].id = r => /\ Base(s[k]) = n /\ SeqLen(s[k]) <= n
                                           /\ t[k] # <<>> => t[k][1][1] = n + 1
    BY <2>1
  <2> QED BY <1>5, <2>2 DEF InPlace, t
<1>12. PICK g : Numbers(g, queue, q, r)
  BY DEF Numbered
<1>13. \A j \in DOMAIN queue : /\ Brings(later[j], r) <=> Brings(queue[j], r)
                               /\ \A n : InPlace(queue[j], r, n) => InPlace(later[j], r, n)
  BY <1>2, <1>8, <1>10, <1>11
<1>14. Numbers(g, later, q, r)
  <2> HIDE DEF s, t
  <2> QED BY <1>2, <1>12, <1>13 DEF Numbers
<1> QED BY <1>14 DEF Numbered

(***************************************************************************)
(* The worker finishing a batch keeps the fourth invariant.                *)
(***************************************************************************)
LEMMA ExecuteOrdered ==
    ASSUME IInv, InFlightInv, Ordered, AsyncScheduling, Execute
    PROVE  Ordered'
<1> DEFINE later == batch_queue'
<1>1. /\ requests' = requests
      /\ \A r \in Request : requests[r].status \in Alive => Delivers(batch_queue, later, r)
  BY ExecuteInFlight
<1>2. \A i \in DOMAIN batch_queue : BatchOK(batch_queue[i])
  BY DEF InFlightInv, Batches, BatchesOf
<1> HIDE DEF later
<1>3. ASSUME NEW r \in Request, requests[r].status \in Alive
      PROVE  Numbered(later, requests[r], r)
  <2>1. Numbered(batch_queue, requests[r], r) /\ Delivers(batch_queue, later, r)
    BY <1>1, <1>3 DEF Ordered
  <2> QED BY <1>2, <2>1, RunsNumbers
<1> QED BY <1>1, <1>3 DEF Ordered, later

(***************************************************************************)
(* The end of schedule() and the submission of the batch keep the fourth   *)
(* invariant: the batch counts on all the tokens there are, those in       *)
(* flight included.                                                        *)
(***************************************************************************)
LEMMA SubmitOrdered ==
    ASSUME IInv, InFlightInv, Sound, Ordered, AsyncScheduling, Submit,
           \A r \in Request : BatchQueueSize <= Len(Prompt[r]) + 1
    PROVE  Ordered'
<1> DEFINE s == step.scheduled
           ids == {s[i].id : i \in DOMAIN s}
           batch == [out |-> SchedulerOutput, done |-> FALSE, sampled |-> <<>>, reads_ok |-> TRUE]
<1>1. /\ batch_queue' = Append(batch_queue, batch)
      /\ \A r \in Request : r \notin ids => requests'[r] = requests[r]
  BY DEF Submit, schedule_end
<1>2. /\ DOMAIN batch.out.reqs = DOMAIN s /\ \A j \in DOMAIN s : batch.out.reqs[j] = OutputOf(s[j])
      /\ batch.done = FALSE
  BY DEF SchedulerOutput
<1> HIDE DEF batch
<1>3. \A j \in DOMAIN s :
         /\ s[j].id \in Request
         /\ Matches(batch.out.reqs[j], s[j], requests[s[j].id], requests'[s[j].id])
  BY <1>2, SubmitMatches
<1>4. /\ IsSeq(batch_queue) /\ Once(step)
      /\ \A j \in DOMAIN s : Reaches(requests[s[j].id], s[j].num_scheduled_tokens)
  BY DEF IInv, BatchesOK, Sound, Entries, EntriesOf, EntryOK
<1>5. \A j \in DOMAIN s :
         LET e == batch.out.reqs[j]
         IN /\ e.id = s[j].id /\ Base(e) = Known(requests[s[j].id])
            /\ Left(e) = Known(requests'[s[j].id])
            /\ requests'[s[j].id].tokens = requests[s[j].id].tokens
            /\ requests'[s[j].id].status = requests[s[j].id].status
  BY <1>3 DEF Matches
<1>6. \A j \in DOMAIN s : SeqLen(batch.out.reqs[j]) <= Known(requests[s[j].id])
  <2> SUFFICES ASSUME NEW j \in DOMAIN s
               PROVE  SeqLen(batch.out.reqs[j]) <= Known(requests[s[j].id])
    OBVIOUS
  <2>1. SeqLen(OutputOf(s[j])) = requests[s[j].id].num_computed_tokens + s[j].num_scheduled_tokens
    BY DEF SeqLen, OutputOf
  <2> QED BY <1>2, <1>4, <2>1 DEF Reaches, Known
<1>7. \A r : Brings(batch, r) <=> \E j \in DOMAIN s : s[j].id = r /\ Samples(batch.out.reqs[j])
  BY <1>2, <1>5 DEF Brings
<1>8. \A r \in Request : requests'[r].tokens = requests[r].tokens
                         /\ requests'[r].status = requests[r].status
  BY <1>1, <1>5
<1>9. ASSUME NEW r \in Request, requests[r].status \in Alive
      PROVE  Numbered(Append(batch_queue, batch), requests'[r], r)
  <2> DEFINE q == requests[r]
             p == requests'[r]
  <2>1. Numbered(batch_queue, q, r) /\ p.tokens = q.tokens
    BY <1>8, <1>9 DEF Ordered
  <2>2. InPlace(batch, r, Known(q))
    BY <1>2, <1>5, <1>6 DEF InPlace
  <2>3. Known(p) = IF Brings(batch, r) THEN Known(q) + 1 ELSE Known(q)
    <3>1. CASE r \notin ids
      <4>1. ~Brings(batch, r) /\ p = q
        BY <1>1, <1>7, <3>1
      <4> QED BY <4>1
    <3>2. CASE r \in ids
      <4>1. PICK j \in DOMAIN s : s[j].id = r
        BY <3>2
      <4>2. Brings(batch, r) <=> Samples(batch.out.reqs[j])
        BY <1>4, <1>7, <4>1 DEF Once
      <4>3. Base(batch.out.reqs[j]) = Known(q) /\ Left(batch.out.reqs[j]) = Known(p)
        BY <1>5, <4>1
      <4> QED BY <4>2, <4>3 DEF Left
    <3> QED BY <3>1, <3>2
  <2> HIDE DEF q, p
  <2>4. Numbered(Append(batch_queue, batch), p, r)
    BY <1>4, <2>1, <2>2, <2>3, AppendNumbers
  <2> QED BY <2>4 DEF p
<1>10. \A r \in Request : InOrder(requests'[r])
  BY <1>8 DEF Ordered, InOrder
<1> QED BY <1>1, <1>8, <1>9, <1>10 DEF Ordered

(***************************************************************************)
(* The fourth invariant holds when the engine starts.                      *)
(***************************************************************************)
LEMMA InitOrdered ==
    ASSUME Init
    PROVE  Ordered
<1>1. requests = [r \in Request |-> NewRequest(r, "NONE")]
  BY DEF Init, InitScheduler
<1>2. \A r \in Request : requests[r].status = "NONE" /\ requests[r].tokens = PromptTokens(r)
  BY <1>1 DEF NewRequest
<1>3. ASSUME NEW r \in Request PROVE InOrder(requests[r])
  <2>1. \A i \in DOMAIN PromptTokens(r) : PromptTokens(r)[i][1] = i
    BY DEF PromptTokens
  <2> QED BY <1>2, <2>1 DEF InOrder
<1> QED BY <1>2, <1>3 DEF Ordered, Alive

(***************************************************************************)
(* abort_requests keeps the fourth invariant.                              *)
(***************************************************************************)
LEMMA AbortOrdered ==
    ASSUME IInv, Ordered, NEW r \in Request, Abort(r)
    PROVE  Ordered'
<1>1. requests' = [requests EXCEPT ![r].status = "FINISHED_ABORTED"] /\ batch_queue' = batch_queue
  BY DEF Abort, finish_requests, engineVars
<1>2. DOMAIN requests = Request /\ \A s \in Request : IsRequest(requests[s])
  BY Basics
<1>3. /\ \A s \in Request : s # r => requests'[s] = requests[s]
      /\ requests'[r] = [requests[r] EXCEPT !.status = "FINISHED_ABORTED"]
  BY <1>1, <1>2
<1>4. /\ requests'[r].status \notin Alive /\ requests'[r].tokens = requests[r].tokens
      /\ requests'[r].num_output_placeholders = requests[r].num_output_placeholders
  BY <1>2, <1>3 DEF IsRequest, Alive
<1> QED BY <1>1, <1>3, <1>4, CarryOrdered

(***************************************************************************)
(* A step of schedule() keeps the fourth invariant: preempting a request   *)
(* or admitting one changes neither its tokens nor its placeholders.       *)
(***************************************************************************)
LEMMA ScheduleOrdered ==
    ASSUME IInv, Sound, Ordered, Schedule
    PROVE  Ordered'
<1>1. batch_queue' = batch_queue
  BY DEF Schedule, engineVars
<1>2. /\ DOMAIN requests = Request /\ \A r \in Request : IsRequest(requests[r])
      /\ \A x \in Request : x \in Range(running) <=> requests[x].status = "RUNNING"
      /\ \A x \in Request : x \in Range(waiting) <=> requests[x].status \in Queued
      /\ running \in Seq(Request) /\ waiting \in Seq(Request)
  BY Basics DEF IInv, QueuesOK, Placed
<1>3. CASE SkipRunning \/ EnterRunning \/ RunningDone \/ ScheduleRunning
  <2>1. requests' = requests
    BY <1>3 DEF SkipRunning, EnterRunning, RunningDone, ScheduleRunning
  <2> QED BY <1>1, <2>1, CarryOrdered
<1>4. CASE PreemptForRunning
  <2> DEFINE v == Victim
  <2>1. /\ requests' = [requests EXCEPT ![v].status = "PREEMPTED", ![v].num_computed_tokens = 0]
        /\ step.request # NoRequest
    BY <1>4 DEF PreemptForRunning, Preempt, InnerLoop
  <2>2. step.request \in Range(running)
    BY <2>1 DEF IInv, StepOK, Sound, Entries, EntriesOf, Asking
  <2>3. v \in Request /\ requests[v].status = "RUNNING"
    <3>1. running # <<>>
      BY <2>2 DEF Range
    <3>2. v \in Range(running)
      BY <1>2, <3>1, VictimRuns
    <3> HIDE DEF v
    <3> QED BY <1>2, <3>2 DEF Range
  <2> HIDE DEF v
  <2>4. /\ \A r \in Request : r # v => requests'[r] = requests[r]
        /\ requests'[v] = [requests[v] EXCEPT !.status = "PREEMPTED", !.num_computed_tokens = 0]
    BY <1>2, <2>1, <2>3
  <2>5. /\ requests'[v].tokens = requests[v].tokens /\ requests[v].status \in Alive
        /\ requests'[v].num_output_placeholders = requests[v].num_output_placeholders
    BY <1>2, <2>3, <2>4 DEF IsRequest, Alive
  <2> QED BY <1>1, <2>4, <2>5, CarryOrdered
<1>5. CASE ScheduleWaiting
  <2> DEFINE v == Head(waiting)
             c == Len(get_computed_blocks(manager, requests[v].tokens)) * BlockSize
  <2>1. /\ requests' = [requests EXCEPT ![v].status = "RUNNING", ![v].num_computed_tokens = c]
        /\ waiting # <<>>
    BY <1>5 DEF ScheduleWaiting, CanAdmit
  <2>2. v \in Request /\ v \in Range(waiting)
    BY <1>2, <2>1, TailFacts
  <2> HIDE DEF v, c
  <2>3. /\ \A r \in Request : r # v => requests'[r] = requests[r]
        /\ requests'[v] = [requests[v] EXCEPT !.status = "RUNNING", !.num_computed_tokens = c]
    BY <1>2, <2>1, <2>2
  <2>4. /\ requests'[v].tokens = requests[v].tokens /\ requests[v].status \in Alive
        /\ requests'[v].num_output_placeholders = requests[v].num_output_placeholders
    BY <1>2, <2>2, <2>3 DEF IsRequest, Alive, Queued
  <2> QED BY <1>1, <2>3, <2>4, CarryOrdered
<1> QED BY <1>3, <1>4, <1>5 DEF Schedule

(***************************************************************************)
(* Every step keeps the fourth invariant, under async scheduling, if no    *)
(* reset preempts the running requests and prompts are as long as batches  *)
(* may be behind.                                                          *)
(***************************************************************************)
LEMMA NextOrdered ==
    ASSUME AsyncScheduling, ~ResetRunningAllowed,
           \A r \in Request : BatchQueueSize <= Len(Prompt[r]) + 1,
           IInv, Sound, InFlightInv, Ordered, [Next]_vars
    PROVE  Ordered'
<1>1. CASE Client
  <2>1. CASE \E r \in Request : Add(r)
    BY <2>1, AddOrdered
  <2>2. CASE \E r \in Request : Abort(r)
    BY <2>2, AbortOrdered
  <2>3. CASE \E b \in {FALSE, ResetRunningAllowed} : Reset(b)
    <3>1. PICK b \in {FALSE, ResetRunningAllowed} : Reset(b)
      BY <2>3
    <3>2. ~b
      BY <3>1
    <3>3. /\ IF b THEN ResetRunning ELSE ResetIdle
          /\ UNCHANGED <<runnerVars, phase, batch_queue>>
      BY <3>1 DEF Reset
    <3>4. requests' = requests /\ batch_queue' = batch_queue
      BY <3>2, <3>3 DEF ResetIdle
    <3> QED BY <3>4, CarryOrdered
  <2> QED BY <1>1, <2>1, <2>2, <2>3 DEF Client
<1>2. CASE Engine
  <2>1. CASE StepStart
    <3>1. requests' = requests /\ batch_queue' = batch_queue
      BY <2>1 DEF StepStart, schedule_start, schedulerVars
    <3> QED BY <3>1, CarryOrdered
  <2>2. CASE Schedule
    BY <2>2, ScheduleOrdered
  <2>3. CASE Submit
    BY <2>3, SubmitOrdered
  <2>4. CASE UpdateRequest
    BY <2>4, UpdateRequestOrdered
  <2>5. CASE StepEnd
    BY <2>5, StepEndOrdered
  <2> QED BY <1>2, <2>1, <2>2, <2>3, <2>4, <2>5 DEF Engine
<1>3. CASE Execute
  BY <1>3, ExecuteOrdered
<1>4. CASE UNCHANGED vars
  <2>1. requests' = requests /\ batch_queue' = batch_queue
    BY <1>4 DEF vars, schedulerVars, engineVars
  <2> QED BY <2>1, CarryOrdered
<1> QED BY <1>1, <1>2, <1>3, <1>4 DEF Next

(***************************************************************************)
(* TokensInOrder under async scheduling: update_from_output appends the    *)
(* tokens of a request in the order of their positions, however many       *)
(* batches are in flight and whatever is preempted, resumed or aborted     *)
(* while they are; none is lost, repeated or taken for another.            *)
(***************************************************************************)
THEOREM AsyncTokensInOrder ==
    ASSUME AsyncScheduling, AsyncSafe
    PROVE  Spec => []TokensInOrder
<1>1. ~ResetRunningAllowed /\ \A r \in Request : BatchQueueSize <= Len(Prompt[r]) + 1
  BY DEF AsyncSafe
<1>2. Init => Ordered
  BY InitOrdered
<1>3. IInv /\ Sound /\ InFlightInv /\ Ordered /\ [Next]_vars => Ordered'
  BY <1>1, NextOrdered
<1>4. Spec => [](Sound /\ InFlightInv)
  BY <1>1, ThirdInductive
<1>5. Ordered => TokensInOrder
  BY DEF Ordered, InOrder, TokensInOrder
<1> QED BY <1>2, <1>3, <1>4, <1>5, Inductive, PTL DEF Spec
=============================================================================
