-------------------------- MODULE EngineSyncProof --------------------------
(***************************************************************************)
(* schedule() step by step, and the engine that has one batch at a time:   *)
(* the budget is what the batch leaves of it, the index stands at the      *)
(* request being scheduled, and what the worker is given and keeps is what *)
(* the scheduler believes: the tokens of each request, its blocks, and     *)
(* their content.                                                          *)
(***************************************************************************)
EXTENDS EngineAsyncProof

-----------------------------------------------------------------------------
(* The budget *)

\* The tokens of the requests in s, as ScheduledTokens.
TokensOf(s) == UNION {{e.id} \X (1 .. e.num_scheduled_tokens) : e \in Range(s)}

(***************************************************************************)
(* The tokens of one entry.                                                *)
(***************************************************************************)
LEMMA OneEntryTokens ==
    ASSUME NEW x, NEW n \in Nat
    PROVE  /\ IsFiniteSet({x} \X (1 .. n))
           /\ Cardinality({x} \X (1 .. n)) = n
<1>1. IsFiniteSet({x}) /\ Cardinality({x}) = 1
  BY FS_Singleton
<1>2. IsFiniteSet(1 .. n) /\ Cardinality(1 .. n) = n
  BY FS_Interval
<1>3. Cardinality({x} \X (1 .. n)) = Cardinality({x}) * Cardinality(1 .. n)
  BY <1>1, <1>2, FS_Product
<1> QED BY <1>1, <1>2, <1>3, FS_Product

(***************************************************************************)
(* The tokens of two disjoint parts of a batch add up.                     *)
(***************************************************************************)
LEMMA TokensAddUp ==
    ASSUME NEW S, IsFiniteSet(S), NEW x, NEW n \in Nat, \A w \in S : w[1] # x
    PROVE  LET T == S \cup ({x} \X (1 .. n))
           IN IsFiniteSet(T) /\ Cardinality(T) = Cardinality(S) + n
<1> DEFINE X == {x} \X (1 .. n)
<1>1. IsFiniteSet(X) /\ Cardinality(X) = n
  BY OneEntryTokens
<1>2. S \cap X = {}
  OBVIOUS
<1> HIDE DEF X
<1>3. Cardinality(S \cap X) = 0
  BY <1>2, FS_EmptySet
<1>4. Cardinality(S) \in Nat
  BY FS_CardinalityType
<1>5. IsFiniteSet(S \cup X) /\ Cardinality(S \cup X) = Cardinality(S) + n
  BY <1>1, <1>3, <1>4, FS_Union
<1> QED BY <1>5 DEF X

\* Sequence s of entries has each request once, and takes whole tokens.
IsBatchPart(s) ==
    /\ IsSeq(s)
    /\ \A i, j \in DOMAIN s : s[i].id = s[j].id => i = j
    /\ \A i \in DOMAIN s : s[i].num_scheduled_tokens \in Nat

(***************************************************************************)
(* A token of the batch belongs to a request of the batch.                 *)
(***************************************************************************)
LEMMA TokenOwner ==
    ASSUME NEW s, NEW w \in TokensOf(s)
    PROVE  \E i \in DOMAIN s : s[i].id = w[1]
<1>1. PICK e \in Range(s) : w \in {e.id} \X (1 .. e.num_scheduled_tokens)
  BY DEF TokensOf
<1>2. w[1] = e.id
  BY <1>1
<1> QED BY <1>1, <1>2 DEF Range

(***************************************************************************)
(* A request joins the batch.                                              *)
(***************************************************************************)
LEMMA TokensAppend ==
    ASSUME NEW s, IsSeq(s), IsFiniteSet(TokensOf(s)), NEW e, e.num_scheduled_tokens \in Nat,
           \A i \in DOMAIN s : s[i].id # e.id
    PROVE  /\ IsFiniteSet(TokensOf(Append(s, e)))
           /\ Cardinality(TokensOf(Append(s, e))) = Cardinality(TokensOf(s)) + e.num_scheduled_tokens
<1> DEFINE t == Append(s, e)
           X == {e.id} \X (1 .. e.num_scheduled_tokens)
<1>1. Range(t) = Range(s) \cup {e}
  <2>1. DOMAIN t = DOMAIN s \cup {Len(s) + 1} /\ t[Len(s) + 1] = e
        /\ \A i \in DOMAIN s : t[i] = s[i]
    BY SeqAppend
  <2> HIDE DEF t
  <2> QED BY <2>1 DEF Range
<1> HIDE DEF t
<1>2. TokensOf(t) = TokensOf(s) \cup X
  BY <1>1 DEF TokensOf
<1>3. \A w \in TokensOf(s) : w[1] # e.id
  BY TokenOwner
<1> HIDE DEF X
<1>4. IsFiniteSet(TokensOf(s) \cup X)
      /\ Cardinality(TokensOf(s) \cup X) = Cardinality(TokensOf(s)) + e.num_scheduled_tokens
  BY <1>3, TokensAddUp DEF X
<1> QED BY <1>2, <1>4 DEF t

(***************************************************************************)
(* A request leaves the batch.                                             *)
(***************************************************************************)
LEMMA TokensWithout ==
    ASSUME NEW s, IsBatchPart(s), IsFiniteSet(TokensOf(s)), NEW i \in DOMAIN s,
           NEW k, Range(k) = {e \in Range(s) : e.id # s[i].id}
    PROVE  /\ IsFiniteSet(TokensOf(k))
           /\ Cardinality(TokensOf(s)) = Cardinality(TokensOf(k)) + s[i].num_scheduled_tokens
<1> DEFINE e == s[i]
           X == {e.id} \X (1 .. e.num_scheduled_tokens)
<1>1. Range(s) = Range(k) \cup {e}
  <2>1. \A f \in Range(s) : f.id = e.id => f = e
    BY DEF IsBatchPart, Range
  <2>2. e \in Range(s)
    BY DEF Range
  <2> QED BY <2>1, <2>2
<1>2. e.num_scheduled_tokens \in Nat /\ \A f \in Range(k) : f.id # e.id
  BY DEF IsBatchPart
<1> HIDE DEF e
<1>3. TokensOf(s) = TokensOf(k) \cup X
  BY <1>1 DEF TokensOf
<1>4. IsFiniteSet(TokensOf(k))
  BY <1>3, FS_Subset
<1>5. \A w \in TokensOf(k) : w[1] # e.id
  <2> SUFFICES ASSUME NEW w \in TokensOf(k) PROVE w[1] # e.id
    OBVIOUS
  <2>1. PICK j \in DOMAIN k : k[j].id = w[1]
    BY TokenOwner
  <2>2. k[j] \in Range(k)
    BY DEF Range
  <2> QED BY <1>2, <2>1, <2>2
<1> HIDE DEF X
<1>6. Cardinality(TokensOf(k) \cup X) = Cardinality(TokensOf(k)) + e.num_scheduled_tokens
  BY <1>2, <1>4, <1>5, TokensAddUp DEF X
<1> QED BY <1>3, <1>4, <1>6 DEF e

\* s has the budget that its batch leaves, and asks for no more than that.
BudgetOf(s) ==
    /\ s.token_budget \in 0 .. MaxNumScheduledTokens
    /\ s.loop # "none" =>
          /\ IsFiniteSet(TokensOf(s.scheduled))
          /\ s.token_budget + Cardinality(TokensOf(s.scheduled)) = MaxNumScheduledTokens
    /\ s.request # NoRequest => s.num_new_tokens <= s.token_budget

Budget == BudgetOf(step)

(***************************************************************************)
(* A chunk fits the budget.                                                *)
(***************************************************************************)
LEMMA ChunkFits ==
    ASSUME step.token_budget \in Nat, NEW n \in Int
    PROVE  Chunk(n) \in Int /\ Chunk(n) <= step.token_budget
<1> QED BY SchedulerAssumption DEF Chunk, LesserOf

(***************************************************************************)
(* What schedule() asks for a running request fits the budget.             *)
(***************************************************************************)
LEMMA NumNewTokensFits ==
    ASSUME IInv, NEW r \in Request, step.token_budget \in Nat
    PROVE  NumNewTokens(r) \in Int /\ NumNewTokens(r) <= step.token_budget
<1> DEFINE q == requests[r]
           k == Len(q.tokens) + q.num_output_placeholders - q.num_computed_tokens
           l == MaxModelLen - 1 - q.num_computed_tokens
<1>1. k \in Int /\ l \in Int
  BY Basics, SizesAssumption DEF IsRequest, IsSeq
<1>2. NumNewTokens(r) = LesserOf(Chunk(k), l)
  BY DEF NumNewTokens
<1> HIDE DEF k, l
<1>3. Chunk(k) \in Int /\ Chunk(k) <= step.token_budget
  BY <1>1, ChunkFits
<1> QED BY <1>1, <1>2, <1>3 DEF LesserOf

(***************************************************************************)
(* The entries of the batch, for the budget.                               *)
(***************************************************************************)
LEMMA BatchPart ==
    ASSUME IInv, Sound
    PROVE  /\ IsBatchPart(step.scheduled) /\ IsStep(step)
           /\ \A i \in DOMAIN step.scheduled :
                 step.scheduled[i].id \in Range(running) /\ step.scheduled[i].id \in Request
           /\ step.request # NoRequest =>
                 /\ step.num_new_tokens \in Nat /\ step.request \in Range(running)
                 /\ step.loop = "running"
                 /\ \A i \in DOMAIN step.scheduled : step.scheduled[i].id # step.request
<1>1. IsStep(step) /\ IsSeq(step.scheduled) /\ running \in Seq(Request)
  BY DEF IInv, StepOK, IsStep, QueuesOK, Placed
<1>2. /\ Once(step) /\ Asking(step, running, requests)
      /\ \A i \in DOMAIN step.scheduled :
            EntryOK(step.scheduled[i], step, running, requests, manager,
                    prev_step_scheduled_req_ids)
  BY DEF Sound, Entries, EntriesOf
<1>3. IsBatchPart(step.scheduled)
  BY <1>1, <1>2 DEF IsBatchPart, Once, EntryOK, Reaches
<1>4. \A i \in DOMAIN step.scheduled :
         step.scheduled[i].id \in Range(running) /\ step.scheduled[i].id \in Request
  BY <1>1, <1>2 DEF EntryOK, IsStep, IsEntry
<1>5. step.request # NoRequest =>
         /\ step.num_new_tokens \in Nat /\ step.request \in Range(running)
         /\ step.loop = "running"
         /\ \A i \in DOMAIN step.scheduled : step.scheduled[i].id # step.request
  BY <1>2 DEF Asking, Reaches, EntryOK, Passed, Range
<1> QED BY <1>1, <1>3, <1>4, <1>5

(***************************************************************************)
(* schedule() walking along self.running spends nothing.                   *)
(***************************************************************************)
LEMMA WalkBudget ==
    ASSUME IInv, Sound, Budget, SkipRunning \/ EnterRunning \/ RunningDone
    PROVE  Budget'
<1>1. IsStep(step) /\ step.token_budget \in Nat
  BY DEF IInv, StepOK, Budget, BudgetOf
<1>2. running \in Seq(Request)
  BY DEF IInv, QueuesOK, Placed
<1>3. /\ step'.token_budget = step.token_budget /\ step'.scheduled = step.scheduled
      /\ step.loop = "running"
      /\ step'.request # NoRequest => step'.num_new_tokens <= step'.token_budget
  <2>1. CASE SkipRunning \/ RunningDone
    BY <1>1, <2>1 DEF SkipRunning, RunningDone, RunningLeft, IsStep, InnerLoop
  <2>2. CASE EnterRunning
    <3> DEFINE r == running[step.req_index]
    <3>1. /\ step' = [step EXCEPT !.request = r, !.num_new_tokens = NumNewTokens(r)]
          /\ step.loop = "running" /\ step.req_index <= Len(running)
      BY <2>2 DEF EnterRunning, RunningLeft
    <3>2. step.req_index \in 1 .. Len(running)
      BY <1>1, <3>1 DEF IsStep, IsSeq
    <3>3. r \in Request
      BY <1>2, <3>2
    <3> HIDE DEF r
    <3>4. NumNewTokens(r) <= step.token_budget
      BY <1>1, <3>3, NumNewTokensFits
    <3> QED BY <1>1, <3>1, <3>4 DEF IsStep
  <2> QED BY <2>1, <2>2
<1> QED BY <1>3 DEF Budget, BudgetOf

(***************************************************************************)
(* The budget of a batch that one request joined.                          *)
(***************************************************************************)
LEMMA JoinBudget ==
    ASSUME IInv, Sound, Budget, step.loop # "none", NEW e, e.num_scheduled_tokens \in Nat,
           e.num_scheduled_tokens <= step.token_budget,
           \A i \in DOMAIN step.scheduled : step.scheduled[i].id # e.id,
           step'.scheduled = Append(step.scheduled, e),
           step'.token_budget = step.token_budget - e.num_scheduled_tokens,
           step'.request = NoRequest
    PROVE  Budget'
<1> DEFINE k == e.num_scheduled_tokens
           a == Cardinality(TokensOf(step.scheduled))
           b == Cardinality(TokensOf(step'.scheduled))
<1>1. /\ step.token_budget \in 0 .. MaxNumScheduledTokens
      /\ IsFiniteSet(TokensOf(step.scheduled)) /\ step.token_budget + a = MaxNumScheduledTokens
  BY DEF Budget, BudgetOf
<1>2. IsSeq(step.scheduled) /\ a \in Nat
  BY <1>1, FS_CardinalityType DEF IInv, StepOK, IsStep
<1>3. IsFiniteSet(TokensOf(step'.scheduled)) /\ b = a + k
  BY <1>1, <1>2, TokensAppend
<1> HIDE DEF a, b
<1>4. step'.token_budget \in 0 .. MaxNumScheduledTokens
      /\ step'.token_budget + b = MaxNumScheduledTokens
  BY <1>1, <1>2, <1>3, SchedulerAssumption
<1> QED BY <1>3, <1>4 DEF Budget, BudgetOf, b

(***************************************************************************)
(* What schedule() gives a running request comes out of the budget.        *)
(***************************************************************************)
LEMMA ScheduleRunningBudget ==
    ASSUME IInv, Sound, Budget, ScheduleRunning
    PROVE  Budget'
<1>1. PICK blocks : step' = [step EXCEPT
                        !.scheduled = Append(@, Scheduled(step.request, "running",
                                                          step.num_new_tokens, blocks)),
                        !.token_budget = @ - step.num_new_tokens, !.req_index = @ + 1,
                        !.request = NoRequest, !.num_new_tokens = 0]
  BY DEF ScheduleRunning
<1> DEFINE e == Scheduled(step.request, "running", step.num_new_tokens, blocks)
<1>2. e.id = step.request /\ e.num_scheduled_tokens = step.num_new_tokens
  BY DEF Scheduled
<1>3. step.request # NoRequest
  BY DEF ScheduleRunning, InnerLoop
<1> HIDE DEF e
<1>4. /\ IsStep(step) /\ step.num_new_tokens \in Nat /\ step.loop = "running"
      /\ \A i \in DOMAIN step.scheduled : step.scheduled[i].id # step.request
  BY <1>3, BatchPart
<1>5. step.num_new_tokens <= step.token_budget
  BY <1>3 DEF Budget, BudgetOf
<1>6. /\ step'.scheduled = Append(step.scheduled, e)
      /\ step'.token_budget = step.token_budget - step.num_new_tokens
      /\ step'.request = NoRequest
  BY <1>1, <1>4 DEF IsStep, e
<1> QED BY <1>2, <1>4, <1>5, <1>6, JoinBudget

(***************************************************************************)
(* What schedule() finds for the waiting request it admits: hits, and a    *)
(* chunk of the tokens after them.                                         *)
(***************************************************************************)
LEMMA AdmitFacts ==
    ASSUME IInv, Sound, ScheduleWaiting, step.token_budget \in Nat
    PROVE  LET r == Head(waiting)
               tokens == requests[r].tokens
               hits == get_computed_blocks(manager, tokens)
               c == Len(hits) * BlockSize
               k == Chunk(Len(tokens) - c)
           IN  /\ r \in Request /\ requests[r].status \in Queued /\ r \notin Range(running)
               /\ AreHits(hits, manager.pool, tokens) /\ MayHit(manager, requests, r, hits)
               /\ IsSeq(tokens) /\ c \in Nat /\ c <= Len(tokens) - 1
               /\ k \in Nat /\ k <= step.token_budget /\ c + k <= Len(tokens)
               /\ Len(tokens) < MaxModelLen
<1> DEFINE r == Head(waiting)
           tokens == requests[r].tokens
           hits == get_computed_blocks(manager, tokens)
           c == Len(hits) * BlockSize
           k == Chunk(Len(tokens) - c)
<1>1. waiting # <<>>
  BY DEF ScheduleWaiting, CanAdmit
<1>2. /\ waiting \in Seq(Request)
      /\ \A x \in Request : x \in Range(waiting) <=> requests[x].status \in Queued
      /\ \A x \in Request : x \in Range(running) <=> requests[x].status = "RUNNING"
      /\ ManagerOK(manager) /\ IsRequest(requests[r])
  <2>1. waiting \in Seq(Request)
    BY DEF IInv, QueuesOK, Placed
  <2>2. r \in Request
    BY <1>1, <2>1, TailFacts
  <2> QED BY <2>1, <2>2, Basics DEF IInv, QueuesOK, Placed
<1>3. r \in Request /\ r \in Range(waiting)
  BY <1>1, <1>2, TailFacts
<1>4. requests[r].status \in Queued /\ r \notin Range(running) /\ manager.req_to_blocks[r] = <<>>
  BY <1>2, <1>3 DEF Queued, IInv, BlocksOK, Held
<1>5. IsSeq(tokens) /\ tokens # <<>> /\ Len(tokens) \in Nat /\ Len(tokens) < MaxModelLen
  BY <1>2, <1>3, <1>4 DEF IsRequest, IsSeq, Sound, TokensCounted, CountsOf, Counts, Queued, Alive
<1>6. AreHits(hits, manager.pool, tokens) /\ c <= Len(tokens) - 1
  <2> HIDE DEF tokens
  <2> QED BY <1>2, <1>5, ComputedBlocksFacts
<1>7. c \in Nat
  <2>1. Len(hits) \in Nat
    BY <1>6 DEF AreHits
  <2> HIDE DEF hits
  <2> QED BY <2>1, SizesAssumption
<1>8. MayHit(manager, requests, r, hits)
  BY <1>4, <1>6 DEF MayHit
<1> HIDE DEF hits, c
<1>9. Len(tokens) - c \in Nat
  BY <1>5, <1>6, <1>7
<1>10. k \in Nat /\ k <= Len(tokens) - c /\ k <= step.token_budget
  <2>1. Len(tokens) - c \in Int
    BY <1>9
  <2> QED BY <1>9, <2>1, ChunkFacts, ChunkFits
<1> HIDE DEF k
<1>11. c + k <= Len(tokens)
  <2> HIDE DEF tokens
  <2> QED BY <1>5, <1>7, <1>10
<1> QED BY <1>3, <1>4, <1>5, <1>6, <1>7, <1>8, <1>10, <1>11 DEF hits, c, k

(***************************************************************************)
(* What schedule() gives a waiting request comes out of the budget.        *)
(***************************************************************************)
LEMMA ScheduleWaitingBudget ==
    ASSUME IInv, Sound, Budget, ScheduleWaiting
    PROVE  Budget'
<1> DEFINE r == Head(waiting)
           tokens == requests[r].tokens
           hits == get_computed_blocks(manager, tokens)
           c == Len(hits) * BlockSize
           k == Chunk(Len(tokens) - c)
<1>1. /\ step.loop = "waiting"
      /\ \E kind, blocks : step' = [step EXCEPT !.scheduled = Append(@, Scheduled(r, kind, k, blocks)),
                                                !.token_budget = @ - k]
  BY DEF ScheduleWaiting, CanAdmit
<1>2. r \in Request /\ r \notin Range(running) /\ k \in Nat /\ k <= step.token_budget
  <2>1. step.token_budget \in Nat
    BY DEF Budget, BudgetOf
  <2> QED BY <2>1, AdmitFacts
<1> HIDE DEF k, r
<1>3. PICK kind, blocks : step' = [step EXCEPT !.scheduled = Append(@, Scheduled(r, kind, k, blocks)),
                                               !.token_budget = @ - k]
  BY <1>1
<1> DEFINE e == Scheduled(r, kind, k, blocks)
<1>4. e.id = r /\ e.num_scheduled_tokens = k
  BY DEF Scheduled
<1> HIDE DEF e
<1>5. /\ IsStep(step) /\ step.request = NoRequest
      /\ \A i \in DOMAIN step.scheduled : step.scheduled[i].id # r
  BY <1>1, <1>2, BatchPart
<1>6. /\ step'.scheduled = Append(step.scheduled, e) /\ step'.token_budget = step.token_budget - k
      /\ step'.request = NoRequest
  BY <1>3, <1>5 DEF IsStep, e
<1> QED BY <1>1, <1>2, <1>4, <1>5, <1>6, JoinBudget

(***************************************************************************)
(* Under the priority policy a victim's tokens come back to the budget.    *)
(***************************************************************************)
LEMMA PreemptBudget ==
    ASSUME IInv, Sound, Budget, PreemptForRunning
    PROVE  Budget'
<1> DEFINE v == Victim
           s == step.scheduled
           taken == {i \in DOMAIN s : s[i].id = v}
           back == IF taken = {} THEN 0 ELSE s[CHOOSE i \in taken : TRUE].num_scheduled_tokens
           S == {e \in Range(s) : e.id # v}
           k == Keep(s, S)
           a == Cardinality(TokensOf(s))
           b == Cardinality(TokensOf(k))
<1>1. /\ step.request # NoRequest
      /\ step' = [Unscheduled(v) EXCEPT !.loop = IF v = step.request THEN "waiting" ELSE @,
                                        !.request = IF v = step.request THEN NoRequest ELSE @,
                                        !.num_new_tokens = IF v = step.request THEN 0 ELSE @,
                                        !.preempted = TRUE]
  BY DEF PreemptForRunning, InnerLoop
<1>2. IsBatchPart(s) /\ IsStep(step) /\ step.loop = "running"
  BY <1>1, BatchPart
<1>3. Unscheduled(v) = [step EXCEPT !.scheduled = k, !.token_budget = @ + back,
                                    !.req_index = StepBack(@, taken)]
  BY DEF Unscheduled
<1>4. /\ step.token_budget \in 0 .. MaxNumScheduledTokens /\ IsFiniteSet(TokensOf(s))
      /\ step.token_budget + a = MaxNumScheduledTokens
      /\ step.num_new_tokens <= step.token_budget /\ step.num_new_tokens \in Int
  BY <1>1, <1>2 DEF Budget, BudgetOf, IsStep
<1>5. Range(k) = S
  <2>1. IsSeq(s)
    BY <1>2 DEF IsStep
  <2>2. Range(k) = Range(s) \cap S
    BY <2>1, SeqKeep
  <2> QED BY <2>2
<1>6. back \in Nat /\ IsFiniteSet(TokensOf(k)) /\ a = b + back
  <2>1. CASE taken = {}
    <3>1. S = Range(s)
      BY <2>1 DEF Range
    <3>2. TokensOf(k) = TokensOf(s)
      BY <1>5, <3>1 DEF TokensOf
    <3>3. a \in Nat
      BY <1>4, FS_CardinalityType
    <3> QED BY <1>4, <2>1, <3>2, <3>3
  <2>2. CASE taken # {}
    <3> DEFINE i == CHOOSE j \in taken : TRUE
    <3>1. i \in taken
      BY <2>2
    <3>2. i \in DOMAIN s /\ s[i].id = v /\ back = s[i].num_scheduled_tokens
      BY <2>2, <3>1
    <3>3. Range(k) = {e \in Range(s) : e.id # s[i].id}
      BY <1>5, <3>2
    <3>4. back \in Nat
      BY <1>2, <3>2 DEF IsBatchPart
    <3> HIDE DEF i, s, k, S, back
    <3> QED BY <1>2, <1>4, <3>2, <3>3, <3>4, TokensWithout
  <2> QED BY <2>1, <2>2
<1> HIDE DEF back, k, S, taken
<1>7. /\ step'.scheduled = k /\ step'.token_budget = step.token_budget + back
      /\ step'.request # NoRequest => step'.num_new_tokens = step.num_new_tokens
  BY <1>1, <1>2, <1>3 DEF IsStep
<1>8. b \in Nat
  BY <1>6, FS_CardinalityType
<1> HIDE DEF a, b, s, v
<1>9. step'.token_budget \in 0 .. MaxNumScheduledTokens
      /\ step'.token_budget + b = MaxNumScheduledTokens
      /\ step.num_new_tokens <= step'.token_budget
  BY <1>4, <1>6, <1>7, <1>8, SchedulerAssumption
<1> QED BY <1>6, <1>7, <1>9 DEF Budget, BudgetOf, b

(***************************************************************************)
(* Every step of the engine keeps the budget.                              *)
(***************************************************************************)
LEMMA NextBudget ==
    ASSUME IInv, Sound, Budget, [Next]_vars
    PROVE  Budget'
<1>1. ASSUME step' = step PROVE Budget'
  BY <1>1 DEF Budget
<1>2. ASSUME step' = NoStep PROVE Budget'
  BY <1>2, SchedulerAssumption DEF Budget, BudgetOf, NoStep
<1>3. ASSUME Client PROVE step' = step
  BY <1>3 DEF Client, Add, add_request, Abort, finish_requests, Reset, ResetIdle, ResetRunning
<1>4. ASSUME StepStart PROVE Budget'
  <2>1. CASE schedule_start
    <3> DEFINE s == [NoStep EXCEPT !.loop = "running", !.token_budget = MaxNumScheduledTokens]
    <3>1. step' = s
      BY <2>1 DEF schedule_start
    <3>2. s.token_budget = MaxNumScheduledTokens /\ s.scheduled = <<>> /\ s.request = NoRequest
      BY DEF NoStep
    <3>3. TokensOf(s.scheduled) = {}
      BY <3>2 DEF TokensOf, Range
    <3> HIDE DEF s
    <3>4. IsFiniteSet(TokensOf(s.scheduled)) /\ Cardinality(TokensOf(s.scheduled)) = 0
      BY <3>3, FS_EmptySet
    <3> DEFINE a == Cardinality(TokensOf(s.scheduled))
    <3>5. s.token_budget \in 0 .. MaxNumScheduledTokens /\ s.token_budget + a = MaxNumScheduledTokens
      BY <3>2, <3>4, SchedulerAssumption
    <3> HIDE DEF a
    <3>6. BudgetOf(s)
      BY <3>2, <3>4, <3>5 DEF BudgetOf, a
    <3> QED BY <3>1, <3>6 DEF Budget
  <2>2. CASE UNCHANGED schedulerVars
    BY <1>1, <2>2 DEF schedulerVars
  <2> QED BY <1>4, <2>1, <2>2 DEF StepStart
<1>5. ASSUME Schedule PROVE Budget'
  BY <1>5, WalkBudget, ScheduleRunningBudget, ScheduleWaitingBudget, PreemptBudget DEF Schedule
<1>6. ASSUME Submit PROVE step' = NoStep
  BY <1>6 DEF Submit, schedule_end
<1>7. ASSUME UpdateRequest \/ StepEnd \/ Execute PROVE step' = step
  BY <1>7 DEF UpdateRequest, update_request, IgnoreOutput, ApplyOutput, StepEnd, Execute, schedulerVars
<1>8. CASE UNCHANGED vars
  BY <1>1, <1>8 DEF vars, schedulerVars
<1> QED BY <1>1, <1>2, <1>3, <1>4, <1>5, <1>6, <1>7, <1>8 DEF Next, Engine

(***************************************************************************)
(* The second invariant holds of the engine, whichever way it schedules.   *)
(***************************************************************************)
LEMMA AlwaysSound ==
    ASSUME AsyncSafe
    PROVE  Spec => []Sound
<1>1. ASSUME AsyncScheduling PROVE Spec => []Sound
  <2>1. ~ResetRunningAllowed /\ \A r \in Request : BatchQueueSize <= Len(Prompt[r]) + 1
    BY <1>1 DEF AsyncSafe
  <2>2. Spec => [](Sound /\ InFlightInv)
    BY <1>1, <2>1, ThirdInductive
  <2> QED BY <2>2, PTL
<1>2. ASSUME ~AsyncScheduling PROVE Spec => []Sound
  <2>1. SoundUnlessUnderflow => Sound
    BY <1>2 DEF SoundUnlessUnderflow
  <2> QED BY <2>1, SecondInductive, PTL
<1> QED BY <1>1, <1>2

(***************************************************************************)
(* What schedule() has spent and what it has left always make up the       *)
(* budget.                                                                 *)
(***************************************************************************)
LEMMA AlwaysBudget ==
    ASSUME AsyncSafe
    PROVE  Spec => []Budget
<1>1. Init => Budget
  BY SchedulerAssumption DEF Init, InitScheduler, Budget, BudgetOf, NoStep
<1>2. IInv /\ Sound /\ Budget /\ [Next]_vars => Budget'
  BY NextBudget
<1>3. Spec => []Sound
  BY AlwaysSound
<1> QED BY <1>1, <1>2, <1>3, Inductive, PTL DEF Spec

-----------------------------------------------------------------------------
(* Types *)

\* There is room for the batch of a step that begins.
QueueFits ==
    /\ phase \in {"input", "schedule", "output", "update"}
    /\ Len(batch_queue) <= BatchQueueSize
    /\ phase \in {"input", "schedule"} => Len(batch_queue) < BatchQueueSize

(***************************************************************************)
(* Every step of the engine keeps the batches within batch_queue_size.     *)
(***************************************************************************)
LEMMA NextFits ==
    ASSUME IInv, QueueFits, [Next]_vars
    PROVE  QueueFits'
<1> DEFINE n == Len(batch_queue)
<1>1. IsSeq(batch_queue) /\ n \in Nat /\ BatchQueueSize \in Nat \ {0}
      /\ (phase \in {"output", "update"} => batch_queue # <<>>)
  BY EngineAssumption DEF IInv, BatchesOK, IsSeq
<1>2. ASSUME phase' = phase, Len(batch_queue') = Len(batch_queue) PROVE QueueFits'
  BY <1>2 DEF QueueFits
<1>3. CASE UNCHANGED vars
  BY <1>2, <1>3 DEF vars, engineVars
<1>4. CASE Client
  <2>1. phase' = phase /\ batch_queue' = batch_queue
    BY <1>4 DEF Client, Add, Abort, Reset, engineVars
  <2> QED BY <1>2, <2>1
<1>5. CASE StepStart
  BY <1>5 DEF StepStart, QueueFits
<1>6. CASE Schedule
  BY <1>2, <1>6 DEF Schedule, engineVars
<1>7. CASE Submit
  <2>1. Len(batch_queue') = n + 1
    <3>1. \E b : batch_queue' = Append(batch_queue, b)
      BY <1>7 DEF Submit
    <3> QED BY <1>1, <3>1, SeqAppend
  <2>2. n < BatchQueueSize
    BY <1>7 DEF Submit, QueueFits
  <2>3. phase' = "output" \/ (phase' = "input" /\ n + 1 < BatchQueueSize)
    BY <1>7 DEF Submit
  <2> HIDE DEF n
  <2> QED BY <1>1, <2>1, <2>2, <2>3 DEF QueueFits
<1>8. CASE UpdateRequest
  <2>1. phase' = "update" /\ phase \in {"output", "update"}
        /\ batch_queue' = [batch_queue EXCEPT ![1].out.reqs = Tail(@), ![1].sampled = Tail(@)]
    BY <1>8 DEF UpdateRequest
  <2>2. Len(batch_queue') = n
    BY <1>1, <2>1 DEF IsSeq
  <2> QED BY <2>1, <2>2 DEF QueueFits
<1>9. CASE StepEnd
  <2>1. phase \in {"output", "update"} /\ phase' = "input" /\ batch_queue' = Tail(batch_queue)
    BY <1>9 DEF StepEnd
  <2>2. Len(batch_queue') = n - 1
    BY <1>1, <2>1, SeqTail
  <2>3. n <= BatchQueueSize
    BY DEF QueueFits
  <2> HIDE DEF n
  <2> QED BY <1>1, <2>1, <2>2, <2>3 DEF QueueFits
<1>10. CASE Execute
  <2>1. phase' = phase
    BY <1>10 DEF Execute
  <2>3. PICK i \in DOMAIN batch_queue :
            \E value \in [ScheduledIds(batch_queue[i].out) -> SampledValues] :
                batch_queue' =
                   [batch_queue EXCEPT
                      ![i].done = TRUE,
                      ![i].sampled = [k \in DOMAIN batch_queue[i].out.reqs |->
                                        SampledToken(batch_queue[i].out, batch_queue[i].out.reqs[k], value)],
                      ![i].reads_ok = ReadsOwnPrefix(batch_queue[i].out)]
    BY <1>10 DEF Execute
  <2>4. PICK z : batch_queue' = [batch_queue EXCEPT ![i] = z]
    BY <2>3
  <2>2. Len(batch_queue') = n
    <3>1. batch_queue \in Seq(Range(batch_queue))
      BY <1>1 DEF IsSeq
    <3> QED BY <2>4, <3>1
  <2> QED BY <1>2, <2>1, <2>2
<1> QED BY <1>3, <1>4, <1>5, <1>6, <1>7, <1>8, <1>9, <1>10 DEF Next, Engine

(***************************************************************************)
(* The types that the invariants say.                                      *)
(***************************************************************************)
LEMMA InvariantTypes ==
    ASSUME IInv, Sound, Budget, QueueFits,
           \A r \in Request : requests[r].num_output_placeholders <= BatchQueueSize
    PROVE  TypeOK
<1>1. Range(waiting) \cup Range(running) \subseteq Request
  BY DEF IInv, QueuesOK, Placed, Range
<1>2. ManagerOK(manager)
  BY Basics
<1>3. Range(manager.pool.free) \subseteq Block \ {NullBlock}
  BY <1>2 DEF ManagerOK, IsManager, IsPool, RealBlock, Range
<1>4. ASSUME NEW r \in Request
      PROVE  /\ requests[r].status \in Status
             /\ requests[r].num_computed_tokens \in 0 .. MaxModelLen
             /\ requests[r].num_output_placeholders \in 0 .. BatchQueueSize
             /\ Range(manager.req_to_blocks[r]) \subseteq Block
  <2>1. IsRequest(requests[r])
    BY Basics
  <2>2. Counts(requests[r], Slots(manager, r))
    BY DEF Sound, TokensCounted, CountsOf
  <2>3. requests[r].num_computed_tokens \in 0 .. MaxModelLen
    BY <2>2, SizesAssumption DEF Counts
  <2>4. requests[r].num_output_placeholders \in 0 .. BatchQueueSize
    BY <2>2, EngineAssumption DEF Counts
  <2>5. manager.req_to_blocks[r] \in Seq(RealBlock)
    BY <1>2 DEF ManagerOK, IsManager
  <2>6. Range(manager.req_to_blocks[r]) \subseteq Block
    BY <2>5 DEF Range, RealBlock
  <2> QED BY <2>1, <2>3, <2>4, <2>6 DEF IsRequest
<1>5. step.token_budget \in 0 .. MaxNumScheduledTokens
  BY DEF Budget, BudgetOf
<1> QED BY <1>1, <1>3, <1>4, <1>5 DEF TypeOK, QueueFits

(***************************************************************************)
(* The engine: every request has a known status and counts no more         *)
(* computed tokens than the model has room for, nor more placeholders than *)
(* there may be batches, nor fewer than none; queues and block tables      *)
(* hold requests and blocks; no more batches are in flight than            *)
(* batch_queue_size; and schedule() stays within its budget.               *)
(***************************************************************************)
THEOREM TypeCorrect ==
    ASSUME AsyncSafe
    PROVE  Spec => []TypeOK
<1> DEFINE Few == \A r \in Request : requests[r].num_output_placeholders <= BatchQueueSize
<1>1. Spec => []Few
  <2>1. ASSUME AsyncScheduling PROVE Spec => []Few
    <3>1. ~ResetRunningAllowed /\ \A r \in Request : BatchQueueSize <= Len(Prompt[r]) + 1
      BY <2>1 DEF AsyncSafe
    <3>2. Spec => [](Sound /\ InFlightInv)
      BY <2>1, <3>1, ThirdInductive
    <3>3. InFlightInv => Few
      BY DEF InFlightInv, Progress
    <3> QED BY <3>2, <3>3, PTL
  <2>2. ASSUME ~AsyncScheduling PROVE Spec => []Few
    <3>1. Sound => Few
      BY <2>2, EngineAssumption DEF Sound, TokensCounted, CountsOf, Counts
    <3>2. Spec => []Sound
      BY AlwaysSound
    <3> QED BY <3>1, <3>2, PTL
  <2> QED BY <2>1, <2>2
<1>2. Init => QueueFits
  BY EngineAssumption DEF Init, QueueFits
<1>3. IInv /\ QueueFits /\ [Next]_vars => QueueFits'
  BY NextFits
<1>4. IInv /\ Sound /\ Budget /\ QueueFits /\ Few => TypeOK
  BY InvariantTypes
<1>5. Spec => []Sound /\ []Budget
  <2>1. Spec => []Sound
    BY AlwaysSound
  <2>2. Spec => []Budget
    BY AlwaysBudget
  <2> QED BY <2>1, <2>2
<1> HIDE DEF Few
<1> QED BY <1>1, <1>2, <1>3, <1>4, <1>5, Inductive, PTL DEF Spec

-----------------------------------------------------------------------------
(* The index *)

(***************************************************************************)
(* Taking the i-th request out moves those after it one place forward.     *)
(***************************************************************************)
LEMMA WithoutAt ==
    ASSUME NEW u \in Seq(Request), IsInjective(u), NEW i \in DOMAIN u
    PROVE  LET w == Without(u, u[i])
           IN  /\ Len(w) = Len(u) - 1
               /\ \A j \in 1 .. (Len(u) - 1) : w[j] = IF j < i THEN u[j] ELSE u[j + 1]
<1> DEFINE m == Len(u)
           S == Request \ {u[i]}
           G(f, k) == IF k = 0 THEN <<>>
                      ELSE IF u[k] \in S THEN Append(f[k - 1], u[k]) ELSE f[k - 1]
           kept == CHOOSE f : KeptBy(f, u, S, m)
           Place(j) == IF j < i THEN u[j] ELSE u[j + 1]
           Good(k) == /\ IsSeq(kept[k]) /\ Len(kept[k]) = (IF k < i THEN k ELSE k - 1)
                      /\ \A j \in 1 .. Len(kept[k]) : kept[k][j] = Place(j)
           Bad == {k \in 0 .. m : ~Good(k)}
<1>1. m \in Nat /\ i \in 1 .. m /\ \A k \in 1 .. m : u[k] \in Request
  OBVIOUS
<1>2. \A k \in 1 .. m : u[k] \in S <=> k # i
  BY <1>1 DEF IsInjective
<1>3. Without(u, u[i]) = kept[m]
  BY DEF Without, Keep, KeptBy
<1>4. kept = [k \in 0 .. m |-> G(kept, k)]
  <2>1. KeptBy(kept, u, S, m)
    BY <1>1, KeepExists
  <2> HIDE DEF kept
  <2> QED BY <2>1 DEF KeptBy
<1> HIDE DEF kept
<1>5. \A k \in 0 .. m : kept[k] = G(kept, k)
  BY <1>4
<1> HIDE DEF S
<1>6. Good(0)
  <2>1. kept[0] = <<>>
    BY <1>1, <1>5
  <2>2. IsSeq(<<>>) /\ Len(<<>>) = 0
    BY DEF IsSeq
  <2> QED BY <1>1, <2>1, <2>2
<1>7. ASSUME NEW k \in 1 .. m, Good(k - 1) PROVE Good(k)
  <2> DEFINE p == kept[k - 1]
  <2>1. kept[k] = IF k # i THEN Append(p, u[k]) ELSE p
    BY <1>1, <1>2, <1>5
  <2>2. IsSeq(p) /\ Len(p) = (IF k - 1 < i THEN k - 1 ELSE k - 2)
        /\ \A j \in 1 .. Len(p) : p[j] = Place(j)
    BY <1>1, <1>7
  <2> HIDE DEF p, Place
  <2>3. CASE k = i
    BY <1>1, <2>1, <2>2, <2>3
  <2>4. CASE k # i
    <3> DEFINE q == Append(p, u[k])
    <3>1. IsSeq(q) /\ Len(q) = Len(p) + 1 /\ DOMAIN q = 1 .. (Len(p) + 1) /\ q[Len(p) + 1] = u[k]
          /\ \A j \in 1 .. Len(p) : q[j] = p[j]
      BY <2>2, SeqAppend DEF IsSeq
    <3>2. kept[k] = q
      BY <2>1, <2>4
    <3> HIDE DEF q
    <3>3. Len(p) \in Nat /\ Len(p) + 1 = (IF k < i THEN k ELSE k - 1)
      BY <1>1, <2>2, <2>4
    <3>4. u[k] = Place(Len(p) + 1)
      BY <1>1, <2>4, <3>3 DEF Place
    <3>5. ASSUME NEW j \in 1 .. (Len(p) + 1) PROVE q[j] = Place(j)
      <4>1. j \in 1 .. Len(p) \/ j = Len(p) + 1
        BY <3>3
      <4> QED BY <2>2, <3>1, <3>4, <4>1
    <3> QED BY <3>1, <3>2, <3>3, <3>5
  <2> QED BY <2>3, <2>4
<1>8. Good(m)
  <2> HIDE DEF Good
  <2> SUFFICES ASSUME ~Good(m) PROVE FALSE
    OBVIOUS
  <2>1. m \in Bad /\ Bad \in SUBSET Nat
    BY <1>1
  <2>2. PICK x \in Bad : \A y \in Bad : x <= y
    BY <2>1, LeastNat
  <2>3. x \in 1 .. m /\ ~Good(x)
    BY <1>1, <1>6, <2>2
  <2>4. x - 1 \in 0 .. m /\ ~(x <= x - 1)
    BY <1>1, <2>3
  <2>5. Good(x - 1)
    BY <2>2, <2>4
  <2> QED BY <1>7, <2>3, <2>5
<1> DEFINE w == Without(u, u[i])
<1>9. Len(w) = m - 1 /\ \A j \in 1 .. Len(w) : w[j] = Place(j)
  <2>1. Len(kept[m]) = (IF m < i THEN m ELSE m - 1) /\ \A j \in 1 .. Len(kept[m]) : kept[m][j] = Place(j)
    BY <1>8
  <2>2. w = kept[m]
    BY <1>3
  <2>3. ~(m < i)
    BY <1>1
  <2> HIDE DEF w, m, Good, Place
  <2> QED BY <2>1, <2>2, <2>3
<1>10. Len(w) = Len(u) - 1 /\ \A j \in 1 .. (Len(u) - 1) : w[j] = Place(j)
  <2> HIDE DEF w, Good, Place
  <2> QED BY <1>9
<1> QED
  <2> HIDE DEF Good
  <2> QED BY <1>10

\* The index stands at the request that schedule() asks slots for.
AtRequest ==
    step.request # NoRequest =>
        step.req_index \in DOMAIN running /\ running[step.req_index] = step.request

InBatch(s, r) == \E k \in DOMAIN s : s[k].id = r

\* Every request that the walk along self.running is past is in the batch.
NobodySkipped ==
    step.loop = "running" =>
        \A i \in DOMAIN running : i < step.req_index => InBatch(step.scheduled, running[i])

(***************************************************************************)
(* Walking along self.running keeps the index at the request.              *)
(***************************************************************************)
LEMMA WalkIndex ==
    ASSUME IInv, AtRequest, SkipRunning \/ EnterRunning \/ RunningDone
    PROVE  AtRequest'
<1>1. running' = running /\ running \in Seq(Request) /\ IsStep(step)
  BY DEF SkipRunning, EnterRunning, RunningDone, IInv, QueuesOK, Placed, StepOK
<1>2. CASE SkipRunning \/ RunningDone
  <2>1. step.request = NoRequest
    BY <1>2 DEF SkipRunning, RunningDone, RunningLeft, InnerLoop
  <2>2. step'.request = NoRequest
    BY <1>1, <1>2, <2>1 DEF SkipRunning, RunningDone, IsStep
  <2> QED BY <2>2 DEF AtRequest
<1>3. CASE EnterRunning
  <2> DEFINE r == running[step.req_index]
  <2>1. /\ step' = [step EXCEPT !.request = r, !.num_new_tokens = NumNewTokens(r)]
        /\ step.loop = "running" /\ step.req_index <= Len(running)
    BY <1>3 DEF EnterRunning, RunningLeft
  <2>2. step.req_index \in 1 .. Len(running)
    BY <1>1, <2>1 DEF IsStep, IsSeq
  <2>3. step'.request = r /\ step'.req_index = step.req_index
    BY <1>1, <2>1 DEF IsStep
  <2> HIDE DEF r
  <2> QED BY <1>1, <2>2, <2>3 DEF AtRequest, r
<1> QED BY <1>2, <1>3

(***************************************************************************)
(* The index and the request after a preemption: under FCFS the victim is  *)
(* the last running request, which is not in the batch; under the priority *)
(* policy it may be any, but if nobody was skipped it is in the batch      *)
(* exactly when it stands before the index, which then moves back by one.  *)
(***************************************************************************)
LEMMA PreemptIndex ==
    ASSUME IInv, Sound, AtRequest, PreemptForRunning,
           Policy = "fcfs" \/ NobodySkipped
    PROVE  AtRequest' /\ (NobodySkipped => NobodySkipped')
<1> DEFINE u == running
           x == step.req_index
           v == Victim
           w == Without(u, v)
           s == step.scheduled
           n == Unscheduled(v)
<1>1. /\ step.request # NoRequest /\ running' = w
      /\ step' = [n EXCEPT !.loop = IF v = step.request THEN "waiting" ELSE @,
                           !.request = IF v = step.request THEN NoRequest ELSE @,
                           !.num_new_tokens = IF v = step.request THEN 0 ELSE @,
                           !.preempted = TRUE]
  BY DEF PreemptForRunning, InnerLoop
<1>2. u \in Seq(Request) /\ IsInjective(u) /\ DOMAIN u = 1 .. Len(u) /\ Len(u) \in Nat
  BY DEF IInv, QueuesOK, Placed
<1>3. x \in 1 .. Len(u) /\ u[x] = step.request
  BY <1>1, <1>2 DEF AtRequest
<1>4. /\ IsStep(step) /\ Once(step) /\ step.loop = "running"
      /\ \A k \in DOMAIN s : EntryOK(s[k], step, u, requests, manager, prev_step_scheduled_req_ids)
  BY <1>1 DEF Sound, Entries, EntriesOf, Asking, IInv, StepOK
<1>5. IsStep(n) /\ n.request = step.request /\ n.num_new_tokens = step.num_new_tokens
  BY <1>4, UnscheduledFacts
<1>6. PICK i \in 1 .. Len(u) : u[i] = v
  <2>1. u # <<>>
    BY <1>2, <1>3
  <2>2. v \in Range(u)
    BY <1>2, <2>1, VictimRuns
  <2> HIDE DEF v
  <2> QED BY <1>2, <2>2 DEF Range
<1>7. /\ Len(w) = Len(u) - 1 /\ w \in Seq(Request)
      /\ \A j \in 1 .. (Len(u) - 1) : w[j] = IF j < i THEN u[j] ELSE u[j + 1]
  <2>1. w = Without(u, u[i]) /\ u[i] \in Request
    BY <1>2, <1>6
  <2> HIDE DEF u, w
  <2>2. /\ Len(w) = Len(u) - 1
        /\ \A j \in 1 .. (Len(u) - 1) : w[j] = IF j < i THEN u[j] ELSE u[j + 1]
    BY <1>2, <1>6, <2>1, WithoutAt
  <2>3. w \in Seq(Request)
    BY <1>2, <2>1, WithoutFacts
  <2> QED BY <2>2, <2>3
<1>8. /\ n.loop = step.loop
      /\ \A k \in DOMAIN n.scheduled : \E j \in DOMAIN s : n.scheduled[k] = s[j] /\ s[j].id # v
      /\ n.req_index = IF InBatch(s, v) THEN x - 1 ELSE x
      /\ \A k \in DOMAIN s : s[k].id # v => InBatch(n.scheduled, s[k].id)
  <2> DEFINE taken == {k \in DOMAIN s : s[k].id = v}
             S == {e \in Range(s) : e.id # v}
  <2>1. n.loop = step.loop
        /\ \A k \in DOMAIN n.scheduled : \E j \in DOMAIN s : n.scheduled[k] = s[j] /\ s[j].id # v
    <3> HIDE DEF v
    <3> QED BY <1>4, UnscheduledEntries DEF n
  <2>2. n.scheduled = Keep(s, S) /\ n.req_index = StepBack(x, taken)
    BY <1>4 DEF Unscheduled, IsStep
  <2>3. n.req_index = IF InBatch(s, v) THEN x - 1 ELSE x
    BY <2>2 DEF StepBack, InBatch
  <2>4. Range(n.scheduled) = Range(s) \cap S
    <3>1. IsSeq(s)
      BY <1>4 DEF IsStep
    <3> QED BY <2>2, <3>1, SeqKeep
  <2>5. ASSUME NEW k \in DOMAIN s, s[k].id # v PROVE InBatch(n.scheduled, s[k].id)
    <3>1. s[k] \in Range(s) \cap S
      BY <2>5 DEF Range
    <3>2. PICK j \in DOMAIN n.scheduled : n.scheduled[j] = s[k]
      <4> HIDE DEF n, S
      <4> QED BY <2>4, <3>1 DEF Range
    <3> QED BY <3>2 DEF InBatch
  <2> QED BY <2>1, <2>3, <2>5
<1> HIDE DEF n, w, v
<1>9. /\ step'.scheduled = n.scheduled /\ step'.req_index = n.req_index
      /\ v = step.request => step'.request = NoRequest /\ step'.loop = "waiting"
      /\ v # step.request => step'.request = step.request /\ step'.loop = "running"
  BY <1>1, <1>4, <1>5, <1>8 DEF IsStep
<1>10. CASE v = step.request
  BY <1>9, <1>10 DEF AtRequest, NobodySkipped
<1>11. CASE v # step.request
  <2>1. i # x
    BY <1>3, <1>6, <1>11
  <2>2. \A k \in DOMAIN s : \E j \in 1 .. Len(u) : j <= x - 1 /\ u[j] = s[k].id
    BY <1>2, <1>4 DEF EntryOK, Passed
  <2>3. InBatch(s, v) => i < x
    <3> SUFFICES ASSUME InBatch(s, v) PROVE i < x
      OBVIOUS
    <3>1. PICK k \in DOMAIN s : s[k].id = v
      BY DEF InBatch
    <3>2. PICK j \in 1 .. Len(u) : j <= x - 1 /\ u[j] = v
      BY <2>2, <3>1
    <3>3. i = j
      BY <1>2, <1>6, <3>2 DEF IsInjective
    <3> QED BY <1>3, <3>2, <3>3
  <2>4. i < x => InBatch(s, v)
    <3>1. CASE Policy = "fcfs"
      <4>1. v = u[Len(u)] /\ Len(u) \in DOMAIN u
        BY <1>2, <1>3, <3>1 DEF Victim, v
      <4>2. i = Len(u)
        BY <1>2, <1>6, <4>1 DEF IsInjective
      <4> QED BY <1>3, <4>2
    <3>2. CASE NobodySkipped
      BY <1>2, <1>4, <1>6, <3>2 DEF NobodySkipped
    <3> QED BY <3>1, <3>2
  <2>5. step'.req_index = IF i < x THEN x - 1 ELSE x
    BY <1>8, <1>9, <2>3, <2>4
  <2>6. step'.req_index \in 1 .. (Len(u) - 1) /\ w[step'.req_index] = u[x]
    BY <1>2, <1>3, <1>6, <1>7, <2>1, <2>5
  <2>7. AtRequest'
    BY <1>1, <1>3, <1>7, <1>9, <1>11, <2>6 DEF AtRequest
  <2>8. ASSUME NobodySkipped, NEW j \in DOMAIN w, j < step'.req_index
        PROVE  InBatch(n.scheduled, w[j])
    <3>1. j \in 1 .. (Len(u) - 1)
      BY <1>7, <2>8
    <3>2. PICK l \in 1 .. Len(u) : u[l] = w[j] /\ l # i /\ l < x
      <4>1. CASE j < i
        BY <1>2, <1>3, <1>7, <2>5, <2>8, <3>1, <4>1
      <4>2. CASE ~(j < i)
        <5>1. w[j] = u[j + 1] /\ j + 1 \in 1 .. Len(u) /\ j + 1 # i /\ j + 1 < x
          BY <1>2, <1>3, <1>7, <2>5, <2>8, <3>1, <4>2
        <5> QED BY <5>1
      <4> QED BY <4>1, <4>2
    <3>3. InBatch(s, u[l])
      BY <1>2, <1>4, <2>8, <3>2 DEF NobodySkipped
    <3>4. u[l] # v
      BY <1>2, <1>6, <3>2 DEF IsInjective
    <3> QED BY <1>8, <3>2, <3>3, <3>4 DEF InBatch
  <2>9. NobodySkipped => NobodySkipped'
    BY <1>1, <1>9, <2>8 DEF NobodySkipped
  <2> QED BY <2>7, <2>9
<1> QED BY <1>10, <1>11

(***************************************************************************)
(* A running request that gets its slots joins the batch at the index.     *)
(***************************************************************************)
LEMMA JoinIndex ==
    ASSUME IInv, AtRequest, ScheduleRunning
    PROVE  AtRequest' /\ (NobodySkipped => NobodySkipped')
<1> DEFINE s == step.scheduled
           x == step.req_index
<1>1. IsStep(step) /\ IsSeq(s) /\ running' = running /\ step.request # NoRequest
  BY DEF IInv, StepOK, IsStep, ScheduleRunning, InnerLoop
<1>2. PICK e : /\ e.id = step.request /\ step'.scheduled = Append(s, e)
               /\ step'.req_index = x + 1 /\ step'.request = NoRequest /\ step'.loop = step.loop
  <2>1. PICK b : step' = [step EXCEPT !.scheduled = Append(@, Scheduled(step.request, "running", step.num_new_tokens, b)),
                            !.token_budget = @ - step.num_new_tokens,
                            !.req_index = @ + 1,
                            !.request = NoRequest,
                            !.num_new_tokens = 0]
    BY DEF ScheduleRunning
  <2> DEFINE d == Scheduled(step.request, "running", step.num_new_tokens, b)
  <2>2. d.id = step.request
    BY DEF Scheduled
  <2> HIDE DEF d
  <2>3. /\ step'.scheduled = Append(s, d) /\ step'.req_index = x + 1
        /\ step'.request = NoRequest /\ step'.loop = step.loop
    BY <1>1, <2>1 DEF IsStep, d
  <2> QED BY <2>2, <2>3
<1>3. AtRequest'
  BY <1>2 DEF AtRequest
<1>4. x \in Int /\ running[x] = step.request
  BY <1>1 DEF IsStep, AtRequest
<1>5. \A r : InBatch(s, r) \/ r = e.id => InBatch(step'.scheduled, r)
  <2>1. Append(s, e)[Len(s) + 1] = e /\ (\A i \in DOMAIN s : Append(s, e)[i] = s[i])
        /\ DOMAIN Append(s, e) = DOMAIN s \cup {Len(s) + 1}
    BY <1>1, SeqAppend
  <2> QED BY <1>2, <2>1 DEF InBatch
<1>6. DOMAIN running \subseteq Int
  BY DEF IInv, QueuesOK, Placed
<1>7. ASSUME NobodySkipped PROVE NobodySkipped'
  <2>1. ASSUME NEW i \in DOMAIN running, i < x + 1, step.loop = "running"
        PROVE  InBatch(step'.scheduled, running[i])
    <3>1. i < x \/ i = x
      BY <1>4, <1>6, <2>1
    <3> QED BY <1>2, <1>4, <1>5, <1>7, <2>1, <3>1 DEF NobodySkipped
  <2> QED BY <1>1, <1>2, <2>1 DEF NobodySkipped
<1> QED BY <1>3, <1>7

(***************************************************************************)
(* Every step of the engine keeps the index at the request, under FCFS or  *)
(* when nobody is skipped.                                                 *)
(***************************************************************************)
LEMMA NextIndex ==
    ASSUME IInv, Sound, AtRequest, Policy = "fcfs" \/ NobodySkipped, [Next]_vars
    PROVE  AtRequest'
<1>1. ASSUME UNCHANGED <<running, step>> PROVE AtRequest'
  BY <1>1 DEF AtRequest
<1>2. ASSUME step'.request = NoRequest PROVE AtRequest'
  BY <1>2 DEF AtRequest
<1>3. IsStep(step) /\ NoStep.request = NoRequest /\ (phase # "schedule" => step = NoStep)
  BY DEF IInv, StepOK, NoStep
<1>4. CASE Client
  <2>1. step' = step /\ phase # "schedule"
    BY <1>4 DEF Client, Add, add_request, Abort, finish_requests, Reset, ResetIdle, ResetRunning
  <2> QED BY <1>2, <1>3, <2>1
<1>5. CASE StepStart
  <2>1. step' = step \/ step' = [NoStep EXCEPT !.loop = "running", !.token_budget = MaxNumScheduledTokens]
    BY <1>5 DEF StepStart, schedule_start, schedulerVars
  <2>2. step = NoStep
    BY <1>3, <1>5 DEF StepStart
  <2>3. CASE step' = step
    BY <1>2, <1>3, <2>2, <2>3
  <2>4. CASE step' = [NoStep EXCEPT !.loop = "running", !.token_budget = MaxNumScheduledTokens]
    <3>1. step'.request = NoRequest
      BY <2>4 DEF NoStep
    <3> QED BY <1>2, <3>1
  <2> QED BY <2>1, <2>3, <2>4
<1>6. CASE Schedule
  <2>1. CASE ScheduleWaiting
    <3>1. step.request = NoRequest
      <4>1. step.loop = "waiting"
        BY <2>1 DEF ScheduleWaiting, CanAdmit
      <4> QED BY <4>1, BatchPart
    <3>2. step'.request = NoRequest
      BY <1>3, <2>1, <3>1 DEF ScheduleWaiting, IsStep
    <3> QED BY <1>2, <3>2
  <2>2. CASE SkipRunning \/ EnterRunning \/ RunningDone
    BY <2>2, WalkIndex
  <2>3. CASE ScheduleRunning
    BY <2>3, JoinIndex
  <2>4. CASE PreemptForRunning
    BY <2>4, PreemptIndex
  <2> QED BY <1>6, <2>1, <2>2, <2>3, <2>4 DEF Schedule
<1>7. CASE Submit
  BY <1>2, <1>3, <1>7 DEF Submit, schedule_end
<1>8. CASE UpdateRequest \/ StepEnd \/ Execute
  <2>1. step' = step /\ phase # "schedule"
    BY <1>8 DEF UpdateRequest, update_request, IgnoreOutput, ApplyOutput, StepEnd, Execute, schedulerVars
  <2> QED BY <1>2, <1>3, <2>1
<1>9. CASE UNCHANGED vars
  BY <1>1, <1>9 DEF vars, schedulerVars
<1> QED BY <1>4, <1>5, <1>6, <1>7, <1>8, <1>9 DEF Next, Engine

(***************************************************************************)
(* What StepConsistent says, from the invariants.                          *)
(***************************************************************************)
LEMMA InvariantStep ==
    ASSUME IInv, Sound, Budget, AtRequest
    PROVE  StepConsistent
<1> DEFINE ids == [i \in DOMAIN step.scheduled |-> step.scheduled[i].id]
<1>1. /\ IsBatchPart(step.scheduled)
      /\ \A i \in DOMAIN step.scheduled : step.scheduled[i].id \in Range(running)
  BY BatchPart
<1>2. IsInjective(ids) /\ Range(ids) \subseteq Range(running)
  BY <1>1 DEF IsBatchPart, IsInjective, Range
<1>3. InnerLoop => step.req_index <= Len(running) /\ running[step.req_index] = step.request
  <2>1. DOMAIN running = 1 .. Len(running)
    BY DEF IInv, QueuesOK, Placed
  <2> QED BY <2>1 DEF AtRequest, InnerLoop
<1>4. ScheduledTokens = TokensOf(step.scheduled)
  BY DEF ScheduledTokens, TokensOf
<1>5. step.loop # "none" => step.token_budget + Cardinality(ScheduledTokens) = MaxNumScheduledTokens
  BY <1>4 DEF Budget, BudgetOf
<1> QED BY <1>2, <1>3, <1>5 DEF StepConsistent

-----------------------------------------------------------------------------
(* One batch at a time, without async scheduling *)

OneAtATime == ~AsyncScheduling /\ BatchQueueSize = 1

\* q has tokens left to compute.
Behind(q) == q.num_computed_tokens < Len(q.tokens)

\* Entry k of batch b speaks of request q as it is, and w, the worker's part of
\* it, has its tokens and the one that was sampled, or will have.
InStep(b, k, q, w) ==
    LET e == b.out.reqs[k]
    IN /\ q.status = "RUNNING"
       /\ e.num_computed_tokens \in Nat /\ e.num_scheduled_tokens \in Nat
       /\ SeqLen(e) = q.num_computed_tokens
       /\ b.done => /\ w.tokens = q.tokens \o b.sampled[k]
                    /\ Behind(q) <=> b.sampled[k] = <<>>
                    /\ b.sampled[k] # <<>> => b.sampled[k][1][1] = q.num_computed_tokens + 1
       /\ ~b.done => IF e.kind = "new" THEN q.tokens = PromptTokens(e.id)
                     ELSE w.tokens = q.tokens /\ Base(e) = Len(q.tokens)

\* Request r, which no batch of queue has, is q for the scheduler and w for the
\* worker.
Idle(r, q, w, started) ==
    /\ q.status = "RUNNING" => Behind(q)
    /\ IF started THEN w.tokens = q.tokens ELSE q.tokens = PromptTokens(r)

InStepAt(r, queue, q, w, finished, started) ==
    q.status \in Alive =>
        /\ r \notin finished
        /\ \A i \in DOMAIN queue : ~queue[i].done => r \notin queue[i].out.finished_req_ids
        /\ \A i \in DOMAIN queue : \A k \in DOMAIN queue[i].out.reqs :
              queue[i].out.reqs[k].id = r => InStep(queue[i], k, q, w)
        /\ (\A i \in DOMAIN queue : ~Has(queue[i], r)) => Idle(r, q, w, started)

AllInStep ==
    \A r \in Request : InStepAt(r, batch_queue, requests[r], runner_requests[r], finished_req_ids,
                                Started(requests, step, r))

\* A batch has each request once.
EachOnce ==
    \A i \in DOMAIN batch_queue : \A k, l \in DOMAIN batch_queue[i].out.reqs :
        batch_queue[i].out.reqs[k].id = batch_queue[i].out.reqs[l].id => k = l

\* The worker has no token that is on the device only.
Synced == DOMAIN runner_requests = Request /\ \A r \in Request : runner_requests[r].unsynced = {}

SyncInv == AllInStep /\ EachOnce /\ Synced /\ Kinds /\ NobodySkipped

(***************************************************************************)
(* With one batch at a time schedule() has none before it.                 *)
(***************************************************************************)
LEMMA NoBatchBefore ==
    ASSUME IInv, QueueFits, OneAtATime
    PROVE  /\ DOMAIN batch_queue \subseteq {1}
           /\ phase \in {"input", "schedule"} => batch_queue = <<>> /\ DOMAIN batch_queue = {}
<1> DEFINE n == Len(batch_queue)
<1>1. n \in Nat /\ n <= 1 /\ DOMAIN batch_queue = 1 .. n /\ (n = 0 => batch_queue = <<>>)
  BY DEF IInv, BatchesOK, IsSeq, QueueFits, OneAtATime
<1>2. phase \in {"input", "schedule"} => n < 1
  BY DEF QueueFits, OneAtATime
<1> HIDE DEF n
<1> QED BY <1>1, <1>2

(***************************************************************************)
(* A step that leaves the batches and the worker alone keeps them in step. *)
(***************************************************************************)
LEMMA CarryInStep ==
    ASSUME AllInStep, UNCHANGED <<batch_queue, runner_requests>>,
           \A r \in Request : requests'[r].status \in Alive =>
              /\ requests[r].status \in Alive /\ r \notin finished_req_ids'
              /\ Started(requests', step', r) <=> Started(requests, step, r)
              /\ \/ requests'[r] = requests[r]
                 \/ /\ DOMAIN batch_queue = {} /\ requests'[r].tokens = requests[r].tokens
                    /\ requests'[r].status = "RUNNING" => Behind(requests'[r])
    PROVE  AllInStep'
<1> SUFFICES ASSUME NEW r \in Request, requests'[r].status \in Alive
             PROVE  InStepAt(r, batch_queue, requests'[r], runner_requests[r], finished_req_ids',
                             Started(requests', step', r))
  BY DEF AllInStep, InStepAt
<1>1. InStepAt(r, batch_queue, requests[r], runner_requests[r], finished_req_ids,
               Started(requests, step, r))
  BY DEF AllInStep
<1>2. CASE requests'[r] = requests[r]
  BY <1>1, <1>2 DEF InStepAt, Idle
<1>3. CASE /\ DOMAIN batch_queue = {} /\ requests'[r].tokens = requests[r].tokens
           /\ requests'[r].status = "RUNNING" => Behind(requests'[r])
  BY <1>1, <1>3 DEF InStepAt, Idle
<1> QED BY <1>2, <1>3

(***************************************************************************)
(* The actions that touch neither the batches nor the worker.              *)
(***************************************************************************)
LEMMA QuietInStep ==
    ASSUME IInv, Sound, Budget, QueueFits, OneAtATime, SyncInv, Quiet
    PROVE  AllInStep' /\ EachOnce' /\ Synced' /\ Kinds'
<1>1. SameLives /\ UNCHANGED <<batch_queue, runnerVars, prev_step_scheduled_req_ids>>
  BY QuietLives DEF SyncInv
<1>2. Synced' /\ EachOnce' /\ Kinds'
  BY <1>1 DEF SyncInv, Synced, EachOnce, runnerVars, SameLives
<1>3. DOMAIN requests = Request /\ \A r \in Request : IsRequest(requests[r])
  BY Basics
<1>4. ASSUME NEW r \in Request, requests'[r].status \in Alive
      PROVE  \/ requests'[r] = requests[r]
             \/ /\ DOMAIN batch_queue = {}
                /\ requests'[r].status = "RUNNING" => Behind(requests'[r])
  <2>1. CASE requests' = requests
    BY <2>1
  <2>2. CASE \E s \in Request : Abort(s)
    <3>1. PICK s \in Request : requests' = [requests EXCEPT ![s].status = "FINISHED_ABORTED"]
      BY <2>2 DEF Abort, finish_requests
    <3>2. requests'[s].status = "FINISHED_ABORTED"
      BY <1>3, <3>1 DEF IsRequest
    <3>3. s # r
      BY <1>4, <3>2 DEF Alive
    <3> QED BY <3>1, <3>3
  <2>3. CASE Schedule /\ PreemptForRunning
    <3> DEFINE v == Victim
    <3>1. requests' = [requests EXCEPT ![v].status = "PREEMPTED", ![v].num_computed_tokens = 0]
      BY <2>3 DEF PreemptForRunning, Preempt
    <3>2. DOMAIN batch_queue = {}
      BY <2>3, NoBatchBefore DEF Schedule
    <3> HIDE DEF v
    <3>3. CASE r = v
      <4>1. requests'[r].status = "PREEMPTED"
        BY <1>3, <3>1, <3>3 DEF IsRequest
      <4> QED BY <3>2, <4>1
    <3>4. CASE r # v
      BY <1>3, <3>1, <3>4
    <3> QED BY <3>3, <3>4
  <2>4. CASE Schedule /\ ScheduleWaiting
    <3> DEFINE x == Head(waiting)
               c == Len(get_computed_blocks(manager, requests[x].tokens)) * BlockSize
    <3>1. requests' = [requests EXCEPT ![x].status = "RUNNING", ![x].num_computed_tokens = c]
      BY <2>4 DEF ScheduleWaiting
    <3>2. DOMAIN batch_queue = {}
      BY <2>4, NoBatchBefore DEF Schedule
    <3>3. x \in Request /\ c \in Nat /\ c <= Len(requests[x].tokens) - 1
          /\ IsSeq(requests[x].tokens)
      <4>1. step.token_budget \in Nat
        BY DEF Budget, BudgetOf
      <4> QED BY <2>4, <4>1, AdmitFacts
    <3> HIDE DEF x, c
    <3>4. CASE r = x
      <4>1. requests'[r].num_computed_tokens = c /\ requests'[r].tokens = requests[r].tokens
        BY <1>3, <3>1, <3>4 DEF IsRequest
      <4> DEFINE l == Len(requests[r].tokens)
      <4>2. l \in Nat /\ c <= l - 1
        BY <3>3, <3>4 DEF IsSeq
      <4> HIDE DEF l
      <4>3. c < l
        BY <3>3, <4>2
      <4> QED BY <3>2, <4>1, <4>3 DEF Behind, l
    <3>5. CASE r # x
      BY <1>3, <3>1, <3>5
    <3> QED BY <3>4, <3>5
  <2>5. \/ requests' = requests
        \/ \E s \in Request : Abort(s)
        \/ Schedule /\ PreemptForRunning
        \/ Schedule /\ ScheduleWaiting
    BY DEF Quiet, Reset, ResetIdle, StepStart, schedule_start, schedulerVars, Schedule, SkipRunning,
           EnterRunning, ScheduleRunning, RunningDone, vars
  <2> QED BY <2>1, <2>2, <2>3, <2>4, <2>5
<1>5. AllInStep'
  <2>1. \A r \in Request : requests[r].status \in Alive => r \notin finished_req_ids
    BY DEF SyncInv, AllInStep, InStepAt
  <2> QED BY <1>1, <1>4, <2>1, CarryInStep DEF SyncInv, SameLives, runnerVars
<1> QED BY <1>2, <1>5

(***************************************************************************)
(* add_request keeps the worker in step.                                   *)
(***************************************************************************)
LEMMA AddInStep ==
    ASSUME IInv, QueueFits, OneAtATime, SyncInv, NEW r \in Request, Add(r)
    PROVE  AllInStep' /\ EachOnce' /\ Synced' /\ Kinds'
<1>1. /\ requests' = [requests EXCEPT ![r] = NewRequest(r, "WAITING")]
      /\ batch_queue' = batch_queue /\ runner_requests' = runner_requests /\ step' = step
      /\ finished_req_ids' = finished_req_ids /\ r \notin finished_req_ids /\ phase = "input"
  BY DEF Add, add_request, Fresh, runnerVars, engineVars
<1>2. DOMAIN batch_queue = {}
  BY <1>1, NoBatchBefore
<1>3. (\A s \in Request : s # r => requests'[s] = requests[s]) /\ requests'[r] = NewRequest(r, "WAITING")
  BY <1>1, Basics
<1>4. requests'[r].status = "WAITING" /\ requests'[r].tokens = PromptTokens(r)
  BY <1>3 DEF NewRequest
<1>5. InStepAt(r, batch_queue, requests'[r], runner_requests[r], finished_req_ids,
               Started(requests', step, r))
  BY <1>1, <1>2, <1>4 DEF InStepAt, Idle, Started
<1>6. ASSUME NEW s \in Request, s # r
      PROVE  InStepAt(s, batch_queue, requests'[s], runner_requests[s], finished_req_ids,
                      Started(requests', step, s))
  BY <1>3, <1>6 DEF SyncInv, AllInStep, Started
<1>7. AllInStep'
  BY <1>1, <1>5, <1>6 DEF AllInStep
<1> QED BY <1>1, <1>7 DEF SyncInv, EachOnce, Synced, Kinds

(***************************************************************************)
(* reset_prefix_cache that preempts the running requests keeps the worker  *)
(* in step.                                                                *)
(***************************************************************************)
LEMMA ResetRunningInStep ==
    ASSUME IInv, QueueFits, OneAtATime, SyncInv, Reset(TRUE)
    PROVE  AllInStep' /\ EachOnce' /\ Synced' /\ Kinds'
<1> DEFINE After(r) == [requests[r] EXCEPT !.status = "PREEMPTED", !.num_computed_tokens = 0,
                                           !.num_output_placeholders = 0,
                                           !.discard_latest_async_tokens = TRUE]
<1>1. /\ requests' = [r \in Request |-> IF r \in Range(running) THEN After(r) ELSE requests[r]]
      /\ batch_queue' = batch_queue /\ runner_requests' = runner_requests /\ step' = step
      /\ finished_req_ids' = finished_req_ids /\ phase = "input"
  BY DEF Reset, ResetRunning, runnerVars
<1>2. DOMAIN batch_queue = {} /\ step = NoStep
  BY <1>1, NoBatchBefore, Basics
<1>3. \A r \in Request : ~IsNew(step, r)
  BY <1>2 DEF IsNew, NoStep
<1>4. \A r \in Request : /\ After(r).tokens = requests[r].tokens /\ After(r).status = "PREEMPTED"
                         /\ r \in Range(running) => requests[r].status = "RUNNING"
  BY Basics DEF IsRequest, IInv, QueuesOK, Placed
<1> HIDE DEF After
<1>5. ASSUME NEW r \in Request, requests'[r].status \in Alive
      PROVE  /\ requests[r].status \in Alive /\ r \notin finished_req_ids'
             /\ Started(requests', step', r) <=> Started(requests, step, r)
             /\ \/ requests'[r] = requests[r]
                \/ /\ DOMAIN batch_queue = {} /\ requests'[r].tokens = requests[r].tokens
                   /\ requests'[r].status = "RUNNING" => Behind(requests'[r])
  <2>1. requests[r].status \in Alive => r \notin finished_req_ids
    BY DEF SyncInv, AllInStep, InStepAt
  <2>2. CASE r \in Range(running)
    <3>1. requests'[r] = After(r)
      BY <1>1, <2>2
    <3> QED BY <1>1, <1>2, <1>3, <1>4, <2>1, <2>2, <3>1 DEF Started, Alive
  <2>3. CASE r \notin Range(running)
    BY <1>1, <1>5, <2>1, <2>3 DEF Started
  <2> QED BY <2>2, <2>3
<1>6. AllInStep'
  BY <1>1, <1>5, CarryInStep DEF SyncInv
<1> QED BY <1>1, <1>6 DEF SyncInv, EachOnce, Synced, Kinds

(***************************************************************************)
(* A batch whose entries are all processed leaves the queue.               *)
(***************************************************************************)
LEMMA StepEndInStep ==
    ASSUME IInv, QueueFits, OneAtATime, SyncInv, StepEnd
    PROVE  AllInStep' /\ EachOnce' /\ Synced' /\ Kinds'
<1>1. /\ requests' = requests /\ runner_requests' = runner_requests /\ step' = step
      /\ finished_req_ids' = finished_req_ids
      /\ batch_queue[1].out.reqs = <<>> /\ batch_queue' = Tail(batch_queue)
  BY DEF StepEnd, schedulerVars, runnerVars
<1>2. DOMAIN batch_queue \subseteq {1} /\ IsSeq(batch_queue) /\ batch_queue # <<>>
  BY NoBatchBefore DEF IInv, BatchesOK, StepEnd
<1>3. DOMAIN batch_queue' = {}
  <2> DEFINE n == Len(batch_queue)
  <2>1. 1 .. n = {1} /\ n \in Nat /\ DOMAIN Tail(batch_queue) = 1 .. (n - 1)
    <3>1. DOMAIN batch_queue = 1 .. n /\ 1 \in DOMAIN batch_queue
          /\ DOMAIN Tail(batch_queue) = 1 .. (n - 1)
      BY <1>2, SeqTail
    <3>2. n \in Nat
      BY <1>2 DEF IsSeq
    <3> HIDE DEF n
    <3> QED BY <1>2, <3>1, <3>2
  <2> HIDE DEF n
  <2>2. n = 1
    <3>1. n \in 1 .. n
      BY <2>1
    <3> QED BY <2>1, <3>1
  <2> QED BY <1>1, <2>1, <2>2
<1>4. \A r \in Request : \A i \in DOMAIN batch_queue : ~Has(batch_queue[i], r)
  BY <1>1, <1>2 DEF Has
<1>5. \A r \in Request : InStepAt(r, batch_queue', requests[r], runner_requests[r], finished_req_ids,
                                  Started(requests, step, r))
  BY <1>3, <1>4 DEF SyncInv, AllInStep, InStepAt
<1> QED BY <1>1, <1>3, <1>5 DEF SyncInv, AllInStep, EachOnce, Synced, Kinds

(***************************************************************************)
(* What is left of a batch when its first entry is processed.              *)
(***************************************************************************)
LEMMA HeadInStep ==
    ASSUME NEW b, IsBatch(b), b.done, b.out.reqs # <<>>, NEW c, HeadLeft(b, c),
           \A k, l \in DOMAIN b.out.reqs : b.out.reqs[k].id = b.out.reqs[l].id => k = l
    PROVE  /\ c.done /\ c.out.finished_req_ids = b.out.finished_req_ids
           /\ \A k, l \in DOMAIN c.out.reqs : c.out.reqs[k].id = c.out.reqs[l].id => k = l
           /\ \A k \in DOMAIN c.out.reqs :
                 \E l \in DOMAIN b.out.reqs :
                    /\ c.out.reqs[k] = b.out.reqs[l]
                    /\ \A q, w : InStep(b, l, q, w) => InStep(c, k, q, w)
           /\ \A r : Has(c, r) <=> (Has(b, r) /\ r # b.out.reqs[1].id)
           /\ 1 \in DOMAIN b.out.reqs /\ 1 \in DOMAIN b.sampled
<1> DEFINE s == b.out.reqs
           t == b.sampled
           n == Len(s)
<1>1. IsSeq(s) /\ s # <<>> /\ IsSeq(t) /\ Len(t) = Len(s)
  BY DEF IsBatch
<1>2. /\ c.out.reqs = Tail(s) /\ c.sampled = Tail(t) /\ c.done = b.done
      /\ c.out.finished_req_ids = b.out.finished_req_ids
  BY DEF IsBatch, HeadLeft
<1>3. \A i, j \in DOMAIN s : s[i].id = s[j].id => i = j
  OBVIOUS
<1> HIDE DEF s, t
<1>4. /\ n \in Nat /\ n > 0 /\ DOMAIN s = 1 .. n /\ DOMAIN Tail(s) = 1 .. (n - 1)
      /\ \A i \in DOMAIN Tail(s) : i + 1 \in DOMAIN s /\ Tail(s)[i] = s[i + 1]
      /\ 1 \in DOMAIN s
  <2>1. n \in Nat /\ 1 \in 1 .. n
    BY <1>1, SeqTail DEF IsSeq
  <2> QED BY <1>1, <2>1, SeqTail
<1>5. 1 \in DOMAIN t /\ \A i \in DOMAIN Tail(s) : Tail(t)[i] = t[i + 1]
  <2>1. Len(t) = n /\ t # <<>>
    BY <1>1, <1>4
  <2>2. DOMAIN Tail(t) = 1 .. (n - 1) /\ 1 \in DOMAIN t /\ \A i \in DOMAIN Tail(t) : Tail(t)[i] = t[i + 1]
    BY <1>1, <2>1, SeqTail
  <2> QED BY <1>4, <2>2
<1> HIDE DEF n
<1>6. \A i \in DOMAIN Tail(s) : i \in Int /\ i + 1 # 1
  BY <1>4
<1>7. \A i \in DOMAIN s : i # 1 => (i - 1 \in DOMAIN Tail(s) /\ (i - 1) + 1 = i)
  BY <1>4
<1>8. \A k, l \in DOMAIN Tail(s) : Tail(s)[k].id = Tail(s)[l].id => k = l
  <2>1. \A i, j \in DOMAIN Tail(s) : i + 1 = j + 1 => i = j
    BY <1>6
  <2> QED BY <1>3, <1>4, <2>1
<1>9. ASSUME NEW k \in DOMAIN Tail(s)
      PROVE  /\ k + 1 \in DOMAIN s /\ Tail(s)[k] = s[k + 1]
             /\ \A q, w : InStep(b, k + 1, q, w) => InStep(c, k, q, w)
  <2>1. c.out.reqs[k] = b.out.reqs[k + 1] /\ c.sampled[k] = b.sampled[k + 1] /\ c.done = b.done
    BY <1>2, <1>4, <1>5 DEF s, t
  <2> QED BY <1>4, <2>1 DEF InStep
<1>10. \A r : Has(c, r) <=> (Has(b, r) /\ r # s[1].id)
  <2>1. \A r : Has(c, r) <=> \E k \in DOMAIN Tail(s) : Tail(s)[k].id = r
    BY <1>2 DEF Has
  <2>2. \A r : Has(b, r) <=> \E k \in DOMAIN s : s[k].id = r
    BY DEF Has, s
  <2>3. ASSUME NEW r, Has(c, r) PROVE Has(b, r) /\ r # s[1].id
    BY <1>3, <1>4, <1>6, <2>1, <2>2, <2>3
  <2>4. ASSUME NEW r, Has(b, r), r # s[1].id PROVE Has(c, r)
    <3>1. PICK i \in DOMAIN s : s[i].id = r
      BY <2>2, <2>4
    <3>2. i - 1 \in DOMAIN Tail(s) /\ Tail(s)[i - 1] = s[i]
      BY <1>4, <1>7, <2>4, <3>1
    <3> QED BY <2>1, <3>1, <3>2
  <2> QED BY <2>3, <2>4
<1> QED BY <1>2, <1>4, <1>5, <1>8, <1>9, <1>10 DEF s, t

(***************************************************************************)
(* update_from_output for one request, without async scheduling: a request *)
(* that goes on has the token that was sampled.                            *)
(***************************************************************************)
LEMMA SyncOutput ==
    ASSUME IInv, ~AsyncScheduling, NEW r \in Request, NEW t, IsSeq(t), update_request(r, t)
    PROVE  /\ \A s \in Request : s # r => requests'[s] = requests[s]
           /\ \A s \in Request : s # r /\ s \notin finished_req_ids => s \notin finished_req_ids'
           /\ requests'[r].status \in Alive =>
                 /\ requests[r].status = requests'[r].status
                 /\ requests'[r].tokens = requests[r].tokens \o t
                 /\ requests'[r].num_computed_tokens = requests[r].num_computed_tokens
                 /\ r \in finished_req_ids' => r \in finished_req_ids
           /\ step' = step
<1> DEFINE q == requests[r]
           p == requests'[r]
<1>1. DOMAIN requests = Request /\ IsRequest(q) /\ IsSeq(q.tokens)
  BY Basics DEF IsRequest
<1>2. CASE IgnoreOutput(r, t)
  <2>1. PICK d : requests' = [requests EXCEPT ![r].discard_latest_async_tokens = d]
    BY <1>2 DEF IgnoreOutput
  <2>2. /\ finished_req_ids' = finished_req_ids /\ step' = step
        /\ q.status \notin Alive \/ t = <<>>
    BY <1>2 DEF IgnoreOutput, Alive
  <2>3. /\ \A s \in Request : s # r => requests'[s] = requests[s]
        /\ p = [q EXCEPT !.discard_latest_async_tokens = d]
    BY <1>1, <2>1
  <2> HIDE DEF q, p
  <2>4. p.tokens = q.tokens /\ p.num_computed_tokens = q.num_computed_tokens /\ p.status = q.status
    BY <1>1, <2>3 DEF IsRequest
  <2>5. q.tokens \o <<>> = q.tokens
    BY <1>1 DEF IsSeq
  <2> QED BY <2>2, <2>3, <2>4, <2>5 DEF q, p
<1>3. CASE ApplyOutput(r, t)
  <2> DEFINE new == q.tokens \o t
             stopped == check_stop(r, new)
             x == q.num_output_placeholders - (IF AsyncScheduling THEN 1 ELSE 0)
             status == IF stopped THEN "FINISHED" ELSE q.status
  <2>1. /\ requests' = [requests EXCEPT ![r].tokens = new, ![r].num_output_placeholders = x,
                                        ![r].status = status]
        /\ finished_req_ids' = IF stopped THEN finished_req_ids \cup {r} ELSE finished_req_ids
        /\ step' = step
    BY <1>3 DEF ApplyOutput
  <2>2. stopped => status \notin Alive
    BY DEF Alive
  <2>3. ~stopped => status = q.status
    OBVIOUS
  <2> HIDE DEF new, x, stopped, status
  <2>4. /\ \A s \in Request : s # r => requests'[s] = requests[s]
        /\ p = [q EXCEPT !.tokens = new, !.num_output_placeholders = x, !.status = status]
    BY <1>1, <2>1
  <2> HIDE DEF q, p
  <2>5. p.tokens = new /\ p.num_computed_tokens = q.num_computed_tokens /\ p.status = status
    BY <1>1, <2>4 DEF IsRequest
  <2>6. p.status \in Alive => p.status = q.status /\ finished_req_ids' = finished_req_ids
    BY <2>1, <2>2, <2>3, <2>5
  <2>7. \A s : s # r /\ s \notin finished_req_ids => s \notin finished_req_ids'
    BY <2>1
  <2> QED BY <2>1, <2>4, <2>5, <2>6, <2>7 DEF q, p, new
<1> QED BY <1>2, <1>3 DEF update_request

(***************************************************************************)
(* A running request that is sampled has one token to compute, one that is *)
(* not has more.                                                           *)
(***************************************************************************)
LEMMA BehindAgain ==
    ASSUME IInv, Sound, ~AsyncScheduling, NEW r \in Request, requests[r].status = "RUNNING",
           NEW t, IsSeq(t), Len(t) <= 1, Behind(requests[r]) <=> t = <<>>,
           NEW p, p.tokens = requests[r].tokens \o t,
           p.num_computed_tokens = requests[r].num_computed_tokens
    PROVE  Behind(p)
<1> DEFINE q == requests[r]
           d == q.num_computed_tokens
           l == Len(q.tokens)
           k == Len(t)
<1>1. IsRequest(q) /\ Counts(q, Slots(manager, r))
  BY Basics DEF Sound, TokensCounted, CountsOf
<1>2. d \in Int /\ d <= l /\ IsSeq(q.tokens)
  BY <1>1 DEF Counts, Alive, IsRequest, IsSeq
<1>3. Len(p.tokens) = l + k /\ l \in Nat /\ k \in Nat
  BY <1>2, TokensConcat
<1>4. k = 0 => t = <<>>
  BY DEF IsSeq
<1>5. d < l \/ k # 0
  BY <1>4 DEF Behind
<1> HIDE DEF l, k, d
<1>6. d < l + k
  BY <1>2, <1>3, <1>5
<1> QED BY <1>3, <1>6 DEF Behind, d

(***************************************************************************)
(* update_from_output keeps the worker in step.                            *)
(***************************************************************************)
LEMMA UpdateRequestInStep ==
    ASSUME IInv, Sound, QueueFits, OneAtATime, SyncInv, UpdateRequest
    PROVE  AllInStep' /\ EachOnce' /\ Synced' /\ Kinds'
<1> DEFINE b == batch_queue[1]
           r == b.out.reqs[1].id
           t == b.sampled[1]
           c == batch_queue'[1]
<1>1. /\ phase \in {"output", "update"} /\ b.done /\ b.out.reqs # <<>>
      /\ update_request(r, t)
      /\ batch_queue' = [batch_queue EXCEPT ![1].out.reqs = Tail(@), ![1].sampled = Tail(@)]
      /\ runner_requests' = runner_requests
  BY DEF UpdateRequest, runnerVars
<1>2. /\ IsSeq(batch_queue) /\ batch_queue # <<>> /\ \A i \in DOMAIN batch_queue : IsBatch(batch_queue[i])
      /\ DOMAIN batch_queue \subseteq {1}
  BY <1>1, NoBatchBefore DEF IInv, BatchesOK
<1>3. DOMAIN batch_queue = {1} /\ IsBatch(b) /\ OneToken(b)
  <2>1. 1 \in DOMAIN batch_queue
    BY <1>2, SeqTail
  <2> QED BY <1>1, <1>2, <2>1 DEF Sound, OneEach
<1>4. DOMAIN batch_queue' = {1} /\ HeadLeft(b, c)
  BY <1>1, <1>3 DEF HeadLeft
<1>5. \A k, l \in DOMAIN b.out.reqs : b.out.reqs[k].id = b.out.reqs[l].id => k = l
  BY <1>3 DEF SyncInv, EachOnce
<1> HIDE DEF c
<1>6. /\ c.done /\ c.out.finished_req_ids = b.out.finished_req_ids
      /\ \A k, l \in DOMAIN c.out.reqs : c.out.reqs[k].id = c.out.reqs[l].id => k = l
      /\ \A k \in DOMAIN c.out.reqs :
            \E l \in DOMAIN b.out.reqs :
               /\ c.out.reqs[k] = b.out.reqs[l]
               /\ \A q, w : InStep(b, l, q, w) => InStep(c, k, q, w)
      /\ \A s : Has(c, s) <=> (Has(b, s) /\ s # r)
      /\ 1 \in DOMAIN b.out.reqs /\ 1 \in DOMAIN b.sampled
  <2> HIDE DEF b
  <2>1. b.done /\ b.out.reqs # <<>> /\ IsBatch(b) /\ HeadLeft(b, c)
    BY <1>1, <1>3, <1>4
  <2> QED BY <1>5, <2>1, HeadInStep
<1>7. r \in Request /\ IsSeq(t) /\ Len(t) <= 1
  BY <1>1, <1>3, <1>6 DEF IsBatch, OneToken
<1>8. EachOnce'
  BY <1>4, <1>6 DEF EachOnce, c
<1>9. /\ \A s \in Request : s # r => requests'[s] = requests[s]
      /\ \A s \in Request : s # r /\ s \notin finished_req_ids => s \notin finished_req_ids'
      /\ step' = step
  BY <1>1, <1>7, SyncOutput DEF OneAtATime
<1>10. requests'[r].status \in Alive =>
          /\ requests[r].status = requests'[r].status
          /\ requests'[r].tokens = requests[r].tokens \o t
          /\ requests'[r].num_computed_tokens = requests[r].num_computed_tokens
          /\ r \in finished_req_ids' => r \in finished_req_ids
  BY <1>1, <1>7, SyncOutput DEF OneAtATime
<1>11. step = NoStep /\ \A s : ~IsNew(step, s)
  <2>1. step = NoStep
    BY <1>1, Basics
  <2> QED BY <2>1 DEF IsNew, NoStep
<1>12. ASSUME requests'[r].status \in Alive
       PROVE  InStepAt(r, batch_queue', requests'[r], runner_requests[r], finished_req_ids',
                       Started(requests', step', r))
  <2> DEFINE q == requests[r]
             w == runner_requests[r]
             p == requests'[r]
  <2>1. InStepAt(r, batch_queue, q, w, finished_req_ids, Started(requests, step, r)) /\ q.status \in Alive
    BY <1>7, <1>10, <1>12 DEF SyncInv, AllInStep
  <2>2. InStep(b, 1, q, w) /\ r \notin finished_req_ids
    BY <1>3, <1>6, <2>1 DEF InStepAt
  <2>3. q.status = "RUNNING" /\ w.tokens = q.tokens \o t /\ (Behind(q) <=> t = <<>>)
    BY <1>1, <2>2 DEF InStep
  <2>4. Behind(p)
    <3> HIDE DEF p, t, r
    <3> QED BY <1>7, <1>10, <1>12, <2>3, BehindAgain DEF OneAtATime, p
  <2>5. Started(requests', step', r) /\ w.tokens = p.tokens
    BY <1>9, <1>10, <1>11, <1>12, <2>3 DEF Started
  <2>6. \A k \in DOMAIN c.out.reqs : c.out.reqs[k].id # r
    BY <1>6 DEF Has
  <2> QED BY <1>4, <1>6, <1>10, <1>12, <2>2, <2>4, <2>5, <2>6 DEF InStepAt, Idle, c
<1>13. ASSUME NEW s \in Request, s # r, requests'[s].status \in Alive
       PROVE  InStepAt(s, batch_queue', requests'[s], runner_requests[s], finished_req_ids',
                       Started(requests', step', s))
  <2> DEFINE q == requests[s]
             w == runner_requests[s]
  <2>1. q = requests'[s] /\ (Started(requests', step', s) <=> Started(requests, step, s))
    BY <1>9, <1>13 DEF Started
  <2>2. InStepAt(s, batch_queue, q, w, finished_req_ids, Started(requests, step, s)) /\ q.status \in Alive
    BY <1>13, <2>1 DEF SyncInv, AllInStep
  <2>3. s \notin finished_req_ids'
    BY <1>9, <1>13, <2>2 DEF InStepAt
  <2>4. \A k \in DOMAIN c.out.reqs : c.out.reqs[k].id = s => InStep(c, k, q, w)
    <3> SUFFICES ASSUME NEW k \in DOMAIN c.out.reqs, c.out.reqs[k].id = s PROVE InStep(c, k, q, w)
      OBVIOUS
    <3>1. PICK l \in DOMAIN b.out.reqs : /\ c.out.reqs[k] = b.out.reqs[l]
                                         /\ InStep(b, l, q, w) => InStep(c, k, q, w)
      BY <1>6
    <3>2. InStep(b, l, q, w)
      BY <1>3, <2>2, <3>1 DEF InStepAt
    <3> QED BY <3>1, <3>2
  <2>5. ~Has(c, s) => Idle(s, q, w, Started(requests, step, s))
    <3>1. Has(c, s) <=> Has(b, s)
      BY <1>6, <1>13
    <3> QED BY <1>3, <2>2, <3>1 DEF InStepAt
  <2> HIDE DEF b, r
  <2> QED BY <1>4, <1>6, <2>1, <2>2, <2>3, <2>4, <2>5 DEF InStepAt, Idle, c
<1>14. AllInStep'
  <2> SUFFICES ASSUME NEW s \in Request
               PROVE  InStepAt(s, batch_queue', requests'[s], runner_requests[s], finished_req_ids',
                               Started(requests', step', s))
    BY <1>1 DEF AllInStep
  <2>1. CASE requests'[s].status \notin Alive
    BY <2>1 DEF InStepAt
  <2> QED BY <1>12, <1>13, <2>1
<1> QED BY <1>1, <1>8, <1>9, <1>14 DEF SyncInv, Synced, Kinds

(***************************************************************************)
(* What the end of schedule() does to a request of the batch, and to the   *)
(* others.                                                                 *)
(***************************************************************************)
LEMMA SubmitRequests ==
    ASSUME IInv, Sound, Submit
    PROVE  /\ \A j \in DOMAIN step.scheduled :
                 LET x == step.scheduled[j]
                 IN /\ x.id \in Request /\ requests[x.id].status = "RUNNING"
                    /\ Reaches(requests[x.id], x.num_scheduled_tokens)
                    /\ requests'[x.id] = AfterSchedule(x.id, x.num_scheduled_tokens)
           /\ \A r \in Request : (\A j \in DOMAIN step.scheduled : step.scheduled[j].id # r) =>
                 requests'[r] = requests[r]
<1> DEFINE s == step.scheduled
           ids == {s[i].id : i \in DOMAIN s}
           index(r) == CHOOSE i \in DOMAIN s : s[i].id = r
           tokens(r) == s[index(r)].num_scheduled_tokens
<1>1. requests' = [y \in Request |-> IF y \in ids THEN AfterSchedule(y, tokens(y)) ELSE requests[y]]
  BY DEF Submit, schedule_end
<1>2. /\ IsStep(step) /\ Once(step)
      /\ \A j \in DOMAIN s : EntryOK(s[j], step, running, requests, manager, prev_step_scheduled_req_ids)
      /\ \A y \in Request : y \in Range(running) <=> requests[y].status = "RUNNING"
  BY DEF IInv, StepOK, QueuesOK, Placed, Sound, Entries, EntriesOf
<1>3. ASSUME NEW j \in DOMAIN s
      PROVE  /\ s[j].id \in Request /\ requests[s[j].id].status = "RUNNING"
             /\ Reaches(requests[s[j].id], s[j].num_scheduled_tokens)
             /\ requests'[s[j].id] = AfterSchedule(s[j].id, s[j].num_scheduled_tokens)
  <2> DEFINE r == s[j].id
  <2>1. r \in Request
    BY <1>2 DEF IsStep, IsEntry
  <2>2. requests[r].status = "RUNNING" /\ Reaches(requests[r], s[j].num_scheduled_tokens)
    BY <1>2, <2>1 DEF EntryOK
  <2>3. index(r) \in DOMAIN s /\ s[index(r)].id = r
    OBVIOUS
  <2>4. r \in ids
    OBVIOUS
  <2> HIDE DEF index
  <2>5. index(r) = j
    BY <1>2, <2>3 DEF Once
  <2> HIDE DEF ids
  <2>6. requests'[r] = AfterSchedule(r, tokens(r))
    BY <1>1, <2>1, <2>4
  <2> QED BY <2>1, <2>2, <2>5, <2>6
<1>4. ASSUME NEW r \in Request, \A j \in DOMAIN s : s[j].id # r PROVE requests'[r] = requests[r]
  BY <1>1, <1>4
<1> QED BY <1>3, <1>4

(***************************************************************************)
(* What is counted of a scheduled request, without async scheduling.       *)
(***************************************************************************)
LEMMA SyncSchedule ==
    ASSUME ~AsyncScheduling, NEW r \in Request, IsRequest(requests[r]), NEW n \in Nat
    PROVE  LET p == AfterSchedule(r, n)
           IN /\ p.status = requests[r].status /\ p.tokens = requests[r].tokens
              /\ p.num_computed_tokens = requests[r].num_computed_tokens + n
<1> DEFINE q == requests[r]
           c == q.num_computed_tokens + n
<1>1. PICK y : AfterSchedule(r, n) = [q EXCEPT !.num_computed_tokens = c, !.num_output_placeholders = y]
  BY DEF AfterSchedule
<1> HIDE DEF c
<1> QED BY <1>1 DEF IsRequest, c

(***************************************************************************)
(* What the engine sends of a scheduled request.                           *)
(***************************************************************************)
LEMMA OutputFields ==
    ASSUME NEW x
    PROVE  LET e == OutputOf(x)
               q == requests[x.id]
           IN /\ e.id = x.id /\ e.kind = x.kind
              /\ e.num_scheduled_tokens = x.num_scheduled_tokens /\ e.blocks = x.blocks
              /\ e.num_computed_tokens = q.num_computed_tokens
              /\ e.num_output_tokens = Len(q.tokens) - Len(Prompt[x.id]) + q.num_output_placeholders
<1> DEFINE q == requests[x.id]
           a == q.num_computed_tokens
           b == Len(q.tokens) - Len(Prompt[x.id]) + q.num_output_placeholders
<1>1. PICK y : OutputOf(x) = [id |-> x.id, kind |-> x.kind, num_scheduled_tokens |-> x.num_scheduled_tokens,
                              blocks |-> x.blocks, num_computed_tokens |-> a,
                              all_token_ids |-> y, num_output_tokens |-> b]
  BY DEF OutputOf
<1> HIDE DEF a, b
<1>2. /\ OutputOf(x).num_computed_tokens = a /\ OutputOf(x).num_output_tokens = b
      /\ OutputOf(x).id = x.id /\ OutputOf(x).kind = x.kind
      /\ OutputOf(x).num_scheduled_tokens = x.num_scheduled_tokens /\ OutputOf(x).blocks = x.blocks
  BY <1>1
<1> QED BY <1>2 DEF a, b

(***************************************************************************)
(* The batch that is submitted speaks of its requests as they are.         *)
(***************************************************************************)
LEMMA SubmitInStep ==
    ASSUME IInv, Sound, QueueFits, OneAtATime, SyncInv, Submit
    PROVE  AllInStep' /\ EachOnce' /\ Synced' /\ Kinds'
<1> DEFINE s == step.scheduled
           batch == [out |-> SchedulerOutput, done |-> FALSE, sampled |-> <<>>, reads_ok |-> TRUE]
<1>1. /\ phase = "schedule" /\ batch_queue' = Append(batch_queue, batch)
      /\ finished_req_ids' = {} /\ step' = NoStep /\ runner_requests' = runner_requests
  BY DEF Submit, schedule_end, runnerVars
<1>2. /\ DOMAIN batch.out.reqs = DOMAIN s /\ \A j \in DOMAIN s : batch.out.reqs[j] = OutputOf(s[j])
      /\ batch.done = FALSE /\ batch.out.finished_req_ids = finished_req_ids
  BY DEF SchedulerOutput
<1> HIDE DEF batch
<1>3. batch_queue = <<>> /\ DOMAIN batch_queue = {}
  BY <1>1, NoBatchBefore
<1>4. DOMAIN batch_queue' = {1} /\ batch_queue'[1] = batch
  <2>1. batch_queue' = Append(<<>>, batch)
    BY <1>1, <1>3
  <2> QED BY <2>1
<1>5. \A j \in DOMAIN s : batch.out.reqs[j].id = s[j].id /\ batch.out.reqs[j].kind = s[j].kind
  BY <1>2, OutputFields
<1>6. Once(step)
  BY DEF Sound, Entries, EntriesOf
<1>7. EachOnce'
  BY <1>2, <1>4, <1>5, <1>6 DEF EachOnce, Once
<1>8. \A r : ~IsNew(NoStep, r)
  BY DEF IsNew, NoStep
<1>9. ASSUME NEW j \in DOMAIN s
      PROVE  LET r == s[j].id
             IN /\ InStepAt(r, batch_queue', requests'[r], runner_requests[r], {},
                            Started(requests', NoStep, r))
                /\ r \in Request
  <2> DEFINE x == s[j]
             r == x.id
             n == x.num_scheduled_tokens
             q == requests[r]
             p == requests'[r]
             w == runner_requests[r]
             e == batch.out.reqs[j]
  <2>1. /\ r \in Request /\ q.status = "RUNNING" /\ Reaches(q, n) /\ p = AfterSchedule(r, n)
        /\ IsRequest(q)
    BY SubmitRequests, Basics
  <2>2. n \in Nat /\ q.num_computed_tokens \in Nat /\ q.num_output_placeholders = 0
    BY <2>1 DEF Reaches, Sound, TokensCounted, CountsOf, Counts, OneAtATime
  <2>3. p.status = "RUNNING" /\ p.tokens = q.tokens /\ p.num_computed_tokens = q.num_computed_tokens + n
    <3> HIDE DEF r, n
    <3> QED BY <2>1, <2>2, SyncSchedule DEF OneAtATime
  <2>4. /\ e.num_computed_tokens = q.num_computed_tokens /\ e.num_scheduled_tokens = n
        /\ e.id = r /\ e.kind = x.kind
        /\ e.num_output_tokens = Len(q.tokens) - Len(Prompt[r]) + q.num_output_placeholders
    <3> HIDE DEF x, s
    <3>1. e = OutputOf(x)
      BY <1>2 DEF x
    <3> HIDE DEF e
    <3> QED BY <3>1, OutputFields DEF r, n, q
  <2> HIDE DEF e, p
  <2>5. SeqLen(e) = p.num_computed_tokens
    BY <2>2, <2>3, <2>4 DEF SeqLen
  <2>6. Base(e) = Len(q.tokens)
    <3> DEFINE a == Len(q.tokens)
               l == Len(Prompt[r])
    <3>1. a \in Nat /\ l \in Nat
      BY <2>1, PromptFacts DEF IsRequest, IsSeq
    <3>2. Base(e) = l + ((a - l) + 0)
      BY <2>2, <2>4 DEF Base
    <3> HIDE DEF a, l
    <3> QED BY <3>1, <3>2 DEF a
  <2>7. /\ r \notin finished_req_ids /\ Idle(r, q, w, Started(requests, step, r))
    BY <1>3, <2>1 DEF SyncInv, AllInStep, InStepAt, Alive
  <2>8. IF x.kind = "new" THEN q.tokens = PromptTokens(r) ELSE w.tokens = q.tokens
    <3>1. CASE x.kind = "new"
      BY <2>7, <3>1 DEF Idle, Started, IsNew
    <3>2. CASE x.kind # "new"
      <4>1. ~IsNew(step, r)
        BY <1>6, <3>2 DEF IsNew, Once
      <4> QED BY <2>1, <2>7, <3>2, <4>1 DEF Idle, Started
    <3> QED BY <3>1, <3>2
  <2>9. InStep(batch, j, p, w)
    BY <1>2, <2>2, <2>3, <2>4, <2>5, <2>6, <2>8 DEF InStep, e
  <2>10. \A k \in DOMAIN batch.out.reqs : batch.out.reqs[k].id = r => k = j
    BY <1>2, <1>5, <1>6 DEF Once
  <2>11. Has(batch, r)
    BY <1>2, <2>4 DEF Has, e
  <2>12. InStepAt(r, batch_queue', p, w, {}, Started(requests', NoStep, r))
    <3> HIDE DEF r, p, w
    <3> QED BY <1>2, <1>4, <2>7, <2>9, <2>10, <2>11 DEF InStepAt
  <2> QED BY <2>1, <2>12 DEF p
<1>10. ASSUME NEW r \in Request, \A j \in DOMAIN s : s[j].id # r
       PROVE  InStepAt(r, batch_queue', requests'[r], runner_requests[r], {},
                       Started(requests', NoStep, r))
  <2>1. requests'[r] = requests[r]
    BY <1>10, SubmitRequests
  <2>2. InStepAt(r, batch_queue, requests[r], runner_requests[r], finished_req_ids,
                 Started(requests, step, r))
    BY DEF SyncInv, AllInStep
  <2>3. ~IsNew(step, r) /\ ~IsNew(NoStep, r)
    BY <1>8, <1>10 DEF IsNew
  <2>4. Started(requests', NoStep, r) <=> Started(requests, step, r)
    BY <2>1, <2>3 DEF Started
  <2>5. \A k \in DOMAIN batch.out.reqs : batch.out.reqs[k].id # r
    BY <1>2, <1>5, <1>10
  <2> QED BY <1>2, <1>3, <1>4, <2>1, <2>2, <2>4, <2>5 DEF InStepAt, Idle
<1>11. AllInStep'
  <2> SUFFICES ASSUME NEW r \in Request
               PROVE  InStepAt(r, batch_queue', requests'[r], runner_requests[r], {},
                               Started(requests', NoStep, r))
    BY <1>1 DEF AllInStep
  <2> QED BY <1>9, <1>10
<1>12. Kinds'
  BY <1>1 DEF Kinds, NoStep
<1> QED BY <1>1, <1>7, <1>11, <1>12 DEF SyncInv, Synced

\* The worker executes batch i and draws value.
Executed(i, value) ==
    LET b == batch_queue[i]
        c == batch_queue'[i]
        reqs == b.out.reqs
    IN /\ i \in DOMAIN batch_queue /\ ~b.done /\ IsBatch(b)
       /\ DOMAIN batch_queue' = DOMAIN batch_queue
       /\ \A j \in DOMAIN batch_queue : j # i => batch_queue'[j] = batch_queue[j]
       /\ c.out = b.out /\ c.done /\ c.reads_ok = ReadsOwnPrefix(b.out)
       /\ \A k \in DOMAIN reqs : c.sampled[k] = SampledToken(b.out, reqs[k], value)
       /\ \A k \in DOMAIN reqs : runner_requests'[reqs[k].id] = AfterSampling(b.out, reqs[k], value)
       /\ \A r \in Request : ~Has(b, r) =>
             runner_requests'[r] = IF r \in b.out.finished_req_ids THEN NoState ELSE runner_requests[r]
       /\ DOMAIN runner_requests' = Request /\ kv_cache' = AfterForward(b.out)
       /\ UNCHANGED <<schedulerVars, phase>>

(***************************************************************************)
(* The worker's step.                                                      *)
(***************************************************************************)
LEMMA ExecuteFacts ==
    ASSUME IInv, EachOnce, Execute
    PROVE  \E i, value : Executed(i, value)
<1>1. PICK i \in DOMAIN batch_queue :
        /\ ~batch_queue[i].done
        /\ \E value \in [ScheduledIds(batch_queue[i].out) -> SampledValues] :
             /\ execute_model(batch_queue[i].out, value)
             /\ batch_queue' =
                  [batch_queue EXCEPT
                     ![i].done = TRUE,
                     ![i].sampled = [k \in DOMAIN batch_queue[i].out.reqs |->
                                       SampledToken(batch_queue[i].out, batch_queue[i].out.reqs[k], value)],
                     ![i].reads_ok = ReadsOwnPrefix(batch_queue[i].out)]
        /\ UNCHANGED <<schedulerVars, phase, resets>>
  BY DEF Execute
<1> DEFINE b == batch_queue[i]
           out == b.out
           reqs == out.reqs
<1>2. PICK value :
        /\ execute_model(out, value)
        /\ batch_queue' =
             [batch_queue EXCEPT
                ![i].done = TRUE,
                ![i].sampled = [k \in DOMAIN reqs |-> SampledToken(out, reqs[k], value)],
                ![i].reads_ok = ReadsOwnPrefix(out)]
  BY <1>1
<1> DEFINE c == batch_queue'[i]
           tok(k) == SampledToken(out, reqs[k], value)
           sampled == [k \in DOMAIN reqs |-> tok(k)]
<1>3. /\ DOMAIN batch_queue' = DOMAIN batch_queue
      /\ \A j \in DOMAIN batch_queue : j # i => batch_queue'[j] = batch_queue[j]
      /\ c = [b EXCEPT !.done = TRUE, !.sampled = sampled, !.reads_ok = ReadsOwnPrefix(out)]
  BY <1>2
<1>4. IsBatch(b)
  BY DEF IInv, BatchesOK
<1>5. c.out = out /\ c.done = TRUE /\ c.sampled = sampled /\ c.reads_ok = ReadsOwnPrefix(out)
  <2> HIDE DEF c, sampled
  <2>1. DOMAIN b = {"out", "done", "sampled", "reads_ok"}
    BY <1>4 DEF IsBatch
  <2> QED BY <1>3, <2>1
<1>6. \A k \in DOMAIN reqs : sampled[k] = tok(k)
  OBVIOUS
<1> HIDE DEF sampled, tok, c
<1>7. /\ runner_requests' =
           [r \in Request |->
              IF r \in ScheduledIds(out)
              THEN AfterSampling(out, reqs[CHOOSE k \in DOMAIN reqs : reqs[k].id = r], value)
              ELSE IF r \in out.finished_req_ids THEN NoState
              ELSE runner_requests[r]]
      /\ kv_cache' = AfterForward(out)
  BY <1>2 DEF execute_model
<1>8. \A k, l \in DOMAIN reqs : reqs[k].id = reqs[l].id => k = l
  BY DEF EachOnce
<1>9. \A k \in DOMAIN reqs : reqs[k].id \in Request /\ reqs[k].id \in ScheduledIds(out)
  BY <1>4 DEF IsBatch, ScheduledIds
<1>10. \A r : r \in ScheduledIds(out) <=> Has(b, r)
  BY DEF ScheduledIds, Has
<1> HIDE DEF out, reqs
<1>11. ASSUME NEW k \in DOMAIN reqs
       PROVE  runner_requests'[reqs[k].id] = AfterSampling(out, reqs[k], value)
  <2> DEFINE r == reqs[k].id
             l == CHOOSE j \in DOMAIN reqs : reqs[j].id = r
  <2>1. l \in DOMAIN reqs /\ reqs[l].id = r
    OBVIOUS
  <2>2. l = k
    <3> HIDE DEF l
    <3> QED BY <1>8, <2>1
  <2>3. runner_requests'[r] = AfterSampling(out, reqs[l], value)
    BY <1>7, <1>9
  <2> QED BY <2>2, <2>3
<1>12. \A r \in Request : ~Has(b, r) =>
          runner_requests'[r] = IF r \in out.finished_req_ids THEN NoState ELSE runner_requests[r]
  BY <1>7, <1>10
<1>13. DOMAIN runner_requests' = Request
  BY <1>7
<1>14. Executed(i, value)
  BY <1>1, <1>3, <1>4, <1>5, <1>6, <1>7, <1>11, <1>12, <1>13 DEF Executed, c, out, reqs, tok
<1> QED BY <1>14

(***************************************************************************)
(* A whole sequence, as a slice of itself.                                 *)
(***************************************************************************)
LEMMA WholeSlice ==
    ASSUME NEW s, IsSeq(s)
    PROVE  SubSeq(s, 1, Len(s)) = s
<1> DEFINE T == Range(s)
           n == Len(s)
           u == SubSeq(s, 1, n)
<1>1. s \in Seq(T) /\ n \in Nat
  BY DEF IsSeq
<1> HIDE DEF T
<1>2. u \in Seq(T) /\ Len(u) = n /\ \A i \in 1 .. n : u[i] = s[i]
  BY <1>1
<1> HIDE DEF u
<1>3. u = s
  BY <1>1, <1>2
<1> QED BY <1>3 DEF u

(***************************************************************************)
(* _update_states without async scheduling: the worker has the tokens that *)
(* the scheduler has, and none on the device only.                         *)
(***************************************************************************)
LEMMA SyncUpdated ==
    ASSUME ~AsyncScheduling, Synced, NEW out, NEW e, e.id \in Request, NEW tokens, IsSeq(tokens)
    PROVE  /\ /\ e.id \notin out.finished_req_ids
              /\ IF e.kind = "new" THEN tokens = PromptTokens(e.id)
                 ELSE runner_requests[e.id].tokens = tokens /\ Base(e) = Len(tokens)
              => UpdatedState(out, e).tokens = tokens
           /\ UpdatedState(out, e).unsynced = {}
           /\ DOMAIN UpdatedState(out, e) = {"tokens", "blocks", "unsynced"}
<1> DEFINE r == e.id
           state == IF r \in out.finished_req_ids THEN NoState ELSE runner_requests[r]
           w == Len(Prompt[r])
           kept == SubSeq(state.tokens, 1, LesserOf(Len(state.tokens), Len(PromptTokens(r)) + e.num_output_tokens))
           blocks == IF e.kind = "resumed" THEN e.blocks ELSE state.blocks \o e.blocks
           unsynced == state.unsynced \cap DOMAIN kept
<1>1. ~Recovers(out, e)
  BY DEF Recovers
<1>2. CachedState(out, e) = [tokens |-> kept, blocks |-> blocks, unsynced |-> unsynced]
  BY <1>1 DEF CachedState
<1>3. state.unsynced = {}
  BY DEF Synced, NoState
<1>4. unsynced = {}
  BY <1>3
<1>5. UpdatedState(out, e) = IF e.kind = "new" THEN [tokens |-> PromptTokens(r), blocks |-> e.blocks, unsynced |-> {}]
                             ELSE [tokens |-> kept, blocks |-> blocks, unsynced |-> unsynced]
  BY <1>2 DEF UpdatedState, NewState
<1> HIDE DEF kept, blocks, unsynced
<1>6. /\ UpdatedState(out, e).unsynced = {}
      /\ DOMAIN UpdatedState(out, e) = {"tokens", "blocks", "unsynced"}
      /\ UpdatedState(out, e).tokens = IF e.kind = "new" THEN PromptTokens(r) ELSE kept
  BY <1>4, <1>5
<1>7. ASSUME r \notin out.finished_req_ids, e.kind # "new", runner_requests[r].tokens = tokens,
             Base(e) = Len(tokens)
      PROVE  kept = tokens
  <2>1. Len(PromptTokens(r)) + e.num_output_tokens = Len(tokens)
    BY <1>7, PromptFacts DEF Base
  <2>2. state.tokens = tokens
    BY <1>7
  <2>3. kept = SubSeq(tokens, 1, LesserOf(Len(tokens), Len(tokens)))
    BY <2>1, <2>2 DEF kept
  <2>4. LesserOf(Len(tokens), Len(tokens)) = Len(tokens)
    BY DEF LesserOf
  <2> QED BY <2>3, <2>4, WholeSlice
<1> QED BY <1>6, <1>7

(***************************************************************************)
(* execute_model and sample_tokens for one entry, without async            *)
(* scheduling.                                                             *)
(***************************************************************************)
LEMMA SyncSampled ==
    ASSUME ~AsyncScheduling, Synced, NEW out, NEW e, e.id \in Request, NEW value
    PROVE  LET state == UpdatedState(out, e)
               t == SampledToken(out, e, value)
               after == AfterSampling(out, e, value)
           IN /\ after.tokens = state.tokens \o t /\ after.unsynced = {} /\ after.blocks = state.blocks
              /\ t = <<>> <=> SeqLen(e) < Len(state.tokens)
              /\ t # <<>> => t[1][1] = SeqLen(e) + 1
<1> DEFINE state == UpdatedState(out, e)
           t == SampledToken(out, e, value)
           all == state.tokens \o t
           v == <<SeqLen(e) + 1, value[e.id]>>
<1>1. IsSeq(<<>>)
  <2>1. <<>> \in Seq({})
    OBVIOUS
  <2> QED BY <2>1, SeqIs
<1>2. state.unsynced = {} /\ DOMAIN state = {"tokens", "blocks", "unsynced"}
  BY <1>1, SyncUpdated
<1>3. AfterSampling(out, e, value) = [state EXCEPT !.tokens = all, !.unsynced = @]
  BY DEF AfterSampling
<1>4. t = IF SeqLen(e) < Len(state.tokens) THEN <<>> ELSE <<v>>
  BY DEF SampledToken, Discarded
<1> HIDE DEF state, all, t
<1>5. /\ AfterSampling(out, e, value).tokens = all
      /\ AfterSampling(out, e, value).unsynced = {}
      /\ AfterSampling(out, e, value).blocks = state.blocks
  BY <1>2, <1>3
<1>6. <<v>> # <<>> /\ <<v>>[1][1] = SeqLen(e) + 1
  OBVIOUS
<1>7. (t = <<>> <=> SeqLen(e) < Len(state.tokens)) /\ (t # <<>> => t[1][1] = SeqLen(e) + 1)
  BY <1>4, <1>6
<1> QED BY <1>5, <1>7 DEF all, state, t

(***************************************************************************)
(* The worker's step keeps it in step.                                     *)
(***************************************************************************)
LEMMA ExecuteInStep ==
    ASSUME IInv, Sound, QueueFits, OneAtATime, SyncInv, Execute
    PROVE  AllInStep' /\ EachOnce' /\ Synced' /\ Kinds'
<1>1. PICK i, value : Executed(i, value)
  BY ExecuteFacts DEF SyncInv
<1> DEFINE b == batch_queue[i]
           c == batch_queue'[i]
           reqs == b.out.reqs
<1>2. DOMAIN batch_queue = {i} /\ DOMAIN batch_queue' = {i}
  <2>1. i \in DOMAIN batch_queue /\ DOMAIN batch_queue' = DOMAIN batch_queue
    BY <1>1 DEF Executed
  <2>2. DOMAIN batch_queue \subseteq {1}
    BY NoBatchBefore
  <2> QED BY <2>1, <2>2
<1>3. /\ ~b.done /\ IsBatch(b) /\ c.out = b.out /\ c.done
      /\ \A k \in DOMAIN reqs : c.sampled[k] = SampledToken(b.out, reqs[k], value)
      /\ \A k \in DOMAIN reqs : runner_requests'[reqs[k].id] = AfterSampling(b.out, reqs[k], value)
      /\ \A r \in Request : ~Has(b, r) =>
            runner_requests'[r] = IF r \in b.out.finished_req_ids THEN NoState ELSE runner_requests[r]
      /\ DOMAIN runner_requests' = Request
      /\ UNCHANGED <<schedulerVars, phase>>
  BY <1>1 DEF Executed
<1>4. requests' = requests /\ step' = step /\ finished_req_ids' = finished_req_ids
  BY <1>3 DEF schedulerVars
<1>5. Synced /\ ~AsyncScheduling /\ AllInStep
  BY DEF SyncInv, OneAtATime
<1>6. \A k \in DOMAIN reqs : reqs[k].id \in Request
  BY <1>3 DEF IsBatch
<1>7. \A r : Has(b, r) <=> Has(c, r)
  BY <1>3 DEF Has
<1> HIDE DEF c
<1>8. EachOnce'
  BY <1>2, <1>3 DEF SyncInv, EachOnce, c
<1>9. Synced'
  <2> SUFFICES ASSUME NEW r \in Request PROVE runner_requests'[r].unsynced = {}
    BY <1>3 DEF Synced
  <2>1. CASE Has(b, r)
    <3>1. PICK k \in DOMAIN reqs : reqs[k].id = r
      BY <2>1 DEF Has
    <3>2. AfterSampling(b.out, reqs[k], value).unsynced = {}
      BY <1>5, <1>6, SyncSampled
    <3> QED BY <1>3, <3>1, <3>2
  <2>2. CASE ~Has(b, r)
    BY <1>3, <1>5, <2>2 DEF Synced, NoState
  <2> QED BY <2>1, <2>2
<1>10. Kinds'
  BY <1>4 DEF SyncInv, Kinds
<1>11. ASSUME NEW r \in Request, requests[r].status \in Alive
       PROVE  InStepAt(r, batch_queue', requests[r], runner_requests'[r], finished_req_ids,
                       Started(requests, step, r))
  <2> DEFINE q == requests[r]
             w == runner_requests[r]
             x == runner_requests'[r]
             started == Started(requests, step, r)
  <2>1. InStepAt(r, batch_queue, q, w, finished_req_ids, started)
    BY <1>5 DEF AllInStep
  <2>2. /\ r \notin finished_req_ids /\ r \notin b.out.finished_req_ids
        /\ \A k \in DOMAIN reqs : reqs[k].id = r => InStep(b, k, q, w)
        /\ ~Has(b, r) => Idle(r, q, w, started)
    BY <1>2, <1>3, <1>11, <2>1 DEF InStepAt
  <2>3. IsSeq(q.tokens)
    BY Basics DEF IsRequest
  <2>4. ASSUME NEW k \in DOMAIN reqs, reqs[k].id = r
        PROVE  InStep(c, k, q, x)
    <3> DEFINE e == reqs[k]
               state == UpdatedState(b.out, e)
               t == SampledToken(b.out, e, value)
    <3>1. InStep(b, k, q, w)
      BY <2>2, <2>4
    <3>2. /\ q.status = "RUNNING" /\ e.num_computed_tokens \in Nat /\ e.num_scheduled_tokens \in Nat
          /\ SeqLen(e) = q.num_computed_tokens
          /\ IF e.kind = "new" THEN q.tokens = PromptTokens(e.id)
             ELSE w.tokens = q.tokens /\ Base(e) = Len(q.tokens)
      BY <1>3, <3>1 DEF InStep
    <3>3. state.tokens = q.tokens
      <4> HIDE DEF e, state
      <4>1. e.id = r
        BY <2>4 DEF e
      <4> QED BY <1>5, <2>2, <2>3, <3>2, <4>1, SyncUpdated DEF state
    <3>4. /\ AfterSampling(b.out, e, value).tokens = state.tokens \o t
          /\ t = <<>> <=> SeqLen(e) < Len(state.tokens)
          /\ t # <<>> => t[1][1] = SeqLen(e) + 1
      <4>1. e.id \in Request
        BY <2>4
      <4> DEFINE out == b.out
                 after == AfterSampling(out, e, value)
      <4> HIDE DEF e, out
      <4>2. /\ after.tokens = UpdatedState(out, e).tokens \o SampledToken(out, e, value)
            /\ SampledToken(out, e, value) = <<>> <=> SeqLen(e) < Len(UpdatedState(out, e).tokens)
            /\ SampledToken(out, e, value) # <<>> => SampledToken(out, e, value)[1][1] = SeqLen(e) + 1
        BY <1>5, <4>1, SyncSampled
      <4> QED BY <4>2 DEF out
    <3>5. x = AfterSampling(b.out, e, value) /\ c.sampled[k] = t /\ c.out.reqs[k] = e /\ c.done
      BY <1>3, <2>4
    <3> HIDE DEF e, state, t, x, q, w
    <3>6. x.tokens = q.tokens \o t
      BY <3>3, <3>4, <3>5
    <3>7. Behind(q) <=> t = <<>>
      BY <3>2, <3>3, <3>4 DEF Behind
    <3>8. t # <<>> => t[1][1] = q.num_computed_tokens + 1
      BY <3>2, <3>4
    <3> QED BY <3>2, <3>5, <3>6, <3>7, <3>8 DEF InStep
  <2>5. ~Has(b, r) => x = w
    BY <1>3, <2>2
  <2> HIDE DEF q, w, x, b, started
  <2>6. \A k \in DOMAIN c.out.reqs : c.out.reqs[k].id = r => InStep(c, k, q, x)
    BY <1>3, <2>4
  <2>7. InStepAt(r, batch_queue', q, x, finished_req_ids, started)
    BY <1>2, <1>3, <1>7, <2>2, <2>5, <2>6 DEF InStepAt, c
  <2> QED BY <2>7 DEF q, x, started
<1>12. AllInStep'
  <2> SUFFICES ASSUME NEW r \in Request
               PROVE  InStepAt(r, batch_queue', requests[r], runner_requests'[r], finished_req_ids,
                               Started(requests, step, r))
    BY <1>4 DEF AllInStep
  <2>1. CASE requests[r].status \notin Alive
    BY <2>1 DEF InStepAt
  <2> QED BY <1>11, <2>1
<1> QED BY <1>8, <1>9, <1>10, <1>12

(***************************************************************************)
(* With one batch at a time a running request has something to compute     *)
(* whenever schedule() comes to it, and room to: it skips none.            *)
(***************************************************************************)
LEMMA NeverSkips ==
    ASSUME IInv, Sound, QueueFits, OneAtATime, SyncInv, phase = "schedule"
    PROVE  ~SkipRunning
<1> DEFINE r == running[step.req_index]
           q == requests[r]
           c == q.num_computed_tokens
           a == Len(q.tokens)
           k == a + q.num_output_placeholders - c
           l == MaxModelLen - 1 - c
<1> SUFFICES ASSUME SkipRunning PROVE FALSE
  OBVIOUS
<1>1. /\ RunningLeft /\ (ReachesMaxTokens(r) \/ NumNewTokens(r) = 0)
  BY DEF SkipRunning
<1>2. step.req_index \in 1 .. Len(running) /\ step.token_budget \in Nat \ {0}
  BY <1>1 DEF RunningLeft, IInv, StepOK, IsStep, IsSeq, QueuesOK, Placed
<1>3. r \in Request /\ q.status = "RUNNING"
  <2>1. /\ running \in Seq(Request) /\ DOMAIN running = 1 .. Len(running)
        /\ \A y \in Request : y \in Range(running) <=> requests[y].status = "RUNNING"
    BY DEF IInv, QueuesOK, Placed
  <2>2. r \in Request /\ r \in Range(running)
    BY <1>2, <2>1 DEF Range
  <2> QED BY <2>1, <2>2
<1>4. Behind(q)
  <2>1. \A i \in DOMAIN batch_queue : ~Has(batch_queue[i], r)
    BY NoBatchBefore
  <2> HIDE DEF r
  <2> QED BY <1>3, <2>1 DEF SyncInv, AllInStep, InStepAt, Idle, Alive
<1>5. Counts(q, Slots(manager, r)) /\ IsRequest(q)
  BY <1>3, Basics DEF Sound, TokensCounted, CountsOf
<1> HIDE DEF r
<1>6. c \in Nat /\ q.num_output_placeholders = 0 /\ a \in Nat /\ a < MaxModelLen /\ c < a
  BY <1>3, <1>4, <1>5 DEF Counts, Alive, OneAtATime, IsRequest, IsSeq, Behind
<1>7. ~ReachesMaxTokens(r)
  BY <1>6 DEF ReachesMaxTokens
<1>8. NumNewTokens(r) = LesserOf(Chunk(k), l)
  BY DEF NumNewTokens
<1>9. k = a - c
  BY <1>6
<1> HIDE DEF k, l, q
<1>10. k \in Nat \ {0} /\ l \in Nat \ {0}
  BY <1>6, <1>9, SizesAssumption DEF l
<1> HIDE DEF c, a
<1>11. Chunk(k) \in Nat \ {0}
  BY <1>2, <1>10, SchedulerAssumption DEF Chunk, LesserOf
<1>12. NumNewTokens(r) # 0
  BY <1>8, <1>10, <1>11 DEF LesserOf
<1> QED BY <1>1, <1>7, <1>12

(***************************************************************************)
(* Every step of the engine keeps it so that nobody was skipped.           *)
(***************************************************************************)
LEMMA NextSkipsNobody ==
    ASSUME IInv, Sound, QueueFits, AtRequest, OneAtATime, SyncInv, [Next]_vars
    PROVE  NobodySkipped'
<1>1. ASSUME UNCHANGED <<running, step>> PROVE NobodySkipped'
  BY <1>1 DEF NobodySkipped, SyncInv
<1>2. ASSUME step'.loop # "running" PROVE NobodySkipped'
  BY <1>2 DEF NobodySkipped
<1>3. IsStep(step) /\ NoStep.loop = "none" /\ (phase # "schedule" => step = NoStep)
  BY DEF IInv, StepOK, NoStep
<1>4. CASE Client
  <2>1. step' = step /\ phase # "schedule"
    BY <1>4 DEF Client, Add, add_request, Abort, finish_requests, Reset, ResetIdle, ResetRunning
  <2> QED BY <1>2, <1>3, <2>1
<1>5. CASE StepStart
  <2>1. \/ step' = step
        \/ /\ step' = [NoStep EXCEPT !.loop = "running", !.token_budget = MaxNumScheduledTokens]
           /\ running' = running
    BY <1>5 DEF StepStart, schedule_start, schedulerVars
  <2>2. step = NoStep
    BY <1>3, <1>5 DEF StepStart
  <2>3. CASE step' = step
    BY <1>2, <1>3, <2>2, <2>3
  <2>4. CASE /\ step' = [NoStep EXCEPT !.loop = "running", !.token_budget = MaxNumScheduledTokens]
             /\ running' = running
    <3>1. step'.req_index = 1
      BY <2>4 DEF NoStep
    <3>2. DOMAIN running = 1 .. Len(running)
      BY DEF IInv, QueuesOK, Placed
    <3> QED BY <2>4, <3>1, <3>2 DEF NobodySkipped
  <2> QED BY <2>1, <2>3, <2>4
<1>6. CASE Schedule
  <2>1. CASE ScheduleWaiting \/ RunningDone
    <3>1. step'.loop = "waiting"
      BY <1>3, <2>1 DEF ScheduleWaiting, CanAdmit, RunningDone, IsStep
    <3> QED BY <1>2, <3>1
  <2>2. CASE EnterRunning
    <3>1. /\ step'.loop = step.loop /\ step'.req_index = step.req_index
          /\ step'.scheduled = step.scheduled /\ running' = running
      BY <1>3, <2>2 DEF EnterRunning, IsStep
    <3> QED BY <3>1 DEF NobodySkipped, SyncInv
  <2>3. CASE ScheduleRunning
    BY <2>3, JoinIndex DEF SyncInv
  <2>4. CASE PreemptForRunning
    BY <2>4, PreemptIndex DEF SyncInv
  <2>5. phase = "schedule"
    BY <1>6 DEF Schedule
  <2>6. ~SkipRunning
    BY <2>5, NeverSkips
  <2> QED BY <1>6, <2>1, <2>2, <2>3, <2>4, <2>6 DEF Schedule
<1>7. CASE Submit
  BY <1>2, <1>3, <1>7 DEF Submit, schedule_end
<1>8. CASE UpdateRequest \/ StepEnd \/ Execute
  <2>1. step' = step /\ phase # "schedule"
    BY <1>8 DEF UpdateRequest, update_request, IgnoreOutput, ApplyOutput, StepEnd, Execute, schedulerVars
  <2> QED BY <1>2, <1>3, <2>1
<1>9. CASE UNCHANGED vars
  BY <1>1, <1>9 DEF vars, schedulerVars
<1> QED BY <1>4, <1>5, <1>6, <1>7, <1>8, <1>9 DEF Next, Engine

(***************************************************************************)
(* With one batch at a time the invariant holds initially, ...             *)
(***************************************************************************)
LEMMA InitSync ==
    ASSUME Init
    PROVE  SyncInv
<1>1. /\ requests = [r \in Request |-> NewRequest(r, "NONE")]
      /\ runner_requests = [r \in Request |-> NoState]
      /\ step = NoStep /\ batch_queue = <<>>
  BY DEF Init, InitScheduler, InitRunner
<1>2. \A r \in Request : requests[r].status \notin Alive
  BY <1>1 DEF NewRequest, Alive
<1>3. DOMAIN batch_queue = {}
  BY <1>1
<1>4. \A r \in Request : runner_requests[r].unsynced = {}
  BY <1>1 DEF NoState
<1>5. step.loop = "none" /\ DOMAIN step.scheduled = {}
  BY <1>1 DEF NoStep
<1> QED BY <1>1, <1>2, <1>3, <1>4, <1>5
    DEF SyncInv, AllInStep, InStepAt, EachOnce, Synced, Kinds, NobodySkipped

(***************************************************************************)
(* ... and every step of the engine keeps it.                              *)
(***************************************************************************)
LEMMA NextSync ==
    ASSUME IInv, Sound, Budget, QueueFits, AtRequest, OneAtATime, SyncInv, [Next]_vars
    PROVE  SyncInv'
<1>1. NobodySkipped'
  BY NextSkipsNobody
<1>2. CASE Quiet
  BY <1>1, <1>2, QuietInStep DEF SyncInv
<1>3. CASE \E r \in Request : Add(r)
  BY <1>1, <1>3, AddInStep DEF SyncInv
<1>4. CASE Reset(TRUE)
  BY <1>1, <1>4, ResetRunningInStep DEF SyncInv
<1>5. CASE Submit
  BY <1>1, <1>5, SubmitInStep DEF SyncInv
<1>6. CASE UpdateRequest
  BY <1>1, <1>6, UpdateRequestInStep DEF SyncInv
<1>7. CASE StepEnd
  BY <1>1, <1>7, StepEndInStep DEF SyncInv
<1>8. CASE Execute
  BY <1>1, <1>8, ExecuteInStep DEF SyncInv
<1>9. Reset(ResetRunningAllowed) => Reset(TRUE) \/ Quiet
  <2>1. ASSUME ResetRunningAllowed, Reset(ResetRunningAllowed) PROVE Reset(TRUE)
    BY <2>1 DEF Reset
  <2>2. ASSUME ~ResetRunningAllowed, Reset(ResetRunningAllowed) PROVE Reset(FALSE)
    BY <2>2 DEF Reset
  <2> QED BY <2>1, <2>2 DEF Quiet
<1> QED BY <1>2, <1>3, <1>4, <1>5, <1>6, <1>7, <1>8, <1>9, QuietOrNot

(***************************************************************************)
(* Without async scheduling and with one batch at a time, the worker has   *)
(* the tokens the scheduler has whenever it needs them, and schedule()     *)
(* passes over no running request.                                         *)
(***************************************************************************)
THEOREM WorkerStaysInStep ==
    ASSUME OneAtATime
    PROVE  Spec => [](SyncInv /\ AtRequest)
<1>1. AsyncSafe
  BY DEF OneAtATime, AsyncSafe
<1>2. Init => SyncInv /\ AtRequest /\ QueueFits
  <2>1. ASSUME Init PROVE AtRequest /\ QueueFits
    <3>1. step = NoStep /\ phase = "input" /\ batch_queue = <<>>
      BY <2>1 DEF Init, InitScheduler
    <3> QED BY <3>1, EngineAssumption DEF AtRequest, NoStep, QueueFits
  <2> QED BY <2>1, InitSync
<1>3. IInv /\ Sound /\ Budget /\ QueueFits /\ SyncInv /\ AtRequest /\ [Next]_vars
        => SyncInv' /\ AtRequest' /\ QueueFits'
  <2> SUFFICES ASSUME IInv, Sound, Budget, QueueFits, SyncInv, AtRequest, [Next]_vars
               PROVE  SyncInv' /\ AtRequest' /\ QueueFits'
    OBVIOUS
  <2>1. SyncInv'
    BY NextSync
  <2>2. AtRequest'
    BY NextIndex DEF SyncInv
  <2> QED BY <2>1, <2>2, NextFits
<1>4. Spec => []Sound
  BY <1>1, AlwaysSound
<1>5. Spec => []Budget
  BY <1>1, AlwaysBudget
<1> QED BY <1>2, <1>3, <1>4, <1>5, Inductive, PTL DEF Spec

(***************************************************************************)
(* schedule(): the batch has each request once, running requests only, the *)
(* budget is what is left of it and what the batch has, and req_index      *)
(* stands at the request that is asked slots for, whatever was preempted   *)
(* meanwhile.  Under the priority policy the victim may stand before the   *)
(* index without being in the batch if there are several batches or        *)
(* placeholders, and then the index moves on by one too many.              *)
(***************************************************************************)
THEOREM StepAlwaysConsistent ==
    ASSUME AsyncSafe, Policy = "fcfs" \/ OneAtATime
    PROVE  Spec => []StepConsistent
<1>1. Spec => []Sound
  BY AlwaysSound
<1>2. Spec => []Budget
  BY AlwaysBudget
<1>3. IInv /\ Sound /\ Budget /\ AtRequest => StepConsistent
  BY InvariantStep
<1>4. CASE Policy = "fcfs"
  <2>1. Init => AtRequest
    BY DEF Init, InitScheduler, AtRequest, NoStep
  <2>2. IInv /\ Sound /\ AtRequest /\ [Next]_vars => AtRequest'
    BY <1>4, NextIndex
  <2> QED BY <1>1, <1>2, <1>3, <2>1, <2>2, Inductive, PTL DEF Spec
<1>5. CASE OneAtATime
  BY <1>1, <1>2, <1>3, <1>5, WorkerStaysInStep, Inductive, PTL
<1> QED BY <1>4, <1>5

-----------------------------------------------------------------------------
(* Tokens *)

(***************************************************************************)
(* The next token keeps the tokens in order.                               *)
(***************************************************************************)
LEMMA NextToken ==
    ASSUME NEW q, InOrder(q), IsSeq(q.tokens), NEW t, IsSeq(t), Len(t) = 1,
           t[1][1] = Len(q.tokens) + 1, NEW p, p.tokens = q.tokens \o t
    PROVE  InOrder(p)
<1> DEFINE u == q.tokens
           n == Len(u)
           w == u \o t
<1>1. n \in Nat
  BY DEF IsSeq
<1>2. DOMAIN w = 1 .. (n + 1) /\ w[n + 1] = t[1] /\ (\A i \in 1 .. n : w[i] = u[i]) /\ DOMAIN u = 1 .. n
  BY ConcatOne
<1>3. \A i \in DOMAIN u : u[i][1] = i
  BY DEF InOrder
<1> HIDE DEF u, w
<1>4. \A i \in 1 .. (n + 1) : i = n + 1 \/ i \in 1 .. n
  BY <1>1
<1>5. t[1][1] = n + 1
  BY DEF u
<1> HIDE DEF n
<1>6. \A i \in DOMAIN w : w[i][1] = i
  BY <1>2, <1>3, <1>4, <1>5
<1> QED BY <1>6 DEF InOrder, w, u

(***************************************************************************)
(* update_from_output appends the next token.                              *)
(***************************************************************************)
LEMMA UpdateRequestInOrder ==
    ASSUME IInv, Sound, QueueFits, OneAtATime, SyncInv, TokensInOrder, UpdateRequest
    PROVE  TokensInOrder'
<1> DEFINE b == batch_queue[1]
           r == b.out.reqs[1].id
           t == b.sampled[1]
           q == requests[r]
           p == requests'[r]
<1>1. /\ b.done /\ b.out.reqs # <<>> /\ update_request(r, t) /\ phase \in {"output", "update"}
  BY DEF UpdateRequest
<1>2. /\ IsSeq(batch_queue) /\ batch_queue # <<>> /\ \A i \in DOMAIN batch_queue : IsBatch(batch_queue[i])
  BY <1>1 DEF IInv, BatchesOK
<1>3. 1 \in DOMAIN batch_queue /\ IsBatch(b) /\ OneToken(b) /\ DOMAIN batch_queue \subseteq {1}
  <2>1. 1 \in DOMAIN batch_queue
    BY <1>2, SeqTail
  <2> QED BY <1>1, <1>2, <2>1, NoBatchBefore DEF Sound, OneEach
<1>4. 1 \in DOMAIN b.out.reqs /\ 1 \in DOMAIN b.sampled
  <2>1. IsSeq(b.out.reqs) /\ IsSeq(b.sampled) /\ Len(b.sampled) = Len(b.out.reqs)
    BY <1>1, <1>3 DEF IsBatch
  <2>2. 1 \in DOMAIN b.out.reqs
    BY <1>1, <2>1, SeqTail
  <2> QED BY <2>1, <2>2 DEF IsSeq
<1>5. r \in Request /\ IsSeq(t) /\ Len(t) <= 1
  BY <1>1, <1>3, <1>4 DEF IsBatch, OneToken
<1>6. /\ p.tokens = q.tokens \/ (p.tokens = q.tokens \o t /\ t # <<>> /\ q.status \in Alive)
      /\ \A s \in Request : s # r => requests'[s] = requests[s]
  BY <1>1, <1>5, OutputTokens, SyncOutput DEF OneAtATime
<1>7. InOrder(q) /\ IsSeq(q.tokens)
  BY <1>5, Basics DEF TokensInOrder, InOrder, IsRequest
<1>8. InOrder(p)
  <2>1. CASE p.tokens = q.tokens
    BY <1>7, <2>1 DEF InOrder
  <2>2. CASE p.tokens = q.tokens \o t /\ t # <<>> /\ q.status \in Alive
    <3>1. InStep(b, 1, q, runner_requests[r])
      BY <1>3, <1>4, <1>5, <2>2 DEF SyncInv, AllInStep, InStepAt
    <3>2. ~Behind(q) /\ t[1][1] = q.num_computed_tokens + 1
      BY <1>1, <2>2, <3>1 DEF InStep
    <3>3. Counts(q, Slots(manager, r)) /\ ~AsyncScheduling
      BY <1>5 DEF Sound, TokensCounted, CountsOf, OneAtATime
    <3>4. Len(t) = 1
      <4> DEFINE k == Len(t)
      <4> HIDE DEF t, p, q
      <4>1. k \in Nat /\ k # 0 /\ k <= 1
        <5>1. k \in Nat /\ k <= 1 /\ t # <<>>
          BY <1>5, <2>2 DEF IsSeq
        <5>2. k = 0 => t = <<>>
          BY <1>5 DEF IsSeq
        <5> HIDE DEF k
        <5> QED BY <5>1, <5>2
      <4> HIDE DEF k
      <4>2. k = 1
        BY <4>1
      <4> QED BY <4>2 DEF k
    <3>5. q.num_computed_tokens = Len(q.tokens)
      <4> DEFINE a == Len(q.tokens)
                 c == q.num_computed_tokens
      <4> HIDE DEF q
      <4>1. a \in Nat
        BY <1>7 DEF IsSeq
      <4>2. c \in Int /\ c <= a + q.num_output_placeholders /\ q.num_output_placeholders = 0
        <5>1. q.status \in Alive
          BY <2>2
        <5>2. /\ q.num_computed_tokens <= Len(q.tokens) + q.num_output_placeholders
              /\ q.num_computed_tokens \in 0 .. (MaxModelLen - 1) /\ q.num_output_placeholders = 0
          BY <3>3, <5>1 DEF Counts
        <5> QED BY <5>2
      <4>3. ~(c < a)
        BY <3>2 DEF Behind
      <4> HIDE DEF a, c
      <4>4. c = a
        BY <4>1, <4>2, <4>3
      <4> QED BY <4>4 DEF a, c
    <3> HIDE DEF q, p, t
    <3> QED BY <1>5, <1>7, <2>2, <3>2, <3>4, <3>5, NextToken
  <2> QED BY <1>6, <2>1, <2>2
<1>9. ASSUME NEW s \in Request PROVE InOrder(requests'[s])
  <2>1. InOrder(requests[s])
    BY DEF TokensInOrder, InOrder
  <2> QED BY <1>6, <1>8, <2>1
<1> QED BY <1>9 DEF TokensInOrder, InOrder

(***************************************************************************)
(* Every step of the engine keeps the tokens in order, with one batch at a *)
(* time.                                                                   *)
(***************************************************************************)
LEMMA NextInOrder ==
    ASSUME IInv, Sound, QueueFits, OneAtATime, SyncInv, TokensInOrder, [Next]_vars
    PROVE  TokensInOrder'
<1>1. ASSUME \A r \in Request : requests'[r].tokens = requests[r].tokens PROVE TokensInOrder'
  BY <1>1 DEF TokensInOrder
<1>2. CASE Quiet
  <2>1. SameLives
    BY <1>2, QuietLives DEF SyncInv
  <2> QED BY <1>1, <2>1 DEF SameLives
<1>3. ASSUME NEW r \in Request, Add(r) PROVE TokensInOrder'
  <2>1. requests' = [requests EXCEPT ![r] = NewRequest(r, "WAITING")]
    BY <1>3 DEF Add, add_request
  <2>2. (\A s \in Request : s # r => requests'[s] = requests[s]) /\ requests'[r] = NewRequest(r, "WAITING")
    BY <2>1, Basics
  <2>3. requests'[r].tokens = PromptTokens(r)
    BY <2>2 DEF NewRequest
  <2>4. \A i \in DOMAIN PromptTokens(r) : PromptTokens(r)[i][1] = i
    BY DEF PromptTokens
  <2> QED BY <2>2, <2>3, <2>4 DEF TokensInOrder
<1>4. CASE Reset(ResetRunningAllowed)
  <2>1. CASE ResetRunning
    <3> DEFINE After(r) == [requests[r] EXCEPT !.status = "PREEMPTED", !.num_computed_tokens = 0,
                                               !.num_output_placeholders = 0,
                                               !.discard_latest_async_tokens = TRUE]
    <3>1. requests' = [r \in Request |-> IF r \in Range(running) THEN After(r) ELSE requests[r]]
      BY <2>1 DEF ResetRunning
    <3>2. \A r \in Request : After(r).tokens = requests[r].tokens
      BY Basics DEF IsRequest
    <3> HIDE DEF After
    <3> QED BY <1>1, <3>1, <3>2
  <2>2. CASE ResetIdle
    BY <1>1, <2>2 DEF ResetIdle
  <2> QED BY <1>4, <2>1, <2>2 DEF Reset
<1>5. CASE Submit
  <2>1. ASSUME NEW r \in Request PROVE requests'[r].tokens = requests[r].tokens
    <3>1. CASE \A j \in DOMAIN step.scheduled : step.scheduled[j].id # r
      BY <1>5, <3>1, SubmitRequests
    <3>2. CASE \E j \in DOMAIN step.scheduled : step.scheduled[j].id = r
      <4>1. PICK n \in Nat : requests'[r] = AfterSchedule(r, n)
        BY <1>5, <3>2, SubmitRequests DEF Reaches
      <4> QED BY <4>1, SyncSchedule, Basics DEF OneAtATime
    <3> QED BY <3>1, <3>2
  <2> QED BY <1>1, <2>1
<1>6. CASE UpdateRequest
  BY <1>6, UpdateRequestInOrder
<1>7. CASE StepEnd \/ Execute
  BY <1>1, <1>7 DEF StepEnd, Execute, schedulerVars
<1> QED BY <1>2, <1>3, <1>4, <1>5, <1>6, <1>7, QuietOrNot

(***************************************************************************)
(* TokensInOrder: update_from_output appends the tokens of a request in    *)
(* the order of their positions, whatever is preempted, resumed or aborted *)
(* in between; none is lost, repeated or taken for another.  It holds      *)
(* under async scheduling with any number of batches in flight, and        *)
(* without it with one.                                                    *)
(***************************************************************************)
THEOREM TokensAlwaysInOrder ==
    ASSUME AsyncSafe, AsyncScheduling \/ OneAtATime
    PROVE  Spec => []TokensInOrder
<1>1. ASSUME OneAtATime PROVE Spec => []TokensInOrder
  <2>1. Init => TokensInOrder
    BY InitOrdered DEF Ordered, InOrder, TokensInOrder
  <2>2. Init => QueueFits
    BY EngineAssumption DEF Init, QueueFits
  <2>3. IInv /\ QueueFits /\ [Next]_vars => QueueFits'
    BY NextFits
  <2>4. IInv /\ Sound /\ QueueFits /\ SyncInv /\ TokensInOrder /\ [Next]_vars => TokensInOrder'
    BY <1>1, NextInOrder
  <2>5. Spec => []Sound
    BY AlwaysSound
  <2>6. Spec => [](SyncInv /\ AtRequest)
    BY <1>1, WorkerStaysInStep
  <2> QED BY <2>1, <2>2, <2>3, <2>4, <2>5, <2>6, Inductive, PTL DEF Spec
<1> QED BY <1>1, AsyncTokensInOrder

-----------------------------------------------------------------------------
(* The slots of a request *)

(***************************************************************************)
(* Ends of blocks.                                                         *)
(***************************************************************************)
LEMMA Multiples ==
    ASSUME NEW i \in Int, NEW j \in Int
    PROVE  /\ i * BlockSize \in Int /\ (i - 1) * BlockSize = i * BlockSize - BlockSize
           /\ (i - 1) * BlockSize < i * BlockSize /\ (i - 1) * BlockSize \in Int
           /\ i <= j => i * BlockSize <= j * BlockSize
           /\ i < j => i * BlockSize <= (j - 1) * BlockSize
           /\ i * BlockSize < j * BlockSize => i < j
           /\ i * BlockSize <= j * BlockSize => i <= j
<1> DEFINE n == BlockSize
<1>1. n \in Nat /\ n > 0
  BY SizesAssumption
<1> HIDE DEF n
<1>2. /\ i * n \in Int /\ (i - 1) * n = i * n - n
      /\ i <= j => i * n <= j * n
      /\ (j - 1) * n = j * n - n
      /\ j * n \in Int
  BY <1>1
<1>3. i < j => i * n <= (j - 1) * n
  <2>1. ASSUME i < j PROVE i <= j - 1
    BY <2>1
  <2>2. ASSUME i <= j - 1 PROVE i * n <= (j - 1) * n
    BY <1>1, <2>2
  <2> QED BY <2>1, <2>2
<1>4. ASSUME i * n < j * n PROVE i < j
  <2>1. ASSUME j <= i PROVE j * n <= i * n
    BY <1>1, <2>1
  <2> DEFINE x == i * n
             y == j * n
  <2> HIDE DEF x, y
  <2>2. x < y /\ x \in Int /\ y \in Int /\ (j <= i => y <= x)
    BY <1>2, <1>4, <2>1 DEF x, y
  <2> QED BY <2>2
<1>5. ASSUME i * n <= j * n PROVE i <= j
  <2>1. ASSUME j + 1 <= i PROVE (j + 1) * n <= i * n
    BY <1>1, <2>1
  <2>2. (j + 1) * n = j * n + n
    BY <1>1
  <2> DEFINE x == i * n
             y == j * n
             z == (j + 1) * n
  <2> HIDE DEF x, y, z
  <2>3. x <= y /\ x \in Int /\ y \in Int /\ (j + 1 <= i => z <= x) /\ z = y + n
    BY <1>2, <1>5, <2>1, <2>2 DEF x, y, z
  <2> QED BY <1>1, <2>3
<1>6. (i - 1) * n < i * n /\ (i - 1) * n \in Int
  <2> DEFINE x == i * n
             z == (i - 1) * n
  <2> HIDE DEF x, z
  <2>1. x \in Int /\ z = x - n
    BY <1>2 DEF x, z
  <2>2. z < x /\ z \in Int
    BY <1>1, <2>1
  <2> QED BY <2>2 DEF x, z
<1> QED BY <1>2, <1>3, <1>4, <1>5, <1>6 DEF n

(***************************************************************************)
(* The blocks that the positions after c up to p fall into.                *)
(***************************************************************************)
LEMMA BlockIndexes ==
    ASSUME NEW c \in Nat, NEW p \in Nat, NEW i \in Int
    PROVE  i \in BlockIndex(c + 1) .. BlockIndex(p) <=> (c < i * BlockSize /\ (i - 1) * BlockSize < p)
<1> DEFINE d == c \div BlockSize
           f == (p - 1) \div BlockSize
<1>1. d \in Int /\ d * BlockSize <= c /\ f \in Int /\ f * BlockSize <= p - 1
  BY FullBlocks
<1>3. BlockIndex(c + 1) = d + 1 /\ BlockIndex(p) = f + 1
  BY DEF BlockIndex
<1>4. c < (d + 1) * BlockSize /\ p - 1 < (f + 1) * BlockSize
  BY SizesAssumption
<1> HIDE DEF d, f
<1>5. i * BlockSize \in Int /\ (i - 1) * BlockSize \in Int
  BY Multiples
<1>6. d < i => (d + 1) * BlockSize <= i * BlockSize
  BY <1>1, Multiples, d + 1 \in Int
<1>7. d * BlockSize < i * BlockSize => d < i
  BY <1>1, Multiples
<1>8. i - 1 <= f => (i - 1) * BlockSize <= f * BlockSize
  BY <1>1, Multiples, i - 1 \in Int
<1>9. (i - 1) * BlockSize < (f + 1) * BlockSize => i - 1 < f + 1
  BY <1>1, Multiples, i - 1 \in Int, f + 1 \in Int
<1>10. d * BlockSize \in Int /\ (d + 1) * BlockSize \in Int /\ f * BlockSize \in Int
       /\ (f + 1) * BlockSize \in Int
  BY <1>1, Multiples, d + 1 \in Int, f + 1 \in Int
<1> DEFINE u == i * BlockSize
           v == (i - 1) * BlockSize
           w == d * BlockSize
           x == (d + 1) * BlockSize
           y == f * BlockSize
           z == (f + 1) * BlockSize
<1> HIDE DEF u, v, w, x, y, z
<1>11. /\ u \in Int /\ v \in Int /\ w \in Int /\ x \in Int /\ y \in Int /\ z \in Int
       /\ w <= c /\ c < x /\ y <= p - 1 /\ p - 1 < z
       /\ d < i => x <= u
       /\ w < u => d < i
       /\ i - 1 <= f => v <= y
       /\ v < z => i - 1 < f + 1
  BY <1>1, <1>4, <1>5, <1>6, <1>7, <1>8, <1>9, <1>10 DEF u, v, w, x, y, z
<1>12. d < i <=> c < u
  BY <1>1, <1>11
<1>13. i - 1 <= f <=> v < p
  BY <1>1, <1>11
<1>14. i \in (d + 1) .. (f + 1) <=> (d < i /\ i - 1 <= f)
  BY <1>1
<1> QED BY <1>3, <1>12, <1>13, <1>14 DEF u, v
-----------------------------------------------------------------------------
(* What the blocks hold *)

\* The tokens that batch s, being made, has for request r.
Num(s, r) ==
    IF InBatch(s, r) THEN s[CHOOSE k \in DOMAIN s : s[k].id = r].num_scheduled_tokens ELSE 0

\* The tokens of each request that are computed when that batch is.
Ahead == [r \in Request |-> requests[r].num_computed_tokens + Num(step.scheduled, r)]

\* What the blocks hold when the batch that was submitted is executed.
Coming ==
    IF batch_queue # <<>> /\ ~batch_queue[1].done THEN AfterForward(batch_queue[1].out) ELSE kv_cache

\* In what follows U are the running requests, q the requests, a the tokens
\* computed of each when schedule() is done, m the manager and B the blocks.
\* Block b is the i-th of r, has tokens of r, and there is room after those that
\* are computed.
Opens(U, q, a, m, r, i, b) ==
    /\ r \in U /\ i \in DOMAIN m.req_to_blocks[r] /\ m.req_to_blocks[r][i] = b
    /\ q[r].num_computed_tokens < i * BlockSize
    /\ (i - 1) * BlockSize < a[r]

Taken(U, q, a, m, b) == \E r \in U : \E i \in DOMAIN m.req_to_blocks[r] : Opens(U, q, a, m, r, i, b)

\* The tokens up to the end of the i-th block of r.
UpTo(q, a, r, i) == SubSeq(q[r].tokens, 1, LesserOf(i * BlockSize, a[r]))

\* Block b holds x once the batch that schedule() is making is executed.
Gets(U, q, a, m, B, b, x) ==
    \/ \E r \in U : \E i \in DOMAIN m.req_to_blocks[r] : Opens(U, q, a, m, r, i, b) /\ x = UpTo(q, a, r, i)
    \/ ~Taken(U, q, a, m, b) /\ B[b] = x

HashesKept(U, q, a, m, B) ==
    \A b \in Block : m.pool.block_hash[b] # NoHash => Gets(U, q, a, m, B, b, m.pool.block_hash[b])

TablesKept(U, q, a, m, B) ==
    \A r \in U : \A i \in DOMAIN m.req_to_blocks[r] :
        i * BlockSize <= q[r].num_computed_tokens =>
            Gets(U, q, a, m, B, m.req_to_blocks[r][i], Prefix(q[r].tokens, i))

PartsKept(U, q, m, B) ==
    \A r \in U : \A i \in DOMAIN m.req_to_blocks[r] :
        LET c == q[r].num_computed_tokens
        IN ((i - 1) * BlockSize < c /\ c < i * BlockSize) =>
              B[m.req_to_blocks[r][i]] = SubSeq(q[r].tokens, 1, c)

\* Of the requests that share a block one at most has to fill it.
OneFills(U, q, m) ==
    \A r, s \in U : \A i \in DOMAIN m.req_to_blocks[r] : \A k \in DOMAIN m.req_to_blocks[s] :
        (r # s /\ m.req_to_blocks[r][i] = m.req_to_blocks[s][k]) =>
            i * BlockSize <= q[r].num_computed_tokens \/ k * BlockSize <= q[s].num_computed_tokens

CachedAhead(U, a, m) == \A r \in U : NumCached(m, r) * BlockSize <= a[r]

Content(U, q, a, m, B) ==
    /\ HashesKept(U, q, a, m, B) /\ TablesKept(U, q, a, m, B) /\ PartsKept(U, q, m, B)
    /\ OneFills(U, q, m) /\ CachedAhead(U, a, m)

\* The block table of entry e, for what the worker has.
TableOf(e, w) == IF e.kind \in {"new", "resumed"} THEN e.blocks ELSE w.blocks \o e.blocks

\* The worker has the block table of r, or will from the batch.
SameTable(r, s, queue, w, table) ==
    /\ \A k \in DOMAIN s : s[k].id = r => TableOf(s[k], w) = table
    /\ \A i \in DOMAIN queue : ~queue[i].done =>
          \A k \in DOMAIN queue[i].out.reqs :
              queue[i].out.reqs[k].id = r => TableOf(queue[i].out.reqs[k], w) = table
    /\ (~InBatch(s, r) /\ \A i \in DOMAIN queue : queue[i].done \/ ~Has(queue[i], r)) =>
          w.blocks = table

SameTables ==
    \A r \in Range(running) :
        SameTable(r, step.scheduled, batch_queue, runner_requests[r], manager.req_to_blocks[r])

\* Every batch read what it had to, or will.
Promised ==
    \A i \in DOMAIN batch_queue :
        /\ batch_queue[i].reads_ok
        /\ ~batch_queue[i].done => ReadsOwnPrefix(batch_queue[i].out)

ContentNow == Content(Range(running), requests, Ahead, manager, Coming)

ContentInv == ContentNow /\ SameTables /\ Promised

\* The counts and the blocks of r are in order.
SizedFor(r, q, a, m) ==
    /\ r \in Request /\ IsSeq(q[r].tokens)
    /\ q[r].num_computed_tokens \in Nat /\ a[r] \in Nat
    /\ q[r].num_computed_tokens <= a[r] /\ a[r] <= Len(q[r].tokens)
    /\ a[r] <= Slots(m, r)
    /\ TagsOf(m, r, q[r].tokens) /\ IsInjective(m.req_to_blocks[r])

Sized(U, q, a, m) == \A r \in U : SizedFor(r, q, a, m)

(***************************************************************************)
(* The blocks of a request are numbered from 1.                            *)
(***************************************************************************)
LEMMA SizedIndexes ==
    ASSUME NEW U, NEW q, NEW a, NEW m, Sized(U, q, a, m), NEW r \in U
    PROVE  /\ DOMAIN m.req_to_blocks[r] = 1 .. Len(m.req_to_blocks[r])
           /\ Len(m.req_to_blocks[r]) \in Nat
           /\ \A i \in DOMAIN m.req_to_blocks[r] : /\ i \in Nat /\ i > 0 /\ i \in Int
                                                   /\ m.req_to_blocks[r][i] \in Block
           /\ a[r] <= Len(m.req_to_blocks[r]) * BlockSize
<1>1. SizedFor(r, q, a, m)
  BY DEF Sized
<1>2. /\ DOMAIN m.req_to_blocks[r] = 1 .. Len(m.req_to_blocks[r])
      /\ Len(m.req_to_blocks[r]) \in Nat /\ m.req_to_blocks[r] \in Seq(RealBlock)
      /\ a[r] <= Slots(m, r)
  BY <1>1 DEF SizedFor, TagsOf
<1>3. \A i \in DOMAIN m.req_to_blocks[r] : m.req_to_blocks[r][i] \in Block
  BY <1>2 DEF RealBlock
<1>4. \A i \in DOMAIN m.req_to_blocks[r] : i \in Nat /\ i > 0 /\ i \in Int
  BY <1>2
<1> QED BY <1>2, <1>3, <1>4 DEF Slots

(***************************************************************************)
(* A block of a request that its tokens do not fill has no hash, and       *)
(* nobody else holds it.                                                   *)
(***************************************************************************)
LEMMA OwnBlock ==
    ASSUME NEW U, NEW q, NEW a, NEW m, Sized(U, q, a, m), CachedAhead(U, a, m),
           NEW r \in U, NEW i \in DOMAIN m.req_to_blocks[r], ~(i * BlockSize <= a[r])
    PROVE  /\ m.pool.block_hash[m.req_to_blocks[r][i]] = NoHash
           /\ \A s \in U : \A k \in DOMAIN m.req_to_blocks[s] :
                 m.req_to_blocks[s][k] = m.req_to_blocks[r][i] => s = r /\ k = i
<1> DEFINE t == m.req_to_blocks[r]
           c == NumCached(m, r)
<1>1. SizedFor(r, q, a, m)
  BY DEF Sized
<1>2. DOMAIN t = 1 .. Len(t) /\ Len(t) \in Nat /\ i \in Int
  BY SizedIndexes
<1>3. c \in 0 .. Len(t)
  BY <1>1 DEF SizedFor, TagsOf
<1>4. ~(i <= c)
  <2> SUFFICES ASSUME i <= c PROVE FALSE
    OBVIOUS
  <2>1. c \in Int
    BY <1>2, <1>3
  <2> HIDE DEF c
  <2>2. i * BlockSize <= c * BlockSize /\ i * BlockSize \in Int /\ c * BlockSize \in Int
    BY <1>2, <2>1, Multiples
  <2>3. c * BlockSize <= a[r] /\ a[r] \in Nat
    BY <1>1 DEF CachedAhead, SizedFor, c
  <2> DEFINE x == i * BlockSize
             y == c * BlockSize
  <2> HIDE DEF x, y
  <2>4. x <= y /\ x \in Int /\ y \in Int /\ y <= a[r] /\ a[r] \in Nat /\ ~(x <= a[r])
    BY <2>2, <2>3 DEF x, y
  <2> QED BY <2>4
<1>5. m.pool.block_hash[t[i]] = NoHash /\ Holders(m, t[i]) = {r}
  <2> HIDE DEF t, c
  <2>1. TagsOf(m, r, q[r].tokens)
    BY <1>1 DEF SizedFor
  <2>2. /\ \A j \in 1 .. Len(t) : ~(j <= c) => m.pool.block_hash[t[j]] = NoHash
        /\ \A j \in 1 .. Len(t) : ~(j <= c) => Holders(m, t[j]) = {r}
    BY <2>1 DEF TagsOf, t, c
  <2>3. i \in 1 .. Len(t)
    BY <1>2 DEF t
  <2> QED BY <1>4, <2>2, <2>3
<1>6. ASSUME NEW s \in U, NEW k \in DOMAIN m.req_to_blocks[s], m.req_to_blocks[s][k] = t[i]
      PROVE  s = r /\ k = i
  <2>1. s \in Request
    BY DEF Sized, SizedFor
  <2>2. t[i] \in Range(m.req_to_blocks[s])
    BY <1>6 DEF Range
  <2>3. s = r
    BY <1>5, <2>1, <2>2 DEF Holders
  <2>4. IsInjective(t)
    BY <1>1 DEF SizedFor
  <2> QED BY <1>6, <2>3, <2>4 DEF IsInjective
<1> QED BY <1>5, <1>6

(***************************************************************************)
(* Of a sequence, the first tokens of the first tokens.                    *)
(***************************************************************************)
LEMMA UpToFacts ==
    ASSUME NEW U, NEW q, NEW a, NEW m, Sized(U, q, a, m), NEW r \in U,
           NEW i \in DOMAIN m.req_to_blocks[r]
    PROVE  /\ LesserOf(i * BlockSize, a[r]) \in 0 .. a[r]
           /\ i * BlockSize <= a[r] => UpTo(q, a, r, i) = Prefix(q[r].tokens, i)
<1> DEFINE x == i * BlockSize
<1>1. i \in Int /\ i > 0 /\ 0 \in Int /\ 0 < i
  BY SizedIndexes
<1>2. x \in Int /\ 0 * BlockSize <= x /\ 0 * BlockSize = 0
  BY <1>1, Multiples, SizesAssumption
<1>3. a[r] \in Nat
  BY DEF Sized, SizedFor
<1> HIDE DEF x
<1>4. LesserOf(x, a[r]) \in 0 .. a[r] /\ (x <= a[r] => LesserOf(x, a[r]) = x)
  BY <1>2, <1>3 DEF LesserOf
<1> QED BY <1>4 DEF x, UpTo, Prefix

\* Request r is after a step as it was, for its slots.
Stays(r, q, a, m, p, f, n) ==
    /\ p[r].num_computed_tokens = q[r].num_computed_tokens /\ f[r] = a[r]
    /\ n.req_to_blocks[r] = m.req_to_blocks[r] /\ NumCached(n, r) = NumCached(m, r)
    /\ \A k \in 0 .. a[r] : SubSeq(p[r].tokens, 1, k) = SubSeq(q[r].tokens, 1, k)

\* The requests of V stay, those that leave U have nothing in the batch, and no
\* block gets a hash.
Leaves(U, q, a, m, V, p, f, n) ==
    /\ V \subseteq U /\ \A r \in V : Stays(r, q, a, m, p, f, n)
    /\ \A r \in U : r \in V \/ a[r] = q[r].num_computed_tokens
    /\ \A b \in Block : n.pool.block_hash[b] = NoHash \/ n.pool.block_hash[b] = m.pool.block_hash[b]

(***************************************************************************)
(* Requests may leave, and get more tokens after those that are computed.  *)
(***************************************************************************)
LEMMA Carried ==
    ASSUME NEW U, NEW q, NEW a, NEW m, NEW B, Sized(U, q, a, m), Content(U, q, a, m, B),
           NEW V, NEW p, NEW f, NEW n, Leaves(U, q, a, m, V, p, f, n)
    PROVE  Content(V, p, f, n, B)
<1>1. /\ V \subseteq U /\ \A r \in U : r \in V \/ a[r] = q[r].num_computed_tokens
      /\ \A b \in Block : n.pool.block_hash[b] = NoHash \/ n.pool.block_hash[b] = m.pool.block_hash[b]
      /\ \A r \in V : Stays(r, q, a, m, p, f, n)
  BY DEF Leaves
<1>2. /\ HashesKept(U, q, a, m, B) /\ TablesKept(U, q, a, m, B) /\ PartsKept(U, q, m, B)
      /\ OneFills(U, q, m) /\ CachedAhead(U, a, m)
  BY DEF Content
<1>3. ASSUME NEW r \in V
      PROVE  /\ r \in U /\ p[r].num_computed_tokens = q[r].num_computed_tokens /\ f[r] = a[r]
             /\ n.req_to_blocks[r] = m.req_to_blocks[r] /\ NumCached(n, r) = NumCached(m, r)
  BY <1>1 DEF Stays
<1>4. ASSUME NEW r \in V, NEW i \in DOMAIN m.req_to_blocks[r]
      PROVE  UpTo(p, f, r, i) = UpTo(q, a, r, i)
  <2>1. LesserOf(i * BlockSize, a[r]) \in 0 .. a[r]
    BY <1>3, UpToFacts
  <2>2. f[r] = a[r] /\ \A k \in 0 .. a[r] : SubSeq(p[r].tokens, 1, k) = SubSeq(q[r].tokens, 1, k)
    BY <1>1 DEF Stays
  <2> QED BY <2>1, <2>2 DEF UpTo
<1>5. ASSUME NEW r \in V, NEW i \in DOMAIN m.req_to_blocks[r], i * BlockSize <= q[r].num_computed_tokens
      PROVE  Prefix(p[r].tokens, i) = Prefix(q[r].tokens, i)
  <2> DEFINE x == i * BlockSize
  <2>1. i \in Int /\ i > 0
    BY <1>3, SizedIndexes
  <2>2. x \in Nat
    BY <2>1, SizesAssumption
  <2> HIDE DEF x
  <2>3. x <= q[r].num_computed_tokens
    BY <1>5 DEF x
  <2>4. q[r].num_computed_tokens \in Nat /\ a[r] \in Nat /\ q[r].num_computed_tokens <= a[r]
    BY <1>3 DEF Sized, SizedFor
  <2>5. x \in 0 .. a[r]
    BY <2>2, <2>3, <2>4
  <2>6. SubSeq(p[r].tokens, 1, x) = SubSeq(q[r].tokens, 1, x)
    BY <1>1, <2>5 DEF Stays
  <2> QED BY <2>6 DEF Prefix, x
<1>6. ASSUME NEW r, NEW i, NEW b
      PROVE  Opens(V, p, f, n, r, i, b) <=> (r \in V /\ Opens(U, q, a, m, r, i, b))
  BY <1>3 DEF Opens
<1>7. ASSUME NEW b, NEW x, Gets(U, q, a, m, B, b, x)
      PROVE  Gets(V, p, f, n, B, b, x)
  <2>1. CASE ~Taken(U, q, a, m, b)
    <3>1. ~Taken(V, p, f, n, b)
      BY <1>3, <1>6, <2>1 DEF Taken
    <3>2. B[b] = x
      BY <1>7, <2>1 DEF Gets, Taken
    <3> QED BY <3>1, <3>2 DEF Gets
  <2>2. CASE Taken(U, q, a, m, b)
    <3>1. PICK r \in U : \E i \in DOMAIN m.req_to_blocks[r] :
              Opens(U, q, a, m, r, i, b) /\ x = UpTo(q, a, r, i)
      BY <1>7, <2>2 DEF Gets
    <3>2. PICK i \in DOMAIN m.req_to_blocks[r] : Opens(U, q, a, m, r, i, b) /\ x = UpTo(q, a, r, i)
      BY <3>1
    <3>3. CASE r \in V
      <4>1. Opens(V, p, f, n, r, i, b) /\ x = UpTo(p, f, r, i) /\ i \in DOMAIN n.req_to_blocks[r]
        BY <1>3, <1>4, <1>6, <3>2, <3>3
      <4> QED BY <3>3, <4>1 DEF Gets
    <3>4. CASE r \notin V
      <4> DEFINE c == q[r].num_computed_tokens
                 y == i * BlockSize
      <4>1. c = a[r] /\ c \in Nat /\ y \in Int /\ c < y /\ (i - 1) * BlockSize < c
            /\ m.req_to_blocks[r][i] = b
        <5>1. i \in Int
          BY SizedIndexes
        <5>2. y \in Int
          BY <5>1, Multiples
        <5>3. c \in Nat
          BY DEF Sized, SizedFor
        <5> QED BY <1>1, <3>2, <3>4, <5>2, <5>3 DEF Opens
      <4>2. B[b] = SubSeq(q[r].tokens, 1, c)
        BY <1>2, <4>1 DEF PartsKept
      <4>3. LesserOf(y, c) = c
        <5> HIDE DEF c, y
        <5> QED BY <4>1 DEF LesserOf
      <4>4. x = B[b]
        BY <3>2, <4>1, <4>2, <4>3 DEF UpTo
      <4>5. ~Taken(V, p, f, n, b)
        <5>1. SUFFICES ASSUME NEW s \in V, NEW k, Opens(V, p, f, n, s, k, b)
                       PROVE  FALSE
          BY DEF Taken
        <5>2. Opens(U, q, a, m, s, k, b) /\ s # r /\ s \in U
          BY <1>1, <1>6, <3>4, <5>1
        <5>3. /\ k \in DOMAIN m.req_to_blocks[s] /\ m.req_to_blocks[s][k] = b
              /\ q[s].num_computed_tokens < k * BlockSize
          BY <5>2 DEF Opens
        <5>4. i * BlockSize <= c \/ k * BlockSize <= q[s].num_computed_tokens
          BY <1>2, <4>1, <5>2, <5>3 DEF OneFills
        <5>5. ~(k * BlockSize <= q[s].num_computed_tokens)
          <6>1. k \in Int
            BY <5>2, <5>3, SizedIndexes
          <6>2. k * BlockSize \in Int
            BY <6>1, Multiples
          <6>3. q[s].num_computed_tokens \in Nat
            BY <5>2 DEF Sized, SizedFor
          <6> DEFINE z == k * BlockSize
          <6> HIDE DEF z
          <6>4. z \in Int /\ q[s].num_computed_tokens < z
            BY <5>3, <6>2 DEF z
          <6>5. ~(z <= q[s].num_computed_tokens)
            BY <6>3, <6>4
          <6> QED BY <6>5 DEF z
        <5>6. ~(y <= c)
          <6> HIDE DEF y, c
          <6> QED BY <4>1
        <5> QED BY <5>4, <5>5, <5>6
      <4> QED BY <4>4, <4>5 DEF Gets
    <3> QED BY <3>3, <3>4
  <2> QED BY <2>1, <2>2
<1>8. HashesKept(V, p, f, n, B)
  <2>1. SUFFICES ASSUME NEW b \in Block, n.pool.block_hash[b] # NoHash
                 PROVE  Gets(V, p, f, n, B, b, n.pool.block_hash[b])
    BY DEF HashesKept
  <2>2. n.pool.block_hash[b] = m.pool.block_hash[b]
    BY <1>1, <2>1
  <2>3. Gets(U, q, a, m, B, b, m.pool.block_hash[b])
    BY <1>2, <2>1, <2>2 DEF HashesKept
  <2> QED BY <1>7, <2>2, <2>3
<1>9. TablesKept(V, p, f, n, B)
  <2>1. SUFFICES ASSUME NEW r \in V, NEW i \in DOMAIN n.req_to_blocks[r],
                        i * BlockSize <= p[r].num_computed_tokens
                 PROVE  Gets(V, p, f, n, B, n.req_to_blocks[r][i], Prefix(p[r].tokens, i))
    BY DEF TablesKept
  <2>2. /\ i \in DOMAIN m.req_to_blocks[r] /\ i * BlockSize <= q[r].num_computed_tokens /\ r \in U
        /\ n.req_to_blocks[r][i] = m.req_to_blocks[r][i]
    BY <1>3, <2>1
  <2>3. Gets(U, q, a, m, B, m.req_to_blocks[r][i], Prefix(q[r].tokens, i))
    BY <1>2, <2>2 DEF TablesKept
  <2> QED BY <1>5, <1>7, <2>2, <2>3
<1>10. PartsKept(V, p, n, B)
  <2>1. SUFFICES ASSUME NEW r \in V, NEW i \in DOMAIN n.req_to_blocks[r],
                        (i - 1) * BlockSize < p[r].num_computed_tokens,
                        p[r].num_computed_tokens < i * BlockSize
                 PROVE  B[n.req_to_blocks[r][i]] = SubSeq(p[r].tokens, 1, p[r].num_computed_tokens)
    BY DEF PartsKept
  <2>2. B[m.req_to_blocks[r][i]] = SubSeq(q[r].tokens, 1, q[r].num_computed_tokens)
    BY <1>2, <1>3, <2>1 DEF PartsKept
  <2>3. q[r].num_computed_tokens \in 0 .. a[r]
    BY <1>3 DEF Sized, SizedFor
  <2> QED BY <1>1, <1>3, <2>2, <2>3 DEF Stays
<1>11. OneFills(V, p, n)
  BY <1>2, <1>3 DEF OneFills
<1>12. CachedAhead(V, f, n)
  BY <1>2, <1>3 DEF CachedAhead
<1> QED BY <1>8, <1>9, <1>10, <1>11, <1>12 DEF Content

\* The requests of U other than r, and the hashes, are the same.
OthersSame(U, q, a, m, p, f, n, r) ==
    \A s \in U : s # r => /\ p[s].num_computed_tokens = q[s].num_computed_tokens /\ f[s] = a[s]
                          /\ n.req_to_blocks[s] = m.req_to_blocks[s]
                          /\ NumCached(n, s) = NumCached(m, s) /\ p[s].tokens = q[s].tokens

\* Request r comes in with these hits, which are all that it has computed.
Joins(U, q, a, m, p, f, n, r, hits) ==
    /\ r \in Request /\ r \notin U /\ OthersSame(U, q, a, m, p, f, n, r)
    /\ IsSeq(p[r].tokens) /\ AreHits(hits, m.pool, p[r].tokens)
    /\ p[r].num_computed_tokens = Len(hits) * BlockSize /\ f[r] = Len(hits) * BlockSize
    /\ n.req_to_blocks[r] = hits /\ NumCached(n, r) = Len(hits)
    /\ \A b \in Block : n.pool.block_hash[b] = m.pool.block_hash[b]

(***************************************************************************)
(* A request joins with its hits: what they hold is what their hashes say. *)
(***************************************************************************)
LEMMA Admitted ==
    ASSUME NEW U, NEW q, NEW a, NEW m, NEW B, Content(U, q, a, m, B),
           NEW p, NEW f, NEW n, NEW r, NEW hits, Joins(U, q, a, m, p, f, n, r, hits)
    PROVE  Content(U \cup {r}, p, f, n, B)
<1> DEFINE V == U \cup {r}
           c == Len(hits) * BlockSize
<1>1. /\ HashesKept(U, q, a, m, B) /\ TablesKept(U, q, a, m, B) /\ PartsKept(U, q, m, B)
      /\ OneFills(U, q, m) /\ CachedAhead(U, a, m)
  BY DEF Content
<1>2. /\ r \in Request /\ r \notin U /\ p[r].num_computed_tokens = c /\ f[r] = c
      /\ n.req_to_blocks[r] = hits /\ NumCached(n, r) = Len(hits)
      /\ \A b \in Block : n.pool.block_hash[b] = m.pool.block_hash[b]
  BY DEF Joins
<1>3. ASSUME NEW s \in U
      PROVE  /\ s # r /\ p[s].num_computed_tokens = q[s].num_computed_tokens /\ f[s] = a[s]
             /\ n.req_to_blocks[s] = m.req_to_blocks[s]
             /\ NumCached(n, s) = NumCached(m, s) /\ p[s].tokens = q[s].tokens
  BY DEF Joins, OthersSame
<1>4. /\ DOMAIN hits = 1 .. Len(hits) /\ Len(hits) \in Nat /\ IsSeq(p[r].tokens)
      /\ c <= Len(p[r].tokens) /\ \A i \in 1 .. Len(hits) : hits[i] \in Block
      /\ \A i \in 1 .. Len(hits) : m.pool.block_hash[hits[i]] = Prefix(p[r].tokens, i)
  BY DEF Joins, AreHits, RealBlock
<1>5. ASSUME NEW i \in DOMAIN hits
      PROVE  /\ i * BlockSize <= c /\ ~(c < i * BlockSize) /\ i * BlockSize <= Len(p[r].tokens)
             /\ i \in Nat \ {0}
  <2>1. i \in Int /\ i <= Len(hits) /\ Len(hits) \in Int /\ i \in Nat \ {0}
    BY <1>4
  <2>2. i * BlockSize <= c /\ i * BlockSize \in Int /\ c \in Int
    BY <2>1, Multiples
  <2> DEFINE x == i * BlockSize
  <2>3. Len(p[r].tokens) \in Nat
    BY <1>4 DEF IsSeq
  <2> HIDE DEF x, c
  <2>4. x <= c /\ x \in Int /\ c \in Int /\ c <= Len(p[r].tokens)
    BY <1>4, <2>2 DEF x
  <2>5. ~(c < x) /\ x <= Len(p[r].tokens)
    BY <2>3, <2>4
  <2> QED BY <2>1, <2>4, <2>5 DEF x
<1> HIDE DEF c
<1>6. ASSUME NEW s, NEW i, NEW b
      PROVE  Opens(V, p, f, n, s, i, b) <=> Opens(U, q, a, m, s, i, b)
  <2>1. CASE s = r
    BY <1>2, <1>5, <2>1 DEF Opens
  <2>2. CASE s # r
    BY <1>3, <2>2 DEF Opens
  <2> QED BY <2>1, <2>2
<1>7. ASSUME NEW b, NEW x, Gets(U, q, a, m, B, b, x)
      PROVE  Gets(V, p, f, n, B, b, x)
  <2>1. CASE ~Taken(U, q, a, m, b)
    <3>1. ~Taken(V, p, f, n, b)
      BY <1>6, <2>1 DEF Taken, Opens
    <3>2. B[b] = x
      BY <1>7, <2>1 DEF Gets, Taken
    <3> QED BY <3>1, <3>2 DEF Gets
  <2>2. CASE Taken(U, q, a, m, b)
    <3>1. PICK s \in U : \E i \in DOMAIN m.req_to_blocks[s] :
              Opens(U, q, a, m, s, i, b) /\ x = UpTo(q, a, s, i)
      BY <1>7, <2>2 DEF Gets
    <3>2. PICK i \in DOMAIN m.req_to_blocks[s] : Opens(U, q, a, m, s, i, b) /\ x = UpTo(q, a, s, i)
      BY <3>1
    <3>3. UpTo(p, f, s, i) = UpTo(q, a, s, i)
      BY <1>3 DEF UpTo
    <3>4. Opens(V, p, f, n, s, i, b) /\ x = UpTo(p, f, s, i)
      BY <1>6, <3>2, <3>3
    <3>5. s \in V /\ i \in DOMAIN n.req_to_blocks[s]
      BY <1>3
    <3> QED BY <3>4, <3>5 DEF Gets
  <2> QED BY <2>1, <2>2
<1>8. HashesKept(V, p, f, n, B)
  BY <1>1, <1>2, <1>7 DEF HashesKept
<1>9. TablesKept(V, p, f, n, B)
  <2>1. SUFFICES ASSUME NEW s \in V, NEW i \in DOMAIN n.req_to_blocks[s],
                        i * BlockSize <= p[s].num_computed_tokens
                 PROVE  Gets(V, p, f, n, B, n.req_to_blocks[s][i], Prefix(p[s].tokens, i))
    BY DEF TablesKept
  <2>2. CASE s = r
    <3>1. i \in DOMAIN hits /\ hits[i] \in Block /\ n.req_to_blocks[s][i] = hits[i]
          /\ m.pool.block_hash[hits[i]] = Prefix(p[r].tokens, i)
      BY <1>2, <1>4, <2>2
    <3>2. Prefix(p[r].tokens, i) # NoHash
      BY <1>4, <1>5, <3>1, PrefixFacts
    <3>3. Gets(U, q, a, m, B, hits[i], Prefix(p[r].tokens, i))
      BY <1>1, <3>1, <3>2 DEF HashesKept
    <3> QED BY <1>7, <2>2, <3>1, <3>3
  <2>3. CASE s # r
    <3>1. s \in U /\ i \in DOMAIN m.req_to_blocks[s] /\ i * BlockSize <= q[s].num_computed_tokens
          /\ n.req_to_blocks[s] = m.req_to_blocks[s] /\ p[s].tokens = q[s].tokens
      BY <1>3, <2>1, <2>3
    <3>2. Gets(U, q, a, m, B, m.req_to_blocks[s][i], Prefix(q[s].tokens, i))
      BY <1>1, <3>1 DEF TablesKept
    <3> QED BY <1>7, <3>1, <3>2
  <2> QED BY <2>2, <2>3
<1>10. PartsKept(V, p, n, B)
  <2>1. SUFFICES ASSUME NEW s \in V, NEW i \in DOMAIN n.req_to_blocks[s],
                        (i - 1) * BlockSize < p[s].num_computed_tokens,
                        p[s].num_computed_tokens < i * BlockSize
                 PROVE  B[n.req_to_blocks[s][i]] = SubSeq(p[s].tokens, 1, p[s].num_computed_tokens)
    BY DEF PartsKept
  <2>2. s \in U
    BY <1>2, <1>5, <2>1
  <2> QED BY <1>1, <1>3, <2>1, <2>2 DEF PartsKept
<1>11. OneFills(V, p, n)
  <2>1. SUFFICES ASSUME NEW s \in V, NEW t \in V, NEW i \in DOMAIN n.req_to_blocks[s],
                        NEW k \in DOMAIN n.req_to_blocks[t],
                        s # t /\ n.req_to_blocks[s][i] = n.req_to_blocks[t][k]
                 PROVE  \/ i * BlockSize <= p[s].num_computed_tokens
                        \/ k * BlockSize <= p[t].num_computed_tokens
    BY DEF OneFills
  <2>2. CASE s = r
    BY <1>2, <1>5, <2>2
  <2>3. CASE t = r
    BY <1>2, <1>5, <2>3
  <2>4. CASE s # r /\ t # r
    <3>1. s \in U /\ t \in U
      BY <2>4
    <3> QED BY <1>1, <1>3, <2>1, <3>1 DEF OneFills
  <2> QED BY <2>2, <2>3, <2>4
<1>12. CachedAhead(V, f, n)
  <2>1. SUFFICES ASSUME NEW s \in V PROVE NumCached(n, s) * BlockSize <= f[s]
    BY DEF CachedAhead
  <2>2. CASE s = r
    <3>1. c \in Int
      BY <1>4, Multiples DEF c
    <3>2. c <= c
      BY <3>1
    <3> QED BY <1>2, <2>2, <3>2 DEF c
  <2>3. CASE s # r
    BY <1>1, <1>3, <2>3 DEF CachedAhead
  <2> QED BY <2>2, <2>3
<1> QED BY <1>8, <1>9, <1>10, <1>11, <1>12 DEF Content

\* Request r gets new blocks, which nobody holds.
Adds(U, m, n, r, new) ==
    /\ r \in U /\ n.req_to_blocks[r] = m.req_to_blocks[r] \o new
    /\ IsSeq(m.req_to_blocks[r]) /\ IsSeq(new)
    /\ \A s \in U : s # r => n.req_to_blocks[s] = m.req_to_blocks[s]
    /\ \A s \in U : NumCached(n, s) = NumCached(m, s)
    /\ \A b \in Block : n.pool.block_hash[b] = IF b \in Range(new) THEN NoHash ELSE m.pool.block_hash[b]
    /\ \A b \in Range(new) : \A s \in U : b \notin Range(m.req_to_blocks[s])

(***************************************************************************)
(* New blocks are for tokens that are not computed in this step.           *)
(***************************************************************************)
LEMMA Extended ==
    ASSUME NEW U, NEW q, NEW a, NEW m, NEW B, Sized(U, q, a, m), Content(U, q, a, m, B),
           NEW n, NEW r, NEW new, Adds(U, m, n, r, new)
    PROVE  Content(U, q, a, n, B)
<1> DEFINE t == m.req_to_blocks[r]
<1>1. /\ HashesKept(U, q, a, m, B) /\ TablesKept(U, q, a, m, B) /\ PartsKept(U, q, m, B)
      /\ OneFills(U, q, m) /\ CachedAhead(U, a, m)
  BY DEF Content
<1>2. /\ r \in U /\ n.req_to_blocks[r] = t \o new /\ IsSeq(t) /\ IsSeq(new)
      /\ \A s \in U : s # r => n.req_to_blocks[s] = m.req_to_blocks[s]
      /\ \A s \in U : NumCached(n, s) = NumCached(m, s)
      /\ \A b \in Range(new) : \A s \in U : b \notin Range(m.req_to_blocks[s])
  BY DEF Adds
<1>3. /\ DOMAIN t \subseteq DOMAIN (t \o new) /\ Len(t) \in Nat /\ DOMAIN t = 1 .. Len(t)
      /\ \A i \in DOMAIN t : (t \o new)[i] = t[i]
      /\ \A i \in DOMAIN (t \o new) : i \in DOMAIN t \/ (i \in Nat /\ i > Len(t) /\ (t \o new)[i] \in Range(new))
  <2>1. t \in Seq(Range(t)) /\ new \in Seq(Range(new))
    BY <1>2 DEF IsSeq
  <2> HIDE DEF t
  <2>2. /\ Len(t \o new) = Len(t) + Len(new) /\ DOMAIN (t \o new) = 1 .. (Len(t) + Len(new))
        /\ Len(t) \in Nat /\ Len(new) \in Nat /\ DOMAIN t = 1 .. Len(t) /\ DOMAIN new = 1 .. Len(new)
        /\ \A i \in 1 .. (Len(t) + Len(new)) :
              (t \o new)[i] = IF i <= Len(t) THEN t[i] ELSE new[i - Len(t)]
    BY <2>1
  <2>3. ASSUME NEW i \in DOMAIN (t \o new), i \notin DOMAIN t
        PROVE  i \in Nat /\ i > Len(t) /\ (t \o new)[i] \in Range(new)
    <3>1. i \in Nat /\ i > Len(t) /\ i <= Len(t) + Len(new)
      BY <2>2, <2>3
    <3>2. i - Len(t) \in DOMAIN new /\ (t \o new)[i] = new[i - Len(t)]
      BY <2>2, <3>1
    <3> QED BY <3>1, <3>2 DEF Range
  <2> QED BY <2>2, <2>3
<1>4. a[r] <= Len(t) * BlockSize /\ a[r] \in Nat /\ q[r].num_computed_tokens \in Nat
      /\ q[r].num_computed_tokens <= a[r]
  BY <1>2, SizedIndexes DEF Sized, SizedFor
<1>5. ASSUME NEW i \in DOMAIN n.req_to_blocks[r], i \notin DOMAIN t
      PROVE  /\ ~((i - 1) * BlockSize < a[r]) /\ ~(i * BlockSize <= q[r].num_computed_tokens)
             /\ ~((i - 1) * BlockSize < q[r].num_computed_tokens)
  <2> HIDE DEF t
  <2>1. i \in Int /\ Len(t) < i /\ Len(t) \in Int
    BY <1>2, <1>3, <1>5
  <2>2. Len(t) * BlockSize <= (i - 1) * BlockSize /\ (i - 1) * BlockSize < i * BlockSize
        /\ i * BlockSize \in Int /\ (i - 1) * BlockSize \in Int /\ Len(t) * BlockSize \in Int
    BY <2>1, Multiples
  <2> DEFINE x == i * BlockSize
             y == (i - 1) * BlockSize
             z == Len(t) * BlockSize
             c == q[r].num_computed_tokens
  <2> HIDE DEF x, y, z, c
  <2>3. /\ z <= y /\ y < x /\ x \in Int /\ y \in Int /\ z \in Int /\ a[r] <= z /\ a[r] \in Nat
        /\ c \in Nat /\ c <= a[r]
    BY <1>4, <2>2 DEF x, y, z, c
  <2>4. ~(y < a[r]) /\ ~(x <= c) /\ ~(y < c)
    BY <2>3
  <2> QED BY <2>4 DEF x, y, c
<1>6. ASSUME NEW s \in U, NEW i \in DOMAIN m.req_to_blocks[s]
      PROVE  i \in DOMAIN n.req_to_blocks[s] /\ n.req_to_blocks[s][i] = m.req_to_blocks[s][i]
  BY <1>2, <1>3
<1>7. ASSUME NEW s \in U, NEW i \in DOMAIN n.req_to_blocks[s]
      PROVE  i \in DOMAIN m.req_to_blocks[s] \/ (s = r /\ i \notin DOMAIN t /\ n.req_to_blocks[s][i] \in Range(new))
  BY <1>2, <1>3
<1> HIDE DEF t
<1>8. ASSUME NEW s, NEW i, NEW b
      PROVE  Opens(U, q, a, n, s, i, b) <=> Opens(U, q, a, m, s, i, b)
  BY <1>5, <1>6, <1>7 DEF Opens
<1>9. ASSUME NEW b, NEW x, Gets(U, q, a, m, B, b, x)
      PROVE  Gets(U, q, a, n, B, b, x)
  BY <1>6, <1>8, <1>9 DEF Gets, Taken, Opens
<1>10. HashesKept(U, q, a, n, B)
  <2>1. \A b \in Block : n.pool.block_hash[b] = NoHash \/ n.pool.block_hash[b] = m.pool.block_hash[b]
    BY DEF Adds
  <2> QED BY <1>1, <1>9, <2>1 DEF HashesKept
<1>11. TablesKept(U, q, a, n, B)
  BY <1>1, <1>5, <1>6, <1>7, <1>9 DEF TablesKept
<1>12. PartsKept(U, q, n, B)
  BY <1>1, <1>5, <1>6, <1>7 DEF PartsKept
<1>13. OneFills(U, q, n)
  <2>1. SUFFICES ASSUME NEW s \in U, NEW w \in U, NEW i \in DOMAIN n.req_to_blocks[s],
                        NEW k \in DOMAIN n.req_to_blocks[w],
                        s # w /\ n.req_to_blocks[s][i] = n.req_to_blocks[w][k]
                 PROVE  \/ i * BlockSize <= q[s].num_computed_tokens
                        \/ k * BlockSize <= q[w].num_computed_tokens
    BY DEF OneFills
  <2>2. CASE i \in DOMAIN m.req_to_blocks[s] /\ k \in DOMAIN m.req_to_blocks[w]
    BY <1>1, <1>6, <2>1, <2>2 DEF OneFills
  <2>3. CASE i \notin DOMAIN m.req_to_blocks[s]
    <3>1. s = r /\ n.req_to_blocks[s][i] \in Range(new) /\ k \in DOMAIN m.req_to_blocks[w]
      BY <1>7, <2>1, <2>3
    <3>2. n.req_to_blocks[w][k] \in Range(m.req_to_blocks[w])
      BY <1>6, <3>1 DEF Range
    <3> QED BY <1>2, <2>1, <3>1, <3>2
  <2>4. CASE k \notin DOMAIN m.req_to_blocks[w]
    <3>1. w = r /\ n.req_to_blocks[w][k] \in Range(new) /\ i \in DOMAIN m.req_to_blocks[s]
      BY <1>7, <2>1, <2>4
    <3>2. n.req_to_blocks[s][i] \in Range(m.req_to_blocks[s])
      BY <1>6, <3>1 DEF Range
    <3> QED BY <1>2, <2>1, <3>1, <3>2
  <2> QED BY <2>2, <2>3, <2>4
<1>14. CachedAhead(U, a, n)
  BY <1>1, <1>2 DEF CachedAhead
<1> QED BY <1>10, <1>11, <1>12, <1>13, <1>14 DEF Content

\* Request r, of which the batch had nothing, gets k tokens, and the blocks that
\* they fill get their hashes.
Proceeds(U, q, a, m, f, n, r, k) ==
    /\ r \in U /\ k \in Nat /\ a[r] = q[r].num_computed_tokens
    /\ \A s \in U : f[s] = IF s = r THEN a[s] + k ELSE a[s]
    /\ n.req_to_blocks = m.req_to_blocks
    /\ \A s \in U : s # r => NumCached(n, s) = NumCached(m, s)
    /\ NumCached(n, r) * BlockSize <= f[r]
    /\ \A b \in Block :
          \/ n.pool.block_hash[b] = m.pool.block_hash[b]
          \/ \E i \in DOMAIN m.req_to_blocks[r] :
                /\ m.req_to_blocks[r][i] = b /\ i * BlockSize <= f[r]
                /\ n.pool.block_hash[b] = Prefix(q[r].tokens, i)

(***************************************************************************)
(* A request is given tokens: the blocks they fill are its own, and get    *)
(* what their new hashes say when the batch is executed.                   *)
(***************************************************************************)
LEMMA Advanced ==
    ASSUME NEW U, NEW q, NEW a, NEW m, NEW B, Sized(U, q, a, m), Content(U, q, a, m, B),
           NEW f, NEW n, NEW r, NEW k, Proceeds(U, q, a, m, f, n, r, k)
    PROVE  Content(U, q, f, n, B)
<1> DEFINE t == m.req_to_blocks[r]
           c == q[r].num_computed_tokens
<1>1. /\ HashesKept(U, q, a, m, B) /\ TablesKept(U, q, a, m, B) /\ PartsKept(U, q, m, B)
      /\ OneFills(U, q, m) /\ CachedAhead(U, a, m)
  BY DEF Content
<1>2. /\ r \in U /\ k \in Nat /\ a[r] = c /\ f[r] = c + k /\ c \in Nat
      /\ \A s \in U : s # r => f[s] = a[s]
      /\ n.req_to_blocks = m.req_to_blocks
      /\ \A s \in U : s # r => NumCached(n, s) = NumCached(m, s)
      /\ NumCached(n, r) * BlockSize <= f[r]
  BY DEF Proceeds, Sized, SizedFor
<1>3. \A b \in Block : \/ n.pool.block_hash[b] = m.pool.block_hash[b]
                       \/ \E i \in DOMAIN t : /\ t[i] = b /\ i * BlockSize <= f[r]
                                              /\ n.pool.block_hash[b] = Prefix(q[r].tokens, i)
  BY DEF Proceeds
<1> HIDE DEF t
<1>4. ASSUME NEW i \in DOMAIN t
      PROVE  /\ (c < i * BlockSize) <=> ~(i * BlockSize <= a[r])
             /\ (c < i * BlockSize) <=> ~(i * BlockSize <= c)
             /\ (i - 1) * BlockSize < a[r] => (i - 1) * BlockSize < f[r]
             /\ i * BlockSize <= f[r] => (i - 1) * BlockSize < f[r]
             /\ i * BlockSize <= f[r] => LesserOf(i * BlockSize, f[r]) = i * BlockSize
  <2>1. i \in Int
    BY <1>2, SizedIndexes DEF t
  <2>2. i * BlockSize \in Int /\ (i - 1) * BlockSize \in Int /\ (i - 1) * BlockSize < i * BlockSize
    BY <2>1, Multiples
  <2> DEFINE x == i * BlockSize
             y == (i - 1) * BlockSize
  <2> HIDE DEF x, y, c
  <2>3. x \in Int /\ y \in Int /\ y < x
    BY <2>2 DEF x, y
  <2>4. (c < x <=> ~(x <= a[r])) /\ (c < x <=> ~(x <= c)) /\ (y < a[r] => y < f[r]) /\ (x <= f[r] => y < f[r])
    BY <1>2, <2>3
  <2>5. x <= f[r] => LesserOf(x, f[r]) = x
    BY DEF LesserOf
  <2> QED BY <2>4, <2>5 DEF x, y
<1>5. ASSUME NEW i \in DOMAIN t, c < i * BlockSize
      PROVE  /\ m.pool.block_hash[t[i]] = NoHash
             /\ \A s \in U : \A j \in DOMAIN m.req_to_blocks[s] :
                   m.req_to_blocks[s][j] = t[i] => s = r /\ j = i
  <2>1. CachedAhead(U, a, m) /\ ~(i * BlockSize <= a[r])
    BY <1>1, <1>4, <1>5
  <2> QED BY <1>2, <2>1, OwnBlock DEF t
<1> DEFINE Open(b) == \E i \in DOMAIN t : t[i] = b /\ c < i * BlockSize
<1>6. ASSUME NEW s, NEW i, NEW b, ~Open(b)
      PROVE  Opens(U, q, f, n, s, i, b) <=> Opens(U, q, a, m, s, i, b)
  <2>1. CASE s = r
    <3>1. ~Opens(U, q, f, n, s, i, b) /\ ~Opens(U, q, a, m, s, i, b)
      BY <1>2, <1>6, <2>1 DEF Opens, t
    <3> QED BY <3>1
  <2>2. CASE s # r
    BY <1>2, <2>2 DEF Opens
  <2> QED BY <2>1, <2>2
<1>7. ASSUME NEW b, NEW x, Gets(U, q, a, m, B, b, x), ~Open(b)
      PROVE  Gets(U, q, f, n, B, b, x)
  <2>1. CASE ~Taken(U, q, a, m, b)
    <3>1. ~Taken(U, q, f, n, b)
      BY <1>2, <1>6, <1>7, <2>1 DEF Taken
    <3>2. B[b] = x
      BY <1>7, <2>1 DEF Gets, Taken
    <3> QED BY <3>1, <3>2 DEF Gets
  <2>2. CASE Taken(U, q, a, m, b)
    <3>1. PICK s \in U : \E i \in DOMAIN m.req_to_blocks[s] :
              Opens(U, q, a, m, s, i, b) /\ x = UpTo(q, a, s, i)
      BY <1>7, <2>2 DEF Gets
    <3>2. PICK i \in DOMAIN m.req_to_blocks[s] : Opens(U, q, a, m, s, i, b) /\ x = UpTo(q, a, s, i)
      BY <3>1
    <3>3. s # r
      BY <1>2, <1>7, <3>2 DEF Opens, t
    <3>4. UpTo(q, f, s, i) = UpTo(q, a, s, i)
      BY <1>2, <3>3 DEF UpTo
    <3>5. Opens(U, q, f, n, s, i, b) /\ x = UpTo(q, f, s, i) /\ i \in DOMAIN n.req_to_blocks[s]
      BY <1>2, <1>6, <1>7, <3>2, <3>4
    <3> QED BY <3>5 DEF Gets
  <2> QED BY <2>1, <2>2
<1>8. ASSUME NEW s \in U, NEW i \in DOMAIN m.req_to_blocks[s], i * BlockSize <= q[s].num_computed_tokens
      PROVE  Gets(U, q, f, n, B, m.req_to_blocks[s][i], Prefix(q[s].tokens, i))
  <2>1. Gets(U, q, a, m, B, m.req_to_blocks[s][i], Prefix(q[s].tokens, i))
    BY <1>1, <1>8 DEF TablesKept
  <2>2. ~Open(m.req_to_blocks[s][i])
    <3>1. SUFFICES ASSUME NEW j \in DOMAIN t, t[j] = m.req_to_blocks[s][i], c < j * BlockSize
                   PROVE  FALSE
      OBVIOUS
    <3>2. s = r /\ i = j
      BY <1>5, <3>1
    <3> QED BY <1>4, <1>8, <3>1, <3>2
  <2> QED BY <1>7, <2>1, <2>2
<1>9. HashesKept(U, q, f, n, B)
  <2>1. SUFFICES ASSUME NEW b \in Block, n.pool.block_hash[b] # NoHash
                 PROVE  Gets(U, q, f, n, B, b, n.pool.block_hash[b])
    BY DEF HashesKept
  <2>2. CASE n.pool.block_hash[b] = m.pool.block_hash[b]
    <3>1. Gets(U, q, a, m, B, b, m.pool.block_hash[b])
      BY <1>1, <2>1, <2>2 DEF HashesKept
    <3>2. ~Open(b)
      BY <1>5, <2>1, <2>2
    <3> QED BY <1>7, <2>2, <3>1, <3>2
  <2>3. CASE n.pool.block_hash[b] # m.pool.block_hash[b]
    <3>1. PICK i \in DOMAIN t : /\ t[i] = b /\ i * BlockSize <= f[r]
                                /\ n.pool.block_hash[b] = Prefix(q[r].tokens, i)
      BY <1>3, <2>3
    <3>2. CASE i * BlockSize <= c
      BY <1>2, <1>8, <3>1, <3>2 DEF t
    <3>3. CASE ~(i * BlockSize <= c)
      <4>1. Opens(U, q, f, n, r, i, b)
        BY <1>2, <1>4, <3>1, <3>3 DEF Opens, t
      <4>2. UpTo(q, f, r, i) = Prefix(q[r].tokens, i)
        BY <1>4, <3>1 DEF UpTo, Prefix
      <4>3. i \in DOMAIN n.req_to_blocks[r]
        BY <1>2 DEF t
      <4> QED BY <1>2, <3>1, <4>1, <4>2, <4>3 DEF Gets
    <3> QED BY <3>2, <3>3
  <2> QED BY <2>2, <2>3
<1>10. TablesKept(U, q, f, n, B)
  BY <1>2, <1>8 DEF TablesKept
<1>11. PartsKept(U, q, n, B) /\ OneFills(U, q, n)
  BY <1>1, <1>2 DEF PartsKept, OneFills
<1>12. CachedAhead(U, f, n)
  BY <1>1, <1>2 DEF CachedAhead
<1> QED BY <1>9, <1>10, <1>11, <1>12 DEF Content

-----------------------------------------------------------------------------
(* What allocate_slots does to what the blocks hold *)

\* The counts of the requests fit their tokens and their blocks.
Fitting(U, q, a, m) ==
    \A r \in U : /\ r \in Request
                 /\ q[r].num_computed_tokens \in Nat /\ a[r] \in Nat
                 /\ q[r].num_computed_tokens <= a[r] /\ a[r] <= Len(q[r].tokens)
                 /\ a[r] <= Slots(m, r)

(***************************************************************************)
(* With the blocks tagged, the requests are as they should be.             *)
(***************************************************************************)
LEMMA FittingSized ==
    ASSUME NEW m, ManagerOK(m), NEW q, HasTokens(q), Linked(m, q), NEW U, NEW a, Fitting(U, q, a, m)
    PROVE  Sized(U, q, a, m)
<1>1. SUFFICES ASSUME NEW r \in U PROVE SizedFor(r, q, a, m)
  BY DEF Sized
<1>2. r \in Request
  BY DEF Fitting
<1>3. TagsOf(m, r, q[r].tokens)
  BY <1>2, TagsFacts DEF HasTokens, Linked
<1>4. IsInjective(m.req_to_blocks[r]) /\ IsSeq(q[r].tokens)
  BY <1>2 DEF ManagerOK, Accounted, HasTokens
<1> QED BY <1>2, <1>3, <1>4 DEF SizedFor, Fitting

(***************************************************************************)
(* The hits become the table of a request without blocks.                  *)
(***************************************************************************)
LEMMA HitsTaken ==
    ASSUME NEW m, ManagerOK(m), NEW q, HasTokens(q), Linked(m, q), NEW r \in Request,
           m.req_to_blocks[r] = <<>>, NEW hits, AreHits(hits, m.pool, q[r].tokens)
    PROVE  LET h == allocate_new_computed_blocks(m, r, hits)
           IN  /\ \A s \in Request : s # r => /\ h.req_to_blocks[s] = m.req_to_blocks[s]
                                              /\ NumCached(h, s) = NumCached(m, s)
               /\ h.req_to_blocks[r] = hits /\ NumCached(h, r) = Len(hits)
               /\ h.pool.block_hash = m.pool.block_hash
<1> DEFINE h == allocate_new_computed_blocks(m, r, hits)
<1>1. m.num_cached_block[r] = NoEntry
  <2>1. Tagged(m, r, q[r].tokens)
    BY DEF Linked
  <2>2. NumCached(m, r) <= 0 /\ m.num_cached_block[r] # 0
    BY <2>1 DEF Tagged
  <2>3. m.num_cached_block[r] \in Nat \cup {NoEntry}
    BY DEF ManagerOK, IsManager
  <2> QED BY <2>2, <2>3 DEF NumCached
<1>2. DOMAIN m.req_to_blocks = Request /\ DOMAIN m.num_cached_block = Request
  BY DEF ManagerOK, IsManager
<1>3. CASE hits = <<>>
  <2>1. h = m
    BY <1>3 DEF allocate_new_computed_blocks
  <2>2. NumCached(m, r) = 0 /\ Len(hits) = 0
    BY <1>1, <1>3 DEF NumCached
  <2> QED BY <1>3, <2>1, <2>2
<1>4. CASE hits # <<>>
  <2>1. h = Touched(m, r, hits)
    BY <1>1, <1>4 DEF allocate_new_computed_blocks, Touched
  <2>2. hits \in Seq(RealBlock) /\ IsInjective(hits) /\ Len(hits) \in Nat
    BY DEF AreHits
  <2>3. GivenHits(h, m, r, hits)
    BY <2>1, <2>2, TouchFacts
  <2> HIDE DEF h
  <2>4. /\ h.pool.block_hash = m.pool.block_hash
        /\ h.req_to_blocks = [m.req_to_blocks EXCEPT ![r] = hits]
        /\ h.num_cached_block = [m.num_cached_block EXCEPT ![r] = Len(hits)]
    BY <2>3 DEF GivenHits
  <2>5. NumCached(h, r) = Len(hits)
    BY <1>2, <2>2, <2>4 DEF NumCached, NoEntry
  <2>6. ASSUME NEW s \in Request, s # r
        PROVE  h.req_to_blocks[s] = m.req_to_blocks[s] /\ NumCached(h, s) = NumCached(m, s)
    BY <1>2, <2>4, <2>6 DEF NumCached
  <2>7. h.req_to_blocks[r] = hits
    BY <1>2, <2>4
  <2> QED BY <2>4, <2>5, <2>6, <2>7 DEF h
<1> QED BY <1>3, <1>4

(***************************************************************************)
(* Blocks that get_new_blocks hands out are nobody's, and carry no hash    *)
(* any more.                                                               *)
(***************************************************************************)
LEMMA GivenAdds ==
    ASSUME NEW m, ManagerOK(m), NEW U, U \subseteq Request, NEW r \in U, NEW k \in Nat,
           k <= Len(m.pool.free)
    PROVE  \E new : Adds(U, m, Given(m, r, k), r, new)
<1> DEFINE n == Given(m, r, k)
           new == SubSeq(m.pool.free, 1, k)
<1>1. GivenNew(n, m, r, k)
  BY NewBlocksFacts
<1>2. /\ m.pool.free \in Seq(RealBlock) /\ DOMAIN m.req_to_blocks = Request
      /\ m.req_to_blocks[r] \in Seq(RealBlock)
  BY DEF ManagerOK, IsManager, IsPool
<1>3. new \in Seq(RealBlock) /\ Range(new) \subseteq Range(m.pool.free)
  BY <1>2, SplitFacts, k \in 0 .. Len(m.pool.free)
<1>4. IsSeq(new) /\ IsSeq(m.req_to_blocks[r])
  BY <1>2, <1>3, SeqIs
<1>5. ASSUME NEW b \in Range(new), NEW s \in U
      PROVE  b \notin Range(m.req_to_blocks[s])
  <2>1. b \in Range(m.pool.free) /\ b \in RealBlock
    BY <1>2, <1>3, <1>5 DEF Range
  <2>2. Holders(m, b) = {}
    BY <2>1 DEF ManagerOK, Accounted, Counted
  <2> QED BY <2>2 DEF Holders
<1> HIDE DEF n
<1>6. /\ n.req_to_blocks = [m.req_to_blocks EXCEPT ![r] = @ \o new]
      /\ n.num_cached_block = m.num_cached_block
      /\ \A b \in Block : n.pool.block_hash[b] = IF b \in Range(new) THEN NoHash
                                                 ELSE m.pool.block_hash[b]
  BY <1>1 DEF GivenNew
<1> HIDE DEF new
<1>7. n.req_to_blocks[r] = m.req_to_blocks[r] \o new
  BY <1>2, <1>6
<1>8. \A s \in U : s # r => n.req_to_blocks[s] = m.req_to_blocks[s]
  BY <1>2, <1>6
<1>9. \A s \in U : NumCached(n, s) = NumCached(m, s)
  BY <1>6 DEF NumCached
<1> QED BY <1>4, <1>5, <1>6, <1>7, <1>8, <1>9 DEF Adds, n

(***************************************************************************)
(* cache_blocks tags the full blocks of the tokens the request is given.   *)
(***************************************************************************)
LEMMA CachedProceeds ==
    ASSUME NEW m, ManagerOK(m), NEW q, HasTokens(q), Linked(m, q), NEW U, NEW a,
           Sized(U, q, a, m), CachedAhead(U, a, m), NEW r \in U, NEW k \in Nat,
           a[r] = q[r].num_computed_tokens, a[r] + k <= Len(q[r].tokens),
           NEW f, \A s \in U : f[s] = IF s = r THEN a[s] + k ELSE a[s]
    PROVE  Proceeds(U, q, a, m, f, cache_blocks(m, r, q[r].tokens, a[r] + k), r, k)
<1> DEFINE s == q[r].tokens
           g == a[r] + k
           n == cache_blocks(m, r, s, g)
           full == g \div BlockSize
           c == NumCached(m, r)
<1>1. r \in Request /\ a[r] \in Nat /\ c \in 0 .. Len(m.req_to_blocks[r]) /\ Len(m.req_to_blocks[r]) \in Nat
      /\ DOMAIN m.req_to_blocks[r] = 1 .. Len(m.req_to_blocks[r])
  BY DEF Sized, SizedFor, TagsOf
<1>2. IsSeq(s) /\ Tagged(m, r, s) /\ g \in Int /\ g <= Len(s) /\ f[r] = g
  BY <1>1 DEF HasTokens, Linked
<1>3. IF c >= full THEN n = m ELSE GivenHashes(n, m, r, s, full)
  BY <1>1, <1>2, CacheFacts
<1>4. full \in Int /\ full * BlockSize <= g
  BY <1>2, FullBlocks
<1> HIDE DEF n, full, c, s, g
<1>5. CASE c >= full
  <2>1. n = m
    BY <1>3, <1>5
  <2>2. NumCached(m, r) * BlockSize <= f[r]
    <3>1. NumCached(m, r) * BlockSize <= a[r]
      BY DEF CachedAhead
    <3>2. NumCached(m, r) * BlockSize \in Int
      BY <1>1, Multiples DEF c
    <3> DEFINE x == NumCached(m, r) * BlockSize
    <3> HIDE DEF x
    <3>3. x <= a[r] /\ x \in Int
      BY <3>1, <3>2 DEF x
    <3>4. x <= f[r]
      BY <1>1, <1>2, <3>3 DEF g
    <3> QED BY <3>4 DEF x
  <2>3. Proceeds(U, q, a, m, f, n, r, k)
    BY <2>1, <2>2 DEF Proceeds
  <2> QED BY <2>3 DEF n, s, g
<1>6. CASE ~(c >= full)
  <2>1. GivenHashes(n, m, r, s, full)
    BY <1>3, <1>6
  <2>2. /\ n.req_to_blocks = m.req_to_blocks
        /\ n.num_cached_block = [m.num_cached_block EXCEPT ![r] = full]
        /\ \A i \in 1 .. Len(m.req_to_blocks[r]) : (~(i <= NumCached(m, r)) /\ i <= full) =>
              n.pool.block_hash[m.req_to_blocks[r][i]] = Prefix(s, i)
        /\ \A b \in Block :
              \/ n.pool.block_hash[b] = m.pool.block_hash[b]
              \/ \E i \in 1 .. Len(m.req_to_blocks[r]) :
                    ~(i <= NumCached(m, r)) /\ i <= full /\ m.req_to_blocks[r][i] = b
    BY <2>1 DEF GivenHashes
  <2>3. DOMAIN m.num_cached_block = Request
    BY DEF ManagerOK, IsManager
  <2>4. NumCached(n, r) = full
    <3>1. n.num_cached_block[r] = full
      BY <1>1, <2>2, <2>3
    <3>2. full # NoEntry
      BY <1>1, <1>4, <1>6 DEF NoEntry
    <3> QED BY <3>1, <3>2 DEF NumCached
  <2>5. \A x \in U : x # r => NumCached(n, x) = NumCached(m, x)
    <3>1. \A x \in U : x \in Request
      BY DEF Sized, SizedFor
    <3> QED BY <2>2, <2>3, <3>1 DEF NumCached
  <2>6. ASSUME NEW b \in Block, n.pool.block_hash[b] # m.pool.block_hash[b]
        PROVE  \E i \in DOMAIN m.req_to_blocks[r] :
                  /\ m.req_to_blocks[r][i] = b /\ i * BlockSize <= f[r]
                  /\ n.pool.block_hash[b] = Prefix(s, i)
    <3>1. PICK i \in 1 .. Len(m.req_to_blocks[r]) :
              ~(i <= NumCached(m, r)) /\ i <= full /\ m.req_to_blocks[r][i] = b
      BY <2>2, <2>6
    <3>2. i * BlockSize <= f[r]
      <4>1. i \in Int /\ i <= full
        BY <1>1, <3>1
      <4>2. i * BlockSize <= full * BlockSize /\ i * BlockSize \in Int /\ full * BlockSize \in Int
        BY <1>4, <4>1, Multiples
      <4> DEFINE x == i * BlockSize
                 y == full * BlockSize
      <4> HIDE DEF x, y
      <4>3. x <= y /\ y <= g /\ x \in Int /\ y \in Int
        BY <1>4, <4>2 DEF x, y
      <4>4. x <= f[r]
        BY <1>2, <4>3
      <4> QED BY <4>4 DEF x
    <3> QED BY <1>1, <2>2, <3>1, <3>2
  <2>7. Proceeds(U, q, a, m, f, n, r, k)
    BY <1>2, <1>4, <2>2, <2>4, <2>5, <2>6 DEF Proceeds, s
  <2> QED BY <2>7 DEF n, s, g
<1> QED BY <1>5, <1>6

(***************************************************************************)
(* The second half of allocate_slots, after the hits: new blocks, and the  *)
(* hashes of the blocks that will be full.                                 *)
(***************************************************************************)
LEMMA AllocatedContent ==
    ASSUME NEW m, ManagerOK(m), NEW q, HasTokens(q), Linked(m, q), NEW U, NEW a, NEW B,
           Fitting(U, q, a, m), Content(U, q, a, m, B), NEW r \in U, NEW k \in Nat,
           a[r] = q[r].num_computed_tokens, a[r] + k <= Len(q[r].tokens),
           Affordable(m, r, cdiv(a[r] + k, BlockSize)),
           NEW f, \A s \in U : f[s] = IF s = r THEN a[s] + k ELSE a[s]
    PROVE  Content(U, q, f, cache_blocks(allocate_new_blocks(m, r, a[r] + k), r, q[r].tokens, a[r] + k), B)
<1> DEFINE g == a[r] + k
           required == cdiv(g, BlockSize)
           held == Len(m.req_to_blocks[r])
           l == required - held
           h == allocate_new_blocks(m, r, g)
           s == q[r].tokens
<1>1. \A x \in U : x \in Request /\ a[x] \in Nat /\ a[x] <= Slots(m, x)
  BY DEF Fitting
<1>2. g \in Nat /\ r \in Request
  BY <1>1
<1> HIDE DEF g
<1>3. required \in Int /\ held \in Nat
  BY <1>2, CdivFacts DEF Affordable, ManagerOK, IsManager
<1>4. l <= Len(m.pool.free) /\ l \in Int
  BY <1>3 DEF Affordable, g
<1>5. h = IF l <= 0 THEN m ELSE Given(m, r, l)
  BY DEF allocate_new_blocks, Given, NumNewBlocks
<1> HIDE DEF required, held, l, h
<1>6. ManagerOK(h) /\ Linked(h, q) /\ Content(U, q, a, h, B) /\ Fitting(U, q, a, h)
  <2>1. CASE l <= 0
    BY <1>5, <2>1
  <2>2. CASE ~(l <= 0)
    <3>1. h = Given(m, r, l) /\ l \in Nat
      BY <1>4, <1>5, <2>2
    <3>2. Linked(h, q) /\ Len(h.req_to_blocks[r]) = Len(m.req_to_blocks[r]) + l
      BY <1>2, <1>4, <3>1, NewBlocksLinked
    <3>3. ManagerOK(h)
      BY <1>2, <1>4, <3>1, NewBlocksOK DEF Given
    <3>4. PICK new : Adds(U, m, h, r, new)
      BY <1>1, <1>4, <3>1, GivenAdds
    <3>5. Content(U, q, a, h, B)
      <4>1. Sized(U, q, a, m)
        BY FittingSized
      <4> QED BY <3>4, <4>1, Extended
    <3>6. \A x \in U : x # r => Slots(h, x) = Slots(m, x)
      BY <3>4 DEF Adds, Slots
    <3>7. a[r] <= Slots(h, r)
      <4> DEFINE x == Len(h.req_to_blocks[r])
      <4>1. held \in Int /\ x \in Int /\ held <= x
        BY <1>3, <3>1, <3>2 DEF held
      <4>2. held * BlockSize <= x * BlockSize /\ held * BlockSize \in Int /\ x * BlockSize \in Int
        BY <4>1, Multiples
      <4>3. a[r] <= held * BlockSize
        BY <1>1 DEF Slots, held
      <4> DEFINE y == held * BlockSize
                 z == x * BlockSize
      <4> HIDE DEF x, y, z
      <4>4. a[r] \in Nat /\ y \in Int /\ z \in Int /\ a[r] <= y /\ y <= z
        BY <1>1, <4>2, <4>3 DEF y, z
      <4>5. a[r] <= z
        BY <4>4
      <4> QED BY <4>5 DEF z, x, Slots
    <3>8. Fitting(U, q, a, h)
      BY <3>6, <3>7 DEF Fitting
    <3> QED BY <3>2, <3>3, <3>5, <3>8
  <2> QED BY <2>1, <2>2
<1>7. Sized(U, q, a, h) /\ CachedAhead(U, a, h)
  BY <1>6, FittingSized DEF Content
<1>8. Proceeds(U, q, a, h, f, cache_blocks(h, r, s, g), r, k)
  BY <1>6, <1>7, CachedProceeds DEF g
<1>9. Content(U, q, f, cache_blocks(h, r, s, g), B)
  BY <1>6, <1>7, <1>8, Advanced
<1> QED BY <1>9 DEF h, s, g

(***************************************************************************)
(* allocate_slots for a running request.                                   *)
(***************************************************************************)
LEMMA AllocatedRunning ==
    ASSUME NEW m, ManagerOK(m), NEW q, HasTokens(q), Linked(m, q), NEW U, NEW a, NEW B,
           Fitting(U, q, a, m), Content(U, q, a, m, B), NEW r \in U, NEW k \in Nat,
           a[r] = q[r].num_computed_tokens, a[r] + k <= Len(q[r].tokens), a[r] + k <= MaxModelLen,
           CanAllocate(m, r, a[r], k, <<>>),
           NEW f, \A s \in U : f[s] = IF s = r THEN a[s] + k ELSE a[s]
    PROVE  Content(U, q, f, allocate_slots(m, r, q[r].tokens, a[r], k, <<>>), B)
<1> DEFINE g == a[r] + k
           s == q[r].tokens
<1>1. r \in Request /\ a[r] \in Nat
  BY DEF Fitting
<1>2. /\ LesserOf(a[r], MaxModelLen) + k = g /\ NeedsSlots(a[r], k) = g /\ LesserOf(g, Len(s)) = g
      /\ g \in Int
  BY <1>1, SizesAssumption DEF LesserOf, NeedsSlots
<1>3. get_num_blocks_to_allocate(m, r, g, <<>>) <= Len(m.pool.free)
  BY <1>2 DEF CanAllocate
<1> HIDE DEF g
<1>4. allocate_new_computed_blocks(m, r, <<>>) = m /\ MayHit(m, q, r, <<>>)
  BY DEF allocate_new_computed_blocks, MayHit
<1>5. Affordable(m, r, cdiv(g, BlockSize))
  <2> DEFINE h == allocate_new_computed_blocks(m, r, <<>>)
  <2>1. Affordable(h, r, cdiv(g, BlockSize))
    BY <1>1, <1>2, <1>3, <1>4, HitsLinked
  <2>2. h = m
    BY <1>4
  <2> HIDE DEF h
  <2> QED BY <2>1, <2>2
<1>6. allocate_slots(m, r, s, a[r], k, <<>>) = cache_blocks(allocate_new_blocks(m, r, g), r, s, g)
  BY <1>2, <1>4 DEF allocate_slots
<1>7. Content(U, q, f, cache_blocks(allocate_new_blocks(m, r, g), r, s, g), B)
  BY <1>5, AllocatedContent DEF g
<1> QED BY <1>6, <1>7 DEF s

\* The requests of U other than r are in p and f what they are in q and a.
SameBut(U, q, a, p, f, r) ==
    \A s \in U : s # r => /\ p[s].num_computed_tokens = q[s].num_computed_tokens
                          /\ p[s].tokens = q[s].tokens /\ f[s] = a[s]

(***************************************************************************)
(* allocate_slots for a waiting request: it joins with its hits, and is    *)
(* given tokens after them.                                                *)
(***************************************************************************)
LEMMA AllocatedWaiting ==
    ASSUME NEW m, ManagerOK(m), NEW q, HasTokens(q), Linked(m, q), NEW U, NEW a, NEW B,
           Fitting(U, q, a, m), Content(U, q, a, m, B), NEW r \in Request, r \notin U,
           NEW k \in Nat, NEW hits, AreHits(hits, m.pool, q[r].tokens), m.req_to_blocks[r] = <<>>,
           Len(hits) * BlockSize + k <= Len(q[r].tokens), Len(hits) * BlockSize + k <= MaxModelLen,
           CanAllocate(m, r, Len(hits) * BlockSize, k, hits),
           NEW p, \A s \in Request : p[s].tokens = q[s].tokens,
           p[r].num_computed_tokens = Len(hits) * BlockSize,
           NEW f, SameBut(U, q, a, p, f, r), f[r] = Len(hits) * BlockSize + k
    PROVE  Content(U \cup {r}, p, f, allocate_slots(m, r, q[r].tokens, Len(hits) * BlockSize, k, hits), B)
<1> DEFINE c == Len(hits) * BlockSize
           g == c + k
           s == q[r].tokens
           V == U \cup {r}
           d == [x \in V |-> IF x = r THEN c ELSE a[x]]
           h == allocate_new_computed_blocks(m, r, hits)
<1>1. hits \in Seq(RealBlock) /\ Len(hits) \in Nat /\ c \in Nat
  BY SizesAssumption DEF AreHits
<1>2. IsSeq(s) /\ p[r].tokens = s /\ Len(s) \in Nat
  BY DEF HasTokens, IsSeq
<1> HIDE DEF c, s
<1>3. /\ LesserOf(c, MaxModelLen) + k = g /\ NeedsSlots(c, k) = g /\ LesserOf(g, Len(s)) = g
      /\ g \in Int /\ c <= g /\ c <= Len(s) /\ g <= Len(s) /\ g <= MaxModelLen
  <2>1. g <= Len(s) /\ g <= MaxModelLen
    BY DEF c, s
  <2> QED BY <1>1, <1>2, <2>1, SizesAssumption DEF LesserOf, NeedsSlots
<1>4. get_num_blocks_to_allocate(m, r, g, hits) <= Len(m.pool.free)
  <2>1. CanAllocate(m, r, c, k, hits)
    BY DEF c
  <2> QED BY <1>3, <2>1 DEF CanAllocate
<1> HIDE DEF g
<1>5. MayHit(m, q, r, hits)
  BY DEF MayHit
<1>6. ManagerOK(h) /\ Linked(h, q) /\ Affordable(h, r, cdiv(g, BlockSize))
  BY <1>3, <1>4, <1>5, HitsLinked
<1>7. /\ \A x \in Request : x # r => /\ h.req_to_blocks[x] = m.req_to_blocks[x]
                                     /\ NumCached(h, x) = NumCached(m, x)
      /\ h.req_to_blocks[r] = hits /\ NumCached(h, r) = Len(hits)
      /\ h.pool.block_hash = m.pool.block_hash
  BY HitsTaken
<1> HIDE DEF h
<1>8. HasTokens(p) /\ Linked(h, p)
  BY <1>6 DEF HasTokens, Linked
<1>9. U \subseteq Request
  BY DEF Fitting
<1>10. d[r] = c /\ \A x \in U : d[x] = a[x] /\ x # r
  OBVIOUS
<1> HIDE DEF d, V
<1>11. Joins(U, q, a, m, p, d, h, r, hits)
  <2>1. OthersSame(U, q, a, m, p, d, h, r)
    BY <1>7, <1>9, <1>10 DEF OthersSame, SameBut
  <2>2. AreHits(hits, m.pool, p[r].tokens) /\ p[r].num_computed_tokens = c /\ c = Len(hits) * BlockSize
    BY <1>2 DEF s, c
  <2> QED BY <1>2, <1>7, <1>10, <2>1, <2>2 DEF Joins
<1>12. Content(V, p, d, h, B)
  BY <1>11, Admitted DEF V
<1>13. Fitting(V, p, d, h)
  <2>1. SUFFICES ASSUME NEW x \in V
                 PROVE  /\ x \in Request
                        /\ p[x].num_computed_tokens \in Nat /\ d[x] \in Nat
                        /\ p[x].num_computed_tokens <= d[x] /\ d[x] <= Len(p[x].tokens)
                        /\ d[x] <= Slots(h, x)
    BY DEF Fitting
  <2>2. CASE x = r
    <3>1. Slots(h, r) = c /\ p[r].num_computed_tokens = c /\ c <= c
      BY <1>1, <1>7 DEF Slots, c
    <3> QED BY <1>1, <1>2, <1>3, <1>10, <2>2, <3>1
  <2>3. CASE x # r
    <3>1. x \in U
      BY <2>3 DEF V
    <3>2. /\ p[x].num_computed_tokens = q[x].num_computed_tokens /\ p[x].tokens = q[x].tokens
          /\ d[x] = a[x] /\ Slots(h, x) = Slots(m, x)
      BY <1>7, <1>9, <1>10, <2>3, <3>1 DEF SameBut, Slots
    <3> QED BY <3>1, <3>2 DEF Fitting
  <2> QED BY <2>2, <2>3
<1>14. \A x \in V : f[x] = IF x = r THEN d[x] + k ELSE d[x]
  <2>1. f[r] = d[r] + k
    BY <1>10 DEF c
  <2>2. \A x \in U : f[x] = d[x]
    BY <1>10 DEF SameBut
  <2> QED BY <2>1, <2>2 DEF V
<1>15. d[r] = p[r].num_computed_tokens /\ d[r] + k <= Len(p[r].tokens) /\ d[r] + k = g /\ r \in V
  BY <1>2, <1>3, <1>10 DEF c, g, V
<1>16. Content(V, p, f, cache_blocks(allocate_new_blocks(h, r, g), r, s, g), B)
  BY <1>2, <1>6, <1>8, <1>12, <1>13, <1>14, <1>15, AllocatedContent
<1>17. allocate_slots(m, r, s, c, k, hits) = cache_blocks(allocate_new_blocks(h, r, g), r, s, g)
  BY <1>3 DEF allocate_slots, h
<1> QED BY <1>16, <1>17 DEF V, s, c

-----------------------------------------------------------------------------
(* The worker's step *)

\* The content of block b after the batch.
Cell(out, b) ==
    LET ws == Writers(out, b)
    IN IF ws = {} THEN kv_cache[b]
       ELSE IF Cardinality(ws) > 1 THEN Garbage
       ELSE Written(out, b, CHOOSE w \in ws : TRUE)

(***************************************************************************)
(* What execute_model would do depends on the worker's state only.         *)
(***************************************************************************)
LEMMA RunnerSame ==
    ASSUME UNCHANGED runnerVars
    PROVE  /\ \A out : AfterForward(out)' = AfterForward(out)
           /\ \A out : ReadsOwnPrefix(out)' = ReadsOwnPrefix(out)
<1>1. runner_requests' = runner_requests /\ input_batch' = input_batch /\ kv_cache' = kv_cache
  BY DEF runnerVars
<1>2. \A out : StillInBatch(out)' = StillInBatch(out)
  BY <1>1 DEF StillInBatch
<1>3. \A out, e : Recovers(out, e)' = Recovers(out, e)
  BY <1>2 DEF Recovers
<1>4. \A out, e : CachedState(out, e)' = CachedState(out, e)
  BY <1>1, <1>3, Zenon DEF CachedState
<1>5. \A out, e : UpdatedState(out, e)' = UpdatedState(out, e)
  BY <1>4 DEF UpdatedState
<1>6. \A out, e : InputTokens(out, e)' = InputTokens(out, e)
  BY <1>2, <1>5, Zenon DEF InputTokens
<1>7. \A out, b : Writers(out, b)' = Writers(out, b)
  BY <1>5, Zenon DEF Writers
<1>8. \A out, b, w : Written(out, b, w)' = Written(out, b, w)
  <2> SUFFICES ASSUME NEW out, NEW b, NEW w PROVE Written(out, b, w)' = Written(out, b, w)
    OBVIOUS
  <2>1. InputTokens(out, out.reqs[w[1]])' = InputTokens(out, out.reqs[w[1]])
    BY <1>6
  <2> QED BY <1>1, <2>1 DEF Written
<1>9. \A out : AfterForward(out)' = AfterForward(out)
  <2> SUFFICES ASSUME NEW out PROVE AfterForward(out)' = AfterForward(out)
    OBVIOUS
  <2>1. ASSUME NEW b PROVE Cell(out, b)' = Cell(out, b)
    <3> DEFINE w == CHOOSE v \in Writers(out, b) : TRUE
    <3>1. /\ Writers(out, b)' = Writers(out, b) /\ kv_cache'[b] = kv_cache[b]
          /\ \A v : Written(out, b, v)' = Written(out, b, v)
      BY <1>1, <1>7, <1>8
    <3>2. w' = w
      BY <3>1, Zenon
    <3>3. Cell(out, b) = IF Writers(out, b) = {} THEN kv_cache[b]
                         ELSE IF Cardinality(Writers(out, b)) > 1 THEN Garbage ELSE Written(out, b, w)
      BY DEF Cell
    <3>4. Cell(out, b)' = IF Writers(out, b)' = {} THEN kv_cache'[b]
                          ELSE IF Cardinality(Writers(out, b)') > 1 THEN Garbage ELSE Written(out, b, w)'
      BY DEF Cell
    <3>5. Written(out, b, w)' = Written(out, b, w)
      BY <3>1, <3>2
    <3> HIDE DEF w
    <3> QED BY <3>1, <3>3, <3>4, <3>5
  <2>2. AfterForward(out) = [b \in Block |-> Cell(out, b)]
    BY DEF AfterForward, Cell
  <2>3. AfterForward(out)' = [b \in Block |-> Cell(out, b)']
    BY DEF AfterForward, Cell
  <2> QED BY <2>1, <2>2, <2>3
<1>10. \A out : ReadsOwnPrefix(out)' = ReadsOwnPrefix(out)
  BY <1>5, <1>6, <1>9, Zenon DEF ReadsOwnPrefix
<1> QED BY <1>9, <1>10

\* Entry k of the batch out speaks of its request as it is, and the worker has its
\* tokens and its blocks.
EntryFits(out, k, U, q, a, m) ==
    LET e == out.reqs[k]
    IN /\ e.id \in U /\ e.num_computed_tokens = q[e.id].num_computed_tokens /\ SeqLen(e) = a[e.id]
       /\ UpdatedState(out, e).blocks = m.req_to_blocks[e.id]
       /\ InputTokens(out, e) = SubSeq(q[e.id].tokens, 1, a[e.id])

\* The batch out has the requests of U that are given tokens, each once.
BatchOf(out, U, q, a, m) ==
    /\ \A k \in DOMAIN out.reqs : EntryFits(out, k, U, q, a, m)
    /\ \A k, l \in DOMAIN out.reqs : out.reqs[k].id = out.reqs[l].id => k = l
    /\ \A r \in U : (\A k \in DOMAIN out.reqs : out.reqs[k].id # r) => a[r] = q[r].num_computed_tokens
    /\ \A r \in U : a[r] <= MaxModelLen

(***************************************************************************)
(* A block is written for the requests of the batch that have tokens for   *)
(* it.                                                                     *)
(***************************************************************************)
LEMMA WriterFacts ==
    ASSUME NEW U, NEW q, NEW a, NEW m, Sized(U, q, a, m), NEW out, BatchOf(out, U, q, a, m), NEW b
    PROVE  /\ \A w \in Writers(out, b) : /\ w = <<w[1], w[2]>> /\ w[1] \in DOMAIN out.reqs
                                         /\ Opens(U, q, a, m, out.reqs[w[1]].id, w[2], b)
           /\ \A k \in DOMAIN out.reqs : \A i :
                 Opens(U, q, a, m, out.reqs[k].id, i, b) => <<k, i>> \in Writers(out, b)
<1>1. ASSUME NEW k \in DOMAIN out.reqs, NEW i \in Int
      PROVE  LET e == out.reqs[k]
                 blocks == UpdatedState(out, e).blocks
             IN  /\ e.id \in U /\ DOMAIN blocks = 1 .. Len(blocks) /\ Len(blocks) \in Nat
                 /\ blocks = m.req_to_blocks[e.id]
                 /\ i \in BlockIndex(e.num_computed_tokens + 1) .. BlockIndex(SeqLen(e)) <=>
                       (q[e.id].num_computed_tokens < i * BlockSize /\ (i - 1) * BlockSize < a[e.id])
                 /\ (i > 0 /\ (i - 1) * BlockSize < a[e.id]) => i \in 1 .. BlockIndex(MaxModelLen)
  <2> DEFINE e == out.reqs[k]
             r == e.id
             blocks == UpdatedState(out, e).blocks
             c == q[r].num_computed_tokens
  <2>1. /\ r \in U /\ e.num_computed_tokens = c /\ SeqLen(e) = a[r] /\ blocks = m.req_to_blocks[r]
        /\ a[r] <= MaxModelLen
    BY DEF BatchOf, EntryFits
  <2> HIDE DEF e, r, blocks
  <2>2. DOMAIN blocks = 1 .. Len(blocks) /\ Len(blocks) \in Nat
    BY <2>1, SizedIndexes
  <2>3. c \in Nat /\ a[r] \in Nat
    BY <2>1 DEF Sized, SizedFor
  <2>4. i \in BlockIndex(c + 1) .. BlockIndex(a[r]) <=> (c < i * BlockSize /\ (i - 1) * BlockSize < a[r])
    BY <2>3, BlockIndexes
  <2>5. ASSUME i > 0, (i - 1) * BlockSize < a[r] PROVE i \in 1 .. BlockIndex(MaxModelLen)
    <3>1. BlockIndex(0 + 1) = 1
      BY SizesAssumption DEF BlockIndex
    <3>2. i \in BlockIndex(0 + 1) .. BlockIndex(MaxModelLen) <=>
             (0 < i * BlockSize /\ (i - 1) * BlockSize < MaxModelLen)
      BY SizesAssumption, BlockIndexes
    <3>3. 0 < i * BlockSize
      BY <2>5, SizesAssumption
    <3>4. (i - 1) * BlockSize < MaxModelLen
      <4> DEFINE x == (i - 1) * BlockSize
                 y == a[r]
      <4>1. x \in Int /\ MaxModelLen \in Int
        BY Multiples, SizesAssumption
      <4> HIDE DEF x, y
      <4>2. x < y /\ y <= MaxModelLen /\ y \in Int
        BY <2>1, <2>3, <2>5 DEF x, y
      <4> QED BY <4>1, <4>2 DEF x
    <3> QED BY <3>1, <3>2, <3>3, <3>4
  <2> QED BY <2>1, <2>2, <2>4, <2>5 DEF e, r, blocks
<1>2. ASSUME NEW w \in Writers(out, b)
      PROVE  /\ w = <<w[1], w[2]>> /\ w[1] \in DOMAIN out.reqs
             /\ Opens(U, q, a, m, out.reqs[w[1]].id, w[2], b)
  <2> DEFINE e == out.reqs[w[1]]
             blocks == UpdatedState(out, e).blocks
  <2>1. /\ w \in (DOMAIN out.reqs) \X (1 .. BlockIndex(MaxModelLen))
        /\ w[2] \in BlockIndex(e.num_computed_tokens + 1) .. BlockIndex(SeqLen(e))
        /\ w[2] <= Len(blocks) /\ blocks[w[2]] = b
    BY DEF Writers
  <2>2. w = <<w[1], w[2]>> /\ w[1] \in DOMAIN out.reqs /\ w[2] \in 1 .. BlockIndex(MaxModelLen)
    BY <2>1
  <2>3. w[2] \in Int /\ 1 <= w[2]
    BY <2>2
  <2> HIDE DEF e, blocks
  <2>4. /\ e.id \in U /\ DOMAIN blocks = 1 .. Len(blocks) /\ Len(blocks) \in Nat
        /\ blocks = m.req_to_blocks[e.id]
        /\ w[2] \in BlockIndex(e.num_computed_tokens + 1) .. BlockIndex(SeqLen(e)) <=>
              (q[e.id].num_computed_tokens < w[2] * BlockSize /\ (w[2] - 1) * BlockSize < a[e.id])
    BY <1>1, <2>2, <2>3 DEF e, blocks
  <2>5. w[2] \in DOMAIN m.req_to_blocks[e.id]
    BY <2>1, <2>3, <2>4
  <2> QED BY <2>1, <2>2, <2>4, <2>5 DEF Opens, e
<1>3. ASSUME NEW k \in DOMAIN out.reqs, NEW i, Opens(U, q, a, m, out.reqs[k].id, i, b)
      PROVE  <<k, i>> \in Writers(out, b)
  <2> DEFINE e == out.reqs[k]
             blocks == UpdatedState(out, e).blocks
  <2>1. /\ e.id \in U /\ i \in DOMAIN m.req_to_blocks[e.id] /\ m.req_to_blocks[e.id][i] = b
        /\ q[e.id].num_computed_tokens < i * BlockSize /\ (i - 1) * BlockSize < a[e.id]
    BY <1>3 DEF Opens
  <2>2. i \in Int /\ i > 0
    BY <2>1, SizedIndexes
  <2> HIDE DEF e, blocks
  <2>3. /\ DOMAIN blocks = 1 .. Len(blocks) /\ Len(blocks) \in Nat /\ blocks = m.req_to_blocks[e.id]
        /\ i \in BlockIndex(e.num_computed_tokens + 1) .. BlockIndex(SeqLen(e)) <=>
              (q[e.id].num_computed_tokens < i * BlockSize /\ (i - 1) * BlockSize < a[e.id])
        /\ (i > 0 /\ (i - 1) * BlockSize < a[e.id]) => i \in 1 .. BlockIndex(MaxModelLen)
    BY <1>1, <2>2 DEF e, blocks
  <2>4. /\ i \in BlockIndex(e.num_computed_tokens + 1) .. BlockIndex(SeqLen(e))
        /\ i \in 1 .. BlockIndex(MaxModelLen) /\ i <= Len(blocks) /\ blocks[i] = b
    BY <2>1, <2>2, <2>3
  <2> DEFINE w == <<k, i>>
  <2>5. w[1] = k /\ w[2] = i /\ w \in (DOMAIN out.reqs) \X (1 .. BlockIndex(MaxModelLen))
    BY <2>4
  <2> HIDE DEF w
  <2>6. w \in Writers(out, b)
    BY <2>4, <2>5 DEF Writers, e, blocks
  <2> QED BY <2>6 DEF w
<1> QED BY <1>2, <1>3

(***************************************************************************)
(* At most one request of the batch writes a block, at one place.          *)
(***************************************************************************)
LEMMA OneOpens ==
    ASSUME NEW U, NEW q, NEW a, NEW m, Sized(U, q, a, m), OneFills(U, q, m),
           NEW b, NEW r, NEW i, Opens(U, q, a, m, r, i, b), NEW s, NEW k, Opens(U, q, a, m, s, k, b)
    PROVE  s = r /\ k = i
<1>1. /\ r \in U /\ i \in DOMAIN m.req_to_blocks[r] /\ m.req_to_blocks[r][i] = b
      /\ q[r].num_computed_tokens < i * BlockSize
      /\ s \in U /\ k \in DOMAIN m.req_to_blocks[s] /\ m.req_to_blocks[s][k] = b
      /\ q[s].num_computed_tokens < k * BlockSize
  BY DEF Opens
<1>2. s = r
  <2> SUFFICES ASSUME r # s PROVE FALSE
    OBVIOUS
  <2>1. i * BlockSize <= q[r].num_computed_tokens \/ k * BlockSize <= q[s].num_computed_tokens
    BY <1>1 DEF OneFills
  <2>2. i \in Int /\ k \in Int
    BY <1>1, SizedIndexes
  <2>3. i * BlockSize \in Int /\ k * BlockSize \in Int
    BY <2>2, Multiples
  <2>4. q[r].num_computed_tokens \in Nat /\ q[s].num_computed_tokens \in Nat
    BY <1>1 DEF Sized, SizedFor
  <2> DEFINE x == i * BlockSize
             y == k * BlockSize
  <2> HIDE DEF x, y
  <2>5. /\ x \in Int /\ y \in Int /\ (x <= q[r].num_computed_tokens \/ y <= q[s].num_computed_tokens)
        /\ q[r].num_computed_tokens < x /\ q[s].num_computed_tokens < y
    BY <1>1, <2>1, <2>3 DEF x, y
  <2> QED BY <2>4, <2>5
<1>3. IsInjective(m.req_to_blocks[r])
  BY <1>1 DEF Sized, SizedFor
<1> QED BY <1>1, <1>2, <1>3 DEF IsInjective

(***************************************************************************)
(* A request of the batch writes its block up to its tokens.               *)
(***************************************************************************)
LEMMA WrittenUpTo ==
    ASSUME NEW U, NEW q, NEW a, NEW m, Sized(U, q, a, m), PartsKept(U, q, m, kv_cache),
           NEW out, BatchOf(out, U, q, a, m), NEW k \in DOMAIN out.reqs, NEW i, NEW b,
           Opens(U, q, a, m, out.reqs[k].id, i, b)
    PROVE  Written(out, b, <<k, i>>) = UpTo(q, a, out.reqs[k].id, i)
<1> DEFINE e == out.reqs[k]
           r == e.id
           T == q[r].tokens
           c == q[r].num_computed_tokens
           n == a[r]
           w == <<k, i>>
           tokens == InputTokens(out, e)
<1>1. /\ r \in U /\ e.num_computed_tokens = c /\ SeqLen(e) = n /\ tokens = SubSeq(T, 1, n)
  BY DEF BatchOf, EntryFits
<1>2. /\ IsSeq(T) /\ c \in Nat /\ n \in Nat /\ c <= n /\ n <= Len(T)
  BY <1>1 DEF Sized, SizedFor
<1>3. /\ i \in DOMAIN m.req_to_blocks[r] /\ m.req_to_blocks[r][i] = b
      /\ c < i * BlockSize /\ (i - 1) * BlockSize < n
  BY DEF Opens
<1>4. i \in Int
  BY <1>1, <1>3, SizedIndexes
<1>5. i * BlockSize \in Int /\ (i - 1) * BlockSize \in Int
  BY <1>4, Multiples
<1> DEFINE x == i * BlockSize
           y == (i - 1) * BlockSize
           l == LesserOf(x, n)
<1>6. w[1] = k /\ w[2] = i
  OBVIOUS
<1>7. LastOf(e, w[2]) = l
  BY <1>1, <1>6 DEF LastOf
<1>8. l \in 0 .. n
  BY <1>2, <1>3, <1>5 DEF LesserOf
<1>9. c + 1 <= y + 1 \/ (Len(kv_cache[b]) >= c /\ SubSeq(kv_cache[b], 1, c) = SubSeq(tokens, 1, c))
  <2>1. CASE ~(y < c)
    <3> HIDE DEF y, c
    <3>1. y \in Int /\ c \in Nat
      BY <1>2, <1>5 DEF y
    <3> QED BY <2>1, <3>1
  <2>2. CASE y < c
    <3>1. kv_cache[b] = SubSeq(T, 1, c)
      BY <1>1, <1>3, <2>2 DEF PartsKept
    <3> HIDE DEF T, c, n, tokens
    <3>2. /\ Len(SubSeq(T, 1, c)) = c /\ IsSeq(SubSeq(T, 1, c))
          /\ SubSeq(SubSeq(T, 1, c), 1, c) = SubSeq(T, 1, c)
      <4>1. c \in 0 .. Len(T) /\ c \in 0 .. c
        BY <1>2 DEF IsSeq
      <4> QED BY <1>2, <4>1, SubSeqSubSeq
    <3>3. SubSeq(SubSeq(T, 1, n), 1, c) = SubSeq(T, 1, c)
      <4>1. n \in 0 .. Len(T) /\ c \in 0 .. n
        BY <1>2 DEF IsSeq
      <4> QED BY <1>2, <4>1, SubSeqSubSeq
    <3>4. c >= c
      BY <1>2
    <3> QED BY <1>1, <3>1, <3>2, <3>3, <3>4
  <2> QED BY <2>1, <2>2
<1>10. Written(out, b, w) = SubSeq(tokens, 1, l)
  <2> HIDE DEF w, c, l, T, n
  <2>1. out.reqs[w[1]] = e
    BY <1>6
  <2>2. (w[2] - 1) * BlockSize + 1 = y + 1
    BY <1>6
  <2> HIDE DEF e, tokens, y
  <2>3. InputTokens(out, e) = tokens /\ e.num_computed_tokens + 1 = c + 1
    BY <1>1 DEF tokens
  <2> DEFINE first == (w[2] - 1) * BlockSize + 1
             start == out.reqs[w[1]].num_computed_tokens + 1
             input == InputTokens(out, out.reqs[w[1]])
             last == LastOf(out.reqs[w[1]], w[2])
             before == start - 1
             fits == start <= first \/ (Len(kv_cache[b]) >= before
                                        /\ SubSeq(kv_cache[b], 1, before) = SubSeq(input, 1, before))
  <2>4. Written(out, b, w) = IF fits THEN SubSeq(input, 1, last) ELSE Garbage
    BY DEF Written
  <2>5. first = y + 1 /\ start = c + 1 /\ input = tokens /\ last = l
    BY <1>7, <2>1, <2>2, <2>3
  <2>6. c \in Nat
    BY <1>2 DEF c
  <2> HIDE DEF first, start, input, last
  <2>7. before = c
    BY <2>5, <2>6
  <2> HIDE DEF before
  <2>8. fits
    BY <1>9, <2>5, <2>7
  <2> HIDE DEF fits
  <2>9. Written(out, b, w) = SubSeq(input, 1, last)
    BY <2>4, <2>8
  <2> QED BY <2>5, <2>9
<1>11. SubSeq(SubSeq(T, 1, n), 1, l) = SubSeq(T, 1, l)
  <2> HIDE DEF T, n, l
  <2>1. n \in 0 .. Len(T)
    BY <1>2 DEF IsSeq
  <2> QED BY <1>2, <1>8, <2>1, SubSeqSubSeq
<1>12. UpTo(q, a, r, i) = SubSeq(T, 1, l)
  BY DEF UpTo
<1> HIDE DEF w, tokens, l, T, n
<1> QED BY <1>1, <1>10, <1>11, <1>12 DEF w

(***************************************************************************)
(* The batch puts into every block what it was expected to.                *)
(***************************************************************************)
LEMMA ForwardGives ==
    ASSUME NEW U, NEW q, NEW a, NEW m, Sized(U, q, a, m), OneFills(U, q, m),
           PartsKept(U, q, m, kv_cache), NEW out, BatchOf(out, U, q, a, m),
           NEW b \in Block, NEW x, Gets(U, q, a, m, kv_cache, b, x)
    PROVE  AfterForward(out)[b] = x
<1>1. AfterForward(out)[b] = Cell(out, b)
  BY DEF AfterForward, Cell
<1>2. /\ \A w \in Writers(out, b) : /\ w = <<w[1], w[2]>> /\ w[1] \in DOMAIN out.reqs
                                    /\ Opens(U, q, a, m, out.reqs[w[1]].id, w[2], b)
      /\ \A k \in DOMAIN out.reqs : \A i :
            Opens(U, q, a, m, out.reqs[k].id, i, b) => <<k, i>> \in Writers(out, b)
  BY WriterFacts
<1>3. ASSUME Writers(out, b) = {} PROVE Cell(out, b) = kv_cache[b]
  BY <1>3 DEF Cell
<1>4. CASE ~Taken(U, q, a, m, b) /\ kv_cache[b] = x
  <2>1. ASSUME NEW w \in Writers(out, b) PROVE FALSE
    <3>1. Opens(U, q, a, m, out.reqs[w[1]].id, w[2], b)
      BY <1>2
    <3>2. Taken(U, q, a, m, b)
      BY <3>1 DEF Taken, Opens
    <3> QED BY <1>4, <3>2
  <2>2. Writers(out, b) = {}
    BY <2>1
  <2> QED BY <1>1, <1>3, <1>4, <2>2
<1>5. ASSUME NEW r \in U, NEW i \in DOMAIN m.req_to_blocks[r], Opens(U, q, a, m, r, i, b),
             x = UpTo(q, a, r, i)
      PROVE  Cell(out, b) = x
  <2>1. CASE \E k \in DOMAIN out.reqs : out.reqs[k].id = r
    <3>1. PICK k \in DOMAIN out.reqs : out.reqs[k].id = r
      BY <2>1
    <3> DEFINE v == <<k, i>>
    <3>2. v \in Writers(out, b)
      BY <1>2, <1>5, <3>1
    <3>3. ASSUME NEW w \in Writers(out, b) PROVE w = v
      <4>1. w = <<w[1], w[2]>> /\ w[1] \in DOMAIN out.reqs /\ Opens(U, q, a, m, out.reqs[w[1]].id, w[2], b)
        BY <1>2
      <4>2. out.reqs[w[1]].id = r /\ w[2] = i
        BY <1>5, <4>1, OneOpens
      <4>3. w[1] = k
        BY <3>1, <4>1, <4>2 DEF BatchOf
      <4> QED BY <4>1, <4>2, <4>3
    <3>4. Written(out, b, v) = x
      BY <1>5, <3>1, WrittenUpTo
    <3> HIDE DEF v
    <3>5. Writers(out, b) = {v}
      BY <3>2, <3>3
    <3>6. Cardinality(Writers(out, b)) = 1 /\ (CHOOSE w \in Writers(out, b) : TRUE) = v
      BY <3>5, FS_Singleton
    <3>7. Cell(out, b) = Written(out, b, v)
      <4> DEFINE ws == Writers(out, b)
                 w == CHOOSE u \in ws : TRUE
      <4>1. Cell(out, b) = IF ws = {} THEN kv_cache[b]
                           ELSE IF Cardinality(ws) > 1 THEN Garbage ELSE Written(out, b, w)
        BY DEF Cell
      <4>2. ws # {} /\ ~(Cardinality(ws) > 1) /\ w = v
        BY <3>2, <3>6
      <4> HIDE DEF ws, w
      <4> QED BY <4>1, <4>2
    <3> QED BY <3>4, <3>7
  <2>2. CASE \A k \in DOMAIN out.reqs : out.reqs[k].id # r
    <3>1. ASSUME NEW w \in Writers(out, b) PROVE FALSE
      <4>1. w[1] \in DOMAIN out.reqs /\ Opens(U, q, a, m, out.reqs[w[1]].id, w[2], b)
        BY <1>2
      <4>2. out.reqs[w[1]].id = r
        BY <1>5, <4>1, OneOpens
      <4> QED BY <2>2, <4>1, <4>2
    <3>2. Writers(out, b) = {}
      BY <3>1
    <3> DEFINE c == q[r].num_computed_tokens
               n == i * BlockSize
    <3>3. a[r] = c /\ c \in Nat
      BY <2>2 DEF BatchOf, Sized, SizedFor
    <3>4. m.req_to_blocks[r][i] = b /\ c < n /\ (i - 1) * BlockSize < c
      BY <1>5, <3>3 DEF Opens
    <3>5. kv_cache[b] = SubSeq(q[r].tokens, 1, c)
      BY <3>4 DEF PartsKept
    <3>6. n \in Int
      BY SizedIndexes, Multiples
    <3> HIDE DEF n, c
    <3>7. LesserOf(n, c) = c
      BY <3>3, <3>4, <3>6 DEF LesserOf
    <3>8. UpTo(q, a, r, i) = SubSeq(q[r].tokens, 1, LesserOf(n, c))
      BY <3>3 DEF UpTo, n
    <3> QED BY <1>3, <1>5, <3>2, <3>5, <3>7, <3>8
  <2> QED BY <2>1, <2>2
<1> QED BY <1>1, <1>4, <1>5 DEF Gets

(***************************************************************************)
(* What the batch leaves in the blocks of a request.                       *)
(***************************************************************************)
LEMMA ForwardTables ==
    ASSUME NEW U, NEW q, NEW a, NEW m, Sized(U, q, a, m), Content(U, q, a, m, kv_cache),
           NEW out, BatchOf(out, U, q, a, m), NEW r \in U, NEW i \in DOMAIN m.req_to_blocks[r],
           (i - 1) * BlockSize < a[r]
    PROVE  AfterForward(out)[m.req_to_blocks[r][i]] = UpTo(q, a, r, i)
<1> DEFINE b == m.req_to_blocks[r][i]
           c == q[r].num_computed_tokens
           n == i * BlockSize
<1>1. b \in Block /\ i \in Int /\ n \in Int
  BY SizedIndexes, Multiples
<1>2. c \in Nat /\ a[r] \in Nat /\ c <= a[r]
  BY DEF Sized, SizedFor
<1>3. Gets(U, q, a, m, kv_cache, b, UpTo(q, a, r, i))
  <2>1. CASE n <= c
    <3>1. Gets(U, q, a, m, kv_cache, b, Prefix(q[r].tokens, i))
      BY <2>1 DEF Content, TablesKept
    <3>2. n <= a[r]
      <4> HIDE DEF n, c
      <4> QED BY <1>1, <1>2, <2>1
    <3> QED BY <3>1, <3>2, UpToFacts
  <2>2. CASE c < n
    <3>1. Opens(U, q, a, m, r, i, b)
      BY <2>2 DEF Opens
    <3> QED BY <3>1 DEF Gets
  <2> HIDE DEF n, c
  <2> QED BY <1>1, <1>2, <2>1, <2>2
<1> HIDE DEF b
<1> QED BY <1>1, <1>3, ForwardGives DEF Content, b

\* The requests in p are those of q once the batch is submitted.
Submitted(U, q, a, m, p, f, n) ==
    /\ \A r \in U : p[r].num_computed_tokens = a[r] /\ p[r].tokens = q[r].tokens /\ f[r] = a[r]
    /\ n.req_to_blocks = m.req_to_blocks /\ n.num_cached_block = m.num_cached_block
    /\ n.pool.block_hash = m.pool.block_hash

(***************************************************************************)
(* After the batch, nobody's part of a block is cached or shared.          *)
(***************************************************************************)
LEMMA NoneTaken ==
    ASSUME NEW U, NEW q, NEW a, NEW m, Sized(U, q, a, m), CachedAhead(U, a, m),
           NEW p, NEW f, NEW n, Submitted(U, q, a, m, p, f, n), NEW b,
           \/ m.pool.block_hash[b] # NoHash
           \/ \E r \in U : \E i \in DOMAIN m.req_to_blocks[r] :
                 m.req_to_blocks[r][i] = b /\ i * BlockSize <= a[r]
    PROVE  ~Taken(U, p, f, n, b)
<1> SUFFICES ASSUME NEW s \in U, NEW k \in DOMAIN n.req_to_blocks[s], Opens(U, p, f, n, s, k, b)
             PROVE  FALSE
  BY DEF Taken
<1>1. /\ k \in DOMAIN m.req_to_blocks[s] /\ m.req_to_blocks[s][k] = b /\ a[s] < k * BlockSize
  BY DEF Opens, Submitted
<1>2. ~(k * BlockSize <= a[s])
  <2>1. a[s] \in Nat
    BY DEF Sized, SizedFor
  <2>2. k \in Int
    BY <1>1, SizedIndexes
  <2> DEFINE x == k * BlockSize
  <2> HIDE DEF x
  <2>3. x \in Int /\ a[s] < x
    BY <1>1, <2>2, Multiples DEF x
  <2>4. ~(x <= a[s])
    BY <2>1, <2>3
  <2> QED BY <2>4 DEF x
<1>3. /\ m.pool.block_hash[b] = NoHash
      /\ \A r \in U : \A i \in DOMAIN m.req_to_blocks[r] :
            m.req_to_blocks[r][i] = b => r = s /\ i = k
  BY <1>1, <1>2, OwnBlock
<1>4. PICK r \in U : \E i \in DOMAIN m.req_to_blocks[r] :
                        m.req_to_blocks[r][i] = b /\ i * BlockSize <= a[r]
  BY <1>3
<1>5. PICK i \in DOMAIN m.req_to_blocks[r] : m.req_to_blocks[r][i] = b /\ i * BlockSize <= a[r]
  BY <1>4
<1>6. r = s /\ i = k
  BY <1>3, <1>5
<1> QED BY <1>2, <1>5, <1>6

(***************************************************************************)
(* The end of schedule(): what the blocks hold once the batch is executed. *)
(***************************************************************************)
LEMMA ForwardContent ==
    ASSUME NEW U, NEW q, NEW a, NEW m, Sized(U, q, a, m), Content(U, q, a, m, kv_cache),
           NEW out, BatchOf(out, U, q, a, m), NEW p, NEW f, NEW n, Submitted(U, q, a, m, p, f, n),
           NEW B, B = AfterForward(out)
    PROVE  Content(U, p, f, n, B)
<1>1. /\ \A r \in U : p[r].num_computed_tokens = a[r] /\ p[r].tokens = q[r].tokens /\ f[r] = a[r]
      /\ n.req_to_blocks = m.req_to_blocks /\ n.pool.block_hash = m.pool.block_hash
      /\ \A r : NumCached(n, r) = NumCached(m, r)
  BY DEF Submitted, NumCached
<1>2. HashesKept(U, q, a, m, kv_cache) /\ CachedAhead(U, a, m) /\ OneFills(U, q, m) /\ PartsKept(U, q, m, kv_cache)
  BY DEF Content
<1>3. HashesKept(U, p, f, n, B)
  <2> SUFFICES ASSUME NEW b \in Block, n.pool.block_hash[b] # NoHash
               PROVE  Gets(U, p, f, n, B, b, n.pool.block_hash[b])
    BY DEF HashesKept
  <2>1. m.pool.block_hash[b] # NoHash /\ n.pool.block_hash[b] = m.pool.block_hash[b]
    BY <1>1
  <2>2. ~Taken(U, p, f, n, b)
    BY <1>2, <2>1, NoneTaken
  <2>3. Gets(U, q, a, m, kv_cache, b, m.pool.block_hash[b])
    BY <1>2, <2>1 DEF HashesKept
  <2>4. B[b] = m.pool.block_hash[b]
    BY <1>2, <2>3, ForwardGives
  <2> QED BY <2>1, <2>2, <2>4 DEF Gets
<1>4. TablesKept(U, p, f, n, B)
  <2> SUFFICES ASSUME NEW r \in U, NEW i \in DOMAIN m.req_to_blocks[r], i * BlockSize <= a[r]
               PROVE  Gets(U, p, f, n, B, m.req_to_blocks[r][i], Prefix(q[r].tokens, i))
    BY <1>1 DEF TablesKept
  <2> DEFINE b == m.req_to_blocks[r][i]
  <2>1. ~Taken(U, p, f, n, b)
    BY <1>2, NoneTaken
  <2>2. i \in Int /\ a[r] \in Nat
    BY SizedIndexes DEF Sized, SizedFor
  <2>3. (i - 1) * BlockSize < a[r]
    <3> DEFINE x == i * BlockSize
               y == (i - 1) * BlockSize
    <3>1. y < x /\ x \in Int /\ y \in Int
      BY <2>2, Multiples
    <3> HIDE DEF x, y
    <3>2. x <= a[r]
      BY DEF x
    <3>3. y < a[r]
      BY <2>2, <3>1, <3>2
    <3> QED BY <3>3 DEF y
  <2>4. B[b] = UpTo(q, a, r, i)
    BY <2>3, ForwardTables
  <2>5. UpTo(q, a, r, i) = Prefix(q[r].tokens, i)
    BY UpToFacts
  <2> QED BY <2>1, <2>4, <2>5 DEF Gets
<1>5. PartsKept(U, p, n, B)
  <2> SUFFICES ASSUME NEW r \in U, NEW i \in DOMAIN m.req_to_blocks[r],
                      (i - 1) * BlockSize < a[r], a[r] < i * BlockSize
               PROVE  B[m.req_to_blocks[r][i]] = SubSeq(q[r].tokens, 1, a[r])
    BY <1>1 DEF PartsKept
  <2>1. i \in Int /\ a[r] \in Nat
    BY SizedIndexes DEF Sized, SizedFor
  <2>2. LesserOf(i * BlockSize, a[r]) = a[r]
    <3> DEFINE x == i * BlockSize
    <3>1. x \in Int
      BY <2>1, Multiples
    <3> HIDE DEF x
    <3>2. a[r] < x
      BY DEF x
    <3>3. LesserOf(x, a[r]) = a[r]
      BY <2>1, <3>1, <3>2 DEF LesserOf
    <3> QED BY <3>3 DEF x
  <2>3. B[m.req_to_blocks[r][i]] = UpTo(q, a, r, i)
    BY ForwardTables
  <2> QED BY <2>2, <2>3 DEF UpTo
<1>6. OneFills(U, p, n)
  <2> SUFFICES ASSUME NEW r \in U, NEW s \in U, NEW i \in DOMAIN m.req_to_blocks[r],
                      NEW k \in DOMAIN m.req_to_blocks[s], r # s,
                      m.req_to_blocks[r][i] = m.req_to_blocks[s][k]
               PROVE  i * BlockSize <= a[r] \/ k * BlockSize <= a[s]
    BY <1>1 DEF OneFills
  <2>1. i * BlockSize <= q[r].num_computed_tokens \/ k * BlockSize <= q[s].num_computed_tokens
    BY <1>2 DEF OneFills
  <2>2. i \in Int /\ k \in Int
    BY SizedIndexes
  <2>3. /\ a[r] \in Nat /\ a[s] \in Nat /\ q[r].num_computed_tokens \in Nat /\ q[s].num_computed_tokens \in Nat
        /\ q[r].num_computed_tokens <= a[r] /\ q[s].num_computed_tokens <= a[s]
    BY DEF Sized, SizedFor
  <2> DEFINE x == i * BlockSize
             y == k * BlockSize
  <2>4. x \in Int /\ y \in Int
    BY <2>2, Multiples
  <2> HIDE DEF x, y
  <2>5. x <= q[r].num_computed_tokens \/ y <= q[s].num_computed_tokens
    BY <2>1 DEF x, y
  <2>6. x <= a[r] \/ y <= a[s]
    BY <2>3, <2>4, <2>5
  <2> QED BY <2>6 DEF x, y
<1>7. CachedAhead(U, f, n)
  BY <1>1, <1>2 DEF CachedAhead
<1> QED BY <1>3, <1>4, <1>5, <1>6, <1>7 DEF Content

(***************************************************************************)
(* Every request of the batch finds its own tokens behind its block table. *)
(***************************************************************************)
LEMMA ForwardReads ==
    ASSUME NEW U, NEW q, NEW a, NEW m, Sized(U, q, a, m), Content(U, q, a, m, kv_cache),
           NEW out, BatchOf(out, U, q, a, m)
    PROVE  ReadsOwnPrefix(out)
<1> SUFFICES ASSUME NEW j \in DOMAIN out.reqs,
                    NEW k \in 1 .. BlockIndex(SeqLen(out.reqs[j]))
             PROVE  LET e == out.reqs[j]
                        blocks == UpdatedState(out, e).blocks
                        content == AfterForward(out)[blocks[k]]
                    IN  /\ k <= Len(blocks) /\ Len(content) >= LastOf(e, k)
                        /\ SubSeq(content, 1, LastOf(e, k)) = SubSeq(InputTokens(out, e), 1, LastOf(e, k))
  BY DEF ReadsOwnPrefix
<1> DEFINE e == out.reqs[j]
           r == e.id
           T == q[r].tokens
           n == a[r]
           t == m.req_to_blocks[r]
           tokens == InputTokens(out, e)
           blocks == UpdatedState(out, e).blocks
           x == k * BlockSize
           y == (k - 1) * BlockSize
           l == LesserOf(x, n)
<1>1. /\ r \in U /\ SeqLen(e) = n /\ blocks = t /\ tokens = SubSeq(T, 1, n)
  BY DEF BatchOf, EntryFits
<1>2. IsSeq(T) /\ n \in Nat /\ n <= Len(T) /\ Len(T) \in Nat
  BY <1>1 DEF Sized, SizedFor, IsSeq
<1>3. DOMAIN t = 1 .. Len(t) /\ Len(t) \in Nat /\ n <= Len(t) * BlockSize
  BY <1>1, SizedIndexes
<1> HIDE DEF e, r, T, n, t, tokens, blocks
<1>4. k \in 1 .. BlockIndex(n)
  BY <1>1 DEF e
<1>5. k \in Int /\ 0 < k
  BY <1>4
<1>6. y < n /\ x \in Int /\ y \in Int
  <2>1. BlockIndex(0 + 1) = 1
    BY SizesAssumption DEF BlockIndex
  <2>2. k \in BlockIndex(0 + 1) .. BlockIndex(n) <=> (0 < k * BlockSize /\ y < n)
    BY <1>2, <1>5, BlockIndexes
  <2> QED BY <1>4, <1>5, <2>1, <2>2, Multiples
<1>7. k <= Len(t)
  <2> DEFINE z == Len(t) * BlockSize
  <2>1. k - 1 \in Int /\ Len(t) \in Int
    BY <1>3, <1>5
  <2>2. z \in Int /\ (y < z => k - 1 < Len(t))
    BY <2>1, Multiples
  <2> HIDE DEF y, z
  <2>3. y < z
    BY <1>2, <1>3, <1>6, <2>2 DEF z
  <2> QED BY <1>3, <1>5, <2>2, <2>3
<1>8. k \in DOMAIN t
  BY <1>3, <1>5, <1>7
<1>9. AfterForward(out)[t[k]] = SubSeq(T, 1, l)
  <2>1. AfterForward(out)[m.req_to_blocks[r][k]] = UpTo(q, a, r, k)
    BY <1>1, <1>6, <1>8, ForwardTables DEF t, n
  <2> QED BY <2>1 DEF UpTo, t, T, n
<1>10. l \in 0 .. n
  <2>1. 0 * BlockSize <= x /\ 0 * BlockSize = 0
    BY <1>5, Multiples, SizesAssumption
  <2> HIDE DEF x
  <2> QED BY <1>2, <1>6, <2>1 DEF LesserOf
<1>11. LastOf(e, k) = l
  BY <1>1 DEF LastOf
<1> HIDE DEF l, x, y
<1>12. l \in 0 .. Len(T) /\ n \in 0 .. Len(T) /\ l \in 0 .. l /\ l \in Nat
  BY <1>2, <1>10
<1>13. /\ Len(SubSeq(T, 1, l)) = l /\ SubSeq(SubSeq(T, 1, l), 1, l) = SubSeq(T, 1, l)
       /\ SubSeq(SubSeq(T, 1, n), 1, l) = SubSeq(T, 1, l)
  BY <1>2, <1>10, <1>12, SubSeqSubSeq
<1>14. Len(AfterForward(out)[t[k]]) >= l
  BY <1>9, <1>12, <1>13
<1>15. SubSeq(AfterForward(out)[t[k]], 1, l) = SubSeq(tokens, 1, l)
  BY <1>1, <1>9, <1>13
<1>16. k <= Len(blocks) /\ Len(AfterForward(out)[blocks[k]]) >= LastOf(e, k)
       /\ SubSeq(AfterForward(out)[blocks[k]], 1, LastOf(e, k)) = SubSeq(tokens, 1, LastOf(e, k))
  BY <1>1, <1>7, <1>11, <1>14, <1>15
<1> QED BY <1>16 DEF e, blocks, tokens

-----------------------------------------------------------------------------
(* The engine *)

(***************************************************************************)
(* The tokens of the batch for a request.                                  *)
(***************************************************************************)
LEMMA NumFacts ==
    ASSUME NEW s, \A i, j \in DOMAIN s : s[i].id = s[j].id => i = j
    PROVE  /\ \A k \in DOMAIN s : Num(s, s[k].id) = s[k].num_scheduled_tokens
           /\ \A r : ~InBatch(s, r) => Num(s, r) = 0
<1>1. ASSUME NEW k \in DOMAIN s PROVE Num(s, s[k].id) = s[k].num_scheduled_tokens
  <2> DEFINE l == CHOOSE j \in DOMAIN s : s[j].id = s[k].id
  <2>1. l \in DOMAIN s /\ s[l].id = s[k].id
    OBVIOUS
  <2>2. Num(s, s[k].id) = s[l].num_scheduled_tokens
    BY DEF Num, InBatch
  <2> HIDE DEF l
  <2>3. l = k
    BY <2>1
  <2> QED BY <2>2, <2>3
<1> QED BY <1>1 DEF Num

(***************************************************************************)
(* With one batch at a time the tokens of the running requests, those that *)
(* schedule() is giving them included, fit their blocks.                   *)
(***************************************************************************)
LEMMA SyncFitting ==
    ASSUME IInv, Sound, OneAtATime
    PROVE  /\ ManagerOK(manager) /\ HasTokens(requests) /\ Linked(manager, requests)
           /\ Fitting(Range(running), requests, Ahead, manager)
           /\ Sized(Range(running), requests, Ahead, manager)
           /\ \A r \in Range(running) : Ahead[r] <= MaxModelLen /\ requests[r].status = "RUNNING"
           /\ \A r \in Request : Ahead[r] = requests[r].num_computed_tokens + Num(step.scheduled, r)
<1>1. ManagerOK(manager) /\ HasTokens(requests) /\ Linked(manager, requests)
  BY Basics DEF Sound
<1>2. \A r \in Range(running) : r \in Request /\ requests[r].status = "RUNNING"
  <2>1. Placed(waiting, running, requests)
    BY DEF IInv, QueuesOK
  <2>2. Range(running) \subseteq Request
    BY <2>1 DEF Placed, Range
  <2> QED BY <2>1, <2>2 DEF Placed
<1>3. \A r \in Request : Ahead[r] = requests[r].num_computed_tokens + Num(step.scheduled, r)
  BY DEF Ahead
<1>4. ASSUME NEW r \in Range(running)
      PROVE  /\ requests[r].num_computed_tokens \in Nat /\ Ahead[r] \in Nat
             /\ requests[r].num_computed_tokens <= Ahead[r] /\ Ahead[r] <= Len(requests[r].tokens)
             /\ Ahead[r] <= Slots(manager, r) /\ Ahead[r] <= MaxModelLen
  <2> DEFINE q == requests[r]
             c == q.num_computed_tokens
             s == step.scheduled
             n == Num(s, r)
             l == Len(q.tokens)
             slots == Slots(manager, r)
  <2>1. Counts(q, slots) /\ IsRequest(q)
    BY <1>2, Basics DEF Sound, TokensCounted, CountsOf
  <2>2. /\ c \in Nat /\ q.num_output_placeholders = 0 /\ c < MaxModelLen /\ c <= l /\ c <= slots
        /\ l \in Nat
    BY <1>2, <2>1, SizesAssumption DEF Counts, OneAtATime, Alive, IsRequest, IsSeq
  <2>3. \A i, j \in DOMAIN s : s[i].id = s[j].id => i = j
    BY DEF Sound, Entries, EntriesOf, Once
  <2>4. n \in Nat /\ c + n <= l /\ c + n < MaxModelLen /\ c + n <= slots
    <3>1. CASE InBatch(s, r)
      <4>1. PICK k \in DOMAIN s : s[k].id = r
        BY <3>1 DEF InBatch
      <4>2. /\ Reaches(requests[s[k].id], s[k].num_scheduled_tokens)
            /\ requests[s[k].id].num_computed_tokens + s[k].num_scheduled_tokens <= Slots(manager, s[k].id)
        BY DEF Sound, Entries, EntriesOf, EntryOK
      <4>3. n = s[k].num_scheduled_tokens
        BY <2>3, <4>1, NumFacts
      <4>4. Reaches(q, n) /\ c + n <= slots
        BY <4>1, <4>2, <4>3
      <4> QED BY <2>2, <4>4 DEF Reaches
    <3>2. CASE ~InBatch(s, r)
      <4>1. n = 0
        BY <2>3, <3>2, NumFacts
      <4> HIDE DEF n, slots
      <4>2. slots \in Int
        BY <1>1, <1>2, SlotsFacts DEF slots
      <4> QED BY <2>2, <4>1, <4>2
    <3> QED BY <3>1, <3>2
  <2>5. Ahead[r] = c + n
    BY <1>2, <1>3
  <2>6. c + n \in Nat /\ c <= c + n /\ c + n <= MaxModelLen
    <3> HIDE DEF c, n
    <3> QED BY <2>2, <2>4, SizesAssumption
  <2> HIDE DEF n, slots, c, l
  <2> QED BY <2>2, <2>4, <2>5, <2>6 DEF c, l, q, slots
<1>5. Fitting(Range(running), requests, Ahead, manager)
  BY <1>2, <1>4 DEF Fitting
<1>6. Sized(Range(running), requests, Ahead, manager)
  BY <1>1, <1>5, FittingSized
<1> QED BY <1>1, <1>2, <1>3, <1>4, <1>5, <1>6

(***************************************************************************)
(* Tokens that are added leave the first ones alone.                       *)
(***************************************************************************)
LEMMA ConcatBegins ==
    ASSUME NEW s, IsSeq(s), NEW t, IsSeq(t), NEW k \in 0 .. Len(s)
    PROVE  SubSeq(s \o t, 1, k) = SubSeq(s, 1, k)
<1> DEFINE T == Range(s) \cup Range(t)
           u == s \o t
           x == SubSeq(u, 1, k)
           y == SubSeq(s, 1, k)
<1>1. s \in Seq(T) /\ t \in Seq(T)
  BY DEF IsSeq, Range
<1>2. k \in Nat /\ k <= Len(s) /\ Len(s) \in Nat
  BY <1>1
<1> HIDE DEF T
<1>3. /\ u \in Seq(T) /\ Len(u) = Len(s) + Len(t) /\ Len(t) \in Nat
      /\ \A j \in 1 .. Len(s) : u[j] = s[j]
  BY <1>1
<1> HIDE DEF u
<1>4. x \in Seq(T) /\ Len(x) = k /\ \A j \in 1 .. k : x[j] = u[j]
  BY <1>2, <1>3
<1>5. y \in Seq(T) /\ Len(y) = k /\ \A j \in 1 .. k : y[j] = s[j]
  BY <1>1, <1>2
<1> HIDE DEF x, y
<1>6. \A j \in 1 .. k : x[j] = y[j]
  BY <1>2, <1>3, <1>4, <1>5
<1>7. x = y
  BY <1>4, <1>5, <1>6
<1> QED BY <1>7 DEF x, y, u

\* Request r has after the step the blocks and the counts that it had, and its
\* tokens, with more after them or not.
KeptFor(r) ==
    /\ requests'[r].num_computed_tokens = requests[r].num_computed_tokens
    /\ manager'.req_to_blocks[r] = manager.req_to_blocks[r]
    /\ NumCached(manager', r) = NumCached(manager, r)
    /\ Num(step'.scheduled, r) = Num(step.scheduled, r)
    /\ \/ requests'[r].tokens = requests[r].tokens
       \/ \E t : IsSeq(t) /\ requests'[r].tokens = requests[r].tokens \o t

\* Requests may stop running, if they are not in the batch; no block gets a hash.
Kept ==
    /\ \A r \in Range(running') : r \in Range(running) /\ KeptFor(r)
    /\ \A r \in Range(running) : r \in Range(running') \/ Num(step.scheduled, r) = 0
    /\ \A b \in Block : \/ manager'.pool.block_hash[b] = NoHash
                        \/ manager'.pool.block_hash[b] = manager.pool.block_hash[b]

(***************************************************************************)
(* Such a step keeps what the blocks hold.                                 *)
(***************************************************************************)
LEMMA CarryContent ==
    ASSUME IInv, Sound, OneAtATime, ContentNow, Kept, Coming' = Coming
    PROVE  ContentNow'
<1> DEFINE U == Range(running)
           V == Range(running')
           q == requests
           p == requests'
           a == Ahead
           f == [r \in Request |-> requests'[r].num_computed_tokens + Num(step'.scheduled, r)]
           m == manager
           n == manager'
           B == Coming
<1>1. /\ Sized(U, q, a, m) /\ \A r \in U : r \in Request
      /\ \A r \in Request : a[r] = q[r].num_computed_tokens + Num(step.scheduled, r)
  <2>1. Sized(U, q, a, m)
    BY SyncFitting
  <2> QED BY <2>1, SyncFitting DEF Sized, SizedFor
<1>2. \A r \in Request : f[r] = p[r].num_computed_tokens + Num(step'.scheduled, r)
  OBVIOUS
<1>3. Ahead' = f
  BY DEF Ahead
<1> HIDE DEF f, a, B
<1>4. V \subseteq U
  BY DEF Kept
<1>5. ASSUME NEW r \in V PROVE Stays(r, q, a, m, p, f, n)
  <2>1. r \in U /\ r \in Request /\ KeptFor(r)
    BY <1>1, <1>4 DEF Kept
  <2>2. f[r] = a[r]
    BY <1>1, <1>2, <2>1 DEF KeptFor
  <2>3. IsSeq(q[r].tokens) /\ a[r] \in Nat /\ a[r] <= Len(q[r].tokens)
    BY <1>1, <2>1 DEF Sized, SizedFor
  <2>4. ASSUME NEW k \in 0 .. a[r]
        PROVE  SubSeq(p[r].tokens, 1, k) = SubSeq(q[r].tokens, 1, k)
    <3>1. k \in 0 .. Len(q[r].tokens)
      <4> DEFINE l == Len(q[r].tokens)
      <4>1. l \in Nat /\ a[r] <= l
        BY <2>3 DEF IsSeq
      <4> HIDE DEF l
      <4>2. k \in 0 .. l
        BY <2>3, <4>1
      <4> QED BY <4>2 DEF l
    <3>2. CASE p[r].tokens = q[r].tokens
      BY <3>2
    <3>3. CASE \E t : IsSeq(t) /\ p[r].tokens = q[r].tokens \o t
      <4>1. PICK t : IsSeq(t) /\ p[r].tokens = q[r].tokens \o t
        BY <3>3
      <4>2. SubSeq(q[r].tokens \o t, 1, k) = SubSeq(q[r].tokens, 1, k)
        BY <2>3, <3>1, <4>1, ConcatBegins
      <4> QED BY <4>1, <4>2
    <3> QED BY <2>1, <3>2, <3>3 DEF KeptFor
  <2> QED BY <2>1, <2>2, <2>4 DEF Stays, KeptFor
<1>6. ASSUME NEW r \in U PROVE r \in V \/ a[r] = q[r].num_computed_tokens
  <2>1. r \in V \/ Num(step.scheduled, r) = 0
    BY DEF Kept
  <2>2. q[r].num_computed_tokens \in Nat /\ a[r] = q[r].num_computed_tokens + Num(step.scheduled, r)
    BY <1>1 DEF Sized, SizedFor
  <2> QED BY <2>1, <2>2
<1>7. Leaves(U, q, a, m, V, p, f, n)
  BY <1>4, <1>5, <1>6 DEF Leaves, Kept
<1>8. Content(U, q, a, m, B)
  BY DEF ContentNow, a, B
<1> HIDE DEF U, V, q, p, m, n
<1>9. Content(V, p, f, n, B)
  BY <1>1, <1>7, <1>8, Carried
<1> QED BY <1>3, <1>9 DEF ContentNow, V, p, n, B

\* The batch that is being made has for r what it had.
EntriesKept(r) ==
    /\ \A k \in DOMAIN step'.scheduled : step'.scheduled[k].id = r =>
          \E j \in DOMAIN step.scheduled : step.scheduled[j] = step'.scheduled[k]
    /\ InBatch(step.scheduled, r) => InBatch(step'.scheduled, r)

AllKept == Kept /\ \A r \in Range(running') : EntriesKept(r)

(***************************************************************************)
(* Nothing about the batch that is being made changes.                     *)
(***************************************************************************)
LEMMA SameScheduled ==
    ASSUME step'.scheduled = step.scheduled
    PROVE  \A r : Num(step'.scheduled, r) = Num(step.scheduled, r) /\ EntriesKept(r)
BY DEF EntriesKept

(***************************************************************************)
(* Outside schedule() no batch is being made.                              *)
(***************************************************************************)
LEMMA NoneScheduled ==
    ASSUME IInv, phase # "schedule"
    PROVE  step = NoStep /\ step.scheduled = <<>> /\ \A r : Num(step.scheduled, r) = 0
<1>1. step = NoStep
  BY DEF IInv, StepOK
<1>2. step.scheduled = <<>>
  BY <1>1 DEF NoStep
<1>3. \A r : Num(<<>>, r) = 0
  BY DEF Num, InBatch
<1> QED BY <1>1, <1>2, <1>3

(***************************************************************************)
(* A step that leaves the batches and the worker alone leaves alone what   *)
(* the blocks will hold.                                                   *)
(***************************************************************************)
LEMMA ComingSame ==
    ASSUME UNCHANGED <<batch_queue, runnerVars>>
    PROVE  Coming' = Coming /\ (Promised => Promised')
<1>1. /\ \A out : AfterForward(out)' = AfterForward(out)
      /\ \A out : ReadsOwnPrefix(out)' = ReadsOwnPrefix(out)
  BY RunnerSame
<1>2. batch_queue' = batch_queue /\ kv_cache' = kv_cache
  BY DEF runnerVars
<1>3. AfterForward(batch_queue[1].out)' = AfterForward(batch_queue[1].out)
  BY <1>1
<1>4. Coming' = Coming
  BY <1>2, <1>3 DEF Coming
<1>5. ASSUME NEW i \in DOMAIN batch_queue
      PROVE  ReadsOwnPrefix(batch_queue[i].out)' = ReadsOwnPrefix(batch_queue[i].out)
  BY <1>1
<1>6. Promised => Promised'
  BY <1>2, <1>5 DEF Promised
<1> QED BY <1>4, <1>6

(***************************************************************************)
(* free, for the other requests and the hashes.                            *)
(***************************************************************************)
LEMMA FreeOthers ==
    ASSUME NEW m, ManagerOK(m), NEW r \in Request, NEW n, n = free(m, r)
    PROVE  /\ n.pool.block_hash = m.pool.block_hash
           /\ \A s \in Request : s # r => /\ n.req_to_blocks[s] = m.req_to_blocks[s]
                                          /\ NumCached(n, s) = NumCached(m, s)
<1>1. GivenBack(n, m, r) /\ n.req_to_blocks = [m.req_to_blocks EXCEPT ![r] = <<>>]
  BY FreeFacts, FreeOK
<1>2. /\ n.pool.block_hash = m.pool.block_hash
      /\ n.num_cached_block = [m.num_cached_block EXCEPT ![r] = NoEntry]
  BY <1>1 DEF GivenBack
<1>3. DOMAIN m.num_cached_block = Request /\ DOMAIN m.req_to_blocks = Request
  BY DEF ManagerOK, IsManager
<1>4. \A s \in Request : s # r => n.num_cached_block[s] = m.num_cached_block[s]
  BY <1>2, <1>3
<1> QED BY <1>1, <1>2, <1>3, <1>4 DEF NumCached

(***************************************************************************)
(* A request that is not in the batch stops running.                       *)
(***************************************************************************)
LEMMA OneLeaves ==
    ASSUME IInv, NEW r \in Request, manager' = free(manager, r), Num(step.scheduled, r) = 0,
           \A s \in Range(running') : s \in Range(running) /\ s # r,
           \A s \in Range(running) : s = r \/ s \in Range(running'),
           \A s \in Range(running') :
              requests'[s] = requests[s] /\ Num(step'.scheduled, s) = Num(step.scheduled, s) /\ EntriesKept(s)
    PROVE  AllKept
<1>1. ManagerOK(manager)
  BY Basics
<1>2. /\ manager'.pool.block_hash = manager.pool.block_hash
      /\ \A s \in Request : s # r => /\ manager'.req_to_blocks[s] = manager.req_to_blocks[s]
                                     /\ NumCached(manager', s) = NumCached(manager, s)
  <2> DEFINE m == manager
             n == manager'
  <2> HIDE DEF m, n
  <2> QED BY <1>1, FreeOthers DEF m, n
<1>3. \A s \in Range(running) : s \in Request
  BY DEF IInv, QueuesOK, Placed, Range
<1>4. \A s \in Range(running') : KeptFor(s)
  BY <1>2, <1>3 DEF KeptFor
<1> QED BY <1>2, <1>4 DEF AllKept, Kept

(***************************************************************************)
(* abort_requests.                                                         *)
(***************************************************************************)
LEMMA AbortKept ==
    ASSUME IInv, NEW r \in Request, Abort(r)
    PROVE  AllKept
<1>1. /\ requests' = [requests EXCEPT ![r].status = "FINISHED_ABORTED"]
      /\ requests[r].status \in {"WAITING", "RUNNING", "PREEMPTED"}
      /\ running' = IF requests[r].status = "RUNNING" THEN Without(running, r) ELSE running
      /\ manager' = free(manager, r) /\ step' = step /\ phase # "schedule"
  BY DEF Abort, finish_requests
<1>2. running \in Seq(Request) /\ (r \in Range(running) <=> requests[r].status = "RUNNING")
  BY DEF IInv, QueuesOK, Placed
<1>3. Num(step.scheduled, r) = 0
  BY <1>1, NoneScheduled
<1>4. \A s : s \in Range(running') <=> (s \in Range(running) /\ s # r)
  <2>1. \A s : s \in Range(Without(running, r)) <=> (s \in Range(running) /\ s # r)
    BY <1>2, WithoutFacts
  <2> QED BY <1>1, <1>2, <2>1
<1>5. \A s \in Request : s # r => requests'[s] = requests[s]
  BY <1>1, Basics
<1>6. \A s \in Range(running) : s \in Request
  BY <1>2 DEF Range
<1>7. \A s : Num(step'.scheduled, s) = Num(step.scheduled, s) /\ EntriesKept(s)
  BY <1>1, SameScheduled
<1> QED BY <1>1, <1>3, <1>4, <1>5, <1>6, <1>7, OneLeaves

(***************************************************************************)
(* add_request: the request does not run yet.                              *)
(***************************************************************************)
LEMMA AddKept ==
    ASSUME IInv, NEW r \in Request, Add(r)
    PROVE  AllKept
<1>1. /\ requests' = [requests EXCEPT ![r] = NewRequest(r, "WAITING")]
      /\ running' = running /\ manager' = manager /\ step' = step
      /\ requests[r].status # "RUNNING"
  BY DEF Add, add_request, Fresh
<1>2. \A s \in Range(running) : s \in Request /\ s # r
  BY <1>1 DEF IInv, QueuesOK, Placed, Range
<1>3. \A s \in Range(running) : requests'[s] = requests[s]
  BY <1>1, <1>2, Basics
<1>4. \A s : Num(step'.scheduled, s) = Num(step.scheduled, s) /\ EntriesKept(s)
  BY <1>1, SameScheduled
<1> QED BY <1>1, <1>3, <1>4 DEF AllKept, Kept, KeptFor

(***************************************************************************)
(* A step that leaves the requests and their blocks alone, and gives no    *)
(* block a hash.                                                           *)
(***************************************************************************)
LEMMA SameKept ==
    ASSUME requests' = requests, running' = running,
           manager'.req_to_blocks = manager.req_to_blocks,
           manager'.num_cached_block = manager.num_cached_block,
           step'.scheduled = step.scheduled,
           \A b \in Block : \/ manager'.pool.block_hash[b] = NoHash
                            \/ manager'.pool.block_hash[b] = manager.pool.block_hash[b]
    PROVE  AllKept
<1>1. \A s : Num(step'.scheduled, s) = Num(step.scheduled, s) /\ EntriesKept(s)
  BY SameScheduled
<1> QED BY <1>1 DEF AllKept, Kept, KeptFor, NumCached

(***************************************************************************)
(* reset_prefix_cache, if it succeeds, leaves no hash.                     *)
(***************************************************************************)
LEMMA ResetHashes ==
    ASSUME NEW m, ManagerOK(m)
    PROVE  LET n == reset_prefix_cache(m)
           IN  /\ n.req_to_blocks = m.req_to_blocks /\ n.num_cached_block = m.num_cached_block
               /\ \A b \in Block : \/ n.pool.block_hash[b] = NoHash
                                   \/ ~CanReset(m.pool) /\ n.pool.block_hash[b] = m.pool.block_hash[b]
<1> DEFINE n == reset_prefix_cache(m)
           p == m.pool
<1>1. IsManager(m) /\ IsPool(p)
  BY DEF ManagerOK, IsManager
<1>2. n = [m EXCEPT !.pool = ResetPool(p)]
  BY DEF reset_prefix_cache
<1> HIDE DEF n
<1>3. /\ n.pool = ResetPool(p) /\ n.req_to_blocks = m.req_to_blocks
      /\ n.num_cached_block = m.num_cached_block
  BY <1>1, <1>2 DEF IsManager
<1>4. CASE CanReset(p)
  <2>1. ResetPool(p) = [p EXCEPT !.cached = <<>>, !.block_hash = [b \in Block |-> NoHash]]
    BY <1>4 DEF ResetPool
  <2> DEFINE z == ResetPool(p)
  <2> HIDE DEF z
  <2>2. z.block_hash = [b \in Block |-> NoHash]
    BY <1>1, <2>1 DEF IsPool, z
  <2> QED BY <1>3, <2>2 DEF n, z
<1>5. CASE ~CanReset(p)
  <2>1. ResetPool(p) = p
    BY <1>5 DEF ResetPool
  <2> QED BY <1>3, <1>5, <2>1 DEF n
<1> QED BY <1>4, <1>5

(***************************************************************************)
(* reset_prefix_cache that leaves the running requests alone.              *)
(***************************************************************************)
LEMMA ResetIdleKept ==
    ASSUME IInv, ResetIdle
    PROVE  AllKept
<1>1. /\ manager' = reset_prefix_cache(manager)
      /\ requests' = requests /\ running' = running /\ step' = step
  BY DEF ResetIdle
<1>2. ManagerOK(manager)
  BY Basics
<1> QED BY <1>1, <1>2, ResetHashes, SameKept

(***************************************************************************)
(* reset_prefix_cache that preempts the running requests: none is left,    *)
(* and all blocks are free, so that it succeeds.                           *)
(***************************************************************************)
LEMMA ResetRunningKept ==
    ASSUME IInv, phase = "input", ResetRunning
    PROVE  AllKept
<1> DEFINE left == PreemptAll(manager, waiting, running)
           m == left.manager
<1>1. /\ manager' = IF CanReset(m.pool) THEN reset_prefix_cache(m)
                    ELSE [m EXCEPT !.pool = Fail(@, "reset_prefix_cache: RuntimeError")]
      /\ running' = <<>>
  BY DEF ResetRunning
<1>2. ManagerOK(m) /\ \A r \in Request : m.req_to_blocks[r] = <<>>
  BY PreemptAllFacts DEF IInv, QueuesOK, BlocksOK
<1> HIDE DEF m, left
<1>3. CanReset(m.pool)
  BY <1>2, ResetWhenFree
<1>4. \A b \in Block : manager'.pool.block_hash[b] = NoHash
  BY <1>1, <1>2, <1>3, ResetHashes
<1>5. Range(running') = {}
  <2>1. running' = <<>>
    BY <1>1
  <2>2. DOMAIN running' = {}
    BY <2>1
  <2> QED BY <2>2 DEF Range
<1>6. \A r : Num(step.scheduled, r) = 0
  BY NoneScheduled
<1> QED BY <1>4, <1>5, <1>6 DEF AllKept, Kept

(***************************************************************************)
(* The start of a step.                                                    *)
(***************************************************************************)
LEMMA StartKept ==
    ASSUME IInv, StepStart
    PROVE  AllKept
<1>1. requests' = requests /\ running' = running /\ manager' = manager
  BY DEF StepStart, schedule_start, schedulerVars
<1>2. step'.scheduled = step.scheduled
  <2>1. step = NoStep
    BY NoneScheduled DEF StepStart
  <2>2. \/ step' = step
        \/ step' = [NoStep EXCEPT !.loop = "running", !.token_budget = MaxNumScheduledTokens]
    BY DEF StepStart, schedule_start, schedulerVars
  <2> QED BY <2>1, <2>2 DEF NoStep
<1> QED BY <1>1, <1>2, SameKept

(***************************************************************************)
(* schedule() moving along self.running.                                   *)
(***************************************************************************)
LEMMA WalkKept ==
    ASSUME IInv, SkipRunning \/ EnterRunning \/ RunningDone
    PROVE  AllKept
<1>1. requests' = requests /\ running' = running /\ manager' = manager
  BY DEF SkipRunning, EnterRunning, RunningDone
<1>2. step'.scheduled = step.scheduled
  BY Basics DEF IsStep, SkipRunning, EnterRunning, RunningDone
<1> QED BY <1>1, <1>2, SameKept

(***************************************************************************)
(* A batch with the same entry for r has the same tokens for it.           *)
(***************************************************************************)
LEMMA SameNum ==
    ASSUME NEW s, \A i, j \in DOMAIN s : s[i].id = s[j].id => i = j,
           NEW t, \A i, j \in DOMAIN t : t[i].id = t[j].id => i = j,
           NEW r, \A k \in DOMAIN t : t[k].id = r => \E j \in DOMAIN s : s[j] = t[k],
           InBatch(s, r) => InBatch(t, r)
    PROVE  Num(t, r) = Num(s, r)
<1>1. CASE InBatch(t, r)
  <2>1. PICK k \in DOMAIN t : t[k].id = r
    BY <1>1 DEF InBatch
  <2>2. PICK j \in DOMAIN s : s[j] = t[k]
    BY <2>1
  <2>3. Num(t, r) = t[k].num_scheduled_tokens
    BY <2>1, NumFacts
  <2>4. Num(s, r) = s[j].num_scheduled_tokens
    BY <2>1, <2>2, NumFacts
  <2> QED BY <2>2, <2>3, <2>4
<1>2. CASE ~InBatch(t, r)
  BY <1>2, NumFacts
<1> QED BY <1>1, <1>2

(***************************************************************************)
(* Under FCFS the victim is the last running request, which schedule() has *)
(* not come past: the batch has nothing for it.                            *)
(***************************************************************************)
LEMMA PreemptKept ==
    ASSUME IInv, Sound, AtRequest, PreemptForRunning, Policy = "fcfs"
    PROVE  AllKept
<1> DEFINE u == running
           v == Victim
           s == step.scheduled
           n == Unscheduled(v)
           t == n.scheduled
<1>1. /\ step.request # NoRequest /\ running' = Without(u, v) /\ manager' = free(manager, v)
      /\ requests' = [requests EXCEPT ![v].status = "PREEMPTED", ![v].num_computed_tokens = 0]
      /\ step' = [n EXCEPT !.loop = IF v = step.request THEN "waiting" ELSE @,
                           !.request = IF v = step.request THEN NoRequest ELSE @,
                           !.num_new_tokens = IF v = step.request THEN 0 ELSE @,
                           !.preempted = TRUE]
  BY DEF PreemptForRunning, Preempt, InnerLoop
<1>2. u \in Seq(Request) /\ IsInjective(u) /\ DOMAIN u = 1 .. Len(u) /\ Len(u) \in Nat
  BY DEF IInv, QueuesOK, Placed
<1>3. step.req_index \in 1 .. Len(u)
  BY <1>1, <1>2 DEF AtRequest
<1>4. /\ IsStep(step) /\ Once(step) /\ step.loop = "running"
      /\ \A k \in DOMAIN s : EntryOK(s[k], step, u, requests, manager, prev_step_scheduled_req_ids)
  BY <1>1 DEF Sound, Entries, EntriesOf, Asking, IInv, StepOK
<1>5. IsStep(n)
  BY <1>4, UnscheduledFacts
<1>6. v = u[Len(u)] /\ Len(u) \in DOMAIN u
  BY <1>2, <1>3 DEF Victim
<1>7. v \in Request /\ v \in Range(u)
  BY <1>2, <1>6 DEF Range
<1>8. \A k \in DOMAIN s : s[k].id # v
  <2> SUFFICES ASSUME NEW k \in DOMAIN s, s[k].id = v PROVE FALSE
    OBVIOUS
  <2> HIDE DEF v
  <2>1. Passed(u, v, step.req_index - 1)
    BY <1>4 DEF EntryOK
  <2>2. PICK i \in DOMAIN u : i <= step.req_index - 1 /\ u[i] = v
    BY <2>1 DEF Passed
  <2>3. i = Len(u)
    BY <1>2, <1>6, <2>2 DEF IsInjective
  <2> QED BY <1>2, <1>3, <2>2, <2>3
<1> HIDE DEF v
<1>9. /\ Once(n) /\ \A k \in DOMAIN t : \E j \in DOMAIN s : t[k] = s[j]
      /\ t = Keep(s, {e \in Range(s) : e.id # v})
  <2>1. Once(n) /\ \A k \in DOMAIN t : \E j \in DOMAIN s : t[k] = s[j]
    BY <1>4, UnscheduledEntries
  <2>2. t = Keep(s, {e \in Range(s) : e.id # v})
    BY <1>4 DEF Unscheduled, IsStep
  <2> QED BY <2>1, <2>2
<1>10. ASSUME NEW r, InBatch(s, r) PROVE InBatch(t, r)
  <2> DEFINE S == {e \in Range(s) : e.id # v}
  <2>1. PICK k \in DOMAIN s : s[k].id = r
    BY <1>10 DEF InBatch
  <2>2. s[k] \in Range(s) \cap S
    BY <1>8 DEF Range
  <2>3. IsSeq(s)
    BY <1>4 DEF IsStep
  <2> HIDE DEF S, t
  <2>4. Range(t) = Range(s) \cap S
    BY <1>9, <2>3, SeqKeep DEF S
  <2>5. PICK j \in DOMAIN t : t[j] = s[k]
    BY <2>2, <2>4 DEF Range
  <2> QED BY <2>1, <2>5 DEF InBatch
<1>11. step'.scheduled = t
  BY <1>1, <1>5 DEF IsStep
<1> HIDE DEF n
<1>12. ASSUME NEW r PROVE Num(t, r) = Num(s, r)
  <2>1. /\ \A i, j \in DOMAIN s : s[i].id = s[j].id => i = j
        /\ \A i, j \in DOMAIN t : t[i].id = t[j].id => i = j
    BY <1>4, <1>9 DEF Once
  <2>2. /\ \A k \in DOMAIN t : t[k].id = r => \E j \in DOMAIN s : s[j] = t[k]
        /\ InBatch(s, r) => InBatch(t, r)
    BY <1>9, <1>10
  <2> HIDE DEF s, t
  <2> QED BY <2>1, <2>2, SameNum
<1>13. \A r : Num(step'.scheduled, r) = Num(s, r) /\ EntriesKept(r)
  <2>1. \A r : EntriesKept(r)
    BY <1>9, <1>10, <1>11 DEF EntriesKept
  <2> QED BY <1>11, <1>12, <2>1
<1>14. Num(s, v) = 0
  BY <1>4, <1>8, NumFacts DEF Once, InBatch
<1>15. \A r : r \in Range(running') <=> (r \in Range(u) /\ r # v)
  BY <1>1, <1>2, <1>7, WithoutFacts
<1>16. \A r \in Request : r # v => requests'[r] = requests[r]
  BY <1>1, Basics
<1>17. \A r \in Range(u) : r \in Request
  BY <1>2 DEF Range
<1> QED BY <1>1, <1>7, <1>13, <1>14, <1>15, <1>16, <1>17, OneLeaves

(***************************************************************************)
(* The tokens of a batch that a request joins.                             *)
(***************************************************************************)
LEMMA NumAppend ==
    ASSUME NEW s, IsSeq(s), \A i, j \in DOMAIN s : s[i].id = s[j].id => i = j,
           NEW e, \A i \in DOMAIN s : s[i].id # e.id
    PROVE  LET t == Append(s, e)
           IN  /\ Num(t, e.id) = e.num_scheduled_tokens /\ Num(s, e.id) = 0
               /\ \A r : r # e.id => Num(t, r) = Num(s, r)
               /\ \A k \in DOMAIN t : t[k] = e \/ \E j \in DOMAIN s : s[j] = t[k]
               /\ \A r : InBatch(t, r) <=> (InBatch(s, r) \/ r = e.id)
<1> DEFINE t == Append(s, e)
           l == Len(s) + 1
<1>1. /\ DOMAIN t = DOMAIN s \cup {l} /\ t[l] = e /\ \A i \in DOMAIN s : t[i] = s[i]
      /\ l \notin DOMAIN s
  BY SeqAppend
<1> HIDE DEF t, l
<1>2. \A i, j \in DOMAIN t : t[i].id = t[j].id => i = j
  BY <1>1
<1>3. Num(t, e.id) = e.num_scheduled_tokens
  BY <1>1, <1>2, NumFacts
<1>4. Num(s, e.id) = 0
  BY DEF Num, InBatch
<1>5. \A k \in DOMAIN t : t[k] = e \/ \E j \in DOMAIN s : s[j] = t[k]
  BY <1>1
<1>6. \A r : InBatch(t, r) <=> (InBatch(s, r) \/ r = e.id)
  BY <1>1 DEF InBatch
<1>7. ASSUME NEW r, r # e.id PROVE Num(t, r) = Num(s, r)
  <2>1. /\ \A k \in DOMAIN t : t[k].id = r => \E j \in DOMAIN s : s[j] = t[k]
        /\ InBatch(s, r) => InBatch(t, r)
    BY <1>5, <1>6, <1>7
  <2> QED BY <1>2, <2>1, SameNum
<1> QED BY <1>3, <1>4, <1>5, <1>6, <1>7 DEF t

(***************************************************************************)
(* What was added to a sequence, as a slice.                               *)
(***************************************************************************)
LEMMA ConcatRest ==
    ASSUME NEW s, IsSeq(s), NEW t, IsSeq(t)
    PROVE  SubSeq(s \o t, Len(s) + 1, Len(s \o t)) = t
<1> DEFINE T == Range(s) \cup Range(t)
           u == s \o t
           a == Len(s)
           b == Len(t)
           x == SubSeq(u, a + 1, Len(u))
<1>1. s \in Seq(T) /\ t \in Seq(T)
  BY DEF IsSeq, Range
<1> HIDE DEF T
<1>2. a \in Nat /\ b \in Nat
  BY <1>1
<1>3. /\ u \in Seq(T) /\ Len(u) = a + b
      /\ \A j \in 1 .. b : u[a + j] = t[j]
  BY <1>1
<1> HIDE DEF u, a
<1>4. x \in Seq(T) /\ Len(x) = b /\ \A j \in 1 .. b : x[j] = u[a + j]
  BY <1>2, <1>3
<1> HIDE DEF x
<1>5. \A j \in 1 .. b : x[j] = t[j]
  BY <1>3, <1>4
<1>6. x = t
  BY <1>1, <1>4, <1>5
<1> QED BY <1>6 DEF x, u, a

(***************************************************************************)
(* allocate_slots for a running request adds to its blocks.                *)
(***************************************************************************)
LEMMA GrownTable ==
    ASSUME NEW m, ManagerOK(m), NEW r \in Request, NEW tokens, IsSeq(tokens),
           NEW c \in Int, NEW k \in Int
    PROVE  LET n == allocate_slots(m, r, tokens, c, k, <<>>)
           IN  /\ \E new : IsSeq(new) /\ n.req_to_blocks[r] = m.req_to_blocks[r] \o new
               /\ \A s \in Request : s # r => n.req_to_blocks[s] = m.req_to_blocks[s]
<1> DEFINE slots == NeedsSlots(c, k)
           a == allocate_new_blocks(m, r, slots)
           full == LesserOf(LesserOf(c, MaxModelLen) + k, Len(tokens))
           n == allocate_slots(m, r, tokens, c, k, <<>>)
           x == NumNewBlocks(m, r, slots)
           s == m.req_to_blocks[r]
           T == Range(tokens)
<1>1. tokens \in Seq(T) /\ Len(tokens) \in Nat
  BY DEF IsSeq, Range
<1>2. slots \in Int /\ full \in Int
  BY <1>1, SizesAssumption DEF NeedsSlots, LesserOf
<1>3. n = cache_blocks(a, r, tokens, full)
  BY DEF allocate_slots, allocate_new_computed_blocks
<1>4. a = IF x <= 0 THEN m
          ELSE [m EXCEPT !.pool = get_new_blocks(@, x), !.req_to_blocks[r] = @ \o NewBlocks(m.pool, x)]
  BY DEF allocate_new_blocks
<1>5. IsManager(m) /\ s \in Seq(RealBlock) /\ Len(s) \in Nat
  BY DEF ManagerOK, IsManager
<1>6. x \in Int
  <2>1. cdiv(slots, BlockSize) \in Int
    BY <1>2, SizesAssumption DEF cdiv
  <2> QED BY <1>5, <2>1 DEF NumNewBlocks
<1> HIDE DEF slots, full, a, n, x, s, T
<1>7. /\ ManagerOK(a) /\ \E new : IsSeq(new) /\ a.req_to_blocks[r] = s \o new
      /\ \A z \in Request : z # r => a.req_to_blocks[z] = m.req_to_blocks[z]
  <2>1. CASE x <= 0
    <3>1. IsSeq(<<>>) /\ s = s \o <<>>
      BY <1>5 DEF IsSeq
    <3> QED BY <1>4, <2>1, <3>1 DEF s
  <2>2. CASE ~(x <= 0)
    <3> DEFINE new == NewBlocks(m.pool, x)
    <3>1. /\ a = [m EXCEPT !.pool = get_new_blocks(@, x), !.req_to_blocks[r] = @ \o NewBlocks(m.pool, x)]
          /\ x \in Nat
      BY <1>4, <1>6, <2>2
    <3>2. ManagerOK(a)
      BY <3>1, NewBlocksOK, Zenon
    <3>3. IsSeq(new)
      <4> DEFINE left == m.pool.free
                 y == IF x <= Len(left) THEN x ELSE 0
      <4>1. left \in Seq(RealBlock)
        BY <1>5 DEF IsManager, IsPool
      <4>2. y \in 0 .. Len(left)
        BY <3>1, <4>1
      <4>3. new = SubSeq(left, 1, y)
        BY DEF NewBlocks
      <4> HIDE DEF y, left, new
      <4>4. new \in Seq(RealBlock)
        BY <4>1, <4>2, <4>3, SplitFacts
      <4> QED BY <4>4, SeqIs
    <3>4. a.req_to_blocks = [m.req_to_blocks EXCEPT ![r] = @ \o new]
      BY <1>5, <3>1 DEF IsManager
    <3> HIDE DEF new
    <3>5. a.req_to_blocks[r] = s \o new /\ \A z \in Request : z # r => a.req_to_blocks[z] = m.req_to_blocks[z]
      BY <1>5, <3>4 DEF IsManager, s
    <3> QED BY <3>2, <3>3, <3>5
  <2> QED BY <2>1, <2>2
<1>8. n.req_to_blocks = a.req_to_blocks
  BY <1>1, <1>2, <1>3, <1>7, CacheBlocksOK
<1> QED BY <1>7, <1>8 DEF n, s

\* Request r joins the batch with entry e; the others stay as they are.
JoinsBatch(r, e) ==
    /\ r \in Request /\ e.id = r
    /\ step'.scheduled = Append(step.scheduled, e)
    /\ IsSeq(step.scheduled) /\ \A i \in DOMAIN step.scheduled : step.scheduled[i].id # r
    /\ \A i, j \in DOMAIN step.scheduled : step.scheduled[i].id = step.scheduled[j].id => i = j
    /\ \A s \in Request : s # r => manager'.req_to_blocks[s] = manager.req_to_blocks[s]

(***************************************************************************)
(* A running request joins the batch, with the blocks that are new.        *)
(***************************************************************************)
LEMMA RunningJoins ==
    ASSUME IInv, Sound, ScheduleRunning
    PROVE  LET r == step.request
           IN \E e : /\ JoinsBatch(r, e) /\ r \in Range(running)
                     /\ e.kind = "running" /\ e.num_scheduled_tokens = step.num_new_tokens
                     /\ manager'.req_to_blocks[r] = manager.req_to_blocks[r] \o e.blocks
                     /\ step.num_new_tokens \in Nat
<1> DEFINE r == step.request
           n == step.num_new_tokens
           tokens == requests[r].tokens
           c == requests[r].num_computed_tokens
           m == allocate_slots(manager, r, tokens, c, n, <<>>)
           old == manager.req_to_blocks[r]
           table == manager'.req_to_blocks[r]
           e == Scheduled(r, "running", n, SubSeq(table, Len(old) + 1, Len(table)))
<1>1. /\ manager' = m /\ r # NoRequest
      /\ step' = [step EXCEPT !.scheduled = Append(@, e), !.token_budget = @ - n,
                              !.req_index = @ + 1, !.request = NoRequest, !.num_new_tokens = 0]
  BY DEF ScheduleRunning, InnerLoop
<1>2. /\ IsStep(step) /\ n \in Nat /\ r \in Range(running) /\ IsBatchPart(step.scheduled)
      /\ \A i \in DOMAIN step.scheduled : step.scheduled[i].id # r
  BY <1>1, BatchPart
<1>3. r \in Request
  BY <1>2 DEF IInv, QueuesOK, Placed, Range
<1>4. IsSeq(tokens) /\ c \in Int /\ ManagerOK(manager)
  BY <1>3, Basics DEF IsRequest
<1>5. IsSeq(old)
  <2>1. old \in Seq(RealBlock)
    BY <1>3, <1>4 DEF ManagerOK, IsManager
  <2> QED BY <2>1, SeqIs
<1>6. e.id = r /\ e.kind = "running" /\ e.num_scheduled_tokens = n
      /\ e.blocks = SubSeq(table, Len(old) + 1, Len(table))
  BY DEF Scheduled
<1>7. step'.scheduled = Append(step.scheduled, e)
  <2> HIDE DEF e
  <2> QED BY <1>1, <1>2 DEF IsStep
<1>8. /\ \E new : IsSeq(new) /\ table = old \o new
      /\ \A s \in Request : s # r => manager'.req_to_blocks[s] = manager.req_to_blocks[s]
  <2> HIDE DEF r, tokens, c, n
  <2>1. /\ \E new : IsSeq(new) /\ m.req_to_blocks[r] = manager.req_to_blocks[r] \o new
        /\ \A s \in Request : s # r => m.req_to_blocks[s] = manager.req_to_blocks[s]
    BY <1>2, <1>3, <1>4, GrownTable, n \in Int
  <2> HIDE DEF m
  <2> QED BY <1>1, <2>1
<1> HIDE DEF e, m
<1>9. table = old \o e.blocks
  <2>1. PICK new : IsSeq(new) /\ table = old \o new
    BY <1>8
  <2> HIDE DEF table, old
  <2>2. SubSeq(old \o new, Len(old) + 1, Len(old \o new)) = new
    BY <1>5, <2>1, ConcatRest
  <2> QED BY <1>6, <2>1, <2>2
<1>10. JoinsBatch(r, e)
  BY <1>2, <1>3, <1>6, <1>7, <1>8 DEF JoinsBatch, IsBatchPart
<1> QED BY <1>2, <1>6, <1>9, <1>10

(***************************************************************************)
(* The tokens of the batch after r joined it.                              *)
(***************************************************************************)
LEMMA JoinedNum ==
    ASSUME NEW r, NEW e, JoinsBatch(r, e)
    PROVE  /\ Num(step'.scheduled, r) = e.num_scheduled_tokens /\ Num(step.scheduled, r) = 0
           /\ \A s : s # r => Num(step'.scheduled, s) = Num(step.scheduled, s)
           /\ \A k \in DOMAIN step'.scheduled :
                 \/ step'.scheduled[k] = e
                 \/ \E j \in DOMAIN step.scheduled : step.scheduled[j] = step'.scheduled[k]
           /\ \A s : InBatch(step'.scheduled, s) <=> (InBatch(step.scheduled, s) \/ s = r)
<1> DEFINE s == step.scheduled
           t == step'.scheduled
<1>1. /\ IsSeq(s) /\ e.id = r /\ t = Append(s, e)
      /\ \A i \in DOMAIN s : s[i].id # e.id
      /\ \A i, j \in DOMAIN s : s[i].id = s[j].id => i = j
  BY DEF JoinsBatch
<1> HIDE DEF s, t
<1>2. /\ Num(t, e.id) = e.num_scheduled_tokens /\ Num(s, e.id) = 0
      /\ \A x : x # e.id => Num(t, x) = Num(s, x)
      /\ \A k \in DOMAIN t : t[k] = e \/ \E j \in DOMAIN s : s[j] = t[k]
      /\ \A x : InBatch(t, x) <=> (InBatch(s, x) \/ x = e.id)
  BY <1>1, NumAppend
<1> QED BY <1>1, <1>2 DEF s, t

(***************************************************************************)
(* A running request gets its slots: its blocks hold its tokens when the   *)
(* batch is executed.                                                      *)
(***************************************************************************)
LEMMA RunningContent ==
    ASSUME IInv, Sound, OneAtATime, ContentNow, ScheduleRunning, Coming' = Coming
    PROVE  ContentNow'
<1> DEFINE r == step.request
           k == step.num_new_tokens
           q == requests
           U == Range(running)
           a == Ahead
           f == [s \in Request |-> requests[s].num_computed_tokens + Num(step'.scheduled, s)]
           m == manager
           B == Coming
           n == allocate_slots(m, r, q[r].tokens, q[r].num_computed_tokens, k, <<>>)
<1>1. /\ ManagerOK(m) /\ HasTokens(q) /\ Linked(m, q) /\ Fitting(U, q, a, m)
      /\ \A s \in Request : a[s] = q[s].num_computed_tokens + Num(step.scheduled, s)
      /\ \A s \in U : q[s].status = "RUNNING"
  BY SyncFitting
<1>2. Content(U, q, a, m, B)
  BY DEF ContentNow
<1>3. PICK e : /\ JoinsBatch(r, e) /\ r \in U /\ e.num_scheduled_tokens = k /\ k \in Nat
  BY RunningJoins
<1>4. r \in Request
  BY <1>3 DEF JoinsBatch
<1>5. \A s \in Request : f[s] = q[s].num_computed_tokens + Num(step'.scheduled, s)
  OBVIOUS
<1>6. /\ manager' = n /\ requests' = q /\ running' = running /\ r # NoRequest
      /\ CanAllocate(m, r, q[r].num_computed_tokens, k, <<>>)
  BY DEF ScheduleRunning, CanAllocateRunning, InnerLoop
<1>7. Ahead' = f
  BY <1>6 DEF Ahead
<1> HIDE DEF f, a, B, n
<1>8. U \subseteq Request
  BY DEF IInv, QueuesOK, Placed, Range
<1>9. q[r].num_computed_tokens \in Nat /\ a[r] = q[r].num_computed_tokens
  <2>1. q[r].num_computed_tokens \in Nat
    BY <1>1, <1>3 DEF Fitting
  <2>2. a[r] = q[r].num_computed_tokens + 0
    BY <1>1, <1>3, <1>4, JoinedNum
  <2> QED BY <2>1, <2>2
<1>10. \A s \in U : f[s] = IF s = r THEN a[s] + k ELSE a[s]
  <2> SUFFICES ASSUME NEW s \in U PROVE f[s] = IF s = r THEN a[s] + k ELSE a[s]
    OBVIOUS
  <2>1. s \in Request
    BY <1>8
  <2>2. CASE s = r
    BY <1>3, <1>4, <1>5, <1>9, <2>2, JoinedNum
  <2>3. CASE s # r
    BY <1>1, <1>3, <1>5, <2>1, <2>3, JoinedNum
  <2> QED BY <2>2, <2>3
<1>11. a[r] + k <= Len(q[r].tokens) /\ a[r] + k <= MaxModelLen
  <2> DEFINE c == q[r].num_computed_tokens
             l == Len(q[r].tokens)
             x == q[r].num_output_placeholders
  <2>1. Reaches(q[r], k)
    BY <1>6 DEF Sound, Entries, EntriesOf, Asking
  <2>2. x = 0
    <3>1. Counts(q[r], Slots(m, r))
      BY <1>4 DEF Sound, TokensCounted, CountsOf
    <3> QED BY <3>1 DEF Counts, OneAtATime
  <2>3. l \in Nat
    BY <1>1, <1>4 DEF HasTokens, IsSeq
  <2>4. c + k < MaxModelLen /\ c + k <= l + x
    BY <2>1 DEF Reaches
  <2>5. c \in Nat /\ a[r] = c
    BY <1>9
  <2> HIDE DEF c, l, x
  <2>6. a[r] + k <= l /\ a[r] + k <= MaxModelLen
    BY <1>3, <2>2, <2>3, <2>4, <2>5, SizesAssumption
  <2> QED BY <2>6 DEF l
<1>12. CanAllocate(m, r, a[r], k, <<>>)
  BY <1>6, <1>9
<1> HIDE DEF U, q, m
<1>13. Content(U, q, f, allocate_slots(m, r, q[r].tokens, a[r], k, <<>>), B)
  <2> HIDE DEF r, k
  <2> QED BY <1>1, <1>2, <1>3, <1>9, <1>10, <1>11, <1>12, AllocatedRunning
<1>14. Content(U, q, f, n, B)
  BY <1>9, <1>13 DEF n
<1> QED BY <1>6, <1>7, <1>14 DEF ContentNow, U, q, B

(***************************************************************************)
(* A waiting request joins the batch, with all its blocks, and the running *)
(* requests.                                                               *)
(***************************************************************************)
LEMMA WaitingJoins ==
    ASSUME IInv, Sound, Budget, ScheduleWaiting
    PROVE  LET r == Head(waiting)
               hits == get_computed_blocks(manager, requests[r].tokens)
               c == Len(hits) * BlockSize
           IN /\ r \notin Range(running)
              /\ manager.req_to_blocks[r] = <<>> /\ c \in Nat
              /\ \A s : s \in Range(running') <=> (s \in Range(running) \/ s = r)
              /\ \A s \in Request : s # r => requests'[s] = requests[s]
              /\ requests'[r].tokens = requests[r].tokens /\ requests'[r].num_computed_tokens = c
              /\ \E e : /\ JoinsBatch(r, e) /\ e.kind \in {"new", "resumed"}
                        /\ e.num_scheduled_tokens = Chunk(Len(requests[r].tokens) - c)
                        /\ e.blocks = manager'.req_to_blocks[r]
<1> DEFINE r == Head(waiting)
           tokens == requests[r].tokens
           hits == get_computed_blocks(manager, tokens)
           c == Len(hits) * BlockSize
           k == Chunk(Len(tokens) - c)
           m == allocate_slots(manager, r, tokens, c, k, hits)
           kind == IF requests[r].status = "WAITING" THEN "new" ELSE "resumed"
           e == Scheduled(r, kind, k, manager'.req_to_blocks[r])
<1>1. /\ manager' = m /\ running' = Append(running, r) /\ step.loop = "waiting"
      /\ requests' = [requests EXCEPT ![r].status = "RUNNING", ![r].num_computed_tokens = c]
      /\ step' = [step EXCEPT !.scheduled = Append(@, e), !.token_budget = @ - k]
  BY DEF ScheduleWaiting, CanAdmit
<1>2. /\ r \in Request /\ r \notin Range(running) /\ requests[r].status \in Queued
      /\ AreHits(hits, manager.pool, tokens) /\ IsSeq(tokens) /\ c \in Nat /\ k \in Nat
  <2>1. step.token_budget \in Nat
    BY DEF Budget, BudgetOf
  <2> QED BY <2>1, AdmitFacts
<1>3. /\ IsStep(step) /\ IsBatchPart(step.scheduled)
      /\ \A i \in DOMAIN step.scheduled : step.scheduled[i].id # r
  BY <1>2, BatchPart
<1>4. manager.req_to_blocks[r] = <<>>
  BY <1>2 DEF Queued, IInv, BlocksOK, Held
<1> HIDE DEF c, k
<1>5. \A s \in Request : s # r => manager'.req_to_blocks[s] = manager.req_to_blocks[s]
  <2>1. hits \in Seq(RealBlock) /\ IsInjective(hits)
    BY <1>2 DEF AreHits
  <2>2. ManagerOK(manager) /\ tokens \in Seq(Range(tokens))
    BY <1>2, Basics DEF IsSeq, Range
  <2>3. c \in Int /\ k \in Int
    BY <1>2
  <2> HIDE DEF hits, r, tokens
  <2>4. \A s \in Request : s # r => m.req_to_blocks[s] = manager.req_to_blocks[s]
    BY <1>2, <1>4, <2>1, <2>2, <2>3, AllocateSlotsOK
  <2> HIDE DEF m
  <2> QED BY <1>1, <2>4
<1> HIDE DEF m
<1>6. e.id = r /\ e.kind \in {"new", "resumed"} /\ e.num_scheduled_tokens = k
      /\ e.blocks = manager'.req_to_blocks[r]
  BY DEF Scheduled
<1>7. step'.scheduled = Append(step.scheduled, e)
  <2> HIDE DEF e
  <2> QED BY <1>1, <1>3 DEF IsStep
<1> HIDE DEF e
<1>8. JoinsBatch(r, e)
  BY <1>2, <1>3, <1>5, <1>6, <1>7 DEF JoinsBatch, IsBatchPart
<1>9. /\ \A s \in Request : s # r => requests'[s] = requests[s]
      /\ requests'[r].tokens = requests[r].tokens /\ requests'[r].num_computed_tokens = c
  <2> HIDE DEF r
  <2> QED BY <1>1, <1>2, Basics DEF IsRequest
<1>10. \A s : s \in Range(running') <=> (s \in Range(running) \/ s = r)
  <2>1. running \in Seq(Request) /\ IsSeq(running)
    BY SeqIs DEF IInv, QueuesOK, Placed
  <2>2. /\ DOMAIN running' = DOMAIN running \cup {Len(running) + 1} /\ running'[Len(running) + 1] = r
        /\ \A i \in DOMAIN running : running'[i] = running[i]
    BY <1>1, <2>1, SeqAppend
  <2> HIDE DEF r
  <2> QED BY <2>2 DEF Range
<1> QED BY <1>2, <1>4, <1>6, <1>8, <1>9, <1>10 DEF c, k

(***************************************************************************)
(* A waiting request is admitted: its hits hold its tokens, and its blocks *)
(* will when the batch is executed.                                        *)
(***************************************************************************)
LEMMA WaitingContent ==
    ASSUME IInv, Sound, Budget, OneAtATime, ContentNow, ScheduleWaiting, Coming' = Coming
    PROVE  ContentNow'
<1> DEFINE r == Head(waiting)
           q == requests
           p == requests'
           tokens == q[r].tokens
           hits == get_computed_blocks(manager, tokens)
           c == Len(hits) * BlockSize
           k == Chunk(Len(tokens) - c)
           U == Range(running)
           a == Ahead
           f == [s \in Request |-> requests'[s].num_computed_tokens + Num(step'.scheduled, s)]
           m == manager
           B == Coming
           n == allocate_slots(m, r, tokens, c, k, hits)
<1>1. /\ ManagerOK(m) /\ HasTokens(q) /\ Linked(m, q) /\ Fitting(U, q, a, m)
      /\ \A s \in Request : a[s] = q[s].num_computed_tokens + Num(step.scheduled, s)
  BY SyncFitting
<1>2. Content(U, q, a, m, B)
  BY DEF ContentNow
<1>3. /\ manager' = n /\ CanAllocate(m, r, c, k, hits)
  BY DEF ScheduleWaiting, CanAdmit
<1>4. /\ r \in Request /\ r \notin U /\ AreHits(hits, m.pool, tokens) /\ IsSeq(tokens)
      /\ c \in Nat /\ k \in Nat /\ c + k <= Len(tokens) /\ Len(tokens) < MaxModelLen
  <2>1. step.token_budget \in Nat
    BY DEF Budget, BudgetOf
  <2> QED BY <2>1, AdmitFacts
<1>5. /\ m.req_to_blocks[r] = <<>>
      /\ \A s : s \in Range(running') <=> (s \in U \/ s = r)
      /\ \A s \in Request : s # r => p[s] = q[s]
      /\ p[r].tokens = tokens /\ p[r].num_computed_tokens = c
      /\ \E e : JoinsBatch(r, e) /\ e.num_scheduled_tokens = k
  <2>1. /\ manager.req_to_blocks[r] = <<>>
        /\ \A s : s \in Range(running') <=> (s \in Range(running) \/ s = r)
        /\ \A s \in Request : s # r => requests'[s] = requests[s]
        /\ requests'[r].tokens = requests[r].tokens /\ requests'[r].num_computed_tokens = c
        /\ \E e : /\ JoinsBatch(r, e) /\ e.kind \in {"new", "resumed"}
                  /\ e.num_scheduled_tokens = Chunk(Len(requests[r].tokens) - c)
                  /\ e.blocks = manager'.req_to_blocks[r]
    BY WaitingJoins
  <2> HIDE DEF r, c
  <2> QED BY <2>1
<1>6. PICK e : JoinsBatch(r, e) /\ e.num_scheduled_tokens = k
  BY <1>5
<1>7. \A s \in Request : f[s] = p[s].num_computed_tokens + Num(step'.scheduled, s)
  OBVIOUS
<1>8. Ahead' = f
  BY DEF Ahead
<1> HIDE DEF f, a, B, n, k, c, hits
<1>9. U \subseteq Request
  BY DEF IInv, QueuesOK, Placed, Range
<1>10. \A s \in Request : p[s].tokens = q[s].tokens
  BY <1>5
<1>11. f[r] = c + k
  BY <1>4, <1>5, <1>6, <1>7, JoinedNum
<1>12. SameBut(U, q, a, p, f, r)
  <2> SUFFICES ASSUME NEW s \in U, s # r
               PROVE  /\ p[s].num_computed_tokens = q[s].num_computed_tokens
                      /\ p[s].tokens = q[s].tokens /\ f[s] = a[s]
    BY DEF SameBut
  <2>1. s \in Request /\ p[s] = q[s]
    BY <1>5, <1>9
  <2>2. Num(step'.scheduled, s) = Num(step.scheduled, s)
    BY <1>6, JoinedNum
  <2> QED BY <1>1, <1>7, <2>1, <2>2
<1>13. c + k <= MaxModelLen
  <2> DEFINE l == Len(tokens)
  <2>1. l \in Nat /\ c + k <= l /\ l < MaxModelLen
    BY <1>4 DEF IsSeq
  <2> HIDE DEF l
  <2> QED BY <1>4, <2>1, SizesAssumption
<1> HIDE DEF U, q, m, p
<1>14. Content(U \cup {r}, p, f, allocate_slots(m, r, q[r].tokens, Len(hits) * BlockSize, k, hits), B)
  <2>1. /\ c + k <= Len(q[r].tokens) /\ CanAllocate(m, r, c, k, hits) /\ p[r].num_computed_tokens = c
        /\ AreHits(hits, m.pool, q[r].tokens)
    BY <1>3, <1>4, <1>5
  <2>2. c = Len(hits) * BlockSize
    BY DEF c
  <2> HIDE DEF r
  <2> QED BY <1>1, <1>2, <1>4, <1>5, <1>10, <1>11, <1>12, <1>13, <2>1, <2>2, AllocatedWaiting
<1>15. Content(U \cup {r}, p, f, n, B)
  BY <1>14 DEF n, c
<1>16. Range(running') = U \cup {r}
  BY <1>5
<1> HIDE DEF r
<1> QED BY <1>3, <1>8, <1>15, <1>16 DEF ContentNow, p, B

(***************************************************************************)
(* The worker's tokens, all of them known, as what it feeds the model.     *)
(***************************************************************************)
LEMMA InputSlice ==
    ASSUME NEW out, NEW e, NEW t, IsSeq(t), UpdatedState(out, e).tokens = t,
           UpdatedState(out, e).unsynced = {}, SeqLen(e) \in Nat, SeqLen(e) <= Len(t)
    PROVE  InputTokens(out, e) = SubSeq(t, 1, SeqLen(e))
<1> DEFINE state == UpdatedState(out, e)
           n == SeqLen(e)
           T == Range(t)
           has(p) == /\ p <= Len(state.tokens)
                     /\ \/ p \notin state.unsynced
                        \/ p <= e.num_computed_tokens
                        \/ p = n /\ e.id \in StillInBatch(out)
           x == InputTokens(out, e)
           y == SubSeq(t, 1, n)
<1>1. x = [p \in 1 .. n |-> IF has(p) THEN state.tokens[p] ELSE <<p, "unset">>]
  BY DEF InputTokens
<1>2. t \in Seq(T) /\ Len(t) \in Nat
  BY DEF IsSeq
<1>3. state.tokens = t /\ state.unsynced = {}
  OBVIOUS
<1> HIDE DEF state, T, x, n
<1>4. \A p \in 1 .. n : has(p)
  BY <1>2, <1>3 DEF n
<1> HIDE DEF has
<1>5. x = [p \in 1 .. n |-> t[p]]
  BY <1>1, <1>3, <1>4
<1>6. n \in Nat /\ n <= Len(t)
  BY DEF n
<1>7. y \in Seq(T) /\ Len(y) = n /\ \A p \in 1 .. n : y[p] = t[p]
  BY <1>2, <1>6
<1> HIDE DEF y
<1>8. y = [p \in 1 .. n |-> t[p]]
  BY <1>6, <1>7
<1> QED BY <1>5, <1>8 DEF x, y, n

(***************************************************************************)
(* _update_states: the block table of a request.                           *)
(***************************************************************************)
LEMMA UpdatedBlocks ==
    ASSUME NEW out, NEW e, e.id \notin out.finished_req_ids
    PROVE  UpdatedState(out, e).blocks = TableOf(e, runner_requests[e.id])
<1> DEFINE w == runner_requests[e.id]
           blocks == IF e.kind = "resumed" THEN e.blocks ELSE w.blocks \o e.blocks
<1>1. CASE e.kind = "new"
  BY <1>1 DEF UpdatedState, NewState, TableOf
<1>2. CASE e.kind # "new"
  <2>1. PICK y, z : CachedState(out, e) = [tokens |-> y, blocks |-> blocks, unsynced |-> z]
    BY DEF CachedState
  <2> HIDE DEF blocks
  <2>2. UpdatedState(out, e).blocks = blocks
    BY <1>2, <2>1 DEF UpdatedState
  <2> QED BY <1>2, <2>2 DEF TableOf, blocks
<1> QED BY <1>1, <1>2

\* out is what is submitted of the batch that is made.
SubmittedAs(out) ==
    /\ DOMAIN batch_queue' = {1} /\ batch_queue'[1].out = out
    /\ ~batch_queue'[1].done /\ batch_queue'[1].reads_ok
    /\ DOMAIN out.reqs = DOMAIN step.scheduled /\ out.finished_req_ids = finished_req_ids
    /\ \A j \in DOMAIN step.scheduled : out.reqs[j] = OutputOf(step.scheduled[j])

(***************************************************************************)
(* The end of schedule(): the batch becomes the one in flight.             *)
(***************************************************************************)
LEMMA SubmitFacts ==
    ASSUME IInv, QueueFits, OneAtATime, Submit
    PROVE  /\ \E out : SubmittedAs(out)
           /\ batch_queue = <<>> /\ DOMAIN batch_queue = {} /\ batch_queue' # <<>>
           /\ running' = running /\ step' = NoStep /\ UNCHANGED runnerVars
           /\ manager'.req_to_blocks = manager.req_to_blocks
           /\ manager'.num_cached_block = manager.num_cached_block
           /\ manager'.pool.block_hash = manager.pool.block_hash
<1> DEFINE batch == [out |-> SchedulerOutput, done |-> FALSE, sampled |-> <<>>, reads_ok |-> TRUE]
<1>1. /\ phase = "schedule" /\ batch_queue' = Append(batch_queue, batch)
      /\ step' = NoStep /\ running' = running /\ UNCHANGED runnerVars
      /\ manager' = manager \/ manager' = [manager EXCEPT !.pool = Fail(@, "schedule: AssertionError")]
  BY DEF Submit, schedule_end
<1>2. /\ DOMAIN batch.out.reqs = DOMAIN step.scheduled
      /\ \A j \in DOMAIN step.scheduled : batch.out.reqs[j] = OutputOf(step.scheduled[j])
      /\ ~batch.done /\ batch.out.finished_req_ids = finished_req_ids /\ batch.reads_ok
  BY DEF SchedulerOutput
<1> HIDE DEF batch
<1>3. batch_queue = <<>> /\ DOMAIN batch_queue = {}
  BY <1>1, NoBatchBefore
<1>4. DOMAIN batch_queue' = {1} /\ batch_queue'[1] = batch /\ batch_queue' # <<>>
  <2>1. batch_queue' = Append(<<>>, batch)
    BY <1>1, <1>3
  <2> QED BY <2>1
<1>5. SubmittedAs(batch.out)
  BY <1>2, <1>4 DEF SubmittedAs
<1>6. /\ manager'.req_to_blocks = manager.req_to_blocks
      /\ manager'.num_cached_block = manager.num_cached_block
      /\ manager'.pool.block_hash = manager.pool.block_hash
  <2>1. IsManager(manager) /\ IsPool(manager.pool)
    BY Basics DEF ManagerOK, IsManager
  <2> QED BY <1>1, <2>1 DEF IsManager, IsPool, Fail
<1> QED BY <1>1, <1>3, <1>4, <1>5, <1>6

(***************************************************************************)
(* The batch that is submitted speaks of its requests as they are, and the *)
(* worker will have their tokens and their blocks.                         *)
(***************************************************************************)
LEMMA SubmitBatch ==
    ASSUME IInv, Sound, QueueFits, OneAtATime, SyncInv, SameTables, Submit, NEW out, SubmittedAs(out)
    PROVE  BatchOf(out, Range(running), requests, Ahead, manager)
<1> DEFINE s == step.scheduled
           U == Range(running)
           q == requests
           a == Ahead
           m == manager
<1>1. /\ DOMAIN batch_queue' = {1} /\ batch_queue'[1].out = out /\ ~batch_queue'[1].done
      /\ DOMAIN out.reqs = DOMAIN s /\ \A j \in DOMAIN s : out.reqs[j] = OutputOf(s[j])
  BY DEF SubmittedAs
<1>2. /\ \A r \in U : a[r] <= MaxModelLen
      /\ \A r \in Request : a[r] = q[r].num_computed_tokens + Num(s, r)
      /\ Sized(U, q, a, m)
  BY SyncFitting
<1>3. \A j \in DOMAIN s : out.reqs[j].id = s[j].id
  BY <1>1, OutputFields
<1>4. /\ \A i, j \in DOMAIN s : s[i].id = s[j].id => i = j
      /\ \A j \in DOMAIN s : s[j].id \in U
      /\ \A j \in DOMAIN s : s[j].id \in Request
      /\ \A j \in DOMAIN s : s[j].num_scheduled_tokens \in Nat
  BY BatchPart DEF IsBatchPart
<1>5. ASSUME NEW r \in U, \A k \in DOMAIN out.reqs : out.reqs[k].id # r
      PROVE  a[r] = q[r].num_computed_tokens
  <2>1. ~InBatch(s, r)
    BY <1>1, <1>3, <1>5 DEF InBatch
  <2>2. Num(s, r) = 0
    BY <1>4, <2>1, NumFacts
  <2>3. r \in Request /\ q[r].num_computed_tokens \in Nat
    BY <1>2 DEF Sized, SizedFor
  <2> QED BY <1>2, <2>2, <2>3
<1>6. AllInStep' /\ runner_requests' = runner_requests
  BY SubmitInStep DEF Submit, runnerVars
<1>7. ~AsyncScheduling /\ Synced
  BY DEF OneAtATime, SyncInv
<1>8. ASSUME NEW j \in DOMAIN s PROVE EntryFits(out, j, U, q, a, m)
  <2> DEFINE x == s[j]
             e == out.reqs[j]
             r == x.id
             n == x.num_scheduled_tokens
             c == q[r].num_computed_tokens
             w == runner_requests[r]
             tokens == q[r].tokens
  <2>1. r \in Request /\ r \in U /\ n \in Nat
    BY <1>4
  <2>2. /\ q[r].status = "RUNNING" /\ q'[r] = AfterSchedule(r, n) /\ IsRequest(q[r])
    BY <2>1, SubmitRequests, Basics
  <2>3. q'[r].status = "RUNNING" /\ q'[r].tokens = tokens
    <3> HIDE DEF r, n
    <3> QED BY <1>7, <2>1, <2>2, SyncSchedule
  <2>4. /\ e.num_computed_tokens = c /\ e.num_scheduled_tokens = n
        /\ e.id = r /\ e.kind = x.kind /\ e.blocks = x.blocks
    <3> HIDE DEF x, s
    <3>1. e = OutputOf(x)
      BY <1>1 DEF x
    <3> HIDE DEF e
    <3> QED BY <3>1, OutputFields DEF r, n, q
  <2>5. SeqLen(e) = a[r] /\ a[r] \in Nat /\ a[r] <= Len(tokens) /\ IsSeq(tokens)
    <3>1. Num(s, r) = n
      BY <1>4, NumFacts
    <3>2. a[r] = c + n
      BY <1>2, <2>1, <3>1
    <3>3. a[r] \in Nat /\ a[r] <= Len(tokens) /\ IsSeq(tokens)
      BY <1>2, <2>1 DEF Sized, SizedFor
    <3>4. SeqLen(e) = c + n
      BY <2>4 DEF SeqLen
    <3> QED BY <3>2, <3>3, <3>4
  <2>6. InStepAt(r, batch_queue', q'[r], w, finished_req_ids', Started(q', step', r))
    BY <1>6, <2>1 DEF AllInStep
  <2>7. r \notin out.finished_req_ids /\ InStep(batch_queue'[1], j, q'[r], w)
    BY <1>1, <1>3, <2>3, <2>6 DEF InStepAt, Alive
  <2>8. IF e.kind = "new" THEN tokens = PromptTokens(r) ELSE w.tokens = tokens /\ Base(e) = Len(tokens)
    BY <1>1, <2>3, <2>4, <2>7 DEF InStep
  <2> HIDE DEF e, r, w, tokens
  <2>9. UpdatedState(out, e).tokens = tokens /\ UpdatedState(out, e).unsynced = {}
    <3>1. /\ e.id \in Request /\ e.id \notin out.finished_req_ids
          /\ IF e.kind = "new" THEN tokens = PromptTokens(e.id)
             ELSE runner_requests[e.id].tokens = tokens /\ Base(e) = Len(tokens)
      BY <2>1, <2>4, <2>7, <2>8 DEF w
    <3> QED BY <1>7, <2>5, <3>1, SyncUpdated
  <2>10. InputTokens(out, e) = SubSeq(tokens, 1, a[r])
    BY <2>5, <2>9, InputSlice
  <2>11. UpdatedState(out, e).blocks = m.req_to_blocks[r]
    <3>1. UpdatedState(out, e).blocks = TableOf(e, w)
      BY <2>4, <2>7, UpdatedBlocks DEF w
    <3>2. TableOf(e, w) = TableOf(x, w)
      BY <2>4 DEF TableOf
    <3>3. TableOf(x, w) = m.req_to_blocks[r]
      BY <2>1 DEF SameTables, SameTable, r, w
    <3> QED BY <3>1, <3>2, <3>3
  <2> HIDE DEF x, n, U, q, a, m
  <2> QED BY <2>1, <2>4, <2>5, <2>10, <2>11 DEF EntryFits, e, c, tokens
<1>9. \A k, l \in DOMAIN out.reqs : out.reqs[k].id = out.reqs[l].id => k = l
  BY <1>1, <1>3, <1>4
<1> HIDE DEF s, U, q, a, m
<1> QED BY <1>1, <1>2, <1>5, <1>8, <1>9 DEF BatchOf, U, q, a, m

(***************************************************************************)
(* The end of schedule(): what the blocks are to hold is now what they     *)
(* will hold when the batch is executed.                                   *)
(***************************************************************************)
LEMMA SubmitContent ==
    ASSUME IInv, Sound, QueueFits, OneAtATime, SyncInv, ContentNow, SameTables, Submit
    PROVE  ContentNow' /\ Promised'
<1> DEFINE s == step.scheduled
           U == Range(running)
           q == requests
           p == requests'
           a == Ahead
           f == [r \in Request |-> requests'[r].num_computed_tokens + Num(step'.scheduled, r)]
           m == manager
           n == manager'
<1>1. PICK out : SubmittedAs(out)
  BY SubmitFacts
<1>2. /\ batch_queue = <<>> /\ batch_queue' # <<>>
      /\ running' = running /\ step' = NoStep /\ UNCHANGED runnerVars
      /\ n.req_to_blocks = m.req_to_blocks /\ n.num_cached_block = m.num_cached_block
      /\ n.pool.block_hash = m.pool.block_hash
  BY SubmitFacts
<1>3. /\ DOMAIN batch_queue' = {1} /\ batch_queue'[1].out = out
      /\ ~batch_queue'[1].done /\ batch_queue'[1].reads_ok
  BY <1>1 DEF SubmittedAs
<1>4. Coming = kv_cache
  BY <1>2 DEF Coming
<1>5. /\ \A o : AfterForward(o)' = AfterForward(o)
      /\ \A o : ReadsOwnPrefix(o)' = ReadsOwnPrefix(o)
  BY <1>2, RunnerSame
<1>6. Coming' = AfterForward(out)
  <2>1. AfterForward(batch_queue[1].out)' = AfterForward(out)
    BY <1>3, <1>5
  <2> QED BY <1>2, <1>3, <2>1 DEF Coming
<1>7. /\ Sized(U, q, a, m)
      /\ \A r \in Request : a[r] = q[r].num_computed_tokens + Num(s, r)
  BY SyncFitting
<1>8. BatchOf(out, U, q, a, m)
  BY <1>1, SubmitBatch
<1>9. Content(U, q, a, m, kv_cache)
  BY <1>4 DEF ContentNow
<1>10. Ahead' = f
  BY DEF Ahead
<1>11. \A r \in Request : f[r] = p[r].num_computed_tokens + Num(step'.scheduled, r)
  OBVIOUS
<1> HIDE DEF f, a
<1>12. Submitted(U, q, a, m, p, f, n)
  <2> SUFFICES ASSUME NEW r \in U
               PROVE  p[r].num_computed_tokens = a[r] /\ p[r].tokens = q[r].tokens /\ f[r] = a[r]
    BY <1>2 DEF Submitted
  <2>1. r \in Request /\ q[r].num_computed_tokens \in Nat /\ a[r] \in Nat
    BY <1>7 DEF Sized, SizedFor
  <2>2. /\ \A i, j \in DOMAIN s : s[i].id = s[j].id => i = j
        /\ \A j \in DOMAIN s : s[j].num_scheduled_tokens \in Nat
    BY BatchPart DEF IsBatchPart
  <2>3. p[r].num_computed_tokens = a[r] /\ p[r].tokens = q[r].tokens
    <3>1. CASE InBatch(s, r)
      <4>1. PICK j \in DOMAIN s : s[j].id = r
        BY <3>1 DEF InBatch
      <4> DEFINE k == s[j].num_scheduled_tokens
      <4>2. p[r] = AfterSchedule(r, k)
        BY <4>1, SubmitRequests
      <4>3. k \in Nat /\ IsRequest(q[r]) /\ ~AsyncScheduling
        BY <2>1, <2>2, Basics DEF OneAtATime
      <4>4. Num(s, r) = k
        BY <2>2, <4>1, NumFacts
      <4> HIDE DEF k
      <4>5. p[r].tokens = q[r].tokens /\ p[r].num_computed_tokens = q[r].num_computed_tokens + k
        BY <2>1, <4>2, <4>3, SyncSchedule
      <4> QED BY <1>7, <2>1, <4>4, <4>5
    <3>2. CASE ~InBatch(s, r)
      <4>1. p[r] = q[r]
        BY <2>1, <3>2, SubmitRequests DEF InBatch
      <4>2. Num(s, r) = 0
        BY <2>2, <3>2, NumFacts
      <4>3. a[r] = q[r].num_computed_tokens
        BY <1>7, <2>1, <4>2
      <4> QED BY <4>1, <4>3
    <3> QED BY <3>1, <3>2
  <2>4. Num(step'.scheduled, r) = 0
    <3>1. step'.scheduled = <<>>
      BY <1>2 DEF NoStep
    <3> QED BY <3>1 DEF Num, InBatch
  <2>5. f[r] = a[r]
    BY <1>11, <2>1, <2>3, <2>4
  <2> QED BY <2>3, <2>5
<1> HIDE DEF s, U, q, p, m, n
<1>13. Content(U, p, f, n, AfterForward(out))
  BY <1>7, <1>8, <1>9, <1>12, ForwardContent
<1>14. ReadsOwnPrefix(out)
  BY <1>7, <1>8, <1>9, ForwardReads
<1>15. ContentNow'
  BY <1>2, <1>6, <1>10, <1>13 DEF ContentNow, U, p, n
<1>16. Promised'
  <2> SUFFICES ASSUME NEW i \in DOMAIN batch_queue'
               PROVE  /\ batch_queue'[i].reads_ok
                      /\ ReadsOwnPrefix(batch_queue[i].out)'
    BY DEF Promised
  <2>1. i = 1
    BY <1>3
  <2>2. ReadsOwnPrefix(batch_queue[1].out)'
    BY <1>3, <1>5, <1>14
  <2> QED BY <1>3, <2>1, <2>2
<1> QED BY <1>15, <1>16

(***************************************************************************)
(* The end of schedule(): the batch has the block tables that were made.   *)
(***************************************************************************)
LEMMA SubmitTables ==
    ASSUME IInv, Sound, QueueFits, OneAtATime, SameTables, Submit
    PROVE  SameTables'
<1> DEFINE s == step.scheduled
<1>1. PICK out : SubmittedAs(out)
  BY SubmitFacts
<1>2. /\ DOMAIN batch_queue = {} /\ running' = running /\ step' = NoStep
      /\ runner_requests' = runner_requests
      /\ manager'.req_to_blocks = manager.req_to_blocks
  BY SubmitFacts DEF runnerVars
<1>3. /\ DOMAIN batch_queue' = {1} /\ batch_queue'[1].out = out /\ ~batch_queue'[1].done
      /\ DOMAIN out.reqs = DOMAIN s /\ \A j \in DOMAIN s : out.reqs[j] = OutputOf(s[j])
  BY <1>1 DEF SubmittedAs
<1>4. step'.scheduled = <<>>
  BY <1>2 DEF NoStep
<1>5. ASSUME NEW r \in Range(running)
      PROVE  SameTable(r, <<>>, batch_queue', runner_requests[r], manager.req_to_blocks[r])
  <2> DEFINE w == runner_requests[r]
             table == manager.req_to_blocks[r]
  <2>1. /\ \A k \in DOMAIN s : s[k].id = r => TableOf(s[k], w) = table
        /\ ~InBatch(s, r) => w.blocks = table
    BY <1>2 DEF SameTables, SameTable
  <2> HIDE DEF w, table
  <2>2. ASSUME NEW k \in DOMAIN out.reqs, out.reqs[k].id = r
        PROVE  TableOf(out.reqs[k], w) = table
    <3> DEFINE x == s[k]
               e == out.reqs[k]
    <3>1. e = OutputOf(x)
      BY <1>3
    <3> HIDE DEF x, e
    <3>2. e.id = x.id /\ e.kind = x.kind /\ e.blocks = x.blocks
      BY <3>1, OutputFields
    <3>3. TableOf(x, w) = table
      BY <1>3, <2>1, <2>2, <3>2 DEF x, e
    <3>4. TableOf(e, w) = table
      BY <3>2, <3>3 DEF TableOf
    <3> QED BY <3>4 DEF e
  <2>3. (~Has(batch_queue'[1], r)) => w.blocks = table
    <3>1. \A k \in DOMAIN s : out.reqs[k].id = s[k].id
      BY <1>3, OutputFields
    <3> QED BY <1>3, <2>1, <3>1 DEF InBatch, Has
  <2> QED BY <1>3, <2>2, <2>3 DEF SameTable, w, table
<1> QED BY <1>2, <1>4, <1>5 DEF SameTables

(***************************************************************************)
(* update_from_output for one request: its tokens grow, or it stops.       *)
(***************************************************************************)
LEMMA OutputKept ==
    ASSUME IInv, Sound, OneAtATime, phase # "schedule", NEW r \in Request, NEW t, IsSeq(t),
           update_request(r, t)
    PROVE  AllKept
<1> DEFINE q == requests[r]
           p == requests'[r]
<1>1. DOMAIN requests = Request /\ IsRequest(q) /\ IsSeq(q.tokens)
  BY Basics DEF IsRequest
<1>2. step' = step /\ \A s \in Request : s # r => requests'[s] = requests[s]
  BY SyncOutput DEF OneAtATime
<1>3. running \in Seq(Request) /\ (r \in Range(running) <=> q.status = "RUNNING")
  BY DEF IInv, QueuesOK, Placed
<1>4. \A s \in Range(running) : s \in Request
  BY <1>3 DEF Range
<1>5. \A s : Num(step'.scheduled, s) = Num(step.scheduled, s) /\ EntriesKept(s)
  BY <1>2, SameScheduled
<1>6. ASSUME running' = running, manager' = manager,
             p.num_computed_tokens = q.num_computed_tokens,
             \/ p.tokens = q.tokens
             \/ \E u : IsSeq(u) /\ p.tokens = q.tokens \o u
      PROVE  AllKept
  <2>1. \A s \in Range(running) : KeptFor(s)
    BY <1>2, <1>4, <1>5, <1>6 DEF KeptFor
  <2> QED BY <1>5, <1>6, <2>1 DEF AllKept, Kept
<1>7. CASE IgnoreOutput(r, t)
  <2>1. PICK d : requests' = [requests EXCEPT ![r].discard_latest_async_tokens = d]
    BY <1>7 DEF IgnoreOutput
  <2>2. p = [q EXCEPT !.discard_latest_async_tokens = d]
    BY <1>1, <2>1
  <2>3. running' = running /\ manager' = manager
    BY <1>7 DEF IgnoreOutput
  <2> HIDE DEF q, p
  <2>4. p.tokens = q.tokens /\ p.num_computed_tokens = q.num_computed_tokens
    BY <1>1, <2>2 DEF IsRequest
  <2> QED BY <1>6, <2>3, <2>4
<1>8. CASE ApplyOutput(r, t)
  <2> DEFINE new == q.tokens \o t
             stopped == check_stop(r, new)
             x == q.num_output_placeholders - (IF AsyncScheduling THEN 1 ELSE 0)
             status == IF stopped THEN "FINISHED" ELSE q.status
  <2>1. x >= 0
    <3>1. Counts(q, Slots(manager, r)) /\ ~AsyncScheduling
      BY DEF OneAtATime, Sound, TokensCounted, CountsOf
    <3>2. q.num_output_placeholders \in Nat
      BY <3>1 DEF Counts
    <3> DEFINE y == q.num_output_placeholders
    <3> HIDE DEF q
    <3> QED BY <3>1, <3>2
  <2>2. CachedWithOutput(r, new, x) = manager
    BY DEF CachedWithOutput, OneAtATime
  <2>3. /\ requests' = [requests EXCEPT ![r].tokens = new, ![r].num_output_placeholders = x,
                                        ![r].status = status]
        /\ manager' = IF stopped THEN free(manager, r) ELSE manager
        /\ IF stopped THEN RemoveStopped(r) ELSE UNCHANGED <<running, waiting>>
    BY <1>8, <2>1, <2>2 DEF ApplyOutput
  <2>4. CASE stopped
    <3>1. manager' = free(manager, r) /\ RemoveStopped(r)
      BY <2>3, <2>4
    <3>2. \A s : s \in Range(running') <=> (s \in Range(running) /\ s # r)
      <4>1. \A s : s \in Range(Without(running, r)) <=> (s \in Range(running) /\ s # r)
        BY <1>3, WithoutFacts
      <4>2. running' = IF q.status = "RUNNING" THEN Without(running, r) ELSE running
        BY <3>1 DEF RemoveStopped
      <4> QED BY <1>3, <4>1, <4>2
    <3>3. Num(step.scheduled, r) = 0
      BY NoneScheduled
    <3> HIDE DEF q, p, stopped
    <3> QED BY <1>2, <1>4, <1>5, <3>1, <3>2, <3>3, OneLeaves
  <2>5. CASE ~stopped
    <3>1. running' = running /\ manager' = manager
      BY <2>3, <2>5
    <3> HIDE DEF new, x, stopped, status
    <3>2. p = [q EXCEPT !.tokens = new, !.num_output_placeholders = x, !.status = status]
      BY <1>1, <2>3
    <3> HIDE DEF q, p
    <3>3. p.tokens = new /\ p.num_computed_tokens = q.num_computed_tokens
      BY <1>1, <3>2 DEF IsRequest
    <3>4. p.tokens = q.tokens \o t
      BY <3>3 DEF new
    <3> QED BY <1>6, <3>1, <3>3, <3>4
  <2> QED BY <2>4, <2>5
<1> QED BY <1>7, <1>8 DEF update_request

(***************************************************************************)
(* The block tables, when none is about to change.                         *)
(***************************************************************************)
LEMMA CarryTables ==
    ASSUME AllKept, SameTables, runner_requests' = runner_requests,
           \/ batch_queue' = batch_queue
           \/ /\ \A i \in DOMAIN batch_queue : batch_queue[i].done
              /\ \A i \in DOMAIN batch_queue' : batch_queue'[i].done
    PROVE  SameTables'
<1> SUFFICES ASSUME NEW r \in Range(running')
             PROVE  SameTable(r, step'.scheduled, batch_queue', runner_requests[r], manager'.req_to_blocks[r])
  BY DEF SameTables
<1>1. /\ r \in Range(running) /\ manager'.req_to_blocks[r] = manager.req_to_blocks[r]
      /\ EntriesKept(r)
  BY DEF AllKept, Kept, KeptFor
<1> DEFINE w == runner_requests[r]
           table == manager.req_to_blocks[r]
<1>2. SameTable(r, step.scheduled, batch_queue, w, table)
  BY <1>1 DEF SameTables
<1> HIDE DEF w, table
<1>3. SameTable(r, step'.scheduled, batch_queue, w, table)
  BY <1>1, <1>2 DEF SameTable, EntriesKept
<1>4. SameTable(r, step'.scheduled, batch_queue', w, table)
  BY <1>3 DEF SameTable
<1> QED BY <1>1, <1>4 DEF w, table

(***************************************************************************)
(* update_from_output.                                                     *)
(***************************************************************************)
LEMMA UpdateContent ==
    ASSUME IInv, Sound, QueueFits, OneAtATime, SyncInv, ContentNow, SameTables, Promised, UpdateRequest
    PROVE  ContentNow' /\ SameTables' /\ Promised'
<1> DEFINE b == batch_queue[1]
           r == b.out.reqs[1].id
           t == b.sampled[1]
           c == batch_queue'[1]
<1>1. /\ phase \in {"output", "update"} /\ b.done /\ b.out.reqs # <<>>
      /\ update_request(r, t)
      /\ batch_queue' = [batch_queue EXCEPT ![1].out.reqs = Tail(@), ![1].sampled = Tail(@)]
      /\ runner_requests' = runner_requests /\ kv_cache' = kv_cache
  BY DEF UpdateRequest, runnerVars
<1>2. /\ IsSeq(batch_queue) /\ batch_queue # <<>> /\ \A i \in DOMAIN batch_queue : IsBatch(batch_queue[i])
      /\ DOMAIN batch_queue \subseteq {1}
  BY <1>1, NoBatchBefore DEF IInv, BatchesOK
<1>3. DOMAIN batch_queue = {1} /\ IsBatch(b) /\ OneToken(b)
  <2>1. 1 \in DOMAIN batch_queue
    BY <1>2, SeqTail
  <2> QED BY <1>1, <1>2, <2>1 DEF Sound, OneEach
<1>4. DOMAIN batch_queue' = {1} /\ HeadLeft(b, c)
  BY <1>1, <1>3 DEF HeadLeft
<1>5. \A k, l \in DOMAIN b.out.reqs : b.out.reqs[k].id = b.out.reqs[l].id => k = l
  BY <1>3 DEF SyncInv, EachOnce
<1> HIDE DEF c
<1>6. c.done /\ 1 \in DOMAIN b.out.reqs /\ 1 \in DOMAIN b.sampled
  <2> HIDE DEF b
  <2>1. b.done /\ b.out.reqs # <<>> /\ IsBatch(b) /\ HeadLeft(b, c)
    BY <1>1, <1>3, <1>4
  <2> QED BY <1>5, <2>1, HeadInStep
<1>7. c.reads_ok = b.reads_ok
  <2> HIDE DEF b
  <2> QED BY <1>3, <1>4 DEF HeadLeft, IsBatch
<1>8. r \in Request /\ IsSeq(t)
  BY <1>1, <1>3, <1>6 DEF IsBatch, OneToken
<1>9. AllKept
  <2> HIDE DEF b, r, t
  <2> QED BY <1>1, <1>8, OutputKept
<1>10. Coming' = Coming
  <2>1. Coming = kv_cache
    BY <1>1 DEF Coming
  <2>2. Coming' = kv_cache'
    BY <1>6 DEF Coming, c
  <2> QED BY <1>1, <2>1, <2>2
<1>11. ContentNow'
  BY <1>9, <1>10, CarryContent DEF AllKept
<1>12. /\ \A i \in DOMAIN batch_queue : batch_queue[i].done
       /\ \A i \in DOMAIN batch_queue' : batch_queue'[i].done
  BY <1>1, <1>3, <1>4, <1>6 DEF c
<1>13. SameTables'
  BY <1>1, <1>9, <1>12, CarryTables
<1>14. Promised'
  BY <1>3, <1>4, <1>7, <1>12 DEF Promised, c
<1> QED BY <1>11, <1>13, <1>14

(***************************************************************************)
(* The end of a step: the batch is dropped.                                *)
(***************************************************************************)
LEMMA StepEndContent ==
    ASSUME IInv, Sound, QueueFits, OneAtATime, ContentNow, SameTables, StepEnd
    PROVE  ContentNow' /\ SameTables' /\ Promised'
<1>1. /\ requests' = requests /\ running' = running /\ manager' = manager /\ step' = step
      /\ runner_requests' = runner_requests /\ kv_cache' = kv_cache
      /\ batch_queue[1].done /\ batch_queue' = Tail(batch_queue)
  BY DEF StepEnd, schedulerVars, runnerVars
<1>2. DOMAIN batch_queue \subseteq {1} /\ IsSeq(batch_queue) /\ batch_queue # <<>>
  BY NoBatchBefore DEF IInv, BatchesOK, StepEnd
<1>3. DOMAIN batch_queue' = {} /\ batch_queue' = <<>>
  <2> DEFINE n == Len(batch_queue)
  <2>1. 1 .. n = {1} /\ n \in Nat /\ DOMAIN Tail(batch_queue) = 1 .. (n - 1)
    <3>1. DOMAIN batch_queue = 1 .. n /\ 1 \in DOMAIN batch_queue
          /\ DOMAIN Tail(batch_queue) = 1 .. (n - 1)
      BY <1>2, SeqTail
    <3>2. n \in Nat
      BY <1>2 DEF IsSeq
    <3> HIDE DEF n
    <3> QED BY <1>2, <3>1, <3>2
  <2> HIDE DEF n
  <2>2. n = 1
    <3>1. n \in 1 .. n
      BY <2>1
    <3> QED BY <2>1, <3>1
  <2>3. DOMAIN batch_queue' = {}
    BY <1>1, <2>1, <2>2
  <2>4. IsSeq(Tail(batch_queue))
    BY <1>2, SeqTail
  <2>5. batch_queue' = <<>>
    BY <1>1, <2>3, <2>4 DEF IsSeq
  <2> QED BY <2>3, <2>5
<1>4. AllKept
  BY <1>1, SameKept
<1>5. Coming' = Coming
  <2>1. Coming = kv_cache
    BY <1>1 DEF Coming
  <2>2. Coming' = kv_cache'
    BY <1>3 DEF Coming
  <2> QED BY <1>1, <2>1, <2>2
<1>6. ContentNow'
  BY <1>4, <1>5, CarryContent DEF AllKept
<1>7. /\ \A i \in DOMAIN batch_queue : batch_queue[i].done
      /\ \A i \in DOMAIN batch_queue' : batch_queue'[i].done
  BY <1>1, <1>2, <1>3
<1>8. SameTables'
  BY <1>1, <1>4, <1>7, CarryTables
<1> QED BY <1>3, <1>6, <1>8 DEF Promised

(***************************************************************************)
(* The worker's step: the blocks hold what they were to hold.              *)
(***************************************************************************)
LEMMA ExecuteContent ==
    ASSUME IInv, Sound, QueueFits, OneAtATime, SyncInv, ContentNow, SameTables, Promised, Execute
    PROVE  ContentNow' /\ SameTables' /\ Promised'
<1>1. PICK i, value : Executed(i, value)
  BY ExecuteFacts DEF SyncInv
<1> DEFINE b == batch_queue[i]
           c == batch_queue'[i]
           reqs == b.out.reqs
<1>2. i = 1 /\ DOMAIN batch_queue = {1} /\ DOMAIN batch_queue' = {1}
  <2>1. i \in DOMAIN batch_queue /\ DOMAIN batch_queue' = DOMAIN batch_queue
    BY <1>1 DEF Executed
  <2>2. DOMAIN batch_queue \subseteq {1}
    BY NoBatchBefore
  <2> QED BY <2>1, <2>2
<1>3. /\ ~b.done /\ IsBatch(b) /\ c.out = b.out /\ c.done /\ c.reads_ok = ReadsOwnPrefix(b.out)
      /\ \A k \in DOMAIN reqs : runner_requests'[reqs[k].id] = AfterSampling(b.out, reqs[k], value)
      /\ \A r \in Request : ~Has(b, r) =>
            runner_requests'[r] = IF r \in b.out.finished_req_ids THEN NoState ELSE runner_requests[r]
      /\ kv_cache' = AfterForward(b.out)
      /\ UNCHANGED <<schedulerVars, phase>>
  BY <1>1 DEF Executed
<1>4. requests' = requests /\ running' = running /\ manager' = manager /\ step' = step
  BY <1>3 DEF schedulerVars
<1>5. AllKept
  BY <1>4, SameKept
<1>6. Coming' = Coming
  <2>1. Coming = AfterForward(b.out)
    BY <1>2, <1>3 DEF Coming
  <2>2. Coming' = kv_cache'
    BY <1>2, <1>3 DEF Coming
  <2> QED BY <1>3, <2>1, <2>2
<1>7. ContentNow'
  BY <1>5, <1>6, CarryContent DEF AllKept
<1>8. Promised'
  <2>1. i \in DOMAIN batch_queue /\ (~b.done => ReadsOwnPrefix(b.out))
    BY <1>2 DEF Promised
  <2>2. ~b.done
    BY <1>3
  <2>3. ReadsOwnPrefix(b.out)
    BY <2>1, <2>2
  <2> QED BY <1>2, <1>3, <2>3 DEF Promised
<1>9. ASSUME NEW r \in Range(running)
      PROVE  SameTable(r, step.scheduled, batch_queue', runner_requests'[r], manager.req_to_blocks[r])
  <2> DEFINE w == runner_requests[r]
             x == runner_requests'[r]
             table == manager.req_to_blocks[r]
             s == step.scheduled
  <2>1. r \in Request /\ requests[r].status \in Alive
    BY <1>9 DEF IInv, QueuesOK, Placed, Range, Alive
  <2>2. r \notin b.out.finished_req_ids
    BY <1>2, <1>3, <2>1 DEF SyncInv, AllInStep, InStepAt
  <2>3. s = <<>>
    <3>1. phase # "schedule"
      BY DEF Execute
    <3> QED BY <3>1, NoneScheduled
  <2>4. SameTable(r, s, batch_queue, w, table)
    BY <1>9 DEF SameTables
  <2>5. ASSUME NEW k \in DOMAIN reqs, reqs[k].id = r
        PROVE  x.blocks = table
    <3> DEFINE e == reqs[k]
    <3>1. TableOf(e, w) = table
      BY <1>2, <1>3, <2>4, <2>5 DEF SameTable
    <3>2. x = AfterSampling(b.out, e, value) /\ e.id = r
      BY <1>3, <2>5
    <3>3. AfterSampling(b.out, e, value).blocks = UpdatedState(b.out, e).blocks
      <4>1. e.id \in Request /\ ~AsyncScheduling /\ Synced
        BY <2>1, <3>2 DEF OneAtATime, SyncInv
      <4> DEFINE out == b.out
      <4> HIDE DEF e, out
      <4>2. AfterSampling(out, e, value).blocks = UpdatedState(out, e).blocks
        BY <4>1, SyncSampled
      <4> QED BY <4>2 DEF out
    <3> HIDE DEF e, x, table
    <3>4. UpdatedState(b.out, e).blocks = TableOf(e, runner_requests[e.id])
      BY <2>2, <3>2, UpdatedBlocks
    <3> QED BY <3>1, <3>2, <3>3, <3>4
  <2>6. ASSUME ~Has(b, r)
        PROVE  x.blocks = table
    <3>1. x = w
      BY <1>3, <2>1, <2>2, <2>6
    <3>2. w.blocks = table
      BY <1>2, <2>3, <2>4, <2>6 DEF SameTable, InBatch
    <3> QED BY <3>1, <3>2
  <2>7. x.blocks = table
    BY <2>5, <2>6 DEF Has
  <2> HIDE DEF x, table
  <2>8. SameTable(r, s, batch_queue', x, table)
    BY <1>2, <1>3, <2>3, <2>7 DEF SameTable
  <2> QED BY <2>8 DEF x, table
<1>10. SameTables'
  BY <1>4, <1>9 DEF SameTables
<1> QED BY <1>7, <1>8, <1>10

(***************************************************************************)
(* The block tables, when a request joins the batch.                       *)
(***************************************************************************)
LEMMA JoinedTables ==
    ASSUME NEW r, NEW e, JoinsBatch(r, e), SameTables, DOMAIN batch_queue = {},
           batch_queue' = batch_queue, runner_requests' = runner_requests,
           \A s \in Range(running') : s \in Request /\ (s \in Range(running) \/ s = r),
           TableOf(e, runner_requests[r]) = manager'.req_to_blocks[r]
    PROVE  SameTables'
<1>1. /\ \A k \in DOMAIN step'.scheduled :
            \/ step'.scheduled[k] = e
            \/ \E j \in DOMAIN step.scheduled : step.scheduled[j] = step'.scheduled[k]
      /\ \A s : InBatch(step'.scheduled, s) <=> (InBatch(step.scheduled, s) \/ s = r)
  BY JoinedNum
<1>2. /\ e.id = r /\ \A j \in DOMAIN step.scheduled : step.scheduled[j].id # r
      /\ \A s \in Request : s # r => manager'.req_to_blocks[s] = manager.req_to_blocks[s]
  BY DEF JoinsBatch
<1>3. ASSUME NEW s \in Range(running')
      PROVE  SameTable(s, step'.scheduled, batch_queue, runner_requests[s], manager'.req_to_blocks[s])
  <2>1. CASE s = r
    <3> DEFINE w == runner_requests[r]
               table == manager'.req_to_blocks[r]
    <3>1. TableOf(e, w) = table
      OBVIOUS
    <3> HIDE DEF w, table
    <3>2. \A k \in DOMAIN step'.scheduled : step'.scheduled[k].id = r => step'.scheduled[k] = e
      BY <1>1, <1>2
    <3>3. SameTable(r, step'.scheduled, batch_queue, w, table)
      BY <1>1, <3>1, <3>2 DEF SameTable
    <3> QED BY <2>1, <3>3 DEF w, table
  <2>2. CASE s # r
    <3> DEFINE w == runner_requests[s]
               table == manager.req_to_blocks[s]
    <3>1. SameTable(s, step.scheduled, batch_queue, w, table)
      BY <2>2 DEF SameTables
    <3>2. manager'.req_to_blocks[s] = table
      BY <1>2, <1>3, <2>2
    <3> HIDE DEF w, table
    <3>3. \A k \in DOMAIN step'.scheduled : step'.scheduled[k].id = s =>
             \E j \in DOMAIN step.scheduled : step.scheduled[j] = step'.scheduled[k]
      BY <1>1, <1>2, <2>2
    <3>4. InBatch(step'.scheduled, s) <=> InBatch(step.scheduled, s)
      BY <1>1, <2>2
    <3>5. SameTable(s, step'.scheduled, batch_queue, w, table)
      BY <3>1, <3>3, <3>4 DEF SameTable
    <3> QED BY <3>2, <3>5 DEF w, table
  <2> QED BY <2>1, <2>2
<1> QED BY <1>3 DEF SameTables

(***************************************************************************)
(* A running request that joins is sent the blocks that are new, a waiting *)
(* one all its blocks.                                                     *)
(***************************************************************************)
LEMMA ScheduleTables ==
    ASSUME IInv, Sound, Budget, QueueFits, OneAtATime, SameTables, phase = "schedule",
           ScheduleRunning \/ ScheduleWaiting,
           batch_queue' = batch_queue, runner_requests' = runner_requests
    PROVE  SameTables'
<1>1. DOMAIN batch_queue = {}
  BY NoBatchBefore
<1>2. \A s \in Range(running) : s \in Request
  BY DEF IInv, QueuesOK, Placed, Range
<1>3. CASE ScheduleRunning
  <2> DEFINE r == step.request
             w == runner_requests[r]
             table == manager.req_to_blocks[r]
  <2>1. PICK e : /\ JoinsBatch(r, e) /\ r \in Range(running) /\ e.kind = "running"
                 /\ manager'.req_to_blocks[r] = table \o e.blocks
    BY <1>3, RunningJoins
  <2>2. running' = running
    BY <1>3 DEF ScheduleRunning
  <2>3. ~InBatch(step.scheduled, r)
    BY <2>1 DEF JoinsBatch, InBatch
  <2>4. w.blocks = table
    BY <1>1, <2>1, <2>3 DEF SameTables, SameTable
  <2> HIDE DEF w, table
  <2>5. TableOf(e, w) = manager'.req_to_blocks[r]
    BY <2>1, <2>4 DEF TableOf
  <2> HIDE DEF r
  <2> QED BY <1>1, <1>2, <2>1, <2>2, <2>5, JoinedTables DEF w
<1>4. CASE ScheduleWaiting
  <2> DEFINE r == Head(waiting)
             w == runner_requests[r]
  <2>1. /\ \A s : s \in Range(running') <=> (s \in Range(running) \/ s = r)
        /\ \E e : /\ JoinsBatch(r, e) /\ e.kind \in {"new", "resumed"}
                  /\ e.blocks = manager'.req_to_blocks[r]
    BY <1>4, WaitingJoins
  <2> HIDE DEF r, w
  <2>2. PICK e : /\ JoinsBatch(r, e) /\ e.kind \in {"new", "resumed"}
                 /\ e.blocks = manager'.req_to_blocks[r]
    BY <2>1
  <2>3. TableOf(e, w) = manager'.req_to_blocks[r]
    BY <2>2 DEF TableOf
  <2>4. r \in Request
    BY <2>2 DEF JoinsBatch
  <2> QED BY <1>1, <1>2, <2>1, <2>2, <2>3, <2>4, JoinedTables DEF w
<1> QED BY <1>3, <1>4

(***************************************************************************)
(* A step of the scheduler that keeps what the running requests have.      *)
(***************************************************************************)
LEMMA KeptContent ==
    ASSUME IInv, Sound, OneAtATime, ContentInv, AllKept, UNCHANGED <<batch_queue, runnerVars>>
    PROVE  ContentInv'
<1>1. Coming' = Coming /\ Promised'
  BY ComingSame DEF ContentInv
<1>2. ContentNow'
  BY <1>1, CarryContent DEF AllKept, ContentInv
<1>3. SameTables'
  BY CarryTables DEF ContentInv, runnerVars
<1> QED BY <1>1, <1>2, <1>3 DEF ContentInv

(***************************************************************************)
(* ... and one with which a request joins the batch.                       *)
(***************************************************************************)
LEMMA JoinedContent ==
    ASSUME IInv, Sound, Budget, QueueFits, OneAtATime, ContentInv, phase = "schedule",
           ScheduleRunning \/ ScheduleWaiting, UNCHANGED <<batch_queue, runnerVars>>
    PROVE  ContentInv'
<1>1. Coming' = Coming /\ Promised'
  BY ComingSame DEF ContentInv
<1>2. ContentNow
  BY DEF ContentInv
<1>3. ContentNow'
  BY <1>1, <1>2, RunningContent, WaitingContent
<1>4. SameTables'
  BY ScheduleTables DEF ContentInv, runnerVars
<1> QED BY <1>1, <1>3, <1>4 DEF ContentInv

(***************************************************************************)
(* Every step of the engine keeps what the blocks hold.                    *)
(***************************************************************************)
LEMMA NextContent ==
    ASSUME IInv, Sound, Budget, QueueFits, AtRequest, OneAtATime, Policy = "fcfs", SyncInv,
           ContentInv, [Next]_vars
    PROVE  ContentInv'
<1>1. ContentNow /\ SameTables /\ Promised
  BY DEF ContentInv
<1>2. ASSUME ContentNow' /\ SameTables' /\ Promised' PROVE ContentInv'
  BY <1>2 DEF ContentInv
<1>3. CASE Client
  <2>1. UNCHANGED <<batch_queue, runnerVars>>
    BY <1>3 DEF Client, Add, Abort, Reset, engineVars
  <2>2. ASSUME NEW r \in Request, Add(r) PROVE AllKept
    BY <2>2, AddKept
  <2>3. ASSUME NEW r \in Request, Abort(r) PROVE AllKept
    BY <2>3, AbortKept
  <2>4. ASSUME NEW b, Reset(b) PROVE AllKept
    BY <2>4, ResetIdleKept, ResetRunningKept DEF Reset
  <2>5. AllKept
    BY <1>3, <2>2, <2>3, <2>4 DEF Client
  <2> QED BY <2>1, <2>5, KeptContent
<1>4. CASE StepStart
  BY <1>4, StartKept, KeptContent DEF StepStart
<1>5. CASE Schedule
  <2>1. UNCHANGED <<batch_queue, runnerVars>> /\ phase = "schedule"
    BY <1>5 DEF Schedule, engineVars
  <2>2. CASE SkipRunning \/ EnterRunning \/ RunningDone
    BY <2>1, <2>2, WalkKept, KeptContent
  <2>3. CASE PreemptForRunning
    BY <2>1, <2>3, PreemptKept, KeptContent
  <2>4. CASE ScheduleRunning \/ ScheduleWaiting
    BY <2>1, <2>4, JoinedContent
  <2> QED BY <1>5, <2>2, <2>3, <2>4 DEF Schedule
<1>6. CASE Submit
  BY <1>1, <1>2, <1>6, SubmitContent, SubmitTables
<1>7. CASE UpdateRequest
  BY <1>1, <1>2, <1>7, UpdateContent
<1>8. CASE StepEnd
  BY <1>1, <1>2, <1>8, StepEndContent
<1>9. CASE Execute
  BY <1>1, <1>2, <1>9, ExecuteContent
<1>10. CASE UNCHANGED vars
  <2>1. UNCHANGED <<batch_queue, runnerVars>>
    BY <1>10 DEF vars, engineVars
  <2>2. /\ requests' = requests /\ running' = running /\ manager' = manager /\ step' = step
    BY <1>10 DEF vars, schedulerVars
  <2>3. AllKept
    BY <2>2, SameKept
  <2> QED BY <2>1, <2>3, KeptContent
<1> QED BY <1>3, <1>4, <1>5, <1>6, <1>7, <1>8, <1>9, <1>10 DEF Next, Engine

(***************************************************************************)
(* At first no block has a hash and nobody runs.                           *)
(***************************************************************************)
LEMMA InitContent ==
    ASSUME Init
    PROVE  ContentInv
<1>1. running = <<>> /\ batch_queue = <<>> /\ \A b \in Block : manager.pool.block_hash[b] = NoHash
  BY DEF Init, InitScheduler, InitManager, InitPool
<1>2. Range(running) = {} /\ DOMAIN batch_queue = {}
  BY <1>1 DEF Range
<1> HIDE DEF Init
<1>3. Content(Range(running), requests, Ahead, manager, Coming)
  BY <1>1, <1>2 DEF Content, HashesKept, TablesKept, PartsKept, OneFills, CachedAhead
<1> QED BY <1>2, <1>3 DEF ContentInv, ContentNow, SameTables, Promised

(***************************************************************************)
(* Between steps what the blocks are to hold is what they hold: a block    *)
(* that is not full has no hash.                                           *)
(***************************************************************************)
LEMMA InvariantContent ==
    ASSUME IInv, Sound, QueueFits, OneAtATime, ContentInv
    PROVE  CachedBlocksComputed /\ AttentionReadsOwnPrefix
<1> DEFINE U == Range(running)
           q == requests
           a == Ahead
           m == manager
           B == Coming
<1>1. Sized(U, q, a, m) /\ \A r \in Request : a[r] = q[r].num_computed_tokens + Num(step.scheduled, r)
  BY SyncFitting
<1>2. Content(U, q, a, m, B)
  BY DEF ContentInv, ContentNow
<1>3. AttentionReadsOwnPrefix
  BY DEF ContentInv, Promised, AttentionReadsOwnPrefix
<1>4. ASSUME phase = "input", NEW b \in Block, manager.pool.block_hash[b] # NoHash
      PROVE  kv_cache[b] = manager.pool.block_hash[b]
  <2> DEFINE x == m.pool.block_hash[b]
  <2>1. B = kv_cache
    BY <1>4, NoBatchBefore DEF Coming
  <2>2. \A r : Num(step.scheduled, r) = 0
    BY <1>4, NoneScheduled
  <2> HIDE DEF a, B
  <2>3. Gets(U, q, a, m, B, b, x)
    BY <1>2, <1>4 DEF Content, HashesKept
  <2>4. ASSUME NEW r \in U, NEW i \in DOMAIN m.req_to_blocks[r], Opens(U, q, a, m, r, i, b)
        PROVE  FALSE
    <3> DEFINE n == q[r].num_computed_tokens
               k == i * BlockSize
    <3>1. r \in Request /\ n \in Nat
      BY <1>1 DEF Sized, SizedFor
    <3>2. a[r] = n + 0
      BY <1>1, <2>2, <3>1
    <3>3. DOMAIN m.req_to_blocks[r] = 1 .. Len(m.req_to_blocks[r]) /\ i \in Int
      BY <1>1, SizedIndexes
    <3>4. k \in Int
      BY <3>3, SizesAssumption
    <3>5. n < k /\ m.req_to_blocks[r][i] = b
      BY <2>4 DEF Opens
    <3> HIDE DEF n, k
    <3>6. ~(k <= a[r])
      BY <3>1, <3>2, <3>4, <3>5
    <3>7. CachedAhead(U, a, m)
      BY <1>2 DEF Content
    <3> HIDE DEF U, q, m
    <3>8. m.pool.block_hash[m.req_to_blocks[r][i]] = NoHash
      BY <1>1, <3>6, <3>7, OwnBlock DEF k
    <3> QED BY <1>4, <3>5, <3>8 DEF m
  <2> HIDE DEF U, q, m
  <2>5. B[b] = x
    BY <2>3, <2>4 DEF Gets
  <2> QED BY <2>1, <2>5 DEF m
<1> QED BY <1>3, <1>4 DEF CachedBlocksComputed

(***************************************************************************)
(* Without async scheduling, with one batch at a time and the FCFS policy, *)
(* what the blocks hold and are to hold is always in order ...             *)
(***************************************************************************)
THEOREM BlocksKeepContent ==
    ASSUME OneAtATime, Policy = "fcfs"
    PROVE  Spec => []ContentInv
<1>1. AsyncSafe
  BY DEF OneAtATime, AsyncSafe
<1>2. Init => ContentInv /\ QueueFits
  <2>1. ASSUME Init PROVE QueueFits
    <3>1. phase = "input" /\ batch_queue = <<>>
      BY <2>1 DEF Init
    <3> QED BY <3>1, EngineAssumption DEF QueueFits
  <2> QED BY <2>1, InitContent
<1>3. IInv /\ Sound /\ Budget /\ QueueFits /\ SyncInv /\ AtRequest /\ ContentInv /\ [Next]_vars
        => ContentInv' /\ QueueFits'
  BY NextContent, NextFits
<1>4. Spec => []Sound
  BY <1>1, AlwaysSound
<1>5. Spec => []Budget
  BY <1>1, AlwaysBudget
<1>6. Spec => [](SyncInv /\ AtRequest)
  BY WorkerStaysInStep
<1> QED BY <1>2, <1>3, <1>4, <1>5, <1>6, Inductive, PTL DEF Spec

(***************************************************************************)
(* ... and so, between steps, every block that can be found in the prefix  *)
(* cache holds the keys and values of the tokens it is found by.           *)
(***************************************************************************)
THEOREM CachedBlocksAlwaysComputed ==
    ASSUME OneAtATime, Policy = "fcfs"
    PROVE  Spec => []CachedBlocksComputed
<1>1. AsyncSafe
  BY DEF OneAtATime, AsyncSafe
<1>2. Init => QueueFits
  BY EngineAssumption DEF Init, QueueFits
<1>3. IInv /\ QueueFits /\ [Next]_vars => QueueFits'
  BY NextFits
<1>4. IInv /\ Sound /\ QueueFits /\ ContentInv => CachedBlocksComputed
  BY InvariantContent
<1>5. Spec => []Sound
  BY <1>1, AlwaysSound
<1>6. Spec => []ContentInv
  BY BlocksKeepContent
<1> QED BY <1>2, <1>3, <1>4, <1>5, <1>6, Inductive, PTL DEF Spec

(***************************************************************************)
(* ... and no batch reads anything but keys and values of its requests'    *)
(* own tokens.                                                             *)
(***************************************************************************)
THEOREM AttentionAlwaysReadsOwnPrefix ==
    ASSUME OneAtATime, Policy = "fcfs"
    PROVE  Spec => []AttentionReadsOwnPrefix
<1>1. ContentInv => AttentionReadsOwnPrefix
  BY DEF ContentInv, Promised, AttentionReadsOwnPrefix
<1>2. Spec => []ContentInv
  BY BlocksKeepContent
<1> QED BY <1>1, <1>2, PTL
=============================================================================
