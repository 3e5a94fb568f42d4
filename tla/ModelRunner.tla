---------------------------- MODULE ModelRunner ----------------------------
(***************************************************************************)
(* class GPUModelRunner (vllm/v1/worker/gpu_model_runner.py): the state    *)
(* the worker caches of each request between batches (_update_states), the *)
(* tokens it feeds the model and samples, and the KV cache it writes.      *)
(*                                                                         *)
(* A KV cache block holds the keys and values of consecutive positions of  *)
(* one token sequence, each of which depends on every token before it: its *)
(* content is the token prefix whose last positions it holds, <<>> when    *)
(* nothing was written yet.  Attention reads the whole prefix through the  *)
(* block table, so a batch computes the right thing only if every block of *)
(* the table holds the prefix that the request's own tokens say.           *)
(***************************************************************************)
EXTENDS Scheduler

VARIABLES
    runner_requests,    \* self.requests: tokens and block_ids of each request; under
                        \* async scheduling its unsynced positions hold -1 on the host
    input_batch,        \* the requests in the persistent batch
    kv_cache            \* the content of every block

runnerVars == <<runner_requests, input_batch, kv_cache>>

NoState == [tokens |-> <<>>, blocks |-> <<>>, unsynced |-> {}]

\* The content of a block whose positions belong to different sequences.
Garbage == << <<0, "garbage">> >>

InitRunner ==
    /\ runner_requests = [r \in Request |-> NoState]
    /\ input_batch = {}
    /\ kv_cache = [b \in Block |-> <<>>]

\* The slice tokens[-n:].
LastTokens(tokens, n) ==
    SubSeq(tokens, IF n < Len(tokens) THEN Len(tokens) - n + 1 ELSE 1, Len(tokens))

ScheduledIds(out) == {out.reqs[i].id : i \in DOMAIN out.reqs}

\* The requests that stay in the persistent batch: neither finished nor
\* unscheduled nor resumed.
StillInBatch(out) ==
    {out.reqs[i].id : i \in {j \in DOMAIN out.reqs :
                               /\ out.reqs[j].kind = "running"
                               /\ out.reqs[j].id \in input_batch \ out.finished_req_ids}}

\* Mutant of Recovers: a request that comes back keeps what the host has.
Recovers_Never(out, e) == FALSE

\* Under async scheduling a request that comes back into the batch takes its
\* output tokens from the scheduler.
Recovers(out, e) == AsyncScheduling /\ e.id \notin StillInBatch(out) /\ e.num_output_tokens > 0

\* _update_states: the CachedRequestState of a request of scheduled_new_reqs.
NewState(e) == [tokens |-> PromptTokens(e.id), blocks |-> e.blocks, unsynced |-> {}]

\* _update_states: what a request of scheduled_cached_reqs is updated to.
CachedState(out, e) ==
    LET state == IF e.id \in out.finished_req_ids THEN NoState ELSE runner_requests[e.id]
        prompt == PromptTokens(e.id)
        kept == SubSeq(state.tokens, 1,
                       LesserOf(Len(state.tokens), Len(prompt) + e.num_output_tokens))
    IN [tokens |-> IF Recovers(out, e)
                   THEN prompt \o LastTokens(e.all_token_ids, e.num_output_tokens)
                   ELSE kept,
        blocks |-> IF e.kind = "resumed" THEN e.blocks ELSE state.blocks \o e.blocks,
        unsynced |-> IF Recovers(out, e) THEN {} ELSE state.unsynced \cap DOMAIN kept]

UpdatedState(out, e) == IF e.kind = "new" THEN NewState(e) ELSE CachedState(out, e)

SeqLen(e) == e.num_computed_tokens + e.num_scheduled_tokens

\* _prepare_input_ids: the token sequence behind a request's scheduled
\* positions.  The last one is fed from prev_sampled_token_ids on the device
\* if the request was in the previous batch; another position without a token
\* on the host is fed whatever the buffer holds.
InputTokens(out, e) ==
    LET state == UpdatedState(out, e)
        has(p) == /\ p <= Len(state.tokens)
                  /\ \/ p \notin state.unsynced
                     \/ p <= e.num_computed_tokens
                     \/ p = SeqLen(e) /\ e.id \in StillInBatch(out)
    IN [p \in 1 .. SeqLen(e) |-> IF has(p) THEN state.tokens[p] ELSE <<p, "unset">>]

\* Mutant of Discarded: a prefill chunk is sampled like a whole prefill.
Discarded_Never(state, e) == FALSE

\* A request whose known tokens are not all scheduled yet is not sampled.
Discarded(state, e) == SeqLen(e) < Len(state.tokens)

SampledToken(out, e, value) ==
    IF Discarded(UpdatedState(out, e), e) THEN <<>> ELSE << <<SeqLen(e) + 1, value[e.id]>> >>

-----------------------------------------------------------------------------
BlockIndex(p) == ((p - 1) \div BlockSize) + 1

LastOf(e, i) == LesserOf(i * BlockSize, SeqLen(e))

\* The (request, table index) pairs of out through which block b is written.
Writers(out, b) ==
    {w \in (DOMAIN out.reqs) \X (1 .. BlockIndex(MaxModelLen)) :
        LET e == out.reqs[w[1]]
            blocks == UpdatedState(out, e).blocks
        IN /\ w[2] \in BlockIndex(e.num_computed_tokens + 1) .. BlockIndex(SeqLen(e))
           /\ w[2] <= Len(blocks)
           /\ blocks[w[2]] = b}

\* The content of block b after one write: it extends what the request wrote
\* there before, or starts the block over.
Written(out, b, w) ==
    LET e == out.reqs[w[1]]
        tokens == InputTokens(out, e)
        first == (w[2] - 1) * BlockSize + 1
        start == e.num_computed_tokens + 1
    IN IF start <= first \/ (Len(kv_cache[b]) >= start - 1
                             /\ SubSeq(kv_cache[b], 1, start - 1) = SubSeq(tokens, 1, start - 1))
       THEN SubSeq(tokens, 1, LastOf(e, w[2]))
       ELSE Garbage

AfterForward(out) ==
    [b \in Block |->
        LET ws == Writers(out, b)
        IN IF ws = {} THEN kv_cache[b]
           ELSE IF Cardinality(ws) > 1 THEN Garbage
           ELSE Written(out, b, CHOOSE w \in ws : TRUE)]

\* Every request of the batch finds its own tokens behind its block table.
ReadsOwnPrefix(out) ==
    \A i \in DOMAIN out.reqs :
        LET e == out.reqs[i]
            state == UpdatedState(out, e)
            tokens == InputTokens(out, e)
        IN \A k \in 1 .. BlockIndex(SeqLen(e)) :
               /\ k <= Len(state.blocks)
               /\ LET content == AfterForward(out)[state.blocks[k]]
                  IN /\ Len(content) >= LastOf(e, k)
                     /\ SubSeq(content, 1, LastOf(e, k)) = SubSeq(tokens, 1, LastOf(e, k))

\* _bookkeeping_sync: the sampled token joins the request's, under async
\* scheduling as a -1 whose value stays on the device.
AfterSampling(out, e, value) ==
    LET state == UpdatedState(out, e)
        tokens == state.tokens \o SampledToken(out, e, value)
        unknown == DOMAIN tokens \ DOMAIN state.tokens
    IN [state EXCEPT !.tokens = tokens,
                     !.unsynced = IF AsyncScheduling THEN @ \cup unknown ELSE @]

\* execute_model and sample_tokens: value is what the sampler draws for each
\* request.
execute_model(out, value) ==
    /\ runner_requests' =
         [r \in Request |->
            IF r \in ScheduledIds(out)
            THEN AfterSampling(out, out.reqs[CHOOSE i \in DOMAIN out.reqs : out.reqs[i].id = r],
                               value)
            ELSE IF r \in out.finished_req_ids THEN NoState
            ELSE runner_requests[r]]
    /\ input_batch' = ScheduledIds(out)
    /\ kv_cache' = AfterForward(out)
=============================================================================
