----------------------------- MODULE MCExecutor -----------------------------
(* Instances of MultiprocExecutor for TLC. *)
EXTENDS MultiprocExecutor

Kind(all, non_block, fatal, fails) ==
    [all |-> all, non_block |-> non_block, fatal |-> fatal, fails |-> fails,
     expires |-> FALSE]

\* execute_model and sample_tokens; take_draft_token_ids; and utility calls
Batch == Kind(FALSE, TRUE, TRUE, TRUE)
Blocking == Kind(FALSE, FALSE, TRUE, TRUE)
Utility == Kind(TRUE, FALSE, FALSE, FALSE)
\* the same with KV output aggregation
AggregatedBatch == Kind(TRUE, TRUE, TRUE, FALSE)

MCKinds == {Batch, Blocking, Utility, AggregatedBatch}
FailingKinds == {Batch, [Utility EXCEPT !.fails = TRUE]}
=============================================================================
