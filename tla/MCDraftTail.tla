----------------------------- MODULE MCDraftTail -----------------------------
(* The pipelines of a run: one with a stage that is neither the tail stage   *)
(* nor the last, and a short one in which entries reach the age limit.       *)
EXTENDS DraftTailInvariant

MCPipelines == {[stages |-> 2, tail |-> 0], [stages |-> 3, tail |-> 1]}
=============================================================================
