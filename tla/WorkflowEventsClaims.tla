------------------------- MODULE WorkflowEventsClaims -------------------------
(***************************************************************************)
(* What a comment and the documentation say of the outbox, as a property of  *)
(* WorkflowEvents that the code does not keep when the server restarts.     *)
(***************************************************************************)
EXTENDS WorkflowEvents

\* workflow-events.ts:24-26 and WORKFLOW.md:58-61: whatever happens to the
\* handler, the outcome is in workflow_events and the retry runs it again.  So
\* with the retry called for ever, no event stays PENDING.
PendingIsRunAgain ==
  \A r \in Request : ev[r] = "PENDING" ~> ev[r] # "PENDING"
=============================================================================
