------------------------------ MODULE WorkRecovery ------------------------------
(***************************************************************************)
(* classifyWorkRecovery (packages/domain/src/work-recovery.ts): what the   *)
(* recovery scan does with a row that is queued or running for too long.   *)
(* It knows the row, what the queue says of its job, and how often the row *)
(* has been recovered; it touches neither.                                 *)
(***************************************************************************)
EXTENDS Naturals

WorkflowCategories == {"read_analyze", "artifact_capture", "provider_handoff_warning",
                       "provider_mutation", "projection_approval"}
DurableStates   == {"queued", "running", "retrying", "terminal"}
TransportStates == {"active", "missing", "failed", "completed", "unknown"}
Freshnesses     == {"fresh", "stale", "unknown"}
RecoveryDecisions == {"noop", "reenqueue", "mark_execution_failed", "record_warning",
                      "reconcile_provider", "manual_reconciliation"}

\* Everything the classifier looks at; counts up to the given bound.
RecoveryInputs(counts) ==
    [category : WorkflowCategories, durable : DurableStates, transport : TransportStates,
     freshness : Freshnesses, count : counts, max : counts,
     idempotent : BOOLEAN, uncertain : BOOLEAN]

RecoveryExhausted(input) == input.count >= input.max

\* The row is over, somebody works on it, or the queue will.
LeftAlone(input) ==
    \/ input.durable = "terminal"
    \/ input.freshness = "fresh"
    \/ input.transport \in {"active", "unknown"}

ClassifyProviderMutation(input) ==
    IF RecoveryExhausted(input) THEN "manual_reconciliation" ELSE "reconcile_provider"

ClassifyWorkRecovery(input) ==
    CASE LeftAlone(input) -> "noop"
      [] ~LeftAlone(input) /\ (input.category = "provider_mutation" \/ input.uncertain) ->
            ClassifyProviderMutation(input)
      [] OTHER ->
            IF input.category = "projection_approval" THEN "manual_reconciliation"
            ELSE IF input.transport = "completed" THEN "mark_execution_failed"
            ELSE IF RecoveryExhausted(input)
                 THEN IF input.category = "provider_handoff_warning"
                      THEN "record_warning" ELSE "mark_execution_failed"
            ELSE IF input.category = "artifact_capture" /\ ~input.idempotent
                 THEN "manual_reconciliation"
            ELSE "reenqueue"

\* transportStateFromBullMqJobState, for the states a job of these lanes is in
TransportState(jobState) ==
    IF jobState \in {"waiting", "active"} THEN "active" ELSE jobState
================================================================================
