---------------------------- MODULE ReleaseLedger ----------------------------
(***************************************************************************)
(* The rows of Postgres that the API and the worker both write while a     *)
(* release plan is planned, deployed, verified and rolled back, the status *)
(* sets the code guards its updates with, and the one write every process  *)
(* shares (the demotion of release candidates).                            *)
(*                                                                         *)
(* A row the database does not hold has the status "absent".  A plan has   *)
(* at most one deployment: deploymentKey is "release_plan:<id>" and unique.*)
(***************************************************************************)
EXTENDS FiniteSets

CONSTANTS
    Plan,           \* release plan ids
    Version,        \* page version ids
    ProviderDeploy, \* ids the hosting provider can hand out
    Operation,      \* ids of rollback operations (operationAttemptId)
    None            \* a null column

ASSUME NoneIsNoId == None \notin Plan \cup ProviderDeploy \cup (Plan \X ProviderDeploy)

VARIABLES
    plans,          \* plan -> [status, items]
    versions,       \* page version -> status
    deployments,    \* plan -> deployment ledger row
    points          \* <<plan, source plan, provider deploy>> -> rollback point

ledgerVars == <<plans, versions, deployments, points>>

----------------------------------------------------------------------------
(* Status vocabularies *)

PlanStatus ==
    {"absent", "draft", "ready", "ready_with_warnings", "blocked",
     "approved_for_deploy", "deploying", "live", "failed", "rolled_back"}

VersionStatus ==
    {"draft", "preview", "changes_requested", "approved", "release_candidate",
     "released", "superseded"}

DeploymentStatus ==
    {"absent", "deploying", "provider_succeeded", "verifying", "live_healthy",
     "live_with_warnings", "rollback_recommended", "failed",
     "rollback_pending", "rolled_back"}

ProviderOperation ==
    {"not_started", "in_flight", "recorded", "failed",
     "manual_reconciliation_required"}

\* evidenceJson.rollbackExecution.status of a rollback point; "prepared" has none yet
PointStatus ==
    {"absent", "prepared", "restore_in_flight", "rollback_pending", "completed",
     "provider_failed", "manual_reconciliation_required"}

\* evidenceJson.rollback.status of a deployment; "none" when there is no such evidence
RollbackTraceStatus ==
    {"none", "rollback_pending", "completed", "manual_reconciliation_required"}

\* activeRollbackOperationStatuses
ActiveRollback == {"restore_in_flight", "rollback_pending"}

\* activeReleasePlanStatuses
ActivePlan ==
    {"draft", "ready", "ready_with_warnings", "blocked", "approved_for_deploy",
     "deploying", "live"}

\* deployStartingReleasePlanStatuses
DeployStarting == {"approved_for_deploy", "deploying"}

\* replayableProviderDeploymentStatusValues, which is also what markFailed protects
Replayable ==
    {"provider_succeeded", "live_healthy", "live_with_warnings", "verifying",
     "rollback_recommended", "rolled_back"}

\* releaseLiveProjectableDeploymentStatusValues: a verification found the site good
Live == {"live_healthy", "live_with_warnings"}

\* rollbackSourceDeploymentStatuses: what a rollback may restore
RollbackSource == {"provider_succeeded"} \cup Live

\* The statuses a page version can be deployed from
DeployableVersion == {"approved", "release_candidate"}

----------------------------------------------------------------------------
(* Rows *)

PlanRow == [status : PlanStatus, items : SUBSET Version]

Id == ProviderDeploy \cup {None}

\* A rollback point of plan p is named by the plan q whose deployment it restores
\* and the provider deploy to restore.  target is the deploy that is rolled back,
\* restored the deploy the provider answered with.
PointRow ==
    [status : PointStatus, operation : Operation \cup {None}, target : Id, restored : Id]

NoPoint == [status |-> "absent", operation |-> None, target |-> None, restored |-> None]

\* What evidenceJson of a deployment says of a rollback: which point, from where,
\* to where.
RollbackTrace ==
    [status : RollbackTraceStatus, operation : Operation \cup {None},
     point : (Plan \X ProviderDeploy) \cup {None}, target : Id, restored : Id]

NoRollback ==
    [status |-> "none", operation |-> None, point |-> None, target |-> None,
     restored |-> None]

\* The part of evidenceJson that is read back.  resumeToken is TRUE while
\* provider.resumeToken is there and no completed upload is.  Most writes replace
\* evidenceJson as a whole.
Evidence == [resumeToken : BOOLEAN, rollback : RollbackTrace]

NoEvidence == [resumeToken |-> FALSE, rollback |-> NoRollback]

DeploymentRow ==
    [status           : DeploymentStatus,
     operation        : ProviderOperation,
     providerDeployId : Id,
     evidence         : Evidence]

NoDeployment ==
    [status |-> "absent", operation |-> "not_started",
     providerDeployId |-> None, evidence |-> NoEvidence]

LedgerTypeOK ==
    /\ plans \in [Plan -> PlanRow]
    /\ versions \in [Version -> VersionStatus]
    /\ deployments \in [Plan -> DeploymentRow]
    /\ points \in [Plan \X Plan \X ProviderDeploy -> PointRow]

----------------------------------------------------------------------------
(* Reads and writes shared by the processes *)

Manual(row) == row.operation = "manual_reconciliation_required"

\* A provider-backed rollback point of the plan exists, or nothing was released
\* before that one could be needed for.
RollbackEvidence(p) ==
    \/ \E q \in Plan, d \in ProviderDeploy : points[<<p, q, d>>].status # "absent"
    \/ \A q \in Plan \ {p} : deployments[q].status \notin RollbackSource

\* Defect: the candidates of a plan that was already being deployed are left behind.
DemotedBug(p) ==
    [v \in Version |->
        IF /\ v \in plans[p].items
           /\ versions[v] = "release_candidate"
           /\ plans[p].status # "deploying"
            THEN "approved"
            ELSE versions[v]]

\* demoteReleaseCandidatePageVersionsForPlan: every release candidate among the
\* items of the plan goes back to "approved", whichever plan made it a candidate.
Demoted(p) ==
    [v \in Version |->
        IF v \in plans[p].items /\ versions[v] = "release_candidate"
            THEN "approved"
            ELSE versions[v]]

SetPlan(p, s) == plans' = [plans EXCEPT ![p].status = s]
============================================================================
