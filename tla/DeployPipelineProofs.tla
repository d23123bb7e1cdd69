------------------------- MODULE DeployPipelineProofs -------------------------
(***************************************************************************)
(* Theorems about DeployPipeline for every set of plans, versions, provider*)
(* deploys, attempts and requests, and every number of faults.             *)
(***************************************************************************)
EXTENDS DeployPipeline, TLAPS

----------------------------------------------------------------------------
(* Types of the operators the actions are built from *)

AttemptsType == [Plan -> [Actor -> AttemptState]]

LEMMA SetAttemptType ==
    ASSUME attempts \in AttemptsType, NEW p \in Plan, NEW a \in Actor,
           NEW st \in AttemptState, SetAttempt(p, a, st)
    PROVE  attempts' \in AttemptsType
BY DEF AttemptsType, SetAttempt

LEMMA AttemptFieldTypes ==
    ASSUME attempts \in AttemptsType, NEW p \in Plan, NEW a \in Actor
    PROVE  attempts[p][a] \in AttemptState
BY DEF AttemptsType

LEMMA GotoType ==
    ASSUME attempts \in AttemptsType, NEW p \in Plan, NEW a \in Actor,
           NEW s \in Step, Goto(p, a, s)
    PROVE  attempts' \in AttemptsType
<1>1. [attempts[p][a] EXCEPT !.pc = s] \in AttemptState
    BY AttemptFieldTypes DEF AttemptState
<1>. QED  BY <1>1, SetAttemptType DEF Goto

LEMMA RaiseType ==
    ASSUME attempts \in AttemptsType, NEW p \in Plan, NEW a \in Actor,
           NEW e \in Error, Raise(p, a, e)
    PROVE  attempts' \in AttemptsType
<1>1. ASSUME NEW st \in AttemptState, NEW pc \in {"catch", "settle"}
      PROVE  [st EXCEPT !.error = e, !.ready = FALSE, !.token = FALSE, !.pc = pc]
                \in AttemptState
    BY DEF AttemptState, Step
<1>2. Raised(a, attempts[p][a], e) \in AttemptState
    BY <1>1, AttemptFieldTypes DEF Raised
<1>. QED  BY <1>2, SetAttemptType DEF Raise

LEMMA DecisionRange ==
    ASSUME NEW row
    PROVE  /\ Decision(row) \in {"manual", "replay", "reconcile", "mark_manual", "start"}
           /\ Decision(row) = "reconcile" => row.providerDeployId # None
BY DEF Decision

LEMMA FollowType ==
    ASSUME attempts \in AttemptsType, NEW p \in Plan, NEW a \in Actor,
           NEW row \in DeploymentRow, NEW s \in Step, Follow(p, a, row, s)
    PROVE  attempts' \in AttemptsType
<1>1. CASE Decision(row) = "manual"
    <2>1. Raise(p, a, "manual")  BY <1>1 DEF Follow
    <2>. QED  BY <2>1, RaiseType DEF Error
<1>2. CASE Decision(row) = "start"
    <2>1. Goto(p, a, s)  BY <1>2 DEF Follow
    <2>. QED  BY <2>1, GotoType
<1>3. CASE Decision(row) \in {"replay", "reconcile", "mark_manual"}
    <2>. DEFINE st == [attempts[p][a] EXCEPT
                !.pc = Decision(row),
                !.ready = Decision(row) = "replay" /\ row.status \in Live,
                !.id = IF Decision(row) = "reconcile" THEN row.providerDeployId ELSE @,
                !.token = Decision(row) = "reconcile" /\ row.evidence.resumeToken]
    <2>1. SetAttempt(p, a, st)
        BY <1>3 DEF Follow
    <2>2. /\ row.providerDeployId \in Id
          /\ row.evidence.resumeToken \in BOOLEAN
          /\ Decision(row) \in Step
        BY <1>3 DEF DeploymentRow, Evidence, Step
    <2>3. st \in AttemptState
        BY <2>2, AttemptFieldTypes DEF AttemptState
    <2>. QED  BY <2>1, <2>3, SetAttemptType
<1>. QED  BY <1>1, <1>2, <1>3, DecisionRange

RowsType == [Plan -> DeploymentRow]

LEMMA SetRowType ==
    ASSUME deployments \in RowsType, NEW p \in Plan,
           NEW row \in DeploymentRow, SetRow(p, row)
    PROVE  deployments' \in RowsType
BY DEF RowsType, SetRow

LEMMA RowTypes ==
    ASSUME NEW row \in DeploymentRow, NEW d \in Id
    PROVE  /\ TakenOver(row) \in DeploymentRow
           /\ Claimed(row) \in DeploymentRow
           /\ StartedRow(row, d) \in DeploymentRow
           /\ \A s \in {"provider_succeeded", "deploying"} : Snapshot(row, d, s) \in DeploymentRow
           /\ \A e \in Error : FailedRow(row, e) \in DeploymentRow
           /\ [row EXCEPT !.operation = "manual_reconciliation_required"] \in DeploymentRow
           /\ [row EXCEPT !.evidence.resumeToken = FALSE] \in DeploymentRow
<1>1. /\ NoEvidence \in Evidence
      /\ [NoEvidence EXCEPT !.resumeToken = TRUE] \in Evidence
      /\ [row.evidence EXCEPT !.resumeToken = FALSE] \in Evidence
    BY DEF NoEvidence, Evidence, NoRollback, RollbackTrace, RollbackTraceStatus, Id,
           DeploymentRow
<1>. QED
    BY <1>1 DEF TakenOver, Claimed, StartedRow, Snapshot, FailedRow, DeploymentRow,
                DeploymentStatus, ProviderOperation

PlansType == [Plan -> PlanRow]

LEMMA SetPlanType ==
    ASSUME plans \in PlansType, NEW p \in Plan, NEW s \in PlanStatus, SetPlan(p, s)
    PROVE  plans' \in PlansType
BY DEF PlansType, PlanRow, SetPlan

VersionsType == [Version -> VersionStatus]

LEMMA DemotedType ==
    ASSUME versions \in VersionsType, NEW p \in Plan
    PROVE  Demoted(p) \in VersionsType
BY DEF VersionsType, VersionStatus, Demoted

LEMMA IdleType == Idle \in AttemptState
BY DEF Idle, AttemptState, Step, Id, Error

\* The part of the type invariant that the worker's steps preserve
WorkerTypes ==
    /\ plans \in PlansType
    /\ versions \in VersionsType
    /\ deployments \in RowsType
    /\ points \in [Plan \X Plan \X ProviderDeploy -> PointRow]
    /\ attempts \in AttemptsType
    /\ jobs \in [Plan -> Job]
    /\ provider \in [ProviderDeploy -> [plan : Plan \cup {None}, state : ProviderState]]
    /\ faults \in 0..MaxFaults

LEMMA AttemptTypes ==
    ASSUME WorkerTypes, NEW p \in Plan, NEW a \in Slot, Attempt(p, a)
    PROVE  WorkerTypes'
<1>. USE DEF WorkerTypes, ledgerVars
<1>a. a \in Actor  BY DEF Actor
<1>b. attempts[p][a] \in AttemptState  BY <1>a, AttemptFieldTypes
<1>c. deployments[p] \in DeploymentRow  BY DEF RowsType
<1>1. CASE LoadPlan(p, a)
    <2>. DEFINE deployable == plans[p].status \in DeployStarting
    <2>1. \A b \in BOOLEAN :
            [attempts[p][a] EXCEPT !.pc = "load_row", !.ready = b] \in AttemptState
        BY <1>b DEF AttemptState, Step
    <2>2. deployable \in BOOLEAN  OBVIOUS
    <2>3. [attempts[p][a] EXCEPT !.pc = "load_row", !.ready = deployable] \in AttemptState
        <3>. HIDE DEF deployable
        <3>. QED  BY <2>1, <2>2
    <2>. QED  BY <1>1, <1>a, <2>3, SetAttemptType DEF LoadPlan
<1>2. CASE LoadRow(p, a)
    <2>1. [attempts[p][a] EXCEPT !.pc = "prepare", !.ready = FALSE] \in AttemptState
        BY <1>b DEF AttemptState, Step
    <2>. QED
        BY <1>2, <1>a, <1>c, <2>1, SetAttemptType, RaiseType, FollowType
        DEF LoadRow, Error, Step
<1>3. CASE Replay(p, a)
    <2>1. attempts' \in AttemptsType  BY <1>3, <1>a, GotoType DEF Replay, Step
    <2>2. plans' \in PlansType  BY <1>3, SetPlanType DEF Replay, PlanStatus
    <2>. QED  BY <1>3, <2>1, <2>2 DEF Replay
<1>4. CASE Prepare(p, a)
    <2>1. [attempts[p][a] EXCEPT !.pc = "start", !.ready = FALSE] \in AttemptState
        BY <1>b DEF AttemptState, Step
    <2>. QED  BY <1>4, <1>a, <2>1, SetAttemptType, RaiseType DEF Prepare, Error
<1>5. CASE StartDeployment(p, a)
    <2>1. TakenOver(deployments[p]) \in DeploymentRow
        BY <1>c, RowTypes DEF Id
    <2>2. attempts' \in AttemptsType
        BY <1>5, <1>a, <1>c, <2>1, FollowType, RaiseType DEF StartDeployment, Step, Error
    <2>3. plans' \in PlansType
        BY <1>5, SetPlanType DEF StartDeployment, ProjectPlan, PlanStatus
    <2>4. deployments' \in RowsType
        BY <1>5, <2>1, SetRowType DEF StartDeployment
    <2>. QED  BY <1>5, <2>2, <2>3, <2>4 DEF StartDeployment
<1>6. CASE ClaimMutation(p, a)
    <2>1. Claimed(deployments[p]) \in DeploymentRow
        BY <1>c, RowTypes DEF Id
    <2>2. deployments' \in RowsType
        BY <1>6, <2>1, SetRowType DEF ClaimMutation
    <2>3. attempts' \in AttemptsType
        BY <1>6, <1>a, GotoType, RaiseType DEF ClaimMutation, Step, Error
    <2>. QED  BY <1>6, <2>2, <2>3 DEF ClaimMutation
<1>7. CASE BeginDeploy(p, a)
    <2>1. PICK d \in ProviderDeploy :
            /\ provider' = [provider EXCEPT ![d] = [plan |-> p, state |-> "uploading"]]
            /\ SetAttempt(p, a, [attempts[p][a] EXCEPT !.pc = "record", !.id = d])
        BY <1>7 DEF BeginDeploy
    <2>2. [attempts[p][a] EXCEPT !.pc = "record", !.id = d] \in AttemptState
        BY <1>b DEF AttemptState, Step, Id
    <2>3. attempts' \in AttemptsType  BY <1>a, <2>1, <2>2, SetAttemptType
    <2>4. provider' \in [ProviderDeploy -> [plan : Plan \cup {None}, state : ProviderState]]
        BY <2>1 DEF ProviderState
    <2>. QED  BY <1>7, <2>3, <2>4 DEF BeginDeploy
<1>8. CASE RecordStarted(p, a)
    <2>1. [attempts[p][a] EXCEPT !.pc = "upload"] \in AttemptState
        BY <1>b DEF AttemptState, Step
    <2>2. StartedRow(deployments[p], attempts[p][a].id) \in DeploymentRow
        BY <1>b, <1>c, RowTypes DEF AttemptState
    <2>3. attempts' \in AttemptsType
        BY <1>8, <1>a, <2>1, SetAttemptType, RaiseType DEF RecordStarted, Error
    <2>4. deployments' \in RowsType
        BY <1>8, <2>2, SetRowType DEF RecordStarted
    <2>. QED  BY <1>8, <2>3, <2>4 DEF RecordStarted
<1>9. CASE MarkManual(p, a)
    <2>1. deployments' \in RowsType
        BY <1>9, <1>c, RowTypes, SetRowType DEF MarkManual, Id
    <2>2. attempts' \in AttemptsType
        BY <1>9, <1>a, RaiseType DEF MarkManual, Error
    <2>. QED  BY <1>9, <2>1, <2>2 DEF MarkManual
<1>. QED
    BY <1>1, <1>2, <1>3, <1>4, <1>5, <1>6, <1>7, <1>8, <1>9 DEF Attempt

LEMMA AdvanceTypes ==
    ASSUME WorkerTypes, NEW p \in Plan, NEW a \in Actor, Advance(p, a)
    PROVE  WorkerTypes'
<1>. USE DEF WorkerTypes, ledgerVars
<1>b. attempts[p][a] \in AttemptState  BY AttemptFieldTypes
<1>c. deployments[p] \in DeploymentRow  BY DEF RowsType
<1>1. CASE Reconcile(p, a)
    <2>1. [attempts[p][a] EXCEPT !.pc = "upload", !.token = FALSE] \in AttemptState
        BY <1>b DEF AttemptState, Step
    <2>2. attempts' \in AttemptsType
        BY <1>1, <2>1, SetAttemptType, GotoType, RaiseType DEF Reconcile, Step, Error
    <2>. QED  BY <1>1, <2>2 DEF Reconcile
<1>2. CASE Upload(p, a)
    <2>1. attempts' \in AttemptsType
        BY <1>2, GotoType, RaiseType DEF Upload, Step, Error
    <2>2. provider' \in [ProviderDeploy -> [plan : Plan \cup {None}, state : ProviderState]]
        BY <1>2 DEF Upload, ProviderState
    <2>. QED  BY <1>2, <2>1, <2>2 DEF Upload
<1>3. CASE MarkUpload(p, a)
    <2>1. attempts' \in AttemptsType
        BY <1>3, GotoType, RaiseType DEF MarkUpload, Step, Error
    <2>2. deployments' \in RowsType
        BY <1>3, <1>c, RowTypes, SetRowType DEF MarkUpload, Id
    <2>. QED  BY <1>3, <2>1, <2>2 DEF MarkUpload
<1>4. CASE Poll(p, a)
    <2>1. attempts' \in AttemptsType
        BY <1>4, GotoType, RaiseType DEF Poll, Step, Error
    <2>. QED  BY <1>4, <2>1 DEF Poll
<1>5. CASE MarkSucceeded(p, a)
    <2>1. Snapshot(deployments[p], attempts[p][a].id, "provider_succeeded") \in DeploymentRow
        BY <1>b, <1>c, RowTypes DEF AttemptState
    <2>2. deployments' \in RowsType
        BY <1>5, <2>1, SetRowType DEF MarkSucceeded
    <2>3. attempts' \in AttemptsType
        BY <1>5, GotoType, RaiseType DEF MarkSucceeded, Step, Error
    <2>. QED  BY <1>5, <2>2, <2>3 DEF MarkSucceeded
<1>6. CASE MarkPending(p, a)
    <2>1. Snapshot(deployments[p], attempts[p][a].id, "deploying") \in DeploymentRow
        BY <1>b, <1>c, RowTypes DEF AttemptState
    <2>2. deployments' \in RowsType
        BY <1>6, <2>1, SetRowType DEF MarkPending
    <2>3. attempts' \in AttemptsType
        BY <1>6, RaiseType DEF MarkPending, Error
    <2>. QED  BY <1>6, <2>2, <2>3 DEF MarkPending
<1>7. CASE MarkFailed(p, a)
    <2>1. FailedRow(deployments[p], attempts[p][a].error) \in DeploymentRow
        BY <1>b, <1>c, RowTypes DEF AttemptState, Id
    <2>2. deployments' \in RowsType
        BY <1>7, <2>1, SetRowType DEF MarkFailed
    <2>3. plans' \in PlansType
        BY <1>7, SetPlanType DEF MarkFailed, PlanStatus
    <2>4. versions' \in VersionsType
        BY <1>7, DemotedType DEF MarkFailed
    <2>5. attempts' \in AttemptsType
        BY <1>7, GotoType DEF MarkFailed, Step
    <2>. QED  BY <1>7, <2>2, <2>3, <2>4, <2>5 DEF MarkFailed
<1>8. CASE Settle(p, a)
    <2>1. attempts' \in AttemptsType
        BY <1>8, IdleType, SetAttemptType DEF Settle
    <2>2. jobs' \in [Plan -> Job]
        <3>1. jobs[p] \in Job  OBVIOUS
        <3>2. jobs[p].made + 1 \in Nat  BY <3>1 DEF Job
        <3>4. CASE jobs[p].holder = a
            <4>. DEFINE next(retry) ==
                    [jobs[p] EXCEPT !.state = IF retry THEN "waiting" ELSE "done",
                                    !.made = jobs[p].made + 1,
                                    !.holder = None]
            <4>1. \A retry : next(retry) \in Job
                BY <3>1, <3>2 DEF Job, JobState
            <4>. DEFINE again == /\ attempts[p][a].error \notin TerminalError \cup {"none"}
                                 /\ ~attempts[p][a].final
            <4>2. jobs' = [jobs EXCEPT ![p] = next(again)]
                BY <1>8, <3>4 DEF Settle
            <4>. HIDE DEF next, again
            <4>. QED  BY <4>1, <4>2
        <3>5. CASE jobs[p].holder # a
            <4>1. jobs' = jobs  BY <1>8, <3>5 DEF Settle
            <4>. QED  BY <4>1
        <3>. QED  BY <3>4, <3>5
    <2>. QED  BY <1>8, <2>1, <2>2 DEF Settle
<1>. QED
    BY <1>1, <1>2, <1>3, <1>4, <1>5, <1>6, <1>7, <1>8 DEF Advance

LEMMA FaultTypes ==
    ASSUME WorkerTypes, NEW p \in Plan, NEW a \in Actor, Fault(p, a)
    PROVE  WorkerTypes'
<1>. USE DEF WorkerTypes, ledgerVars
<1>b. attempts[p][a] \in AttemptState  BY AttemptFieldTypes
<1>c. deployments[p] \in DeploymentRow  BY DEF RowsType
<1>d. faults < MaxFaults /\ faults' = faults + 1 => faults' \in 0..MaxFaults
    BY DeployWorkerAssumption
<1>e. [attempts[p][a] EXCEPT !.pc = "settle", !.error = "other"] \in AttemptState
    BY <1>b DEF AttemptState, Step, Error
<1>1. CASE MediaUnreadable(p, a)
    BY <1>1, <1>d, RaiseType DEF MediaUnreadable, Error
<1>2. CASE NotConfigured(p, a)
    BY <1>2, <1>d, RaiseType DEF NotConfigured, Error
<1>3. CASE BeginFails(p, a)
    <2>1. attempts' \in AttemptsType
        BY <1>3, GotoType DEF BeginFails, Step
    <2>2. provider' \in [ProviderDeploy -> [plan : Plan \cup {None}, state : ProviderState]]
        BY <1>3 DEF BeginFails, ProviderState
    <2>. QED  BY <1>3, <1>d, <2>1, <2>2 DEF BeginFails
<1>4. CASE RecordFails(p, a)
    <2>1. attempts' \in AttemptsType
        BY <1>4, GotoType DEF RecordFails, Step
    <2>2. StartedRow(deployments[p], attempts[p][a].id) \in DeploymentRow
        BY <1>b, <1>c, RowTypes DEF AttemptState
    <2>3. deployments' \in RowsType
        BY <1>4, <2>2, SetRowType DEF RecordFails
    <2>. QED  BY <1>4, <1>d, <2>1, <2>3 DEF RecordFails
<1>5. CASE MarkManualFails(p, a)
    BY <1>5, <1>d, RaiseType DEF MarkManualFails, Error
<1>6. CASE CallFails(p, a)
    <2>1. attempts' \in AttemptsType
        BY <1>6, <1>e, SetAttemptType, RaiseType DEF CallFails, Error
    <2>. QED  BY <1>6, <1>d, <2>1 DEF CallFails
<1>7. CASE JobRunFails(p, a)
    BY <1>7, <1>d, <1>e, SetAttemptType DEF JobRunFails
<1>8. CASE Crash(p, a)
    BY <1>8, <1>d, IdleType, SetAttemptType DEF Crash
<1>. QED
    BY <1>1, <1>2, <1>3, <1>4, <1>5, <1>6, <1>7, <1>8 DEF Fault

LEMMA QueueTypes ==
    ASSUME WorkerTypes, NEW p \in Plan,
           \/ \E a \in Slot : Deliver(p, a)
           \/ Stall(p)
           \/ ScanPicks(p)
           \/ \E d \in ProviderDeploy : Finish(d)
    PROVE  WorkerTypes'
<1>. USE DEF WorkerTypes, ledgerVars
<1>1. ASSUME NEW a \in Slot, Deliver(p, a)
      PROVE  WorkerTypes'
    <2>. DEFINE final == jobs[p].made + 1 >= MaxAttempts
    <2>1. \A b \in BOOLEAN : [Idle EXCEPT !.pc = "load_plan", !.final = b] \in AttemptState
        BY DEF Idle, AttemptState, Step, Id, Error
    <2>2. final \in BOOLEAN  OBVIOUS
    <2>3. [Idle EXCEPT !.pc = "load_plan", !.final = final] \in AttemptState
        <3>. HIDE DEF final
        <3>. QED  BY <2>1, <2>2
    <2>4. attempts' \in AttemptsType
        BY <1>1, <2>3, SetAttemptType DEF Deliver, Actor
    <2>5. jobs' \in [Plan -> Job]
        BY <1>1 DEF Deliver, Job, JobState
    <2>. QED  BY <1>1, <2>4, <2>5 DEF Deliver
<1>2. CASE Stall(p)
    <2>1. jobs[p] \in Job  OBVIOUS
    <2>2. [jobs[p] EXCEPT !.state = "done", !.holder = None] \in Job
        BY <2>1 DEF Job, JobState
    <2>3. ASSUME ~StalledOut(jobs[p])
          PROVE  [jobs[p] EXCEPT !.state = "waiting", !.stalls = @ + 1, !.holder = None] \in Job
        <3>1. jobs[p].stalls \in 0..MaxStalls  BY <2>1 DEF Job
        <3>2. jobs[p].stalls + 1 \in 0..MaxStalls
            BY <2>3, <3>1, DeployWorkerAssumption DEF StalledOut
        <3>. QED  BY <2>1, <3>2 DEF Job, JobState
    <2>4. jobs' \in [Plan -> Job]
        BY <1>2, <2>2, <2>3 DEF Stall
    <2>. QED  BY <1>2, <2>4 DEF Stall
<1>3. CASE ScanPicks(p)
    <2>1. deployments[p] \in DeploymentRow  BY DEF RowsType
    <2>2. [Idle EXCEPT !.pc = "reconcile",
                       !.id = deployments[p].providerDeployId,
                       !.token = deployments[p].evidence.resumeToken] \in AttemptState
        BY <2>1 DEF Idle, AttemptState, Step, Error, DeploymentRow, Evidence
    <2>. QED  BY <1>3, <2>2, SetAttemptType DEF ScanPicks, Actor
<1>4. ASSUME NEW d \in ProviderDeploy, Finish(d)
      PROVE  WorkerTypes'
    BY <1>4 DEF Finish, ProviderState
<1>. QED  BY <1>1, <1>2, <1>3, <1>4

LEMMA RequestTypes ==
    ASSUME RequestsTypeOK, NEW r \in Request, NEW q \in RequestState, SetRequest(r, q)
    PROVE  RequestsTypeOK'
BY DEF RequestsTypeOK, SetRequest

LEMMA NoRequestType == NoRequest \in RequestState
BY DEF NoRequest, RequestState, RequestStep, Readiness

\* The API's part of the state
PlanningTypes ==
    /\ plans \in PlansType
    /\ versions \in VersionsType
    /\ points \in [Plan \X Plan \X ProviderDeploy -> PointRow]
    /\ RequestsTypeOK

LEMMA PlanningStepTypes ==
    ASSUME WorkerTypes, RequestsTypeOK, PlanningNext
    PROVE  PlanningTypes' /\ UNCHANGED deployments
<1>. USE DEF WorkerTypes, PlanningTypes, ledgerVars
<1>a. \A r \in Request : requests[r] \in RequestState  BY DEF RequestsTypeOK
<1>1. ASSUME NEW p \in Plan, NEW items \in SUBSET Version, CreatePlan(p, items)
      PROVE  PlanningTypes' /\ UNCHANGED deployments
    <2>1. [status |-> "draft", items |-> items] \in PlanRow  BY DEF PlanRow, PlanStatus
    <2>2. plans' \in PlansType  BY <1>1, <2>1 DEF CreatePlan, PlansType
    <2>. QED  BY <1>1, <2>2 DEF CreatePlan, RequestsTypeOK
<1>2. ASSUME NEW p \in Plan, NEW r \in Request, StartPreflight(r, p)
      PROVE  PlanningTypes' /\ UNCHANGED deployments
    <2>1. [NoRequest EXCEPT !.step = "pick_source", !.plan = p] \in RequestState
        BY NoRequestType DEF RequestState, RequestStep
    <2>. QED  BY <1>2, <2>1, RequestTypes DEF StartPreflight
<1>3. ASSUME NEW p \in Plan, ApproveDeploy(p)
      PROVE  PlanningTypes' /\ UNCHANGED deployments
    <2>1. plans' \in PlansType  BY <1>3, SetPlanType DEF ApproveDeploy, PlanStatus
    <2>2. versions' \in VersionsType
        BY <1>3 DEF ApproveDeploy, Promoted, VersionsType, VersionStatus
    <2>. QED  BY <1>3, <2>1, <2>2 DEF ApproveDeploy, RequestsTypeOK
<1>4. ASSUME NEW p \in Plan, CancelPlan(p)
      PROVE  PlanningTypes' /\ UNCHANGED deployments
    <2>1. plans' \in PlansType  BY <1>4, SetPlanType DEF CancelPlan, PlanStatus
    <2>2. versions' \in VersionsType  BY <1>4, DemotedType DEF CancelPlan
    <2>. QED  BY <1>4, <2>1, <2>2 DEF CancelPlan, RequestsTypeOK
<1>5. ASSUME NEW r \in Request, PickSource(r)
      PROVE  PlanningTypes' /\ UNCHANGED deployments
    <2>1. [requests[r] EXCEPT !.step = "gather"] \in RequestState
        BY <1>a DEF RequestState, RequestStep
    <2>2. ASSUME NEW q \in RollbackSourcesFor(requests[r].plan)
          PROVE  [requests[r] EXCEPT !.step = "insert_point",
                        !.source = <<q, deployments[q].providerDeployId>>] \in RequestState
        <3>1. q \in Plan /\ deployments[q].providerDeployId # None
            BY <2>2 DEF RollbackSourcesFor, SourceWithStatus
        <3>2. deployments[q].providerDeployId \in ProviderDeploy
            BY <3>1 DEF RowsType, DeploymentRow, Id
        <3>. QED  BY <1>a, <3>1, <3>2 DEF RequestState, RequestStep
    <2>3. RequestsTypeOK'
        BY <1>5, <2>1, <2>2, RequestTypes DEF PickSource
    <2>. QED  BY <1>5, <2>3 DEF PickSource
<1>6. ASSUME NEW r \in Request, InsertPoint(r)
      PROVE  PlanningTypes' /\ UNCHANGED deployments
    <2>1. [requests[r] EXCEPT !.step = "gather", !.source = None] \in RequestState
        BY <1>a DEF RequestState, RequestStep
    <2>2. RequestsTypeOK'  BY <1>6, <2>1, RequestTypes DEF InsertPoint
    <2>3. [NoPoint EXCEPT !.status = "prepared"] \in PointRow
        BY DEF NoPoint, PointRow, PointStatus, Id
    <2>4. points' \in [Plan \X Plan \X ProviderDeploy -> PointRow]
        BY <1>6, <2>3 DEF InsertPoint
    <2>. QED  BY <1>6, <2>2, <2>4 DEF InsertPoint
<1>7. ASSUME NEW r \in Request, GatherEvidence(r)
      PROVE  PlanningTypes' /\ UNCHANGED deployments
    <2>1. \A x \in Readiness :
            [requests[r] EXCEPT !.step = "persist", !.readiness = x] \in RequestState
        BY <1>a DEF RequestState, RequestStep
    <2>2. RequestsTypeOK'  BY <1>7, <2>1, RequestTypes DEF GatherEvidence
    <2>. QED  BY <1>7, <2>2 DEF GatherEvidence
<1>8. ASSUME NEW r \in Request, PersistPreflight(r)
      PROVE  PlanningTypes' /\ UNCHANGED deployments
    <2>. DEFINE p == requests[r].plan
    <2>1. p \in Plan  BY <1>8 DEF PersistPreflight, Await
    <2>2. RequestsTypeOK'  BY <1>8, NoRequestType, RequestTypes DEF PersistPreflight
    <2>3. versions' \in VersionsType  BY <1>8, <2>1, DemotedType DEF PersistPreflight
    <2>4. plans' \in PlansType
        <3>1. requests[r].readiness \in PlanStatus
            BY <1>a DEF RequestState, Readiness, PlanStatus
        <3>. QED  BY <1>8, <2>1, <3>1, SetPlanType DEF PersistPreflight
    <2>. QED  BY <1>8, <2>2, <2>3, <2>4 DEF PersistPreflight
<1>9. ASSUME NEW r \in Request, DropRequest(r)
      PROVE  PlanningTypes' /\ UNCHANGED deployments
    BY <1>9, NoRequestType, RequestTypes DEF DropRequest
<1>. QED
    BY <1>1, <1>2, <1>3, <1>4, <1>5, <1>6, <1>7, <1>8, <1>9 DEF PlanningNext

LEMMA TypeParts ==
    /\ PipelineTypeOK <=> WorkerTypes /\ RequestsTypeOK
    /\ PipelineTypeOK' <=> WorkerTypes' /\ RequestsTypeOK'
BY DEF PipelineTypeOK, TypeOK, WorkerTypes, LedgerTypeOK, PlansType, VersionsType, RowsType,
       AttemptsType

LEMMA InitTypes ==
    ASSUME Init
    PROVE  PipelineTypeOK
<1>1. NoEvidence \in Evidence
    BY DEF NoEvidence, Evidence, NoRollback, RollbackTrace, RollbackTraceStatus, Id
<1>2. NoDeployment \in DeploymentRow
    BY <1>1 DEF NoDeployment, DeploymentRow, DeploymentStatus, ProviderOperation, Id
<1>3. NoPoint \in PointRow
    BY DEF NoPoint, PointRow, PointStatus, Id
<1>4. [status |-> "absent", items |-> {}] \in PlanRow
    BY DEF PlanRow, PlanStatus
<1>5. LedgerTypeOK
    BY <1>2, <1>3, <1>4 DEF Init, LedgerTypeOK, VersionStatus
<1>6. attempts \in [Plan -> [Actor -> AttemptState]]
    BY IdleType DEF Init, WorkerInit
<1>7. NoJob \in Job
    BY DeployWorkerAssumption DEF NoJob, Job, JobState
<1>8. TypeOK
    BY <1>5, <1>6, <1>7, DeployWorkerAssumption
    DEF Init, WorkerInit, TypeOK, ProviderState
<1>. QED  BY <1>8, NoRequestType DEF Init, PlanningInit, RequestsTypeOK, PipelineTypeOK

\* What an API request does, with the worker's state left alone
LEMMA RequestStepTypes ==
    ASSUME WorkerTypes, RequestsTypeOK, NEW r \in Request,
           \/ \E p \in Plan : StartDeployRequest(r, p)
           \/ EnqueueDeploy(r)
           \/ ProjectDeploying(r)
    PROVE  WorkerTypes' /\ RequestsTypeOK'
<1>. USE DEF WorkerTypes, ledgerVars, workerVars
<1>a. requests[r] \in RequestState  BY DEF RequestsTypeOK
<1>1. ASSUME NEW p \in Plan, StartDeployRequest(r, p)
      PROVE  WorkerTypes' /\ RequestsTypeOK'
    <2>1. [NoRequest EXCEPT !.step = "enqueue", !.plan = p] \in RequestState
        BY NoRequestType DEF RequestState, RequestStep
    <2>. QED  BY <1>1, <2>1, RequestTypes DEF StartDeployRequest
<1>2. CASE EnqueueDeploy(r)
    <2>1. [requests[r] EXCEPT !.step = "project"] \in RequestState
        BY <1>a DEF RequestState, RequestStep
    <2>2. [NoJob EXCEPT !.state = "waiting"] \in Job
        BY DeployWorkerAssumption DEF NoJob, Job, JobState
    <2>3. jobs' \in [Plan -> Job]  BY <1>2, <2>2 DEF EnqueueDeploy
    <2>. QED  BY <1>2, <2>1, <2>3, RequestTypes DEF EnqueueDeploy
<1>3. CASE ProjectDeploying(r)
    <2>1. plans' \in PlansType
        BY <1>3, SetPlanType DEF ProjectDeploying, Await, PlanStatus
    <2>. QED  BY <1>3, <2>1, NoRequestType, RequestTypes DEF ProjectDeploying
<1>. QED  BY <1>1, <1>2, <1>3

LEMMA WorkerStepTypes ==
    ASSUME WorkerTypes, WorkerNext
    PROVE  WorkerTypes'
<1>1. CASE \E p \in Plan, a \in Slot : Deliver(p, a)    BY <1>1, QueueTypes
<1>2. CASE \E p \in Plan, a \in Slot : Attempt(p, a)    BY <1>2, AttemptTypes
<1>3. CASE \E p \in Plan, a \in Actor : Advance(p, a)   BY <1>3, AdvanceTypes
<1>4. CASE \E p \in Plan, a \in Actor : Fault(p, a)     BY <1>4, FaultTypes
<1>5. CASE \E p \in Plan : Stall(p) \/ ScanPicks(p)     BY <1>5, QueueTypes
<1>6. CASE \E d \in ProviderDeploy : Finish(d)
    BY <1>6 DEF WorkerTypes, Finish, ledgerVars, ProviderState
<1>. QED  BY <1>1, <1>2, <1>3, <1>4, <1>5, <1>6 DEF WorkerNext

LEMMA NextTypes ==
    ASSUME PipelineTypeOK, [Next]_allVars
    PROVE  PipelineTypeOK'
<1>. USE TypeParts
<1>1. CASE PlanningNext /\ UNCHANGED workerVars
    <2>1. PlanningTypes' /\ UNCHANGED deployments  BY <1>1, PlanningStepTypes
    <2>. QED  BY <1>1, <2>1 DEF PlanningTypes, WorkerTypes, workerVars
<1>2. ASSUME NEW r \in Request,
             \/ \E p \in Plan : StartDeployRequest(r, p)
             \/ EnqueueDeploy(r)
             \/ ProjectDeploying(r)
      PROVE  PipelineTypeOK'
    BY <1>2, RequestStepTypes
<1>3. CASE WorkerNext /\ UNCHANGED requests
    BY <1>3, WorkerStepTypes DEF RequestsTypeOK
<1>4. CASE UNCHANGED allVars
    BY <1>4 DEF allVars, vars, ledgerVars, workerVars, WorkerTypes, RequestsTypeOK
<1>. QED  BY <1>1, <1>2, <1>3, <1>4 DEF Next

\* Every row of the ledger, every job, attempt and request stays within the
\* vocabulary the schema, the handler and the queue give it, whatever is retried,
\* crashes or runs twice; in particular no job stalls more often than allowed.
THEOREM TypeCorrect == Spec => []PipelineTypeOK
<1>1. Init => PipelineTypeOK  BY InitTypes
<1>2. PipelineTypeOK /\ [Next]_allVars => PipelineTypeOK'  BY NextTypes
<1>. QED  BY <1>1, <1>2, PTL DEF Spec

----------------------------------------------------------------------------
(* Without overlap: ZombieStalls = FALSE, so the queue takes an attempt for *)
(* stalled only when it is dead.  The inductive invariant ties the          *)
(* provider's deploys to the ledger row, the row to the plan, and both to   *)
(* the one attempt that holds the job.                                      *)

\* Steps at which a provider deploy is at hand
WithId == {"record", "reconcile", "upload", "mark_upload", "poll", "succeed", "pend"}

\* Steps the scan never takes
AttemptOnly ==
    {"load_plan", "load_row", "replay", "prepare", "start", "claim", "begin",
     "record", "mark_manual"}

\* The plan is deploying and nothing was begun for it yet.
Fresh(p) ==
    /\ Begun(p) = {}
    /\ deployments[p].providerDeployId = None
    /\ plans[p].status = "deploying"

\* An attempt runs only while it holds the job, the id it has was begun for its
\* plan, and between its claim and its begin it owns a fresh row.
SlotInv(p, a) ==
    LET st == attempts[p][a]
        row == deployments[p]
    IN  /\ st.pc # "idle" => jobs[p].state = "active" /\ jobs[p].holder = a
        /\ st.id \in Begun(p) \cup {None}
        /\ st.pc \in WithId => st.id # None
        /\ st.pc = "begin" => Fresh(p) /\ row.operation = "in_flight"
        /\ st.pc = "claim" /\ row.operation = "not_started" => Fresh(p)

\* The scan works on a deploy that was begun, and fails it on the provider's word.
ScanInv(p) ==
    LET st == attempts[p][Scan]
    IN  /\ st.pc \notin AttemptOnly
        /\ st.id \in Begun(p) \cup {None}
        /\ st.pc # "idle" => st.id # None
        /\ st.pc = "catch" => st.error = "terminal"

\* What was begun is known to the ledger, or in flight, or the plan is dead.
RowInv(p) ==
    LET row == deployments[p]
    IN  /\ row.providerDeployId \in Begun(p) \cup {None}
        /\ row.status \in {"absent", "deploying", "provider_succeeded", "failed"}
        /\ \A d, e \in Begun(p) : d = e
        /\ Begun(p) # {} =>
            /\ plans[p].status \in {"deploying", "live", "failed"}
            /\ row.operation \in {"not_started", "failed"} /\ row.providerDeployId = None
                => plans[p].status = "failed"

PlanInv(p) == RowInv(p) /\ ScanInv(p) /\ \A a \in Slot : SlotInv(p, a)

ProviderInv ==
    \A d \in ProviderDeploy : provider[d].state = "absent" => provider[d].plan = None

OneOwner == ProviderInv /\ \A p \in Plan : PlanInv(p)

IInv == PipelineTypeOK /\ OneOwner

\* What a step of actor a on plan p leaves alone elsewhere
Elsewhere(p) ==
    \A q \in Plan \ {p} :
        /\ attempts'[q] = attempts[q]
        /\ jobs'[q] = jobs[q]
        /\ deployments'[q] = deployments[q]
        /\ plans'[q].status = plans[q].status
        /\ Begun(q)' = Begun(q)

Moved(p, a) ==
    /\ \A q \in Plan \ {p} : attempts'[q] = attempts[q]
    /\ \A b \in Actor \ {a} : attempts'[p][b] = attempts[p][b]

LEMMA SetAttemptFacts ==
    ASSUME attempts \in AttemptsType, NEW p \in Plan, NEW a \in Actor, NEW st,
           SetAttempt(p, a, st)
    PROVE  Moved(p, a) /\ attempts'[p][a] = st
BY DEF AttemptsType, SetAttempt, Moved

LEMMA GotoFacts ==
    ASSUME attempts \in AttemptsType, NEW p \in Plan, NEW a \in Actor, NEW s, Goto(p, a, s)
    PROVE  /\ Moved(p, a)
           /\ attempts'[p][a].pc = s
           /\ attempts'[p][a].id = attempts[p][a].id
           /\ attempts'[p][a].error = attempts[p][a].error
<1>1. attempts[p][a] \in AttemptState  BY AttemptFieldTypes
<1>. QED  BY <1>1, SetAttemptFacts DEF Goto, AttemptState

LEMMA RaiseFacts ==
    ASSUME attempts \in AttemptsType, NEW p \in Plan, NEW a \in Actor, NEW e,
           Raise(p, a, e)
    PROVE  /\ Moved(p, a)
           /\ attempts'[p][a].pc = IF Caught(a, attempts[p][a], e) THEN "catch" ELSE "settle"
           /\ attempts'[p][a].id = attempts[p][a].id
           /\ attempts'[p][a].error = e
<1>1. attempts[p][a] \in AttemptState  BY AttemptFieldTypes
<1>. DEFINE st == Raised(a, attempts[p][a], e)
<1>2. /\ st.pc = IF Caught(a, attempts[p][a], e) THEN "catch" ELSE "settle"
      /\ st.id = attempts[p][a].id
      /\ st.error = e
    BY <1>1 DEF Raised, AttemptState
<1>3. SetAttempt(p, a, st)  BY DEF Raise
<1>. HIDE DEF st
<1>. QED  BY <1>2, <1>3, SetAttemptFacts

LEMMA FollowFacts ==
    ASSUME attempts \in AttemptsType, NEW p \in Plan, NEW a \in Actor, NEW row, NEW s,
           Follow(p, a, row, s)
    PROVE  /\ Moved(p, a)
           /\ attempts'[p][a].pc \in {"catch", "settle", "replay", "reconcile", "mark_manual", s}
           /\ attempts'[p][a].pc = "reconcile" /\ s # "reconcile" =>
                /\ attempts'[p][a].id = row.providerDeployId
                /\ row.providerDeployId # None
           /\ attempts'[p][a].pc # "reconcile" => attempts'[p][a].id = attempts[p][a].id
           /\ attempts'[p][a].pc = s =>
                \/ s \in {"catch", "settle", "replay", "reconcile", "mark_manual"}
                \/ Decision(row) = "start"
<1>1. attempts[p][a] \in AttemptState  BY AttemptFieldTypes
<1>2. CASE Decision(row) = "manual"
    BY <1>2, RaiseFacts DEF Follow
<1>3. CASE Decision(row) = "start"
    <2>1. Goto(p, a, s)  BY <1>3 DEF Follow
    <2>. QED  BY <1>3, <2>1, GotoFacts
<1>4. CASE Decision(row) \in {"replay", "reconcile", "mark_manual"}
    <2>. DEFINE st == [attempts[p][a] EXCEPT
                !.pc = Decision(row),
                !.ready = Decision(row) = "replay" /\ row.status \in Live,
                !.id = IF Decision(row) = "reconcile" THEN row.providerDeployId ELSE @,
                !.token = Decision(row) = "reconcile" /\ row.evidence.resumeToken]
    <2>1. SetAttempt(p, a, st)  BY <1>4 DEF Follow
    <2>2. /\ st.pc = Decision(row)
          /\ st.id = IF Decision(row) = "reconcile" THEN row.providerDeployId
                                                    ELSE attempts[p][a].id
        BY <1>1 DEF AttemptState
    <2>. HIDE DEF st
    <2>. QED  BY <1>4, <2>1, <2>2, SetAttemptFacts, DecisionRange
<1>. QED  BY <1>2, <1>3, <1>4, DecisionRange

LEMMA SetRowFacts ==
    ASSUME deployments \in RowsType, NEW p \in Plan, NEW row, SetRow(p, row)
    PROVE  /\ deployments'[p] = row
           /\ \A q \in Plan \ {p} : deployments'[q] = deployments[q]
BY DEF RowsType, SetRow

LEMMA SetPlanFacts ==
    ASSUME plans \in PlansType, NEW p \in Plan, NEW s, SetPlan(p, s)
    PROVE  /\ plans'[p].status = s
           /\ \A q \in Plan \ {p} : plans'[q] = plans[q]
BY DEF PlansType, PlanRow, SetPlan

\* A step on plan p keeps the invariant of the other plans ...
LEMMA ElsewhereKept ==
    ASSUME NEW p \in Plan, Elsewhere(p), NEW q \in Plan \ {p}, PlanInv(q)
    PROVE  PlanInv(q)'
BY DEF Elsewhere, PlanInv, RowInv, ScanInv, SlotInv, Fresh

\* ... and a step of one actor that of the plan's other actors.
LEMMA SlotFrame ==
    ASSUME NEW p \in Plan, NEW a \in Slot, PlanInv(p),
           \A b \in Slot \ {a} : At(p, b, "idle"),
           \A b \in Actor \ {a} : attempts'[p][b] = attempts[p][b],
           Begun(p) \subseteq Begun(p)', RowInv(p)', SlotInv(p, a)'
    PROVE  PlanInv(p)'
<1>1. Scan \in Actor \ {a}  BY DeployWorkerAssumption DEF Actor
<1>2. ScanInv(p)'  BY <1>1 DEF PlanInv, ScanInv
<1>3. ASSUME NEW b \in Slot \ {a}
      PROVE  SlotInv(p, b)'
    <2>1. attempts'[p][b] = attempts[p][b] /\ attempts[p][b].pc = "idle"
        BY DEF Actor, At
    <2>2. attempts[p][b].id \in Begun(p) \cup {None}
        BY DEF PlanInv, SlotInv
    <2>. QED  BY <2>1, <2>2 DEF SlotInv, WithId
<1>. QED  BY <1>2, <1>3 DEF PlanInv

LEMMA ScanFrame ==
    ASSUME NEW p \in Plan, PlanInv(p), Begun(p) # {}, Begun(p)' = Begun(p),
           \A b \in Actor \ {Scan} : attempts'[p][b] = attempts[p][b],
           jobs'[p] = jobs[p],
           deployments'[p].operation = "not_started" => deployments[p].operation = "not_started",
           RowInv(p)', ScanInv(p)'
    PROVE  PlanInv(p)'
<1>1. ASSUME NEW b \in Slot
      PROVE  SlotInv(p, b)'
    <2>1. b \in Actor \ {Scan}  BY DeployWorkerAssumption DEF Actor
    <2>2. SlotInv(p, b)  BY DEF PlanInv
    <2>. QED  BY <2>1, <2>2 DEF SlotInv, Fresh
<1>. QED  BY <1>1 DEF PlanInv

\* A step that begins nothing at the provider ...
NothingBegun ==
    \A d \in ProviderDeploy :
        /\ provider'[d].plan = provider[d].plan
        /\ provider'[d].state = "absent" => provider[d].state = "absent"

\* ... and writes at most the row and the status of one plan, or nothing at all.
OnePlan(p) ==
    /\ NothingBegun
    /\ \A q \in Plan \ {p} :
        /\ deployments'[q] = deployments[q]
        /\ plans'[q].status = plans[q].status

LEMMA SlotStep ==
    ASSUME OneOwner, NEW p \in Plan, NEW a \in Slot, ~At(p, a, "idle"),
           Moved(p, a), OnePlan(p), UNCHANGED jobs, RowInv(p)', SlotInv(p, a)'
    PROVE  OneOwner'
<1>1. PlanInv(p)  BY DEF OneOwner
<1>2. ProviderInv'  BY DEF OneOwner, ProviderInv, OnePlan, NothingBegun
<1>3. \A q \in Plan : Begun(q)' = Begun(q)  BY DEF Begun, OnePlan, NothingBegun
<1>4. Elsewhere(p)  BY <1>3 DEF Elsewhere, Moved, OnePlan
<1>5. \A b \in Slot \ {a} : At(p, b, "idle")
    BY <1>1 DEF PlanInv, SlotInv, At
<1>6. PlanInv(p)'  BY <1>1, <1>3, <1>5, SlotFrame DEF Moved
<1>7. \A q \in Plan \ {p} : PlanInv(q)'  BY <1>4, ElsewhereKept DEF OneOwner
<1>. QED  BY <1>2, <1>6, <1>7 DEF OneOwner

LEMMA ScanStep ==
    ASSUME OneOwner, NEW p \in Plan, Moved(p, Scan), OnePlan(p), UNCHANGED jobs,
           Begun(p) # {}, RowInv(p)', ScanInv(p)',
           deployments'[p].operation = "not_started" => deployments[p].operation = "not_started"
    PROVE  OneOwner'
<1>1. PlanInv(p)  BY DEF OneOwner
<1>2. ProviderInv'  BY DEF OneOwner, ProviderInv, OnePlan, NothingBegun
<1>3. \A q \in Plan : Begun(q)' = Begun(q)  BY DEF Begun, OnePlan, NothingBegun
<1>4. Elsewhere(p)  BY <1>3 DEF Elsewhere, Moved, OnePlan
<1>5. PlanInv(p)'  BY <1>1, <1>3, ScanFrame DEF Moved, OnePlan
<1>6. \A q \in Plan \ {p} : PlanInv(q)'  BY <1>4, ElsewhereKept DEF OneOwner
<1>. QED  BY <1>2, <1>5, <1>6 DEF OneOwner

Quiet ==
    /\ NothingBegun
    /\ UNCHANGED <<deployments, jobs>>
    /\ \A p \in Plan : plans'[p].status = plans[p].status

LEMMA QuietSlot ==
    ASSUME OneOwner, NEW p \in Plan, NEW a \in Slot, ~At(p, a, "idle"),
           Moved(p, a), Quiet,
           attempts'[p][a].pc \notin {"claim", "begin"},
           attempts'[p][a].id \in {attempts[p][a].id, deployments[p].providerDeployId, None},
           attempts'[p][a].pc \in WithId => attempts'[p][a].id # None
    PROVE  OneOwner'
<1>1. PlanInv(p)  BY DEF OneOwner
<1>2. Begun(p)' = Begun(p)  BY DEF Begun, NothingBegun, Quiet
<1>3. RowInv(p)'  BY <1>1, <1>2 DEF PlanInv, RowInv, Quiet
<1>4. SlotInv(p, a)'  BY <1>1, <1>2 DEF PlanInv, RowInv, SlotInv, At, Quiet
<1>5. OnePlan(p)  BY DEF OnePlan, Quiet
<1>. QED  BY <1>3, <1>4, <1>5, SlotStep DEF Quiet

LEMMA QuietScan ==
    ASSUME OneOwner, NEW p \in Plan, Moved(p, Scan), Quiet, Begun(p) # {},
           attempts'[p][Scan].pc \notin AttemptOnly,
           attempts'[p][Scan].id \in
                {attempts[p][Scan].id, deployments[p].providerDeployId, None},
           attempts'[p][Scan].pc # "idle" => attempts'[p][Scan].id # None,
           attempts'[p][Scan].pc = "catch" => attempts'[p][Scan].error = "terminal"
    PROVE  OneOwner'
<1>1. PlanInv(p)  BY DEF OneOwner
<1>2. Begun(p)' = Begun(p)  BY DEF Begun, NothingBegun, Quiet
<1>3. RowInv(p)'  BY <1>1, <1>2 DEF PlanInv, RowInv, Quiet
<1>4. ScanInv(p)'  BY <1>1, <1>2 DEF PlanInv, RowInv, ScanInv
<1>5. OnePlan(p)  BY DEF OnePlan, Quiet
<1>. QED  BY <1>3, <1>4, <1>5, ScanStep DEF Quiet

\* The provider accepts a deploy: the attempt owned a row nothing was begun for.
LEMMA BeginStep ==
    ASSUME OneOwner, NEW p \in Plan, NEW a \in Slot, At(p, a, "begin"),
           provider \in [ProviderDeploy -> [plan : Plan \cup {None}, state : ProviderState]],
           NEW d \in ProviderDeploy, provider[d].state = "absent",
           provider' = [provider EXCEPT ![d] = [plan |-> p, state |-> "uploading"]],
           Moved(p, a), UNCHANGED <<jobs, plans, deployments>>,
           attempts'[p][a].pc \in {"record", "mark_manual"},
           attempts'[p][a].id \in {d, attempts[p][a].id},
           attempts'[p][a].pc = "record" => attempts'[p][a].id = d
    PROVE  OneOwner'
<1>1. PlanInv(p) /\ ProviderInv  BY DEF OneOwner
<1>2. Begun(p) = {}  BY <1>1 DEF PlanInv, SlotInv, At, Fresh
<1>3. provider[d].plan = None  BY <1>1 DEF ProviderInv
<1>4. Begun(p)' = {d}  BY <1>2 DEF Begun
<1>5. \A q \in Plan \ {p} : Begun(q)' = Begun(q)
    BY <1>3, NoneIsNoId DEF Begun
<1>6. ProviderInv'  BY <1>1 DEF ProviderInv
<1>7. Elsewhere(p)  BY <1>5 DEF Elsewhere, Moved
<1>8. \A b \in Slot \ {a} : At(p, b, "idle")
    BY <1>1 DEF PlanInv, SlotInv, At
<1>9. attempts[p][a].id = None /\ d # None
    BY <1>1, <1>2, NoneIsNoId DEF PlanInv, SlotInv
<1>10. SlotInv(p, a)'  BY <1>1, <1>4, <1>9 DEF PlanInv, SlotInv, WithId, At
<1>11. RowInv(p)'
    BY <1>1, <1>4 DEF PlanInv, RowInv, SlotInv, At, Fresh
<1>12. PlanInv(p)'  BY <1>1, <1>2, <1>8, <1>10, <1>11, SlotFrame DEF Moved
<1>13. \A q \in Plan \ {p} : PlanInv(q)'  BY <1>7, ElsewhereKept DEF OneOwner
<1>. QED  BY <1>6, <1>12, <1>13 DEF OneOwner

\* markProviderDeployStarted: the row comes to name the plan's only deploy.
LEMMA RecordStep ==
    ASSUME IInv, NEW p \in Plan, NEW a \in Slot, At(p, a, "record"),
           SetRow(p, StartedRow(deployments[p], attempts[p][a].id)),
           Moved(p, a), UNCHANGED <<jobs, plans, provider>>,
           attempts'[p][a].pc \in {"upload", "mark_manual"},
           attempts'[p][a].id = attempts[p][a].id
    PROVE  OneOwner'
<1>. USE DEF IInv
<1>a. deployments \in RowsType  BY TypeParts DEF WorkerTypes
<1>1. SlotInv(p, a) /\ RowInv(p)  BY DEF OneOwner, PlanInv
<1>2. Begun(p)' = Begun(p)  BY DEF Begun
<1>3. OnePlan(p)  BY <1>a, SetRowFacts DEF OnePlan, NothingBegun
<1>4. deployments'[p] = StartedRow(deployments[p], attempts[p][a].id)
    BY <1>a, SetRowFacts
<1>5. deployments[p] \in DeploymentRow  BY <1>a DEF RowsType
<1>6. /\ deployments'[p].providerDeployId = attempts[p][a].id
      /\ deployments'[p].status = "deploying"
      /\ deployments'[p].operation = "recorded"
    BY <1>4, <1>5 DEF StartedRow, DeploymentRow
<1>7. attempts[p][a].id \in Begun(p)  BY <1>1 DEF SlotInv, At, WithId
<1>8. RowInv(p)'  BY <1>1, <1>2, <1>6, <1>7 DEF RowInv
<1>9. SlotInv(p, a)'  BY <1>1, <1>2, <1>7 DEF SlotInv, At, WithId
<1>. QED  BY <1>3, <1>8, <1>9, SlotStep DEF At

LEMMA FaultSlotKeepsOwner ==
    ASSUME IInv, NEW p \in Plan, NEW a \in Slot, Fault(p, a)
    PROVE  OneOwner'
<1>. USE DEF IInv, ledgerVars, NothingBegun, Quiet
<1>a. a \in Actor /\ a # Scan  BY DeployWorkerAssumption DEF Actor
<1>b. attempts \in AttemptsType /\ deployments \in RowsType
    BY TypeParts DEF WorkerTypes
<1>c. attempts[p][a] \in AttemptState  BY <1>a, <1>b, AttemptFieldTypes
<1>d. SlotInv(p, a) /\ RowInv(p) /\ ProviderInv  BY DEF OneOwner, PlanInv
<1>1. ASSUME NEW e, Raise(p, a, e), Quiet, ~At(p, a, "idle")
      PROVE  OneOwner'
    BY <1>1, <1>a, <1>b, RaiseFacts, QuietSlot DEF WithId
<1>2. CASE MediaUnreadable(p, a)  BY <1>1, <1>2 DEF MediaUnreadable, At
<1>3. CASE NotConfigured(p, a)    BY <1>1, <1>3 DEF NotConfigured, At
<1>4. CASE MarkManualFails(p, a)
    <2>1. PICK e : Raise(p, a, e)  BY <1>4 DEF MarkManualFails
    <2>. QED  BY <1>1, <1>4, <2>1 DEF MarkManualFails, At
<1>5. ASSUME SetAttempt(p, a, [attempts[p][a] EXCEPT !.pc = "settle", !.error = "other"]),
             Quiet, ~At(p, a, "idle")
      PROVE  OneOwner'
    <2>1. /\ [attempts[p][a] EXCEPT !.pc = "settle", !.error = "other"].pc = "settle"
          /\ [attempts[p][a] EXCEPT !.pc = "settle", !.error = "other"].id = attempts[p][a].id
        BY <1>c DEF AttemptState
    <2>. QED  BY <1>5, <1>a, <1>b, <2>1, SetAttemptFacts, QuietSlot DEF WithId
<1>6. CASE CallFails(p, a)
    <2>1. CASE attempts[p][a].pc \in {"replay", "catch"}
        BY <1>5, <1>6, <2>1 DEF CallFails, At
    <2>2. CASE attempts[p][a].pc \notin {"replay", "catch"}
        <3>1. PICK e : Raise(p, a, e)  BY <1>6, <2>2 DEF CallFails
        <3>. QED  BY <1>1, <1>6, <3>1 DEF CallFails, At
    <2>. QED  BY <2>1, <2>2
<1>7. CASE JobRunFails(p, a)  BY <1>5, <1>7 DEF JobRunFails, At
<1>8. CASE Crash(p, a)
    BY <1>8, <1>a, <1>b, SetAttemptFacts, QuietSlot DEF Crash, Idle, WithId
<1>9. CASE BeginFails(p, a)
    <2>1. CASE UNCHANGED provider
        BY <1>9, <2>1, <1>a, <1>b, GotoFacts, QuietSlot DEF BeginFails, WithId, At
    <2>2. ASSUME NEW d \in ProviderDeploy, provider[d].state = "absent",
                 provider' = [provider EXCEPT ![d] = [plan |-> p, state |-> "uploading"]]
          PROVE  OneOwner'
        <3>1. provider \in [ProviderDeploy -> [plan : Plan \cup {None}, state : ProviderState]]
            BY TypeParts DEF WorkerTypes
        <3>2. /\ Moved(p, a)
              /\ attempts'[p][a].pc = "mark_manual"
              /\ attempts'[p][a].id = attempts[p][a].id
            BY <1>9, <1>a, <1>b, GotoFacts DEF BeginFails
        <3>3. At(p, a, "begin") /\ UNCHANGED <<jobs, plans, deployments>>
            BY <1>9 DEF BeginFails
        <3>. QED  BY <2>2, <3>1, <3>2, <3>3, BeginStep
    <2>. QED  BY <1>9, <2>1, <2>2 DEF BeginFails
<1>10. CASE RecordFails(p, a)
    <2>1. CASE UNCHANGED deployments
        BY <1>10, <2>1, <1>a, <1>b, GotoFacts, QuietSlot DEF RecordFails, WithId, At
    <2>2. CASE SetRow(p, StartedRow(deployments[p], attempts[p][a].id))
        BY <1>10, <2>2, <1>a, <1>b, GotoFacts, RecordStep DEF RecordFails
    <2>. QED  BY <1>10, <2>1, <2>2 DEF RecordFails
<1>. QED
    BY <1>2, <1>3, <1>4, <1>6, <1>7, <1>8, <1>9, <1>10 DEF Fault

LEMMA AttemptKeepsOwner ==
    ASSUME IInv, NEW p \in Plan, NEW a \in Slot, Attempt(p, a)
    PROVE  OneOwner'
<1>. USE DEF IInv, ledgerVars
<1>a. a \in Actor /\ a # Scan  BY DeployWorkerAssumption DEF Actor
<1>b. /\ attempts \in AttemptsType
      /\ deployments \in RowsType
      /\ plans \in PlansType
      /\ provider \in [ProviderDeploy -> [plan : Plan \cup {None}, state : ProviderState]]
    BY TypeParts DEF WorkerTypes
<1>c. attempts[p][a] \in AttemptState /\ deployments[p] \in DeploymentRow
    BY <1>a, <1>b, AttemptFieldTypes DEF RowsType
<1>d. SlotInv(p, a) /\ RowInv(p)  BY DEF OneOwner, PlanInv
<1>1. CASE LoadPlan(p, a)
    <2>. DEFINE st == [attempts[p][a] EXCEPT
            !.pc = "load_row", !.ready = plans[p].status \in DeployStarting]
    <2>1. st.pc = "load_row" /\ st.id = attempts[p][a].id  BY <1>c DEF AttemptState
    <2>2. SetAttempt(p, a, st)  BY <1>1 DEF LoadPlan
    <2>. HIDE DEF st
    <2>3. Moved(p, a) /\ attempts'[p][a] = st  BY <1>a, <1>b, <2>2, SetAttemptFacts
    <2>4. Quiet /\ At(p, a, "load_plan")  BY <1>1 DEF LoadPlan, Quiet, NothingBegun
    <2>. QED  BY <2>1, <2>3, <2>4, QuietSlot DEF At, WithId
<1>2. CASE LoadRow(p, a)
    <2>1. Quiet /\ At(p, a, "load_row")  BY <1>2 DEF LoadRow, Quiet, NothingBegun
    <2>2. CASE Raise(p, a, "evidence")
        BY <1>a, <1>b, <2>1, <2>2, RaiseFacts, QuietSlot DEF At, WithId
    <2>3. CASE SetAttempt(p, a, [attempts[p][a] EXCEPT !.pc = "prepare", !.ready = FALSE])
        <3>1. /\ Moved(p, a)
              /\ attempts'[p][a] = [attempts[p][a] EXCEPT !.pc = "prepare", !.ready = FALSE]
            BY <1>a, <1>b, <2>3, SetAttemptFacts
        <3>2. attempts'[p][a].pc = "prepare" /\ attempts'[p][a].id = attempts[p][a].id
            BY <1>c, <3>1 DEF AttemptState
        <3>. QED  BY <2>1, <3>1, <3>2, QuietSlot DEF At, WithId
    <2>4. CASE Follow(p, a, deployments[p], "prepare")
        BY <1>a, <1>b, <2>1, <2>4, FollowFacts, QuietSlot DEF At, WithId
    <2>. QED  BY <1>2, <2>2, <2>3, <2>4 DEF LoadRow
<1>3. CASE Replay(p, a)
    <2>1. /\ At(p, a, "replay") /\ Goto(p, a, "settle")
          /\ UNCHANGED <<deployments, jobs, provider>>
        BY <1>3 DEF Replay
    <2>2. /\ Moved(p, a)
          /\ attempts'[p][a].pc = "settle" /\ attempts'[p][a].id = attempts[p][a].id
        BY <1>a, <1>b, <2>1, GotoFacts
    <2>3. /\ \A q \in Plan \ {p} : plans'[q] = plans[q]
          /\ \/ plans'[p] = plans[p]
             \/ plans[p].status \in {"deploying", "live"} /\ plans'[p].status = "live"
        BY <1>3, <1>b, SetPlanFacts DEF Replay
    <2>4. Begun(p)' = Begun(p)  BY <2>1 DEF Begun
    <2>5. RowInv(p)'  BY <1>d, <2>1, <2>3, <2>4 DEF RowInv
    <2>6. SlotInv(p, a)'  BY <1>d, <2>1, <2>2, <2>4 DEF SlotInv, At, WithId
    <2>7. OnePlan(p)  BY <2>1, <2>3 DEF OnePlan, NothingBegun
    <2>. QED  BY <2>1, <2>2, <2>5, <2>6, <2>7, SlotStep DEF At
<1>4. CASE Prepare(p, a)
    <2>1. Quiet /\ At(p, a, "prepare")  BY <1>4 DEF Prepare, Quiet, NothingBegun
    <2>2. CASE Raise(p, a, "evidence")
        BY <1>a, <1>b, <2>1, <2>2, RaiseFacts, QuietSlot DEF At, WithId
    <2>3. CASE SetAttempt(p, a, [attempts[p][a] EXCEPT !.pc = "start", !.ready = FALSE])
        <3>1. /\ Moved(p, a)
              /\ attempts'[p][a] = [attempts[p][a] EXCEPT !.pc = "start", !.ready = FALSE]
            BY <1>a, <1>b, <2>3, SetAttemptFacts
        <3>2. attempts'[p][a].pc = "start" /\ attempts'[p][a].id = attempts[p][a].id
            BY <1>c, <3>1 DEF AttemptState
        <3>. QED  BY <2>1, <3>1, <3>2, QuietSlot DEF At, WithId
    <2>. QED  BY <1>4, <2>2, <2>3 DEF Prepare
<1>5. CASE StartDeployment(p, a)
    <2>. DEFINE row == deployments[p]
    <2>1. At(p, a, "start") /\ UNCHANGED <<jobs, provider>>
        BY <1>5 DEF StartDeployment
    <2>2. Begun(p)' = Begun(p)  BY <2>1 DEF Begun
    <2>3. CASE ~Startable(row)
        <3>1. Follow(p, a, row, "claim") /\ UNCHANGED <<plans, deployments>>
            BY <1>5, <2>3 DEF StartDeployment
        <3>2. /\ Moved(p, a)
              /\ attempts'[p][a].pc \in
                    {"catch", "settle", "replay", "reconcile", "mark_manual", "claim"}
              /\ attempts'[p][a].pc = "reconcile" => attempts'[p][a].id = row.providerDeployId
                                                     /\ row.providerDeployId # None
              /\ attempts'[p][a].pc # "reconcile" => attempts'[p][a].id = attempts[p][a].id
              /\ attempts'[p][a].pc = "claim" => Decision(row) = "start"
            BY <1>a, <1>b, <3>1, FollowFacts
        <3>3. Decision(row) = "start" => row.operation # "not_started"
            BY <1>d, <2>3 DEF Decision, Startable, RowInv, Replayable
        <3>4. SlotInv(p, a)'
            BY <1>d, <2>1, <2>2, <3>1, <3>2, <3>3 DEF SlotInv, RowInv, WithId, At
        <3>5. RowInv(p)'  BY <1>d, <2>2, <3>1 DEF RowInv
        <3>6. OnePlan(p)  BY <2>1, <3>1 DEF OnePlan, NothingBegun
        <3>. QED  BY <2>1, <3>2, <3>4, <3>5, <3>6, SlotStep DEF At
    <2>4. CASE Startable(row) /\ plans[p].status \in DeployStarting
        <3>1. /\ SetRow(p, TakenOver(row))
              /\ ProjectPlan(p)
              /\ Follow(p, a, TakenOver(row), "claim")
            BY <1>5, <2>4 DEF StartDeployment
        <3>2. /\ deployments'[p] = TakenOver(row)
              /\ \A q \in Plan \ {p} : deployments'[q] = deployments[q]
            BY <1>b, <3>1, SetRowFacts
        <3>3. /\ TakenOver(row).status = "deploying"
              /\ TakenOver(row).operation = row.operation
              /\ TakenOver(row).providerDeployId = row.providerDeployId
            BY <1>c DEF TakenOver, DeploymentRow
        <3>4. /\ plans'[p].status = "deploying"
              /\ \A q \in Plan \ {p} : plans'[q] = plans[q]
            BY <1>b, <3>1, SetPlanFacts DEF ProjectPlan
        <3>5. Decision(TakenOver(row)) = "start" => row.providerDeployId = None
            BY <3>3 DEF Decision
        <3>6. /\ Moved(p, a)
              /\ attempts'[p][a].pc \in
                    {"catch", "settle", "replay", "reconcile", "mark_manual", "claim"}
              /\ attempts'[p][a].pc = "reconcile" => attempts'[p][a].id = row.providerDeployId
                                                     /\ row.providerDeployId # None
              /\ attempts'[p][a].pc # "reconcile" => attempts'[p][a].id = attempts[p][a].id
              /\ attempts'[p][a].pc = "claim" => row.providerDeployId = None
            BY <1>a, <1>b, <3>1, <3>3, <3>5, FollowFacts
        <3>7. row.operation \in {"not_started", "failed"} /\ row.providerDeployId = None
                => Begun(p) = {}
            BY <1>d, <2>4 DEF RowInv, DeployStarting
        <3>8. SlotInv(p, a)'
            BY <1>d, <2>1, <2>2, <3>2, <3>3, <3>4, <3>6, <3>7
            DEF SlotInv, RowInv, Fresh, WithId, At
        <3>9. RowInv(p)'
            BY <1>d, <2>2, <3>2, <3>3, <3>4, <3>7 DEF RowInv
        <3>10. OnePlan(p)  BY <2>1, <3>2, <3>4 DEF OnePlan, NothingBegun
        <3>. QED  BY <2>1, <3>6, <3>8, <3>9, <3>10, SlotStep DEF At
    <2>5. CASE Startable(row) /\ plans[p].status \notin DeployStarting
        <3>1. Raise(p, a, "evidence") /\ UNCHANGED <<plans, deployments>>
            BY <1>5, <2>5 DEF StartDeployment
        <3>2. Quiet  BY <2>1, <3>1 DEF Quiet, NothingBegun
        <3>. QED  BY <1>a, <1>b, <2>1, <3>1, <3>2, RaiseFacts, QuietSlot DEF At, WithId
    <2>. QED  BY <2>3, <2>4, <2>5
<1>6. CASE ClaimMutation(p, a)
    <2>1. At(p, a, "claim") /\ UNCHANGED <<jobs, provider, plans>>
        BY <1>6 DEF ClaimMutation
    <2>2. CASE ~Claimable(deployments[p])
        <3>1. Raise(p, a, "manual") /\ Quiet
            BY <1>6, <2>2 DEF ClaimMutation, Quiet, NothingBegun
        <3>. QED  BY <1>a, <1>b, <2>1, <3>1, RaiseFacts, QuietSlot DEF At, WithId
    <2>3. CASE Claimable(deployments[p])
        <3>1. SetRow(p, Claimed(deployments[p])) /\ Goto(p, a, "begin")
            BY <1>6, <2>3 DEF ClaimMutation
        <3>2. /\ deployments'[p] = Claimed(deployments[p])
              /\ \A q \in Plan \ {p} : deployments'[q] = deployments[q]
            BY <1>b, <3>1, SetRowFacts
        <3>3. /\ Claimed(deployments[p]).operation = "in_flight"
              /\ Claimed(deployments[p]).status = deployments[p].status
              /\ Claimed(deployments[p]).providerDeployId = deployments[p].providerDeployId
            BY <1>c DEF Claimed, DeploymentRow
        <3>4. /\ Moved(p, a)
              /\ attempts'[p][a].pc = "begin"
              /\ attempts'[p][a].id = attempts[p][a].id
            BY <1>a, <1>b, <3>1, GotoFacts
        <3>5. Begun(p)' = Begun(p)  BY <2>1 DEF Begun
        <3>6. Fresh(p)  BY <1>d, <2>1, <2>3 DEF SlotInv, At, Claimable
        <3>7. SlotInv(p, a)'
            BY <1>d, <2>1, <3>2, <3>3, <3>4, <3>5, <3>6 DEF SlotInv, Fresh, WithId, At
        <3>8. RowInv(p)'  BY <1>d, <2>1, <3>2, <3>3, <3>5, <3>6 DEF RowInv, Fresh
        <3>9. OnePlan(p)  BY <2>1, <3>2 DEF OnePlan, NothingBegun
        <3>. QED  BY <2>1, <3>4, <3>7, <3>8, <3>9, SlotStep DEF At
    <2>. QED  BY <2>2, <2>3
<1>7. CASE BeginDeploy(p, a)
    <2>1. PICK d \in ProviderDeploy :
            /\ provider[d].state = "absent"
            /\ provider' = [provider EXCEPT ![d] = [plan |-> p, state |-> "uploading"]]
            /\ SetAttempt(p, a, [attempts[p][a] EXCEPT !.pc = "record", !.id = d])
        BY <1>7 DEF BeginDeploy
    <2>2. /\ Moved(p, a)
          /\ attempts'[p][a] = [attempts[p][a] EXCEPT !.pc = "record", !.id = d]
        BY <1>a, <1>b, <2>1, SetAttemptFacts
    <2>3. attempts'[p][a].pc = "record" /\ attempts'[p][a].id = d
        BY <1>c, <2>2 DEF AttemptState
    <2>4. At(p, a, "begin") /\ UNCHANGED <<jobs, plans, deployments>>
        BY <1>7 DEF BeginDeploy
    <2>. QED  BY <1>b, <2>1, <2>2, <2>3, <2>4, BeginStep
<1>8. CASE RecordStarted(p, a)
    <2>1. At(p, a, "record") /\ UNCHANGED <<jobs, plans, provider>>
        BY <1>8 DEF RecordStarted
    <2>2. CASE Manual(deployments[p])
        <3>1. Quiet /\ Raise(p, a, "manual")
            BY <1>8, <2>2 DEF RecordStarted, Quiet, NothingBegun
        <3>. QED  BY <1>a, <1>b, <2>1, <3>1, RaiseFacts, QuietSlot DEF At, WithId
    <2>3. CASE ~Manual(deployments[p])
        <3>1. /\ SetRow(p, StartedRow(deployments[p], attempts[p][a].id))
              /\ SetAttempt(p, a, [attempts[p][a] EXCEPT !.pc = "upload"])
            BY <1>8, <2>3 DEF RecordStarted
        <3>2. /\ Moved(p, a)
              /\ attempts'[p][a] = [attempts[p][a] EXCEPT !.pc = "upload"]
            BY <1>a, <1>b, <3>1, SetAttemptFacts
        <3>3. attempts'[p][a].pc = "upload" /\ attempts'[p][a].id = attempts[p][a].id
            BY <1>c, <3>2 DEF AttemptState
        <3>. QED  BY <2>1, <3>1, <3>2, <3>3, RecordStep
    <2>. QED  BY <2>2, <2>3
<1>9. CASE MarkManual(p, a)
    <2>. DEFINE row == [deployments[p] EXCEPT !.operation = "manual_reconciliation_required"]
    <2>1. /\ At(p, a, "mark_manual")
          /\ SetRow(p, row)
          /\ Raise(p, a, "manual")
          /\ UNCHANGED <<plans, jobs, provider>>
        BY <1>9 DEF MarkManual
    <2>2. /\ row.operation = "manual_reconciliation_required"
          /\ row.status = deployments[p].status
          /\ row.providerDeployId = deployments[p].providerDeployId
        BY <1>c DEF DeploymentRow
    <2>3. /\ deployments'[p] = row
          /\ \A q \in Plan \ {p} : deployments'[q] = deployments[q]
        BY <1>b, <2>1, SetRowFacts
    <2>. HIDE DEF row
    <2>4. /\ Moved(p, a)
          /\ attempts'[p][a].pc \in {"catch", "settle"}
          /\ attempts'[p][a].id = attempts[p][a].id
        BY <1>a, <1>b, <2>1, RaiseFacts
    <2>5. Begun(p)' = Begun(p)  BY <2>1 DEF Begun
    <2>6. SlotInv(p, a)'
        BY <1>d, <2>1, <2>4, <2>5 DEF SlotInv, WithId, At
    <2>7. RowInv(p)'  BY <1>d, <2>1, <2>2, <2>3, <2>5 DEF RowInv
    <2>8. OnePlan(p)  BY <2>1, <2>3 DEF OnePlan, NothingBegun
    <2>. QED  BY <2>1, <2>4, <2>6, <2>7, <2>8, SlotStep DEF At
<1>. QED
    BY <1>1, <1>2, <1>3, <1>4, <1>5, <1>6, <1>7, <1>8, <1>9 DEF Attempt

\* The id at hand, whoever has it
LEMMA ActorId ==
    ASSUME OneOwner, NEW p \in Plan, NEW a \in Actor
    PROVE  /\ attempts[p][a].id \in Begun(p) \cup {None}
           /\ attempts[p][a].pc \in WithId => attempts[p][a].id # None
<1>1. PlanInv(p)  BY DEF OneOwner
<1>. QED  BY <1>1 DEF PlanInv, SlotInv, ScanInv, Actor, WithId

\* The scan's catch block is entered on the provider's word only.
LEMMA ScanRaise ==
    ASSUME attempts \in AttemptsType, NEW p \in Plan, NEW e, Raise(p, Scan, e)
    PROVE  attempts'[p][Scan].pc = "catch" => attempts'[p][Scan].error = "terminal"
BY RaiseFacts DEF Actor, Caught

\* The provider calls of an attempt or the scan
LEMMA CallStep ==
    ASSUME IInv, NEW p \in Plan, NEW a \in Actor,
           Reconcile(p, a) \/ Upload(p, a) \/ Poll(p, a)
    PROVE  /\ Quiet
           /\ Moved(p, a)
           /\ attempts[p][a].pc \in WithId
           /\ attempts'[p][a].id = attempts[p][a].id
           /\ attempts'[p][a].pc \in
                {"succeed", "pend", "upload", "mark_upload", "catch", "settle"}
           /\ a = Scan /\ attempts'[p][a].pc = "catch" => attempts'[p][a].error = "terminal"
<1>. USE DEF IInv, ledgerVars
<1>a. /\ attempts \in AttemptsType
      /\ provider \in [ProviderDeploy -> [plan : Plan \cup {None}, state : ProviderState]]
    BY TypeParts DEF WorkerTypes
<1>b. attempts[p][a] \in AttemptState  BY <1>a, AttemptFieldTypes
<1>1. CASE Reconcile(p, a)
    <2>1. Quiet /\ At(p, a, "reconcile")
        BY <1>1 DEF Reconcile, Quiet, NothingBegun
    <2>2. \/ \E s \in {"succeed", "pend"} : Goto(p, a, s)
          \/ Raise(p, a, "terminal")
          \/ SetAttempt(p, a, [attempts[p][a] EXCEPT !.pc = "upload", !.token = FALSE])
        BY <1>1 DEF Reconcile
    <2>3. CASE \E s \in {"succeed", "pend"} : Goto(p, a, s)
        BY <1>a, <2>1, <2>3, GotoFacts DEF At, WithId
    <2>4. CASE Raise(p, a, "terminal")
        BY <1>a, <2>1, <2>4, RaiseFacts DEF At, WithId
    <2>5. CASE SetAttempt(p, a, [attempts[p][a] EXCEPT !.pc = "upload", !.token = FALSE])
        <3>1. /\ Moved(p, a)
              /\ attempts'[p][a] = [attempts[p][a] EXCEPT !.pc = "upload", !.token = FALSE]
            BY <1>a, <2>5, SetAttemptFacts
        <3>2. attempts'[p][a].pc = "upload" /\ attempts'[p][a].id = attempts[p][a].id
            BY <1>b, <3>1 DEF AttemptState
        <3>. QED  BY <2>1, <3>1, <3>2 DEF At, WithId
    <2>. QED  BY <2>2, <2>3, <2>4, <2>5
<1>2. CASE Upload(p, a)
    <2>1. At(p, a, "upload") /\ UNCHANGED <<plans, deployments, jobs>>
        BY <1>2 DEF Upload
    <2>2. NothingBegun
        BY <1>2, <1>a DEF Upload, NothingBegun
    <2>3. Raise(p, a, "other") \/ Goto(p, a, "mark_upload")
        BY <1>2 DEF Upload
    <2>4. Quiet  BY <2>1, <2>2 DEF Quiet
    <2>5. CASE Raise(p, a, "other")
        BY <1>a, <2>1, <2>4, <2>5, RaiseFacts, ScanRaise DEF At, WithId
    <2>6. CASE Goto(p, a, "mark_upload")
        BY <1>a, <2>1, <2>4, <2>6, GotoFacts DEF At, WithId
    <2>. QED  BY <2>3, <2>5, <2>6
<1>3. CASE Poll(p, a)
    <2>1. Quiet /\ At(p, a, "poll")
        BY <1>3 DEF Poll, Quiet, NothingBegun
    <2>2. \/ \E s \in {"succeed", "pend"} : Goto(p, a, s)
          \/ Raise(p, a, "terminal")
        BY <1>3 DEF Poll
    <2>3. CASE \E s \in {"succeed", "pend"} : Goto(p, a, s)
        BY <1>a, <2>1, <2>3, GotoFacts DEF At, WithId
    <2>4. CASE Raise(p, a, "terminal")
        BY <1>a, <2>1, <2>4, RaiseFacts DEF At, WithId
    <2>. QED  BY <2>2, <2>3, <2>4
<1>. QED  BY <1>1, <1>2, <1>3

\* The ledger writes of an attempt or the scan.  Only a failure that is no
\* provider failure makes an operation startable again.
LEMMA WriteStep ==
    ASSUME IInv, NEW p \in Plan, NEW a \in Actor,
           \/ MarkUpload(p, a) \/ MarkSucceeded(p, a) \/ MarkPending(p, a)
           \/ MarkFailed(p, a)
    PROVE  /\ OnePlan(p)
           /\ UNCHANGED <<jobs, provider>>
           /\ Moved(p, a)
           /\ ~At(p, a, "idle")
           /\ attempts'[p][a].id = attempts[p][a].id
           /\ attempts'[p][a].pc \in {"poll", "catch", "settle"}
           /\ attempts'[p][a].pc = "poll" => attempts[p][a].pc \in WithId
           /\ a = Scan /\ attempts'[p][a].pc = "catch" => attempts'[p][a].error = "terminal"
           /\ RowInv(p)'
           /\ deployments'[p].operation = "not_started" =>
                \/ deployments[p].operation = "not_started"
                \/ At(p, a, "catch") /\ attempts[p][a].error # "terminal"
<1>. USE DEF IInv, ledgerVars
<1>a. /\ attempts \in AttemptsType
      /\ deployments \in RowsType
      /\ plans \in PlansType
    BY TypeParts DEF WorkerTypes
<1>b. deployments[p] \in DeploymentRow  BY <1>a DEF RowsType
<1>c. RowInv(p)  BY DEF OneOwner, PlanInv
<1>1. ASSUME UNCHANGED <<deployments, plans, jobs, provider>>,
             NEW e, Raise(p, a, e), ~At(p, a, "idle")
      PROVE  /\ OnePlan(p)
             /\ UNCHANGED <<jobs, provider>>
             /\ Moved(p, a)
             /\ attempts'[p][a].id = attempts[p][a].id
             /\ attempts'[p][a].pc \in {"catch", "settle"}
             /\ a = Scan /\ attempts'[p][a].pc = "catch" => attempts'[p][a].error = "terminal"
             /\ RowInv(p)'
             /\ deployments'[p].operation = deployments[p].operation
    <2>1. RowInv(p)'  BY <1>1, <1>c DEF RowInv, Begun
    <2>2. OnePlan(p)  BY <1>1 DEF OnePlan, NothingBegun
    <2>. QED  BY <1>1, <1>a, <2>1, <2>2, RaiseFacts, ScanRaise
<1>2. ASSUME NEW s \in {"provider_succeeded", "deploying"},
             SetRow(p, Snapshot(deployments[p], attempts[p][a].id, s)),
             attempts[p][a].pc \in WithId,
             UNCHANGED <<plans, provider>>
      PROVE  /\ OnePlan(p)
             /\ RowInv(p)'
             /\ deployments'[p].operation = "recorded"
    <2>1. /\ deployments'[p] = Snapshot(deployments[p], attempts[p][a].id, s)
          /\ \A q \in Plan \ {p} : deployments'[q] = deployments[q]
        BY <1>2, <1>a, SetRowFacts
    <2>2. /\ deployments'[p].status = s
          /\ deployments'[p].operation = "recorded"
          /\ deployments'[p].providerDeployId = attempts[p][a].id
        BY <1>b, <2>1 DEF Snapshot, DeploymentRow
    <2>3. attempts[p][a].id \in Begun(p)  BY <1>2, ActorId
    <2>4. Begun(p)' = Begun(p)  BY <1>2 DEF Begun
    <2>5. RowInv(p)'  BY <1>2, <1>c, <2>2, <2>3, <2>4 DEF RowInv
    <2>. QED  BY <1>2, <2>1, <2>2, <2>5 DEF OnePlan, NothingBegun
<1>3. CASE MarkUpload(p, a)
    <2>1. At(p, a, "mark_upload") /\ UNCHANGED <<plans, jobs, provider>>
        BY <1>3 DEF MarkUpload
    <2>2. \/ \E e : Raise(p, a, e) /\ UNCHANGED deployments
          \/ /\ SetRow(p, [deployments[p] EXCEPT !.evidence.resumeToken = FALSE])
             /\ Goto(p, a, "poll")
        BY <1>3 DEF MarkUpload
    <2>3. CASE \E e : Raise(p, a, e) /\ UNCHANGED deployments
        BY <1>1, <2>1, <2>3 DEF At
    <2>4. CASE /\ SetRow(p, [deployments[p] EXCEPT !.evidence.resumeToken = FALSE])
               /\ Goto(p, a, "poll")
        <3>1. /\ deployments'[p] = [deployments[p] EXCEPT !.evidence.resumeToken = FALSE]
              /\ \A q \in Plan \ {p} : deployments'[q] = deployments[q]
            BY <1>a, <2>4, SetRowFacts
        <3>2. /\ deployments'[p].status = deployments[p].status
              /\ deployments'[p].operation = deployments[p].operation
              /\ deployments'[p].providerDeployId = deployments[p].providerDeployId
            BY <1>b, <3>1 DEF DeploymentRow
        <3>3. Begun(p)' = Begun(p)  BY <2>1 DEF Begun
        <3>4. RowInv(p)'  BY <1>c, <2>1, <3>2, <3>3 DEF RowInv
        <3>5. OnePlan(p)  BY <2>1, <3>1 DEF OnePlan, NothingBegun
        <3>. QED  BY <1>a, <2>1, <2>4, <3>2, <3>4, <3>5, GotoFacts DEF At, WithId
    <2>. QED  BY <2>2, <2>3, <2>4
<1>4. CASE MarkSucceeded(p, a)
    <2>1. At(p, a, "succeed") /\ UNCHANGED <<plans, jobs, provider>>
        BY <1>4 DEF MarkSucceeded
    <2>2. CASE Projectable(deployments[p])
        <3>1. /\ SetRow(p, Snapshot(deployments[p], attempts[p][a].id, "provider_succeeded"))
              /\ Goto(p, a, "settle")
            BY <1>4, <2>2 DEF MarkSucceeded
        <3>. QED  BY <1>2, <1>a, <2>1, <3>1, GotoFacts DEF At, WithId
    <2>3. CASE ~Projectable(deployments[p])
        BY <1>1, <1>4, <2>1, <2>3 DEF MarkSucceeded, At
    <2>. QED  BY <2>2, <2>3
<1>5. CASE MarkPending(p, a)
    <2>1. At(p, a, "pend") /\ UNCHANGED <<plans, jobs, provider>>
        BY <1>5 DEF MarkPending
    <2>2. CASE Projectable(deployments[p])
        <3>1. /\ SetRow(p, Snapshot(deployments[p], attempts[p][a].id, "deploying"))
              /\ Raise(p, a, "pending")
            BY <1>5, <2>2 DEF MarkPending
        <3>. QED  BY <1>2, <1>a, <2>1, <3>1, RaiseFacts, ScanRaise DEF At, WithId
    <2>3. CASE ~Projectable(deployments[p])
        BY <1>1, <1>5, <2>1, <2>3 DEF MarkPending, At
    <2>. QED  BY <2>2, <2>3
<1>6. CASE MarkFailed(p, a)
    <2>1. At(p, a, "catch") /\ Goto(p, a, "settle") /\ UNCHANGED <<jobs, provider>>
        BY <1>6 DEF MarkFailed
    <2>2. Begun(p)' = Begun(p)  BY <2>1 DEF Begun
    <2>3. CASE FailureProtected(deployments[p])
        <3>1. UNCHANGED <<plans, deployments>>  BY <1>6, <2>3 DEF MarkFailed
        <3>2. RowInv(p)' /\ OnePlan(p)
            BY <1>c, <2>1, <2>2, <3>1 DEF RowInv, OnePlan, NothingBegun
        <3>. QED  BY <1>a, <2>1, <3>1, <3>2, GotoFacts DEF At
    <2>4. CASE ~FailureProtected(deployments[p])
        <3>. DEFINE error == attempts[p][a].error
        <3>1. SetRow(p, FailedRow(deployments[p], error)) /\ SetPlan(p, "failed")
            BY <1>6, <2>4 DEF MarkFailed
        <3>2. /\ deployments'[p] = FailedRow(deployments[p], error)
              /\ \A q \in Plan \ {p} : deployments'[q] = deployments[q]
              /\ plans'[p].status = "failed"
              /\ \A q \in Plan \ {p} : plans'[q] = plans[q]
            BY <1>a, <3>1, SetRowFacts, SetPlanFacts
        <3>3. /\ deployments'[p].status = "failed"
              /\ deployments'[p].providerDeployId = deployments[p].providerDeployId
              /\ deployments'[p].operation = "not_started" => error # "terminal"
            BY <1>b, <3>2 DEF FailedRow, DeploymentRow
        <3>4. RowInv(p)'  BY <1>c, <2>2, <3>2, <3>3 DEF RowInv
        <3>5. OnePlan(p)  BY <2>1, <3>2 DEF OnePlan, NothingBegun
        <3>. QED  BY <1>a, <2>1, <3>3, <3>4, <3>5, GotoFacts DEF At
    <2>. QED  BY <2>3, <2>4
<1>. QED  BY <1>3, <1>4, <1>5, <1>6

LEMMA AdvanceSlotKeepsOwner ==
    ASSUME IInv, NEW p \in Plan, NEW a \in Slot, Advance(p, a), ~Settle(p, a)
    PROVE  OneOwner'
<1>. USE DEF IInv
<1>a. a \in Actor /\ a # Scan  BY DeployWorkerAssumption DEF Actor
<1>d. SlotInv(p, a) /\ RowInv(p)  BY DEF OneOwner, PlanInv
<1>1. CASE Reconcile(p, a) \/ Upload(p, a) \/ Poll(p, a)
    <2>1. /\ Quiet
          /\ Moved(p, a)
          /\ attempts[p][a].pc \in WithId
          /\ attempts'[p][a].id = attempts[p][a].id
          /\ attempts'[p][a].pc \in
                {"succeed", "pend", "upload", "mark_upload", "catch", "settle"}
        BY <1>1, <1>a, CallStep
    <2>. QED  BY <1>a, <2>1, ActorId, QuietSlot DEF At, WithId
<1>2. CASE \/ MarkUpload(p, a) \/ MarkSucceeded(p, a) \/ MarkPending(p, a)
           \/ MarkFailed(p, a)
    <2>1. /\ OnePlan(p)
          /\ UNCHANGED <<jobs, provider>>
          /\ Moved(p, a)
          /\ ~At(p, a, "idle")
          /\ attempts'[p][a].id = attempts[p][a].id
          /\ attempts'[p][a].pc \in {"poll", "catch", "settle"}
          /\ attempts'[p][a].pc = "poll" => attempts[p][a].pc \in WithId
          /\ RowInv(p)'
        BY <1>2, <1>a, WriteStep
    <2>2. SlotInv(p, a)'  BY <1>d, <2>1 DEF SlotInv, WithId, At, Begun
    <2>. QED  BY <2>1, <2>2, SlotStep
<1>. QED  BY <1>1, <1>2 DEF Advance

LEMMA ScanKeepsOwner ==
    ASSUME IInv, NEW p \in Plan, Advance(p, Scan) \/ Fault(p, Scan)
    PROVE  OneOwner'
<1>. USE DEF IInv, ledgerVars
<1>a. Scan \in Actor /\ Scan \notin Slot  BY DeployWorkerAssumption DEF Actor
<1>b. attempts \in AttemptsType  BY TypeParts DEF WorkerTypes
<1>c. attempts[p][Scan] \in AttemptState  BY <1>a, <1>b, AttemptFieldTypes
<1>d. ScanInv(p) /\ RowInv(p)  BY DEF OneOwner, PlanInv
<1>e. ~At(p, Scan, "idle") => Begun(p) # {} /\ attempts[p][Scan].id # None
    BY <1>d DEF ScanInv, At
<1>1. CASE Reconcile(p, Scan) \/ Upload(p, Scan) \/ Poll(p, Scan)
    <2>1. /\ Quiet
          /\ Moved(p, Scan)
          /\ attempts[p][Scan].pc \in WithId
          /\ attempts'[p][Scan].id = attempts[p][Scan].id
          /\ attempts'[p][Scan].pc \in
                {"succeed", "pend", "upload", "mark_upload", "catch", "settle"}
          /\ attempts'[p][Scan].pc = "catch" => attempts'[p][Scan].error = "terminal"
        BY <1>1, <1>a, CallStep
    <2>. QED  BY <1>e, <2>1, QuietScan DEF At, WithId, AttemptOnly
<1>2. CASE \/ MarkUpload(p, Scan) \/ MarkSucceeded(p, Scan) \/ MarkPending(p, Scan)
           \/ MarkFailed(p, Scan)
    <2>1. /\ OnePlan(p)
          /\ UNCHANGED <<jobs, provider>>
          /\ Moved(p, Scan)
          /\ ~At(p, Scan, "idle")
          /\ attempts'[p][Scan].id = attempts[p][Scan].id
          /\ attempts'[p][Scan].pc \in {"poll", "catch", "settle"}
          /\ attempts'[p][Scan].pc = "catch" => attempts'[p][Scan].error = "terminal"
          /\ RowInv(p)'
          /\ deployments'[p].operation = "not_started" =>
                \/ deployments[p].operation = "not_started"
                \/ At(p, Scan, "catch") /\ attempts[p][Scan].error # "terminal"
        BY <1>2, <1>a, WriteStep
    <2>2. ScanInv(p)'  BY <1>d, <1>e, <2>1 DEF ScanInv, AttemptOnly, At, Begun
    <2>3. deployments'[p].operation = "not_started" => deployments[p].operation = "not_started"
        BY <1>d, <2>1 DEF ScanInv, At
    <2>. QED  BY <1>e, <2>1, <2>2, <2>3, ScanStep
<1>3. CASE Settle(p, Scan)
    <2>1. At(p, Scan, "settle") /\ SetAttempt(p, Scan, Idle)
        BY <1>3 DEF Settle
    <2>2. jobs[p].holder # Scan
        <3>1. jobs[p] \in Job  BY TypeParts DEF WorkerTypes
        <3>2. jobs[p].holder \in Slot \cup {None}  BY <3>1 DEF Job
        <3>. QED  BY <3>2, DeployWorkerAssumption
    <2>3. Quiet
        BY <1>3, <2>2 DEF Settle, Quiet, NothingBegun
    <2>4. Moved(p, Scan) /\ attempts'[p][Scan] = Idle
        BY <1>a, <1>b, <2>1, SetAttemptFacts
    <2>. QED  BY <1>e, <2>1, <2>3, <2>4, QuietScan DEF Idle, At, AttemptOnly
<1>4. CASE Fault(p, Scan)
    <2>1. CallFails(p, Scan) \/ Crash(p, Scan)
        BY <1>4, <1>a, <1>d
        DEF Fault, MediaUnreadable, NotConfigured, BeginFails, RecordFails,
            MarkManualFails, JobRunFails, ScanInv, AttemptOnly, At
    <2>2. Quiet /\ ~At(p, Scan, "idle")
        BY <2>1 DEF CallFails, Crash, Quiet, NothingBegun, At
    <2>3. CASE Crash(p, Scan)
        <3>1. Moved(p, Scan) /\ attempts'[p][Scan] = Idle
            BY <1>a, <1>b, <2>3, SetAttemptFacts DEF Crash
        <3>. QED  BY <1>e, <2>2, <3>1, QuietScan DEF Idle, AttemptOnly
    <2>4. CASE CallFails(p, Scan)
        <3>1. CASE \E e : Raise(p, Scan, e)
            BY <1>a, <1>b, <1>e, <2>2, <3>1, RaiseFacts, ScanRaise, QuietScan DEF AttemptOnly
        <3>2. CASE SetAttempt(p, Scan,
                    [attempts[p][Scan] EXCEPT !.pc = "settle", !.error = "other"])
            <4>1. /\ Moved(p, Scan)
                  /\ attempts'[p][Scan] =
                        [attempts[p][Scan] EXCEPT !.pc = "settle", !.error = "other"]
                BY <1>a, <1>b, <3>2, SetAttemptFacts
            <4>2. /\ attempts'[p][Scan].pc = "settle"
                  /\ attempts'[p][Scan].id = attempts[p][Scan].id
                BY <1>c, <4>1 DEF AttemptState
            <4>. QED  BY <1>e, <2>2, <4>1, <4>2, QuietScan DEF AttemptOnly
        <3>. QED  BY <2>4, <3>1, <3>2 DEF CallFails
    <2>. QED  BY <2>1, <2>3, <2>4
<1>. QED  BY <1>1, <1>2, <1>3, <1>4 DEF Advance

LEMMA QueueKeepsOwner ==
    ASSUME IInv, ~ZombieStalls, NEW p \in Plan,
           \/ \E a \in Slot : Deliver(p, a) \/ Settle(p, a)
           \/ Stall(p)
           \/ ScanPicks(p)
    PROVE  OneOwner'
<1>. USE DEF IInv, ledgerVars
<1>a. Scan \in Actor /\ Scan \notin Slot  BY DeployWorkerAssumption DEF Actor
<1>b. attempts \in AttemptsType /\ jobs \in [Plan -> Job]
    BY TypeParts DEF WorkerTypes
<1>c. PlanInv(p) /\ ProviderInv  BY DEF OneOwner
<1>1. ASSUME UNCHANGED <<plans, deployments, provider>>,
             \A q \in Plan \ {p} : attempts'[q] = attempts[q] /\ jobs'[q] = jobs[q],
             PlanInv(p)'
      PROVE  OneOwner'
    <2>1. Elsewhere(p)  BY <1>1 DEF Elsewhere, Begun
    <2>2. \A q \in Plan \ {p} : PlanInv(q)'  BY <2>1, ElsewhereKept DEF OneOwner
    <2>3. ProviderInv'  BY <1>1, <1>c DEF ProviderInv
    <2>. QED  BY <1>1, <2>2, <2>3 DEF OneOwner
<1>2. ASSUME NEW a \in Slot, Deliver(p, a)
      PROVE  OneOwner'
    <2>. DEFINE st == [Idle EXCEPT
            !.pc = "load_plan", !.final = jobs[p].made + 1 >= MaxAttempts]
    <2>1. /\ SetAttempt(p, a, st)
          /\ jobs[p].state = "waiting"
          /\ jobs' = [jobs EXCEPT ![p] = [jobs[p] EXCEPT !.state = "active", !.holder = a]]
          /\ UNCHANGED <<plans, deployments, provider>>
        BY <1>2 DEF Deliver
    <2>2. st.pc = "load_plan" /\ st.id = None  BY DEF Idle
    <2>. HIDE DEF st
    <2>3. Moved(p, a) /\ attempts'[p][a] = st
        BY <1>b, <2>1, SetAttemptFacts DEF Actor
    <2>4. jobs'[p].state = "active" /\ jobs'[p].holder = a
        BY <1>b, <2>1 DEF Job
    <2>5. \A b \in Slot \ {a} : At(p, b, "idle")
        BY <1>c, <2>1 DEF PlanInv, SlotInv, At
    <2>6. SlotInv(p, a)'
        BY <2>2, <2>3, <2>4 DEF SlotInv, WithId
    <2>7. RowInv(p)' /\ Begun(p)' = Begun(p)
        BY <1>c, <2>1 DEF PlanInv, RowInv, Begun
    <2>8. PlanInv(p)'  BY <1>c, <2>3, <2>5, <2>6, <2>7, SlotFrame DEF Moved
    <2>. QED  BY <1>1, <1>b, <2>1, <2>3, <2>8 DEF Moved
<1>3. ASSUME NEW a \in Slot, Settle(p, a)
      PROVE  OneOwner'
    <2>1. /\ SetAttempt(p, a, Idle)
          /\ At(p, a, "settle")
          /\ UNCHANGED <<plans, deployments, provider>>
        BY <1>3 DEF Settle
    <2>2. \A q \in Plan \ {p} : jobs'[q] = jobs[q]
        BY <1>b, <1>3 DEF Settle
    <2>3. Moved(p, a) /\ attempts'[p][a] = Idle
        BY <1>b, <2>1, SetAttemptFacts DEF Actor
    <2>4. \A b \in Slot \ {a} : At(p, b, "idle")
        BY <1>c, <2>1 DEF PlanInv, SlotInv, At
    <2>5. SlotInv(p, a)'  BY <2>3 DEF SlotInv, WithId, Idle
    <2>6. RowInv(p)' /\ Begun(p)' = Begun(p)
        BY <1>c, <2>1 DEF PlanInv, RowInv, Begun
    <2>7. PlanInv(p)'  BY <1>c, <2>3, <2>4, <2>5, <2>6, SlotFrame DEF Moved
    <2>. QED  BY <1>1, <2>1, <2>2, <2>3, <2>7 DEF Moved
<1>4. CASE Stall(p)
    <2>1. /\ jobs[p].state = "active"
          /\ At(p, jobs[p].holder, "idle")
          /\ UNCHANGED <<plans, deployments, provider, attempts>>
          /\ \A q \in Plan \ {p} : jobs'[q] = jobs[q]
        BY <1>4, <1>b DEF Stall
    <2>2. \A a \in Slot : At(p, a, "idle")
        BY <1>c, <2>1 DEF PlanInv, SlotInv, At
    <2>3. \A a \in Slot : SlotInv(p, a)'
        BY <1>c, <2>1, <2>2 DEF PlanInv, SlotInv, At, WithId, Begun
    <2>4. RowInv(p)' /\ ScanInv(p)'
        BY <1>c, <2>1 DEF PlanInv, RowInv, ScanInv, Begun
    <2>. QED  BY <1>1, <2>1, <2>3, <2>4 DEF PlanInv
<1>5. CASE ScanPicks(p)
    <2>. DEFINE st == [Idle EXCEPT
            !.pc = "reconcile",
            !.id = deployments[p].providerDeployId,
            !.token = deployments[p].evidence.resumeToken]
    <2>1. /\ SetAttempt(p, Scan, st)
          /\ deployments[p].providerDeployId # None
          /\ UNCHANGED <<plans, deployments, provider, jobs>>
        BY <1>5 DEF ScanPicks, Pending
    <2>2. st.pc = "reconcile" /\ st.id = deployments[p].providerDeployId  BY DEF Idle
    <2>. HIDE DEF st
    <2>3. Moved(p, Scan) /\ attempts'[p][Scan] = st
        BY <1>a, <1>b, <2>1, SetAttemptFacts
    <2>4. Quiet  BY <2>1 DEF Quiet, NothingBegun
    <2>5. Begun(p) # {}  BY <1>c, <2>1 DEF PlanInv, RowInv
    <2>. QED  BY <2>1, <2>2, <2>3, <2>4, <2>5, QuietScan DEF AttemptOnly
<1>. QED  BY <1>2, <1>3, <1>4, <1>5

\* The API's requests never touch a plan something was begun for.
LEMMA ApiKeepsOwner ==
    ASSUME IInv, UNCHANGED <<deployments, provider, attempts>>,
           \A p \in Plan : plans[p].status \in {"deploying", "live", "failed"} =>
                plans'[p].status = plans[p].status,
           \A p \in Plan : jobs[p].state = "active" => jobs'[p] = jobs[p]
    PROVE  OneOwner'
<1>. USE DEF IInv
<1>1. \A p \in Plan : Begun(p)' = Begun(p)  BY DEF Begun
<1>2. ASSUME NEW p \in Plan
      PROVE  PlanInv(p)'
    <2>1. PlanInv(p)  BY DEF OneOwner
    <2>2. RowInv(p)'  BY <1>1, <2>1 DEF PlanInv, RowInv
    <2>3. ScanInv(p)'  BY <1>1, <2>1 DEF PlanInv, ScanInv
    <2>4. ASSUME NEW a \in Slot
          PROVE  SlotInv(p, a)'
        <3>1. SlotInv(p, a)  BY <2>1 DEF PlanInv
        <3>. QED  BY <1>1, <3>1 DEF SlotInv, Fresh
    <2>. QED  BY <2>2, <2>3, <2>4 DEF PlanInv
<1>. QED  BY <1>2 DEF OneOwner, ProviderInv

\* The requests before the deploy request
LEMMA PlanningEffect ==
    ASSUME PipelineTypeOK, PlanningNext
    PROVE  /\ \A p \in Plan : plans[p].status \in {"deploying", "live", "failed"} =>
                    plans'[p].status = plans[p].status
           /\ UNCHANGED deployments
<1>. USE DEF ledgerVars
<1>a. plans \in PlansType  BY TypeParts DEF WorkerTypes
<1>1. ASSUME NEW p \in Plan, NEW s, SetPlan(p, s),
             plans[p].status \notin {"deploying", "live", "failed"}
      PROVE  \A q \in Plan : plans[q].status \in {"deploying", "live", "failed"} =>
                    plans'[q].status = plans[q].status
    BY <1>1, <1>a, SetPlanFacts
<1>2. ASSUME NEW p \in Plan, NEW items \in SUBSET Version, CreatePlan(p, items)
      PROVE  /\ \A q \in Plan : plans[q].status \in {"deploying", "live", "failed"} =>
                    plans'[q].status = plans[q].status
             /\ UNCHANGED deployments
    BY <1>2, <1>a DEF CreatePlan, PlansType
<1>3. ASSUME NEW p \in Plan, ApproveDeploy(p) \/ CancelPlan(p)
      PROVE  /\ \A q \in Plan : plans[q].status \in {"deploying", "live", "failed"} =>
                    plans'[q].status = plans[q].status
             /\ UNCHANGED deployments
    BY <1>1, <1>3 DEF ApproveDeploy, CancelPlan, Approvable, Cancellable
<1>4. ASSUME NEW r \in Request, PersistPreflight(r)
      PROVE  /\ \A q \in Plan : plans[q].status \in {"deploying", "live", "failed"} =>
                    plans'[q].status = plans[q].status
             /\ UNCHANGED deployments
    <2>1. requests[r].plan \in Plan /\ UNCHANGED deployments
        BY <1>4 DEF PersistPreflight, Await
    <2>2. CASE plans[requests[r].plan].status \in Preflightable
        <3>1. SetPlan(requests[r].plan, requests[r].readiness)
            BY <1>4, <2>2 DEF PersistPreflight, MayPersist
        <3>2. plans[requests[r].plan].status \notin {"deploying", "live", "failed"}
            BY <2>2 DEF Preflightable
        <3>. QED  BY <1>1, <2>1, <3>1, <3>2
    <2>3. CASE plans[requests[r].plan].status \notin Preflightable
        BY <1>4, <2>1, <2>3 DEF PersistPreflight, MayPersist
    <2>. QED  BY <2>2, <2>3
<1>5. ASSUME NEW r \in Request, NEW p \in Plan, StartPreflight(r, p)
      PROVE  UNCHANGED <<plans, deployments>>
    BY <1>5 DEF StartPreflight
<1>6. ASSUME NEW r \in Request,
             PickSource(r) \/ InsertPoint(r) \/ GatherEvidence(r) \/ DropRequest(r)
      PROVE  UNCHANGED <<plans, deployments>>
    BY <1>6 DEF PickSource, InsertPoint, GatherEvidence, DropRequest
<1>. QED  BY <1>2, <1>3, <1>4, <1>5, <1>6 DEF PlanningNext

\* The deploy request
LEMMA RequestEffect ==
    ASSUME PipelineTypeOK, NEW r \in Request,
           \/ \E p \in Plan : StartDeployRequest(r, p)
           \/ EnqueueDeploy(r)
           \/ ProjectDeploying(r)
    PROVE  /\ \A p \in Plan : plans[p].status \in {"deploying", "live", "failed"} =>
                    plans'[p].status = plans[p].status
           /\ \A p \in Plan : jobs[p].state = "active" => jobs'[p] = jobs[p]
           /\ UNCHANGED <<deployments, provider, attempts>>
<1>. USE DEF ledgerVars, workerVars
<1>a. plans \in PlansType /\ jobs \in [Plan -> Job]  BY TypeParts DEF WorkerTypes
<1>1. ASSUME NEW p \in Plan, StartDeployRequest(r, p)
      PROVE  UNCHANGED <<plans, jobs, deployments, provider, attempts>>
    BY <1>1 DEF StartDeployRequest
<1>2. CASE EnqueueDeploy(r)
    BY <1>2, <1>a DEF EnqueueDeploy
<1>3. CASE ProjectDeploying(r)
    <2>1. requests[r].plan \in Plan /\ UNCHANGED <<jobs, deployments, provider, attempts>>
        BY <1>3 DEF ProjectDeploying, Await
    <2>2. CASE MayDeploy(requests[r].plan)
        <3>1. SetPlan(requests[r].plan, "deploying")  BY <1>3, <2>2 DEF ProjectDeploying
        <3>. QED
            BY <1>a, <2>1, <2>2, <3>1, SetPlanFacts DEF MayDeploy, DeployStarting
    <2>3. CASE ~MayDeploy(requests[r].plan)
        BY <1>3, <2>1, <2>3 DEF ProjectDeploying
    <2>. QED  BY <2>2, <2>3
<1>. QED  BY <1>1, <1>2, <1>3

LEMMA InitOwner ==
    ASSUME Init
    PROVE  OneOwner
<1>1. \A p \in Plan : Begun(p) = {}
    BY NoneIsNoId DEF Init, WorkerInit, Begun
<1>2. ProviderInv  BY DEF Init, WorkerInit, ProviderInv
<1>3. ASSUME NEW p \in Plan
      PROVE  PlanInv(p)
    <2>1. \A a \in Actor : attempts[p][a] = Idle  BY DEF Init, WorkerInit
    <2>2. deployments[p] = NoDeployment  BY DEF Init
    <2>. QED
        BY <1>1, <2>1, <2>2
        DEF PlanInv, RowInv, ScanInv, SlotInv, Actor, Idle, NoDeployment, WithId, AttemptOnly
<1>. QED  BY <1>2, <1>3 DEF OneOwner

LEMMA NextKeepsOwner ==
    ASSUME IInv, ~ZombieStalls, [Next]_allVars
    PROVE  IInv'
<1>1. PipelineTypeOK'  BY NextTypes DEF IInv
<1>2. OneOwner'
    <2>1. CASE PlanningNext /\ UNCHANGED workerVars
        BY <2>1, PlanningEffect, ApiKeepsOwner DEF IInv, workerVars
    <2>2. ASSUME NEW r \in Request,
                 \/ \E p \in Plan : StartDeployRequest(r, p)
                 \/ EnqueueDeploy(r)
                 \/ ProjectDeploying(r)
          PROVE  OneOwner'
        BY <2>2, RequestEffect, ApiKeepsOwner DEF IInv
    <2>3. ASSUME NEW p \in Plan, NEW a \in Slot, Deliver(p, a) \/ Settle(p, a)
          PROVE  OneOwner'
        BY <2>3, QueueKeepsOwner
    <2>4. ASSUME NEW p \in Plan, NEW a \in Slot, Attempt(p, a)
          PROVE  OneOwner'
        BY <2>4, AttemptKeepsOwner
    <2>5. ASSUME NEW p \in Plan, NEW a \in Slot, Advance(p, a) \/ Fault(p, a)
          PROVE  OneOwner'
        BY <2>3, <2>5, AdvanceSlotKeepsOwner, FaultSlotKeepsOwner
    <2>6. ASSUME NEW p \in Plan, Advance(p, Scan) \/ Fault(p, Scan)
          PROVE  OneOwner'
        BY <2>6, ScanKeepsOwner
    <2>7. ASSUME NEW p \in Plan, Stall(p) \/ ScanPicks(p)
          PROVE  OneOwner'
        BY <2>7, QueueKeepsOwner
    <2>8. ASSUME NEW d \in ProviderDeploy, Finish(d)
          PROVE  OneOwner'
        <3>1. /\ UNCHANGED <<plans, jobs, deployments, attempts>>
              /\ NothingBegun
            <4>1. provider \in [ProviderDeploy ->
                        [plan : Plan \cup {None}, state : ProviderState]]
                BY TypeParts DEF IInv, WorkerTypes
            <4>. QED  BY <2>8, <4>1 DEF Finish, ledgerVars, NothingBegun
        <3>2. \A p \in Plan : Begun(p)' = Begun(p)  BY <3>1 DEF Begun, NothingBegun
        <3>3. \A p \in Plan : PlanInv(p)'
            BY <3>1, <3>2 DEF IInv, OneOwner, PlanInv, RowInv, ScanInv, SlotInv, Fresh
        <3>. QED  BY <3>1, <3>3 DEF IInv, OneOwner, ProviderInv, NothingBegun
    <2>9. CASE UNCHANGED allVars
        <3>1. UNCHANGED <<plans, deployments, attempts, jobs, provider>>
            BY <2>9 DEF allVars, vars, ledgerVars, workerVars
        <3>. QED  BY <3>1, ApiKeepsOwner
    <2>. QED
        BY <2>1, <2>2, <2>3, <2>4, <2>5, <2>6, <2>7, <2>8, <2>9 DEF Next, WorkerNext, Actor
<1>. QED  BY <1>1, <1>2 DEF IInv

LEMMA Invariant == ~ZombieStalls => (Spec => []IInv)
<1>. SUFFICES ASSUME ~ZombieStalls
              PROVE  Spec => []IInv
    OBVIOUS
<1>1. Init => IInv  BY InitTypes, InitOwner DEF IInv
<1>2. IInv /\ [Next]_allVars => IInv'  BY NextKeepsOwner
<1>. QED  BY <1>1, <1>2, PTL DEF Spec

\* However often a plan's deploy job is retried and crashes, and however its steps
\* interleave with the scan and the API, the provider is asked for one deploy.
THEOREM BeginOnce == ~ZombieStalls => (Spec => []BeginAtMostOnce)
<1>1. IInv => BeginAtMostOnce
    BY DEF IInv, OneOwner, PlanInv, RowInv, BeginAtMostOnce
<1>. QED  BY <1>1, Invariant, PTL

\* No preflight, approval or cancellation finds a plan that was sent to the
\* provider in a state it may change.
THEOREM BegunPlanClosed == ~ZombieStalls => (Spec => []BegunPlanIsClosed)
<1>1. IInv => BegunPlanIsClosed
    BY DEF IInv, OneOwner, PlanInv, RowInv, BegunPlanIsClosed, Preflightable, Approvable,
           Cancellable
<1>. QED  BY <1>1, Invariant, PTL

----------------------------------------------------------------------------
(* What a step may write into a ledger row.  This holds with overlap too.   *)

\* What actor a may write into the row of plan p, and from which step of its own.
WritesRow(p, a) ==
    LET row  == deployments[p]
        next == deployments'[p]
        id   == attempts[p][a].id
    IN  /\ ~At(p, a, "idle")
        /\ attempts'[p][a].pc # "record"
        /\ \/ next = [row EXCEPT !.operation = "manual_reconciliation_required"]
           \/ /\ ~Manual(row)
              /\ \/ /\ Startable(row) /\ plans[p].status \in DeployStarting
                    /\ next = TakenOver(row)
                 \/ At(p, a, "claim") /\ Claimable(row) /\ next = Claimed(row)
                 \/ next = [row EXCEPT !.evidence.resumeToken = FALSE]
                 \/ /\ plans'[p].status = "failed" /\ row.status \notin Replayable
                    /\ \E e \in Error : next = FailedRow(row, e)
                 \/ At(p, a, "record") /\ next = StartedRow(row, id)
                 \/ At(p, a, "succeed") /\ next = Snapshot(row, id, "provider_succeeded")
                 \/ At(p, a, "pend") /\ next = Snapshot(row, id, "deploying")

RowWritten(p) == deployments'[p] = deployments[p] \/ \E a \in Actor : WritesRow(p, a)

LEMMA OneRowWritten ==
    ASSUME deployments \in RowsType, NEW p \in Plan, NEW a \in Actor, NEW row,
           SetRow(p, row), deployments'[p] = row => WritesRow(p, a)
    PROVE  \A q \in Plan : RowWritten(q)
BY SetRowFacts DEF RowWritten

\* The writes of an attempt ...
LEMMA AttemptWrites ==
    ASSUME PipelineTypeOK, NEW p \in Plan, NEW a \in Slot, Attempt(p, a)
    PROVE  \A q \in Plan : RowWritten(q)
<1>. USE DEF ledgerVars
<1>a. deployments \in RowsType /\ plans \in PlansType /\ attempts \in AttemptsType /\ a \in Actor
    BY TypeParts DEF WorkerTypes, Actor
<1>b. attempts[p][a] \in AttemptState  BY <1>a, AttemptFieldTypes
<1>0. UNCHANGED deployments => \A q \in Plan : RowWritten(q)  BY DEF RowWritten
<1>. DEFINE row == deployments[p]
<1>1. CASE StartDeployment(p, a)
    <2>1. CASE Startable(row) /\ plans[p].status \in DeployStarting
        <3>1. SetRow(p, TakenOver(row))  BY <1>1, <2>1 DEF StartDeployment
        <3>2. Follow(p, a, TakenOver(row), "claim")  BY <1>1, <2>1 DEF StartDeployment
        <3>3. attempts'[p][a].pc # "record"  BY <1>a, <3>2, FollowFacts
        <3>4. ~Manual(row) /\ At(p, a, "start")  BY <1>1, <2>1 DEF Startable, StartDeployment
        <3>. QED  BY <1>a, <2>1, <3>1, <3>3, <3>4, OneRowWritten DEF WritesRow, At
    <2>2. CASE ~(Startable(row) /\ plans[p].status \in DeployStarting)
        BY <1>0, <1>1, <2>2 DEF StartDeployment
    <2>. QED  BY <2>1, <2>2
<1>2. CASE ClaimMutation(p, a)
    <2>1. CASE Claimable(row)
        <3>1. SetRow(p, Claimed(row)) /\ At(p, a, "claim")  BY <1>2, <2>1 DEF ClaimMutation
        <3>2. ~Manual(row)  BY <2>1 DEF Claimable, Manual
        <3>3. Goto(p, a, "begin")  BY <1>2, <2>1 DEF ClaimMutation
        <3>4. attempts'[p][a].pc # "record"  BY <1>a, <3>3, GotoFacts
        <3>. QED  BY <1>a, <2>1, <3>1, <3>2, <3>4, OneRowWritten DEF WritesRow, At
    <2>2. CASE ~Claimable(row)
        BY <1>0, <1>2, <2>2 DEF ClaimMutation
    <2>. QED  BY <2>1, <2>2
<1>3. CASE RecordStarted(p, a)
    <2>1. CASE ~Manual(row)
        <3>1. SetRow(p, StartedRow(row, attempts[p][a].id)) /\ At(p, a, "record")
            BY <1>3, <2>1 DEF RecordStarted
        <3>2. SetAttempt(p, a, [attempts[p][a] EXCEPT !.pc = "upload"])
            BY <1>3, <2>1 DEF RecordStarted
        <3>3. attempts'[p][a].pc # "record"
            BY <1>a, <1>b, <3>2, SetAttemptFacts DEF AttemptState
        <3>. QED  BY <1>a, <2>1, <3>1, <3>3, OneRowWritten DEF WritesRow, At
    <2>2. CASE Manual(row)
        BY <1>0, <1>3, <2>2 DEF RecordStarted
    <2>. QED  BY <2>1, <2>2
<1>4. CASE MarkManual(p, a)
    <2>1. SetRow(p, [row EXCEPT !.operation = "manual_reconciliation_required"])
        BY <1>4 DEF MarkManual
    <2>2. Raise(p, a, "manual") /\ At(p, a, "mark_manual")  BY <1>4 DEF MarkManual
    <2>3. attempts'[p][a].pc # "record"  BY <1>a, <2>2, RaiseFacts
    <2>. QED  BY <1>a, <2>1, <2>2, <2>3, OneRowWritten DEF WritesRow, At
<1>5. CASE \/ LoadPlan(p, a) \/ LoadRow(p, a) \/ Replay(p, a) \/ Prepare(p, a)
           \/ BeginDeploy(p, a)
    BY <1>0, <1>5 DEF LoadPlan, LoadRow, Replay, Prepare, BeginDeploy
<1>. QED  BY <1>1, <1>2, <1>3, <1>4, <1>5 DEF Attempt

\* ... and those an attempt and the scan both make
LEMMA AdvanceWrites ==
    ASSUME PipelineTypeOK, NEW p \in Plan, NEW a \in Actor, Advance(p, a)
    PROVE  \A q \in Plan : RowWritten(q)
<1>. USE DEF ledgerVars
<1>a. deployments \in RowsType /\ plans \in PlansType /\ attempts \in AttemptsType
    BY TypeParts DEF WorkerTypes
<1>b. attempts[p][a].error \in Error  BY <1>a, AttemptFieldTypes DEF AttemptState
<1>0. UNCHANGED deployments => \A q \in Plan : RowWritten(q)  BY DEF RowWritten
<1>. DEFINE row == deployments[p]
<1>1. CASE MarkUpload(p, a)
    <2>1. \/ UNCHANGED deployments
          \/ /\ SetRow(p, [row EXCEPT !.evidence.resumeToken = FALSE])
             /\ ~Manual(row)
             /\ At(p, a, "mark_upload")
             /\ Goto(p, a, "poll")
        BY <1>1 DEF MarkUpload
    <2>2. CASE Goto(p, a, "poll") /\ ~UNCHANGED deployments
        <3>1. attempts'[p][a].pc # "record"  BY <1>a, <2>2, GotoFacts
        <3>. QED  BY <1>a, <2>1, <2>2, <3>1, OneRowWritten DEF WritesRow, At
    <2>. QED  BY <1>0, <2>1, <2>2
<1>2. CASE MarkSucceeded(p, a)
    <2>1. \/ UNCHANGED deployments
          \/ /\ SetRow(p, Snapshot(row, attempts[p][a].id, "provider_succeeded"))
             /\ At(p, a, "succeed")
             /\ ~Manual(row)
             /\ Goto(p, a, "settle")
        BY <1>2 DEF MarkSucceeded, Projectable
    <2>2. CASE Goto(p, a, "settle") /\ ~UNCHANGED deployments
        <3>1. attempts'[p][a].pc # "record"  BY <1>a, <2>2, GotoFacts
        <3>. QED  BY <1>a, <2>1, <2>2, <3>1, OneRowWritten DEF WritesRow, At
    <2>. QED  BY <1>0, <2>1, <2>2
<1>3. CASE MarkPending(p, a)
    <2>1. \/ UNCHANGED deployments
          \/ /\ SetRow(p, Snapshot(row, attempts[p][a].id, "deploying"))
             /\ At(p, a, "pend")
             /\ ~Manual(row)
             /\ Raise(p, a, "pending")
        BY <1>3 DEF MarkPending, Projectable
    <2>2. CASE Raise(p, a, "pending") /\ ~UNCHANGED deployments
        <3>1. attempts'[p][a].pc # "record"  BY <1>a, <2>2, RaiseFacts
        <3>. QED  BY <1>a, <2>1, <2>2, <3>1, OneRowWritten DEF WritesRow, At
    <2>. QED  BY <1>0, <2>1, <2>2
<1>4. CASE MarkFailed(p, a)
    <2>1. \/ UNCHANGED deployments
          \/ /\ SetRow(p, FailedRow(row, attempts[p][a].error))
             /\ ~Manual(row)
             /\ row.status \notin Replayable
             /\ SetPlan(p, "failed")
             /\ At(p, a, "catch")
             /\ Goto(p, a, "settle")
        BY <1>4 DEF MarkFailed, FailureProtected
    <2>2. CASE Goto(p, a, "settle") /\ ~UNCHANGED deployments
        <3>1. attempts'[p][a].pc # "record"  BY <1>a, <2>2, GotoFacts
        <3>2. plans'[p].status = "failed"  BY <1>a, <2>1, <2>2, SetPlanFacts
        <3>. QED  BY <1>a, <1>b, <2>1, <2>2, <3>1, <3>2, OneRowWritten DEF WritesRow, At
    <2>. QED  BY <1>0, <2>1, <2>2
<1>5. CASE Reconcile(p, a) \/ Upload(p, a) \/ Poll(p, a) \/ Settle(p, a)
    BY <1>0, <1>5 DEF Reconcile, Upload, Poll, Settle
<1>. QED  BY <1>1, <1>2, <1>3, <1>4, <1>5 DEF Advance

LEMMA RowWrites ==
    ASSUME PipelineTypeOK, [Next]_allVars
    PROVE  \A q \in Plan : RowWritten(q)
<1>. USE DEF ledgerVars
<1>a. deployments \in RowsType /\ attempts \in AttemptsType
    BY TypeParts DEF WorkerTypes
<1>0. UNCHANGED deployments => \A q \in Plan : RowWritten(q)  BY DEF RowWritten
<1>1. CASE PlanningNext  BY <1>0, <1>1, PlanningEffect
<1>2. ASSUME NEW r \in Request,
             \/ \E p \in Plan : StartDeployRequest(r, p)
             \/ EnqueueDeploy(r)
             \/ ProjectDeploying(r)
      PROVE  \A q \in Plan : RowWritten(q)
    BY <1>0, <1>2, RequestEffect
<1>3. ASSUME NEW p \in Plan, NEW a \in Slot, Attempt(p, a)
      PROVE  \A q \in Plan : RowWritten(q)
    BY <1>3, AttemptWrites
<1>4. ASSUME NEW p \in Plan, NEW a \in Actor, Advance(p, a)
      PROVE  \A q \in Plan : RowWritten(q)
    BY <1>4, AdvanceWrites
<1>5. ASSUME NEW p \in Plan, NEW a \in Actor, Fault(p, a)
      PROVE  \A q \in Plan : RowWritten(q)
    <2>1. CASE RecordFails(p, a)
        <3>1. \/ UNCHANGED deployments
              \/ SetRow(p, StartedRow(deployments[p], attempts[p][a].id))
            BY <2>1 DEF RecordFails
        <3>2. Goto(p, a, "mark_manual") /\ At(p, a, "record") /\ ~Manual(deployments[p])
            BY <2>1 DEF RecordFails
        <3>3. attempts'[p][a].pc # "record"  BY <1>a, <3>2, GotoFacts
        <3>. QED  BY <1>0, <1>a, <3>1, <3>2, <3>3, OneRowWritten DEF WritesRow, At
    <2>2. CASE ~RecordFails(p, a)
        BY <1>0, <1>5, <2>2
        DEF Fault, MediaUnreadable, NotConfigured, BeginFails, MarkManualFails, CallFails,
            JobRunFails, Crash
    <2>. QED  BY <2>1, <2>2
<1>6. ASSUME NEW p \in Plan,
             (\E a \in Slot : Deliver(p, a)) \/ Stall(p) \/ ScanPicks(p)
      PROVE  \A q \in Plan : RowWritten(q)
    BY <1>0, <1>6 DEF Deliver, Stall, ScanPicks
<1>7. CASE \E d \in ProviderDeploy : Finish(d)  BY <1>0, <1>7 DEF Finish
<1>8. CASE UNCHANGED allVars  BY <1>0, <1>8 DEF allVars, vars
<1>. QED
    BY <1>1, <1>2, <1>3, <1>4, <1>5, <1>6, <1>7, <1>8 DEF Next, WorkerNext

\* The manual stop sign: once it is set, no attempt, scan or request writes the row
\* again, overlapping attempts included.
THEOREM ManualStops == Spec => ManualIsFinal
<1>1. PipelineTypeOK /\ [Next]_allVars =>
        [\A p \in Plan : Manual(deployments[p]) => deployments'[p] = deployments[p]]_vars
    <2>. SUFFICES ASSUME PipelineTypeOK, [Next]_allVars, NEW p \in Plan,
                         Manual(deployments[p])
                  PROVE  deployments'[p] = deployments[p]
        OBVIOUS
    <2>1. deployments[p] \in DeploymentRow
        BY TypeParts DEF WorkerTypes, RowsType
    <2>2. RowWritten(p)  BY RowWrites
    <2>3. [deployments[p] EXCEPT !.operation = "manual_reconciliation_required"] = deployments[p]
        BY <2>1 DEF Manual, DeploymentRow
    <2>. QED  BY <2>2, <2>3 DEF RowWritten, WritesRow
<1>. QED  BY <1>1, TypeCorrect, PTL DEF Spec, ManualIsFinal

\* One step: an id in a row stays, and was begun for the row's plan.
LEMMA RecordedIdStep ==
    ASSUME IInv, [Next]_allVars, NEW p \in Plan, deployments[p].providerDeployId # None
    PROVE  /\ deployments[p].providerDeployId \in Begun(p)
           /\ deployments'[p].providerDeployId = deployments[p].providerDeployId
<1>. USE DEF IInv
<1>1. RowInv(p)  BY DEF OneOwner, PlanInv
<1>2. deployments[p].providerDeployId \in Begun(p)  BY <1>1 DEF RowInv
<1>3. deployments[p] \in DeploymentRow
    BY TypeParts DEF WorkerTypes, RowsType
<1>4. \A a \in Actor : attempts[p][a].pc \in WithId =>
            attempts[p][a].id = deployments[p].providerDeployId
    BY <1>1, <1>2, ActorId DEF RowInv
<1>5. RowWritten(p)  BY RowWrites
<1>. QED
    BY <1>2, <1>3, <1>4, <1>5
    DEF RowWritten, WritesRow, TakenOver, Claimed, FailedRow, StartedRow, Snapshot, DeploymentRow,
        At, WithId

\* The provider deploy a ledger row names was begun for its plan and is never
\* exchanged for another, as long as attempts do not overlap.
THEOREM RecordedIdFixed == ~ZombieStalls => (Spec => RecordedIdStays)
<1>. SUFFICES ASSUME ~ZombieStalls
              PROVE  Spec => RecordedIdStays
    OBVIOUS
<1>1. IInv /\ [Next]_allVars =>
        [\A p \in Plan :
            LET d == deployments[p].providerDeployId IN
            d # None => /\ d \in Begun(p)
                        /\ deployments'[p].providerDeployId = d]_vars
    BY RecordedIdStep
<1>2. Spec => []IInv  BY Invariant
<1>. QED  BY <1>1, <1>2, PTL DEF Spec, RecordedIdStays

\* One step: a failed plan stays failed.
LEMMA FailedPlanStep ==
    ASSUME PipelineTypeOK, [Next]_allVars, NEW q \in Plan, plans[q].status = "failed"
    PROVE  plans'[q].status = "failed"
<1>. USE DEF ledgerVars
<1>a. plans \in PlansType  BY TypeParts DEF WorkerTypes
<1>1. CASE PlanningNext  BY <1>1, PlanningEffect
<1>2. ASSUME NEW r \in Request,
             \/ \E p \in Plan : StartDeployRequest(r, p)
             \/ EnqueueDeploy(r)
             \/ ProjectDeploying(r)
      PROVE  plans'[q].status = "failed"
    BY <1>2, RequestEffect
<1>3. ASSUME NEW p \in Plan, NEW a \in Slot, Attempt(p, a)
      PROVE  plans'[q].status = "failed"
    <2>1. CASE Replay(p, a)
        <3>1. CASE plans[p].status \in {"deploying", "live"}
            <4>1. UNCHANGED plans \/ SetPlan(p, "live")  BY <2>1 DEF Replay
            <4>. QED  BY <1>a, <3>1, <4>1, SetPlanFacts
        <3>2. CASE plans[p].status \notin {"deploying", "live"}
            BY <2>1, <3>2 DEF Replay
        <3>. QED  BY <3>1, <3>2
    <2>2. CASE StartDeployment(p, a)
        <3>1. CASE Startable(deployments[p]) /\ plans[p].status \in DeployStarting
            <4>1. SetPlan(p, "deploying")  BY <2>2, <3>1 DEF StartDeployment, ProjectPlan
            <4>2. p # q  BY <3>1 DEF DeployStarting
            <4>. QED  BY <1>a, <4>1, <4>2, SetPlanFacts
        <3>2. CASE ~(Startable(deployments[p]) /\ plans[p].status \in DeployStarting)
            BY <2>2, <3>2 DEF StartDeployment
        <3>. QED  BY <3>1, <3>2
    <2>3. CASE ~Replay(p, a) /\ ~StartDeployment(p, a)
        BY <1>3, <2>3
        DEF Attempt, LoadPlan, LoadRow, Prepare, ClaimMutation, BeginDeploy, RecordStarted,
            MarkManual
    <2>. QED  BY <2>1, <2>2, <2>3
<1>4. ASSUME NEW p \in Plan, NEW a \in Actor, Advance(p, a)
      PROVE  plans'[q].status = "failed"
    <2>1. CASE MarkFailed(p, a)
        <3>1. UNCHANGED plans \/ SetPlan(p, "failed")  BY <2>1 DEF MarkFailed
        <3>. QED  BY <1>a, <3>1, SetPlanFacts
    <2>2. CASE ~MarkFailed(p, a)
        BY <1>4, <2>2
        DEF Advance, Reconcile, Upload, MarkUpload, Poll, MarkSucceeded, MarkPending, Settle
    <2>. QED  BY <2>1, <2>2
<1>5. ASSUME NEW p \in Plan, NEW a \in Actor, Fault(p, a)
      PROVE  plans'[q].status = "failed"
    BY <1>5
    DEF Fault, MediaUnreadable, NotConfigured, BeginFails, RecordFails, MarkManualFails,
        CallFails, JobRunFails, Crash
<1>6. ASSUME NEW p \in Plan,
             (\E a \in Slot : Deliver(p, a)) \/ Stall(p) \/ ScanPicks(p)
      PROVE  plans'[q].status = "failed"
    BY <1>6 DEF Deliver, Stall, ScanPicks
<1>7. CASE \E d \in ProviderDeploy : Finish(d)  BY <1>7 DEF Finish
<1>8. CASE UNCHANGED allVars  BY <1>8 DEF allVars, vars
<1>. QED
    BY <1>1, <1>2, <1>3, <1>4, <1>5, <1>6, <1>7, <1>8 DEF Next, WorkerNext

\* No late request, retry or overlapping attempt that read the plan before it failed
\* brings it back.
THEOREM FailedPlanFinal == Spec => FailedPlanStaysFailed
<1>1. PipelineTypeOK /\ [Next]_allVars =>
        [\A p \in Plan : plans[p].status = "failed" => plans'[p].status = "failed"]_allVars
    BY FailedPlanStep
<1>. QED  BY <1>1, TypeCorrect, PTL DEF Spec, FailedPlanStaysFailed

----------------------------------------------------------------------------
(* Active plans and their versions *)

\* No plan becomes active, and no plan's items change: what every step but the
\* creation of a plan keeps.
NoNewActivePlan ==
    \A q \in Plan :
        /\ plans'[q].items = plans[q].items
        /\ plans'[q].status \in ActivePlan => plans[q].status \in ActivePlan

LEMMA SetPlanNoNewActive ==
    ASSUME plans \in PlansType, NEW p \in Plan, NEW s, SetPlan(p, s),
           plans[p].status \in ActivePlan \/ s \notin ActivePlan
    PROVE  NoNewActivePlan
BY DEF PlansType, PlanRow, SetPlan, NoNewActivePlan

LEMMA UnchangedNoNewActive ==
    ASSUME UNCHANGED plans
    PROVE  NoNewActivePlan
BY DEF NoNewActivePlan

LEMMA ApiNoNewActive ==
    ASSUME PipelineTypeOK,
           \/ PlanningNext /\ ~(\E p \in Plan, items \in SUBSET Version : CreatePlan(p, items))
           \/ \E r \in Request :
                \/ \E p \in Plan : StartDeployRequest(r, p)
                \/ EnqueueDeploy(r) \/ ProjectDeploying(r)
    PROVE  NoNewActivePlan
<1>. USE DEF ledgerVars
<1>a. plans \in PlansType  BY TypeParts DEF WorkerTypes
<1>1. ASSUME NEW p \in Plan, ApproveDeploy(p)
      PROVE  NoNewActivePlan
    BY <1>1, <1>a, SetPlanNoNewActive DEF ApproveDeploy, Approvable, ActivePlan
<1>2. ASSUME NEW p \in Plan, CancelPlan(p)
      PROVE  NoNewActivePlan
    BY <1>2, <1>a, SetPlanNoNewActive DEF CancelPlan, ActivePlan
<1>3. ASSUME NEW r \in Request, PersistPreflight(r)
      PROVE  NoNewActivePlan
    <2>1. requests[r].plan \in Plan  BY <1>3 DEF PersistPreflight, Await
    <2>2. CASE MayPersist(requests[r].plan)
        <3>1. SetPlan(requests[r].plan, requests[r].readiness)
            BY <1>3, <2>2 DEF PersistPreflight
        <3>2. plans[requests[r].plan].status \in ActivePlan
            BY <2>2 DEF MayPersist, Preflightable, ActivePlan
        <3>. QED  BY <1>a, <2>1, <3>1, <3>2, SetPlanNoNewActive
    <2>3. CASE ~MayPersist(requests[r].plan)
        BY <1>3, <2>3, UnchangedNoNewActive DEF PersistPreflight
    <2>. QED  BY <2>2, <2>3
<1>4. ASSUME NEW r \in Request, ProjectDeploying(r)
      PROVE  NoNewActivePlan
    <2>1. requests[r].plan \in Plan  BY <1>4 DEF ProjectDeploying, Await
    <2>2. CASE MayDeploy(requests[r].plan)
        <3>1. SetPlan(requests[r].plan, "deploying")  BY <1>4, <2>2 DEF ProjectDeploying
        <3>2. plans[requests[r].plan].status \in ActivePlan
            BY <2>2 DEF MayDeploy, DeployStarting, ActivePlan
        <3>. QED  BY <1>a, <2>1, <3>1, <3>2, SetPlanNoNewActive
    <2>3. CASE ~MayDeploy(requests[r].plan)
        BY <1>4, <2>3, UnchangedNoNewActive DEF ProjectDeploying
    <2>. QED  BY <2>2, <2>3
<1>5. ASSUME NEW r \in Request,
             \/ \E p \in Plan : StartPreflight(r, p) \/ StartDeployRequest(r, p)
             \/ PickSource(r) \/ InsertPoint(r) \/ GatherEvidence(r) \/ DropRequest(r)
             \/ EnqueueDeploy(r)
      PROVE  NoNewActivePlan
    BY <1>5, UnchangedNoNewActive
    DEF StartPreflight, StartDeployRequest, PickSource, InsertPoint, GatherEvidence,
        DropRequest, EnqueueDeploy
<1>. QED  BY <1>1, <1>2, <1>3, <1>4, <1>5 DEF PlanningNext

LEMMA WorkerNoNewActive ==
    ASSUME PipelineTypeOK, WorkerNext
    PROVE  NoNewActivePlan
<1>. USE DEF ledgerVars
<1>a. plans \in PlansType  BY TypeParts DEF WorkerTypes
<1>1. ASSUME NEW p \in Plan, NEW a \in Slot, Attempt(p, a)
      PROVE  NoNewActivePlan
    <2>1. CASE Replay(p, a)
        <3>1. CASE plans[p].status \in {"deploying", "live"}
            <4>1. UNCHANGED plans \/ SetPlan(p, "live")  BY <2>1 DEF Replay
            <4>. QED
                BY <1>a, <3>1, <4>1, SetPlanNoNewActive, UnchangedNoNewActive DEF ActivePlan
        <3>2. CASE plans[p].status \notin {"deploying", "live"}
            BY <2>1, <3>2, UnchangedNoNewActive DEF Replay
        <3>. QED  BY <3>1, <3>2
    <2>2. CASE StartDeployment(p, a)
        <3>1. CASE Startable(deployments[p]) /\ plans[p].status \in DeployStarting
            <4>1. SetPlan(p, "deploying")  BY <2>2, <3>1 DEF StartDeployment, ProjectPlan
            <4>. QED  BY <1>a, <3>1, <4>1, SetPlanNoNewActive DEF DeployStarting, ActivePlan
        <3>2. CASE ~(Startable(deployments[p]) /\ plans[p].status \in DeployStarting)
            BY <2>2, <3>2, UnchangedNoNewActive DEF StartDeployment
        <3>. QED  BY <3>1, <3>2
    <2>3. CASE ~Replay(p, a) /\ ~StartDeployment(p, a)
        BY <1>1, <2>3, UnchangedNoNewActive
        DEF Attempt, LoadPlan, LoadRow, Prepare, ClaimMutation, BeginDeploy, RecordStarted,
            MarkManual
    <2>. QED  BY <2>1, <2>2, <2>3
<1>2. ASSUME NEW p \in Plan, NEW a \in Actor, Advance(p, a)
      PROVE  NoNewActivePlan
    <2>1. CASE MarkFailed(p, a)
        <3>1. UNCHANGED plans \/ SetPlan(p, "failed")  BY <2>1 DEF MarkFailed
        <3>. QED  BY <1>a, <3>1, SetPlanNoNewActive, UnchangedNoNewActive DEF ActivePlan
    <2>2. CASE ~MarkFailed(p, a)
        BY <1>2, <2>2, UnchangedNoNewActive
        DEF Advance, Reconcile, Upload, MarkUpload, Poll, MarkSucceeded, MarkPending, Settle
    <2>. QED  BY <2>1, <2>2
<1>3. ASSUME NEW p \in Plan, NEW a \in Actor, Fault(p, a)
      PROVE  NoNewActivePlan
    BY <1>3, UnchangedNoNewActive
    DEF Fault, MediaUnreadable, NotConfigured, BeginFails, RecordFails, MarkManualFails,
        CallFails, JobRunFails, Crash
<1>4. ASSUME NEW p \in Plan,
             (\E a \in Slot : Deliver(p, a)) \/ Stall(p) \/ ScanPicks(p)
      PROVE  NoNewActivePlan
    BY <1>4, UnchangedNoNewActive DEF Deliver, Stall, ScanPicks
<1>5. CASE \E d \in ProviderDeploy : Finish(d)
    BY <1>5, UnchangedNoNewActive DEF Finish
<1>. QED  BY <1>1, <1>2, <1>3, <1>4, <1>5 DEF WorkerNext

\* A page version is in at most one active release plan, however planning, retried
\* jobs and the scan overlap: createPlan's check under the row locks is enough,
\* since no other step of planning or deploying makes a plan active.
THEOREM OneActivePlan == Spec => []VersionInOneActivePlan
<1>1. Init => VersionInOneActivePlan
    BY DEF Init, VersionInOneActivePlan, ActivePlan
<1>2. PipelineTypeOK /\ VersionInOneActivePlan /\ [Next]_allVars => VersionInOneActivePlan'
    <2>. SUFFICES ASSUME PipelineTypeOK, VersionInOneActivePlan, [Next]_allVars
                  PROVE  VersionInOneActivePlan'
        OBVIOUS
    <2>1. CASE NoNewActivePlan
        BY <2>1 DEF NoNewActivePlan, VersionInOneActivePlan
    <2>2. ASSUME NEW p \in Plan, NEW items \in SUBSET Version, CreatePlan(p, items)
          PROVE  VersionInOneActivePlan'
        <3>1. /\ plans'[p].items = items
              /\ \A q \in Plan \ {p} : plans'[q] = plans[q]
            BY <2>2, TypeParts DEF CreatePlan, WorkerTypes, PlansType
        <3>2. \A q \in Plan : plans[q].status \in ActivePlan => plans[q].items \cap items = {}
            BY <2>2 DEF CreatePlan, Free
        <3>. QED  BY <3>1, <3>2 DEF VersionInOneActivePlan
    <2>3. CASE UNCHANGED allVars
        BY <2>1, <2>3, UnchangedNoNewActive DEF allVars, vars, ledgerVars
    <2>. QED  BY <2>1, <2>2, <2>3, ApiNoNewActive, WorkerNoNewActive DEF Next
<1>. QED  BY <1>1, <1>2, TypeCorrect, PTL DEF Spec

----------------------------------------------------------------------------
(* Release candidates and the plans that hold them *)

\* The statuses of a plan whose items may be release candidates
Holding == {"approved_for_deploy", "deploying", "live"}

\* A plan that stops holding its candidates demotes them, and a version becomes a
\* candidate only as an item of a plan that holds it: what every step does.
CandidatesKept ==
    /\ \A q \in Plan : plans[q].status \in Holding =>
        /\ plans'[q].items = plans[q].items
        /\ \/ plans'[q].status \in Holding
           \/ \A v \in plans[q].items \cap Version : versions'[v] # "release_candidate"
    /\ \A v \in Version : versions'[v] = "release_candidate" =>
        \/ versions[v] = "release_candidate"
        \/ \E q \in Plan : v \in plans'[q].items /\ plans'[q].status \in Holding

LEMMA UnchangedKeepsCandidates ==
    ASSUME UNCHANGED plans, UNCHANGED versions
    PROVE  CandidatesKept
BY DEF CandidatesKept

\* A plan moves and its candidates stay: it holds them afterwards, or did not before.
LEMMA MoveKeepsCandidates ==
    ASSUME plans \in PlansType, NEW p \in Plan, NEW s, SetPlan(p, s), UNCHANGED versions,
           s \in Holding \/ plans[p].status \notin Holding
    PROVE  CandidatesKept
<1>1. /\ plans'[p].status = s
      /\ plans'[p].items = plans[p].items
      /\ \A q \in Plan \ {p} : plans'[q] = plans[q]
    BY DEF PlansType, PlanRow, SetPlan
<1>. QED  BY <1>1 DEF CandidatesKept

\* A plan that lets go of its candidates demotes them.
LEMMA DemotionKeepsCandidates ==
    ASSUME plans \in PlansType, NEW p \in Plan, NEW s, SetPlan(p, s), versions' = Demoted(p)
    PROVE  CandidatesKept
<1>1. /\ plans'[p].items = plans[p].items
      /\ \A q \in Plan \ {p} : plans'[q] = plans[q]
    BY DEF PlansType, PlanRow, SetPlan
<1>2. /\ \A v \in plans[p].items \cap Version : versions'[v] # "release_candidate"
      /\ \A v \in Version : versions'[v] = "release_candidate" =>
            versions[v] = "release_candidate"
    BY DEF Demoted
<1>. QED  BY <1>1, <1>2 DEF CandidatesKept

\* The steps of the API ...
LEMMA ApiKeepsCandidates ==
    ASSUME PipelineTypeOK,
           \/ PlanningNext
           \/ \E r \in Request :
                \/ \E p \in Plan : StartDeployRequest(r, p)
                \/ EnqueueDeploy(r) \/ ProjectDeploying(r)
    PROVE  CandidatesKept
<1>. USE DEF ledgerVars
<1>a. plans \in PlansType  BY TypeParts DEF WorkerTypes
<1>1. ASSUME NEW p \in Plan, NEW items \in SUBSET Version, CreatePlan(p, items)
      PROVE  CandidatesKept
    <2>1. /\ plans[p].status \notin Holding
          /\ \A q \in Plan \ {p} : plans'[q] = plans[q]
          /\ UNCHANGED versions
        BY <1>1, <1>a DEF CreatePlan, PlansType, Holding
    <2>. QED  BY <2>1 DEF CandidatesKept
<1>2. ASSUME NEW p \in Plan, ApproveDeploy(p)
      PROVE  CandidatesKept
    <2>1. /\ plans'[p].status \in Holding
          /\ plans'[p].items = plans[p].items
          /\ \A q \in Plan \ {p} : plans'[q] = plans[q]
        BY <1>2, <1>a DEF ApproveDeploy, PlansType, PlanRow, SetPlan, Holding
    <2>2. \A v \in Version : versions'[v] = "release_candidate" =>
            versions[v] = "release_candidate" \/ v \in plans[p].items
        BY <1>2 DEF ApproveDeploy, Promoted
    <2>. QED  BY <2>1, <2>2 DEF CandidatesKept
<1>3. ASSUME NEW p \in Plan, CancelPlan(p)
      PROVE  CandidatesKept
    BY <1>3, <1>a, DemotionKeepsCandidates DEF CancelPlan
<1>4. ASSUME NEW r \in Request, PersistPreflight(r)
      PROVE  CandidatesKept
    <2>. DEFINE p == requests[r].plan
    <2>1. p \in Plan  BY <1>4 DEF PersistPreflight, Await
    <2>2. CASE MayPersist(p)
        <3>1. SetPlan(p, requests[r].readiness)  BY <1>4, <2>2 DEF PersistPreflight
        <3>2. CASE plans[p].status = "approved_for_deploy"
            <4>1. versions' = Demoted(p)  BY <1>4, <2>2, <3>2 DEF PersistPreflight
            <4>. QED  BY <1>a, <2>1, <3>1, <4>1, DemotionKeepsCandidates
        <3>3. CASE plans[p].status # "approved_for_deploy"
            <4>1. UNCHANGED versions  BY <1>4, <2>2, <3>3 DEF PersistPreflight
            <4>2. plans[p].status \notin Holding
                BY <2>2, <3>3 DEF MayPersist, Preflightable, Holding
            <4>. QED  BY <1>a, <2>1, <3>1, <4>1, <4>2, MoveKeepsCandidates
        <3>. QED  BY <3>2, <3>3
    <2>3. CASE ~MayPersist(p)
        BY <1>4, <2>3, UnchangedKeepsCandidates DEF PersistPreflight
    <2>. QED  BY <2>2, <2>3
<1>5. ASSUME NEW r \in Request, ProjectDeploying(r)
      PROVE  CandidatesKept
    <2>1. requests[r].plan \in Plan /\ UNCHANGED versions
        BY <1>5 DEF ProjectDeploying, Await
    <2>2. CASE MayDeploy(requests[r].plan)
        <3>1. SetPlan(requests[r].plan, "deploying")  BY <1>5, <2>2 DEF ProjectDeploying
        <3>. QED  BY <1>a, <2>1, <3>1, MoveKeepsCandidates DEF Holding
    <2>3. CASE ~MayDeploy(requests[r].plan)
        BY <1>5, <2>3, UnchangedKeepsCandidates DEF ProjectDeploying
    <2>. QED  BY <2>2, <2>3
<1>6. ASSUME NEW r \in Request,
             \/ \E p \in Plan : StartPreflight(r, p) \/ StartDeployRequest(r, p)
             \/ PickSource(r) \/ InsertPoint(r) \/ GatherEvidence(r) \/ DropRequest(r)
             \/ EnqueueDeploy(r)
      PROVE  CandidatesKept
    BY <1>6, UnchangedKeepsCandidates
    DEF StartPreflight, StartDeployRequest, PickSource, InsertPoint, GatherEvidence,
        DropRequest, EnqueueDeploy
<1>. QED  BY <1>1, <1>2, <1>3, <1>4, <1>5, <1>6 DEF PlanningNext

\* ... and those of the worker
LEMMA WorkerKeepsCandidates ==
    ASSUME PipelineTypeOK, WorkerNext
    PROVE  CandidatesKept
<1>. USE DEF ledgerVars
<1>a. plans \in PlansType  BY TypeParts DEF WorkerTypes
<1>1. ASSUME NEW p \in Plan, NEW a \in Slot, Attempt(p, a)
      PROVE  CandidatesKept
    <2>1. CASE Replay(p, a)
        <3>1. UNCHANGED versions  BY <2>1 DEF Replay
        <3>2. UNCHANGED plans \/ SetPlan(p, "live")  BY <2>1 DEF Replay
        <3>. QED
            BY <1>a, <3>1, <3>2, MoveKeepsCandidates, UnchangedKeepsCandidates DEF Holding
    <2>2. CASE StartDeployment(p, a)
        <3>1. UNCHANGED versions  BY <2>2 DEF StartDeployment
        <3>2. CASE Startable(deployments[p]) /\ plans[p].status \in DeployStarting
            <4>1. SetPlan(p, "deploying")  BY <2>2, <3>2 DEF StartDeployment, ProjectPlan
            <4>. QED  BY <1>a, <3>1, <4>1, MoveKeepsCandidates DEF Holding
        <3>3. CASE ~(Startable(deployments[p]) /\ plans[p].status \in DeployStarting)
            BY <2>2, <3>3, UnchangedKeepsCandidates DEF StartDeployment
        <3>. QED  BY <3>2, <3>3
    <2>3. CASE ~Replay(p, a) /\ ~StartDeployment(p, a)
        BY <1>1, <2>3, UnchangedKeepsCandidates
        DEF Attempt, LoadPlan, LoadRow, Prepare, ClaimMutation, BeginDeploy, RecordStarted,
            MarkManual
    <2>. QED  BY <2>1, <2>2, <2>3
<1>2. ASSUME NEW p \in Plan, NEW a \in Actor, Advance(p, a)
      PROVE  CandidatesKept
    <2>1. CASE MarkFailed(p, a)
        <3>1. \/ UNCHANGED <<plans, versions>>
              \/ SetPlan(p, "failed") /\ versions' = Demoted(p)
            BY <2>1 DEF MarkFailed
        <3>. QED  BY <1>a, <3>1, DemotionKeepsCandidates, UnchangedKeepsCandidates
    <2>2. CASE ~MarkFailed(p, a)
        BY <1>2, <2>2, UnchangedKeepsCandidates
        DEF Advance, Reconcile, Upload, MarkUpload, Poll, MarkSucceeded, MarkPending, Settle
    <2>. QED  BY <2>1, <2>2
<1>3. ASSUME NEW p \in Plan, NEW a \in Actor, Fault(p, a)
      PROVE  CandidatesKept
    BY <1>3, UnchangedKeepsCandidates
    DEF Fault, MediaUnreadable, NotConfigured, BeginFails, RecordFails, MarkManualFails,
        CallFails, JobRunFails, Crash
<1>4. ASSUME NEW p \in Plan,
             (\E a \in Slot : Deliver(p, a)) \/ Stall(p) \/ ScanPicks(p)
      PROVE  CandidatesKept
    BY <1>4, UnchangedKeepsCandidates DEF Deliver, Stall, ScanPicks
<1>5. CASE \E d \in ProviderDeploy : Finish(d)
    BY <1>5, UnchangedKeepsCandidates DEF Finish
<1>. QED  BY <1>1, <1>2, <1>3, <1>4, <1>5 DEF WorkerNext

\* No version is left a release candidate that no plan holds: whichever process
\* fails, cancels or sends back a plan demotes its items in the same transaction,
\* overlapping attempts and stale jobs included.
THEOREM CandidatesHeld == Spec => []CandidateHasPlan
<1>1. Init => CandidateHasPlan
    BY DEF Init, CandidateHasPlan
<1>2. PipelineTypeOK /\ CandidateHasPlan /\ [Next]_allVars => CandidateHasPlan'
    <2>. SUFFICES ASSUME PipelineTypeOK, CandidateHasPlan, [Next]_allVars
                  PROVE  CandidateHasPlan'
        OBVIOUS
    <2>1. CandidatesKept
        BY ApiKeepsCandidates, WorkerKeepsCandidates, UnchangedKeepsCandidates
        DEF Next, allVars, vars, ledgerVars
    <2>2. ASSUME NEW v \in Version, versions'[v] = "release_candidate",
                 versions[v] = "release_candidate"
          PROVE  \E q \in Plan : v \in plans'[q].items /\ plans'[q].status \in Holding
        <3>1. PICK q \in Plan : v \in plans[q].items /\ plans[q].status \in Holding
            BY <2>2 DEF CandidateHasPlan, Holding
        <3>. QED  BY <2>1, <2>2, <3>1 DEF CandidatesKept
    <2>. QED  BY <2>1, <2>2 DEF CandidatesKept, CandidateHasPlan, Holding
<1>. QED  BY <1>1, <1>2, TypeCorrect, PTL DEF Spec

----------------------------------------------------------------------------
(* What a rollback point restores.  Overlapping attempts may begin several  *)
(* deploys for a plan and exchange the id in its row, but every id at hand  *)
(* was begun for the plan, and a success is written of a ready deploy only. *)

\* The deploys of the plan that the provider finished
ReadyOf(p) == {d \in Begun(p) : provider[d].state = "ready"}

\* The id at hand was begun for the plan; who writes a success saw the deploy ready.
AttemptNames(p, a) ==
    LET st == attempts[p][a]
    IN  /\ st.id \in Begun(p) \cup {None}
        /\ st.pc \in WithId => st.id # None
        /\ st.pc = "succeed" => st.id \in ReadyOf(p)

\* So was the id in the row, and a deployment that can be restored is ready.
RowNames(p) ==
    LET row == deployments[p]
    IN  /\ row.providerDeployId \in Begun(p) \cup {None}
        /\ row.status \in RollbackSource => row.providerDeployId \in ReadyOf(p)

\* What a preflight picked to restore is ready, whatever the row says by now.
PickNames(r) ==
    \A q \in Plan, d \in ProviderDeploy :
        requests[r].source = <<q, d>> => d \in ReadyOf(q)

PointNames ==
    \A p, q \in Plan : \A d \in ProviderDeploy :
        points[<<p, q, d>>].status # "absent" => d \in ReadyOf(q)

SourceInv ==
    /\ ProviderInv
    /\ \A p \in Plan : RowNames(p) /\ \A a \in Actor : AttemptNames(p, a)
    /\ \A r \in Request : PickNames(r)
    /\ PointNames

\* The provider forgets no deploy, and what is ready stays ready.
Grown ==
    \A p \in Plan : /\ Begun(p) \subseteq Begun(p)'
                    /\ ReadyOf(p) \subseteq ReadyOf(p)'

ProviderType == [ProviderDeploy -> [plan : Plan \cup {None}, state : ProviderState]]

LEMMA SameProviderGrows ==
    ASSUME ProviderInv, UNCHANGED provider
    PROVE  Grown /\ ProviderInv'
BY DEF ProviderInv, Grown, Begun, ReadyOf

LEMMA BeginGrows ==
    ASSUME provider \in ProviderType, ProviderInv, NEW p \in Plan, NEW d \in ProviderDeploy,
           provider[d].state = "absent",
           provider' = [provider EXCEPT ![d] = [plan |-> p, state |-> "uploading"]]
    PROVE  Grown /\ ProviderInv' /\ d \in Begun(p)'
<1>1. provider[d].plan = None  BY DEF ProviderInv
<1>2. /\ provider'[d] = [plan |-> p, state |-> "uploading"]
      /\ \A e \in ProviderDeploy \ {d} : provider'[e] = provider[e]
    BY DEF ProviderType
<1>3. None \notin Plan  BY NoneIsNoId
<1>. QED  BY <1>1, <1>2, <1>3 DEF ProviderInv, Grown, Begun, ReadyOf

LEMMA StateGrows ==
    ASSUME provider \in ProviderType, ProviderInv, NEW d \in ProviderDeploy, NEW s,
           provider' = [provider EXCEPT ![d].state = s], s # "absent",
           provider[d].state \notin {"absent", "ready"}
    PROVE  Grown /\ ProviderInv'
<1>1. /\ provider'[d].plan = provider[d].plan
      /\ provider'[d].state = s
      /\ \A e \in ProviderDeploy \ {d} : provider'[e] = provider[e]
    BY DEF ProviderType
<1>. QED  BY <1>1 DEF ProviderInv, Grown, Begun, ReadyOf

\* No step takes a deploy back.
LEMMA NextGrows ==
    ASSUME PipelineTypeOK, SourceInv, [Next]_allVars
    PROVE  Grown /\ ProviderInv'
<1>. USE DEF ledgerVars
<1>a. provider \in ProviderType /\ attempts \in AttemptsType
    BY TypeParts DEF WorkerTypes, ProviderType
<1>b. ProviderInv /\ \A p \in Plan, a \in Actor : AttemptNames(p, a)  BY DEF SourceInv
<1>0. UNCHANGED provider => Grown /\ ProviderInv'  BY <1>b, SameProviderGrows
<1>1. CASE PlanningNext /\ UNCHANGED workerVars  BY <1>0, <1>1 DEF workerVars
<1>2. ASSUME NEW r \in Request,
             \/ \E p \in Plan : StartDeployRequest(r, p)
             \/ EnqueueDeploy(r)
             \/ ProjectDeploying(r)
      PROVE  UNCHANGED provider
    BY <1>2, RequestEffect
<1>3. ASSUME NEW p \in Plan, NEW a \in Slot, Attempt(p, a)
      PROVE  Grown /\ ProviderInv'
    <2>1. CASE BeginDeploy(p, a)  BY <1>a, <1>b, <2>1, BeginGrows DEF BeginDeploy
    <2>2. CASE ~BeginDeploy(p, a)
        BY <1>0, <1>3, <2>2
        DEF Attempt, LoadPlan, LoadRow, Replay, Prepare, StartDeployment, ClaimMutation,
            RecordStarted, MarkManual
    <2>. QED  BY <2>1, <2>2
<1>4. ASSUME NEW p \in Plan, NEW a \in Actor, Advance(p, a)
      PROVE  Grown /\ ProviderInv'
    <2>1. CASE Upload(p, a)
        <3>. DEFINE d == attempts[p][a].id
        <3>1. d \in ProviderDeploy /\ d \in Begun(p)
            BY <1>b, <2>1 DEF Upload, At, WithId, AttemptNames, Begun
        <3>2. CASE provider[d].state = "uploading"
            <4>1. provider' = [provider EXCEPT ![d].state = "building"]
                BY <2>1, <3>2 DEF Upload
            <4>. QED  BY <1>a, <1>b, <3>1, <3>2, <4>1, StateGrows
        <3>3. CASE provider[d].state # "uploading"
            <4>1. UNCHANGED provider  BY <1>a, <2>1, <3>1, <3>3 DEF Upload, ProviderType
            <4>. QED  BY <1>0, <4>1
        <3>. QED  BY <3>2, <3>3
    <2>2. CASE ~Upload(p, a)
        BY <1>0, <1>4, <2>2
        DEF Advance, Reconcile, MarkUpload, Poll, MarkSucceeded, MarkPending, MarkFailed, Settle
    <2>. QED  BY <2>1, <2>2
<1>5. ASSUME NEW p \in Plan, NEW a \in Actor, Fault(p, a)
      PROVE  Grown /\ ProviderInv'
    <2>1. CASE BeginFails(p, a)  BY <1>0, <1>a, <1>b, <2>1, BeginGrows DEF BeginFails
    <2>2. CASE ~BeginFails(p, a)
        BY <1>0, <1>5, <2>2
        DEF Fault, MediaUnreadable, NotConfigured, RecordFails, MarkManualFails, CallFails,
            JobRunFails, Crash
    <2>. QED  BY <2>1, <2>2
<1>6. ASSUME NEW p \in Plan,
             (\E a \in Slot : Deliver(p, a)) \/ Stall(p) \/ ScanPicks(p)
      PROVE  Grown /\ ProviderInv'
    BY <1>0, <1>6 DEF Deliver, Stall, ScanPicks
<1>7. ASSUME NEW d \in ProviderDeploy, Finish(d)
      PROVE  Grown /\ ProviderInv'
    BY <1>7, <1>a, <1>b, StateGrows DEF Finish
<1>8. CASE UNCHANGED allVars  BY <1>0, <1>8 DEF allVars, vars, workerVars
<1>. QED
    BY <1>0, <1>1, <1>2, <1>3, <1>4, <1>5, <1>6, <1>7, <1>8 DEF Next, WorkerNext

\* Only the actor that moves has to be looked at ...
LEMMA OneNames ==
    ASSUME SourceInv, Grown, NEW p \in Plan, NEW a \in Actor, Moved(p, a), AttemptNames(p, a)'
    PROVE  \A q \in Plan, b \in Actor : AttemptNames(q, b)'
BY DEF SourceInv, Grown, Moved, AttemptNames

\* ... and most often it keeps the id it has.
LEMMA IdKept ==
    ASSUME SourceInv, Grown, NEW p \in Plan, NEW a \in Actor, Moved(p, a),
           attempts'[p][a].id = attempts[p][a].id,
           attempts'[p][a].pc \in WithId => attempts[p][a].pc \in WithId,
           attempts'[p][a].pc = "succeed" => provider[attempts[p][a].id].state = "ready"
    PROVE  \A q \in Plan, b \in Actor : AttemptNames(q, b)'
<1>1. AttemptNames(p, a) /\ Begun(p) \subseteq Begun(p)' /\ ReadyOf(p) \subseteq ReadyOf(p)'
    BY DEF SourceInv, Grown
<1>2. attempts'[p][a].pc = "succeed" => attempts[p][a].id \in ReadyOf(p)
    BY <1>1 DEF AttemptNames, ReadyOf, WithId
<1>3. AttemptNames(p, a)'  BY <1>1, <1>2 DEF AttemptNames
<1>. QED  BY <1>3, OneNames

LEMMA RaiseNames ==
    ASSUME PipelineTypeOK, SourceInv, Grown, NEW p \in Plan, NEW a \in Actor, NEW e,
           Raise(p, a, e)
    PROVE  \A q \in Plan, b \in Actor : AttemptNames(q, b)'
<1>1. attempts \in AttemptsType  BY TypeParts DEF WorkerTypes
<1>. QED  BY <1>1, RaiseFacts, IdKept DEF WithId

LEMMA GotoNames ==
    ASSUME PipelineTypeOK, SourceInv, Grown, NEW p \in Plan, NEW a \in Actor, NEW s,
           Goto(p, a, s), s \in WithId => attempts[p][a].pc \in WithId,
           s = "succeed" => provider[attempts[p][a].id].state = "ready"
    PROVE  \A q \in Plan, b \in Actor : AttemptNames(q, b)'
<1>1. attempts \in AttemptsType  BY TypeParts DEF WorkerTypes
<1>. QED  BY <1>1, GotoFacts, IdKept

\* Where the attempt goes on from a row, it takes the id of the row.
LEMMA FollowNames ==
    ASSUME PipelineTypeOK, SourceInv, Grown, NEW p \in Plan, NEW a \in Actor, NEW row, NEW s,
           Follow(p, a, row, s), s \notin WithId,
           row.providerDeployId = deployments[p].providerDeployId
    PROVE  \A q \in Plan, b \in Actor : AttemptNames(q, b)'
<1>1. attempts \in AttemptsType  BY TypeParts DEF WorkerTypes
<1>2. /\ Moved(p, a)
      /\ attempts'[p][a].pc \in {"catch", "settle", "replay", "reconcile", "mark_manual", s}
      /\ attempts'[p][a].pc = "reconcile" =>
            /\ attempts'[p][a].id = row.providerDeployId
            /\ row.providerDeployId # None
      /\ attempts'[p][a].pc # "reconcile" => attempts'[p][a].id = attempts[p][a].id
    BY <1>1, FollowFacts DEF WithId
<1>3. CASE attempts'[p][a].pc = "reconcile"
    <2>1. row.providerDeployId \in Begun(p)
        BY <1>2, <1>3 DEF SourceInv, RowNames
    <2>2. AttemptNames(p, a)'
        BY <1>2, <1>3, <2>1 DEF AttemptNames, Grown
    <2>. QED  BY <1>2, <2>2, OneNames
<1>4. CASE attempts'[p][a].pc # "reconcile"
    BY <1>2, <1>4, IdKept DEF WithId
<1>. QED  BY <1>3, <1>4

\* The steps of an attempt ...
LEMMA AttemptKeepsNames ==
    ASSUME PipelineTypeOK, SourceInv, Grown, NEW p \in Plan, NEW a \in Slot, Attempt(p, a)
    PROVE  \A q \in Plan, b \in Actor : AttemptNames(q, b)'
<1>a. attempts \in AttemptsType /\ deployments \in RowsType /\ a \in Actor
    BY TypeParts DEF WorkerTypes, Actor
<1>b. attempts[p][a] \in AttemptState  BY <1>a, AttemptFieldTypes
<1>c. provider \in ProviderType /\ ProviderInv
    BY TypeParts DEF WorkerTypes, ProviderType, SourceInv
<1>1. ASSUME NEW st, SetAttempt(p, a, st), st.id = attempts[p][a].id, st.pc \notin WithId
      PROVE  \A q \in Plan, b \in Actor : AttemptNames(q, b)'
    BY <1>1, <1>a, SetAttemptFacts, IdKept DEF WithId
<1>2. CASE LoadPlan(p, a)
    <2>. DEFINE st == [attempts[p][a] EXCEPT
                !.pc = "load_row", !.ready = plans[p].status \in DeployStarting]
    <2>1. st.id = attempts[p][a].id /\ st.pc \notin WithId
        BY <1>b DEF AttemptState, WithId
    <2>2. SetAttempt(p, a, st)  BY <1>2 DEF LoadPlan
    <2>. HIDE DEF st
    <2>. QED  BY <1>1, <2>1, <2>2
<1>3. CASE LoadRow(p, a)
    <2>. DEFINE st == [attempts[p][a] EXCEPT !.pc = "prepare", !.ready = FALSE]
    <2>1. st.id = attempts[p][a].id /\ st.pc \notin WithId
        BY <1>b DEF AttemptState, WithId
    <2>2. \/ Raise(p, a, "evidence")
          \/ SetAttempt(p, a, st)
          \/ Follow(p, a, deployments[p], "prepare")
        BY <1>3 DEF LoadRow
    <2>. HIDE DEF st
    <2>3. CASE Follow(p, a, deployments[p], "prepare")
        BY <1>a, <2>3, FollowNames DEF WithId
    <2>. QED  BY <1>1, <1>a, <2>1, <2>2, <2>3, RaiseNames
<1>4. CASE Prepare(p, a)
    <2>. DEFINE st == [attempts[p][a] EXCEPT !.pc = "start", !.ready = FALSE]
    <2>1. st.id = attempts[p][a].id /\ st.pc \notin WithId
        BY <1>b DEF AttemptState, WithId
    <2>2. Raise(p, a, "evidence") \/ SetAttempt(p, a, st)  BY <1>4 DEF Prepare
    <2>. HIDE DEF st
    <2>. QED  BY <1>1, <1>a, <2>1, <2>2, RaiseNames
<1>5. CASE StartDeployment(p, a)
    <2>1. TakenOver(deployments[p]).providerDeployId = deployments[p].providerDeployId
        BY <1>a DEF RowsType, DeploymentRow, TakenOver
    <2>2. \/ Follow(p, a, deployments[p], "claim")
          \/ Follow(p, a, TakenOver(deployments[p]), "claim")
          \/ Raise(p, a, "evidence")
        BY <1>5 DEF StartDeployment
    <2>3. "claim" \notin WithId  BY DEF WithId
    <2>. QED  BY <1>a, <2>1, <2>2, <2>3, FollowNames, RaiseNames
<1>6. CASE ClaimMutation(p, a)
    <2>1. Goto(p, a, "begin") \/ Raise(p, a, "manual")  BY <1>6 DEF ClaimMutation
    <2>. QED  BY <1>a, <2>1, GotoNames, RaiseNames DEF WithId
<1>7. CASE BeginDeploy(p, a)
    <2>1. PICK d \in ProviderDeploy :
            /\ provider[d].state = "absent"
            /\ provider' = [provider EXCEPT ![d] = [plan |-> p, state |-> "uploading"]]
            /\ SetAttempt(p, a, [attempts[p][a] EXCEPT !.pc = "record", !.id = d])
        BY <1>7 DEF BeginDeploy
    <2>2. /\ Moved(p, a)
          /\ attempts'[p][a] = [attempts[p][a] EXCEPT !.pc = "record", !.id = d]
        BY <1>a, <2>1, SetAttemptFacts
    <2>3. attempts'[p][a].pc = "record" /\ attempts'[p][a].id = d
        BY <1>b, <2>2 DEF AttemptState
    <2>4. d \in Begun(p)'  BY <1>c, <2>1, BeginGrows
    <2>5. d # None  BY NoneIsNoId
    <2>6. AttemptNames(p, a)'  BY <2>3, <2>4, <2>5 DEF AttemptNames
    <2>. QED  BY <1>a, <2>2, <2>6, OneNames
<1>8. CASE RecordStarted(p, a)
    <2>. DEFINE st == [attempts[p][a] EXCEPT !.pc = "upload"]
    <2>1. Raise(p, a, "manual") \/ SetAttempt(p, a, st)  BY <1>8 DEF RecordStarted
    <2>2. st.id = attempts[p][a].id /\ st.pc = "upload" /\ attempts[p][a].pc \in WithId
        BY <1>8, <1>b DEF RecordStarted, At, AttemptState, WithId
    <2>. HIDE DEF st
    <2>3. CASE SetAttempt(p, a, st)
        BY <1>a, <2>2, <2>3, SetAttemptFacts, IdKept
    <2>. QED  BY <1>a, <2>1, <2>3, RaiseNames
<1>9. CASE Replay(p, a) \/ MarkManual(p, a)
    <2>1. Goto(p, a, "settle") \/ Raise(p, a, "manual")  BY <1>9 DEF Replay, MarkManual
    <2>. QED  BY <1>a, <2>1, GotoNames, RaiseNames DEF WithId
<1>. QED
    BY <1>2, <1>3, <1>4, <1>5, <1>6, <1>7, <1>8, <1>9 DEF Attempt

\* ... those the scan takes as well ...
LEMMA AdvanceKeepsNames ==
    ASSUME PipelineTypeOK, SourceInv, Grown, NEW p \in Plan, NEW a \in Actor, Advance(p, a)
    PROVE  \A q \in Plan, b \in Actor : AttemptNames(q, b)'
<1>a. attempts \in AttemptsType  BY TypeParts DEF WorkerTypes
<1>b. attempts[p][a] \in AttemptState  BY <1>a, AttemptFieldTypes
<1>1. CASE Reconcile(p, a) \/ Poll(p, a)
    <2>. DEFINE st == [attempts[p][a] EXCEPT !.pc = "upload", !.token = FALSE]
    <2>1. \/ Goto(p, a, "succeed") /\ provider[attempts[p][a].id].state = "ready"
          \/ Raise(p, a, "terminal")
          \/ SetAttempt(p, a, st)
          \/ Goto(p, a, "pend")
        BY <1>1 DEF Reconcile, Poll, Deployed
    <2>2. attempts[p][a].pc \in WithId  BY <1>1 DEF Reconcile, Poll, At, WithId
    <2>3. st.id = attempts[p][a].id /\ st.pc = "upload"
        BY <1>b DEF AttemptState
    <2>. HIDE DEF st
    <2>4. CASE SetAttempt(p, a, st)
        BY <1>a, <2>2, <2>3, <2>4, SetAttemptFacts, IdKept
    <2>. QED  BY <2>1, <2>2, <2>4, GotoNames, RaiseNames
<1>2. CASE Upload(p, a)
    <2>1. /\ attempts[p][a].pc \in WithId
          /\ Raise(p, a, "other") \/ Goto(p, a, "mark_upload")
        BY <1>2 DEF Upload, At, WithId
    <2>. QED  BY <2>1, GotoNames, RaiseNames
<1>3. CASE MarkUpload(p, a)
    <2>1. /\ attempts[p][a].pc \in WithId
          /\ Raise(p, a, "manual") \/ Raise(p, a, "persist") \/ Goto(p, a, "poll")
        BY <1>3 DEF MarkUpload, At, WithId
    <2>. QED  BY <2>1, GotoNames, RaiseNames
<1>4. CASE MarkSucceeded(p, a) \/ MarkPending(p, a) \/ MarkFailed(p, a)
    <2>1. (\E e : Raise(p, a, e)) \/ Goto(p, a, "settle")
        BY <1>4 DEF MarkSucceeded, MarkPending, MarkFailed
    <2>. QED  BY <2>1, GotoNames, RaiseNames DEF WithId
<1>5. CASE Settle(p, a)
    <2>1. Moved(p, a) /\ attempts'[p][a] = Idle
        BY <1>a, <1>5, SetAttemptFacts DEF Settle
    <2>2. AttemptNames(p, a)'  BY <2>1 DEF AttemptNames, Idle, WithId
    <2>. QED  BY <2>1, <2>2, OneNames
<1>. QED  BY <1>1, <1>2, <1>3, <1>4, <1>5 DEF Advance

\* ... and the failures
LEMMA FaultKeepsNames ==
    ASSUME PipelineTypeOK, SourceInv, Grown, NEW p \in Plan, NEW a \in Actor, Fault(p, a)
    PROVE  \A q \in Plan, b \in Actor : AttemptNames(q, b)'
<1>a. attempts \in AttemptsType  BY TypeParts DEF WorkerTypes
<1>b. attempts[p][a] \in AttemptState  BY <1>a, AttemptFieldTypes
<1>. DEFINE st == [attempts[p][a] EXCEPT !.pc = "settle", !.error = "other"]
<1>1. \/ \E e : Raise(p, a, e)
      \/ Goto(p, a, "mark_manual")
      \/ SetAttempt(p, a, Idle)
      \/ SetAttempt(p, a, st)
    BY DEF Fault, MediaUnreadable, NotConfigured, BeginFails, RecordFails, MarkManualFails,
           CallFails, JobRunFails, Crash
<1>2. st.id = attempts[p][a].id /\ st.pc = "settle"  BY <1>b DEF AttemptState
<1>. HIDE DEF st
<1>3. CASE SetAttempt(p, a, Idle)
    <2>1. Moved(p, a) /\ attempts'[p][a] = Idle  BY <1>a, <1>3, SetAttemptFacts
    <2>2. AttemptNames(p, a)'  BY <2>1 DEF AttemptNames, Idle, WithId
    <2>. QED  BY <2>1, <2>2, OneNames
<1>4. CASE SetAttempt(p, a, st)
    BY <1>a, <1>2, <1>4, SetAttemptFacts, IdKept DEF WithId
<1>. QED  BY <1>1, <1>3, <1>4, GotoNames, RaiseNames DEF WithId

LEMMA NextKeepsNames ==
    ASSUME PipelineTypeOK, SourceInv, Grown, [Next]_allVars
    PROVE  \A q \in Plan, b \in Actor : AttemptNames(q, b)'
<1>a. attempts \in AttemptsType  BY TypeParts DEF WorkerTypes
<1>0. UNCHANGED attempts => \A q \in Plan, b \in Actor : AttemptNames(q, b)'
    BY DEF SourceInv, Grown, AttemptNames
<1>1. CASE PlanningNext /\ UNCHANGED workerVars  BY <1>0, <1>1 DEF workerVars
<1>2. ASSUME NEW r \in Request,
             \/ \E p \in Plan : StartDeployRequest(r, p)
             \/ EnqueueDeploy(r)
             \/ ProjectDeploying(r)
      PROVE  UNCHANGED attempts
    BY <1>2, RequestEffect
<1>3. ASSUME NEW p \in Plan, NEW a \in Slot, Deliver(p, a)
      PROVE  \A q \in Plan, b \in Actor : AttemptNames(q, b)'
    <2>1. /\ Moved(p, a)
          /\ attempts'[p][a] = [Idle EXCEPT
                !.pc = "load_plan", !.final = jobs[p].made + 1 >= MaxAttempts]
        BY <1>a, <1>3, SetAttemptFacts DEF Deliver, Actor
    <2>2. a \in Actor /\ AttemptNames(p, a)'
        BY <2>1 DEF AttemptNames, Idle, WithId, Actor
    <2>. QED  BY <2>1, <2>2, OneNames
<1>4. ASSUME NEW p \in Plan, ScanPicks(p)
      PROVE  \A q \in Plan, b \in Actor : AttemptNames(q, b)'
    <2>1. /\ Moved(p, Scan)
          /\ attempts'[p][Scan] = [Idle EXCEPT
                !.pc = "reconcile",
                !.id = deployments[p].providerDeployId,
                !.token = deployments[p].evidence.resumeToken]
        BY <1>a, <1>4, SetAttemptFacts DEF ScanPicks, Actor
    <2>2. attempts'[p][Scan].pc = "reconcile"
          /\ attempts'[p][Scan].id = deployments[p].providerDeployId
        BY <2>1 DEF Idle
    <2>3. deployments[p].providerDeployId \in Begun(p) /\ deployments[p].providerDeployId # None
        BY <1>4 DEF ScanPicks, Pending, SourceInv, RowNames
    <2>4. AttemptNames(p, Scan)'  BY <2>2, <2>3 DEF AttemptNames, Grown
    <2>. QED  BY <2>1, <2>4, OneNames DEF Actor
<1>5. ASSUME NEW p \in Plan, Stall(p)
      PROVE  UNCHANGED attempts
    BY <1>5 DEF Stall
<1>6. CASE \E d \in ProviderDeploy : Finish(d)  BY <1>0, <1>6 DEF Finish
<1>7. CASE UNCHANGED allVars  BY <1>0, <1>7 DEF allVars, vars, workerVars
<1>. QED
    BY <1>0, <1>1, <1>2, <1>3, <1>4, <1>5, <1>6, <1>7, AttemptKeepsNames, AdvanceKeepsNames,
       FaultKeepsNames
    DEF Next, WorkerNext

\* The rows
LEMMA RowKeepsNames ==
    ASSUME PipelineTypeOK, SourceInv, Grown, [Next]_allVars, NEW p \in Plan
    PROVE  RowNames(p)'
<1>. DEFINE row  == deployments[p]
            next == deployments'[p]
<1>a. row \in DeploymentRow  BY TypeParts DEF WorkerTypes, RowsType
<1>b. /\ RowNames(p)
      /\ \A a \in Actor : AttemptNames(p, a)
      /\ Begun(p) \subseteq Begun(p)' /\ ReadyOf(p) \subseteq ReadyOf(p)'
    BY DEF SourceInv, Grown
<1>1. CASE /\ next.providerDeployId = row.providerDeployId
           /\ next.status = row.status \/ next.status \notin RollbackSource
    BY <1>1, <1>b DEF RowNames
<1>2. ASSUME NEW a \in Actor, WritesRow(p, a)
      PROVE  RowNames(p)'
    <2>1. CASE \/ next = [row EXCEPT !.operation = "manual_reconciliation_required"]
               \/ next = [row EXCEPT !.evidence.resumeToken = FALSE]
               \/ next = Claimed(row)
        BY <2>1, <1>1, <1>a DEF DeploymentRow, Claimed
    <2>2. CASE next = TakenOver(row) \/ \E e \in Error : next = FailedRow(row, e)
        BY <2>2, <1>1, <1>a DEF DeploymentRow, TakenOver, FailedRow, RollbackSource, Live
    <2>3. CASE \/ /\ At(p, a, "record")
                  /\ next = StartedRow(row, attempts[p][a].id)
               \/ /\ At(p, a, "pend")
                  /\ next = Snapshot(row, attempts[p][a].id, "deploying")
        <3>1. next.providerDeployId = attempts[p][a].id /\ next.status = "deploying"
            BY <2>3, <1>a DEF DeploymentRow, StartedRow, Snapshot
        <3>2. "deploying" \notin RollbackSource  BY DEF RollbackSource, Live
        <3>. QED  BY <3>1, <3>2, <1>b DEF AttemptNames, RowNames
    <2>4. CASE /\ At(p, a, "succeed")
               /\ next = Snapshot(row, attempts[p][a].id, "provider_succeeded")
        <3>1. next.providerDeployId = attempts[p][a].id
            BY <2>4, <1>a DEF DeploymentRow, Snapshot
        <3>2. attempts[p][a].id \in ReadyOf(p) /\ attempts[p][a].id \in Begun(p) \cup {None}
            BY <2>4, <1>b DEF AttemptNames, At
        <3>. QED  BY <3>1, <3>2, <1>b DEF RowNames
    <2>. QED  BY <1>2, <2>1, <2>2, <2>3, <2>4 DEF WritesRow
<1>3. RowWritten(p)  BY RowWrites
<1>. QED  BY <1>1, <1>2, <1>3 DEF RowWritten

\* The requests and the points they insert
LEMMA PointsKeepNames ==
    ASSUME PipelineTypeOK, SourceInv, Grown, [Next]_allVars
    PROVE  PointNames' /\ \A r \in Request : PickNames(r)'
<1>. USE DEF ledgerVars
<1>a. /\ requests \in [Request -> RequestState]
      /\ points \in [Plan \X Plan \X ProviderDeploy -> PointRow]
    BY DEF PipelineTypeOK, TypeOK, LedgerTypeOK, RequestsTypeOK
<1>b. PointNames /\ \A r \in Request : PickNames(r)  BY DEF SourceInv
<1>1. UNCHANGED points => PointNames'
    BY <1>b DEF PointNames, Grown
<1>2. UNCHANGED requests => \A r \in Request : PickNames(r)'
    BY <1>b DEF PickNames, Grown
<1>3. ASSUME NEW r \in Request, NEW next, SetRequest(r, next),
             \A q \in Plan, d \in ProviderDeploy : next.source = <<q, d>> => d \in ReadyOf(q)
      PROVE  \A s \in Request : PickNames(s)'
    <2>1. /\ requests'[r] = next
          /\ \A s \in Request \ {r} : requests'[s] = requests[s]
        BY <1>3, <1>a DEF SetRequest
    <2>. QED  BY <1>3, <1>b, <2>1 DEF PickNames, Grown
<1>4. ASSUME NEW r \in Request, NEW next, SetRequest(r, next),
             next.source \in {requests[r].source, None}
      PROVE  \A s \in Request : PickNames(s)'
    <2>1. \A q \in Plan, d \in ProviderDeploy : <<q, d>> # None  BY NoneIsNoId
    <2>. QED  BY <1>3, <1>4, <1>b, <2>1 DEF PickNames
<1>5. ASSUME NEW r \in Request, PickSource(r)
      PROVE  PointNames' /\ \A s \in Request : PickNames(s)'
    <2>. DEFINE p == requests[r].plan
    <2>1. UNCHANGED points  BY <1>5 DEF PickSource
    <2>2. requests[r] \in RequestState  BY <1>a
    <2>3. CASE SetRequest(r, [requests[r] EXCEPT !.step = "gather"])
        <3>1. [requests[r] EXCEPT !.step = "gather"].source = requests[r].source
            BY <2>2 DEF RequestState
        <3>. QED  BY <1>1, <1>4, <2>1, <2>3, <3>1
    <2>4. ASSUME NEW q \in RollbackSourcesFor(p),
                 SetRequest(r, [requests[r] EXCEPT
                    !.step = "insert_point",
                    !.source = <<q, deployments[q].providerDeployId>>])
          PROVE  PointNames' /\ \A s \in Request : PickNames(s)'
        <3>1. /\ q \in Plan
              /\ deployments[q].status \in RollbackSource
            BY DEF RollbackSourcesFor, SourceWithStatus, RollbackSource, Live
        <3>2. deployments[q].providerDeployId \in ReadyOf(q)
            BY <3>1 DEF SourceInv, RowNames
        <3>3. [requests[r] EXCEPT
                !.step = "insert_point",
                !.source = <<q, deployments[q].providerDeployId>>].source
                    = <<q, deployments[q].providerDeployId>>
            BY <2>2 DEF RequestState
        <3>. DEFINE next == [requests[r] EXCEPT
                !.step = "insert_point",
                !.source = <<q, deployments[q].providerDeployId>>]
        <3>4. \A q1 \in Plan, d \in ProviderDeploy :
                next.source = <<q1, d>> => d \in ReadyOf(q1)
            BY <3>2, <3>3
        <3>5. SetRequest(r, next)  BY <2>4
        <3>. HIDE DEF next
        <3>. QED  BY <1>1, <1>3, <2>1, <3>4, <3>5
    <2>. QED  BY <1>5, <2>3, <2>4 DEF PickSource
<1>6. ASSUME NEW r \in Request, InsertPoint(r)
      PROVE  PointNames' /\ \A s \in Request : PickNames(s)'
    <2>. DEFINE p == requests[r].plan
    <2>1. PICK q \in Plan, d \in ProviderDeploy :
            /\ requests[r].source = <<q, d>>
            /\ points' = [points EXCEPT ![<<p, q, d>>] =
                    IF @ = NoPoint THEN [NoPoint EXCEPT !.status = "prepared"] ELSE @]
        BY <1>6 DEF InsertPoint
    <2>2. p \in Plan /\ d \in ReadyOf(q)
        BY <1>6, <1>b, <2>1 DEF InsertPoint, Await, PickNames
    <2>3. \A x \in Plan \X Plan \X ProviderDeploy : x # <<p, q, d>> => points'[x] = points[x]
        BY <1>a, <2>1
    <2>4. PointNames'
        <3>. SUFFICES ASSUME NEW p1 \in Plan, NEW q1 \in Plan, NEW d1 \in ProviderDeploy,
                             points'[<<p1, q1, d1>>].status # "absent"
                      PROVE  d1 \in ReadyOf(q1)'
            BY DEF PointNames
        <3>1. CASE <<p1, q1, d1>> = <<p, q, d>>
            BY <2>2, <3>1 DEF Grown
        <3>2. CASE <<p1, q1, d1>> # <<p, q, d>>
            <4>1. points'[<<p1, q1, d1>>] = points[<<p1, q1, d1>>]  BY <2>3, <3>2
            <4>. QED  BY <1>b, <4>1 DEF PointNames, Grown
        <3>. QED  BY <3>1, <3>2
    <2>5. requests[r] \in RequestState  BY <1>a
    <2>6. [requests[r] EXCEPT !.step = "gather", !.source = None].source = None
        BY <2>5 DEF RequestState
    <2>. QED  BY <1>4, <1>6, <2>4, <2>6 DEF InsertPoint
<1>7. ASSUME NEW r \in Request, GatherEvidence(r)
      PROVE  PointNames' /\ \A s \in Request : PickNames(s)'
    <2>1. PICK readiness \in Readiness :
            SetRequest(r, [requests[r] EXCEPT !.step = "persist", !.readiness = readiness])
        BY <1>7 DEF GatherEvidence
    <2>2. requests[r] \in RequestState /\ UNCHANGED points  BY <1>7, <1>a DEF GatherEvidence
    <2>3. [requests[r] EXCEPT !.step = "persist", !.readiness = readiness].source
            = requests[r].source
        BY <2>2 DEF RequestState
    <2>. QED  BY <1>1, <1>4, <2>1, <2>2, <2>3
<1>8. ASSUME NEW r \in Request, EnqueueDeploy(r)
      PROVE  PointNames' /\ \A s \in Request : PickNames(s)'
    <2>1. SetRequest(r, [requests[r] EXCEPT !.step = "project"]) /\ UNCHANGED points
        BY <1>8 DEF EnqueueDeploy
    <2>2. requests[r] \in RequestState  BY <1>a
    <2>3. [requests[r] EXCEPT !.step = "project"].source = requests[r].source
        BY <2>2 DEF RequestState
    <2>. QED  BY <1>1, <1>4, <2>1, <2>3
<1>9. ASSUME NEW r \in Request, NEW next, SetRequest(r, next), next.source = None,
             UNCHANGED points
      PROVE  PointNames' /\ \A s \in Request : PickNames(s)'
    BY <1>1, <1>4, <1>9
<1>10. ASSUME NEW r \in Request,
              \/ \E p \in Plan : StartPreflight(r, p) \/ StartDeployRequest(r, p)
              \/ PersistPreflight(r) \/ DropRequest(r) \/ ProjectDeploying(r)
       PROVE  PointNames' /\ \A s \in Request : PickNames(s)'
    <2>1. UNCHANGED points
        BY <1>10
        DEF StartPreflight, StartDeployRequest, PersistPreflight, DropRequest, ProjectDeploying
    <2>2. \/ SetRequest(r, NoRequest)
          \/ \E p \in Plan, s \in {"pick_source", "enqueue"} :
                SetRequest(r, [NoRequest EXCEPT !.step = s, !.plan = p])
        BY <1>10
        DEF StartPreflight, StartDeployRequest, PersistPreflight, DropRequest, ProjectDeploying
    <2>3. NoRequest.source = None
          /\ \A p \in Plan, s \in {"pick_source", "enqueue"} :
                [NoRequest EXCEPT !.step = s, !.plan = p].source = None
        BY DEF NoRequest
    <2>. QED  BY <1>9, <2>1, <2>2, <2>3
<1>11. ASSUME NEW p \in Plan,
              \/ \E items \in SUBSET Version : CreatePlan(p, items)
              \/ ApproveDeploy(p) \/ CancelPlan(p)
       PROVE  UNCHANGED points /\ UNCHANGED requests
    BY <1>11 DEF CreatePlan, ApproveDeploy, CancelPlan
<1>12. CASE WorkerNext /\ UNCHANGED requests
    <2>1. ASSUME NEW p \in Plan, NEW a \in Actor, Attempt(p, a)
          PROVE  UNCHANGED points
        BY <2>1
        DEF Attempt, LoadPlan, LoadRow, Replay, Prepare, StartDeployment, ClaimMutation,
            BeginDeploy, RecordStarted, MarkManual
    <2>2. ASSUME NEW p \in Plan, NEW a \in Actor, Advance(p, a)
          PROVE  UNCHANGED points
        BY <2>2
        DEF Advance, Reconcile, Upload, MarkUpload, Poll, MarkSucceeded, MarkPending,
            MarkFailed, Settle
    <2>3. ASSUME NEW p \in Plan, NEW a \in Actor, Fault(p, a)
          PROVE  UNCHANGED points
        BY <2>3
        DEF Fault, MediaUnreadable, NotConfigured, BeginFails, RecordFails, MarkManualFails,
            CallFails, JobRunFails, Crash
    <2>4. ASSUME NEW p \in Plan,
                 (\E a \in Slot : Deliver(p, a)) \/ Stall(p) \/ ScanPicks(p)
          PROVE  UNCHANGED points
        BY <2>4 DEF Deliver, Stall, ScanPicks
    <2>5. ASSUME NEW d \in ProviderDeploy, Finish(d)
          PROVE  UNCHANGED points
        BY <2>5 DEF Finish
    <2>6. UNCHANGED points
        BY <1>12, <2>1, <2>2, <2>3, <2>4, <2>5 DEF WorkerNext, Actor
    <2>. QED  BY <1>1, <1>2, <1>12, <2>6
<1>13. CASE UNCHANGED allVars  BY <1>1, <1>2, <1>13 DEF allVars, vars
<1>. QED
    BY <1>1, <1>2, <1>5, <1>6, <1>7, <1>8, <1>10, <1>11, <1>12, <1>13
    DEF Next, PlanningNext

\* What a rollback point restores is a deploy of the plan it names that the provider
\* finished, however attempts, scan and preflights overlap: nobody writes a success
\* before the deploy is ready, and what is ready stays ready between the pick of the
\* source and the insert of the point.
THEOREM PointRestorable == Spec => []PointIsRestorable
<1>1. Init => SourceInv
    <2>. SUFFICES ASSUME Init
                  PROVE  SourceInv
        OBVIOUS
    <2>1. \A p \in Plan : RowNames(p) /\ \A a \in Actor : AttemptNames(p, a)
        BY DEF Init, WorkerInit, RowNames, AttemptNames, NoDeployment, Idle, WithId,
               RollbackSource, Live
    <2>2. \A r \in Request : PickNames(r)
        BY NoneIsNoId DEF Init, PlanningInit, NoRequest, PickNames
    <2>3. PointNames /\ ProviderInv
        BY DEF Init, WorkerInit, PointNames, NoPoint, ProviderInv
    <2>. QED  BY <2>1, <2>2, <2>3 DEF SourceInv
<1>2. PipelineTypeOK /\ SourceInv /\ [Next]_allVars => SourceInv'
    BY NextGrows, NextKeepsNames, RowKeepsNames, PointsKeepNames DEF SourceInv, Actor
<1>3. PipelineTypeOK /\ SourceInv => PointIsRestorable
    <2>. SUFFICES ASSUME PipelineTypeOK, SourceInv, NEW p \in Plan, NEW q \in Plan,
                         NEW d \in ProviderDeploy, points[<<p, q, d>>].status # "absent"
                  PROVE  provider[d] = [plan |-> q, state |-> "ready"]
        BY DEF PointIsRestorable
    <2>1. d \in ReadyOf(q)  BY DEF SourceInv, PointNames
    <2>2. provider \in ProviderType  BY TypeParts DEF WorkerTypes, ProviderType
    <2>. QED  BY <2>1, <2>2 DEF ReadyOf, Begun, ProviderType
<1>. QED  BY <1>1, <1>2, <1>3, TypeCorrect, PTL DEF Spec

----------------------------------------------------------------------------
(* As long as attempts do not overlap, the pipeline implements DeployOnce  *)
(* for every plan.  IInv says what was begun; the refinement also needs    *)
(* to know when the ledger may call it succeeded, and that the row a claim *)
(* protects is still as the claim left it when the id is recorded.         *)

\* Steps at which an actor works on a deploy whose id the row already holds
Knowing(a) ==
    IF a = Scan THEN Step \ {"idle"}
    ELSE {"reconcile", "upload", "mark_upload", "poll", "succeed", "pend"}

\* A failed row has a failed plan, a succeeded one an id, and a claimed one neither.
OutcomeInv(p) ==
    LET row == deployments[p]
    IN  /\ row.status = "failed" => plans[p].status = "failed"
        /\ row.status = "provider_succeeded" => row.providerDeployId # None
        /\ row.operation = "in_flight" =>
            /\ row.providerDeployId = None
            /\ row.status \notin {"failed", "provider_succeeded"}

\* Who is about to record holds the claim, who is about to write a success has seen
\* the deploy ready, and only an attempt that still has to record can be ahead of
\* the row.
ActorInv(p, a) ==
    LET st == attempts[p][a]
    IN  /\ st.pc = "record" => deployments[p].operation = "in_flight"
        /\ st.pc = "succeed" => provider[st.id].state = "ready"
        /\ st.pc \in Knowing(a) => deployments[p].providerDeployId # None

PromiseInv == \A p \in Plan : OutcomeInv(p) /\ \A a \in Actor : ActorInv(p, a)

RInv == IInv /\ PromiseInv

LEMMA InitPromise ==
    ASSUME Init
    PROVE  PromiseInv /\ \A p \in Plan : Promise(p)!Init
<1>1. \A p \in Plan : Begun(p) = {}
    BY NoneIsNoId DEF Init, WorkerInit, Begun
<1>2. ASSUME NEW p \in Plan
      PROVE  OutcomeInv(p) /\ \A a \in Actor : ActorInv(p, a)
    BY <1>2 DEF Init, WorkerInit, OutcomeInv, ActorInv, NoDeployment, Idle, Knowing
<1>3. ASSUME NEW p \in Plan
      PROVE  Promise(p)!Init
    <2>1. deployments[p] = NoDeployment  BY DEF Init
    <2>2. OutcomeOf(deployments[p]) = "open"
        BY <2>1 DEF OutcomeOf, NoDeployment, Manual, Replayable
    <2>. QED  BY <1>1, <2>1, <2>2 DEF Promise!Init, NoDeployment
<1>. QED  BY <1>2, <1>3 DEF PromiseInv
----------------------------------------------------------------------------
(* What one step does to the program counters *)

PcStep(p, a) ==
    LET st   == attempts[p][a]
        next == attempts'[p][a]
    IN  /\ next.pc = "record" => next = st \/ (st.pc = "begin" /\ UNCHANGED deployments)
        /\ next.pc = "succeed" =>
            /\ next.id = st.id
            /\ st.pc = "succeed" \/ provider[st.id].state = "ready"
        /\ next.pc \in Knowing(a) =>
            \/ st.pc \in Knowing(a)
            \/ deployments'[p].providerDeployId # None

\* Only the actor that moves has to be looked at.
LEMMA OneMoved ==
    ASSUME NEW p \in Plan, NEW a \in Actor, Moved(p, a), PcStep(p, a)
    PROVE  \A q \in Plan, b \in Actor : PcStep(q, b)
BY DEF Moved, PcStep

\* No provider deploy is at hand, and none recorded, where an attempt stops.
LEMMA StopStep ==
    ASSUME attempts \in AttemptsType, NEW p \in Plan, NEW a \in Actor,
           a = Scan => ~At(p, a, "idle"),
           Moved(p, a), attempts'[p][a].pc \in {"idle", "catch", "settle"}
    PROVE  \A q \in Plan, b \in Actor : PcStep(q, b)
<1>1. attempts[p][a] \in AttemptState  BY AttemptFieldTypes
<1>2. PcStep(p, a)  BY <1>1 DEF PcStep, Knowing, AttemptState, At
<1>. QED  BY <1>2, OneMoved

LEMMA AttemptPcs ==
    ASSUME IInv, NEW p \in Plan, NEW a \in Slot, Attempt(p, a)
    PROVE  \A q \in Plan, b \in Actor : PcStep(q, b)
<1>. USE DEF IInv, ledgerVars
<1>a. attempts \in AttemptsType /\ deployments \in RowsType /\ a \in Actor /\ a # Scan
    BY TypeParts, DeployWorkerAssumption DEF WorkerTypes, Actor
<1>b. attempts[p][a] \in AttemptState  BY <1>a, AttemptFieldTypes
<1>1. CASE LoadPlan(p, a)
    <2>1. /\ Moved(p, a)
          /\ attempts'[p][a] = [attempts[p][a] EXCEPT
                !.pc = "load_row", !.ready = plans[p].status \in DeployStarting]
        BY <1>a, <1>1, SetAttemptFacts DEF LoadPlan
    <2>2. attempts'[p][a].pc = "load_row"  BY <1>b, <2>1 DEF AttemptState
    <2>. QED  BY <1>a, <2>1, <2>2, OneMoved DEF PcStep, Knowing
<1>2. CASE LoadRow(p, a)
    <2>1. \/ Raise(p, a, "evidence")
          \/ SetAttempt(p, a, [attempts[p][a] EXCEPT !.pc = "prepare", !.ready = FALSE])
          \/ Follow(p, a, deployments[p], "prepare")
        BY <1>2 DEF LoadRow
    <2>2. UNCHANGED deployments  BY <1>2 DEF LoadRow
    <2>3. CASE Raise(p, a, "evidence")  BY <1>a, <2>3, RaiseFacts, StopStep
    <2>4. CASE SetAttempt(p, a, [attempts[p][a] EXCEPT !.pc = "prepare", !.ready = FALSE])
        <3>1. /\ Moved(p, a)
              /\ attempts'[p][a] = [attempts[p][a] EXCEPT !.pc = "prepare", !.ready = FALSE]
            BY <1>a, <2>4, SetAttemptFacts
        <3>2. attempts'[p][a].pc = "prepare"  BY <1>b, <3>1 DEF AttemptState
        <3>. QED  BY <1>a, <3>1, <3>2, OneMoved DEF PcStep, Knowing
    <2>5. CASE Follow(p, a, deployments[p], "prepare")
        <3>1. /\ Moved(p, a)
              /\ attempts'[p][a].pc \in
                    {"catch", "settle", "replay", "reconcile", "mark_manual", "prepare"}
              /\ attempts'[p][a].pc = "reconcile" => deployments[p].providerDeployId # None
            BY <1>a, <2>5, FollowFacts
        <3>. QED  BY <1>a, <2>2, <3>1, OneMoved DEF PcStep, Knowing
    <2>. QED  BY <2>1, <2>3, <2>4, <2>5
<1>3. CASE Replay(p, a)
    BY <1>a, <1>3, GotoFacts, StopStep DEF Replay
<1>4. CASE Prepare(p, a)
    <2>1. CASE Raise(p, a, "evidence")  BY <1>a, <2>1, RaiseFacts, StopStep
    <2>2. CASE SetAttempt(p, a, [attempts[p][a] EXCEPT !.pc = "start", !.ready = FALSE])
        <3>1. /\ Moved(p, a)
              /\ attempts'[p][a] = [attempts[p][a] EXCEPT !.pc = "start", !.ready = FALSE]
            BY <1>a, <2>2, SetAttemptFacts
        <3>2. attempts'[p][a].pc = "start"  BY <1>b, <3>1 DEF AttemptState
        <3>. QED  BY <1>a, <3>1, <3>2, OneMoved DEF PcStep, Knowing
    <2>. QED  BY <1>4, <2>1, <2>2 DEF Prepare
<1>5. CASE StartDeployment(p, a)
    <2>1. ASSUME NEW row, Follow(p, a, row, "claim"), deployments'[p] = row
          PROVE  \A q \in Plan, b \in Actor : PcStep(q, b)
        <3>1. /\ Moved(p, a)
              /\ attempts'[p][a].pc \in
                    {"catch", "settle", "replay", "reconcile", "mark_manual", "claim"}
              /\ attempts'[p][a].pc = "reconcile" => row.providerDeployId # None
            BY <1>a, <2>1, FollowFacts
        <3>. QED  BY <1>a, <2>1, <3>1, OneMoved DEF PcStep, Knowing
    <2>2. CASE ~Startable(deployments[p])
        BY <1>5, <2>1, <2>2 DEF StartDeployment
    <2>3. CASE Startable(deployments[p]) /\ plans[p].status \in DeployStarting
        BY <1>5, <1>a, <2>1, <2>3, SetRowFacts DEF StartDeployment
    <2>4. CASE Startable(deployments[p]) /\ plans[p].status \notin DeployStarting
        BY <1>a, <1>5, <2>4, RaiseFacts, StopStep DEF StartDeployment
    <2>. QED  BY <2>2, <2>3, <2>4
<1>6. CASE ClaimMutation(p, a)
    <2>1. CASE Raise(p, a, "manual")  BY <1>a, <2>1, RaiseFacts, StopStep
    <2>2. CASE Goto(p, a, "begin")
        BY <1>a, <2>2, GotoFacts, OneMoved DEF PcStep, Knowing
    <2>. QED  BY <1>6, <2>1, <2>2 DEF ClaimMutation
<1>7. CASE BeginDeploy(p, a)
    <2>1. PICK d \in ProviderDeploy :
            SetAttempt(p, a, [attempts[p][a] EXCEPT !.pc = "record", !.id = d])
        BY <1>7 DEF BeginDeploy
    <2>2. /\ Moved(p, a)
          /\ attempts'[p][a] = [attempts[p][a] EXCEPT !.pc = "record", !.id = d]
        BY <1>a, <2>1, SetAttemptFacts
    <2>3. attempts'[p][a].pc = "record"  BY <1>b, <2>2 DEF AttemptState
    <2>4. At(p, a, "begin") /\ UNCHANGED deployments  BY <1>7 DEF BeginDeploy
    <2>. QED  BY <1>a, <2>2, <2>3, <2>4, OneMoved DEF PcStep, Knowing, At
<1>8. CASE RecordStarted(p, a)
    <2>1. CASE Raise(p, a, "manual")  BY <1>a, <2>1, RaiseFacts, StopStep
    <2>2. CASE /\ SetRow(p, StartedRow(deployments[p], attempts[p][a].id))
               /\ SetAttempt(p, a, [attempts[p][a] EXCEPT !.pc = "upload"])
        <3>1. /\ Moved(p, a)
              /\ attempts'[p][a] = [attempts[p][a] EXCEPT !.pc = "upload"]
            BY <1>a, <2>2, SetAttemptFacts
        <3>2. attempts'[p][a].pc = "upload"  BY <1>b, <3>1 DEF AttemptState
        <3>3. attempts[p][a].id # None
            BY <1>8, <1>a, ActorId DEF RecordStarted, At, WithId
        <3>4. deployments[p] \in DeploymentRow  BY <1>a DEF RowsType
        <3>5. deployments'[p] = StartedRow(deployments[p], attempts[p][a].id)
            BY <1>a, <2>2, SetRowFacts
        <3>6. deployments'[p].providerDeployId = attempts[p][a].id
            BY <3>4, <3>5 DEF StartedRow, DeploymentRow
        <3>. QED  BY <1>a, <3>1, <3>2, <3>3, <3>6, OneMoved DEF PcStep
    <2>. QED  BY <1>8, <2>1, <2>2 DEF RecordStarted
<1>9. CASE MarkManual(p, a)
    BY <1>a, <1>9, RaiseFacts, StopStep DEF MarkManual
<1>. QED
    BY <1>1, <1>2, <1>3, <1>4, <1>5, <1>6, <1>7, <1>8, <1>9 DEF Attempt
\* The provider calls and the ledger writes of an attempt or the scan.  The actor
\* was past the record, so the row has the id; "succeed" is entered on a ready deploy.
LEMMA AdvancePcs ==
    ASSUME IInv, NEW p \in Plan, NEW a \in Actor, Advance(p, a)
    PROVE  \A q \in Plan, b \in Actor : PcStep(q, b)
<1>. USE DEF IInv, ledgerVars
<1>a. attempts \in AttemptsType  BY TypeParts DEF WorkerTypes
<1>b. attempts[p][a] \in AttemptState  BY <1>a, AttemptFieldTypes
<1>1. CASE Reconcile(p, a) \/ Poll(p, a)
    <2>1. /\ Moved(p, a)
          /\ attempts'[p][a].id = attempts[p][a].id
          /\ attempts'[p][a].pc \in
                {"succeed", "pend", "upload", "mark_upload", "catch", "settle"}
        BY <1>1, CallStep
    <2>2. attempts[p][a].pc \in {"reconcile", "poll"}
        BY <1>1 DEF Reconcile, Poll, At
    <2>3. attempts[p][a].pc \in Knowing(a)  BY <2>2 DEF Knowing, Step
    <2>4. \/ provider[attempts[p][a].id].state = "ready"
          \/ Raise(p, a, "terminal")
          \/ SetAttempt(p, a, [attempts[p][a] EXCEPT !.pc = "upload", !.token = FALSE])
          \/ Goto(p, a, "pend")
        BY <1>1 DEF Reconcile, Poll, Deployed
    <2>5. attempts'[p][a].pc = "succeed" => provider[attempts[p][a].id].state = "ready"
        <3>1. CASE Raise(p, a, "terminal")  BY <1>a, <3>1, RaiseFacts
        <3>2. CASE SetAttempt(p, a, [attempts[p][a] EXCEPT !.pc = "upload", !.token = FALSE])
            <4>1. attempts'[p][a] = [attempts[p][a] EXCEPT !.pc = "upload", !.token = FALSE]
                BY <1>a, <3>2, SetAttemptFacts
            <4>. QED  BY <1>b, <4>1 DEF AttemptState
        <3>3. CASE Goto(p, a, "pend")  BY <1>a, <3>3, GotoFacts
        <3>. QED  BY <2>4, <3>1, <3>2, <3>3
    <2>. QED  BY <2>1, <2>3, <2>5, OneMoved DEF PcStep
<1>2. CASE Upload(p, a)
    <2>1. /\ Moved(p, a)
          /\ attempts'[p][a].pc \in {"mark_upload", "catch", "settle"}
        BY <1>a, <1>2, RaiseFacts, GotoFacts DEF Upload
    <2>2. attempts[p][a].pc \in Knowing(a)  BY <1>2 DEF Upload, At, Knowing, Step
    <2>. QED  BY <2>1, <2>2, OneMoved DEF PcStep
<1>3. CASE MarkUpload(p, a)
    <2>1. /\ Moved(p, a)
          /\ attempts'[p][a].pc \in {"poll", "catch", "settle"}
        BY <1>a, <1>3, RaiseFacts, GotoFacts DEF MarkUpload
    <2>2. attempts[p][a].pc \in Knowing(a)  BY <1>3 DEF MarkUpload, At, Knowing, Step
    <2>. QED  BY <2>1, <2>2, OneMoved DEF PcStep
<1>4. CASE MarkSucceeded(p, a) \/ MarkPending(p, a) \/ MarkFailed(p, a)
    <2>1. /\ Moved(p, a)
          /\ attempts'[p][a].pc \in {"catch", "settle"}
        BY <1>a, <1>4, RaiseFacts, GotoFacts DEF MarkSucceeded, MarkPending, MarkFailed
    <2>2. ~At(p, a, "idle")
        BY <1>4 DEF MarkSucceeded, MarkPending, MarkFailed, At
    <2>. QED  BY <1>a, <2>1, <2>2, StopStep
<1>5. CASE Settle(p, a)
    <2>1. Moved(p, a) /\ attempts'[p][a] = Idle
        BY <1>a, <1>5, SetAttemptFacts DEF Settle
    <2>2. ~At(p, a, "idle")  BY <1>5 DEF Settle, At
    <2>. QED  BY <1>a, <2>1, <2>2, StopStep DEF Idle
<1>. QED  BY <1>1, <1>2, <1>3, <1>4, <1>5 DEF Advance

LEMMA FaultPcs ==
    ASSUME IInv, NEW p \in Plan, NEW a \in Actor, Fault(p, a)
    PROVE  \A q \in Plan, b \in Actor : PcStep(q, b)
<1>. USE DEF IInv
<1>a. attempts \in AttemptsType  BY TypeParts DEF WorkerTypes
<1>b. attempts[p][a] \in AttemptState  BY <1>a, AttemptFieldTypes
<1>1. ~At(p, a, "idle")
    BY DEF Fault, MediaUnreadable, NotConfigured, BeginFails, RecordFails, MarkManualFails,
           CallFails, JobRunFails, Crash, At
<1>2. \/ \E e : Raise(p, a, e)
      \/ Goto(p, a, "mark_manual")
      \/ SetAttempt(p, a, Idle)
      \/ SetAttempt(p, a, [attempts[p][a] EXCEPT !.pc = "settle", !.error = "other"])
    BY DEF Fault, MediaUnreadable, NotConfigured, BeginFails, RecordFails, MarkManualFails,
           CallFails, JobRunFails, Crash
<1>3. CASE \E e : Raise(p, a, e)  BY <1>a, <1>1, <1>3, RaiseFacts, StopStep
<1>4. CASE Goto(p, a, "mark_manual")
    <2>1. a = Scan => attempts[p][a].pc \in Knowing(a)
        BY <1>b, <1>1 DEF Knowing, AttemptState, At
    <2>2. a # Scan => "mark_manual" \notin Knowing(a)  BY DEF Knowing
    <2>. QED  BY <1>a, <1>4, <2>1, <2>2, GotoFacts, OneMoved DEF PcStep
<1>5. CASE SetAttempt(p, a, Idle)
    BY <1>a, <1>1, <1>5, SetAttemptFacts, StopStep DEF Idle
<1>6. CASE SetAttempt(p, a, [attempts[p][a] EXCEPT !.pc = "settle", !.error = "other"])
    <2>1. /\ Moved(p, a)
          /\ attempts'[p][a] = [attempts[p][a] EXCEPT !.pc = "settle", !.error = "other"]
        BY <1>a, <1>6, SetAttemptFacts
    <2>2. attempts'[p][a].pc = "settle"  BY <1>b, <2>1 DEF AttemptState
    <2>. QED  BY <1>a, <1>1, <2>1, <2>2, StopStep
<1>. QED  BY <1>2, <1>3, <1>4, <1>5, <1>6

LEMMA PcSteps ==
    ASSUME IInv, [Next]_allVars
    PROVE  \A q \in Plan, b \in Actor : PcStep(q, b)
<1>. USE DEF IInv
<1>a. attempts \in AttemptsType  BY TypeParts DEF WorkerTypes
<1>0. UNCHANGED attempts => \A q \in Plan, b \in Actor : PcStep(q, b)  BY DEF PcStep
<1>1. CASE PlanningNext /\ UNCHANGED workerVars  BY <1>0, <1>1 DEF workerVars
<1>2. ASSUME NEW r \in Request,
             \/ \E p \in Plan : StartDeployRequest(r, p)
             \/ EnqueueDeploy(r)
             \/ ProjectDeploying(r)
      PROVE  UNCHANGED attempts
    BY <1>2, RequestEffect
<1>3. ASSUME NEW p \in Plan, NEW a \in Slot, Deliver(p, a)
      PROVE  \A q \in Plan, b \in Actor : PcStep(q, b)
    <2>1. /\ Moved(p, a)
          /\ attempts'[p][a] = [Idle EXCEPT
                !.pc = "load_plan", !.final = jobs[p].made + 1 >= MaxAttempts]
        BY <1>a, <1>3, SetAttemptFacts DEF Deliver, Actor
    <2>2. attempts'[p][a].pc = "load_plan" /\ a # Scan /\ a \in Actor
        BY <2>1, DeployWorkerAssumption DEF Idle, Actor
    <2>. QED  BY <2>1, <2>2, OneMoved DEF PcStep, Knowing
<1>4. ASSUME NEW p \in Plan, ScanPicks(p)
      PROVE  \A q \in Plan, b \in Actor : PcStep(q, b)
    <2>1. /\ Moved(p, Scan)
          /\ attempts'[p][Scan] = [Idle EXCEPT
                !.pc = "reconcile",
                !.id = deployments[p].providerDeployId,
                !.token = deployments[p].evidence.resumeToken]
        BY <1>a, <1>4, SetAttemptFacts DEF ScanPicks, Actor
    <2>2. attempts'[p][Scan].pc = "reconcile"  BY <2>1 DEF Idle
    <2>3. deployments[p].providerDeployId # None /\ UNCHANGED deployments
        BY <1>4 DEF ScanPicks, Pending, ledgerVars
    <2>. QED  BY <2>1, <2>2, <2>3, OneMoved DEF PcStep, Actor
<1>5. ASSUME NEW p \in Plan, Stall(p)
      PROVE  UNCHANGED attempts
    BY <1>5 DEF Stall
<1>6. CASE \E d \in ProviderDeploy : Finish(d)  BY <1>0, <1>6 DEF Finish
<1>7. CASE UNCHANGED allVars  BY <1>0, <1>7 DEF allVars, vars, workerVars
<1>. QED
    BY <1>0, <1>1, <1>2, <1>3, <1>4, <1>5, <1>6, <1>7, AttemptPcs, AdvancePcs, FaultPcs
    DEF Next, WorkerNext
----------------------------------------------------------------------------
(* What one step does at the provider *)

ProviderStep ==
    \/ UNCHANGED provider
    \/ /\ UNCHANGED deployments
       /\ \/ \E p \in Plan, a \in Slot, d \in ProviderDeploy :
                /\ At(p, a, "begin")
                /\ provider[d].state = "absent"
                /\ provider' = [provider EXCEPT ![d] = [plan |-> p, state |-> "uploading"]]
          \/ \E d \in ProviderDeploy, s \in {"building", "ready", "failed"} :
                /\ provider[d].state \in {"uploading", "building"}
                /\ provider' = [provider EXCEPT ![d].state = s]

LEMMA ProviderSteps ==
    ASSUME IInv, [Next]_allVars
    PROVE  ProviderStep
<1>. USE DEF IInv, ProviderStep, ledgerVars
<1>a. provider \in [ProviderDeploy -> [plan : Plan \cup {None}, state : ProviderState]]
    BY TypeParts DEF WorkerTypes
<1>1. CASE PlanningNext /\ UNCHANGED workerVars  BY <1>1 DEF workerVars
<1>2. ASSUME NEW r \in Request,
             \/ \E p \in Plan : StartDeployRequest(r, p)
             \/ EnqueueDeploy(r)
             \/ ProjectDeploying(r)
      PROVE  UNCHANGED provider
    BY <1>2, RequestEffect
<1>3. ASSUME NEW p \in Plan, NEW a \in Slot, Attempt(p, a)
      PROVE  ProviderStep
    <2>1. CASE BeginDeploy(p, a)  BY <2>1 DEF BeginDeploy
    <2>2. CASE ~BeginDeploy(p, a)
        BY <1>3, <2>2
        DEF Attempt, LoadPlan, LoadRow, Replay, Prepare, StartDeployment, ClaimMutation,
            RecordStarted, MarkManual
    <2>. QED  BY <2>1, <2>2
<1>4. ASSUME NEW p \in Plan, NEW a \in Actor, Advance(p, a)
      PROVE  ProviderStep
    <2>1. CASE Upload(p, a)
        <3>. DEFINE d == attempts[p][a].id
        <3>1. d \in ProviderDeploy
            BY <2>1, ActorId DEF Upload, At, WithId, Begun
        <3>2. UNCHANGED deployments  BY <2>1 DEF Upload
        <3>3. CASE provider[d].state = "uploading"
            BY <2>1, <3>1, <3>2, <3>3, <1>a DEF Upload
        <3>4. CASE provider[d].state # "uploading"
            BY <2>1, <3>1, <3>4, <1>a DEF Upload
        <3>. QED  BY <3>3, <3>4
    <2>2. CASE ~Upload(p, a)
        BY <1>4, <2>2
        DEF Advance, Reconcile, MarkUpload, Poll, MarkSucceeded, MarkPending, MarkFailed, Settle
    <2>. QED  BY <2>1, <2>2
<1>5. ASSUME NEW p \in Plan, NEW a \in Actor, Fault(p, a)
      PROVE  ProviderStep
    <2>1. CASE BeginFails(p, a)
        <3>1. a \in Slot
            BY <2>1 DEF BeginFails, At, Actor, OneOwner, PlanInv, ScanInv, AttemptOnly
        <3>. QED  BY <2>1, <3>1 DEF BeginFails
    <2>2. CASE ~BeginFails(p, a)
        BY <1>5, <2>2
        DEF Fault, MediaUnreadable, NotConfigured, RecordFails, MarkManualFails, CallFails,
            JobRunFails, Crash
    <2>. QED  BY <2>1, <2>2
<1>6. ASSUME NEW p \in Plan,
             (\E a \in Slot : Deliver(p, a)) \/ Stall(p) \/ ScanPicks(p)
      PROVE  UNCHANGED provider
    BY <1>6 DEF Deliver, Stall, ScanPicks
<1>7. ASSUME NEW d \in ProviderDeploy, Finish(d)
      PROVE  ProviderStep
    BY <1>7 DEF Finish
<1>8. CASE UNCHANGED allVars  BY <1>8 DEF allVars, vars, workerVars
<1>. QED
    BY <1>1, <1>2, <1>3, <1>4, <1>5, <1>6, <1>7, <1>8 DEF Next, WorkerNext

\* What the provider has finished stays finished.
LEMMA ReadyStays ==
    ASSUME IInv, [Next]_allVars, NEW d \in ProviderDeploy, provider[d].state = "ready"
    PROVE  provider'[d].state = "ready"
<1>1. provider \in [ProviderDeploy -> [plan : Plan \cup {None}, state : ProviderState]]
    BY TypeParts DEF WorkerTypes, IInv
<1>. QED  BY <1>1, ProviderSteps DEF ProviderStep

----------------------------------------------------------------------------
(* The strengthening is inductive *)

LEMMA OutcomeKept ==
    ASSUME RInv, [Next]_allVars, NEW p \in Plan
    PROVE  OutcomeInv(p)'
<1>. DEFINE row  == deployments[p]
            next == deployments'[p]
<1>a. row \in DeploymentRow
    BY TypeParts DEF WorkerTypes, RowsType, RInv, IInv
<1>b. OutcomeInv(p) /\ PlanInv(p)  BY DEF RInv, PromiseInv, IInv, OneOwner
<1>c. plans[p].status = "failed" => plans'[p].status = "failed"
    BY FailedPlanStep DEF RInv, IInv
<1>1. CASE next = row  BY <1>1, <1>b, <1>c DEF OutcomeInv
<1>2. ASSUME NEW a \in Actor, WritesRow(p, a)
      PROVE  OutcomeInv(p)'
    <2>1. CASE \/ next = [row EXCEPT !.operation = "manual_reconciliation_required"]
               \/ next = [row EXCEPT !.evidence.resumeToken = FALSE]
        BY <2>1, <1>a, <1>b, <1>c DEF OutcomeInv, DeploymentRow
    <2>2. CASE next = TakenOver(row)
        BY <2>2, <1>a, <1>b, <1>c DEF OutcomeInv, DeploymentRow, TakenOver
    <2>3. CASE At(p, a, "claim") /\ Claimable(row) /\ next = Claimed(row)
        <3>1. a \in Slot
            BY <2>3, <1>b DEF Actor, At, PlanInv, ScanInv, AttemptOnly
        <3>2. Fresh(p)
            BY <2>3, <3>1, <1>b DEF At, Claimable, PlanInv, SlotInv
        <3>. QED
            BY <2>3, <3>2, <1>a, <1>b, <1>c DEF OutcomeInv, DeploymentRow, Claimed, Fresh
    <2>4. CASE plans'[p].status = "failed" /\ \E e \in Error : next = FailedRow(row, e)
        BY <2>4, <1>a DEF OutcomeInv, DeploymentRow, FailedRow
    <2>5. CASE At(p, a, "record") /\ next = StartedRow(row, attempts[p][a].id)
        BY <2>5, <1>a DEF OutcomeInv, DeploymentRow, StartedRow
    <2>6. CASE \/ /\ At(p, a, "succeed")
                  /\ next = Snapshot(row, attempts[p][a].id, "provider_succeeded")
               \/ /\ At(p, a, "pend")
                  /\ next = Snapshot(row, attempts[p][a].id, "deploying")
        <3>1. attempts[p][a].id # None
            BY <2>6, ActorId DEF RInv, IInv, At, WithId
        <3>. QED  BY <2>6, <3>1, <1>a DEF OutcomeInv, DeploymentRow, Snapshot
    <2>. QED  BY <1>2, <2>1, <2>2, <2>3, <2>4, <2>5, <2>6 DEF WritesRow
<1>3. RowWritten(p)  BY RowWrites DEF RInv, IInv
<1>. QED  BY <1>1, <1>2, <1>3 DEF RowWritten

LEMMA ActorKept ==
    ASSUME RInv, ~ZombieStalls, [Next]_allVars, NEW p \in Plan, NEW b \in Actor
    PROVE  ActorInv(p, b)'
<1>. DEFINE st   == attempts[p][b]
            next == attempts'[p][b]
<1>a. IInv /\ IInv'  BY NextKeepsOwner DEF RInv
<1>b. /\ PlanInv(p) /\ OutcomeInv(p)
      /\ \A a \in Actor : ActorInv(p, a)
    BY DEF RInv, PromiseInv, IInv, OneOwner
<1>c. PcStep(p, b)  BY <1>a, PcSteps
<1>1. next.pc = "record" => deployments'[p].operation = "in_flight"
    <2>. SUFFICES ASSUME next.pc = "record"
                  PROVE  deployments'[p].operation = "in_flight"
        OBVIOUS
    <2>1. st.pc \in {"record", "begin"} /\ (st.pc = "begin" => UNCHANGED deployments)
        BY <1>c DEF PcStep
    <2>2. b \in Slot
        BY <1>b, <2>1 DEF Actor, PlanInv, ScanInv, AttemptOnly
    <2>3. deployments[p].operation = "in_flight"
        BY <1>b, <2>1, <2>2 DEF ActorInv, PlanInv, SlotInv
    <2>4. ASSUME NEW a \in Actor, WritesRow(p, a)
          PROVE  st.pc = "begin"
        <3>1. a # b /\ attempts[p][a].pc # "idle"  BY <2>4 DEF WritesRow, At
        <3>2. a \notin Slot
            BY <1>b, <2>1, <2>2, <3>1 DEF PlanInv, SlotInv
        <3>3. a = Scan  BY <3>2 DEF Actor
        <3>4. attempts[p][a] \in AttemptState
            BY <1>a, TypeParts, AttemptFieldTypes DEF IInv, WorkerTypes
        <3>5. attempts[p][a].pc \in Knowing(a)
            BY <3>1, <3>3, <3>4 DEF Knowing, AttemptState
        <3>6. deployments[p].providerDeployId # None  BY <1>b, <3>5 DEF ActorInv
        <3>. QED  BY <1>b, <2>3, <3>6 DEF OutcomeInv
    <2>5. RowWritten(p)  BY <1>a, RowWrites DEF IInv
    <2>. QED  BY <2>1, <2>3, <2>4, <2>5 DEF RowWritten
<1>2. next.pc = "succeed" => provider'[next.id].state = "ready"
    <2>. SUFFICES ASSUME next.pc = "succeed"
                  PROVE  provider'[next.id].state = "ready"
        OBVIOUS
    <2>1. next.id = st.id /\ provider[st.id].state = "ready"
        BY <1>b, <1>c DEF PcStep, ActorInv
    <2>2. PlanInv(p)'  BY <1>a DEF IInv, OneOwner
    <2>3. next.id \in Begun(p)'
        BY <2>2 DEF PlanInv, SlotInv, ScanInv, Actor, WithId
    <2>4. next.id \in ProviderDeploy  BY <2>3 DEF Begun
    <2>. QED  BY <1>a, <2>1, <2>4, ReadyStays
<1>3. next.pc \in Knowing(b) => deployments'[p].providerDeployId # None
    BY <1>a, <1>b, <1>c, RecordedIdStep DEF PcStep, ActorInv
<1>. QED  BY <1>1, <1>2, <1>3 DEF ActorInv, Knowing

LEMMA NextKeepsPromise ==
    ASSUME RInv, ~ZombieStalls, [Next]_allVars
    PROVE  RInv'
<1>1. IInv'  BY NextKeepsOwner DEF RInv
<1>2. PromiseInv'  BY OutcomeKept, ActorKept DEF PromiseInv, Actor
<1>. QED  BY <1>1, <1>2 DEF RInv
----------------------------------------------------------------------------
(* The refinement: every step of the pipeline is a step of the promise for *)
(* each plan, or leaves it as it is.                                       *)

LEMMA OutcomeCases ==
    ASSUME NEW row
    PROVE  /\ Manual(row) => OutcomeOf(row) = "human"
           /\ ~Manual(row) /\ row.status \in Replayable => OutcomeOf(row) = "succeeded"
           /\ ~Manual(row) /\ row.status = "failed" => OutcomeOf(row) = "failed"
           /\ ~Manual(row) /\ row.status \notin Replayable \cup {"failed"} =>
                    OutcomeOf(row) = "open"
BY DEF OutcomeOf, Replayable

\* Steps of the provider: begin, build, finish
LEMMA ProviderKeepsPromise ==
    ASSUME RInv, [Next]_allVars, NEW p \in Plan, ~UNCHANGED provider
    PROVE  Promise(p)!Step
<1>. DEFINE Done == {d \in Begun(p) : provider[d].state = "ready"}
<1>a. provider \in [ProviderDeploy -> [plan : Plan \cup {None}, state : ProviderState]]
    BY TypeParts DEF WorkerTypes, RInv, IInv
<1>b. OutcomeInv(p) /\ PlanInv(p) /\ ProviderInv
    BY DEF RInv, PromiseInv, IInv, OneOwner
<1>c. ProviderStep  BY ProviderSteps DEF RInv
<1>d. UNCHANGED deployments  BY <1>c DEF ProviderStep
<1>1. ASSUME NEW q \in Plan, NEW a \in Slot, NEW d \in ProviderDeploy,
             At(q, a, "begin"), provider[d].state = "absent",
             provider' = [provider EXCEPT ![d] = [plan |-> q, state |-> "uploading"]]
      PROVE  Promise(p)!Step
    <2>1. provider[d].plan = None  BY <1>1, <1>b DEF ProviderInv
    <2>2. CASE q = p
        <3>1. Fresh(p) /\ deployments[p].operation = "in_flight"
            BY <1>1, <1>b, <2>2 DEF At, PlanInv, SlotInv
        <3>2. Begun(p) = {} /\ Begun(p)' = {d} /\ provider'[d].state = "uploading"
            BY <1>1, <1>a, <2>2, <3>1 DEF Begun, Fresh
        <3>3. OutcomeOf(deployments[p]) = "open"
            BY <1>b, <3>1, OutcomeCases DEF OutcomeInv, PlanInv, RowInv, Manual, Replayable
        <3>4. Done = {} /\ Done' = {}  BY <3>2
        <3>. QED
            BY <1>1, <1>d, <3>2, <3>3, <3>4 DEF Promise!Step, Promise!Next, Promise!Begin
    <2>3. CASE q # p
        <3>1. Begun(p)' = Begun(p) /\ Done' = Done
            BY <1>1, <1>a, <2>1, <2>3, NoneIsNoId DEF Begun
        <3>. QED  BY <1>d, <3>1 DEF Promise!Step, Promise!promiseVars
    <2>. QED  BY <2>2, <2>3
<1>2. ASSUME NEW d \in ProviderDeploy, NEW s \in {"building", "ready", "failed"},
             provider[d].state \in {"uploading", "building"},
             provider' = [provider EXCEPT ![d].state = s]
      PROVE  Promise(p)!Step
    <2>1. Begun(p)' = Begun(p)  BY <1>2, <1>a DEF Begun
    <2>2. provider'[d].state = s  BY <1>2, <1>a
    <2>3. CASE d \in Begun(p) /\ s = "ready"
        <3>1. Begun(p) = {d}  BY <1>b, <2>3 DEF PlanInv, RowInv
        <3>2. Done = {} /\ Done' = {d}  BY <1>2, <2>1, <2>2, <2>3, <3>1
        <3>. QED
            BY <1>d, <2>1, <3>1, <3>2 DEF Promise!Step, Promise!Next, Promise!Finish
    <2>4. CASE ~(d \in Begun(p) /\ s = "ready")
        <3>1. Done' = Done  BY <1>2, <1>a, <2>1, <2>2, <2>4 DEF Begun
        <3>. QED  BY <1>d, <2>1, <3>1 DEF Promise!Step, Promise!promiseVars
    <2>. QED  BY <2>3, <2>4
<1>. QED  BY <1>1, <1>2, <1>c DEF ProviderStep

\* Writes of the ledger row
LEMMA RowKeepsPromise ==
    ASSUME RInv, [Next]_allVars, NEW p \in Plan, UNCHANGED provider
    PROVE  Promise(p)!Step
<1>. DEFINE row  == deployments[p]
            next == deployments'[p]
            Done == {d \in Begun(p) : provider[d].state = "ready"}
<1>a. row \in DeploymentRow
    BY TypeParts DEF WorkerTypes, RowsType, RInv, IInv
<1>b. /\ PlanInv(p) /\ OutcomeInv(p)
      /\ \A a \in Actor : ActorInv(p, a)
    BY DEF RInv, PromiseInv, IInv, OneOwner
<1>c. Begun(p)' = Begun(p) /\ Done' = Done  BY DEF Begun
<1>0. next.providerDeployId = row.providerDeployId /\ OutcomeOf(next) = OutcomeOf(row)
        => Promise(p)!Step
    BY <1>c DEF Promise!Step, Promise!promiseVars
<1>1. CASE next = row  BY <1>0, <1>1
<1>2. ASSUME NEW a \in Actor, WritesRow(p, a)
      PROVE  Promise(p)!Step
    <2>. DEFINE id == attempts[p][a].id
    <2>1. CASE next = [row EXCEPT !.operation = "manual_reconciliation_required"]
        <3>1. next.providerDeployId = row.providerDeployId /\ OutcomeOf(next) = "human"
            BY <1>a, <2>1, OutcomeCases DEF DeploymentRow, Manual
        <3>. QED
            BY <1>0, <1>c, <3>1 DEF Promise!Step, Promise!Next, Promise!HandOver
    <2>2. CASE /\ ~Manual(row) /\ Startable(row) /\ plans[p].status \in DeployStarting
               /\ next = TakenOver(row)
        <3>1. row.status \in {"absent", "deploying"}
            BY <1>b, <2>2 DEF Startable, OutcomeInv, DeployStarting
        <3>2. /\ next.providerDeployId = row.providerDeployId
              /\ next.status = "deploying"
              /\ ~Manual(next)
            BY <1>a, <2>2 DEF DeploymentRow, TakenOver, Manual
        <3>. QED  BY <1>0, <2>2, <3>1, <3>2, OutcomeCases DEF Replayable
    <2>3. CASE ~Manual(row) /\ Claimable(row) /\ next = Claimed(row)
        <3>1. /\ next.providerDeployId = row.providerDeployId
              /\ next.status = row.status
              /\ ~Manual(next)
            BY <1>a, <2>3 DEF DeploymentRow, Claimed, Manual
        <3>. QED  BY <1>0, <2>3, <3>1, OutcomeCases
    <2>4. CASE ~Manual(row) /\ next = [row EXCEPT !.evidence.resumeToken = FALSE]
        <3>1. /\ next.providerDeployId = row.providerDeployId
              /\ next.status = row.status
              /\ ~Manual(next)
            BY <1>a, <2>4 DEF DeploymentRow, Manual
        <3>2. OutcomeOf(next) = OutcomeOf(row)
            <4>. ~Manual(row)  BY <2>4
            <4>. HIDE DEF row, next
            <4>. QED  BY <3>1, OutcomeCases
        <3>. QED  BY <1>0, <3>1, <3>2
    <2>5. CASE /\ ~Manual(row) /\ row.status \notin Replayable
               /\ \E e \in Error : next = FailedRow(row, e)
        <3>1. /\ next.providerDeployId = row.providerDeployId
              /\ next.status = "failed"
              /\ ~Manual(next)
            BY <1>a, <2>5 DEF DeploymentRow, FailedRow, Manual
        <3>2. OutcomeOf(next) = "failed" /\ OutcomeOf(row) \in {"open", "failed"}
            BY <2>5, <3>1, OutcomeCases
        <3>. QED
            BY <1>0, <1>c, <3>1, <3>2 DEF Promise!Step, Promise!Next, Promise!Fail
    <2>6. CASE ~Manual(row) /\ At(p, a, "record") /\ next = StartedRow(row, id)
        <3>1. row.providerDeployId = None /\ row.status \notin {"failed", "provider_succeeded"}
            BY <1>b, <2>6 DEF ActorInv, At, OutcomeInv
        <3>2. OutcomeOf(row) = "open"
            BY <1>b, <2>6, <3>1, OutcomeCases DEF PlanInv, RowInv, Replayable
        <3>3. /\ next.providerDeployId = id
              /\ next.status = "deploying"
              /\ ~Manual(next)
            BY <1>a, <2>6 DEF DeploymentRow, StartedRow, Manual
        <3>4. OutcomeOf(next) = "open"  BY <3>3, OutcomeCases DEF Replayable
        <3>5. id \in Begun(p)  BY <2>6, ActorId DEF RInv, IInv, At, WithId
        <3>. QED
            BY <1>c, <3>1, <3>2, <3>3, <3>4, <3>5
            DEF Promise!Step, Promise!Next, Promise!Record
    <2>7. CASE /\ ~Manual(row)
               /\ At(p, a, "succeed") /\ next = Snapshot(row, id, "provider_succeeded")
        <3>1. id \in Begun(p) /\ provider[id].state = "ready"
            BY <1>b, <2>7, ActorId DEF RInv, IInv, ActorInv, At, WithId
        <3>2. row.providerDeployId # None
            BY <1>b, <2>7 DEF ActorInv, At, Knowing, Step
        <3>3. row.providerDeployId = id  BY <1>b, <3>1, <3>2 DEF PlanInv, RowInv
        <3>4. /\ next.providerDeployId = id
              /\ next.status = "provider_succeeded"
              /\ ~Manual(next)
            BY <1>a, <2>7 DEF DeploymentRow, Snapshot, Manual
        <3>5. OutcomeOf(next) = "succeeded"  BY <3>4, OutcomeCases DEF Replayable
        <3>6. OutcomeOf(row) \in {"open", "succeeded", "failed"}  BY <2>7, OutcomeCases
        <3>. QED
            BY <1>0, <1>c, <3>1, <3>3, <3>4, <3>5, <3>6
            DEF Promise!Step, Promise!Next, Promise!Succeed
    <2>8. CASE /\ ~Manual(row)
               /\ At(p, a, "pend") /\ next = Snapshot(row, id, "deploying")
        <3>1. id \in Begun(p)  BY <2>8, ActorId DEF RInv, IInv, At, WithId
        <3>2. row.providerDeployId # None
            BY <1>b, <2>8 DEF ActorInv, At, Knowing, Step
        <3>3. row.providerDeployId = id  BY <1>b, <3>1, <3>2 DEF PlanInv, RowInv
        <3>4. /\ next.providerDeployId = id
              /\ next.status = "deploying"
              /\ ~Manual(next)
            BY <1>a, <2>8 DEF DeploymentRow, Snapshot, Manual
        <3>5. OutcomeOf(next) = "open"  BY <3>4, OutcomeCases DEF Replayable
        <3>6. OutcomeOf(row) \in {"open", "succeeded", "failed"}  BY <2>8, OutcomeCases
        <3>. QED
            BY <1>0, <1>c, <3>2, <3>3, <3>4, <3>5, <3>6
            DEF Promise!Step, Promise!Next, Promise!Reopen
    <2>. QED
        BY <1>2, <2>1, <2>2, <2>3, <2>4, <2>5, <2>6, <2>7, <2>8 DEF WritesRow
<1>3. RowWritten(p)  BY RowWrites DEF RInv, IInv
<1>. QED  BY <1>1, <1>2, <1>3 DEF RowWritten

\* As long as the queue takes no running attempt for dead, requests, attempts,
\* retries, crashes and the scan keep the promise of DeployOnce to every plan.
THEOREM PromiseKept == ~ZombieStalls => (Spec => DeploysOnce)
<1>. SUFFICES ASSUME ~ZombieStalls
              PROVE  Spec => DeploysOnce
    OBVIOUS
<1>1. Init => RInv /\ \A p \in Plan : Promise(p)!Init
    BY InitTypes, InitOwner, InitPromise DEF RInv, IInv
<1>2. RInv /\ [Next]_allVars => RInv'  BY NextKeepsPromise
<1>3. RInv /\ [Next]_allVars => [\A p \in Plan : Promise(p)!Step]_allVars
    BY RowKeepsPromise, ProviderKeepsPromise
<1>. QED  BY <1>1, <1>2, <1>3, PTL DEF Spec, DeploysOnce
===============================================================================
