---------------------------- MODULE RollbackWorker ----------------------------
(***************************************************************************)
(* The rollback job (apps/worker/src/handlers/rollback.ts) and the scan    *)
(* that reconciles pending rollbacks, against the provider's restore call. *)
(*                                                                         *)
(* A rollback leaves evidence in two rows: the rollback point and the      *)
(* deployment.  The job persists its intent in the point before it calls   *)
(* the provider; a retry that finds an active operation only looks at what *)
(* the provider has published, and so does the scan.  Every database call  *)
(* and every provider call is a step of its own; the scan runs the same    *)
(* steps as an attempt of the job where the code shares them.              *)
(***************************************************************************)
EXTENDS ReleaseLedger, Integers

CONSTANTS
    RollbackSlot,     \* rollback job attempts that can run at a time
    RollbackScan,     \* the scan of reconcilePendingRollbacks
    RollbackAttempts, \* rollbackJobAttempts (5 in release-rollback.capability.ts)
    RollbackStalls,   \* stalls after which the queue gives a job up (BullMQ: 1)
    MaxFaults         \* crashes, failed calls and outside publishes in a behaviour

ASSUME RollbackWorkerAssumption ==
    /\ RollbackScan \notin RollbackSlot
    /\ None \notin RollbackSlot \cup {RollbackScan} \cup Operation
    /\ None \notin Plan \X Plan \X ProviderDeploy
    /\ RollbackAttempts \in Nat \ {0}
    /\ RollbackStalls \in Nat
    /\ MaxFaults \in Nat

VARIABLES
    rollbacks,    \* slot or scan -> local state
    rollbackJobs, \* rollback point -> the queue's rollback job
    site,         \* the provider's site
    faults        \* crashes, failed calls and outside publishes so far

rollbackVars == <<rollbacks, rollbackJobs, site, faults>>

RollbackActor == RollbackSlot \cup {RollbackScan}

Point == Plan \X Plan \X ProviderDeploy

Queue == INSTANCE WorkQueue WITH MaxAttempts <- RollbackAttempts, MaxStalls <- RollbackStalls

----------------------------------------------------------------------------
(* Local state *)

RollbackStep ==
    {"idle", "load_plan", "load_point", "load_row", "intent", "restore",
     "record_completed", "record_pending", "record_refused", "observe", "complete",
     "already", "manual_read", "manual_point", "manual_row", "settle"}

RollbackError == {"none", "evidence", "config", "refused", "pending", "other"}

\* PendingRollbackEvidence: the operation at hand.  intended is the deploy that has
\* to be published for it to be complete.
OperationAtHand ==
    [status : ActiveRollback \cup {"none"}, operation : Operation \cup {None},
     target : Id, intended : Id]

NoOperation == [status |-> "none", operation |-> None, target |-> None, intended |-> None]

RollbackState ==
    [pc       : RollbackStep,
     point    : Point \cup {None},   \* data.rollbackPointId and its plan
     plan     : PlanStatus,          \* the loaded plan's status
     copy     : PointRow,            \* the loaded rollback point
     row      : DeploymentRow,       \* the loaded deployment; absent if not eligible
     op       : OperationAtHand,
     restored : Id,                  \* the deploy the provider restored or publishes
     final    : BOOLEAN,             \* isFinalAttempt
     error    : RollbackError]

NotRunning ==
    [pc |-> "idle", point |-> None, plan |-> "absent", copy |-> NoPoint,
     row |-> NoDeployment, op |-> NoOperation, restored |-> None,
     final |-> FALSE, error |-> "none"]

SiteState ==
    [now      : ProviderDeploy,           \* the published deploy
     accepted : SUBSET ProviderDeploy,    \* restores accepted, not published yet
     was      : SUBSET ProviderDeploy,    \* everything published so far (history)
     made     : SUBSET ProviderDeploy]    \* what restores made so far (history)

RollbackTypeOK ==
    /\ rollbacks \in [RollbackActor -> RollbackState]
    /\ rollbackJobs \in [Point -> Queue!Jobs(RollbackSlot)]
    /\ site \in SiteState
    /\ faults \in 0..MaxFaults

Doing(a, step) == rollbacks[a].pc = step /\ rollbacks[a].point \in Point

PlanOf(a) == rollbacks[a].point[1]

SetRollback(a, st) == rollbacks' = [rollbacks EXCEPT ![a] = st]

\* Over with this attempt (or with this row of the scan), with the error it throws
Over(a, err) == SetRollback(a, [NotRunning EXCEPT
    !.pc = "settle", !.point = rollbacks[a].point, !.final = rollbacks[a].final,
    !.error = err])

\* Hand over to a human, then throw err.
HandOver(a, err) == SetRollback(a, [NotRunning EXCEPT
    !.pc = "manual_read", !.point = rollbacks[a].point, !.final = rollbacks[a].final,
    !.error = err])

Fails == faults < MaxFaults /\ faults' = faults + 1

----------------------------------------------------------------------------
(* Evidence *)

InPoint(x, copy) ==
    [status |-> copy.status, operation |-> copy.operation, target |-> copy.target,
     intended |-> IF copy.restored = None THEN x[3] ELSE copy.restored]

InTrace(trace) ==
    [status |-> trace.status, operation |-> trace.operation, target |-> trace.target,
     intended |-> IF trace.restored = None THEN trace.point[2] ELSE trace.restored]

\* pendingRollbackEvidenceFromContext: the deployment's evidence first
Found(x, copy, row) ==
    IF row.evidence.rollback.status \in ActiveRollback THEN InTrace(row.evidence.rollback)
    ELSE IF copy.status \in ActiveRollback THEN InPoint(x, copy)
    ELSE NoOperation

\* rollbackExecutionDeploymentStatuses, and not for a human to reconcile
Eligible(row) ==
    /\ row.status \in RollbackSource \cup {"rollback_recommended", "failed", "rollback_pending"}
    /\ ~Manual(row)

\* The guard of a restore the attempt made itself (rollbackSourceStatuses), and of a
\* reconciled one (rollbackPendingStatuses)
OwnGuard == RollbackSource \cup {"rollback_recommended", "failed"}
PendingGuard == {"rollback_pending"}

----------------------------------------------------------------------------
(* The request and the load *)

\* executeRollback of the API: its unlocked reads allow what the job checks again,
\* and the job may wait in the queue, so reads and enqueue are one step.
RequestRollback(x) ==
    /\ points[x].status # "absent"
    /\ plans[x[1]].status = "failed"
    /\ deployments[x[1]].status \in OwnGuard
    /\ ~Manual(deployments[x[1]])
    /\ rollbackJobs' = [rollbackJobs EXCEPT ![x] = Queue!Enqueued(@)]
    /\ UNCHANGED <<ledgerVars, rollbacks, site, faults>>

TakeRollback(x, a) ==
    /\ rollbackJobs[x].state = "waiting"
    /\ rollbacks[a].pc = "idle"
    /\ rollbackJobs' = [rollbackJobs EXCEPT ![x] = Queue!Taken(@, a)]
    /\ SetRollback(a, [NotRunning EXCEPT
            !.pc = "load_plan", !.point = x, !.final = Queue!FinalAttempt(rollbackJobs[x])])
    /\ UNCHANGED <<ledgerVars, site, faults>>

\* reconcilePendingRollbacks takes the operation from the row it selected, and
\* loads the context of that operation's point afterwards.
ScanTakes(p) ==
    LET trace == deployments[p].evidence.rollback IN
    /\ rollbacks[RollbackScan].pc = "idle"
    /\ deployments[p].status = "rollback_pending"
    /\ ~Manual(deployments[p])
    /\ \E q \in Plan, d \in ProviderDeploy :
        /\ trace.point = <<q, d>>
        /\ SetRollback(RollbackScan, [NotRunning EXCEPT
                !.pc = "load_plan", !.point = <<p, q, d>>, !.op = InTrace(trace)])
    /\ UNCHANGED <<ledgerVars, rollbackJobs, site, faults>>

\* loadContext: three reads, without a lock
LoadPlanStatus(a) ==
    /\ Doing(a, "load_plan")
    /\ SetRollback(a, [rollbacks[a] EXCEPT
            !.pc = "load_point", !.plan = plans[PlanOf(a)].status])
    /\ UNCHANGED <<ledgerVars, rollbackJobs, site, faults>>

LoadPoint(a) ==
    /\ Doing(a, "load_point")
    /\ SetRollback(a, [rollbacks[a] EXCEPT
            !.pc = "load_row", !.copy = points[rollbacks[a].point]])
    /\ UNCHANGED <<ledgerVars, rollbackJobs, site, faults>>

\* What the job does with the context
Proceed(a, row) ==
    LET st == rollbacks[a]
        op == Found(st.point, st.copy, row)
    IN  CASE st.plan = "rolled_back" -> Over(a, "none")
          [] \/ st.plan \notin {"failed", "rolled_back"}
             \/ st.plan = "failed" /\ (~Eligible(row) \/ row.providerDeployId = None) ->
                Over(a, "evidence")
          [] OTHER -> SetRollback(a, [st EXCEPT
                !.pc = IF op = NoOperation THEN "intent" ELSE "observe",
                !.row = row, !.op = op, !.copy = NoPoint])

LoadDeployment(a) ==
    LET row == deployments[PlanOf(a)] IN
    /\ Doing(a, "load_row")
    /\ IF a # RollbackScan
           THEN Proceed(a, row)
           ELSE IF Eligible(row)
               THEN SetRollback(a, [rollbacks[a] EXCEPT
                        !.pc = "observe", !.row = row, !.copy = NoPoint])
               ELSE HandOver(a, "none")
    /\ UNCHANGED <<ledgerVars, rollbackJobs, site, faults>>

----------------------------------------------------------------------------
(* The restore *)

\* Operation ids are random: any id nobody still refers to.
InUse ==
    {points[x].operation : x \in Point}
        \cup {deployments[p].evidence.rollback.operation : p \in Plan}
        \cup {rollbacks[a].op.operation : a \in RollbackActor}

\* recordRollbackIntent's conditions, read under the point's row lock
MayIntend(x) == points[x].status \notin ActiveRollback /\ plans[x[1]].status = "failed"

RecordIntent(a) ==
    LET st == rollbacks[a]
        x == st.point
    IN  /\ Doing(a, "intent")
        /\ IF MayIntend(x)
               THEN \E o \in Operation \ InUse :
                    /\ points' = [points EXCEPT ![x] =
                            [status |-> "restore_in_flight", operation |-> o,
                             target |-> st.row.providerDeployId, restored |-> None]]
                    /\ SetRollback(a, [st EXCEPT
                            !.pc = "restore", !.op = InPoint(x, points'[x])])
               ELSE Over(a, "evidence") /\ UNCHANGED points
        /\ UNCHANGED <<plans, versions, deployments, rollbackJobs, site, faults>>

\* The deploy a restore of d makes: d itself, or a copy under a new id
Restorable(d) ==
    {d} \cup {e \in ProviderDeploy :
                /\ e \notin site.was \cup site.accepted
                /\ \A p \in Plan : deployments[p].providerDeployId # e
                /\ \A x \in Point : points[x].status # "absent" => x[3] # e}

Published(r) == [site EXCEPT !.now = r, !.was = @ \cup {r}]

Accepted(r) == [site EXCEPT !.accepted = @ \cup {r}, !.made = @ \cup {r}]

\* siteHosting.rollbackDeploy answers: the restored deploy is published, it is
\* queued, with its id or without, or the provider refuses.
Restore(a) ==
    LET st == rollbacks[a] IN
    /\ Doing(a, "restore")
    /\ \/ \E r \in Restorable(st.point[3]) :
            \/ /\ site' = [Published(r) EXCEPT !.made = @ \cup {r}]
               /\ SetRollback(a, [st EXCEPT !.pc = "record_completed", !.restored = r])
            \/ /\ site' = Accepted(r)
               /\ SetRollback(a, [st EXCEPT !.pc = "record_pending", !.restored = r])
            \/ /\ site' = Accepted(r)
               /\ IF st.final THEN HandOver(a, "pending") ELSE Over(a, "pending")
       \/ /\ SetRollback(a, [st EXCEPT !.pc = "record_refused"])
          /\ UNCHANGED site
       \/ /\ HandOver(a, "config")  \* the provider is not configured
          /\ UNCHANGED site
    /\ UNCHANGED <<ledgerVars, rollbackJobs, faults>>

\* The call throws; the provider may have accepted the restore all the same.
RestoreThrows(a) ==
    LET st == rollbacks[a] IN
    /\ Doing(a, "restore")
    /\ Fails
    /\ \/ UNCHANGED site
       \/ \E r \in Restorable(st.point[3]) : site' = Accepted(r)
    /\ IF st.final THEN HandOver(a, "other") ELSE Over(a, "other")
    /\ UNCHANGED <<ledgerVars, rollbackJobs>>

----------------------------------------------------------------------------
(* The outcome *)

\* The deployment's side of the evidence
Trace(st, status) ==
    [status |-> status, operation |-> st.op.operation,
     point |-> <<st.point[2], st.point[3]>>,
     target |-> st.row.providerDeployId, restored |-> st.restored]

\* The point's side
Execution(st, status) ==
    [status |-> status, operation |-> st.op.operation,
     target |-> st.row.providerDeployId, restored |-> st.restored]

\* evidenceJson is the loaded one with the rollback's part replaced.
RolledBackRow(st) ==
    [deployments[st.point[1]] EXCEPT
        !.status = "rolled_back", !.providerDeployId = st.restored,
        !.evidence = [st.row.evidence EXCEPT !.rollback = Trace(st, "completed")]]

\* markRollbackSucceeded's conditions.  It does not look at the manual flag.
MayComplete(st, guard) ==
    LET row == deployments[st.point[1]]
    IN  /\ row.providerDeployId = st.row.providerDeployId
        /\ row.status \in guard
        /\ plans[st.point[1]].status = "failed"

\* Defect: the plan is left as it is.
CompletedBug(st) ==
    LET p == st.point[1] IN
    /\ points' = [points EXCEPT ![st.point] = Execution(st, "completed")]
    /\ deployments' = [deployments EXCEPT ![p] = RolledBackRow(st)]
    /\ versions' = Demoted(p)
    /\ UNCHANGED plans

\* The transaction of markRollbackSucceeded
Completed(st) ==
    LET p == st.point[1] IN
    /\ points' = [points EXCEPT ![st.point] = Execution(st, "completed")]
    /\ deployments' = [deployments EXCEPT ![p] = RolledBackRow(st)]
    /\ SetPlan(p, "rolled_back")
    /\ versions' = Demoted(p)

\* The attempt's own restore was answered as completed.
RecordCompleted(a) ==
    LET st == rollbacks[a] IN
    /\ Doing(a, "record_completed")
    /\ IF MayComplete(st, OwnGuard)
           THEN Completed(st) /\ Over(a, "none")
           ELSE HandOver(a, "evidence") /\ UNCHANGED ledgerVars
    /\ UNCHANGED <<rollbackJobs, site, faults>>

RecordCompletedFails(a) ==
    LET st == rollbacks[a] IN
    /\ Doing(a, "record_completed")
    /\ Fails
    /\ \/ UNCHANGED ledgerVars
       \/ MayComplete(st, OwnGuard) /\ Completed(st)
    /\ HandOver(a, "other")
    /\ UNCHANGED <<rollbackJobs, site>>

PendingRow(st) ==
    [deployments[st.point[1]] EXCEPT
        !.status = "rollback_pending", !.operation = "recorded",
        !.evidence = [st.row.evidence EXCEPT !.rollback = Trace(st, "rollback_pending")]]

\* markRollbackPending's conditions.  It does not look at the manual flag either.
MayPend(st) ==
    LET row == deployments[st.point[1]]
    IN  /\ row.providerDeployId = st.row.providerDeployId
        /\ row.status \in OwnGuard

\* The transaction of markRollbackPending
Pended(st) ==
    /\ points' = [points EXCEPT ![st.point] = Execution(st, "rollback_pending")]
    /\ deployments' = [deployments EXCEPT ![st.point[1]] = PendingRow(st)]
    /\ UNCHANGED <<plans, versions>>

RecordPending(a) ==
    LET st == rollbacks[a] IN
    /\ Doing(a, "record_pending")
    /\ IF MayPend(st)
           THEN Pended(st) /\ Over(a, "none")
           ELSE Over(a, "evidence") /\ UNCHANGED ledgerVars
    /\ UNCHANGED <<rollbackJobs, site, faults>>

RecordPendingFails(a) ==
    LET st == rollbacks[a] IN
    /\ Doing(a, "record_pending")
    /\ Fails
    /\ \/ UNCHANGED ledgerVars
       \/ MayPend(st) /\ Pended(st)
    /\ Over(a, "other")
    /\ UNCHANGED <<rollbackJobs, site>>

\* recordRollbackAttempt, unconditional
RecordRefused(a) ==
    LET st == rollbacks[a] IN
    /\ Doing(a, "record_refused")
    /\ points' = [points EXCEPT ![st.point] =
            [NoPoint EXCEPT !.status = "provider_failed", !.operation = st.op.operation]]
    /\ Over(a, "refused")
    /\ UNCHANGED <<plans, versions, deployments, rollbackJobs, site, faults>>

----------------------------------------------------------------------------
(* Reconciling an operation *)

\* An operation that cannot be confirmed yet
Unconfirmed(a) ==
    LET st == rollbacks[a] IN
    IF a = RollbackScan \/ st.op.status = "rollback_pending" THEN Over(a, "none")
    ELSE IF st.final THEN HandOver(a, "evidence")
    ELSE Over(a, "pending")

\* Defect: any published deploy but the rolled-back one confirms the operation.
ClassifyBug(op, published) ==
    IF published = op.target THEN "still_pending" ELSE "completed"

\* Defect: an unexpected deploy is waited out.
ClassifyWaitsBug(op, published) ==
    IF published = op.intended THEN "completed" ELSE "still_pending"

\* classifyRollbackReconciliation, of a published deploy that is ready
Classify(op, published) ==
    IF published = op.target THEN "still_pending"
    ELSE IF published # op.intended THEN "manual_required"
    ELSE "completed"

\* siteHosting.getPublishedDeploy and the decision
Observe(a) ==
    LET st == rollbacks[a]
        decision == Classify(st.op, site.now)
    IN  /\ Doing(a, "observe")
        /\ CASE decision = "still_pending" -> Unconfirmed(a)
             [] decision = "manual_required" ->
                    HandOver(a, IF a = RollbackScan THEN "none" ELSE "evidence")
             [] decision = "completed" ->
                    SetRollback(a, [st EXCEPT !.pc = "complete", !.restored = site.now])
        /\ UNCHANGED <<ledgerVars, rollbackJobs, site, faults>>

\* The call throws, answers without a published deploy, or with one that failed.
ObserveFails(a) ==
    /\ Doing(a, "observe")
    /\ Fails
    /\ \/ Unconfirmed(a)
       \/ HandOver(a, IF a = RollbackScan THEN "none" ELSE "evidence")
    /\ UNCHANGED <<ledgerVars, rollbackJobs, site>>

\* markRollbackSucceeded for an operation that was observed: the deployment must be
\* pending.
CompleteObserved(a) ==
    LET st == rollbacks[a] IN
    /\ Doing(a, "complete")
    /\ IF MayComplete(st, PendingGuard)
           THEN Completed(st) /\ Over(a, "none")
           ELSE /\ IF a = RollbackScan
                       THEN SetRollback(a, [st EXCEPT !.pc = "already"])
                       ELSE Over(a, "evidence")
                /\ UNCHANGED ledgerVars
    /\ UNCHANGED <<rollbackJobs, site, faults>>

CompleteObservedFails(a) ==
    LET st == rollbacks[a] IN
    /\ Doing(a, "complete")
    /\ Fails
    /\ \/ UNCHANGED ledgerVars
       \/ MayComplete(st, PendingGuard) /\ Completed(st)
    /\ IF a = RollbackScan THEN SetRollback(a, [st EXCEPT !.pc = "already"])
                           ELSE Over(a, "other")
    /\ UNCHANGED <<rollbackJobs, site>>

\* rollbackAlreadyCompletedForOperation: the scan lost to the job, or to a write of
\* its own whose answer was lost.
AlreadyCompleted(a) ==
    LET st == rollbacks[a]
        trace == deployments[PlanOf(a)].evidence.rollback
    IN  /\ Doing(a, "already")
        /\ IF /\ deployments[PlanOf(a)].status = "rolled_back"
              /\ trace.status = "completed"
              /\ trace.operation = st.op.operation
               THEN Over(a, "none")
               ELSE HandOver(a, "none")
        /\ UNCHANGED <<ledgerVars, rollbackJobs, site, faults>>

----------------------------------------------------------------------------
(* markManualReconciliationRequired: two reads and two writes, no transaction *)

ManualRead(a) ==
    /\ Doing(a, "manual_read")
    /\ SetRollback(a, [rollbacks[a] EXCEPT
            !.pc = "manual_point", !.copy = points[rollbacks[a].point],
            !.row = deployments[PlanOf(a)]])
    /\ UNCHANGED <<ledgerVars, rollbackJobs, site, faults>>

\* What is written is the copy that was read, with the new status.
ManualPoint(a) ==
    LET st == rollbacks[a] IN
    /\ Doing(a, "manual_point")
    /\ points' = IF st.copy.status = "completed"
                     THEN points
                     ELSE [points EXCEPT ![st.point] =
                            [st.copy EXCEPT !.status = "manual_reconciliation_required"]]
    /\ SetRollback(a, [st EXCEPT !.pc = "manual_row", !.copy = NoPoint])
    /\ UNCHANGED <<plans, versions, deployments, rollbackJobs, site, faults>>

\* The condition of the deployment's update leaves a completed rollback alone.
ManualSpares(row) == row.status = "rolled_back"

ManualRow(a) ==
    LET st == rollbacks[a]
        row == deployments[PlanOf(a)]
    IN  /\ Doing(a, "manual_row")
        /\ deployments' =
                IF ManualSpares(row)
                    THEN deployments
                    ELSE [deployments EXCEPT ![PlanOf(a)] =
                            [row EXCEPT
                                !.operation = "manual_reconciliation_required",
                                !.evidence = [st.row.evidence EXCEPT !.rollback =
                                    [@ EXCEPT !.status = "manual_reconciliation_required",
                                              !.point = <<st.point[2], st.point[3]>>]]]]
        /\ Over(a, st.error)
        /\ UNCHANGED <<plans, versions, points, rollbackJobs, site, faults>>

----------------------------------------------------------------------------
(* Failures and the queue *)

\* Any other database call throws, or a write to the job run around the handler.
\* The scan gives its pass up.
RollbackCallFails(a) ==
    /\ rollbacks[a].pc \in {"load_plan", "load_point", "load_row", "intent",
            "record_refused", "already", "manual_read", "manual_point", "manual_row"}
                \cup (IF a = RollbackScan THEN {} ELSE {"settle"})
    /\ Fails
    /\ Over(a, "other")
    /\ UNCHANGED <<ledgerVars, rollbackJobs, site>>

RollbackCrash(a) ==
    /\ rollbacks[a].pc # "idle"
    /\ Fails
    /\ SetRollback(a, NotRunning)
    /\ UNCHANGED <<ledgerVars, rollbackJobs, site>>

\* isTerminalWorkerError
TerminalRollbackError == {"evidence", "config", "refused"}

SettleRollback(a) ==
    LET st == rollbacks[a]
        retry == st.error \notin TerminalRollbackError \cup {"none"} /\ ~st.final
    IN  /\ Doing(a, "settle")
        /\ SetRollback(a, NotRunning)
        /\ IF rollbackJobs[st.point].holder = a
               THEN rollbackJobs' = [rollbackJobs EXCEPT ![st.point] = Queue!Ended(@, retry)]
               ELSE UNCHANGED rollbackJobs
        /\ UNCHANGED <<ledgerVars, site, faults>>

\* The queue notices that the worker holding a job is gone.
StallRollback(x) ==
    LET job == rollbackJobs[x] IN
    /\ job.state = "active"
    /\ rollbacks[job.holder].point # x
    /\ rollbackJobs' = [rollbackJobs EXCEPT ![x] = Queue!AfterStall(@)]
    /\ UNCHANGED <<ledgerVars, rollbacks, site, faults>>

----------------------------------------------------------------------------
(* The provider *)

\* An accepted restore is published.
Publish(r) ==
    /\ r \in site.accepted
    /\ site' = [Published(r) EXCEPT !.accepted = @ \ {r}]
    /\ UNCHANGED <<ledgerVars, rollbacks, rollbackJobs, faults>>

\* Another release, or someone at the provider, publishes another deploy.
OutsidePublish(d) ==
    /\ d # site.now
    /\ Fails
    /\ site' = Published(d)
    /\ UNCHANGED <<ledgerVars, rollbacks, rollbackJobs>>

----------------------------------------------------------------------------

RollbackProgress(a) ==
    \/ LoadPlanStatus(a) \/ LoadPoint(a) \/ LoadDeployment(a)
    \/ RecordIntent(a) \/ Restore(a)
    \/ RecordCompleted(a) \/ RecordPending(a) \/ RecordRefused(a)
    \/ Observe(a) \/ CompleteObserved(a) \/ AlreadyCompleted(a)
    \/ ManualRead(a) \/ ManualPoint(a) \/ ManualRow(a) \/ SettleRollback(a)

RollbackFault(a) ==
    \/ RestoreThrows(a) \/ RecordCompletedFails(a) \/ RecordPendingFails(a)
    \/ ObserveFails(a) \/ CompleteObservedFails(a)
    \/ RollbackCallFails(a) \/ RollbackCrash(a)

RollbackNext ==
    \/ \E x \in Point :
        \/ RequestRollback(x)
        \/ \E a \in RollbackSlot : TakeRollback(x, a)
        \/ StallRollback(x)
    \/ \E p \in Plan : ScanTakes(p)
    \/ \E a \in RollbackActor : RollbackProgress(a) \/ RollbackFault(a)
    \/ \E d \in ProviderDeploy : Publish(d) \/ OutsidePublish(d)
===============================================================================
