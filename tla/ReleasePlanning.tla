---------------------------- MODULE ReleasePlanning ----------------------------
(***************************************************************************)
(* The API's operations on release plans before the deploy job runs        *)
(* (apps/api/src/modules/releases): create, preflight, approve, cancel.    *)
(*                                                                         *)
(* Create, approve and cancel are one transaction each.  A preflight reads *)
(* the plan, prepares a rollback point and gathers its evidence without a  *)
(* lock, and only then takes the plan's lock to persist the outcome, so    *)
(* its request is carried in the variable requests between the steps.      *)
(***************************************************************************)
EXTENDS ReleaseLedger

CONSTANT Request    \* API requests that can be in progress at a time

VARIABLE requests   \* request -> [step, plan, source, readiness]

RequestStep == {"idle", "pick_source", "insert_point", "gather", "persist", "enqueue", "project"}

Readiness == {"ready", "ready_with_warnings", "blocked"}

\* source is the rollback source a preflight picked: a plan and its provider deploy.
\* readiness counts from GatherEvidence on.
RequestState ==
    [step      : RequestStep,
     plan      : Plan \cup {None},
     source    : (Plan \X ProviderDeploy) \cup {None},
     readiness : Readiness]

NoRequest == [step |-> "idle", plan |-> None, source |-> None, readiness |-> "blocked"]

RequestsTypeOK == requests \in [Request -> RequestState]

\* preflightableReleasePlanStatuses
Preflightable == {"draft", "ready", "ready_with_warnings", "blocked", "approved_for_deploy"}

\* approvableReleaseStatuses
Approvable == {"ready", "ready_with_warnings"}

\* cancellableReleasePlanStatuses
Cancellable == {"draft", "ready", "ready_with_warnings", "blocked", "approved_for_deploy"}

SetRequest(r, request) == requests' = [requests EXCEPT ![r] = request]

Await(r, step) ==
    /\ requests[r].step = step
    /\ requests[r].plan \in Plan

----------------------------------------------------------------------------

\* None of the versions is in an active plan.
Free(items) ==
    \A q \in Plan : plans[q].status \in ActivePlan => plans[q].items \cap items = {}

\* createPlan, under the row locks of the page versions.  Every version must be
\* approved (the expected status and revision are re-checked under the lock) and
\* in no active plan.
CreatePlan(p, items) ==
    /\ plans[p].status = "absent"
    /\ items # {}
    /\ \A v \in items : versions[v] = "approved"
    /\ Free(items)
    /\ plans' = [plans EXCEPT ![p] = [status |-> "draft", items |-> items]]
    /\ UNCHANGED <<versions, deployments, points, requests>>

\* preflight: the unlocked status check
StartPreflight(r, p) ==
    /\ requests[r].step = "idle"
    /\ plans[p].status \in Preflightable
    /\ SetRequest(r, [NoRequest EXCEPT !.step = "pick_source", !.plan = p])
    /\ UNCHANGED ledgerVars

\* Deployments of other plans that have a provider deploy, and that no human has to
\* reconcile
SourceWithStatus(p, statuses) ==
    {q \in Plan \ {p} :
        /\ deployments[q].providerDeployId # None
        /\ ~Manual(deployments[q])
        /\ deployments[q].status \in statuses}

\* Defect: a deployment still under way is taken when there is no verified one.
RollbackSourcesForBug(p) ==
    LET verified == SourceWithStatus(p, Live)
    IN  IF verified # {} THEN verified
                         ELSE SourceWithStatus(p, {"provider_succeeded", "deploying"})

\* What prepareRollbackPointForReleasePreflight prefers: verified-good deployments
\* first, then those the provider reported ready.
RollbackSourcesFor(p) ==
    LET verified == SourceWithStatus(p, Live)
    IN  IF verified # {} THEN verified
                         ELSE SourceWithStatus(p, {"provider_succeeded"})

HasPoint(p) ==
    \E q \in Plan, d \in ProviderDeploy : points[<<p, q, d>>].status # "absent"

\* prepareRollbackPointForReleasePreflight, up to its insert
PickSource(r) ==
    LET p == requests[r].plan IN
    /\ Await(r, "pick_source")
    /\ IF HasPoint(p) \/ RollbackSourcesFor(p) = {}
           THEN SetRequest(r, [requests[r] EXCEPT !.step = "gather"])
           ELSE \E q \in RollbackSourcesFor(p) :
                SetRequest(r, [requests[r] EXCEPT
                    !.step = "insert_point",
                    !.source = <<q, deployments[q].providerDeployId>>])
    /\ UNCHANGED ledgerVars

\* The insert; the same point twice is a conflict that does nothing.
InsertPoint(r) ==
    /\ Await(r, "insert_point")
    /\ \E q \in Plan, d \in ProviderDeploy :
        /\ requests[r].source = <<q, d>>
        /\ points' = [points EXCEPT ![<<requests[r].plan, q, d>>] =
                IF @ = NoPoint THEN [NoPoint EXCEPT !.status = "prepared"] ELSE @]
    /\ SetRequest(r, [requests[r] EXCEPT !.step = "gather", !.source = None])
    /\ UNCHANGED <<plans, versions, deployments>>

\* loadReleasePreflightEvidence and the checks built from it.  A missing rollback
\* point blocks; the other checks can come out any way.
GatherEvidence(r) ==
    /\ Await(r, "gather")
    /\ \E readiness \in Readiness :
        /\ ~RollbackEvidence(requests[r].plan) => readiness = "blocked"
        /\ SetRequest(r, [requests[r] EXCEPT !.step = "persist",
                                             !.readiness = readiness])
    /\ UNCHANGED ledgerVars

\* Defect: the status is not read again under the lock.
MayPersistBug(p) == TRUE

MayPersist(p) == plans[p].status \in Preflightable

\* persistReleasePreflight, under the plan's lock: a plan that was approved for
\* deploy loses the approval and its release candidates.
PersistPreflight(r) ==
    LET p == requests[r].plan IN
    /\ Await(r, "persist")
    /\ IF MayPersist(p)
           THEN /\ SetPlan(p, requests[r].readiness)
                /\ versions' = IF plans[p].status = "approved_for_deploy"
                                   THEN Demoted(p) ELSE versions
           ELSE UNCHANGED <<plans, versions>>
    /\ SetRequest(r, NoRequest)
    /\ UNCHANGED <<deployments, points>>

\* The approved versions among the plan's items become release candidates.
Promoted(p) ==
    [v \in Version |->
        IF v \in plans[p].items /\ versions[v] = "approved"
            THEN "release_candidate"
            ELSE versions[v]]

\* approveDeploy
ApproveDeploy(p) ==
    /\ plans[p].status \in Approvable
    /\ SetPlan(p, "approved_for_deploy")
    /\ versions' = Promoted(p)
    /\ UNCHANGED <<deployments, points, requests>>

\* cancelPlan
CancelPlan(p) ==
    /\ plans[p].status \in Cancellable
    /\ SetPlan(p, "failed")
    /\ versions' = Demoted(p)
    /\ UNCHANGED <<deployments, points, requests>>

\* The API process of a request dies, or the client's connection does.
DropRequest(r) ==
    /\ requests[r].step # "idle"
    /\ SetRequest(r, NoRequest)
    /\ UNCHANGED ledgerVars

----------------------------------------------------------------------------

PlanningInit == requests = [r \in Request |-> NoRequest]

PlanningNext ==
    \/ \E p \in Plan :
        \/ \E items \in SUBSET Version : CreatePlan(p, items)
        \/ \E r \in Request : StartPreflight(r, p)
        \/ ApproveDeploy(p)
        \/ CancelPlan(p)
    \/ \E r \in Request :
        \/ PickSource(r) \/ InsertPoint(r) \/ GatherEvidence(r)
        \/ PersistPreflight(r) \/ DropRequest(r)
===============================================================================
