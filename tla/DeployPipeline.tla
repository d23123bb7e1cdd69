---------------------------- MODULE DeployPipeline ----------------------------
(***************************************************************************)
(* Planning, the API's deploy request (release-execution.capability.ts) and*)
(* the deploy worker, together.                                            *)
(*                                                                         *)
(* The deploy request reads the plan, adds the job to the queue, and only  *)
(* then moves the plan to "deploying" if it may still be deployed: the     *)
(* worker can have the job before that update, and the update can lose.    *)
(***************************************************************************)
EXTENDS DeployWorker, ReleasePlanning

allVars == <<vars, requests>>

\* deploy: the unlocked reads of plan, checks and approval
StartDeployRequest(r, p) ==
    /\ requests[r].step = "idle"
    /\ plans[p].status = "approved_for_deploy"
    /\ SetRequest(r, [NoRequest EXCEPT !.step = "enqueue", !.plan = p])
    /\ UNCHANGED <<ledgerVars, workerVars>>

\* queues.enqueue with jobId = deploymentKey: a job that still waits or runs is
\* kept, a finished one was removed and is replaced.
EnqueueDeploy(r) ==
    LET p == requests[r].plan IN
    /\ Await(r, "enqueue")
    /\ IF jobs[p].state \in {"waiting", "active"}
           THEN UNCHANGED jobs
           ELSE jobs' = [jobs EXCEPT ![p] = [NoJob EXCEPT !.state = "waiting"]]
    /\ SetRequest(r, [requests[r] EXCEPT !.step = "project"])
    /\ UNCHANGED <<ledgerVars, attempts, provider, faults>>

MayDeploy(p) == plans[p].status \in DeployStarting

\* The compare-and-set that follows; when it loses the request fails, and the job
\* stays in the queue.
ProjectDeploying(r) ==
    LET p == requests[r].plan IN
    /\ Await(r, "project")
    /\ IF MayDeploy(p)
           THEN SetPlan(p, "deploying")
           ELSE UNCHANGED plans
    /\ SetRequest(r, NoRequest)
    /\ UNCHANGED <<versions, deployments, points, workerVars>>

----------------------------------------------------------------------------

Init ==
    /\ plans = [p \in Plan |-> [status |-> "absent", items |-> {}]]
    /\ versions = [v \in Version |-> "approved"]
    /\ deployments = [p \in Plan |-> NoDeployment]
    /\ points = [x \in Plan \X Plan \X ProviderDeploy |-> NoPoint]
    /\ WorkerInit
    /\ PlanningInit

Next ==
    \/ PlanningNext /\ UNCHANGED workerVars
    \/ \E r \in Request :
        \/ \E p \in Plan : StartDeployRequest(r, p)
        \/ EnqueueDeploy(r)
        \/ ProjectDeploying(r)
    \/ WorkerNext /\ UNCHANGED requests

Spec == Init /\ [][Next]_allVars

\* Running attempts and the scan go on, the queue hands out jobs and notices dead
\* holders, the interval of main.ts starts the scan again and again, and the
\* provider finishes builds.  Operators owe nothing, and nothing has to fail.
Fairness ==
    /\ \A p \in Plan :
        /\ \A a \in Slot : WF_allVars((Attempt(p, a) \/ Advance(p, a)) /\ UNCHANGED requests)
        /\ WF_allVars((\E a \in Slot : Deliver(p, a)) /\ UNCHANGED requests)
        /\ WF_allVars(Stall(p) /\ UNCHANGED requests)
        /\ WF_allVars(ScanPicks(p) /\ UNCHANGED requests)
        /\ WF_allVars(Advance(p, Scan) /\ UNCHANGED requests)
    /\ \A d \in ProviderDeploy : WF_allVars(Finish(d) /\ UNCHANGED requests)

FairSpec == Spec /\ Fairness

PipelineTypeOK == TypeOK /\ RequestsTypeOK

----------------------------------------------------------------------------
(* Properties *)

Begun(p) == {d \in ProviderDeploy : provider[d].plan = p}

\* The provider is asked to create at most one deploy for a release plan, however
\* often the job is retried, crashes, or is processed twice at the same time.
BeginAtMostOnce == \A p \in Plan : \A d, e \in Begun(p) : d = e

\* How a ledger row reads in the terms of DeployOnce
OutcomeOf(row) ==
    IF Manual(row) THEN "human"
    ELSE IF row.status \in Replayable THEN "succeeded"
    ELSE IF row.status = "failed" THEN "failed"
    ELSE "open"

Promise(p) == INSTANCE DeployOnce WITH
    Deploy   <- ProviderDeploy,
    begun    <- Begun(p),
    finished <- {d \in Begun(p) : provider[d].state = "ready"},
    recorded <- deployments[p].providerDeployId,
    outcome  <- OutcomeOf(deployments[p])

\* Requests, attempts, retries, crashes and the scan together keep the promise of
\* DeployOnce to every release plan.
DeploysOnce ==
    /\ \A p \in Plan : Promise(p)!Init
    /\ [][\A p \in Plan : Promise(p)!Step]_allVars

\* Once an operation needs manual reconciliation no attempt, scan or request
\* writes the ledger row again (ADR 0009: a terminal stop sign for automation).
ManualIsFinal ==
    [][\A p \in Plan : Manual(deployments[p]) => deployments'[p] = deployments[p]]_vars

\* A row that names a provider deploy names one begun for its own plan, and never
\* comes to name another.
RecordedIdStays ==
    [][\A p \in Plan :
        LET d == deployments[p].providerDeployId IN
        d # None => /\ d \in Begun(p)
                    /\ deployments'[p].providerDeployId = d]_vars

\* Once a deploy was begun for it, a plan is out of the operators' hands: no late
\* preflight, approval or cancellation finds it in a state it may change.
BegunPlanIsClosed ==
    \A p \in Plan : Begun(p) # {} =>
        plans[p].status \notin Preflightable \cup Approvable \cup Cancellable

\* A request or an attempt that read the plan before it failed does not bring it back.
FailedPlanStaysFailed ==
    [][\A p \in Plan : plans[p].status = "failed" => plans'[p].status = "failed"]_allVars

\* A page version is in at most one active release plan.
VersionInOneActivePlan ==
    \A p, q \in Plan :
        (p # q /\ plans[p].status \in ActivePlan /\ plans[q].status \in ActivePlan)
            => plans[p].items \cap plans[q].items = {}

\* No release candidate is left behind: while a version is one, a plan that holds
\* it is approved, deploying or live, so it can always be planned again.
CandidateHasPlan ==
    \A v \in Version : versions[v] = "release_candidate" =>
        \E p \in Plan :
            /\ v \in plans[p].items
            /\ plans[p].status \in {"approved_for_deploy", "deploying", "live"}

\* What a rollback point restores is a deploy of the plan it names that the
\* provider finished, whatever happened between the pick and the insert.
PointIsRestorable ==
    \A p, q \in Plan : \A d \in ProviderDeploy :
        points[<<p, q, d>>].status # "absent" =>
            provider[d] = [plan |-> q, state |-> "ready"]

\* While the files of a recorded deploy are not up, the row keeps the resume token
\* or someone is about to upload them: a crash in between can be recovered from.
UploadResumable ==
    \A p \in Plan :
        LET row == deployments[p] IN
        (Pending(row) /\ provider[row.providerDeployId].state = "uploading") =>
            \/ row.evidence.resumeToken
            \/ \E a \in Actor : /\ At(p, a, "upload")
                               /\ attempts[p][a].id = row.providerDeployId

\* A deployment the provider may hold, and the ledger does not know the id of, is
\* never written off as an ordinary failure.
UnknownOutcomeKept ==
    \A p \in Plan :
        LET row == deployments[p] IN
        (Begun(p) # {} /\ row.providerDeployId = None /\ row.status = "failed")
            => Manual(row)

\* A deploy that was started comes to an end: it is recorded as succeeded or
\* failed, or it waits for a human.
DeployEnds ==
    \A p \in Plan :
        plans[p].status = "deploying" ~>
            \/ deployments[p].status \in Replayable \cup {"failed"}
            \/ Manual(deployments[p])

\* A deployment the scan is responsible for does not stay pending.
PendingEnds == \A p \in Plan : Pending(deployments[p]) ~> ~Pending(deployments[p])
===============================================================================
