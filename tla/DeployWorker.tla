----------------------------- MODULE DeployWorker -----------------------------
(***************************************************************************)
(* The deploy job handler (apps/worker/src/handlers/deploy.ts) and the     *)
(* 60 second scan that reconciles pending deployments, against the         *)
(* deployment ledger and a hosting provider that has no idempotency key    *)
(* for "create deploy".                                                    *)
(*                                                                         *)
(* An attempt is one processing of the deploy job of a plan.  Its program  *)
(* counter stops before every database transaction and every provider      *)
(* call, so anything another attempt, the scan, an operator or the         *)
(* provider does can fall between two of them.  An attempt can crash at    *)
(* any of them, and the queue can hand the job to a second attempt while   *)
(* a stalled first one still runs.                                         *)
(***************************************************************************)
EXTENDS ReleaseLedger, Integers

CONSTANTS
    Slot,        \* job attempts of one plan that can be running at a time
    Scan,        \* the reconcile scan, which runs the same steps
    MaxAttempts, \* deployJobAttempts of release-execution.capability.ts (20 there)
    MaxStalls,   \* stalls after which the queue gives a job up (BullMQ: 1)
    MaxFaults,   \* crashes and failed calls in a behaviour (bounds the model)
    ZombieStalls \* TRUE: the queue may take an attempt for stalled while it runs

ASSUME DeployWorkerAssumption ==
    /\ Scan \notin Slot \cup {None}
    /\ None \notin Slot
    /\ MaxAttempts \in Nat \ {0}
    /\ MaxStalls \in Nat
    /\ MaxFaults \in Nat
    /\ ZombieStalls \in BOOLEAN

VARIABLES
    attempts,    \* plan -> actor -> local state of the attempt (or of the scan)
    jobs,        \* plan -> the queue's deploy job
    provider,    \* provider deploy -> [plan, state]
    faults       \* crashes and failed calls so far

workerVars == <<attempts, jobs, provider, faults>>
vars == <<ledgerVars, workerVars>>

Actor == Slot \cup {Scan}

----------------------------------------------------------------------------
(* Local state of an attempt *)

Step ==
    {"idle", "load_plan", "load_row", "replay", "prepare", "start", "claim",
     "begin", "record", "mark_manual", "reconcile", "upload", "mark_upload",
     "poll", "succeed", "pend", "catch", "settle"}

\* The error classes the catch block, the queue and the scan tell apart.
Error ==
    {"none", "evidence", "config", "terminal", "manual", "pending", "persist", "other"}

AttemptState ==
    [pc     : Step,
     ready  : BOOLEAN,                        \* the loaded plan was deployable;
                                              \* at "replay": the loaded row was live
     id     : Id,                             \* the provider deploy at hand
     token  : BOOLEAN,                        \* the loaded row had a resume token
     final  : BOOLEAN,                        \* isFinalAttempt
     error  : Error]

Idle ==
    [pc |-> "idle", ready |-> FALSE, id |-> None, token |-> FALSE,
     final |-> FALSE, error |-> "none"]

JobState == {"none", "waiting", "active", "done"}

Job == [state : JobState, made : Nat, stalls : 0..MaxStalls, holder : Slot \cup {None}]

NoJob == [state |-> "none", made |-> 0, stalls |-> 0, holder |-> None]

ProviderState == {"absent", "uploading", "building", "ready", "failed"}

TypeOK ==
    /\ LedgerTypeOK
    /\ attempts \in [Plan -> [Actor -> AttemptState]]
    /\ jobs \in [Plan -> Job]
    /\ provider \in [ProviderDeploy -> [plan : Plan \cup {None}, state : ProviderState]]
    /\ faults \in 0..MaxFaults

At(p, a, step) == attempts[p][a].pc = step

SetAttempt(p, a, st) == attempts' = [attempts EXCEPT ![p][a] = st]

Goto(p, a, step) == SetAttempt(p, a, [attempts[p][a] EXCEPT !.pc = step])

\* shouldMarkDeployFailed.  hasProviderDeployEvidence holds when the attempt has
\* a provider deploy at hand.
ShouldMarkFailed(st, err) ==
    \/ err \in {"config", "evidence", "terminal"}
    \/ err = "other" /\ st.final /\ st.id = None

\* The scan marks a deployment failed on a provider's terminal status only.
Caught(a, st, err) ==
    IF a = Scan THEN err = "terminal" ELSE ShouldMarkFailed(st, err)

Raised(a, st, err) ==
    [st EXCEPT !.error = err, !.ready = FALSE, !.token = FALSE,
               !.pc = IF Caught(a, st, err) THEN "catch" ELSE "settle"]

Raise(p, a, err) == SetAttempt(p, a, Raised(a, attempts[p][a], err))

SetRow(p, row) == deployments' = [deployments EXCEPT ![p] = row]

----------------------------------------------------------------------------
(* Deciding what to do with the ledger row *)

\* Defect: an operation left in flight is started again.
DecisionBug(row) ==
    IF Manual(row) THEN "manual"
    ELSE IF row.status \in Replayable THEN "replay"
    ELSE IF row.providerDeployId # None THEN "reconcile" ELSE "start"

\* decideProviderDeployAction: the order is the precedence of ADR 0009.
Decision(row) ==
    CASE Manual(row)                    -> "manual"
      [] row.status \in Replayable      -> "replay"
      [] row.providerDeployId # None    -> "reconcile"
      [] row.operation = "in_flight"    -> "mark_manual"
      [] OTHER                          -> "start"

\* What the attempt does next with a row it read; start is where it goes when
\* no provider deploy was begun for the row.
Follow(p, a, row, start) ==
    LET next == Decision(row) IN
    CASE next = "manual" -> Raise(p, a, "manual")
      [] next = "start"  -> Goto(p, a, start)
      [] OTHER ->
            SetAttempt(p, a, [attempts[p][a] EXCEPT
                !.pc = next,
                !.ready = next = "replay" /\ row.status \in Live,
                !.id = IF next = "reconcile" THEN row.providerDeployId ELSE @,
                !.token = next = "reconcile" /\ row.evidence.resumeToken])

----------------------------------------------------------------------------
(* One attempt, step by step *)

\* loadContext reads the plan first ...
LoadPlan(p, a) ==
    /\ At(p, a, "load_plan")
    /\ SetAttempt(p, a, [attempts[p][a] EXCEPT
            !.pc = "load_row", !.ready = plans[p].status \in DeployStarting])
    /\ UNCHANGED <<ledgerVars, jobs, provider, faults>>

\* ... then the items, which must all be deployable, the rollback points, and the
\* ledger row last.  An absent row decides like a row nothing was done with.
LoadRow(p, a) ==
    /\ At(p, a, "load_row")
    /\ IF \E v \in plans[p].items : versions[v] \notin DeployableVersion
           THEN Raise(p, a, "evidence")
           ELSE IF Decision(deployments[p]) = "start" /\ ~RollbackEvidence(p)
               THEN SetAttempt(p, a, [attempts[p][a] EXCEPT !.pc = "prepare", !.ready = FALSE])
               ELSE Follow(p, a, deployments[p], "prepare")
    /\ UNCHANGED <<ledgerVars, jobs, provider, faults>>

\* replayProviderDeployment: whether the row is live was decided when it was read,
\* the rest is checked by markReleaseLive.
Replay(p, a) ==
    /\ At(p, a, "replay")
    /\ IF /\ attempts[p][a].ready
          /\ plans[p].status \in {"deploying", "live"}
          /\ ~Manual(deployments[p])
           THEN SetPlan(p, "live")
           ELSE UNCHANGED plans
    /\ Goto(p, a, "settle")
    /\ UNCHANGED <<versions, deployments, points, jobs, provider, faults>>

\* The evidence guard, rendering, and storing the two artifacts.  The media bytes
\* the artifact needs are read from storage, and a failed read is an evidence error.
Prepare(p, a) ==
    /\ At(p, a, "prepare")
    /\ IF attempts[p][a].ready
           THEN SetAttempt(p, a, [attempts[p][a] EXCEPT !.pc = "start", !.ready = FALSE])
           ELSE Raise(p, a, "evidence")
    /\ UNCHANGED <<ledgerVars, jobs, provider, faults>>

MediaUnreadable(p, a) ==
    /\ At(p, a, "prepare")
    /\ faults < MaxFaults
    /\ faults' = faults + 1
    /\ Raise(p, a, "evidence")
    /\ UNCHANGED <<ledgerVars, jobs, provider>>

\* The rows startDeployment may (re)start
Startable(row) ==
    /\ \/ row.status \in {"absent", "deploying"}
       \/ row.status = "failed" /\ row.operation = "not_started"
    /\ ~Manual(row)

\* Defect: the plan is left to the API's own update.
ProjectPlanBug(p) == UNCHANGED plans

\* projectReleasePlanDeploying inside startDeployment's transaction
ProjectPlan(p) == SetPlan(p, "deploying")

\* Defect: taking a row over resets it as an insert would.
TakenOverBug(row) == [NoDeployment EXCEPT !.status = "deploying"]

\* The row startDeployment writes: evidenceJson is replaced, and with it any
\* resume token.
TakenOver(row) == [row EXCEPT !.status = "deploying", !.evidence = NoEvidence]

\* startDeployment: insert or take over the row and project the plan, in one
\* transaction.
StartDeployment(p, a) ==
    /\ At(p, a, "start")
    /\ IF ~Startable(deployments[p])
           THEN /\ Follow(p, a, deployments[p], "claim")
                /\ UNCHANGED <<plans, deployments>>
           ELSE IF plans[p].status \in DeployStarting
               THEN /\ SetRow(p, TakenOver(deployments[p]))
                    /\ ProjectPlan(p)
                    /\ Follow(p, a, TakenOver(deployments[p]), "claim")
               ELSE /\ Raise(p, a, "evidence")
                    /\ UNCHANGED <<plans, deployments>>
    /\ UNCHANGED <<versions, points, jobs, provider, faults>>

\* The claimed row
Claimed(row) == [row EXCEPT !.operation = "in_flight", !.evidence = NoEvidence]

\* Defect: any row that is not recorded yet can be claimed.
ClaimableBug(row) == row.operation \in {"not_started", "in_flight"}

\* The condition of the claiming update
Claimable(row) == row.operation = "not_started"

\* markProviderMutationInFlight: a compare-and-set on the operation alone.  The
\* transaction of a lost claim throws, so the manual mark it writes rolls back.
ClaimMutation(p, a) ==
    /\ At(p, a, "claim")
    /\ IF Claimable(deployments[p])
           THEN /\ SetRow(p, Claimed(deployments[p]))
                /\ Goto(p, a, "begin")
           ELSE /\ Raise(p, a, "manual")
                /\ UNCHANGED deployments
    /\ UNCHANGED <<plans, versions, points, jobs, provider, faults>>

\* siteHosting.beginDeploy accepted: the provider has a new deploy.
BeginDeploy(p, a) ==
    /\ At(p, a, "begin")
    /\ \E d \in ProviderDeploy :
        /\ provider[d].state = "absent"
        /\ provider' = [provider EXCEPT ![d] = [plan |-> p, state |-> "uploading"]]
        /\ SetAttempt(p, a, [attempts[p][a] EXCEPT !.pc = "record", !.id = d])
    /\ UNCHANGED <<ledgerVars, jobs, faults>>

\* The adapter has no credentials: nothing was begun.
NotConfigured(p, a) ==
    /\ At(p, a, "begin")
    /\ faults < MaxFaults
    /\ faults' = faults + 1
    /\ Raise(p, a, "config")
    /\ UNCHANGED <<ledgerVars, jobs, provider>>

\* beginDeploy threw; the provider may have accepted the deploy all the same.
BeginFails(p, a) ==
    /\ At(p, a, "begin")
    /\ faults < MaxFaults
    /\ faults' = faults + 1
    /\ \/ UNCHANGED provider
       \/ \E d \in ProviderDeploy :
            /\ provider[d].state = "absent"
            /\ provider' = [provider EXCEPT ![d] = [plan |-> p, state |-> "uploading"]]
    /\ Goto(p, a, "mark_manual")
    /\ UNCHANGED <<ledgerVars, jobs>>

\* Defect: the resume token is not stored with the id.
StartedRowBug(row, d) ==
    [row EXCEPT !.status = "deploying", !.operation = "recorded",
                !.providerDeployId = d, !.evidence = NoEvidence]

\* The row markProviderDeployStarted writes
StartedRow(row, d) ==
    [row EXCEPT !.status = "deploying", !.operation = "recorded",
                !.providerDeployId = d,
                !.evidence = [NoEvidence EXCEPT !.resumeToken = TRUE]]

\* markProviderDeployStarted
RecordStarted(p, a) ==
    /\ At(p, a, "record")
    /\ IF Manual(deployments[p])
           THEN /\ Raise(p, a, "manual")
                /\ UNCHANGED deployments
           ELSE /\ SetRow(p, StartedRow(deployments[p], attempts[p][a].id))
                /\ SetAttempt(p, a, [attempts[p][a] EXCEPT !.pc = "upload"])
    /\ UNCHANGED <<plans, versions, points, jobs, provider, faults>>

\* The write of the provider deploy id failed, before or after its commit.
RecordFails(p, a) ==
    /\ At(p, a, "record")
    /\ ~Manual(deployments[p])
    /\ faults < MaxFaults
    /\ faults' = faults + 1
    /\ \/ UNCHANGED deployments
       \/ SetRow(p, StartedRow(deployments[p], attempts[p][a].id))
    /\ Goto(p, a, "mark_manual")
    /\ UNCHANGED <<plans, versions, points, jobs, provider>>

\* markManualReconciliationRequired, unconditional, and the stop it raises
MarkManual(p, a) ==
    /\ At(p, a, "mark_manual")
    /\ SetRow(p, [deployments[p] EXCEPT !.operation = "manual_reconciliation_required"])
    /\ Raise(p, a, "manual")
    /\ UNCHANGED <<plans, versions, points, jobs, provider, faults>>

\* When an id is in hand its persistence error stops markFailed, otherwise the
\* database error is an ordinary one.
MarkManualFails(p, a) ==
    /\ At(p, a, "mark_manual")
    /\ faults < MaxFaults
    /\ faults' = faults + 1
    /\ Raise(p, a, IF attempts[p][a].id # None THEN "persist" ELSE "other")
    /\ UNCHANGED <<ledgerVars, jobs, provider>>

\* Defect: an interrupted upload is not resumed.
ResumesBug(st) == FALSE

\* getProviderSnapshotAfterUploadResume: only a row with a token can be resumed
Resumes(st) == st.token

\* Defect: everything that has not failed counts as deployed.
DeployedBug(state) == state # "failed"

\* The snapshot status that ends in markProviderSucceeded
Deployed(state) == state = "ready"

\* The first getDeploy of reconcileExistingProviderDeploy: a settled deploy is
\* recorded, an unsettled one has its upload resumed if the row had a token.
Reconcile(p, a) ==
    LET state == provider[attempts[p][a].id].state IN
    /\ At(p, a, "reconcile")
    /\ CASE Deployed(state)           -> Goto(p, a, "succeed")
         [] state = "failed"          -> Raise(p, a, "terminal")
         [] Resumes(attempts[p][a])   ->
                SetAttempt(p, a, [attempts[p][a] EXCEPT !.pc = "upload", !.token = FALSE])
         [] OTHER                     -> Goto(p, a, "pend")
    /\ UNCHANGED <<ledgerVars, jobs, provider, faults>>

\* siteHosting.uploadDeployFiles
Upload(p, a) ==
    LET d == attempts[p][a].id IN
    /\ At(p, a, "upload")
    /\ IF provider[d].state = "failed"
           THEN /\ Raise(p, a, "other")
                /\ UNCHANGED provider
           ELSE /\ provider' = [provider EXCEPT ![d].state =
                                    IF @ = "uploading" THEN "building" ELSE @]
                /\ Goto(p, a, "mark_upload")
    /\ UNCHANGED <<ledgerVars, jobs, faults>>

\* markProviderUploadCompleted: clears the token, if the row still names the deploy
MarkUpload(p, a) ==
    LET row == deployments[p] IN
    /\ At(p, a, "mark_upload")
    /\ CASE Manual(row) ->
                Raise(p, a, "manual") /\ UNCHANGED deployments
         [] row.providerDeployId # attempts[p][a].id ->
                Raise(p, a, "persist") /\ UNCHANGED deployments
         [] OTHER ->
                /\ SetRow(p, [row EXCEPT !.evidence.resumeToken = FALSE])
                /\ Goto(p, a, "poll")
    /\ UNCHANGED <<plans, versions, points, jobs, provider, faults>>

\* The getDeploy after an upload
Poll(p, a) ==
    LET state == provider[attempts[p][a].id].state IN
    /\ At(p, a, "poll")
    /\ CASE Deployed(state)   -> Goto(p, a, "succeed")
         [] state = "failed"  -> Raise(p, a, "terminal")
         [] OTHER             -> Goto(p, a, "pend")
    /\ UNCHANGED <<ledgerVars, jobs, provider, faults>>

\* Defect: the manual stop sign is not honoured.
ProjectableBug(row) == TRUE

\* Both projections of a provider snapshot are refused on manual rows only: the
\* status the row has by now is not looked at.
Projectable(row) == ~Manual(row)

Snapshot(row, d, status) ==
    [row EXCEPT !.status = status, !.operation = "recorded",
                !.providerDeployId = d, !.evidence = NoEvidence]

\* markProviderSucceeded
MarkSucceeded(p, a) ==
    /\ At(p, a, "succeed")
    /\ IF Projectable(deployments[p])
           THEN /\ SetRow(p, Snapshot(deployments[p], attempts[p][a].id,
                                      "provider_succeeded"))
                /\ Goto(p, a, "settle")
           ELSE /\ Raise(p, a, "other")
                /\ UNCHANGED deployments
    /\ UNCHANGED <<plans, versions, points, jobs, provider, faults>>

\* markProviderPending, then ProviderDeployPendingError: the job is retried
MarkPending(p, a) ==
    /\ At(p, a, "pend")
    /\ IF Projectable(deployments[p])
           THEN /\ SetRow(p, Snapshot(deployments[p], attempts[p][a].id, "deploying"))
                /\ Raise(p, a, "pending")
           ELSE /\ Raise(p, a, "other")
                /\ UNCHANGED deployments
    /\ UNCHANGED <<plans, versions, points, jobs, provider, faults>>

\* deployFailureProtectedDeploymentStatusValues and the manual stop sign
FailureProtected(row) == row.status \in Replayable \/ Manual(row)

\* An evidence or configuration error reopens the operation; any other closes it.
FailedRow(row, error) ==
    [row EXCEPT !.status = "failed",
        !.operation = IF error \in {"evidence", "config"} THEN "not_started" ELSE "failed",
        !.evidence = NoEvidence]

\* markFailed: one transaction over the row, the plan (whatever its status) and
\* the release candidates.
MarkFailed(p, a) ==
    /\ At(p, a, "catch")
    /\ IF FailureProtected(deployments[p])
           THEN UNCHANGED <<plans, versions, deployments>>
           ELSE /\ SetRow(p, FailedRow(deployments[p], attempts[p][a].error))
                /\ SetPlan(p, "failed")
                /\ versions' = Demoted(p)
    /\ Goto(p, a, "settle")
    /\ UNCHANGED <<points, jobs, provider, faults>>

----------------------------------------------------------------------------
(* Failed calls and crashes *)

\* A database or provider call of the attempt throws and had no effect.  The
\* replay is returned, not awaited, so the catch block does not see it fail.
CallFails(p, a) ==
    LET st == attempts[p][a] IN
    /\ st.pc \in {"load_plan", "load_row", "replay", "prepare", "start", "claim",
                  "reconcile", "upload", "mark_upload", "poll", "succeed", "pend",
                  "catch"}
    /\ faults < MaxFaults
    /\ faults' = faults + 1
    /\ IF st.pc \in {"replay", "catch"}
           THEN SetAttempt(p, a, [attempts[p][a] EXCEPT !.pc = "settle", !.error = "other"])
           ELSE Raise(p, a, IF st.pc = "mark_upload" THEN "persist" ELSE "other")
    /\ UNCHANGED <<ledgerVars, jobs, provider>>

\* handleJob's own writes to the job run throw, before the handler or after it: a
\* job that succeeded, or failed for good, is retried all the same.
JobRunFails(p, a) ==
    /\ a \in Slot
    /\ attempts[p][a].pc \in {"load_plan", "settle"}
    /\ faults < MaxFaults
    /\ faults' = faults + 1
    /\ SetAttempt(p, a, [attempts[p][a] EXCEPT !.pc = "settle", !.error = "other"])
    /\ UNCHANGED <<ledgerVars, jobs, provider>>

\* The process dies; the queue still believes that the attempt holds the job.
Crash(p, a) ==
    /\ ~At(p, a, "idle")
    /\ faults < MaxFaults
    /\ faults' = faults + 1
    /\ SetAttempt(p, a, Idle)
    /\ UNCHANGED <<ledgerVars, jobs, provider>>

----------------------------------------------------------------------------
(* The deploy queue (BullMQ) as queue-producer.ts and handlers.ts use it *)

\* A worker takes the job.  isFinalJobAttempt: attemptsMade + 1 >= attempts.
Deliver(p, a) ==
    /\ jobs[p].state = "waiting"
    /\ At(p, a, "idle")
    /\ jobs' = [jobs EXCEPT ![p] = [@ EXCEPT !.state = "active", !.holder = a]]
    /\ SetAttempt(p, a, [Idle EXCEPT
            !.pc = "load_plan", !.final = jobs[p].made + 1 >= MaxAttempts])
    /\ UNCHANGED <<ledgerVars, provider, faults>>

\* isTerminalWorkerError: the queue must not retry these
TerminalError == {"evidence", "config", "terminal", "manual"}

\* The handler returns or rethrows.  Only the attempt that still holds the job
\* can finish it or have it retried.
Settle(p, a) ==
    LET st == attempts[p][a]
        job == jobs[p]
        retry == st.error \notin TerminalError \cup {"none"} /\ ~st.final
    IN  /\ At(p, a, "settle")
        /\ SetAttempt(p, a, Idle)
        /\ IF job.holder = a
               THEN jobs' = [jobs EXCEPT ![p] =
                        [job EXCEPT !.state = IF retry THEN "waiting" ELSE "done",
                                    !.made = @ + 1,
                                    !.holder = None]]
               ELSE UNCHANGED jobs
        /\ UNCHANGED <<ledgerVars, provider, faults>>

\* maxStalledCount is used up
StalledOut(job) == job.stalls >= MaxStalls

\* The lock of an active job expired: its worker died, or its event loop was busy
\* for longer than the lock lasts and it will go on.
Stall(p) ==
    LET job == jobs[p] IN
    /\ job.state = "active"
    /\ ZombieStalls \/ At(p, job.holder, "idle")
    /\ jobs' = [jobs EXCEPT ![p] =
            IF StalledOut(job)
                THEN [job EXCEPT !.state = "done", !.holder = None]
                ELSE [job EXCEPT !.state = "waiting", !.stalls = @ + 1, !.holder = None]]
    /\ UNCHANGED <<ledgerVars, attempts, provider, faults>>

----------------------------------------------------------------------------
(* The reconcile scan *)

\* The rows reconcilePendingDeployments selects
Pending(row) ==
    /\ row.status = "deploying"
    /\ row.providerDeployId # None
    /\ ~Manual(row)

ScanPicks(p) ==
    /\ At(p, Scan, "idle")
    /\ Pending(deployments[p])
    /\ SetAttempt(p, Scan, [Idle EXCEPT
            !.pc = "reconcile",
            !.id = deployments[p].providerDeployId,
            !.token = deployments[p].evidence.resumeToken])
    /\ UNCHANGED <<ledgerVars, jobs, provider, faults>>

----------------------------------------------------------------------------
(* The hosting provider *)

Finish(d) ==
    /\ provider[d].state = "building"
    /\ \E s \in {"ready", "failed"} :
        provider' = [provider EXCEPT ![d].state = s]
    /\ UNCHANGED <<ledgerVars, attempts, jobs, faults>>

----------------------------------------------------------------------------

WorkerInit ==
    /\ attempts = [p \in Plan |-> [a \in Actor |-> Idle]]
    /\ jobs = [p \in Plan |-> NoJob]
    /\ provider = [d \in ProviderDeploy |-> [plan |-> None, state |-> "absent"]]
    /\ faults = 0

\* The steps both an attempt and the scan can take
Advance(p, a) ==
    \/ Reconcile(p, a) \/ Upload(p, a) \/ MarkUpload(p, a) \/ Poll(p, a)
    \/ MarkSucceeded(p, a) \/ MarkPending(p, a) \/ MarkFailed(p, a) \/ Settle(p, a)

\* The steps of an attempt only
Attempt(p, a) ==
    \/ LoadPlan(p, a) \/ LoadRow(p, a) \/ Replay(p, a) \/ Prepare(p, a)
    \/ StartDeployment(p, a) \/ ClaimMutation(p, a) \/ BeginDeploy(p, a)
    \/ RecordStarted(p, a) \/ MarkManual(p, a)

Fault(p, a) ==
    \/ MediaUnreadable(p, a) \/ NotConfigured(p, a) \/ BeginFails(p, a)
    \/ RecordFails(p, a) \/ MarkManualFails(p, a) \/ CallFails(p, a)
    \/ JobRunFails(p, a) \/ Crash(p, a)

WorkerNext ==
    \/ \E p \in Plan :
        \/ \E a \in Slot : Deliver(p, a) \/ Attempt(p, a)
        \/ \E a \in Actor : Advance(p, a) \/ Fault(p, a)
        \/ Stall(p)
        \/ ScanPicks(p)
    \/ \E d \in ProviderDeploy : Finish(d)
===============================================================================
