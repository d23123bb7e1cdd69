-------------------------- MODULE ReleaseVerification --------------------------
(***************************************************************************)
(* Verification runs of deployments: the API's request                     *)
(* (release-rollback.capability.ts, verify), the verification job          *)
(* (apps/worker/src/handlers/release-verification.ts) and the recovery of  *)
(* runs that never end.                                                    *)
(*                                                                         *)
(* The job looks at the live site for a while and then projects what it    *)
(* found onto the deployment, the plan and the page versions, in one       *)
(* transaction that first takes the run from "running".                    *)
(***************************************************************************)
EXTENDS ReleaseLedger, Integers

CONSTANTS
    Run,                  \* verification run ids
    VerifySlot,           \* verification attempts that can run at a time
    VerificationAttempts, \* releaseVerificationJobAttempts (3)
    VerificationStalls,   \* stalls after which the queue gives a job up (BullMQ: 1)
    PageOf                \* page version -> its page proposal

ASSUME ReleaseVerificationAssumption ==
    /\ None \notin Run \cup VerifySlot
    /\ VerificationAttempts \in Nat \ {0}
    /\ VerificationStalls \in Nat
    /\ DOMAIN PageOf = Version

VARIABLES
    runs,        \* run -> [plan, status]
    runJobs,     \* run -> the queue's job
    verifiers    \* slot -> local state of a verification attempt

verificationVars == <<runs, runJobs, verifiers>>

RunQueue == INSTANCE WorkQueue
    WITH MaxAttempts <- VerificationAttempts, MaxStalls <- VerificationStalls

\* "inserted" is a run whose request has not added its job yet.
RunStatus == {"absent", "inserted", "running", "finished"}

NoRun == [plan |-> None, status |-> "absent"]

VerificationOutcome ==
    {"live_healthy", "live_with_warnings", "rollback_recommended", "failed",
     "execution_failed"}

VerifierState ==
    [pc    : {"idle", "load_run", "load_row", "verify", "persist", "settle"},
     run   : Run \cup {None},
     found : VerificationOutcome \cup {"nothing"},
     final : BOOLEAN,
     error : {"none", "evidence", "other"}]

NotVerifying ==
    [pc |-> "idle", run |-> None, found |-> "nothing", final |-> FALSE, error |-> "none"]

VerificationTypeOK ==
    /\ runs \in [Run -> [plan : Plan \cup {None}, status : RunStatus]]
    /\ runJobs \in [Run -> RunQueue!Jobs(VerifySlot)]
    /\ verifiers \in [VerifySlot -> VerifierState]

Running(r) == runs[r].status \in {"inserted", "running"}

\* verificationReadyStatuses of the API and verificationProjectableDeploymentStatuses
\* of the worker
Verifiable == {"provider_succeeded", "verifying", "rollback_recommended"} \cup Live

\* verificationProjectableReleasePlanStatuses
ProjectablePlan == {"deploying", "live", "failed"}

----------------------------------------------------------------------------
(* The request *)

\* verify, up to the insert; a partial unique index allows one running run of a
\* deployment.
RequestVerification(r, p) ==
    /\ runs[r].status = "absent"
    /\ deployments[p].status \in Verifiable
    /\ \A s \in Run : Running(s) => runs[s].plan # p
    /\ runs' = [runs EXCEPT ![r] = [plan |-> p, status |-> "inserted"]]
    /\ UNCHANGED <<ledgerVars, runJobs, verifiers>>

QueueVerification(r) ==
    /\ runs[r].status = "inserted"
    /\ runs' = [runs EXCEPT ![r].status = "running"]
    /\ runJobs' = [runJobs EXCEPT ![r] = RunQueue!Enqueued(@)]
    /\ UNCHANGED <<ledgerVars, verifiers>>

\* Queueing threw (markReleaseVerificationQueueFailure), or the run has been running
\* for too long (markReleaseVerificationRecoveryFailure): the run fails, and an
\* execution failure projects no status.
AbandonRun(r) ==
    /\ Running(r)
    /\ runs' = [runs EXCEPT ![r].status = "finished"]
    /\ UNCHANGED <<ledgerVars, runJobs, verifiers>>

----------------------------------------------------------------------------
(* The job *)

SetVerifier(v, st) == verifiers' = [verifiers EXCEPT ![v] = st]

Verifying(v, step) == verifiers[v].pc = step /\ verifiers[v].run \in Run

EndVerifier(v, err) ==
    SetVerifier(v, [verifiers[v] EXCEPT !.pc = "settle", !.found = "nothing", !.error = err])

TakeRun(r, v) ==
    /\ runJobs[r].state = "waiting"
    /\ verifiers[v].pc = "idle"
    /\ runJobs' = [runJobs EXCEPT ![r] = RunQueue!Taken(@, v)]
    /\ SetVerifier(v, [NotVerifying EXCEPT
            !.pc = "load_run", !.run = r, !.final = RunQueue!FinalAttempt(runJobs[r])])
    /\ UNCHANGED <<ledgerVars, runs>>

\* A run that is not running any more is already completed.
LoadRun(v) ==
    /\ Verifying(v, "load_run")
    /\ IF Running(verifiers[v].run)
           THEN SetVerifier(v, [verifiers[v] EXCEPT !.pc = "load_row"])
           ELSE EndVerifier(v, "none")
    /\ UNCHANGED <<ledgerVars, runs, runJobs>>

LoadVerified(v) ==
    /\ Verifying(v, "load_row")
    /\ IF deployments[runs[verifiers[v].run].plan].status \in Verifiable
           THEN SetVerifier(v, [verifiers[v] EXCEPT !.pc = "verify"])
           ELSE EndVerifier(v, "evidence")
    /\ UNCHANGED <<ledgerVars, runs, runJobs>>

\* runVerifier and the checks built from it: the site can look any way, and a
\* verifier that throws is an execution failure on the final attempt.
Verify(v) ==
    /\ Verifying(v, "verify")
    /\ \/ \E found \in VerificationOutcome :
            /\ found = "execution_failed" => verifiers[v].final
            /\ SetVerifier(v, [verifiers[v] EXCEPT !.pc = "persist", !.found = found])
       \/ ~verifiers[v].final /\ EndVerifier(v, "other")
    /\ UNCHANGED <<ledgerVars, runs, runJobs>>

----------------------------------------------------------------------------
(* persistReleaseVerificationResult *)

\* deploymentStatusFromVerification; an execution failure leaves the status alone.
DeploymentAfter(status, found) ==
    IF found = "execution_failed" THEN status ELSE found

Good(found) == found \in Live

\* releasePlanStatusFromVerification has nothing to project for an execution failure.
PlanAfter(found) == IF Good(found) THEN "live" ELSE "failed"

\* Defect: only the deployment's own evidence is looked at.
RollbackActiveBug(p) == deployments[p].evidence.rollback.status \in ActiveRollback

\* hasActiveRollbackOperationEvidence of the deployment or of any of its plan's
\* points, whose rows are locked
RollbackActive(p) ==
    \/ deployments[p].evidence.rollback.status \in ActiveRollback
    \/ \E q \in Plan, d \in ProviderDeploy : points[<<p, q, d>>].status \in ActiveRollback

\* Defect: the manual stop sign is not part of the update's condition.
ProjectsBug(p) == ~RollbackActive(p) /\ deployments[p].status \in Verifiable

\* The condition of the deployment's update
Projects(p) ==
    /\ ~RollbackActive(p)
    /\ ~Manual(deployments[p])
    /\ deployments[p].status \in Verifiable

\* Defect: older released versions of the page are left alone.
ReleasedBug(p) ==
    [v \in Version |->
        IF v \in plans[p].items /\ versions[v] \in DeployableVersion
            THEN "released" ELSE versions[v]]

\* A good verification releases the plan's versions, and supersedes what other
\* versions of the same pages were released.
Released(p) ==
    LET pages == {PageOf[v] : v \in plans[p].items} IN
    [v \in Version |->
        IF v \in plans[p].items
            THEN IF versions[v] \in DeployableVersion THEN "released" ELSE versions[v]
            ELSE IF PageOf[v] \in pages /\ versions[v] = "released"
                THEN "superseded" ELSE versions[v]]

\* The plan and the page versions follow the deployment.
Projection(p, found) ==
    /\ deployments' = [deployments EXCEPT ![p].status = DeploymentAfter(@, found)]
    /\ IF found = "execution_failed"
           THEN UNCHANGED <<plans, versions>>
           ELSE /\ SetPlan(p, PlanAfter(found))
                /\ versions' = IF Good(found) THEN Released(p) ELSE Demoted(p)

\* The transaction.  A plan that cannot be projected throws, and undoes it all.
PersistVerification(v) ==
    LET st == verifiers[v]
        p == runs[st.run].plan
    IN  /\ Verifying(v, "persist")
        /\ IF ~Running(st.run)
               THEN EndVerifier(v, "none") /\ UNCHANGED <<ledgerVars, runs>>
               ELSE IF /\ Projects(p)
                       /\ st.found # "execution_failed"
                       /\ plans[p].status \notin ProjectablePlan
                   THEN EndVerifier(v, "evidence") /\ UNCHANGED <<ledgerVars, runs>>
                   ELSE /\ runs' = [runs EXCEPT ![st.run].status = "finished"]
                        /\ EndVerifier(v, "none")
                        /\ IF Projects(p)
                               THEN Projection(p, st.found) /\ UNCHANGED points
                               ELSE UNCHANGED ledgerVars
        /\ UNCHANGED runJobs

----------------------------------------------------------------------------
(* Failures and the queue *)

\* A database call throws, or the process dies.
VerificationFails(v) ==
    /\ verifiers[v].pc # "idle"
    /\ SetVerifier(v, NotVerifying)
    /\ LET r == verifiers[v].run IN
       IF runJobs[r].holder # v THEN UNCHANGED runJobs
       ELSE \/ runJobs' = [runJobs EXCEPT ![r] = RunQueue!Ended(@, ~verifiers[v].final)]
            \/ runJobs' = [runJobs EXCEPT ![r] = RunQueue!AfterStall(@)]
    /\ UNCHANGED <<ledgerVars, runs>>

SettleVerification(v) ==
    LET st == verifiers[v] IN
    /\ Verifying(v, "settle")
    /\ SetVerifier(v, NotVerifying)
    /\ IF runJobs[st.run].holder = v
           THEN runJobs' = [runJobs EXCEPT ![st.run] =
                    RunQueue!Ended(@, st.error = "other" /\ ~st.final)]
           ELSE UNCHANGED runJobs
    /\ UNCHANGED <<ledgerVars, runs>>

----------------------------------------------------------------------------

VerificationInit ==
    /\ runs = [r \in Run |-> NoRun]
    /\ runJobs = [r \in Run |-> RunQueue!NoJob]
    /\ verifiers = [v \in VerifySlot |-> NotVerifying]

VerificationNext ==
    \/ \E r \in Run :
        \/ \E p \in Plan : RequestVerification(r, p)
        \/ QueueVerification(r) \/ AbandonRun(r)
        \/ \E v \in VerifySlot : TakeRun(r, v)
    \/ \E v \in VerifySlot :
        \/ LoadRun(v) \/ LoadVerified(v) \/ Verify(v) \/ PersistVerification(v)
        \/ VerificationFails(v) \/ SettleVerification(v)
================================================================================
