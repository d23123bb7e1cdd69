---------------------------- MODULE ReleaseRecovery ----------------------------
(***************************************************************************)
(* What happens to releases after their deploys: verification and rollback *)
(* work on the same plans, deployments and page versions, without a common *)
(* lock but the row locks of the rollback points.                          *)
(***************************************************************************)
EXTENDS RollbackWorker, ReleaseVerification

recoveryVars == <<ledgerVars, rollbackVars, verificationVars>>

\* The releases as the deploy pipeline leaves them: nothing was rolled back yet,
\* and the rollback points are prepared.
Init ==
    /\ LedgerTypeOK
    /\ \A p \in Plan :
        /\ plans[p].status # "rolled_back"
        /\ deployments[p].status \notin {"rollback_pending", "rolled_back"}
        /\ deployments[p].evidence.rollback = NoRollback
    /\ \A x \in Point : points[x].status \in {"absent", "prepared"}
    /\ rollbacks = [a \in RollbackActor |-> NotRunning]
    /\ rollbackJobs = [x \in Point |-> Queue!NoJob]
    /\ site \in SiteState
    /\ site.accepted = {} /\ site.made = {} /\ site.now \in site.was
    /\ faults = 0
    /\ VerificationInit

Next ==
    \/ RollbackNext /\ UNCHANGED verificationVars
    \/ VerificationNext /\ UNCHANGED rollbackVars

Spec == Init /\ [][Next]_recoveryVars

\* The scan's interval, its own steps and those of running attempts go on, the queue
\* hands out jobs and notices dead workers, and the provider publishes what it
\* accepted.
Fairness ==
    /\ \A a \in RollbackActor :
        WF_recoveryVars(RollbackProgress(a) /\ UNCHANGED verificationVars)
    /\ \A p \in Plan : WF_recoveryVars(ScanTakes(p) /\ UNCHANGED verificationVars)
    /\ \A x \in Point :
        /\ WF_recoveryVars((\E a \in RollbackSlot : TakeRollback(x, a)) /\ UNCHANGED verificationVars)
        /\ WF_recoveryVars(StallRollback(x) /\ UNCHANGED verificationVars)
    /\ \A d \in ProviderDeploy : WF_recoveryVars(Publish(d) /\ UNCHANGED verificationVars)

RecoveryTypeOK == LedgerTypeOK /\ RollbackTypeOK /\ VerificationTypeOK

----------------------------------------------------------------------------
(* Properties *)

\* A rollback of the plan is between its intent and its end, by either row.
InRollback(p) ==
    \/ deployments[p].evidence.rollback.status \in ActiveRollback
    \/ \E x \in Point : x[1] = p /\ points[x].status \in ActiveRollback

\* The deployment and its plan are rolled back together, whoever completes the
\* rollback and whatever a late verification finds.
RolledBackTogether ==
    \A p \in Plan :
        deployments[p].status = "rolled_back" <=> plans[p].status = "rolled_back"

\* While a rollback is active, or waits for a human, nothing but the rollback moves
\* the release: a verification that ends late only leaves its record (ADR 0013).
RollbackOwnsRelease ==
    [][\A p \in Plan :
        (InRollback(p) \/ Manual(deployments[p])) =>
            /\ plans'[p].status \in {plans[p].status, "rolled_back"}
            /\ deployments'[p].status \in
                {deployments[p].status, "rollback_pending", "rolled_back"}]_recoveryVars

\* An attempt about to ask the provider for a restore finds its own intent in the point,
\* and no other attempt, nor the scan, has a restore of the same point in its hands.
RestoreHasIntent ==
    \A a \in RollbackActor : Doing(a, "restore") =>
        LET x == rollbacks[a].point IN
        /\ points[x].status = "restore_in_flight"
        /\ points[x].operation = rollbacks[a].op.operation
        /\ \A b \in RollbackActor \ {a} : Doing(b, "restore") => rollbacks[b].point # x

\* That intent covers the restore still: the plan can be rolled back, and no human has
\* to look at the deployment.
RestoreIsIntended ==
    /\ RestoreHasIntent
    /\ \A a \in RollbackActor : Doing(a, "restore") =>
        LET p == rollbacks[a].point[1] IN
        plans[p].status = "failed" /\ ~Manual(deployments[p])

\* A deployment is rolled back to the deploy of its point, or to the copy a restore
\* of it made, and the provider did publish it.
RolledBackToRestored ==
    \A p \in Plan : deployments[p].status = "rolled_back" =>
        /\ deployments[p].providerDeployId \in site.was
        /\ \/ deployments[p].providerDeployId \in site.made
           \/ \E q \in Plan :
                deployments[p].evidence.rollback.point = <<q, deployments[p].providerDeployId>>

\* At most one version of a page is the released one.
ReleasedOnce ==
    \A v, w \in Version :
        (versions[v] = "released" /\ versions[w] = "released" /\ PageOf[v] = PageOf[w])
            => v = w

\* A rollback the provider accepted is completed or handed over to a human, unless
\* the deploy that is rolled back is put in its place again and stays there.
PendingRollbackEnds ==
    \A p \in Plan :
        LET row == deployments[p]
            pending == row.status = "rollback_pending" /\ ~Manual(row)
        IN  pending ~> \/ ~pending
                       \/ [](pending /\ site.now = row.evidence.rollback.target)

\* When the job of a rollback is over, its operation is not left in flight
\* (ADR 0013: a terminal job attempt must not leave it stranded).
NoStrandedRestore ==
    \A x \in Point :
        points[x].status = "restore_in_flight" =>
            \/ rollbackJobs[x].state # "none"
            \/ \E a \in RollbackActor : rollbacks[a].point = x
================================================================================
