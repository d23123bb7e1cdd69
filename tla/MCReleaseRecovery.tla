--------------------------- MODULE MCReleaseRecovery ---------------------------
(* Two releases of one page: the older one is live, the newer one was deployed *)
(* over it and is about to be verified, or was found bad already.              *)
EXTENDS ReleaseRecovery, TLC

CONSTANTS Older, Newer, OlderVersion, NewerVersion, OlderDeploy, NewerDeploy

OnePage == [v \in Version |-> "page"]

\* Operation ids and verification runs are interchangeable.
Symmetry == Permutations(Operation) \cup Permutations(Run)

Deployment(status, d) ==
    [NoDeployment EXCEPT !.status = status, !.operation = "recorded",
                         !.providerDeployId = d]

NewerDeployed ==
    /\ plans = [p \in Plan |->
            IF p = Older THEN [status |-> "live", items |-> {OlderVersion}]
                         ELSE [status |-> "deploying", items |-> {NewerVersion}]]
    /\ versions = [v \in Version |->
            IF v = OlderVersion THEN "released" ELSE "release_candidate"]
    /\ deployments = [p \in Plan |->
            IF p = Older THEN Deployment("live_healthy", OlderDeploy)
                         ELSE Deployment("provider_succeeded", NewerDeploy)]

NewerIsBad ==
    /\ plans = [p \in Plan |->
            IF p = Older THEN [status |-> "live", items |-> {OlderVersion}]
                         ELSE [status |-> "failed", items |-> {NewerVersion}]]
    /\ versions = [v \in Version |-> IF v = OlderVersion THEN "released" ELSE "approved"]
    /\ deployments = [p \in Plan |->
            IF p = Older THEN Deployment("live_healthy", OlderDeploy)
                         ELSE Deployment("rollback_recommended", NewerDeploy)]

Elsewhere ==
    /\ points = [x \in Point |->
            IF x = <<Newer, Older, OlderDeploy>>
                THEN [NoPoint EXCEPT !.status = "prepared"] ELSE NoPoint]
    /\ rollbacks = [a \in RollbackActor |-> NotRunning]
    /\ rollbackJobs = [x \in Point |-> Queue!NoJob]
    /\ site = [now |-> NewerDeploy, accepted |-> {}, was |-> {OlderDeploy, NewerDeploy},
               made |-> {}]
    /\ faults = 0
    /\ VerificationInit

VerifyAndRollBack == (NewerDeployed \/ NewerIsBad) /\ Elsewhere /\ Init

RecoverySpec == VerifyAndRollBack /\ [][Next]_recoveryVars

FairRecoverySpec == RecoverySpec /\ Fairness
================================================================================
