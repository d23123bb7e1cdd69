--------------------------- MODULE MCNextRelease ---------------------------
(* A second release is planned and deployed while the first one is still with *)
(* the provider: its job is over and the scan is to finish it.                *)
EXTENDS DeployPipeline

CONSTANTS First, FirstVersion, FirstDeploy

FirstDeploying ==
    /\ plans = [p \in Plan |->
            IF p = First THEN [status |-> "deploying", items |-> {FirstVersion}]
                         ELSE [status |-> "absent", items |-> {}]]
    /\ versions = [v \in Version |->
            IF v = FirstVersion THEN "release_candidate" ELSE "approved"]
    /\ deployments = [p \in Plan |->
            IF p = First
                THEN [status |-> "deploying", operation |-> "recorded",
                      providerDeployId |-> FirstDeploy,
                      evidence |-> [NoEvidence EXCEPT !.resumeToken = TRUE]]
                ELSE NoDeployment]
    /\ points = [x \in Plan \X Plan \X ProviderDeploy |-> NoPoint]
    /\ attempts = [p \in Plan |-> [a \in Actor |-> Idle]]
    /\ jobs = [p \in Plan |-> NoJob]
    /\ provider = [d \in ProviderDeploy |->
            IF d = FirstDeploy THEN [plan |-> First, state |-> "uploading"]
                               ELSE [plan |-> None, state |-> "absent"]]
    /\ faults = 0
    /\ PlanningInit

NextReleaseSpec == FirstDeploying /\ [][Next]_allVars
===============================================================================
