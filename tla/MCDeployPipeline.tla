--------------------------- MODULE MCDeployPipeline ---------------------------
(* Finite instances of DeployPipeline for TLC. *)
EXTENDS DeployPipeline, TLC

\* Provider deploy ids and job slots are interchangeable.
Symmetry == Permutations(ProviderDeploy) \cup Permutations(Slot)

\* The pipeline from the moment an approved plan's deploy job was queued: what
\* the requests before it can do is left to the runs that start from Init.

Queued ==
    /\ plans = [p \in Plan |-> [status |-> "approved_for_deploy", items |-> Version]]
    /\ versions = [v \in Version |-> "release_candidate"]
    /\ deployments = [p \in Plan |-> NoDeployment]
    /\ points = [x \in Plan \X Plan \X ProviderDeploy |-> NoPoint]
    /\ attempts = [p \in Plan |-> [a \in Actor |-> Idle]]
    /\ jobs = [p \in Plan |-> [NoJob EXCEPT !.state = "waiting"]]
    /\ provider = [d \in ProviderDeploy |-> [plan |-> None, state |-> "absent"]]
    /\ faults = 0
    /\ PlanningInit

QueuedSpec == Queued /\ [][Next]_allVars
===============================================================================
