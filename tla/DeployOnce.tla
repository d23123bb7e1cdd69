------------------------------ MODULE DeployOnce ------------------------------
(***************************************************************************)
(* What the deploy pipeline promises for one release plan, however many    *)
(* requests, attempts, retries, crashes and scans it takes: at most one    *)
(* deploy is begun for it, the ledger comes to name that deploy and no     *)
(* other, the plan is called deployed only when the provider has finished  *)
(* the deploy the ledger names, a plan that failed before the ledger knew  *)
(* its deploy is not taken up again, and nothing is touched after it was   *)
(* handed to a human (ADR 0009).                                           *)
(*                                                                         *)
(* The module says nothing of how: there is no job, no attempt, no claim.  *)
(***************************************************************************)

CONSTANTS
    Deploy,   \* deploys the provider can create
    None      \* no deploy

VARIABLES
    begun,    \* the deploys the provider created for the plan
    finished, \* those of them it built successfully
    recorded, \* the deploy the ledger names, or None
    outcome   \* what the ledger says of the plan's deployment

promiseVars == <<begun, finished, recorded, outcome>>

Outcome == {"open", "succeeded", "failed", "human"}

Init ==
    /\ begun = {}
    /\ finished = {}
    /\ recorded = None
    /\ outcome = "open"

Begin ==
    /\ begun = {}
    /\ outcome = "open"
    /\ \E d \in Deploy : begun' = {d}
    /\ UNCHANGED <<finished, recorded, outcome>>

Finish ==
    /\ finished # begun
    /\ finished' = begun
    /\ UNCHANGED <<begun, recorded, outcome>>

Record ==
    /\ recorded = None
    /\ outcome = "open"
    /\ recorded' \in begun
    /\ UNCHANGED <<begun, finished, outcome>>

Succeed ==
    /\ recorded \in finished
    /\ outcome \in {"open", "failed"}
    /\ outcome' = "succeeded"
    /\ UNCHANGED <<begun, finished, recorded>>

Fail ==
    /\ outcome = "open"
    /\ outcome' = "failed"
    /\ UNCHANGED <<begun, finished, recorded>>

\* A look at the provider from before the outcome was written is written after it;
\* the scan settles the deployment again.
Reopen ==
    /\ recorded # None
    /\ outcome \in {"succeeded", "failed"}
    /\ outcome' = "open"
    /\ UNCHANGED <<begun, finished, recorded>>

HandOver ==
    /\ outcome # "human"
    /\ outcome' = "human"
    /\ UNCHANGED <<begun, finished, recorded>>

Next == Begin \/ Finish \/ Record \/ Succeed \/ Fail \/ Reopen \/ HandOver

Step == [Next]_promiseVars

Spec == Init /\ [][Next]_promiseVars
===============================================================================
