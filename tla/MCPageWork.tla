------------------------------- MODULE MCPageWork -------------------------------
(***************************************************************************)
(* PageProposals from two kinds of state, to keep what fails and what is   *)
(* asked for twice apart: either nothing was requested yet and nothing     *)
(* fails, or one run is behind us, whose enqueueing failed, and the other  *)
(* one meets every other failure.                                          *)
(***************************************************************************)
EXTENDS PageProposals

RefusedRun == CHOOSE r \in Run : TRUE

\* What QueuePageProposal, an AddJob that throws and MarkQueueFailure leave behind
AfterRefusal ==
    /\ runs = [r \in Run |->
            [status |-> IF r = RefusedRun THEN "failed" ELSE "absent", count |-> 0]]
    /\ audits = [r \in Run |->
            IF r = RefusedRun THEN [id |-> 0, status |-> "failed"] ELSE NoAudit]
    /\ faults = 1

NothingFails ==
    /\ runs = [r \in Run |-> [status |-> "absent", count |-> 0]]
    /\ audits = [r \in Run |-> NoAudit]
    /\ faults = MaxFaults

MCInit ==
    /\ AfterRefusal \/ NothingFails
    /\ jobs = [r \in Run |-> NoJob]
    /\ attempts = [a \in Attempt |-> NoAttempt]
    /\ producers = [p \in Producer |-> NoRequest]
    /\ scans = [s \in Scan |-> NoScan]
    /\ opportunity = "open"
    /\ proposals = {}

MCSpec == MCInit /\ [][Next]_vars /\ Fairness
================================================================================
