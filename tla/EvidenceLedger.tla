----------------------------- MODULE EvidenceLedger -----------------------------
(***************************************************************************)
(* The runs that gather a project's evidence, as the API requests them and *)
(* shows their results: website imports, technical audits, SERP and        *)
(* opportunity scouts (projects.module.ts), syncs of Search Console data   *)
(* (gsc.module.ts), and the operators' decisions about the opportunities   *)
(* that the scouts found (opportunities.module.ts).  A request writes its  *)
(* run and adds its job in two steps, of which a SERP scout has only the   *)
(* second one.                                                             *)
(***************************************************************************)
EXTENDS GscConnections, WorkQueue

CONSTANTS
    Import, Audit, Serp, Scout, Sync, \* runs of each kind
    Key,   \* what an opportunity is about: a service and a location
    Answer \* what a service can answer to a query

Crawl == Import \cup Audit
Run == Crawl \cup Serp \cup Scout \cup Sync

ASSUME EvidenceConstants ==
    /\ Crawl \cap Serp = {} /\ Crawl \cap Scout = {} /\ Crawl \cap Sync = {}
    /\ Serp \cap Scout = {} /\ Serp \cap Sync = {} /\ Scout \cap Sync = {}
    /\ None \notin Run
    /\ MaxAttempts \in Nat \ {0} /\ MaxStalls \in Nat

VARIABLES
    runs,          \* website_import_runs, technical_audit_runs, serp_snapshots, agent_runs
                   \* and gsc_sync_runs
    opportunities, \* in the order of their insertion
    jobs,          \* the queue job of each run
    requests,      \* the API request of each run
    misled         \* runs whose job was added, or result stored, while the caller got an error

ledgerVars == <<gscVars, runs, opportunities, jobs, requests, misled>>

Active == {"queued", "running"}
Done == {"completed", "succeeded", "captured"}

\* connection, rows and count: of syncs, their connection, the stored rows, and row_count
NoRun == [status |-> "absent", connection |-> 0, rows |-> {}, count |-> 0]
RunRow ==
    [status : {"absent", "failed"} \cup Active \cup Done, connection : Nat,
     rows : SUBSET Answer, count : Answer \cup {0}]

LedgerTypeOK ==
    /\ GscTypeOK
    /\ runs \in [Run -> RunRow]
    /\ opportunities \in Seq([run : Scout, key : Key, status : {"new", "rejected", "reopened"}])
    /\ requests \in [Run -> {"none", "adding", "refused", "over"}]
    /\ misled \subseteq Run

LedgerInit ==
    /\ GscInit
    /\ runs = [r \in Run |-> NoRun]
    /\ opportunities = <<>>
    /\ jobs = [r \in Run |-> NoJob]
    /\ requests = [r \in Run |-> "none"]
    /\ misled = {}

SetStatus(r, status) == runs' = [runs EXCEPT ![r].status = status]
ActiveScouts == {r \in Scout : runs[r].status \in Active}

----------------------------------------------------------------------------
(* Requests *)

\* queueWebsiteImport and queueTechnicalAudit look at no other run.
RequestImport(r) == r \in Import /\ SetStatus(r, "queued")
RequestAudit(r) == r \in Audit /\ SetStatus(r, "queued")

\* queueOpportunityScout, which holds the project's row; an active run is answered instead.
RequestScout(r) ==
    /\ r \in Scout
    /\ ActiveScouts = {}
    /\ SetStatus(r, "queued")

\* queueSerpScout writes no row before the first outcome.
RequestSerp(r) == r \in Serp /\ UNCHANGED runs

\* queueSync, of the newest connection
RequestSync(r) ==
    /\ r \in Sync
    /\ Latest > 0
    /\ connections[Latest].status = "connected" /\ connections[Latest].token
    /\ runs' = [runs EXCEPT ![r].status = "queued", ![r].connection = Latest]

\* The row of the run is committed.
RequestRun(r) ==
    /\ requests[r] = "none"
    /\ \/ RequestImport(r) \/ RequestAudit(r) \/ RequestScout(r)
       \/ RequestSerp(r) \/ RequestSync(r)
    /\ requests' = [requests EXCEPT ![r] = "adding"]
    /\ UNCHANGED <<gscVars, opportunities, jobs, misled>>

AddJob(r) ==
    /\ requests[r] = "adding"
    /\ jobs' = [jobs EXCEPT ![r] = Enqueued(@)]
    /\ requests' = [requests EXCEPT ![r] = "over"]
    /\ UNCHANGED <<gscVars, runs, opportunities, misled>>

\* enqueue throws, with the job in the queue or not.
AddFails(r) ==
    /\ requests[r] = "adding"
    /\ GoesWrong
    /\ \/ UNCHANGED <<jobs, misled>>
       \/ jobs' = [jobs EXCEPT ![r] = Enqueued(@)] /\ misled' = misled \cup {r}
    /\ requests' = [requests EXCEPT ![r] = "refused"]
    /\ UNCHANGED <<intents, callbacks, connections, unusable, runs, opportunities>>

\* markWebsiteImportQueueFailure, markTechnicalAuditQueueFailure, the catch of queueSync: of a
\* run in any status.  markOpportunityScoutQueueFailure: of an active one.
MarkQueueFailure(r) ==
    /\ requests[r] = "refused"
    /\ IF r \in Serp \/ (r \in Scout /\ r \notin ActiveScouts)
         THEN UNCHANGED runs ELSE SetStatus(r, "failed")
    /\ requests' = [requests EXCEPT ![r] = "over"]
    /\ UNCHANGED <<gscVars, opportunities, jobs, misled>>

\* The process dies, or cannot write.
RequestDies(r) ==
    /\ requests[r] \in {"adding", "refused"}
    /\ GoesWrong
    /\ requests' = [requests EXCEPT ![r] = "over"]
    /\ UNCHANGED <<intents, callbacks, connections, unusable, runs, opportunities, jobs, misled>>

\* updateOpportunityLifecycle, by an operator who saw the opportunity as it is
Decide(i) ==
    /\ opportunities' = [opportunities EXCEPT ![i].status =
            IF @ = "rejected" THEN "reopened" ELSE "rejected"]
    /\ UNCHANGED <<gscVars, runs, jobs, requests, misled>>

EvidenceRequest ==
    \/ \E r \in Run :
        RequestRun(r) \/ AddJob(r) \/ AddFails(r) \/ MarkQueueFailure(r) \/ RequestDies(r)
    \/ \E i \in DOMAIN opportunities : Decide(i)
================================================================================
