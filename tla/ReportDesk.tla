------------------------------- MODULE ReportDesk -------------------------------
(***************************************************************************)
(* What people do with a customer report through the API: ask for a draft, *)
(* submit it for review or send it back, have a failed rendering repeated, *)
(* publish it, and invalidate a ranking proof it may rest on.  A command   *)
(* about a report names the row version, the digest and the artifact that  *)
(* the person saw, possibly long ago.  A command that is sent again with   *)
(* its request id is answered from the lifecycle events and writes         *)
(* nothing, as one with an old row version does.                           *)
(***************************************************************************)
EXTENDS ReportLedger

CONSTANTS
    Person,
    Budget \* bound on runs, artifacts, and crashes and failing calls: what may happen together

ASSUME DeskConstants == Budget \subseteq Nat \X Nat \X Nat

VARIABLES
    views, \* what each person has on the screen
    jobs,  \* BullMQ, and each row's recoveryCount
    faults

deskVars == <<ledgerVars, views, jobs, faults>>

View == [report : Id(Report), version : Nat, digest : Digest, artifact : Id(Artifact)]
NoView == [report |-> 0, version |-> 0, digest |-> None, artifact |-> 0]

\* Runs and artifacts are the work of the report queue; a job has its row's id.  A job
\* that is handed out again by a retry or by the recovery says so.
Work == {"run"} \X Run \cup {"artifact"} \X Artifact
Job == [state : {"missing", "waiting", "active", "completed", "failed"},
        holder : Attempt \cup {None}, again : BOOLEAN, recovered : Nat]
NoJob == [state |-> "missing", holder |-> None, again |-> FALSE, recovered |-> 0]

DeskTypeOK ==
    /\ LedgerTypeOK
    /\ views \in [Person -> View]
    /\ jobs \in [Work -> Job]
    /\ faults \in Nat

DeskInit ==
    /\ LedgerInit
    /\ views = [c \in Person |-> NoView]
    /\ jobs = [w \in Work |-> NoJob]
    /\ faults = 0

\* The bound, after a step that inserts rows or goes wrong
Pays(newRuns, newArtifacts, newFaults) ==
    /\ faults' = faults + newFaults
    /\ \E most \in Budget :
        /\ Cardinality({r \in Run : runs[r].status # "absent"}) + newRuns <= most[1]
        /\ Cardinality({a \in Artifact : artifacts[a].status # "absent"}) + newArtifacts <= most[2]
        /\ faults' <= most[3]
Fails == Pays(0, 0, 1)

Enqueued(w) == [jobs EXCEPT ![w].state = "waiting"]

\* The person looks at the current candidate.
Look(c, a) ==
    /\ issue.candidate # 0
    /\ a # 0 => artifacts[a].report = issue.candidate /\ artifacts[a].status = "staged"
    /\ LET seen == [report |-> issue.candidate, version |-> reports[issue.candidate].version,
                    digest |-> reports[issue.candidate].digest, artifact |-> a]
       IN  views[c] # seen /\ views' = [views EXCEPT ![c] = seen]
    /\ UNCHANGED <<ledgerVars, jobs, faults>>

\* admitGeneration and the controller's enqueue, which may fail with or without the job
\* in the queue (markGenerationEnqueueFailed), or not be reached.
AdmitGeneration(r, bounded) ==
    LET candidate == IF issue.candidate = 0 THEN NoReport ELSE reports[issue.candidate]
        admitted(status) == [runs EXCEPT ![r] = [NoRun EXCEPT
            !.status = status, !.bounded_ai = bounded,
            !.base = [issue |-> issue.version, candidate |-> issue.candidate,
                      version |-> candidate.version, digest |-> candidate.digest,
                      predecessor |-> issue.published]]]
    IN
    /\ Fresh(r, runs)
    /\ \A other \in Run : runs[other].status \notin ActiveRun
    /\ candidate.status # "ready_for_review"
    /\ \/ Pays(1, 0, 0) /\ runs' = admitted("queued") /\ jobs' = Enqueued(<<"run", r>>)
       \/ Pays(1, 0, 1) /\ runs' = admitted("queued") /\ UNCHANGED jobs
       \/ Pays(1, 0, 1) /\ runs' = admitted("failed") /\ jobs' \in {jobs, Enqueued(<<"run", r>>)}
    /\ UNCHANGED <<issue, reports, agents, artifacts, proofs, alerts, views>>

\* A command about a report must be about what it is now.
Current(view) ==
    /\ view.report # 0
    /\ issue.candidate = view.report
    /\ reports[view.report].version = view.version
    /\ reports[view.report].digest = view.digest

BumpIssue == issue' = [issue EXCEPT !.version = @ + 1]

\* A pending artifact, bound to the reviewed digest, and the controller's enqueue.
OrderRendering(a, v, rows) ==
    /\ Fresh(a, artifacts)
    /\ artifacts' = [rows EXCEPT ![a] = [NoArtifact EXCEPT
            !.status = "pending", !.report = v, !.digest = reports[v].digest]]
    /\ \/ Pays(0, 1, 0) /\ jobs' = Enqueued(<<"artifact", a>>)
       \/ Pays(0, 1, 1) /\ UNCHANGED jobs

SubmitForReview(c, a) ==
    LET v == views[c].report IN
    /\ Current(views[c])
    /\ reports[v].status = "draft"
    /\ StillHolds(reports[v].digest)
    /\ reports' = [reports EXCEPT ![v].status = "ready_for_review",
            ![v].reviewed = reports[v].digest, ![v].version = @ + 1]
    /\ BumpIssue
    /\ OrderRendering(a, v, artifacts)
    /\ UNCHANGED <<runs, agents, proofs, alerts, views>>

RequestChangesBug(c) ==
    LET v == views[c].report IN
    /\ Current(views[c])
    /\ reports[v].status = "ready_for_review"
    /\ reports' = [reports EXCEPT ![v].status = "draft", ![v].reviewed = None,
            ![v].version = @ + 1]
    /\ BumpIssue
    /\ UNCHANGED <<artifacts, runs, agents, proofs, alerts, views, jobs, faults>>

RequestChanges(c) ==
    LET v == views[c].report IN
    /\ Current(views[c])
    /\ reports[v].status = "ready_for_review"
    /\ reports' = [reports EXCEPT ![v].status = "draft", ![v].reviewed = None,
            ![v].version = @ + 1]
    /\ artifacts' = Expired(artifacts, v, {})
    /\ BumpIssue
    /\ UNCHANGED <<runs, agents, proofs, alerts, views, jobs, faults>>

RetryArtifact(c, a) ==
    LET v == views[c].report IN
    /\ Current(views[c])
    /\ reports[v].status = "ready_for_review"
    /\ LatestArtifact(v) # 0 /\ artifacts[LatestArtifact(v)].status = "failed"
    /\ OrderRendering(a, v, artifacts)
    /\ UNCHANGED <<issue, reports, runs, agents, proofs, alerts, views>>

\* publish: what the person saw is what the request read and verified before its
\* transaction, since the transaction compares both with the rows it has locked.
Publish(c) ==
    LET v == views[c].report
        a == views[c].artifact
        predecessor == reports[v].supersedes
    IN
    /\ Current(views[c])
    /\ reports[v].status = "ready_for_review"
    /\ a # 0 /\ artifacts[a].status = "staged" /\ artifacts[a].digest = reports[v].digest
    /\ StillHolds(reports[v].digest)
    /\ issue.published = predecessor
    /\ artifacts' = Expired(artifacts, v, {a})
    /\ reports' = [u \in Report |->
            IF u = v THEN [reports[v] EXCEPT !.status = "published", !.artifact = a,
                                             !.version = @ + 1]
            ELSE IF u = predecessor
                 THEN [reports[u] EXCEPT !.status = "superseded", !.version = @ + 1]
                 ELSE reports[u]]
    /\ issue' = [version |-> issue.version + 1, candidate |-> 0, published |-> v]
    /\ alerts' = {alert \in alerts : alert[1] # predecessor}
    /\ UNCHANGED <<runs, agents, proofs, views, jobs, faults>>

\* updateRankingProofStatus to invalidated: published reports that state it get an alert.
InvalidateProof(p) ==
    /\ proofs[p] = "reviewed"
    /\ proofs' = [proofs EXCEPT ![p] = "invalidated"]
    /\ alerts' = alerts \cup
            {<<v, p>> : v \in {u \in Report : /\ reports[u].status = "published"
                                              /\ p \in reports[u].digest.packet}}
    /\ UNCHANGED <<issue, reports, runs, agents, artifacts, views, jobs, faults>>

DeskNext ==
    \/ \E c \in Person, a \in Id(Artifact) : Look(c, a)
    \/ \E r \in Run, bounded \in BOOLEAN : AdmitGeneration(r, bounded)
    \/ \E c \in Person, a \in Artifact : SubmitForReview(c, a) \/ RetryArtifact(c, a)
    \/ \E c \in Person : RequestChanges(c) \/ Publish(c)
    \/ \E p \in Proof : InvalidateProof(p)
================================================================================
