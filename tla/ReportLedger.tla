------------------------------ MODULE ReportLedger ------------------------------
(***************************************************************************)
(* The rows of one monthly customer report: the report_issues row that is  *)
(* the month's slot, its report versions, its generation runs, the agent   *)
(* run that writes a run's prose, the HTML artifacts, the ranking proofs    *)
(* the reports rest on and the alerts about proofs that were invalidated.  *)
(*                                                                         *)
(* Every transaction of the code locks the issue first, so a transaction   *)
(* is one step.  Proof rows are locked before the issue.                   *)
(***************************************************************************)
EXTENDS Naturals, FiniteSets

CONSTANTS
    MaxRuns, MaxArtifacts, \* bounds on the rows that are ever inserted
    Proof,       \* ranking proofs inside the month's window
    Attempt,     \* worker slots that process generation jobs
    None

ASSUME LedgerConstants ==
    /\ {MaxRuns, MaxArtifacts} \subseteq Nat
    /\ None \notin Attempt \cup Nat

VARIABLES
    issue,     \* rowVersion, currentCandidateReportId, currentPublishedReportId
    reports,
    runs,      \* report_generation_runs
    agents,    \* agent_runs of task report_narrative, under the id of their run
    artifacts, \* report_artifacts
    proofs,    \* ranking_proofs
    alerts     \* open report_evidence_alerts: a report and a proof

ledgerVars == <<issue, reports, runs, agents, artifacts, proofs, alerts>>

Run == 1..MaxRuns
Report == Run \* a report has the id of the run that first drafted it
Artifact == 1..MaxArtifacts
Id(S) == S \cup {0} \* 0 is null

\* A snapshot is told by the run that stamped it, the evidence it states and its prose,
\* which is the answer some attempt got.
Digest == [run : Run, packet : SUBSET Proof, prose : Attempt \cup {None}] \cup {None}

ActiveRun == {"queued", "assembling", "narrative_running"}
ActiveArtifact == {"pending", "running"}
LiveArtifact == ActiveArtifact \cup {"staged"}
Open == {"draft", "ready_for_review"}
Delivered == {"published", "superseded"}

ReportRow ==
    [status : {"absent"} \cup Open \cup Delivered, digest : Digest, reviewed : Digest,
     version : Nat, supersedes : Id(Report), artifact : Id(Artifact)]
RunRow ==
    [status : {"absent", "succeeded", "failed", "stale"} \cup ActiveRun,
     packet : (SUBSET Proof) \cup {None}, result : Id(Report), bounded_ai : BOOLEAN,
     base : [issue : Nat, candidate : Id(Report), version : Nat, digest : Digest,
             predecessor : Id(Report)]]
ArtifactRow ==
    [status : {"absent", "failed", "expired"} \cup LiveArtifact, report : Id(Report),
     digest : Digest, bytes : Digest]

LedgerTypeOK ==
    /\ issue \in [version : Nat, candidate : Id(Report), published : Id(Report)]
    /\ reports \in [Report -> ReportRow]
    /\ runs \in [Run -> RunRow]
    /\ agents \in [Run -> [status : {"absent", "running", "succeeded", "failed"},
                           output : Attempt \cup {None}]]
    /\ artifacts \in [Artifact -> ArtifactRow]
    /\ proofs \in [Proof -> {"reviewed", "invalidated"}]
    /\ alerts \subseteq Report \X Proof

NoReport == [status |-> "absent", digest |-> None, reviewed |-> None, version |-> 0,
             supersedes |-> 0, artifact |-> 0]
NoRun == [status |-> "absent", packet |-> None, result |-> 0, bounded_ai |-> FALSE,
          base |-> [issue |-> 0, candidate |-> 0, version |-> 0, digest |-> None,
                    predecessor |-> 0]]
NoArtifact == [status |-> "absent", report |-> 0, digest |-> None, bytes |-> None]

LedgerInit ==
    /\ issue = [version |-> 0, candidate |-> 0, published |-> 0]
    /\ reports = [v \in Report |-> NoReport]
    /\ runs = [r \in Run |-> NoRun]
    /\ agents = [r \in Run |-> [status |-> "absent", output |-> None]]
    /\ artifacts = [a \in Artifact |-> NoArtifact]
    /\ proofs = [p \in Proof |-> "reviewed"]
    /\ alerts = {}

\* Rows are inserted in the order of their ids.
Fresh(id, rows) ==
    /\ rows[id].status = "absent"
    /\ \A i \in DOMAIN rows : i < id => rows[i].status # "absent"

\* loadCustomerReportEvidencePacket: what may be stated now
Evidence == {p \in Proof : proofs[p] = "reviewed"}

StillHoldsBug(digest) == digest.packet \subseteq Proof

\* assertEvidenceSourcesBelongToProject: each stated fact still holds.
StillHolds(digest) == digest.packet \subseteq Evidence

StaleBug(r) ==
    issue.candidate # runs[r].base.candidate \/ issue.published # runs[r].base.predecessor

\* generationStaleReason
Stale(r) ==
    LET base == runs[r].base IN
    \/ issue.version # base.issue
    \/ issue.candidate # base.candidate
    \/ issue.published # base.predecessor
    \/ /\ base.candidate # 0
       /\ \/ reports[base.candidate].status # "draft"
          \/ reports[base.candidate].version # base.version
          \/ reports[base.candidate].digest # base.digest

\* The renderer's and the database trigger's condition on an artifact that is worked on
BoundToReview(a) ==
    LET report == reports[artifacts[a].report] IN
    /\ report.status = "ready_for_review"
    /\ report.reviewed = report.digest
    /\ artifacts[a].digest = report.digest

\* Artifacts of a report, and the one that loadLatestMatchingArtifact finds (0: none)
ArtifactsOf(v) == {a \in Artifact : artifacts[a].report = v}
LatestArtifact(v) ==
    LET matching == {a \in ArtifactsOf(v) : artifacts[a].digest = reports[v].digest} IN
    IF matching = {} THEN 0 ELSE CHOOSE a \in matching : \A b \in matching : b <= a

ExpiredBug(rows, v, kept) == [a \in Artifact |->
    IF rows[a].report = v /\ rows[a].status \in LiveArtifact
        THEN [rows[a] EXCEPT !.status = "expired"] ELSE rows[a]]

\* Artifacts that may still be used expire, all of a report's but those kept.
Expired(rows, v, kept) == [a \in Artifact |->
    IF rows[a].report = v /\ a \notin kept /\ rows[a].status \in LiveArtifact
        THEN [rows[a] EXCEPT !.status = "expired"] ELSE rows[a]]
================================================================================
