---------------------------- MODULE CustomerReports ----------------------------
(***************************************************************************)
(* A monthly customer report: what people decide (ReportDesk) and what the *)
(* worker processes do (ReportWork), over the rows of ReportLedger.        *)
(***************************************************************************)
EXTENDS ReportWork

vars == workVars

Init == WorkInit

Next ==
    \/ DeskNext /\ UNCHANGED attempts
    \/ WorkNext

\* Workers poll, the queue hands out what stalled, the scan runs on a timer; people and
\* mishaps are not scheduled.  Each step of the work brings it nearer to its end, so that
\* it is enough that some step is taken while one can be.
Fairness == WF_vars(Progress)

Spec == Init /\ [][Next]_vars /\ Fairness

TypeOK == WorkTypeOK

----------------------------------------------------------------------------
\* The issue's two pointers are the whole truth about what is open and what customers
\* see: no report is open or published beside them, and an open report corrects exactly
\* the published one (currentCandidateReportId, currentPublishedReportId and
\* supersedesReportId, written by three different transactions).
PointersAreTruth ==
    /\ \A v \in Report : reports[v].status \in Open <=> v = issue.candidate
    /\ \A v \in Report : reports[v].status = "published" <=> v = issue.published
    /\ issue.candidate # 0 => reports[issue.candidate].supersedes = issue.published

\* What a customer can read is byte for byte what a person reviewed: the published HTML
\* was rendered from the digest that was submitted for review (ADR 0021).
DeliveredAsReviewed == \A v \in Report :
    reports[v].status \in Delivered =>
        /\ artifacts[reports[v].artifact].status = "staged"
        /\ artifacts[reports[v].artifact].report = v
        /\ artifacts[reports[v].artifact].bytes = reports[v].digest
        /\ reports[v].reviewed = reports[v].digest

\* "Invalidation-first blocks publication; publication-first records a durable open
\* correction alert" (ADR 0021): a published report never states an invalidated proof
\* without an alert.
InvalidEvidenceAlerted == \A v \in Report :
    reports[v].status = "published" =>
        \A p \in reports[v].digest.packet \ Evidence : <<v, p>> \in alerts

\* A renderer that finishes late attaches nothing to a report that was reopened or
\* published with other bytes, and no two renderings of a report are usable at once.
RenderingsBelong == \A v \in Report :
    /\ \A a \in ArtifactsOf(v) : artifacts[a].status \in LiveArtifact =>
            \/ reports[v].status = "ready_for_review" /\ artifacts[a].digest = reports[v].digest
            \/ reports[v].artifact = a
    /\ Cardinality({a \in ArtifactsOf(v) : artifacts[a].status \in LiveArtifact}) <= 1

\* Prose in a report is the recorded output of its run's succeeded agent run, also when
\* two attempts of the run were writing it (the audit of reports_narrative_provenance).
ProseIsAttributed == \A v \in Report :
    reports[v].status # "absent" /\ reports[v].digest.prose # None =>
        agents[reports[v].digest.run] =
            [status |-> "succeeded", output |-> reports[v].digest.prose]

\* What a report says changes only while it is a draft; once published it stays what it
\* is until a correction of it is published, and that is its end.
SayingIsFrozen == [][\A v \in Report :
    /\ reports[v].status # "draft" /\ reports[v].status # "absent" =>
            reports'[v].digest = reports[v].digest
    /\ reports[v].status \in Delivered =>
            /\ reports'[v].status \in Delivered
            /\ reports'[v].artifact = reports[v].artifact
    /\ reports[v].status = "published" /\ reports'[v].status # "published" =>
            reports'[issue'.published].supersedes = v]_vars

\* Work that was admitted ends, whatever happens to the processes that do it: a run is
\* not active for ever (it would keep every later generation out), nor an artifact.
WorkEnds == []<>(\A w \in Work : ~Unfinished(w))
================================================================================
