------------------------- MODULE CustomerReportsProofs -------------------------
(***************************************************************************)
(* Theorems about CustomerReports, for every number of runs, artifacts,    *)
(* proofs, people, attempts and faults.                                    *)
(*                                                                         *)
(* The rows of the month (IssueInv, ReportInv, ArtifactInv) are kept by    *)
(* every transaction, whoever runs it; what a person or an attempt holds   *)
(* from an earlier look is tied to them by facts that no later transaction *)
(* takes back (ViewInv, AttemptInv, Lasts).                                *)
(***************************************************************************)
EXTENDS CustomerReports, FiniteSetTheorems, TLAPS

----------------------------------------------------------------------------
(* The inductive invariant *)

Stamped == [run : Run, packet : SUBSET Proof, prose : Attempt \cup {None}]

\* A report that exists says something, is only shown to customers with an artifact, and
\* is under review as it is.
ReportInv == \A v \in Report :
    /\ reports[v].status # "absent" => reports[v].digest \in Stamped
    /\ reports[v].status \in Delivered <=> reports[v].artifact # 0
    /\ reports[v].status = "ready_for_review" => reports[v].reviewed = reports[v].digest

\* A report has the id of the run that first drafted it, so it exists only once that run
\* succeeded; and what is not a succeeded agent run has no output.
RunInv == \A r \in Run :
    /\ runs[r].status # "succeeded" => reports[r].status = "absent"
    /\ agents[r].status # "succeeded" => agents[r].output = None

\* An artifact that can still be used is of the report as it is, or the one it was
\* published with; it is the last one of its report, since none is ordered beside it.
InUse(a) ==
    LET v == artifacts[a].report IN
    \/ reports[v].status = "ready_for_review" /\ artifacts[a].digest = reports[v].digest
    \/ reports[v].artifact = a

ArtifactInv == \A a \in Artifact :
    /\ artifacts[a].status = "absent" => artifacts[a].report = 0
    /\ artifacts[a].status # "absent" =>
        /\ artifacts[a].report \in Report
        /\ \A b \in Artifact : b < a => artifacts[b].status # "absent"
    /\ artifacts[a].status = "staged" => artifacts[a].bytes = artifacts[a].digest
    /\ artifacts[a].status \in LiveArtifact =>
        InUse(a) /\ \A b \in ArtifactsOf(artifacts[a].report) : b <= a

IssueInv == PointersAreTruth /\ DeliveredAsReviewed /\ InvalidEvidenceAlerted

\* The artifact on a person's screen is one of the report on it.
ViewInv == \A c \in Person :
    views[c].artifact # 0 =>
        /\ artifacts[views[c].artifact].status # "absent"
        /\ artifacts[views[c].artifact].report = views[c].report

\* What an attempt holds: its job; no prose but that of its run's succeeded agent run; and
\* the digest of the artifact it renders.
Generating == {"load", "store", "narrate", "reason", "persist"}
Sane(st, agentRows, artifactRows) ==
    /\ st.pc # "idle" => st.work \in Work
    /\ st.pc \in Generating => st.work[1] = "run"
    /\ st.pc \in Generating \ {"persist"} => st.prose = None
    /\ st.pc = "persist" /\ st.prose # None =>
        agentRows[st.work[2]] = [status |-> "succeeded", output |-> st.prose]
    /\ st.pc = "render" =>
        /\ st.work[1] = "artifact"
        /\ artifactRows[st.work[2]].status # "absent"
        /\ artifactRows[st.work[2]].digest = st.digest
AttemptInv == \A t \in Attempt : Sane(attempts[t], agents, artifacts)

IInv ==
    /\ WorkTypeOK
    /\ IssueInv /\ ReportInv /\ RunInv /\ ArtifactInv /\ ProseIsAttributed
    /\ ViewInv /\ AttemptInv

ReportsTyped == reports \in [Report -> ReportRow]
ArtifactsTyped == artifacts \in [Artifact -> ArtifactRow]

----------------------------------------------------------------------------
(* Reports *)

LEMMA Ids == 0 \notin Report /\ 0 \notin Artifact /\ Report \subseteq Nat /\ Artifact \subseteq Nat
BY LedgerConstants DEF Report, Run, Artifact

\* Artifacts of other reports that are staged stay as they are.
StagedStay(v) == \A a \in Artifact :
    artifacts[a].status = "staged" /\ artifacts[a].report # v => artifacts'[a] = artifacts[a]

\* What the step of SayingIsFrozen says
Frozen == \A v \in Report :
    /\ reports[v].status # "draft" /\ reports[v].status # "absent" =>
            reports'[v].digest = reports[v].digest
    /\ reports[v].status \in Delivered =>
            /\ reports'[v].status \in Delivered
            /\ reports'[v].artifact = reports[v].artifact
    /\ reports[v].status = "published" /\ reports'[v].status # "published" =>
            reports'[issue'.published].supersedes = v

\* The open report of the month is written, or one is opened.
Rewrites(v, new) ==
    /\ issue.candidate = v \/ (issue.candidate = 0 /\ reports[v].status = "absent")
    /\ new.status \in Open /\ new.digest \in Stamped
    /\ new.status = "ready_for_review" => new.reviewed = new.digest
    /\ new.supersedes = issue.published /\ new.artifact = 0
    /\ reports[v].status = "ready_for_review" => new.digest = reports[v].digest
    /\ reports' = [reports EXCEPT ![v] = new]
    /\ issue'.candidate = v /\ issue'.published = issue.published
    /\ UNCHANGED <<proofs, alerts>>

LEMMA RewriteKeeps ==
    ASSUME ReportsTyped, IssueInv, ReportInv, NEW v \in Report, NEW new \in ReportRow,
           Rewrites(v, new), StagedStay(v)
    PROVE  ReportsTyped' /\ IssueInv' /\ ReportInv' /\ Frozen
<1>. USE DEF ReportsTyped
<1>1. reports'[v] = new /\ \A u \in Report \ {v} : reports'[u] = reports[u]
    BY DEF Rewrites
<1>2. ReportsTyped'  BY DEF Rewrites
<1>3. Open \cap Delivered = {} /\ "absent" \notin Open \cup Delivered /\ "published" \in Delivered
    BY DEF Open, Delivered
<1>4. reports[v].status \in Open \cup {"absent"}
    BY DEF Rewrites, IssueInv, PointersAreTruth
<1>5. PointersAreTruth'
    <2>1. \A u \in Report : reports'[u].status \in Open <=> u = issue'.candidate
        BY <1>1, <1>3, Ids DEF Rewrites, IssueInv, PointersAreTruth
    <2>2. \A u \in Report : reports'[u].status = "published" <=> u = issue'.published
        BY <1>1, <1>3, <1>4 DEF Rewrites, IssueInv, PointersAreTruth, Open
    <2>3. reports'[issue'.candidate].supersedes = issue'.published
        BY <1>1 DEF Rewrites
    <2>. QED  BY <2>1, <2>2, <2>3 DEF PointersAreTruth
<1>6. ReportInv'
    BY <1>1, <1>3 DEF Rewrites, ReportInv
<1>7. DeliveredAsReviewed'
    <2>. SUFFICES ASSUME NEW u \in Report, reports'[u].status \in Delivered
                  PROVE  /\ artifacts'[reports'[u].artifact].status = "staged"
                         /\ artifacts'[reports'[u].artifact].report = u
                         /\ artifacts'[reports'[u].artifact].bytes = reports'[u].digest
                         /\ reports'[u].reviewed = reports'[u].digest
        BY DEF DeliveredAsReviewed
    <2>1. u # v /\ reports'[u] = reports[u]  BY <1>1, <1>3 DEF Rewrites
    <2>2. reports[u].artifact \in Artifact
        BY <2>1 DEF ReportInv, ReportRow, Id
    <2>3. artifacts'[reports[u].artifact] = artifacts[reports[u].artifact]
        BY <2>1, <2>2 DEF StagedStay, IssueInv, DeliveredAsReviewed
    <2>. QED  BY <2>1, <2>3 DEF IssueInv, DeliveredAsReviewed
<1>8. InvalidEvidenceAlerted'
    BY <1>1, <1>3 DEF Rewrites, IssueInv, InvalidEvidenceAlerted, Evidence
<1>9. Frozen
    BY <1>1, <1>3, <1>4 DEF Rewrites, Frozen, Open
<1>. QED  BY <1>2, <1>5, <1>6, <1>7, <1>8, <1>9 DEF IssueInv

\* The reports stay as they are, and alerts are only added for what is invalidated.
LEMMA ReportsStay ==
    ASSUME ReportsTyped, IssueInv, ReportInv, UNCHANGED <<issue, reports>>, StagedStay(0),
           InvalidEvidenceAlerted'
    PROVE  ReportsTyped' /\ IssueInv' /\ ReportInv' /\ Frozen
<1>. USE DEF ReportsTyped
<1>1. DeliveredAsReviewed'
    <2>. SUFFICES ASSUME NEW u \in Report, reports[u].status \in Delivered
                  PROVE  artifacts'[reports[u].artifact] = artifacts[reports[u].artifact]
        BY DEF IssueInv, DeliveredAsReviewed
    <2>1. reports[u].artifact \in Artifact  BY DEF ReportInv, ReportRow, Id
    <2>2. artifacts[reports[u].artifact].status = "staged" /\ artifacts[reports[u].artifact].report = u
        BY DEF IssueInv, DeliveredAsReviewed
    <2>3. u # 0  BY Ids
    <2>. QED  BY <2>1, <2>2, <2>3 DEF StagedStay
<1>. QED  BY <1>1 DEF IssueInv, PointersAreTruth, ReportInv, Frozen

\* What a command of a person is about
LEMMA Candidate ==
    ASSUME NEW c \in Person, IssueInv, ReportInv, ReportsTyped, views \in [Person -> View],
           Current(views[c])
    PROVE  LET v == views[c].report IN
           /\ v \in Report /\ v = issue.candidate /\ reports[v] \in ReportRow
           /\ reports[v].status \in Open /\ reports[v].digest \in Stamped
           /\ reports[v].supersedes = issue.published /\ reports[v].artifact = 0
<1>1. views[c].report \in Report  BY DEF Current, View, Id
<1>. QED  BY <1>1, Ids DEF Current, IssueInv, PointersAreTruth, ReportInv, ReportsTyped, Open, Delivered

----------------------------------------------------------------------------
(* Artifacts *)

\* Artifacts that exist stay, and are of the same report and digest.
Lasts == \A a \in Artifact : artifacts[a].status # "absent" =>
    /\ artifacts'[a].status # "absent"
    /\ artifacts'[a].report = artifacts[a].report /\ artifacts'[a].digest = artifacts[a].digest

LEMMA NoneLive ==
    ASSUME ReportInv, ArtifactInv, NEW v \in Report, reports[v].status \in {"absent", "draft"}
    PROVE  \A a \in ArtifactsOf(v) : artifacts[a].status \notin LiveArtifact
BY Ids DEF ReportInv, ArtifactInv, ArtifactsOf, InUse, Delivered

\* One more artifact of a report that has none in use
Orders(a, v, row) ==
    /\ Fresh(a, artifacts)
    /\ row.status = "pending" /\ row.report = v /\ row.digest = reports[v].digest
    /\ artifacts' = [artifacts EXCEPT ![a] = row]
    /\ \A b \in ArtifactsOf(v) : artifacts[b].status \notin LiveArtifact
    /\ reports'[v].status = "ready_for_review" /\ reports'[v].digest = reports[v].digest
    /\ \A u \in Report \ {v} : reports'[u] = reports[u]

LEMMA OrderKeeps ==
    ASSUME ArtifactsTyped, ArtifactInv, NEW v \in Report, NEW a \in Artifact,
           NEW row \in ArtifactRow, Orders(a, v, row)
    PROVE  ArtifactsTyped' /\ ArtifactInv' /\ Lasts /\ StagedStay(v)
<1>. USE DEF ArtifactsTyped
<1>1. artifacts'[a] = row /\ \A b \in Artifact \ {a} : artifacts'[b] = artifacts[b]
    BY DEF Orders
<1>2. artifacts[a].status = "absent" /\ \A b \in Artifact : b < a => artifacts[b].status # "absent"
    BY DEF Orders, Fresh
<1>3. Lasts /\ StagedStay(v)  BY <1>1, <1>2 DEF Lasts, StagedStay
<1>4. \A b \in Artifact : b > a => artifacts[b].status = "absent"
    BY <1>2, Ids DEF ArtifactInv
<1>5. \A b \in Artifact : artifacts[b].status # "absent" => b <= a
    BY <1>4, Ids
<1>6. \A b \in Artifact : artifacts'[b].report = v => b <= a
    BY <1>1, <1>5, Ids DEF ArtifactInv
<1>7. ASSUME NEW b \in Artifact, b # a, artifacts[b].status \in LiveArtifact
      PROVE  InUse(b)' /\ \A d \in ArtifactsOf(artifacts[b].report)' : d <= b
    <2>1. /\ artifacts[b].status # "absent" /\ InUse(b)
          /\ \A d \in ArtifactsOf(artifacts[b].report) : d <= b
        BY <1>7 DEF ArtifactInv, LiveArtifact, ActiveArtifact
    <2>2. artifacts[b].report \in Report /\ artifacts[b].report # v
        BY <1>7, <2>1 DEF ArtifactInv, Orders, ArtifactsOf
    <2>3. reports'[artifacts[b].report] = reports[artifacts[b].report]
        BY <2>2 DEF Orders
    <2>4. InUse(b)'  BY <1>1, <1>7, <2>1, <2>3 DEF InUse
    <2>5. ArtifactsOf(artifacts[b].report)' \subseteq ArtifactsOf(artifacts[b].report)
        BY <1>1, <1>7, <2>2 DEF ArtifactsOf, Orders
    <2>. QED  BY <2>1, <2>4, <2>5
<1>8. ASSUME NEW b \in Artifact, artifacts'[b].status \in LiveArtifact
      PROVE  InUse(b)' /\ \A d \in ArtifactsOf(artifacts[b].report)' : d <= b
    <2>1. CASE b = a
        BY <1>1, <1>6, <2>1 DEF Orders, InUse, ArtifactsOf
    <2>2. CASE b # a  BY <1>1, <1>7, <1>8, <2>2
    <2>. QED  BY <2>1, <2>2
<1>9. ArtifactInv'
    BY <1>1, <1>2, <1>8, Ids DEF Orders, ArtifactInv
<1>. QED  BY <1>3, <1>9 DEF Orders

LEMMA ExpiredRows ==
    ASSUME ArtifactsTyped, NEW v, NEW kept, artifacts' = Expired(artifacts, v, kept)
    PROVE  /\ ArtifactsTyped'
           /\ \A a \in Artifact :
                /\ artifacts'[a].report = artifacts[a].report
                /\ artifacts'[a].digest = artifacts[a].digest
                /\ artifacts'[a].bytes = artifacts[a].bytes
                /\ artifacts'[a].status \in {artifacts[a].status, "expired"}
                /\ artifacts'[a].status = "absent" => artifacts[a].status = "absent"
                /\ artifacts[a].status = "absent" => artifacts'[a].status = "absent"
                /\ a \in kept \/ artifacts[a].report # v => artifacts'[a] = artifacts[a]
                /\ artifacts[a].report = v /\ a \notin kept => artifacts'[a].status \notin LiveArtifact
<1>1. ASSUME NEW a \in Artifact
      PROVE  LET new == [artifacts[a] EXCEPT !.status = "expired"] IN
             /\ new \in ArtifactRow /\ new.status = "expired" /\ new.report = artifacts[a].report
             /\ new.digest = artifacts[a].digest /\ new.bytes = artifacts[a].bytes
    BY DEF ArtifactsTyped, ArtifactRow
<1>2. ASSUME NEW a \in Artifact
      PROVE  artifacts'[a] = IF artifacts[a].report = v /\ a \notin kept /\ artifacts[a].status \in LiveArtifact
                             THEN [artifacts[a] EXCEPT !.status = "expired"] ELSE artifacts[a]
    BY DEF Expired
<1>3. ArtifactsTyped'  BY <1>1 DEF Expired, ArtifactsTyped
<1>4. "expired" \notin LiveArtifact /\ "absent" \notin LiveArtifact
    BY DEF LiveArtifact, ActiveArtifact
<1>. QED  BY <1>1, <1>2, <1>3, <1>4

\* Nothing of a report can be used any more but what is kept, with which it is published.
LEMMA ExpireKeeps ==
    ASSUME ArtifactsTyped, ArtifactInv, NEW v \in Report, NEW kept \in SUBSET Artifact,
           artifacts' = Expired(artifacts, v, kept),
           \A a \in kept : reports'[v].artifact = a,
           \A u \in Report \ {v} :
                /\ reports'[u].artifact = reports[u].artifact
                /\ reports[u].status = "ready_for_review" => reports'[u] = reports[u]
    PROVE  /\ ArtifactsTyped' /\ ArtifactInv' /\ Lasts /\ StagedStay(v)
           /\ \A a \in kept : artifacts'[a] = artifacts[a]
<1>1. ArtifactsTyped' /\ Lasts /\ StagedStay(v)
    BY ExpiredRows DEF Lasts, StagedStay
<1>2. ASSUME NEW b \in Artifact, artifacts'[b].status \in LiveArtifact
      PROVE  InUse(b)' /\ \A d \in ArtifactsOf(artifacts[b].report)' : d <= b
    <2>1. artifacts'[b] = artifacts[b]  BY <1>2, ExpiredRows
    <2>2. /\ artifacts[b].report \in Report /\ InUse(b)
          /\ \A d \in ArtifactsOf(artifacts[b].report) : d <= b
        BY <1>2, <2>1 DEF ArtifactInv, LiveArtifact, ActiveArtifact
    <2>3. ArtifactsOf(artifacts[b].report)' = ArtifactsOf(artifacts[b].report)
        BY ExpiredRows, <2>1 DEF ArtifactsOf
    <2>4. CASE artifacts[b].report = v
        <3>1. b \in kept  BY <1>2, <2>4, ExpiredRows
        <3>. QED  BY <2>1, <2>2, <2>3, <2>4, <3>1 DEF InUse
    <2>5. CASE artifacts[b].report # v
        <3>1. InUse(b)'  BY <2>1, <2>2, <2>5 DEF InUse
        <3>. QED  BY <2>2, <2>3, <3>1
    <2>. QED  BY <2>4, <2>5
<1>3. \A b \in Artifact :
        /\ artifacts'[b].status = "staged" => artifacts[b].status = "staged"
        /\ (artifacts'[b].status = "absent") = (artifacts[b].status = "absent")
        /\ artifacts'[b].report = artifacts[b].report /\ artifacts'[b].digest = artifacts[b].digest
        /\ artifacts'[b].bytes = artifacts[b].bytes
    BY ExpiredRows
<1>4. ASSUME NEW b \in Artifact
      PROVE  /\ artifacts'[b].status = "absent" => artifacts'[b].report = 0
             /\ artifacts'[b].status # "absent" =>
                /\ artifacts'[b].report \in Report
                /\ \A d \in Artifact : d < b => artifacts'[d].status # "absent"
             /\ artifacts'[b].status = "staged" => artifacts'[b].bytes = artifacts'[b].digest
    BY <1>3 DEF ArtifactInv
<1>5. ArtifactInv'  BY <1>2, <1>4 DEF ArtifactInv
<1>6. \A a \in kept : artifacts'[a] = artifacts[a]  BY ExpiredRows
<1>. QED  BY <1>1, <1>5, <1>6

\* Somebody works on an artifact.
Moves(a) ==
    /\ artifacts[a].status \in ActiveArtifact
    /\ \E row \in ArtifactRow :
        /\ artifacts' = [artifacts EXCEPT ![a] = row]
        /\ row.status # "absent"
        /\ row.report = artifacts[a].report /\ row.digest = artifacts[a].digest
        /\ row.status = "staged" => row.bytes = row.digest

LEMMA MoveKeeps ==
    ASSUME ArtifactsTyped, ArtifactInv, NEW a \in Artifact, Moves(a), UNCHANGED reports
    PROVE  ArtifactsTyped' /\ ArtifactInv' /\ Lasts /\ StagedStay(0)
<1>. USE DEF ArtifactsTyped
<1>1. PICK row \in ArtifactRow :
        /\ artifacts' = [artifacts EXCEPT ![a] = row]
        /\ row.status # "absent"
        /\ row.report = artifacts[a].report /\ row.digest = artifacts[a].digest
        /\ row.status = "staged" => row.bytes = row.digest
    BY DEF Moves
<1>2. artifacts'[a] = row /\ \A b \in Artifact \ {a} : artifacts'[b] = artifacts[b]
    BY <1>1
<1>3. artifacts[a].status \in ActiveArtifact /\ artifacts[a].status \in LiveArtifact
      /\ artifacts[a].status \notin {"staged", "absent"}
    BY DEF Moves, LiveArtifact, ActiveArtifact
<1>4. \A b \in Artifact :
        /\ artifacts'[b].report = artifacts[b].report /\ artifacts'[b].digest = artifacts[b].digest
        /\ artifacts'[b].status = "staged" => artifacts'[b].bytes = artifacts'[b].digest
        /\ (artifacts'[b].status = "absent") = (artifacts[b].status = "absent")
        /\ artifacts'[b].status \in LiveArtifact => artifacts[b].status \in LiveArtifact
    BY <1>1, <1>2, <1>3 DEF ArtifactInv
<1>5. ArtifactsTyped' /\ Lasts /\ StagedStay(0)
    BY <1>1, <1>2, <1>3, <1>4 DEF Lasts, StagedStay
<1>6. \A b \in Artifact : InUse(b)' = InUse(b)  BY <1>4 DEF InUse
<1>7. \A b \in Artifact : ArtifactsOf(artifacts[b].report)' = ArtifactsOf(artifacts[b].report)
    BY <1>4 DEF ArtifactsOf
<1>8. ArtifactInv'
    BY <1>4, <1>6, <1>7 DEF ArtifactInv
<1>. QED  BY <1>5, <1>8

\* The saying of a draft changes: it has no artifact that could be used.
LEMMA DraftKeeps ==
    ASSUME ReportInv, ArtifactInv, NEW v \in Report, reports[v].status \in {"absent", "draft"},
           UNCHANGED artifacts, \A u \in Report \ {v} : reports'[u] = reports[u]
    PROVE  ArtifactInv' /\ Lasts /\ StagedStay(v)
<1>1. Lasts /\ StagedStay(v)  BY DEF Lasts, StagedStay
<1>2. ASSUME NEW b \in Artifact, artifacts[b].status \in LiveArtifact PROVE InUse(b)'
    <2>1. artifacts[b].report \in Report /\ InUse(b)
        BY <1>2 DEF ArtifactInv, LiveArtifact, ActiveArtifact
    <2>2. artifacts[b].report # v  BY <1>2, NoneLive DEF ArtifactsOf
    <2>. QED  BY <2>1, <2>2 DEF InUse
<1>3. \A u : ArtifactsOf(u)' = ArtifactsOf(u)  BY DEF ArtifactsOf
<1>. QED  BY <1>1, <1>2, <1>3 DEF ArtifactInv

----------------------------------------------------------------------------
(* The transactions *)

CaseTyped ==
    /\ issue \in [version : Nat, candidate : Id(Report), published : Id(Report)]
    /\ ReportsTyped /\ ArtifactsTyped
    /\ proofs \in [Proof -> {"reviewed", "invalidated"}]
    /\ alerts \subseteq Report \X Proof
CaseInv == CaseTyped /\ IssueInv /\ ReportInv /\ ArtifactInv

\* No report says anything else than it did.
SameSaying == \A u \in Report :
    /\ reports'[u].digest = reports[u].digest
    /\ reports[u].status = "absent" => reports'[u].status = "absent"

\* The rows that a submission, a request for changes and an order write
LEMMA Submitted ==
    ASSUME NEW row \in ReportRow
    PROVE  LET new == [row EXCEPT !.status = "ready_for_review", !.reviewed = row.digest,
                                  !.version = @ + 1]
           IN  /\ new \in ReportRow /\ new.status = "ready_for_review" /\ new.reviewed = new.digest
               /\ new.digest = row.digest /\ new.supersedes = row.supersedes
               /\ new.artifact = row.artifact
<1>1. row.version + 1 \in Nat /\ row.digest \in Digest  BY DEF ReportRow
<1>. QED  BY <1>1 DEF ReportRow, Open

LEMMA SentBack ==
    ASSUME NEW row \in ReportRow
    PROVE  LET new == [row EXCEPT !.status = "draft", !.reviewed = None, !.version = @ + 1]
           IN  /\ new \in ReportRow /\ new.status = "draft"
               /\ new.digest = row.digest /\ new.supersedes = row.supersedes
               /\ new.artifact = row.artifact
<1>1. row.version + 1 \in Nat /\ None \in Digest  BY DEF ReportRow, Digest
<1>. QED  BY <1>1 DEF ReportRow, Open

LEMMA NewArtifact ==
    ASSUME NEW v \in Report, NEW d \in Digest
    PROVE  LET row == [NoArtifact EXCEPT !.status = "pending", !.report = v, !.digest = d]
           IN  row \in ArtifactRow /\ row.status = "pending" /\ row.report = v /\ row.digest = d
<1>1. None \in Digest  BY DEF Digest
<1>2. NoArtifact \in [status : {"absent", "pending"}, report : Id(Report), digest : Digest, bytes : Digest]
    BY <1>1 DEF NoArtifact, Id
<1>3. v \in Id(Report)  BY DEF Id
<1>. QED  BY <1>2, <1>3 DEF ArtifactRow, LiveArtifact, ActiveArtifact

LEMMA Ordered ==
    ASSUME ArtifactsTyped, ReportsTyped, NEW a \in Artifact, NEW v \in Report,
           OrderRendering(a, v, artifacts)
    PROVE  \E row \in ArtifactRow :
                /\ Fresh(a, artifacts)
                /\ row.status = "pending" /\ row.report = v /\ row.digest = reports[v].digest
                /\ artifacts' = [artifacts EXCEPT ![a] = row]
<1>. DEFINE row == [NoArtifact EXCEPT !.status = "pending", !.report = v, !.digest = reports[v].digest]
<1>1. reports[v].digest \in Digest  BY DEF ReportsTyped, ReportRow
<1>2. row \in ArtifactRow /\ row.status = "pending" /\ row.report = v /\ row.digest = reports[v].digest
    BY <1>1, NewArtifact
<1>5. Fresh(a, artifacts) /\ artifacts' = [artifacts EXCEPT ![a] = row]  BY DEF OrderRendering
<1>. HIDE DEF row
<1>. QED  BY <1>2, <1>5

LEMMA IssueBumped ==
    ASSUME CaseTyped, BumpIssue
    PROVE  /\ issue' \in [version : Nat, candidate : Id(Report), published : Id(Report)]
           /\ issue'.candidate = issue.candidate /\ issue'.published = issue.published
BY DEF CaseTyped, BumpIssue

LEMMA SubmitKeeps ==
    ASSUME CaseInv, views \in [Person -> View], NEW c \in Person, NEW a \in Artifact,
           SubmitForReview(c, a)
    PROVE  CaseInv' /\ Lasts /\ Frozen /\ SameSaying
<1>. DEFINE v == views[c].report
            new == [reports[v] EXCEPT !.status = "ready_for_review", !.reviewed = reports[v].digest,
                                      !.version = @ + 1]
<1>1. /\ v \in Report /\ v = issue.candidate /\ reports[v] \in ReportRow
      /\ reports[v].status = "draft" /\ reports[v].digest \in Stamped
      /\ reports[v].supersedes = issue.published /\ reports[v].artifact = 0
    BY Candidate DEF CaseInv, CaseTyped, SubmitForReview
<1>2. /\ new \in ReportRow /\ new.status = "ready_for_review" /\ new.reviewed = new.digest
      /\ new.digest = reports[v].digest /\ new.supersedes = reports[v].supersedes
      /\ new.artifact = reports[v].artifact
    BY <1>1, Submitted
<1>3. reports' = [reports EXCEPT ![v] = new]
    BY DEF SubmitForReview
<1>. HIDE DEF new
<1>4. reports'[v] = new /\ \A u \in Report \ {v} : reports'[u] = reports[u]
    BY <1>1, <1>3 DEF CaseInv, CaseTyped, ReportsTyped
<1>5. PICK row \in ArtifactRow :
        /\ Fresh(a, artifacts)
        /\ row.status = "pending" /\ row.report = v /\ row.digest = reports[v].digest
        /\ artifacts' = [artifacts EXCEPT ![a] = row]
    BY <1>1, Ordered DEF SubmitForReview, CaseInv, CaseTyped
<1>6. Orders(a, v, row)
    BY <1>1, <1>2, <1>4, <1>5, NoneLive DEF CaseInv, Orders
<1>7. ArtifactsTyped' /\ ArtifactInv' /\ Lasts /\ StagedStay(v)
    BY <1>1, <1>6, OrderKeeps DEF CaseInv, CaseTyped
<1>8. BumpIssue /\ UNCHANGED <<proofs, alerts>>  BY DEF SubmitForReview
<1>9. Rewrites(v, new)
    BY <1>1, <1>2, <1>3, <1>8, IssueBumped DEF Rewrites, CaseInv, Open
<1>10. ReportsTyped' /\ IssueInv' /\ ReportInv' /\ Frozen
    BY <1>1, <1>2, <1>7, <1>9, RewriteKeeps DEF CaseInv, CaseTyped
<1>11. SameSaying  BY <1>1, <1>2, <1>4 DEF SameSaying
<1>. QED  BY <1>7, <1>8, <1>10, <1>11, IssueBumped DEF CaseInv, CaseTyped

LEMMA RetryKeeps ==
    ASSUME CaseInv, views \in [Person -> View], NEW c \in Person, NEW a \in Artifact,
           RetryArtifact(c, a)
    PROVE  CaseInv' /\ Lasts /\ Frozen /\ SameSaying
<1>. DEFINE v == views[c].report
            last == LatestArtifact(v)
            matching == {b \in ArtifactsOf(v) : artifacts[b].digest = reports[v].digest}
<1>1. /\ v \in Report /\ reports[v].status = "ready_for_review" /\ reports[v].artifact = 0
    BY Candidate DEF CaseInv, CaseTyped, RetryArtifact
<1>2. last # 0 /\ artifacts[last].status = "failed"  BY DEF RetryArtifact
<1>3. ASSUME NEW b \in ArtifactsOf(v), artifacts[b].status \in LiveArtifact PROVE FALSE
    <2>1. /\ b \in Artifact /\ artifacts[b].report = v /\ InUse(b)
          /\ \A d \in ArtifactsOf(v) : d <= b
        BY <1>3 DEF ArtifactsOf, CaseInv, ArtifactInv, LiveArtifact, ActiveArtifact
    <2>2. b \in matching  BY <1>1, <2>1, Ids DEF InUse
    <2>3. \A d \in matching : d <= b  BY <2>1
    <2>. HIDE DEF matching
    <2>4. last = CHOOSE d \in matching : \A e \in matching : e <= d
        BY <2>2 DEF LatestArtifact, matching
    <2>5. last \in matching /\ b <= last  BY <2>2, <2>3, <2>4
    <2>6. last \in Artifact  BY <2>5 DEF matching, ArtifactsOf
    <2>7. last <= b  BY <2>3, <2>5
    <2>. HIDE DEF last
    <2>8. last = b  BY <2>1, <2>5, <2>6, <2>7, Ids
    <2>. QED  BY <1>2, <1>3, <2>8 DEF LiveArtifact, ActiveArtifact
<1>4. PICK row \in ArtifactRow :
        /\ Fresh(a, artifacts)
        /\ row.status = "pending" /\ row.report = v /\ row.digest = reports[v].digest
        /\ artifacts' = [artifacts EXCEPT ![a] = row]
    BY <1>1, Ordered DEF RetryArtifact, CaseInv, CaseTyped
<1>5. UNCHANGED <<issue, reports, proofs, alerts>>  BY DEF RetryArtifact
<1>6. Orders(a, v, row)  BY <1>1, <1>3, <1>4, <1>5 DEF Orders
<1>7. ArtifactsTyped' /\ ArtifactInv' /\ Lasts /\ StagedStay(v)
    BY <1>1, <1>6, OrderKeeps DEF CaseInv, CaseTyped
<1>8. StagedStay(0)
    <2>1. artifacts[a].status = "absent" /\ \A b \in Artifact \ {a} : artifacts'[b] = artifacts[b]
        BY <1>4 DEF Fresh, CaseInv, CaseTyped, ArtifactsTyped
    <2>. QED  BY <2>1 DEF StagedStay
<1>9. InvalidEvidenceAlerted'
    BY <1>5 DEF CaseInv, IssueInv, InvalidEvidenceAlerted, Evidence
<1>10. ReportsTyped' /\ IssueInv' /\ ReportInv' /\ Frozen
    BY <1>5, <1>8, <1>9, ReportsStay DEF CaseInv, CaseTyped
<1>. QED  BY <1>5, <1>7, <1>10 DEF CaseInv, CaseTyped, SameSaying

LEMMA ChangesKeep ==
    ASSUME CaseInv, views \in [Person -> View], NEW c \in Person, RequestChanges(c)
    PROVE  CaseInv' /\ Lasts /\ Frozen /\ SameSaying
<1>. DEFINE v == views[c].report
            new == [reports[v] EXCEPT !.status = "draft", !.reviewed = None, !.version = @ + 1]
<1>1. /\ v \in Report /\ v = issue.candidate /\ reports[v] \in ReportRow
      /\ reports[v].status = "ready_for_review" /\ reports[v].digest \in Stamped
      /\ reports[v].supersedes = issue.published /\ reports[v].artifact = 0
    BY Candidate DEF CaseInv, CaseTyped, RequestChanges
<1>2. /\ new \in ReportRow /\ new.status = "draft"
      /\ new.digest = reports[v].digest /\ new.supersedes = reports[v].supersedes
      /\ new.artifact = reports[v].artifact
    BY <1>1, SentBack
<1>3. reports' = [reports EXCEPT ![v] = new] /\ artifacts' = Expired(artifacts, v, {})
    BY DEF RequestChanges
<1>. HIDE DEF new
<1>4. reports'[v] = new /\ \A u \in Report \ {v} : reports'[u] = reports[u]
    BY <1>1, <1>3 DEF CaseInv, CaseTyped, ReportsTyped
<1>7. ArtifactsTyped' /\ ArtifactInv' /\ Lasts /\ StagedStay(v)
    BY <1>1, <1>3, <1>4, ExpireKeeps DEF CaseInv, CaseTyped
<1>8. BumpIssue /\ UNCHANGED <<proofs, alerts>>  BY DEF RequestChanges
<1>9. Rewrites(v, new)
    BY <1>1, <1>2, <1>3, <1>8, IssueBumped DEF Rewrites, CaseInv, Open
<1>10. ReportsTyped' /\ IssueInv' /\ ReportInv' /\ Frozen
    BY <1>1, <1>2, <1>7, <1>9, RewriteKeeps DEF CaseInv, CaseTyped
<1>11. SameSaying  BY <1>1, <1>2, <1>4 DEF SameSaying
<1>. QED  BY <1>7, <1>8, <1>10, <1>11, IssueBumped DEF CaseInv, CaseTyped

LEMMA PublishedRow ==
    ASSUME NEW row \in ReportRow, NEW a \in Artifact
    PROVE  LET new == [row EXCEPT !.status = "published", !.artifact = a, !.version = @ + 1]
           IN  /\ new \in ReportRow /\ new.status = "published" /\ new.artifact = a
               /\ new.digest = row.digest /\ new.supersedes = row.supersedes
               /\ new.reviewed = row.reviewed
<1>1. row.version + 1 \in Nat /\ a \in Id(Artifact)  BY DEF ReportRow, Id
<1>. QED  BY <1>1 DEF ReportRow, Delivered

LEMMA SupersededRow ==
    ASSUME NEW row \in ReportRow
    PROVE  LET new == [row EXCEPT !.status = "superseded", !.version = @ + 1]
           IN  /\ new \in ReportRow /\ new.status = "superseded" /\ new.artifact = row.artifact
               /\ new.digest = row.digest /\ new.reviewed = row.reviewed
<1>1. row.version + 1 \in Nat  BY DEF ReportRow
<1>. QED  BY <1>1 DEF ReportRow, Delivered

LEMMA PublishKeeps ==
    ASSUME CaseInv, views \in [Person -> View], ViewInv, NEW c \in Person, Publish(c)
    PROVE  CaseInv' /\ Lasts /\ Frozen /\ SameSaying
<1>. DEFINE v == views[c].report
            a == views[c].artifact
            p == reports[v].supersedes
            pub == [reports[v] EXCEPT !.status = "published", !.artifact = a, !.version = @ + 1]
            sup(u) == [reports[u] EXCEPT !.status = "superseded", !.version = @ + 1]
<1>1. /\ v \in Report /\ v = issue.candidate /\ reports[v] \in ReportRow
      /\ reports[v].status = "ready_for_review" /\ reports[v].digest \in Stamped
      /\ p = issue.published /\ reports[v].reviewed = reports[v].digest
    BY Candidate DEF CaseInv, CaseTyped, ReportInv, Publish
<1>2. /\ a \in Artifact /\ artifacts[a].status = "staged" /\ artifacts[a].digest = reports[v].digest
      /\ artifacts[a].report = v /\ artifacts[a].bytes = reports[v].digest
    BY DEF Publish, View, Id, ViewInv, CaseInv, ArtifactInv
<1>3. /\ pub \in ReportRow /\ pub.status = "published" /\ pub.artifact = a
      /\ pub.digest = reports[v].digest /\ pub.supersedes = p /\ pub.reviewed = reports[v].reviewed
    BY <1>1, <1>2, PublishedRow
<1>4. \A u \in Report :
        /\ reports[u] \in ReportRow
        /\ sup(u) \in ReportRow /\ sup(u).status = "superseded" /\ sup(u).artifact = reports[u].artifact
        /\ sup(u).digest = reports[u].digest /\ sup(u).reviewed = reports[u].reviewed
    BY SupersededRow DEF CaseInv, CaseTyped, ReportsTyped
<1>5. reports' = [u \in Report |-> IF u = v THEN pub ELSE IF u = p THEN sup(u) ELSE reports[u]]
    BY DEF Publish
<1>6. /\ issue' = [version |-> issue.version + 1, candidate |-> 0, published |-> v]
      /\ alerts' \subseteq alerts /\ UNCHANGED proofs
      /\ artifacts' = Expired(artifacts, v, {a})
      /\ reports[v].digest.packet \subseteq Evidence
    BY DEF Publish, StillHolds
<1>. HIDE DEF v, a, p, pub, sup
<1>7. reports'[v] = pub /\ \A u \in Report \ {v} : reports'[u] = IF u = p THEN sup(u) ELSE reports[u]
    BY <1>1, <1>5
<1>8. \A u \in Report \ {v} :
        /\ reports'[u].artifact = reports[u].artifact /\ reports'[u].digest = reports[u].digest
        /\ reports'[u].reviewed = reports[u].reviewed
        /\ u = p => reports'[u].status = "superseded" /\ reports[u].status = "published"
        /\ u # p => reports'[u] = reports[u]
        /\ reports[u].status # "ready_for_review" /\ reports[u].status \notin Open
        /\ reports[u].status = "published" => u = p
    BY <1>1, <1>4, <1>7 DEF CaseInv, IssueInv, PointersAreTruth, Open
<1>9. ReportsTyped'  BY <1>3, <1>4, <1>5 DEF ReportsTyped
<1>10. /\ ArtifactsTyped' /\ ArtifactInv' /\ Lasts /\ StagedStay(v)
       /\ artifacts'[a] = artifacts[a]
    <2>1. {a} \in SUBSET Artifact /\ \A x \in {a} : reports'[v].artifact = x
        BY <1>2, <1>3, <1>7
    <2>2. \A u \in Report \ {v} :
            /\ reports'[u].artifact = reports[u].artifact
            /\ reports[u].status = "ready_for_review" => reports'[u] = reports[u]
        BY <1>8
    <2>3. ArtifactsTyped /\ ArtifactInv  BY DEF CaseInv, CaseTyped
    <2>4. /\ ArtifactsTyped' /\ ArtifactInv' /\ Lasts /\ StagedStay(v)
          /\ \A x \in {a} : artifacts'[x] = artifacts[x]
        BY <1>1, <1>6, <2>1, <2>2, <2>3, ExpireKeeps
    <2>. QED  BY <2>4
<1>12. PointersAreTruth'
    BY <1>1, <1>3, <1>6, <1>7, <1>8, Ids DEF PointersAreTruth, Open
<1>13. ReportInv'
    <2>1. a # 0  BY <1>2, Ids
    <2>2. ASSUME NEW u \in Report \ {v}
          PROVE  /\ reports'[u].status # "absent" => reports'[u].digest \in Stamped
                 /\ reports'[u].status \in Delivered <=> reports'[u].artifact # 0
                 /\ reports'[u].status = "ready_for_review" => reports'[u].reviewed = reports'[u].digest
        BY <1>8 DEF CaseInv, ReportInv, Delivered
    <2>. QED  BY <1>1, <1>3, <1>7, <2>1, <2>2 DEF ReportInv, Delivered
<1>14. DeliveredAsReviewed'
    <2>1. ASSUME NEW u \in Report \ {v}, reports'[u].status \in Delivered
          PROVE  /\ artifacts'[reports'[u].artifact].status = "staged"
                 /\ artifacts'[reports'[u].artifact].report = u
                 /\ artifacts'[reports'[u].artifact].bytes = reports'[u].digest
                 /\ reports'[u].reviewed = reports'[u].digest
        <3>1. reports[u].status \in Delivered  BY <1>8, <2>1 DEF Delivered
        <3>2. reports[u].artifact \in Artifact
            BY <1>4, <3>1 DEF CaseInv, ReportInv, ReportRow, Id
        <3>3. /\ artifacts[reports[u].artifact].status = "staged" /\ artifacts[reports[u].artifact].report = u
              /\ artifacts[reports[u].artifact].bytes = reports[u].digest
              /\ reports[u].reviewed = reports[u].digest
            BY <3>1 DEF CaseInv, IssueInv, DeliveredAsReviewed
        <3>4. artifacts'[reports[u].artifact] = artifacts[reports[u].artifact]
            BY <1>10, <3>2, <3>3 DEF StagedStay
        <3>. QED  BY <1>8, <3>3, <3>4
    <2>. QED  BY <1>1, <1>2, <1>3, <1>7, <1>10, <2>1 DEF DeliveredAsReviewed
<1>15. InvalidEvidenceAlerted'
    <2>1. \A u \in Report : reports'[u].status = "published" => u = v
        BY <1>8
    <2>2. Evidence' = Evidence  BY <1>6 DEF Evidence
    <2>3. reports'[v].digest.packet \subseteq Evidence'  BY <1>3, <1>6, <1>7, <2>2
    <2>. QED  BY <2>1, <2>3 DEF InvalidEvidenceAlerted
<1>16. Frozen
    <2>1. ASSUME NEW u \in Report \ {v}
          PROVE  /\ reports'[u].digest = reports[u].digest
                 /\ reports[u].status \in Delivered =>
                    reports'[u].status \in Delivered /\ reports'[u].artifact = reports[u].artifact
                 /\ reports[u].status = "published" /\ reports'[u].status # "published" =>
                    reports'[issue'.published].supersedes = u
        BY <1>3, <1>6, <1>7, <1>8 DEF Delivered
    <2>. QED  BY <1>1, <1>3, <1>7, <2>1 DEF Frozen, Delivered
<1>17. SameSaying  BY <1>1, <1>3, <1>7, <1>8 DEF SameSaying
<1>18. issue' \in [version : Nat, candidate : Id(Report), published : Id(Report)]
    BY <1>1, <1>6 DEF CaseInv, CaseTyped, Id
<1>. QED
    BY <1>6, <1>9, <1>10, <1>12, <1>13, <1>14, <1>15, <1>16, <1>17, <1>18
       DEF CaseInv, CaseTyped, IssueInv

LEMMA InvalidateKeeps ==
    ASSUME CaseInv, NEW p \in Proof, InvalidateProof(p)
    PROVE  CaseInv' /\ Lasts /\ Frozen /\ SameSaying
<1>. DEFINE U == {u \in Report : reports[u].status = "published" /\ p \in reports[u].digest.packet}
<1>1. /\ UNCHANGED <<issue, reports, artifacts>>
      /\ proofs' = [proofs EXCEPT ![p] = "invalidated"]
      /\ alerts' = alerts \cup {<<u, p>> : u \in U}
    BY DEF InvalidateProof
<1>2. Evidence' = Evidence \ {p}  BY <1>1 DEF Evidence, CaseInv, CaseTyped
<1>3. InvalidEvidenceAlerted'
    <2>. SUFFICES ASSUME NEW u \in Report, reports[u].status = "published",
                         NEW x \in reports[u].digest.packet \ Evidence'
                  PROVE  <<u, x>> \in alerts'
        BY <1>1 DEF InvalidEvidenceAlerted
    <2>1. CASE x = p  BY <1>1, <2>1
    <2>2. CASE x # p
        <3>1. x \in reports[u].digest.packet \ Evidence  BY <1>2, <2>2
        <3>. QED  BY <1>1, <3>1 DEF CaseInv, IssueInv, InvalidEvidenceAlerted
    <2>. QED  BY <2>1, <2>2
<1>4. alerts' \subseteq Report \X Proof  BY <1>1 DEF CaseInv, CaseTyped
<1>5. StagedStay(0) /\ Lasts /\ SameSaying  BY <1>1 DEF StagedStay, Lasts, SameSaying
<1>6. ReportsTyped' /\ IssueInv' /\ ReportInv' /\ Frozen
    BY <1>1, <1>3, <1>5, ReportsStay DEF CaseInv, CaseTyped
<1>7. ArtifactInv' /\ ArtifactsTyped'
    BY <1>1 DEF CaseInv, CaseTyped, ArtifactsTyped, ArtifactInv, ArtifactsOf, InUse
<1>. QED  BY <1>1, <1>4, <1>5, <1>6, <1>7 DEF CaseInv, CaseTyped

\* Somebody works on an artifact, or nothing happens to the rows.
LEMMA WorkKeeps ==
    ASSUME CaseInv, UNCHANGED <<issue, reports, proofs, alerts>>,
           UNCHANGED artifacts \/ \E a \in Artifact : Moves(a)
    PROVE  CaseInv' /\ Lasts /\ Frozen /\ SameSaying
<1>1. ArtifactsTyped' /\ ArtifactInv' /\ Lasts /\ StagedStay(0)
    <2>1. CASE UNCHANGED artifacts
        BY <2>1 DEF CaseInv, CaseTyped, ArtifactsTyped, ArtifactInv, ArtifactsOf, InUse, Lasts, StagedStay
    <2>2. CASE \E a \in Artifact : Moves(a)
        BY <2>2, MoveKeeps DEF CaseInv, CaseTyped
    <2>. QED  BY <2>1, <2>2
<1>2. InvalidEvidenceAlerted'  BY DEF CaseInv, IssueInv, InvalidEvidenceAlerted, Evidence
<1>3. ReportsTyped' /\ IssueInv' /\ ReportInv' /\ Frozen
    BY <1>1, <1>2, ReportsStay DEF CaseInv, CaseTyped
<1>. QED  BY <1>1, <1>3 DEF CaseInv, CaseTyped, SameSaying

\* The draft that StoreDraft leaves: of run r, in the open report or in one of its own.
Stores(r, d) == \E v \in Report :
    /\ reports'[v].digest = d
    /\ \A u \in Report \ {v} : reports'[u] = reports[u]
    /\ reports[v].status = "absent" => v = r
    /\ runs'[r].status = "succeeded"

LEMMA RewrittenRow ==
    ASSUME NEW row \in ReportRow, NEW d \in Stamped
    PROVE  LET new == [row EXCEPT !.digest = d, !.reviewed = None, !.version = @ + 1]
           IN  /\ new \in ReportRow /\ new.status = row.status /\ new.digest = d
               /\ new.supersedes = row.supersedes /\ new.artifact = row.artifact
<1>1. row.version + 1 \in Nat /\ d \in Digest /\ None \in Digest  BY DEF ReportRow, Digest, Stamped
<1>. QED  BY <1>1 DEF ReportRow

Drafted(d, p) == [NoReport EXCEPT !.status = "draft", !.digest = d, !.supersedes = p]
LEMMA DraftRow ==
    ASSUME NEW d \in Stamped, NEW p \in Id(Report)
    PROVE  /\ Drafted(d, p) \in ReportRow
           /\ Drafted(d, p).status = "draft" /\ Drafted(d, p).digest = d
           /\ Drafted(d, p).supersedes = p /\ Drafted(d, p).artifact = 0
<1>1. d \in Digest /\ None \in Digest  BY DEF Digest, Stamped
<1>2. NoReport \in ReportRow /\ NoReport.artifact = 0
    BY <1>1 DEF NoReport, ReportRow, Id
<1>. QED  BY <1>1, <1>2 DEF Drafted, ReportRow, Open

LEMMA StoreKeeps ==
    ASSUME CaseInv, RunInv, runs \in [Run -> RunRow], NEW t \in Attempt, NEW r \in Run, r = RunOf(t),
           NEW d \in Stamped, d = [run |-> r, packet |-> attempts[t].packet, prose |-> attempts[t].prose],
           runs[r].status \in ActiveRun, ~Stale(r), StoreDraft(t),
           UNCHANGED <<artifacts, proofs, alerts>>
    PROVE  CaseInv' /\ Lasts /\ Frozen /\ Stores(r, d)
<1>. DEFINE v == IF issue.candidate # 0 THEN issue.candidate ELSE r
            new == IF issue.candidate = v
                   THEN [reports[v] EXCEPT !.digest = d, !.reviewed = None, !.version = @ + 1]
                   ELSE [NoReport EXCEPT !.status = "draft", !.digest = d,
                                         !.supersedes = runs[r].base.predecessor]
<1>1. /\ issue.candidate = runs[r].base.candidate /\ issue.published = runs[r].base.predecessor
      /\ issue.candidate # 0 => reports[issue.candidate].status = "draft"
    BY DEF Stale
<1>2. issue.candidate = 0 => reports[r].status = "absent"
    BY DEF RunInv, ActiveRun
<1>3. v \in Report /\ reports[v] \in ReportRow /\ issue.published \in Id(Report)
    BY DEF CaseInv, CaseTyped, ReportsTyped, Id, Report
<1>4. reports[v].status \in {"absent", "draft"} /\ (reports[v].status = "absent" => v = r)
    BY <1>1, <1>2
<1>5. /\ new \in ReportRow /\ new.status = "draft" /\ new.digest = d
      /\ new.supersedes = issue.published /\ new.artifact = 0
    <2>1. CASE issue.candidate # 0
        <3>1. new = [reports[v] EXCEPT !.digest = d, !.reviewed = None, !.version = @ + 1]
            <4>1. issue.candidate = v  BY <2>1
            <4>. HIDE DEF v
            <4>. QED  BY <4>1
        <3>2. /\ reports[v].status = "draft" /\ reports[v].supersedes = issue.published
              /\ reports[v].artifact = 0
            BY <1>1, <1>3, <2>1 DEF CaseInv, IssueInv, PointersAreTruth, ReportInv, Delivered
        <3>. HIDE DEF new, v
        <3>3. \A row \in ReportRow :
                LET changed == [row EXCEPT !.digest = d, !.reviewed = None, !.version = @ + 1] IN
                /\ changed \in ReportRow /\ changed.status = row.status /\ changed.digest = d
                /\ changed.supersedes = row.supersedes /\ changed.artifact = row.artifact
            BY RewrittenRow
        <3>. QED  BY <1>3, <3>1, <3>2, <3>3
    <2>2. CASE issue.candidate = 0
        <3>1. new = Drafted(d, issue.published)
            BY <1>1, <2>2, Ids DEF Report, Drafted
        <3>. HIDE DEF new, v
        <3>. QED  BY <1>3, <3>1, DraftRow
    <2>. QED  BY <2>1, <2>2
<1>6. /\ reports' = [reports EXCEPT ![v] = new]
      /\ issue' = [issue EXCEPT !.candidate = v, !.version = @ + 1]
      /\ runs' = [runs EXCEPT ![r].status = "succeeded", ![r].result = v]
    BY DEF StoreDraft
<1>7. issue.candidate = v \/ (issue.candidate = 0 /\ reports[v].status = "absent")
    BY <1>2
<1>. HIDE DEF v, new
<1>8. reports'[v] = new /\ \A u \in Report \ {v} : reports'[u] = reports[u]
    BY <1>3, <1>6 DEF CaseInv, CaseTyped, ReportsTyped
<1>9. /\ issue' \in [version : Nat, candidate : Id(Report), published : Id(Report)]
      /\ issue'.candidate = v /\ issue'.published = issue.published
    <2>1. issue \in [version : Nat, candidate : Id(Report), published : Id(Report)] /\ v \in Id(Report)
        BY <1>3 DEF CaseInv, CaseTyped, Id
    <2>2. issue' = [version |-> issue.version + 1, candidate |-> v, published |-> issue.published]
        BY <1>6, <2>1
    <2>. QED  BY <2>1, <2>2
<1>10. Rewrites(v, new)
    BY <1>4, <1>5, <1>6, <1>7, <1>9 DEF Rewrites, Open
<1>11. ArtifactInv' /\ Lasts /\ StagedStay(v)
    BY <1>3, <1>4, <1>8, DraftKeeps DEF CaseInv
<1>12. ReportsTyped' /\ IssueInv' /\ ReportInv' /\ Frozen
    BY <1>3, <1>5, <1>10, <1>11, RewriteKeeps DEF CaseInv, CaseTyped
<1>13. runs'[r].status = "succeeded"  BY <1>6 DEF RunRow
<1>14. Stores(r, d)  BY <1>3, <1>4, <1>5, <1>8, <1>13 DEF Stores
<1>. QED  BY <1>9, <1>11, <1>12, <1>14 DEF CaseInv, CaseTyped, ArtifactsTyped

----------------------------------------------------------------------------
(* Attempts, jobs and runs *)

AttemptsTyped == attempts \in [Attempt -> AttemptState]
JobsTyped == jobs \in [Work -> Job]
AgentRow == [status : {"absent", "running", "succeeded", "failed"}, output : Attempt \cup {None}]
RunsTyped == runs \in [Run -> RunRow] /\ agents \in [Run -> AgentRow]

LEMMA Works ==
    /\ \A w \in Work : w[1] = "run" => w[2] \in Run
    /\ \A w \in Work : w[1] = "artifact" => w[2] \in Artifact
    /\ \A w \in Work : w[1] \in {"run", "artifact"}
    /\ \A r \in Run : <<"run", r>> \in Work
    /\ \A a \in Artifact : <<"artifact", a>> \in Work
BY DEF Work

\* The outcome of an agent run that succeeded is never written again.
Remembered == \A r \in Run : agents[r].status = "succeeded" => agents'[r] = agents[r]

RunsKept ==
    /\ RunsTyped' /\ Remembered
    /\ \A r \in Run : runs[r].status = "succeeded" => runs'[r].status = "succeeded"
    /\ \A r \in Run : agents'[r].status # "succeeded" => agents'[r].output = None

\* Everything a step has to show
Kept ==
    /\ CaseInv' /\ Lasts /\ Frozen
    /\ RunsKept /\ JobsTyped' /\ faults' \in Nat
    /\ views' \in [Person -> View] /\ ViewInv'
    /\ AttemptsTyped' /\ AttemptInv'
    /\ \/ SameSaying
       \/ \E r \in Run, d \in Stamped :
            /\ Stores(r, d)
            /\ d.prose # None => agents'[d.run] = [status |-> "succeeded", output |-> d.prose]

LEMMA Typed ==
    ASSUME IInv
    PROVE  /\ CaseInv /\ AttemptsTyped /\ JobsTyped /\ RunsTyped
           /\ views \in [Person -> View] /\ faults \in Nat /\ ViewInv /\ AttemptInv /\ RunInv
BY DEF IInv, WorkTypeOK, DeskTypeOK, LedgerTypeOK, CaseInv, CaseTyped, ReportsTyped, ArtifactsTyped,
       AttemptsTyped, JobsTyped, RunsTyped, AgentRow

LEMMA KeptIsInv == ASSUME IInv, Kept PROVE IInv'
<1>. USE DEF CaseInv, CaseTyped
<1>1. WorkTypeOK'
    BY DEF Kept, WorkTypeOK, DeskTypeOK, LedgerTypeOK, ReportsTyped, ArtifactsTyped,
           AttemptsTyped, JobsTyped, RunsKept, RunsTyped, AgentRow
<1>2. RunInv'
    <2>. SUFFICES ASSUME NEW u \in Run, runs'[u].status # "succeeded"
                  PROVE  reports'[u].status = "absent"
        BY DEF RunInv, Kept, RunsKept
    <2>1. reports[u].status = "absent" /\ u \in Report
        BY DEF IInv, RunInv, Kept, RunsKept, Report
    <2>2. CASE SameSaying  BY <2>1, <2>2 DEF SameSaying
    <2>3. ASSUME NEW r \in Run, NEW d \in Stamped, Stores(r, d)
          PROVE  reports'[u].status = "absent"
        <3>1. PICK v \in Report :
                /\ \A x \in Report \ {v} : reports'[x] = reports[x]
                /\ reports[v].status = "absent" => v = r
                /\ runs'[r].status = "succeeded"
            BY <2>3 DEF Stores
        <3>2. u # r  BY <3>1
        <3>. QED  BY <2>1, <3>1, <3>2
    <2>. QED  BY <2>2, <2>3 DEF Kept
<1>3. ProseIsAttributed'
    <2>. SUFFICES ASSUME NEW u \in Report, reports'[u].status # "absent",
                         reports'[u].digest.prose # None
                  PROVE  agents'[reports'[u].digest.run] =
                            [status |-> "succeeded", output |-> reports'[u].digest.prose]
        BY DEF ProseIsAttributed
    <2>1. ASSUME reports[u].status # "absent", reports'[u].digest = reports[u].digest
          PROVE  agents'[reports'[u].digest.run] =
                    [status |-> "succeeded", output |-> reports'[u].digest.prose]
        <3>1. reports[u].digest \in Stamped  BY <2>1 DEF IInv, ReportInv
        <3>2. reports[u].digest.run \in Run  BY <3>1 DEF Stamped
        <3>3. agents[reports[u].digest.run] = [status |-> "succeeded", output |-> reports[u].digest.prose]
            BY <2>1 DEF IInv, ProseIsAttributed
        <3>4. agents'[reports[u].digest.run] = agents[reports[u].digest.run]
            BY <3>2, <3>3 DEF Kept, RunsKept, Remembered
        <3>. QED  BY <2>1, <3>3, <3>4
    <2>2. CASE SameSaying  BY <2>1, <2>2 DEF SameSaying
    <2>3. ASSUME NEW r \in Run, NEW d \in Stamped, Stores(r, d),
                 d.prose # None => agents'[d.run] = [status |-> "succeeded", output |-> d.prose]
          PROVE  agents'[reports'[u].digest.run] =
                    [status |-> "succeeded", output |-> reports'[u].digest.prose]
        <3>1. PICK v \in Report :
                /\ reports'[v].digest = d
                /\ \A x \in Report \ {v} : reports'[x] = reports[x]
            BY <2>3 DEF Stores
        <3>2. CASE u = v  BY <2>3, <3>1, <3>2
        <3>3. CASE u # v  BY <2>1, <3>1, <3>3
        <3>. QED  BY <3>2, <3>3
    <2>. QED  BY <2>2, <2>3 DEF Kept
<1>. QED  BY <1>1, <1>2, <1>3 DEF IInv, Kept

LEMMA SaneStays ==
    ASSUME RunsTyped, Remembered, Lasts, NEW st \in AttemptState, Sane(st, agents, artifacts)
    PROVE  Sane(st, agents', artifacts')
<1>1. st.pc \in Generating => st.work[2] \in Run  BY Works DEF Sane, Generating
<1>2. st.pc = "persist" /\ st.prose # None => agents'[st.work[2]] = agents[st.work[2]]
    <2>. SUFFICES ASSUME st.pc = "persist", st.prose # None
                  PROVE  agents'[st.work[2]] = agents[st.work[2]]
        OBVIOUS
    <2>1. agents[st.work[2]] = [status |-> "succeeded", output |-> st.prose]  BY DEF Sane
    <2>2. agents[st.work[2]].status = "succeeded"  BY <2>1
    <2>. QED  BY <1>1, <2>2 DEF Remembered, Generating
<1>3. st.pc = "render" => st.work[2] \in Artifact  BY Works DEF Sane
<1>. QED  BY <1>2, <1>3 DEF Sane, Lasts, Generating

LEMMA ViewsKept ==
    ASSUME views \in [Person -> View], ViewInv, Lasts, UNCHANGED views
    PROVE  ViewInv'
BY DEF ViewInv, View, Id, Lasts

LEMMA AttemptsKept ==
    ASSUME RunsTyped, AttemptsTyped, AttemptInv, Remembered, Lasts, UNCHANGED attempts
    PROVE  AttemptsTyped' /\ AttemptInv'
BY SaneStays DEF AttemptInv, AttemptsTyped

\* An attempt goes on to v.
LEMMA AttemptGoes ==
    ASSUME RunsTyped, AttemptsTyped, AttemptInv, Remembered, Lasts, NEW t \in Attempt,
           NEW v \in AttemptState, attempts' = [attempts EXCEPT ![t] = v],
           Sane(v, agents', artifacts')
    PROVE  AttemptsTyped' /\ AttemptInv'
<1>1. AttemptsTyped'  BY DEF AttemptsTyped
<1>2. ASSUME NEW u \in Attempt PROVE Sane(attempts'[u], agents', artifacts')
    <2>1. CASE u = t  BY <2>1 DEF AttemptsTyped
    <2>2. CASE u # t
        <3>1. attempts'[u] = attempts[u] /\ attempts[u] \in AttemptState  BY <2>2 DEF AttemptsTyped
        <3>. QED  BY <3>1, SaneStays DEF AttemptInv
    <2>. QED  BY <2>1, <2>2
<1>. QED  BY <1>1, <1>2 DEF AttemptInv

\* What an attempt does that leaves reports alone
LEMMA WorkerKeeps ==
    ASSUME IInv, NEW t \in Attempt, NEW v \in AttemptState, attempts' = [attempts EXCEPT ![t] = v],
           Sane(v, agents', artifacts'), RunsKept, JobsTyped', faults' \in Nat,
           UNCHANGED <<issue, reports, proofs, alerts, views>>,
           UNCHANGED artifacts \/ \E a \in Artifact : Moves(a)
    PROVE  Kept
<1>1. CaseInv' /\ Lasts /\ Frozen /\ SameSaying  BY Typed, WorkKeeps
<1>2. AttemptsTyped' /\ AttemptInv'
    BY <1>1, Typed, AttemptGoes DEF RunsKept
<1>3. ViewInv' /\ views' \in [Person -> View]  BY <1>1, Typed, ViewsKept
<1>. QED  BY <1>1, <1>2, <1>3 DEF Kept

LEMMA PaysKeeps ==
    ASSUME faults \in Nat, NEW newRuns, NEW newArtifacts, NEW newFaults \in Nat,
           Pays(newRuns, newArtifacts, newFaults)
    PROVE  faults' \in Nat
BY DEF Pays

LEMMA FailsKeeps == ASSUME faults \in Nat, Fails PROVE faults' \in Nat
BY PaysKeeps DEF Fails

JobState == {"missing", "waiting", "active", "completed", "failed"}
LEMMA JobWritten ==
    ASSUME JobsTyped, NEW w \in Work, NEW state \in JobState, NEW holder \in Attempt \cup {None},
           NEW again \in BOOLEAN,
           \/ jobs' = [jobs EXCEPT ![w].state = state]
           \/ jobs' = [jobs EXCEPT ![w].state = state, ![w].holder = holder]
           \/ jobs' = [jobs EXCEPT ![w].state = state, ![w].holder = holder, ![w].again = @ \/ again]
    PROVE  JobsTyped'
<1>1. jobs[w] \in Job  BY DEF JobsTyped
<1>2. ASSUME NEW job \in Job
      PROVE  /\ [job EXCEPT !.state = state] \in Job
             /\ [job EXCEPT !.state = state, !.holder = holder] \in Job
             /\ [job EXCEPT !.state = state, !.holder = holder, !.again = @ \/ again] \in Job
    <2>1. job.again \/ again \in BOOLEAN  OBVIOUS
    <2>. QED  BY <2>1 DEF Job, JobState
<1>3. ASSUME NEW job \in Job, jobs' = [jobs EXCEPT ![w] = job] PROVE JobsTyped'
    BY <1>3 DEF JobsTyped
<1>4. \/ jobs' = [jobs EXCEPT ![w] = [jobs[w] EXCEPT !.state = state]]
      \/ jobs' = [jobs EXCEPT ![w] = [jobs[w] EXCEPT !.state = state, !.holder = holder]]
      \/ jobs' = [jobs EXCEPT ![w] = [jobs[w] EXCEPT !.state = state, !.holder = holder, !.again = @ \/ again]]
    BY <1>1 DEF JobsTyped, Job
<1>. QED  BY <1>1, <1>2, <1>3, <1>4

\* What the runs and the agent runs of a month keep
RunsGoOn == /\ runs' \in [Run -> RunRow]
            /\ \A r \in Run : runs[r].status = "succeeded" => runs'[r].status = "succeeded"
AgentsGoOn == /\ agents' \in [Run -> AgentRow] /\ Remembered
              /\ \A r \in Run : agents'[r].status # "succeeded" => agents'[r].output = None

LEMMA BothGoOn == RunsGoOn /\ AgentsGoOn => RunsKept
BY DEF RunsGoOn, AgentsGoOn, RunsKept, RunsTyped

LEMMA RunsSame ==
    ASSUME RunsTyped, RunInv
    PROVE  /\ UNCHANGED runs => RunsGoOn
           /\ UNCHANGED agents => AgentsGoOn
BY DEF RunsTyped, RunsGoOn, AgentsGoOn, Remembered, RunInv

RunStatus == {"absent", "succeeded", "failed", "stale"} \cup ActiveRun
LEMMA RunGoesOn ==
    ASSUME RunsTyped, NEW r \in Run, NEW row \in RunRow, runs' = [runs EXCEPT ![r] = row],
           runs[r].status = "succeeded" => row.status = "succeeded"
    PROVE  RunsGoOn
BY DEF RunsTyped, RunsGoOn

LEMMA RunStatusGoesOn ==
    ASSUME RunsTyped, NEW r \in Run, NEW s \in RunStatus, runs' = [runs EXCEPT ![r].status = s],
           runs[r].status = "succeeded" => s = "succeeded"
    PROVE  RunsGoOn
<1>1. runs[r] \in RunRow  BY DEF RunsTyped
<1>2. ASSUME NEW row \in RunRow
      PROVE  [row EXCEPT !.status = s] \in RunRow /\ [row EXCEPT !.status = s].status = s
    BY DEF RunRow, RunStatus
<1>3. runs' = [runs EXCEPT ![r] = [runs[r] EXCEPT !.status = s]]  OBVIOUS
<1>. QED  BY <1>1, <1>2, <1>3, RunGoesOn

LEMMA AgentGoesOn ==
    ASSUME RunsTyped, RunInv, NEW r \in Run, NEW row \in AgentRow, agents' = [agents EXCEPT ![r] = row],
           agents[r].status # "succeeded", row.status # "succeeded" => row.output = None
    PROVE  AgentsGoOn /\ agents'[r] = row
BY DEF RunsTyped, AgentsGoOn, Remembered, RunInv

LEMMA Actives == \A s \in ActiveRun : s \in RunStatus /\ s \notin {"absent", "succeeded", "failed", "stale"}
BY DEF ActiveRun, RunStatus

----------------------------------------------------------------------------
(* What an attempt becomes *)

LEMMA GoesTo ==
    ASSUME AttemptsTyped, NEW t \in Attempt, NEW pc \in Generating, Goes(t, pc)
    PROVE  \E v \in AttemptState :
              /\ attempts' = [attempts EXCEPT ![t] = v]
              /\ v.pc = pc /\ v.work = attempts[t].work /\ v.prose = attempts[t].prose
<1>1. ASSUME NEW st \in AttemptState
      PROVE  LET v == [st EXCEPT !.pc = pc] IN
             v \in AttemptState /\ v.pc = pc /\ v.work = st.work /\ v.prose = st.prose
    BY DEF AttemptState, Generating
<1>2. attempts[t] \in AttemptState /\ attempts' = [attempts EXCEPT ![t] = [attempts[t] EXCEPT !.pc = pc]]
    BY DEF AttemptsTyped, Goes
<1>. QED  BY <1>1, <1>2

LEMMA EndsTo ==
    ASSUME AttemptsTyped, NEW t \in Attempt, NEW how \in {"completed", "failed", "retry"}, Ends(t, how)
    PROVE  \E v \in AttemptState :
              /\ attempts' = [attempts EXCEPT ![t] = v]
              /\ v.pc = "end" /\ v.work = attempts[t].work
<1>1. ASSUME NEW st \in AttemptState
      PROVE  LET v == [st EXCEPT !.pc = "end", !.ends = how] IN
             v \in AttemptState /\ v.pc = "end" /\ v.work = st.work
    BY DEF AttemptState
<1>2. attempts[t] \in AttemptState /\ attempts' = [attempts EXCEPT ![t] = [attempts[t] EXCEPT !.pc = "end", !.ends = how]]
    BY DEF AttemptsTyped, Ends
<1>. QED  BY <1>1, <1>2

LEMMA Idle == NoAttempt \in AttemptState /\ NoAttempt.pc = "idle" /\ NoAttempt.prose = None
              /\ NoAttempt.work = None
BY DEF NoAttempt, AttemptState, Digest

LEMMA Ended ==
    ASSUME NEW v \in AttemptState, v.pc \in {"idle", "end"}, v.pc = "end" => v.work \in Work
    PROVE  Sane(v, agents', artifacts')
BY DEF Sane, Generating

LEMMA TakenBy ==
    ASSUME JobsTyped, AttemptsTyped, NEW t \in Attempt, NEW w \in Work, NEW pc \in {"load", "render", "end"},
           NEW digest \in Digest, Taken(t, w, pc, digest)
    PROVE  /\ JobsTyped'
           /\ \E v \in AttemptState :
                /\ attempts' = [attempts EXCEPT ![t] = v]
                /\ v.pc = pc /\ v.work = w /\ v.prose = None /\ v.digest = digest
<1>. DEFINE v == [NoAttempt EXCEPT !.pc = pc, !.work = w, !.again = jobs[w].again, !.digest = digest,
                                   !.ends = IF pc = "end" THEN "failed" ELSE "completed"]
<1>1. jobs' = [jobs EXCEPT ![w].state = "active", ![w].holder = t] /\ attempts' = [attempts EXCEPT ![t] = v]
    BY DEF Taken
<1>2. JobsTyped'  BY <1>1, JobWritten DEF JobState
<1>3. jobs[w].again \in BOOLEAN  BY DEF JobsTyped, Job
<1>4. v \in AttemptState /\ v.pc = pc /\ v.work = w /\ v.prose = None /\ v.digest = digest
    BY <1>3 DEF NoAttempt, AttemptState
<1>. QED  BY <1>1, <1>2, <1>4

----------------------------------------------------------------------------
(* Attempts at work *)

\* Runs and jobs go on, and reports stay as they are.
WorksOn ==
    /\ RunsGoOn /\ AgentsGoOn /\ JobsTyped' /\ faults' \in Nat
    /\ UNCHANGED <<issue, reports, proofs, alerts, views>>
    /\ UNCHANGED artifacts \/ \E a \in Artifact : Moves(a)

LEMMA QuietWorks ==
    ASSUME IInv, UNCHANGED <<ledgerVars, views>>, JobsTyped', faults' \in Nat
    PROVE  WorksOn
BY Typed, RunsSame DEF WorksOn, ledgerVars

LEMMA GoneOn ==
    ASSUME IInv, WorksOn, NEW t \in Attempt, NEW v \in AttemptState, attempts' = [attempts EXCEPT ![t] = v],
           Sane(v, agents', artifacts')
    PROVE  Kept
BY WorkerKeeps, BothGoOn DEF WorksOn

LEMMA EndKeeps ==
    ASSUME IInv, WorksOn, NEW t \in Attempt, attempts[t].pc # "idle",
           NEW how \in {"completed", "failed", "retry"}, Ends(t, how)
    PROVE  Kept
<1>1. PICK v \in AttemptState : /\ attempts' = [attempts EXCEPT ![t] = v]
                                /\ v.pc = "end" /\ v.work = attempts[t].work
    BY Typed, EndsTo
<1>2. attempts[t].work \in Work  BY Typed DEF AttemptInv, Sane
<1>. QED  BY <1>1, <1>2, Ended, GoneOn

LEMMA IdleKeeps ==
    ASSUME IInv, WorksOn, NEW t \in Attempt, attempts' = [attempts EXCEPT ![t] = NoAttempt]
    PROVE  Kept
BY Idle, Ended, GoneOn

LEMMA NobodyKeeps == ASSUME IInv, WorksOn, UNCHANGED attempts PROVE Kept
<1>1. CaseInv' /\ Lasts /\ Frozen /\ SameSaying  BY Typed, WorkKeeps DEF WorksOn
<1>2. AttemptsTyped' /\ AttemptInv'
    BY <1>1, Typed, AttemptsKept DEF WorksOn, AgentsGoOn
<1>3. ViewInv' /\ views' \in [Person -> View]  BY <1>1, Typed, ViewsKept DEF WorksOn
<1>. QED  BY <1>1, <1>2, <1>3, BothGoOn DEF Kept, WorksOn

LEMMA ClaimGenerationKeeps ==
    ASSUME IInv, NEW t \in Attempt, NEW r \in Run, ClaimGeneration(t, r)
    PROVE  Kept
<1>1. <<"run", r>> \in Work /\ None \in Digest  BY Works DEF Digest
<1>2. UNCHANGED <<issue, reports, agents, artifacts, proofs, alerts, views, faults>>
    BY DEF ClaimGeneration
<1>3. CASE /\ runs[r].status \in ActiveRun
           /\ Taken(t, <<"run", r>>, "load", None)
           /\ runs' = IF runs[r].status = "queued"
                       THEN [runs EXCEPT ![r].status = "assembling"] ELSE runs
    <2>1. RunsGoOn
        <3>1. CASE runs[r].status = "queued"
            BY <1>3, <3>1, Typed, RunStatusGoesOn DEF RunStatus, ActiveRun
        <3>2. CASE runs[r].status # "queued"  BY <1>3, <3>2, Typed, RunsSame
        <3>. QED  BY <3>1, <3>2
    <2>2. PICK v \in AttemptState :
            /\ attempts' = [attempts EXCEPT ![t] = v]
            /\ v.pc = "load" /\ v.work = <<"run", r>> /\ v.prose = None /\ v.digest = None
        BY <1>1, <1>3, Typed, TakenBy
    <2>3. WorksOn  BY <1>1, <1>2, <1>3, <2>1, Typed, TakenBy, RunsSame DEF WorksOn
    <2>4. Sane(v, agents', artifacts')  BY <1>1, <2>2 DEF Sane, Generating
    <2>. QED  BY <2>2, <2>3, <2>4, GoneOn
<1>4. CASE Taken(t, <<"run", r>>, "end", None) /\ UNCHANGED runs
    <2>1. PICK v \in AttemptState :
            /\ attempts' = [attempts EXCEPT ![t] = v]
            /\ v.pc = "end" /\ v.work = <<"run", r>>
        BY <1>1, <1>4, Typed, TakenBy
    <2>2. WorksOn  BY <1>1, <1>2, <1>4, Typed, TakenBy, RunsSame DEF WorksOn
    <2>. QED  BY <1>1, <2>1, <2>2, Ended, GoneOn
<1>. QED  BY <1>3, <1>4 DEF ClaimGeneration

LEMMA LoadPacketKeeps == ASSUME IInv, NEW t \in Attempt, LoadPacket(t) PROVE Kept
<1>1. ASSUME NEW st \in AttemptState
      PROVE  LET v == [st EXCEPT !.pc = "store", !.packet = Evidence] IN
             v \in AttemptState /\ v.pc = "store" /\ v.work = st.work /\ v.prose = st.prose
    BY DEF AttemptState, Evidence
<1>2. attempts[t] \in AttemptState /\ Sane(attempts[t], agents, artifacts)
    BY Typed DEF AttemptsTyped, AttemptInv
<1>3. attempts' = [attempts EXCEPT ![t] = [attempts[t] EXCEPT !.pc = "store", !.packet = Evidence]]
    BY DEF LoadPacket
<1>4. WorksOn  BY Typed, QuietWorks DEF LoadPacket, deskVars, JobsTyped
<1>5. PICK v \in AttemptState : /\ attempts' = [attempts EXCEPT ![t] = v]
                                /\ v.pc = "store" /\ v.work = attempts[t].work /\ v.prose = attempts[t].prose
    BY <1>1, <1>2, <1>3
<1>6. Sane(v, agents', artifacts')  BY <1>2, <1>5 DEF Sane, Generating, LoadPacket
<1>. QED  BY <1>4, <1>5, <1>6, GoneOn

LEMMA AtWork ==
    ASSUME IInv, NEW t \in Attempt, attempts[t].pc \in Generating
    PROVE  /\ attempts[t] \in AttemptState /\ attempts[t].pc # "idle" /\ RunOf(t) \in Run
           /\ attempts[t].work \in Work /\ attempts[t].work[1] = "run"
           /\ attempts[t].pc # "persist" => attempts[t].prose = None
BY Typed, Works DEF AttemptInv, AttemptsTyped, Sane, Generating, RunOf

LEMMA GoesKeeps ==
    ASSUME IInv, WorksOn, NEW t \in Attempt, attempts[t].pc \in Generating \ {"persist"},
           NEW pc \in Generating, Goes(t, pc)
    PROVE  Kept
<1>1. PICK v \in AttemptState :
        /\ attempts' = [attempts EXCEPT ![t] = v]
        /\ v.pc = pc /\ v.work = attempts[t].work /\ v.prose = attempts[t].prose
    BY Typed, GoesTo
<1>2. Sane(v, agents', artifacts')  BY <1>1, AtWork DEF Sane, Generating
<1>. QED  BY <1>1, <1>2, GoneOn

LEMMA ProseKeeps ==
    ASSUME IInv, WorksOn, NEW t \in Attempt, attempts[t].pc \in Generating,
           NEW prose \in Attempt \cup {None},
           attempts' = [attempts EXCEPT ![t].pc = "persist", ![t].prose = prose],
           prose # None => agents'[RunOf(t)] = [status |-> "succeeded", output |-> prose]
    PROVE  Kept
<1>1. ASSUME NEW st \in AttemptState
      PROVE  LET v == [st EXCEPT !.pc = "persist", !.prose = prose] IN
             v \in AttemptState /\ v.pc = "persist" /\ v.work = st.work /\ v.prose = prose
    BY DEF AttemptState
<1>2. attempts' = [attempts EXCEPT ![t] = [attempts[t] EXCEPT !.pc = "persist", !.prose = prose]]
    BY Typed DEF AttemptsTyped
<1>3. PICK v \in AttemptState :
        /\ attempts' = [attempts EXCEPT ![t] = v]
        /\ v.pc = "persist" /\ v.work = attempts[t].work /\ v.prose = prose
    BY <1>1, <1>2, AtWork
<1>4. Sane(v, agents', artifacts')  BY <1>3, AtWork DEF Sane, Generating, RunOf
<1>. QED  BY <1>3, <1>4, GoneOn

LEMMA PersistPacketKeeps == ASSUME IInv, NEW t \in Attempt, PersistPacket(t) PROVE Kept
<1>. DEFINE r == RunOf(t)
<1>1. attempts[t].pc = "store" /\ attempts[t].pc \in Generating \ {"persist"}
    BY DEF PersistPacket, Generating
<1>2. r \in Run /\ attempts[t] \in AttemptState /\ attempts[t].pc # "idle"  BY <1>1, AtWork
<1>3. UNCHANGED <<issue, reports, agents, artifacts, proofs, alerts, views, jobs, faults>>
    BY DEF PersistPacket
<1>4. RunsGoOn => WorksOn
    BY <1>3, Typed, RunsSame DEF WorksOn, JobsTyped
<1>5. CASE runs[r].status \in ActiveRun
    <2>1. /\ runs' = [runs EXCEPT ![r].packet = attempts[t].packet]
          /\ Goes(t, IF runs[r].bounded_ai /\ attempts[t].packet # {} THEN "narrate" ELSE "persist")
        BY <1>5 DEF PersistPacket
    <2>2. PICK pc \in Generating : Goes(t, pc)  BY <2>1 DEF Generating
    <2>3. attempts[t].packet \in SUBSET Proof  BY <1>2 DEF AttemptState
    <2>4. ASSUME NEW row \in RunRow, NEW packet \in SUBSET Proof
          PROVE  [row EXCEPT !.packet = packet] \in RunRow /\ [row EXCEPT !.packet = packet].status = row.status
        BY DEF RunRow
    <2>5. runs[r] \in RunRow /\ runs' = [runs EXCEPT ![r] = [runs[r] EXCEPT !.packet = attempts[t].packet]]
        BY <1>2, <2>1, Typed DEF RunsTyped
    <2>6. RunsGoOn  BY <1>2, <2>3, <2>4, <2>5, Typed, RunGoesOn
    <2>. QED  BY <1>1, <1>4, <2>2, <2>6, GoesKeeps
<1>6. CASE runs[r].status \notin ActiveRun
    BY <1>2, <1>4, <1>6, Typed, RunsSame, EndKeeps DEF PersistPacket
<1>. QED  BY <1>5, <1>6

LEMMA ClaimNarrativeKeeps == ASSUME IInv, NEW t \in Attempt, ClaimNarrative(t) PROVE Kept
<1>. DEFINE r == RunOf(t)
<1>1. attempts[t].pc = "narrate" /\ attempts[t].pc \in Generating \ {"persist"}
    BY DEF ClaimNarrative, Generating
<1>2. r \in Run /\ attempts[t] \in AttemptState /\ attempts[t].pc # "idle"  BY <1>1, AtWork
<1>3. UNCHANGED <<issue, reports, artifacts, proofs, alerts, views, jobs, faults>>
    BY DEF ClaimNarrative
<1>4. RunsGoOn /\ AgentsGoOn => WorksOn
    BY <1>3, Typed DEF WorksOn, JobsTyped
<1>5. CASE runs[r].status \notin ActiveRun
    BY <1>2, <1>4, <1>5, Typed, RunsSame, EndKeeps DEF ClaimNarrative
<1>6. CASE runs[r].status \in ActiveRun
    <2>1. runs' = [runs EXCEPT ![r].status = "narrative_running"]  BY <1>6 DEF ClaimNarrative
    <2>2. RunsGoOn
        BY <1>2, <1>6, <2>1, Typed, RunStatusGoesOn DEF RunStatus, ActiveRun
    <2>3. CASE /\ agents[r].status = "succeeded"
               /\ attempts' = [attempts EXCEPT ![t].pc = "persist", ![t].prose = agents[r].output]
               /\ UNCHANGED agents
        <3>1. WorksOn  BY <1>4, <2>2, <2>3, Typed, RunsSame
        <3>2. agents[r] \in AgentRow  BY <1>2, Typed DEF RunsTyped
        <3>3. agents[r].output \in Attempt \cup {None}
              /\ agents[r] = [status |-> "succeeded", output |-> agents[r].output]
            BY <2>3, <3>2 DEF AgentRow
        <3>4. agents'[r] = [status |-> "succeeded", output |-> agents[r].output]  BY <2>3, <3>3
        <3>. QED  BY <1>1, <2>3, <3>1, <3>3, <3>4, ProseKeeps
    <2>4. CASE Goes(t, "persist") /\ UNCHANGED agents
        BY <1>1, <1>4, <2>2, <2>4, Typed, RunsSame, GoesKeeps DEF Generating
    <2>5. CASE Ends(t, "completed") /\ UNCHANGED agents
        BY <1>2, <1>4, <2>2, <2>5, Typed, RunsSame, EndKeeps
    <2>6. CASE /\ agents[r].status \in {"absent", "running"}
               /\ agents' = [agents EXCEPT ![r] = [status |-> "running", output |-> None]]
               /\ Goes(t, "reason")
        <3>1. [status |-> "running", output |-> None] \in AgentRow  BY DEF AgentRow
        <3>2. AgentsGoOn  BY <1>2, <2>6, <3>1, Typed, AgentGoesOn
        <3>. QED  BY <1>1, <1>4, <2>2, <2>6, <3>2, GoesKeeps DEF Generating
    <2>. QED  BY <1>6, <2>3, <2>4, <2>5, <2>6 DEF ClaimNarrative
<1>. QED  BY <1>5, <1>6

LEMMA AgentFails ==
    ASSUME IInv, NEW r \in Run,
           agents' = IF agents[r].status = "running"
                     THEN [agents EXCEPT ![r].status = "failed"] ELSE agents
    PROVE  AgentsGoOn
<1>1. ASSUME NEW row \in AgentRow
      PROVE  LET new == [row EXCEPT !.status = "failed"] IN new \in AgentRow /\ new.output = row.output
    BY DEF AgentRow
<1>2. CASE agents[r].status = "running"
    <2>1. agents' = [agents EXCEPT ![r] = [agents[r] EXCEPT !.status = "failed"]]
          /\ agents[r] \in AgentRow /\ agents[r].output = None
        BY <1>2, Typed DEF RunsTyped, RunInv
    <2>2. PICK new \in AgentRow : agents' = [agents EXCEPT ![r] = new] /\ new.output = None
        BY <1>1, <2>1
    <2>. QED  BY <1>2, <2>2, Typed, AgentGoesOn
<1>3. CASE agents[r].status # "running"  BY <1>3, Typed, RunsSame
<1>. QED  BY <1>2, <1>3

LEMMA AnswerKeeps == ASSUME IInv, NEW t \in Attempt, Answer(t) PROVE Kept
<1>. DEFINE r == RunOf(t)
<1>1. attempts[t].pc = "reason" /\ attempts[t].pc \in Generating \ {"persist"}
    BY DEF Answer, Generating
<1>2. r \in Run  BY <1>1, AtWork
<1>3. UNCHANGED <<issue, reports, runs, artifacts, proofs, alerts, views, jobs, faults>>
    BY DEF Answer
<1>4. AgentsGoOn => WorksOn
    BY <1>3, Typed, RunsSame DEF WorksOn, JobsTyped
<1>5. CASE /\ agents' = IF agents[r].status = "running"
                        THEN [agents EXCEPT ![r] = [status |-> "succeeded", output |-> t]]
                        ELSE agents
           /\ attempts' = [attempts EXCEPT ![t].pc = "persist", ![t].prose = agents'[r].output]
    <2>1. CASE agents[r].status = "running"
        <3>1. [status |-> "succeeded", output |-> t] \in AgentRow  BY DEF AgentRow
        <3>2. AgentsGoOn /\ agents'[r] = [status |-> "succeeded", output |-> t]
            BY <1>2, <1>5, <2>1, <3>1, Typed, AgentGoesOn
        <3>3. agents'[r].output = t  BY <3>2
        <3>. QED  BY <1>1, <1>4, <1>5, <3>2, <3>3, ProseKeeps
    <2>2. CASE agents[r].status # "running"
        <3>1. AgentsGoOn /\ agents' = agents  BY <1>5, <2>2, Typed, RunsSame
        <3>2. agents[r] \in AgentRow  BY <1>2, Typed DEF RunsTyped
        <3>3. /\ agents[r].output \in Attempt \cup {None}
              /\ agents[r].output # None => agents[r] = [status |-> "succeeded", output |-> agents[r].output]
            BY <1>2, <3>2, Typed DEF AgentRow, RunInv
        <3>4. /\ attempts' = [attempts EXCEPT ![t].pc = "persist", ![t].prose = agents[r].output]
              /\ agents[r].output # None => agents'[r] = [status |-> "succeeded", output |-> agents[r].output]
            BY <1>5, <3>1, <3>3
        <3>. QED  BY <1>1, <1>4, <3>1, <3>3, <3>4, ProseKeeps
    <2>. QED  BY <2>1, <2>2
<1>6. CASE /\ agents' = IF agents[r].status = "running"
                        THEN [agents EXCEPT ![r].status = "failed"] ELSE agents
           /\ Goes(t, "persist")
    <2>1. AgentsGoOn  BY <1>2, <1>6, AgentFails
    <2>. QED  BY <1>1, <1>4, <1>6, <2>1, GoesKeeps DEF Generating
<1>. QED  BY <1>5, <1>6 DEF Answer

LEMMA StoreDraftKeeps ==
    ASSUME IInv, NEW t \in Attempt, attempts[t].pc = "persist", runs[RunOf(t)].status \in ActiveRun,
           ~Stale(RunOf(t)), StoreDraft(t),
           UNCHANGED <<agents, artifacts, proofs, alerts, views, jobs, faults>>
    PROVE  Kept
<1>. DEFINE r == RunOf(t)
            d == [run |-> r, packet |-> attempts[t].packet, prose |-> attempts[t].prose]
            v == IF issue.candidate # 0 THEN issue.candidate ELSE r
<1>1. attempts[t].pc \in Generating  BY DEF Generating
<1>2. r \in Run /\ attempts[t] \in AttemptState /\ attempts[t].pc # "idle"
      /\ attempts[t].work \in Work
    BY <1>1, AtWork
<1>3. d \in Stamped  BY <1>2 DEF AttemptState, Stamped
<1>4. CaseInv' /\ Lasts /\ Frozen /\ Stores(r, d)
    BY <1>2, <1>3, Typed, StoreKeeps DEF RunsTyped
<1>5. runs' = [runs EXCEPT ![r].status = "succeeded", ![r].result = v] /\ Ends(t, "completed")
    BY DEF StoreDraft
<1>6. v \in Id(Report)
    BY <1>2, Typed DEF CaseInv, CaseTyped, Id, Report
<1>7. d.run = r /\ d.prose = attempts[t].prose  OBVIOUS
<1>8. d.prose # None => agents'[d.run] = [status |-> "succeeded", output |-> d.prose]
    BY <1>1, <1>7, Typed DEF AttemptInv, Sane, RunOf
<1>. HIDE DEF v, d
<1>9. RunsGoOn
    <2>1. ASSUME NEW row \in RunRow
          PROVE  LET new == [row EXCEPT !.status = "succeeded", !.result = v] IN
                 new \in RunRow /\ new.status = "succeeded"
        BY <1>6 DEF RunRow
    <2>2. runs[r] \in RunRow /\ runs' = [runs EXCEPT ![r] = [runs[r] EXCEPT !.status = "succeeded", !.result = v]]
        BY <1>2, <1>5, Typed DEF RunsTyped
    <2>3. PICK new \in RunRow : runs' = [runs EXCEPT ![r] = new] /\ new.status = "succeeded"
        BY <2>1, <2>2
    <2>. QED  BY <1>2, <2>3, Typed, RunGoesOn
<1>10. AgentsGoOn /\ Remembered  BY Typed, RunsSame DEF AgentsGoOn
<1>11. PICK st \in AttemptState : /\ attempts' = [attempts EXCEPT ![t] = st]
                                  /\ st.pc = "end" /\ st.work = attempts[t].work
    BY <1>5, Typed, EndsTo
<1>12. AttemptsTyped' /\ AttemptInv'
    BY <1>2, <1>4, <1>10, <1>11, Ended, Typed, AttemptGoes
<1>13. ViewInv' /\ views' \in [Person -> View]  BY <1>4, Typed, ViewsKept
<1>14. JobsTyped' /\ faults' \in Nat  BY Typed DEF JobsTyped
<1>15. RunsKept  BY <1>9, <1>10, BothGoOn
<1>. QED  BY <1>2, <1>3, <1>4, <1>8, <1>12, <1>13, <1>14, <1>15 DEF Kept

LEMMA PersistDraftKeeps == ASSUME IInv, NEW t \in Attempt, PersistDraft(t) PROVE Kept
<1>. DEFINE r == RunOf(t)
<1>1. attempts[t].pc = "persist" /\ attempts[t].pc \in Generating
    BY DEF PersistDraft, Generating
<1>2. r \in Run /\ attempts[t].pc # "idle"  BY <1>1, AtWork
<1>3. UNCHANGED <<agents, artifacts, proofs, alerts, views, jobs, faults>>  BY DEF PersistDraft
<1>4. RunsGoOn /\ UNCHANGED <<issue, reports>> => WorksOn
    BY <1>3, Typed, RunsSame DEF WorksOn, JobsTyped
<1>5. CASE Ends(t, "failed") /\ UNCHANGED <<issue, reports, runs>>
    BY <1>2, <1>4, <1>5, Typed, RunsSame, EndKeeps
<1>6. CASE /\ runs[r].status \in ActiveRun
           /\ runs' = [runs EXCEPT ![r].status = "stale"]
           /\ Ends(t, "completed")
           /\ UNCHANGED <<issue, reports>>
    <2>1. RunsGoOn  BY <1>2, <1>6, Typed, RunStatusGoesOn DEF RunStatus, ActiveRun
    <2>. QED  BY <1>2, <1>4, <1>6, <2>1, EndKeeps
<1>7. CASE runs[r].status \in ActiveRun /\ ~Stale(r) /\ StoreDraft(t)
    BY <1>1, <1>3, <1>7, StoreDraftKeeps
<1>. QED  BY <1>5, <1>6, <1>7 DEF PersistDraft

LEMMA RefuseGenerationKeeps == ASSUME IInv, NEW t \in Attempt, RefuseGeneration(t) PROVE Kept
<1>. DEFINE r == RunOf(t)
<1>1. attempts[t].pc \in Generating  BY DEF RefuseGeneration, Generating
<1>2. r \in Run /\ attempts[t].pc # "idle"  BY <1>1, AtWork
<1>3. /\ Ends(t, "failed") /\ Fails
      /\ UNCHANGED <<issue, reports, agents, artifacts, proofs, alerts, views, jobs>>
      /\ runs' = IF runs[r].status \in ActiveRun THEN [runs EXCEPT ![r].status = "failed"] ELSE runs
    BY DEF RefuseGeneration
<1>4. RunsGoOn
    <2>1. CASE runs[r].status \in ActiveRun
        BY <1>2, <1>3, <2>1, Typed, RunStatusGoesOn DEF RunStatus, ActiveRun
    <2>2. CASE runs[r].status \notin ActiveRun  BY <1>3, <2>2, Typed, RunsSame
    <2>. QED  BY <2>1, <2>2
<1>5. WorksOn  BY <1>3, <1>4, Typed, RunsSame, FailsKeeps DEF WorksOn, JobsTyped
<1>. QED  BY <1>2, <1>3, <1>5, EndKeeps

----------------------------------------------------------------------------
(* Renderings *)

LEMMA StatusMoves ==
    ASSUME ArtifactsTyped, ArtifactInv, NEW a \in Artifact, artifacts[a].status \in ActiveArtifact,
           NEW s \in {"running", "failed", "expired"}, artifacts' = [artifacts EXCEPT ![a].status = s]
    PROVE  Moves(a)
<1>1. artifacts[a] \in ArtifactRow  BY DEF ArtifactsTyped
<1>2. ASSUME NEW row \in ArtifactRow
      PROVE  LET new == [row EXCEPT !.status = s] IN
             /\ new \in ArtifactRow /\ new.status = s
             /\ new.report = row.report /\ new.digest = row.digest
    BY DEF ArtifactRow, LiveArtifact, ActiveArtifact
<1>3. artifacts' = [artifacts EXCEPT ![a] = [artifacts[a] EXCEPT !.status = s]]  OBVIOUS
<1>. QED  BY <1>1, <1>2, <1>3 DEF Moves

\* Runs and jobs are left alone, and somebody works on an artifact.
LEMMA RendersOn ==
    ASSUME IInv, UNCHANGED <<issue, reports, runs, agents, proofs, alerts, views>>,
           JobsTyped', faults' \in Nat, UNCHANGED artifacts \/ \E a \in Artifact : Moves(a)
    PROVE  WorksOn
BY Typed, RunsSame DEF WorksOn

LEMMA AtRendering ==
    ASSUME IInv, NEW t \in Attempt, attempts[t].pc = "render"
    PROVE  /\ attempts[t] \in AttemptState /\ attempts[t].work \in Work /\ ArtifactOf(t) \in Artifact
           /\ artifacts[ArtifactOf(t)].digest = attempts[t].digest
BY Typed, Works DEF AttemptInv, AttemptsTyped, Sane, ArtifactOf

LEMMA ClaimArtifactKeeps ==
    ASSUME IInv, NEW t \in Attempt, NEW a \in Artifact, ClaimArtifact(t, a)
    PROVE  Kept
<1>. DEFINE w == <<"artifact", a>>
<1>1. w \in Work /\ w[1] = "artifact" /\ w[2] = a /\ None \in Digest  BY Works DEF Digest
<1>2. UNCHANGED <<issue, reports, runs, agents, proofs, alerts, views, faults>> /\ faults' \in Nat
    BY Typed DEF ClaimArtifact
<1>3. ArtifactsTyped /\ ArtifactInv /\ artifacts[a] \in ArtifactRow
    BY Typed DEF CaseInv, CaseTyped, ArtifactsTyped
<1>. HIDE DEF w
<1>4. CASE /\ artifacts[a].status \in ActiveArtifact
           /\ Taken(t, w, "render", artifacts[a].digest)
           /\ artifacts' = [artifacts EXCEPT ![a].status = "running"]
    <2>1. artifacts[a].digest \in Digest  BY <1>3 DEF ArtifactRow
    <2>2. JobsTyped' /\ \E v \in AttemptState :
            /\ attempts' = [attempts EXCEPT ![t] = v]
            /\ v.pc = "render" /\ v.work = w /\ v.prose = None /\ v.digest = artifacts[a].digest
        BY <1>1, <1>4, <2>1, Typed, TakenBy
    <2>3. PICK v \in AttemptState :
            /\ attempts' = [attempts EXCEPT ![t] = v]
            /\ v.pc = "render" /\ v.work = w /\ v.prose = None /\ v.digest = artifacts[a].digest
        BY <2>2
    <2>4. Moves(a)  BY <1>3, <1>4, StatusMoves
    <2>5. WorksOn  BY <1>2, <2>2, <2>4, RendersOn
    <2>6. artifacts'[a].status = "running" /\ artifacts'[a].digest = artifacts[a].digest
        BY <1>3, <1>4 DEF ArtifactRow, ArtifactsTyped
    <2>7. Sane(v, agents', artifacts')  BY <1>1, <2>3, <2>6 DEF Sane, Generating
    <2>. QED  BY <2>3, <2>5, <2>7, GoneOn
<1>5. CASE /\ Taken(t, w, "end", None)
           /\ artifacts' = IF artifacts[a].status \in ActiveArtifact
                           THEN [artifacts EXCEPT ![a].status = "failed"] ELSE artifacts
    <2>1. JobsTyped' /\ \E v \in AttemptState :
            attempts' = [attempts EXCEPT ![t] = v] /\ v.pc = "end" /\ v.work = w
        BY <1>1, <1>5, Typed, TakenBy
    <2>2. PICK v \in AttemptState :
            attempts' = [attempts EXCEPT ![t] = v] /\ v.pc = "end" /\ v.work = w
        BY <2>1
    <2>3. UNCHANGED artifacts \/ Moves(a)  BY <1>3, <1>5, StatusMoves
    <2>4. WorksOn  BY <1>2, <2>1, <2>3, RendersOn
    <2>. QED  BY <1>1, <2>2, <2>4, Ended, GoneOn
<1>. QED  BY <1>4, <1>5 DEF ClaimArtifact, w

LEMMA StageArtifactKeeps == ASSUME IInv, NEW t \in Attempt, StageArtifact(t) PROVE Kept
<1>. DEFINE a == ArtifactOf(t)
<1>1. attempts[t].pc = "render" /\ attempts[t].pc # "idle"  BY DEF StageArtifact
<1>2. a \in Artifact /\ artifacts[a].digest = attempts[t].digest  BY <1>1, AtRendering
<1>3. /\ UNCHANGED <<issue, reports, runs, agents, proofs, alerts, views, jobs, faults>>
      /\ JobsTyped' /\ faults' \in Nat
    BY Typed DEF StageArtifact, JobsTyped
<1>4. ArtifactsTyped /\ ArtifactInv /\ artifacts[a] \in ArtifactRow
    BY <1>2, Typed DEF CaseInv, CaseTyped, ArtifactsTyped
<1>5. \E how \in {"completed", "failed"} : Ends(t, how)  BY DEF StageArtifact
<1>6. UNCHANGED artifacts \/ Moves(a)
    <2>1. CASE artifacts' = [artifacts EXCEPT ![a].status = "expired"] /\ artifacts[a].status \in ActiveArtifact
        BY <1>2, <1>4, <2>1, StatusMoves
    <2>2. CASE /\ artifacts[a].status \in ActiveArtifact
               /\ artifacts' = [artifacts EXCEPT ![a].status = "staged", ![a].bytes = attempts[t].digest]
        <3>1. ASSUME NEW row \in ArtifactRow
              PROVE  LET new == [row EXCEPT !.status = "staged", !.bytes = row.digest] IN
                     /\ new \in ArtifactRow /\ new.status = "staged" /\ new.bytes = new.digest
                     /\ new.report = row.report /\ new.digest = row.digest
            BY DEF ArtifactRow, LiveArtifact
        <3>2. artifacts' = [artifacts EXCEPT ![a] = [artifacts[a] EXCEPT !.status = "staged", !.bytes = artifacts[a].digest]]
            BY <1>2, <1>4, <2>2 DEF ArtifactsTyped
        <3>. QED  BY <1>4, <2>2, <3>1, <3>2 DEF Moves
    <2>. QED  BY <2>1, <2>2 DEF StageArtifact
<1>7. WorksOn  BY <1>2, <1>3, <1>6, RendersOn
<1>. QED  BY <1>1, <1>5, <1>7, EndKeeps

LEMMA RefuseArtifactKeeps == ASSUME IInv, NEW t \in Attempt, RefuseArtifact(t) PROVE Kept
<1>. DEFINE a == ArtifactOf(t)
<1>1. attempts[t].pc = "render" /\ attempts[t].pc # "idle"  BY DEF RefuseArtifact
<1>2. a \in Artifact  BY <1>1, AtRendering
<1>3. /\ UNCHANGED <<issue, reports, runs, agents, proofs, alerts, views, jobs>>
      /\ JobsTyped' /\ faults' \in Nat
    BY Typed, FailsKeeps DEF RefuseArtifact, JobsTyped
<1>4. UNCHANGED artifacts \/ Moves(a)
    BY <1>2, Typed, StatusMoves DEF RefuseArtifact, CaseInv, CaseTyped
<1>5. WorksOn  BY <1>2, <1>3, <1>4, RendersOn
<1>. QED  BY <1>1, <1>5, EndKeeps DEF RefuseArtifact

----------------------------------------------------------------------------
(* The queue, mishaps and the recovery scan *)

LEMMA ThrowsKeeps == ASSUME IInv, NEW t \in Attempt, Throws(t) PROVE Kept
<1>1. WorksOn  BY Typed, FailsKeeps, QuietWorks DEF Throws, JobsTyped
<1>. QED  BY <1>1, EndKeeps DEF Throws

LEMMA CrashKeeps == ASSUME IInv, NEW t \in Attempt, Crash(t) PROVE Kept
<1>1. WorksOn  BY Typed, FailsKeeps, QuietWorks DEF Crash, JobsTyped
<1>. QED  BY <1>1, IdleKeeps DEF Crash

LEMMA EndAttemptKeeps == ASSUME IInv, NEW t \in Attempt, EndAttempt(t) PROVE Kept
<1>. DEFINE w == attempts[t].work
            retry == attempts[t].ends = "retry"
            state == IF retry THEN "waiting" ELSE attempts[t].ends
<1>1. attempts[t] \in AttemptState /\ w \in Work
    BY Typed DEF EndAttempt, AttemptsTyped, AttemptInv, Sane
<1>2. state \in JobState /\ retry \in BOOLEAN /\ None \in Attempt \cup {None}
    BY <1>1 DEF AttemptState, JobState
<1>3. \/ jobs' = jobs
      \/ jobs' = [jobs EXCEPT ![w].state = state, ![w].holder = None, ![w].again = @ \/ retry]
    BY DEF EndAttempt
<1>. HIDE DEF w, retry, state
<1>4. JobsTyped'
    <2>1. CASE jobs' = jobs  BY <2>1, Typed DEF JobsTyped
    <2>2. CASE jobs' = [jobs EXCEPT ![w].state = state, ![w].holder = None, ![w].again = @ \/ retry]
        BY <1>1, <1>2, <2>2, Typed, JobWritten
    <2>. QED  BY <1>3, <2>1, <2>2
<1>5. UNCHANGED <<ledgerVars, views, faults>> /\ attempts' = [attempts EXCEPT ![t] = NoAttempt]
    BY DEF EndAttempt
<1>6. WorksOn  BY <1>4, <1>5, Typed, QuietWorks
<1>. QED  BY <1>5, <1>6, IdleKeeps

LEMMA HandedOutKeeps ==
    ASSUME IInv, NEW w \in Work, HandedOut(w), UNCHANGED <<ledgerVars, views, attempts>>, faults' \in Nat
    PROVE  Kept
<1>1. JobsTyped'
    <2>1. PICK state \in {"waiting", "failed"} :
            jobs' = [jobs EXCEPT ![w].state = state, ![w].holder = None]
        BY DEF HandedOut
    <2>2. state \in JobState /\ None \in Attempt \cup {None}  BY DEF JobState
    <2>. QED  BY <2>1, <2>2, Typed, JobWritten
<1>. QED  BY <1>1, QuietWorks, NobodyKeeps

LEMMA StallKeeps == ASSUME IInv, NEW w \in Work, Stall(w) PROVE Kept
BY Typed, HandedOutKeeps DEF Stall

LEMMA LockLostKeeps == ASSUME IInv, NEW w \in Work, LockLost(w) PROVE Kept
BY Typed, FailsKeeps, HandedOutKeeps DEF LockLost

LEMMA RecoverKeeps == ASSUME IInv, NEW w \in Work, Recover(w) PROVE Kept
<1>1. jobs[w].recovered + 1 \in Nat  BY Typed DEF JobsTyped, Job
<1>2. ASSUME NEW n \in Nat
      PROVE  [NoJob EXCEPT !.state = "waiting", !.again = TRUE, !.recovered = n] \in Job
    BY DEF NoJob, Job
<1>3. JobsTyped'  BY <1>1, <1>2, Typed DEF Recover, JobsTyped
<1>. QED  BY <1>3, Typed, QuietWorks, NobodyKeeps DEF Recover

LEMMA GiveUpKeeps == ASSUME IInv, NEW w \in Work, GiveUp(w) PROVE Kept
<1>1. UNCHANGED <<issue, reports, proofs, alerts, views, jobs, faults, attempts>>
      /\ JobsTyped' /\ faults' \in Nat
    BY Typed DEF GiveUp, JobsTyped
<1>2. CASE /\ w[1] = "run"
           /\ runs' = [runs EXCEPT ![w[2]].status = "failed"]
           /\ agents' = IF agents[w[2]].status = "running"
                        THEN [agents EXCEPT ![w[2]].status = "failed"] ELSE agents
           /\ UNCHANGED artifacts
    <2>1. w[2] \in Run /\ runs[w[2]].status \in ActiveRun
        BY <1>2, Works DEF GiveUp, Unfinished
    <2>2. RunsGoOn
        BY <1>2, <2>1, Typed, RunStatusGoesOn DEF RunStatus, ActiveRun
    <2>3. AgentsGoOn  BY <1>2, <2>1, AgentFails
    <2>4. WorksOn  BY <1>1, <1>2, <2>2, <2>3 DEF WorksOn
    <2>. QED  BY <1>1, <2>4, NobodyKeeps
<1>3. CASE /\ w[1] = "artifact"
           /\ artifacts' = [artifacts EXCEPT ![w[2]].status = "failed"]
           /\ UNCHANGED <<runs, agents>>
    <2>1. w[2] \in Artifact /\ artifacts[w[2]].status \in ActiveArtifact
        BY <1>3, Works DEF GiveUp, Unfinished
    <2>2. Moves(w[2])  BY <1>3, <2>1, Typed, StatusMoves DEF CaseInv, CaseTyped
    <2>3. WorksOn  BY <1>1, <1>3, <2>1, <2>2, RendersOn
    <2>. QED  BY <1>1, <2>3, NobodyKeeps
<1>. QED  BY <1>2, <1>3 DEF GiveUp

----------------------------------------------------------------------------
(* People *)

LEMMA PersonKeeps ==
    ASSUME IInv, CaseInv', Lasts, Frozen, SameSaying, UNCHANGED <<runs, agents, attempts, views>>,
           JobsTyped', faults' \in Nat
    PROVE  Kept
<1>1. RunsGoOn /\ AgentsGoOn /\ Remembered  BY Typed, RunsSame DEF AgentsGoOn
<1>2. AttemptsTyped' /\ AttemptInv'
    BY <1>1, Typed, AttemptsKept
<1>3. ViewInv' /\ views' \in [Person -> View]  BY Typed, ViewsKept
<1>. QED  BY <1>1, <1>2, <1>3, BothGoOn DEF Kept

LEMMA OrderWritten ==
    ASSUME IInv, NEW a \in Artifact, NEW v, NEW rows, OrderRendering(a, v, rows)
    PROVE  JobsTyped' /\ faults' \in Nat
<1>1. <<"artifact", a>> \in Work /\ "waiting" \in JobState /\ None \in Attempt \cup {None}
    BY Works DEF JobState
<1>2. faults' \in Nat  BY Typed, PaysKeeps DEF OrderRendering
<1>3. \/ jobs' = [jobs EXCEPT ![<<"artifact", a>>].state = "waiting"]
      \/ jobs' = jobs
    BY DEF OrderRendering, Enqueued
<1>4. CASE jobs' = [jobs EXCEPT ![<<"artifact", a>>].state = "waiting"]
    BY <1>1, <1>2, <1>4, Typed, JobWritten
<1>5. CASE jobs' = jobs  BY <1>2, <1>5, Typed DEF JobsTyped
<1>. QED  BY <1>3, <1>4, <1>5

LEMMA LookKeeps ==
    ASSUME IInv, NEW c \in Person, NEW a \in Id(Artifact), Look(c, a), UNCHANGED attempts
    PROVE  Kept
<1>. DEFINE v == issue.candidate
            seen == [report |-> v, version |-> reports[v].version, digest |-> reports[v].digest,
                     artifact |-> a]
<1>1. /\ v \in Report /\ reports[v] \in ReportRow
      /\ a # 0 => artifacts[a].report = v /\ artifacts[a].status = "staged"
      /\ views' = [views EXCEPT ![c] = seen]
      /\ UNCHANGED <<ledgerVars, jobs, faults>>
    BY Typed DEF Look, CaseInv, CaseTyped, Id, ReportsTyped
<1>2. seen \in View /\ seen.report = v /\ seen.artifact = a
    BY <1>1 DEF View, ReportRow, Id
<1>. HIDE DEF v, seen
<1>3. views' \in [Person -> View]  BY <1>1, <1>2, Typed
<1>4. ViewInv'
    <2>. SUFFICES ASSUME NEW d \in Person, views'[d].artifact # 0
                  PROVE  /\ artifacts[views'[d].artifact].status # "absent"
                         /\ artifacts[views'[d].artifact].report = views'[d].report
        BY <1>1 DEF ViewInv, ledgerVars
    <2>1. CASE d = c  BY <1>1, <1>2, <2>1, Typed
    <2>2. CASE d # c  BY <1>1, <2>2, Typed DEF ViewInv
    <2>. QED  BY <2>1, <2>2
<1>5. CaseInv' /\ Lasts /\ Frozen /\ SameSaying  BY <1>1, Typed, WorkKeeps DEF ledgerVars
<1>6. RunsGoOn /\ AgentsGoOn /\ Remembered  BY <1>1, Typed, RunsSame DEF ledgerVars, AgentsGoOn
<1>7. AttemptsTyped' /\ AttemptInv'  BY <1>5, <1>6, Typed, AttemptsKept
<1>8. JobsTyped' /\ faults' \in Nat  BY <1>1, Typed DEF JobsTyped
<1>. QED  BY <1>3, <1>4, <1>5, <1>6, <1>7, <1>8, BothGoOn DEF Kept

LEMMA AdmitGenerationKeeps ==
    ASSUME IInv, NEW r \in Run, NEW bounded \in BOOLEAN, AdmitGeneration(r, bounded), UNCHANGED attempts
    PROVE  Kept
<1>. DEFINE candidate == IF issue.candidate = 0 THEN NoReport ELSE reports[issue.candidate]
            base == [issue |-> issue.version, candidate |-> issue.candidate,
                     version |-> candidate.version, digest |-> candidate.digest,
                     predecessor |-> issue.published]
            row(status) == [NoRun EXCEPT !.status = status, !.bounded_ai = bounded, !.base = base]
<1>1. /\ issue.version \in Nat /\ issue.candidate \in Id(Report) /\ issue.published \in Id(Report)
      /\ ReportsTyped
    BY Typed DEF CaseInv, CaseTyped
<1>2. None \in Digest  BY DEF Digest
<1>3. candidate.version \in Nat /\ candidate.digest \in Digest
    <2>1. CASE issue.candidate = 0  BY <1>2, <2>1 DEF NoReport
    <2>2. CASE issue.candidate # 0
        <3>1. reports[issue.candidate] \in ReportRow  BY <1>1, <2>2 DEF ReportsTyped, Id
        <3>. QED  BY <2>2, <3>1 DEF ReportRow
    <2>. QED  BY <2>1, <2>2
<1>. HIDE DEF candidate
<1>4. base \in [issue : Nat, candidate : Id(Report), version : Nat, digest : Digest, predecessor : Id(Report)]
    BY <1>1, <1>3
<1>. HIDE DEF base
<1>5. ASSUME NEW status \in {"queued", "failed"} PROVE row(status) \in RunRow
    BY <1>2, <1>4 DEF NoRun, RunRow, ActiveRun, Id
<1>. HIDE DEF row
<1>6. /\ runs[r].status = "absent"
      /\ \E status \in {"queued", "failed"} : runs' = [runs EXCEPT ![r] = row(status)]
      /\ jobs' = jobs \/ jobs' = [jobs EXCEPT ![<<"run", r>>].state = "waiting"]
      /\ UNCHANGED <<issue, reports, agents, artifacts, proofs, alerts, views>>
    BY DEF AdmitGeneration, Fresh, Enqueued, row, base, candidate
<1>7. RunsGoOn  BY <1>5, <1>6, Typed, RunGoesOn
<1>8. faults' \in Nat  BY Typed, PaysKeeps DEF AdmitGeneration
<1>9. JobsTyped'
    <2>1. CASE jobs' = jobs  BY <2>1, Typed DEF JobsTyped
    <2>2. CASE jobs' = [jobs EXCEPT ![<<"run", r>>].state = "waiting"]
        <3>1. <<"run", r>> \in Work /\ "waiting" \in JobState /\ None \in Attempt \cup {None}
            BY Works DEF JobState
        <3>. QED  BY <2>2, <3>1, Typed, JobWritten
    <2>. QED  BY <1>6, <2>1, <2>2
<1>10. WorksOn  BY <1>6, <1>7, <1>8, <1>9, Typed, RunsSame DEF WorksOn
<1>. QED  BY <1>10, NobodyKeeps

LEMMA DeskKeeps == ASSUME IInv, DeskNext, UNCHANGED attempts PROVE Kept
<1>1. ASSUME NEW c \in Person, NEW a \in Id(Artifact), Look(c, a) PROVE Kept
    BY <1>1, LookKeeps
<1>2. ASSUME NEW r \in Run, NEW bounded \in BOOLEAN, AdmitGeneration(r, bounded) PROVE Kept
    BY <1>2, AdmitGenerationKeeps
<1>3. ASSUME NEW c \in Person, NEW a \in Artifact, SubmitForReview(c, a) PROVE Kept
    BY <1>3, Typed, SubmitKeeps, OrderWritten, PersonKeeps DEF SubmitForReview
<1>4. ASSUME NEW c \in Person, NEW a \in Artifact, RetryArtifact(c, a) PROVE Kept
    BY <1>4, Typed, RetryKeeps, OrderWritten, PersonKeeps DEF RetryArtifact
<1>5. ASSUME NEW c \in Person, RequestChanges(c) PROVE Kept
    BY <1>5, Typed, ChangesKeep, PersonKeeps DEF RequestChanges, JobsTyped
<1>6. ASSUME NEW c \in Person, Publish(c) PROVE Kept
    BY <1>6, Typed, PublishKeeps, PersonKeeps DEF Publish, JobsTyped
<1>7. ASSUME NEW p \in Proof, InvalidateProof(p) PROVE Kept
    <2>1. UNCHANGED <<runs, agents, views, jobs, faults>>  BY <1>7 DEF InvalidateProof
    <2>2. JobsTyped'  BY <2>1, Typed DEF JobsTyped
    <2>. QED  BY <1>7, <2>1, <2>2, Typed, InvalidateKeeps, PersonKeeps
<1>. QED  BY <1>1, <1>2, <1>3, <1>4, <1>5, <1>6, <1>7 DEF DeskNext

----------------------------------------------------------------------------
(* The invariant *)

LEMMA InitHolds == Init => IInv
<1>. SUFFICES ASSUME Init PROVE IInv
    OBVIOUS
<1>1. /\ issue = [version |-> 0, candidate |-> 0, published |-> 0]
      /\ reports = [v \in Report |-> NoReport]
      /\ runs = [r \in Run |-> NoRun]
      /\ agents = [r \in Run |-> [status |-> "absent", output |-> None]]
      /\ artifacts = [a \in Artifact |-> NoArtifact]
      /\ proofs = [p \in Proof |-> "reviewed"] /\ alerts = {}
      /\ views = [c \in Person |-> NoView] /\ jobs = [w \in Work |-> NoJob] /\ faults = 0
      /\ attempts = [t \in Attempt |-> NoAttempt]
    BY DEF Init, WorkInit, DeskInit, LedgerInit
<1>2. None \in Digest /\ 0 \in Id(Report) /\ 0 \in Id(Artifact) /\ 0 \in Nat
    BY DEF Digest, Id
<1>3. NoReport \in ReportRow /\ NoReport.status = "absent" /\ NoReport.artifact = 0
    BY <1>2 DEF NoReport, ReportRow
<1>4. NoRun \in RunRow /\ NoRun.status = "absent"  BY <1>2 DEF NoRun, RunRow
<1>5. NoArtifact \in ArtifactRow /\ NoArtifact.status = "absent" /\ NoArtifact.report = 0
    BY <1>2 DEF NoArtifact, ArtifactRow
<1>6. NoView \in View /\ NoView.artifact = 0  BY <1>2 DEF NoView, View
<1>7. NoJob \in Job  BY DEF NoJob, Job
<1>8. "absent" \notin Open \cup Delivered \cup LiveArtifact
    BY DEF Open, Delivered, LiveArtifact, ActiveArtifact
<1>9. LedgerTypeOK
    BY <1>1, <1>2, <1>3, <1>4, <1>5 DEF LedgerTypeOK
<1>10. WorkTypeOK  BY <1>1, <1>6, <1>7, <1>9, Idle DEF WorkTypeOK, DeskTypeOK
<1>11. IssueInv /\ ReportInv /\ ProseIsAttributed
    BY <1>1, <1>3, <1>8, Ids
       DEF IssueInv, PointersAreTruth, DeliveredAsReviewed, InvalidEvidenceAlerted, ReportInv, ProseIsAttributed
<1>12. RunInv /\ ArtifactInv
    BY <1>1, <1>3, <1>4, <1>5, <1>8 DEF RunInv, ArtifactInv, Report
<1>13. ViewInv /\ AttemptInv
    BY <1>1, <1>6, Idle DEF ViewInv, AttemptInv, Sane, Generating
<1>. QED  BY <1>10, <1>11, <1>12, <1>13 DEF IInv

LEMMA AttemptKeeps ==
    ASSUME IInv, NEW t \in Attempt,
           Generates(t) \/ Renders(t) \/ EndAttempt(t) \/ Throws(t) \/ Crash(t)
               \/ RefuseGeneration(t) \/ RefuseArtifact(t)
    PROVE  Kept
BY ClaimGenerationKeeps, LoadPacketKeeps, PersistPacketKeeps, ClaimNarrativeKeeps, AnswerKeeps,
   PersistDraftKeeps, ClaimArtifactKeeps, StageArtifactKeeps, EndAttemptKeeps, ThrowsKeeps,
   CrashKeeps, RefuseGenerationKeeps, RefuseArtifactKeeps
   DEF Generates, Renders

LEMMA NextKeeps == ASSUME IInv, [Next]_vars PROVE Kept
<1>1. CASE DeskNext /\ UNCHANGED attempts  BY <1>1, DeskKeeps
<1>2. CASE WorkNext
    BY <1>2, AttemptKeeps, StallKeeps, LockLostKeeps, RecoverKeeps, GiveUpKeeps
       DEF WorkNext, Progress, Mishap
<1>3. CASE UNCHANGED vars
    <2>1. UNCHANGED <<ledgerVars, views, jobs, faults, attempts>>
        BY <1>3 DEF vars, workVars, deskVars
    <2>2. JobsTyped' /\ faults' \in Nat  BY <2>1, Typed DEF JobsTyped
    <2>3. WorksOn  BY <2>1, <2>2, QuietWorks
    <2>. QED  BY <2>1, <2>3, NobodyKeeps
<1>. QED  BY <1>1, <1>2, <1>3 DEF Next

LEMMA Invariant == Spec => []IInv
<1>1. IInv /\ [Next]_vars => IInv'  BY NextKeeps, KeptIsInv
<1>. QED  BY <1>1, InitHolds, PTL DEF Spec

----------------------------------------------------------------------------
(* What is kept of a report *)

\* The rows of the month, what people see, the jobs and the local variables of the attempts
\* have their types.
THEOREM ReportTypes == Spec => []TypeOK
<1>1. IInv => TypeOK  BY DEF IInv, TypeOK
<1>. QED  BY <1>1, Invariant, PTL

\* PointersAreTruth: what the issue's pointers say of the open and the published report is
\* what their rows say, whichever of the three transactions that write them come between.
THEOREM PointersTrue == Spec => []PointersAreTruth
<1>1. IInv => PointersAreTruth  BY DEF IInv, IssueInv
<1>. QED  BY <1>1, Invariant, PTL

\* DeliveredAsReviewed: the staged HTML a customer reads was rendered from the digest that a
\* person reviewed, however late a rendering, a publication or a repeated job came.
THEOREM DeliveredWasReviewed == Spec => []DeliveredAsReviewed
<1>1. IInv => DeliveredAsReviewed  BY DEF IInv, IssueInv
<1>. QED  BY <1>1, Invariant, PTL

\* InvalidEvidenceAlerted: a published report that states an invalidated proof has an alert,
\* whether the proof was invalidated before or after the publication.
THEOREM InvalidatedAlerted == Spec => []InvalidEvidenceAlerted
<1>1. IInv => InvalidEvidenceAlerted  BY DEF IInv, IssueInv
<1>. QED  BY <1>1, Invariant, PTL

\* ProseIsAttributed: the prose of a report is the recorded output of its run's agent run,
\* also when attempts of the run overlap.
THEOREM ProseAttributed == Spec => []ProseIsAttributed
<1>1. IInv => ProseIsAttributed  BY DEF IInv
<1>. QED  BY <1>1, Invariant, PTL

LEMMA AtMostOneIsUsable ==
    ASSUME IInv, NEW v \in Report
    PROVE  Cardinality({a \in ArtifactsOf(v) : artifacts[a].status \in LiveArtifact}) <= 1
<1>. DEFINE S == {a \in ArtifactsOf(v) : artifacts[a].status \in LiveArtifact}
<1>1. \A a, b \in S : a = b
    <2>. SUFFICES ASSUME NEW a \in S, NEW b \in S PROVE a = b
        OBVIOUS
    <2>1. a \in ArtifactsOf(v) /\ b \in ArtifactsOf(v) /\ a \in Nat /\ b \in Nat
        BY Ids DEF ArtifactsOf
    <2>2. \A x \in S : \A y \in ArtifactsOf(v) : y <= x
        BY DEF IInv, ArtifactInv, ArtifactsOf
    <2>3. a <= b /\ b <= a  BY <2>1, <2>2
    <2>. HIDE DEF S
    <2>. QED  BY <2>1, <2>3
<1>. HIDE DEF S
<1>2. CASE S = {}  BY <1>2, FS_EmptySet DEF S
<1>3. CASE S # {}
    <2>1. PICK a \in S : TRUE  BY <1>3
    <2>2. S = {a}  BY <1>1, <2>1
    <2>3. Cardinality(S) = 1  BY <2>2, FS_Singleton
    <2>. QED  BY <2>3 DEF S
<1>. QED  BY <1>2, <1>3

\* RenderingsBelong: a rendering that can be used is of the report as it is under review or
\* was published, and there is one at most.
THEOREM RenderingsKept == Spec => []RenderingsBelong
<1>1. IInv => RenderingsBelong
    <2>. SUFFICES ASSUME IInv PROVE RenderingsBelong
        OBVIOUS
    <2>1. ASSUME NEW v \in Report, NEW a \in ArtifactsOf(v), artifacts[a].status \in LiveArtifact
          PROVE  \/ reports[v].status = "ready_for_review" /\ artifacts[a].digest = reports[v].digest
                 \/ reports[v].artifact = a
        BY <2>1 DEF IInv, ArtifactInv, ArtifactsOf, InUse
    <2>. QED  BY <2>1, AtMostOneIsUsable DEF RenderingsBelong
<1>. QED  BY <1>1, Invariant, PTL

\* SayingIsFrozen: no transaction changes what a report under review or delivered says, and
\* a published report only gives way to its correction.
THEOREM SayingFrozen == Spec => SayingIsFrozen
<1>. DEFINE A == \A v \in Report :
        /\ reports[v].status # "draft" /\ reports[v].status # "absent" =>
                reports'[v].digest = reports[v].digest
        /\ reports[v].status \in Delivered =>
                /\ reports'[v].status \in Delivered
                /\ reports'[v].artifact = reports[v].artifact
        /\ reports[v].status = "published" /\ reports'[v].status # "published" =>
                reports'[issue'.published].supersedes = v
<1>1. IInv /\ [Next]_vars => [A]_vars  BY NextKeeps DEF Kept, Frozen
<1>2. Spec => [][A]_vars
    <2>. HIDE DEF A
    <2>. QED  BY <1>1, Invariant, PTL DEF Spec
<1>. QED  BY <1>2 DEF SayingIsFrozen
=============================================================================
