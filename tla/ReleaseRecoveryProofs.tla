------------------------- MODULE ReleaseRecoveryProofs -------------------------
(***************************************************************************)
(* Theorems about ReleaseRecovery for every set of plans, rollback points, *)
(* operations, attempts and verification runs, and every number of faults. *)
(*                                                                         *)
(* The invariant has a part for each kind of state: what the ledger says   *)
(* of rollbacks, what an attempt of the job or the scan holds, the queue's *)
(* rollback jobs, and the verification runs.  A second one, IntentInv,     *)
(* says who may be at a point while a restore of it is under way.          *)
(***************************************************************************)
EXTENDS ReleaseRecovery, TLAPS

----------------------------------------------------------------------------
(* The inductive invariant *)

\* A deployment row, in the ledger or in an attempt's hands, with the site as s:
\* a pending rollback has the id of a deploy that a restore made, and a pending
\* deployment that no human has to look at has the evidence of a pending rollback.
RowOK(row, s) ==
    /\ row.evidence.rollback.status = "rollback_pending" =>
            row.evidence.rollback.restored \in s.made
    /\ row.status = "rollback_pending" /\ ~Manual(row) =>
            row.evidence.rollback.status = "rollback_pending"

PointOK(copy, s) == copy.status \in ActiveRollback => copy.restored \in s.made \cup {None}

RestoredOK(row, s) ==
    row.status = "rolled_back" =>
        /\ row.providerDeployId \in s.was
        /\ \/ row.providerDeployId \in s.made
           \/ \E q \in Plan : row.evidence.rollback.point = <<q, row.providerDeployId>>

LedgerInv ==
    /\ LedgerTypeOK
    /\ \A p \in Plan : RowOK(deployments[p], site) /\ RestoredOK(deployments[p], site)
    /\ \A x \in Point : PointOK(points[x], site)
    /\ RolledBackTogether

Loading == {"load_plan", "load_point", "load_row"}

\* What attempt (or scan) a holds: the operation at hand intends a deploy of the
\* point or one a restore made, and what is about to be recorded is published.
LocalOK(a, st, s) ==
    /\ RowOK(st.row, s) /\ PointOK(st.copy, s)
    /\ st.op.status # "none" => st.op.intended \in s.made \cup {st.point[3]}
    /\ (a = RollbackScan /\ st.pc \in Loading) \/ st.pc = "observe" => st.op.status # "none"
    /\ st.pc = "record_pending" => st.restored \in s.made
    /\ st.pc = "record_completed" => st.restored \in s.made \cap s.was
    /\ st.pc = "complete" => st.restored \in s.was \cap (s.made \cup {st.point[3]})

LocalInv ==
    /\ rollbacks \in [RollbackActor -> RollbackState]
    /\ \A a \in RollbackActor : LocalOK(a, rollbacks[a], site)

\* What is published was published.
SiteInv ==
    /\ site \in SiteState
    /\ site.now \in site.was
    /\ faults \in 0..MaxFaults

\* An attempt that is not the final one leaves the job another.
JobInv ==
    /\ rollbackJobs \in [Point -> Queue!Jobs(RollbackSlot)]
    /\ \A x \in Point, a \in RollbackSlot :
        (rollbackJobs[x].holder = a /\ rollbacks[a].point = x /\ ~rollbacks[a].final)
            => rollbackJobs[x].made + 1 < RollbackAttempts

RunInv ==
    /\ VerificationTypeOK
    /\ \A r \in Run : Running(r) => runs[r].plan \in Plan
    /\ \A v \in VerifySlot :
        /\ verifiers[v].pc # "idle" => verifiers[v].run \in Run
        /\ verifiers[v].pc = "persist" => verifiers[v].found \in VerificationOutcome
    /\ \A r \in Run, v \in VerifySlot :
        (runJobs[r].holder = v /\ verifiers[v].run = r /\ ~verifiers[v].final)
            => runJobs[r].made + 1 < VerificationAttempts

IInv == LedgerInv /\ LocalInv /\ SiteInv /\ JobInv /\ RunInv

\* The site's history only grows.
SiteGrows ==
    /\ site' \in SiteState
    /\ site'.now \in site'.was
    /\ site.was \subseteq site'.was
    /\ site.made \subseteq site'.made

----------------------------------------------------------------------------
(* What keeps each part *)

LEMMA OKGrows ==
    ASSUME SiteGrows
    PROVE  /\ \A row : RowOK(row, site) => RowOK(row, site')
           /\ \A row : RestoredOK(row, site) => RestoredOK(row, site')
           /\ \A copy : PointOK(copy, site) => PointOK(copy, site')
           /\ \A a, st : LocalOK(a, st, site) => LocalOK(a, st, site')
<1>1. \A row : RowOK(row, site) => RowOK(row, site')
    BY DEF SiteGrows, RowOK
<1>2. \A row : RestoredOK(row, site) => RestoredOK(row, site')
    BY DEF SiteGrows, RestoredOK
<1>3. \A copy : PointOK(copy, site) => PointOK(copy, site')
    BY DEF SiteGrows, PointOK
<1>4. \A a, st : LocalOK(a, st, site) => LocalOK(a, st, site')
    BY <1>1, <1>3 DEF SiteGrows, LocalOK
<1>. QED  BY <1>1, <1>2, <1>3, <1>4

LEMMA SameSiteGrows ==
    ASSUME SiteInv, UNCHANGED site
    PROVE  SiteGrows
BY DEF SiteInv, SiteGrows

LEMMA LedgerKept ==
    ASSUME LedgerInv, SiteGrows, UNCHANGED ledgerVars
    PROVE  LedgerInv'
BY OKGrows DEF LedgerInv, LedgerTypeOK, RolledBackTogether, ledgerVars

LEMMA LocalKept ==
    ASSUME LocalInv, SiteGrows, UNCHANGED rollbacks
    PROVE  LocalInv'
BY OKGrows DEF LocalInv

LEMMA LocalSet ==
    ASSUME LocalInv, SiteGrows, NEW a \in RollbackActor, NEW st \in RollbackState,
           SetRollback(a, st), LocalOK(a, st, site')
    PROVE  LocalInv'
<1>1. \A b \in RollbackActor : LocalOK(b, rollbacks[b], site')
    BY OKGrows DEF LocalInv
<1>. QED  BY <1>1 DEF LocalInv, SetRollback

LEMMA RowConstants ==
    /\ NoDeployment \in DeploymentRow
    /\ NoPoint \in PointRow
    /\ NoOperation \in OperationAtHand
BY DEF NoDeployment, DeploymentRow, DeploymentStatus, ProviderOperation, Id, NoEvidence,
       Evidence, NoRollback, RollbackTrace, RollbackTraceStatus, NoPoint, PointRow,
       PointStatus, NoOperation, OperationAtHand

\* An attempt that is over, or hands over, holds nothing that matters.
LEMMA EmptyHanded ==
    ASSUME NEW a \in RollbackActor, NEW x \in Point \cup {None}, NEW final \in BOOLEAN,
           NEW err \in RollbackError, NEW pc \in {"idle", "manual_read", "settle"}, NEW s
    PROVE  LET st == [NotRunning EXCEPT !.pc = pc, !.point = x, !.final = final, !.error = err]
           IN  st \in RollbackState /\ LocalOK(a, st, s)
<1>. DEFINE st == [NotRunning EXCEPT !.pc = pc, !.point = x, !.final = final, !.error = err]
<1>2. st \in RollbackState
    BY RowConstants DEF NotRunning, RollbackState, RollbackStep, PlanStatus, Id
<1>3. LocalOK(a, st, s)
    BY DEF NotRunning, LocalOK, RowOK, PointOK, NoDeployment, NoEvidence, NoRollback,
           NoPoint, NoOperation, Loading, ActiveRollback
<1>. QED  BY <1>2, <1>3

LEMMA NotRunningOK ==
    ASSUME NEW a \in RollbackActor, NEW s
    PROVE  NotRunning \in RollbackState /\ LocalOK(a, NotRunning, s)
<1>1. NotRunning \in RollbackState
    BY RowConstants DEF NotRunning, RollbackState, RollbackStep, RollbackError, PlanStatus, Id
<1>2. LocalOK(a, NotRunning, s)
    BY DEF NotRunning, LocalOK, RowOK, PointOK, NoDeployment, NoEvidence, NoRollback,
           NoPoint, NoOperation, Loading, ActiveRollback
<1>. QED  BY <1>1, <1>2

LEMMA LocalOver ==
    ASSUME LocalInv, SiteGrows, NEW a \in RollbackActor, NEW err \in RollbackError,
           Over(a, err) \/ HandOver(a, err)
    PROVE  LocalInv'
<1>1. rollbacks[a].point \in Point \cup {None} /\ rollbacks[a].final \in BOOLEAN
    BY DEF LocalInv, RollbackState
<1>2. PICK pc \in {"manual_read", "settle"} :
        SetRollback(a, [NotRunning EXCEPT !.pc = pc, !.point = rollbacks[a].point,
                                          !.final = rollbacks[a].final, !.error = err])
    BY DEF Over, HandOver
<1>. QED  BY <1>1, <1>2, EmptyHanded, LocalSet

\* The queue's part: the attempt keeps its point and finality, or lets go of both.
LEMMA JobsKept ==
    ASSUME JobInv, LocalInv, UNCHANGED rollbackJobs, NEW a \in RollbackActor, NEW st,
           SetRollback(a, st),
           \/ a = RollbackScan
           \/ st.point = None
           \/ st.point = rollbacks[a].point /\ st.final = rollbacks[a].final
    PROVE  JobInv'
<1>1. \A b \in RollbackActor \ {a} : rollbacks'[b] = rollbacks[b]
    BY DEF SetRollback, LocalInv
<1>2. rollbacks'[a] = st
    BY DEF SetRollback, LocalInv
<1>3. None \notin Point /\ RollbackScan \notin RollbackSlot
    BY RollbackWorkerAssumption DEF Point
<1>. QED  BY <1>1, <1>2, <1>3 DEF JobInv, RollbackActor

LEMMA JobsOver ==
    ASSUME JobInv, LocalInv, UNCHANGED rollbackJobs, NEW a \in RollbackActor, NEW err,
           Over(a, err) \/ HandOver(a, err)
    PROVE  JobInv'
<1>1. PICK pc \in {"manual_read", "settle"} :
        SetRollback(a, [NotRunning EXCEPT !.pc = pc, !.point = rollbacks[a].point,
                                          !.final = rollbacks[a].final, !.error = err])
    BY DEF Over, HandOver
<1>2. LET st == [NotRunning EXCEPT !.pc = pc, !.point = rollbacks[a].point,
                                   !.final = rollbacks[a].final, !.error = err]
      IN  st.point = rollbacks[a].point /\ st.final = rollbacks[a].final
    BY DEF NotRunning
<1>. QED  BY <1>1, <1>2, JobsKept
----------------------------------------------------------------------------
(* What the transactions do to the ledger *)

LEMMA StateParts ==
    ASSUME NEW st \in RollbackState
    PROVE  /\ st.pc \in RollbackStep /\ st.point \in Point \cup {None}
           /\ st.copy \in PointRow /\ st.row \in DeploymentRow
           /\ st.op \in OperationAtHand /\ st.op.operation \in Operation \cup {None}
           /\ st.restored \in Id /\ st.row.providerDeployId \in Id
           /\ st.row.evidence \in Evidence /\ st.row.evidence.rollback \in RollbackTrace
           /\ st.final \in BOOLEAN /\ st.error \in RollbackError
BY DEF RollbackState, DeploymentRow, OperationAtHand, Evidence

LEMMA PointParts ==
    ASSUME NEW x \in Point
    PROVE  /\ x[1] \in Plan /\ x[2] \in Plan /\ x[3] \in ProviderDeploy
           /\ <<x[2], x[3]>> \in Plan \X ProviderDeploy
           /\ x = <<x[1], x[2], x[3]>>
BY DEF Point

\* A write of one point
LEMMA PointWritten ==
    ASSUME LedgerInv, SiteGrows, NEW x \in Point, NEW row \in PointRow, PointOK(row, site'),
           points' = [points EXCEPT ![x] = row],
           UNCHANGED <<plans, versions, deployments>>
    PROVE  LedgerInv'
<1>1. points' \in [Point -> PointRow] /\ \A y \in Point : PointOK(points'[y], site')
    BY OKGrows DEF LedgerInv, LedgerTypeOK, Point
<1>. QED
    BY <1>1, OKGrows DEF LedgerInv, LedgerTypeOK, RolledBackTogether, Point

LEMMA DemotedType ==
    ASSUME versions \in [Version -> VersionStatus], NEW p \in Plan
    PROVE  Demoted(p) \in [Version -> VersionStatus]
BY DEF Demoted, VersionStatus

LEMMA CompletedRows ==
    ASSUME LedgerTypeOK, NEW st \in RollbackState, st.point \in Point, NEW s,
           st.restored \in s.was \cap (s.made \cup {st.point[3]})
    PROVE  /\ Execution(st, "completed") \in PointRow
           /\ PointOK(Execution(st, "completed"), s)
           /\ RolledBackRow(st) \in DeploymentRow
           /\ RolledBackRow(st).status = "rolled_back"
           /\ RowOK(RolledBackRow(st), s)
           /\ RestoredOK(RolledBackRow(st), s)
<1>. USE StateParts
<1>1. Execution(st, "completed") \in PointRow /\ PointOK(Execution(st, "completed"), s)
    BY DEF Execution, PointRow, PointStatus, PointOK, ActiveRollback
<1>2. Trace(st, "completed") \in RollbackTrace
    BY PointParts DEF Trace, RollbackTrace, RollbackTraceStatus
<1>3. deployments[st.point[1]] \in DeploymentRow
    BY PointParts DEF LedgerTypeOK
<1>4. /\ RolledBackRow(st) \in DeploymentRow
      /\ RolledBackRow(st).status = "rolled_back"
      /\ RolledBackRow(st).providerDeployId = st.restored
      /\ RolledBackRow(st).evidence.rollback = Trace(st, "completed")
    BY <1>2, <1>3 DEF RolledBackRow, DeploymentRow, DeploymentStatus, Evidence
<1>5. RowOK(RolledBackRow(st), s)
    BY <1>4 DEF RowOK, Trace
<1>6. RestoredOK(RolledBackRow(st), s)
    <2>1. st.restored \in s.was  OBVIOUS
    <2>2. CASE st.restored \in s.made
        BY <1>4, <2>1, <2>2 DEF RestoredOK
    <2>3. CASE st.restored = st.point[3]
        <3>1. RolledBackRow(st).evidence.rollback.point = <<st.point[2], st.restored>>
            BY <1>4, <2>3 DEF Trace
        <3>. QED  BY <1>4, <2>1, <3>1, PointParts DEF RestoredOK
    <2>. QED  BY <2>2, <2>3
<1>. QED  BY <1>1, <1>4, <1>5, <1>6

LEMMA CompletedLedger ==
    ASSUME LedgerInv, SiteGrows, NEW st \in RollbackState, st.point \in Point,
           st.restored \in site'.was \cap (site'.made \cup {st.point[3]}),
           Completed(st)
    PROVE  LedgerInv'
<1>. DEFINE p == st.point[1]
<1>. DEFINE row == RolledBackRow(st)
<1>. DEFINE execution == Execution(st, "completed")
<1>a. p \in Plan  BY PointParts
<1>b. LedgerTypeOK  BY DEF LedgerInv
<1>1. /\ execution \in PointRow /\ PointOK(execution, site')
      /\ row \in DeploymentRow /\ row.status = "rolled_back"
      /\ RowOK(row, site') /\ RestoredOK(row, site')
    BY <1>b, CompletedRows
<1>2. /\ points' = [points EXCEPT ![st.point] = execution]
      /\ deployments' = [deployments EXCEPT ![p] = row]
      /\ plans' = [plans EXCEPT ![p].status = "rolled_back"]
      /\ versions' = Demoted(p)
    BY DEF Completed, SetPlan
<1>. HIDE DEF row, execution, p
<1>3. points' \in [Point -> PointRow] /\ \A y \in Point : PointOK(points'[y], site')
    BY <1>1, <1>2, OKGrows DEF LedgerInv, LedgerTypeOK, Point
<1>4. /\ deployments' \in [Plan -> DeploymentRow]
      /\ \A q \in Plan : RowOK(deployments'[q], site') /\ RestoredOK(deployments'[q], site')
    BY <1>1, <1>2, <1>a, OKGrows DEF LedgerInv, LedgerTypeOK
<1>5. plans' \in [Plan -> PlanRow]
    BY <1>2, <1>a DEF LedgerInv, LedgerTypeOK, PlanRow, PlanStatus
<1>6. versions' \in [Version -> VersionStatus]
    BY <1>2, <1>a, <1>b, DemotedType DEF LedgerTypeOK
<1>7. RolledBackTogether'
    BY <1>1, <1>2, <1>a DEF LedgerInv, LedgerTypeOK, RolledBackTogether, PlanRow
<1>. QED  BY <1>3, <1>4, <1>5, <1>6, <1>7 DEF LedgerInv, LedgerTypeOK, Point

LEMMA PendedLedger ==
    ASSUME LedgerInv, SiteGrows, NEW st \in RollbackState, st.point \in Point,
           st.restored \in site'.made, MayPend(st), Pended(st)
    PROVE  LedgerInv'
<1>. DEFINE p == st.point[1]
<1>. DEFINE row == PendingRow(st)
<1>. DEFINE execution == Execution(st, "rollback_pending")
<1>. USE StateParts
<1>a. p \in Plan /\ deployments[p] \in DeploymentRow
    BY PointParts DEF LedgerInv, LedgerTypeOK
<1>1. execution \in PointRow /\ PointOK(execution, site')
    BY DEF Execution, PointRow, PointStatus, PointOK, ActiveRollback
<1>2. Trace(st, "rollback_pending") \in RollbackTrace
    BY PointParts DEF Trace, RollbackTrace, RollbackTraceStatus
<1>3. /\ row \in DeploymentRow
      /\ row.status = "rollback_pending"
      /\ row.evidence.rollback = Trace(st, "rollback_pending")
    BY <1>2, <1>a DEF PendingRow, DeploymentRow, DeploymentStatus, ProviderOperation, Evidence
<1>4. RowOK(row, site') /\ RestoredOK(row, site')
    BY <1>3 DEF RowOK, RestoredOK, Trace
<1>5. /\ points' = [points EXCEPT ![st.point] = execution]
      /\ deployments' = [deployments EXCEPT ![p] = row]
      /\ UNCHANGED <<plans, versions>>
    BY DEF Pended
<1>6. deployments[p].status # "rolled_back"
    BY DEF MayPend, OwnGuard, RollbackSource, Live
<1>. HIDE DEF row, execution, p
<1>7. points' \in [Point -> PointRow] /\ \A y \in Point : PointOK(points'[y], site')
    BY <1>1, <1>5, OKGrows DEF LedgerInv, LedgerTypeOK, Point
<1>8. /\ deployments' \in [Plan -> DeploymentRow]
      /\ \A q \in Plan : RowOK(deployments'[q], site') /\ RestoredOK(deployments'[q], site')
    BY <1>3, <1>4, <1>5, <1>a, OKGrows DEF LedgerInv, LedgerTypeOK
<1>9. RolledBackTogether'
    BY <1>3, <1>5, <1>6, <1>a DEF LedgerInv, LedgerTypeOK, RolledBackTogether
<1>. QED  BY <1>5, <1>7, <1>8, <1>9 DEF LedgerInv, LedgerTypeOK, Point

\* markManualReconciliationRequired's write of the deployment
LEMMA ManualLedger ==
    ASSUME LedgerInv, SiteInv, NEW st \in RollbackState, st.point \in Point,
           LET p == st.point[1]
               row == deployments[p]
           IN  deployments' =
                IF ManualSpares(row)
                    THEN deployments
                    ELSE [deployments EXCEPT ![p] =
                            [row EXCEPT
                                !.operation = "manual_reconciliation_required",
                                !.evidence = [st.row.evidence EXCEPT !.rollback =
                                    [@ EXCEPT !.status = "manual_reconciliation_required",
                                              !.point = <<st.point[2], st.point[3]>>]]]],
           UNCHANGED <<plans, versions, points, site>>
    PROVE  LedgerInv'
<1>. DEFINE p == st.point[1]
<1>. DEFINE trace == [st.row.evidence.rollback EXCEPT
                        !.status = "manual_reconciliation_required",
                        !.point = <<st.point[2], st.point[3]>>]
<1>. DEFINE row == [deployments[p] EXCEPT
                        !.operation = "manual_reconciliation_required",
                        !.evidence = [st.row.evidence EXCEPT !.rollback = trace]]
<1>. USE StateParts
<1>a. p \in Plan /\ deployments[p] \in DeploymentRow
    BY PointParts DEF LedgerInv, LedgerTypeOK
<1>1. trace \in RollbackTrace /\ trace.status = "manual_reconciliation_required"
    BY PointParts DEF RollbackTrace, RollbackTraceStatus
<1>2. /\ row \in DeploymentRow
      /\ row.status = deployments[p].status
      /\ row.operation = "manual_reconciliation_required"
      /\ row.evidence.rollback = trace
    BY <1>1, <1>a DEF DeploymentRow, ProviderOperation, Evidence
<1>3. RowOK(row, site)
    BY <1>1, <1>2 DEF RowOK, Manual
<1>4. CASE ManualSpares(deployments[p])
    BY <1>4, SameSiteGrows, LedgerKept DEF ledgerVars
<1>5. CASE ~ManualSpares(deployments[p])
    <2>1. deployments' = [deployments EXCEPT ![p] = row]
        BY <1>5
    <2>2. deployments[p].status # "rolled_back"
        BY <1>5 DEF ManualSpares
    <2>3. RestoredOK(row, site)
        BY <1>2, <2>2 DEF RestoredOK
    <2>. HIDE DEF row, p
    <2>4. /\ deployments' \in [Plan -> DeploymentRow]
          /\ \A q \in Plan : RowOK(deployments'[q], site) /\ RestoredOK(deployments'[q], site)
        BY <1>2, <1>3, <1>a, <2>1, <2>3 DEF LedgerInv, LedgerTypeOK
    <2>5. RolledBackTogether'
        BY <1>2, <1>a, <2>1 DEF LedgerInv, LedgerTypeOK, RolledBackTogether
    <2>. QED  BY <2>4, <2>5 DEF LedgerInv, LedgerTypeOK
<1>. QED  BY <1>4, <1>5
----------------------------------------------------------------------------
(* Steps that leave the ledger alone *)

RollbackInv == LedgerInv /\ LocalInv /\ SiteInv /\ JobInv

FaultsOK == faults' \in 0..MaxFaults

LEMMA FailsOK ==
    ASSUME SiteInv, Fails
    PROVE  FaultsOK
BY RollbackWorkerAssumption DEF SiteInv, Fails, FaultsOK

LEMMA SameFaultsOK ==
    ASSUME SiteInv, UNCHANGED faults
    PROVE  FaultsOK
BY DEF SiteInv, FaultsOK

LEMMA QuietSet ==
    ASSUME RollbackInv, SiteGrows, FaultsOK, UNCHANGED <<ledgerVars, rollbackJobs>>,
           NEW a \in RollbackActor, NEW st \in RollbackState, SetRollback(a, st),
           LocalOK(a, st, site'),
           \/ a = RollbackScan
           \/ st.point = None
           \/ st.point = rollbacks[a].point /\ st.final = rollbacks[a].final
    PROVE  RollbackInv'
<1>1. LedgerInv'  BY LedgerKept DEF RollbackInv
<1>2. LocalInv'  BY LocalSet DEF RollbackInv
<1>3. SiteInv'  BY DEF SiteInv, SiteGrows, FaultsOK
<1>4. JobInv'  BY JobsKept DEF RollbackInv
<1>. QED  BY <1>1, <1>2, <1>3, <1>4 DEF RollbackInv

LEMMA QuietOver ==
    ASSUME RollbackInv, SiteGrows, FaultsOK, UNCHANGED <<ledgerVars, rollbackJobs>>,
           NEW a \in RollbackActor, NEW err \in RollbackError,
           Over(a, err) \/ HandOver(a, err)
    PROVE  RollbackInv'
<1>1. LedgerInv'  BY LedgerKept DEF RollbackInv
<1>2. LocalInv'  BY LocalOver DEF RollbackInv
<1>3. SiteInv'  BY DEF SiteInv, SiteGrows, FaultsOK
<1>4. JobInv'  BY JobsOver DEF RollbackInv
<1>. QED  BY <1>1, <1>2, <1>3, <1>4 DEF RollbackInv

\* A write to the ledger and the end of the attempt
LEMMA WriteOver ==
    ASSUME RollbackInv, SiteInv', FaultsOK, UNCHANGED <<rollbackJobs, site>>, LedgerInv',
           NEW a \in RollbackActor, NEW err \in RollbackError,
           Over(a, err) \/ HandOver(a, err)
    PROVE  RollbackInv'
<1>1. SiteGrows  BY SameSiteGrows DEF RollbackInv
<1>2. LocalInv'  BY <1>1, LocalOver DEF RollbackInv
<1>3. JobInv'  BY JobsOver DEF RollbackInv
<1>. QED  BY <1>2, <1>3 DEF RollbackInv

LEMMA Holding ==
    ASSUME RollbackInv, NEW a \in RollbackActor
    PROVE  /\ rollbacks[a] \in RollbackState
           /\ LocalOK(a, rollbacks[a], site)
           /\ \A step : Doing(a, step) =>
                rollbacks[a].point \in Point /\ PlanOf(a) \in Plan /\ rollbacks[a].pc = step
BY PointParts DEF RollbackInv, LocalInv, Doing, PlanOf

LEMMA LedgerParts ==
    ASSUME RollbackInv
    PROVE  /\ plans \in [Plan -> PlanRow]
           /\ \A p \in Plan : /\ plans[p].status \in PlanStatus
                              /\ deployments[p] \in DeploymentRow
                              /\ RowOK(deployments[p], site)
           /\ \A x \in Point : points[x] \in PointRow /\ PointOK(points[x], site)
BY DEF RollbackInv, LedgerInv, LedgerTypeOK, PlanRow, Point

----------------------------------------------------------------------------
(* The request and the load *)

LEMMA InTraceType ==
    ASSUME NEW row \in DeploymentRow, NEW s \in SiteState, RowOK(row, s),
           row.evidence.rollback.status = "rollback_pending"
    PROVE  LET op == InTrace(row.evidence.rollback) IN
           /\ op \in OperationAtHand
           /\ op.status = "rollback_pending"
           /\ op.intended \in s.made
<1>1. row.evidence.rollback \in RollbackTrace
    BY DEF DeploymentRow, Evidence
<1>2. row.evidence.rollback.restored \in s.made
    BY DEF RowOK
<1>3. s.made \subseteq ProviderDeploy /\ None \notin ProviderDeploy
    BY NoneIsNoId DEF SiteState
<1>. QED
    BY <1>1, <1>2, <1>3 DEF InTrace, OperationAtHand, RollbackTrace, ActiveRollback, Id

LEMMA FoundType ==
    ASSUME NEW x \in Point, NEW copy \in PointRow, NEW row \in DeploymentRow,
           NEW s \in SiteState, RowOK(row, s), PointOK(copy, s)
    PROVE  LET op == Found(x, copy, row) IN
           /\ op \in OperationAtHand
           /\ op = NoOperation \/ op.status # "none"
           /\ op.status # "none" => op.intended \in s.made \cup {x[3]}
<1>1. CASE row.evidence.rollback.status \in ActiveRollback
    <2>1. row.evidence.rollback.status = "rollback_pending"
        BY <1>1 DEF DeploymentRow, Evidence, RollbackTrace, RollbackTraceStatus, ActiveRollback
    <2>2. Found(x, copy, row) = InTrace(row.evidence.rollback)
        BY <1>1 DEF Found
    <2>. QED  BY <2>1, <2>2, InTraceType
<1>2. CASE /\ row.evidence.rollback.status \notin ActiveRollback
           /\ copy.status \in ActiveRollback
    <2>1. Found(x, copy, row) = InPoint(x, copy)
        BY <1>2 DEF Found
    <2>2. InPoint(x, copy) \in OperationAtHand
        BY <1>2, PointParts DEF InPoint, OperationAtHand, PointRow, Id
    <2>3. InPoint(x, copy).intended \in s.made \cup {x[3]}
        BY <1>2 DEF InPoint, PointOK
    <2>4. InPoint(x, copy).status # "none"
        BY <1>2 DEF InPoint, ActiveRollback
    <2>. QED  BY <2>1, <2>2, <2>3, <2>4
<1>3. CASE /\ row.evidence.rollback.status \notin ActiveRollback
           /\ copy.status \notin ActiveRollback
    BY <1>3, RowConstants DEF Found, NoOperation
<1>. QED  BY <1>1, <1>2, <1>3

LEMMA ScanTakesKeeps ==
    ASSUME RollbackInv, NEW p \in Plan, ScanTakes(p)
    PROVE  RollbackInv'
<1>. DEFINE trace == deployments[p].evidence.rollback
<1>1. PICK q \in Plan, d \in ProviderDeploy :
        SetRollback(RollbackScan, [NotRunning EXCEPT
                !.pc = "load_plan", !.point = <<p, q, d>>, !.op = InTrace(trace)])
    BY DEF ScanTakes
<1>. DEFINE st == [NotRunning EXCEPT
                !.pc = "load_plan", !.point = <<p, q, d>>, !.op = InTrace(trace)]
<1>2. trace.status = "rollback_pending" /\ deployments[p] \in DeploymentRow
      /\ RowOK(deployments[p], site) /\ site \in SiteState
    BY LedgerParts DEF ScanTakes, RowOK, RollbackInv, SiteInv
<1>3. /\ InTrace(trace) \in OperationAtHand
      /\ InTrace(trace).status = "rollback_pending"
      /\ InTrace(trace).intended \in site.made
    BY <1>2, InTraceType
<1>4. RollbackScan \in RollbackActor  BY DEF RollbackActor
<1>5. NotRunning \in RollbackState /\ LocalOK(RollbackScan, NotRunning, site)
    BY <1>4, NotRunningOK
<1>6. st \in RollbackState
    BY <1>3, <1>5 DEF RollbackState, RollbackStep, Point
<1>7. /\ st.pc = "load_plan" /\ st.point = <<p, q, d>> /\ st.op = InTrace(trace)
      /\ st.row = NotRunning.row /\ st.copy = NotRunning.copy
    BY <1>5 DEF RollbackState
<1>8. LocalOK(RollbackScan, st, site)
    <2>. HIDE DEF st, trace
    <2>. QED  BY <1>3, <1>5, <1>7 DEF LocalOK
<1>9. SiteGrows /\ FaultsOK /\ site' = site /\ UNCHANGED <<ledgerVars, rollbackJobs>>
    BY SameSiteGrows, SameFaultsOK DEF ScanTakes, RollbackInv
<1>. HIDE DEF st, trace
<1>. QED  BY <1>1, <1>4, <1>6, <1>8, <1>9, QuietSet DEF st, trace

\* A step of an attempt that only reads: the new local state keeps what it holds.
LEMMA LoadKeeps ==
    ASSUME RollbackInv, NEW a \in RollbackActor,
           LoadPlanStatus(a) \/ LoadPoint(a)
    PROVE  RollbackInv'
<1>. DEFINE st == rollbacks[a]
<1>a. st \in RollbackState /\ LocalOK(a, st, site) /\ st.point \in Point /\ PlanOf(a) \in Plan
    BY Holding DEF LoadPlanStatus, LoadPoint
<1>b. st.pc \in Loading
    BY DEF LoadPlanStatus, LoadPoint, Doing, Loading
<1>c. SiteGrows /\ FaultsOK /\ site' = site /\ UNCHANGED <<ledgerVars, rollbackJobs>>
    BY SameSiteGrows, SameFaultsOK DEF LoadPlanStatus, LoadPoint, RollbackInv
<1>1. CASE LoadPlanStatus(a)
    <2>. DEFINE new == [st EXCEPT !.pc = "load_point", !.plan = plans[PlanOf(a)].status]
    <2>1. new \in RollbackState
        BY <1>a, LedgerParts DEF RollbackState, RollbackStep
    <2>2. /\ new.pc = "load_point" /\ new.row = st.row /\ new.copy = st.copy /\ new.op = st.op
          /\ new.point = st.point /\ new.final = st.final
        BY <1>a DEF RollbackState
    <2>3. SetRollback(a, new)  BY <1>1 DEF LoadPlanStatus
    <2>. HIDE DEF new, st
    <2>4. LocalOK(a, new, site)
        BY <1>a, <1>b, <2>2 DEF LocalOK, Loading
    <2>. QED  BY <1>c, <2>1, <2>2, <2>3, <2>4, QuietSet DEF st
<1>2. CASE LoadPoint(a)
    <2>. DEFINE new == [st EXCEPT !.pc = "load_row", !.copy = points[st.point]]
    <2>1. new \in RollbackState /\ PointOK(points[st.point], site)
        BY <1>a, LedgerParts DEF RollbackState, RollbackStep
    <2>2. /\ new.pc = "load_row" /\ new.row = st.row /\ new.copy = points[st.point]
          /\ new.op = st.op /\ new.point = st.point /\ new.final = st.final
        BY <1>a DEF RollbackState
    <2>3. SetRollback(a, new)  BY <1>2 DEF LoadPoint
    <2>. HIDE DEF new, st
    <2>4. LocalOK(a, new, site)
        BY <1>a, <1>b, <2>1, <2>2 DEF LocalOK, Loading
    <2>. QED  BY <1>c, <2>1, <2>2, <2>3, <2>4, QuietSet DEF st
<1>. QED  BY <1>1, <1>2

LEMMA LoadDeploymentKeeps ==
    ASSUME RollbackInv, NEW a \in RollbackActor, LoadDeployment(a)
    PROVE  RollbackInv'
<1>. DEFINE st == rollbacks[a]
<1>. DEFINE row == deployments[PlanOf(a)]
<1>. DEFINE op == Found(st.point, st.copy, row)
<1>a. st \in RollbackState /\ LocalOK(a, st, site) /\ st.point \in Point /\ PlanOf(a) \in Plan
      /\ st.pc = "load_row"
    BY Holding DEF LoadDeployment
<1>b. SiteGrows /\ FaultsOK /\ site' = site /\ UNCHANGED <<ledgerVars, rollbackJobs>>
      /\ site \in SiteState
    BY SameSiteGrows, SameFaultsOK DEF LoadDeployment, RollbackInv, SiteInv
<1>c. row \in DeploymentRow /\ RowOK(row, site)
    BY <1>a, LedgerParts
<1>d. NoPoint \in PointRow /\ PointOK(NoPoint, site)
    BY RowConstants DEF PointOK, NoPoint, ActiveRollback
<1>1. CASE a # RollbackScan
    <2>1. st.copy \in PointRow /\ PointOK(st.copy, site)
        BY <1>a, StateParts DEF LocalOK
    <2>2. /\ op \in OperationAtHand
          /\ op = NoOperation \/ op.status # "none"
          /\ op.status # "none" => op.intended \in site.made \cup {st.point[3]}
        BY <1>a, <1>b, <1>c, <2>1, FoundType
    <2>. DEFINE new == [st EXCEPT
                !.pc = IF op = NoOperation THEN "intent" ELSE "observe",
                !.row = row, !.op = op, !.copy = NoPoint]
    <2>3. \/ Over(a, "none") \/ Over(a, "evidence")
          \/ SetRollback(a, new)
        BY <1>1 DEF LoadDeployment, Proceed
    <2>4. CASE Over(a, "none") \/ Over(a, "evidence")
        BY <1>b, <2>4, QuietOver DEF RollbackError
    <2>5. CASE SetRollback(a, new)
        <3>1. new \in RollbackState
            BY <1>a, <1>c, <1>d, <2>2 DEF RollbackState, RollbackStep
        <3>2. /\ new.pc \in {"intent", "observe"}
              /\ new.pc = "observe" => op # NoOperation
              /\ new.row = row /\ new.op = op /\ new.copy = NoPoint
              /\ new.point = st.point /\ new.final = st.final
            BY <1>a DEF RollbackState
        <3>. HIDE DEF new, st, row, op
        <3>3. LocalOK(a, new, site)
            BY <1>1, <1>c, <1>d, <2>2, <3>2 DEF LocalOK, Loading
        <3>. QED  BY <1>b, <2>5, <3>1, <3>2, <3>3, QuietSet DEF st
    <2>. QED  BY <2>3, <2>4, <2>5
<1>2. CASE a = RollbackScan
    <2>. DEFINE new == [st EXCEPT !.pc = "observe", !.row = row, !.copy = NoPoint]
    <2>1. HandOver(a, "none") \/ SetRollback(a, new)
        BY <1>2 DEF LoadDeployment
    <2>2. CASE HandOver(a, "none")
        BY <1>b, <2>2, QuietOver DEF RollbackError
    <2>3. CASE SetRollback(a, new)
        <3>1. new \in RollbackState
            BY <1>a, <1>c, <1>d DEF RollbackState, RollbackStep
        <3>2. /\ new.pc = "observe" /\ new.row = row /\ new.op = st.op /\ new.copy = NoPoint
              /\ new.point = st.point /\ new.final = st.final
            BY <1>a DEF RollbackState
        <3>. HIDE DEF new, st, row
        <3>3. LocalOK(a, new, site)
            BY <1>2, <1>a, <1>c, <1>d, <3>2 DEF LocalOK, Loading
        <3>. QED  BY <1>b, <2>3, <3>1, <3>2, <3>3, QuietSet DEF st
    <2>. QED  BY <2>1, <2>2, <2>3
<1>. QED  BY <1>1, <1>2
----------------------------------------------------------------------------
(* Intent, restore and outcome *)

LEMMA RecordIntentKeeps ==
    ASSUME RollbackInv, NEW a \in RollbackActor, RecordIntent(a)
    PROVE  RollbackInv'
<1>. DEFINE st == rollbacks[a]
<1>. DEFINE x == st.point
<1>a. st \in RollbackState /\ LocalOK(a, st, site) /\ x \in Point
    BY Holding DEF RecordIntent
<1>b. SiteGrows /\ FaultsOK /\ site' = site /\ SiteInv'
      /\ UNCHANGED <<plans, versions, deployments, rollbackJobs>>
    BY SameSiteGrows, SameFaultsOK DEF RecordIntent, RollbackInv, SiteInv
<1>1. CASE MayIntend(x)
    <2>1. PICK o \in Operation :
            /\ points' = [points EXCEPT ![x] =
                    [status |-> "restore_in_flight", operation |-> o,
                     target |-> st.row.providerDeployId, restored |-> None]]
            /\ SetRollback(a, [st EXCEPT !.pc = "restore", !.op = InPoint(x, points'[x])])
        BY <1>1 DEF RecordIntent
    <2>. DEFINE execution == [status |-> "restore_in_flight", operation |-> o,
                              target |-> st.row.providerDeployId, restored |-> None]
    <2>2. execution \in PointRow /\ PointOK(execution, site)
        BY <1>a, StateParts DEF PointRow, PointStatus, PointOK, Id
    <2>3. LedgerInv'
        BY <1>a, <1>b, <2>1, <2>2, PointWritten DEF RollbackInv
    <2>4. points'[x] = execution
        BY <1>a, <2>1 DEF RollbackInv, LedgerInv, LedgerTypeOK, Point
    <2>5. /\ InPoint(x, execution) \in OperationAtHand
          /\ InPoint(x, execution).status = "restore_in_flight"
          /\ InPoint(x, execution).intended = x[3]
        BY <1>a, <2>2, PointParts DEF InPoint, OperationAtHand, PointRow, Id, ActiveRollback
    <2>. DEFINE new == [st EXCEPT !.pc = "restore", !.op = InPoint(x, execution)]
    <2>6. SetRollback(a, new)  BY <2>1, <2>4
    <2>7. new \in RollbackState
        BY <1>a, <2>5 DEF RollbackState, RollbackStep
    <2>8. /\ new.pc = "restore" /\ new.row = st.row /\ new.copy = st.copy
          /\ new.op = InPoint(x, execution) /\ new.point = x /\ new.final = st.final
        BY <1>a DEF RollbackState
    <2>. HIDE DEF new, execution, st
    <2>9. LocalOK(a, new, site)
        BY <1>a, <2>5, <2>8 DEF LocalOK, Loading
    <2>10. LocalInv' /\ JobInv'
        BY <1>b, <2>6, <2>7, <2>8, <2>9, LocalSet, JobsKept DEF RollbackInv, st
    <2>. QED  BY <1>b, <2>3, <2>10 DEF RollbackInv
<1>2. CASE ~MayIntend(x)
    <2>1. Over(a, "evidence") /\ UNCHANGED ledgerVars
        BY <1>2, <1>b DEF RecordIntent, ledgerVars
    <2>. QED  BY <1>b, <2>1, QuietOver DEF RollbackError
<1>. QED  BY <1>1, <1>2

LEMMA SiteSteps ==
    ASSUME site \in SiteState, site.now \in site.was, NEW r \in ProviderDeploy
    PROVE  /\ site' = Accepted(r) => SiteGrows /\ r \in site'.made
           /\ site' = [Published(r) EXCEPT !.made = @ \cup {r}] =>
                SiteGrows /\ r \in site'.made /\ r \in site'.was
           /\ site' = [Published(r) EXCEPT !.accepted = @ \ {r}] => SiteGrows
           /\ site' = Published(r) => SiteGrows
<1>. DEFINE v == Accepted(r)  w == Published(r)
            x == [w EXCEPT !.made = @ \cup {r}]  y == [w EXCEPT !.accepted = @ \ {r}]
<1>0. /\ v \in SiteState /\ v.now = site.now /\ v.was = site.was /\ v.made = site.made \cup {r}
      /\ w \in SiteState /\ w.now = r /\ w.was = site.was \cup {r} /\ w.made = site.made
    BY DEF SiteState, Accepted, Published
<1>. HIDE DEF v, w
<1>1. x \in SiteState /\ x.now = r /\ x.was = w.was /\ x.made = site.made \cup {r}
    BY <1>0 DEF SiteState
<1>2. y \in SiteState /\ y.now = r /\ y.was = w.was /\ y.made = site.made
    BY <1>0 DEF SiteState
<1>. HIDE DEF x, y
<1>3. /\ site' = v => SiteGrows /\ r \in site'.made
      /\ site' = x => SiteGrows /\ r \in site'.made /\ r \in site'.was
      /\ site' = y => SiteGrows
      /\ site' = w => SiteGrows
    BY <1>0, <1>1, <1>2 DEF SiteGrows
<1>. QED  BY <1>3 DEF v, w, x, y

\* The restore is answered: the attempt holds what the provider named.
LEMMA AnsweredKeeps ==
    ASSUME RollbackInv, SiteGrows, FaultsOK, UNCHANGED <<ledgerVars, rollbackJobs>>,
           NEW a \in RollbackActor, rollbacks[a].pc = "restore", NEW r \in ProviderDeploy,
           NEW pc \in {"record_completed", "record_pending"}, r \in site'.made,
           pc = "record_completed" => r \in site'.was,
           SetRollback(a, [rollbacks[a] EXCEPT !.pc = pc, !.restored = r])
    PROVE  RollbackInv'
<1>. DEFINE st == rollbacks[a]
<1>. DEFINE new == [st EXCEPT !.pc = pc, !.restored = r]
<1>a. st \in RollbackState /\ LocalOK(a, st, site')
    BY Holding, OKGrows
<1>1. new \in RollbackState
    BY <1>a DEF RollbackState, RollbackStep, Id
<1>2. /\ new.pc = pc /\ new.restored = r /\ new.row = st.row /\ new.copy = st.copy
      /\ new.op = st.op /\ new.point = st.point /\ new.final = st.final
    BY <1>a DEF RollbackState
<1>3. SetRollback(a, new)  OBVIOUS
<1>. HIDE DEF new, st
<1>4. LocalOK(a, new, site')
    BY <1>a, <1>2 DEF LocalOK, Loading
<1>. QED  BY <1>1, <1>2, <1>3, <1>4, QuietSet DEF st

LEMMA RefusedKeeps ==
    ASSUME RollbackInv, UNCHANGED <<ledgerVars, rollbackJobs, site, faults>>,
           NEW a \in RollbackActor, rollbacks[a].pc = "restore",
           SetRollback(a, [rollbacks[a] EXCEPT !.pc = "record_refused"])
    PROVE  RollbackInv'
<1>. DEFINE st == rollbacks[a]
<1>. DEFINE new == [st EXCEPT !.pc = "record_refused"]
<1>a. st \in RollbackState /\ LocalOK(a, st, site)  BY Holding
<1>1. new \in RollbackState
    BY <1>a DEF RollbackState, RollbackStep
<1>2. /\ new.pc = "record_refused" /\ new.row = st.row /\ new.copy = st.copy
      /\ new.op = st.op /\ new.point = st.point /\ new.final = st.final
    BY <1>a DEF RollbackState
<1>3. SetRollback(a, new)  OBVIOUS
<1>4. SiteGrows /\ FaultsOK  BY SameSiteGrows, SameFaultsOK DEF RollbackInv
<1>. HIDE DEF new, st
<1>5. LocalOK(a, new, site')
    BY <1>a, <1>2 DEF LocalOK, Loading
<1>. QED  BY <1>1, <1>2, <1>3, <1>4, <1>5, QuietSet DEF st

LEMMA RestoreKeeps ==
    ASSUME RollbackInv, NEW a \in RollbackActor, Restore(a) \/ RestoreThrows(a)
    PROVE  RollbackInv'
<1>. DEFINE st == rollbacks[a]
<1>a. st.point \in Point /\ st.pc = "restore"
    BY Holding DEF Restore, RestoreThrows
<1>b. Restorable(st.point[3]) \subseteq ProviderDeploy
    BY <1>a, PointParts DEF Restorable
<1>c. /\ site \in SiteState /\ site.now \in site.was
      /\ UNCHANGED <<ledgerVars, rollbackJobs>>
    BY DEF Restore, RestoreThrows, RollbackInv, SiteInv
<1>d. FaultsOK
    BY FailsOK, SameFaultsOK DEF Restore, RestoreThrows, RollbackInv
<1>e. UNCHANGED site => SiteGrows  BY SameSiteGrows DEF RollbackInv
<1>1. ASSUME NEW r \in Restorable(st.point[3]), NEW err \in RollbackError,
             site' = Accepted(r), Over(a, err) \/ HandOver(a, err)
      PROVE  RollbackInv'
    BY <1>1, <1>b, <1>c, <1>d, SiteSteps, QuietOver
<1>2. ASSUME NEW err \in RollbackError, UNCHANGED site, Over(a, err) \/ HandOver(a, err)
      PROVE  RollbackInv'
    BY <1>2, <1>c, <1>d, <1>e, QuietOver
<1>3. CASE Restore(a)
    <2>1. ASSUME NEW r \in Restorable(st.point[3]),
                 site' = [Published(r) EXCEPT !.made = @ \cup {r}],
                 SetRollback(a, [st EXCEPT !.pc = "record_completed", !.restored = r])
          PROVE  RollbackInv'
        BY <2>1, <1>a, <1>b, <1>c, <1>d, SiteSteps, AnsweredKeeps
    <2>2. ASSUME NEW r \in Restorable(st.point[3]), site' = Accepted(r),
                 SetRollback(a, [st EXCEPT !.pc = "record_pending", !.restored = r])
          PROVE  RollbackInv'
        BY <2>2, <1>a, <1>b, <1>c, <1>d, SiteSteps, AnsweredKeeps
    <2>3. CASE SetRollback(a, [st EXCEPT !.pc = "record_refused"]) /\ UNCHANGED site
        BY <2>3, <1>3, <1>a, <1>c, RefusedKeeps DEF Restore
    <2>. QED  BY <1>1, <1>2, <1>3, <2>1, <2>2, <2>3 DEF Restore, RollbackError
<1>4. CASE RestoreThrows(a)
    BY <1>1, <1>2, <1>4 DEF RestoreThrows, RollbackError
<1>. QED  BY <1>3, <1>4

\* A completion, with or without an answer
LEMMA CompletesKeeps ==
    ASSUME RollbackInv, NEW a \in RollbackActor,
           rollbacks[a].pc \in {"record_completed", "complete"},
           rollbacks[a].point \in Point, Completed(rollbacks[a]),
           UNCHANGED <<rollbackJobs, site>>, FaultsOK,
           NEW err \in RollbackError, Over(a, err) \/ HandOver(a, err)
    PROVE  RollbackInv'
<1>. DEFINE st == rollbacks[a]
<1>1. st \in RollbackState /\ LocalOK(a, st, site)
    BY Holding
<1>2. st.restored \in site.was \cap (site.made \cup {st.point[3]})
    BY <1>1 DEF LocalOK
<1>3. SiteGrows /\ SiteInv'
    BY SameSiteGrows DEF RollbackInv, SiteInv, FaultsOK
<1>4. LedgerInv'
    BY <1>1, <1>2, <1>3, CompletedLedger DEF RollbackInv
<1>. QED  BY <1>3, <1>4, WriteOver

LEMMA PendsKeeps ==
    ASSUME RollbackInv, NEW a \in RollbackActor, rollbacks[a].pc = "record_pending",
           rollbacks[a].point \in Point, MayPend(rollbacks[a]), Pended(rollbacks[a]),
           UNCHANGED <<rollbackJobs, site>>, FaultsOK,
           NEW err \in RollbackError, Over(a, err)
    PROVE  RollbackInv'
<1>. DEFINE st == rollbacks[a]
<1>1. st \in RollbackState /\ LocalOK(a, st, site)
    BY Holding
<1>2. st.restored \in site.made
    BY <1>1 DEF LocalOK
<1>3. SiteGrows /\ SiteInv'
    BY SameSiteGrows DEF RollbackInv, SiteInv, FaultsOK
<1>4. LedgerInv'
    BY <1>1, <1>2, <1>3, PendedLedger DEF RollbackInv
<1>. QED  BY <1>3, <1>4, WriteOver

LEMMA OutcomeKeeps ==
    ASSUME RollbackInv, NEW a \in RollbackActor,
           \/ RecordCompleted(a) \/ RecordCompletedFails(a)
           \/ RecordPending(a) \/ RecordPendingFails(a) \/ RecordRefused(a)
    PROVE  RollbackInv'
<1>a. UNCHANGED <<rollbackJobs, site>> /\ FaultsOK /\ SiteGrows /\ SiteInv'
    <2>1. UNCHANGED <<rollbackJobs, site>>
        BY DEF RecordCompleted, RecordCompletedFails, RecordPending, RecordPendingFails,
               RecordRefused
    <2>2. FaultsOK
        BY FailsOK, SameFaultsOK
        DEF RecordCompleted, RecordCompletedFails, RecordPending, RecordPendingFails,
            RecordRefused, RollbackInv
    <2>. QED  BY <2>1, <2>2, SameSiteGrows DEF RollbackInv, SiteInv, FaultsOK
<1>1. CASE RecordCompleted(a)
    <2>1. rollbacks[a].point \in Point /\ rollbacks[a].pc = "record_completed"
        BY <1>1, Holding DEF RecordCompleted
    <2>2. \/ Completed(rollbacks[a]) /\ Over(a, "none")
          \/ UNCHANGED ledgerVars /\ HandOver(a, "evidence")
        BY <1>1 DEF RecordCompleted
    <2>. QED  BY <1>a, <2>1, <2>2, CompletesKeeps, QuietOver DEF RollbackError
<1>2. CASE RecordCompletedFails(a)
    <2>1. rollbacks[a].point \in Point /\ rollbacks[a].pc = "record_completed"
        BY <1>2, Holding DEF RecordCompletedFails
    <2>2. (Completed(rollbacks[a]) \/ UNCHANGED ledgerVars) /\ HandOver(a, "other")
        BY <1>2 DEF RecordCompletedFails
    <2>. QED  BY <1>a, <2>1, <2>2, CompletesKeeps, QuietOver DEF RollbackError
<1>3. CASE RecordPending(a) \/ RecordPendingFails(a)
    <2>1. rollbacks[a].point \in Point /\ rollbacks[a].pc = "record_pending"
        BY <1>3, Holding DEF RecordPending, RecordPendingFails
    <2>2. PICK err \in RollbackError :
            /\ Over(a, err)
            /\ \/ MayPend(rollbacks[a]) /\ Pended(rollbacks[a])
               \/ UNCHANGED ledgerVars
        BY <1>3 DEF RecordPending, RecordPendingFails, RollbackError
    <2>. QED  BY <1>a, <2>1, <2>2, PendsKeeps, QuietOver
<1>4. CASE RecordRefused(a)
    <2>. DEFINE st == rollbacks[a]
    <2>. DEFINE execution == [NoPoint EXCEPT !.status = "provider_failed",
                                             !.operation = st.op.operation]
    <2>1. st.point \in Point /\ st \in RollbackState
        BY <1>4, Holding DEF RecordRefused
    <2>2. execution \in PointRow /\ PointOK(execution, site')
        BY <2>1, StateParts, RowConstants
        DEF NoPoint, PointRow, PointStatus, PointOK, ActiveRollback
    <2>3. /\ points' = [points EXCEPT ![st.point] = execution]
          /\ Over(a, "refused")
          /\ UNCHANGED <<plans, versions, deployments>>
        BY <1>4 DEF RecordRefused
    <2>. HIDE DEF execution
    <2>4. LedgerInv'
        BY <1>a, <2>1, <2>2, <2>3, PointWritten DEF RollbackInv
    <2>. QED  BY <1>a, <2>3, <2>4, WriteOver DEF RollbackError
<1>. QED  BY <1>1, <1>2, <1>3, <1>4
----------------------------------------------------------------------------
(* Reconciling an operation *)

LEMMA UnconfirmedOver ==
    ASSUME NEW a, Unconfirmed(a)
    PROVE  \E err \in RollbackError : Over(a, err) \/ HandOver(a, err)
BY DEF Unconfirmed, RollbackError

LEMMA ObserveKeeps ==
    ASSUME RollbackInv, NEW a \in RollbackActor, Observe(a) \/ ObserveFails(a)
    PROVE  RollbackInv'
<1>. DEFINE st == rollbacks[a]
<1>. DEFINE new == [st EXCEPT !.pc = "complete", !.restored = site.now]
<1>a. /\ st \in RollbackState /\ LocalOK(a, st, site) /\ st.point \in Point
      /\ st.pc = "observe"
    BY Holding DEF Observe, ObserveFails
<1>b. /\ UNCHANGED <<ledgerVars, rollbackJobs, site>> /\ FaultsOK /\ SiteGrows
      /\ site \in SiteState /\ site.now \in site.was
    BY SameSiteGrows, SameFaultsOK, FailsOK DEF Observe, ObserveFails, RollbackInv, SiteInv
<1>1. ASSUME \E err \in RollbackError : Over(a, err) \/ HandOver(a, err)
      PROVE  RollbackInv'
    BY <1>1, <1>b, QuietOver
<1>2. CASE ObserveFails(a)
    BY <1>1, <1>2, UnconfirmedOver DEF ObserveFails, RollbackError
<1>3. CASE Observe(a)
    <2>1. CASE Classify(st.op, site.now) # "completed"
        BY <1>1, <1>3, <2>1, UnconfirmedOver DEF Observe, RollbackError, Classify
    <2>2. CASE Classify(st.op, site.now) = "completed"
        <3>1. site.now = st.op.intended
            BY <2>2 DEF Classify
        <3>2. SetRollback(a, new)
            BY <1>3, <2>2 DEF Observe
        <3>3. new \in RollbackState
            BY <1>a, <1>b DEF RollbackState, RollbackStep, SiteState, Id
        <3>4. /\ new.pc = "complete" /\ new.restored = site.now /\ new.row = st.row
              /\ new.copy = st.copy /\ new.op = st.op /\ new.point = st.point
              /\ new.final = st.final
            BY <1>a DEF RollbackState
        <3>. HIDE DEF new, st
        <3>5. LocalOK(a, new, site')
            BY <1>a, <1>b, <3>1, <3>4 DEF LocalOK, Loading
        <3>. QED  BY <1>b, <3>2, <3>3, <3>4, <3>5, QuietSet DEF st
    <2>. QED  BY <2>1, <2>2
<1>. QED  BY <1>2, <1>3

\* The scan goes on to see whether the operation is already completed.
LEMMA AlreadyKeeps ==
    ASSUME RollbackInv, NEW a \in RollbackActor, rollbacks[a].pc = "complete",
           FaultsOK, UNCHANGED <<rollbackJobs, site>>, LedgerInv', a = RollbackScan,
           SetRollback(a, [rollbacks[a] EXCEPT !.pc = "already"])
    PROVE  RollbackInv'
<1>. DEFINE st == rollbacks[a]
<1>. DEFINE new == [st EXCEPT !.pc = "already"]
<1>a. st \in RollbackState /\ LocalOK(a, st, site)
    BY Holding
<1>1. new \in RollbackState
    BY <1>a DEF RollbackState, RollbackStep
<1>2. /\ new.pc = "already" /\ new.row = st.row /\ new.copy = st.copy
      /\ new.op = st.op /\ new.point = st.point /\ new.final = st.final
    BY <1>a DEF RollbackState
<1>3. SetRollback(a, new)  OBVIOUS
<1>4. SiteGrows /\ SiteInv'
    BY SameSiteGrows DEF RollbackInv, SiteInv, FaultsOK
<1>. HIDE DEF new, st
<1>5. LocalOK(a, new, site')
    BY <1>a, <1>2 DEF LocalOK, Loading
<1>6. LocalInv' /\ JobInv'
    BY <1>1, <1>2, <1>3, <1>4, <1>5, LocalSet, JobsKept DEF RollbackInv, st
<1>. QED  BY <1>4, <1>6 DEF RollbackInv

LEMMA CompleteObservedKeeps ==
    ASSUME RollbackInv, NEW a \in RollbackActor,
           CompleteObserved(a) \/ CompleteObservedFails(a)
    PROVE  RollbackInv'
<1>. DEFINE st == rollbacks[a]
<1>a. /\ st \in RollbackState /\ LocalOK(a, st, site) /\ st.point \in Point
      /\ st.pc = "complete"
    BY Holding DEF CompleteObserved, CompleteObservedFails
<1>b. UNCHANGED <<rollbackJobs, site>> /\ FaultsOK /\ SiteGrows
    BY SameSiteGrows, SameFaultsOK, FailsOK
    DEF CompleteObserved, CompleteObservedFails, RollbackInv
<1>c. /\ UNCHANGED ledgerVars \/ Completed(st)
      /\ \/ Over(a, "none") \/ Over(a, "evidence") \/ Over(a, "other")
         \/ /\ a = RollbackScan
            /\ SetRollback(a, [st EXCEPT !.pc = "already"])
    BY DEF CompleteObserved, CompleteObservedFails
<1>d. st.restored \in site.was \cap (site.made \cup {st.point[3]})
    BY <1>a DEF LocalOK
<1>e. LedgerInv'
    BY <1>a, <1>b, <1>c, <1>d, CompletedLedger, LedgerKept DEF RollbackInv
<1>f. SiteInv'
    BY <1>b DEF RollbackInv, SiteInv, FaultsOK
<1>1. CASE Over(a, "none") \/ Over(a, "evidence") \/ Over(a, "other")
    BY <1>1, <1>b, <1>e, <1>f, WriteOver DEF RollbackError
<1>2. CASE a = RollbackScan /\ SetRollback(a, [st EXCEPT !.pc = "already"])
    BY <1>2, <1>a, <1>b, <1>e, AlreadyKeeps
<1>. QED  BY <1>c, <1>1, <1>2

LEMMA AlreadyCompletedKeeps ==
    ASSUME RollbackInv, NEW a \in RollbackActor, AlreadyCompleted(a)
    PROVE  RollbackInv'
<1>1. UNCHANGED <<ledgerVars, rollbackJobs, site>> /\ FaultsOK /\ SiteGrows
    BY SameSiteGrows, SameFaultsOK DEF AlreadyCompleted, RollbackInv
<1>2. Over(a, "none") \/ HandOver(a, "none")
    BY DEF AlreadyCompleted
<1>. QED  BY <1>1, <1>2, QuietOver DEF RollbackError

----------------------------------------------------------------------------
(* The hand-over to a human *)

LEMMA ManualReadKeeps ==
    ASSUME RollbackInv, NEW a \in RollbackActor, ManualRead(a)
    PROVE  RollbackInv'
<1>. DEFINE st == rollbacks[a]
<1>. DEFINE new == [st EXCEPT !.pc = "manual_point", !.copy = points[st.point],
                              !.row = deployments[PlanOf(a)]]
<1>a. st \in RollbackState /\ LocalOK(a, st, site) /\ st.point \in Point /\ PlanOf(a) \in Plan
    BY Holding DEF ManualRead
<1>b. /\ points[st.point] \in PointRow /\ PointOK(points[st.point], site)
      /\ deployments[PlanOf(a)] \in DeploymentRow /\ RowOK(deployments[PlanOf(a)], site)
    BY <1>a, LedgerParts
<1>1. new \in RollbackState
    BY <1>a, <1>b DEF RollbackState, RollbackStep
<1>2. /\ new.pc = "manual_point" /\ new.row = deployments[PlanOf(a)]
      /\ new.copy = points[st.point] /\ new.op = st.op /\ new.point = st.point
      /\ new.final = st.final
    BY <1>a DEF RollbackState
<1>3. SetRollback(a, new)  BY DEF ManualRead
<1>4. SiteGrows /\ FaultsOK /\ site' = site /\ UNCHANGED <<ledgerVars, rollbackJobs>>
    BY SameSiteGrows, SameFaultsOK DEF ManualRead, RollbackInv
<1>. HIDE DEF new, st
<1>5. LocalOK(a, new, site')
    BY <1>a, <1>b, <1>2, <1>4 DEF LocalOK, Loading
<1>. QED  BY <1>1, <1>2, <1>3, <1>4, <1>5, QuietSet DEF st

LEMMA ManualPointKeeps ==
    ASSUME RollbackInv, NEW a \in RollbackActor, ManualPoint(a)
    PROVE  RollbackInv'
<1>. DEFINE st == rollbacks[a]
<1>. DEFINE new == [st EXCEPT !.pc = "manual_row", !.copy = NoPoint]
<1>. DEFINE row == [st.copy EXCEPT !.status = "manual_reconciliation_required"]
<1>a. st \in RollbackState /\ LocalOK(a, st, site) /\ st.point \in Point
    BY Holding DEF ManualPoint
<1>b. /\ UNCHANGED <<plans, versions, deployments, rollbackJobs, site>>
      /\ FaultsOK /\ SiteGrows /\ SiteInv'
    BY SameSiteGrows, SameFaultsOK DEF ManualPoint, RollbackInv, SiteInv
<1>1. row \in PointRow /\ PointOK(row, site')
    BY <1>a, StateParts DEF PointRow, PointStatus, PointOK, ActiveRollback
<1>2. points' = points \/ points' = [points EXCEPT ![st.point] = row]
    BY DEF ManualPoint
<1>3. LedgerInv'
    <2>1. CASE points' = points
        BY <1>b, <2>1, LedgerKept DEF RollbackInv, ledgerVars
    <2>2. CASE points' = [points EXCEPT ![st.point] = row]
        BY <1>a, <1>b, <1>1, <2>2, PointWritten DEF RollbackInv
    <2>. QED  BY <1>2, <2>1, <2>2
<1>4. new \in RollbackState
    BY <1>a, RowConstants DEF RollbackState, RollbackStep
<1>5. /\ new.pc = "manual_row" /\ new.row = st.row /\ new.copy = NoPoint
      /\ new.op = st.op /\ new.point = st.point /\ new.final = st.final
    BY <1>a DEF RollbackState
<1>6. SetRollback(a, new)  BY DEF ManualPoint
<1>7. PointOK(NoPoint, site')
    BY DEF PointOK, NoPoint, ActiveRollback
<1>. HIDE DEF new, st, row
<1>8. LocalOK(a, new, site')
    BY <1>a, <1>b, <1>5, <1>7 DEF LocalOK, Loading
<1>9. LocalInv' /\ JobInv'
    BY <1>b, <1>4, <1>5, <1>6, <1>8, LocalSet, JobsKept DEF RollbackInv, st
<1>. QED  BY <1>b, <1>3, <1>9 DEF RollbackInv

LEMMA ManualRowKeeps ==
    ASSUME RollbackInv, NEW a \in RollbackActor, ManualRow(a)
    PROVE  RollbackInv'
<1>1. rollbacks[a] \in RollbackState /\ rollbacks[a].point \in Point
    BY Holding DEF ManualRow
<1>2. /\ UNCHANGED <<plans, versions, points, rollbackJobs, site>>
      /\ FaultsOK /\ SiteInv'
    BY SameFaultsOK DEF ManualRow, RollbackInv, SiteInv, FaultsOK
<1>3. LedgerInv'
    BY <1>1, <1>2, ManualLedger DEF ManualRow, PlanOf, RollbackInv
<1>4. Over(a, rollbacks[a].error) /\ rollbacks[a].error \in RollbackError
    BY <1>1, StateParts DEF ManualRow
<1>. QED  BY <1>2, <1>3, <1>4, WriteOver

----------------------------------------------------------------------------
(* Failures, the queue and the provider *)

LEMMA FailureKeeps ==
    ASSUME RollbackInv, NEW a \in RollbackActor, RollbackCallFails(a) \/ RollbackCrash(a)
    PROVE  RollbackInv'
<1>1. UNCHANGED <<ledgerVars, rollbackJobs, site>> /\ FaultsOK /\ SiteGrows
    BY SameSiteGrows, FailsOK DEF RollbackCallFails, RollbackCrash, RollbackInv
<1>2. CASE RollbackCallFails(a)
    BY <1>1, <1>2, QuietOver DEF RollbackCallFails, RollbackError
<1>3. CASE RollbackCrash(a)
    <2>1. SetRollback(a, NotRunning) /\ NotRunning.point = None
        BY <1>3 DEF RollbackCrash, NotRunning
    <2>. QED  BY <1>1, <2>1, NotRunningOK, QuietSet
<1>. QED  BY <1>2, <1>3

LEMMA JobTypes ==
    ASSUME NEW job \in Queue!Jobs(RollbackSlot)
    PROVE  /\ Queue!Enqueued(job) \in Queue!Jobs(RollbackSlot)
           /\ Queue!Enqueued(job).holder = job.holder
           /\ Queue!Enqueued(job).made = job.made
           /\ \A a \in RollbackSlot :
                /\ Queue!Taken(job, a) \in Queue!Jobs(RollbackSlot)
                /\ Queue!Taken(job, a).holder = a
                /\ Queue!Taken(job, a).made = job.made
           /\ Queue!Ended(job, FALSE) \in Queue!Jobs(RollbackSlot)
           /\ Queue!Ended(job, FALSE).holder = None
           /\ job.made + 1 < RollbackAttempts =>
                /\ Queue!Ended(job, TRUE) \in Queue!Jobs(RollbackSlot)
                /\ Queue!Ended(job, TRUE).holder = None
           /\ Queue!AfterStall(job) \in Queue!Jobs(RollbackSlot)
           /\ Queue!AfterStall(job).holder = None
           /\ ~Queue!FinalAttempt(job) => job.made + 1 < RollbackAttempts
<1>. USE RollbackWorkerAssumption DEF Queue!Jobs
<1>1. Queue!NoJob \in Queue!Jobs(RollbackSlot) /\ Queue!NoJob.holder = None
    BY DEF Queue!NoJob
<1>2. /\ Queue!Enqueued(job) \in Queue!Jobs(RollbackSlot)
      /\ Queue!Enqueued(job).holder = job.holder
      /\ Queue!Enqueued(job).made = job.made
    BY DEF Queue!Enqueued
<1>3. \A a \in RollbackSlot :
        /\ Queue!Taken(job, a) \in Queue!Jobs(RollbackSlot)
        /\ Queue!Taken(job, a).holder = a
        /\ Queue!Taken(job, a).made = job.made
    BY DEF Queue!Taken
<1>4. /\ Queue!Ended(job, FALSE) \in Queue!Jobs(RollbackSlot)
      /\ Queue!Ended(job, FALSE).holder = None
    BY <1>1 DEF Queue!Ended
<1>5. job.made + 1 < RollbackAttempts =>
        /\ Queue!Ended(job, TRUE) \in Queue!Jobs(RollbackSlot)
        /\ Queue!Ended(job, TRUE).holder = None
    <2>. SUFFICES ASSUME job.made + 1 < RollbackAttempts
         PROVE  /\ Queue!Ended(job, TRUE) \in Queue!Jobs(RollbackSlot)
                /\ Queue!Ended(job, TRUE).holder = None
        OBVIOUS
    <2>1. Queue!Ended(job, TRUE) =
            [job EXCEPT !.state = "waiting", !.made = job.made + 1, !.holder = None]
        BY DEF Queue!Ended
    <2>2. job.made + 1 \in 0..RollbackAttempts
        OBVIOUS
    <2>. QED  BY <2>1, <2>2
<1>6. /\ Queue!AfterStall(job) \in Queue!Jobs(RollbackSlot)
      /\ Queue!AfterStall(job).holder = None
    <2>1. CASE job.stalls >= RollbackStalls
        BY <1>1, <2>1 DEF Queue!AfterStall
    <2>2. CASE ~(job.stalls >= RollbackStalls)
        <3>1. Queue!AfterStall(job) =
                [job EXCEPT !.state = "waiting", !.stalls = job.stalls + 1, !.holder = None]
            BY <2>2 DEF Queue!AfterStall
        <3>2. job.stalls + 1 \in 0..RollbackStalls
            BY <2>2
        <3>. QED  BY <3>1, <3>2
    <2>. QED  BY <2>1, <2>2
<1>7. ~Queue!FinalAttempt(job) => job.made + 1 < RollbackAttempts
    BY DEF Queue!FinalAttempt
<1>. QED  BY <1>2, <1>3, <1>4, <1>5, <1>6, <1>7

LEMMA JobsQuiet ==
    ASSUME RollbackInv, UNCHANGED <<ledgerVars, site, faults>>
    PROVE  LedgerInv' /\ SiteInv' /\ SiteGrows
<1>1. SiteGrows  BY SameSiteGrows DEF RollbackInv
<1>. QED  BY <1>1, LedgerKept DEF RollbackInv, SiteInv

\* A job changes hands with nobody, or is put back.
LEMMA JobWritten ==
    ASSUME JobInv, LocalInv, NEW x \in Point, NEW job \in Queue!Jobs(RollbackSlot),
           rollbackJobs' = [rollbackJobs EXCEPT ![x] = job],
           \/ job.holder = None
           \/ job.holder = rollbackJobs[x].holder /\ job.made = rollbackJobs[x].made,
           UNCHANGED rollbacks \/
           \E a \in RollbackActor : \E st : st.point = None /\ SetRollback(a, st)
    PROVE  JobInv'
<1>1. rollbackJobs' \in [Point -> Queue!Jobs(RollbackSlot)]
    BY DEF JobInv
<1>2. None \notin Point /\ None \notin RollbackSlot
    BY RollbackWorkerAssumption DEF Point
<1>3. \A b \in RollbackSlot : rollbacks'[b] = rollbacks[b] \/ rollbacks'[b].point = None
    BY DEF SetRollback, LocalInv, RollbackActor
<1>. QED  BY <1>1, <1>2, <1>3 DEF JobInv

LEMMA QueueKeeps ==
    ASSUME RollbackInv, NEW x \in Point, RequestRollback(x) \/ StallRollback(x)
    PROVE  RollbackInv'
<1>1. LedgerInv' /\ SiteInv' /\ SiteGrows /\ UNCHANGED rollbacks
    BY JobsQuiet DEF RequestRollback, StallRollback
<1>2. rollbackJobs[x] \in Queue!Jobs(RollbackSlot)
    BY DEF RollbackInv, JobInv
<1>3. JobInv'
    <2>1. CASE RequestRollback(x)
        BY <1>1, <1>2, <2>1, JobTypes, JobWritten DEF RequestRollback, RollbackInv
    <2>2. CASE StallRollback(x)
        BY <1>1, <1>2, <2>2, JobTypes, JobWritten DEF StallRollback, RollbackInv
    <2>. QED  BY <2>1, <2>2
<1>4. LocalInv'
    BY <1>1, LocalKept DEF RollbackInv
<1>. QED  BY <1>1, <1>3, <1>4 DEF RollbackInv

LEMMA TakeKeeps ==
    ASSUME RollbackInv, NEW x \in Point, NEW a \in RollbackSlot, TakeRollback(x, a)
    PROVE  RollbackInv'
<1>. DEFINE job == rollbackJobs[x]
<1>. DEFINE st == [NotRunning EXCEPT
            !.pc = "load_plan", !.point = x, !.final = Queue!FinalAttempt(job)]
<1>a. a \in RollbackActor /\ a # RollbackScan /\ job \in Queue!Jobs(RollbackSlot)
    BY RollbackWorkerAssumption DEF RollbackActor, RollbackInv, JobInv
<1>1. LedgerInv' /\ SiteInv' /\ SiteGrows
    BY JobsQuiet DEF TakeRollback
<1>2. NotRunning \in RollbackState /\ LocalOK(a, NotRunning, site')
    BY <1>a, NotRunningOK
<1>3. Queue!FinalAttempt(job) \in BOOLEAN
    BY DEF Queue!FinalAttempt
<1>4. st \in RollbackState
    BY <1>2, <1>3 DEF RollbackState, RollbackStep
<1>5. /\ st.pc = "load_plan" /\ st.point = x /\ st.final = Queue!FinalAttempt(job)
      /\ st.row = NotRunning.row /\ st.copy = NotRunning.copy /\ st.op = NotRunning.op
    BY <1>2 DEF RollbackState
<1>6. NotRunning.op.status = "none"
    BY DEF NotRunning, NoOperation
<1>7. /\ SetRollback(a, st)
      /\ rollbackJobs' = [rollbackJobs EXCEPT ![x] = Queue!Taken(job, a)]
    BY DEF TakeRollback
<1>8. /\ Queue!Taken(job, a) \in Queue!Jobs(RollbackSlot)
      /\ Queue!Taken(job, a).holder = a /\ Queue!Taken(job, a).made = job.made
      /\ ~Queue!FinalAttempt(job) => job.made + 1 < RollbackAttempts
    BY <1>a, JobTypes
<1>. HIDE DEF st, job
<1>9. LocalOK(a, st, site')
    BY <1>a, <1>2, <1>5, <1>6 DEF LocalOK
<1>10. LocalInv'
    BY <1>a, <1>1, <1>4, <1>7, <1>9, LocalSet DEF RollbackInv
<1>11. JobInv'
    <2>1. rollbackJobs' \in [Point -> Queue!Jobs(RollbackSlot)]
        BY <1>7, <1>8 DEF RollbackInv, JobInv
    <2>2. rollbacks'[a] = st /\ \A b \in RollbackSlot \ {a} : rollbacks'[b] = rollbacks[b]
        BY <1>a, <1>7 DEF SetRollback, RollbackInv, LocalInv, RollbackActor
    <2>3. rollbackJobs'[x].holder = a /\ rollbackJobs'[x].made = job.made
        BY <1>7, <1>8 DEF RollbackInv, JobInv
    <2>4. \A y \in Point \ {x} : rollbackJobs'[y] = rollbackJobs[y]
        BY <1>7 DEF RollbackInv, JobInv
    <2>. QED  BY <1>5, <1>8, <2>1, <2>2, <2>3, <2>4 DEF RollbackInv, JobInv
<1>. QED  BY <1>1, <1>10, <1>11 DEF RollbackInv

LEMMA SettleKeeps ==
    ASSUME RollbackInv, NEW a \in RollbackActor, SettleRollback(a)
    PROVE  RollbackInv'
<1>. DEFINE st == rollbacks[a]
<1>. DEFINE x == st.point
<1>a. st \in RollbackState /\ x \in Point
    BY Holding DEF SettleRollback
<1>1. LedgerInv' /\ SiteInv' /\ SiteGrows
    BY JobsQuiet DEF SettleRollback
<1>2. SetRollback(a, NotRunning) /\ NotRunning.point = None
    BY DEF SettleRollback, NotRunning
<1>3. LocalInv'
    BY <1>1, <1>2, NotRunningOK, LocalSet DEF RollbackInv
<1>4. JobInv'
    <2>1. CASE UNCHANGED rollbackJobs
        BY <1>2, <2>1, JobsKept DEF RollbackInv
    <2>2. CASE rollbackJobs[x].holder = a
        <3>1. rollbackJobs[x] \in Queue!Jobs(RollbackSlot)
            BY <1>a DEF RollbackInv, JobInv
        <3>2. a \in RollbackSlot
            BY <2>2, <3>1, RollbackWorkerAssumption DEF Queue!Jobs, RollbackActor
        <3>3. PICK retry \in BOOLEAN :
                /\ retry => ~st.final
                /\ rollbackJobs' = [rollbackJobs EXCEPT ![x] = Queue!Ended(@, retry)]
            <4>. DEFINE retry == st.error \notin TerminalRollbackError \cup {"none"} /\ ~st.final
            <4>1. retry \in BOOLEAN /\ (retry => ~st.final)
                OBVIOUS
            <4>2. rollbackJobs' = [rollbackJobs EXCEPT ![x] = Queue!Ended(@, retry)]
                BY <2>2 DEF SettleRollback
            <4>. QED  BY <4>1, <4>2
        <3>4. retry => rollbackJobs[x].made + 1 < RollbackAttempts
            BY <1>a, <2>2, <3>2, <3>3 DEF RollbackInv, JobInv
        <3>5. /\ Queue!Ended(rollbackJobs[x], retry) \in Queue!Jobs(RollbackSlot)
              /\ Queue!Ended(rollbackJobs[x], retry).holder = None
            BY <3>1, <3>4, JobTypes
        <3>. QED  BY <1>a, <1>2, <3>3, <3>5, JobWritten DEF RollbackInv
    <2>. QED  BY <2>1, <2>2 DEF SettleRollback
<1>. QED  BY <1>1, <1>3, <1>4 DEF RollbackInv

LEMMA ProviderKeeps ==
    ASSUME RollbackInv, NEW d \in ProviderDeploy, Publish(d) \/ OutsidePublish(d)
    PROVE  RollbackInv'
<1>1. site \in SiteState /\ site.now \in site.was
    BY DEF RollbackInv, SiteInv
<1>2. SiteGrows
    BY <1>1, SiteSteps DEF Publish, OutsidePublish
<1>3. FaultsOK /\ UNCHANGED <<ledgerVars, rollbacks, rollbackJobs>>
    BY FailsOK, SameFaultsOK DEF Publish, OutsidePublish, RollbackInv
<1>4. LedgerInv' /\ LocalInv'
    BY <1>2, <1>3, LedgerKept, LocalKept DEF RollbackInv
<1>5. SiteInv' /\ JobInv'
    BY <1>2, <1>3 DEF RollbackInv, SiteInv, SiteGrows, FaultsOK, JobInv
<1>. QED  BY <1>4, <1>5 DEF RollbackInv

LEMMA RollbackNextKeeps ==
    ASSUME RollbackInv, RollbackNext
    PROVE  RollbackInv'
<1>1. ASSUME NEW a \in RollbackActor, RollbackProgress(a) PROVE RollbackInv'
    BY <1>1, LoadKeeps, LoadDeploymentKeeps, RecordIntentKeeps, RestoreKeeps, OutcomeKeeps,
       ObserveKeeps, CompleteObservedKeeps, AlreadyCompletedKeeps, ManualReadKeeps,
       ManualPointKeeps, ManualRowKeeps, SettleKeeps
    DEF RollbackProgress
<1>2. ASSUME NEW a \in RollbackActor, RollbackFault(a) PROVE RollbackInv'
    BY <1>2, RestoreKeeps, OutcomeKeeps, ObserveKeeps, CompleteObservedKeeps, FailureKeeps
    DEF RollbackFault
<1>. QED  BY <1>1, <1>2, QueueKeeps, TakeKeeps, ScanTakesKeeps, ProviderKeeps DEF RollbackNext

----------------------------------------------------------------------------
(* Verification runs *)

LEMMA RunJobTypes ==
    ASSUME NEW job \in RunQueue!Jobs(VerifySlot)
    PROVE  /\ RunQueue!Enqueued(job) \in RunQueue!Jobs(VerifySlot)
           /\ RunQueue!Enqueued(job).holder = job.holder
           /\ RunQueue!Enqueued(job).made = job.made
           /\ \A v \in VerifySlot :
                /\ RunQueue!Taken(job, v) \in RunQueue!Jobs(VerifySlot)
                /\ RunQueue!Taken(job, v).holder = v
                /\ RunQueue!Taken(job, v).made = job.made
           /\ RunQueue!Ended(job, FALSE) \in RunQueue!Jobs(VerifySlot)
           /\ RunQueue!Ended(job, FALSE).holder = None
           /\ job.made + 1 < VerificationAttempts =>
                /\ RunQueue!Ended(job, TRUE) \in RunQueue!Jobs(VerifySlot)
                /\ RunQueue!Ended(job, TRUE).holder = None
           /\ RunQueue!AfterStall(job) \in RunQueue!Jobs(VerifySlot)
           /\ RunQueue!AfterStall(job).holder = None
           /\ ~RunQueue!FinalAttempt(job) => job.made + 1 < VerificationAttempts
<1>. USE ReleaseVerificationAssumption DEF RunQueue!Jobs
<1>1. RunQueue!NoJob \in RunQueue!Jobs(VerifySlot) /\ RunQueue!NoJob.holder = None
    BY DEF RunQueue!NoJob
<1>2. /\ RunQueue!Enqueued(job) \in RunQueue!Jobs(VerifySlot)
      /\ RunQueue!Enqueued(job).holder = job.holder
      /\ RunQueue!Enqueued(job).made = job.made
    BY DEF RunQueue!Enqueued
<1>3. \A v \in VerifySlot :
        /\ RunQueue!Taken(job, v) \in RunQueue!Jobs(VerifySlot)
        /\ RunQueue!Taken(job, v).holder = v
        /\ RunQueue!Taken(job, v).made = job.made
    BY DEF RunQueue!Taken
<1>4. /\ RunQueue!Ended(job, FALSE) \in RunQueue!Jobs(VerifySlot)
      /\ RunQueue!Ended(job, FALSE).holder = None
    BY <1>1 DEF RunQueue!Ended
<1>5. job.made + 1 < VerificationAttempts =>
        /\ RunQueue!Ended(job, TRUE) \in RunQueue!Jobs(VerifySlot)
        /\ RunQueue!Ended(job, TRUE).holder = None
    <2>. SUFFICES ASSUME job.made + 1 < VerificationAttempts
         PROVE  /\ RunQueue!Ended(job, TRUE) \in RunQueue!Jobs(VerifySlot)
                /\ RunQueue!Ended(job, TRUE).holder = None
        OBVIOUS
    <2>1. RunQueue!Ended(job, TRUE) =
            [job EXCEPT !.state = "waiting", !.made = job.made + 1, !.holder = None]
        BY DEF RunQueue!Ended
    <2>2. job.made + 1 \in 0..VerificationAttempts
        OBVIOUS
    <2>. QED  BY <2>1, <2>2
<1>6. /\ RunQueue!AfterStall(job) \in RunQueue!Jobs(VerifySlot)
      /\ RunQueue!AfterStall(job).holder = None
    <2>1. CASE job.stalls >= VerificationStalls
        BY <1>1, <2>1 DEF RunQueue!AfterStall
    <2>2. CASE ~(job.stalls >= VerificationStalls)
        <3>1. RunQueue!AfterStall(job) =
                [job EXCEPT !.state = "waiting", !.stalls = job.stalls + 1, !.holder = None]
            BY <2>2 DEF RunQueue!AfterStall
        <3>2. job.stalls + 1 \in 0..VerificationStalls
            BY <2>2
        <3>. QED  BY <3>1, <3>2
    <2>. QED  BY <2>1, <2>2
<1>7. ~RunQueue!FinalAttempt(job) => job.made + 1 < VerificationAttempts
    BY DEF RunQueue!FinalAttempt
<1>. QED  BY <1>2, <1>3, <1>4, <1>5, <1>6, <1>7

\* The rows of the runs alone change.
LEMMA RunsWritten ==
    ASSUME RunInv, UNCHANGED <<runJobs, verifiers>>, NEW r \in Run, NEW p \in Plan,
           NEW status \in RunStatus, runs' = [runs EXCEPT ![r] = [plan |-> p, status |-> status]]
    PROVE  RunInv'
<1>1. runs' \in [Run -> [plan : Plan \cup {None}, status : RunStatus]]
    BY DEF RunInv, VerificationTypeOK
<1>2. \A s \in Run : Running(s)' => runs'[s].plan \in Plan
    BY DEF RunInv, VerificationTypeOK, Running
<1>. QED  BY <1>1, <1>2 DEF RunInv, VerificationTypeOK

\* An attempt goes on with the same run, or lets go of it; the run may end with it.
LEMMA VerifierSet ==
    ASSUME RunInv, UNCHANGED runJobs, NEW v \in VerifySlot, NEW st \in VerifierState,
           SetVerifier(v, st), st.pc = "persist" => st.found \in VerificationOutcome,
           \/ st.run = None /\ st.pc = "idle"
           \/ st.run \in Run /\ st.run = verifiers[v].run /\ st.final = verifiers[v].final,
           \/ UNCHANGED runs
           \/ \E r \in Run : runs' = [runs EXCEPT ![r].status = "finished"]
    PROVE  RunInv'
<1>1. verifiers' \in [VerifySlot -> VerifierState]
    BY DEF RunInv, VerificationTypeOK, SetVerifier
<1>2. verifiers'[v] = st /\ \A w \in VerifySlot \ {v} : verifiers'[w] = verifiers[w]
    BY DEF RunInv, VerificationTypeOK, SetVerifier
<1>3. /\ runs' \in [Run -> [plan : Plan \cup {None}, status : RunStatus]]
      /\ \A r \in Run : Running(r)' => runs'[r].plan \in Plan
    BY DEF RunInv, VerificationTypeOK, Running, RunStatus
<1>4. None \notin Run
    BY ReleaseVerificationAssumption
<1>5. \A w \in VerifySlot :
        /\ verifiers'[w].pc # "idle" => verifiers'[w].run \in Run
        /\ verifiers'[w].pc = "persist" => verifiers'[w].found \in VerificationOutcome
    BY <1>2 DEF RunInv
<1>6. \A r \in Run, w \in VerifySlot :
        (runJobs'[r].holder = w /\ verifiers'[w].run = r /\ ~verifiers'[w].final)
            => runJobs'[r].made + 1 < VerificationAttempts
    BY <1>2, <1>4 DEF RunInv
<1>. QED  BY <1>1, <1>3, <1>5, <1>6 DEF RunInv, VerificationTypeOK

LEMMA EndVerifierState ==
    ASSUME RunInv, NEW v \in VerifySlot, verifiers[v].run \in Run,
           NEW err \in {"none", "evidence", "other"}
    PROVE  LET st == [verifiers[v] EXCEPT !.pc = "settle", !.found = "nothing", !.error = err]
           IN  /\ st \in VerifierState /\ st.pc = "settle"
               /\ st.run = verifiers[v].run /\ st.final = verifiers[v].final
BY DEF RunInv, VerificationTypeOK, VerifierState

LEMMA EndKeeps ==
    ASSUME RunInv, UNCHANGED runJobs, NEW v \in VerifySlot, verifiers[v].run \in Run,
           NEW err \in {"none", "evidence", "other"}, EndVerifier(v, err),
           \/ UNCHANGED runs
           \/ \E r \in Run : runs' = [runs EXCEPT ![r].status = "finished"]
    PROVE  RunInv'
<1>. DEFINE st == [verifiers[v] EXCEPT !.pc = "settle", !.found = "nothing", !.error = err]
<1>1. /\ st \in VerifierState /\ st.pc = "settle"
      /\ st.run = verifiers[v].run /\ st.final = verifiers[v].final
    BY EndVerifierState
<1>2. SetVerifier(v, st)  BY DEF EndVerifier
<1>. HIDE DEF st
<1>. QED  BY <1>1, <1>2, VerifierSet

\* A job changes, and no attempt that has it in its hands is left with it.
LEMMA RunJobWritten ==
    ASSUME RunInv, NEW r \in Run, NEW job \in RunQueue!Jobs(VerifySlot),
           runJobs' = [runJobs EXCEPT ![r] = job],
           job.holder = None \/ (job.holder = runJobs[r].holder /\ job.made = runJobs[r].made),
           UNCHANGED verifiers \/ \E v \in VerifySlot : SetVerifier(v, NotVerifying),
           \/ UNCHANGED runs
           \/ runs[r].plan \in Plan /\ runs' = [runs EXCEPT ![r].status = "running"]
    PROVE  RunInv'
<1>1. NotVerifying \in VerifierState /\ NotVerifying.pc = "idle" /\ NotVerifying.run = None
    BY DEF NotVerifying, VerifierState
<1>2. None \notin Run /\ None \notin VerifySlot
    BY ReleaseVerificationAssumption
<1>3. /\ verifiers' \in [VerifySlot -> VerifierState]
      /\ \A w \in VerifySlot : verifiers'[w] = verifiers[w] \/ verifiers'[w] = NotVerifying
    BY <1>1 DEF RunInv, VerificationTypeOK, SetVerifier
<1>4. runJobs' \in [Run -> RunQueue!Jobs(VerifySlot)]
    BY DEF RunInv, VerificationTypeOK
<1>5. /\ runs' \in [Run -> [plan : Plan \cup {None}, status : RunStatus]]
      /\ \A s \in Run : Running(s)' => runs'[s].plan \in Plan
    BY DEF RunInv, VerificationTypeOK, Running, RunStatus
<1>6. \A w \in VerifySlot :
        /\ verifiers'[w].pc # "idle" => verifiers'[w].run \in Run
        /\ verifiers'[w].pc = "persist" => verifiers'[w].found \in VerificationOutcome
    BY <1>1, <1>3 DEF RunInv
<1>7. \A s \in Run, w \in VerifySlot :
        (runJobs'[s].holder = w /\ verifiers'[w].run = s /\ ~verifiers'[w].final)
            => runJobs'[s].made + 1 < VerificationAttempts
    BY <1>1, <1>2, <1>3 DEF RunInv, VerificationTypeOK
<1>. QED  BY <1>3, <1>4, <1>5, <1>6, <1>7 DEF RunInv, VerificationTypeOK

LEMMA RequestRunKeeps ==
    ASSUME RunInv, NEW r \in Run,
           \/ \E p \in Plan : RequestVerification(r, p)
           \/ AbandonRun(r)
           \/ QueueVerification(r)
    PROVE  RunInv'
<1>1. CASE \E p \in Plan : RequestVerification(r, p)
    BY <1>1, RunsWritten DEF RequestVerification, RunStatus
<1>2. CASE AbandonRun(r)
    <2>1. runs[r].plan \in Plan /\ UNCHANGED <<runJobs, verifiers>>
        BY <1>2 DEF AbandonRun, RunInv
    <2>2. runs' = [runs EXCEPT ![r] = [plan |-> runs[r].plan, status |-> "finished"]]
        <3>1. runs[r] \in [plan : Plan \cup {None}, status : RunStatus]
            BY DEF RunInv, VerificationTypeOK
        <3>2. [runs[r] EXCEPT !.status = "finished"] = [plan |-> runs[r].plan, status |-> "finished"]
            BY <3>1
        <3>3. runs' = [runs EXCEPT ![r] = [runs[r] EXCEPT !.status = "finished"]]
            BY <1>2 DEF AbandonRun
        <3>. QED  BY <3>2, <3>3
    <2>. QED  BY <2>1, <2>2, RunsWritten DEF RunStatus
<1>3. CASE QueueVerification(r)
    <2>1. runs[r].plan \in Plan
        BY <1>3 DEF QueueVerification, RunInv, Running
    <2>2. runJobs[r] \in RunQueue!Jobs(VerifySlot)
        BY DEF RunInv, VerificationTypeOK
    <2>. QED  BY <1>3, <2>1, <2>2, RunJobTypes, RunJobWritten DEF QueueVerification
<1>. QED  BY <1>1, <1>2, <1>3

LEMMA TakeRunKeeps ==
    ASSUME RunInv, NEW r \in Run, NEW v \in VerifySlot, TakeRun(r, v)
    PROVE  RunInv'
<1>. DEFINE job == runJobs[r]
<1>. DEFINE st == [NotVerifying EXCEPT
            !.pc = "load_run", !.run = r, !.final = RunQueue!FinalAttempt(job)]
<1>1. RunQueue!FinalAttempt(job) \in BOOLEAN
    BY DEF RunQueue!FinalAttempt
<1>2. /\ st \in VerifierState /\ st.run = r /\ st.pc = "load_run"
      /\ st.final = RunQueue!FinalAttempt(job)
    BY <1>1 DEF NotVerifying, VerifierState
<1>3. job \in RunQueue!Jobs(VerifySlot)
    BY DEF RunInv, VerificationTypeOK
<1>4. /\ RunQueue!Taken(job, v) \in RunQueue!Jobs(VerifySlot)
      /\ RunQueue!Taken(job, v).holder = v /\ RunQueue!Taken(job, v).made = job.made
      /\ ~RunQueue!FinalAttempt(job) => job.made + 1 < VerificationAttempts
    BY <1>3, RunJobTypes
<1>5. /\ runJobs' = [runJobs EXCEPT ![r] = RunQueue!Taken(job, v)]
      /\ verifiers' = [verifiers EXCEPT ![v] = st]
      /\ UNCHANGED runs
    BY DEF TakeRun, SetVerifier
<1>. HIDE DEF st, job
<1>6. /\ verifiers' \in [VerifySlot -> VerifierState]
      /\ runJobs' \in [Run -> RunQueue!Jobs(VerifySlot)]
    BY <1>2, <1>4, <1>5 DEF RunInv, VerificationTypeOK
<1>7. verifiers'[v] = st /\ \A w \in VerifySlot \ {v} : verifiers'[w] = verifiers[w]
    BY <1>5 DEF RunInv, VerificationTypeOK
<1>8. /\ runJobs'[r].holder = v /\ runJobs'[r].made = job.made
      /\ \A s \in Run \ {r} : runJobs'[s] = runJobs[s]
    BY <1>4, <1>5 DEF RunInv, VerificationTypeOK
<1>9. \A s \in Run, w \in VerifySlot :
        (runJobs'[s].holder = w /\ verifiers'[w].run = s /\ ~verifiers'[w].final)
            => runJobs'[s].made + 1 < VerificationAttempts
    BY <1>2, <1>4, <1>7, <1>8 DEF RunInv
<1>10. \A w \in VerifySlot :
        /\ verifiers'[w].pc # "idle" => verifiers'[w].run \in Run
        /\ verifiers'[w].pc = "persist" => verifiers'[w].found \in VerificationOutcome
    BY <1>2, <1>7 DEF RunInv
<1>11. \A s \in Run : Running(s)' => runs'[s].plan \in Plan
    BY <1>5 DEF RunInv, Running
<1>. QED  BY <1>5, <1>6, <1>9, <1>10, <1>11 DEF RunInv, VerificationTypeOK

LEMMA VerifierSteps ==
    ASSUME RunInv, NEW v \in VerifySlot,
           LoadRun(v) \/ LoadVerified(v) \/ Verify(v) \/ PersistVerification(v)
    PROVE  RunInv'
<1>. DEFINE st == verifiers[v]
<1>1. st \in VerifierState /\ st.run \in Run /\ UNCHANGED runJobs
    BY DEF LoadRun, LoadVerified, Verify, PersistVerification, Verifying, RunInv,
           VerificationTypeOK
<1>2. \/ UNCHANGED runs
      \/ \E r \in Run : runs' = [runs EXCEPT ![r].status = "finished"]
    BY <1>1 DEF LoadRun, LoadVerified, Verify, PersistVerification
<1>3. CASE \E err \in {"none", "evidence", "other"} : EndVerifier(v, err)
    BY <1>1, <1>2, <1>3, EndKeeps
<1>4. ASSUME NEW pc \in {"load_row", "verify"}, SetVerifier(v, [st EXCEPT !.pc = pc])
      PROVE  RunInv'
    <2>. DEFINE new == [st EXCEPT !.pc = pc]
    <2>1. new \in VerifierState /\ new.run = st.run /\ new.final = st.final /\ new.pc = pc
        BY <1>1 DEF VerifierState
    <2>2. SetVerifier(v, new)  BY <1>4
    <2>. HIDE DEF new
    <2>. QED  BY <1>1, <1>2, <2>1, <2>2, VerifierSet
<1>5. ASSUME NEW found \in VerificationOutcome,
             SetVerifier(v, [st EXCEPT !.pc = "persist", !.found = found])
      PROVE  RunInv'
    <2>. DEFINE new == [st EXCEPT !.pc = "persist", !.found = found]
    <2>1. new \in VerifierState /\ new.run = st.run /\ new.final = st.final /\ new.found = found
        BY <1>1 DEF VerifierState
    <2>2. SetVerifier(v, new)  BY <1>5
    <2>. HIDE DEF new
    <2>. QED  BY <1>1, <1>2, <2>1, <2>2, VerifierSet
<1>6. CASE LoadRun(v)
    BY <1>3, <1>4, <1>6 DEF LoadRun
<1>7. CASE LoadVerified(v)
    BY <1>3, <1>4, <1>7 DEF LoadVerified
<1>8. CASE Verify(v)
    BY <1>3, <1>5, <1>8 DEF Verify
<1>9. CASE PersistVerification(v)
    BY <1>3, <1>9 DEF PersistVerification
<1>. QED  BY <1>6, <1>7, <1>8, <1>9

LEMMA VerifierEnds ==
    ASSUME RunInv, NEW v \in VerifySlot, VerificationFails(v) \/ SettleVerification(v)
    PROVE  RunInv'
<1>. DEFINE r == verifiers[v].run
<1>1. r \in Run /\ UNCHANGED runs /\ SetVerifier(v, NotVerifying)
    BY DEF VerificationFails, SettleVerification, Verifying, RunInv
<1>2. runJobs[r] \in RunQueue!Jobs(VerifySlot)
    BY <1>1 DEF RunInv, VerificationTypeOK
<1>3. CASE UNCHANGED runJobs
    <2>1. NotVerifying \in VerifierState /\ NotVerifying.run = None /\ NotVerifying.pc = "idle"
        BY DEF NotVerifying, VerifierState
    <2>. QED  BY <1>1, <1>3, <2>1, VerifierSet
<1>4. CASE runJobs' = [runJobs EXCEPT ![r] = RunQueue!AfterStall(@)]
    BY <1>1, <1>2, <1>4, RunJobTypes, RunJobWritten
<1>5. ASSUME runJobs[r].holder = v, NEW retry \in BOOLEAN, retry => ~verifiers[v].final,
             runJobs' = [runJobs EXCEPT ![r] = RunQueue!Ended(@, retry)]
      PROVE  RunInv'
    <2>1. retry => runJobs[r].made + 1 < VerificationAttempts
        BY <1>1, <1>5 DEF RunInv
    <2>2. /\ RunQueue!Ended(runJobs[r], retry) \in RunQueue!Jobs(VerifySlot)
          /\ RunQueue!Ended(runJobs[r], retry).holder = None
        BY <1>2, <2>1, RunJobTypes
    <2>. QED  BY <1>1, <1>5, <2>2, RunJobWritten
<1>6. verifiers[v].final \in BOOLEAN
    BY DEF RunInv, VerificationTypeOK, VerifierState
<1>7. CASE VerificationFails(v)
    BY <1>3, <1>4, <1>5, <1>6, <1>7 DEF VerificationFails
<1>8. CASE SettleVerification(v)
    <2>. DEFINE retry == verifiers[v].error = "other" /\ ~verifiers[v].final
    <2>1. retry \in BOOLEAN /\ (retry => ~verifiers[v].final)
        OBVIOUS
    <2>2. \/ UNCHANGED runJobs
          \/ /\ runJobs[r].holder = v
             /\ runJobs' = [runJobs EXCEPT ![r] = RunQueue!Ended(@, retry)]
        BY <1>8 DEF SettleVerification
    <2>. HIDE DEF retry
    <2>. QED  BY <1>3, <1>5, <2>1, <2>2
<1>. QED  BY <1>7, <1>8

LEMMA VerificationRunInv ==
    ASSUME RunInv, VerificationNext
    PROVE  RunInv'
BY RequestRunKeeps, TakeRunKeeps, VerifierSteps, VerifierEnds DEF VerificationNext

----------------------------------------------------------------------------
(* What a verification does to the ledger *)

\* Only a persisted verification writes the ledger: the projection of the plan.
LEMMA ProjectionOnly ==
    ASSUME RunInv, VerificationNext
    PROVE  \/ UNCHANGED ledgerVars
           \/ \E p \in Plan, found \in VerificationOutcome :
                Projects(p) /\ Projection(p, found) /\ UNCHANGED points
<1>1. ASSUME NEW v \in VerifySlot, PersistVerification(v)
      PROVE  \/ UNCHANGED ledgerVars
             \/ \E p \in Plan, found \in VerificationOutcome :
                Projects(p) /\ Projection(p, found) /\ UNCHANGED points
    BY <1>1 DEF PersistVerification, Verifying, RunInv
<1>. QED
    BY <1>1
    DEF VerificationNext, RequestVerification, QueueVerification, AbandonRun, TakeRun, LoadRun,
        LoadVerified, Verify, VerificationFails, SettleVerification

LEMMA ProjectedVersions ==
    ASSUME versions \in [Version -> VersionStatus], NEW p \in Plan
    PROVE  Released(p) \in [Version -> VersionStatus]
BY DEF Released, VersionStatus

LEMMA ProjectionLedger ==
    ASSUME LedgerInv, SiteInv, UNCHANGED <<points, site>>, NEW p \in Plan,
           NEW found \in VerificationOutcome, Projects(p), Projection(p, found)
    PROVE  LedgerInv'
<1>. DEFINE status == DeploymentAfter(deployments[p].status, found)
<1>. DEFINE row == [deployments[p] EXCEPT !.status = status]
<1>a. deployments[p] \in DeploymentRow /\ deployments[p].status \in Verifiable
    BY DEF LedgerInv, LedgerTypeOK, Projects
<1>1. status \in DeploymentStatus \ {"rollback_pending", "rolled_back"}
    BY <1>a DEF DeploymentAfter, VerificationOutcome, DeploymentStatus, Verifiable, Live
<1>2. row \in DeploymentRow /\ row.status = status
    BY <1>1, <1>a DEF DeploymentRow
<1>3. row.evidence = deployments[p].evidence
    BY <1>a DEF DeploymentRow
<1>4. deployments' = [deployments EXCEPT ![p] = row]
    BY DEF Projection
<1>5. plans[p].status # "rolled_back"
    BY <1>a DEF LedgerInv, RolledBackTogether, Verifiable, Live
<1>6. /\ plans' \in [Plan -> PlanRow]
      /\ \A q \in Plan : plans'[q].status = "rolled_back" <=> plans[q].status = "rolled_back"
    <2>1. CASE UNCHANGED plans
        BY <2>1 DEF LedgerInv, LedgerTypeOK
    <2>2. CASE SetPlan(p, PlanAfter(found))
        BY <1>5, <2>2 DEF LedgerInv, LedgerTypeOK, PlanRow, PlanStatus, SetPlan, PlanAfter
    <2>. QED  BY <2>1, <2>2 DEF Projection
<1>7. versions' \in [Version -> VersionStatus]
    BY ProjectedVersions, DemotedType DEF LedgerInv, LedgerTypeOK, Projection
<1>. HIDE DEF row, status
<1>8. RowOK(row, site) /\ RestoredOK(row, site)
    BY <1>1, <1>2, <1>3 DEF LedgerInv, RowOK, RestoredOK
<1>9. /\ deployments' \in [Plan -> DeploymentRow]
      /\ \A q \in Plan : RowOK(deployments'[q], site) /\ RestoredOK(deployments'[q], site)
    BY <1>2, <1>4, <1>8 DEF LedgerInv, LedgerTypeOK
<1>10. RolledBackTogether'
    BY <1>1, <1>2, <1>4, <1>5, <1>6 DEF LedgerInv, LedgerTypeOK, RolledBackTogether
<1>. QED  BY <1>6, <1>7, <1>9, <1>10 DEF LedgerInv, LedgerTypeOK

----------------------------------------------------------------------------
(* The invariant *)

LEMMA InitIInv ==
    ASSUME Init
    PROVE  IInv
<1>1. LedgerInv
    <2>1. \A p \in Plan : RowOK(deployments[p], site) /\ RestoredOK(deployments[p], site)
        BY DEF Init, RowOK, RestoredOK, NoRollback
    <2>2. \A x \in Point : PointOK(points[x], site)
        BY DEF Init, PointOK, ActiveRollback
    <2>. QED  BY <2>1, <2>2 DEF Init, LedgerInv, RolledBackTogether
<1>2. LocalInv
    BY NotRunningOK DEF Init, LocalInv
<1>3. SiteInv
    BY RollbackWorkerAssumption DEF Init, SiteInv
<1>4. JobInv
    <2>1. Queue!NoJob \in Queue!Jobs(RollbackSlot) /\ Queue!NoJob.holder = None
        BY RollbackWorkerAssumption DEF Queue!NoJob, Queue!Jobs
    <2>. QED  BY <2>1, RollbackWorkerAssumption DEF Init, JobInv
<1>5. RunInv
    <2>1. RunQueue!NoJob \in RunQueue!Jobs(VerifySlot)
        BY ReleaseVerificationAssumption DEF RunQueue!NoJob, RunQueue!Jobs
    <2>2. NotVerifying \in VerifierState /\ NotVerifying.pc = "idle" /\ NotVerifying.run = None
        BY DEF NotVerifying, VerifierState
    <2>3. NoRun \in [plan : Plan \cup {None}, status : RunStatus] /\ NoRun.status = "absent"
        BY DEF NoRun, RunStatus
    <2>4. None \notin Run
        BY ReleaseVerificationAssumption
    <2>. QED
        BY <2>1, <2>2, <2>3, <2>4
        DEF Init, VerificationInit, RunInv, VerificationTypeOK, Running
<1>. QED  BY <1>1, <1>2, <1>3, <1>4, <1>5 DEF IInv

LEMMA StutterKeeps ==
    ASSUME IInv, UNCHANGED recoveryVars
    PROVE  IInv'
<1>1. UNCHANGED <<ledgerVars, rollbackVars, verificationVars>>
    BY DEF recoveryVars
<1>2. SiteGrows  BY <1>1, SameSiteGrows DEF IInv, rollbackVars
<1>3. LedgerInv' /\ LocalInv'
    BY <1>1, <1>2, LedgerKept, LocalKept DEF IInv, rollbackVars
<1>4. SiteInv' /\ JobInv'
    BY <1>1 DEF IInv, SiteInv, JobInv, rollbackVars
<1>5. RunInv'
    BY <1>1 DEF IInv, RunInv, VerificationTypeOK, Running, verificationVars
<1>. QED  BY <1>3, <1>4, <1>5 DEF IInv

LEMMA NextKeeps ==
    ASSUME IInv, [Next]_recoveryVars
    PROVE  IInv'
<1>1. CASE RollbackNext /\ UNCHANGED verificationVars
    <2>1. RollbackInv'
        BY <1>1, RollbackNextKeeps DEF IInv, RollbackInv
    <2>2. RunInv'
        BY <1>1 DEF IInv, RunInv, VerificationTypeOK, Running, verificationVars
    <2>. QED  BY <2>1, <2>2 DEF IInv, RollbackInv
<1>2. CASE VerificationNext /\ UNCHANGED rollbackVars
    <2>1. UNCHANGED <<rollbacks, rollbackJobs, site, faults>> /\ SiteGrows
        BY <1>2, SameSiteGrows DEF IInv, rollbackVars
    <2>2. LedgerInv'
        BY <1>2, <2>1, ProjectionOnly, ProjectionLedger, LedgerKept DEF IInv
    <2>3. LocalInv' /\ SiteInv' /\ JobInv'
        BY <2>1, LocalKept DEF IInv, SiteInv, JobInv
    <2>4. RunInv'
        BY <1>2, VerificationRunInv DEF IInv
    <2>. QED  BY <2>2, <2>3, <2>4 DEF IInv
<1>3. CASE UNCHANGED recoveryVars
    BY <1>3, StutterKeeps
<1>. QED  BY <1>1, <1>2, <1>3 DEF Next

LEMMA Invariant == Spec => []IInv
<1>1. Init => IInv  BY InitIInv
<1>2. IInv /\ [Next]_recoveryVars => IInv'  BY NextKeeps
<1>. QED  BY <1>1, <1>2, PTL DEF Spec

----------------------------------------------------------------------------
(* Theorems *)

\* The ledger, the attempts, the queue's jobs and the runs keep their types; in
\* particular no job is retried more often than rollbackJobAttempts and
\* releaseVerificationJobAttempts allow.
THEOREM RecoveryTypeCorrect == Spec => []RecoveryTypeOK
<1>1. IInv => RecoveryTypeOK
    BY DEF IInv, LedgerInv, LocalInv, SiteInv, JobInv, RunInv, RecoveryTypeOK, RollbackTypeOK
<1>. QED  BY <1>1, Invariant, PTL

\* A deployment is rolled_back exactly when its release plan is: the transaction of
\* markRollbackSucceeded moves both, and neither markRollbackPending, the hand-over to
\* a human nor the projection of a late verification moves one of them away.
THEOREM RollbackTogether == Spec => []RolledBackTogether
<1>1. IInv => RolledBackTogether
    BY DEF IInv, LedgerInv
<1>. QED  BY <1>1, Invariant, PTL

\* What a deployment is rolled back to was published by the provider, and is the
\* deploy of the rollback point its evidence names or one a restore made: a deploy that
\* was published for another reason is never recorded as the rollback.
THEOREM RestoredWasPublished == Spec => []RolledBackToRestored
<1>1. IInv => RolledBackToRestored
    BY DEF IInv, LedgerInv, RestoredOK, RolledBackToRestored
<1>. QED  BY <1>1, Invariant, PTL

\* What a step of a rollback may do to the statuses of a plan and its deployment
Owned(p) ==
    /\ plans'[p].status \in {plans[p].status, "rolled_back"}
    /\ deployments'[p].status \in {deployments[p].status, "rollback_pending", "rolled_back"}

LEMMA LedgerOwned ==
    ASSUME UNCHANGED <<plans, deployments>>
    PROVE  \A p \in Plan : Owned(p)
BY DEF Owned

LEMMA CompletedOwned ==
    ASSUME LedgerTypeOK, NEW st \in RollbackState, st.point \in Point, Completed(st)
    PROVE  \A p \in Plan : Owned(p)
<1>. DEFINE row == RolledBackRow(st)
<1>1. st.point[1] \in Plan /\ deployments[st.point[1]] \in DeploymentRow
    BY PointParts DEF LedgerTypeOK
<1>2. row.status = "rolled_back"
    BY <1>1 DEF RolledBackRow, DeploymentRow
<1>3. /\ deployments' = [deployments EXCEPT ![st.point[1]] = row]
      /\ plans' = [plans EXCEPT ![st.point[1]].status = "rolled_back"]
    BY DEF Completed, SetPlan
<1>. HIDE DEF row
<1>. QED  BY <1>1, <1>2, <1>3 DEF Owned, LedgerTypeOK, PlanRow

LEMMA PendedOwned ==
    ASSUME LedgerTypeOK, NEW st \in RollbackState, st.point \in Point, Pended(st)
    PROVE  \A p \in Plan : Owned(p)
<1>. DEFINE row == PendingRow(st)
<1>1. st.point[1] \in Plan /\ deployments[st.point[1]] \in DeploymentRow
    BY PointParts DEF LedgerTypeOK
<1>2. row.status = "rollback_pending"
    BY <1>1 DEF PendingRow, DeploymentRow
<1>3. /\ deployments' = [deployments EXCEPT ![st.point[1]] = row]
      /\ UNCHANGED plans
    BY DEF Pended
<1>. HIDE DEF row
<1>. QED  BY <1>1, <1>2, <1>3 DEF Owned, LedgerTypeOK

LEMMA ManualOwned ==
    ASSUME RollbackInv, NEW a \in RollbackActor, ManualRow(a)
    PROVE  \A p \in Plan : Owned(p)
<1>. DEFINE q == PlanOf(a)
<1>. DEFINE row == [deployments[q] EXCEPT
            !.operation = "manual_reconciliation_required",
            !.evidence = [rollbacks[a].row.evidence EXCEPT !.rollback =
                [@ EXCEPT !.status = "manual_reconciliation_required",
                          !.point = <<rollbacks[a].point[2], rollbacks[a].point[3]>>]]]
<1>1. q \in Plan /\ deployments[q] \in DeploymentRow
    BY Holding, LedgerParts DEF ManualRow
<1>2. row.status = deployments[q].status
    BY <1>1 DEF DeploymentRow
<1>3. /\ UNCHANGED plans
      /\ UNCHANGED deployments \/ deployments' = [deployments EXCEPT ![q] = row]
    BY DEF ManualRow
<1>4. deployments \in [Plan -> DeploymentRow]
    BY DEF RollbackInv, LedgerInv, LedgerTypeOK
<1>. HIDE DEF row, q
<1>. QED  BY <1>1, <1>2, <1>3, <1>4 DEF Owned

LEMMA RollbackOwned ==
    ASSUME RollbackInv, RollbackNext
    PROVE  \A p \in Plan : Owned(p)
<1>a. LedgerTypeOK
    BY DEF RollbackInv, LedgerInv
<1>1. ASSUME NEW a \in RollbackActor, RollbackProgress(a) \/ RollbackFault(a)
      PROVE  \/ UNCHANGED <<plans, deployments>>
             \/ /\ rollbacks[a] \in RollbackState /\ rollbacks[a].point \in Point
                /\ Completed(rollbacks[a]) \/ Pended(rollbacks[a])
             \/ ManualRow(a)
    <2>1. CASE RecordCompleted(a) \/ RecordCompletedFails(a) \/ CompleteObserved(a)
               \/ CompleteObservedFails(a) \/ RecordPending(a) \/ RecordPendingFails(a)
        BY <2>1, Holding
        DEF RecordCompleted, RecordCompletedFails, CompleteObserved, CompleteObservedFails,
            RecordPending, RecordPendingFails, ledgerVars
    <2>. QED
        BY <1>1, <2>1
        DEF RollbackProgress, RollbackFault, LoadPlanStatus, LoadPoint, LoadDeployment,
            RecordIntent, Restore, RecordRefused, Observe, AlreadyCompleted, ManualRead,
            ManualPoint, SettleRollback, RestoreThrows, ObserveFails, RollbackCallFails,
            RollbackCrash, ledgerVars
<1>2. ASSUME NEW a \in RollbackActor, RollbackProgress(a) \/ RollbackFault(a)
      PROVE  \A p \in Plan : Owned(p)
    BY <1>1, <1>2, <1>a, LedgerOwned, CompletedOwned, PendedOwned, ManualOwned
<1>. QED
    BY <1>2, LedgerOwned
    DEF RollbackNext, RequestRollback, TakeRollback, StallRollback, ScanTakes, Publish,
        OutsidePublish, ledgerVars

\* A plan that is in a rollback, or waits for a human, is none that Projects allows.
LEMMA VerificationOwned ==
    ASSUME IInv, VerificationNext, NEW p \in Plan,
           InRollback(p) \/ Manual(deployments[p])
    PROVE  Owned(p)
<1>1. CASE UNCHANGED ledgerVars
    BY <1>1, LedgerOwned DEF ledgerVars
<1>2. ASSUME NEW q \in Plan, NEW found \in VerificationOutcome, Projects(q),
             Projection(q, found)
      PROVE  Owned(p)
    <2>1. InRollback(q) => RollbackActive(q)
        <3>1. \A x \in Point : x[1] = q /\ points[x].status \in ActiveRollback =>
                \E r \in Plan, d \in ProviderDeploy :
                    points[<<q, r, d>>].status \in ActiveRollback
            <4>. TAKE x \in Point
            <4>. HAVE x[1] = q /\ points[x].status \in ActiveRollback
            <4>1. x = <<q, x[2], x[3]>> /\ x[2] \in Plan /\ x[3] \in ProviderDeploy
                BY PointParts
            <4>2. points[<<q, x[2], x[3]>>].status \in ActiveRollback
                BY <4>1
            <4>. QED  BY <4>1, <4>2
        <3>. QED  BY <3>1 DEF InRollback, RollbackActive
    <2>2. p # q
        BY <1>2, <2>1 DEF Projects
    <2>3. /\ plans \in [Plan -> PlanRow] /\ deployments \in [Plan -> DeploymentRow]
        BY DEF IInv, LedgerInv, LedgerTypeOK
    <2>4. deployments'[p] = deployments[p] /\ plans'[p] = plans[p]
        BY <1>2, <2>2, <2>3 DEF Projection, SetPlan
    <2>. QED  BY <2>4 DEF Owned
<1>. QED  BY <1>1, <1>2, ProjectionOnly DEF IInv

\* While a rollback is active by either row, or a human has to look at the deployment,
\* no step but the rollback's own moves the plan or the deployment (ADR 0013): the
\* condition persistReleaseVerificationResult checks under the points' row locks is
\* enough, whatever was read before.
THEOREM RollbackOwns == Spec => RollbackOwnsRelease
<1>1. IInv /\ [Next]_recoveryVars =>
        [\A p \in Plan : InRollback(p) \/ Manual(deployments[p]) =>
            /\ plans'[p].status \in {plans[p].status, "rolled_back"}
            /\ deployments'[p].status \in
                {deployments[p].status, "rollback_pending", "rolled_back"}]_recoveryVars
    <2>. SUFFICES ASSUME IInv, Next, NEW p \in Plan,
                         InRollback(p) \/ Manual(deployments[p])
                  PROVE  Owned(p)
        BY DEF Owned
    <2>1. CASE RollbackNext
        BY <2>1, RollbackOwned DEF IInv, RollbackInv
    <2>2. CASE VerificationNext
        BY <2>2, VerificationOwned
    <2>. QED  BY <2>1, <2>2 DEF Next
<1>. QED  BY <1>1, Invariant, PTL DEF Spec, RollbackOwnsRelease

----------------------------------------------------------------------------
(* The intent behind a restore *)

\* The steps between the decision to restore and the record of its outcome
Underway == {"restore", "record_completed", "record_pending", "record_refused"}

Restoring == Underway \cup {"intent"}

Holds(a, x) == rollbacks[a].point = x

\* The deployment is one the restore of a rollback already moved.
Moved(p) == deployments[p].status \in {"rollback_pending", "rolled_back"}

\* The scan may take the deployment up, with the point x.
PendingOf(x) ==
    LET row == deployments[x[1]] IN
    /\ row.status = "rollback_pending" /\ ~Manual(row)
    /\ row.evidence.rollback.point = <<x[2], x[3]>>

\* A job's attempt is the holder the queue knows, so a point has at most one.
OneAttempt ==
    \A a \in RollbackSlot, x \in Point :
        Holds(a, x) => rollbackJobs[x].state = "active" /\ rollbackJobs[x].holder = a

ScanRestoresNothing == rollbacks[RollbackScan].pc \notin Restoring

\* What the scan reconciles is not what an attempt restores.
ScanElsewhere ==
    /\ \A a \in RollbackSlot, x \in Point :
        Holds(a, x) /\ rollbacks[a].pc \in Restoring =>
            ~PendingOf(x) /\ ~Holds(RollbackScan, x)
    /\ \A x \in Point : Holds(RollbackScan, x) => Moved(x[1])

OwnIntent ==
    \A a \in RollbackSlot, x \in Point :
        Holds(a, x) /\ rollbacks[a].pc \in Underway =>
            /\ points[x].status = "restore_in_flight"
            /\ points[x].operation = rollbacks[a].op.operation

\* Rollback points are never deleted, and nothing is queued or held for one that is
\* not there.
PointThere ==
    \A x \in Point :
        \/ rollbackJobs[x].state # "none"
        \/ \E a \in RollbackActor : Holds(a, x)
        \/ PendingOf(x)
        => points[x].status # "absent"

IntentInv ==
    OneAttempt /\ ScanRestoresNothing /\ ScanElsewhere /\ OwnIntent /\ PointThere

\* What a step of attempt (or scan) a at point x changes
Moves(a, x) ==
    /\ \A b \in RollbackActor \ {a} : rollbacks'[b] = rollbacks[b]
    /\ rollbacks'[a].point \in {x, None}
    /\ \A y \in Point : rollbackJobs'[y] # rollbackJobs[y] =>
        y = x /\ a \in RollbackSlot /\ rollbacks'[a].point = None
    /\ \A y \in Point : points'[y] # points[y] =>
        y = x /\ points'[y].status # "absent"
    /\ \A p \in Plan : Moved(p) => Moved(p)'
    /\ \A y \in Point : PendingOf(y)' =>
        \/ PendingOf(y)
        \/ y = x /\ rollbacks[a].pc \in Underway /\ rollbacks'[a].pc \notin Restoring
    /\ rollbacks'[a].pc \in Restoring =>
        /\ a \in RollbackSlot /\ rollbacks'[a].point = x /\ UNCHANGED <<plans, deployments>>
        /\ \/ /\ rollbacks'[a].pc = "intent"
              /\ ~Moved(x[1]) /\ ~PendingOf(x)' /\ ~Manual(deployments[x[1]])
           \/ /\ rollbacks[a].pc \in Restoring
              /\ rollbacks'[a].pc \in Underway
              /\ points'[x].status = "restore_in_flight"
              /\ points'[x].operation = rollbacks'[a].op.operation
              /\ rollbacks[a].pc = "intent" => plans[x[1]].status = "failed"
    /\ \A p \in Plan : p # x[1] =>
        /\ plans'[p].status = plans[p].status
        /\ Manual(deployments'[p]) => Manual(deployments[p])

LEMMA IntentTypes ==
    /\ None \notin Point /\ None \notin RollbackActor
    /\ RollbackScan \notin RollbackSlot /\ RollbackScan \in RollbackActor
    /\ RollbackSlot \subseteq RollbackActor
    /\ RollbackActor \ RollbackSlot = {RollbackScan}
BY RollbackWorkerAssumption DEF Point, RollbackActor

\* An attempt's step keeps the invariant, as nothing else is at its point.
LEMMA MovesKeep ==
    ASSUME IntentInv, NEW a \in RollbackActor, NEW x \in Point, rollbacks[a].point = x,
           Moves(a, x)
    PROVE  IntentInv'
<1>. USE IntentTypes
<1>1. \A b \in RollbackSlot : Holds(b, x) /\ a \in RollbackSlot => a = b
    BY DEF IntentInv, OneAttempt, Holds
<1>2. a \notin RollbackSlot => a = RollbackScan
    OBVIOUS
<1>3. points[x].status # "absent"
    BY DEF IntentInv, PointThere, Holds
<1>4. \A y \in Point : PendingOf(y)' => PendingOf(y) \/ y = x
    BY DEF Moves
<1>5. \A y \in Point : points[y].status # "absent" => points'[y].status # "absent"
    BY DEF Moves
<1>6. rollbacks[a].pc \in Restoring => a \in RollbackSlot
    BY <1>2 DEF IntentInv, ScanRestoresNothing
<1>7. OneAttempt'
    BY <1>1 DEF IntentInv, OneAttempt, Holds, Moves
<1>8. ScanRestoresNothing'
    BY DEF IntentInv, ScanRestoresNothing, Moves
<1>9. ScanElsewhere'
    <2>1. ASSUME NEW y \in Point, Holds(RollbackScan, y)'
          PROVE  Holds(RollbackScan, y) /\ Moved(y[1]) /\ Moved(y[1])'
        <3>1. Holds(RollbackScan, y)
            BY <2>1 DEF Moves, Holds
        <3>2. Moved(y[1])
            BY <3>1 DEF IntentInv, ScanElsewhere
        <3>. QED  BY <3>1, <3>2, PointParts DEF Moves
    <2>2. ASSUME NEW b \in RollbackSlot, NEW y \in Point, Holds(b, y)',
                 rollbacks'[b].pc \in Restoring
          PROVE  ~PendingOf(y)' /\ ~Holds(RollbackScan, y)'
        <3>1. CASE b # a
            <4>1. Holds(b, y) /\ rollbacks[b].pc \in Restoring
                BY <2>2, <3>1 DEF Moves, Holds
            <4>2. ~PendingOf(y) /\ ~Holds(RollbackScan, y)
                BY <4>1 DEF IntentInv, ScanElsewhere
            <4>3. y = x => rollbacks[a].pc \notin Underway
                BY <1>1, <1>6, <3>1, <4>1 DEF Restoring
            <4>. QED  BY <2>1, <4>2, <4>3 DEF Moves
        <3>2. CASE b = a
            <4>1. y = x /\ a \in RollbackSlot
                BY <2>2, <3>2 DEF Moves, Holds
            <4>2. CASE ~Moved(x[1]) /\ ~PendingOf(x)'
                BY <2>1, <4>1, <4>2
            <4>3. CASE rollbacks[a].pc \in Restoring
                <5>1. ~PendingOf(x) /\ ~Holds(RollbackScan, x)
                    BY <4>1, <4>3 DEF IntentInv, ScanElsewhere, Holds
                <5>. QED  BY <2>1, <2>2, <3>2, <4>1, <5>1 DEF Moves
            <4>. QED  BY <2>2, <3>2, <4>2, <4>3 DEF Moves
        <3>. QED  BY <3>1, <3>2
    <2>. QED  BY <2>1, <2>2 DEF ScanElsewhere
<1>10. OwnIntent'
    <2>. SUFFICES ASSUME NEW b \in RollbackSlot, NEW y \in Point, Holds(b, y)',
                         rollbacks'[b].pc \in Underway
                  PROVE  /\ points'[y].status = "restore_in_flight"
                         /\ points'[y].operation = rollbacks'[b].op.operation
        BY DEF OwnIntent
    <2>1. CASE b # a
        <3>1. Holds(b, y) /\ rollbacks[b].pc \in Underway /\ rollbacks'[b] = rollbacks[b]
            BY <2>1 DEF Moves, Holds
        <3>2. y # x
            BY <1>1, <1>2, <2>1, <3>1 DEF IntentInv, ScanElsewhere, Holds, Restoring
        <3>3. points'[y] = points[y]
            BY <3>2 DEF Moves
        <3>. QED  BY <3>1, <3>3 DEF IntentInv, OwnIntent
    <2>2. CASE b = a
        BY <2>2 DEF Moves, Holds, Underway, Restoring
    <2>. QED  BY <2>1, <2>2
<1>11. PointThere'
    <2>. SUFFICES ASSUME NEW y \in Point,
                         \/ rollbackJobs'[y].state # "none"
                         \/ \E b \in RollbackActor : Holds(b, y)'
                         \/ PendingOf(y)'
                  PROVE  points'[y].status # "absent"
        BY DEF PointThere
    <2>1. CASE y = x
        BY <1>3, <1>5, <2>1
    <2>2. CASE y # x
        <3>1. rollbackJobs'[y] = rollbackJobs[y]
            BY <2>2 DEF Moves
        <3>2. \A b \in RollbackActor : Holds(b, y)' => Holds(b, y)
            BY <2>2 DEF Moves, Holds
        <3>. QED  BY <1>4, <1>5, <2>2, <3>1, <3>2 DEF IntentInv, PointThere
    <2>. QED  BY <2>1, <2>2
<1>. QED  BY <1>7, <1>8, <1>9, <1>10, <1>11 DEF IntentInv

----------------------------------------------------------------------------
(* What the steps of an attempt move *)

\* The part of Moves that is about the ledger, of a step that restores nothing further
LedgerMoves(a, x) ==
    /\ \A y \in Point : points'[y] # points[y] => y = x /\ points'[y].status # "absent"
    /\ \A p \in Plan : Moved(p) => Moved(p)'
    /\ \A y \in Point : PendingOf(y)' =>
        PendingOf(y) \/ (y = x /\ rollbacks[a].pc \in Underway)
    /\ \A p \in Plan : p # x[1] =>
        /\ plans'[p].status = plans[p].status
        /\ Manual(deployments'[p]) => Manual(deployments[p])

Leaves(a, x) ==
    /\ \A b \in RollbackActor \ {a} : rollbacks'[b] = rollbacks[b]
    /\ rollbacks'[a].point \in {x, None}
    /\ rollbacks'[a].pc \notin Restoring

LEMMA LeavesMoves ==
    ASSUME NEW a, NEW x, Leaves(a, x), LedgerMoves(a, x), UNCHANGED rollbackJobs
    PROVE  Moves(a, x)
BY DEF Leaves, LedgerMoves, Moves

LEMMA SetLeaves ==
    ASSUME RollbackInv, NEW a \in RollbackActor, NEW st, SetRollback(a, st), NEW x,
           st.point \in {x, None}, st.pc \notin Restoring
    PROVE  Leaves(a, x)
BY DEF RollbackInv, LocalInv, SetRollback, Leaves

LEMMA OverLeaves ==
    ASSUME RollbackInv, NEW a \in RollbackActor, NEW x, rollbacks[a].point = x, NEW err,
           Over(a, err) \/ HandOver(a, err)
    PROVE  Leaves(a, x)
<1>1. PICK pc \in {"manual_read", "settle"} :
        SetRollback(a, [NotRunning EXCEPT !.pc = pc, !.point = x,
                                          !.final = rollbacks[a].final, !.error = err])
    BY DEF Over, HandOver
<1>. DEFINE st == [NotRunning EXCEPT !.pc = pc, !.point = x,
                                     !.final = rollbacks[a].final, !.error = err]
<1>2. st.point = x /\ st.pc \notin Restoring
    BY DEF NotRunning, Restoring, Underway
<1>3. SetRollback(a, st)  BY <1>1
<1>. HIDE DEF st
<1>. QED  BY <1>2, <1>3, SetLeaves

LEMMA SameLedgerMoves ==
    ASSUME UNCHANGED ledgerVars, NEW a, NEW x
    PROVE  LedgerMoves(a, x)
BY DEF ledgerVars, LedgerMoves, Moved, PendingOf, Manual

\* A write of the held point, and of nothing else
LEMMA PointMoves ==
    ASSUME RollbackInv, UNCHANGED <<plans, deployments>>, NEW a, NEW x \in Point, NEW row,
           row.status # "absent", points' = [points EXCEPT ![x] = row]
    PROVE  LedgerMoves(a, x)
<1>1. \A y \in Point : points'[y] = IF y = x THEN row ELSE points[y]
    BY DEF RollbackInv, LedgerInv, LedgerTypeOK, Point
<1>. QED  BY <1>1 DEF LedgerMoves, Moved, PendingOf, Manual

LEMMA CompletedMoves ==
    ASSUME RollbackInv, NEW a \in RollbackActor, NEW x \in Point, rollbacks[a].point = x,
           Completed(rollbacks[a])
    PROVE  LedgerMoves(a, x)
<1>. DEFINE st == rollbacks[a]
<1>. DEFINE row == RolledBackRow(st)
<1>1. /\ points' = [points EXCEPT ![x] = Execution(st, "completed")]
      /\ deployments' = [deployments EXCEPT ![x[1]] = row]
      /\ plans' = [plans EXCEPT ![x[1]].status = "rolled_back"]
    BY DEF Completed, SetPlan
<1>2. /\ points \in [Point -> PointRow] /\ deployments \in [Plan -> DeploymentRow]
      /\ plans \in [Plan -> PlanRow]
    BY DEF RollbackInv, LedgerInv, LedgerTypeOK, Point
<1>3. x[1] \in Plan
    BY PointParts
<1>4. row.status = "rolled_back"
    BY <1>2, <1>3 DEF RolledBackRow, DeploymentRow
<1>5. Execution(st, "completed").status # "absent"
    BY DEF Execution
<1>. HIDE DEF st, row
<1>6. \A y \in Point : points'[y] # points[y] => y = x /\ points'[y].status # "absent"
    BY <1>1, <1>2, <1>5
<1>7. \A p \in Plan : /\ Moved(p) => Moved(p)'
                      /\ deployments'[p] = deployments[p]
                            \/ deployments'[p].status = "rolled_back"
    BY <1>1, <1>2, <1>3, <1>4 DEF Moved
<1>8. \A y \in Point : PendingOf(y)' => PendingOf(y)
    BY <1>7, PointParts DEF PendingOf, Manual
<1>9. \A p \in Plan : p # x[1] =>
        plans'[p].status = plans[p].status /\ deployments'[p] = deployments[p]
    BY <1>1, <1>2
<1>. QED  BY <1>6, <1>7, <1>8, <1>9 DEF LedgerMoves

LEMMA PendedMoves ==
    ASSUME RollbackInv, NEW a \in RollbackActor, NEW x \in Point, rollbacks[a].point = x,
           rollbacks[a].pc \in Underway, Pended(rollbacks[a])
    PROVE  LedgerMoves(a, x)
<1>. DEFINE st == rollbacks[a]
<1>. DEFINE row == PendingRow(st)
<1>1. /\ points' = [points EXCEPT ![x] = Execution(st, "rollback_pending")]
      /\ deployments' = [deployments EXCEPT ![x[1]] = row]
      /\ UNCHANGED plans
    BY DEF Pended
<1>2. /\ points \in [Point -> PointRow] /\ deployments \in [Plan -> DeploymentRow]
      /\ st \in RollbackState
    BY DEF RollbackInv, LedgerInv, LedgerTypeOK, LocalInv, Point
<1>3. x[1] \in Plan
    BY PointParts
<1>4. /\ row.status = "rollback_pending"
      /\ row.evidence.rollback.point = <<x[2], x[3]>>
    <2>1. deployments[x[1]] \in DeploymentRow /\ st.row.evidence \in Evidence
        BY <1>2, <1>3, StateParts
    <2>. QED  BY <2>1 DEF PendingRow, Trace, DeploymentRow, Evidence
<1>5. Execution(st, "rollback_pending").status # "absent"
    BY DEF Execution
<1>. HIDE DEF row
<1>6. \A y \in Point : points'[y] # points[y] => y = x /\ points'[y].status # "absent"
    BY <1>1, <1>2, <1>5
<1>7. \A p \in Plan : /\ Moved(p) => Moved(p)'
                      /\ p # x[1] => deployments'[p] = deployments[p]
    BY <1>1, <1>2, <1>3, <1>4 DEF Moved
<1>8. ASSUME NEW y \in Point, PendingOf(y)'
      PROVE  PendingOf(y) \/ y = x
    <2>1. CASE y[1] # x[1]
        BY <1>7, <1>8, <2>1, PointParts DEF PendingOf, Manual
    <2>2. CASE y[1] = x[1]
        <3>1. deployments'[y[1]] = row
            BY <1>1, <1>2, <1>3, <2>2
        <3>2. <<y[2], y[3]>> = <<x[2], x[3]>>
            BY <1>4, <1>8, <3>1 DEF PendingOf
        <3>3. y = <<y[1], y[2], y[3]>> /\ x = <<x[1], x[2], x[3]>>
            BY PointParts
        <3>. QED  BY <2>2, <3>2, <3>3
    <2>. QED  BY <2>1, <2>2
<1>. QED  BY <1>1, <1>6, <1>7, <1>8 DEF LedgerMoves

LEMMA ManualRowMoves ==
    ASSUME RollbackInv, NEW a \in RollbackActor, NEW x \in Point, rollbacks[a].point = x,
           ManualRow(a)
    PROVE  LedgerMoves(a, x)
<1>. DEFINE row == [deployments[x[1]] EXCEPT
            !.operation = "manual_reconciliation_required",
            !.evidence = [rollbacks[a].row.evidence EXCEPT !.rollback =
                [@ EXCEPT !.status = "manual_reconciliation_required",
                          !.point = <<x[2], x[3]>>]]]
<1>1. x[1] \in Plan /\ deployments \in [Plan -> DeploymentRow]
    BY PointParts DEF RollbackInv, LedgerInv, LedgerTypeOK
<1>2. row.status = deployments[x[1]].status /\ Manual(row)
    BY <1>1 DEF DeploymentRow, Manual
<1>3. /\ UNCHANGED <<plans, points>>
      /\ UNCHANGED deployments \/ deployments' = [deployments EXCEPT ![x[1]] = row]
    BY DEF ManualRow, PlanOf
<1>. HIDE DEF row
<1>4. \A p \in Plan : /\ deployments'[p].status = deployments[p].status
                      /\ deployments'[p] = deployments[p] \/ Manual(deployments'[p])
                      /\ p # x[1] => deployments'[p] = deployments[p]
    BY <1>1, <1>2, <1>3
<1>5. \A y \in Point : PendingOf(y)' => PendingOf(y)
    BY <1>4, PointParts DEF PendingOf, Manual
<1>. QED  BY <1>3, <1>4, <1>5 DEF LedgerMoves, Moved

\* An attempt that goes on to an intent found no operation: the deployment is none
\* that a restore moved, so the scan is not at its point either.
LEMMA LoadDeploymentMoves ==
    ASSUME RollbackInv, NEW a \in RollbackActor, NEW x \in Point, rollbacks[a].point = x,
           LoadDeployment(a)
    PROVE  Moves(a, x)
<1>. DEFINE st == rollbacks[a]
<1>. DEFINE row == deployments[x[1]]
<1>. DEFINE op == Found(x, st.copy, row)
<1>a. x[1] \in Plan /\ PlanOf(a) = x[1]
    BY PointParts DEF PlanOf
<1>b. LedgerMoves(a, x) /\ UNCHANGED <<rollbackJobs, plans, deployments>>
    BY SameLedgerMoves DEF LoadDeployment, ledgerVars
<1>c. row \in DeploymentRow /\ RowOK(row, site) /\ st \in RollbackState
    BY <1>a, Holding, LedgerParts
<1>1. CASE \E err \in {"none", "evidence"} : Over(a, err) \/ HandOver(a, err)
    BY <1>1, <1>b, OverLeaves, LeavesMoves
<1>2. CASE /\ a # RollbackScan /\ Eligible(row)
           /\ SetRollback(a, [st EXCEPT
                !.pc = IF op = NoOperation THEN "intent" ELSE "observe",
                !.row = row, !.op = op, !.copy = NoPoint])
    <2>. DEFINE new == [st EXCEPT
                !.pc = IF op = NoOperation THEN "intent" ELSE "observe",
                !.row = row, !.op = op, !.copy = NoPoint]
    <2>1. /\ new.point = x
          /\ new.pc = IF op = NoOperation THEN "intent" ELSE "observe"
        BY <1>c DEF RollbackState
    <2>2. SetRollback(a, new)
        BY <1>2
    <2>. HIDE DEF new
    <2>3. CASE op # NoOperation
        <3>1. new.point \in {x, None} /\ new.pc \notin Restoring
            BY <2>1, <2>3 DEF Restoring, Underway
        <3>. QED  BY <1>b, <2>2, <3>1, SetLeaves, LeavesMoves
    <2>4. CASE op = NoOperation
        <3>1. row.evidence.rollback.status \notin ActiveRollback
            BY <2>4 DEF Found, InTrace, NoOperation, ActiveRollback
        <3>2. ~Moved(x[1])
            BY <1>2, <1>c, <3>1
            DEF Eligible, RowOK, Moved, RollbackSource, Live, ActiveRollback
        <3>3. \A y \in Point : y = x => ~PendingOf(y)'
            BY <1>b, <3>2 DEF PendingOf, Moved
        <3>4. /\ rollbacks'[a] = new
              /\ \A b \in RollbackActor \ {a} : rollbacks'[b] = rollbacks[b]
            BY <2>2 DEF RollbackInv, LocalInv, SetRollback
        <3>5. a \in RollbackSlot /\ ~Manual(deployments[x[1]])
            BY <1>2 DEF RollbackActor, Eligible
        <3>. QED
            BY <1>b, <2>1, <2>4, <3>2, <3>3, <3>4, <3>5 DEF LedgerMoves, Moves
    <2>. QED  BY <2>3, <2>4
<1>3. CASE SetRollback(a, [st EXCEPT !.pc = "observe", !.row = row, !.copy = NoPoint])
    <2>. DEFINE new == [st EXCEPT !.pc = "observe", !.row = row, !.copy = NoPoint]
    <2>1. new.point \in {x, None} /\ new.pc \notin Restoring /\ SetRollback(a, new)
        BY <1>3, <1>c DEF RollbackState, Restoring, Underway
    <2>. HIDE DEF new
    <2>. QED  BY <1>b, <2>1, SetLeaves, LeavesMoves
<1>4. a # RollbackScan => Proceed(a, row)
    BY <1>a DEF LoadDeployment
<1>5. CASE a # RollbackScan
    <2>1. CASE Eligible(row)
        BY <1>1, <1>2, <1>4, <1>5, <2>1 DEF Proceed
    <2>2. CASE ~Eligible(row)
        <3>1. \E err \in {"none", "evidence"} : Over(a, err)
            BY <1>4, <1>5, <2>2 DEF Proceed
        <3>. QED  BY <1>1, <3>1
    <2>. QED  BY <2>1, <2>2
<1>6. CASE a = RollbackScan
    BY <1>1, <1>3, <1>6, <1>a DEF LoadDeployment
<1>. QED  BY <1>5, <1>6

LEMMA RecordIntentMoves ==
    ASSUME RollbackInv, ScanRestoresNothing, NEW a \in RollbackActor, NEW x \in Point,
           rollbacks[a].point = x, RecordIntent(a)
    PROVE  Moves(a, x)
<1>. DEFINE st == rollbacks[a]
<1>a. st \in RollbackState /\ st.pc = "intent" /\ a \in RollbackSlot
      /\ UNCHANGED <<plans, versions, deployments, rollbackJobs>>
    BY Holding DEF RecordIntent, Doing, ScanRestoresNothing, Restoring, RollbackActor
<1>1. CASE Over(a, "evidence") /\ UNCHANGED points
    BY <1>1, <1>a, OverLeaves, SameLedgerMoves, LeavesMoves DEF ledgerVars
<1>2. ASSUME plans[x[1]].status = "failed", NEW o,
             points' = [points EXCEPT ![x] =
                    [status |-> "restore_in_flight", operation |-> o,
                     target |-> st.row.providerDeployId, restored |-> None]],
             SetRollback(a, [st EXCEPT !.pc = "restore", !.op = InPoint(x, points'[x])])
      PROVE  Moves(a, x)
    <2>. DEFINE execution == [status |-> "restore_in_flight", operation |-> o,
                              target |-> st.row.providerDeployId, restored |-> None]
    <2>. DEFINE new == [st EXCEPT !.pc = "restore", !.op = InPoint(x, points'[x])]
    <2>1. points'[x] = execution
        BY <1>2 DEF RollbackInv, LedgerInv, LedgerTypeOK, Point
    <2>2. InPoint(x, points'[x]).operation = o
        BY <2>1 DEF InPoint
    <2>3. new.pc = "restore" /\ new.point = x /\ new.op.operation = o
        BY <1>a, <2>2 DEF RollbackState
    <2>4. /\ rollbacks'[a] = new
          /\ \A b \in RollbackActor \ {a} : rollbacks'[b] = rollbacks[b]
        BY <1>2 DEF RollbackInv, LocalInv, SetRollback
    <2>5. LedgerMoves(a, x)
        <3>1. execution.status # "absent"  OBVIOUS
        <3>2. points' = [points EXCEPT ![x] = execution]  BY <1>2
        <3>. HIDE DEF execution
        <3>. QED  BY <1>a, <3>1, <3>2, PointMoves
    <2>6. \A y \in Point : PendingOf(y)' => PendingOf(y)
        BY <1>a DEF PendingOf, Manual
    <2>7. points'[x].status = "restore_in_flight" /\ points'[x].operation = o
        BY <2>1
    <2>. HIDE DEF new, execution
    <2>. QED
        BY <1>2, <1>a, <2>3, <2>4, <2>5, <2>6, <2>7
        DEF LedgerMoves, Moves, Restoring, Underway
<1>. QED  BY <1>1, <1>2 DEF RecordIntent, MayIntend

LEMMA RestoreMoves ==
    ASSUME RollbackInv, IntentInv, NEW a \in RollbackActor, NEW x \in Point,
           rollbacks[a].point = x, Restore(a) \/ RestoreThrows(a)
    PROVE  Moves(a, x)
<1>. DEFINE st == rollbacks[a]
<1>a. st \in RollbackState /\ st.pc = "restore" /\ a \in RollbackSlot
      /\ UNCHANGED <<ledgerVars, rollbackJobs>>
    BY Holding DEF Restore, RestoreThrows, Doing, IntentInv, ScanRestoresNothing, Restoring,
       Underway, RollbackActor
<1>b. LedgerMoves(a, x)
    BY <1>a, SameLedgerMoves
<1>1. CASE \E err \in RollbackError : Over(a, err) \/ HandOver(a, err)
    BY <1>1, <1>a, <1>b, OverLeaves, LeavesMoves
<1>2. ASSUME NEW new, SetRollback(a, new), new.point = x, new.op = st.op,
             new.pc \in Underway
      PROVE  Moves(a, x)
    <2>1. /\ rollbacks'[a] = new
          /\ \A b \in RollbackActor \ {a} : rollbacks'[b] = rollbacks[b]
        BY <1>2 DEF RollbackInv, LocalInv, SetRollback
    <2>2. /\ points'[x].status = "restore_in_flight"
          /\ points'[x].operation = st.op.operation
        BY <1>a DEF IntentInv, OwnIntent, Holds, Underway, ledgerVars
    <2>3. \A y \in Point : PendingOf(y)' => PendingOf(y)
        BY <1>a DEF PendingOf, Manual, ledgerVars
    <2>4. /\ new.pc # "intent" /\ st.pc \in Restoring /\ st.pc # "intent"
          /\ UNCHANGED <<plans, deployments>>
        BY <1>2, <1>a DEF Underway, Restoring, ledgerVars
    <2>. QED
        BY <1>2, <1>a, <1>b, <2>1, <2>2, <2>3, <2>4 DEF LedgerMoves, Moves
<1>3. ASSUME NEW pc \in Underway, NEW r,
             SetRollback(a, [st EXCEPT !.pc = pc, !.restored = r])
      PROVE  Moves(a, x)
    <2>. DEFINE new == [st EXCEPT !.pc = pc, !.restored = r]
    <2>1. new.point = x /\ new.op = st.op /\ new.pc \in Underway /\ SetRollback(a, new)
        BY <1>3, <1>a DEF RollbackState
    <2>. HIDE DEF new
    <2>. QED  BY <1>2, <2>1
<1>4. CASE SetRollback(a, [st EXCEPT !.pc = "record_refused"])
    <2>. DEFINE new == [st EXCEPT !.pc = "record_refused"]
    <2>1. new.point = x /\ new.op = st.op /\ new.pc \in Underway /\ SetRollback(a, new)
        BY <1>4, <1>a DEF RollbackState, Underway
    <2>. HIDE DEF new
    <2>. QED  BY <1>2, <2>1
<1>5. CASE Restore(a)
    BY <1>1, <1>3, <1>4, <1>5 DEF Restore, RollbackError, Underway
<1>6. CASE RestoreThrows(a)
    BY <1>1, <1>6 DEF RestoreThrows, RollbackError
<1>. QED  BY <1>5, <1>6

\* The outcome of a restore, or of an observed operation, is recorded once.
LEMMA OutcomeMoves ==
    ASSUME RollbackInv, NEW a \in RollbackActor, NEW x \in Point, rollbacks[a].point = x,
           \/ RecordCompleted(a) \/ RecordCompletedFails(a)
           \/ RecordPending(a) \/ RecordPendingFails(a) \/ RecordRefused(a)
           \/ CompleteObserved(a) \/ CompleteObservedFails(a)
    PROVE  Moves(a, x)
<1>. DEFINE st == rollbacks[a]
<1>a. st \in RollbackState /\ UNCHANGED rollbackJobs
    BY Holding DEF RecordCompleted, RecordCompletedFails, RecordPending, RecordPendingFails,
       RecordRefused, CompleteObserved, CompleteObservedFails
<1>1. Leaves(a, x)
    <2>1. ASSUME SetRollback(a, [st EXCEPT !.pc = "already"])
          PROVE  Leaves(a, x)
        <3>. DEFINE new == [st EXCEPT !.pc = "already"]
        <3>1. new.point \in {x, None} /\ new.pc \notin Restoring /\ SetRollback(a, new)
            BY <1>a, <2>1 DEF RollbackState, Restoring, Underway
        <3>. HIDE DEF new
        <3>. QED  BY <3>1, SetLeaves
    <2>. QED
        BY <2>1, OverLeaves
        DEF RecordCompleted, RecordCompletedFails, RecordPending, RecordPendingFails,
            RecordRefused, CompleteObserved, CompleteObservedFails
<1>2. LedgerMoves(a, x)
    <2>1. CASE UNCHANGED ledgerVars
        BY <2>1, SameLedgerMoves
    <2>2. CASE Completed(st)
        BY <2>2, CompletedMoves
    <2>3. CASE RecordPending(a) \/ RecordPendingFails(a)
        <3>1. st.pc \in Underway
            BY <2>3 DEF RecordPending, RecordPendingFails, Doing, Underway
        <3>. QED
            BY <2>1, <2>3, <3>1, PendedMoves DEF RecordPending, RecordPendingFails
    <2>4. CASE RecordRefused(a)
        <3>1. [NoPoint EXCEPT !.status = "provider_failed",
                              !.operation = st.op.operation].status # "absent"
            BY DEF NoPoint
        <3>. QED  BY <2>4, <3>1, PointMoves DEF RecordRefused
    <2>. QED
        BY <2>1, <2>2, <2>3, <2>4
        DEF RecordCompleted, RecordCompletedFails, CompleteObserved, CompleteObservedFails
<1>. QED  BY <1>1, <1>2, <1>a, LeavesMoves

LEMMA QuietMoves ==
    ASSUME RollbackInv, NEW a \in RollbackActor, NEW x \in Point, rollbacks[a].point = x,
           \/ LoadPlanStatus(a) \/ LoadPoint(a) \/ ManualRead(a)
           \/ Observe(a) \/ ObserveFails(a) \/ AlreadyCompleted(a)
           \/ RollbackCallFails(a) \/ RollbackCrash(a)
    PROVE  Moves(a, x)
<1>. DEFINE st == rollbacks[a]
<1>a. st \in RollbackState
    BY DEF RollbackInv, LocalInv
<1>b. UNCHANGED <<ledgerVars, rollbackJobs>>
    BY DEF LoadPlanStatus, LoadPoint, ManualRead, Observe, ObserveFails, AlreadyCompleted,
       RollbackCallFails, RollbackCrash
<1>1. CASE \E err \in RollbackError : Over(a, err) \/ HandOver(a, err)
    BY <1>1, <1>b, OverLeaves, SameLedgerMoves, LeavesMoves
<1>2. ASSUME NEW new, SetRollback(a, new), new.point \in {x, None}, new.pc \notin Restoring
      PROVE  Moves(a, x)
    BY <1>2, <1>b, SetLeaves, SameLedgerMoves, LeavesMoves
<1>3. CASE LoadPlanStatus(a)
    <2>. DEFINE new == [st EXCEPT !.pc = "load_point", !.plan = plans[PlanOf(a)].status]
    <2>1. new.point = x /\ new.pc \notin Restoring /\ SetRollback(a, new)
        BY <1>3, <1>a DEF LoadPlanStatus, RollbackState, Restoring, Underway
    <2>. HIDE DEF new
    <2>. QED  BY <1>2, <2>1
<1>4. CASE LoadPoint(a)
    <2>. DEFINE new == [st EXCEPT !.pc = "load_row", !.copy = points[x]]
    <2>1. new.point = x /\ new.pc \notin Restoring /\ SetRollback(a, new)
        BY <1>4, <1>a DEF LoadPoint, RollbackState, Restoring, Underway
    <2>. HIDE DEF new
    <2>. QED  BY <1>2, <2>1
<1>5. CASE ManualRead(a)
    <2>. DEFINE new == [st EXCEPT !.pc = "manual_point", !.copy = points[x],
                                  !.row = deployments[PlanOf(a)]]
    <2>1. new.point = x /\ new.pc \notin Restoring /\ SetRollback(a, new)
        BY <1>5, <1>a DEF ManualRead, RollbackState, Restoring, Underway
    <2>. HIDE DEF new
    <2>. QED  BY <1>2, <2>1
<1>6. CASE Observe(a)
    <2>. DEFINE new == [st EXCEPT !.pc = "complete", !.restored = site.now]
    <2>1. new.point = x /\ new.pc \notin Restoring
        BY <1>a DEF RollbackState, Restoring, Underway
    <2>2. (\E err \in RollbackError : Over(a, err) \/ HandOver(a, err)) \/ SetRollback(a, new)
        BY <1>6 DEF Observe, Unconfirmed, Classify, RollbackError
    <2>. HIDE DEF new
    <2>. QED  BY <1>1, <1>2, <2>1, <2>2
<1>7. CASE ObserveFails(a)
    BY <1>1, <1>7 DEF ObserveFails, Unconfirmed, RollbackError
<1>8. CASE AlreadyCompleted(a)
    BY <1>1, <1>8 DEF AlreadyCompleted, RollbackError
<1>9. CASE RollbackCallFails(a)
    BY <1>1, <1>9 DEF RollbackCallFails, RollbackError
<1>10. CASE RollbackCrash(a)
    <2>1. SetRollback(a, NotRunning) /\ NotRunning.point = None /\ NotRunning.pc = "idle"
        BY <1>10 DEF RollbackCrash, NotRunning
    <2>. QED  BY <1>2, <2>1 DEF Restoring, Underway
<1>. QED  BY <1>3, <1>4, <1>5, <1>6, <1>7, <1>8, <1>9, <1>10

\* The hand-over to a human writes the copy it read, whatever the rows say now.
LEMMA ManualMoves ==
    ASSUME RollbackInv, IntentInv, NEW a \in RollbackActor, NEW x \in Point,
           rollbacks[a].point = x, ManualPoint(a) \/ ManualRow(a)
    PROVE  Moves(a, x)
<1>. DEFINE st == rollbacks[a]
<1>a. st \in RollbackState /\ UNCHANGED rollbackJobs
    BY Holding DEF ManualPoint, ManualRow
<1>1. CASE ManualPoint(a)
    <2>. DEFINE new == [st EXCEPT !.pc = "manual_row", !.copy = NoPoint]
    <2>. DEFINE row == [st.copy EXCEPT !.status = "manual_reconciliation_required"]
    <2>1. new.point = x /\ new.pc \notin Restoring /\ SetRollback(a, new)
        BY <1>1, <1>a DEF ManualPoint, RollbackState, Restoring, Underway
    <2>2. row.status # "absent"
        BY <1>a, StateParts DEF PointRow
    <2>3. /\ UNCHANGED <<plans, versions, deployments>>
          /\ UNCHANGED points \/ points' = [points EXCEPT ![x] = row]
        BY <1>1 DEF ManualPoint
    <2>. HIDE DEF new, row
    <2>4. LedgerMoves(a, x)
        BY <2>2, <2>3, PointMoves, SameLedgerMoves DEF ledgerVars
    <2>. QED  BY <1>a, <2>1, <2>4, SetLeaves, LeavesMoves
<1>2. CASE ManualRow(a)
    BY <1>2, <1>a, ManualRowMoves, OverLeaves, LeavesMoves DEF ManualRow
<1>. QED  BY <1>1, <1>2

LEMMA SettleMoves ==
    ASSUME RollbackInv, NEW a \in RollbackActor, NEW x \in Point, rollbacks[a].point = x,
           SettleRollback(a)
    PROVE  Moves(a, x)
<1>1. NotRunning.point = None /\ NotRunning.pc = "idle"
    BY DEF NotRunning
<1>2. SetRollback(a, NotRunning)
    BY DEF SettleRollback
<1>3. Leaves(a, x)
    BY <1>1, <1>2, SetLeaves DEF Restoring, Underway
<1>4. rollbacks'[a].point = None
    BY <1>1, <1>2 DEF RollbackInv, LocalInv, SetRollback
<1>5. LedgerMoves(a, x)
    BY SameLedgerMoves DEF SettleRollback
<1>6. \A y \in Point : rollbackJobs'[y] # rollbackJobs[y] => y = x /\ rollbackJobs[x].holder = a
    BY DEF SettleRollback, RollbackInv, JobInv
<1>7. rollbackJobs[x].holder = a => a \in RollbackSlot
    BY IntentTypes DEF RollbackInv, JobInv, Queue!Jobs
<1>. QED  BY <1>3, <1>4, <1>5, <1>6, <1>7 DEF Leaves, LedgerMoves, Moves

LEMMA StepMoves ==
    ASSUME RollbackInv, IntentInv, NEW a \in RollbackActor, NEW x \in Point,
           rollbacks[a].point = x, RollbackProgress(a) \/ RollbackFault(a)
    PROVE  Moves(a, x)
BY LoadDeploymentMoves, RecordIntentMoves, RestoreMoves, OutcomeMoves, QuietMoves, ManualMoves,
   SettleMoves
DEF RollbackProgress, RollbackFault, IntentInv

----------------------------------------------------------------------------
(* The queue, the scan, the provider and verification *)

\* Nothing that the invariant relates to a job is at a point whose job waits.
LEMMA RequestIntent ==
    ASSUME RollbackInv, IntentInv, NEW x \in Point, RequestRollback(x)
    PROVE  IntentInv'
<1>1. \A y \in Point : rollbackJobs'[y] =
        IF y = x THEN Queue!Enqueued(rollbackJobs[x]) ELSE rollbackJobs[y]
    BY DEF RequestRollback, RollbackInv, JobInv
<1>2. rollbackJobs[x].state # "none" => rollbackJobs'[x] = rollbackJobs[x]
    BY <1>1 DEF Queue!Enqueued
<1>3. points[x].status # "absent" /\ UNCHANGED <<ledgerVars, rollbacks>>
    BY DEF RequestRollback
<1>4. OneAttempt'
    BY <1>1, <1>2, <1>3 DEF IntentInv, OneAttempt, Holds
<1>5. PointThere'
    BY <1>1, <1>3 DEF IntentInv, PointThere, Holds, PendingOf, Manual, ledgerVars
<1>6. ScanRestoresNothing' /\ ScanElsewhere' /\ OwnIntent'
    BY <1>3
    DEF IntentInv, ScanRestoresNothing, ScanElsewhere, OwnIntent, Holds, PendingOf, Manual, Moved,
        ledgerVars
<1>. QED  BY <1>4, <1>5, <1>6 DEF IntentInv

LEMMA StallIntent ==
    ASSUME RollbackInv, IntentInv, NEW x \in Point, StallRollback(x)
    PROVE  IntentInv'
<1>1. \A y \in Point \ {x} : rollbackJobs'[y] = rollbackJobs[y]
    BY DEF StallRollback, RollbackInv, JobInv
<1>2. \A a \in RollbackSlot : ~Holds(a, x)
    BY DEF StallRollback, IntentInv, OneAttempt, Holds
<1>3. rollbackJobs[x].state # "none" /\ UNCHANGED <<ledgerVars, rollbacks>>
    BY DEF StallRollback
<1>4. OneAttempt'
    BY <1>1, <1>2, <1>3 DEF IntentInv, OneAttempt, Holds
<1>5. PointThere'
    BY <1>1, <1>3 DEF IntentInv, PointThere, Holds, PendingOf, Manual, ledgerVars
<1>6. ScanRestoresNothing' /\ ScanElsewhere' /\ OwnIntent'
    BY <1>3
    DEF IntentInv, ScanRestoresNothing, ScanElsewhere, OwnIntent, Holds, PendingOf, Manual, Moved,
        ledgerVars
<1>. QED  BY <1>4, <1>5, <1>6 DEF IntentInv

\* An attempt that begins, or a row the scan takes up, restores nothing yet.
LEMMA BeginIntent ==
    ASSUME RollbackInv, IntentInv, NEW a \in RollbackActor, NEW x \in Point,
           UNCHANGED ledgerVars,
           \A b \in RollbackActor \ {a} : rollbacks'[b] = rollbacks[b],
           rollbacks'[a].pc = "load_plan", rollbacks'[a].point = x,
           \/ /\ a \in RollbackSlot
              /\ rollbackJobs[x].state = "waiting"
              /\ rollbackJobs' = [rollbackJobs EXCEPT ![x] = Queue!Taken(@, a)]
           \/ a = RollbackScan /\ PendingOf(x) /\ UNCHANGED rollbackJobs
    PROVE  IntentInv'
<1>. USE IntentTypes
<1>1. \A y \in Point : /\ PendingOf(y)' <=> PendingOf(y)
                       /\ Moved(y[1])' <=> Moved(y[1])
                       /\ points'[y] = points[y]
    BY DEF PendingOf, Manual, Moved, ledgerVars
<1>2. points[x].status # "absent"
    BY DEF IntentInv, PointThere
<1>3. OneAttempt'
    <2>1. CASE a = RollbackScan
        BY <2>1 DEF IntentInv, OneAttempt, Holds
    <2>2. CASE a \in RollbackSlot
        <3>1. \A b \in RollbackSlot : ~Holds(b, x)
            BY <2>2 DEF IntentInv, OneAttempt
        <3>2. /\ rollbackJobs'[x] = Queue!Taken(rollbackJobs[x], a)
              /\ \A y \in Point \ {x} : rollbackJobs'[y] = rollbackJobs[y]
              /\ rollbackJobs[x] \in Queue!Jobs(RollbackSlot)
            BY <2>2 DEF RollbackInv, JobInv
        <3>3. rollbackJobs'[x].state = "active" /\ rollbackJobs'[x].holder = a
            BY <3>2 DEF Queue!Jobs, Queue!Taken
        <3>. QED  BY <2>2, <3>1, <3>2, <3>3 DEF IntentInv, OneAttempt, Holds
    <2>. QED  BY <2>1, <2>2
<1>4. ScanRestoresNothing'
    BY DEF IntentInv, ScanRestoresNothing, Restoring, Underway
<1>5. ScanElsewhere'
    <2>1. \A y \in Point : Holds(RollbackScan, y)' =>
            Holds(RollbackScan, y) \/ (y = x /\ PendingOf(x))
        BY DEF Holds
    <2>2. PendingOf(x) => Moved(x[1])
        BY DEF PendingOf, Moved
    <2>3. \A b \in RollbackSlot, y \in Point :
            Holds(b, y)' /\ rollbacks'[b].pc \in Restoring =>
                Holds(b, y) /\ rollbacks[b].pc \in Restoring
        BY DEF Holds, Restoring, Underway
    <2>. QED  BY <1>1, <2>1, <2>2, <2>3 DEF IntentInv, ScanElsewhere
<1>6. OwnIntent'
    BY <1>1 DEF IntentInv, OwnIntent, Holds, Underway
<1>7. PointThere'
    <2>1. \A y \in Point \ {x} : rollbackJobs'[y] = rollbackJobs[y]
        BY DEF RollbackInv, JobInv
    <2>. QED  BY <1>1, <1>2, <2>1 DEF IntentInv, PointThere, Holds
<1>. QED  BY <1>3, <1>4, <1>5, <1>6, <1>7 DEF IntentInv

LEMMA TakeIntent ==
    ASSUME RollbackInv, IntentInv, NEW x \in Point, NEW a \in RollbackSlot, TakeRollback(x, a)
    PROVE  IntentInv'
<1>. DEFINE st == [NotRunning EXCEPT
            !.pc = "load_plan", !.point = x, !.final = Queue!FinalAttempt(rollbackJobs[x])]
<1>1. st.pc = "load_plan" /\ st.point = x
    BY DEF NotRunning
<1>2. a \in RollbackActor
    BY IntentTypes
<1>3. /\ rollbacks'[a] = st
      /\ \A b \in RollbackActor \ {a} : rollbacks'[b] = rollbacks[b]
    BY <1>2 DEF TakeRollback, RollbackInv, LocalInv, SetRollback
<1>. HIDE DEF st
<1>. QED  BY <1>1, <1>2, <1>3, BeginIntent DEF TakeRollback

LEMMA ScanIntent ==
    ASSUME RollbackInv, IntentInv, NEW p \in Plan, ScanTakes(p)
    PROVE  IntentInv'
<1>. DEFINE op == InTrace(deployments[p].evidence.rollback)
<1>1. PICK q \in Plan, d \in ProviderDeploy :
        /\ deployments[p].evidence.rollback.point = <<q, d>>
        /\ SetRollback(RollbackScan, [NotRunning EXCEPT
                !.pc = "load_plan", !.point = <<p, q, d>>, !.op = op])
    BY DEF ScanTakes
<1>. DEFINE x == <<p, q, d>>
<1>. DEFINE st == [NotRunning EXCEPT !.pc = "load_plan", !.point = x, !.op = op]
<1>2. st.pc = "load_plan" /\ st.point = x
    BY DEF NotRunning
<1>3. x \in Point /\ RollbackScan \in RollbackActor
    BY IntentTypes DEF Point
<1>4. PendingOf(x)
    BY <1>1 DEF ScanTakes, PendingOf
<1>5. /\ rollbacks'[RollbackScan] = st
      /\ \A b \in RollbackActor \ {RollbackScan} : rollbacks'[b] = rollbacks[b]
    BY <1>1, <1>3 DEF RollbackInv, LocalInv, SetRollback
<1>6. UNCHANGED <<ledgerVars, rollbackJobs>>
    BY DEF ScanTakes
<1>. HIDE DEF st, x, op
<1>. QED  BY <1>2, <1>3, <1>4, <1>5, <1>6, BeginIntent

\* A projection touches no rollback: not a deployment that a restore moved, and no point.
LEMMA SameRollbackIntent ==
    ASSUME IntentInv, UNCHANGED <<points, rollbacks, rollbackJobs>>,
           \A p \in Plan : \/ deployments'[p] = deployments[p]
                           \/ ~Moved(p) /\ ~Moved(p)'
    PROVE  IntentInv'
<1>1. \A y \in Point : /\ PendingOf(y)' <=> PendingOf(y)
                       /\ Moved(y[1])' <=> Moved(y[1])
    BY PointParts DEF PendingOf, Manual, Moved
<1>. QED
    BY <1>1
    DEF IntentInv, OneAttempt, ScanRestoresNothing, ScanElsewhere, OwnIntent, PointThere, Holds

LEMMA VerificationIntent ==
    ASSUME IInv, IntentInv, VerificationNext, UNCHANGED rollbackVars
    PROVE  IntentInv'
<1>1. ASSUME NEW p \in Plan, NEW found \in VerificationOutcome, Projects(p),
             Projection(p, found), UNCHANGED points
      PROVE  IntentInv'
    <2>. DEFINE row == [deployments[p] EXCEPT
                            !.status = DeploymentAfter(deployments[p].status, found)]
    <2>1. deployments \in [Plan -> DeploymentRow]
        BY DEF IInv, LedgerInv, LedgerTypeOK
    <2>2. row.status \notin {"rollback_pending", "rolled_back"}
        BY <1>1, <2>1
        DEF DeploymentAfter, VerificationOutcome, Projects, Verifiable, Live, DeploymentRow
    <2>3. deployments' = [deployments EXCEPT ![p] = row]
        BY <1>1 DEF Projection
    <2>4. ~Moved(p)
        BY <1>1 DEF Moved, Projects, Verifiable, Live
    <2>. HIDE DEF row
    <2>5. \A q \in Plan : deployments'[q] = deployments[q] \/ (~Moved(q) /\ ~Moved(q)')
        BY <2>1, <2>2, <2>3, <2>4 DEF Moved
    <2>. QED  BY <1>1, <2>5, SameRollbackIntent DEF rollbackVars
<1>2. CASE UNCHANGED ledgerVars
    BY <1>2, SameRollbackIntent DEF ledgerVars, rollbackVars
<1>. QED  BY <1>1, <1>2, ProjectionOnly DEF IInv

\* An attempt without a point has nothing to lose.
LEMMA EmptyLeaves ==
    ASSUME RollbackInv, NEW a \in RollbackActor, rollbacks[a].point \notin Point,
           RollbackProgress(a) \/ RollbackFault(a)
    PROVE  Leaves(a, None) /\ UNCHANGED <<ledgerVars, rollbackJobs>>
<1>1. RollbackCallFails(a) \/ RollbackCrash(a)
    BY DEF RollbackProgress, RollbackFault, LoadPlanStatus, LoadPoint, LoadDeployment,
       RecordIntent, Restore, RecordCompleted, RecordPending, RecordRefused, Observe,
       CompleteObserved, AlreadyCompleted, ManualRead, ManualPoint, ManualRow, SettleRollback,
       RestoreThrows, RecordCompletedFails, RecordPendingFails, ObserveFails,
       CompleteObservedFails, Doing
<1>2. NotRunning.point = None /\ NotRunning.pc = "idle"
    BY DEF NotRunning
<1>3. rollbacks[a].point = None
    BY DEF RollbackInv, LocalInv, RollbackState
<1>4. Leaves(a, None)
    BY <1>1, <1>2, <1>3, OverLeaves, SetLeaves
    DEF RollbackCallFails, RollbackCrash, Restoring, Underway
<1>. QED  BY <1>1, <1>4 DEF RollbackCallFails, RollbackCrash

LEMMA EmptyIntent ==
    ASSUME IntentInv, NEW a \in RollbackActor, Leaves(a, None),
           UNCHANGED <<ledgerVars, rollbackJobs>>
    PROVE  IntentInv'
<1>1. \A b \in RollbackActor, y \in Point : Holds(b, y)' => b # a /\ Holds(b, y)
    BY IntentTypes DEF Leaves, Holds
<1>2. \A y \in Point : /\ PendingOf(y)' <=> PendingOf(y)
                       /\ Moved(y[1])' <=> Moved(y[1])
                       /\ points'[y] = points[y]
    BY DEF PendingOf, Manual, Moved, ledgerVars
<1>3. OneAttempt' /\ ScanRestoresNothing' /\ PointThere'
    BY <1>1, <1>2, IntentTypes
    DEF IntentInv, OneAttempt, ScanRestoresNothing, PointThere, Leaves
<1>4. \A b \in RollbackSlot, y \in Point : Holds(b, y)' =>
        Holds(b, y) /\ rollbacks'[b] = rollbacks[b]
    BY <1>1, IntentTypes DEF Leaves
<1>5. ScanElsewhere' /\ OwnIntent'
    BY <1>1, <1>2, <1>4, IntentTypes DEF IntentInv, ScanElsewhere, OwnIntent
<1>. QED  BY <1>3, <1>5 DEF IntentInv

LEMMA RollbackIntent ==
    ASSUME RollbackInv, IntentInv, RollbackNext
    PROVE  IntentInv'
<1>1. ASSUME NEW a \in RollbackActor, RollbackProgress(a) \/ RollbackFault(a)
      PROVE  IntentInv'
    <2>1. CASE rollbacks[a].point \in Point
        <3>1. PICK x \in Point : rollbacks[a].point = x
            BY <2>1
        <3>. QED  BY <1>1, <3>1, StepMoves, MovesKeep
    <2>. QED  BY <1>1, <2>1, EmptyLeaves, EmptyIntent
<1>2. ASSUME NEW d \in ProviderDeploy, Publish(d) \/ OutsidePublish(d)
      PROVE  IntentInv'
    BY <1>2, SameRollbackIntent DEF Publish, OutsidePublish, ledgerVars
<1>. QED
    BY <1>1, <1>2, RequestIntent, StallIntent, TakeIntent, ScanIntent DEF RollbackNext

LEMMA InitIntent ==
    ASSUME Init
    PROVE  IntentInv
<1>1. \A a \in RollbackActor : rollbacks[a].pc = "idle" /\ rollbacks[a].point = None
    BY DEF Init, NotRunning
<1>2. \A x \in Point : rollbackJobs[x].state = "none"
    BY DEF Init, Queue!NoJob
<1>3. \A x \in Point : ~PendingOf(x)
    BY PointParts DEF Init, PendingOf
<1>. QED
    BY <1>1, <1>2, <1>3, IntentTypes
    DEF IntentInv, OneAttempt, ScanRestoresNothing, ScanElsewhere, OwnIntent, PointThere, Holds,
        Restoring, Underway

LEMMA IntentInvariant == Spec => []IntentInv
<1>1. Init => IntentInv
    BY InitIntent
<1>2. IInv /\ IntentInv /\ [Next]_recoveryVars => IntentInv'
    <2>1. CASE UNCHANGED recoveryVars
        BY <2>1, SameRollbackIntent DEF recoveryVars, ledgerVars, rollbackVars
    <2>. QED
        BY <2>1, RollbackIntent, VerificationIntent DEF Next, IInv, RollbackInv
<1>. QED  BY <1>1, <1>2, Invariant, PTL DEF Spec

LEMMA IntentShown ==
    ASSUME IntentInv
    PROVE  RestoreHasIntent
<1>. SUFFICES ASSUME NEW a \in RollbackActor, Doing(a, "restore")
              PROVE  LET x == rollbacks[a].point IN
                     /\ points[x].status = "restore_in_flight"
                     /\ points[x].operation = rollbacks[a].op.operation
                     /\ \A b \in RollbackActor \ {a} :
                            Doing(b, "restore") => rollbacks[b].point # x
    BY DEF RestoreHasIntent
<1>1. \A b \in RollbackActor : Doing(b, "restore") =>
        b \in RollbackSlot /\ rollbacks[b].point \in Point /\ rollbacks[b].pc \in Underway
    BY DEF IntentInv, ScanRestoresNothing, Doing, Restoring, Underway, RollbackActor
<1>. QED  BY <1>1 DEF IntentInv, OneAttempt, OwnIntent, Holds

\* An attempt asks the provider only for a restore it recorded the intent of, and no
\* other attempt, nor the scan, restores the same point meanwhile, whatever fails:
\* recordRollbackIntent and the queue's lock of the job are enough, also when the
\* ledger has several points of a plan.
THEOREM RestoreIntended == Spec => []RestoreHasIntent
<1>. QED  BY IntentInvariant, IntentShown, PTL

----------------------------------------------------------------------------
(* The plan of a restore *)

\* What a ledger has where no two preflights of a plan ran at the same time:
\* preflight inserts a point only for a plan it found none of, but holds no lock from
\* that read to the insert.
OnePointOfAPlan ==
    \A x, y \in Point :
        points[x].status # "absent" /\ points[y].status # "absent" /\ x[1] = y[1] => x = y

\* What an attempt restores can still be rolled back, and is no human's yet.
StillOpen ==
    \A a \in RollbackSlot, x \in Point : Holds(a, x) =>
        /\ rollbacks[a].pc \in Underway => plans[x[1]].status = "failed"
        /\ rollbacks[a].pc \in Restoring => ~Manual(deployments[x[1]])

\* Who restores is alone at the point, the scan included.
LEMMA RestoresAlone ==
    ASSUME IntentInv, NEW a \in RollbackSlot, NEW x \in Point, Holds(a, x),
           rollbacks[a].pc \in Restoring, NEW b \in RollbackActor, Holds(b, x)
    PROVE  b = a
<1>1. b \in RollbackSlot
    BY DEF IntentInv, ScanElsewhere, RollbackActor
<1>. QED  BY <1>1 DEF IntentInv, OneAttempt

LEMMA MovesOpen ==
    ASSUME IntentInv, OnePointOfAPlan, StillOpen, NEW a \in RollbackActor,
           NEW x \in Point, rollbacks[a].point = x, Moves(a, x)
    PROVE  OnePointOfAPlan' /\ StillOpen'
<1>1. points[x].status # "absent"
    BY DEF IntentInv, PointThere, Holds
<1>2. \A y \in Point : points'[y].status # "absent" => points[y].status # "absent"
    BY <1>1 DEF Moves
<1>3. OnePointOfAPlan'
    BY <1>2 DEF OnePointOfAPlan
<1>4. ASSUME NEW b \in RollbackSlot, NEW y \in Point, Holds(b, y)',
             rollbacks'[b].pc \in Restoring
      PROVE  /\ rollbacks'[b].pc \in Underway => plans'[y[1]].status = "failed"
             /\ ~Manual(deployments'[y[1]])
    <2>a. b \in RollbackActor /\ y[1] \in Plan
        BY IntentTypes, PointParts
    <2>1. CASE b # a
        <3>1. /\ Holds(b, y) /\ rollbacks'[b] = rollbacks[b]
            BY <1>4, <2>1, <2>a DEF Moves, Holds
        <3>2. y # x
            BY <1>4, <2>1, <3>1, RestoresAlone DEF Holds
        <3>3. points[y].status # "absent"
            BY <2>a, <3>1 DEF IntentInv, PointThere
        <3>4. y[1] # x[1]
            BY <1>1, <3>2, <3>3 DEF OnePointOfAPlan
        <3>5. /\ plans'[y[1]].status = plans[y[1]].status
              /\ Manual(deployments'[y[1]]) => Manual(deployments[y[1]])
            BY <2>a, <3>4 DEF Moves
        <3>. QED  BY <1>4, <3>1, <3>5 DEF StillOpen
    <2>2. CASE b = a
        <3>1. y = x /\ UNCHANGED <<plans, deployments>>
            BY <1>4, <2>2, <2>a, IntentTypes DEF Moves, Holds
        <3>2. CASE rollbacks'[a].pc = "intent" /\ ~Manual(deployments[x[1]])
            BY <2>2, <3>1, <3>2 DEF Underway
        <3>3. CASE /\ rollbacks[a].pc \in Restoring
                   /\ rollbacks[a].pc = "intent" => plans[x[1]].status = "failed"
            BY <2>2, <3>1, <3>3 DEF StillOpen, Holds, Restoring
        <3>. QED  BY <1>4, <2>2, <3>2, <3>3 DEF Moves
    <2>. QED  BY <2>1, <2>2
<1>5. StillOpen'
    BY <1>4 DEF StillOpen, Restoring
<1>. QED  BY <1>3, <1>5

\* Anybody else leaves the points there are, and the plans of active rollbacks.
LEMMA OthersOpen ==
    ASSUME OnePointOfAPlan, StillOpen, UNCHANGED points,
           \A a \in RollbackSlot :
                rollbacks'[a].pc \in Restoring => rollbacks'[a] = rollbacks[a],
           \A a \in RollbackSlot, x \in Point : Holds(a, x) =>
                /\ rollbacks[a].pc \in Underway => plans'[x[1]].status = plans[x[1]].status
                /\ Manual(deployments'[x[1]]) => Manual(deployments[x[1]])
    PROVE  OnePointOfAPlan' /\ StillOpen'
BY DEF OnePointOfAPlan, StillOpen, Holds, Restoring

LEMMA RollbackOpen ==
    ASSUME RollbackInv, IntentInv, OnePointOfAPlan, StillOpen, RollbackNext
    PROVE  OnePointOfAPlan' /\ StillOpen'
<1>1. ASSUME NEW a \in RollbackActor, RollbackProgress(a) \/ RollbackFault(a)
      PROVE  OnePointOfAPlan' /\ StillOpen'
    <2>1. CASE rollbacks[a].point \in Point
        <3>1. PICK x \in Point : rollbacks[a].point = x
            BY <2>1
        <3>. QED  BY <1>1, <3>1, StepMoves, MovesOpen
    <2>2. CASE rollbacks[a].point \notin Point
        <3>1. Leaves(a, None) /\ UNCHANGED ledgerVars
            BY <1>1, <2>2, EmptyLeaves
        <3>. QED
            BY <3>1, OthersOpen, IntentTypes DEF Leaves, ledgerVars
    <2>. QED  BY <2>1, <2>2
<1>2. ASSUME NEW x \in Point, NEW a \in RollbackSlot, TakeRollback(x, a)
      PROVE  OnePointOfAPlan' /\ StillOpen'
    <2>1. rollbacks'[a].pc = "load_plan"
        <3>1. rollbacks'[a] = [NotRunning EXCEPT !.pc = "load_plan", !.point = x,
                                    !.final = Queue!FinalAttempt(rollbackJobs[x])]
            BY <1>2, IntentTypes DEF TakeRollback, RollbackInv, LocalInv, SetRollback
        <3>. QED  BY <3>1 DEF NotRunning
    <2>2. \A b \in RollbackSlot \ {a} : rollbacks'[b] = rollbacks[b]
        BY <1>2, IntentTypes DEF TakeRollback, RollbackInv, LocalInv, SetRollback
    <2>. QED
        BY <1>2, <2>1, <2>2, OthersOpen DEF TakeRollback, Restoring, Underway, ledgerVars
<1>3. ASSUME NEW p \in Plan, ScanTakes(p)
      PROVE  OnePointOfAPlan' /\ StillOpen'
    <2>1. \A b \in RollbackSlot : rollbacks'[b] = rollbacks[b]
        BY <1>3, IntentTypes DEF ScanTakes, RollbackInv, LocalInv, SetRollback
    <2>. QED  BY <1>3, <2>1, OthersOpen DEF ScanTakes, ledgerVars
<1>4. CASE UNCHANGED <<ledgerVars, rollbacks>>
    BY <1>4, OthersOpen DEF ledgerVars
<1>. QED
    BY <1>1, <1>2, <1>3, <1>4
    DEF RollbackNext, RequestRollback, StallRollback, Publish, OutsidePublish

\* A projection leaves the plan of an operation in flight: its point is active.
LEMMA VerificationOpen ==
    ASSUME IInv, IntentInv, OnePointOfAPlan, StillOpen, VerificationNext,
           UNCHANGED rollbackVars
    PROVE  OnePointOfAPlan' /\ StillOpen'
<1>1. ASSUME NEW p \in Plan, NEW found \in VerificationOutcome, Projects(p),
             Projection(p, found), UNCHANGED points
      PROVE  OnePointOfAPlan' /\ StillOpen'
    <2>1. ASSUME NEW a \in RollbackSlot, NEW x \in Point, Holds(a, x),
                 rollbacks[a].pc \in Underway
          PROVE  plans'[x[1]].status = plans[x[1]].status
        <3>1. points[x].status \in ActiveRollback
            BY <2>1 DEF IntentInv, OwnIntent, ActiveRollback
        <3>2. points[<<x[1], x[2], x[3]>>].status \in ActiveRollback
            BY <3>1, PointParts
        <3>3. x[1] # p
            BY <1>1, <3>2, PointParts DEF Projects, RollbackActive
        <3>. QED
            BY <1>1, <3>3, PointParts DEF Projection, SetPlan, IInv, LedgerInv, LedgerTypeOK
    <2>2. \A q \in Plan : Manual(deployments'[q]) => Manual(deployments[q])
        <3>1. deployments \in [Plan -> DeploymentRow]
            BY DEF IInv, LedgerInv, LedgerTypeOK
        <3>2. deployments' = [deployments EXCEPT ![p] =
                [deployments[p] EXCEPT !.status = DeploymentAfter(deployments[p].status, found)]]
            BY <1>1 DEF Projection
        <3>. QED  BY <3>1, <3>2 DEF Manual, DeploymentRow
    <2>. QED  BY <1>1, <2>1, <2>2, PointParts, OthersOpen DEF rollbackVars
<1>2. CASE UNCHANGED ledgerVars
    BY <1>2, OthersOpen DEF ledgerVars, rollbackVars
<1>. QED  BY <1>1, <1>2, ProjectionOnly DEF IInv

\* Where the ledger has one rollback point of a plan, the plan of a restore that is
\* about to be asked for, or that was answered, can still be rolled back: nobody else
\* moves it, as a verification sees the intent and nothing else is at the point.  With
\* two points of a plan the rollback of one can complete while the other is restored.
THEOREM RestoreOfFailedPlan == Spec /\ OnePointOfAPlan => []RestoreIsIntended
<1>. DEFINE OpenInv == OnePointOfAPlan /\ StillOpen
<1>1. Init /\ OnePointOfAPlan => OpenInv
    <2>1. ASSUME Init PROVE \A a \in RollbackSlot : rollbacks[a].pc = "idle"
        BY <2>1, IntentTypes DEF Init, NotRunning
    <2>. QED  BY <2>1 DEF StillOpen, Restoring, Underway
<1>2. IInv /\ IntentInv /\ OpenInv /\ [Next]_recoveryVars => OpenInv'
    <2>1. CASE UNCHANGED recoveryVars
        BY <2>1, OthersOpen DEF recoveryVars, ledgerVars, rollbackVars
    <2>. QED
        BY <2>1, RollbackOpen, VerificationOpen DEF Next, IInv, RollbackInv
<1>3. IntentInv /\ OpenInv => RestoreIsIntended
    <2>1. IntentInv => \A a \in RollbackActor : Doing(a, "restore") =>
            a \in RollbackSlot /\ rollbacks[a].point \in Point /\ rollbacks[a].pc \in Underway
        BY DEF IntentInv, ScanRestoresNothing, Doing, Restoring, Underway, RollbackActor
    <2>. QED
        BY <2>1, IntentShown DEF RestoreIsIntended, StillOpen, Holds, Restoring, Doing
<1>. HIDE DEF OpenInv
<1>. QED  BY <1>1, <1>2, <1>3, Invariant, IntentInvariant, PTL DEF Spec

----------------------------------------------------------------------------
(* The released versions of a page *)

\* createPlan takes the page versions it is given: nothing in the code keeps two
\* versions of a page out of one plan.
OneVersionOfAPage ==
    \A p \in Plan : \A v, w \in plans[p].items : PageOf[v] = PageOf[w] => v = w

\* Two released versions of a page are of one plan.
ReleasedTogether ==
    \A v, w \in Version :
        (versions[v] = "released" /\ versions[w] = "released" /\ PageOf[v] = PageOf[w])
            => v = w \/ \E p \in Plan : {v, w} \subseteq plans[p].items

SameItems == \A p \in Plan : plans'[p].items = plans[p].items

LEMMA StatusItems ==
    ASSUME LedgerInv, NEW p, NEW status, UNCHANGED plans \/ SetPlan(p, status)
    PROVE  SameItems
<1>1. plans \in [Plan -> PlanRow]
    BY DEF LedgerInv, LedgerTypeOK
<1>. QED  BY <1>1 DEF SetPlan, SameItems, PlanRow

\* A rollback demotes candidates, a verification demotes or releases, and nobody
\* changes what a plan releases.
LEMMA VersionsStep ==
    ASSUME IInv, [Next]_recoveryVars
    PROVE  /\ SameItems
           /\ \/ UNCHANGED versions
              \/ \E p \in Plan : versions' = Demoted(p) \/ versions' = Released(p)
<1>1. ASSUME NEW a \in RollbackActor, RollbackProgress(a) \/ RollbackFault(a)
      PROVE  \/ UNCHANGED <<plans, versions>>
             \/ \E p \in Plan : SetPlan(p, "rolled_back") /\ versions' = Demoted(p)
    <2>1. CASE \/ RecordCompleted(a) \/ RecordCompletedFails(a)
               \/ CompleteObserved(a) \/ CompleteObservedFails(a)
        <3>1. PlanOf(a) \in Plan
            BY <2>1, Holding
            DEF IInv, RollbackInv, RecordCompleted, RecordCompletedFails, CompleteObserved,
                CompleteObservedFails
        <3>2. UNCHANGED ledgerVars \/ Completed(rollbacks[a])
            BY <2>1
            DEF RecordCompleted, RecordCompletedFails, CompleteObserved, CompleteObservedFails
        <3>. QED  BY <3>1, <3>2 DEF Completed, PlanOf, ledgerVars
    <2>. QED
        BY <1>1, <2>1
        DEF RollbackProgress, RollbackFault, LoadPlanStatus, LoadPoint, LoadDeployment,
            RecordIntent, Restore, RecordPending, RecordPendingFails, Pended, RecordRefused,
            Observe, AlreadyCompleted, ManualRead, ManualPoint, ManualRow, SettleRollback,
            RestoreThrows, ObserveFails, RollbackCallFails, RollbackCrash, ledgerVars
<1>2. CASE RollbackNext
    <2>1. \/ UNCHANGED <<plans, versions>>
          \/ \E p \in Plan : SetPlan(p, "rolled_back") /\ versions' = Demoted(p)
        BY <1>1, <1>2
        DEF RollbackNext, RequestRollback, TakeRollback, StallRollback, ScanTakes, Publish,
            OutsidePublish, ledgerVars
    <2>. QED  BY <2>1, StatusItems DEF IInv
<1>3. CASE VerificationNext
    <2>1. \/ UNCHANGED <<plans, versions>>
          \/ \E p \in Plan, status \in PlanStatus :
                /\ SetPlan(p, status)
                /\ versions' = Demoted(p) \/ versions' = Released(p)
        BY <1>3, ProjectionOnly DEF IInv, Projection, PlanAfter, PlanStatus, ledgerVars
    <2>. QED  BY <2>1, StatusItems DEF IInv
<1>4. CASE UNCHANGED recoveryVars
    BY <1>4, StatusItems DEF IInv, recoveryVars, ledgerVars
<1>. QED  BY <1>2, <1>3, <1>4 DEF Next

\* A release supersedes every released version of its pages that is not its own.
LEMMA ReleasedStep ==
    ASSUME IInv, ReleasedTogether, [Next]_recoveryVars
    PROVE  ReleasedTogether'
<1>1. versions \in [Version -> VersionStatus]
    BY DEF IInv, LedgerInv, LedgerTypeOK
<1>2. SameItems
    BY VersionsStep
<1>3. SUFFICES ASSUME NEW v \in Version, NEW w \in Version, versions'[v] = "released",
                      versions'[w] = "released", PageOf[v] = PageOf[w], v # w
               PROVE  \E p \in Plan : {v, w} \subseteq plans[p].items
    BY <1>2 DEF ReleasedTogether, SameItems
<1>4. CASE versions[v] = "released" /\ versions[w] = "released"
    BY <1>3, <1>4 DEF ReleasedTogether
<1>5. ASSUME NEW p \in Plan, versions' = Demoted(p)
      PROVE  versions[v] = "released" /\ versions[w] = "released"
    BY <1>1, <1>3, <1>5 DEF Demoted
<1>6. ASSUME NEW p \in Plan, versions' = Released(p)
      PROVE  \/ versions[v] = "released" /\ versions[w] = "released"
             \/ {v, w} \subseteq plans[p].items
    <2>1. \A u \in {v, w} :
            versions'[u] = IF u \in plans[p].items
                THEN IF versions[u] \in DeployableVersion THEN "released" ELSE versions[u]
                ELSE IF PageOf[u] \in {PageOf[z] : z \in plans[p].items}
                            /\ versions[u] = "released"
                    THEN "superseded" ELSE versions[u]
        BY <1>6 DEF Released
    <2>. QED  BY <1>3, <2>1
<1>. QED  BY <1>3, <1>4, <1>5, <1>6, VersionsStep

\* Where no plan has two versions of a page and no page is released twice to begin
\* with, no page ever is: whatever verifications and rollbacks of several plans do to
\* each other, the one transaction that releases also supersedes.
THEOREM PageReleasedOnce == Spec /\ ReleasedOnce /\ OneVersionOfAPage => []ReleasedOnce
<1>1. Init /\ ReleasedOnce => ReleasedTogether
    BY DEF ReleasedOnce, ReleasedTogether
<1>2. IInv /\ ReleasedTogether /\ [Next]_recoveryVars => ReleasedTogether'
    BY ReleasedStep
<1>3. IInv /\ OneVersionOfAPage /\ [Next]_recoveryVars => OneVersionOfAPage'
    <2>. SUFFICES ASSUME IInv, OneVersionOfAPage, [Next]_recoveryVars
                  PROVE  OneVersionOfAPage'
        OBVIOUS
    <2>1. SameItems
        BY VersionsStep
    <2>. QED  BY <2>1 DEF OneVersionOfAPage, SameItems
<1>4. ReleasedTogether /\ OneVersionOfAPage => ReleasedOnce
    BY DEF ReleasedTogether, OneVersionOfAPage, ReleasedOnce
<1>. QED  BY <1>1, <1>2, <1>3, <1>4, Invariant, PTL DEF Spec
=============================================================================
