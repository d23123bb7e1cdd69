-------------------------- MODULE PageProposalsProofs --------------------------
(***************************************************************************)
(* Theorems about the recovery policy and about PageProposals, for every   *)
(* number of runs, workers, requests, scans, answers, attempts, recoveries *)
(* and faults.                                                             *)
(***************************************************************************)
EXTENDS PageProposals, WorkLaneProofs, FiniteSetTheorems

----------------------------------------------------------------------------
(* The recovery policy *)

\* The scan puts a job back only for a row that is not over, whose job is known to be
\* gone, whose budget is not used up, and which cannot have changed anything at a
\* provider (classifyWorkRecovery).
ReenqueueIsSafe(input) ==
    ClassifyWorkRecovery(input) = "reenqueue" =>
        /\ input.durable # "terminal"
        /\ input.transport \in {"missing", "failed"}
        /\ input.count < input.max
        /\ input.category # "provider_mutation"
        /\ ~input.uncertain

\* ReenqueueIsSafe holds of every row, whatever its count and its budget.
THEOREM ReenqueueSafe ==
    ASSUME NEW input \in RecoveryInputs(Nat)
    PROVE  ReenqueueIsSafe(input)
BY DEF ReenqueueIsSafe, ClassifyWorkRecovery, ClassifyProviderMutation, LeftAlone,
       RecoveryExhausted, RecoveryInputs, WorkflowCategories, DurableStates,
       TransportStates, Freshnesses

----------------------------------------------------------------------------
(* The steps of proposals are steps of the lane *)

TypeInv == ProposalsTypeOK /\ LaneInv

LEMMA NextIsLaneStep == ASSUME [Next]_vars PROVE LaneStep
<1>1. CASE Decide \/ UNCHANGED vars  BY <1>1 DEF Decide, vars, laneVars, LaneStep
<1>2. ASSUME NEW p \in Producer, NEW r \in Run, QueuePageProposal(p, r) PROVE LaneStep
    <2>1. Requests(p, r)  BY <1>2 DEF QueuePageProposal, Requests
    <2>. QED  BY <2>1 DEF LaneStep
<1>3. ASSUME NEW p \in Producer, ProducerStep(p) PROVE LaneStep
    <2>1. AddJob(p) \/ Withdraws(p)  BY <1>3 DEF ProducerStep, MarkQueueFailure, Withdraws
    <2>. QED  BY <2>1 DEF LaneStep
<1>4. ASSUME NEW a \in Attempt, AttemptStep(a) PROVE LaneStep
    <2>1. CASE LoadRun(a) \/ Reason(a) \/ EndAttempt(a)  BY <2>1 DEF LaneStep, RunMoves
    <2>2. CASE MarkRunning(a)
        BY <2>2 DEF MarkRunning, LaneStep, WorksOn, Turns, WriteStatus
    <2>3. CASE LoadEvidence(a)
        BY <2>3 DEF LoadEvidence, LaneStep, WorksOn, Turns
    <2>4. CASE MarkFailed(a)
        BY <2>4 DEF MarkFailed, LaneStep, WorksOn, Turns, WriteStatus
    <2>5. CASE PersistSuccess(a)
        BY <2>5 DEF PersistSuccess, LaneStep, WorksOn, Turns, Refused, WriteStatus
    <2>. QED  BY <1>4, <2>1, <2>2, <2>3, <2>4, <2>5 DEF AttemptStep
<1>5. ASSUME NEW s \in Scan, ScanStep(s) \/ \E r \in Run : PickStale(s, r) PROVE LaneStep
    BY <1>5 DEF ScanStep, ScanMoves, LaneStep
<1>6. ASSUME NEW r \in Run, QueueStep(r) PROVE LaneStep
    BY <1>6 DEF QueueStep, QueueMoves, LaneStep
<1>7. CASE Mishap
    BY <1>7 DEF Mishap, RunMoves, ScanMoves, QueueMoves, LaneStep
<1>. QED  BY <1>1, <1>2, <1>3, <1>4, <1>5, <1>6, <1>7 DEF Next

LEMMA TypeInit == ASSUME Init PROVE TypeInv
<1>1. LaneInv  BY LaneInvInit DEF Init
<1>2. opportunity \in {"open", "rejected", "brief_created"} /\ proposals \subseteq Proposal
    BY DEF Init
<1>. QED  BY <1>1, <1>2 DEF TypeInv, LaneInv, ProposalsTypeOK

LEMMA TypeStep == ASSUME TypeInv, [Next]_vars PROVE TypeInv'
<1>1. LaneInv'  BY NextIsLaneStep, LaneKeeps DEF TypeInv
<1>2. opportunity' \in {"open", "rejected", "brief_created"} /\ proposals' \subseteq Proposal
    <2>0. opportunity \in {"open", "rejected", "brief_created"} /\ proposals \subseteq Proposal
        BY DEF TypeInv, ProposalsTypeOK
    <2>1. ASSUME NEW a \in Attempt, PersistSuccess(a), ~UNCHANGED productVars
          PROVE  opportunity' = "brief_created" /\ proposals' \subseteq Proposal
        <3>1. attempts[a].run \in Run /\ attempts[a].answer \in Answer
            BY <2>1 DEF PersistSuccess, TypeInv, LaneInv, AttemptInv
        <3>. QED  BY <2>0, <2>1, <3>1 DEF PersistSuccess, Proposal
    <2>2. CASE UNCHANGED productVars  BY <2>0, <2>2 DEF productVars
    <2>3. CASE Decide  BY <2>0, <2>3 DEF Decide
    <2>4. ~UNCHANGED productVars => Decide \/ \E a \in Attempt : PersistSuccess(a)
        BY DEF Next, vars, productVars, Mishap, QueueStep, ScanStep, ProducerStep, AttemptStep,
               QueuePageProposal, MarkQueueFailure, MarkRunning, LoadEvidence, MarkFailed
    <2>. QED  BY <2>0, <2>1, <2>2, <2>3, <2>4
<1>. QED  BY <1>1, <1>2 DEF TypeInv, LaneInv, ProposalsTypeOK

\* Every variable keeps its type; in particular no run is ever recovered more than
\* MaxRecovery times, and no job is attempted more than MaxAttempts times
\* (claimRecoveryAttempt, recoverCandidate, handleJob).
THEOREM LaneTypeCorrect == Spec => []ProposalsTypeOK
<1>1. Init => TypeInv  BY TypeInit
<1>2. TypeInv /\ [Next]_vars => TypeInv'  BY TypeStep
<1>3. TypeInv => ProposalsTypeOK  BY DEF TypeInv
<1>. QED  BY <1>1, <1>2, <1>3, PTL DEF Spec

----------------------------------------------------------------------------
(* What a run has written *)

Done(r) == runs[r].status = "succeeded"
WrittenBy(r) == {x \in proposals : x.run = r}

WrittenInv == \A r \in Run :
    \/ Done(r) /\ \E route \in Answer : WrittenBy(r) = {[run |-> r, route |-> route]}
    \/ ~Done(r) /\ WrittenBy(r) = {}

\* A step leaves what is done and written alone, or it is a run's that was running,
\* and writes its proposal and its success together.
LEMMA StepWrites ==
    ASSUME TypeInv, OwnedInv, [Next]_vars
    PROVE  \/ proposals' = proposals /\ \A r \in Run : Done(r)' = Done(r)
           \/ \E r \in Run, route \in Answer :
                /\ ~Done(r) /\ Done(r)'
                /\ \A q \in Run \ {r} : Done(q)' = Done(q)
                /\ proposals' = proposals \cup {[run |-> r, route |-> route]}
<1>. USE DEF TypeInv, LaneInv, LaneTypeOK
<1>. DEFINE Keeps == proposals' = proposals /\ \A r \in Run : Done(r)' = Done(r)
<1>1. ASSUME proposals' = proposals, runs' = runs PROVE Keeps
  BY <1>1 DEF Done
<1>2. ASSUME proposals' = proposals, NEW r \in Run, ~Done(r),
             NEW status \in {"queued", "running", "failed"}, runs' = [runs EXCEPT ![r].status = status]
      PROVE  Keeps
  BY <1>2, StatusWritten DEF Done
<1>3. ASSUME NEW p \in Producer, NEW r \in Run, QueuePageProposal(p, r) PROVE Keeps
  BY <1>2, <1>3 DEF QueuePageProposal, WriteStatus, productVars, Done
<1>4. ASSUME NEW p \in Producer, ProducerStep(p) PROVE Keeps
  <2>1. CASE AddJob(p) /\ UNCHANGED productVars
    BY <1>1, <2>1 DEF AddJob, productVars
  <2>2. CASE MarkQueueFailure(p)
    <3>1. PICK r \in Run : r = producers[p].run  BY <2>2 DEF MarkQueueFailure, ProducerInv
    <3>2. ~Done(r)  BY <2>2, <3>1 DEF MarkQueueFailure, OwnedInv, OwnedAt, Done
    <3>. QED  BY <1>2, <2>2, <3>1, <3>2 DEF MarkQueueFailure, WriteStatus, productVars
  <2>. QED  BY <1>4, <2>1, <2>2 DEF ProducerStep
<1>5. ASSUME NEW a \in Attempt, MarkRunning(a) \/ MarkFailed(a) PROVE Keeps
  <2>1. PICK r \in Run : r = attempts[a].run
    BY <1>5 DEF MarkRunning, MarkFailed, AttemptInv
  <2>2. \/ UNCHANGED <<runs, proposals>>
        \/ /\ ~Done(r) /\ proposals' = proposals
           /\ \E st \in {"running", "failed"} : runs' = [runs EXCEPT ![r].status = st]
    BY <1>5, <2>1 DEF MarkRunning, MarkFailed, WriteStatus, productVars, Done
  <2>. QED  BY <1>1, <1>2, <2>2
<1>6. ASSUME NEW a \in Attempt, PersistSuccess(a), ~UNCHANGED <<runs, proposals>>
      PROVE  \E r \in Run, route \in Answer :
                /\ ~Done(r) /\ Done(r)'
                /\ \A q \in Run \ {r} : Done(q)' = Done(q)
                /\ proposals' = proposals \cup {[run |-> r, route |-> route]}
  <2>1. PICK r \in Run : r = attempts[a].run
    BY <1>6 DEF PersistSuccess, AttemptInv
  <2>2. PICK route \in Answer : route = attempts[a].answer
    BY <1>6 DEF PersistSuccess, AttemptInv
  <2>3. /\ runs[r].status = "running"
        /\ runs' = [runs EXCEPT ![r].status = "succeeded"]
        /\ proposals' = proposals \cup {[run |-> r, route |-> route]}
    BY <1>6, <2>1, <2>2 DEF PersistSuccess, MayPersist, WriteStatus, productVars
  <2>4. runs'[r].status = "succeeded" /\ \A q \in Run \ {r} : runs'[q] = runs[q]
    BY <2>3, StatusWritten
  <2>. QED  BY <2>3, <2>4 DEF Done
<1>7. ASSUME NEW a \in Attempt, AttemptStep(a), ~PersistSuccess(a) PROVE Keeps
  <2>1. CASE (LoadRun(a) \/ Reason(a) \/ EndAttempt(a)) /\ UNCHANGED productVars
    BY <1>1, <2>1 DEF LoadRun, Reason, EndAttempt, productVars
  <2>2. CASE LoadEvidence(a)
    BY <1>1, <2>2 DEF LoadEvidence, productVars
  <2>. QED  BY <1>5, <1>7, <2>1, <2>2 DEF AttemptStep
<1>8. ASSUME NEW s \in Scan, ScanStep(s) PROVE Keeps
  <2>1. CASE Claim(s) /\ StillCandidate(s)
    <3>1. PICK r \in Run : r = scans[s].run  BY <2>1 DEF Claim, ScanInv
    <3>2. runs' = [runs EXCEPT ![r].count = @ + 1]  BY <2>1, <3>1 DEF Claim
    <3>3. \A q \in Run : runs'[q].status = runs[q].status  BY <3>2 DEF RunRow
    <3>. QED  BY <1>8, <3>3 DEF ScanStep, productVars, Done
  <2>2. CASE GiveUp(s) /\ StillCandidate(s)
    <3>1. PICK r \in Run : r = scans[s].run  BY <2>2 DEF GiveUp, ScanInv
    <3>2. ~Done(r)  BY <2>2, <3>1 DEF StillCandidate, Active, Done
    <3>3. runs' = [runs EXCEPT ![r].status = "failed"]  BY <2>2, <3>1 DEF GiveUp
    <3>. QED  BY <1>2, <1>8, <3>2, <3>3 DEF ScanStep, productVars
  <2>3. CASE runs' = runs
    BY <1>1, <1>8, <2>3 DEF ScanStep, productVars
  <2>. QED
    BY <1>8, <2>1, <2>2, <2>3
       DEF ScanStep, Observe, CheckTransport, RemoveOld, Claim, Recheck, AddRecovery, GiveUp, FailAudit
<1>9. ASSUME NEW r \in Run, QueueStep(r) PROVE Keeps
  BY <1>1, <1>9 DEF QueueStep, TakeJob, Stall, productVars
<1>10. CASE Mishap
  BY <1>1, <1>10 DEF Mishap, Throws, AttemptCrash, ProducerCrash, ScanCrash, LockLost, productVars
<1>11. CASE Decide \/ UNCHANGED vars
  BY <1>1, <1>11 DEF Decide, vars, laneVars
<1>12. ASSUME NEW s \in Scan, NEW r \in Run, PickStale(s, r), UNCHANGED productVars PROVE Keeps
  BY <1>1, <1>12 DEF PickStale, productVars
<1>13. ASSUME NEW a \in Attempt, AttemptStep(a)
       PROVE  \/ Keeps
              \/ \E r \in Run, route \in Answer :
                    /\ ~Done(r) /\ Done(r)'
                    /\ \A q \in Run \ {r} : Done(q)' = Done(q)
                    /\ proposals' = proposals \cup {[run |-> r, route |-> route]}
  BY <1>1, <1>6, <1>7, <1>13
<1>. QED  BY <1>3, <1>4, <1>8, <1>9, <1>10, <1>11, <1>12, <1>13 DEF Next

LEMMA WrittenStep ==
    ASSUME TypeInv, OwnedInv, WrittenInv, [Next]_vars
    PROVE  WrittenInv'
<1>1. CASE proposals' = proposals /\ \A r \in Run : Done(r)' = Done(r)
  <2>1. ASSUME NEW r \in Run PROVE WrittenBy(r)' = WrittenBy(r) /\ Done(r)' = Done(r)
    BY <1>1, <2>1 DEF WrittenBy
  <2>. QED  BY <2>1 DEF WrittenInv
<1>2. ASSUME NEW r \in Run, NEW route \in Answer, ~Done(r), Done(r)',
             \A q \in Run \ {r} : Done(q)' = Done(q),
             proposals' = proposals \cup {[run |-> r, route |-> route]}
      PROVE  WrittenInv'
  <2>1. WrittenBy(r) = {}  BY <1>2 DEF WrittenInv
  <2>2. WrittenBy(r)' = {[run |-> r, route |-> route]}
    BY <1>2, <2>1 DEF WrittenBy
  <2>3. ASSUME NEW q \in Run \ {r} PROVE WrittenBy(q)' = WrittenBy(q)
    BY <1>2, <2>3 DEF WrittenBy
  <2>. QED  BY <1>2, <2>2, <2>3 DEF WrittenInv
<1>. QED  BY <1>1, <1>2, StepWrites

IInv == TypeInv /\ OwnedInv /\ WrittenInv

LEMMA IInvInit == ASSUME Init PROVE IInv
<1>1. TypeInv  BY TypeInit
<1>2. OwnedInv  BY OwnedInit DEF Init
<1>3. WrittenInv
  BY DEF Init, LaneInit, WrittenInv, Done, WrittenBy
<1>. QED  BY <1>1, <1>2, <1>3 DEF IInv

LEMMA WrittenImpliesOnce == ASSUME WrittenInv PROVE SucceededOnce
<1>1. ASSUME NEW r \in Run, Done(r) PROVE Cardinality(WrittenBy(r)) = 1
  BY <1>1, FS_Singleton DEF WrittenInv
<1>2. ASSUME NEW r \in Run, ~Done(r) PROVE Cardinality(WrittenBy(r)) = 0
  BY <1>2, FS_EmptySet DEF WrittenInv
<1>. QED  BY <1>1, <1>2 DEF SucceededOnce, Done, WrittenBy

LEMMA IInvStep == ASSUME ~LostAcks, IInv, [Next]_vars PROVE IInv'
<1>1. LaneStep  BY NextIsLaneStep
<1>2. OwnedInv'  BY <1>1, OwnedKeeps DEF IInv, TypeInv
<1>. QED  BY <1>2, TypeStep, WrittenStep DEF IInv

\* No request's add throws after the job was added.
NoLostAcks == ~LostAcks

\* A run has one proposal if it succeeded and none otherwise, however attempts
\* overlap, jobs come again, scans race and whatever fails (persistSuccess), as long
\* as NoLostAcks.
THEOREM WritesOnce == ASSUME NoLostAcks PROVE Spec => []SucceededOnce
<1>1. Init => IInv  BY IInvInit
<1>2. IInv /\ [Next]_vars => IInv'
  BY IInvStep DEF NoLostAcks
<1>3. IInv => SucceededOnce  BY WrittenImpliesOnce DEF IInv
<1>. QED  BY <1>1, <1>2, <1>3, PTL DEF Spec

\* Likewise a run that succeeded stays so: markRunning, markFailed, the request's
\* failure and the scan's all leave it alone.
THEOREM SuccessIsFinal == ASSUME NoLostAcks PROVE Spec => SucceededStays
<1>1. Init => IInv  BY IInvInit
<1>2. IInv /\ [Next]_vars => IInv'
  BY IInvStep DEF NoLostAcks
<1>3. IInv /\ [Next]_vars =>
        [\A r \in Run : runs[r].status = "succeeded" => runs'[r].status = "succeeded"]_vars
  BY StepWrites DEF IInv, Done
<1>. QED  BY <1>1, <1>2, <1>3, PTL DEF Spec, SucceededStays
================================================================================
