----------------------------- MODULE PageProposals -----------------------------
(***************************************************************************)
(* Page proposals: an operator asks for a proposal for an opportunity      *)
(* (page-proposal.capability.ts), a worker has one written and stores it   *)
(* with its first page version (handlers/page-proposal.ts), and the scan   *)
(* recovers runs that got stuck.  All runs are about one opportunity.      *)
(***************************************************************************)
EXTENDS WorkLane, FiniteSets

VARIABLES
    opportunity, \* status: open stands for new, monitoring and held
    proposals    \* page_proposals: the run that wrote it, and its route

vars == <<laneVars, opportunity, proposals>>
productVars == <<opportunity, proposals>>

Proposal == [run : Run, route : Answer]

ProposalsTypeOK ==
    /\ LaneTypeOK
    /\ opportunity \in {"open", "rejected", "brief_created"}
    /\ proposals \subseteq Proposal

Init == LaneInit /\ opportunity = "open" /\ proposals = {}

\* agent_runs_active_per_project_task_subject_idx
AnotherActive(r) == \E q \in Run \ {r} : runs[q].status \in Active

\* updateOpportunityLifecycle of an opportunity that came from research
Decide ==
    /\ \/ opportunity = "open" /\ opportunity' = "rejected"
       \/ opportunity = "rejected" /\ opportunity' = "open"
    /\ UNCHANGED <<laneVars, proposals>>

\* queuePageProposal up to its commit
QueuePageProposal(p, r) ==
    /\ producers[p].pc = "idle"
    /\ runs[r].status = "absent"
    /\ opportunity = "open"
    /\ ~AnotherActive(r)
    /\ WriteStatus(r, "queued")
    /\ producers' = [producers EXCEPT ![p] = [pc |-> "add", run |-> r]]
    /\ UNCHANGED <<jobs, audits, attempts, faults, productVars>>

\* markPageProposalQueueFailure
MarkQueueFailure(p) ==
    /\ producers[p].pc = "refuse"
    /\ WriteStatus(producers[p].run, "failed")
    /\ Leaves(p)
    /\ UNCHANGED <<jobs, audits, attempts, faults, productVars>>

MarkRunning(a) ==
    LET r == attempts[a].run IN
    /\ attempts[a].pc = "mark"
    /\ IF runs[r].status \in {"queued", "failed"} /\ ~AnotherActive(r)
         THEN WriteStatus(r, "running") /\ Goes(a, "evidence")
         ELSE Goes(a, "reload") /\ UNCHANGED <<runs, scans>>
    /\ UNCHANGED <<jobs, audits, producers, faults, productVars>>

\* loadEvidence, storeEvidencePacket and recordInputRef
LoadEvidence(a) ==
    LET r == attempts[a].run IN
    /\ attempts[a].pc = "evidence"
    /\ IF opportunity = "rejected"
         THEN Raises(a, "terminal") /\ UNCHANGED scans
         ELSE /\ Goes(a, "reason")
              /\ scans' = IF runs[r].status = "succeeded" THEN scans ELSE Touched(r)
    /\ UNCHANGED <<runs, jobs, audits, producers, faults, productVars>>

MarkFailedBug(a) ==
    /\ attempts[a].pc = "refuse"
    /\ WriteStatus(attempts[a].run, "failed")
    /\ Goes(a, "end")
    /\ UNCHANGED <<jobs, audits, producers, faults, productVars>>

MarkFailed(a) ==
    LET r == attempts[a].run IN
    /\ attempts[a].pc = "refuse"
    /\ IF runs[r].status # "succeeded" THEN WriteStatus(r, "failed") ELSE UNCHANGED <<runs, scans>>
    /\ Goes(a, "end")
    /\ UNCHANGED <<jobs, audits, producers, faults, productVars>>

MayPersistBug(a) == runs[attempts[a].run].status # "failed"
MayPersist(a) == runs[attempts[a].run].status = "running"

\* persistSuccess: a run that is not running any more is a terminal error; a route
\* that is taken, or a rejected opportunity, is a failure to record first.
PersistSuccess(a) ==
    LET r == attempts[a].run
        route == attempts[a].answer
        refused == opportunity = "rejected" \/ \E x \in proposals : x.route = route
    IN
    /\ attempts[a].pc = "persist"
    /\ \/ /\ ~MayPersist(a)
          /\ Raises(a, "terminal")
          /\ UNCHANGED <<runs, scans, productVars>>
       \/ /\ MayPersist(a) /\ refused
          /\ attempts' = [attempts EXCEPT ![a].pc = "refuse", ![a].error = "terminal"]
          /\ UNCHANGED <<runs, scans, productVars>>
       \/ /\ MayPersist(a) /\ ~refused
          /\ WriteStatus(r, "succeeded")
          /\ proposals' = proposals \cup {[run |-> r, route |-> route]}
          /\ opportunity' = "brief_created"
          /\ Goes(a, "end")
    /\ UNCHANGED <<jobs, audits, producers, faults>>

AttemptStep(a) ==
    \/ (LoadRun(a) \/ Reason(a) \/ EndAttempt(a)) /\ UNCHANGED productVars
    \/ MarkRunning(a)
    \/ LoadEvidence(a)
    \/ MarkFailed(a)
    \/ PersistSuccess(a)

ProducerStep(p) ==
    \/ AddJob(p) /\ UNCHANGED productVars
    \/ MarkQueueFailure(p)

ScanStep(s) ==
    /\ \/ Observe(s) \/ CheckTransport(s) \/ RemoveOld(s) \/ Claim(s)
       \/ Recheck(s) \/ AddRecovery(s) \/ GiveUp(s) \/ FailAudit(s)
    /\ UNCHANGED productVars

QueueStep(r) ==
    /\ Stall(r) \/ \E a \in Attempt : TakeJob(r, a)
    /\ UNCHANGED productVars

Mishap ==
    /\ \/ \E a \in Attempt : Throws(a) \/ AttemptCrash(a)
       \/ \E p \in Producer : ProducerCrash(p)
       \/ \E s \in Scan : ScanCrash(s)
       \/ \E r \in Run : LockLost(r)
    /\ UNCHANGED productVars

Next ==
    \/ Decide
    \/ \E p \in Producer, r \in Run : QueuePageProposal(p, r)
    \/ \E p \in Producer : ProducerStep(p)
    \/ \E a \in Attempt : AttemptStep(a)
    \/ \E s \in Scan, r \in Run : PickStale(s, r) /\ UNCHANGED productVars
    \/ \E s \in Scan : ScanStep(s)
    \/ \E r \in Run : QueueStep(r)
    \/ Mishap

Spec == Init /\ [][Next]_vars

\* The event loops go on, the queue hands out jobs and notices dead holders, and the
\* interval's scan comes to every row that stays stale.
Fairness ==
    /\ \A p \in Producer : WF_vars(ProducerStep(p))
    /\ \A a \in Attempt : WF_vars(AttemptStep(a))
    /\ \A s \in Scan : WF_vars(ScanStep(s))
    /\ \A r \in Run :
        /\ WF_vars(\E a \in Attempt : TakeJob(r, a) /\ UNCHANGED productVars)
        /\ WF_vars(Stall(r) /\ UNCHANGED productVars)
        /\ \A s \in Scan : SF_vars(PickStale(s, r) /\ UNCHANGED productVars)

FairSpec == Spec /\ Fairness

----------------------------------------------------------------------------
(* Properties *)

\* A run has written a proposal exactly when it succeeded, and then one: attempts
\* that overlap, jobs that come again and recovered runs do not persist twice.
SucceededOnce ==
    \A r \in Run : Cardinality({x \in proposals : x.run = r}) =
                   IF runs[r].status = "succeeded" THEN 1 ELSE 0

\* A run that succeeded stays so: late failures of other attempts, of the request
\* and of the scan leave it alone.
SucceededStays ==
    [][\A r \in Run : runs[r].status = "succeeded" => runs'[r].status = "succeeded"]_vars

\* Work that was requested ends: it succeeds, or is visibly failed.
WorkEnds == \A r \in Run : runs[r].status \in Active ~> runs[r].status \notin Active
================================================================================
