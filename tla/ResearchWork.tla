------------------------------ MODULE ResearchWork ------------------------------
(***************************************************************************)
(* The worker's part of Opportunity Research: the deliveries of a run's    *)
(* queue job, which claim the run, take the steps of the workflow and      *)
(* write the result (handlers/opportunity-research.ts), and the recovery   *)
(* scan that adds the job of a stale run again (work-recovery.ts).         *)
(*                                                                         *)
(* Two deliveries of one run overlap when the queue or the scan takes a    *)
(* live one for dead, or when its heartbeat fails: the job is then over    *)
(* for the queue, and the execution goes on behind it.                     *)
(***************************************************************************)
EXTENDS ResearchLedger, WorkRecovery

CONSTANTS
    Delivery, \* worker slots
    Budget    \* how many changes of material, commands and mishaps a behaviour has

ASSUME WorkConstants ==
    /\ Budget \subseteq [changes : Nat, commands : Nat, mishaps : Nat]
    /\ None \notin Delivery

VARIABLES
    jobs,       \* the BullMQ job of each run
    audits,     \* job_runs: of the run, and one of each recovery
    deliveries, \* the local variables of the handlers
    scan,       \* those of the recovery scan
    left        \* of the budget

workVars == <<ledgerVars, jobs, audits, deliveries, scan, left>>

Job == [state : {"missing", "waiting", "active", "completed", "failed"},
        made : 0..MaxAttempts - 1, generation : Generation, holder : Delivery \cup {None}]
NoJob == [state |-> "missing", made |-> 0, generation |-> 0, holder |-> None]
ActiveAudit == {"queued", "running", "retrying"}
AuditStatus == {"absent", "completed", "failed"} \cup ActiveAudit
Error == {None, "retry", "terminal", "stale"} \* stale: terminal, and needsResearch
DeliveryRow ==
    [pc : {"idle", "claim", "load", "step", "call", "complete", "fail", "persist",
           "settle", "end"},
     run : Run \cup {None}, made : 0..MaxAttempts - 1, generation : Generation, epoch : Nat,
     step : 0..Steps, tries : 0..StepTries, error : Error, orphan : BOOLEAN]
NoDelivery == [pc |-> "idle", run |-> None, made |-> 0, generation |-> 0, epoch |-> 0,
               step |-> 0, tries |-> 0, error |-> None, orphan |-> FALSE]
ScanRow == [pc : {"idle", "claim", "add", "give_up"}, run : Run \cup {None}, count : Generation]
NoScan == [pc |-> "idle", run |-> None, count |-> 0]

WorkTypeOK ==
    /\ LedgerTypeOK
    /\ jobs \in [Run -> Job]
    /\ audits \in [Run -> [Generation -> AuditStatus]]
    /\ deliveries \in [Delivery -> DeliveryRow]
    /\ scan \in ScanRow
    /\ left \in [changes : Nat, commands : Nat, mishaps : Nat]

WorkInit ==
    /\ LedgerInit
    /\ jobs = [r \in Run |-> NoJob]
    /\ audits = [r \in Run |-> [g \in Generation |-> "absent"]]
    /\ deliveries = [d \in Delivery |-> NoDelivery]
    /\ scan = NoScan
    /\ left \in Budget

Pays(what) == left[what] > 0 /\ left' = [left EXCEPT ![what] = @ - 1]

At(d, pc) == deliveries[d].pc = pc
RunOf(d) == deliveries[d].run
Goes(d, pc) == deliveries' = [deliveries EXCEPT ![d].pc = pc]

\* An error of the execution.  One that nobody waits for is lost.
Raises(d, pc, error) ==
    deliveries' = [deliveries EXCEPT ![d] =
        IF deliveries[d].orphan THEN NoDelivery ELSE [@ EXCEPT !.pc = pc, !.error = error]]

AddedJob(r, generation) ==
    [jobs EXCEPT ![r] = [NoJob EXCEPT !.state = "waiting", !.generation = generation]]

Audited(r, generation, status) == audits' = [audits EXCEPT ![r][generation] = status]

\* What the end of a delivery does to its job and its audit
Final(d) == deliveries[d].made = MaxAttempts - 1
Outcome(d) ==
    IF deliveries[d].error = None THEN "completed"
    ELSE IF deliveries[d].error = "retry" /\ ~Final(d) THEN "retrying" ELSE "failed"
Releases(d, outcome) ==
    LET r == RunOf(d) IN
    /\ jobs' = IF jobs[r].holder # d THEN jobs
               ELSE [jobs EXCEPT ![r].holder = None,
                        ![r].state = IF outcome = "retrying" THEN "waiting" ELSE outcome,
                        ![r].made = IF outcome = "retrying" THEN @ + 1 ELSE @]
    /\ Audited(r, deliveries[d].generation, outcome)

----------------------------------------------------------------------------
(* A delivery *)

\* BullMQ hands out the job; markJobRunRunning.
Take(d, r) ==
    /\ jobs[r].state = "waiting"
    /\ At(d, "idle") /\ d = CHOOSE e \in Delivery : At(e, "idle")
    /\ jobs' = [jobs EXCEPT ![r].state = "active", ![r].holder = d]
    /\ deliveries' = [deliveries EXCEPT ![d] = [NoDelivery EXCEPT
            !.pc = "claim", !.run = r, !.made = jobs[r].made, !.generation = jobs[r].generation]]
    /\ Audited(r, jobs[r].generation, "running")
    /\ UNCHANGED <<ledgerVars, scan, left>>

\* assertRecoveryDeliveryIdentity
Delivers(d) ==
    LET r == RunOf(d) IN
    /\ audits[r][deliveries[d].generation] \in {"queued", "running"}
    /\ deliveries[d].generation > 0 => runs[r].count = deliveries[d].generation

\* claimOpportunityResearchExecution
ClaimExecution(d) ==
    LET r == RunOf(d)
        run == runs[r]
        token == <<deliveries[d].generation, deliveries[d].made>>
        starts == run.status = "queued" /\ state.status = "queued" /\ state.active = r
        owned == OwnsResult(r, run.epoch) /\ deliveries[d].generation >= run.generation
        claimed == deliveries' = [deliveries EXCEPT ![d].pc = "load", ![d].epoch = run.epoch + 1]
    IN
    /\ At(d, "claim")
    /\ \/ /\ Delivers(d) /\ starts
          /\ Start(r, token, deliveries[d].generation)
          /\ claimed
       \/ /\ Delivers(d) /\ owned /\ run.token # token
          /\ TakeOver(r, token, deliveries[d].generation)
          /\ claimed
       \/ /\ \/ Delivers(d) /\ run.status = "succeeded" /\ Goes(d, "end")
             \/ Delivers(d) /\ owned /\ run.token = token /\ Raises(d, "end", "retry")
             \/ /\ ~Delivers(d) \/ ~(starts \/ owned \/ run.status = "succeeded")
                /\ Raises(d, "end", "terminal")
          /\ UNCHANGED <<state, runs, steps>>
    /\ UNCHANGED <<material, jobs, audits, scan, left>>

\* loadOpportunityResearchMaterial and assertCurrentMaterial
LoadMaterial(d) ==
    /\ At(d, "load")
    /\ IF MaterialHolds(RunOf(d))
         THEN deliveries' = [deliveries EXCEPT ![d].pc = "step", ![d].step = 1]
         ELSE Raises(d, "settle", "stale")
    /\ UNCHANGED <<ledgerVars, jobs, audits, scan, left>>

\* The next step of the workflow, or its end
Advances(d, k) ==
    deliveries' = [deliveries EXCEPT ![d].pc = IF k = Steps THEN "persist" ELSE "step",
                                     ![d].step = IF k = Steps THEN k ELSE k + 1]

\* claimAgentRunStep.  Whatever a step throws, the workflow fails with an error of its own.
BeginStep(d) ==
    LET r == RunOf(d)
        k == deliveries[d].step
    IN
    /\ At(d, "step")
    /\ \/ /\ OwnsRun(r, deliveries[d].epoch) /\ StepDone(r, k)
          /\ Advances(d, k)
          /\ UNCHANGED steps
       \/ /\ OwnsRun(r, deliveries[d].epoch) /\ StepClaimable(r, k)
          /\ ClaimStep(r, k)
          /\ deliveries' = [deliveries EXCEPT ![d].pc = "call", ![d].tries = steps'[r][k].tries]
       \/ /\ ~OwnsRun(r, deliveries[d].epoch) \/ ~(StepDone(r, k) \/ StepClaimable(r, k))
          /\ Raises(d, "settle", "retry")
          /\ UNCHANGED steps
    /\ UNCHANGED <<material, state, runs, jobs, audits, scan, left>>

\* The provider attempt guard checks the material, and the provider answers.
Call(d) ==
    /\ At(d, "call")
    /\ Goes(d, IF MaterialHolds(RunOf(d)) THEN "complete" ELSE "fail")
    /\ UNCHANGED <<ledgerVars, jobs, audits, scan, left>>

HoldsStep(d) == OwnsStep(RunOf(d), deliveries[d].step, deliveries[d].epoch, deliveries[d].tries)

\* completeAgentRunStep, whose commit may go unanswered
EndStep(d) ==
    /\ At(d, "complete")
    /\ \/ /\ HoldsStep(d)
          /\ CompleteStep(RunOf(d), deliveries[d].step)
          /\ \/ Advances(d, deliveries[d].step) /\ UNCHANGED left
             \/ Goes(d, "fail") /\ Pays("mishaps")
       \/ /\ ~HoldsStep(d)
          /\ Goes(d, "fail")
          /\ UNCHANGED <<steps, left>>
    /\ UNCHANGED <<material, state, runs, jobs, audits, scan>>

\* failAgentRunStep, whose own conflict is dropped
LoseStep(d) ==
    /\ At(d, "fail")
    /\ IF HoldsStep(d) THEN FailStep(RunOf(d), deliveries[d].step) ELSE UNCHANGED steps
    /\ Raises(d, "settle", "retry")
    /\ UNCHANGED <<material, state, runs, jobs, audits, scan, left>>

\* persistOpportunityResearchSuccess
Persist(d) ==
    LET r == RunOf(d)
        complete == OwnsResult(r, deliveries[d].epoch) /\ LedgerComplete(r, deliveries[d].epoch)
    IN
    /\ At(d, "persist")
    /\ \/ /\ complete /\ MaterialHolds(r)
          /\ Succeed(r)
          /\ \/ Raises(d, "end", None) /\ UNCHANGED left
             \/ Raises(d, "settle", "retry") /\ Pays("mishaps") \* the commit's answer is lost
       \/ /\ complete /\ ~MaterialHolds(r)
          /\ Raises(d, "settle", "stale")
          /\ UNCHANGED <<state, runs, steps, left>>
       \/ /\ ~complete
          /\ Raises(d, "settle", "terminal")
          /\ UNCHANGED <<state, runs, steps, left>>
    /\ UNCHANGED <<material, jobs, audits, scan>>

\* The handler's catch
Settle(d) ==
    LET r == RunOf(d)
        fails == /\ deliveries[d].error # "retry" \/ Final(d)
                 /\ OwnsRun(r, deliveries[d].epoch)
    IN
    /\ At(d, "settle")
    /\ IF fails THEN Fail(r, deliveries[d].error = "stale") ELSE UNCHANGED <<state, runs, steps>>
    /\ Goes(d, "end")
    /\ UNCHANGED <<material, jobs, audits, scan, left>>

End(d) ==
    /\ At(d, "end")
    /\ Releases(d, Outcome(d))
    /\ deliveries' = [deliveries EXCEPT ![d] = NoDelivery]
    /\ UNCHANGED <<ledgerVars, scan, left>>

----------------------------------------------------------------------------
(* What goes wrong *)

Executing(d) == deliveries[d].pc \in {"load", "step", "call", "complete", "fail", "persist"}

\* A heartbeat is refused, since the run is not this delivery's any more, or it throws: the
\* handler ends, and the execution goes on without it.
LeaseLost(d) ==
    /\ Executing(d) /\ ~deliveries[d].orphan
    /\ IF OwnsResult(RunOf(d), deliveries[d].epoch) THEN Pays("mishaps") ELSE UNCHANGED left
    /\ Releases(d, IF Final(d) THEN "failed" ELSE "retrying")
    /\ deliveries' = [deliveries EXCEPT ![d].orphan = TRUE]
    /\ UNCHANGED <<ledgerVars, scan>>

\* A call of the database or the provider throws; an orphan may see that it was aborted.
Throws(d) ==
    /\ deliveries[d].pc \in {"claim", "settle"} \/ Executing(d)
    /\ IF deliveries[d].orphan THEN UNCHANGED left ELSE Pays("mishaps")
    /\ CASE deliveries[d].pc \in {"claim", "settle"} -> Raises(d, "end", "retry")
         [] deliveries[d].pc \in {"call", "complete"} -> Goes(d, "fail")
         [] OTHER -> Raises(d, "settle", "retry")
    /\ UNCHANGED <<ledgerVars, jobs, audits, scan>>

\* finalizeOpportunityResearchOutput refuses what the models proposed.
Refuse(d) ==
    /\ At(d, "persist")
    /\ Pays("mishaps")
    /\ Raises(d, "settle", "terminal")
    /\ UNCHANGED <<ledgerVars, jobs, audits, scan>>

Crash(d) ==
    /\ ~At(d, "idle")
    /\ Pays("mishaps")
    /\ deliveries' = [deliveries EXCEPT ![d] = NoDelivery]
    /\ UNCHANGED <<ledgerVars, jobs, audits, scan>>

\* The lock of a job expires, and the queue hands the job out again, as the same attempt,
\* or gives it up.
LockExpires(r) ==
    /\ jobs[r].state = "active"
    /\ \E state_ \in {"waiting", "failed"} :
        jobs' = [jobs EXCEPT ![r].state = state_, ![r].holder = None]
    /\ UNCHANGED <<ledgerVars, audits, deliveries, scan>>
Held(r) == deliveries[jobs[r].holder].run = r /\ ~deliveries[jobs[r].holder].orphan
Stalls(r) == jobs[r].state = "active" /\ ~Held(r) /\ LockExpires(r) /\ UNCHANGED left
LockLost(r) == jobs[r].state = "active" /\ Held(r) /\ LockExpires(r) /\ Pays("mishaps")

----------------------------------------------------------------------------
(* The recovery scan.  Any active run may have become stale. *)

TransportBug(r) ==
    LET recovery == audits[r][runs[r].count]
        audit == IF recovery # "absent" THEN recovery ELSE audits[r][0]
    IN
    IF jobs[r].state # "missing" THEN TransportState(jobs[r].state)
    ELSE IF audit \in {"completed", "failed"} THEN audit
    ELSE IF audit \in ActiveAudit THEN "active" ELSE "missing"

\* observeTransportState
Transport(r) ==
    LET recovery == audits[r][runs[r].count]
        audit == IF recovery # "absent" THEN recovery ELSE audits[r][0]
    IN
    IF jobs[r].state # "missing" THEN TransportState(jobs[r].state)
    ELSE IF audit \in {"completed", "failed"} THEN audit ELSE "missing"

Decision(r) == ClassifyWorkRecovery(
    [category |-> "read_analyze", durable |-> runs[r].status, transport |-> Transport(r),
     freshness |-> "stale", count |-> runs[r].count, max |-> MaxRecovery,
     idempotent |-> TRUE, uncertain |-> FALSE])

Recoverable(r) == runs[r].status \in Active /\ state.active = r

\* The scan selects a run and decides; a job that is over is removed before the claim.
Observe(r) ==
    /\ scan.pc = "idle" /\ Recoverable(r)
    /\ \/ /\ Decision(r) = "reenqueue"
          /\ scan' = [pc |-> "claim", run |-> r, count |-> runs[r].count]
          /\ jobs' = [jobs EXCEPT ![r] = NoJob]
       \/ /\ Decision(r) = "mark_execution_failed"
          /\ scan' = [pc |-> "give_up", run |-> r, count |-> runs[r].count]
          /\ UNCHANGED jobs
    /\ UNCHANGED <<ledgerVars, audits, deliveries, left>>

\* loadReusableOpportunityResearchRecoveryClaim, or claimRecoveryAttempt
ClaimRecovery ==
    LET r == scan.run
        reusable == scan.count > 0 /\ audits[r][scan.count] \in ActiveAudit
        claimable == Recoverable(r) /\ runs[r].count = scan.count
    IN
    /\ scan.pc = "claim"
    /\ \/ /\ reusable
          /\ scan' = [scan EXCEPT !.pc = "add"]
          /\ UNCHANGED <<runs, audits>>
       \/ /\ ~reusable /\ claimable
          /\ runs' = [runs EXCEPT ![r].count = @ + 1]
          /\ Audited(r, scan.count + 1, "queued")
          /\ scan' = [scan EXCEPT !.pc = "add", !.count = @ + 1]
       \/ /\ ~reusable /\ ~claimable
          /\ scan' = NoScan
          /\ UNCHANGED <<runs, audits>>
    /\ UNCHANGED <<material, state, steps, jobs, deliveries, left>>

\* The add, unless the job came back; when it throws, the audit says so.
AddRecovery ==
    LET r == scan.run
        back == jobs[r].state \in {"waiting", "active"}
    IN
    /\ scan.pc = "add"
    /\ \/ /\ back
          /\ IF jobs[r].generation # scan.count
               THEN Audited(r, scan.count, "failed") ELSE UNCHANGED audits
          /\ UNCHANGED <<jobs, left>>
       \/ /\ ~back
          /\ jobs' = AddedJob(r, scan.count)
          /\ UNCHANGED <<audits, left>>
       \/ /\ ~back
          /\ Pays("mishaps")
          /\ Audited(r, scan.count, "failed")
          /\ jobs' \in {[jobs EXCEPT ![r] = NoJob], AddedJob(r, scan.count)}
    /\ scan' = NoScan
    /\ UNCHANGED <<ledgerVars, deliveries>>

\* failOpportunityResearchExecution under the recovery's own guard; markCurrentJobRunFailed
GiveUp ==
    LET r == scan.run IN
    /\ scan.pc = "give_up"
    /\ IF Recoverable(r) /\ runs[r].count = scan.count
         THEN /\ Fail(r, FALSE)
              /\ audits' = [audits EXCEPT ![r] = [g \in Generation |->
                    IF @[g] \in ActiveAudit THEN "failed" ELSE @[g]]]
         ELSE UNCHANGED <<state, runs, steps, audits>>
    /\ scan' = NoScan
    /\ UNCHANGED <<material, jobs, deliveries, left>>

ScanDies ==
    /\ scan.pc # "idle"
    /\ Pays("mishaps")
    /\ scan' = NoScan
    /\ UNCHANGED <<ledgerVars, jobs, audits, deliveries>>

WorkProgress(d) ==
    \/ \E r \in Run : Take(d, r)
    \/ ClaimExecution(d) \/ LoadMaterial(d)
    \/ BeginStep(d) \/ Call(d) \/ EndStep(d) \/ LoseStep(d)
    \/ Persist(d) \/ Settle(d) \/ End(d)

ScanProgress == ClaimRecovery \/ AddRecovery \/ GiveUp

WorkMishap ==
    \/ \E d \in Delivery : LeaseLost(d) \/ Throws(d) \/ Refuse(d) \/ Crash(d)
    \/ \E r \in Run : LockLost(r)
    \/ ScanDies
================================================================================
