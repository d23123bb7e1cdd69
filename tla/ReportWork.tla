------------------------------- MODULE ReportWork -------------------------------
(***************************************************************************)
(* The attempts that process the jobs of the report queue: a generation    *)
(* job assembles the evidence, has prose written to it and stores a draft  *)
(* (customer-report.ts); a render job makes the HTML of a reviewed report  *)
(* (customer-report-html.ts).  A job may be handed out again while its old *)
(* attempt still works, and the recovery scan gives work up that will not  *)
(* be done.                                                                *)
(***************************************************************************)
EXTENDS ReportDesk, WorkRecovery

CONSTANT MaxRecovery \* maxRecoveryCount of the scan

ASSUME WorkConstants == MaxRecovery \in Nat

VARIABLE attempts \* the local variables of each worker slot

workVars == <<deskVars, attempts>>

AttemptState ==
    [pc : {"idle", "load", "store", "narrate", "reason", "persist", "render", "refuse", "end"},
     work : Work \cup {None}, again : BOOLEAN, packet : SUBSET Proof,
     prose : Attempt \cup {None}, digest : Digest, ends : {"completed", "failed", "retry"}]
NoAttempt == [pc |-> "idle", work |-> None, again |-> FALSE, packet |-> {}, prose |-> None,
              digest |-> None, ends |-> "completed"]

WorkTypeOK == DeskTypeOK /\ attempts \in [Attempt -> AttemptState]

WorkInit == DeskInit /\ attempts = [t \in Attempt |-> NoAttempt]

Goes(t, pc) == attempts' = [attempts EXCEPT ![t].pc = pc]
Ends(t, how) == attempts' = [attempts EXCEPT ![t].pc = "end", ![t].ends = how]
RunOf(t) == attempts[t].work[2]
ArtifactOf(t) == attempts[t].work[2]

----------------------------------------------------------------------------
(* Generation *)

Taken(t, w, pc, digest) ==
    /\ jobs[w].state = "waiting"
    /\ attempts[t].pc = "idle" /\ t = CHOOSE u \in Attempt : attempts[u].pc = "idle" \* they are alike
    /\ jobs' = [jobs EXCEPT ![w].state = "active", ![w].holder = t]
    /\ attempts' = [attempts EXCEPT ![t] = [NoAttempt EXCEPT
            !.pc = pc, !.work = w, !.again = jobs[w].again, !.digest = digest,
            !.ends = IF pc = "end" THEN "failed" ELSE "completed"]]

\* claimGenerationRun; a run that is over is left as it is.
ClaimGeneration(t, r) ==
    /\ \/ /\ runs[r].status \in ActiveRun
          /\ Taken(t, <<"run", r>>, "load", None)
          /\ runs' = IF runs[r].status = "queued"
                       THEN [runs EXCEPT ![r].status = "assembling"] ELSE runs
       \/ /\ runs[r].status \notin ActiveRun
          /\ Taken(t, <<"run", r>>, "end", None)
          /\ UNCHANGED runs
    /\ UNCHANGED <<issue, reports, agents, artifacts, proofs, alerts, views, faults>>

\* loadCustomerReportEvidencePacket
LoadPacket(t) ==
    /\ attempts[t].pc = "load"
    /\ attempts' = [attempts EXCEPT ![t].pc = "store", ![t].packet = Evidence]
    /\ UNCHANGED deskVars

\* persistEvidencePacket; prose is asked for when the run wants it and there is a fact.
PersistPacket(t) ==
    LET r == RunOf(t) IN
    /\ attempts[t].pc = "store"
    /\ IF runs[r].status \in ActiveRun
         THEN /\ runs' = [runs EXCEPT ![r].packet = attempts[t].packet]
              /\ Goes(t, IF runs[r].bounded_ai /\ attempts[t].packet # {}
                         THEN "narrate" ELSE "persist")
         ELSE UNCHANGED runs /\ Ends(t, "failed")
    /\ UNCHANGED <<issue, reports, agents, artifacts, proofs, alerts, views, jobs, faults>>

\* claimNarrativeAgentRun
ClaimNarrative(t) ==
    LET r == RunOf(t) IN
    /\ attempts[t].pc = "narrate"
    /\ IF runs[r].status \notin ActiveRun
         THEN Ends(t, "failed") /\ UNCHANGED <<runs, agents>>
         ELSE /\ runs' = [runs EXCEPT ![r].status = "narrative_running"]
              /\ \/ /\ agents[r].status = "succeeded"
                    /\ attempts' = [attempts EXCEPT ![t].pc = "persist",
                            ![t].prose = agents[r].output]
                    /\ UNCHANGED agents
                 \/ /\ agents[r].status = "failed"
                    /\ Goes(t, "persist")
                    /\ UNCHANGED agents
                 \/ /\ agents[r].status = "running" /\ ~attempts[t].again
                    /\ Ends(t, "completed") \* narrative_in_progress
                    /\ UNCHANGED agents
                 \/ /\ \/ agents[r].status = "absent"
                       \/ agents[r].status = "running" /\ attempts[t].again
                    /\ agents' = [agents EXCEPT ![r] = [status |-> "running", output |-> None]]
                    /\ Goes(t, "reason")
    /\ UNCHANGED <<issue, reports, artifacts, proofs, alerts, views, jobs, faults>>

AnswerBug(t) ==
    LET r == RunOf(t) IN
    /\ attempts[t].pc = "reason"
    /\ \/ /\ agents' = IF agents[r].status = "running"
                         THEN [agents EXCEPT ![r] = [status |-> "succeeded", output |-> t]]
                         ELSE agents
          /\ attempts' = [attempts EXCEPT ![t].pc = "persist", ![t].prose = t]
       \/ /\ agents' = IF agents[r].status = "running"
                         THEN [agents EXCEPT ![r].status = "failed"] ELSE agents
          /\ Goes(t, "persist")
    /\ UNCHANGED <<issue, reports, runs, artifacts, proofs, alerts, views, jobs, faults>>

\* The provider answers, and the answer passes or fails its checks; or it does not answer.
\* Only a running row takes the outcome, whoever it is running for.
Answer(t) ==
    LET r == RunOf(t) IN
    /\ attempts[t].pc = "reason"
    /\ \/ /\ agents' = IF agents[r].status = "running"
                         THEN [agents EXCEPT ![r] = [status |-> "succeeded", output |-> t]]
                         ELSE agents
          /\ attempts' = [attempts EXCEPT ![t].pc = "persist", ![t].prose = agents'[r].output]
       \/ /\ agents' = IF agents[r].status = "running"
                         THEN [agents EXCEPT ![r].status = "failed"] ELSE agents
          /\ Goes(t, "persist")
    /\ UNCHANGED <<issue, reports, runs, artifacts, proofs, alerts, views, jobs, faults>>

\* persistGeneratedDraft
StoreDraft(t) ==
    LET r == RunOf(t)
        v == IF issue.candidate # 0 THEN issue.candidate ELSE r
        digest == [run |-> r, packet |-> attempts[t].packet, prose |-> attempts[t].prose]
    IN
    /\ reports' = [reports EXCEPT ![v] =
            IF issue.candidate = v
            THEN [reports[v] EXCEPT !.digest = digest, !.reviewed = None, !.version = @ + 1]
            ELSE [NoReport EXCEPT !.status = "draft", !.digest = digest,
                                  !.supersedes = runs[r].base.predecessor]]
    /\ issue' = [issue EXCEPT !.candidate = v, !.version = @ + 1]
    /\ runs' = [runs EXCEPT ![r].status = "succeeded", ![r].result = v]
    /\ Ends(t, "completed")

PersistDraftBug(t) ==
    LET r == RunOf(t) IN
    /\ attempts[t].pc = "persist"
    /\ \/ /\ runs[r].status \notin ActiveRun
          /\ Ends(t, "failed")
          /\ UNCHANGED <<issue, reports, runs>>
       \/ /\ runs[r].status \in ActiveRun
          /\ StoreDraft(t)
    /\ UNCHANGED <<agents, artifacts, proofs, alerts, views, jobs, faults>>

PersistDraft(t) ==
    LET r == RunOf(t)
        stale == Evidence # runs[r].packet \/ Stale(r)
    IN
    /\ attempts[t].pc = "persist"
    /\ \/ /\ runs[r].status \notin ActiveRun \* replayed, or an error
          /\ Ends(t, "failed")
          /\ UNCHANGED <<issue, reports, runs>>
       \/ /\ runs[r].status \in ActiveRun /\ stale
          /\ runs' = [runs EXCEPT ![r].status = "stale"]
          /\ Ends(t, "completed")
          /\ UNCHANGED <<issue, reports>>
       \/ /\ runs[r].status \in ActiveRun /\ ~stale
          /\ StoreDraft(t)
    /\ UNCHANGED <<agents, artifacts, proofs, alerts, views, jobs, faults>>

\* A contract mismatch of the assembled output, and markGenerationFailed
RefuseGeneration(t) ==
    LET r == RunOf(t) IN
    /\ attempts[t].pc \in {"load", "store", "persist"}
    /\ Fails
    /\ runs' = IF runs[r].status \in ActiveRun
                 THEN [runs EXCEPT ![r].status = "failed"] ELSE runs
    /\ Ends(t, "failed")
    /\ UNCHANGED <<issue, reports, agents, artifacts, proofs, alerts, views, jobs>>

----------------------------------------------------------------------------
(* Rendering *)

\* claimReportArtifact; an artifact of a report that is no longer reviewed as it was fails.
ClaimArtifact(t, a) ==
    LET status == artifacts[a].status IN
    /\ jobs[<<"artifact", a>>].state = "waiting"
    /\ \/ /\ status \in ActiveArtifact /\ BoundToReview(a)
          /\ Taken(t, <<"artifact", a>>, "render", artifacts[a].digest)
          /\ artifacts' = [artifacts EXCEPT ![a].status = "running"]
       \/ /\ status \notin ActiveArtifact \/ ~BoundToReview(a)
          /\ Taken(t, <<"artifact", a>>, "end", None)
          /\ artifacts' = IF status \in ActiveArtifact
                THEN [artifacts EXCEPT ![a].status = "failed"] ELSE artifacts
    /\ UNCHANGED <<issue, reports, runs, agents, proofs, alerts, views, faults>>

\* The bytes are stored under their own digest, and stageReportArtifact accepts them.
StageArtifact(t) ==
    LET a == ArtifactOf(t)
        status == artifacts[a].status
    IN
    /\ attempts[t].pc = "render"
    /\ \/ /\ status \in {"staged", "expired"}
          /\ Ends(t, "completed")
          /\ UNCHANGED artifacts
       \/ /\ status \notin {"staged", "expired"} /\ ~BoundToReview(a)
          /\ artifacts' = IF status \in ActiveArtifact
                THEN [artifacts EXCEPT ![a].status = "expired"] ELSE artifacts
          /\ Ends(t, "completed")
       \/ /\ status = "failed" /\ BoundToReview(a)
          /\ Ends(t, "failed")
          /\ UNCHANGED artifacts
       \/ /\ status \in ActiveArtifact /\ BoundToReview(a)
          /\ artifacts' = [artifacts EXCEPT ![a].status = "staged",
                                            ![a].bytes = attempts[t].digest]
          /\ Ends(t, "completed")
    /\ UNCHANGED <<issue, reports, runs, agents, proofs, alerts, views, jobs, faults>>

\* The rendered HTML is too large or not what was stored, and markReportArtifactFailed
RefuseArtifact(t) ==
    LET a == ArtifactOf(t) IN
    /\ attempts[t].pc = "render"
    /\ Fails
    /\ artifacts' = IF artifacts[a].status \in ActiveArtifact
                      THEN [artifacts EXCEPT ![a].status = "failed"] ELSE artifacts
    /\ Ends(t, "failed")
    /\ UNCHANGED <<issue, reports, runs, agents, proofs, alerts, views, jobs>>

----------------------------------------------------------------------------
(* The queue, and the recovery scan (whose races WorkLane models in full) *)

\* A database or storage call throws; the job is retried unless its attempts are used up.
Throws(t) ==
    /\ attempts[t].pc \notin {"idle", "end"}
    /\ Fails
    /\ \E how \in {"retry", "failed"} : Ends(t, how)
    /\ UNCHANGED <<ledgerVars, views, jobs>>

EndAttempt(t) ==
    LET w == attempts[t].work
        retry == attempts[t].ends = "retry"
    IN
    /\ attempts[t].pc = "end"
    /\ jobs' = IF jobs[w].holder # t THEN jobs
               ELSE [jobs EXCEPT ![w].state = IF retry THEN "waiting" ELSE attempts[t].ends,
                                 ![w].holder = None, ![w].again = @ \/ retry]
    /\ attempts' = [attempts EXCEPT ![t] = NoAttempt]
    /\ UNCHANGED <<ledgerVars, views, faults>>

Crash(t) ==
    /\ attempts[t].pc # "idle"
    /\ Fails
    /\ attempts' = [attempts EXCEPT ![t] = NoAttempt]
    /\ UNCHANGED <<ledgerVars, views, jobs>>

\* The lock of a job expires: its holder is gone, or did not renew it (a mishap).  The
\* queue hands the job out again or gives it up.
HandedOut(w) ==
    \E state \in {"waiting", "failed"} :
        jobs' = [jobs EXCEPT ![w].state = state, ![w].holder = None]

Stall(w) ==
    /\ jobs[w].state = "active"
    /\ attempts[jobs[w].holder].work # w
    /\ HandedOut(w)
    /\ UNCHANGED <<ledgerVars, views, faults, attempts>>

LockLost(w) ==
    /\ jobs[w].state = "active"
    /\ attempts[jobs[w].holder].work = w
    /\ Fails
    /\ HandedOut(w)
    /\ UNCHANGED <<ledgerVars, views, attempts>>

Unfinished(w) ==
    IF w[1] = "run" THEN runs[w[2]].status \in ActiveRun
                    ELSE artifacts[w[2]].status \in ActiveArtifact

RecoveryDecision(w) == ClassifyWorkRecovery(
    [category |-> IF w[1] = "run" THEN "read_analyze" ELSE "artifact_capture",
     durable |-> "running", transport |-> TransportState(jobs[w].state),
     freshness |-> "stale", count |-> jobs[w].recovered, max |-> MaxRecovery,
     idempotent |-> TRUE, uncertain |-> FALSE])

RecoverBug(w) ==
    /\ Unfinished(w)
    /\ RecoveryDecision(w) = "reenqueue" /\ jobs[w].state = "failed"
    /\ jobs' = [jobs EXCEPT ![w] = [NoJob EXCEPT !.state = "waiting", !.again = TRUE,
                                                 !.recovered = jobs[w].recovered + 1]]
    /\ UNCHANGED <<ledgerVars, views, faults, attempts>>

Recover(w) ==
    /\ Unfinished(w)
    /\ RecoveryDecision(w) = "reenqueue"
    /\ jobs' = [jobs EXCEPT ![w] = [NoJob EXCEPT !.state = "waiting", !.again = TRUE,
                                                 !.recovered = jobs[w].recovered + 1]]
    /\ UNCHANGED <<ledgerVars, views, faults, attempts>>

\* markCustomerReportRecoveryFailed and markCustomerReportArtifactRecoveryFailed
GiveUp(w) ==
    /\ Unfinished(w)
    /\ RecoveryDecision(w) = "mark_execution_failed"
    /\ \/ /\ w[1] = "run"
          /\ runs' = [runs EXCEPT ![w[2]].status = "failed"]
          /\ agents' = IF agents[w[2]].status = "running"
                         THEN [agents EXCEPT ![w[2]].status = "failed"] ELSE agents
          /\ UNCHANGED artifacts
       \/ /\ w[1] = "artifact"
          /\ artifacts' = [artifacts EXCEPT ![w[2]].status = "failed"]
          /\ UNCHANGED <<runs, agents>>
    /\ UNCHANGED <<issue, reports, proofs, alerts, views, jobs, faults, attempts>>

Generates(t) ==
    \/ \E r \in Run : ClaimGeneration(t, r)
    \/ LoadPacket(t) \/ PersistPacket(t) \/ ClaimNarrative(t) \/ Answer(t) \/ PersistDraft(t)

Renders(t) == \/ \E a \in Artifact : ClaimArtifact(t, a)
              \/ StageArtifact(t)

Mishap ==
    \/ \E t \in Attempt : Throws(t) \/ Crash(t)
    \/ \E t \in Attempt : RefuseGeneration(t) \/ RefuseArtifact(t)
    \/ \E w \in Work : LockLost(w)

Progress ==
    \/ \E t \in Attempt : Generates(t) \/ Renders(t) \/ EndAttempt(t)
    \/ \E w \in Work : Stall(w) \/ Recover(w) \/ GiveUp(w)

WorkNext == Progress \/ Mishap
================================================================================
