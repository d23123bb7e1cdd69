------------------------------- MODULE SectionCopy -------------------------------
(***************************************************************************)
(* Copy suggestions for a section of a page version: an operator asks for  *)
(* one, dismisses it or applies it in an edit                              *)
(* (page-copy-suggestions.capability.ts, page-version.capability.ts), and  *)
(* a worker has it written (handlers/section-copy-suggestion.ts) by a run  *)
(* of the page-generation lane.  Each run belongs to one suggestion; all   *)
(* suggestions are about the same section.                                 *)
(***************************************************************************)
EXTENDS PageVersions, WorkLane

ASSUME CopyConstants == NoCopy \notin Run

VARIABLE suggestions \* page_section_copy_suggestions, by agent_run_id

copyVars == <<laneVars, suggestions>>

Pending == {"queued", "generating", "ready"}
Suggestion ==
    [status : {"absent", "failed", "applied", "dismissed"} \cup Pending,
     version : 0..MaxVersions]
NoSuggestion == [status |-> "absent", version |-> 0]

SuggestionsTypeOK ==
    /\ LaneTypeOK
    /\ VersionsTypeOK(Run \cup {NoCopy})
    /\ suggestions \in [Run -> Suggestion]

SuggestionsInit == suggestions = [r \in Run |-> NoSuggestion]

\* page_section_copy_suggestions_active_idx, of the section
Taken(v) == \E r \in Run : suggestions[r].version = v /\ suggestions[r].status \in Pending

SetSuggestion(r, status) == suggestions' = [suggestions EXCEPT ![r].status = status]

\* A row that is in one of these states gets the status.
MovesSuggestion(r, from, status) ==
    IF suggestions[r].status \in from THEN SetSuggestion(r, status) ELSE UNCHANGED suggestions

----------------------------------------------------------------------------
(* The operator *)

\* queueSectionCopySuggestion up to its commit; a suggestion that is there is answered with.
QueueSuggestion(p, r) ==
    /\ producers[p].pc = "idle"
    /\ runs[r].status = "absent"
    /\ ~Taken(Latest)
    /\ WriteStatus(r, "queued")
    /\ suggestions' = [suggestions EXCEPT ![r] = [status |-> "queued", version |-> Latest]]
    /\ producers' = [producers EXCEPT ![p] = [pc |-> "add", run |-> r]]
    /\ UNCHANGED <<jobs, audits, attempts, faults, versionVars>>

\* markSectionCopySuggestionQueueFailure
MarkQueueFailure(p) ==
    LET r == producers[p].run IN
    /\ producers[p].pc = "refuse"
    /\ WriteStatus(r, "failed")
    /\ MovesSuggestion(r, {"queued", "generating"}, "failed")
    /\ Leaves(p)
    /\ UNCHANGED <<jobs, audits, attempts, faults, versionVars>>

DismissSuggestionBug(r) ==
    /\ suggestions[r].status \in Pending
    /\ SetSuggestion(r, "dismissed")
    /\ UNCHANGED <<laneVars, versionVars>>

\* dismissSectionCopySuggestion, which locks the run and the suggestion
DismissSuggestion(r) ==
    /\ suggestions[r].status \in Pending
    /\ SetSuggestion(r, "dismissed")
    /\ IF runs[r].status \in Active THEN WriteStatus(r, "failed") ELSE UNCHANGED <<runs, scans>>
    /\ UNCHANGED <<jobs, audits, attempts, producers, faults, versionVars>>

\* editPageVersion, by hand or with a ready suggestion for the base
EditPageVersion(media) ==
    /\ \/ NewVersion(media, NoCopy) /\ UNCHANGED suggestions
       \/ \E r \in Run :
            /\ suggestions[r] = [status |-> "ready", version |-> Latest]
            /\ NewVersion(media, r)
            /\ SetSuggestion(r, "applied")
    /\ UNCHANGED laneVars

----------------------------------------------------------------------------
(* The worker: executeSectionCopySuggestion *)

\* markRunning: the index refuses a suggestion that would be active besides another one; an
\* error rolls the run back.
MarkRunning(a) ==
    LET r == attempts[a].run
        status == suggestions[r].status
    IN
    /\ attempts[a].pc = "mark"
    /\ \/ /\ runs[r].status \notin {"queued", "failed"}
          /\ Goes(a, "reload")
          /\ UNCHANGED <<runs, scans, suggestions>>
       \/ /\ runs[r].status \in {"queued", "failed"} /\ status \notin {"queued", "failed"}
          /\ Raises(a, "terminal")
          /\ UNCHANGED <<runs, scans, suggestions>>
       \/ /\ runs[r].status \in {"queued", "failed"} /\ status \in {"queued", "failed"}
          /\ IF status = "failed" /\ Taken(suggestions[r].version)
               THEN Goes(a, "reload") /\ UNCHANGED <<runs, scans, suggestions>>
               ELSE /\ WriteStatus(r, "running")
                    /\ SetSuggestion(r, "generating")
                    /\ Goes(a, "evidence")
    /\ UNCHANGED <<jobs, audits, producers, faults, versionVars>>

Refuses(a) == attempts' = [attempts EXCEPT ![a].pc = "refuse", ![a].error = "terminal"]

\* loadEvidence, whose errors are all final; storeEvidencePacket and recordInputRef
LoadEvidence(a) ==
    LET r == attempts[a].run
        usable == /\ suggestions[r].status = "generating"
                  /\ \A image \in versions[suggestions[r].version].media :
                        assets[image].status \in Retained /\ assets[image].variants = Width
    IN
    /\ attempts[a].pc = "evidence"
    /\ \/ usable /\ Goes(a, "reason")
                 /\ scans' = (IF runs[r].status = "running" THEN Touched(r) ELSE scans)
                 /\ UNCHANGED faults
       \/ ~usable /\ Refuses(a) /\ UNCHANGED <<scans, faults>>
       \/ Fails /\ Refuses(a) /\ UNCHANGED scans
    /\ UNCHANGED <<runs, jobs, audits, producers, suggestions, versionVars>>

Failable == {"queued", "generating", "failed"}
MarkFailedBug(a) ==
    LET r == attempts[a].run IN
    /\ attempts[a].pc = "refuse"
    /\ IF runs[r].status = "running" THEN WriteStatus(r, "failed") ELSE UNCHANGED <<runs, scans>>
    /\ SetSuggestion(r, "failed")
    /\ Goes(a, "end")
    /\ UNCHANGED <<jobs, audits, producers, faults, versionVars>>

MarkFailed(a) ==
    LET r == attempts[a].run IN
    /\ attempts[a].pc = "refuse"
    /\ IF runs[r].status = "running" THEN WriteStatus(r, "failed") ELSE UNCHANGED <<runs, scans>>
    /\ MovesSuggestion(r, Failable, "failed")
    /\ Goes(a, "end")
    /\ UNCHANGED <<jobs, audits, producers, faults, versionVars>>

\* persistSuccess: it writes both rows or none.
PersistSuccess(a) ==
    LET r == attempts[a].run IN
    /\ attempts[a].pc = "persist"
    /\ IF runs[r].status = "running" /\ suggestions[r].status = "generating"
         THEN WriteStatus(r, "succeeded") /\ SetSuggestion(r, "ready") /\ Goes(a, "end")
         ELSE Raises(a, "terminal") /\ UNCHANGED <<runs, scans, suggestions>>
    /\ UNCHANGED <<jobs, audits, producers, faults, versionVars>>

\* loadSectionCopySuggestionRecoveryCandidates
PickStaleSuggestion(s, r) ==
    /\ suggestions[r].status \in {"queued", "generating"}
    /\ PickStale(s, r)
    /\ UNCHANGED <<suggestions, versionVars>>

\* markSectionCopySuggestionRecoveryFailed
GiveUpSuggestion(s) ==
    LET r == scans[s].run IN
    /\ scans[s].pc = "fail"
    /\ IF suggestions[r].status \in {"queued", "generating"}
         THEN GiveUp(s) /\ MovesSuggestion(r, IF StillCandidate(s) THEN Pending ELSE {}, "failed")
         ELSE Drops(s) /\ UNCHANGED <<runs, jobs, audits, attempts, producers, faults, suggestions>>
    /\ UNCHANGED versionVars

----------------------------------------------------------------------------
OperatorCopies ==
    \/ \E p \in Producer, r \in Run : QueueSuggestion(p, r)
    \/ \E r \in Run : DismissSuggestion(r)
    \/ \E media \in SUBSET Asset : EditPageVersion(media)

WorkerCopies ==
    \/ \E a \in Attempt :
        \/ (LoadRun(a) \/ Reason(a) \/ EndAttempt(a)) /\ UNCHANGED <<suggestions, versionVars>>
        \/ MarkRunning(a) \/ LoadEvidence(a) \/ MarkFailed(a) \/ PersistSuccess(a)
    \/ \E p \in Producer :
        \/ AddJob(p) /\ UNCHANGED <<suggestions, versionVars>>
        \/ MarkQueueFailure(p)
    \/ \E s \in Scan :
        \/ \E r \in Run : PickStaleSuggestion(s, r)
        \/ GiveUpSuggestion(s)
        \/ /\ \/ Observe(s) \/ CheckTransport(s) \/ RemoveOld(s) \/ Claim(s)
              \/ Recheck(s) \/ AddRecovery(s) \/ FailAudit(s)
           /\ UNCHANGED <<suggestions, versionVars>>
    \/ /\ \E r \in Run : Stall(r) \/ \E a \in Attempt : TakeJob(r, a)
       /\ UNCHANGED <<suggestions, versionVars>>

CopyMishap ==
    /\ \/ \E a \in Attempt : Throws(a) \/ AttemptCrash(a)
       \/ \E p \in Producer : ProducerCrash(p)
       \/ \E s \in Scan : ScanCrash(s)
       \/ \E r \in Run : LockLost(r)
    /\ UNCHANGED <<suggestions, versionVars>>
================================================================================
