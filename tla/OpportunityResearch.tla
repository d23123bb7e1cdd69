--------------------------- MODULE OpportunityResearch ---------------------------
(***************************************************************************)
(* Opportunity Research of one project: its material changes, a person     *)
(* pauses it or asks for a run (opportunity-research.module.ts), the       *)
(* scheduler of the worker admits runs that are due                        *)
(* (opportunity-research-scheduler.ts), and ResearchWork executes them.    *)
(***************************************************************************)
EXTENDS ResearchWork

VARIABLES
    enqueues, \* runs that were admitted and whose job is being added
    keys      \* idempotency keys of the scheduler: why, for which material, on this day

vars == <<workVars, enqueues, keys>>

Init ==
    /\ WorkInit
    /\ enqueues = {}
    /\ keys = {}

TypeOK ==
    /\ WorkTypeOK
    /\ enqueues \subseteq Run
    /\ keys \subseteq {"material_dirty", "weekly_scan"} \X Material

\* Nothing refers to a run that is over and whose job is: its rows are read no more.  An
\* admission drops them all, and takes one of their ids.
Over(r) ==
    /\ runs[r].status \notin Active
    /\ jobs[r].state \notin {"waiting", "active"}
    /\ r \notin enqueues /\ scan.run # r
    /\ \A d \in Delivery : deliveries[d].run # r

AdmitRun(source, audit) ==
    LET r == CHOOSE q \in Run : Over(q) IN
    /\ \E q \in Run : Over(q)
    /\ Admit(r, {q \in Run : Over(q)}, source)
    /\ jobs' = [q \in Run |-> IF Over(q) THEN NoJob ELSE jobs[q]]
    /\ audits' = [q \in Run |-> IF ~Over(q) THEN audits[q] ELSE
            [g \in Generation |-> IF q = r /\ g = 0 THEN audit ELSE "absent"]]
    /\ enqueues' = enqueues \cup {r}

----------------------------------------------------------------------------
(* People, and what the project is made of *)

\* mark_project_opportunity_research_dirty, with the change it is a trigger of
ChangeMaterial(m) ==
    LET busy == state.status \in {"paused", "queued", "running"} IN
    /\ m # material
    /\ Pays("changes")
    /\ material' = m
    /\ state' = [state EXCEPT !.status = IF busy THEN @ ELSE "needs_research", !.dirty = TRUE,
                              !.due = IF busy THEN "never" ELSE "now"]
    /\ UNCHANGED <<runs, steps, jobs, audits, deliveries, scan, enqueues, keys>>

UpdatePauseBug(paused) ==
    /\ Pays("commands")
    /\ state' = [state EXCEPT
            !.status = IF paused THEN "paused" ELSE IF @ = "paused" THEN "needs_research" ELSE @,
            !.paused = paused, !.due = IF paused THEN "never" ELSE "now"]
    /\ UNCHANGED <<material, runs, steps, jobs, audits, deliveries, scan, enqueues, keys>>

\* updatePause, by a person who sees the current row
UpdatePause(paused) ==
    /\ Pays("commands")
    /\ state' = [state EXCEPT
            !.status = IF paused THEN IF @ \in Active THEN @ ELSE "paused"
                       ELSE IF @ = "paused" THEN "needs_research" ELSE @,
            !.paused = paused, !.due = IF paused THEN "never" ELSE "now"]
    /\ UNCHANGED <<material, runs, steps, jobs, audits, deliveries, scan, enqueues, keys>>

\* rerun, its transaction; the job is added after it
Rerun ==
    /\ Pays("commands")
    /\ ~state.paused
    /\ \A q \in Run : runs[q].status \notin Active
    /\ material \in Ready
    /\ AdmitRun("user", "absent")
    /\ UNCHANGED <<material, deliveries, scan, keys>>

\* terminalizeEnqueueFailure
RefuseRun(r) ==
    IF runs[r].status = "queued"
        THEN /\ runs' = [runs EXCEPT ![r].status = "failed"]
             /\ state' = IF state.active # r THEN state
                         ELSE [state EXCEPT !.status = "failed", !.active = None, !.due = "now"]
             /\ UNCHANGED steps
        ELSE UNCHANGED <<state, runs, steps>>

----------------------------------------------------------------------------
(* The scheduler *)

\* scanDueOpportunityResearch selects the project; admitScheduledResearch checks again.
Due == state.active = None /\ ~state.paused /\ state.due = "now"

Postpone ==
    /\ Due /\ material \notin Ready
    /\ state' = [state EXCEPT !.status = "needs_research", !.dirty = TRUE, !.due = "later"]
    /\ UNCHANGED <<material, runs, steps, jobs, audits, deliveries, scan, left, enqueues, keys>>

\* The key of a run is unique: the second one of a day for the same reason and material is
\* refused by the database, and the project stays due.
Schedule ==
    LET key == <<IF state.dirty THEN "material_dirty" ELSE "weekly_scan", material>> IN
    /\ Due /\ material \in Ready
    /\ key \notin keys
    /\ keys' = keys \cup {key}
    /\ AdmitRun("scheduler", "queued")
    /\ UNCHANGED <<material, deliveries, scan, left>>

DayPasses ==
    /\ state.due = "later" \/ keys # {}
    /\ keys' = {}
    /\ state' = [state EXCEPT !.due = IF @ = "later" THEN "now" ELSE @]
    /\ UNCHANGED <<material, runs, steps, jobs, audits, deliveries, scan, left, enqueues>>

----------------------------------------------------------------------------
(* The add after an admission *)

\* The queue takes the job, or throws, in which case it may have taken it all the same.
Enqueue(r) ==
    LET byUser == runs[r].source = "user" IN
    /\ r \in enqueues
    /\ \/ /\ jobs' = AddedJob(r, 0)
          /\ IF byUser THEN Audited(r, 0, "queued") ELSE UNCHANGED audits
          /\ UNCHANGED <<state, runs, steps, left>>
       \/ /\ Pays("mishaps")
          /\ jobs' \in {jobs, AddedJob(r, 0)}
          /\ IF byUser
               THEN RefuseRun(r) /\ UNCHANGED audits \* rolled back
               ELSE /\ Audited(r, 0, "failed")
                    /\ IF runs[r].status \in Active THEN Fail(r, FALSE)
                       ELSE UNCHANGED <<state, runs, steps>>
    /\ enqueues' = enqueues \ {r}
    /\ UNCHANGED <<material, deliveries, scan, keys>>

\* The process dies before the add.
Abandon(r) ==
    /\ r \in enqueues
    /\ Pays("mishaps")
    /\ enqueues' = enqueues \ {r}
    /\ UNCHANGED <<ledgerVars, jobs, audits, deliveries, scan, keys>>

----------------------------------------------------------------------------
\* A run is not stale while its admission goes on.
Recovers(r) == r \notin enqueues /\ Observe(r) /\ UNCHANGED <<enqueues, keys>>
Working(d) == WorkProgress(d) /\ UNCHANGED <<enqueues, keys>>
Scanning == ScanProgress /\ UNCHANGED <<enqueues, keys>>
Stalling(r) == Stalls(r) /\ UNCHANGED <<enqueues, keys>>
Scheduling == Postpone \/ Schedule

Next ==
    \/ \E m \in Material : ChangeMaterial(m)
    \/ \E paused \in BOOLEAN : UpdatePause(paused)
    \/ \E r \in Run : Enqueue(r) \/ Abandon(r) \/ Recovers(r) \/ Stalling(r)
    \/ Rerun \/ Scheduling \/ DayPasses \/ Scanning
    \/ \E d \in Delivery : Working(d)
    \/ WorkMishap /\ UNCHANGED <<enqueues, keys>>

\* Processes go on, the queue hands jobs out and notices dead holders, the timers of the
\* worker run, and days pass.
Fairness ==
    /\ \A d \in Delivery : WF_vars(Working(d))
    /\ \A r \in Run : WF_vars(Enqueue(r)) /\ WF_vars(Recovers(r)) /\ WF_vars(Stalling(r))
    /\ WF_vars(Scanning) /\ WF_vars(Scheduling) /\ WF_vars(DayPasses)

Spec == Init /\ [][Next]_vars /\ Fairness

----------------------------------------------------------------------------
\* The project's row and its runs agree after every transaction of the API, the
\* scheduler, the worker and the scan: a run is active exactly while the project names it,
\* with the same status, and only a paused project has that status.  The triggers of
\* migration 0050 refuse any other commit; the code must not run into them.
StateOwnsRun ==
    /\ \A r \in Run : /\ runs[r].status \in Active <=> state.active = r
                      /\ state.active = r => state.status = runs[r].status
    /\ state.status \in Active <=> state.active # None
    /\ state.status = "paused" => state.paused

\* The steps of a run have one owner: what runs, runs for the execution that holds the
\* run, however many superseded ones are still at work, and nothing runs in a run that is
\* over.
StepsHaveOneOwner == \A r \in Run : \A k \in Step :
    steps[r][k].status = "running" =>
        runs[r].status = "running" /\ steps[r][k].epoch = runs[r].epoch

GoesOn(r) == \A k \in Step :
    steps[r][k].status = "succeeded" /\ runs'[r].status \notin {"absent", "queued"} =>
        /\ steps'[r][k] = steps[r][k]
        /\ \A j \in 1..k : /\ steps[r][j].status = "succeeded"
                            /\ steps[r][j].epoch <= steps[r][k].epoch

\* A run has one history, whichever executions of it made the steps: they were completed in
\* order, and a completed one stays as it is, although later executions, superseded ones
\* and retries whose commit went unanswered write steps too.
OneHistory == [][\A r \in Run : GoesOn(r)]_vars

\* No change is forgotten: when the material is not what was last researched, nothing is
\* under way and the project is not paused, the scheduler has a date to look at it, whether
\* the change came before, during or after a run, a pause or a failure.
ChangesAreRemembered ==
    /\ material # state.last /\ state.status # "idle"
    /\ state.active = None /\ ~state.paused
    => state.due # "never"

\* Whatever fails, the project is researched in the end: for the material it has then,
\* unless it is paused, not ready, or was never asked for.
Researched ==
    <>[](state.paused \/ material \notin Ready \/ state.status = "idle" \/ state.last = material)
================================================================================
