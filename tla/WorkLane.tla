-------------------------------- MODULE WorkLane --------------------------------
(***************************************************************************)
(* The part of a page-generation lane that its two kinds of work share: a  *)
(* row of agent_runs, the BullMQ job with the row's id, the job_runs row   *)
(* that audits the job, and the three who touch them, which are the API    *)
(* request that enqueues (queue-producer.ts), the worker's attempts        *)
(* (handlers.ts, job-run.ts) and the scans of stale work                   *)
(* (work-recovery.ts of the worker).                                       *)
(*                                                                         *)
(* The jobs of this lane stay in the queue when they are over.  A module   *)
(* of the lane adds what the work is about.                                *)
(***************************************************************************)
EXTENDS WorkRecovery

CONSTANTS
    Run,         \* ids of agent_runs rows
    Attempt,     \* worker slots that process jobs
    Producer,    \* API requests that enqueue
    Scan,        \* recovery scans, one per worker process
    Answer,      \* what the model may answer
    None,
    MaxAttempts, \* the attempts option of the job
    MaxStalls,   \* stalls after which the queue gives a job up
    MaxRecovery, \* maxRecoveryCount of the scan
    MaxFaults,   \* bound on crashes and failing calls
    LostAcks     \* whether a request's add that throws may have added the job

ASSUME LaneConstants ==
    /\ MaxAttempts \in Nat \ {0}
    /\ {MaxStalls, MaxRecovery, MaxFaults} \subseteq Nat
    /\ LostAcks \in BOOLEAN
    /\ None \notin Run \cup Attempt \cup Answer \cup Nat

VARIABLES
    runs,      \* agent_runs: status and recoveryCount
    jobs,      \* BullMQ
    audits,    \* job_runs: the row that holds the job's id
    attempts,  \* what each attempt has in its local variables
    producers, \* likewise each request
    scans,     \* likewise each scan
    faults

laneVars == <<runs, jobs, audits, attempts, producers, scans, faults>>

Active == {"queued", "running"}
AuditOver == {"completed", "failed", "cancelled"}
AuditId == 0..MaxRecovery

RunRow == [status : {"absent", "queued", "running", "failed", "succeeded"},
           count : 0..MaxRecovery]
Job == [state : {"missing", "waiting", "active", "completed", "failed"},
        made : 0..MaxAttempts - 1, stalls : 0..MaxStalls,
        holder : Attempt \cup {None}, audit : AuditId \cup {None}]
Audit == [id : AuditId \cup {None},
          status : {"absent", "queued", "running", "retrying"} \cup AuditOver]
AttemptState ==
    [pc : {"idle", "load", "mark", "reload", "evidence", "reason", "persist", "refuse", "end"},
     run : Run \cup {None}, audit : AuditId \cup {None}, final : BOOLEAN,
     error : {"none", "retry", "terminal"}, answer : Answer \cup {None}]
ProducerState ==
    [pc : {"idle", "add", "refuse"}, run : Run \cup {None}]
ScanState ==
    [pc : {"idle", "observe", "check", "remove", "claim", "recheck", "remove_again", "add", "fail",
           "fail_audit"},
     run : Run \cup {None}, count : 0..MaxRecovery, touched : BOOLEAN]

NoJob == [state |-> "missing", made |-> 0, stalls |-> 0, holder |-> None, audit |-> None]
NoAudit == [id |-> None, status |-> "absent"]
NoAttempt == [pc |-> "idle", run |-> None, audit |-> None, final |-> FALSE,
              error |-> "none", answer |-> None]
NoRequest == [pc |-> "idle", run |-> None]
NoScan == [pc |-> "idle", run |-> None, count |-> 0, touched |-> FALSE]

LaneTypeOK ==
    /\ runs \in [Run -> RunRow]
    /\ jobs \in [Run -> Job]
    /\ audits \in [Run -> Audit]
    /\ attempts \in [Attempt -> AttemptState]
    /\ producers \in [Producer -> ProducerState]
    /\ scans \in [Scan -> ScanState]
    /\ faults \in 0..MaxFaults

LaneInit ==
    /\ runs = [r \in Run |-> [status |-> "absent", count |-> 0]]
    /\ jobs = [r \in Run |-> NoJob]
    /\ audits = [r \in Run |-> NoAudit]
    /\ attempts = [a \in Attempt |-> NoAttempt]
    /\ producers = [p \in Producer |-> NoRequest]
    /\ scans = [s \in Scan |-> NoScan]
    /\ faults = 0

Fails == faults < MaxFaults /\ faults' = faults + 1

\* Every write of a run sets its updatedAt: a scan that selected the row as stale
\* before finds it no longer so.
Touched(r) == [s \in Scan |->
    IF scans[s].run = r /\ scans[s].pc \in {"observe", "check", "remove", "claim", "fail"}
        THEN [scans[s] EXCEPT !.touched = TRUE] ELSE scans[s]]

WriteStatus(r, status) ==
    /\ runs' = [runs EXCEPT ![r].status = status]
    /\ scans' = Touched(r)

\* An update of the job_runs row a job names; the row may have been archived since.
Audited(r, id, status) ==
    IF audits[r].id = id THEN [audits EXCEPT ![r].status = status] ELSE audits

\* queue.add ignores an id that the queue knows, in whatever state.
Added(r, id) ==
    IF jobs[r].state = "missing"
        THEN [jobs EXCEPT ![r] = [NoJob EXCEPT !.state = "waiting", !.audit = id]]
        ELSE jobs

\* A job that a worker has locked cannot be removed; remove throws.
Removable(r) == jobs[r].state # "active"
Removed(r) == [jobs EXCEPT ![r] = NoJob]

Coalesces(r) == jobs[r].state \in {"waiting", "active"}

----------------------------------------------------------------------------
(* Enqueueing: QueueProducerService.enqueue.  The request has just made the *)
(* run, so the queue does not know its id, nothing is removed or archived,  *)
(* and the advisory lock is free.                                           *)

Leaves(p) == producers' = [producers EXCEPT ![p] = NoRequest]

AddJob(p) ==
    LET r == producers[p].run IN
    /\ producers[p].pc = "add"
    /\ \/ /\ jobs' = Added(r, 0)
          /\ audits' = [audits EXCEPT ![r] = [id |-> 0, status |-> "queued"]]
          /\ Leaves(p)
          /\ UNCHANGED faults
       \/ \* the call throws; the failed audit row is committed
          /\ Fails
          /\ \/ UNCHANGED jobs
             \/ LostAcks /\ jobs' = Added(r, 0)
          /\ audits' = [audits EXCEPT ![r] = [id |-> 0, status |-> "failed"]]
          /\ producers' = [producers EXCEPT ![p].pc = "refuse"]
    /\ UNCHANGED <<runs, attempts, scans>>

ProducerCrash(p) ==
    /\ producers[p].pc # "idle"
    /\ Fails
    /\ Leaves(p)
    /\ UNCHANGED <<runs, jobs, audits, attempts, scans>>

----------------------------------------------------------------------------
(* The queue and the frame of an attempt: handleJob *)

SetAttempt(a, next) == attempts' = [attempts EXCEPT ![a] = next]
Goes(a, pc) == attempts' = [attempts EXCEPT ![a].pc = pc]
Raises(a, error) == attempts' = [attempts EXCEPT ![a].pc = "end", ![a].error = error]

TakeJob(r, a) ==
    /\ jobs[r].state = "waiting"
    /\ attempts[a].pc = "idle"
    /\ jobs' = [jobs EXCEPT ![r].state = "active", ![r].holder = a]
    /\ audits' = Audited(r, jobs[r].audit, "running")
    /\ SetAttempt(a, [NoAttempt EXCEPT !.pc = "load", !.run = r, !.audit = jobs[r].audit,
                          !.final = jobs[r].made + 1 >= MaxAttempts])
    /\ UNCHANGED <<runs, producers, scans, faults>>

\* The handler reads its run first, and after a markRunning that changed nothing.
LoadRun(a) ==
    LET status == runs[attempts[a].run].status IN
    /\ attempts[a].pc \in {"load", "reload"}
    /\ \/ status = "succeeded" /\ Goes(a, "end")
       \/ status = "running" /\ attempts[a].pc = "load" /\ Goes(a, "evidence")
       \/ status \in {"queued", "failed"} /\ attempts[a].pc = "load" /\ Goes(a, "mark")
       \/ status # "succeeded" /\ attempts[a].pc = "reload" /\ Raises(a, "terminal")
    /\ UNCHANGED <<runs, jobs, audits, producers, scans, faults>>

\* runStructured and the checks of its answer: an answer to persist, a failure of the
\* provider that may be retried, or one that may not (not configured, rejected output).
Reason(a) ==
    /\ attempts[a].pc = "reason"
    /\ \/ \E answer \in Answer :
            attempts' = [attempts EXCEPT ![a].pc = "persist", ![a].answer = answer]
       \/ \E error \in {"retry", "terminal"} :
            attempts' = [attempts EXCEPT ![a].pc = "refuse", ![a].error = error]
    /\ UNCHANGED <<runs, jobs, audits, producers, scans, faults>>

\* A database or storage call throws.
Throws(a) ==
    /\ attempts[a].pc # "idle"
    /\ attempts[a].error # "retry" \/ attempts[a].pc # "end"
    /\ Fails
    /\ Raises(a, "retry")
    /\ UNCHANGED <<runs, jobs, audits, producers, scans>>

\* The queue believes the attempt only while the job is the attempt's.
EndAttempt(a) ==
    LET r     == attempts[a].run
        retry == attempts[a].error = "retry" /\ ~attempts[a].final
        over  == IF attempts[a].error = "none" THEN "completed" ELSE "failed"
    IN
    /\ attempts[a].pc = "end"
    /\ audits' = Audited(r, attempts[a].audit, IF retry THEN "retrying" ELSE over)
    /\ jobs' = IF jobs[r].holder # a THEN jobs
               ELSE IF retry
               THEN [jobs EXCEPT ![r].state = "waiting", ![r].made = @ + 1, ![r].holder = None]
               ELSE [jobs EXCEPT ![r].state = over, ![r].holder = None]
    /\ SetAttempt(a, NoAttempt)
    /\ UNCHANGED <<runs, producers, scans, faults>>

AttemptCrash(a) ==
    /\ attempts[a].pc # "idle"
    /\ Fails
    /\ SetAttempt(a, NoAttempt)
    /\ UNCHANGED <<runs, jobs, audits, producers, scans>>

Holds(a, r) == attempts[a].run = r

HandedOut(job) ==
    IF job.stalls >= MaxStalls THEN [job EXCEPT !.state = "failed", !.holder = None]
    ELSE [job EXCEPT !.state = "waiting", !.stalls = @ + 1, !.holder = None]

\* The lock of the job expired: its holder is gone, or (a mishap) did not renew it.
Stall(r) ==
    /\ jobs[r].state = "active"
    /\ ~Holds(jobs[r].holder, r)
    /\ jobs' = [jobs EXCEPT ![r] = HandedOut(@)]
    /\ UNCHANGED <<runs, audits, attempts, producers, scans, faults>>

LockLost(r) ==
    /\ jobs[r].state = "active"
    /\ Holds(jobs[r].holder, r)
    /\ Fails
    /\ jobs' = [jobs EXCEPT ![r] = HandedOut(@)]
    /\ UNCHANGED <<runs, audits, attempts, producers, scans>>

----------------------------------------------------------------------------
(* The scan of stale work *)

SetScan(s, pc) == scans' = [scans EXCEPT ![s].pc = pc]
Drops(s) == scans' = [scans EXCEPT ![s] = NoScan]

\* A row of the batch.  How old it is is not modelled: any active row may be stale
\* once its request is over (staleAfterMs is five minutes at least).
PickStale(s, r) ==
    /\ scans[s].pc = "idle"
    /\ runs[r].status \in Active
    /\ \A p \in Producer : producers[p].run # r
    /\ scans' = [scans EXCEPT ![s] = [NoScan EXCEPT
            !.pc = "observe", !.run = r, !.count = runs[r].count]]
    /\ UNCHANGED <<runs, jobs, audits, attempts, producers, faults>>

TransportBug(r) ==
    IF jobs[r].state # "missing" THEN TransportState(jobs[r].state)
    ELSE IF audits[r].status = "completed" THEN "completed"
    ELSE IF audits[r].status \in AuditOver THEN "failed"
    ELSE IF audits[r].status = "absent" THEN "missing" ELSE "active"

\* observeTransportState: the audit is asked when the queue does not know the job.
Transport(r) ==
    IF jobs[r].state # "missing" THEN TransportState(jobs[r].state)
    ELSE IF audits[r].status = "completed" THEN "completed"
    ELSE IF audits[r].status \in AuditOver THEN "failed" ELSE "missing"

\* recoverCandidate; queued and running rows are treated alike.
Decision(s) == ClassifyWorkRecovery(
    [category |-> "read_analyze", durable |-> "running", transport |-> Transport(scans[s].run),
     freshness |-> "stale", count |-> scans[s].count, max |-> MaxRecovery,
     idempotent |-> TRUE, uncertain |-> FALSE])

Observe(s) ==
    /\ scans[s].pc = "observe"
    /\ \/ Decision(s) = "noop" /\ Drops(s)
       \/ Decision(s) = "reenqueue" /\ SetScan(s, "check")
       \/ Decision(s) = "mark_execution_failed" /\ SetScan(s, "fail")
    /\ UNCHANGED <<runs, jobs, audits, attempts, producers, faults>>

\* reenqueueCandidate looks before it claims, and again afterwards.
CheckTransport(s) ==
    LET r == scans[s].run IN
    /\ scans[s].pc = "check"
    /\ IF Coalesces(r) THEN Drops(s)
       ELSE SetScan(s, IF jobs[r].state = "missing" THEN "claim" ELSE "remove")
    /\ UNCHANGED <<runs, jobs, audits, attempts, producers, faults>>

RemoveOld(s) ==
    LET r == scans[s].run IN
    /\ scans[s].pc \in {"remove", "remove_again"}
    /\ IF Removable(r)
         THEN /\ jobs' = Removed(r)
              /\ SetScan(s, IF scans[s].pc = "remove" THEN "claim" ELSE "add")
         ELSE UNCHANGED jobs /\ Drops(s)
    /\ UNCHANGED <<runs, audits, attempts, producers, faults>>

StillCandidateBug(s) ==
    runs[scans[s].run].status \in Active /\ ~scans[s].touched

\* The predicates of the claim and of the final failure
StillCandidate(s) ==
    /\ runs[scans[s].run].status \in Active
    /\ runs[scans[s].run].count = scans[s].count
    /\ ~scans[s].touched

\* claimRecoveryAttempt: the audit row is archived and a new one takes its id.
Claim(s) ==
    LET r == scans[s].run IN
    /\ scans[s].pc = "claim"
    /\ IF StillCandidate(s)
         THEN /\ runs' = [runs EXCEPT ![r].count = @ + 1]
              /\ audits' = [audits EXCEPT ![r] = [id |-> runs[r].count + 1, status |-> "queued"]]
              /\ scans' = [Touched(r) EXCEPT ![s] = [scans[s] EXCEPT
                    !.pc = "recheck", !.count = runs[r].count + 1]]
         ELSE Drops(s) /\ UNCHANGED <<runs, audits>>
    /\ UNCHANGED <<jobs, attempts, producers, faults>>

Recheck(s) ==
    LET r == scans[s].run IN
    /\ scans[s].pc = "recheck"
    /\ IF Coalesces(r)
         THEN /\ Drops(s)
              /\ audits' = IF jobs[r].audit # scans[s].count /\ audits[r].status \notin AuditOver
                              THEN Audited(r, scans[s].count, "cancelled") ELSE audits
         ELSE /\ SetScan(s, IF jobs[r].state = "missing" THEN "add" ELSE "remove_again")
              /\ UNCHANGED audits
    /\ UNCHANGED <<runs, jobs, attempts, producers, faults>>

AddRecovery(s) ==
    LET r == scans[s].run IN
    /\ scans[s].pc = "add"
    /\ \/ jobs' = Added(r, scans[s].count) /\ UNCHANGED <<audits, faults>>
       \/ /\ Fails
          /\ \/ UNCHANGED jobs
             \/ jobs' = Added(r, scans[s].count)
          /\ audits' = Audited(r, scans[s].count, "failed")
    /\ Drops(s)
    /\ UNCHANGED <<runs, attempts, producers>>

\* markCandidateRecoveryFailed, as far as the lanes share it; markCurrentJobRunFailed
\* is a statement of its own.
GiveUp(s) ==
    LET r == scans[s].run IN
    /\ scans[s].pc = "fail"
    /\ IF StillCandidate(s)
         THEN /\ runs' = [runs EXCEPT ![r].status = "failed"]
              /\ scans' = [Touched(r) EXCEPT ![s] = [scans[s] EXCEPT !.pc = "fail_audit"]]
         ELSE Drops(s) /\ UNCHANGED runs
    /\ UNCHANGED <<jobs, audits, attempts, producers, faults>>

FailAudit(s) ==
    LET r == scans[s].run IN
    /\ scans[s].pc = "fail_audit"
    /\ audits' = IF audits[r].status \in AuditOver \cup {"absent"} THEN audits
                 ELSE [audits EXCEPT ![r].status = "failed"]
    /\ Drops(s)
    /\ UNCHANGED <<runs, jobs, attempts, producers, faults>>

ScanCrash(s) ==
    /\ scans[s].pc # "idle"
    /\ Fails
    /\ Drops(s)
    /\ UNCHANGED <<runs, jobs, audits, attempts, producers>>
================================================================================
