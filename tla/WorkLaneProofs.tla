----------------------------- MODULE WorkLaneProofs -----------------------------
(***************************************************************************)
(* What the two kinds of work of a page-generation lane have in common     *)
(* when something is to be proved about them: the invariant of the lane    *)
(* (LaneInv), who a run belongs to before it is enqueued (OwnedInv), and   *)
(* the kinds of steps that keep both (LaneStep).  A module of the lane     *)
(* shows that its steps are such steps.                                    *)
(***************************************************************************)
EXTENDS WorkLane, TLAPS

----------------------------------------------------------------------------
\* Whoever is at work is at work on a run; a scan on its way to a claim saw budget
\* left; and a job's holder that is not on its final attempt leaves it another.
AttemptInv == \A a \in Attempt :
    /\ attempts[a].pc # "idle" => attempts[a].run \in Run
    /\ attempts[a].pc = "persist" => attempts[a].answer \in Answer

ProducerInv == \A p \in Producer : producers[p].pc # "idle" => producers[p].run \in Run

ScanInv == \A s \in Scan :
    /\ scans[s].pc # "idle" => scans[s].run \in Run
    /\ scans[s].pc \in {"check", "remove", "claim"} => scans[s].count < MaxRecovery

FinalInv == \A r \in Run, a \in Attempt :
    (jobs[r].holder = a /\ attempts[a].run = r /\ ~attempts[a].final)
        => jobs[r].made + 1 < MaxAttempts

LaneInv == LaneTypeOK /\ AttemptInv /\ ProducerInv /\ ScanInv /\ FinalInv

AttemptsTyped == attempts \in [Attempt -> AttemptState]
ScansTyped == scans \in [Scan -> ScanState]
JobsTyped == jobs \in [Run -> Job]

----------------------------------------------------------------------------
(* What the steps of an attempt, of a scan and of the queue are made of *)

LEMMA Empties ==
    /\ NoScan \in ScanState /\ NoAttempt \in AttemptState /\ NoRequest \in ProducerState
    /\ NoJob \in Job /\ NoAudit \in Audit
<1>. USE LaneConstants
<1>1. NoScan \in ScanState  BY DEF NoScan, ScanState
<1>2. NoAttempt \in AttemptState  BY DEF NoAttempt, AttemptState
<1>3. NoRequest \in ProducerState  BY DEF NoRequest, ProducerState
<1>4. NoJob \in Job  BY DEF NoJob, Job
<1>5. NoAudit \in Audit  BY DEF NoAudit, Audit
<1>. QED  BY <1>1, <1>2, <1>3, <1>4, <1>5

\* Scans stay at the rows and with the counts they have, and so do all but s at
\* their places.
SameScansBut(s) == \A t \in Scan :
    /\ scans'[t].run = scans[t].run
    /\ scans'[t].count = scans[t].count
    /\ t # s => scans'[t].pc = scans[t].pc

\* A touched scan differs in its mark alone.
LEMMA TouchedScans ==
    ASSUME NEW r, ScansTyped
    PROVE  /\ Touched(r) \in [Scan -> ScanState]
           /\ \A s \in Scan : /\ Touched(r)[s].run = scans[s].run
                              /\ Touched(r)[s].pc = scans[s].pc
                              /\ Touched(r)[s].count = scans[s].count
<1>1. ASSUME NEW s \in Scan
      PROVE  /\ Touched(r)[s] \in ScanState
             /\ Touched(r)[s].run = scans[s].run
             /\ Touched(r)[s].pc = scans[s].pc
             /\ Touched(r)[s].count = scans[s].count
    BY DEF Touched, ScanState, ScansTyped
<1>2. Touched(r) = [s \in Scan |-> Touched(r)[s]]
    BY DEF Touched
<1>. QED  BY <1>1, <1>2

LEMMA TouchKeepsScans ==
    ASSUME NEW r, ScansTyped, scans' \in {scans, Touched(r)}, ScanInv
    PROVE  ScansTyped' /\ ScanInv'
BY TouchedScans DEF ScanInv, ScansTyped

LEMMA ScanGoesOn ==
    ASSUME ScansTyped, NEW s \in Scan,
           NEW pc \in {"idle", "observe", "check", "remove", "claim", "recheck",
                       "remove_again", "add", "fail"},
           SetScan(s, pc)
    PROVE  ScansTyped' /\ SameScansBut(s) /\ scans'[s].pc = pc
<1>1. scans[s] \in ScanState  BY DEF ScansTyped
<1>2. [scans[s] EXCEPT !.pc = pc] \in ScanState  BY <1>1 DEF ScanState
<1>3. scans' = [scans EXCEPT ![s] = [scans[s] EXCEPT !.pc = pc]]  BY DEF SetScan
<1>4. ScansTyped'  BY <1>2, <1>3 DEF ScansTyped
<1>5. scans'[s] = [scans[s] EXCEPT !.pc = pc] /\ \A t \in Scan \ {s} : scans'[t] = scans[t]
    BY <1>3 DEF ScansTyped
<1>6. /\ scans'[s].pc = pc /\ scans'[s].run = scans[s].run /\ scans'[s].count = scans[s].count
    BY <1>1, <1>5 DEF ScanState
<1>. QED  BY <1>4, <1>5, <1>6 DEF SameScansBut

LEMMA ScanDrops ==
    ASSUME ScansTyped, NEW f \in [Scan -> ScanState], NEW s \in Scan,
           scans' = [f EXCEPT ![s] = NoScan],
           \A t \in Scan : /\ f[t].run = scans[t].run
                           /\ f[t].pc = scans[t].pc
                           /\ f[t].count = scans[t].count,
           ScanInv
    PROVE  ScansTyped' /\ ScanInv'
<1>1. ScansTyped'  BY Empties DEF ScansTyped
<1>2. scans'[s] = NoScan /\ \A t \in Scan \ {s} : scans'[t] = f[t]  OBVIOUS
<1>3. scans'[s].pc = "idle"  BY <1>2 DEF NoScan
<1>4. ScanInv'  BY <1>2, <1>3 DEF ScanInv
<1>. QED  BY <1>1, <1>4

\* Attempts but a stay as they are, and a at its run, as final as it was.
SameAttempt(a) ==
    /\ \A b \in Attempt \ {a} : attempts'[b] = attempts[b]
    /\ attempts'[a].run = attempts[a].run
    /\ attempts'[a].final = attempts[a].final

\* An attempt goes on, fails or is about to record that it failed.
Refused(a, error) == attempts' = [attempts EXCEPT ![a].pc = "refuse", ![a].error = error]

Turns(a) ==
    \/ \E error \in {"retry", "terminal"} : Raises(a, error) \/ Refused(a, error)
    \/ \E pc \in {"load", "mark", "reload", "evidence", "reason", "refuse", "end"} : Goes(a, pc)

LEMMA AttemptTurns ==
    ASSUME AttemptsTyped, AttemptInv, NEW a \in Attempt, attempts[a].pc # "idle", Turns(a)
    PROVE  AttemptsTyped' /\ AttemptInv' /\ SameAttempt(a)
<1>1. attempts[a] \in AttemptState  BY DEF AttemptsTyped
<1>. DEFINE Fits(v) == /\ attempts' = [attempts EXCEPT ![a] = v]
                      /\ v \in AttemptState
                      /\ v.run = attempts[a].run /\ v.final = attempts[a].final
                      /\ v.pc # "persist"
<1>2. PICK v : Fits(v)
    <2>1. ASSUME NEW e \in {"retry", "terminal"}, NEW pc \in {"end", "refuse"},
                 attempts' = [attempts EXCEPT ![a].pc = pc, ![a].error = e]
          PROVE  \E v : Fits(v)
        <3>. DEFINE v == [attempts[a] EXCEPT !.pc = pc, !.error = e]
        <3>1. attempts' = [attempts EXCEPT ![a] = v]  BY <2>1 DEF AttemptsTyped
        <3>2. v \in AttemptState /\ v.run = attempts[a].run /\ v.final = attempts[a].final /\ v.pc = pc
            BY <1>1 DEF AttemptState
        <3>. QED  BY <2>1, <3>1, <3>2
    <2>2. ASSUME NEW pc \in {"load", "mark", "reload", "evidence", "reason", "refuse", "end"}, Goes(a, pc)
          PROVE  \E v : Fits(v)
        <3>. DEFINE v == [attempts[a] EXCEPT !.pc = pc]
        <3>1. attempts' = [attempts EXCEPT ![a] = v]  BY <2>2 DEF Goes
        <3>2. v \in AttemptState /\ v.run = attempts[a].run /\ v.final = attempts[a].final /\ v.pc = pc
            BY <1>1 DEF AttemptState
        <3>. QED  BY <2>2, <3>1, <3>2
    <2>. HIDE DEF Fits
    <2>. QED  BY <2>1, <2>2 DEF Turns, Raises, Refused
<1>3. AttemptsTyped'  BY <1>2 DEF AttemptsTyped
<1>4. attempts'[a] = v /\ \A b \in Attempt \ {a} : attempts'[b] = attempts[b]
    BY <1>2 DEF AttemptsTyped
<1>. QED  BY <1>2, <1>3, <1>4 DEF AttemptInv, SameAttempt

LEMMA AttemptLeaves ==
    ASSUME AttemptsTyped, AttemptInv, NEW a \in Attempt, SetAttempt(a, NoAttempt)
    PROVE  /\ AttemptsTyped' /\ AttemptInv'
           /\ \A b \in Attempt \ {a} : attempts'[b] = attempts[b]
           /\ attempts'[a] = NoAttempt
<1>1. AttemptsTyped'  BY Empties DEF AttemptsTyped, SetAttempt
<1>2. attempts'[a] = NoAttempt /\ \A b \in Attempt \ {a} : attempts'[b] = attempts[b]
    BY DEF AttemptsTyped, SetAttempt
<1>3. AttemptInv'  BY <1>2 DEF AttemptInv, NoAttempt
<1>. QED  BY <1>1, <1>2, <1>3

\* FinalInv stays when the attempts keep their runs, or leave them, and no job gets
\* a holder or is attempted again in the hands of one.
LEMMA FinalKept ==
    ASSUME FinalInv,
           \A b \in Attempt : \/ attempts'[b].run = attempts[b].run /\ attempts'[b].final = attempts[b].final
                              \/ attempts'[b].run = None,
           \A q \in Run, b \in Attempt :
                jobs'[q].holder = b => jobs'[q].made = jobs[q].made /\ jobs[q].holder = b
    PROVE  FinalInv'
<1>1. ASSUME NEW r \in Run, NEW a \in Attempt,
             jobs'[r].holder = a, attempts'[a].run = r, ~attempts'[a].final
      PROVE  jobs'[r].made + 1 < MaxAttempts
    <2>1. r # None  BY LaneConstants
    <2>2. attempts[a].run = r /\ ~attempts[a].final  BY <1>1, <2>1
    <2>3. jobs[r].holder = a /\ jobs'[r].made = jobs[r].made  BY <1>1
    <2>. QED  BY <2>2, <2>3 DEF FinalInv
<1>. QED  BY <1>1 DEF FinalInv

LEMMA StatusWritten ==
    ASSUME runs \in [Run -> RunRow], NEW r \in Run, NEW status \in {"queued", "running", "failed", "succeeded"},
           runs' = [runs EXCEPT ![r].status = status]
    PROVE  /\ runs' \in [Run -> RunRow]
           /\ runs'[r].status = status
           /\ \A q \in Run \ {r} : runs'[q] = runs[q]
<1>1. [runs[r] EXCEPT !.status = status] \in RunRow  BY DEF RunRow
<1>2. runs' = [runs EXCEPT ![r] = [runs[r] EXCEPT !.status = status]]  OBVIOUS
<1>3. runs'[r] = [runs[r] EXCEPT !.status = status]  BY <1>2
<1>. QED  BY <1>1, <1>2, <1>3 DEF RunRow

\* A job that is added has no holder.
LEMMA JobAdded ==
    ASSUME JobsTyped, NEW r \in Run, NEW id \in AuditId, jobs' \in {jobs, Added(r, id)}
    PROVE  /\ JobsTyped'
           /\ \A q \in Run, b \in Attempt : jobs'[q].holder = b => jobs'[q] = jobs[q]
           /\ \A q \in Run \ {r} : jobs'[q] = jobs[q]
<1>. DEFINE new == [NoJob EXCEPT !.state = "waiting", !.audit = id]
<1>1. new \in Job /\ new.holder = None
    <2>1. NoJob \in Job /\ NoJob.holder = None  BY Empties DEF NoJob
    <2>. QED  BY <2>1 DEF Job
<1>2. jobs' \in {jobs, [jobs EXCEPT ![r] = new]}  BY DEF Added
<1>. HIDE DEF new
<1>3. JobsTyped'  BY <1>1, <1>2 DEF JobsTyped
<1>4. \A q \in Run \ {r} : jobs'[q] = jobs[q]  BY <1>2 DEF JobsTyped
<1>5. jobs'[r] \in {jobs[r], new}  BY <1>2 DEF JobsTyped
<1>6. \A b \in Attempt : b # None  BY LaneConstants
<1>. QED  BY <1>1, <1>3, <1>4, <1>5, <1>6

\* A job whose lock expired waits again or is given up, without a holder.
LEMMA JobHandedOut ==
    ASSUME JobsTyped, NEW r \in Run, jobs' = [jobs EXCEPT ![r] = HandedOut(@)]
    PROVE  /\ JobsTyped'
           /\ \A q \in Run, b \in Attempt : jobs'[q].holder = b => jobs'[q] = jobs[q]
           /\ \A q \in Run \ {r} : jobs'[q] = jobs[q]
<1>1. jobs[r] \in Job  BY DEF JobsTyped
<1>2. HandedOut(jobs[r]) \in Job /\ HandedOut(jobs[r]).holder = None
    <2>1. jobs[r].stalls \in 0..MaxStalls /\ MaxStalls \in Nat  BY <1>1, LaneConstants DEF Job
    <2>2. CASE jobs[r].stalls >= MaxStalls
        BY <1>1, <2>2 DEF HandedOut, Job
    <2>3. CASE ~(jobs[r].stalls >= MaxStalls)
        <3>1. jobs[r].stalls + 1 \in 0..MaxStalls  BY <2>1, <2>3
        <3>2. HandedOut(jobs[r]) = [jobs[r] EXCEPT !.state = "waiting",
                    !.stalls = jobs[r].stalls + 1, !.holder = None]
            BY <1>1, <2>3 DEF HandedOut, Job
        <3>. QED  BY <1>1, <3>1, <3>2 DEF Job
    <2>. QED  BY <2>2, <2>3
<1>3. jobs'[r] = HandedOut(jobs[r]) /\ \A q \in Run \ {r} : jobs'[q] = jobs[q]
    BY DEF JobsTyped
<1>4. JobsTyped'  BY <1>2 DEF JobsTyped
<1>5. \A b \in Attempt : b # None  BY LaneConstants
<1>. QED  BY <1>2, <1>3, <1>4, <1>5

----------------------------------------------------------------------------
(* The kinds of steps *)

\* What the work of the lane leaves alone, or does alike
RunMoves(a) == LoadRun(a) \/ Reason(a) \/ EndAttempt(a) \/ Throws(a) \/ AttemptCrash(a)

Forgets(s) ==
    /\ scans[s].pc # "idle"
    /\ Drops(s)
    /\ UNCHANGED <<runs, jobs, audits, attempts, producers, faults>>

ScanMoves(s) ==
    \/ Observe(s) \/ CheckTransport(s) \/ RemoveOld(s) \/ Claim(s) \/ Recheck(s)
    \/ AddRecovery(s) \/ GiveUp(s) \/ FailAudit(s) \/ ScanCrash(s) \/ Forgets(s)

QueueMoves(r) == Stall(r) \/ LockLost(r) \/ \E a \in Attempt : TakeJob(r, a)

\* A request makes its run.
Requests(p, r) ==
    /\ producers[p].pc = "idle" /\ runs[r].status = "absent"
    /\ WriteStatus(r, "queued")
    /\ producers' = [producers EXCEPT ![p] = [pc |-> "add", run |-> r]]
    /\ UNCHANGED <<jobs, audits, attempts, faults>>

\* A request takes its run back.
Withdraws(p) ==
    /\ producers[p].pc = "refuse"
    /\ WriteStatus(producers[p].run, "failed")
    /\ Leaves(p)
    /\ UNCHANGED <<jobs, audits, attempts, faults>>

\* An operator ends a run.
Cancels(r) ==
    /\ runs[r].status \in Active
    /\ WriteStatus(r, "failed")
    /\ UNCHANGED <<jobs, audits, attempts, producers, faults>>

\* The work itself: an attempt goes on and may write the status of its run.
WorksOn(a) ==
    LET r == attempts[a].run IN
    /\ attempts[a].pc # "idle"
    /\ Turns(a)
    /\ \/ runs' = runs
       \/ \E status \in {"running", "failed", "succeeded"} :
            runs' = [runs EXCEPT ![r].status = status]
    /\ scans' \in {scans, Touched(r)}
    /\ UNCHANGED <<jobs, audits, producers>>
    /\ UNCHANGED faults \/ Fails

LaneStep ==
    \/ UNCHANGED laneVars
    \/ \E p \in Producer :
        AddJob(p) \/ ProducerCrash(p) \/ Withdraws(p) \/ \E r \in Run : Requests(p, r)
    \/ \E a \in Attempt : RunMoves(a) \/ WorksOn(a)
    \/ \E s \in Scan : ScanMoves(s) \/ \E r \in Run : PickStale(s, r)
    \/ \E r \in Run : QueueMoves(r) \/ Cancels(r)

----------------------------------------------------------------------------
(* They keep the types *)

LEMMA LaneInvInit == ASSUME LaneInit PROVE LaneInv
<1>. USE LaneConstants DEF LaneInit
<1>1. LaneTypeOK
    <2>1. [status |-> "absent", count |-> 0] \in RunRow  BY DEF RunRow
    <2>. QED  BY <2>1, Empties DEF LaneTypeOK
<1>2. AttemptInv /\ ProducerInv /\ ScanInv /\ FinalInv
    BY DEF AttemptInv, ProducerInv, ScanInv, FinalInv, NoJob, NoAttempt, NoRequest, NoScan
<1>. QED  BY <1>1, <1>2 DEF LaneInv

\* The decision to re-enqueue leaves budget (ReenqueueSafe, for the rows of a scan).
LEMMA ReenqueueHasBudget ==
    ASSUME LaneInv, NEW s \in Scan, Decision(s) = "reenqueue"
    PROVE  scans[s].count < MaxRecovery
<1>1. scans[s].count \in Nat /\ MaxRecovery \in Nat
    BY LaneConstants DEF LaneInv, LaneTypeOK, ScanState
<1>. QED
    BY <1>1 DEF Decision, ClassifyWorkRecovery, RecoveryExhausted, LeftAlone

LEMMA FaultsTyped == ASSUME LaneInv, UNCHANGED faults \/ Fails PROVE faults' \in 0..MaxFaults
BY LaneConstants DEF LaneInv, LaneTypeOK, Fails

LEMMA RequestsKeep ==
    ASSUME LaneInv, NEW p \in Producer,
           AddJob(p) \/ ProducerCrash(p) \/ Withdraws(p) \/ \E r \in Run : Requests(p, r)
    PROVE  LaneInv'
<1>. USE DEF LaneInv, LaneTypeOK, AttemptsTyped, ScansTyped, JobsTyped
<1>1. CASE AddJob(p)
    <2>. DEFINE r == producers[p].run
    <2>1. r \in Run  BY <1>1 DEF AddJob, ProducerInv
    <2>2. 0 \in AuditId  BY LaneConstants DEF AuditId
    <2>3. jobs' \in {jobs, Added(r, 0)}  BY <1>1 DEF AddJob
    <2>4. JobsTyped' /\ \A q \in Run, b \in Attempt : jobs'[q].holder = b => jobs'[q] = jobs[q]
        <3>. HIDE DEF r
        <3>. QED  BY <2>1, <2>2, <2>3, JobAdded
    <2>5. audits' \in [Run -> Audit]  BY <1>1, <2>1, <2>2 DEF AddJob, Audit, AuditOver
    <2>a. faults' \in 0..MaxFaults  BY <1>1, FaultsTyped DEF AddJob
    <2>6. producers' \in [Producer -> ProducerState] /\ ProducerInv'
        <3>1. CASE Leaves(p)
            <4>1. producers' \in [Producer -> ProducerState]  BY <3>1, Empties DEF Leaves
            <4>2. producers'[p].pc = "idle" /\ \A q \in Producer \ {p} : producers'[q] = producers[q]
                BY <3>1 DEF Leaves, NoRequest
            <4>. QED  BY <4>1, <4>2 DEF ProducerInv
        <3>2. CASE producers' = [producers EXCEPT ![p].pc = "refuse"]
            BY <2>1, <3>2 DEF ProducerState, ProducerInv
        <3>. QED  BY <1>1, <3>1, <3>2 DEF AddJob
    <2>7. FinalInv'  BY <1>1, <2>4 DEF AddJob, FinalInv
    <2>. QED  BY <1>1, <2>4, <2>5, <2>a, <2>6, <2>7 DEF AddJob, AttemptInv, ScanInv
<1>2. CASE ProducerCrash(p) \/ Withdraws(p)
    <2>1. producers' \in [Producer -> ProducerState]
        BY <1>2, Empties DEF ProducerCrash, Withdraws, Leaves
    <2>2. producers'[p].pc = "idle" /\ \A q \in Producer \ {p} : producers'[q] = producers[q]
        BY <1>2 DEF ProducerCrash, Withdraws, Leaves, NoRequest
    <2>3. ProducerInv'  BY <2>2 DEF ProducerInv
    <2>4. faults' \in 0..MaxFaults  BY <1>2, FaultsTyped DEF ProducerCrash, Withdraws
    <2>5. runs' \in [Run -> RunRow]
        <3>1. CASE ProducerCrash(p)  BY <3>1 DEF ProducerCrash
        <3>2. CASE Withdraws(p)
            <4>1. producers[p].run \in Run  BY <3>2 DEF Withdraws, ProducerInv
            <4>. QED  BY <3>2, <4>1, StatusWritten DEF Withdraws, WriteStatus
        <3>. QED  BY <1>2, <3>1, <3>2
    <2>6. ScansTyped' /\ ScanInv'
        <3>1. \E r : scans' \in {scans, Touched(r)}
            BY <1>2 DEF ProducerCrash, Withdraws, WriteStatus
        <3>. QED  BY <3>1, TouchKeepsScans
    <2>7. UNCHANGED <<jobs, audits, attempts>>  BY <1>2 DEF ProducerCrash, Withdraws
    <2>. QED  BY <2>1, <2>3, <2>4, <2>5, <2>6, <2>7 DEF AttemptInv, FinalInv
<1>3. ASSUME NEW r \in Run, Requests(p, r) PROVE LaneInv'
    <2>1. runs' \in [Run -> RunRow]  BY <1>3, StatusWritten DEF Requests, WriteStatus
    <2>2. ScansTyped' /\ ScanInv'  BY <1>3, TouchKeepsScans DEF Requests, WriteStatus
    <2>3. producers' \in [Producer -> ProducerState] /\ ProducerInv'
        BY <1>3 DEF Requests, ProducerState, ProducerInv
    <2>. QED  BY <1>3, <2>1, <2>2, <2>3 DEF Requests, AttemptInv, FinalInv
<1>. QED  BY <1>1, <1>2, <1>3

LEMMA AttemptsKeep ==
    ASSUME LaneInv, NEW a \in Attempt, RunMoves(a) \/ WorksOn(a)
    PROVE  LaneInv'
<1>. USE DEF LaneInv, LaneTypeOK, AttemptsTyped, ScansTyped, JobsTyped
<1>. DEFINE r == attempts[a].run
<1>0. /\ None \notin Run \cup Attempt /\ attempts[a].pc # "idle" /\ r \in Run
      /\ attempts[a] \in AttemptState
    BY LaneConstants DEF RunMoves, LoadRun, Reason, EndAttempt, Throws, AttemptCrash, WorksOn, AttemptInv
<1>. HIDE DEF r
<1>a. faults' \in 0..MaxFaults
    BY FaultsTyped DEF RunMoves, LoadRun, Reason, EndAttempt, Throws, AttemptCrash, WorksOn
<1>b. ASSUME AttemptsTyped', AttemptInv', SameAttempt(a), ScansTyped', ScanInv',
             runs' \in [Run -> RunRow], UNCHANGED <<jobs, audits, producers>>
      PROVE  LaneInv'
    <2>1. FinalInv'  BY <1>b, FinalKept DEF SameAttempt
    <2>. QED  BY <1>a, <1>b, <2>1 DEF ProducerInv
<1>1. CASE LoadRun(a) \/ Throws(a)
    <2>1. AttemptsTyped' /\ AttemptInv' /\ SameAttempt(a)
        BY <1>0, <1>1, AttemptTurns DEF LoadRun, Throws, Turns
    <2>. QED  BY <1>b, <1>1, <2>1 DEF LoadRun, Throws, ScanInv
<1>2. CASE WorksOn(a)
    <2>1. AttemptsTyped' /\ AttemptInv' /\ SameAttempt(a)
        BY <1>0, <1>2, AttemptTurns DEF WorksOn
    <2>2. ScansTyped' /\ ScanInv'  BY <1>2, TouchKeepsScans DEF WorksOn
    <2>3. runs' \in [Run -> RunRow]  BY <1>0, <1>2, StatusWritten DEF WorksOn, r
    <2>. QED  BY <1>b, <1>2, <2>1, <2>2, <2>3 DEF WorksOn
<1>3. CASE Reason(a)
    <2>1. CASE \E error \in {"retry", "terminal"} : Refused(a, error)
        <3>1. AttemptsTyped' /\ AttemptInv' /\ SameAttempt(a)
            BY <1>0, <2>1, AttemptTurns DEF Turns
        <3>. QED  BY <1>b, <1>3, <3>1 DEF Reason, ScanInv
    <2>2. ASSUME NEW answer \in Answer,
                 attempts' = [attempts EXCEPT ![a].pc = "persist", ![a].answer = answer]
          PROVE  LaneInv'
        <3>. DEFINE v == [attempts[a] EXCEPT !.pc = "persist", !.answer = answer]
        <3>1. v \in AttemptState /\ v.run = r /\ v.final = attempts[a].final /\ v.answer = answer
            BY <1>0, <2>2 DEF AttemptState, r
        <3>2. attempts' = [attempts EXCEPT ![a] = v]  BY <2>2
        <3>. HIDE DEF v
        <3>3. AttemptsTyped'  BY <3>1, <3>2
        <3>4. attempts'[a] = v /\ \A b \in Attempt \ {a} : attempts'[b] = attempts[b]  BY <3>2
        <3>5. AttemptInv' /\ SameAttempt(a)
            BY <1>0, <2>2, <3>1, <3>4 DEF AttemptInv, SameAttempt, r
        <3>. QED  BY <1>b, <1>3, <3>3, <3>5 DEF Reason, ScanInv
    <2>. QED  BY <1>3, <2>1, <2>2 DEF Reason, Refused
<1>4. CASE AttemptCrash(a)
    <2>1. /\ AttemptsTyped' /\ AttemptInv'
          /\ \A b \in Attempt \ {a} : attempts'[b] = attempts[b]
          /\ attempts'[a] = NoAttempt
        BY <1>4, AttemptLeaves DEF AttemptCrash
    <2>2. FinalInv'  BY <1>4, <2>1, FinalKept DEF NoAttempt, AttemptCrash
    <2>. QED  BY <1>a, <1>4, <2>1, <2>2 DEF AttemptCrash, ProducerInv, ScanInv
<1>5. CASE EndAttempt(a)
    <2>1. jobs[r] \in Job /\ MaxAttempts \in Nat \ {0}  BY <1>0, LaneConstants
    <2>2. PICK job : /\ jobs' = [jobs EXCEPT ![r] = job] /\ job \in Job
                     /\ job = jobs[r] \/ job.holder = None
        <3>1. CASE jobs[r].holder # a
            BY <1>5, <2>1, <3>1 DEF EndAttempt, r
        <3>2. CASE jobs[r].holder = a /\ attempts[a].error = "retry" /\ ~attempts[a].final
            <4>. DEFINE job == [jobs[r] EXCEPT !.state = "waiting", !.made = jobs[r].made + 1, !.holder = None]
            <4>1. jobs[r].made + 1 \in 0..MaxAttempts - 1
                BY <1>0, <2>1, <3>2 DEF FinalInv, Job, r
            <4>2. job \in Job /\ job.holder = None  BY <2>1, <4>1 DEF Job
            <4>3. jobs' = [jobs EXCEPT ![r] = job]  BY <1>5, <3>2 DEF EndAttempt, r
            <4>. QED  BY <4>2, <4>3
        <3>3. CASE jobs[r].holder = a /\ ~(attempts[a].error = "retry" /\ ~attempts[a].final)
            <4>1. PICK over \in {"completed", "failed"} :
                     jobs' = [jobs EXCEPT ![r].state = over, ![r].holder = None]
                BY <1>5, <3>3 DEF EndAttempt, r
            <4>. DEFINE job == [jobs[r] EXCEPT !.state = over, !.holder = None]
            <4>2. job \in Job /\ job.holder = None  BY <2>1, <4>1 DEF Job
            <4>3. jobs' = [jobs EXCEPT ![r] = job]  BY <4>1
            <4>. QED  BY <4>2, <4>3
        <3>. QED  BY <3>1, <3>2, <3>3
    <2>3. JobsTyped'  BY <2>2
    <2>4. \A q \in Run, b \in Attempt : jobs'[q].holder = b => jobs'[q] = jobs[q]
        <3>1. jobs'[r] = job /\ \A q \in Run \ {r} : jobs'[q] = jobs[q]  BY <1>0, <2>2
        <3>. QED  BY <1>0, <2>2, <3>1
    <2>5. audits' \in [Run -> Audit]
        BY <1>0, <1>5 DEF EndAttempt, Audited, Audit, AuditOver, r
    <2>6. /\ AttemptsTyped' /\ AttemptInv'
          /\ \A b \in Attempt \ {a} : attempts'[b] = attempts[b]
          /\ attempts'[a] = NoAttempt
        BY <1>5, AttemptLeaves DEF EndAttempt
    <2>7. \A b \in Attempt : \/ attempts'[b].run = attempts[b].run /\ attempts'[b].final = attempts[b].final
                             \/ attempts'[b].run = None
        BY <2>6 DEF NoAttempt
    <2>8. FinalInv'  BY <2>4, <2>7, FinalKept
    <2>. QED  BY <1>5, <2>3, <2>5, <2>6, <2>8 DEF EndAttempt, ProducerInv, ScanInv
<1>. QED  BY <1>1, <1>2, <1>3, <1>4, <1>5 DEF RunMoves

LEMMA ScansKeep ==
    ASSUME LaneInv, NEW s \in Scan, ScanMoves(s) \/ \E r \in Run : PickStale(s, r)
    PROVE  LaneInv'
<1>. USE DEF LaneInv, LaneTypeOK, AttemptsTyped, ScansTyped, JobsTyped
<1>1. ASSUME NEW r \in Run, PickStale(s, r) PROVE LaneInv'
    <2>. DEFINE v == [NoScan EXCEPT !.pc = "observe", !.run = r, !.count = runs[r].count]
    <2>1. runs[r] \in RunRow /\ NoScan \in ScanState  BY Empties
    <2>2. v \in ScanState /\ v.pc = "observe" /\ v.run = r
        BY <2>1 DEF ScanState, RunRow
    <2>3. scans' = [scans EXCEPT ![s] = v]  BY <1>1 DEF PickStale
    <2>. HIDE DEF v
    <2>4. ScansTyped'  BY <2>2, <2>3
    <2>5. scans'[s] = v /\ \A t \in Scan \ {s} : scans'[t] = scans[t]  BY <2>3
    <2>6. ScanInv'  BY <2>2, <2>5 DEF ScanInv
    <2>. QED  BY <1>1, <2>4, <2>6 DEF PickStale, AttemptInv, ProducerInv, FinalInv
<1>2. CASE ScanMoves(s)
    <2>. DEFINE r == scans[s].run
    <2>0. None \notin Run \cup Attempt /\ scans[s].pc # "idle" /\ r \in Run
        BY <1>2, LaneConstants
           DEF ScanMoves, Observe, CheckTransport, RemoveOld, Claim, Recheck, AddRecovery, GiveUp,
               FailAudit, ScanCrash, Forgets, ScanInv
    <2>. HIDE DEF r
    <2>a. faults' \in 0..MaxFaults
        BY <1>2, FaultsTyped
           DEF ScanMoves, Observe, CheckTransport, RemoveOld, Claim, Recheck, AddRecovery, GiveUp,
               FailAudit, ScanCrash, Forgets
    <2>b. ASSUME ScansTyped', ScanInv', JobsTyped', runs' \in [Run -> RunRow],
                 audits' \in [Run -> Audit],
                 \A q \in Run, b \in Attempt : jobs'[q].holder = b => jobs'[q] = jobs[q],
                 UNCHANGED <<attempts, producers>>
          PROVE  LaneInv'
        <3>1. FinalInv'  BY <2>b, FinalKept
        <3>. QED  BY <2>a, <2>b, <3>1 DEF AttemptInv, ProducerInv
    <2>c. ASSUME Drops(s) PROVE ScansTyped' /\ ScanInv'
        BY <2>c, ScanDrops DEF Drops
    <2>d. ASSUME NEW pc \in {"check", "remove", "claim", "recheck", "remove_again", "add", "fail"},
                 SetScan(s, pc), pc \in {"check", "remove", "claim"} => scans[s].count < MaxRecovery
          PROVE  ScansTyped' /\ ScanInv'
        <3>1. ScansTyped' /\ SameScansBut(s) /\ scans'[s].pc = pc  BY <2>d, ScanGoesOn
        <3>. QED  BY <2>0, <2>d, <3>1 DEF ScanInv, SameScansBut, r
    <2>1. CASE Observe(s)
        <3>1. Decision(s) = "reenqueue" => scans[s].count < MaxRecovery  BY ReenqueueHasBudget
        <3>2. ScansTyped' /\ ScanInv'  BY <2>1, <2>c, <2>d, <3>1 DEF Observe
        <3>. QED  BY <2>b, <2>1, <3>2 DEF Observe
    <2>2. CASE CheckTransport(s)
        <3>1. scans[s].count < MaxRecovery  BY <2>2 DEF CheckTransport, ScanInv
        <3>2. ScansTyped' /\ ScanInv'  BY <2>2, <2>c, <2>d, <3>1 DEF CheckTransport
        <3>. QED  BY <2>b, <2>2, <3>2 DEF CheckTransport
    <2>3. CASE RemoveOld(s)
        <3>1. scans[s].pc = "remove" => scans[s].count < MaxRecovery  BY DEF ScanInv
        <3>2. ScansTyped' /\ ScanInv'  BY <2>3, <2>c, <2>d, <3>1 DEF RemoveOld
        <3>3. jobs' \in {jobs, [jobs EXCEPT ![r] = NoJob]}  BY <2>3 DEF RemoveOld, Removed, r
        <3>4. JobsTyped'  BY <3>3, Empties
        <3>5. \A q \in Run, b \in Attempt : jobs'[q].holder = b => jobs'[q] = jobs[q]
            BY <2>0, <3>3 DEF NoJob
        <3>. QED  BY <2>b, <2>3, <3>2, <3>4, <3>5 DEF RemoveOld
    <2>4. CASE Claim(s) /\ StillCandidate(s)
        <3>. DEFINE v == [scans[s] EXCEPT !.pc = "recheck", !.count = runs[r].count + 1]
                    row == [runs[r] EXCEPT !.count = runs[r].count + 1]
        <3>1. runs[r].count = scans[s].count /\ scans[s].count < MaxRecovery
            BY <2>4 DEF Claim, StillCandidate, ScanInv, r
        <3>2. runs[r] \in RunRow /\ scans[s] \in ScanState /\ MaxRecovery \in Nat
            BY <2>0, LaneConstants
        <3>3. runs[r].count + 1 \in 0..MaxRecovery
            BY <3>1, <3>2 DEF RunRow
        <3>4. row \in RunRow  BY <3>2, <3>3 DEF RunRow
        <3>5. v \in ScanState /\ v.run = r /\ v.pc = "recheck"
            BY <3>2, <3>3 DEF ScanState, r
        <3>6. /\ runs' = [runs EXCEPT ![r] = row]
              /\ audits' = [audits EXCEPT ![r] = [id |-> runs[r].count + 1, status |-> "queued"]]
              /\ scans' = [Touched(r) EXCEPT ![s] = v]
            BY <2>4 DEF Claim, r
        <3>. HIDE DEF v, row
        <3>7. runs' \in [Run -> RunRow]  BY <3>4, <3>6
        <3>8. audits' \in [Run -> Audit]  BY <3>3, <3>6 DEF Audit, AuditId
        <3>9. ScansTyped'  BY <3>5, <3>6, TouchedScans
        <3>10. scans'[s] = v /\ \A t \in Scan \ {s} : scans'[t] = Touched(r)[t]
            BY <3>6, TouchedScans
        <3>11. ScanInv'  BY <2>0, <3>5, <3>10, TouchedScans DEF ScanInv
        <3>. QED  BY <2>b, <2>4, <3>7, <3>8, <3>9, <3>11 DEF Claim
    <2>5. CASE Claim(s) /\ ~StillCandidate(s)
        <3>1. ScansTyped' /\ ScanInv'  BY <2>5, <2>c DEF Claim
        <3>. QED  BY <2>b, <2>5, <3>1 DEF Claim
    <2>6. CASE Recheck(s)
        <3>1. ScansTyped' /\ ScanInv'  BY <2>6, <2>c, <2>d DEF Recheck
        <3>2. audits' \in [Run -> Audit]
            BY <2>0, <2>6 DEF Recheck, Audited, Audit, AuditOver, r
        <3>. QED  BY <2>b, <2>6, <3>1, <3>2 DEF Recheck
    <2>7. CASE AddRecovery(s)
        <3>1. ScansTyped' /\ ScanInv'  BY <2>7, <2>c DEF AddRecovery
        <3>2. scans[s].count \in AuditId  BY DEF ScanState, AuditId
        <3>3. jobs' \in {jobs, Added(r, scans[s].count)}  BY <2>7 DEF AddRecovery, r
        <3>4. JobsTyped' /\ \A q \in Run, b \in Attempt : jobs'[q].holder = b => jobs'[q] = jobs[q]
            BY <2>0, <3>2, <3>3, JobAdded
        <3>5. audits' \in [Run -> Audit]
            BY <2>0, <2>7 DEF AddRecovery, Audited, Audit, AuditOver, r
        <3>. QED  BY <2>b, <2>7, <3>1, <3>4, <3>5 DEF AddRecovery
    <2>8. CASE GiveUp(s) /\ StillCandidate(s)
        <3>. DEFINE v == [scans[s] EXCEPT !.pc = "fail_audit"]
        <3>1. scans' = [Touched(r) EXCEPT ![s] = v]  BY <2>8 DEF GiveUp, r
        <3>2. v \in ScanState /\ v.run = r /\ v.pc = "fail_audit"
            <4>1. scans[s] \in ScanState  OBVIOUS
            <4>. QED  BY <4>1 DEF ScanState, r
        <3>. HIDE DEF v
        <3>3. ScansTyped'  BY <3>1, <3>2, TouchedScans
        <3>4. scans'[s] = v /\ \A t \in Scan \ {s} : scans'[t] = Touched(r)[t]
            BY <3>1, TouchedScans
        <3>5. ScanInv'  BY <2>0, <3>2, <3>4, TouchedScans DEF ScanInv
        <3>6. runs' \in [Run -> RunRow]  BY <2>0, <2>8, StatusWritten DEF GiveUp, r
        <3>. QED  BY <2>b, <2>8, <3>3, <3>5, <3>6 DEF GiveUp
    <2>9. CASE (GiveUp(s) /\ ~StillCandidate(s)) \/ ScanCrash(s) \/ Forgets(s)
        <3>1. ScansTyped' /\ ScanInv'  BY <2>9, <2>c DEF GiveUp, ScanCrash, Forgets
        <3>. QED  BY <2>b, <2>9, <3>1 DEF GiveUp, ScanCrash, Forgets
    <2>10. CASE FailAudit(s)
        <3>1. ScansTyped' /\ ScanInv'  BY <2>10, <2>c DEF FailAudit
        <3>2. audits' \in [Run -> Audit]
            <4>1. audits[r] \in Audit  BY <2>0
            <4>2. [audits[r] EXCEPT !.status = "failed"] \in Audit  BY <4>1 DEF Audit, AuditOver
            <4>3. audits' \in {audits, [audits EXCEPT ![r].status = "failed"]}
                BY <2>10 DEF FailAudit, r
            <4>. QED  BY <2>0, <4>2, <4>3
        <3>. QED  BY <2>b, <2>10, <3>1, <3>2 DEF FailAudit
    <2>. QED  BY <1>2, <2>1, <2>2, <2>3, <2>4, <2>5, <2>6, <2>7, <2>8, <2>9, <2>10 DEF ScanMoves
<1>. QED  BY <1>1, <1>2

LEMMA QueueKeeps ==
    ASSUME LaneInv, NEW r \in Run, QueueMoves(r) \/ Cancels(r)
    PROVE  LaneInv'
<1>. USE DEF LaneInv, LaneTypeOK, AttemptsTyped, ScansTyped, JobsTyped
<1>1. ASSUME NEW a \in Attempt, TakeJob(r, a) PROVE LaneInv'
    <2>. DEFINE last == jobs[r].made + 1 >= MaxAttempts
                job == [jobs[r] EXCEPT !.state = "active", !.holder = a]
                v == [NoAttempt EXCEPT !.pc = "load", !.run = r, !.audit = jobs[r].audit,
                          !.final = last]
    <2>1. jobs[r] \in Job /\ NoAttempt \in AttemptState /\ MaxAttempts \in Nat  BY Empties, LaneConstants
    <2>2. job \in Job /\ job.made = jobs[r].made /\ job.holder = a  BY <2>1 DEF Job
    <2>a. last \in BOOLEAN  OBVIOUS
    <2>b. ~last => jobs[r].made + 1 < MaxAttempts  BY <2>1, LaneConstants DEF Job
    <2>3. v \in AttemptState /\ v.pc = "load" /\ v.run = r /\ v.final = last
        <3>. HIDE DEF last
        <3>1. jobs[r].audit \in AuditId \cup {None}  BY <2>1 DEF Job
        <3>. QED  BY <2>1, <2>a, <3>1 DEF AttemptState
    <2>4. ~v.final => jobs[r].made + 1 < MaxAttempts
        <3>. HIDE DEF last, v
        <3>. QED  BY <2>b, <2>3, Zenon
    <2>5. jobs' = [jobs EXCEPT ![r] = job] /\ attempts' = [attempts EXCEPT ![a] = v]
        BY <1>1 DEF TakeJob, SetAttempt
    <2>. HIDE DEF last, job, v
    <2>6. JobsTyped' /\ AttemptsTyped'  BY <2>2, <2>3, <2>5
    <2>7. /\ attempts'[a] = v /\ \A b \in Attempt \ {a} : attempts'[b] = attempts[b]
          /\ jobs'[r] = job /\ \A q \in Run \ {r} : jobs'[q] = jobs[q]
        BY <2>5
    <2>8. AttemptInv'  BY <2>3, <2>7 DEF AttemptInv
    <2>9. FinalInv'  BY <2>2, <2>3, <2>4, <2>7 DEF FinalInv
    <2>10. audits' \in [Run -> Audit]  BY <1>1 DEF TakeJob, Audited, Audit
    <2>. QED  BY <1>1, <2>6, <2>8, <2>9, <2>10 DEF TakeJob, ProducerInv, ScanInv
<1>2. CASE Stall(r) \/ LockLost(r)
    <2>1. JobsTyped' /\ \A q \in Run, b \in Attempt : jobs'[q].holder = b => jobs'[q] = jobs[q]
        BY <1>2, JobHandedOut DEF Stall, LockLost
    <2>2. FinalInv'  BY <1>2, <2>1, FinalKept DEF Stall, LockLost
    <2>3. faults' \in 0..MaxFaults  BY <1>2, FaultsTyped DEF Stall, LockLost
    <2>. QED
        BY <1>2, <2>1, <2>2, <2>3 DEF Stall, LockLost, AttemptInv, ProducerInv, ScanInv
<1>3. CASE Cancels(r)
    <2>1. runs' \in [Run -> RunRow]  BY <1>3, StatusWritten DEF Cancels, WriteStatus
    <2>2. ScansTyped' /\ ScanInv'  BY <1>3, TouchKeepsScans DEF Cancels, WriteStatus
    <2>. QED  BY <1>3, <2>1, <2>2 DEF Cancels, AttemptInv, ProducerInv, FinalInv
<1>. QED  BY <1>1, <1>2, <1>3 DEF QueueMoves

LEMMA LaneKeeps == ASSUME LaneInv, LaneStep PROVE LaneInv'
<1>1. ASSUME UNCHANGED laneVars PROVE LaneInv'
    BY <1>1 DEF laneVars, LaneInv, LaneTypeOK, AttemptInv, ProducerInv, ScanInv, FinalInv
<1>. QED  BY <1>1, RequestsKeep, AttemptsKeep, ScansKeep, QueueKeeps DEF LaneStep

----------------------------------------------------------------------------
(* Nobody but its request knows a run before it is enqueued *)

\* No job, no attempt and no scan is about r.
Untouched(r) ==
    /\ jobs[r].state = "missing"
    /\ \A a \in Attempt : attempts[a].run # r
    /\ \A s \in Scan : scans[s].run # r

\* A request that goes on owns its run, which is queued or was ended by an operator;
\* and a run that was not requested is nobody's.
OwnedAt(r) ==
    /\ \A p \in Producer : (producers[p].pc # "idle" /\ producers[p].run = r) =>
        /\ runs[r].status \in {"queued", "failed"}
        /\ Untouched(r)
        /\ \A q \in Producer \ {p} : producers[q].run # r
    /\ runs[r].status = "absent" =>
        Untouched(r) /\ \A p \in Producer : producers[p].run # r

OwnedInv == \A r \in Run : OwnedAt(r)

LEMMA OwnedInit == ASSUME LaneInit PROVE OwnedInv
BY LaneConstants DEF LaneInit, OwnedInv, OwnedAt, Untouched, NoJob, NoAttempt, NoScan, NoRequest

\* OwnedAt stays when a run that was requested changes its status only in the hands of
\* attempts and scans or by failing, gets no others, and no other request.
LEMMA OwnedKept ==
    ASSUME NEW r \in Run, OwnedAt(r),
           \A p \in Producer : \/ producers'[p] = producers[p]
                               \/ producers'[p] = NoRequest
                               \/ producers'[p].run # r /\ producers[p].run # r,
           Untouched(r) => Untouched(r)',
           runs'[r].status # runs[r].status =>
              /\ runs'[r].status # "absent"
              /\ ~Untouched(r) \/ runs'[r].status = "failed"
    PROVE  OwnedAt(r)'
<1>0. NoRequest.pc = "idle" /\ NoRequest.run # r  BY LaneConstants DEF NoRequest
<1>1. ASSUME NEW p \in Producer, producers'[p].pc # "idle", producers'[p].run = r
      PROVE  /\ runs'[r].status \in {"queued", "failed"}
             /\ Untouched(r)'
             /\ \A q \in Producer \ {p} : producers'[q].run # r
    <2>1. producers'[p] = producers[p]  BY <1>0, <1>1
    <2>2. /\ runs[r].status \in {"queued", "failed"} /\ Untouched(r)
          /\ \A q \in Producer \ {p} : producers[q].run # r
        BY <1>1, <2>1 DEF OwnedAt
    <2>3. \A q \in Producer \ {p} : producers'[q].run # r  BY <1>0, <2>2
    <2>. QED  BY <2>2, <2>3
<1>2. ASSUME runs'[r].status = "absent"
      PROVE  Untouched(r)' /\ \A p \in Producer : producers'[p].run # r
    <2>1. Untouched(r) /\ \A p \in Producer : producers[p].run # r  BY <1>2 DEF OwnedAt
    <2>2. \A p \in Producer : producers'[p].run # r  BY <1>0, <2>1
    <2>. QED  BY <2>1, <2>2
<1>. QED  BY <1>1, <1>2 DEF OwnedAt

\* What attempts, scans and the queue do with runs that somebody is at work on, and
\* an operator's end of a run.
LEMMA OthersKeepOwned ==
    ASSUME OwnedInv, UNCHANGED producers,
           \A r \in Run : Untouched(r) =>
              /\ runs'[r].status # runs[r].status => runs'[r].status = "failed"
              /\ jobs'[r] = jobs[r] \/ jobs'[r] = NoJob
              /\ \A b \in Attempt : attempts'[b].run \in {attempts[b].run, None} \/ attempts'[b].run # r
              /\ \A t \in Scan : scans'[t].run \in {scans[t].run, None} \/ scans'[t].run # r,
           \A r \in Run : runs'[r].status = runs[r].status \/ runs'[r].status # "absent"
    PROVE  OwnedInv'
<1>1. ASSUME NEW r \in Run PROVE OwnedAt(r)'
    <2>1. Untouched(r) => Untouched(r)'  BY LaneConstants DEF Untouched, NoJob
    <2>2. runs'[r].status # runs[r].status =>
            runs'[r].status # "absent" /\ (~Untouched(r) \/ runs'[r].status = "failed")
        OBVIOUS
    <2>. QED  BY <2>1, <2>2, OwnedKept DEF OwnedInv
<1>. QED  BY <1>1 DEF OwnedInv

LEMMA RequestsKeepOwned ==
    ASSUME LaneInv, OwnedInv, ~LostAcks, NEW p \in Producer,
           AddJob(p) \/ ProducerCrash(p) \/ Withdraws(p) \/ \E r \in Run : Requests(p, r)
    PROVE  OwnedInv'
<1>. USE DEF LaneInv, LaneTypeOK, ScansTyped
<1>0. None \notin Run  BY LaneConstants
<1>1. ASSUME NEW q \in Run, Requests(p, q) PROVE OwnedInv'
    <2>1. /\ runs' = [runs EXCEPT ![q].status = "queued"]
          /\ producers' = [producers EXCEPT ![p] = [pc |-> "add", run |-> q]]
          /\ runs[q].status = "absent" /\ producers[p].pc = "idle"
          /\ UNCHANGED <<jobs, attempts>>
        BY <1>1 DEF Requests, WriteStatus
    <2>2. \A s \in Scan : scans'[s].run = scans[s].run
        BY <1>1, TouchedScans DEF Requests, WriteStatus
    <2>3. Untouched(q) /\ \A x \in Producer : producers[x].run # q
        BY <2>1 DEF OwnedInv, OwnedAt
    <2>4. runs'[q].status = "queued"  BY <2>1, StatusWritten
    <2>5. OwnedAt(q)'
        BY <2>1, <2>2, <2>3, <2>4 DEF OwnedAt, Untouched
    <2>6. ASSUME NEW r \in Run \ {q} PROVE OwnedAt(r)'
        <3>1. Untouched(r) => Untouched(r)'  BY <2>1, <2>2 DEF Untouched
        <3>2. CASE producers[p].run # r
            <4>1. \A x \in Producer : \/ producers'[x] = producers[x]
                                      \/ producers'[x].run # r /\ producers[x].run # r
                BY <2>1, <3>2
            <4>. QED  BY <2>1, <2>6, <3>1, <4>1, OwnedKept DEF OwnedInv
        <3>3. CASE producers[p].run = r
            BY <2>1, <2>6, <3>1, <3>3 DEF OwnedInv, OwnedAt
        <3>. QED  BY <3>2, <3>3
    <2>. QED  BY <2>5, <2>6 DEF OwnedInv
<1>2. CASE AddJob(p) \/ ProducerCrash(p) \/ Withdraws(p)
    <2>0. producers[p].run \in Run /\ producers[p].pc # "idle"
        BY <1>2 DEF AddJob, ProducerCrash, Withdraws, ProducerInv
    <2>1. PICK q \in Run : q = producers[p].run  BY <2>0
    <2>2. /\ runs[q].status \in {"queued", "failed"} /\ Untouched(q)
          /\ \A x \in Producer \ {p} : producers[x].run # q
        BY <2>0, <2>1 DEF OwnedInv, OwnedAt
    <2>3. \A s \in Scan : scans'[s].run = scans[s].run
        BY <1>2, TouchedScans DEF AddJob, ProducerCrash, Withdraws, WriteStatus
    <2>4. attempts' = attempts
        BY <1>2 DEF AddJob, ProducerCrash, Withdraws
    <2>5. \A x \in Producer \ {p} : producers'[x] = producers[x]
        BY <1>2 DEF AddJob, ProducerCrash, Withdraws, Leaves
    <2>6. /\ runs'[q].status # "absent"
          /\ \A r \in Run \ {q} : runs'[r] = runs[r] /\ jobs'[r] = jobs[r]
        <3>1. CASE AddJob(p)  BY <2>1, <2>2, <3>1 DEF AddJob, Added
        <3>2. CASE Withdraws(p)  BY <2>1, <3>2, StatusWritten DEF Withdraws, WriteStatus
        <3>3. CASE ProducerCrash(p)  BY <2>2, <3>3 DEF ProducerCrash
        <3>. QED  BY <1>2, <3>1, <3>2, <3>3
    <2>7. \/ producers'[p] = NoRequest
          \/ producers' = [producers EXCEPT ![p].pc = "refuse"] /\ UNCHANGED <<runs, jobs, scans>>
        BY <1>2 DEF AddJob, ProducerCrash, Withdraws, Leaves
    <2>8. OwnedAt(q)'
        <3>1. CASE producers'[p] = NoRequest
            <4>1. \A x \in Producer : producers'[x].run # q
                BY <1>0, <2>1, <2>2, <2>5, <3>1 DEF NoRequest
            <4>. QED  BY <2>6, <4>1 DEF OwnedAt
        <3>2. CASE producers' = [producers EXCEPT ![p].pc = "refuse"] /\ UNCHANGED <<runs, jobs, scans>>
            BY <2>2, <2>4, <2>5, <3>2 DEF OwnedAt, Untouched
        <3>. QED  BY <2>7, <3>1, <3>2
    <2>9. ASSUME NEW r \in Run \ {q} PROVE OwnedAt(r)'
        <3>1. Untouched(r) => Untouched(r)'
            BY <2>3, <2>4, <2>6, <2>9 DEF Untouched
        <3>2. \A x \in Producer : \/ producers'[x] = producers[x]
                                  \/ producers'[x] = NoRequest
                                  \/ producers'[x].run # r /\ producers[x].run # r
            <4>1. producers'[p] = NoRequest \/ producers'[p].run = q
                BY <2>1, <2>7 DEF ProducerState
            <4>. QED  BY <2>1, <2>5, <2>9, <4>1
        <3>. QED  BY <2>6, <2>9, <3>1, <3>2, OwnedKept DEF OwnedInv
    <2>. QED  BY <2>8, <2>9 DEF OwnedInv
<1>. QED  BY <1>1, <1>2

LEMMA AttemptsKeepOwned ==
    ASSUME LaneInv, OwnedInv, NEW a \in Attempt, RunMoves(a) \/ WorksOn(a)
    PROVE  OwnedInv'
<1>. USE DEF LaneInv, LaneTypeOK, AttemptsTyped, ScansTyped
<1>. DEFINE q == attempts[a].run
<1>1. q \in Run /\ UNCHANGED producers /\ attempts[a] \in AttemptState
    BY DEF RunMoves, LoadRun, Reason, EndAttempt, Throws, AttemptCrash, WorksOn, AttemptInv
<1>2. ~Untouched(q)  BY DEF Untouched
<1>3. \A s \in Scan : scans'[s].run = scans[s].run
    <2>1. CASE RunMoves(a)
        <3>. scans' = scans \/ \E r \in Run : scans' = Touched(r)
            BY <1>1, <2>1 DEF RunMoves, LoadRun, Reason, EndAttempt, Throws, AttemptCrash, q
        <3>. QED  BY TouchedScans
    <2>2. CASE WorksOn(a)  BY <1>1, <2>2, TouchedScans DEF WorksOn, q
    <2>. QED  BY <2>1, <2>2
<1>4. \A b \in Attempt : attempts'[b].run \in {attempts[b].run, None}
    <2>1. ASSUME NEW pc, Goes(a, pc) PROVE \A b \in Attempt : attempts'[b].run = attempts[b].run
        BY <1>1, <2>1 DEF Goes, AttemptState
    <2>2. ASSUME NEW e, Raises(a, e) \/ Refused(a, e)
          PROVE  \A b \in Attempt : attempts'[b].run = attempts[b].run
        BY <1>1, <2>2 DEF Raises, Refused, AttemptState
    <2>3. SetAttempt(a, NoAttempt) => \A b \in Attempt : attempts'[b].run \in {attempts[b].run, None}
        BY DEF SetAttempt, NoAttempt
    <2>4. ASSUME NEW x, attempts' = [attempts EXCEPT ![a].pc = "persist", ![a].answer = x]
          PROVE  \A b \in Attempt : attempts'[b].run = attempts[b].run
        BY <1>1, <2>4 DEF AttemptState
    <2>5. CASE LoadRun(a) \/ Throws(a)  BY <2>1, <2>2, <2>5 DEF LoadRun, Throws
    <2>6. CASE Reason(a)  BY <2>2, <2>4, <2>6 DEF Reason, Refused
    <2>7. CASE EndAttempt(a) \/ AttemptCrash(a)  BY <2>3, <2>7 DEF EndAttempt, AttemptCrash
    <2>8. CASE WorksOn(a)  BY <2>1, <2>2, <2>8 DEF WorksOn, Turns
    <2>. QED  BY <2>5, <2>6, <2>7, <2>8 DEF RunMoves
<1>5. \A r \in Run \ {q} : jobs'[r] = jobs[r]
    BY DEF RunMoves, LoadRun, Reason, EndAttempt, Throws, AttemptCrash, WorksOn
<1>6. (\A r \in Run \ {q} : runs'[r] = runs[r]) /\ (runs' = runs \/ runs'[q].status # "absent")
    <2>1. runs' = runs \/ \E st \in {"running", "failed", "succeeded"} : runs' = [runs EXCEPT ![q].status = st]
        BY DEF RunMoves, LoadRun, Reason, EndAttempt, Throws, AttemptCrash, WorksOn
    <2>. HIDE DEF q
    <2>. QED  BY <1>1, <2>1, StatusWritten
<1>. HIDE DEF q
<1>. QED  BY <1>1, <1>2, <1>3, <1>4, <1>5, <1>6, OthersKeepOwned

LEMMA ScansKeepOwned ==
    ASSUME LaneInv, OwnedInv, NEW s \in Scan, ScanMoves(s) \/ \E r \in Run : PickStale(s, r)
    PROVE  OwnedInv'
<1>. USE DEF LaneInv, LaneTypeOK, ScansTyped
<1>1. ASSUME NEW q \in Run, PickStale(s, q) PROVE OwnedInv'
    <2>1. UNCHANGED <<runs, jobs, attempts, producers>>  BY <1>1 DEF PickStale
    <2>2. \A t \in Scan : scans'[t].run = scans[t].run \/ scans'[t].run = q
        BY <1>1 DEF PickStale, NoScan
    <2>3. OwnedAt(q)'
        BY <1>1, <2>1 DEF PickStale, OwnedAt, Active
    <2>4. ASSUME NEW r \in Run \ {q} PROVE OwnedAt(r)'
        BY <2>1, <2>2, <2>4 DEF OwnedInv, OwnedAt, Untouched
    <2>. QED  BY <2>3, <2>4 DEF OwnedInv
<1>2. CASE ScanMoves(s)
    <2>. DEFINE q == scans[s].run
    <2>1. q \in Run /\ UNCHANGED <<producers, attempts>>
        BY <1>2 DEF ScanMoves, Observe, CheckTransport, RemoveOld, Claim, Recheck, AddRecovery, GiveUp,
               FailAudit, ScanCrash, Forgets, ScanInv
    <2>2. ~Untouched(q)  BY DEF Untouched
    <2>3. \A t \in Scan : scans'[t].run \in {scans[t].run, None}
        <3>1. CASE scans' = [Touched(q) EXCEPT ![s] = [scans[s] EXCEPT !.pc = "fail_audit"]]
            BY <3>1, TouchedScans DEF ScanState
        <3>2. CASE \E n \in AuditId : scans' = [Touched(q) EXCEPT ![s] = [scans[s] EXCEPT !.pc = "recheck", !.count = n]]
            BY <3>2, TouchedScans DEF ScanState
        <3>3. CASE Drops(s)  BY <3>3 DEF Drops, NoScan
        <3>4. CASE \E pc \in {"check", "claim", "remove", "add", "remove_again", "fail"} : SetScan(s, pc)
            BY <3>4 DEF SetScan, ScanState
        <3>5. CASE Claim(s) /\ StillCandidate(s)
            <4>1. runs[q].count + 1 \in AuditId
                <5>1. runs[q] \in RunRow /\ MaxRecovery \in Nat  BY <2>1, LaneConstants
                <5>2. runs[q].count < MaxRecovery  BY <3>5 DEF Claim, StillCandidate, ScanInv
                <5>. QED  BY <5>1, <5>2 DEF RunRow, AuditId
            <4>. QED  BY <3>2, <3>5, <4>1 DEF Claim
        <3>. QED
            BY <1>2, <3>1, <3>3, <3>4, <3>5
               DEF ScanMoves, Observe, CheckTransport, RemoveOld, Claim, Recheck, AddRecovery, GiveUp,
                   FailAudit, ScanCrash, Forgets
    <2>4. \A r \in Run \ {q} : jobs'[r] = jobs[r]
        BY <1>2 DEF ScanMoves, Observe, CheckTransport, RemoveOld, Claim, Recheck, AddRecovery, GiveUp,
               FailAudit, ScanCrash, Forgets, Removed, Added
    <2>5. (\A r \in Run \ {q} : runs'[r] = runs[r])
             /\ (runs'[q].status = runs[q].status \/ runs'[q].status # "absent")
        <3>1. \/ runs' = runs
              \/ runs' = [runs EXCEPT ![q].status = "failed"]
              \/ runs' = [runs EXCEPT ![q].count = @ + 1] /\ runs[q].status # "absent"
            BY <1>2 DEF ScanMoves, Observe, CheckTransport, RemoveOld, Claim, Recheck, AddRecovery, GiveUp,
                   FailAudit, ScanCrash, Forgets, StillCandidate, Active
        <3>. HIDE DEF q
        <3>. QED  BY <2>1, <3>1 DEF RunRow
    <2>. HIDE DEF q
    <2>. QED  BY <2>1, <2>2, <2>3, <2>4, <2>5, OthersKeepOwned
<1>. QED  BY <1>1, <1>2

LEMMA QueueKeepsOwned ==
    ASSUME LaneInv, OwnedInv, NEW q \in Run, QueueMoves(q) \/ Cancels(q)
    PROVE  OwnedInv'
<1>. USE DEF LaneInv, LaneTypeOK, ScansTyped, JobsTyped
<1>1. CASE QueueMoves(q)
    <2>1. UNCHANGED <<runs, scans, producers>> /\ jobs[q].state \in {"waiting", "active"}
        BY <1>1 DEF QueueMoves, TakeJob, Stall, LockLost
    <2>2. ~Untouched(q)  BY <2>1 DEF Untouched
    <2>3. \A r \in Run \ {q} : jobs'[r] = jobs[r]
        BY <1>1 DEF QueueMoves, TakeJob, Stall, LockLost
    <2>4. \A b \in Attempt : attempts'[b].run = attempts[b].run \/ attempts'[b].run = q
        <3>1. CASE Stall(q) \/ LockLost(q)  BY <3>1 DEF Stall, LockLost
        <3>2. ASSUME NEW a \in Attempt, TakeJob(q, a)
              PROVE  \A b \in Attempt : attempts'[b].run = attempts[b].run \/ attempts'[b].run = q
            <4>. DEFINE v == [NoAttempt EXCEPT !.pc = "load", !.run = q, !.audit = jobs[q].audit,
                                  !.final = jobs[q].made + 1 >= MaxAttempts]
            <4>1. v.run = q  BY DEF NoAttempt
            <4>2. attempts' = [attempts EXCEPT ![a] = v]  BY <3>2 DEF TakeJob, SetAttempt
            <4>. HIDE DEF v
            <4>. QED  BY <4>1, <4>2
        <3>. QED  BY <1>1, <3>1, <3>2 DEF QueueMoves
    <2>. QED  BY <2>1, <2>2, <2>3, <2>4, OthersKeepOwned
<1>2. CASE Cancels(q)
    <2>1. UNCHANGED <<jobs, attempts, producers>>  BY <1>2 DEF Cancels
    <2>2. \A s \in Scan : scans'[s].run = scans[s].run
        BY <1>2, TouchedScans DEF Cancels, WriteStatus
    <2>3. runs'[q].status = "failed" /\ \A r \in Run \ {q} : runs'[r] = runs[r]
        BY <1>2, StatusWritten DEF Cancels, WriteStatus
    <2>. QED  BY <2>1, <2>2, <2>3, OthersKeepOwned
<1>. QED  BY <1>1, <1>2

\* A request whose add throws has added nothing: only then is its run its own.
LEMMA OwnedKeeps == ASSUME LaneInv, OwnedInv, ~LostAcks, LaneStep PROVE OwnedInv'
<1>1. ASSUME UNCHANGED laneVars PROVE OwnedInv'
    BY <1>1 DEF laneVars, OwnedInv, OwnedAt, Untouched
<1>. QED
    BY <1>1, RequestsKeepOwned, AttemptsKeepOwned, ScansKeepOwned, QueueKeepsOwned DEF LaneStep

----------------------------------------------------------------------------
(* What they do to the statuses of runs *)

StatusesStay == \A r \in Run : runs'[r].status = runs[r].status

\* Of what the works of the lane share, only a scan that gives a row up writes a status.
QuietStep ==
    \/ UNCHANGED laneVars
    \/ \E p \in Producer : AddJob(p) \/ ProducerCrash(p)
    \/ \E a \in Attempt : RunMoves(a)
    \/ \E s \in Scan : \/ ScanMoves(s) /\ ~(GiveUp(s) /\ StillCandidate(s))
                       \/ \E r \in Run : PickStale(s, r)
    \/ \E r \in Run : QueueMoves(r)

LEMMA StatusesKept == ASSUME LaneInv, QuietStep PROVE StatusesStay
<1>1. CASE runs' = runs  BY <1>1 DEF StatusesStay
<1>2. ASSUME NEW s \in Scan, Claim(s), StillCandidate(s) PROVE StatusesStay
    BY <1>2 DEF Claim, StatusesStay, LaneInv, LaneTypeOK, RunRow
<1>3. ASSUME NEW s \in Scan, ScanMoves(s), ~(GiveUp(s) /\ StillCandidate(s)) PROVE StatusesStay
    <2>1. CASE Claim(s) /\ StillCandidate(s)  BY <1>2, <2>1
    <2>2. CASE ~(Claim(s) /\ StillCandidate(s))
        BY <1>1, <1>3, <2>2
           DEF ScanMoves, Observe, CheckTransport, RemoveOld, Claim, Recheck, AddRecovery, GiveUp,
               FailAudit, ScanCrash, Forgets
    <2>. QED  BY <2>1, <2>2
<1>4. ASSUME NEW p \in Producer, AddJob(p) \/ ProducerCrash(p) PROVE runs' = runs
    BY <1>4 DEF AddJob, ProducerCrash
<1>5. ASSUME NEW a \in Attempt, RunMoves(a) PROVE runs' = runs
    BY <1>5 DEF RunMoves, LoadRun, Reason, EndAttempt, Throws, AttemptCrash
<1>6. ASSUME NEW r \in Run, QueueMoves(r) PROVE runs' = runs
    BY <1>6 DEF QueueMoves, Stall, LockLost, TakeJob
<1>7. ASSUME NEW s \in Scan, NEW r \in Run, PickStale(s, r) PROVE runs' = runs
    BY <1>7 DEF PickStale
<1>. QED  BY <1>1, <1>3, <1>4, <1>5, <1>6, <1>7 DEF QuietStep, laneVars

\* A scan gives up a row that is active.
LEMMA GivenUp ==
    ASSUME LaneInv, NEW s \in Scan, GiveUp(s), StillCandidate(s)
    PROVE  \E r \in Run : /\ r = scans[s].run /\ runs[r].status \in Active
                          /\ runs' = [runs EXCEPT ![r].status = "failed"]
BY DEF LaneInv, GiveUp, StillCandidate, ScanInv

\* No run is ever forgotten, or queued again.
LEMMA NeverBack ==
    ASSUME LaneInv, LaneStep, NEW r \in Run
    PROVE  /\ runs[r].status # "absent" => runs'[r].status # "absent"
           /\ runs[r].status \notin {"absent", "queued"} => runs'[r].status \notin {"absent", "queued"}
<1>. DEFINE Kept == /\ runs[r].status # "absent" => runs'[r].status # "absent"
                    /\ runs[r].status \notin {"absent", "queued"} =>
                            runs'[r].status \notin {"absent", "queued"}
<1>0. runs \in [Run -> RunRow]  BY DEF LaneInv, LaneTypeOK
<1>1. ASSUME NEW q \in Run, NEW status \in {"running", "failed", "succeeded"},
             runs' = [runs EXCEPT ![q].status = status]
      PROVE  Kept
    <2>1. runs'[q].status = status /\ \A x \in Run \ {q} : runs'[x] = runs[x]
        BY <1>0, <1>1, StatusWritten
    <2>. QED  BY <2>1
<1>2. CASE StatusesStay  BY <1>2 DEF StatusesStay
<1>3. ASSUME NEW p \in Producer, NEW q \in Run, Requests(p, q) PROVE Kept
    <2>1. runs[q].status = "absent"  BY <1>3 DEF Requests
    <2>2. runs'[q].status = "queued" /\ \A x \in Run \ {q} : runs'[x] = runs[x]
        BY <1>0, <1>3, StatusWritten DEF Requests, WriteStatus
    <2>. QED  BY <2>1, <2>2
<1>4. ASSUME NEW p \in Producer, Withdraws(p) PROVE Kept
    <2>1. PICK q \in Run : q = producers[p].run  BY <1>4 DEF Withdraws, LaneInv, ProducerInv
    <2>2. runs' = [runs EXCEPT ![q].status = "failed"]  BY <1>4, <2>1 DEF Withdraws, WriteStatus
    <2>. QED  BY <1>1, <2>2
<1>5. ASSUME NEW q \in Run, Cancels(q) PROVE Kept
    BY <1>1, <1>5 DEF Cancels, WriteStatus
<1>6. ASSUME NEW a \in Attempt, WorksOn(a) PROVE Kept
    <2>1. PICK q \in Run : q = attempts[a].run  BY <1>6 DEF WorksOn, LaneInv, AttemptInv
    <2>2. runs' = runs \/ \E st \in {"running", "failed", "succeeded"} : runs' = [runs EXCEPT ![q].status = st]
        BY <1>6, <2>1 DEF WorksOn
    <2>3. CASE runs' = runs  BY <2>3
    <2>. QED  BY <1>1, <2>2, <2>3
<1>7. ASSUME NEW s \in Scan, GiveUp(s), StillCandidate(s) PROVE Kept
    BY <1>1, <1>7, GivenUp
<1>. HIDE DEF Kept
<1>8. CASE QuietStep  BY <1>2, <1>8, StatusesKept
<1>. QED
    <2>1. \/ QuietStep
          \/ \E p \in Producer : Withdraws(p) \/ \E q \in Run : Requests(p, q)
          \/ \E a \in Attempt : WorksOn(a)
          \/ \E s \in Scan : GiveUp(s) /\ StillCandidate(s)
          \/ \E q \in Run : Cancels(q)
        BY DEF LaneStep, QuietStep
    <2>2. CASE \E p \in Producer : Withdraws(p) \/ \E q \in Run : Requests(p, q)
        BY <1>3, <1>4, <2>2 DEF Kept
    <2>3. CASE \E a \in Attempt : WorksOn(a)  BY <1>6, <2>3 DEF Kept
    <2>4. CASE \E s \in Scan : GiveUp(s) /\ StillCandidate(s)  BY <1>7, <2>4 DEF Kept
    <2>5. CASE \E q \in Run : Cancels(q)  BY <1>5, <2>5 DEF Kept
    <2>. QED  BY <1>8, <2>1, <2>2, <2>3, <2>4, <2>5 DEF Kept
=============================================================================
