------------------------ MODULE OpportunityResearchProofs ------------------------
(***************************************************************************)
(* Theorems about OpportunityResearch, for every number of runs, digests,  *)
(* deliveries, steps, tries, attempts, recoveries and mishaps.             *)
(*                                                                         *)
(* What is claimed of the rows is an invariant of the rows alone           *)
(* (LedgerInv): every transaction keeps it from its own guard, whoever     *)
(* runs it.  What the deliveries, the scan and the jobs remember of the    *)
(* rows (DeliveryInv, ScanInv, JobInv) gives the guards that a transaction *)
(* does not check itself.                                                  *)
(***************************************************************************)
EXTENDS OpportunityResearch, TLAPS

----------------------------------------------------------------------------
(* The rows *)

\* A run that no delivery has claimed has no epoch, and its steps were written under
\* epochs it has had.
EpochInv == \A r \in Run :
    /\ runs[r].status \in {"absent", "queued"} => runs[r].epoch = 0
    /\ \A k \in Step : steps[r][k].epoch <= runs[r].epoch

\* The steps before a completed one were completed no later.
HistoryInv == \A r \in Run : \A k \in Step : steps[r][k].status = "succeeded" =>
    \A j \in 1..k : steps[r][j].status = "succeeded" /\ steps[r][j].epoch <= steps[r][k].epoch

LedgerInv ==
    /\ LedgerTypeOK /\ EpochInv /\ HistoryInv
    /\ StateOwnsRun /\ StepsHaveOneOwner /\ ChangesAreRemembered

\* The completed steps of r stay.
Keeps(r) == \A k \in Step : steps[r][k].status = "succeeded" => steps'[r][k] = steps[r][k]

LEMMA Sets ==
    /\ None \notin Run /\ None \notin Material
    /\ Steps \in Nat \ {0} /\ StepTries \in Nat \ {0} /\ MaxAttempts \in Nat \ {0}
    /\ MaxRecovery \in Nat
    /\ 0 \in Generation
    /\ NoRun \in RunRow /\ NoStep \in StepRow
<1>1. /\ None \notin Run /\ None \notin Material
      /\ Steps \in Nat \ {0} /\ StepTries \in Nat \ {0} /\ MaxAttempts \in Nat \ {0}
      /\ MaxRecovery \in Nat
    BY LedgerConstants
<1>. QED  BY <1>1 DEF NoRun, NoStep, RunRow, StepRow, Generation

LEMMA LedgerBegins == ASSUME LedgerInit PROVE LedgerInv
<1>. USE Sets DEF LedgerInit
<1>1. LedgerTypeOK  BY LedgerConstants DEF LedgerTypeOK, StateRow
<1>2. EpochInv /\ HistoryInv /\ StepsHaveOneOwner
    BY DEF EpochInv, HistoryInv, StepsHaveOneOwner, NoRun, NoStep
<1>3. StateOwnsRun /\ ChangesAreRemembered
    BY DEF StateOwnsRun, ChangesAreRemembered, NoRun, Active
<1>. QED  BY <1>1, <1>2, <1>3 DEF LedgerInv

\* Only the state's own columns, or the material, change.
LEMMA StateChanges ==
    ASSUME LedgerInv, UNCHANGED <<runs, steps>>,
           material' \in Material, state' \in StateRow,
           state'.active = state.active,
           state.status \in Active => state'.status = state.status,
           state'.status \in Active => state'.status = state.status,
           state'.status = "paused" => state'.paused,
           ChangesAreRemembered'
    PROVE  LedgerInv' /\ \A q \in Run : Keeps(q)
<1>1. LedgerTypeOK' /\ EpochInv' /\ HistoryInv' /\ StepsHaveOneOwner'
    BY DEF LedgerInv, LedgerTypeOK, EpochInv, HistoryInv, StepsHaveOneOwner
<1>2. StateOwnsRun'  BY DEF LedgerInv, StateOwnsRun
<1>. QED  BY <1>1, <1>2 DEF LedgerInv, Keeps

LEMMA Admits ==
    ASSUME LedgerInv, NEW r \in Run, NEW dropped \in SUBSET Run, r \in dropped,
           NEW source \in {"user", "scheduler"},
           \A q \in dropped : runs[q].status \notin Active,
           state.active = None,
           Admit(r, dropped, source), UNCHANGED material
    PROVE  /\ LedgerInv'
           /\ \A q \in Run \ dropped : Keeps(q)
           /\ \A q \in dropped : runs'[q].status \in {"absent", "queued"}
<1>. DEFINE new == [NoRun EXCEPT !.status = "queued", !.source = source, !.material = material]
<1>1. /\ new \in RunRow /\ new.status = "queued" /\ new.epoch = 0
    BY Sets DEF LedgerInv, LedgerTypeOK, RunRow, NoRun
<1>. HIDE DEF new
<1>2. /\ runs' = [q \in Run |-> IF q = r THEN new ELSE IF q \in dropped THEN NoRun ELSE runs[q]]
      /\ steps' = [q \in Run |-> IF q \in dropped THEN [k \in Step |-> NoStep] ELSE steps[q]]
    BY DEF Admit, new
<1>3. /\ state' \in StateRow /\ state'.status = "queued" /\ state'.active = r
      /\ state'.paused = state.paused
    BY DEF Admit, LedgerInv, LedgerTypeOK, StateRow
<1>4. runs' \in [Run -> RunRow] /\ steps' \in [Run -> [Step -> StepRow]]
    BY <1>1, <1>2, Sets DEF LedgerInv, LedgerTypeOK
<1>5. /\ runs'[r] = new
      /\ \A q \in dropped \ {r} : runs'[q] = NoRun
      /\ \A q \in Run \ dropped : runs'[q] = runs[q]
      /\ \A q \in dropped, k \in Step : steps'[q][k] = NoStep
      /\ \A q \in Run \ dropped, k \in Step : steps'[q][k] = steps[q][k]
    BY <1>2
<1>6. NoRun.status = "absent" /\ NoRun.epoch = 0 /\ NoStep.status = "absent" /\ NoStep.epoch = 0
    BY DEF NoRun, NoStep
<1>7. LedgerTypeOK'  BY <1>3, <1>4 DEF LedgerInv, LedgerTypeOK
<1>8. EpochInv'
    <2>. SUFFICES ASSUME NEW q \in Run
                  PROVE  /\ runs'[q].status \in {"absent", "queued"} => runs'[q].epoch = 0
                         /\ \A k \in Step : steps'[q][k].epoch <= runs'[q].epoch
        BY DEF EpochInv
    <2>1. CASE q \in dropped  BY <1>1, <1>5, <1>6, <2>1
    <2>2. CASE q \notin dropped  BY <1>5, <2>2 DEF LedgerInv, EpochInv
    <2>. QED  BY <2>1, <2>2
<1>9. HistoryInv'
    <2>. SUFFICES ASSUME NEW q \in Run, NEW k \in Step, steps'[q][k].status = "succeeded", NEW j \in 1..k
                  PROVE  steps'[q][j].status = "succeeded" /\ steps'[q][j].epoch <= steps'[q][k].epoch
        BY DEF HistoryInv
    <2>1. q \notin dropped  BY <1>5, <1>6
    <2>2. j \in Step  BY Sets DEF Step
    <2>. QED  BY <1>5, <2>1, <2>2 DEF LedgerInv, HistoryInv
<1>10. StepsHaveOneOwner'
    <2>. SUFFICES ASSUME NEW q \in Run, NEW k \in Step, steps'[q][k].status = "running"
                  PROVE  runs'[q].status = "running" /\ steps'[q][k].epoch = runs'[q].epoch
        BY DEF StepsHaveOneOwner
    <2>1. q \notin dropped  BY <1>5, <1>6
    <2>. QED  BY <1>5, <2>1 DEF LedgerInv, StepsHaveOneOwner
<1>11. StateOwnsRun'
    BY <1>1, <1>3, <1>5, <1>6, Sets DEF LedgerInv, StateOwnsRun, Active
<1>12. ChangesAreRemembered'  BY <1>3, Sets DEF ChangesAreRemembered
<1>13. \A q \in Run \ dropped : Keeps(q)  BY <1>5 DEF Keeps
<1>14. \A q \in dropped : runs'[q].status \in {"absent", "queued"}  BY <1>1, <1>5, <1>6
<1>. QED  BY <1>7, <1>8, <1>9, <1>10, <1>11, <1>12, <1>13, <1>14 DEF LedgerInv

\* What a claim makes of the run
LEMMA ClaimedRun ==
    ASSUME LedgerTypeOK, NEW r \in Run, NEW token \in Token, NEW g \in Generation,
           Claimed(r, token, g)
    PROVE  /\ runs' \in [Run -> RunRow]
           /\ runs'[r].status = "running" /\ runs'[r].epoch = runs[r].epoch + 1
           /\ runs'[r].count = runs[r].count
           /\ runs[r].epoch \in Nat
           /\ \A q \in Run \ {r} : runs'[q] = runs[q]
<1>. DEFINE new == [runs[r] EXCEPT !.status = "running", !.epoch = @ + 1,
                                   !.token = token, !.generation = g]
<1>1. runs[r] \in RunRow  BY DEF LedgerTypeOK
<1>2. /\ new.status = "running" /\ new.epoch = runs[r].epoch + 1
      /\ new.count = runs[r].count
    BY <1>1 DEF RunRow
<1>5. new \in RunRow
    <2>1. token \in Token \cup {None} /\ g \in Generation /\ runs[r].epoch + 1 \in Nat
        BY <1>1 DEF RunRow
    <2>2. \A t \in Token \cup {None}, e \in Nat :
            [runs[r] EXCEPT !.status = "running", !.epoch = e, !.token = t, !.generation = g] \in RunRow
        BY <1>1 DEF RunRow
    <2>. QED  BY <2>1, <2>2
<1>3. runs' = [runs EXCEPT ![r] = new]  BY <1>1 DEF Claimed, LedgerTypeOK
<1>. HIDE DEF new
<1>4. runs'[r] = new /\ \A q \in Run \ {r} : runs'[q] = runs[q]  BY <1>3 DEF LedgerTypeOK
<1>. QED  BY <1>1, <1>2, <1>3, <1>4, <1>5 DEF LedgerTypeOK, RunRow

LEMMA Starts ==
    ASSUME LedgerInv, NEW r \in Run, NEW token \in Token, NEW g \in Generation,
           runs[r].status = "queued", state.active = r,
           Start(r, token, g), UNCHANGED material
    PROVE  LedgerInv' /\ \A q \in Run : Keeps(q)
<1>1. /\ runs' \in [Run -> RunRow]
      /\ runs'[r].status = "running" /\ runs'[r].epoch = runs[r].epoch + 1
      /\ runs[r].epoch \in Nat
      /\ \A q \in Run \ {r} : runs'[q] = runs[q]
    BY ClaimedRun DEF LedgerInv, Start
<1>2. /\ state' \in StateRow /\ state'.status = "running" /\ state'.active = r
      /\ state'.paused = state.paused
    BY DEF Start, LedgerInv, LedgerTypeOK, StateRow
<1>3. steps' = steps  BY DEF Start
<1>4. LedgerTypeOK'  BY <1>1, <1>2, <1>3 DEF LedgerInv, LedgerTypeOK
<1>5. EpochInv'
    <2>1. \A k \in Step : steps[r][k].epoch \in Nat /\ steps[r][k].epoch <= runs[r].epoch
        BY DEF LedgerInv, LedgerTypeOK, EpochInv, StepRow
    <2>2. \A k \in Step : steps[r][k].epoch <= runs[r].epoch + 1  BY <1>1, <2>1
    <2>. QED  BY <1>1, <1>3, <2>2 DEF LedgerInv, EpochInv
<1>6. HistoryInv'  BY <1>3 DEF LedgerInv, HistoryInv
<1>7. StepsHaveOneOwner'
    <2>1. \A k \in Step : steps[r][k].status # "running"
        BY DEF LedgerInv, StepsHaveOneOwner
    <2>. QED  BY <1>1, <1>3, <2>1 DEF LedgerInv, StepsHaveOneOwner
<1>8. StateOwnsRun'  BY <1>1, <1>2, Sets DEF LedgerInv, StateOwnsRun, Active
<1>9. ChangesAreRemembered'  BY <1>2, Sets DEF ChangesAreRemembered
<1>. QED  BY <1>3, <1>4, <1>5, <1>6, <1>7, <1>8, <1>9 DEF LedgerInv, Keeps

\* No step of an interrupted run goes on, and the completed ones stay.
LEMMA InterruptedSteps ==
    ASSUME LedgerInv, NEW r \in Run
    PROVE  /\ Interrupted(r) \in [Step -> StepRow]
           /\ \A k \in Step :
                /\ Interrupted(r)[k].status # "running"
                /\ Interrupted(r)[k].status = "succeeded" => steps[r][k].status = "succeeded"
                /\ steps[r][k].status = "succeeded" => Interrupted(r)[k] = steps[r][k]
                /\ Interrupted(r)[k].epoch <= runs[r].epoch
<1>. SUFFICES ASSUME NEW k \in Step
              PROVE  /\ Interrupted(r)[k] \in StepRow
                     /\ Interrupted(r)[k].status # "running"
                     /\ Interrupted(r)[k].status = "succeeded" => steps[r][k].status = "succeeded"
                     /\ steps[r][k].status = "succeeded" => Interrupted(r)[k] = steps[r][k]
                     /\ Interrupted(r)[k].epoch <= runs[r].epoch
    BY DEF Interrupted
<1>1. steps[r][k] \in StepRow /\ runs[r].epoch \in Nat /\ steps[r][k].epoch <= runs[r].epoch
    BY DEF LedgerInv, LedgerTypeOK, EpochInv, RunRow
<1>2. CASE steps[r][k].status = "running"
    <2>1. Interrupted(r)[k] = [steps[r][k] EXCEPT !.status = "failed", !.epoch = runs[r].epoch]
        BY <1>2 DEF Interrupted
    <2>2. [steps[r][k] EXCEPT !.status = "failed", !.epoch = runs[r].epoch] \in StepRow
        BY <1>1 DEF StepRow
    <2>3. Interrupted(r)[k].status = "failed" /\ Interrupted(r)[k].epoch = runs[r].epoch
        BY <1>1, <2>1 DEF StepRow
    <2>. QED  BY <1>1, <1>2, <2>1, <2>2, <2>3
<1>3. CASE steps[r][k].status # "running"
    BY <1>1, <1>3 DEF Interrupted
<1>. QED  BY <1>2, <1>3

\* The steps of r are interrupted while the run goes over to a new epoch or ends.
LEMMA StepsInterrupted ==
    ASSUME LedgerInv, NEW r \in Run, runs' \in [Run -> RunRow],
           runs'[r].status \notin {"absent", "queued"}, runs[r].epoch <= runs'[r].epoch,
           \A q \in Run \ {r} : runs'[q] = runs[q],
           steps' = [steps EXCEPT ![r] = Interrupted(r)]
    PROVE  /\ steps' \in [Run -> [Step -> StepRow]]
           /\ EpochInv' /\ HistoryInv' /\ StepsHaveOneOwner' /\ \A q \in Run : Keeps(q)
<1>1. /\ steps' \in [Run -> [Step -> StepRow]]
      /\ steps'[r] = Interrupted(r)
      /\ \A q \in Run \ {r} : steps'[q] = steps[q]
    BY InterruptedSteps DEF LedgerInv, LedgerTypeOK
<1>2. EpochInv'
    <2>1. runs[r].epoch \in Nat /\ runs'[r].epoch \in Nat /\ \A k \in Step : steps'[r][k].epoch \in Nat
        BY <1>1 DEF LedgerInv, LedgerTypeOK, RunRow, StepRow
    <2>. QED  BY <1>1, <2>1, InterruptedSteps DEF LedgerInv, EpochInv
<1>3. \A q \in Run : Keeps(q)  BY <1>1, InterruptedSteps DEF Keeps
<1>4. HistoryInv'
    <2>. SUFFICES ASSUME NEW q \in Run, NEW k \in Step, steps'[q][k].status = "succeeded", NEW j \in 1..k
                  PROVE  steps'[q][j].status = "succeeded" /\ steps'[q][j].epoch <= steps'[q][k].epoch
        BY DEF HistoryInv
    <2>1. steps[q][k].status = "succeeded"  BY <1>1, InterruptedSteps
    <2>2. j \in Step  BY Sets DEF Step
    <2>3. steps[q][j].status = "succeeded" /\ steps[q][j].epoch <= steps[q][k].epoch
        BY <2>1 DEF LedgerInv, HistoryInv
    <2>. QED  BY <1>3, <2>1, <2>2, <2>3 DEF Keeps
<1>5. StepsHaveOneOwner'
    BY <1>1, InterruptedSteps DEF LedgerInv, StepsHaveOneOwner
<1>. QED  BY <1>1, <1>2, <1>3, <1>4, <1>5

LEMMA TakesOver ==
    ASSUME LedgerInv, NEW r \in Run, NEW token \in Token, NEW g \in Generation,
           runs[r].status = "running", TakeOver(r, token, g), UNCHANGED material
    PROVE  LedgerInv' /\ \A q \in Run : Keeps(q)
<1>1. /\ runs' \in [Run -> RunRow]
      /\ runs'[r].status = "running" /\ runs'[r].epoch = runs[r].epoch + 1
      /\ runs[r].epoch \in Nat
      /\ \A q \in Run \ {r} : runs'[q] = runs[q]
    BY ClaimedRun DEF LedgerInv, TakeOver
<1>2. state' = state /\ steps' = [steps EXCEPT ![r] = Interrupted(r)]  BY DEF TakeOver
<1>. runs[r].epoch <= runs'[r].epoch  BY <1>1
<1>3. /\ steps' \in [Run -> [Step -> StepRow]]
      /\ EpochInv' /\ HistoryInv' /\ StepsHaveOneOwner' /\ \A q \in Run : Keeps(q)
    BY <1>1, <1>2, StepsInterrupted
<1>4. LedgerTypeOK'  BY <1>1, <1>2, <1>3 DEF LedgerInv, LedgerTypeOK
<1>5. StateOwnsRun'  BY <1>1, <1>2 DEF LedgerInv, StateOwnsRun, Active
<1>6. ChangesAreRemembered'  BY <1>2 DEF LedgerInv, ChangesAreRemembered
<1>. QED  BY <1>3, <1>4, <1>5, <1>6 DEF LedgerInv

\* A run's status, and nothing else, is written.
LEMMA StatusWritten ==
    ASSUME LedgerTypeOK, NEW r \in Run, NEW status \in {"succeeded", "failed"},
           runs' = [runs EXCEPT ![r].status = status]
    PROVE  /\ runs' \in [Run -> RunRow]
           /\ runs'[r].status = status /\ runs'[r].epoch = runs[r].epoch
           /\ runs[r].epoch \in Nat
           /\ \A q \in Run \ {r} : runs'[q] = runs[q]
<1>. DEFINE new == [runs[r] EXCEPT !.status = status]
<1>1. runs[r] \in RunRow  BY DEF LedgerTypeOK
<1>2. new \in RunRow /\ new.status = status /\ new.epoch = runs[r].epoch  BY <1>1 DEF RunRow
<1>3. runs' = [runs EXCEPT ![r] = new]  BY <1>1 DEF LedgerTypeOK
<1>. HIDE DEF new
<1>4. runs'[r] = new /\ \A q \in Run \ {r} : runs'[q] = runs[q]  BY <1>3 DEF LedgerTypeOK
<1>. QED  BY <1>1, <1>2, <1>3, <1>4 DEF LedgerTypeOK, RunRow

\* A run that the project names ends, and the project names none.
LEMMA StateLetsGo ==
    ASSUME LedgerInv, NEW r \in Run, state.active = r,
           runs'[r].status \notin Active,
           \A q \in Run \ {r} : runs'[q] = runs[q],
           state'.active = None, state'.status \notin Active,
           state'.status = "paused" => state'.paused
    PROVE  StateOwnsRun'
<1>1. \A q \in Run \ {r} : runs[q].status \notin Active  BY DEF LedgerInv, StateOwnsRun
<1>. QED  BY <1>1, Sets DEF StateOwnsRun, Active

LEMMA Succeeds ==
    ASSUME LedgerInv, NEW r \in Run, NEW epoch, OwnsResult(r, epoch), LedgerComplete(r, epoch),
           Succeed(r), UNCHANGED material
    PROVE  LedgerInv' /\ \A q \in Run : Keeps(q)
<1>1. /\ runs' \in [Run -> RunRow]
      /\ runs'[r].status = "succeeded" /\ runs'[r].epoch = runs[r].epoch
      /\ \A q \in Run \ {r} : runs'[q] = runs[q]
    BY StatusWritten DEF LedgerInv, Succeed
<1>2. steps' = steps /\ \A k \in Step : steps[r][k].status = "succeeded"
    BY DEF Succeed, LedgerComplete
<1>3. runs[r] \in RunRow /\ state \in StateRow  BY DEF LedgerInv, LedgerTypeOK
<1>4. /\ state' \in StateRow /\ state'.active = None
      /\ state'.status = IF state.paused THEN "paused" ELSE "succeeded"
      /\ state'.paused = state.paused
      /\ state'.due = IF state.paused THEN "never" ELSE "later"
    BY <1>3, Sets DEF Succeed, StateRow, RunRow
<1>5. LedgerTypeOK'  BY <1>1, <1>2, <1>4 DEF LedgerInv, LedgerTypeOK
<1>6. EpochInv' /\ HistoryInv'
    BY <1>1, <1>2 DEF LedgerInv, EpochInv, HistoryInv
<1>7. StepsHaveOneOwner'  BY <1>1, <1>2 DEF LedgerInv, StepsHaveOneOwner
<1>8. StateOwnsRun'  BY <1>1, <1>4, StateLetsGo DEF OwnsResult, Active
<1>9. ChangesAreRemembered'  BY <1>4 DEF ChangesAreRemembered
<1>. QED  BY <1>2, <1>5, <1>6, <1>7, <1>8, <1>9 DEF LedgerInv, Keeps

LEMMA FailsRun ==
    ASSUME LedgerInv, NEW r \in Run, runs[r].status \in Active, NEW needsResearch \in BOOLEAN,
           Fail(r, needsResearch), UNCHANGED material
    PROVE  LedgerInv' /\ \A q \in Run : Keeps(q)
<1>1. /\ runs' \in [Run -> RunRow]
      /\ runs'[r].status = "failed" /\ runs'[r].epoch = runs[r].epoch /\ runs[r].epoch \in Nat
      /\ \A q \in Run \ {r} : runs'[q] = runs[q]
    BY StatusWritten DEF LedgerInv, Fail
<1>2. /\ steps' \in [Run -> [Step -> StepRow]]
      /\ EpochInv' /\ HistoryInv' /\ StepsHaveOneOwner' /\ \A q \in Run : Keeps(q)
    <2>1. runs[r].epoch <= runs'[r].epoch  BY <1>1
    <2>. QED  BY <1>1, <2>1, StepsInterrupted DEF Fail
<1>3. state.active = r  BY DEF LedgerInv, StateOwnsRun
<1>4. /\ state' \in StateRow /\ state'.active = None
      /\ state'.status = IF state.paused THEN "paused"
                         ELSE IF needsResearch THEN "needs_research" ELSE "failed"
      /\ state'.paused = state.paused
      /\ state'.due = IF state.paused THEN "never" ELSE IF needsResearch THEN "now" ELSE "later"
    BY <1>3 DEF Fail, FailedState, LedgerInv, LedgerTypeOK, StateRow
<1>5. LedgerTypeOK'  BY <1>1, <1>2, <1>4 DEF LedgerInv, LedgerTypeOK
<1>6. StateOwnsRun'  BY <1>1, <1>3, <1>4, StateLetsGo DEF Active
<1>7. ChangesAreRemembered'  BY <1>4 DEF ChangesAreRemembered
<1>. QED  BY <1>2, <1>5, <1>6, <1>7 DEF LedgerInv

LEMMA RefusesRun ==
    ASSUME LedgerInv, NEW r \in Run, RefuseRun(r), UNCHANGED material
    PROVE  LedgerInv' /\ \A q \in Run : Keeps(q)
<1>1. CASE runs[r].status = "queued"
    <2>1. /\ runs' \in [Run -> RunRow]
          /\ runs'[r].status = "failed" /\ runs'[r].epoch = runs[r].epoch
          /\ \A q \in Run \ {r} : runs'[q] = runs[q]
        BY <1>1, StatusWritten DEF LedgerInv, RefuseRun
    <2>2. state.active = r  BY <1>1 DEF LedgerInv, StateOwnsRun, Active
    <2>3. /\ state' \in StateRow /\ state'.active = None /\ state'.status = "failed"
          /\ state'.due = "now" /\ steps' = steps
        <3>. DEFINE new == [state EXCEPT !.status = "failed", !.active = None, !.due = "now"]
        <3>1. state \in StateRow  BY DEF LedgerInv, LedgerTypeOK
        <3>2. new \in StateRow /\ new.active = None /\ new.status = "failed" /\ new.due = "now"
            BY <3>1 DEF StateRow
        <3>3. state' = new /\ steps' = steps  BY <1>1, <2>2 DEF RefuseRun
        <3>. HIDE DEF new
        <3>. QED  BY <3>2, <3>3
    <2>4. LedgerTypeOK'  BY <2>1, <2>3 DEF LedgerInv, LedgerTypeOK
    <2>5. EpochInv' /\ HistoryInv'  BY <2>1, <2>3 DEF LedgerInv, EpochInv, HistoryInv
    <2>6. StepsHaveOneOwner'  BY <1>1, <2>1, <2>3 DEF LedgerInv, StepsHaveOneOwner
    <2>7. StateOwnsRun'  BY <2>1, <2>2, <2>3, StateLetsGo DEF Active
    <2>8. ChangesAreRemembered'  BY <2>3 DEF ChangesAreRemembered
    <2>. QED  BY <2>3, <2>4, <2>5, <2>6, <2>7, <2>8 DEF LedgerInv, Keeps
<1>2. CASE runs[r].status # "queued"
    BY <1>2 DEF RefuseRun, LedgerInv, LedgerTypeOK, EpochInv, HistoryInv, StateOwnsRun,
                StepsHaveOneOwner, ChangesAreRemembered, Keeps
<1>. QED  BY <1>1, <1>2

\* The step k of r, and nothing else, is written, and was not completed before.
StepWritten(r, k, row) ==
    /\ UNCHANGED <<material, state, runs>>
    /\ steps' = [steps EXCEPT ![r] = [steps[r] EXCEPT ![k] = row]]

LEMMA WritesStep ==
    ASSUME LedgerInv, NEW r \in Run, NEW k \in Step, NEW row \in StepRow,
           StepWritten(r, k, row),
           steps[r][k].status # "succeeded", row.epoch <= runs[r].epoch,
           row.status = "running" => runs[r].status = "running" /\ row.epoch = runs[r].epoch,
           row.status = "succeeded" =>
               /\ row.epoch = runs[r].epoch
               /\ \A j \in 1..k - 1 : steps[r][j].status = "succeeded"
    PROVE  LedgerInv' /\ \A q \in Run : Keeps(q)
<1>1. /\ steps' \in [Run -> [Step -> StepRow]]
      /\ steps'[r][k] = row
      /\ \A q \in Run, j \in Step : q # r \/ j # k => steps'[q][j] = steps[q][j]
    BY DEF StepWritten, LedgerInv, LedgerTypeOK
<1>2. material' = material /\ state' = state /\ runs' = runs  BY DEF StepWritten
<1>3. LedgerTypeOK'  BY <1>1, <1>2 DEF LedgerInv, LedgerTypeOK
<1>4. EpochInv'  BY <1>1, <1>2 DEF LedgerInv, EpochInv
<1>5. HistoryInv'
    <2>. SUFFICES ASSUME NEW q \in Run, NEW i \in Step, steps'[q][i].status = "succeeded", NEW j \in 1..i
                  PROVE  steps'[q][j].status = "succeeded" /\ steps'[q][j].epoch <= steps'[q][i].epoch
        BY DEF HistoryInv
    <2>1. j \in Step  BY Sets DEF Step
    <2>2. CASE q = r /\ i = k
        <3>1. CASE j = k
            BY <1>1, <2>2, <3>1 DEF StepRow
        <3>2. CASE j # k
            <4>1. j \in 1..k - 1  BY <2>2, <3>2 DEF Step
            <4>. QED  BY <1>1, <2>1, <2>2, <3>2, <4>1 DEF LedgerInv, EpochInv
        <3>. QED  BY <3>1, <3>2
    <2>3. CASE ~(q = r /\ i = k)
        <3>1. steps[q][i].status = "succeeded" /\ steps'[q][i] = steps[q][i]  BY <1>1, <2>3
        <3>2. steps[q][j].status = "succeeded" /\ steps[q][j].epoch <= steps[q][i].epoch
            BY <3>1 DEF LedgerInv, HistoryInv
        <3>3. steps'[q][j] = steps[q][j]  BY <1>1, <2>1, <3>2
        <3>. QED  BY <3>1, <3>2, <3>3
    <2>. QED  BY <2>2, <2>3
<1>6. StepsHaveOneOwner'  BY <1>1, <1>2 DEF LedgerInv, StepsHaveOneOwner
<1>7. StateOwnsRun' /\ ChangesAreRemembered'
    BY <1>2 DEF LedgerInv, StateOwnsRun, ChangesAreRemembered
<1>8. \A q \in Run : Keeps(q)  BY <1>1 DEF Keeps
<1>. QED  BY <1>3, <1>4, <1>5, <1>6, <1>7, <1>8 DEF LedgerInv

----------------------------------------------------------------------------
(* What deliveries, the scan and the jobs remember *)

InStep == {"step", "call", "complete", "fail"}
InExecution == InStep \cup {"load", "persist"}

\* What a delivery's variables say of the steps s: those before its own are completed.
StandsOn(v, s) ==
    /\ v.pc # "idle" => v.run \in Run
    /\ v.pc \in InExecution => v.epoch > 0
    /\ v.pc \in InStep => /\ v.step \in Step
                          /\ \A j \in 1..v.step - 1 : s[v.run][j].status = "succeeded"

DeliveryInv ==
    /\ deliveries \in [Delivery -> DeliveryRow]
    /\ \A d \in Delivery : StandsOn(deliveries[d], steps)

\* The holder of a job is at the attempt that the job counts.
JobInv == \A r \in Run, d \in Delivery :
    jobs[r].holder = d /\ deliveries[d].run = r => jobs[r].made = deliveries[d].made

\* A scan on its way to a claim saw budget left.
ScanInv ==
    /\ scan.pc # "idle" => scan.run \in Run
    /\ scan.pc = "claim" => scan.count < MaxRecovery

RestTypeOK ==
    /\ jobs \in [Run -> Job]
    /\ audits \in [Run -> [Generation -> AuditStatus]]
    /\ scan \in ScanRow
    /\ left \in [changes : Nat, commands : Nat, mishaps : Nat]
    /\ enqueues \subseteq Run
    /\ keys \subseteq {"material_dirty", "weekly_scan"} \X Material

IInv == LedgerInv /\ DeliveryInv /\ JobInv /\ ScanInv /\ RestTypeOK

LEMMA Empties ==
    /\ NoJob \in Job /\ NoJob.holder = None
    /\ NoDelivery \in DeliveryRow /\ NoDelivery.pc = "idle" /\ NoDelivery.run = None
    /\ NoScan \in ScanRow /\ NoScan.pc = "idle"
    /\ None \notin Delivery
<1>1. NoJob \in Job /\ NoJob.holder = None  BY Sets DEF NoJob, Job
<1>2. NoDelivery \in DeliveryRow /\ NoDelivery.pc = "idle" /\ NoDelivery.run = None
    BY Sets DEF NoDelivery, DeliveryRow, Error
<1>3. NoScan \in ScanRow /\ NoScan.pc = "idle"  BY Sets DEF NoScan, ScanRow
<1>. QED  BY <1>1, <1>2, <1>3, WorkConstants

LEMMA Begins == ASSUME Init PROVE IInv
<1>. USE DEF Init, WorkInit
<1>1. LedgerInv  BY LedgerBegins
<1>2. DeliveryInv  BY Empties DEF DeliveryInv, StandsOn, InStep, InExecution
<1>3. JobInv /\ ScanInv  BY Empties DEF JobInv, ScanInv
<1>4. RestTypeOK  BY Empties, WorkConstants DEF RestTypeOK, AuditStatus
<1>. QED  BY <1>1, <1>2, <1>3, <1>4 DEF IInv

\* Delivery d goes on to a row that stands on the steps there are then, for the same job or
\* for none.
Turns(d) == \E v \in DeliveryRow :
    /\ deliveries' = [deliveries EXCEPT ![d] = v]
    /\ StandsOn(v, steps')
    /\ \/ v.run = None
       \/ v.run = deliveries[d].run /\ v.made = deliveries[d].made

\* No delivery becomes the holder of a job.
NobodyTakes == \A q \in Run, e \in Delivery :
    jobs'[q].holder = e => jobs[q].holder = e /\ jobs'[q].made = jobs[q].made

LEMMA StandsStill ==
    ASSUME NEW v, NEW s, NEW t, StandsOn(v, s), v.pc # "idle",
           \A k \in Step : s[v.run][k].status = "succeeded" => t[v.run][k] = s[v.run][k]
    PROVE  StandsOn(v, t)
<1>1. ASSUME v.step \in Step, NEW j \in 1..v.step - 1
      PROVE  j \in Step
    BY <1>1, Sets DEF Step
<1>. QED  BY <1>1 DEF StandsOn

LEMMA DeliveriesTurn ==
    ASSUME DeliveryInv, JobInv, NobodyTakes, NEW d \in Delivery,
           Turns(d) \/ UNCHANGED deliveries,
           \A e \in Delivery : deliveries[e].pc # "idle" => Keeps(deliveries[e].run)
    PROVE  DeliveryInv' /\ JobInv'
<1>1. \A e \in Delivery : StandsOn(deliveries[e], steps')
    <2>. SUFFICES ASSUME NEW e \in Delivery PROVE StandsOn(deliveries[e], steps')
        OBVIOUS
    <2>1. CASE deliveries[e].pc = "idle"  BY <2>1 DEF StandsOn, InExecution, InStep
    <2>2. CASE deliveries[e].pc # "idle"
        BY <2>2, StandsStill DEF DeliveryInv, Keeps
    <2>. QED  BY <2>1, <2>2
<1>2. CASE UNCHANGED deliveries
    BY <1>1, <1>2 DEF DeliveryInv, JobInv, NobodyTakes
<1>3. CASE Turns(d)
    <2>1. PICK v \in DeliveryRow :
            /\ deliveries' = [deliveries EXCEPT ![d] = v]
            /\ StandsOn(v, steps')
            /\ \/ v.run = None
               \/ v.run = deliveries[d].run /\ v.made = deliveries[d].made
        BY <1>3 DEF Turns
    <2>2. /\ deliveries' \in [Delivery -> DeliveryRow]
          /\ deliveries'[d] = v /\ \A e \in Delivery \ {d} : deliveries'[e] = deliveries[e]
        BY <2>1 DEF DeliveryInv
    <2>3. DeliveryInv'  BY <1>1, <2>1, <2>2 DEF DeliveryInv
    <2>4. JobInv'  BY <2>1, <2>2, Sets DEF JobInv, NobodyTakes
    <2>. QED  BY <2>3, <2>4
<1>. QED  BY <1>2, <1>3

\* Errors, and moves between the places of an execution, are turns.
LEMMA Leaving ==
    ASSUME NEW d \in Delivery, deliveries' = [deliveries EXCEPT ![d] = NoDelivery]
    PROVE  Turns(d)
BY Empties DEF Turns, StandsOn, InExecution, InStep

LEMMA Raising ==
    ASSUME DeliveryInv, NEW d \in Delivery, deliveries[d].pc # "idle",
           NEW pc \in {"end", "settle"}, NEW error \in Error, Raises(d, pc, error)
    PROVE  Turns(d)
<1>1. CASE deliveries[d].orphan
    BY <1>1, Leaving DEF Raises
<1>2. CASE ~deliveries[d].orphan
    <2>. DEFINE v == [deliveries[d] EXCEPT !.pc = pc, !.error = error]
    <2>1. deliveries[d] \in DeliveryRow  BY DEF DeliveryInv
    <2>2. deliveries' = [deliveries EXCEPT ![d] = v]  BY <1>2 DEF Raises
    <2>3. /\ v \in DeliveryRow
          /\ v.pc = pc /\ v.run = deliveries[d].run /\ v.made = deliveries[d].made
        BY <2>1 DEF DeliveryRow
    <2>4. StandsOn(v, steps')  BY <2>3 DEF DeliveryInv, StandsOn, InExecution, InStep
    <2>. HIDE DEF v
    <2>. QED  BY <2>2, <2>3, <2>4 DEF Turns
<1>. QED  BY <1>1, <1>2

LEMMA Going ==
    ASSUME DeliveryInv, NEW d \in Delivery, deliveries[d].pc # "idle", Keeps(deliveries[d].run),
           NEW pc, Goes(d, pc),
           \/ pc = "end"
           \/ pc \in {"complete", "fail"} /\ deliveries[d].pc \in {"call", "complete"}
    PROVE  Turns(d)
<1>. DEFINE v == [deliveries[d] EXCEPT !.pc = pc]
<1>1. deliveries[d] \in DeliveryRow  BY DEF DeliveryInv
<1>2. deliveries' = [deliveries EXCEPT ![d] = v]  BY DEF Goes
<1>3. /\ v \in DeliveryRow
      /\ v.pc = pc /\ v.run = deliveries[d].run /\ v.made = deliveries[d].made
      /\ v.epoch = deliveries[d].epoch /\ v.step = deliveries[d].step
    BY <1>1 DEF DeliveryRow
<1>4. StandsOn(v, steps)  BY <1>3 DEF DeliveryInv, StandsOn, InExecution, InStep
<1>. HIDE DEF v
<1>5. v.pc # "idle"  BY <1>3
<1>6. StandsOn(v, steps')  BY <1>3, <1>4, <1>5, StandsStill DEF Keeps
<1>. QED  BY <1>2, <1>3, <1>6 DEF Turns

LEMMA Paying ==
    ASSUME RestTypeOK, NEW what \in {"changes", "commands", "mishaps"}, Pays(what)
    PROVE  left' \in [changes : Nat, commands : Nat, mishaps : Nat]
BY DEF RestTypeOK, Pays

LEMMA Auditing ==
    ASSUME RestTypeOK, NEW r \in Run, NEW g \in Generation, NEW status \in AuditStatus,
           Audited(r, g, status)
    PROVE  audits' \in [Run -> [Generation -> AuditStatus]]
BY DEF RestTypeOK, Audited

LEMMA Adding ==
    ASSUME RestTypeOK, NEW r \in Run, NEW g \in Generation, jobs' = AddedJob(r, g)
    PROVE  jobs' \in [Run -> Job] /\ NobodyTakes
<1>. DEFINE new == [NoJob EXCEPT !.state = "waiting", !.generation = g]
<1>1. new \in Job /\ new.holder = None  BY Empties DEF Job, NoJob
<1>2. jobs' = [jobs EXCEPT ![r] = new]  BY DEF AddedJob
<1>. HIDE DEF new
<1>. QED  BY <1>1, <1>2, Empties DEF RestTypeOK, NobodyTakes

LEMMA Releasing ==
    ASSUME RestTypeOK, DeliveryInv, JobInv, NEW d \in Delivery, deliveries[d].pc # "idle",
           NEW outcome \in {"completed", "failed", "retrying"},
           outcome = "retrying" => ~Final(d), Releases(d, outcome)
    PROVE  /\ jobs' \in [Run -> Job] /\ NobodyTakes
           /\ audits' \in [Run -> [Generation -> AuditStatus]]
<1>. DEFINE r == deliveries[d].run
<1>1. r \in Run /\ deliveries[d] \in DeliveryRow  BY DEF DeliveryInv, StandsOn
<1>2. audits' \in [Run -> [Generation -> AuditStatus]]
    BY <1>1, Auditing DEF Releases, RunOf, DeliveryRow, AuditStatus, ActiveAudit
<1>3. CASE jobs[r].holder # d
    BY <1>2, <1>3 DEF Releases, RunOf, RestTypeOK, NobodyTakes
<1>4. CASE jobs[r].holder = d
    <2>1. jobs[r] \in Job /\ jobs[r].made = deliveries[d].made
        BY <1>1, <1>4 DEF RestTypeOK, JobInv
    <2>2. outcome = "retrying" => jobs[r].made + 1 \in 0..MaxAttempts - 1
        BY <1>1, <2>1, Sets DEF Final, DeliveryRow, Job
    <2>3. PICK new \in Job : new.holder = None /\ jobs' = [jobs EXCEPT ![r] = new]
        <3>. DEFINE new == [jobs[r] EXCEPT !.holder = None,
                                !.state = IF outcome = "retrying" THEN "waiting" ELSE outcome,
                                !.made = IF outcome = "retrying" THEN jobs[r].made + 1 ELSE jobs[r].made]
        <3>1. jobs' = [jobs EXCEPT ![r] = new]
            BY <1>1, <1>4, <2>1 DEF Releases, RunOf, RestTypeOK, Job
        <3>2. new \in Job /\ new.holder = None
            BY <2>1, <2>2 DEF Job
        <3>. QED  BY <3>1, <3>2
    <2>4. jobs' \in [Run -> Job]  BY <2>3 DEF RestTypeOK
    <2>5. NobodyTakes  BY <1>1, <2>3, Empties DEF RestTypeOK, NobodyTakes
    <2>. QED  BY <1>2, <2>4, <2>5
<1>. QED  BY <1>2, <1>3, <1>4

----------------------------------------------------------------------------
(* The steps *)

\* What a step does to the completed steps: they stay, unless an admission of the run
\* starts it anew.
Onward == \A q \in Run : runs'[q].status \notin {"absent", "queued"} => Keeps(q)

StepKeeps == IInv' /\ Onward

KeepAll == \A q \in Run : Keeps(q)

\* A step that keeps the completed steps and the variables of deliveries, jobs and scan
LEMMA RowsOnly ==
    ASSUME IInv, LedgerInv', KeepAll, UNCHANGED <<deliveries, jobs, scan>>, RestTypeOK'
    PROVE  StepKeeps
<1>1. \A e \in Delivery : deliveries[e].pc # "idle" => Keeps(deliveries[e].run)
    BY DEF IInv, DeliveryInv, StandsOn, KeepAll
<1>2. \A e \in Delivery : StandsOn(deliveries[e], steps')
    <2>. SUFFICES ASSUME NEW e \in Delivery PROVE StandsOn(deliveries[e], steps')
        OBVIOUS
    <2>1. CASE deliveries[e].pc = "idle"  BY <2>1 DEF StandsOn, InExecution, InStep
    <2>2. CASE deliveries[e].pc # "idle"
        BY <1>1, <2>2, StandsStill DEF IInv, DeliveryInv, Keeps
    <2>. QED  BY <2>1, <2>2
<1>3. DeliveryInv'  BY <1>2 DEF IInv, DeliveryInv
<1>4. JobInv' /\ ScanInv'  BY DEF IInv, JobInv, ScanInv
<1>. QED  BY <1>3, <1>4 DEF IInv, StepKeeps, Onward, KeepAll

\* A step of a delivery
LEMMA DeliveryOnly ==
    ASSUME IInv, LedgerInv', KeepAll, NEW d \in Delivery, Turns(d) \/ UNCHANGED deliveries,
           NobodyTakes, UNCHANGED scan, RestTypeOK'
    PROVE  StepKeeps
<1>1. \A e \in Delivery : deliveries[e].pc # "idle" => Keeps(deliveries[e].run)
    BY DEF IInv, DeliveryInv, StandsOn, KeepAll
<1>2. DeliveryInv' /\ JobInv'  BY <1>1, DeliveriesTurn DEF IInv
<1>3. ScanInv'  BY DEF IInv, ScanInv
<1>. QED  BY <1>2, <1>3 DEF IInv, StepKeeps, Onward, KeepAll

LEMMA SameRows == ASSUME IInv, UNCHANGED ledgerVars PROVE LedgerInv' /\ KeepAll
BY DEF ledgerVars, IInv, LedgerInv, LedgerTypeOK, EpochInv, HistoryInv, StateOwnsRun,
       StepsHaveOneOwner, ChangesAreRemembered, Keeps, KeepAll

LEMMA SameJobs == ASSUME UNCHANGED jobs PROVE NobodyTakes
BY DEF NobodyTakes

LEMMA StateOf == ASSUME IInv PROVE
    /\ material \in Material /\ state \in StateRow
    /\ state.status \in Active <=> state.active # None
    /\ state.status = "paused" => state.paused
BY DEF IInv, LedgerInv, LedgerTypeOK, StateOwnsRun

LEMMA MaterialStep ==
    ASSUME IInv, NEW m \in Material, ChangeMaterial(m)
    PROVE  StepKeeps
<1>. DEFINE busy == state.status \in {"paused", "queued", "running"}
<1>1. /\ state' \in StateRow
      /\ state'.status = IF busy THEN state.status ELSE "needs_research"
      /\ state'.active = state.active /\ state'.paused = state.paused
      /\ state'.due = IF busy THEN "never" ELSE "now"
    BY StateOf DEF ChangeMaterial, StateRow
<1>2. ChangesAreRemembered'
    BY <1>1, StateOf DEF ChangesAreRemembered, Active
<1>3. LedgerInv' /\ KeepAll
    BY <1>1, <1>2, StateOf, StateChanges DEF ChangeMaterial, IInv, Active, KeepAll
<1>4. RestTypeOK'  BY Paying DEF ChangeMaterial, IInv, RestTypeOK
<1>. QED  BY <1>3, <1>4, RowsOnly DEF ChangeMaterial

LEMMA PauseStep ==
    ASSUME IInv, NEW paused \in BOOLEAN, UpdatePause(paused)
    PROVE  StepKeeps
<1>1. /\ state' \in StateRow
      /\ state'.status = IF paused THEN IF state.status \in Active THEN state.status ELSE "paused"
                         ELSE IF state.status = "paused" THEN "needs_research" ELSE state.status
      /\ state'.active = state.active /\ state'.paused = paused
      /\ state'.due = IF paused THEN "never" ELSE "now"
    BY StateOf DEF UpdatePause, StateRow, Active
<1>2. ChangesAreRemembered'
    BY <1>1 DEF ChangesAreRemembered
<1>3. LedgerInv' /\ KeepAll
    BY <1>1, <1>2, StateOf, StateChanges DEF UpdatePause, IInv, Active, KeepAll
<1>4. RestTypeOK'  BY Paying DEF UpdatePause, IInv, RestTypeOK
<1>. QED  BY <1>3, <1>4, RowsOnly DEF UpdatePause

LEMMA PostponeStep == ASSUME IInv, Postpone PROVE StepKeeps
<1>1. /\ state' \in StateRow
      /\ state'.status = "needs_research"
      /\ state'.active = state.active /\ state'.paused = state.paused
      /\ state'.due = "later"
    BY StateOf DEF Postpone, StateRow
<1>2. ChangesAreRemembered'
    BY <1>1 DEF ChangesAreRemembered
<1>3. LedgerInv' /\ KeepAll
    BY <1>1, <1>2, StateOf, StateChanges DEF Postpone, Due, IInv, Active, KeepAll
<1>4. RestTypeOK'  BY DEF Postpone, IInv, RestTypeOK
<1>. QED  BY <1>3, <1>4, RowsOnly DEF Postpone

LEMMA DayStep == ASSUME IInv, DayPasses PROVE StepKeeps
<1>1. /\ state' \in StateRow
      /\ state'.status = state.status /\ state'.last = state.last
      /\ state'.active = state.active /\ state'.paused = state.paused
      /\ state'.due = IF state.due = "later" THEN "now" ELSE state.due
    BY StateOf DEF DayPasses, StateRow
<1>2. ChangesAreRemembered'
    BY <1>1 DEF DayPasses, IInv, LedgerInv, ChangesAreRemembered
<1>3. LedgerInv' /\ KeepAll
    BY <1>1, <1>2, StateOf, StateChanges DEF DayPasses, IInv, Active, KeepAll
<1>4. RestTypeOK'  BY DEF DayPasses, IInv, RestTypeOK
<1>. QED  BY <1>3, <1>4, RowsOnly DEF DayPasses

\* An admission is for a project without an active run, and nobody is at work on a run
\* whose rows it drops.
LEMMA AdmitStep ==
    ASSUME IInv, NEW source \in {"user", "scheduler"}, NEW audit \in AuditStatus,
           AdmitRun(source, audit), state.active = None,
           UNCHANGED <<material, deliveries, scan>>,
           left' \in [changes : Nat, commands : Nat, mishaps : Nat],
           keys' \subseteq {"material_dirty", "weekly_scan"} \X Material
    PROVE  StepKeeps
<1>. DEFINE r == CHOOSE q \in Run : Over(q)
            dropped == {q \in Run : Over(q)}
<1>1. r \in dropped  BY DEF AdmitRun
<1>2. /\ Admit(r, dropped, source)
      /\ jobs' = [q \in Run |-> IF Over(q) THEN NoJob ELSE jobs[q]]
      /\ audits' = [q \in Run |-> IF ~Over(q) THEN audits[q] ELSE
            [g \in Generation |-> IF q = r /\ g = 0 THEN audit ELSE "absent"]]
      /\ enqueues' = enqueues \cup {r}
    BY DEF AdmitRun
<1>3. \A q \in dropped : runs[q].status \notin Active /\ \A d \in Delivery : deliveries[d].run # q
    BY DEF Over
<1>4. dropped \subseteq Run  OBVIOUS
<1>. HIDE DEF r
<1>5. RestTypeOK'
    BY <1>1, <1>2, Empties, Sets DEF IInv, RestTypeOK, AuditStatus
<1>6. NobodyTakes
    BY <1>2, Empties DEF NobodyTakes
<1>. HIDE DEF dropped
<1>7. /\ LedgerInv' /\ \A q \in Run \ dropped : Keeps(q)
      /\ \A q \in dropped : runs'[q].status \in {"absent", "queued"}
    BY <1>1, <1>2, <1>3, <1>4, Admits DEF IInv
<1>8. \A e \in Delivery : deliveries[e].pc # "idle" => Keeps(deliveries[e].run)
    BY <1>3, <1>7 DEF IInv, DeliveryInv, StandsOn
<1>9. DeliveryInv'
    <2>. SUFFICES ASSUME NEW e \in Delivery PROVE StandsOn(deliveries[e], steps')
        BY DEF IInv, DeliveryInv
    <2>1. CASE deliveries[e].pc = "idle"  BY <2>1 DEF StandsOn, InExecution, InStep
    <2>2. CASE deliveries[e].pc # "idle"
        BY <1>8, <2>2, StandsStill DEF IInv, DeliveryInv, Keeps
    <2>. QED  BY <2>1, <2>2
<1>10. JobInv'  BY <1>6 DEF IInv, JobInv, NobodyTakes
<1>11. ScanInv'  BY DEF IInv, ScanInv
<1>. QED  BY <1>5, <1>7, <1>9, <1>10, <1>11 DEF IInv, StepKeeps, Onward

LEMMA RerunStep == ASSUME IInv, Rerun PROVE StepKeeps
<1>1. state.active = None
    BY DEF Rerun, IInv, LedgerInv, LedgerTypeOK, StateOwnsRun, StateRow
<1>2. left' \in [changes : Nat, commands : Nat, mishaps : Nat]
    BY Paying DEF Rerun, IInv
<1>3. keys' \subseteq {"material_dirty", "weekly_scan"} \X Material
    BY DEF Rerun, IInv, RestTypeOK
<1>. QED  BY <1>1, <1>2, <1>3, AdmitStep DEF Rerun, AuditStatus

LEMMA ScheduleStep == ASSUME IInv, Schedule PROVE StepKeeps
<1>1. left' \in [changes : Nat, commands : Nat, mishaps : Nat]
    BY DEF Schedule, IInv, RestTypeOK
<1>2. keys' \subseteq {"material_dirty", "weekly_scan"} \X Material
    BY StateOf DEF Schedule, IInv, RestTypeOK
<1>. QED  BY <1>1, <1>2, AdmitStep DEF Schedule, Due, AuditStatus, ActiveAudit

LEMMA EnqueueStep == ASSUME IInv, NEW r \in Run, Enqueue(r) PROVE StepKeeps
<1>1. LedgerInv' /\ KeepAll
    <2>1. CASE UNCHANGED <<state, runs, steps>>
        BY <2>1, SameRows DEF Enqueue, ledgerVars
    <2>2. CASE RefuseRun(r)
        BY <2>2, RefusesRun DEF Enqueue, IInv, KeepAll
    <2>3. CASE runs[r].status \in Active /\ Fail(r, FALSE)
        BY <2>3, FailsRun DEF Enqueue, IInv, KeepAll
    <2>. QED  BY <2>1, <2>2, <2>3 DEF Enqueue
<1>2. jobs' \in [Run -> Job] /\ NobodyTakes
    <2>1. CASE jobs' = jobs  BY <2>1, SameJobs DEF IInv, RestTypeOK
    <2>2. CASE jobs' = AddedJob(r, 0)  BY <2>2, Adding, Sets DEF IInv
    <2>. QED  BY <2>1, <2>2 DEF Enqueue
<1>3. audits' \in [Run -> [Generation -> AuditStatus]]
    <2>1. CASE audits' = audits  BY <2>1 DEF IInv, RestTypeOK
    <2>2. CASE Audited(r, 0, "queued") \/ Audited(r, 0, "failed")
        BY <2>2, Auditing, Sets DEF IInv, AuditStatus, ActiveAudit
    <2>. QED  BY <2>1, <2>2 DEF Enqueue
<1>4. left' \in [changes : Nat, commands : Nat, mishaps : Nat]
    BY Paying DEF Enqueue, IInv, RestTypeOK
<1>5. RestTypeOK'  BY <1>2, <1>3, <1>4 DEF Enqueue, IInv, RestTypeOK
<1>6. \A e \in Delivery : deliveries[e].pc # "idle" => Keeps(deliveries[e].run)
    BY <1>1 DEF IInv, DeliveryInv, StandsOn, KeepAll
<1>7. DeliveryInv' /\ JobInv'
    <2>1. CASE Delivery = {}
        BY <2>1 DEF Enqueue, IInv, DeliveryInv, JobInv
    <2>2. CASE Delivery # {}
        BY <1>2, <1>6, <2>2, DeliveriesTurn DEF Enqueue, IInv
    <2>. QED  BY <2>1, <2>2
<1>8. ScanInv'  BY DEF Enqueue, IInv, ScanInv
<1>. QED  BY <1>1, <1>5, <1>7, <1>8 DEF IInv, StepKeeps, Onward, KeepAll

LEMMA AbandonStep == ASSUME IInv, NEW r \in Run, Abandon(r) PROVE StepKeeps
<1>1. LedgerInv' /\ KeepAll  BY SameRows DEF Abandon
<1>2. RestTypeOK'  BY Paying DEF Abandon, IInv, RestTypeOK
<1>. QED  BY <1>1, <1>2, RowsOnly DEF Abandon

\* Steps of the queue and of the scan keep the rows or end the run of the scan.
LEMMA JobsAndScan ==
    ASSUME IInv, LedgerInv', KeepAll, UNCHANGED deliveries, NobodyTakes, ScanInv', RestTypeOK'
    PROVE  StepKeeps
<1>1. \A e \in Delivery : deliveries[e].pc # "idle" => Keeps(deliveries[e].run)
    BY DEF IInv, DeliveryInv, StandsOn, KeepAll
<1>2. DeliveryInv' /\ JobInv'
    <2>1. CASE Delivery = {}
        BY <2>1 DEF IInv, DeliveryInv, JobInv
    <2>2. CASE Delivery # {}
        BY <1>1, <2>2, DeliveriesTurn DEF IInv
    <2>. QED  BY <2>1, <2>2
<1>. QED  BY <1>2 DEF IInv, StepKeeps, Onward, KeepAll

LEMMA LockStep ==
    ASSUME IInv, NEW r \in Run, LockExpires(r),
           UNCHANGED left \/ Pays("mishaps"), UNCHANGED <<enqueues, keys>>
    PROVE  StepKeeps
<1>1. LedgerInv' /\ KeepAll  BY SameRows DEF LockExpires
<1>2. PICK new \in Job : new.holder = None /\ jobs' = [jobs EXCEPT ![r] = new]
    <2>1. PICK state_ \in {"waiting", "failed"} :
            jobs' = [jobs EXCEPT ![r].state = state_, ![r].holder = None]
        BY DEF LockExpires
    <2>2. jobs[r] \in Job  BY DEF IInv, RestTypeOK
    <2>3. [jobs[r] EXCEPT !.state = state_, !.holder = None] \in Job  BY <2>2 DEF Job
    <2>4. [jobs[r] EXCEPT !.state = state_, !.holder = None].holder = None  BY <2>2 DEF Job
    <2>5. jobs' = [jobs EXCEPT ![r] = [jobs[r] EXCEPT !.state = state_, !.holder = None]]
        BY <2>1, <2>2 DEF IInv, RestTypeOK
    <2>. QED  BY <2>3, <2>4, <2>5
<1>3. NobodyTakes  BY <1>2, Empties DEF IInv, RestTypeOK, NobodyTakes
<1>4. RestTypeOK'  BY <1>2, Paying DEF LockExpires, IInv, RestTypeOK
<1>5. ScanInv'  BY DEF LockExpires, IInv, ScanInv
<1>. QED  BY <1>1, <1>3, <1>4, <1>5, JobsAndScan DEF LockExpires

\* The scan puts a run back only while its recoveries are not used up.
LEMMA ReenqueueHasBudget ==
    ASSUME IInv, NEW r \in Run, Decision(r) = "reenqueue"
    PROVE  runs[r].count < MaxRecovery
<1>1. runs[r].count \in Nat /\ MaxRecovery \in Nat
    BY Sets DEF IInv, LedgerInv, LedgerTypeOK, RunRow, Generation
<1>. QED
    BY <1>1 DEF Decision, ClassifyWorkRecovery, RecoveryExhausted, LeftAlone

LEMMA ObserveStep ==
    ASSUME IInv, NEW r \in Run, Observe(r), UNCHANGED <<enqueues, keys>>
    PROVE  StepKeeps
<1>1. LedgerInv' /\ KeepAll  BY SameRows DEF Observe
<1>2. runs[r].count \in Generation  BY DEF IInv, LedgerInv, LedgerTypeOK, RunRow
<1>3. scan' \in ScanRow /\ ScanInv'
    BY <1>2, ReenqueueHasBudget DEF Observe, ScanRow, ScanInv
<1>4. jobs' \in [Run -> Job] /\ NobodyTakes
    BY Empties DEF Observe, IInv, RestTypeOK, NobodyTakes
<1>5. RestTypeOK'  BY <1>3, <1>4 DEF Observe, IInv, RestTypeOK
<1>. QED  BY <1>1, <1>3, <1>4, <1>5, JobsAndScan DEF Observe

LEMMA CountWritten ==
    ASSUME LedgerInv, NEW r \in Run, NEW n \in Generation,
           runs' = [runs EXCEPT ![r].count = n], UNCHANGED <<material, state, steps>>
    PROVE  LedgerInv' /\ KeepAll
<1>1. runs[r] \in RunRow  BY DEF LedgerInv, LedgerTypeOK
<1>2. [runs[r] EXCEPT !.count = n] \in RunRow  BY <1>1 DEF RunRow
<1>3. runs' = [runs EXCEPT ![r] = [runs[r] EXCEPT !.count = n]]
    BY <1>1 DEF LedgerInv, LedgerTypeOK
<1>4. runs' \in [Run -> RunRow]  BY <1>2, <1>3 DEF LedgerInv, LedgerTypeOK
<1>5. \A q \in Run : runs'[q].status = runs[q].status /\ runs'[q].epoch = runs[q].epoch
    BY <1>1, <1>3 DEF LedgerInv, LedgerTypeOK, RunRow
<1>. QED
    BY <1>4, <1>5 DEF LedgerInv, LedgerTypeOK, EpochInv, HistoryInv, StateOwnsRun,
        StepsHaveOneOwner, ChangesAreRemembered, Keeps, KeepAll

LEMMA ScanEnds ==
    ASSUME scan' = NoScan
    PROVE  scan' \in ScanRow /\ ScanInv'
BY Empties DEF ScanInv

LEMMA ClaimRecoveryStep ==
    ASSUME IInv, ClaimRecovery, UNCHANGED <<enqueues, keys>>
    PROVE  StepKeeps
<1>. DEFINE r == scan.run
<1>1. r \in Run /\ scan \in ScanRow /\ scan.count + 1 \in Generation
    BY Sets DEF ClaimRecovery, IInv, ScanInv, RestTypeOK, ScanRow, Generation
<1>2. LedgerInv' /\ KeepAll
    <2>1. CASE UNCHANGED runs
        BY <2>1, SameRows DEF ClaimRecovery, ledgerVars
    <2>2. CASE runs' = [runs EXCEPT ![r].count = @ + 1] /\ runs[r].count = scan.count
        <3>1. runs[r] \in RunRow  BY <1>1 DEF IInv, LedgerInv, LedgerTypeOK
        <3>2. runs' = [runs EXCEPT ![r].count = scan.count + 1]
            BY <1>1, <2>2, <3>1 DEF IInv, LedgerInv, LedgerTypeOK
        <3>. QED  BY <1>1, <3>2, CountWritten DEF ClaimRecovery, IInv
    <2>. QED  BY <2>1, <2>2 DEF ClaimRecovery
<1>3. audits' \in [Run -> [Generation -> AuditStatus]]
    <2>1. CASE audits' = audits  BY <2>1 DEF IInv, RestTypeOK
    <2>2. CASE Audited(r, scan.count + 1, "queued")
        BY <1>1, <2>2, Auditing DEF IInv, AuditStatus, ActiveAudit
    <2>. QED  BY <2>1, <2>2 DEF ClaimRecovery
<1>4. scan' \in ScanRow /\ ScanInv'
    <2>1. CASE scan' = [scan EXCEPT !.pc = "add"]
        BY <1>1, <2>1 DEF ScanRow, ScanInv
    <2>2. CASE scan' = [scan EXCEPT !.pc = "add", !.count = @ + 1]
        BY <1>1, <2>2 DEF ScanRow, ScanInv
    <2>3. CASE scan' = NoScan  BY <2>3, ScanEnds
    <2>. QED  BY <2>1, <2>2, <2>3 DEF ClaimRecovery
<1>5. RestTypeOK'  BY <1>3, <1>4 DEF ClaimRecovery, IInv, RestTypeOK
<1>6. NobodyTakes  BY SameJobs DEF ClaimRecovery
<1>. QED  BY <1>2, <1>4, <1>5, <1>6, JobsAndScan DEF ClaimRecovery

LEMMA AddRecoveryStep ==
    ASSUME IInv, AddRecovery, UNCHANGED <<enqueues, keys>>
    PROVE  StepKeeps
<1>. DEFINE r == scan.run
<1>1. r \in Run /\ scan.count \in Generation
    BY DEF AddRecovery, IInv, ScanInv, RestTypeOK, ScanRow
<1>2. LedgerInv' /\ KeepAll  BY SameRows DEF AddRecovery
<1>3. jobs' \in [Run -> Job] /\ NobodyTakes
    <2>1. CASE jobs' = jobs  BY <2>1, SameJobs DEF IInv, RestTypeOK
    <2>2. CASE jobs' = AddedJob(r, scan.count)  BY <1>1, <2>2, Adding DEF IInv
    <2>3. CASE jobs' = [jobs EXCEPT ![r] = NoJob]
        BY <1>1, <2>3, Empties DEF IInv, RestTypeOK, NobodyTakes
    <2>. QED  BY <2>1, <2>2, <2>3 DEF AddRecovery
<1>4. audits' \in [Run -> [Generation -> AuditStatus]]
    <2>1. CASE audits' = audits  BY <2>1 DEF IInv, RestTypeOK
    <2>2. CASE Audited(r, scan.count, "failed")
        BY <1>1, <2>2, Auditing DEF IInv, AuditStatus
    <2>. QED  BY <2>1, <2>2 DEF AddRecovery
<1>5. scan' \in ScanRow /\ ScanInv'  BY ScanEnds DEF AddRecovery
<1>6. RestTypeOK'  BY <1>3, <1>4, <1>5, Paying DEF AddRecovery, IInv, RestTypeOK
<1>. QED  BY <1>2, <1>3, <1>5, <1>6, JobsAndScan DEF AddRecovery

LEMMA GiveUpStep ==
    ASSUME IInv, GiveUp, UNCHANGED <<enqueues, keys>>
    PROVE  StepKeeps
<1>. DEFINE r == scan.run
<1>1. r \in Run  BY DEF GiveUp, IInv, ScanInv
<1>2. LedgerInv' /\ KeepAll
    <2>1. CASE UNCHANGED <<state, runs, steps>>
        BY <2>1, SameRows DEF GiveUp, ledgerVars
    <2>2. CASE Recoverable(r) /\ Fail(r, FALSE)
        BY <1>1, <2>2, FailsRun DEF GiveUp, Recoverable, IInv, KeepAll
    <2>. QED  BY <2>1, <2>2 DEF GiveUp
<1>3. audits' \in [Run -> [Generation -> AuditStatus]]
    <2>1. CASE audits' = audits  BY <2>1 DEF IInv, RestTypeOK
    <2>2. CASE audits' = [audits EXCEPT ![r] = [g \in Generation |->
                    IF @[g] \in ActiveAudit THEN "failed" ELSE @[g]]]
        BY <1>1, <2>2 DEF IInv, RestTypeOK, AuditStatus
    <2>. QED  BY <2>1, <2>2 DEF GiveUp
<1>4. scan' \in ScanRow /\ ScanInv'  BY ScanEnds DEF GiveUp
<1>5. RestTypeOK'  BY <1>3, <1>4 DEF GiveUp, IInv, RestTypeOK
<1>6. NobodyTakes  BY SameJobs DEF GiveUp
<1>. QED  BY <1>2, <1>4, <1>5, <1>6, JobsAndScan DEF GiveUp

LEMMA ScanDiesStep ==
    ASSUME IInv, ScanDies, UNCHANGED <<enqueues, keys>>
    PROVE  StepKeeps
<1>1. LedgerInv' /\ KeepAll  BY SameRows DEF ScanDies
<1>2. scan' \in ScanRow /\ ScanInv'  BY ScanEnds DEF ScanDies
<1>3. RestTypeOK'  BY <1>2, Paying DEF ScanDies, IInv, RestTypeOK
<1>4. NobodyTakes  BY SameJobs DEF ScanDies
<1>. QED  BY <1>1, <1>2, <1>3, <1>4, JobsAndScan DEF ScanDies

----------------------------------------------------------------------------
(* The steps of a delivery *)

LEMMA DeliveryOf ==
    ASSUME IInv, NEW d \in Delivery, deliveries[d].pc # "idle"
    PROVE  /\ deliveries[d] \in DeliveryRow
           /\ deliveries[d].run \in Run
           /\ StandsOn(deliveries[d], steps)
BY DEF IInv, DeliveryInv, StandsOn

LEMMA TakeStep ==
    ASSUME IInv, NEW d \in Delivery, NEW r \in Run, Take(d, r), UNCHANGED <<enqueues, keys>>
    PROVE  StepKeeps
<1>1. LedgerInv' /\ KeepAll  BY SameRows DEF Take
<1>2. jobs[r] \in Job  BY DEF IInv, RestTypeOK
<1>. DEFINE v == [NoDelivery EXCEPT !.pc = "claim", !.run = r, !.made = jobs[r].made,
                                    !.generation = jobs[r].generation]
            w == [jobs[r] EXCEPT !.state = "active", !.holder = d]
<1>3. v \in DeliveryRow /\ v.pc = "claim" /\ v.run = r /\ v.made = jobs[r].made
    BY <1>2, Empties DEF DeliveryRow, Job, NoDelivery
<1>4. w \in Job /\ w.holder = d /\ w.made = jobs[r].made  BY <1>2 DEF Job
<1>5. deliveries' = [deliveries EXCEPT ![d] = v]  BY DEF Take
<1>6. jobs' = [jobs EXCEPT ![r] = w]  BY <1>2 DEF Take, IInv, RestTypeOK
<1>. HIDE DEF v, w
<1>7. StandsOn(v, steps)  BY <1>3 DEF StandsOn, InExecution, InStep
<1>8. /\ deliveries'[d] = v /\ \A e \in Delivery \ {d} : deliveries'[e] = deliveries[e]
      /\ jobs'[r] = w /\ \A q \in Run \ {r} : jobs'[q] = jobs[q]
    BY <1>5, <1>6 DEF IInv, DeliveryInv, RestTypeOK
<1>9. DeliveryInv'
    BY <1>3, <1>5, <1>7, <1>8 DEF Take, ledgerVars, IInv, DeliveryInv
<1>10. JobInv'
    BY <1>3, <1>4, <1>8 DEF IInv, JobInv
<1>11. ScanInv'  BY DEF Take, IInv, ScanInv
<1>12. audits' \in [Run -> [Generation -> AuditStatus]]
    BY <1>2, Auditing DEF Take, IInv, AuditStatus, ActiveAudit, Job
<1>13. jobs' \in [Run -> Job]  BY <1>4, <1>6 DEF IInv, RestTypeOK
<1>14. RestTypeOK'  BY <1>12, <1>13 DEF Take, IInv, RestTypeOK
<1>. QED  BY <1>1, <1>9, <1>10, <1>11, <1>14 DEF IInv, StepKeeps, Onward, KeepAll

\* A step that changes a delivery and the rows of its run, at most the budget besides.
LEMMA RowsAndDelivery ==
    ASSUME IInv, LedgerInv', KeepAll, NEW d \in Delivery, Turns(d) \/ UNCHANGED deliveries,
           UNCHANGED <<jobs, audits, scan, enqueues, keys>>,
           UNCHANGED left \/ Pays("mishaps")
    PROVE  StepKeeps
<1>1. RestTypeOK'  BY Paying DEF IInv, RestTypeOK
<1>2. NobodyTakes  BY SameJobs
<1>. QED  BY <1>1, <1>2, DeliveryOnly

LEMMA ClaimExecutionStep ==
    ASSUME IInv, NEW d \in Delivery, ClaimExecution(d), UNCHANGED <<enqueues, keys>>
    PROVE  StepKeeps
<1>. DEFINE r == deliveries[d].run
            run == runs[r]
            token == <<deliveries[d].generation, deliveries[d].made>>
            claimed == deliveries' = [deliveries EXCEPT ![d].pc = "load", ![d].epoch = run.epoch + 1]
<1>1. deliveries[d].pc = "claim"  BY DEF ClaimExecution, At
<1>2. /\ deliveries[d] \in DeliveryRow /\ r \in Run
      /\ StandsOn(deliveries[d], steps)
    BY <1>1, DeliveryOf
<1>3. token \in Token /\ deliveries[d].generation \in Generation
    BY <1>2 DEF Token, DeliveryRow
<1>4. run.epoch \in Nat  BY <1>2 DEF IInv, LedgerInv, LedgerTypeOK, RunRow
<1>5. ASSUME claimed PROVE Turns(d)
    <2>. DEFINE v == [deliveries[d] EXCEPT !.pc = "load", !.epoch = run.epoch + 1]
    <2>1. deliveries' = [deliveries EXCEPT ![d] = v]
        BY <1>2, <1>5 DEF IInv, DeliveryInv
    <2>2. v \in DeliveryRow
        <3>1. \A n \in Nat : [deliveries[d] EXCEPT !.pc = "load", !.epoch = n] \in DeliveryRow
            BY <1>2 DEF DeliveryRow
        <3>2. run.epoch + 1 \in Nat  BY <1>4
        <3>. HIDE DEF run
        <3>. QED  BY <3>1, <3>2
    <2>3. /\ v.pc = "load" /\ v.run = deliveries[d].run /\ v.made = deliveries[d].made
          /\ v.epoch = run.epoch + 1
        BY <1>2 DEF DeliveryRow
    <2>. HIDE DEF v
    <2>4. StandsOn(v, steps')  BY <1>2, <1>4, <2>3 DEF StandsOn, InExecution, InStep
    <2>. QED  BY <2>1, <2>2, <2>3, <2>4 DEF Turns
<1>6. CASE /\ run.status = "queued" /\ state.active = r
           /\ Start(r, token, deliveries[d].generation) /\ claimed
    <2>1. LedgerInv' /\ KeepAll
        BY <1>2, <1>3, <1>6, Starts DEF ClaimExecution, IInv, KeepAll
    <2>. QED  BY <1>5, <1>6, <2>1, RowsAndDelivery DEF ClaimExecution
<1>7. CASE /\ OwnsResult(r, run.epoch)
           /\ TakeOver(r, token, deliveries[d].generation) /\ claimed
    <2>1. LedgerInv' /\ KeepAll
        BY <1>2, <1>3, <1>7, TakesOver DEF ClaimExecution, OwnsResult, IInv, KeepAll
    <2>. QED  BY <1>5, <1>7, <2>1, RowsAndDelivery DEF ClaimExecution
<1>8. CASE /\ Goes(d, "end") \/ Raises(d, "end", "retry") \/ Raises(d, "end", "terminal")
           /\ UNCHANGED <<state, runs, steps>>
    <2>1. LedgerInv' /\ KeepAll  BY <1>8, SameRows DEF ClaimExecution, ledgerVars
    <2>2. Turns(d)
        BY <1>1, <1>2, <1>8, <2>1, Raising, Going DEF IInv, KeepAll, Error
    <2>. QED  BY <2>1, <2>2, RowsAndDelivery DEF ClaimExecution
<1>. QED  BY <1>6, <1>7, <1>8 DEF ClaimExecution, RunOf

LEMMA LoadMaterialStep ==
    ASSUME IInv, NEW d \in Delivery, LoadMaterial(d), UNCHANGED <<enqueues, keys>>
    PROVE  StepKeeps
<1>1. LedgerInv' /\ KeepAll  BY SameRows DEF LoadMaterial
<1>2. deliveries[d].pc = "load"  BY DEF LoadMaterial, At
<1>3. deliveries[d] \in DeliveryRow /\ StandsOn(deliveries[d], steps)
    BY <1>2, DeliveryOf
<1>4. CASE deliveries' = [deliveries EXCEPT ![d].pc = "step", ![d].step = 1]
    <2>. DEFINE v == [deliveries[d] EXCEPT !.pc = "step", !.step = 1]
    <2>1. deliveries' = [deliveries EXCEPT ![d] = v]
        BY <1>3, <1>4 DEF IInv, DeliveryInv
    <2>2. /\ v \in DeliveryRow
          /\ v.pc = "step" /\ v.run = deliveries[d].run /\ v.made = deliveries[d].made
          /\ v.epoch = deliveries[d].epoch /\ v.step = 1
        <3>1. 1 \in 0..Steps  BY Sets
        <3>2. \A n \in 0..Steps : [deliveries[d] EXCEPT !.pc = "step", !.step = n] \in DeliveryRow
            BY <1>3 DEF DeliveryRow
        <3>3. v \in DeliveryRow  BY <3>1, <3>2
        <3>. QED  BY <1>3, <3>3 DEF DeliveryRow
    <2>. HIDE DEF v
    <2>3. 1 \in Step  BY Sets DEF Step
    <2>4. StandsOn(v, steps')  BY <1>2, <1>3, <2>2, <2>3 DEF StandsOn, InExecution, InStep
    <2>5. Turns(d)  BY <2>1, <2>2, <2>4 DEF Turns
    <2>. QED  BY <1>1, <2>5, RowsAndDelivery DEF LoadMaterial
<1>5. CASE Raises(d, "settle", "stale")
    <2>1. Turns(d)  BY <1>2, <1>5, Raising DEF IInv, Error
    <2>. QED  BY <1>1, <2>1, RowsAndDelivery DEF LoadMaterial
<1>. QED  BY <1>4, <1>5 DEF LoadMaterial

\* A delivery goes on behind a step that is completed.
LEMMA Advancing ==
    ASSUME IInv, NEW d \in Delivery, deliveries[d].pc \in InStep,
           Advances(d, deliveries[d].step), KeepAll,
           steps'[deliveries[d].run][deliveries[d].step].status = "succeeded"
    PROVE  Turns(d)
<1>. DEFINE k == deliveries[d].step
            pc == IF k = Steps THEN "persist" ELSE "step"
            next == IF k = Steps THEN k ELSE k + 1
            v == [deliveries[d] EXCEPT !.pc = pc, !.step = next]
<1>1. /\ deliveries[d] \in DeliveryRow /\ deliveries[d].run \in Run
      /\ StandsOn(deliveries[d], steps)
    BY DeliveryOf DEF InStep
<1>2. k \in Step /\ deliveries[d].epoch > 0
      /\ \A j \in 1..k - 1 : steps[deliveries[d].run][j].status = "succeeded"
    BY <1>1 DEF StandsOn, InExecution
<1>3. k \in 1..Steps /\ Steps \in Nat  BY <1>2, Sets DEF Step
<1>4. next \in 0..Steps /\ (k # Steps => next \in Step)  BY <1>3 DEF Step
<1>5. deliveries' = [deliveries EXCEPT ![d] = v]
    BY <1>1 DEF Advances, IInv, DeliveryInv
<1>6. /\ v \in DeliveryRow
      /\ v.pc = pc /\ v.run = deliveries[d].run /\ v.made = deliveries[d].made
      /\ v.epoch = deliveries[d].epoch /\ v.step = next
    BY <1>1, <1>4 DEF DeliveryRow
<1>. HIDE DEF v
<1>7. ASSUME k # Steps, NEW j \in 1..next - 1
      PROVE  steps'[deliveries[d].run][j].status = "succeeded"
    <2>1. CASE j = k  BY <2>1
    <2>2. CASE j # k
        <3>1. j \in 1..k - 1 /\ j \in Step  BY <1>3, <1>7, <2>2 DEF Step
        <3>. QED  BY <1>1, <1>2, <3>1 DEF KeepAll, Keeps
    <2>. QED  BY <2>1, <2>2
<1>8. StandsOn(v, steps')
    BY <1>1, <1>2, <1>4, <1>6, <1>7 DEF StandsOn, InExecution, InStep
<1>. QED  BY <1>5, <1>6, <1>8 DEF Turns

LEMMA BeginStepStep ==
    ASSUME IInv, NEW d \in Delivery, BeginStep(d), UNCHANGED <<enqueues, keys>>
    PROVE  StepKeeps
<1>. DEFINE r == deliveries[d].run
            k == deliveries[d].step
<1>1. deliveries[d].pc = "step"  BY DEF BeginStep, At
<1>2. /\ deliveries[d] \in DeliveryRow /\ r \in Run
      /\ StandsOn(deliveries[d], steps)
    BY <1>1, DeliveryOf
<1>3. k \in Step /\ deliveries[d].epoch > 0  BY <1>1, <1>2 DEF StandsOn, InExecution, InStep
<1>4. steps[r] \in [Step -> StepRow] /\ steps[r][k] \in StepRow /\ runs[r] \in RunRow
    BY <1>2, <1>3 DEF IInv, LedgerInv, LedgerTypeOK
<1>5. CASE StepDone(r, k) /\ Advances(d, k) /\ UNCHANGED steps
    <2>1. LedgerInv' /\ KeepAll  BY <1>5, SameRows DEF BeginStep, ledgerVars
    <2>2. Turns(d)  BY <1>1, <1>5, <2>1, Advancing DEF StepDone, InStep
    <2>. QED  BY <2>1, <2>2, RowsAndDelivery DEF BeginStep
<1>6. CASE /\ OwnsRun(r, deliveries[d].epoch) /\ StepClaimable(r, k) /\ ClaimStep(r, k)
           /\ deliveries' = [deliveries EXCEPT ![d].pc = "call", ![d].tries = steps'[r][k].tries]
    <2>. DEFINE row == [status |-> "running", tries |-> steps[r][k].tries + 1, epoch |-> runs[r].epoch]
    <2>1. row \in StepRow
        BY <1>4, <1>6, Sets DEF StepClaimable, StepRow, RunRow
    <2>2. runs[r].status = "running"
        BY <1>2, <1>3, <1>6 DEF OwnsRun, Active, IInv, LedgerInv, EpochInv
    <2>3. StepWritten(r, k, row)
        BY <1>2, <1>3, <1>4, <1>6 DEF StepWritten, ClaimStep, BeginStep, IInv, LedgerInv, LedgerTypeOK
    <2>4. row.status = "running" /\ row.epoch = runs[r].epoch /\ runs[r].epoch \in Nat
        BY <1>4 DEF RunRow
    <2>5. steps[r][k].status # "succeeded"  BY <1>6 DEF StepClaimable
    <2>. HIDE DEF row
    <2>6. LedgerInv' /\ KeepAll
        <3>1. row.epoch <= runs[r].epoch  BY <2>4
        <3>. QED  BY <1>2, <1>3, <2>1, <2>2, <2>3, <2>4, <2>5, <3>1, WritesStep DEF IInv, KeepAll
    <2>7. steps'[r][k].tries \in 0..StepTries
        BY <1>2, <1>3, <2>6 DEF LedgerInv, LedgerTypeOK, StepRow
    <2>8. Turns(d)
        <3>. DEFINE v == [deliveries[d] EXCEPT !.pc = "call", !.tries = steps'[r][k].tries]
        <3>1. deliveries' = [deliveries EXCEPT ![d] = v]
            BY <1>2, <1>6 DEF IInv, DeliveryInv
        <3>2. /\ v \in DeliveryRow
              /\ v.pc = "call" /\ v.run = deliveries[d].run /\ v.made = deliveries[d].made
              /\ v.epoch = deliveries[d].epoch /\ v.step = deliveries[d].step
            BY <1>2, <2>7 DEF DeliveryRow
        <3>. HIDE DEF v
        <3>3. StandsOn(v, steps)  BY <1>1, <1>2, <3>2 DEF StandsOn, InExecution, InStep
        <3>4. StandsOn(v, steps')
            BY <1>2, <2>6, <3>2, <3>3, StandsStill DEF KeepAll, Keeps
        <3>. QED  BY <3>1, <3>2, <3>4 DEF Turns
    <2>. QED  BY <2>6, <2>8, RowsAndDelivery DEF BeginStep
<1>7. CASE Raises(d, "settle", "retry") /\ UNCHANGED steps
    <2>1. LedgerInv' /\ KeepAll  BY <1>7, SameRows DEF BeginStep, ledgerVars
    <2>2. Turns(d)  BY <1>1, <1>7, Raising DEF IInv, Error
    <2>. QED  BY <2>1, <2>2, RowsAndDelivery DEF BeginStep
<1>. QED  BY <1>5, <1>6, <1>7 DEF BeginStep, RunOf

LEMMA CallStep ==
    ASSUME IInv, NEW d \in Delivery, Call(d), UNCHANGED <<enqueues, keys>>
    PROVE  StepKeeps
<1>1. LedgerInv' /\ KeepAll  BY SameRows DEF Call
<1>2. deliveries[d].pc = "call"  BY DEF Call, At
<1>3. deliveries[d].run \in Run  BY <1>2, DeliveryOf
<1>4. Goes(d, "complete") \/ Goes(d, "fail")  BY DEF Call
<1>5. Turns(d)  BY <1>1, <1>2, <1>3, <1>4, Going DEF IInv, KeepAll
<1>. QED  BY <1>1, <1>5, RowsAndDelivery DEF Call

\* Whoever holds a step may write its end.
LEMMA StepEnds ==
    ASSUME IInv, NEW d \in Delivery, deliveries[d].pc \in InStep, HoldsStep(d),
           NEW status \in {"succeeded", "failed"},
           steps' = [steps EXCEPT ![deliveries[d].run][deliveries[d].step].status = status],
           UNCHANGED <<material, state, runs>>
    PROVE  LedgerInv' /\ KeepAll /\ steps'[deliveries[d].run][deliveries[d].step].status = status
<1>. DEFINE r == deliveries[d].run
            k == deliveries[d].step
            row == [steps[r][k] EXCEPT !.status = status]
<1>1. /\ deliveries[d] \in DeliveryRow /\ r \in Run
      /\ StandsOn(deliveries[d], steps)
    BY DeliveryOf DEF InStep
<1>2. k \in Step /\ \A j \in 1..k - 1 : steps[r][j].status = "succeeded"
    BY <1>1 DEF StandsOn
<1>3. steps[r] \in [Step -> StepRow] /\ steps[r][k] \in StepRow /\ runs[r].epoch \in Nat
    BY <1>1, <1>2 DEF IInv, LedgerInv, LedgerTypeOK, RunRow
<1>4. steps[r][k].status = "running" /\ steps[r][k].epoch = runs[r].epoch
    BY DEF HoldsStep, OwnsStep, OwnsRun, RunOf
<1>5. row \in StepRow /\ row.status = status /\ row.epoch = runs[r].epoch
    BY <1>3, <1>4 DEF StepRow
<1>6. StepWritten(r, k, row)
    BY <1>1, <1>2, <1>3 DEF StepWritten, IInv, LedgerInv, LedgerTypeOK
<1>7. steps'[r][k] = row
    BY <1>1, <1>2, <1>6 DEF StepWritten, IInv, LedgerInv, LedgerTypeOK
<1>. HIDE DEF row
<1>8. row.epoch <= runs[r].epoch  BY <1>3, <1>5
<1>. QED  BY <1>1, <1>2, <1>4, <1>5, <1>6, <1>7, <1>8, WritesStep DEF IInv, KeepAll

LEMMA EndStepStep ==
    ASSUME IInv, NEW d \in Delivery, EndStep(d), UNCHANGED <<enqueues, keys>>
    PROVE  StepKeeps
<1>1. deliveries[d].pc = "complete"  BY DEF EndStep, At
<1>2. deliveries[d].run \in Run  BY <1>1, DeliveryOf
<1>3. CASE HoldsStep(d) /\ CompleteStep(deliveries[d].run, deliveries[d].step)
    <2>1. /\ LedgerInv' /\ KeepAll
          /\ steps'[deliveries[d].run][deliveries[d].step].status = "succeeded"
        BY <1>1, <1>3, StepEnds DEF CompleteStep, EndStep, InStep
    <2>2. CASE Advances(d, deliveries[d].step) /\ UNCHANGED left
        <3>1. Turns(d)  BY <1>1, <2>1, <2>2, Advancing DEF InStep
        <3>. QED  BY <2>1, <2>2, <3>1, RowsAndDelivery DEF EndStep
    <2>3. CASE Goes(d, "fail") /\ Pays("mishaps")
        <3>1. Turns(d)  BY <1>1, <1>2, <2>1, <2>3, Going DEF IInv, KeepAll
        <3>. QED  BY <2>1, <2>3, <3>1, RowsAndDelivery DEF EndStep
    <2>. QED  BY <1>3, <2>2, <2>3 DEF EndStep
<1>4. CASE Goes(d, "fail") /\ UNCHANGED <<steps, left>>
    <2>1. LedgerInv' /\ KeepAll  BY <1>4, SameRows DEF EndStep, ledgerVars
    <2>2. Turns(d)  BY <1>1, <1>2, <1>4, <2>1, Going DEF IInv, KeepAll
    <2>. QED  BY <1>4, <2>1, <2>2, RowsAndDelivery DEF EndStep
<1>. QED  BY <1>3, <1>4 DEF EndStep, RunOf

LEMMA LoseStepStep ==
    ASSUME IInv, NEW d \in Delivery, LoseStep(d), UNCHANGED <<enqueues, keys>>
    PROVE  StepKeeps
<1>1. deliveries[d].pc = "fail"  BY DEF LoseStep, At
<1>2. Turns(d)  BY <1>1, Raising DEF LoseStep, IInv, Error
<1>3. LedgerInv' /\ KeepAll
    <2>1. CASE HoldsStep(d) /\ FailStep(deliveries[d].run, deliveries[d].step)
        BY <1>1, <2>1, StepEnds DEF FailStep, LoseStep, InStep
    <2>2. CASE UNCHANGED steps
        BY <2>2, SameRows DEF LoseStep, ledgerVars
    <2>. QED  BY <2>1, <2>2 DEF LoseStep, RunOf
<1>. QED  BY <1>2, <1>3, RowsAndDelivery DEF LoseStep

LEMMA PersistStep ==
    ASSUME IInv, NEW d \in Delivery, Persist(d), UNCHANGED <<enqueues, keys>>
    PROVE  StepKeeps
<1>. DEFINE r == deliveries[d].run
<1>1. deliveries[d].pc = "persist"  BY DEF Persist, At
<1>2. r \in Run  BY <1>1, DeliveryOf
<1>3. Turns(d)
    <2>1. PICK pc \in {"end", "settle"}, error \in Error : Raises(d, pc, error)
        BY DEF Persist, Error
    <2>. QED  BY <1>1, <2>1, Raising DEF IInv
<1>4. LedgerInv' /\ KeepAll
    <2>1. CASE /\ OwnsResult(r, deliveries[d].epoch) /\ LedgerComplete(r, deliveries[d].epoch)
               /\ Succeed(r)
        BY <1>2, <2>1, Succeeds DEF Persist, IInv, KeepAll
    <2>2. CASE UNCHANGED <<state, runs, steps>>
        BY <2>2, SameRows DEF Persist, ledgerVars
    <2>. QED  BY <2>1, <2>2 DEF Persist, RunOf
<1>5. UNCHANGED left \/ Pays("mishaps")  BY DEF Persist
<1>. QED  BY <1>3, <1>4, <1>5, RowsAndDelivery DEF Persist

LEMMA SettleStep ==
    ASSUME IInv, NEW d \in Delivery, Settle(d), UNCHANGED <<enqueues, keys>>
    PROVE  StepKeeps
<1>. DEFINE r == deliveries[d].run
<1>1. deliveries[d].pc = "settle"  BY DEF Settle, At
<1>2. r \in Run  BY <1>1, DeliveryOf
<1>3. LedgerInv' /\ KeepAll
    <2>1. CASE OwnsRun(r, deliveries[d].epoch) /\ Fail(r, deliveries[d].error = "stale")
        BY <1>2, <2>1, FailsRun DEF Settle, OwnsRun, IInv, KeepAll
    <2>2. CASE UNCHANGED <<state, runs, steps>>
        BY <2>2, SameRows DEF Settle, ledgerVars
    <2>. QED  BY <2>1, <2>2 DEF Settle, RunOf
<1>4. Turns(d)  BY <1>1, <1>2, <1>3, Going DEF Settle, IInv, KeepAll
<1>. QED  BY <1>3, <1>4, RowsAndDelivery DEF Settle

LEMMA EndDeliveryStep ==
    ASSUME IInv, NEW d \in Delivery, End(d), UNCHANGED <<enqueues, keys>>
    PROVE  StepKeeps
<1>1. LedgerInv' /\ KeepAll  BY SameRows DEF End
<1>2. deliveries[d].pc # "idle"  BY DEF End, At
<1>3. /\ Outcome(d) \in {"completed", "failed", "retrying"}
      /\ Outcome(d) = "retrying" => ~Final(d)
    BY DEF Outcome
<1>4. /\ jobs' \in [Run -> Job] /\ NobodyTakes
      /\ audits' \in [Run -> [Generation -> AuditStatus]]
    BY <1>2, <1>3, Releasing DEF End, IInv
<1>5. Turns(d)  BY Leaving DEF End
<1>6. RestTypeOK'  BY <1>4 DEF End, IInv, RestTypeOK
<1>. QED  BY <1>1, <1>4, <1>5, <1>6, DeliveryOnly DEF End

LEMMA LeaseLostStep ==
    ASSUME IInv, NEW d \in Delivery, LeaseLost(d), UNCHANGED <<enqueues, keys>>
    PROVE  StepKeeps
<1>1. LedgerInv' /\ KeepAll  BY SameRows DEF LeaseLost
<1>2. deliveries[d].pc # "idle"  BY DEF LeaseLost, Executing
<1>3. /\ deliveries[d] \in DeliveryRow
      /\ StandsOn(deliveries[d], steps)
    BY <1>2, DeliveryOf
<1>4. /\ jobs' \in [Run -> Job] /\ NobodyTakes
      /\ audits' \in [Run -> [Generation -> AuditStatus]]
    <2>1. PICK outcome \in {"failed", "retrying"} :
            Releases(d, outcome) /\ (outcome = "retrying" => ~Final(d))
        BY DEF LeaseLost
    <2>. QED  BY <1>2, <2>1, Releasing DEF IInv
<1>5. Turns(d)
    <2>. DEFINE v == [deliveries[d] EXCEPT !.orphan = TRUE]
    <2>1. deliveries' = [deliveries EXCEPT ![d] = v]
        BY <1>3 DEF LeaseLost, IInv, DeliveryInv
    <2>2. /\ v \in DeliveryRow
          /\ v.pc = deliveries[d].pc /\ v.run = deliveries[d].run /\ v.made = deliveries[d].made
          /\ v.epoch = deliveries[d].epoch /\ v.step = deliveries[d].step
        BY <1>3 DEF DeliveryRow
    <2>. HIDE DEF v
    <2>3. StandsOn(v, steps')
        BY <1>3, <2>2 DEF LeaseLost, ledgerVars, StandsOn, InExecution, InStep
    <2>. QED  BY <2>1, <2>2, <2>3 DEF Turns
<1>6. left' \in [changes : Nat, commands : Nat, mishaps : Nat]
    BY Paying DEF LeaseLost, IInv, RestTypeOK
<1>7. RestTypeOK'  BY <1>4, <1>6 DEF LeaseLost, IInv, RestTypeOK
<1>. QED  BY <1>1, <1>4, <1>5, <1>7, DeliveryOnly DEF LeaseLost

LEMMA ThrowsStep ==
    ASSUME IInv, NEW d \in Delivery, Throws(d), UNCHANGED <<enqueues, keys>>
    PROVE  StepKeeps
<1>1. LedgerInv' /\ KeepAll  BY SameRows DEF Throws
<1>2. deliveries[d].pc # "idle"  BY DEF Throws, Executing
<1>3. deliveries[d].run \in Run  BY <1>2, DeliveryOf
<1>4. Turns(d)
    <2>1. CASE Raises(d, "end", "retry") \/ Raises(d, "settle", "retry")
        BY <1>2, <2>1, Raising DEF IInv, Error
    <2>2. CASE deliveries[d].pc \in {"call", "complete"} /\ Goes(d, "fail")
        BY <1>1, <1>2, <1>3, <2>2, Going DEF IInv, KeepAll
    <2>. QED  BY <2>1, <2>2 DEF Throws
<1>. QED  BY <1>1, <1>4, RowsAndDelivery DEF Throws

LEMMA RefuseStep ==
    ASSUME IInv, NEW d \in Delivery, Refuse(d), UNCHANGED <<enqueues, keys>>
    PROVE  StepKeeps
<1>1. LedgerInv' /\ KeepAll  BY SameRows DEF Refuse
<1>2. Turns(d)  BY Raising DEF Refuse, At, IInv, Error
<1>. QED  BY <1>1, <1>2, RowsAndDelivery DEF Refuse

LEMMA CrashStep ==
    ASSUME IInv, NEW d \in Delivery, Crash(d), UNCHANGED <<enqueues, keys>>
    PROVE  StepKeeps
<1>1. LedgerInv' /\ KeepAll  BY SameRows DEF Crash
<1>2. Turns(d)  BY Leaving DEF Crash
<1>. QED  BY <1>1, <1>2, RowsAndDelivery DEF Crash

LEMMA NextStep ==
    ASSUME IInv, Next
    PROVE  StepKeeps
<1>1. CASE \E m \in Material : ChangeMaterial(m)  BY <1>1, MaterialStep
<1>2. CASE \E paused \in BOOLEAN : UpdatePause(paused)  BY <1>2, PauseStep
<1>3. CASE \E r \in Run : Enqueue(r) \/ Abandon(r) \/ Recovers(r) \/ Stalling(r)
    BY <1>3, EnqueueStep, AbandonStep, ObserveStep, LockStep DEF Recovers, Stalling, Stalls
<1>4. CASE Rerun \/ Scheduling \/ DayPasses
    BY <1>4, RerunStep, PostponeStep, ScheduleStep, DayStep DEF Scheduling
<1>5. CASE Scanning
    BY <1>5, ClaimRecoveryStep, AddRecoveryStep, GiveUpStep DEF Scanning, ScanProgress
<1>6. CASE \E d \in Delivery : Working(d)
    <2>1. PICK d \in Delivery : WorkProgress(d) /\ UNCHANGED <<enqueues, keys>>
        BY <1>6 DEF Working
    <2>2. CASE \E r \in Run : Take(d, r)  BY <2>1, <2>2, TakeStep
    <2>3. CASE ClaimExecution(d) \/ LoadMaterial(d) \/ BeginStep(d) \/ Call(d)
        BY <2>1, <2>3, ClaimExecutionStep, LoadMaterialStep, BeginStepStep, CallStep
    <2>4. CASE EndStep(d) \/ LoseStep(d) \/ Persist(d) \/ Settle(d) \/ End(d)
        BY <2>1, <2>4, EndStepStep, LoseStepStep, PersistStep, SettleStep, EndDeliveryStep
    <2>. QED  BY <2>1, <2>2, <2>3, <2>4 DEF WorkProgress
<1>7. CASE WorkMishap /\ UNCHANGED <<enqueues, keys>>
    BY <1>7, LeaseLostStep, ThrowsStep, RefuseStep, CrashStep, LockStep, ScanDiesStep
       DEF WorkMishap, LockLost
<1>. QED  BY <1>1, <1>2, <1>3, <1>4, <1>5, <1>6, <1>7 DEF Next

LEMMA Stutters == ASSUME IInv, UNCHANGED vars PROVE StepKeeps
<1>1. LedgerInv' /\ KeepAll  BY SameRows DEF vars, workVars
<1>2. RestTypeOK'  BY DEF vars, workVars, IInv, RestTypeOK
<1>. QED  BY <1>1, <1>2, RowsOnly DEF vars, workVars

LEMMA NextKeeps == ASSUME IInv, [Next]_vars PROVE StepKeeps
BY NextStep, Stutters

LEMMA Invariant == Spec => []IInv
<1>1. Init => IInv  BY Begins
<1>2. IInv /\ [Next]_vars => IInv'  BY NextKeeps DEF StepKeeps
<1>. QED  BY <1>1, <1>2, PTL DEF Spec

----------------------------------------------------------------------------
(* Theorems *)

\* Every row, job and local variable stays in its type: no run is recovered, no job
\* attempted and no step tried more often than the code's limits allow.
THEOREM ResearchTypes == Spec => []TypeOK
<1>1. IInv => TypeOK
    BY DEF IInv, LedgerInv, DeliveryInv, RestTypeOK, TypeOK, WorkTypeOK
<1>. QED  BY <1>1, Invariant, PTL

\* The project names a run exactly while the run is active, and says of itself what it
\* says of the run (the triggers of migration 0050 refuse any other commit).
THEOREM ProjectNamesItsRun == Spec => []StateOwnsRun
<1>1. IInv => StateOwnsRun  BY DEF IInv, LedgerInv
<1>. QED  BY <1>1, Invariant, PTL

\* What runs in a run, runs for the execution that holds the run.
THEOREM OneOwnerOfSteps == Spec => []StepsHaveOneOwner
<1>1. IInv => StepsHaveOneOwner  BY DEF IInv, LedgerInv
<1>. QED  BY <1>1, Invariant, PTL

\* A project whose material is not what was last researched has a date to be looked at.
THEOREM NoChangeForgotten == Spec => []ChangesAreRemembered
<1>1. IInv => ChangesAreRemembered  BY DEF IInv, LedgerInv
<1>. QED  BY <1>1, Invariant, PTL

\* The completed steps of a run stay, and were completed in order, whichever executions
\* of it were at work.
THEOREM RunHasOneHistory == Spec => OneHistory
<1>1. IInv /\ [Next]_vars => [\A r \in Run : GoesOn(r)]_vars
    BY NextKeeps DEF StepKeeps, Onward, Keeps, IInv, LedgerInv, HistoryInv, GoesOn
<1>. QED  BY <1>1, Invariant, PTL DEF Spec, OneHistory
=============================================================================
