----------------------------- MODULE ResearchLedger -----------------------------
(***************************************************************************)
(* The rows of Opportunity Research and the transactions that write them:  *)
(* the project's research state, its runs (agent_runs) and the steps of    *)
(* each run (agent_run_steps).  A run is owned by one execution epoch at a *)
(* time; every delivery that takes it over starts a new one                *)
(* (packages/db, agent-ledger.ts and opportunity-research-execution.ts).   *)
(*                                                                         *)
(* The transactions lock project, state and run in this order, so each is  *)
(* one step.  Material stands for the digest of all that the research of a *)
(* project is made from.                                                   *)
(***************************************************************************)
EXTENDS Naturals

CONSTANTS
    Run,         \* ids of runs
    Material,    \* digests of the project's material
    Ready,       \* those without readiness issues
    None,
    Steps,       \* the steps of the workflow, one after the other; 3 in the code
    StepTries,   \* maxAttempts of a step; 3 in the code
    MaxAttempts, \* the attempts option of a job; 3 in the code
    MaxRecovery  \* maxRecoveryCount of the scan

ASSUME LedgerConstants ==
    /\ Ready \subseteq Material
    /\ {Steps, StepTries, MaxAttempts} \subseteq Nat \ {0}
    /\ MaxRecovery \in Nat
    /\ None \notin Run \cup Material

VARIABLES
    material, \* the digest a load of the material would compute
    state,    \* project_opportunity_research_states
    runs,
    steps

ledgerVars == <<material, state, runs, steps>>

Active == {"queued", "running"}
Step == 1..Steps
Generation == 0..MaxRecovery
Token == Generation \X (0..MaxAttempts - 1) \* jobRunId:attempt-N

\* due: nextScheduledAt is unset, in the future, or over.  last: lastSuccessfulDigest.
StateRow ==
    [status : {"idle", "needs_research", "queued", "running", "succeeded", "failed", "paused"},
     active : Run \cup {None}, paused : BOOLEAN, dirty : BOOLEAN,
     due : {"never", "later", "now"}, last : Material \cup {None}]
\* generation: executionRecoveryCount; count: recoveryCount.
RunRow ==
    [status : {"absent", "queued", "running", "succeeded", "failed"},
     source : {"user", "scheduler"}, material : Material \cup {None}, epoch : Nat,
     token : Token \cup {None}, generation : Generation, count : Generation]
\* Each claim of a step counts a try, so its tries tell its row version while it runs, and
\* with its epoch whose answer its output is.
StepRow ==
    [status : {"absent", "running", "failed", "succeeded"}, tries : 0..StepTries, epoch : Nat]

NoRun == [status |-> "absent", source |-> "user", material |-> None, epoch |-> 0,
          token |-> None, generation |-> 0, count |-> 0]
NoStep == [status |-> "absent", tries |-> 0, epoch |-> 0]

LedgerTypeOK ==
    /\ material \in Material
    /\ state \in StateRow
    /\ runs \in [Run -> RunRow]
    /\ steps \in [Run -> [Step -> StepRow]]

LedgerInit ==
    /\ material \in Ready
    /\ state = [status |-> "idle", active |-> None, paused |-> FALSE, dirty |-> FALSE,
                due |-> "never", last |-> None]
    /\ runs = [r \in Run |-> NoRun]
    /\ steps = [r \in Run |-> [k \in Step |-> NoStep]]

----------------------------------------------------------------------------
(* The run *)

\* Admission of run r by a person or the scheduler, dropping the rows of others
Admit(r, dropped, source) ==
    /\ runs' = [q \in Run |->
            IF q = r THEN [NoRun EXCEPT !.status = "queued", !.source = source, !.material = material]
            ELSE IF q \in dropped THEN NoRun ELSE runs[q]]
    /\ steps' = [q \in Run |-> IF q \in dropped THEN [k \in Step |-> NoStep] ELSE steps[q]]
    /\ state' = [state EXCEPT !.status = "queued", !.active = r, !.dirty = FALSE, !.due = "never"]

\* The steps of run r once those that run are failed, under the epoch the run has
Interrupted(r) ==
    [k \in Step |-> IF steps[r][k].status = "running"
                       THEN [steps[r][k] EXCEPT !.status = "failed", !.epoch = runs[r].epoch]
                       ELSE steps[r][k]]

Claimed(r, token, generation) ==
    runs' = [runs EXCEPT ![r].status = "running", ![r].epoch = @ + 1,
                         ![r].token = token, ![r].generation = generation]

\* claimOpportunityResearchExecution, a queued run
Start(r, token, generation) ==
    /\ Claimed(r, token, generation)
    /\ state' = [state EXCEPT !.status = "running"]
    /\ UNCHANGED steps

TakeOverBug(r, token, generation) ==
    Claimed(r, token, generation) /\ UNCHANGED <<state, steps>>

\* claimOpportunityResearchExecution, a run that another delivery owns
TakeOver(r, token, generation) ==
    /\ Claimed(r, token, generation)
    /\ steps' = [steps EXCEPT ![r] = Interrupted(r)]
    /\ UNCHANGED state

\* assertCompletedOpportunityResearchLedger
LedgerComplete(r, epoch) ==
    /\ \A k \in Step : steps[r][k].status = "succeeded" /\ steps[r][k].epoch \in 1..epoch
    /\ \A j, k \in Step : j < k => steps[r][j].epoch <= steps[r][k].epoch

\* Who may write the result of a run
OwnsResult(r, epoch) ==
    /\ runs[r].status = "running" /\ runs[r].epoch = epoch
    /\ state.status = "running" /\ state.active = r

MaterialHolds(r) == material = runs[r].material /\ material \in Ready

\* persistOpportunityResearchSuccess, past its checks
Succeed(r) ==
    /\ runs' = [runs EXCEPT ![r].status = "succeeded"]
    /\ state' = [state EXCEPT
            !.status = IF state.paused THEN "paused" ELSE "succeeded", !.active = None,
            !.dirty = FALSE, !.last = runs[r].material,
            !.due = IF state.paused THEN "never" ELSE "later"]
    /\ UNCHANGED steps

FailedStateBug(r, needsResearch) ==
    IF state.active # r THEN state
    ELSE [state EXCEPT
        !.status = IF state.paused THEN "paused"
                   ELSE IF needsResearch THEN "needs_research" ELSE "failed",
        !.active = None, !.dirty = @ \/ needsResearch,
        !.due = IF state.paused \/ needsResearch THEN "never" ELSE "later"]

\* What failOpportunityResearchExecution makes of the state
FailedState(r, needsResearch) ==
    IF state.active # r THEN state
    ELSE [state EXCEPT
        !.status = IF state.paused THEN "paused"
                   ELSE IF needsResearch THEN "needs_research" ELSE "failed",
        !.active = None, !.dirty = @ \/ needsResearch,
        !.due = IF state.paused THEN "never" ELSE IF needsResearch THEN "now" ELSE "later"]

\* failOpportunityResearchExecution of an active run
Fail(r, needsResearch) ==
    /\ runs' = [runs EXCEPT ![r].status = "failed"]
    /\ steps' = [steps EXCEPT ![r] = Interrupted(r)]
    /\ state' = FailedState(r, needsResearch)

----------------------------------------------------------------------------
(* The steps of a run *)

\* lockActiveWorkflowRun
OwnsRun(r, epoch) == runs[r].status \in Active /\ runs[r].epoch = epoch

StepDone(r, k) == steps[r][k].status = "succeeded"

\* claimAgentRunStep of a step that has not succeeded
StepClaimable(r, k) ==
    steps[r][k].status \in {"absent", "failed"} /\ steps[r][k].tries < StepTries

ClaimStep(r, k) ==
    steps' = [steps EXCEPT ![r][k] = [status |-> "running", tries |-> steps[r][k].tries + 1,
                                      epoch |-> runs[r].epoch]]

\* The compare-and-set of a step's end
OwnsStepBug(r, k, epoch, tries) ==
    OwnsRun(r, epoch) /\ steps[r][k].epoch = epoch /\ steps[r][k].tries = tries

OwnsStep(r, k, epoch, tries) ==
    /\ OwnsRun(r, epoch)
    /\ steps[r][k].status = "running" /\ steps[r][k].epoch = epoch
    /\ steps[r][k].tries = tries

CompleteStep(r, k) == steps' = [steps EXCEPT ![r][k].status = "succeeded"]

FailStep(r, k) == steps' = [steps EXCEPT ![r][k].status = "failed"]
================================================================================
