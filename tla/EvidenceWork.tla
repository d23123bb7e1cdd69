------------------------------ MODULE EvidenceWork ------------------------------
(***************************************************************************)
(* How the worker processes gather the evidence: website-import.ts,        *)
(* technical-audit.ts, serp-scout.ts, opportunity-scout.ts and gsc-sync.ts *)
(* of handlers/.  A job may be handed out again while the attempt that     *)
(* held it still works; no scan recovers these runs.                       *)
(***************************************************************************)
EXTENDS EvidenceLedger

CONSTANT Attempt \* worker slots

ASSUME AttemptConstants == None \notin Attempt

VARIABLES
    attempts, \* the local variables of each attempt
    split     \* runs that were handed out again while their attempt worked

vars == <<ledgerVars, attempts, split>>

NoAttempt == [pc |-> "idle", run |-> None, final |-> FALSE, seen |-> {}, answer |-> 0,
              reconnect |-> FALSE, retry |-> FALSE]
AttemptRow ==
    [pc : {"idle", "load", "crawl_mark", "crawl", "crawl_persist", "crawl_failed",
           "search", "serp_persist", "serp_failed",
           "scout_mark", "gather", "reason", "scout_persist", "scout_failed",
           "sync_mark", "query", "sync_rows", "sync_count", "sync_touch", "sync_failed",
           "disconnect", "end"},
     run : Run \cup {None}, final : BOOLEAN, seen : SUBSET Key,
     answer : Answer \cup Key \cup {0}, reconnect : BOOLEAN, retry : BOOLEAN]

WorkTypeOK ==
    /\ LedgerTypeOK
    /\ jobs \in [Run -> Jobs(Attempt)]
    /\ attempts \in [Attempt -> AttemptRow]
    /\ split \subseteq Run

WorkInit ==
    /\ attempts = [a \in Attempt |-> NoAttempt]
    /\ split = {}

At(a, pc) == attempts[a].pc = pc
RunOf(a) == attempts[a].run
Status(a) == runs[RunOf(a)].status
Goes(a, pc) == attempts' = [attempts EXCEPT ![a].pc = pc]
\* The handler returns, or throws an error that is retried, or one that is not.
Ends(a, retry) == attempts' = [attempts EXCEPT ![a].pc = "end", ![a].retry = retry]
\* It is to write a failure first.
FailsAt(a, pc, retry) == attempts' = [attempts EXCEPT ![a].pc = pc, ![a].retry = retry]

SyncFails(a, reconnect) ==
    attempts' = [attempts EXCEPT ![a].pc = "sync_failed", ![a].reconnect = reconnect,
                                 ![a].retry = ~reconnect]

unchangedLedger == UNCHANGED <<ledgerVars, split>>
onlyRuns == UNCHANGED <<gscVars, opportunities, jobs, requests, misled, split>>

----------------------------------------------------------------------------

Take(a, r) ==
    /\ jobs[r].state = "waiting"
    /\ At(a, "idle") /\ a = CHOOSE b \in Attempt : At(b, "idle")
    /\ jobs' = [jobs EXCEPT ![r] = Taken(@, a)]
    /\ attempts' = [attempts EXCEPT ![a] = [NoAttempt EXCEPT
            !.pc = "load", !.run = r, !.final = FinalAttempt(jobs[r])]]
    /\ UNCHANGED <<gscVars, runs, opportunities, requests, misled, split>>

(* executeWebsiteImport and executeTechnicalAudit: no write has a condition. *)

LoadCrawlBug(a) ==
    /\ At(a, "load") /\ RunOf(a) \in Crawl
    /\ Goes(a, "crawl_mark")
    /\ unchangedLedger

LoadCrawl(a) ==
    /\ At(a, "load") /\ RunOf(a) \in Crawl
    /\ IF Status(a) \in Done THEN Ends(a, FALSE) ELSE Goes(a, "crawl_mark")
    /\ unchangedLedger

MarkCrawlRunning(a) ==
    /\ At(a, "crawl_mark")
    /\ SetStatus(RunOf(a), "running")
    /\ Goes(a, "crawl")
    /\ onlyRuns

CrawlWebsite(a) ==
    /\ At(a, "crawl")
    /\ Goes(a, "crawl_persist") \/ FailsAt(a, "crawl_failed", TRUE)
    /\ unchangedLedger

\* An audit's findings are replaced in the same transaction.
PersistCrawl(a) ==
    /\ At(a, "crawl_persist")
    /\ SetStatus(RunOf(a), "completed")
    /\ Ends(a, FALSE)
    /\ onlyRuns

\* markFailed, whose own failure is swallowed
MarkCrawlFailed(a) ==
    /\ At(a, "crawl_failed")
    /\ \/ SetStatus(RunOf(a), "failed") /\ UNCHANGED mishaps
       \/ GoesWrong /\ UNCHANGED runs
    /\ Ends(a, TRUE)
    /\ UNCHANGED <<intents, callbacks, connections, unusable, opportunities, jobs, requests,
                   misled, split>>

(* executeSerpScout: the row is inserted or overwritten with whatever came out. *)

LoadSerp(a) ==
    /\ At(a, "load") /\ RunOf(a) \in Serp
    /\ IF Status(a) \in Done THEN Ends(a, FALSE) ELSE Goes(a, "search")
    /\ unchangedLedger

Search(a) ==
    /\ At(a, "search")
    /\ \/ Goes(a, "serp_persist")
       \/ \E retry \in BOOLEAN : FailsAt(a, "serp_failed", retry)
    /\ unchangedLedger

PersistSnapshot(a) ==
    /\ At(a, "serp_persist")
    /\ SetStatus(RunOf(a), "captured")
    /\ Ends(a, FALSE)
    /\ onlyRuns

PersistSerpFailure(a) ==
    /\ At(a, "serp_failed")
    /\ SetStatus(RunOf(a), "failed")
    /\ Goes(a, "end")
    /\ onlyRuns

(* executeOpportunityScout *)

LoadScout(a) ==
    /\ At(a, "load") /\ RunOf(a) \in Scout
    /\ \/ Status(a) \in Done /\ Ends(a, FALSE)
       \/ Status(a) = "running" /\ Goes(a, "gather")
       \/ Status(a) \notin Done \cup {"running"} /\ Goes(a, "scout_mark")
    /\ unchangedLedger

\* markRunning: a unique index holds the project to one active run.  A run that another
\* attempt has marked, or finished, or that the index refuses is left alone.
MarkScoutRunning(a) ==
    /\ At(a, "scout_mark")
    /\ IF Status(a) \in {"queued", "failed"} /\ ActiveScouts \subseteq {RunOf(a)}
         THEN SetStatus(RunOf(a), "running") /\ Goes(a, "gather")
         ELSE Ends(a, FALSE) /\ UNCHANGED runs
    /\ onlyRuns

\* What the opportunities are about that are not rejected, as loadEvidence lists them
OpenKeys ==
    {opportunities[i].key : i \in {j \in DOMAIN opportunities :
                                    opportunities[j].status # "rejected"}}

\* loadEvidence, storeEvidencePacket and recordInputRef
GatherEvidence(a) ==
    /\ At(a, "gather")
    /\ attempts' = [attempts EXCEPT ![a].pc = "reason", ![a].seen = OpenKeys]
    /\ unchangedLedger

\* The quality gates: a brief about nothing that the evidence listed, or no brief, 0
Proposable(a) == (Key \ attempts[a].seen) \cup {0}

\* The model's answer: a failure, an output that a gate rejects, or one that they let through
Reason(a) ==
    /\ At(a, "reason")
    /\ \/ \E retry \in BOOLEAN : FailsAt(a, "scout_failed", retry)
       \/ \E key \in Proposable(a) :
            attempts' = [attempts EXCEPT ![a].pc = "scout_persist", ![a].answer = key]
    /\ unchangedLedger

Inserted(a) ==
    IF attempts[a].answer = 0 THEN opportunities
    ELSE Append(opportunities,
                [run |-> RunOf(a), key |-> attempts[a].answer, status |-> "new"])

PersistScoutBug(a) ==
    /\ At(a, "scout_persist")
    /\ IF Status(a) \notin Done
         THEN SetStatus(RunOf(a), "succeeded") /\ opportunities' = Inserted(a)
         ELSE UNCHANGED <<runs, opportunities>>
    /\ Ends(a, FALSE)
    /\ UNCHANGED <<gscVars, jobs, requests, misled, split>>

\* persistSuccess, of a run that is still running
PersistScout(a) ==
    /\ At(a, "scout_persist")
    /\ IF Status(a) = "running"
         THEN SetStatus(RunOf(a), "succeeded") /\ opportunities' = Inserted(a)
         ELSE UNCHANGED <<runs, opportunities>>
    /\ Ends(a, FALSE)
    /\ UNCHANGED <<gscVars, jobs, requests, misled, split>>

\* markFailed, of a run that has not succeeded
MarkScoutFailed(a) ==
    /\ At(a, "scout_failed")
    /\ IF Status(a) \in Done THEN UNCHANGED runs ELSE SetStatus(RunOf(a), "failed")
    /\ Goes(a, "end")
    /\ onlyRuns

(* runGscSync and handleGscSyncJob: a completed run is not recognized. *)

ConnectionOf(a) == runs[RunOf(a)].connection

LoadSync(a) ==
    LET row == connections[ConnectionOf(a)] IN
    /\ At(a, "load") /\ RunOf(a) \in Sync
    /\ IF row.status = "connected" /\ row.token
         THEN Goes(a, "sync_mark") ELSE SyncFails(a, TRUE)
    /\ unchangedLedger

MarkSyncRunning(a) ==
    /\ At(a, "sync_mark")
    /\ SetStatus(RunOf(a), "running")
    /\ Goes(a, "query")
    /\ onlyRuns

\* decryptRefreshToken and refreshGscAccessToken, with the token that was loaded: this worker
\* cannot decrypt it, or Google answers invalid_grant, invalid_client or any 400, 401 or 403.
TokenUnusable(a) ==
    /\ At(a, "query")
    /\ SyncFails(a, TRUE)
    /\ unusable' = unusable \cup {connections[ConnectionOf(a)].nonce}
    /\ UNCHANGED <<intents, callbacks, connections, mishaps, runs, opportunities, jobs, requests,
                   misled, split>>

\* Another failure of refreshGscAccessToken, or what queryGscSearchAnalytics answers
QuerySearchAnalytics(a) ==
    /\ At(a, "query")
    /\ \/ SyncFails(a, FALSE)
       \/ \E x \in Answer :
            attempts' = [attempts EXCEPT ![a].pc = "sync_rows", ![a].answer = x]
    /\ unchangedLedger

\* resetSyncRunData, insertSearchAnalyticsRows and insertOpportunitySignals, in a transaction
StoreRows(a) ==
    /\ At(a, "sync_rows")
    /\ runs' = [runs EXCEPT ![RunOf(a)].rows = {attempts[a].answer}]
    /\ Goes(a, "sync_count")
    /\ onlyRuns

CompleteSync(a) ==
    /\ At(a, "sync_count")
    /\ runs' = [runs EXCEPT ![RunOf(a)].status = "completed",
                            ![RunOf(a)].count = attempts[a].answer]
    /\ Goes(a, "sync_touch")
    /\ onlyRuns

\* last_synced_at of the connection
TouchConnection(a) ==
    /\ At(a, "sync_touch")
    /\ Ends(a, FALSE)
    /\ unchangedLedger

\* markSyncRunFailed: the run, in whatever status, and then its connection
MarkSyncRunFailed(a) ==
    /\ At(a, "sync_failed")
    /\ SetStatus(RunOf(a), "failed")
    /\ Goes(a, IF attempts[a].reconnect THEN "disconnect" ELSE "end")
    /\ onlyRuns

DisconnectBug(a) ==
    /\ At(a, "disconnect")
    /\ connections' = [connections EXCEPT ![Latest].status = "error"]
    /\ Goes(a, "end")
    /\ UNCHANGED <<intents, callbacks, unusable, mishaps, runs, opportunities, jobs, requests,
                   misled, split>>

Disconnect(a) ==
    /\ At(a, "disconnect")
    /\ connections' = [connections EXCEPT ![ConnectionOf(a)].status = "error"]
    /\ Goes(a, "end")
    /\ UNCHANGED <<intents, callbacks, unusable, mishaps, runs, opportunities, jobs, requests,
                   misled, split>>

----------------------------------------------------------------------------

EndAttempt(a) ==
    LET r == RunOf(a)
        again == attempts[a].retry /\ ~attempts[a].final
    IN
    /\ At(a, "end")
    /\ jobs' = IF jobs[r].holder = a THEN [jobs EXCEPT ![r] = Ended(@, again)] ELSE jobs
    /\ attempts' = [attempts EXCEPT ![a] = NoAttempt]
    /\ UNCHANGED <<gscVars, runs, opportunities, requests, misled, split>>

InCrawl == {"crawl", "crawl_persist"}
Inside == {"sync_mark", "query", "sync_rows", "sync_count", "sync_touch"}

\* A call of the database or the storage throws, and nothing was written.
Throws(a) ==
    /\ attempts[a].pc \notin {"idle", "end", "crawl_failed"}
    /\ GoesWrong
    /\ CASE attempts[a].pc \in InCrawl -> FailsAt(a, "crawl_failed", TRUE)
         [] attempts[a].pc \in Inside \/ (At(a, "load") /\ RunOf(a) \in Sync) ->
                SyncFails(a, FALSE)
         [] OTHER -> Ends(a, TRUE)
    /\ UNCHANGED <<intents, callbacks, connections, unusable, runs, opportunities, jobs,
                   requests, misled, split>>

\* What the attempt writes is committed, but it gets an error instead of the answer.
AnswerLost(a) ==
    /\ GoesWrong
    /\ \/ /\ At(a, "crawl_persist")
          /\ SetStatus(RunOf(a), "completed")
          /\ misled' = misled \cup {RunOf(a)}
          /\ FailsAt(a, "crawl_failed", TRUE)
          /\ UNCHANGED opportunities
       \/ /\ At(a, "serp_persist")
          /\ SetStatus(RunOf(a), "captured")
          /\ Ends(a, TRUE)
          /\ UNCHANGED <<opportunities, misled>>
       \/ /\ At(a, "scout_persist") /\ Status(a) = "running"
          /\ SetStatus(RunOf(a), "succeeded") /\ opportunities' = Inserted(a)
          /\ Ends(a, TRUE)
          /\ UNCHANGED misled
       \/ /\ At(a, "sync_rows")
          /\ runs' = [runs EXCEPT ![RunOf(a)].rows = {attempts[a].answer}]
          /\ SyncFails(a, FALSE)
          /\ UNCHANGED <<opportunities, misled>>
       \/ /\ At(a, "sync_count")
          /\ runs' = [runs EXCEPT ![RunOf(a)].status = "completed",
                                  ![RunOf(a)].count = attempts[a].answer]
          /\ SyncFails(a, FALSE)
          /\ UNCHANGED <<opportunities, misled>>
    /\ UNCHANGED <<intents, callbacks, connections, unusable, jobs, requests, split>>

AttemptDies(a) ==
    /\ ~At(a, "idle")
    /\ GoesWrong
    /\ attempts' = [attempts EXCEPT ![a] = NoAttempt]
    /\ UNCHANGED <<intents, callbacks, connections, unusable, runs, opportunities, jobs,
                   requests, misled, split>>

\* The lock of a job expires: its holder is gone, or works on without renewing it.
Stall(r) ==
    LET gone == jobs[r].holder = None \/ RunOf(jobs[r].holder) # r IN
    /\ jobs[r].state = "active"
    /\ \/ gone /\ UNCHANGED <<mishaps, split>>
       \/ ~gone /\ GoesWrong /\ split' = split \cup {r}
    /\ jobs' = [jobs EXCEPT ![r] = AfterStall(@)]
    /\ UNCHANGED <<intents, callbacks, connections, unusable, runs, opportunities, requests,
                   misled, attempts>>

ImportStep(a) ==
    LoadCrawl(a) \/ MarkCrawlRunning(a) \/ CrawlWebsite(a) \/ PersistCrawl(a) \/ MarkCrawlFailed(a)
SerpStep(a) == LoadSerp(a) \/ Search(a) \/ PersistSnapshot(a) \/ PersistSerpFailure(a)
ScoutStep(a) ==
    \/ LoadScout(a) \/ MarkScoutRunning(a) \/ GatherEvidence(a) \/ Reason(a)
    \/ PersistScout(a) \/ MarkScoutFailed(a)
SyncStep(a) ==
    \/ LoadSync(a) \/ MarkSyncRunning(a) \/ TokenUnusable(a) \/ QuerySearchAnalytics(a)
    \/ StoreRows(a) \/ CompleteSync(a) \/ TouchConnection(a)
    \/ MarkSyncRunFailed(a) \/ Disconnect(a)

AttemptStep(a) ==
    \/ \E r \in Run : Take(a, r)
    \/ ImportStep(a) \/ SerpStep(a) \/ ScoutStep(a) \/ SyncStep(a) \/ EndAttempt(a)

EvidenceStep ==
    \/ \E a \in Attempt : AttemptStep(a) \/ Throws(a) \/ AnswerLost(a) \/ AttemptDies(a)
    \/ \E r \in Run : Stall(r)
================================================================================
