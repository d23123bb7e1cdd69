# Verification of the local-SEO platform

TLA+ models, TLC runs and TLAPS proofs for the local-SEO platform in this
repository: an API (`apps/api`, NestJS), a worker (`apps/worker`) fed by BullMQ
queues, a Postgres database both write to, and a hosting provider (Netlify)
behind an adapter.  The platform turns opportunities into page versions, bundles
approved versions into *release plans*, deploys them, verifies the live site and
rolls back.

The models start where a mistake costs most: the life of a release.  Deploying
and rolling back have effects outside the database that cannot be undone or made
idempotent, and API requests, queue jobs with retries, a periodic scan and human
operators all write the same rows, mostly by compare-and-set on a status column.
A second group of modules is about work that a queue may lose, and that people
decide about while it is under way: page proposals, copy suggestions, images,
customer reports and opportunity research, each with the scan that recovers it.

## Inventory

Processes: API requests (any number), worker job handlers (one per queue and
worker process), and the worker's interval of one minute (`main.ts`), which runs
`reconcileDeployments`, `reconcileRollbacks`, `recoverStaleWork`,
`cleanMediaStorage` and `scheduleOpportunityResearch` side by side and skips a
tick while the previous one runs.  They share nothing but Postgres, the queues
(Redis) and the provider.

| component | state | operations | what is hard | what makes it correct |
| --- | --- | --- | --- | --- |
| release planning (`release-planning`, `-preflight`, `-aggregate-store`) | plans, items, page versions, rollback points | create, preflight, approve, cancel | preflight reads without a lock and persists later; statuses of versions follow those of plans | a version is in one active plan; no candidate is left behind; a rollback point can be restored |
| deploy request (`release-execution`) | plan, queue | deploy | the job is queued before the plan is moved | a lost update changes nothing; a failed plan stays failed |
| deploy worker and scan (`handlers/deploy.ts`) | deployment row, queue job | load, start, claim, begin, record, upload, poll, mark; scan | provider without idempotency keys; crash between call and write; overlapping attempts; scan against job | one deploy per plan; unknown outcomes go to a human; every deploy ends |
| release verification (`release-rollback` verify, `handlers/release-verification.ts`) | verification run, deployment, plan, versions | request, run, project, recovery failure | results arrive after rollbacks, newer runs, recovery | a rollback owns its release; one released version of a page |
| rollback (`release-rollback`, `handlers/rollback.ts`) | point and deployment evidence, plan | request, intent, restore, complete, pend, manual; scan | restore cannot be repeated; evidence in two rows; late publication | plan and deployment roll back together; only intended restores; pending ones end |
| queue producer, job runs (`queue-producer.ts`, `job-run.ts`, `handlers.ts`) | Redis jobs, `job_runs` | enqueue under an advisory lock, start, complete, fail | Redis and Postgres have no common transaction | a recorded job exists, a retried one coalesces |
| work recovery (`work-recovery.ts`, domain `work-recovery.ts`) | recovery counts and leases of work rows | per-kind scan: re-enqueue, fail, hand over | a late handler racing the scan; counts at their limits | recovery never undoes a finished row, and is bounded |
| page studio, copy suggestions (`modules/pages`, `section-copy-suggestion.ts`, `page-proposal.ts`) | proposals, page versions, the images they use, blockers, suggestions | propose, edit, review, block, suggest, dismiss, apply | late answers of the model; four writers of a suggestion and its run; approval racing edits and cleanup | a run writes one proposal; a page's images can be served; decisions about a suggestion stay |
| reports (`modules/reports`, `customer-report.ts`, `customer-report-html.ts`, proof routes of `opportunities.module.ts`) | issues, versions, generation runs, narratives, artifacts, proofs, alerts | generate, narrate, review, render, publish, correct, invalidate a proof | generation, review and rendering overlap; late drafts and artifacts; a proof falls while its report is published | what is delivered was reviewed as it is; who reads an invalid fact is told |
| opportunity research, agent ledger (`agent-ledger.ts`, `opportunity-research*`) | the project's research state, agent runs, steps, recoveries | mark dirty, pause, rerun, schedule, claim, execute, settle, recover | the scheduler of every worker, overlapping deliveries, retries that cost money | one run at a time, a step has one owner, no change is forgotten |
| scout, SERP scout (`projects.module.ts`, `opportunity-scout.ts`, `serp-scout.ts`) | agent runs, opportunities, snapshots, jobs | request, gather, reason, store; decide | evidence that is old when the briefs are stored; overlapping attempts | a run stores its briefs once; nothing is proposed that is open already |
| media (`media.module.ts`, `media-processing.ts`, `media-storage-cleanup.ts`) | assets, variants, stored objects, cleanup claims | intend, upload, complete, process, archive, expire, clean | overlapping attempts, recovery and two cleanups of one asset | a used image keeps its bytes; an erased one stays erased; every image comes to rest |
| Search Console (`gsc.module.ts`, `gsc-oauth-state.store.ts`, `gsc-sync.ts`) | OAuth intents, connections, sync runs and their rows | connect, sync, disconnect | callbacks in several calls without a transaction; tokens that cannot be used; syncs of a replaced connection | an intent connects once; no token is kept of an earlier grant; a late failure does not take away the replacement; counts agree with rows |
| import, audit (`projects.module.ts`, `website-import.ts`, `technical-audit.ts`) | runs, findings, jobs | request, crawl, store | writes without a condition | a result is not taken back by a late failure |
| tracking, projects, leads, web, tooling | - | CRUD, views | little | - |

Components interact by rows (plans, versions and deployments are written by
planning, deploy, verification and rollback), by jobs (API to worker, recovery
to worker), and by the provider (deploy and rollback publish on one site).
`PROJECT.json` lists the same components with their sources and status, and the
hazards found while reading, each at its line and with the properties that watch
it.

## Modules

| module | models | state |
| --- | --- | --- |
| `ReleaseLedger` | the rows plan, page version, deployment, rollback point; status sets; the demotion of candidates | `plans`, `versions`, `deployments`, `points` |
| `ReleasePlanning` | create, preflight, approve, cancel | `requests` |
| `DeployWorker` | deploy job, reconcile scan, queue job, provider's deploys | `attempts`, `jobs`, `provider`, `faults` |
| `DeployPipeline` | the deploy request; planning and worker together; their properties | - |
| `DeployOnce` | the abstract specification: what the pipeline promises for one plan, without jobs, attempts or claims | `begun`, `finished`, `recorded`, `outcome` |
| `WorkQueue` | one BullMQ job, as pure operators | - |
| `RollbackWorker` | rollback request, job, scan, the site's published deploy | `rollbacks`, `rollbackJobs`, `site`, `faults` |
| `ReleaseVerification` | verification request, job, projection, abandoned runs | `runs`, `runJobs`, `verifiers` |
| `ReleaseRecovery` | verification and rollback together; their properties | - |
| `WorkRecovery` | the classifier of stale work, as pure operators | - |
| `WorkLane` | what the page-generation lanes share: run, queue job and audit row; enqueue, the frame of an attempt, the recovery scan | `runs`, `jobs`, `audits`, `attempts`, `producers`, `scans`, `faults` |
| `PageProposals` | request, job and recovery of a page proposal; their properties | `opportunity`, `proposals` |
| `ReportLedger` | issues, versions, runs, artifacts, proofs and alerts; issue locks and proof checks | `issue`, `reports`, `runs`, `agents`, `artifacts`, `proofs`, `alerts` |
| `ReportDesk` | what people do: generate, review, publish, correct, invalidate | `views`, `jobs`, `faults` |
| `ReportWork` | the generation and the rendering job, narratives, recovery | `attempts` |
| `CustomerReports` | desk and work together; their properties | - |
| `ResearchLedger` | the row of a project's research, agent runs and steps, takeover | `material`, `state`, `runs`, `steps` |
| `ResearchWork` | deliveries of a research job, heartbeat, steps, recovery | `jobs`, `audits`, `deliveries`, `scan`, `left` |
| `OpportunityResearch` | scheduler, pause, rerun and material with the work; their properties | `enqueues`, `keys` |
| `MediaLedger` | assets, objects, grants and jobs; what an operator does with images | `assets`, `objects`, `grants`, `mediaJobs`, `mishaps` |
| `MediaWork` | the processing job, its stalls and its recovery | `processors` |
| `PageVersions` | versions of a proposal, edits, reviews, blockers, which image may be used | `versions`, `proposalStatus`, `blocked`, `reviews` |
| `MediaCleanup` | the cleanup of the object store by several processes | `cleaners` |
| `SectionCopy` | copy suggestions on `WorkLane`: request, dismissal, application, job, recovery | `suggestions` |
| `PageStudio` | images, cleanup, versions and suggestions together; their properties | - |
| `GscConnections` | intents, callbacks, connections, and whose tokens could not be used | `intents`, `callbacks`, `connections`, `unusable`, `mishaps` |
| `EvidenceLedger` | the requests of imports, audits, scouts, searches and syncs, their runs and jobs; the decisions about opportunities | `runs`, `opportunities`, `jobs`, `requests`, `misled` |
| `EvidenceWork` | the five handlers on one queue frame, their retries and stalls | `attempts`, `split` |
| `ProjectEvidence` | connections, requests and work together; their properties | - |
| `MCDeployPipeline`, `MCNextRelease`, `MCReleaseRecovery`, `MCPageWork`, `MCCustomerReports`, `MCOpportunityResearch`, `MCPageStudio`, `MCProjectEvidence` | initial states and symmetry for TLC | - |
| `DeployPipelineProofs`, `ReleaseRecoveryProofs`, `WorkLaneProofs`, `PageProposalsProofs`, `PageStudioProofs`, `OpportunityResearchProofs`, `ProjectEvidenceProofs`, `CustomerReportsProofs` | theorems | - |

**Correspondence.**  An action is what the code does between two points where
another process can get in: one transaction, one provider call, one read that is
used later.  A handler is a chain of such actions through the local state `pc`
of its attempt, which also carries what the code holds in local variables (the
loaded row, the id, the error).  Rows keep the columns that are read back;
`evidenceJson` is reduced to the resume token and the rollback's part, and writes
that replace it as a whole do so in the model.  Names are the source's where
TLA+ allows it, and a comment names the function otherwise.  Operators that end
in `Bug` are defects of the kind each property is there to catch; no action uses
them.

**Failures.**  Every provider or database call can throw (before or after it took
effect), every attempt can crash, the writes to the job run around a handler can
fail, and `faults` counts all of these up to `MaxFaults`.  The queue retries
errors that are not terminal until the attempts are used up, hands a job out
again when its holder is gone (a stall), and gives it up after `MaxStalls`.  With
`ZombieStalls` it also takes a *running* holder for dead, as BullMQ does when a
lock is not renewed in time; two attempts of one job then overlap.

**Abstractions** that lose something: `LoadRow` of the deploy job merges two
consecutive reads, and the API's rollback request merges its unlocked reads with
the enqueue (the job repeats every check).  The two reads of
`markManualReconciliationRequired` are one step.  Preflight checks are one
outcome, except rollback evidence.  The published deploy is always in state
"ready"; an unreadable, missing or failed one is a fault.  Evidence is always
well formed, as every writer in the code writes it, so the branches for malformed
evidence are left out.  The scans take rows one plan at a time, in any order: the
`limit` and the missing `order by` are not modelled.  In `ReleaseRecovery` a stall
happens only when the worker is gone, and one scan runs at a time (one worker
process).  In `WorkLane` time is left out: any queued or running row may be taken
for stale once its request is over (`staleAfterMs` is 15 minutes by default and
five at least), also while an attempt is at work on it, and `touched` stands for
the `updatedAt` predicate of the claim.  A request's jobs are new, so `AddJob`
has no job to replace and no audit to archive.  An add that throws has added
nothing when `LostAcks` is FALSE; otherwise it may have, as when its answer is
lost or the transaction around it fails to commit.  All runs are about one
opportunity, and the checks of the model's answer are one outcome.

*Reports.*  A transaction is one step (each locks the issue first, and the rows
of the proofs before it where both are needed).  A request that repeats its
request id writes nothing and is left out.  What publication reads before its
transaction is what the person saw.  The outcome of an enqueue is merged with the
admission, and the scan is one step, as `WorkLane` has its races in full.  The
loads of the evidence are one read.  `allowNarrativeReclaim` is true for a job
that was attempted before or was recovered.  A snapshot is told by the run, the
proofs and the prose it is made of.

*Research.*  Time is left out: a run may be taken for stale at any moment unless
its admission goes on.  What the workflow engine remembers of its steps agrees
with the ledger.  Errors inside `port.run` are wrapped as `workflow_failed`, which
is retried, so the branch that suppresses a retry is never reached and is left
out.  The scheduler's load and admission are one step, one process scans, and the
removal of an old job goes with its observation.  A recovery audit that the code
cancels is failed here.  Runs of the older scout are in `EvidenceLedger`, and do not
meet the scheduler there (limits, below).  An active
reservation that is used again is not counted against the budget, but a scan
that finds the count at its limit fails the run nevertheless.

*Images and pages.*  One proposal, and all suggestions are about one section.
Edits and reviews lock the proposal; those that find their version not to be the
latest change nothing and are left out, and a review's check of the images is one
step with its transaction.  `completeUpload` looks at the object and writes the row
in one step.  The branches without a configured queue are unreachable here.  The
recovery of an image is one step.  Seven days (the diagnostic window) are longer
than any attempt, and 24 hours (the expiry of an intent) longer than a grant.  A
claim of a cleanup is stale only when its holder is gone, unless the holder takes
longer than `claimStaleAfterMs`, which counts as a mishap.  Versions on their way
through a release are the release modules' matter.

*Evidence.*  The two reads of `queueSync` (`getConnection`, `findLatestConnection`)
are one, and `upsertMainWebsite` and the lookup of an audit's source are left out.
What Google, a crawl, a search or the model answers is any outcome; a scout run
has one brief, or none, and the quality gates let any brief through whose key the
gathered evidence did not list.  A sync's token may turn out to be unusable each time
(`TokenUnusable`): the worker cannot decrypt it, or Google answers `invalid_grant`,
`invalid_client` or any 400, 401 or 403, and nothing of this depends on whether the
grant is good.  `unusable` is a history variable that remembers of which grants, and
no action reads it.  The evidence is read in one step.  The order of a
connection's `created_at` is the order of the inserts.  `split` marks runs that
were handed out again while an attempt still worked, and `misled` those whose job
was added, or result committed, while the caller got an error: the properties name
them where the code gives no protection.

## Runs

| run | instance | shows |
| --- | --- | --- |
| `deploy_restarts` | one plan from creation, two job slots, one request, one fault, two attempts, one stall, fair | the pipeline implements `DeployOnce`; the plan closed once begun, uploads resumable; a started deploy ends, a pending one is finished |
| `deploy_overlap` | the queued job with overlapping attempts, two faults, symmetric slots and ids | one deploy, manual is final, ids fixed |
| `next_release` | a second plan and two requests while the first is finished by the scan | candidates always belong to a plan, rollback points are restorable, failed stays failed |
| `recovery` | two releases of one page, two verification runs, rollbacks, scan, one fault | plan and deployment roll back together, rollbacks own their release, restores are intended, one released version |
| `rollback_retries` | rollback job with a retry and a stall, scan, third deploy id, two faults, fair | what was restored was published and is the point's deploy or its copy; pending rollbacks end |
| `page_work` | two runs of one opportunity, two attempts at a time, two tries, one stall, one recovery, one scan, one failure, fair | a run writes one proposal if it succeeded; success is final; requested work ends |
| `customer_reports` | a report and its correction with two runs and two artifacts and no mishap, or two of one kind and one mishap; two worker slots, one proof, one person, one recovery, fair | the issue's pointers are true, delivered as reviewed, readers of an invalid fact are alerted, artifacts and prose belong to what they claim, what a report says is frozen once submitted; work ends |
| `opportunity_research` | two runs, three materials of which two can be researched, two steps with two tries, two deliveries at a time, one recovery; a change or a command with a mishap, or two changes with a command; fair | one run owns the project, one delivery a step, changes are remembered, outcomes do not change; the project is researched in the end |
| `page_studio` | one image with two widths, two processors, two cleanups, one mishap; a page of three versions; two suggestions with two attempts at a time, one failure; two reviews and blockers more than needed; fair for images | used images are served, cleaned ones erased, suggestion and run agree; decided suggestions stay; images come to rest |
| `unknown_outcome` (violated) | overlapping attempts | a second attempt's evidence error writes off the first one's operation in flight |
| `restore_stranded` (violated) | no fault at all | a retry that finds its restore published cannot complete it and leaves it in flight for good |
| `project_evidence` | an import, an audit or a search with two mishaps, or two scouts with one, or two intents and two callbacks with two syncs and none, or a connection made and synchronized again with one; two attempts at a time, two tries, one stall | results are not taken back, counts agree with rows; briefs are new; no earlier grant keeps a token, and no sync takes the replacement away |

**Bounds.**  Two attempts show a retry and a final attempt; the code's 3 and 5
differ only in how often the middle repeats.  `MaxStalls = 1` is BullMQ's default.
One fault shows every single failure in every position, and two show a failure in
the handling of another.  Two provider ids are needed to see a second deploy; a
third one in `rollback_retries` is a copy a restore makes or another release's
deploy.  `recovery` has single-attempt rollback jobs to make room for
verifications; retries are in `rollback_retries`.  Two plans of one page show
every interaction between releases that the code has, except for three or more
plans of the same versions.  `page_work` starts from two kinds of state: nothing
was requested and nothing fails, where two runs meet through the opportunity and
the route; or one run was refused by the queue, and the other one meets any one
further failure in any position.  The second kind is reached from `Init`; the
first is `Init` with the failures used up.  (With two further failures,
`MaxFaults = 3`, the run holds too and takes three minutes.)  `MaxRecovery` is 3 by
default; 1 shows a recovery and a budget that is used up.  Two answers let
overlapping attempts of a run propose different routes.  `page_work` has one scan,
as every second one multiplies the states by a hundred; two scans alone were
looked at while the modules were written (limits, below).

`customer_reports` and `opportunity_research` bound the mishaps together with what
people do (`CheckedTogether`, `Together`), since the product of all of them is out
of reach; each pair of a mishap and an overlap is still met.  For research, the
larger budgets of one change, one command and one mishap (2.3 million states) and
of one change and two mishaps (4.2 million) were checked once for the invariants.
`page_studio` starts from several kinds of state that keep its halves apart
(`MCInit`): the image is to be uploaded, was stranded by a lost enqueue, or was
claimed by a cleanup that died, while the copies are over; or the page uses an
archived image, copies are asked for, and nothing fails; or one run was refused
and the other one, fresh or once recovered, meets a failure; or the page is only
reviewed.  The halves meet through the versions: an edit decides which images are
used, and a suggestion is about the version that uses them.  One image is enough,
since a step concerns one row and the limits on images are counted per project
(`MaxUnresolved`, `MaxRetained`).  `LostAcks` is FALSE there as in `page_work`: what a
lost answer of the queue does to a proposal or a suggestion is among the limits
below.

`project_evidence` keeps its kinds of run apart in the same way: they share no rows
but the queue's frame, of which a second run of the same kind shows more.  Two
scouts, keys and decisions let a key be rejected, reopened and proposed again;
two intents, callbacks and syncs let each overlap with the other and with the
connection's replacement, so that a sync of the first grant can fail after the second
has replaced it.

**Deadlock** is not checked: a release that is live, failed or rolled back and
waits for an operator is a legitimate end.

**Fairness.**  Weak fairness of: steps of running attempts and of the scan (the
event loop goes on), taking a waiting job, noticing a dead holder, starting the
scan on a row it selects (the interval), the end of a provider build, and the
publication of an accepted restore.  In `page_work` the selection of a stale row
has strong fairness: the row need not be stale at every moment, since every write
makes it fresh again, but a row that is stale again and again is in the batch of
some tick.  The steps of a request that has begun are fair there too (it may still
crash).  `customer_reports` and `page_studio` have weak fairness of all their
workers' and scans' steps together (`Progress`, `ImageProgress`), which is enough
as those steps cannot go round in circles: attempts, recoveries and cleanups are
counted.  `opportunity_research` has it of each delivery, each admitted run's
enqueue, its recovery and its stalls, of the scan, the scheduler and the turn of
the day, at which an idempotency key ends.  No fairness for operators, new API requests, crashes or
faults.  Fairness of the two provider steps is an assumption about the provider.
Fairness is used by `DeployEnds`, `PendingEnds`, `PendingRollbackEnds`, `WorkEnds`,
`Researched` and `ImagesSettle` alone, and `SYMMETRY` is only used in runs without liveness.

## What the runs taught

Findings, each with its violated run (see `PROJECT.json` for the quoted lines):

1. `markFailed` of an overlapping attempt resets an operation in flight
   (`UnknownOutcomeKept`), after which the next attempt may begin a second deploy.
2. A `restore_in_flight` operation whose deploy is published cannot be completed
   (`NoStrandedRestore`).  The trace uses a restore "queued" without an id; a
   restore that was accepted although the call threw leads to the same state.

Limits that were seen while bounds were chosen; no run is kept for them:

- `startDeployment` replaces the evidence of a row that is already deploying: with
  a stalled attempt that still runs, the resume token just recorded is lost
  (`UploadResumable` holds with attempts that overlap only after a crash).
- `UploadResumable` and `PendingEnds` fail with two faults and a second deploy
  request, without overlap too: an attempt crashes between the record of the id and
  the upload; the final one fails on its first read, before it knows of the id, so
  `markFailed` writes the deploy off and its resume token with it; the job of a
  request that saw the plan approved then reconciles the row, finds no token and
  marks it pending.  Nobody uploads the files, and the scan looks again for ever.
- `markManualReconciliationRequired` writes the point, then the deployment, without a
  transaction.  When the restore was made, recording it failed and the second write
  fails too, the job's retry (or a new request) sees a deployment without the mark and
  a point that is not active any more, and asks the provider for the restore again; ADR
  0013 has such an operation "excluded from unsafe provider mutation retries".  TLC
  finds this in 18 states with a retry and two faults.
- A good verification supersedes every other released version of the page, the newer
  ones too.  Verifying the older of two live releases again leaves a page whose plans
  are live and whose versions are superseded, both of them (16 states, no fault).
- With two worker processes, the recovery scan that loses a claim can remove the
  job that the winner has just added, since it removes before it claims; ADR 0018
  calls a lost claim a stale no-op.  The run is found again when it is stale, at the
  price of a recovery.
- `markPageProposalQueueFailure` writes failed by id alone.  When an enqueue throws
  although the job was added (its answer was lost, or the transaction around it
  fails to commit), a worker may finish the run first, and the request then turns
  it to failed; with `LostAcks`, `SucceededStays` is violated.  ADR 0018:34 has
  "Terminal persistence must be idempotent and guarded."  Imports, audits and syncs
  write this failure, and the handler's, in the same way, and `markRunning` of an
  import or an audit takes a result back for as long as a second attempt works.
- Two callbacks of two intents that overlap can revoke each other's connection, so
  that none is left; one that dies between its insert and the revocation leaves two
  connections with tokens; and the error row of an account without properties hides
  the connection that a callback inserted before it.
- A sync that cannot decrypt its token (`refresh_token_decrypt_failed`, a wrong key), or
  whose client Google turns down (`invalid_client`, any 400, 401 or 403), sets its
  connection to error though the grant may be good, and the customer has to connect
  again; `gsc-sync.integration.ts:156` tests the first as intended.  `GrantsHold` says no
  more than that the connection is the sync's own.
- Two attempts of one sync that overlap can leave a row count that is not that of
  the rows; two attempts of one scout can repeat a brief, after the one finished
  between the other's look at the opportunities and its answer.
- Nothing recovers an import, an audit, a scout, a search or a sync whose job is
  lost.  A scout then stays active: a request for another one is answered with it,
  and the research scheduler (`opportunity-research-scheduler.ts:164`) postpones the
  project by 15 minutes again and again.
- What a scout must not repeat is read from at most 100 opportunities, without an
  order; beyond that it may.
- The jobs of imports and audits have ids with a colon (`website_import:<id>`), which
  BullMQ refuses in custom ids of two parts; the model takes the queue to accept them,
  and where it does not every such request ends in `MarkQueueFailure`.
- An upload grant outlives the processing of its image: bytes that come again after
  the original was cleaned up are never looked at again, although ADR 0020 has
  originals deleted within 24 hours of readiness.
- The limit on retained images is looked at when an upload begins, so uploads that
  are under way can exceed it.
- A suggestion that is ready for a version that is not the latest can only be
  dismissed.  An approval blocker may be put on a version that is approved.
- `DeployEnds` fails with two faults: a crash with the operation in flight, then a
  stall that exhausts the queue's patience.  Nobody looks at such a row again.
- A stale job of a cancelled plan that fails late demotes the release candidates of
  the plan that now holds the same versions.
- Two first releases deployed at the same time both pass the rollback-evidence
  check and go live without a point to roll back to.
- `markRollbackSucceeded` and `markRollbackPending` do not look at the manual mark:
  an attempt that observed the site before the scan marked the row completes it.
- Two rollback points of one plan (concurrent preflights) allow two active
  operations: the intent looks at its own point only.  Each restore still has its intent
  (`RestoreHasIntent` is proved for any number of points), but `RestoreIsIntended` fails:
  one rollback completes while the other is about to restore (15 states).
- A `completed` answer of the provider's restore is taken at its word, without
  `getPublishedDeploy`.
- A failed plan that is verified good becomes live again while its versions may be
  in a newer plan.
- An opportunity can get two proposals: a run fails retryably, a second run is
  requested and succeeds, and the retry of the first persists another route.
  Only `rejected` opportunities are refused at that point.
- A run that failed for good (a refused answer) has no job and is not active, so
  only a new request can follow; a run that is written failed while its job still
  has tries is taken up again by the retry.

## Proofs

TLAPS checks the theorems for every value of the constants, so for any number of
plans, versions, requests, attempts, verification runs and faults.  The only
assumptions are the `ASSUME`s of the modules: ids are not `None`, attempts and
limits are natural numbers, an image has at least one derivative
(`requiredWidths`), and the scan is no slot of the queue.

**`DeployPipelineProofs`** (specification `Spec` of `DeployPipeline`).

| theorem | property | also assumes |
| --- | --- | --- |
| `TypeCorrect` | `PipelineTypeOK` (no run) | |
| `BeginOnce` | `BeginAtMostOnce` | `~ZombieStalls` |
| `BegunPlanClosed` | `BegunPlanIsClosed` | `~ZombieStalls` |
| `RecordedIdFixed` | `RecordedIdStays` | `~ZombieStalls` |
| `ManualStops` | `ManualIsFinal` | |
| `FailedPlanFinal` | `FailedPlanStaysFailed` | |
| `OneActivePlan` | `VersionInOneActivePlan` | |
| `CandidatesHeld` | `CandidateHasPlan` | |
| `PointRestorable` | `PointIsRestorable` | |
| `PromiseKept` | `DeploysOnce`, a refinement | `~ZombieStalls` |

`BeginAtMostOnce` is not inductive: that the provider was not asked yet follows
only from what the ledger row says, what the row says depends on who wrote it,
and a retry may find any of it after a crash.  The invariant `IInv` therefore
ties three things together for each plan: the deploys the provider has to the
ledger row (`RowInv`: a row that has not been begun has no deploy), the row to
the plan's status, and both to the one attempt that holds the job (`SlotInv`: what
an attempt at each `pc` may rely on), while the scan (`ScanInv`) only holds ids
that were begun for its plan.  `~ZombieStalls` says that the queue takes no
running attempt for stalled, so at most one slot is in a deploy of the plan.
With overlapping attempts the run `deploy_overlap` finds no second deploy within
its bounds (two slots, one stall, two attempts), but there is no such theorem:
with a third slot or another stall the written-off operation of
`UnknownOutcomeKept` can be followed by a second begin.  `ManualStops`,
`FailedPlanFinal` and `OneActivePlan` need the types and the guards of the
compare-and-set writes alone, and hold with overlapping attempts too.
`FailedPlanFinal` is the statement of ADR 0010 that a failed plan is not
deployed again.

`CandidatesHeld` and `PointRestorable` need no such assumption either.  The first
needs no strengthening: each step is `CandidatesKept`, that is, a plan which leaves
the statuses that hold candidates demotes its items in the same transaction, so a
demotion that comes late can take the candidates of another plan (limits, above)
but leaves none without a plan.  The second does: a point names what a preflight
picked some steps before its insert, the pick what a row said then, and the row
what an attempt saw at the provider.  `SourceInv` says of each of the four that the
deploy it names was begun for its plan and is ready (`AttemptNames`, `RowNames`,
`PickNames`, `PointNames`), and `NextGrows` that the provider only adds to these.
It is weaker than `IInv` in what it says of ids, which may differ and be exchanged,
and that is why it survives overlapping attempts.

`DeploysOnce` says that the pipeline implements `DeployOnce` for every plan.  The
mapping (`Promise` in `DeployPipeline`) reads the provider's deploys of the plan as
`begun` and `finished`, the row's id as `recorded`, and the row's status and
operation as `outcome`; jobs, attempts, requests, the plan's status and the resume
token are not mapped, so most steps are stutters.  The formula is written as an
initial condition and a box around the steps of all plans, which is the conjunction
of the plans' specifications in a form TLC accepts.  Every action and every
alternative of `DeployOnce` is needed: without any one of them the run fails, also
without `Reopen` from a success, which is the late look of `markProviderPending`
(hazards), and without `Succeed` after a failure.  The proof strengthens `IInv` by
what ledger writes rely on (`OutcomeInv`, `ActorInv`): a failed row has a failed
plan, so `startDeployment` does not take it over; a claimed row is neither recorded
nor ended until its claimant writes it; whoever writes a success saw the deploy
ready; and the scan only works on rows that have an id.  `WritesRow` lists what an
actor may write into a row and from which step, and each of these writes is one
action of the promise or none.  With overlapping attempts the promise does not
hold: an attempt can begin the deploy of a row that another has handed to a human
or written off meanwhile.

**`ReleaseRecoveryProofs`** (specification `Spec` of `ReleaseRecovery`).

| theorem | property |
| --- | --- |
| `RecoveryTypeCorrect` | `RecoveryTypeOK` (no run) |
| `RollbackTogether` | `RolledBackTogether` |
| `RestoredWasPublished` | `RolledBackToRestored` |
| `RollbackOwns` | `RollbackOwnsRelease` |
| `RestoreIntended` | `RestoreHasIntent`, the first part of `RestoreIsIntended` |
| `RestoreOfFailedPlan` | `RestoreIsIntended`, if a plan has one point (`OnePointOfAPlan`) |
| `PageReleasedOnce` | `ReleasedOnce`, if it holds of the first ledger and no plan has two versions of a page (`OneVersionOfAPage`) |

The invariant has one part per kind of state.  `LedgerInv` says what rows may
claim of a rollback: a pending one names a deploy a restore made.  `LocalInv`
says the same of the *copies* an attempt or the scan carries from an earlier
read (they are written back by the hand-over to a human) and that what is about
to be recorded as completed was seen published.  It is stable because the site's
history only grows.  `JobInv` and the last part of `RunInv` say that an attempt
that is not the final one leaves its job another, which bounds the retries.
`RollbackOwns` is an action property: `Projects`, evaluated in the transaction of
`persistReleaseVerificationResult`, denies exactly the plans that `InRollback` or
the manual mark protect.

`RestoreHasIntent` speaks of a moment (an attempt is about to call the provider) long
after the read and the write it rests on, so it needs to be known who else may be at
the point meanwhile.  That is `IntentInv`, a second invariant over `IInv`.  The queue
gives a point's job to one attempt at a time and a stall only takes it from a holder
that is gone (`OneAttempt`); the scan never restores (`ScanRestoresNothing`), and only has
rows in its hands whose rollback was recorded as pending, a step after which no
attempt is before its restore (`ScanElsewhere`); hence between the intent and the
restore nobody else writes the point, and it keeps the operation the attempt put there
(`OwnIntent`).  All 30-odd steps of the job and the scan are one of a few `Moves`, each with
what it does to the ledger (`LedgerMoves`), and `MovesKeep` shows that each move keeps the
invariant.  No assumption on the ledger is needed.  `recovery` has one slot for rollback
jobs, so what TLC sees there is the intent and the plan; with a second slot
`RestoreHasIntent` was checked once in the instance of `rollback_retries` (56,070
states), and once with two points of a plan and a rollback of each (72,529 states).

`RestoreOfFailedPlan` adds that the plan is still failed and no human's.  The intent was
recorded for such a plan, and `StillOpen` says it lasts: a verification cannot take the plan,
as the point is active (`RollbackActive`), and another rollback of it would need a
point of its own.  The hypothesis is about the first ledger (rollback and verification
make no points, so it lasts) and is what preflight's look for an existing point
is for; two preflights at the same time can break it, as nothing locks the plan, and
then the property is false.

`PageReleasedOnce` has two hypotheses about the first ledger.  That no plan has two
versions of a page is needed because `createPlan` takes what it is given, and a
verification releases all items of its plan at once.  The invariant is
`ReleasedTogether`, that two released versions of a page are items of one plan.

**`PageProposalsProofs`** (specification `Spec` of `PageProposals`; also of
`FairSpec`, which is stronger).

| theorem | property | also assumes |
| --- | --- | --- |
| `ReenqueueSafe` | `ReenqueueIsSafe`, of the classifier | |
| `LaneTypeCorrect` | `ProposalsTypeOK` (no run) | |
| `WritesOnce` | `SucceededOnce` | `~LostAcks` |
| `SuccessIsFinal` | `SucceededStays` | `~LostAcks` |

The lane that page proposals and copy suggestions share is proved once, in
`WorkLaneProofs`.  A step of either is a `LaneStep`: it moves runs, jobs, attempts,
requests and scans in one of a few ways that leave open what else the module writes.
Types are not inductive by themselves: that a claim stays within the budget needs
that a scan on its way to the claim saw some budget left (`ScanInv`), and that a
retry stays within the tries needs that the holder of a job is not on its final
attempt (`FinalInv`); with `AttemptInv` and `ProducerInv` they are `LaneInv`.
`WritesOnce` rests on `WrittenInv`, that a run's proposal is written in the step
that makes it succeed, and on the one writer that overwrites a success, the request
whose enqueue failed.  `OwnedInv` (of `WorkLaneProofs`) rules it out: until its
enqueue is over, a run is known to nobody but its request (no job, no attempt, no
scan), so it cannot have succeeded when the request refuses it.  With `LostAcks`
that invariant is false (limits, above).

**`PageStudioProofs`** (specification `Spec` of `PageStudio`, from one state without
images, runs or suggestions; the run starts in states of its own).

| theorem | property | also assumes |
| --- | --- | --- |
| `StudioTypes` | `StudioTypeOK` (no run) | |
| `UsedImagesServed` | `UsedIsServed` | |
| `CleanedImagesErased` | `CleanedIsErased` | |
| `DecidedCopyFinal` | `DecidedCopyStays` | |
| `SuggestionsAgree` | `SuggestionFollowsRun` | `~LostAcks` |

The two properties of images are one argument, `ImageInv`.  An attempt holds the
count of derivatives it has stored and a cleanup the list of objects it will
delete, both long after they read the row; `Works` and `Cleans` say what such a value
still means.  The point of `Sound` is that an image which may be erased
(`Erasable`: failed, and expired or old) has no open grant and no job that could start an
attempt, and of `Works` that no attempt is at work on it: this is what the waiting period of
`claimCleanupCandidate` buys, and why a claim that was made late deletes nothing
that is stored later.  `RowStep` reduces each step to what it does to one row and its objects.
`DecidedCopyStays` holds with lost acknowledgements too, because every writer of a
suggestion compares its status first (`CopySteps`, `CopyInv`); that the suggestion
and the run agree does not: `AgreeInv` adds `OwnedInv` and, for an attempt
that is past `markRunning`, that its run is not queued any more (`PastInv`).

**`OpportunityResearchProofs`** (specification `Spec` of `OpportunityResearch`; also
of the fair one of the run, which is stronger).

| theorem | property |
| --- | --- |
| `ResearchTypes` | `TypeOK` (no run) |
| `ProjectNamesItsRun` | `StateOwnsRun` |
| `OneOwnerOfSteps` | `StepsHaveOneOwner` |
| `NoChangeForgotten` | `ChangesAreRemembered` |
| `RunHasOneHistory` | `OneHistory` |

The three invariants and the history are claims about rows, and the invariant
keeps them apart from what processes remember: `LedgerInv` mentions the project's
row, the runs and the steps only, so each transaction keeps it from its own
compare-and-set, whoever runs it and however late.  Two parts of it are no
property: that a run nobody claimed has epoch 0 and steps carry epochs the run
has had (`EpochInv`), and that the steps before a completed one were completed no
later (`HistoryInv`), without which a takeover could complete a step out of order.
Some writes look at less than they need: a delivery fails a run by its id and a
scan requeues the one it read.  For these, `DeliveryInv`, `JobInv` and `ScanInv` say
what a delivery, a job and the scan know of the rows.

**`ProjectEvidenceProofs`** (specification `Spec` of `ProjectEvidence`, from one
state without runs or connections; the run also starts in states of its own).

| theorem | property |
| --- | --- |
| `EvidenceTypes` | `WorkTypeOK` (no run) |
| `ScoutsRepeatNothing` | `BriefsAreNew` |
| `RunKeepsItsResult` | `ResultsStay` |
| `ConnectionIsTheLastGrant` | `GrantsHold` |

`BriefsAreNew` needs what a scout knows at its insert (`Sees`): the keys it has left
out are those of the opportunities that were open when it looked, and none of its
kind can have become open since, because the unique index on active runs
(`ActiveScouts`) keeps every other scout out until this one ends.  `ResultsStay` is an action
property over writes that look at an id alone; what holds it is `JobInv`: while
a run is not in `split` (no stalled attempt still works, no error has misreported a
commit) its only attempt holds its only job and knows whether it is the last.
`GrantsHold` rests on `TokenInv`, `NonceInv` and `HasReason`.  A connection is settled
(`Settled`) when the callback that inserted it has revoked the others; tokens are only
ever given to the newest row and taken for good, so none before a settled one has a token.
A nonce that was consumed belongs to one callback or to one connection.  And an attempt
that is about to set a connection to error either found that connection not connected,
which is final, or has put its grant into `unusable`.

**`CustomerReportsProofs`** (specification `Spec` of `CustomerReports`).

| theorem | property |
| --- | --- |
| `ReportTypes` | `TypeOK` (no run) |
| `PointersTrue` | `PointersAreTruth` |
| `DeliveredWasReviewed` | `DeliveredAsReviewed` |
| `InvalidatedAlerted` | `InvalidEvidenceAlerted` |
| `RenderingsKept` | `RenderingsBelong` |
| `ProseAttributed` | `ProseIsAttributed` |
| `SayingFrozen` | `SayingIsFrozen` |

The rows of the month keep their claims by themselves, since each transaction locks
the issue: `IssueInv` (the first three properties), `ReportInv` (a report has an
artifact once it is delivered) and `ArtifactInv`.  The last says why one rendering
at most is usable: a live artifact is the last one of its report (a retry needs the
latest to have failed, and a submission finds none live because sending back expired
them) and is `InUse`: of the digest under review, or the one published.  What is held
across transactions is a screen and an attempt.  A screen is harmless because
artifacts keep their report and digest (`Lasts`), so what a command names means today
what it meant when it was seen (`ViewInv`); an attempt because an agent run that
succeeded keeps its output (`Remembered`, `AttemptInv`): this is what
`ProseIsAttributed` rests on when two attempts of a run overlap.  That a draft is
stored into a new report only under its own run's id needs `RunInv`.  Every action is
shown to be `Kept`, which says what a step may do to the rows and to what is held.

The type invariants of these specifications are proved and no longer part of a run.

**Only model-checked.**

- Liveness (`DeployEnds`, `PendingEnds`, `PendingRollbackEnds`, `WorkEnds`,
  `Researched`, `ImagesSettle`): the prover has no fairness.
- `UploadResumable`: holds within the bounds of its run (one fault), and not for every
  value of the constants (limits, above).
- `UnknownOutcomeKept` and `NoStrandedRestore` are the properties of the violated runs.

## Not modelled

- Everything listed as `not_modelled` in `PROJECT.json`, with the reason there.
- Inside the modelled components: the preflight checks other than rollback
  evidence, what a verification looks at, wording and audit events, HTTP status
  mapping of the provider adapter, malformed evidence.
- Postgres is serial per transaction (its read-committed anomalies are modelled
  where the code reads without a lock, by separate steps).
- `apps/web`, rendering, schemas and repository tooling have no protocol state.

## Plan

Done: (1) release ledger, deploy worker and planning; (2) verification and
rollback; (3) proofs about both; (4) what a deploy promises, and that the pipeline
keeps it; (5) page proposals and copy suggestions with their
recovery; (6) page versions, reviews and applied
suggestions; (7) reports; (8) opportunity research; (9) images and their cleanup;
(10) imports, audits, scouts and Search Console; (11) proofs about (5) to (10).
Next, in this order:

| step | modules | abstract specification, runs, theorems |
| --- | --- | --- |
| - | `RestoreOnce`: what a rollback promises, as `DeployOnce` does for a deploy | `ReleaseRecovery` implements it; `NoStrandedRestore` is where it does not end |
| 6 | page versions joined to planning through the version's status | approval is of what was shown and stays what is released |
| 12 | `ProjectProfile`: the profile, entities and knowledge of a project, with their row versions | an edit overwrites nothing its author did not see |
| 13 | `ReleaseDecisions`: the pure decision functions of the domain against reference definitions over bounded inputs | one run without state |

Components that share no rows are checked in one run each, with small instances
of several modules side by side where the product stays small.
