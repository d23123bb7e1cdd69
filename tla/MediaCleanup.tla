------------------------------ MODULE MediaCleanup ------------------------------
(***************************************************************************)
(* The cleanup of the object store (apps/worker/src/                       *)
(* media-storage-cleanup.ts): every worker process scans for images whose  *)
(* original is not needed any more, or that failed and are used by no page *)
(* version, claims one and deletes its objects.                            *)
(***************************************************************************)
EXTENDS MediaWork, PageVersions

CONSTANT Cleaner \* cleanup scans, one per worker process

VARIABLE cleaners \* the local variables of each scan

mediaVars == <<imageVars, cleaners>>

\* was, seen: status and attempt count of the row it looked at, then the count of its claim;
\* the rest is what there is to delete.
CleanerState ==
    [pc : {"idle", "exhaust", "claim", "delete", "refuse"}, asset : Asset \cup {0},
     was : {"none", "failed"} \cup Retained, seen : 0..MaxCleanups,
     source : BOOLEAN, derivatives : SUBSET Width]
NoCleaner == [pc |-> "idle", asset |-> 0, was |-> "none", seen |-> 0,
              source |-> FALSE, derivatives |-> {}]

CleanupTypeOK == ImagesTypeOK /\ cleaners \in [Cleaner -> CleanerState]

CleanupInit == cleaners = [c \in Cleaner |-> NoCleaner]

cleanupFrame == <<grants, mediaJobs, processors, versionVars>>

LetsGo(c) == cleaners' = [cleaners EXCEPT ![c] = NoCleaner]
SetCleanup(a, how) == assets' = [assets EXCEPT ![a].cleanup = how]

EligibleBug(a) ==
    \/ assets[a].status \in Retained
    \/ assets[a].status = "failed" /\ ~Referenced(a)

\* decideMediaStorageCleanup, and the predicates of the candidates and of the claim
Eligible(a) ==
    \/ assets[a].status \in Retained
    \/ /\ assets[a].status = "failed"
       /\ assets[a].expired \/ assets[a].old
       /\ ~Referenced(a)

\* A claim older than claimStaleAfterMs, which leaves its holder the time to delete
ClaimStale(a) == \A c \in Cleaner : cleaners[c].asset # a \/ cleaners[c].pc \in {"exhaust", "claim"}

\* loadCleanupCandidates, one row of the batch at a time
PickCandidate(c, a) ==
    /\ cleaners[c].pc = "idle"
    /\ Eligible(a)
    /\ \/ assets[a].cleanup = "due" /\ UNCHANGED mishaps
       \/ /\ assets[a].cleanup = "claimed"
          /\ \/ ClaimStale(a) /\ UNCHANGED mishaps
             \/ ~ClaimStale(a) /\ GoesWrong \* a holder that takes too long
    /\ cleaners' = [cleaners EXCEPT ![c] = [NoCleaner EXCEPT
            !.pc = IF assets[a].tries >= MaxCleanups THEN "exhaust" ELSE "claim",
            !.asset = a, !.was = assets[a].status, !.seen = assets[a].tries]]
    /\ UNCHANGED <<assets, objects, cleanupFrame>>

\* The attempt count did not change since; a claim that is as old as it was then is stale
\* still.
Unclaimed(c) ==
    /\ assets[cleaners[c].asset].tries = cleaners[c].seen
    /\ assets[cleaners[c].asset].cleanup # "completed"
    /\ Eligible(cleaners[c].asset)

MarkCleanupExhausted(c) ==
    LET a == cleaners[c].asset IN
    /\ cleaners[c].pc = "exhaust"
    /\ IF Unclaimed(c) /\ assets[a].status = cleaners[c].was
         THEN SetCleanup(a, "exhausted") ELSE UNCHANGED assets
    /\ LetsGo(c)
    /\ UNCHANGED <<objects, mishaps, cleanupFrame>>

\* claimCleanupCandidate; the listing of deleteClaimedStorage
ClaimCleanupCandidate(c) ==
    LET a == cleaners[c].asset IN
    /\ cleaners[c].pc = "claim"
    /\ \/ /\ Unclaimed(c)
          /\ assets' = [assets EXCEPT ![a].cleanup = "claimed", ![a].tries = @ + 1]
          /\ cleaners' = [cleaners EXCEPT ![c] = [cleaners[c] EXCEPT
                !.pc = "delete", !.seen = @ + 1, !.source = TRUE,
                !.derivatives = IF assets[a].status = "failed"
                                  THEN objects[a].derivatives ELSE {}]]
       \/ ~Unclaimed(c) /\ LetsGo(c) /\ UNCHANGED assets
    /\ UNCHANGED <<objects, mishaps, cleanupFrame>>

\* deleteClaimedStorage, one object at a time; deleting what is gone succeeds.
DeleteSource(c) ==
    /\ cleaners[c].pc = "delete" /\ cleaners[c].source
    /\ objects' = [objects EXCEPT ![cleaners[c].asset].source = FALSE]
    /\ cleaners' = [cleaners EXCEPT ![c].source = FALSE]
    /\ UNCHANGED <<assets, mishaps, cleanupFrame>>

DeleteDerivative(c) ==
    /\ cleaners[c].pc = "delete"
    /\ \E w \in cleaners[c].derivatives :
        /\ objects' = [objects EXCEPT ![cleaners[c].asset].derivatives = @ \ {w}]
        /\ cleaners' = [cleaners EXCEPT ![c].derivatives = @ \ {w}]
    /\ UNCHANGED <<assets, mishaps, cleanupFrame>>

DeleteFails(c) ==
    /\ cleaners[c].pc = "delete"
    /\ GoesWrong
    /\ cleaners' = [cleaners EXCEPT ![c].pc = "refuse"]
    /\ UNCHANGED <<assets, objects, cleanupFrame>>

\* claimPredicate: each claim counts the attempts up.
HasClaim(c) ==
    /\ assets[cleaners[c].asset].tries = cleaners[c].seen
    /\ assets[cleaners[c].asset].cleanup = "claimed"

MarkCleanupCompleted(c) ==
    /\ cleaners[c].pc = "delete" /\ ~cleaners[c].source /\ cleaners[c].derivatives = {}
    /\ IF HasClaim(c) THEN SetCleanup(cleaners[c].asset, "completed") ELSE UNCHANGED assets
    /\ LetsGo(c)
    /\ UNCHANGED <<objects, mishaps, cleanupFrame>>

MarkCleanupFailed(c) ==
    LET over == cleaners[c].seen >= MaxCleanups IN
    /\ cleaners[c].pc = "refuse"
    /\ IF HasClaim(c)
         THEN SetCleanup(cleaners[c].asset, IF over THEN "exhausted" ELSE "due")
         ELSE UNCHANGED assets
    /\ LetsGo(c)
    /\ UNCHANGED <<objects, mishaps, cleanupFrame>>

CleanerCrash(c) ==
    /\ cleaners[c].pc # "idle"
    /\ GoesWrong
    /\ LetsGo(c)
    /\ UNCHANGED <<assets, objects, cleanupFrame>>

CleanerStep(c) ==
    \/ \E a \in Asset : PickCandidate(c, a)
    \/ MarkCleanupExhausted(c) \/ ClaimCleanupCandidate(c)
    \/ DeleteSource(c) \/ DeleteDerivative(c)
    \/ MarkCleanupCompleted(c) \/ MarkCleanupFailed(c)
================================================================================
