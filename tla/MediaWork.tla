------------------------------- MODULE MediaWork -------------------------------
(***************************************************************************)
(* How the worker processes normalize uploaded images                      *)
(* (handlers/media-processing.ts), and recover processing that got stuck   *)
(* (work-recovery.ts).  A job may be handed out again while its old        *)
(* attempt still works.                                                    *)
(***************************************************************************)
EXTENDS MediaLedger, WorkRecovery

CONSTANT Processor \* worker slots that process images

VARIABLE processors \* the local variables of each attempt

imageVars == <<mediaLedgerVars, processors>>

\* holds: the queue still believes that this attempt has the job.
ProcessorState ==
    [pc : {"idle", "load", "read", "put", "persist", "refuse", "end"}, asset : Asset \cup {0},
     holds : BOOLEAN, done : 0..MaxWidths, ends : {"completed", "failed", "retry"}]
NoProcessor == [pc |-> "idle", asset |-> 0, holds |-> FALSE, done |-> 0, ends |-> "completed"]

ImagesTypeOK ==
    /\ MediaLedgerTypeOK
    /\ processors \in [Processor -> ProcessorState]

ImagesInit == processors = [p \in Processor |-> NoProcessor]

----------------------------------------------------------------------------
(* Processing: executeMediaProcessing *)

Proceeds(p, pc) == processors' = [processors EXCEPT ![p].pc = pc]
Finishes(p, how) == processors' = [processors EXCEPT ![p].pc = "end", ![p].ends = how]

TakeImage(p, a) ==
    /\ mediaJobs[a].state = "waiting"
    /\ processors[p].pc = "idle"
    /\ mediaJobs' = [mediaJobs EXCEPT ![a].state = "active"]
    /\ processors' = [processors EXCEPT ![p] =
            [NoProcessor EXCEPT !.pc = "load", !.asset = a, !.holds = TRUE]]
    /\ UNCHANGED <<assets, objects, grants, mishaps>>

LoadAsset(p) ==
    LET status == assets[processors[p].asset].status IN
    /\ processors[p].pc = "load"
    /\ \/ status \in Retained /\ Finishes(p, "completed")
       \/ status = "processing" /\ Proceeds(p, "read")
       \/ status \notin Retained \cup {"processing"} /\ Finishes(p, "failed")
    /\ UNCHANGED mediaLedgerVars

\* The source is read and decoded; it is missing, or not an image of the accepted kinds.
ReadSource(p) ==
    /\ processors[p].pc = "read"
    /\ \/ objects[processors[p].asset].source /\ Proceeds(p, "put")
       \/ Proceeds(p, "refuse")
    /\ UNCHANGED mediaLedgerVars

\* One derivative after the other, under keys and with bytes that follow from the source
PutDerivative(p) ==
    LET a == processors[p].asset
        w == processors[p].done + 1
    IN
    /\ processors[p].pc = "put"
    /\ objects' = [objects EXCEPT ![a].derivatives = @ \cup {w}]
    /\ processors' = [processors EXCEPT ![p].done = w,
            ![p].pc = IF w = MaxWidths THEN "persist" ELSE "put"]
    /\ UNCHANGED <<assets, grants, mediaJobs, mishaps>>

\* persistReady: a refusal is an evidence error, which is to be marked.
PersistReady(p) ==
    LET a == processors[p].asset
        status == assets[a].status
    IN
    /\ processors[p].pc = "persist"
    /\ \/ status \in Retained /\ Finishes(p, "completed") /\ UNCHANGED assets
       \/ status \notin Retained \cup {"processing"} /\ Proceeds(p, "refuse") /\ UNCHANGED assets
       \/ /\ status = "processing"
          /\ assets' = [assets EXCEPT ![a].status = "ready", ![a].variants = Width,
                                      ![a].old = FALSE]
          /\ Finishes(p, "completed")
    /\ UNCHANGED <<objects, grants, mediaJobs, mishaps>>

MarkImageFailedBug(p) ==
    /\ processors[p].pc = "refuse"
    /\ SetStatus(processors[p].asset, "failed")
    /\ Finishes(p, "failed")
    /\ UNCHANGED <<objects, grants, mediaJobs, mishaps>>

\* markFailed
MarkImageFailed(p) ==
    LET a == processors[p].asset IN
    /\ processors[p].pc = "refuse"
    /\ IF assets[a].status = "processing" THEN SetStatus(a, "failed") ELSE UNCHANGED assets
    /\ Finishes(p, "failed")
    /\ UNCHANGED <<objects, grants, mediaJobs, mishaps>>

EndImage(p) ==
    LET a == processors[p].asset
        over == IF processors[p].ends = "retry" THEN "waiting" ELSE processors[p].ends
    IN
    /\ processors[p].pc = "end"
    /\ mediaJobs' = IF processors[p].holds
                      THEN [mediaJobs EXCEPT ![a].state = over] ELSE mediaJobs
    /\ processors' = [processors EXCEPT ![p] = NoProcessor]
    /\ UNCHANGED <<assets, objects, grants, mishaps>>

\* A call throws: the job is retried, unless its attempts are used up.
ImageThrows(p) ==
    /\ processors[p].pc \notin {"idle", "end"}
    /\ GoesWrong
    /\ \E how \in {"retry", "failed"} : Finishes(p, how)
    /\ UNCHANGED <<assets, objects, grants, mediaJobs>>

ProcessorCrash(p) ==
    /\ processors[p].pc # "idle"
    /\ GoesWrong
    /\ processors' = [processors EXCEPT ![p] = NoProcessor]
    /\ UNCHANGED <<assets, objects, grants, mediaJobs>>

Held(a) == \E p \in Processor : processors[p].asset = a /\ processors[p].holds

\* The lock of the job expired: its holder is gone, or did not renew it (a mishap).  The
\* queue hands the job out again, or gives it up.
ImageStalls(a) ==
    /\ mediaJobs[a].state = "active"
    /\ \/ ~Held(a) /\ UNCHANGED <<mishaps, processors>>
       \/ /\ Held(a)
          /\ GoesWrong
          /\ processors' = [p \in Processor |->
                IF processors[p].asset = a THEN [processors[p] EXCEPT !.holds = FALSE]
                                           ELSE processors[p]]
    /\ \E state \in {"waiting", "failed"} :
            mediaJobs' = [mediaJobs EXCEPT ![a].state = state]
    /\ UNCHANGED <<assets, objects, grants>>

\* The recovery scan, whose races WorkLane models in full
ImageRecovery(a) == ClassifyWorkRecovery(
    [category |-> "artifact_capture", durable |-> "running",
     transport |-> TransportState(mediaJobs[a].state), freshness |-> "stale",
     count |-> mediaJobs[a].recovered, max |-> MaxReenqueues,
     idempotent |-> TRUE, uncertain |-> FALSE])

RecoverImageBug(a) ==
    /\ assets[a].status = "processing"
    /\ ImageRecovery(a) = "reenqueue" /\ mediaJobs[a].state = "failed"
    /\ mediaJobs' = [mediaJobs EXCEPT ![a].state = "waiting", ![a].recovered = @ + 1]
    /\ UNCHANGED <<assets, objects, grants, mishaps, processors>>

RecoverImage(a) ==
    /\ assets[a].status = "processing"
    /\ ImageRecovery(a) = "reenqueue"
    /\ \/ /\ mediaJobs' = [mediaJobs EXCEPT ![a].state = "waiting", ![a].recovered = @ + 1]
          /\ UNCHANGED mishaps
       \/ /\ GoesWrong \* claimed, the old job removed, and nothing added
          /\ mediaJobs' = [mediaJobs EXCEPT ![a].state = "missing", ![a].recovered = @ + 1]
    /\ UNCHANGED <<assets, objects, grants, processors>>

\* markMediaProcessingRecoveryFailed
GiveImageUp(a) ==
    /\ assets[a].status = "processing"
    /\ ImageRecovery(a) = "mark_execution_failed"
    /\ SetStatus(a, "failed")
    /\ UNCHANGED <<objects, grants, mediaJobs, mishaps, processors>>

\* 24 hours are more than a grant lasts; in seven days every attempt is over too.
TimePasses(a) ==
    /\ ~assets[a].old
    /\ grants[a] # "open"
    /\ \/ assets[a].status = "pending_upload"
       \/ /\ assets[a].status = "failed"
          /\ mediaJobs[a].state \notin {"waiting", "active"}
          /\ \A p \in Processor : processors[p].asset # a
    /\ assets' = [assets EXCEPT ![a].old = TRUE]
    /\ UNCHANGED <<objects, grants, mediaJobs, mishaps, processors>>

ProcessorStep(p) ==
    \/ \E a \in Asset : TakeImage(p, a)
    \/ LoadAsset(p) \/ ReadSource(p) \/ PutDerivative(p)
    \/ PersistReady(p) \/ MarkImageFailed(p) \/ EndImage(p)

ImageStep ==
    \/ \E p \in Processor : ProcessorStep(p) \/ ImageThrows(p) \/ ProcessorCrash(p)
    \/ \E a \in Asset :
        \/ ImageStalls(a) \/ RecoverImage(a) \/ GiveImageUp(a) \/ TimePasses(a)
        \/ (GrantCloses(a) \/ ExpireIntent(a)) /\ UNCHANGED processors
    \/ OperatorStep /\ UNCHANGED processors
================================================================================
