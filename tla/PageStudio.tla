------------------------------- MODULE PageStudio -------------------------------
(***************************************************************************)
(* The page studio: images that are uploaded, processed and cleaned up,    *)
(* page versions that use them, and copy suggestions for the versions.     *)
(* What the parts share are the rows of the images, which edits read and   *)
(* whose cleanup asks for the versions, and the versions themselves.       *)
(***************************************************************************)
EXTENDS SectionCopy, MediaCleanup

vars == <<mediaVars, versionVars, copyVars>>

StudioTypeOK == CleanupTypeOK /\ SuggestionsTypeOK

Init ==
    /\ MediaLedgerInit /\ ImagesInit /\ CleanupInit /\ mishaps = 0
    /\ VersionsInit
    /\ LaneInit /\ SuggestionsInit

ImagesGoOn == ImageStep /\ UNCHANGED <<cleaners, versionVars, copyVars>>

CleanersGoOn ==
    /\ \E c \in Cleaner : CleanerStep(c) \/ DeleteFails(c) \/ CleanerCrash(c)
    /\ UNCHANGED copyVars

CopiesGoOn == (OperatorCopies \/ WorkerCopies \/ CopyMishap) /\ UNCHANGED mediaVars

Reviewed == ReviewStep /\ UNCHANGED <<mediaVars, copyVars>>

Next == ImagesGoOn \/ CleanersGoOn \/ CopiesGoOn \/ Reviewed

Spec == Init /\ [][Next]_vars

\* What happens to images without an operator and without a mishap
ImageProgress ==
    \/ /\ \/ \E p \in Processor : ProcessorStep(p)
          \/ \E a \in Asset :
                \/ ImageStalls(a) \/ RecoverImage(a) \/ GiveImageUp(a) \/ TimePasses(a)
                \/ (GrantCloses(a) \/ ExpireIntent(a)) /\ UNCHANGED processors
       /\ UNCHANGED <<cleaners, versionVars, copyVars>>
    \/ (\E c \in Cleaner : CleanerStep(c)) /\ UNCHANGED copyVars

\* Worker processes go on, the queue and the scans come back, and time passes.
FairSpec == Spec /\ WF_vars(ImageProgress)

----------------------------------------------------------------------------
(* Properties *)

\* Every image that a page version uses can be served, with all its derivatives: late
\* attempts, archiving and cleanups of the object store take nothing from a page.
UsedIsServed == \A a \in Asset : Referenced(a) => Served(a)

\* A failed image whose cleanup was completed has nothing left in the object store: nobody
\* who was still at work with it stores anything afterwards.
CleanedIsErased == \A a \in Asset :
    assets[a].status = "failed" /\ assets[a].cleanup = "completed" => objects[a] = Nothing

\* Every image comes to rest: it can be used or failed, and the cleanup of its objects is
\* completed, or was given up visibly.
ImagesSettle == \A a \in Asset :
    assets[a].status # "absent" ~>
        /\ assets[a].status \in Retained \cup {"failed"}
        /\ assets[a].cleanup \in {"completed", "exhausted"}

\* What a suggestion may be while its run is in some state
SuggestionOf(status) ==
    CASE status = "absent" -> {"absent"}
      [] status = "queued" -> {"queued"}
      [] status = "running" -> {"generating"}
      [] status = "failed" -> {"failed", "dismissed"}
      [] status = "succeeded" -> {"ready", "applied", "dismissed"}

\* A suggestion and its run agree, although four parties write them (the request, the
\* operator, overlapping attempts, the recovery scan).
SuggestionFollowsRun ==
    \A r \in Run : suggestions[r].status \in SuggestionOf(runs[r].status)

\* A suggestion that an operator dismissed or applied stays so, and an applied one is in
\* exactly one page version, the next after the one it was written for.
DecidedCopyStays ==
    [][\A r \in Run :
        /\ suggestions[r].status \in {"dismissed", "applied"} => suggestions'[r] = suggestions[r]
        /\ {v \in DOMAIN versions' : versions'[v].copy = r} =
            (IF suggestions'[r].status = "applied" THEN {suggestions'[r].version + 1} ELSE {})]_vars
================================================================================
