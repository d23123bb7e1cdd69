------------------------------ MODULE MediaLedger ------------------------------
(***************************************************************************)
(* The images of a project: rows of media_assets and media_asset_variants, *)
(* the private objects that belong to them, and what an operator does with *)
(* them through the API (media.module.ts).  Only the controls are          *)
(* modelled: an object is there or not, all images want the same widths.   *)
(***************************************************************************)
EXTENDS Naturals, FiniteSets

CONSTANTS
    MaxAssets,     \* bound on upload intents
    MaxWidths,     \* derivatives that an image of this size requires
    MaxUnresolved, \* MEDIA_MAX_UNRESOLVED_ASSETS
    MaxRetained,   \* MEDIA_MAX_RETAINED_ASSETS
    MaxCleanups,   \* MEDIA_CLEANUP_MAX_ATTEMPTS
    MaxReenqueues, \* maxRecoveryCount of the recovery scan
    MaxMishaps     \* bound on crashes, failing calls and lost locks

\* requiredWidths names one width at least: that of the image, if it is narrow.
ASSUME MediaConstants ==
    /\ {MaxAssets, MaxUnresolved, MaxRetained, MaxCleanups, MaxReenqueues, MaxMishaps} \subseteq Nat
    /\ MaxWidths \in Nat \ {0}

VARIABLES
    assets,    \* media_assets, with the keys of its media_asset_variants
    objects,   \* the object store: the quarantined source, and derivatives by width
    grants,    \* upload grants, which last ten minutes
    mediaJobs, \* BullMQ, by asset id
    mishaps

mediaLedgerVars == <<assets, objects, grants, mediaJobs, mishaps>>

Asset == 1..MaxAssets
Width == 1..MaxWidths

Unresolved == {"pending_upload", "processing"}
Retained == {"ready", "archived"}

\* old: a pending intent after 24 hours, a failed asset after seven days.
AssetRow ==
    [status : {"absent", "failed"} \cup Unresolved \cup Retained,
     expired : BOOLEAN, old : BOOLEAN, variants : SUBSET Width,
     cleanup : {"due", "claimed", "completed", "exhausted"}, tries : 0..MaxCleanups]
NoAsset == [status |-> "absent", expired |-> FALSE, old |-> FALSE, variants |-> {},
            cleanup |-> "due", tries |-> 0]

Stored == [source : BOOLEAN, derivatives : SUBSET Width]
Nothing == [source |-> FALSE, derivatives |-> {}]

MediaJob == [state : {"missing", "waiting", "active", "completed", "failed"},
             recovered : 0..MaxReenqueues]

MediaLedgerTypeOK ==
    /\ assets \in [Asset -> AssetRow]
    /\ objects \in [Asset -> Stored]
    /\ grants \in [Asset -> {"none", "open", "closed"}]
    /\ mediaJobs \in [Asset -> MediaJob]
    /\ mishaps \in 0..MaxMishaps

MediaLedgerInit ==
    /\ assets = [a \in Asset |-> NoAsset]
    /\ objects = [a \in Asset |-> Nothing]
    /\ grants = [a \in Asset |-> "none"]
    /\ mediaJobs = [a \in Asset |-> [state |-> "missing", recovered |-> 0]]

GoesWrong == mishaps < MaxMishaps /\ mishaps' = mishaps + 1

SetStatus(a, status) ==
    assets' = [assets EXCEPT ![a].status = status, ![a].old = FALSE]

WithStatus(among) == {a \in Asset : assets[a].status \in among}

----------------------------------------------------------------------------
\* assertMediaQuota, under the lock of the project
WithinQuota ==
    /\ Cardinality(WithStatus(Unresolved)) < MaxUnresolved
    /\ Cardinality(WithStatus(Retained)) < MaxRetained

\* createUploadIntent: ids are fresh, here in order.  A grant that cannot be made fails
\* the intent; a process that dies before leaves an intent without a grant.
CreateUploadIntent(a) ==
    /\ assets[a].status = "absent"
    /\ \A b \in Asset : b < a => assets[b].status # "absent"
    /\ WithinQuota
    /\ \/ /\ SetStatus(a, "pending_upload")
          /\ grants' = [grants EXCEPT ![a] = "open"]
          /\ UNCHANGED mishaps
       \/ /\ GoesWrong
          /\ \E status \in {"failed", "pending_upload"} : SetStatus(a, status)
          /\ UNCHANGED grants
    /\ UNCHANGED <<objects, mediaJobs>>

\* The bytes come straight to the object store (or, locally, through writeLocalUpload).
\* The checksum is part of the grant, so whatever comes is the promised image; it may
\* come again as long as the grant lasts.
Upload(a) ==
    /\ grants[a] = "open"
    /\ ~objects[a].source
    /\ objects' = [objects EXCEPT ![a].source = TRUE]
    /\ UNCHANGED <<assets, grants, mediaJobs, mishaps>>

\* completeUpload: the answer of the enqueue may be lost, or the process die before it.
CompleteUpload(a) ==
    /\ assets[a].status = "pending_upload"
    /\ objects[a].source
    /\ SetStatus(a, "processing")
    /\ \/ /\ mediaJobs' = [mediaJobs EXCEPT ![a].state = "waiting"]
          /\ UNCHANGED mishaps
       \/ GoesWrong /\ UNCHANGED mediaJobs
    /\ UNCHANGED <<objects, grants>>

ArchiveAsset(a) ==
    /\ assets[a].status = "ready"
    /\ SetStatus(a, "archived")
    /\ UNCHANGED <<objects, grants, mediaJobs, mishaps>>

OperatorStep == \E a \in Asset :
    CreateUploadIntent(a) \/ Upload(a) \/ CompleteUpload(a) \/ ArchiveAsset(a)

----------------------------------------------------------------------------
(* Time *)

GrantCloses(a) ==
    /\ grants[a] = "open"
    /\ grants' = [grants EXCEPT ![a] = "closed"]
    /\ UNCHANGED <<assets, objects, mediaJobs, mishaps>>

\* expirePendingMediaUploadIntents
ExpireIntent(a) ==
    /\ assets[a].status = "pending_upload" /\ assets[a].old
    /\ assets' = [assets EXCEPT ![a].status = "failed", ![a].expired = TRUE, ![a].old = FALSE]
    /\ UNCHANGED <<objects, grants, mediaJobs, mishaps>>
================================================================================
