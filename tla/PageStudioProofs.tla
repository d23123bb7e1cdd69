---------------------------- MODULE PageStudioProofs ----------------------------
(***************************************************************************)
(* Theorems about PageStudio, for every number of images, widths, workers, *)
(* cleanups, versions, runs, attempts, requests, scans and faults.         *)
(*                                                                         *)
(* The images and what is done with them form one half (ImageInv): what an *)
(* attempt or a cleanup relies on is said of the values it holds, of the   *)
(* row of its image and of the image's objects, and every step is judged   *)
(* by what it may do to these (RowStep).  The runs (LaneInv, OwnedInv) and *)
(* their suggestions form the other half (BirthInv, CopyInv, AgreeInv);    *)
(* the halves meet in the page versions.                                   *)
(***************************************************************************)
EXTENDS PageStudio, WorkLaneProofs

----------------------------------------------------------------------------
(* Images *)

\* A failed image that nobody will work on any more: the cleanup may erase it.
Erasable(row) == row.status = "failed" /\ (row.expired \/ row.old)
Uncompleted == {"absent", "pending_upload"}

\* What a row, its objects, its grant and its job say of each other
Sound(row, obj, grant, job) ==
    /\ row.status \in Retained => row.variants = Width /\ obj.derivatives = Width
    /\ row.status \notin Retained \cup {"failed"} => row.cleanup = "due"
    /\ row.status \in Uncompleted => job = "missing"
    /\ row.status = "pending_upload" /\ row.old => grant # "open"
    /\ row.expired => row.status = "failed"
    /\ row.status = "failed" /\ row.cleanup # "due" => Erasable(row)
    /\ Erasable(row) => grant # "open" /\ job \notin {"waiting", "active"}
    /\ row.status = "failed" /\ row.cleanup = "completed" => obj = Nothing

\* What an attempt that is at work relies on
Works(w, row, obj) ==
    /\ row.status \notin Uncompleted /\ ~Erasable(row)
    /\ w.pc \in {"load", "read"} => w.done = 0
    /\ w.pc = "put" => w.done < MaxWidths
    /\ w.pc = "persist" => w.done = MaxWidths
    /\ w.pc \in {"put", "persist"} /\ row.status # "failed" => 1..w.done \subseteq obj.derivatives

\* What a cleanup that is at work relies on: it deletes everything of a failed image, and
\* no derivative of another one.
Cleans(d, row, obj) ==
    /\ d.pc = "claim" => d.seen < MaxCleanups
    /\ d.pc = "delete" =>
        /\ row.status \in Retained \cup {"failed"}
        /\ row.status # "failed" => d.derivatives = {}
        /\ row.status = "failed" =>
            /\ Erasable(row)
            /\ obj.derivatives \subseteq d.derivatives
            /\ obj.source => d.source

ImageInv ==
    /\ CleanupTypeOK
    /\ \A a \in Asset : Sound(assets[a], objects[a], grants[a], mediaJobs[a].state)
    /\ \A p \in Processor : processors[p].pc # "idle" =>
        /\ processors[p].asset \in Asset
        /\ Works(processors[p], assets[processors[p].asset], objects[processors[p].asset])
    /\ \A c \in Cleaner : cleaners[c].pc # "idle" =>
        /\ cleaners[c].asset \in Asset
        /\ Cleans(cleaners[c], assets[cleaners[c].asset], objects[cleaners[c].asset])
    /\ \A v \in DOMAIN versions : \A a \in versions[v].media :
        a \in Asset /\ assets[a].status \in Retained

----------------------------------------------------------------------------
(* Suggestions *)

\* A run that was not requested has no suggestion yet, and the versions that a suggestion
\* wrote are the one it was applied in.
BirthInv == \A r \in Run : runs[r].status = "absent" => suggestions[r].status = "absent"

Written(r) == {v \in DOMAIN versions : versions[v].copy = r}
CopyInv == \A r \in Run :
    Written(r) = IF suggestions[r].status = "applied" THEN {suggestions[r].version + 1} ELSE {}

\* An attempt that is past markRunning has a run that is not queued any more.
Past == {"evidence", "reason", "persist", "refuse"}
PastInv == \A a \in Attempt :
    attempts[a].pc \in Past => runs[attempts[a].run].status \notin {"absent", "queued"}

AgreeInv == OwnedInv /\ PastInv /\ SuggestionFollowsRun

----------------------------------------------------------------------------
(* What the steps of images are made of *)

SameImage(a) ==
    /\ assets'[a] = assets[a] /\ objects'[a] = objects[a]
    /\ grants'[a] = grants[a] /\ mediaJobs'[a] = mediaJobs[a]

\* What a step may make of a row and its objects without minding who works on the image
MayBecome(row, obj, row2, obj2) ==
    /\ row.status \in Retained => row2.status \in Retained
    /\ row.status = "failed" => row2.status = "failed"
    /\ row2.status \in Uncompleted => row.status \in Uncompleted
    /\ Erasable(row) =>
        Erasable(row2) /\ obj2.derivatives \subseteq obj.derivatives /\ (obj2.source => obj.source)
    /\ row2.status # "failed" => obj.derivatives \subseteq obj2.derivatives

\* Every attempt ends, goes on as it was on an image that is not to be erased, or finds
\* at a what it needs.
AttemptsGoOn(a) == \A p \in Processor :
    \/ processors'[p].pc = "idle"
    \/ /\ processors[p].pc # "idle"
       /\ processors'[p].pc \in {processors[p].pc, "refuse", "end"}
       /\ processors'[p].asset = processors[p].asset /\ processors'[p].done = processors[p].done
       /\ processors[p].asset = a => ~Erasable(assets'[a])
    \/ processors'[p].asset = a /\ Works(processors'[p], assets'[a], objects'[a])

CleanupsGoOn(a) == \A c \in Cleaner :
    \/ cleaners'[c].pc = "idle"
    \/ cleaners'[c] = cleaners[c]
    \/ cleaners'[c].asset = a /\ Cleans(cleaners'[c], assets'[a], objects'[a])

\* A step at one image keeps the invariant if the image stays sound, if it becomes what it
\* may, and if those who work on it find what they need.
LEMMA RowStep ==
    ASSUME ImageInv, CleanupTypeOK', NEW a \in Asset, \A b \in Asset \ {a} : SameImage(b),
           versions' = versions,
           Sound(assets'[a], objects'[a], grants'[a], mediaJobs'[a].state),
           MayBecome(assets[a], objects[a], assets'[a], objects'[a]),
           AttemptsGoOn(a), CleanupsGoOn(a)
    PROVE  ImageInv'
<1>1. ASSUME NEW b \in Asset
      PROVE  Sound(assets'[b], objects'[b], grants'[b], mediaJobs'[b].state)
    BY <1>1 DEF ImageInv, SameImage
<1>2. ASSUME NEW p \in Processor, processors'[p].pc # "idle"
      PROVE  /\ processors'[p].asset \in Asset
             /\ Works(processors'[p], assets'[processors'[p].asset], objects'[processors'[p].asset])
    <2>1. CASE processors'[p].asset = a /\ Works(processors'[p], assets'[a], objects'[a])
        BY <2>1
    <2>2. CASE /\ processors[p].pc # "idle"
               /\ processors'[p].pc \in {processors[p].pc, "refuse", "end"}
               /\ processors'[p].asset = processors[p].asset
               /\ processors'[p].done = processors[p].done
               /\ processors[p].asset = a => ~Erasable(assets'[a])
        <3>. DEFINE b == processors[p].asset
        <3>1. b \in Asset /\ Works(processors[p], assets[b], objects[b])  BY <2>2 DEF ImageInv
        <3>2. CASE b # a
            <4>1. assets'[b] = assets[b] /\ objects'[b] = objects[b]  BY <3>1, <3>2 DEF SameImage
            <4>. QED  BY <2>2, <3>1, <4>1 DEF Works
        <3>3. CASE b = a
            <4>1. /\ assets'[a].status \notin Uncompleted
                  /\ assets'[a].status # "failed" => assets[a].status # "failed"
                  /\ assets'[a].status # "failed" => objects[a].derivatives \subseteq objects'[a].derivatives
                BY <3>1, <3>3 DEF Works, MayBecome
            <4>. QED  BY <2>2, <3>1, <3>3, <4>1 DEF Works
        <3>. QED  BY <3>2, <3>3
    <2>. QED  BY <1>2, <2>1, <2>2 DEF AttemptsGoOn
<1>3. ASSUME NEW c \in Cleaner, cleaners'[c].pc # "idle"
      PROVE  /\ cleaners'[c].asset \in Asset
             /\ Cleans(cleaners'[c], assets'[cleaners'[c].asset], objects'[cleaners'[c].asset])
    <2>1. CASE cleaners'[c].asset = a /\ Cleans(cleaners'[c], assets'[a], objects'[a])
        BY <2>1
    <2>2. CASE cleaners'[c] = cleaners[c]
        <3>. DEFINE b == cleaners[c].asset
        <3>1. b \in Asset /\ Cleans(cleaners[c], assets[b], objects[b])  BY <1>3, <2>2 DEF ImageInv
        <3>2. CASE b # a
            <4>1. assets'[b] = assets[b] /\ objects'[b] = objects[b]  BY <3>1, <3>2 DEF SameImage
            <4>. QED  BY <2>2, <3>1, <4>1
        <3>3. CASE b = a
            BY <2>2, <3>1, <3>3 DEF Cleans, MayBecome, Retained
        <3>. QED  BY <3>2, <3>3
    <2>. QED  BY <1>3, <2>1, <2>2 DEF CleanupsGoOn
<1>4. ASSUME NEW v \in DOMAIN versions, NEW b \in versions[v].media
      PROVE  b \in Asset /\ assets'[b].status \in Retained
    <2>1. b \in Asset /\ assets[b].status \in Retained  BY <1>4 DEF ImageInv
    <2>. QED  BY <2>1 DEF MayBecome, SameImage
<1>. QED  BY <1>1, <1>2, <1>3, <1>4 DEF ImageInv

\* Nobody works otherwise than before.
LEMMA NobodyMoves ==
    ASSUME ImageInv, NEW a \in Asset, UNCHANGED <<processors, cleaners>>,
           \A p \in Processor : processors[p].pc # "idle" /\ processors[p].asset = a => ~Erasable(assets'[a])
    PROVE  AttemptsGoOn(a) /\ CleanupsGoOn(a)
BY DEF AttemptsGoOn, CleanupsGoOn

\* What one update leaves of a function
LEMMA FunctionSet ==
    ASSUME NEW S, NEW T, NEW f \in [S -> T], NEW x \in S, NEW v \in T
    PROVE  /\ [f EXCEPT ![x] = v] \in [S -> T]
           /\ [f EXCEPT ![x] = v][x] = v
           /\ \A y \in S \ {x} : [f EXCEPT ![x] = v][y] = f[y]
OBVIOUS

\* What SetStatus leaves of a row
LEMMA StatusSet ==
    ASSUME MediaLedgerTypeOK, NEW a \in Asset,
           NEW status \in {"failed"} \cup Unresolved \cup Retained, SetStatus(a, status)
    PROVE  /\ assets' \in [Asset -> AssetRow]
           /\ \A b \in Asset \ {a} : assets'[b] = assets[b]
           /\ assets'[a].status = status /\ ~assets'[a].old
           /\ assets'[a].expired = assets[a].expired /\ assets'[a].variants = assets[a].variants
           /\ assets'[a].cleanup = assets[a].cleanup
<1>. DEFINE v == [assets[a] EXCEPT !.status = status, !.old = FALSE]
<1>1. assets[a] \in AssetRow  BY DEF MediaLedgerTypeOK
<1>2. /\ v \in AssetRow /\ v.status = status /\ v.old = FALSE /\ v.expired = assets[a].expired
      /\ v.variants = assets[a].variants /\ v.cleanup = assets[a].cleanup
    BY <1>1 DEF AssetRow
<1>3. assets' = [assets EXCEPT ![a] = v]  BY DEF SetStatus
<1>. HIDE DEF v
<1>. QED  BY <1>2, <1>3 DEF MediaLedgerTypeOK

\* What the queue may write
LEMMA JobSet ==
    ASSUME MediaLedgerTypeOK, NEW a \in Asset,
           NEW state \in {"missing", "waiting", "active", "completed", "failed"},
           NEW n \in 0..MaxReenqueues,
           mediaJobs' = [mediaJobs EXCEPT ![a].state = state, ![a].recovered = n]
    PROVE  /\ mediaJobs' \in [Asset -> MediaJob]
           /\ mediaJobs'[a].state = state
           /\ \A b \in Asset \ {a} : mediaJobs'[b] = mediaJobs[b]
<1>. DEFINE v == [mediaJobs[a] EXCEPT !.state = state, !.recovered = n]
<1>0. mediaJobs \in [Asset -> MediaJob]  BY DEF MediaLedgerTypeOK
<1>1. v \in MediaJob /\ v.state = state  BY <1>0 DEF MediaJob
<1>2. mediaJobs' = [mediaJobs EXCEPT ![a] = v]  OBVIOUS
<1>. HIDE DEF v
<1>3. LET g == [mediaJobs EXCEPT ![a] = v] IN
      g \in [Asset -> MediaJob] /\ g[a] = v /\ \A b \in Asset \ {a} : g[b] = mediaJobs[b]
    BY <1>0, <1>1, FunctionSet, Zenon
<1>. QED  BY <1>1, <1>2, <1>3, Zenon

LEMMA JobStateSet ==
    ASSUME MediaLedgerTypeOK, NEW a \in Asset,
           NEW state \in {"missing", "waiting", "active", "completed", "failed"},
           mediaJobs' = [mediaJobs EXCEPT ![a].state = state]
    PROVE  /\ mediaJobs' \in [Asset -> MediaJob]
           /\ mediaJobs'[a].state = state
           /\ \A b \in Asset \ {a} : mediaJobs'[b] = mediaJobs[b]
<1>. DEFINE v == [mediaJobs[a] EXCEPT !.state = state]
<1>1. v \in MediaJob /\ v.state = state  BY DEF MediaLedgerTypeOK, MediaJob
<1>2. mediaJobs' = [mediaJobs EXCEPT ![a] = v]  OBVIOUS
<1>. HIDE DEF v
<1>. QED  BY <1>1, <1>2 DEF MediaLedgerTypeOK

LEMMA Mishap == ASSUME MediaLedgerTypeOK, UNCHANGED mishaps \/ GoesWrong PROVE mishaps' \in 0..MaxMishaps
BY MediaConstants DEF MediaLedgerTypeOK, GoesWrong

----------------------------------------------------------------------------
(* The operator's steps and time *)

\* The rows alone change, of one image, and at most its grant and its job.
LEMMA LedgerStep ==
    ASSUME ImageInv, MediaLedgerTypeOK', NEW a \in Asset, \A b \in Asset \ {a} : SameImage(b),
           UNCHANGED <<processors, cleaners, versions>>,
           Sound(assets'[a], objects'[a], grants'[a], mediaJobs'[a].state),
           MayBecome(assets[a], objects[a], assets'[a], objects'[a]),
           assets[a].status \in Uncompleted \/ ~Erasable(assets'[a])
    PROVE  ImageInv'
<1>1. CleanupTypeOK'  BY DEF ImageInv, CleanupTypeOK, ImagesTypeOK
<1>2. ASSUME NEW p \in Processor, processors[p].pc # "idle", processors[p].asset = a
      PROVE  ~Erasable(assets'[a])
    BY <1>2 DEF ImageInv, Works
<1>3. AttemptsGoOn(a) /\ CleanupsGoOn(a)  BY <1>2, NobodyMoves
<1>. QED  BY <1>1, <1>3, RowStep

LEMMA OperatorKeeps ==
    ASSUME ImageInv, OperatorStep, UNCHANGED <<processors, cleaners, versions>>
    PROVE  ImageInv'
<1>0. MediaLedgerTypeOK  BY DEF ImageInv, CleanupTypeOK, ImagesTypeOK
<1>1. ASSUME NEW a \in Asset, CreateUploadIntent(a) PROVE ImageInv'
    <2>1. PICK status \in {"failed", "pending_upload"} : SetStatus(a, status)
        BY <1>1 DEF CreateUploadIntent
    <2>2. /\ assets' \in [Asset -> AssetRow]
          /\ \A b \in Asset \ {a} : assets'[b] = assets[b]
          /\ assets'[a].status = status /\ ~assets'[a].old
          /\ assets'[a].expired = assets[a].expired /\ assets'[a].cleanup = assets[a].cleanup
        BY <1>0, <2>1, StatusSet DEF Unresolved
    <2>3. /\ grants' \in [Asset -> {"none", "open", "closed"}]
          /\ \A b \in Asset \ {a} : grants'[b] = grants[b]
        BY <1>0, <1>1 DEF CreateUploadIntent, MediaLedgerTypeOK
    <2>4. mishaps' \in 0..MaxMishaps  BY <1>0, <1>1, Mishap DEF CreateUploadIntent
    <2>5. UNCHANGED <<objects, mediaJobs>> /\ assets[a].status = "absent"
        BY <1>1 DEF CreateUploadIntent
    <2>6. MediaLedgerTypeOK'  BY <1>0, <2>2, <2>3, <2>4, <2>5 DEF MediaLedgerTypeOK
    <2>7. Sound(assets'[a], objects'[a], grants'[a], mediaJobs'[a].state)
        <3>1. Sound(assets[a], objects[a], grants[a], mediaJobs[a].state)  BY DEF ImageInv
        <3>. QED  BY <2>2, <2>5, <3>1 DEF Sound, Erasable, Uncompleted, Retained
    <2>8. MayBecome(assets[a], objects[a], assets'[a], objects'[a])
        BY <2>2, <2>5 DEF MayBecome, Erasable, Uncompleted, Retained
    <2>9. \A b \in Asset \ {a} : SameImage(b)  BY <2>2, <2>3, <2>5 DEF SameImage
    <2>. QED  BY <2>5, <2>6, <2>7, <2>8, <2>9, LedgerStep DEF Uncompleted
<1>2. ASSUME NEW a \in Asset, Upload(a) PROVE ImageInv'
    <2>. DEFINE o == [objects[a] EXCEPT !.source = TRUE]
    <2>1. objects[a] \in Stored  BY <1>0 DEF MediaLedgerTypeOK
    <2>2. o \in Stored /\ o.derivatives = objects[a].derivatives  BY <2>1 DEF Stored
    <2>3. objects' = [objects EXCEPT ![a] = o]  BY <1>2 DEF Upload
    <2>. HIDE DEF o
    <2>4. /\ objects' \in [Asset -> Stored] /\ objects'[a] = o
          /\ \A b \in Asset \ {a} : objects'[b] = objects[b]
        BY <1>0, <2>2, <2>3 DEF MediaLedgerTypeOK
    <2>5. UNCHANGED <<assets, grants, mediaJobs, mishaps>> /\ grants[a] = "open"  BY <1>2 DEF Upload
    <2>6. MediaLedgerTypeOK'  BY <1>0, <2>4, <2>5 DEF MediaLedgerTypeOK
    <2>7. Sound(assets[a], objects[a], grants[a], mediaJobs[a].state) /\ ~Erasable(assets[a])
        BY <2>5 DEF ImageInv, Sound
    <2>8. Sound(assets'[a], objects'[a], grants'[a], mediaJobs'[a].state)
        BY <2>2, <2>4, <2>5, <2>7 DEF Sound
    <2>9. MayBecome(assets[a], objects[a], assets'[a], objects'[a])
        BY <2>2, <2>4, <2>5, <2>7 DEF MayBecome
    <2>10. \A b \in Asset \ {a} : SameImage(b)  BY <2>4, <2>5 DEF SameImage
    <2>. QED  BY <2>5, <2>6, <2>7, <2>8, <2>9, <2>10, LedgerStep
<1>3. ASSUME NEW a \in Asset, CompleteUpload(a) PROVE ImageInv'
    <2>1. SetStatus(a, "processing") /\ assets[a].status = "pending_upload" /\ UNCHANGED <<objects, grants>>
        BY <1>3 DEF CompleteUpload
    <2>2. /\ assets' \in [Asset -> AssetRow]
          /\ \A b \in Asset \ {a} : assets'[b] = assets[b]
          /\ assets'[a].status = "processing" /\ ~assets'[a].old
          /\ assets'[a].expired = assets[a].expired /\ assets'[a].cleanup = assets[a].cleanup
        BY <1>0, <2>1, StatusSet DEF Unresolved
    <2>3. /\ mediaJobs' \in [Asset -> MediaJob]
          /\ \A b \in Asset \ {a} : mediaJobs'[b] = mediaJobs[b]
        <3>1. CASE UNCHANGED mediaJobs  BY <1>0, <3>1 DEF MediaLedgerTypeOK
        <3>2. CASE mediaJobs' = [mediaJobs EXCEPT ![a].state = "waiting"]
            BY <1>0, <3>2, JobStateSet
        <3>. QED  BY <1>3, <3>1, <3>2 DEF CompleteUpload
    <2>4. mishaps' \in 0..MaxMishaps  BY <1>0, <1>3, Mishap DEF CompleteUpload
    <2>6. MediaLedgerTypeOK'  BY <1>0, <2>1, <2>2, <2>3, <2>4 DEF MediaLedgerTypeOK
    <2>7. Sound(assets'[a], objects'[a], grants'[a], mediaJobs'[a].state)
        <3>1. Sound(assets[a], objects[a], grants[a], mediaJobs[a].state)  BY DEF ImageInv
        <3>. QED  BY <2>1, <2>2, <3>1 DEF Sound, Erasable, Uncompleted, Retained
    <2>8. MayBecome(assets[a], objects[a], assets'[a], objects'[a])
        BY <2>1, <2>2 DEF MayBecome, Erasable, Uncompleted, Retained
    <2>9. \A b \in Asset \ {a} : SameImage(b)  BY <2>1, <2>2, <2>3 DEF SameImage
    <2>. QED  BY <2>1, <2>6, <2>7, <2>8, <2>9, LedgerStep DEF Uncompleted
<1>4. ASSUME NEW a \in Asset, ArchiveAsset(a) PROVE ImageInv'
    <2>1. SetStatus(a, "archived") /\ assets[a].status = "ready" /\ UNCHANGED <<objects, grants, mediaJobs, mishaps>>
        BY <1>4 DEF ArchiveAsset
    <2>2. /\ assets' \in [Asset -> AssetRow]
          /\ \A b \in Asset \ {a} : assets'[b] = assets[b]
          /\ assets'[a].status = "archived" /\ assets'[a].variants = assets[a].variants
          /\ assets'[a].expired = assets[a].expired /\ assets'[a].cleanup = assets[a].cleanup
        BY <1>0, <2>1, StatusSet DEF Retained
    <2>6. MediaLedgerTypeOK'  BY <1>0, <2>1, <2>2 DEF MediaLedgerTypeOK
    <2>7. Sound(assets'[a], objects'[a], grants'[a], mediaJobs'[a].state)
        <3>1. Sound(assets[a], objects[a], grants[a], mediaJobs[a].state)  BY DEF ImageInv
        <3>. QED  BY <2>1, <2>2, <3>1 DEF Sound, Erasable, Uncompleted, Retained
    <2>8. MayBecome(assets[a], objects[a], assets'[a], objects'[a]) /\ ~Erasable(assets'[a])
        BY <2>1, <2>2 DEF MayBecome, Erasable, Uncompleted, Retained
    <2>9. \A b \in Asset \ {a} : SameImage(b)  BY <2>1, <2>2 DEF SameImage
    <2>. QED  BY <2>6, <2>7, <2>8, <2>9, LedgerStep
<1>. QED  BY <1>1, <1>2, <1>3, <1>4 DEF OperatorStep
LEMMA TimeKeeps ==
    ASSUME ImageInv, NEW a \in Asset,
           ((GrantCloses(a) \/ ExpireIntent(a)) /\ UNCHANGED processors) \/ TimePasses(a),
           UNCHANGED <<cleaners, versions>>
    PROVE  ImageInv'
<1>0. MediaLedgerTypeOK /\ assets[a] \in AssetRow
    BY DEF ImageInv, CleanupTypeOK, ImagesTypeOK, MediaLedgerTypeOK
<1>1. Sound(assets[a], objects[a], grants[a], mediaJobs[a].state)  BY DEF ImageInv
<1>2. CASE GrantCloses(a) /\ UNCHANGED processors
    <2>1. UNCHANGED <<assets, objects, mediaJobs, mishaps>>  BY <1>2 DEF GrantCloses
    <2>2. /\ grants' \in [Asset -> {"none", "open", "closed"}] /\ grants'[a] = "closed"
          /\ \A b \in Asset \ {a} : grants'[b] = grants[b]
        BY <1>0, <1>2 DEF GrantCloses, MediaLedgerTypeOK
    <2>3. MediaLedgerTypeOK'  BY <1>0, <2>1, <2>2 DEF MediaLedgerTypeOK
    <2>4. Sound(assets'[a], objects'[a], grants'[a], mediaJobs'[a].state)
        BY <1>1, <2>1, <2>2 DEF Sound
    <2>5. MayBecome(assets[a], objects[a], assets'[a], objects'[a])
        BY <2>1 DEF MayBecome
    <2>6. \A b \in Asset \ {a} : SameImage(b)  BY <2>1, <2>2 DEF SameImage
    <2>7. CleanupTypeOK'  BY <1>2, <2>3 DEF ImageInv, CleanupTypeOK, ImagesTypeOK
    <2>8. ASSUME NEW p \in Processor, processors[p].pc # "idle", processors[p].asset = a
          PROVE  ~Erasable(assets'[a])
        BY <2>1, <2>8 DEF ImageInv, Works
    <2>9. AttemptsGoOn(a) /\ CleanupsGoOn(a)  BY <1>2, <2>8, NobodyMoves
    <2>. QED  BY <2>4, <2>5, <2>6, <2>7, <2>9, RowStep
<1>3. CASE ExpireIntent(a) /\ UNCHANGED processors
    <2>. DEFINE v == [assets[a] EXCEPT !.status = "failed", !.expired = TRUE, !.old = FALSE]
    <2>1. /\ UNCHANGED <<objects, grants, mediaJobs, mishaps>>
          /\ assets[a].status = "pending_upload" /\ assets[a].old
        BY <1>3 DEF ExpireIntent
    <2>2. v \in AssetRow /\ v.status = "failed" /\ v.expired /\ v.cleanup = assets[a].cleanup
        BY <1>0 DEF AssetRow
    <2>3. assets' = [assets EXCEPT ![a] = v]  BY <1>3 DEF ExpireIntent
    <2>. HIDE DEF v
    <2>4. /\ assets' \in [Asset -> AssetRow] /\ assets'[a] = v
          /\ \A b \in Asset \ {a} : assets'[b] = assets[b]
        BY <1>0, <2>2, <2>3 DEF MediaLedgerTypeOK
    <2>5. MediaLedgerTypeOK'  BY <1>0, <2>1, <2>4 DEF MediaLedgerTypeOK
    <2>6. Sound(assets'[a], objects'[a], grants'[a], mediaJobs'[a].state)
        BY <1>1, <2>1, <2>2, <2>4 DEF Sound, Erasable, Uncompleted, Retained
    <2>7. MayBecome(assets[a], objects[a], assets'[a], objects'[a])
        BY <2>1, <2>2, <2>4 DEF MayBecome, Erasable, Uncompleted, Retained
    <2>8. \A b \in Asset \ {a} : SameImage(b)  BY <2>1, <2>4 DEF SameImage
    <2>. QED  BY <1>3, <2>1, <2>5, <2>6, <2>7, <2>8, LedgerStep DEF Uncompleted
<1>4. CASE TimePasses(a)
    <2>. DEFINE v == [assets[a] EXCEPT !.old = TRUE]
    <2>1. /\ UNCHANGED <<objects, grants, mediaJobs, mishaps, processors>>
          /\ grants[a] # "open"
          /\ \/ assets[a].status = "pending_upload"
             \/ /\ assets[a].status = "failed"
                /\ mediaJobs[a].state \notin {"waiting", "active"}
                /\ \A p \in Processor : processors[p].asset # a
        BY <1>4 DEF TimePasses
    <2>2. /\ v \in AssetRow /\ v.status = assets[a].status /\ v.old
          /\ v.cleanup = assets[a].cleanup /\ v.expired = assets[a].expired
        BY <1>0 DEF AssetRow
    <2>3. assets' = [assets EXCEPT ![a] = v]  BY <1>4 DEF TimePasses
    <2>. HIDE DEF v
    <2>4. /\ assets' \in [Asset -> AssetRow] /\ assets'[a] = v
          /\ \A b \in Asset \ {a} : assets'[b] = assets[b]
        BY <1>0, <2>2, <2>3 DEF MediaLedgerTypeOK
    <2>5. CleanupTypeOK'
        BY <2>1, <2>4 DEF ImageInv, CleanupTypeOK, ImagesTypeOK, MediaLedgerTypeOK
    <2>6. Sound(assets'[a], objects'[a], grants'[a], mediaJobs'[a].state)
        BY <1>1, <2>1, <2>2, <2>4 DEF Sound, Erasable, Uncompleted, Retained
    <2>7. MayBecome(assets[a], objects[a], assets'[a], objects'[a])
        BY <2>1, <2>2, <2>4 DEF MayBecome, Erasable, Uncompleted, Retained
    <2>8. \A b \in Asset \ {a} : SameImage(b)  BY <2>1, <2>4 DEF SameImage
    <2>9. ASSUME NEW p \in Processor, processors[p].pc # "idle", processors[p].asset = a
          PROVE  ~Erasable(assets'[a])
        <3>1. assets[a].status = "pending_upload"  BY <2>1, <2>9
        <3>. QED  BY <2>2, <2>4, <3>1 DEF Erasable
    <2>10. AttemptsGoOn(a) /\ CleanupsGoOn(a)  BY <2>1, <2>9, NobodyMoves
    <2>. QED  BY <2>5, <2>6, <2>7, <2>8, <2>10, RowStep
<1>. QED  BY <1>2, <1>3, <1>4

----------------------------------------------------------------------------
(* The attempts *)

\* One attempt goes on, at the image a.
LEMMA OneAttempt ==
    ASSUME ImageInv, MediaLedgerTypeOK', NEW p \in Processor, NEW a \in Asset,
           NEW w \in ProcessorState, processors' = [processors EXCEPT ![p] = w],
           UNCHANGED <<cleaners, versions>>, \A b \in Asset \ {a} : SameImage(b),
           Sound(assets'[a], objects'[a], grants'[a], mediaJobs'[a].state),
           MayBecome(assets[a], objects[a], assets'[a], objects'[a]),
           ~Erasable(assets'[a]),
           w.pc # "idle" => w.asset = a /\ Works(w, assets'[a], objects'[a])
    PROVE  ImageInv'
<1>0. processors \in [Processor -> ProcessorState]  BY DEF ImageInv, CleanupTypeOK, ImagesTypeOK
<1>1. /\ processors' \in [Processor -> ProcessorState] /\ processors'[p] = w
      /\ \A q \in Processor \ {p} : processors'[q] = processors[q]
    BY <1>0
<1>2. CleanupTypeOK'  BY <1>1 DEF ImageInv, CleanupTypeOK, ImagesTypeOK
<1>3. AttemptsGoOn(a)  BY <1>1 DEF AttemptsGoOn
<1>4. CleanupsGoOn(a)  BY DEF CleanupsGoOn
<1>. QED  BY <1>2, <1>3, <1>4, RowStep

\* An image that does not change may stay so.
LEMMA StaysSound ==
    ASSUME ImageInv, NEW a \in Asset, UNCHANGED <<assets, objects, grants>>,
           mediaJobs'[a].state = mediaJobs[a].state
    PROVE  /\ Sound(assets'[a], objects'[a], grants'[a], mediaJobs'[a].state)
           /\ MayBecome(assets[a], objects[a], assets'[a], objects'[a])
BY DEF ImageInv, Sound, MayBecome

\* The local steps of an attempt: only its pc changes, and nothing that it produces.
LEMMA ProcessorTurns ==
    ASSUME ImageInv, NEW p \in Processor, processors[p].pc # "idle",
           NEW w \in ProcessorState, processors' = [processors EXCEPT ![p] = w],
           UNCHANGED <<assets, objects, grants, mediaJobs, cleaners, versions>>,
           UNCHANGED mishaps \/ GoesWrong,
           w.pc # "idle" => w.asset = processors[p].asset /\ w.done = processors[p].done,
           \/ w.pc \in {"idle", "refuse", "end"}
           \/ w.pc = "read" /\ processors[p].pc = "load"
           \/ w.pc = "put" /\ processors[p].pc = "read"
    PROVE  ImageInv'
<1>. DEFINE a == processors[p].asset
<1>1. a \in Asset /\ Works(processors[p], assets[a], objects[a])  BY DEF ImageInv
<1>2. MediaLedgerTypeOK'
    BY Mishap DEF ImageInv, CleanupTypeOK, ImagesTypeOK, MediaLedgerTypeOK
<1>3. w.pc # "idle" => Works(w, assets[a], objects[a])
    BY <1>1, MediaConstants DEF Works
<1>4. ~Erasable(assets[a])  BY <1>1 DEF Works
<1>. HIDE DEF a
<1>5. /\ Sound(assets'[a], objects'[a], grants'[a], mediaJobs'[a].state)
      /\ MayBecome(assets[a], objects[a], assets'[a], objects'[a])
    BY <1>1, StaysSound
<1>6. \A b \in Asset \ {a} : SameImage(b)  BY DEF SameImage
<1>7. w.pc # "idle" => w.asset = a /\ Works(w, assets'[a], objects'[a])  BY <1>3 DEF a
<1>8. ~Erasable(assets'[a])  BY <1>4
<1>9. a \in Asset  BY <1>1
<1>. QED  BY <1>2, <1>5, <1>6, <1>7, <1>8, <1>9, OneAttempt

LEMMA NoProcessorTyped == NoProcessor \in ProcessorState /\ NoProcessor.pc = "idle"
BY MediaConstants DEF NoProcessor, ProcessorState

\* What Proceeds and Finishes make of an attempt
LEMMA ProceedsTo ==
    ASSUME ImageInv, NEW p \in Processor,
           NEW pc \in {"idle", "load", "read", "put", "persist", "refuse", "end"}, Proceeds(p, pc)
    PROVE  \E w \in ProcessorState :
            /\ processors' = [processors EXCEPT ![p] = w] /\ w.pc = pc
            /\ w.asset = processors[p].asset /\ w.done = processors[p].done
<1>. DEFINE w == [processors[p] EXCEPT !.pc = pc]
<1>1. processors[p] \in ProcessorState  BY DEF ImageInv, CleanupTypeOK, ImagesTypeOK
<1>2. w \in ProcessorState /\ w.pc = pc /\ w.asset = processors[p].asset /\ w.done = processors[p].done
    BY <1>1 DEF ProcessorState
<1>3. processors' = [processors EXCEPT ![p] = w]  BY DEF Proceeds
<1>. QED  BY <1>2, <1>3

LEMMA FinishesTo ==
    ASSUME ImageInv, NEW p \in Processor, NEW how \in {"completed", "failed", "retry"}, Finishes(p, how)
    PROVE  \E w \in ProcessorState :
            /\ processors' = [processors EXCEPT ![p] = w] /\ w.pc = "end"
            /\ w.asset = processors[p].asset /\ w.done = processors[p].done
<1>. DEFINE w == [processors[p] EXCEPT !.pc = "end", !.ends = how]
<1>1. processors[p] \in ProcessorState  BY DEF ImageInv, CleanupTypeOK, ImagesTypeOK
<1>2. w \in ProcessorState /\ w.pc = "end" /\ w.asset = processors[p].asset /\ w.done = processors[p].done
    BY <1>1 DEF ProcessorState
<1>3. processors' = [processors EXCEPT ![p] = w]  BY DEF Finishes
<1>. QED  BY <1>2, <1>3

LEMMA TurnsKeep ==
    ASSUME ImageInv, NEW p \in Processor, UNCHANGED <<cleaners, versions>>,
           LoadAsset(p) \/ ReadSource(p) \/ ImageThrows(p) \/ ProcessorCrash(p)
    PROVE  ImageInv'
<1>1. processors[p].pc # "idle" /\ UNCHANGED <<assets, objects, grants, mediaJobs>>
        /\ (UNCHANGED mishaps \/ GoesWrong)
    BY DEF LoadAsset, ReadSource, ImageThrows, ProcessorCrash, mediaLedgerVars
<1>2. PICK w \in ProcessorState :
        /\ processors' = [processors EXCEPT ![p] = w]
        /\ w.pc # "idle" => w.asset = processors[p].asset /\ w.done = processors[p].done
        /\ \/ w.pc \in {"idle", "refuse", "end"}
           \/ w.pc = "read" /\ processors[p].pc = "load"
           \/ w.pc = "put" /\ processors[p].pc = "read"
    <2>1. CASE LoadAsset(p)  BY <2>1, ProceedsTo, FinishesTo DEF LoadAsset
    <2>2. CASE ReadSource(p)  BY <2>2, ProceedsTo DEF ReadSource
    <2>3. CASE ImageThrows(p)  BY <2>3, FinishesTo DEF ImageThrows
    <2>4. CASE ProcessorCrash(p)  BY <2>4, NoProcessorTyped DEF ProcessorCrash
    <2>. QED  BY <2>1, <2>2, <2>3, <2>4
<1>. QED  BY <1>1, <1>2, ProcessorTurns
LEMMA TakeKeeps ==
    ASSUME ImageInv, NEW p \in Processor, NEW a \in Asset, TakeImage(p, a),
           UNCHANGED <<cleaners, versions>>
    PROVE  ImageInv'
<1>. DEFINE w == [NoProcessor EXCEPT !.pc = "load", !.asset = a, !.holds = TRUE]
<1>0. MediaLedgerTypeOK  BY DEF ImageInv, CleanupTypeOK, ImagesTypeOK
<1>1. /\ UNCHANGED <<assets, objects, grants, mishaps>> /\ mediaJobs[a].state = "waiting"
      /\ mediaJobs' = [mediaJobs EXCEPT ![a].state = "active"]
      /\ processors' = [processors EXCEPT ![p] = w]
    BY DEF TakeImage
<1>2. w \in ProcessorState /\ w.pc = "load" /\ w.asset = a /\ w.done = 0
    <2>1. NoProcessor \in ProcessorState /\ NoProcessor.done = 0
        BY NoProcessorTyped DEF NoProcessor
    <2>. QED  BY <2>1 DEF ProcessorState
<1>. HIDE DEF w
<1>3. /\ mediaJobs' \in [Asset -> MediaJob] /\ mediaJobs'[a].state = "active"
      /\ \A b \in Asset \ {a} : mediaJobs'[b] = mediaJobs[b]
    BY <1>0, <1>1, JobStateSet
<1>4. MediaLedgerTypeOK'  BY <1>0, <1>1, <1>3 DEF MediaLedgerTypeOK
<1>5. Sound(assets[a], objects[a], grants[a], mediaJobs[a].state)  BY DEF ImageInv
<1>6. assets[a].status \notin Uncompleted /\ ~Erasable(assets[a])
    BY <1>1, <1>5 DEF Sound
<1>7. Sound(assets'[a], objects'[a], grants'[a], mediaJobs'[a].state)
    BY <1>1, <1>5, <1>6 DEF Sound
<1>8. MayBecome(assets[a], objects[a], assets'[a], objects'[a])  BY <1>1 DEF MayBecome
<1>9. \A b \in Asset \ {a} : SameImage(b)  BY <1>1, <1>3 DEF SameImage
<1>10. Works(w, assets'[a], objects'[a])  BY <1>1, <1>2, <1>6 DEF Works
<1>11. ~Erasable(assets'[a])  BY <1>1, <1>6
<1>. QED  BY <1>1, <1>2, <1>4, <1>7, <1>8, <1>9, <1>10, <1>11, OneAttempt

LEMMA PutKeeps ==
    ASSUME ImageInv, NEW p \in Processor, PutDerivative(p), UNCHANGED <<cleaners, versions>>
    PROVE  ImageInv'
<1>. DEFINE a == processors[p].asset
            n == processors[p].done + 1
            next == IF n = MaxWidths THEN "persist" ELSE "put"
            w == [processors[p] EXCEPT !.done = n, !.pc = next]
            o == [objects[a] EXCEPT !.derivatives = objects[a].derivatives \cup {n}]
<1>0. MediaLedgerTypeOK /\ processors[p] \in ProcessorState
    BY DEF ImageInv, CleanupTypeOK, ImagesTypeOK
<1>1. processors[p].pc = "put" /\ UNCHANGED <<assets, grants, mediaJobs, mishaps>>
    BY DEF PutDerivative
<1>2. a \in Asset /\ Works(processors[p], assets[a], objects[a])  BY <1>1 DEF ImageInv
<1>3. processors[p].done \in 0..MaxWidths /\ MaxWidths \in Nat \ {0} /\ processors[p].done < MaxWidths
    BY <1>0, <1>1, <1>2, MediaConstants DEF ProcessorState, Works
<1>4. n \in 1..MaxWidths /\ n \in Width  BY <1>3 DEF Width
<1>5. /\ w \in ProcessorState /\ w.asset = a /\ w.done = n /\ w.pc = next
    <2>1. n \in 0..MaxWidths /\ next \in {"put", "persist"}  BY <1>3
    <2>. HIDE DEF n, next
    <2>. QED  BY <1>0, <2>1 DEF ProcessorState
<1>6. o \in Stored /\ o.derivatives = objects[a].derivatives \cup {n} /\ o.source = objects[a].source
    <2>1. objects[a] \in Stored  BY <1>0, <1>2 DEF MediaLedgerTypeOK
    <2>. QED  BY <1>4, <2>1 DEF Stored
<1>7. processors' = [processors EXCEPT ![p] = w] /\ objects' = [objects EXCEPT ![a] = o]
    BY DEF PutDerivative
<1>8. Works(w, assets[a], o)
    <2>1. n < MaxWidths => next = "put"  BY <1>3
    <2>2. next = "persist" => n = MaxWidths  OBVIOUS
    <2>3. next = "put" => n < MaxWidths  BY <1>3
    <2>4. next \in {"put", "persist"}  OBVIOUS
    <2>5. assets[a].status # "failed" => 1..n \subseteq o.derivatives
        <3>1. 1..n = (1..processors[p].done) \cup {n}  BY <1>3
        <3>2. assets[a].status # "failed" => 1..processors[p].done \subseteq objects[a].derivatives
            BY <1>1, <1>2 DEF Works
        <3>. HIDE DEF n, o
        <3>. QED  BY <1>6, <3>1, <3>2
    <2>. HIDE DEF n, next, w, o
    <2>. QED  BY <1>2, <1>5, <2>2, <2>3, <2>4, <2>5 DEF Works
<1>. HIDE DEF a, n, next, w, o
<1>9. /\ objects' \in [Asset -> Stored] /\ objects'[a] = o
      /\ \A b \in Asset \ {a} : objects'[b] = objects[b]
    BY <1>0, <1>2, <1>6, <1>7 DEF MediaLedgerTypeOK
<1>10. MediaLedgerTypeOK'  BY <1>0, <1>1, <1>9 DEF MediaLedgerTypeOK
<1>11. Sound(assets[a], objects[a], grants[a], mediaJobs[a].state) /\ ~Erasable(assets[a])
    BY <1>2 DEF ImageInv, Works
<1>12. Sound(assets'[a], objects'[a], grants'[a], mediaJobs'[a].state)
    BY <1>1, <1>4, <1>6, <1>9, <1>11 DEF Sound
<1>13. MayBecome(assets[a], objects[a], assets'[a], objects'[a])
    BY <1>1, <1>6, <1>9, <1>11 DEF MayBecome
<1>14. \A b \in Asset \ {a} : SameImage(b)  BY <1>1, <1>9 DEF SameImage
<1>15. ~Erasable(assets'[a]) /\ Works(w, assets'[a], objects'[a])  BY <1>1, <1>8, <1>9, <1>11
<1>. QED  BY <1>2, <1>5, <1>7, <1>10, <1>12, <1>13, <1>14, <1>15, OneAttempt

LEMMA PersistKeeps ==
    ASSUME ImageInv, NEW p \in Processor, PersistReady(p), UNCHANGED <<cleaners, versions>>
    PROVE  ImageInv'
<1>. DEFINE a == processors[p].asset
<1>0. MediaLedgerTypeOK  BY DEF ImageInv, CleanupTypeOK, ImagesTypeOK
<1>1. processors[p].pc = "persist" /\ UNCHANGED <<objects, grants, mediaJobs, mishaps>>
    BY DEF PersistReady
<1>2. a \in Asset /\ Works(processors[p], assets[a], objects[a])  BY <1>1 DEF ImageInv
<1>3. CASE UNCHANGED assets
    <2>1. PICK w \in ProcessorState :
            /\ processors' = [processors EXCEPT ![p] = w] /\ w.pc \in {"end", "refuse"}
            /\ w.asset = processors[p].asset /\ w.done = processors[p].done
        <3>1. Finishes(p, "completed") \/ Proceeds(p, "refuse")  BY DEF PersistReady
        <3>. QED  BY <3>1, FinishesTo, ProceedsTo
    <2>. QED  BY <1>1, <1>3, <2>1, ProcessorTurns
<1>4. CASE /\ assets[a].status = "processing" /\ Finishes(p, "completed")
           /\ assets' = [assets EXCEPT ![a].status = "ready", ![a].variants = Width, ![a].old = FALSE]
    <2>. DEFINE v == [assets[a] EXCEPT !.status = "ready", !.variants = Width, !.old = FALSE]
    <2>1. assets[a] \in AssetRow  BY <1>0, <1>2 DEF MediaLedgerTypeOK
    <2>2. /\ v \in AssetRow /\ v.status = "ready" /\ v.variants = Width
          /\ v.expired = assets[a].expired
        BY <2>1 DEF AssetRow, Retained
    <2>3. assets' = [assets EXCEPT ![a] = v]  BY <1>4
    <2>. HIDE DEF v
    <2>4. /\ assets' \in [Asset -> AssetRow] /\ assets'[a] = v
          /\ \A b \in Asset \ {a} : assets'[b] = assets[b]
        BY <1>0, <1>2, <2>2, <2>3 DEF MediaLedgerTypeOK
    <2>5. MediaLedgerTypeOK'  BY <1>0, <1>1, <2>4 DEF MediaLedgerTypeOK
    <2>6. objects[a].derivatives = Width
        <3>1. objects[a] \in Stored  BY <1>0, <1>2 DEF MediaLedgerTypeOK
        <3>2. 1..MaxWidths \subseteq objects[a].derivatives  BY <1>1, <1>2, <1>4 DEF Works
        <3>. QED  BY <3>1, <3>2 DEF Stored, Width
    <2>7. Sound(assets[a], objects[a], grants[a], mediaJobs[a].state)  BY <1>2 DEF ImageInv
    <2>8. Sound(assets'[a], objects'[a], grants'[a], mediaJobs'[a].state)
        BY <1>1, <1>4, <2>2, <2>4, <2>6, <2>7 DEF Sound, Erasable, Uncompleted, Retained
    <2>9. MayBecome(assets[a], objects[a], assets'[a], objects'[a]) /\ ~Erasable(assets'[a])
        BY <1>1, <1>4, <2>2, <2>4 DEF MayBecome, Erasable, Uncompleted, Retained
    <2>10. \A b \in Asset \ {a} : SameImage(b)  BY <1>1, <2>4 DEF SameImage
    <2>11. PICK w \in ProcessorState : /\ processors' = [processors EXCEPT ![p] = w] /\ w.pc = "end"
                                       /\ w.asset = processors[p].asset
        BY <1>4, FinishesTo
    <2>12. w.asset = a  BY <2>11
    <2>. HIDE DEF a
    <2>13. Works(w, assets'[a], objects'[a])
        BY <2>2, <2>4, <2>9, <2>11 DEF Works, Uncompleted
    <2>. QED  BY <1>2, <2>5, <2>8, <2>9, <2>10, <2>11, <2>12, <2>13, OneAttempt
<1>. QED  BY <1>3, <1>4 DEF PersistReady

\* An image that is being processed fails.
LEMMA FailedSound ==
    ASSUME ImageInv, NEW a \in Asset, assets[a].status = "processing", SetStatus(a, "failed"),
           UNCHANGED <<objects, grants, mediaJobs, mishaps>>
    PROVE  /\ MediaLedgerTypeOK' /\ \A b \in Asset \ {a} : SameImage(b)
           /\ Sound(assets'[a], objects'[a], grants'[a], mediaJobs'[a].state)
           /\ MayBecome(assets[a], objects[a], assets'[a], objects'[a])
           /\ assets'[a].status = "failed" /\ ~Erasable(assets'[a])
<1>0. MediaLedgerTypeOK  BY DEF ImageInv, CleanupTypeOK, ImagesTypeOK
<1>1. /\ assets' \in [Asset -> AssetRow]
      /\ \A b \in Asset \ {a} : assets'[b] = assets[b]
      /\ assets'[a].status = "failed" /\ ~assets'[a].old
      /\ assets'[a].expired = assets[a].expired /\ assets'[a].cleanup = assets[a].cleanup
    BY <1>0, StatusSet
<1>2. MediaLedgerTypeOK'  BY <1>0, <1>1 DEF MediaLedgerTypeOK
<1>3. Sound(assets[a], objects[a], grants[a], mediaJobs[a].state)  BY DEF ImageInv
<1>4. assets[a].cleanup = "due" /\ ~assets[a].expired  BY <1>3 DEF Sound, Retained
<1>5. ~Erasable(assets'[a])  BY <1>1, <1>4 DEF Erasable
<1>6. Sound(assets'[a], objects'[a], grants'[a], mediaJobs'[a].state)
    BY <1>1, <1>4, <1>5 DEF Sound, Uncompleted, Retained
<1>7. MayBecome(assets[a], objects[a], assets'[a], objects'[a])
    BY <1>1 DEF MayBecome, Erasable, Uncompleted, Retained
<1>. QED  BY <1>1, <1>2, <1>5, <1>6, <1>7 DEF SameImage

LEMMA MarkFailedKeeps ==
    ASSUME ImageInv, NEW p \in Processor, MarkImageFailed(p), UNCHANGED <<cleaners, versions>>
    PROVE  ImageInv'
<1>. DEFINE a == processors[p].asset
<1>1. processors[p].pc = "refuse" /\ UNCHANGED <<objects, grants, mediaJobs, mishaps>>
    BY DEF MarkImageFailed
<1>2. a \in Asset /\ Works(processors[p], assets[a], objects[a])  BY <1>1 DEF ImageInv
<1>3. PICK w \in ProcessorState : /\ processors' = [processors EXCEPT ![p] = w] /\ w.pc = "end"
                                  /\ w.asset = processors[p].asset /\ w.done = processors[p].done
    BY FinishesTo DEF MarkImageFailed
<1>4. CASE assets[a].status # "processing"
    <2>1. UNCHANGED assets  BY <1>4 DEF MarkImageFailed
    <2>. QED  BY <1>1, <1>3, <2>1, ProcessorTurns
<1>5. CASE assets[a].status = "processing"
    <2>1. SetStatus(a, "failed")  BY <1>5 DEF MarkImageFailed
    <2>2. w.asset = a  BY <1>3
    <2>. HIDE DEF a
    <2>3. /\ MediaLedgerTypeOK' /\ \A b \in Asset \ {a} : SameImage(b)
          /\ Sound(assets'[a], objects'[a], grants'[a], mediaJobs'[a].state)
          /\ MayBecome(assets[a], objects[a], assets'[a], objects'[a])
          /\ assets'[a].status = "failed" /\ ~Erasable(assets'[a])
        BY <1>1, <1>2, <1>5, <2>1, FailedSound
    <2>4. Works(w, assets'[a], objects'[a])  BY <1>3, <2>3 DEF Works, Uncompleted
    <2>. QED  BY <1>2, <1>3, <2>2, <2>3, <2>4, OneAttempt
<1>. QED  BY <1>4, <1>5

LEMMA EndKeeps ==
    ASSUME ImageInv, NEW p \in Processor, EndImage(p), UNCHANGED <<cleaners, versions>>
    PROVE  ImageInv'
<1>. DEFINE a == processors[p].asset
            over == IF processors[p].ends = "retry" THEN "waiting" ELSE processors[p].ends
<1>0. MediaLedgerTypeOK /\ processors[p] \in ProcessorState
    BY DEF ImageInv, CleanupTypeOK, ImagesTypeOK
<1>1. /\ processors[p].pc = "end" /\ UNCHANGED <<assets, objects, grants, mishaps>>
      /\ processors' = [processors EXCEPT ![p] = NoProcessor]
      /\ mediaJobs' \in {mediaJobs, [mediaJobs EXCEPT ![a].state = over]}
    BY DEF EndImage
<1>2. a \in Asset /\ Works(processors[p], assets[a], objects[a])  BY <1>1 DEF ImageInv
<1>3. over \in {"missing", "waiting", "active", "completed", "failed"}  BY <1>0 DEF ProcessorState
<1>. HIDE DEF a, over
<1>4. /\ mediaJobs' \in [Asset -> MediaJob]
      /\ \A b \in Asset \ {a} : mediaJobs'[b] = mediaJobs[b]
    <2>1. CASE mediaJobs' = mediaJobs  BY <1>0, <2>1 DEF MediaLedgerTypeOK
    <2>2. CASE mediaJobs' = [mediaJobs EXCEPT ![a].state = over]
        BY <1>0, <1>2, <1>3, <2>2, JobStateSet
    <2>. QED  BY <1>1, <2>1, <2>2
<1>5. MediaLedgerTypeOK'  BY <1>0, <1>1, <1>4 DEF MediaLedgerTypeOK
<1>6. /\ Sound(assets[a], objects[a], grants[a], mediaJobs[a].state)
      /\ ~Erasable(assets[a]) /\ assets[a].status \notin Uncompleted
    BY <1>2 DEF ImageInv, Works
<1>7. Sound(assets'[a], objects'[a], grants'[a], mediaJobs'[a].state)
    BY <1>1, <1>6 DEF Sound
<1>8. MayBecome(assets[a], objects[a], assets'[a], objects'[a])  BY <1>1 DEF MayBecome
<1>9. \A b \in Asset \ {a} : SameImage(b)  BY <1>1, <1>4 DEF SameImage
<1>10. ~Erasable(assets'[a])  BY <1>1, <1>6
<1>. QED  BY <1>1, <1>2, <1>5, <1>7, <1>8, <1>9, <1>10, NoProcessorTyped, OneAttempt

----------------------------------------------------------------------------
(* The queue and the recovery of images *)

\* The job of an image that is neither to come nor to be erased changes.
LEMMA JobKeeps ==
    ASSUME ImageInv, NEW a \in Asset, UNCHANGED <<assets, objects, grants, cleaners, versions>>,
           assets[a].status \notin Uncompleted, ~Erasable(assets[a]),
           mediaJobs' \in [Asset -> MediaJob], \A b \in Asset \ {a} : mediaJobs'[b] = mediaJobs[b],
           mishaps' \in 0..MaxMishaps, processors' \in [Processor -> ProcessorState],
           \A p \in Processor : /\ processors'[p].pc = processors[p].pc
                                /\ processors'[p].asset = processors[p].asset
                                /\ processors'[p].done = processors[p].done
    PROVE  ImageInv'
<1>0. MediaLedgerTypeOK  BY DEF ImageInv, CleanupTypeOK, ImagesTypeOK
<1>1. CleanupTypeOK'
    BY <1>0 DEF ImageInv, CleanupTypeOK, ImagesTypeOK, MediaLedgerTypeOK
<1>2. Sound(assets[a], objects[a], grants[a], mediaJobs[a].state)  BY DEF ImageInv
<1>3. Sound(assets'[a], objects'[a], grants'[a], mediaJobs'[a].state)  BY <1>2 DEF Sound
<1>4. MayBecome(assets[a], objects[a], assets'[a], objects'[a])  BY DEF MayBecome
<1>5. \A b \in Asset \ {a} : SameImage(b)  BY DEF SameImage
<1>6. AttemptsGoOn(a) /\ CleanupsGoOn(a)  BY DEF AttemptsGoOn, CleanupsGoOn
<1>. QED  BY <1>1, <1>3, <1>4, <1>5, <1>6, RowStep

LEMMA StallKeeps ==
    ASSUME ImageInv, NEW a \in Asset, ImageStalls(a), UNCHANGED <<cleaners, versions>>
    PROVE  ImageInv'
<1>0. MediaLedgerTypeOK /\ processors \in [Processor -> ProcessorState]
    BY DEF ImageInv, CleanupTypeOK, ImagesTypeOK
<1>1. UNCHANGED <<assets, objects, grants>> /\ mediaJobs[a].state = "active"  BY DEF ImageStalls
<1>2. Sound(assets[a], objects[a], grants[a], mediaJobs[a].state)  BY DEF ImageInv
<1>3. assets[a].status \notin Uncompleted /\ ~Erasable(assets[a])  BY <1>1, <1>2 DEF Sound
<1>4. /\ mediaJobs' \in [Asset -> MediaJob]
      /\ \A b \in Asset \ {a} : mediaJobs'[b] = mediaJobs[b]
    <2>1. PICK state \in {"waiting", "failed"} : mediaJobs' = [mediaJobs EXCEPT ![a].state = state]
        BY DEF ImageStalls
    <2>. QED  BY <1>0, <2>1, JobStateSet
<1>5. mishaps' \in 0..MaxMishaps  BY <1>0, Mishap DEF ImageStalls
<1>6. ASSUME NEW p \in Processor
      PROVE  /\ processors'[p] \in ProcessorState
             /\ processors'[p].pc = processors[p].pc
             /\ processors'[p].asset = processors[p].asset
             /\ processors'[p].done = processors[p].done
    <2>1. processors[p] \in ProcessorState  BY <1>0
    <2>2. processors'[p] \in {processors[p], [processors[p] EXCEPT !.holds = FALSE]}
        BY DEF ImageStalls
    <2>. QED  BY <2>1, <2>2 DEF ProcessorState
<1>7. processors' = [p \in Processor |-> processors'[p]]
    <2>1. CASE UNCHANGED processors  BY <1>0, <2>1
    <2>2. CASE processors' = [p \in Processor |->
                IF processors[p].asset = a THEN [processors[p] EXCEPT !.holds = FALSE]
                                           ELSE processors[p]]
        BY <2>2
    <2>. QED  BY <2>1, <2>2 DEF ImageStalls
<1>8. processors' \in [Processor -> ProcessorState]  BY <1>6, <1>7
<1>. QED  BY <1>1, <1>3, <1>4, <1>5, <1>6, <1>8, JobKeeps

LEMMA RecoveryKeeps ==
    ASSUME ImageInv, NEW a \in Asset, RecoverImage(a), UNCHANGED <<cleaners, versions>>
    PROVE  ImageInv'
<1>0. MediaLedgerTypeOK /\ processors \in [Processor -> ProcessorState]
    BY DEF ImageInv, CleanupTypeOK, ImagesTypeOK
<1>1. UNCHANGED <<assets, objects, grants, processors>> /\ assets[a].status = "processing"
    BY DEF RecoverImage
<1>2. assets[a].status \notin Uncompleted /\ ~Erasable(assets[a])
    BY <1>1 DEF Uncompleted, Erasable
<1>. DEFINE n == mediaJobs[a].recovered + 1
<1>3. n \in 0..MaxReenqueues
    <2>1. mediaJobs[a].recovered \in 0..MaxReenqueues /\ MaxReenqueues \in Nat
        BY <1>0, MediaConstants DEF MediaLedgerTypeOK, MediaJob
    <2>2. mediaJobs[a].recovered < MaxReenqueues
        BY <2>1 DEF RecoverImage, ImageRecovery, ClassifyWorkRecovery, RecoveryExhausted, LeftAlone
    <2>. QED  BY <2>1, <2>2
<1>4. PICK state \in {"waiting", "missing"} :
        mediaJobs' = [mediaJobs EXCEPT ![a].state = state, ![a].recovered = n]
    BY DEF RecoverImage
<1>. HIDE DEF n
<1>5. /\ mediaJobs' \in [Asset -> MediaJob]
      /\ \A b \in Asset \ {a} : mediaJobs'[b] = mediaJobs[b]
    BY <1>0, <1>3, <1>4, JobSet
<1>6. mishaps' \in 0..MaxMishaps  BY <1>0, Mishap DEF RecoverImage
<1>. QED  BY <1>0, <1>1, <1>2, <1>5, <1>6, JobKeeps

LEMMA GiveUpKeeps ==
    ASSUME ImageInv, NEW a \in Asset, GiveImageUp(a), UNCHANGED <<cleaners, versions>>
    PROVE  ImageInv'
<1>1. /\ assets[a].status = "processing" /\ SetStatus(a, "failed")
      /\ UNCHANGED <<objects, grants, mediaJobs, mishaps, processors>>
    BY DEF GiveImageUp
<1>2. /\ MediaLedgerTypeOK' /\ \A b \in Asset \ {a} : SameImage(b)
      /\ Sound(assets'[a], objects'[a], grants'[a], mediaJobs'[a].state)
      /\ MayBecome(assets[a], objects[a], assets'[a], objects'[a])
      /\ ~Erasable(assets'[a])
    BY <1>1, FailedSound
<1>. QED  BY <1>1, <1>2, LedgerStep

LEMMA ImagesKeep ==
    ASSUME ImageInv, ImageStep, UNCHANGED <<cleaners, versions>>
    PROVE  ImageInv'
<1>1. ASSUME NEW p \in Processor, ProcessorStep(p) \/ ImageThrows(p) \/ ProcessorCrash(p)
      PROVE  ImageInv'
    <2>1. ASSUME NEW a \in Asset, TakeImage(p, a) PROVE ImageInv'  BY <2>1, TakeKeeps
    <2>2. CASE LoadAsset(p) \/ ReadSource(p) \/ ImageThrows(p) \/ ProcessorCrash(p)
        BY <2>2, TurnsKeep
    <2>. QED
        BY <1>1, <2>1, <2>2, PutKeeps, PersistKeeps, MarkFailedKeeps, EndKeeps DEF ProcessorStep
<1>2. ASSUME NEW a \in Asset,
             \/ ImageStalls(a) \/ RecoverImage(a) \/ GiveImageUp(a) \/ TimePasses(a)
             \/ (GrantCloses(a) \/ ExpireIntent(a)) /\ UNCHANGED processors
      PROVE  ImageInv'
    BY <1>2, StallKeeps, RecoveryKeeps, GiveUpKeeps, TimeKeeps
<1>3. CASE OperatorStep /\ UNCHANGED processors  BY <1>3, OperatorKeeps
<1>. QED  BY <1>1, <1>2, <1>3 DEF ImageStep
----------------------------------------------------------------------------
(* The cleanups *)

\* One cleanup goes on, at the image a.
LEMMA OneCleanup ==
    ASSUME ImageInv, MediaLedgerTypeOK', NEW c \in Cleaner, NEW a \in Asset,
           NEW d \in CleanerState, cleaners' = [cleaners EXCEPT ![c] = d],
           UNCHANGED <<processors, versions>>, \A b \in Asset \ {a} : SameImage(b),
           Sound(assets'[a], objects'[a], grants'[a], mediaJobs'[a].state),
           MayBecome(assets[a], objects[a], assets'[a], objects'[a]),
           Erasable(assets'[a]) => Erasable(assets[a]),
           d.pc # "idle" => d.asset = a /\ Cleans(d, assets'[a], objects'[a])
    PROVE  ImageInv'
<1>0. cleaners \in [Cleaner -> CleanerState]  BY DEF ImageInv, CleanupTypeOK
<1>1. /\ cleaners' \in [Cleaner -> CleanerState] /\ cleaners'[c] = d
      /\ \A b \in Cleaner \ {c} : cleaners'[b] = cleaners[b]
    BY <1>0
<1>2. CleanupTypeOK'  BY <1>1 DEF ImageInv, CleanupTypeOK, ImagesTypeOK
<1>3. CleanupsGoOn(a)  BY <1>1 DEF CleanupsGoOn
<1>4. AttemptsGoOn(a)
    <2>1. ASSUME NEW p \in Processor, processors[p].pc # "idle", processors[p].asset = a
          PROVE  ~Erasable(assets'[a])
        BY <2>1 DEF ImageInv, Works
    <2>. QED  BY <2>1 DEF AttemptsGoOn
<1>. QED  BY <1>2, <1>3, <1>4, RowStep

LEMMA NoCleanerTyped == NoCleaner \in CleanerState /\ NoCleaner.pc = "idle" /\ NoCleaner.derivatives = {}
BY MediaConstants DEF NoCleaner, CleanerState

\* The cleanup column of an image that may be cleaned up changes.
LEMMA CleanupSet ==
    ASSUME ImageInv, NEW a \in Asset, NEW how \in {"due", "claimed", "completed", "exhausted"},
           NEW n \in 0..MaxCleanups,
           assets' = [assets EXCEPT ![a].cleanup = how, ![a].tries = n],
           UNCHANGED <<objects, grants, mediaJobs>>, mishaps' \in 0..MaxMishaps,
           assets[a].status \in Retained \/ Erasable(assets[a]),
           how = "completed" /\ assets[a].status = "failed" => objects[a] = Nothing
    PROVE  /\ MediaLedgerTypeOK' /\ \A b \in Asset \ {a} : SameImage(b)
           /\ Sound(assets'[a], objects'[a], grants'[a], mediaJobs'[a].state)
           /\ MayBecome(assets[a], objects[a], assets'[a], objects'[a])
           /\ assets'[a].status = assets[a].status
           /\ Erasable(assets'[a]) = Erasable(assets[a])
<1>. DEFINE v == [assets[a] EXCEPT !.cleanup = how, !.tries = n]
<1>0. MediaLedgerTypeOK /\ assets[a] \in AssetRow
    BY DEF ImageInv, CleanupTypeOK, ImagesTypeOK, MediaLedgerTypeOK
<1>1. /\ v \in AssetRow /\ v.cleanup = how /\ v.status = assets[a].status
      /\ v.expired = assets[a].expired /\ v.old = assets[a].old /\ v.variants = assets[a].variants
    BY <1>0 DEF AssetRow
<1>2. assets' = [assets EXCEPT ![a] = v]  OBVIOUS
<1>. HIDE DEF v
<1>3. /\ assets' \in [Asset -> AssetRow] /\ assets'[a] = v
      /\ \A b \in Asset \ {a} : assets'[b] = assets[b]
    <2>1. assets \in [Asset -> AssetRow]  BY <1>0 DEF MediaLedgerTypeOK
    <2>2. LET g == [assets EXCEPT ![a] = v] IN
          g \in [Asset -> AssetRow] /\ g[a] = v /\ \A b \in Asset \ {a} : g[b] = assets[b]
        BY <1>1, <2>1, FunctionSet, Zenon
    <2>. QED  BY <1>2, <2>2, Zenon
<1>4. MediaLedgerTypeOK'  BY <1>0, <1>3 DEF MediaLedgerTypeOK
<1>5. Erasable(assets'[a]) = Erasable(assets[a])  BY <1>1, <1>3 DEF Erasable
<1>6. Sound(assets[a], objects[a], grants[a], mediaJobs[a].state)  BY DEF ImageInv
<1>7. Sound(v, objects[a], grants[a], mediaJobs[a].state)
    <2>1. Erasable(v) = Erasable(assets[a])  BY <1>3, <1>5
    <2>2. v.status \in Retained \/ Erasable(v)  BY <1>1, <2>1
    <2>3. Erasable(v) => v.status = "failed"  BY DEF Erasable
    <2>4. v.status = "failed" => v.status \notin Retained  BY DEF Retained
    <2>. QED  BY <1>1, <1>6, <2>1, <2>2, <2>3, <2>4 DEF Sound
<1>8. Sound(assets'[a], objects'[a], grants'[a], mediaJobs'[a].state)  BY <1>3, <1>7
<1>9. MayBecome(assets[a], objects[a], assets'[a], objects'[a])
    BY <1>1, <1>3, <1>5 DEF MayBecome
<1>. QED  BY <1>1, <1>3, <1>4, <1>5, <1>8, <1>9 DEF SameImage

LEMMA SetCleanupIs ==
    ASSUME MediaLedgerTypeOK, NEW a \in Asset, NEW how, SetCleanup(a, how)
    PROVE  /\ assets[a].tries \in 0..MaxCleanups
           /\ assets' = [assets EXCEPT ![a].cleanup = how, ![a].tries = assets[a].tries]
<1>1. assets[a] \in AssetRow  BY DEF MediaLedgerTypeOK
<1>2. [assets[a] EXCEPT !.cleanup = how] = [assets[a] EXCEPT !.cleanup = how, !.tries = assets[a].tries]
    BY <1>1 DEF AssetRow
<1>3. assets' = [assets EXCEPT ![a] = [assets[a] EXCEPT !.cleanup = how]]  BY DEF SetCleanup
<1>4. assets' = [assets EXCEPT ![a] = [assets[a] EXCEPT !.cleanup = how, !.tries = assets[a].tries]]
    BY <1>2, <1>3
<1>. QED  BY <1>1, <1>4 DEF AssetRow

\* The images stay as they are.
LEMMA CleanupTurns ==
    ASSUME ImageInv, NEW c \in Cleaner, NEW a \in Asset, NEW d \in CleanerState,
           cleaners' = [cleaners EXCEPT ![c] = d],
           UNCHANGED <<assets, objects, grants, mediaJobs, processors, versions>>,
           mishaps' \in 0..MaxMishaps,
           d.pc # "idle" => d.asset = a /\ Cleans(d, assets[a], objects[a])
    PROVE  ImageInv'
<1>1. MediaLedgerTypeOK'
    BY DEF ImageInv, CleanupTypeOK, ImagesTypeOK, MediaLedgerTypeOK
<1>2. /\ Sound(assets'[a], objects'[a], grants'[a], mediaJobs'[a].state)
      /\ MayBecome(assets[a], objects[a], assets'[a], objects'[a])
    BY StaysSound
<1>3. \A b \in Asset \ {a} : SameImage(b)  BY DEF SameImage
<1>4. /\ Erasable(assets'[a]) => Erasable(assets[a])
      /\ d.pc # "idle" => d.asset = a /\ Cleans(d, assets'[a], objects'[a])
    OBVIOUS
<1>. QED  BY <1>1, <1>2, <1>3, <1>4, OneCleanup

\* A cleanup lets its image go, and marks it or not.
LEMMA CleanupEnds ==
    ASSUME ImageInv, NEW c \in Cleaner, NEW a \in Asset, LetsGo(c),
           NEW how \in {"due", "claimed", "completed", "exhausted"},
           UNCHANGED assets \/ SetCleanup(a, how),
           UNCHANGED <<objects, grants, mediaJobs, processors, versions>>,
           UNCHANGED mishaps \/ GoesWrong,
           ~UNCHANGED assets => assets[a].status \in Retained \/ Erasable(assets[a]),
           ~UNCHANGED assets /\ how = "completed" /\ assets[a].status = "failed" => objects[a] = Nothing
    PROVE  ImageInv'
<1>0. MediaLedgerTypeOK  BY DEF ImageInv, CleanupTypeOK, ImagesTypeOK
<1>1. cleaners' = [cleaners EXCEPT ![c] = NoCleaner] /\ mishaps' \in 0..MaxMishaps
    BY <1>0, Mishap DEF LetsGo
<1>2. CASE UNCHANGED assets  BY <1>1, <1>2, NoCleanerTyped, CleanupTurns
<1>3. CASE SetCleanup(a, how) /\ ~UNCHANGED assets
    <2>1. /\ assets[a].tries \in 0..MaxCleanups
          /\ assets' = [assets EXCEPT ![a].cleanup = how, ![a].tries = assets[a].tries]
        BY <1>0, <1>3, SetCleanupIs
    <2>2. /\ MediaLedgerTypeOK' /\ \A b \in Asset \ {a} : SameImage(b)
          /\ Sound(assets'[a], objects'[a], grants'[a], mediaJobs'[a].state)
          /\ MayBecome(assets[a], objects[a], assets'[a], objects'[a])
          /\ Erasable(assets'[a]) = Erasable(assets[a])
        BY <1>1, <1>3, <2>1, CleanupSet
    <2>. QED  BY <1>1, <2>2, NoCleanerTyped, OneCleanup
<1>. QED  BY <1>2, <1>3

\* Whoever has a claim, or may make one, has an image that may be cleaned up.
LEMMA ClaimsAreSound ==
    ASSUME ImageInv, NEW c \in Cleaner, cleaners[c].pc # "idle", HasClaim(c) \/ Unclaimed(c)
    PROVE  LET a == cleaners[c].asset IN
           a \in Asset /\ (assets[a].status \in Retained \/ Erasable(assets[a]))
<1>. DEFINE a == cleaners[c].asset
<1>1. a \in Asset  BY DEF ImageInv
<1>2. Sound(assets[a], objects[a], grants[a], mediaJobs[a].state)  BY <1>1 DEF ImageInv
<1>3. CASE HasClaim(c)  BY <1>1, <1>2, <1>3 DEF HasClaim, Sound
<1>4. CASE Unclaimed(c)  BY <1>1, <1>4 DEF Unclaimed, Eligible, Erasable
<1>. QED  BY <1>1, <1>3, <1>4

LEMMA EndsKeep ==
    ASSUME ImageInv, NEW c \in Cleaner, UNCHANGED <<grants, mediaJobs, processors, versions>>,
           MarkCleanupExhausted(c) \/ MarkCleanupCompleted(c) \/ MarkCleanupFailed(c) \/ CleanerCrash(c)
    PROVE  ImageInv'
<1>. DEFINE a == cleaners[c].asset
<1>0. MediaLedgerTypeOK  BY DEF ImageInv, CleanupTypeOK, ImagesTypeOK
<1>1. cleaners[c].pc # "idle" /\ LetsGo(c) /\ UNCHANGED objects /\ (UNCHANGED mishaps \/ GoesWrong)
    BY DEF MarkCleanupExhausted, MarkCleanupCompleted, MarkCleanupFailed, CleanerCrash
<1>2. a \in Asset /\ Cleans(cleaners[c], assets[a], objects[a])  BY <1>1 DEF ImageInv
<1>3. HasClaim(c) \/ Unclaimed(c) => assets[a].status \in Retained \/ Erasable(assets[a])
    BY <1>1, ClaimsAreSound
<1>4. CASE MarkCleanupExhausted(c)
    <2>1. /\ UNCHANGED assets \/ SetCleanup(a, "exhausted")
          /\ ~UNCHANGED assets => Unclaimed(c)
        BY <1>4 DEF MarkCleanupExhausted
    <2>. HIDE DEF a
    <2>. QED  BY <1>1, <1>2, <1>3, <2>1, CleanupEnds
<1>5. CASE MarkCleanupCompleted(c)
    <2>1. /\ UNCHANGED assets \/ SetCleanup(a, "completed")
          /\ ~UNCHANGED assets => HasClaim(c)
        BY <1>5 DEF MarkCleanupCompleted
    <2>2. assets[a].status = "failed" => objects[a] = Nothing
        <3>1. cleaners[c].pc = "delete" /\ ~cleaners[c].source /\ cleaners[c].derivatives = {}
            BY <1>5 DEF MarkCleanupCompleted
        <3>2. objects[a] \in Stored  BY <1>0, <1>2 DEF MediaLedgerTypeOK
        <3>3. assets[a].status = "failed" => objects[a].derivatives = {} /\ objects[a].source = FALSE
            BY <1>2, <3>1, <3>2 DEF Cleans, Stored
        <3>. HIDE DEF a
        <3>. QED  BY <3>2, <3>3 DEF Stored, Nothing
    <2>. HIDE DEF a
    <2>. QED  BY <1>1, <1>2, <1>3, <2>1, <2>2, CleanupEnds
<1>6. CASE MarkCleanupFailed(c)
    <2>1. PICK how \in {"due", "exhausted"} :
            /\ UNCHANGED assets \/ SetCleanup(a, how)
            /\ ~UNCHANGED assets => HasClaim(c)
        BY <1>6 DEF MarkCleanupFailed
    <2>. HIDE DEF a
    <2>. QED  BY <1>1, <1>2, <1>3, <2>1, CleanupEnds
<1>7. CASE CleanerCrash(c)
    <2>1. UNCHANGED assets  BY <1>7 DEF CleanerCrash
    <2>. HIDE DEF a
    <2>. QED  BY <1>1, <1>2, <2>1, CleanupEnds
<1>. QED  BY <1>4, <1>5, <1>6, <1>7

LEMMA PickKeeps ==
    ASSUME ImageInv, NEW c \in Cleaner, NEW a \in Asset, PickCandidate(c, a)
    PROVE  ImageInv'
<1>. DEFINE next == IF assets[a].tries >= MaxCleanups THEN "exhaust" ELSE "claim"
            d == [NoCleaner EXCEPT !.pc = next, !.asset = a, !.was = assets[a].status,
                                   !.seen = assets[a].tries]
<1>0. MediaLedgerTypeOK /\ assets[a] \in AssetRow
    BY DEF ImageInv, CleanupTypeOK, ImagesTypeOK, MediaLedgerTypeOK
<1>1. /\ cleaners' = [cleaners EXCEPT ![c] = d]
      /\ UNCHANGED <<assets, objects, grants, mediaJobs, processors, versions>>
      /\ mishaps' \in 0..MaxMishaps
    BY <1>0, Mishap DEF PickCandidate, cleanupFrame, versionVars
<1>2. assets[a].status \in Retained \cup {"failed"}  BY DEF PickCandidate, Eligible
<1>3. assets[a].tries \in 0..MaxCleanups /\ MaxCleanups \in Nat
    BY <1>0, MediaConstants DEF AssetRow
<1>4. next \in {"exhaust", "claim"} /\ (next = "claim" => assets[a].tries < MaxCleanups)
    BY <1>3
<1>. HIDE DEF next
<1>5. d \in CleanerState /\ d.pc = next /\ d.asset = a /\ d.seen = assets[a].tries
    <2>. HIDE DEF Retained
    <2>. QED  BY <1>2, <1>3, <1>4, NoCleanerTyped DEF CleanerState
<1>. HIDE DEF d
<1>6. Cleans(d, assets[a], objects[a])  BY <1>4, <1>5 DEF Cleans
<1>. QED  BY <1>1, <1>5, <1>6, CleanupTurns

LEMMA ClaimKeeps ==
    ASSUME ImageInv, NEW c \in Cleaner, ClaimCleanupCandidate(c)
    PROVE  ImageInv'
<1>. DEFINE a == cleaners[c].asset
            list == IF assets[a].status = "failed" THEN objects[a].derivatives ELSE {}
            n == assets[a].tries + 1
            d == [cleaners[c] EXCEPT !.pc = "delete", !.seen = n,
                                     !.source = TRUE, !.derivatives = list]
<1>0. MediaLedgerTypeOK /\ cleaners[c] \in CleanerState
    BY DEF ImageInv, CleanupTypeOK, ImagesTypeOK
<1>1. /\ cleaners[c].pc = "claim"
      /\ UNCHANGED <<objects, mishaps, grants, mediaJobs, processors, versions>>
    BY DEF ClaimCleanupCandidate, cleanupFrame, versionVars
<1>2. a \in Asset /\ Cleans(cleaners[c], assets[a], objects[a])  BY <1>1 DEF ImageInv
<1>3. CASE ~Unclaimed(c)
    <2>1. LetsGo(c) /\ UNCHANGED assets  BY <1>3 DEF ClaimCleanupCandidate
    <2>. HIDE DEF a
    <2>. QED  BY <1>1, <1>2, <2>1, CleanupEnds
<1>4. CASE Unclaimed(c)
    <2>1. /\ cleaners[c].seen = assets[a].tries /\ cleaners[c].seen < MaxCleanups
          /\ assets[a].status \in Retained \/ Erasable(assets[a])
        BY <1>1, <1>2, <1>4, ClaimsAreSound DEF Cleans, Unclaimed
    <2>2. n \in 0..MaxCleanups
        <3>1. assets[a].tries \in 0..MaxCleanups /\ MaxCleanups \in Nat
            BY <1>0, <1>2, MediaConstants DEF MediaLedgerTypeOK, AssetRow
        <3>. QED  BY <2>1, <3>1
    <2>3. /\ assets' = [assets EXCEPT ![a].cleanup = "claimed", ![a].tries = n]
          /\ cleaners' = [cleaners EXCEPT ![c] = d]
        <3>1. n = cleaners[c].seen + 1  BY <2>1
        <3>2. assets' = [assets EXCEPT ![a].cleanup = "claimed", ![a].tries = n]
            BY <1>4 DEF ClaimCleanupCandidate
        <3>3. cleaners' = [cleaners EXCEPT ![c] = [cleaners[c] EXCEPT
                    !.pc = "delete", !.seen = cleaners[c].seen + 1, !.source = TRUE,
                    !.derivatives = list]]
            BY <1>4 DEF ClaimCleanupCandidate
        <3>. QED  BY <3>1, <3>2, <3>3
    <2>4. list \in SUBSET Width  BY <1>0, <1>2 DEF MediaLedgerTypeOK, Stored
    <2>5. /\ assets[a].status # "failed" => list = {}
          /\ assets[a].status = "failed" => list = objects[a].derivatives
        OBVIOUS
    <2>6. mishaps' \in 0..MaxMishaps  BY <1>0, <1>1 DEF MediaLedgerTypeOK
    <2>. HIDE DEF list, n
    <2>7. d \in CleanerState /\ d.pc = "delete" /\ d.asset = a /\ d.source /\ d.derivatives = list
        BY <1>0, <2>2, <2>4 DEF CleanerState
    <2>. HIDE DEF d, a
    <2>8. /\ MediaLedgerTypeOK' /\ \A b \in Asset \ {a} : SameImage(b)
          /\ Sound(assets'[a], objects'[a], grants'[a], mediaJobs'[a].state)
          /\ MayBecome(assets[a], objects[a], assets'[a], objects'[a])
          /\ assets'[a].status = assets[a].status
          /\ Erasable(assets'[a]) = Erasable(assets[a])
        BY <1>1, <1>2, <2>1, <2>2, <2>3, <2>6, CleanupSet
    <2>9. Cleans(d, assets'[a], objects'[a])
        BY <1>1, <2>1, <2>5, <2>7, <2>8 DEF Cleans, Erasable, Retained
    <2>. QED  BY <1>1, <1>2, <2>3, <2>7, <2>8, <2>9, OneCleanup
<1>. QED  BY <1>3, <1>4

\* One object of the image is deleted.
LEMMA DeletionKeeps ==
    ASSUME ImageInv, NEW c \in Cleaner, NEW a \in Asset, NEW d \in CleanerState, NEW o \in Stored,
           cleaners[c].pc = "delete", cleaners[c].asset = a, d.pc = "delete", d.asset = a,
           cleaners' = [cleaners EXCEPT ![c] = d], objects' = [objects EXCEPT ![a] = o],
           UNCHANGED <<assets, grants, mediaJobs, mishaps, processors, versions>>,
           o.source => objects[a].source, o.derivatives \subseteq objects[a].derivatives,
           assets[a].status # "failed" => o.derivatives = objects[a].derivatives /\ d.derivatives = {},
           o.derivatives \subseteq d.derivatives \/ assets[a].status # "failed",
           o.source => d.source
    PROVE  ImageInv'
<1>0. MediaLedgerTypeOK  BY DEF ImageInv, CleanupTypeOK, ImagesTypeOK
<1>1. Cleans(cleaners[c], assets[a], objects[a])  BY DEF ImageInv
<1>2. /\ objects' \in [Asset -> Stored] /\ objects'[a] = o
      /\ \A b \in Asset \ {a} : objects'[b] = objects[b]
    BY <1>0 DEF MediaLedgerTypeOK
<1>3. MediaLedgerTypeOK'  BY <1>0, <1>2 DEF MediaLedgerTypeOK
<1>4. Sound(assets[a], objects[a], grants[a], mediaJobs[a].state)  BY DEF ImageInv
<1>5. objects[a] = Nothing => o = Nothing
    <2>1. objects[a] = Nothing => o.source = FALSE /\ o.derivatives = {}  BY DEF Nothing, Stored
    <2>. QED  BY <2>1 DEF Nothing, Stored
<1>6. assets[a].status \in Retained => assets[a].status # "failed"  BY DEF Retained
<1>7. Sound(assets'[a], objects'[a], grants'[a], mediaJobs'[a].state)
    BY <1>2, <1>4, <1>5, <1>6 DEF Sound
<1>8. MayBecome(assets[a], objects[a], assets'[a], objects'[a])  BY <1>2 DEF MayBecome
<1>9. Cleans(d, assets'[a], objects'[a])  BY <1>1, <1>2 DEF Cleans
<1>10. \A b \in Asset \ {a} : SameImage(b)  BY <1>2 DEF SameImage
<1>. QED  BY <1>3, <1>7, <1>8, <1>9, <1>10, OneCleanup

LEMMA DeleteKeeps ==
    ASSUME ImageInv, NEW c \in Cleaner, DeleteSource(c) \/ DeleteDerivative(c)
    PROVE  ImageInv'
<1>. DEFINE a == cleaners[c].asset
<1>0. MediaLedgerTypeOK /\ cleaners[c] \in CleanerState
    BY DEF ImageInv, CleanupTypeOK, ImagesTypeOK
<1>1. /\ cleaners[c].pc = "delete"
      /\ UNCHANGED <<assets, grants, mediaJobs, mishaps, processors, versions>>
    BY DEF DeleteSource, DeleteDerivative, cleanupFrame, versionVars
<1>2. a \in Asset /\ Cleans(cleaners[c], assets[a], objects[a])  BY <1>1 DEF ImageInv
<1>3. objects[a] \in Stored  BY <1>0, <1>2 DEF MediaLedgerTypeOK
<1>4. CASE DeleteSource(c)
    <2>. DEFINE o == [objects[a] EXCEPT !.source = FALSE]
                d == [cleaners[c] EXCEPT !.source = FALSE]
    <2>1. o \in Stored /\ o.source = FALSE /\ o.derivatives = objects[a].derivatives
        BY <1>3 DEF Stored
    <2>2. /\ d \in CleanerState /\ d.pc = "delete" /\ d.asset = a
          /\ d.derivatives = cleaners[c].derivatives
        BY <1>0, <1>1 DEF CleanerState
    <2>3. cleaners' = [cleaners EXCEPT ![c] = d] /\ objects' = [objects EXCEPT ![a] = o]
        BY <1>4 DEF DeleteSource
    <2>4. cleaners[c].asset = a  OBVIOUS
    <2>. HIDE DEF o, d, a
    <2>5. /\ assets[a].status # "failed" => d.derivatives = {}
          /\ o.derivatives \subseteq d.derivatives \/ assets[a].status # "failed"
        BY <1>1, <1>2, <2>1, <2>2 DEF Cleans
    <2>6. /\ o.source => objects[a].source /\ d.source
          /\ o.derivatives \subseteq objects[a].derivatives
        BY <2>1
    <2>. QED  BY <1>1, <1>2, <2>1, <2>2, <2>3, <2>4, <2>5, <2>6, DeletionKeeps
<1>5. CASE DeleteDerivative(c)
    <2>1. PICK w \in cleaners[c].derivatives :
            /\ objects' = [objects EXCEPT ![a].derivatives = @ \ {w}]
            /\ cleaners' = [cleaners EXCEPT ![c].derivatives = @ \ {w}]
        BY <1>5 DEF DeleteDerivative
    <2>. DEFINE o == [objects[a] EXCEPT !.derivatives = objects[a].derivatives \ {w}]
                d == [cleaners[c] EXCEPT !.derivatives = cleaners[c].derivatives \ {w}]
    <2>2. o \in Stored /\ o.source = objects[a].source /\ o.derivatives = objects[a].derivatives \ {w}
        BY <1>3 DEF Stored
    <2>3. /\ d \in CleanerState /\ d.pc = "delete" /\ d.asset = a /\ d.source = cleaners[c].source
          /\ d.derivatives = cleaners[c].derivatives \ {w}
        BY <1>0, <1>1 DEF CleanerState
    <2>4. cleaners' = [cleaners EXCEPT ![c] = d] /\ objects' = [objects EXCEPT ![a] = o]
        BY <2>1
    <2>5. cleaners[c].asset = a  OBVIOUS
    <2>. HIDE DEF o, d, a
    <2>6. assets[a].status = "failed"  BY <1>1, <1>2, <2>1 DEF Cleans
    <2>7. /\ objects[a].derivatives \subseteq cleaners[c].derivatives
          /\ objects[a].source => cleaners[c].source
        BY <1>1, <1>2, <2>6 DEF Cleans
    <2>8. /\ o.derivatives \subseteq objects[a].derivatives /\ o.derivatives \subseteq d.derivatives
          /\ o.source => objects[a].source
          /\ o.source => d.source
        BY <2>2, <2>3, <2>7
    <2>. QED  BY <1>1, <1>2, <2>2, <2>3, <2>4, <2>5, <2>6, <2>8, DeletionKeeps
<1>. QED  BY <1>4, <1>5

LEMMA RefusalKeeps == ASSUME ImageInv, NEW c \in Cleaner, DeleteFails(c) PROVE ImageInv'
<1>. DEFINE a == cleaners[c].asset
            d == [cleaners[c] EXCEPT !.pc = "refuse"]
<1>0. MediaLedgerTypeOK /\ cleaners[c] \in CleanerState
    BY DEF ImageInv, CleanupTypeOK, ImagesTypeOK
<1>1. /\ cleaners[c].pc = "delete" /\ GoesWrong
      /\ UNCHANGED <<assets, objects, grants, mediaJobs, processors, versions>>
      /\ cleaners' = [cleaners EXCEPT ![c] = d]
    BY DEF DeleteFails, cleanupFrame, versionVars
<1>2. a \in Asset  BY <1>1 DEF ImageInv
<1>3. d \in CleanerState /\ d.pc = "refuse" /\ d.asset = a  BY <1>0 DEF CleanerState
<1>4. mishaps' \in 0..MaxMishaps  BY <1>0, <1>1, Mishap
<1>. HIDE DEF a, d
<1>5. Cleans(d, assets[a], objects[a])  BY <1>3 DEF Cleans
<1>. QED  BY <1>1, <1>2, <1>3, <1>4, <1>5, CleanupTurns

LEMMA CleanersKeep == ASSUME ImageInv, CleanersGoOn PROVE ImageInv'
<1>1. PICK c \in Cleaner : CleanerStep(c) \/ DeleteFails(c) \/ CleanerCrash(c)  BY DEF CleanersGoOn
<1>2. ASSUME MarkCleanupExhausted(c) \/ MarkCleanupCompleted(c) \/ MarkCleanupFailed(c) \/ CleanerCrash(c)
      PROVE  ImageInv'
    <2>1. UNCHANGED <<grants, mediaJobs, processors, versions>>
        BY <1>2 DEF MarkCleanupExhausted, MarkCleanupCompleted, MarkCleanupFailed, CleanerCrash,
                    cleanupFrame, versionVars
    <2>. QED  BY <1>2, <2>1, EndsKeep
<1>3. ASSUME NEW a \in Asset, PickCandidate(c, a) PROVE ImageInv'  BY <1>3, PickKeeps
<1>. QED
    BY <1>1, <1>2, <1>3, ClaimKeeps, DeleteKeeps, RefusalKeeps DEF CleanerStep
----------------------------------------------------------------------------
(* The versions of the page *)

VersionsTyped == VersionsTypeOK(Run \cup {NoCopy})

\* A new version is added, and the old ones stay.
LEMMA VersionAdded ==
    ASSUME VersionsTyped, NEW media \in SUBSET Asset, NEW copy \in Run \cup {NoCopy},
           NewVersion(media, copy)
    PROVE  /\ VersionsTyped'
           /\ DOMAIN versions' = DOMAIN versions \cup {Latest + 1} /\ Latest + 1 \notin DOMAIN versions
           /\ \A v \in DOMAIN versions : versions'[v] = versions[v]
           /\ versions'[Latest + 1].media = media /\ versions'[Latest + 1].copy = copy
<1>. DEFINE new == [status |-> "preview", media |-> media, copy |-> copy]
<1>1. versions \in Seq(Version(Run \cup {NoCopy})) /\ Latest \in Nat /\ DOMAIN versions = 1..Latest
    BY DEF VersionsTyped, VersionsTypeOK, Latest
<1>2. new \in Version(Run \cup {NoCopy}) /\ new.media = media /\ new.copy = copy
    BY DEF Version, VersionStatus
<1>3. versions' = Append(versions, new) /\ Latest < MaxVersions /\ proposalStatus' = "draft"
        /\ UNCHANGED <<blocked, reviews>>
    BY DEF NewVersion
<1>. HIDE DEF new
<1>4. /\ versions' \in Seq(Version(Run \cup {NoCopy})) /\ Len(versions') = Latest + 1
      /\ versions'[Latest + 1] = new /\ \A v \in 1..Latest : versions'[v] = versions[v]
    BY <1>1, <1>2, <1>3 DEF Latest
<1>5. DOMAIN versions' = 1..(Latest + 1) /\ 1..(Latest + 1) = (1..Latest) \cup {Latest + 1}
    BY <1>1, <1>4
<1>6. VersionsTyped'
    <2>1. Latest + 1 \in 1..MaxVersions  BY <1>1, <1>3, VersionConstants
    <2>2. blocked' \subseteq DOMAIN versions'
        BY <1>1, <1>3, <1>5 DEF VersionsTyped, VersionsTypeOK
    <2>. QED  BY <1>3, <1>4, <2>1, <2>2 DEF VersionsTyped, VersionsTypeOK
<1>. QED  BY <1>1, <1>2, <1>4, <1>5, <1>6

\* A review changes no version's images and copy.
LEMMA ReviewsKeep ==
    ASSUME VersionsTyped, ReviewStep
    PROVE  /\ VersionsTyped' /\ DOMAIN versions' = DOMAIN versions
           /\ \A v \in DOMAIN versions : /\ versions'[v].media = versions[v].media
                                         /\ versions'[v].copy = versions[v].copy
<1>1. ASSUME NEW decision \in {"approved", "changes_requested"}, ReviewPageVersion(decision)
      PROVE  /\ VersionsTyped' /\ DOMAIN versions' = DOMAIN versions
             /\ \A v \in DOMAIN versions : /\ versions'[v].media = versions[v].media
                                           /\ versions'[v].copy = versions[v].copy
    <2>. DEFINE new == [versions[Latest] EXCEPT !.status = decision]
    <2>1. /\ versions \in Seq(Version(Run \cup {NoCopy})) /\ DOMAIN versions = 1..Latest
          /\ Latest \in 1..MaxVersions /\ Latest \in DOMAIN versions
        BY VersionConstants DEF VersionsTyped, VersionsTypeOK, Latest
    <2>2. versions[Latest] \in Version(Run \cup {NoCopy})  BY <2>1
    <2>3. new \in Version(Run \cup {NoCopy}) /\ new.media = versions[Latest].media
            /\ new.copy = versions[Latest].copy
        BY <2>2 DEF Version, VersionStatus
    <2>4. versions' = [versions EXCEPT ![Latest] = new]  BY <1>1 DEF ReviewPageVersion
    <2>. HIDE DEF new
    <2>5. /\ versions' \in Seq(Version(Run \cup {NoCopy})) /\ DOMAIN versions' = DOMAIN versions
          /\ Len(versions') = Len(versions)
        BY <2>1, <2>3, <2>4
    <2>6. \A v \in DOMAIN versions : versions'[v] = IF v = Latest THEN new ELSE versions[v]
        BY <2>1, <2>4
    <2>7. reviews' \in 0..MaxReviews
        BY <1>1, VersionConstants DEF ReviewPageVersion, Reviews, VersionsTyped, VersionsTypeOK
    <2>8. UNCHANGED blocked /\ proposalStatus' = decision  BY <1>1 DEF ReviewPageVersion
    <2>9. VersionsTyped'
        BY <2>5, <2>7, <2>8 DEF VersionsTyped, VersionsTypeOK
    <2>. QED  BY <2>3, <2>5, <2>6, <2>9
<1>2. ASSUME NEW v \in DOMAIN versions, CreateBlocker(v) \/ ResolveBlocker(v)
      PROVE  VersionsTyped' /\ UNCHANGED versions
    <2>1. UNCHANGED <<versions, proposalStatus>> /\ blocked' \subseteq DOMAIN versions
        BY <1>2 DEF CreateBlocker, ResolveBlocker, VersionsTyped, VersionsTypeOK
    <2>2. reviews' \in 0..MaxReviews
        BY <1>2, VersionConstants
           DEF CreateBlocker, ResolveBlocker, Reviews, VersionsTyped, VersionsTypeOK
    <2>. QED  BY <2>1, <2>2 DEF VersionsTyped, VersionsTypeOK
<1>. QED  BY <1>1, <1>2 DEF ReviewStep

\* What an edit or a review leaves of the images
LEMMA VersionsKeepImages ==
    ASSUME ImageInv, UNCHANGED mediaVars,
           \A v \in DOMAIN versions' : \A a \in versions'[v].media :
                a \in Asset /\ assets[a].status \in Retained
    PROVE  ImageInv'
<1>1. UNCHANGED <<assets, objects, grants, mediaJobs, mishaps, processors, cleaners>>
    BY DEF mediaVars, imageVars, mediaLedgerVars
<1>2. CleanupTypeOK'  BY <1>1 DEF ImageInv, CleanupTypeOK, ImagesTypeOK, MediaLedgerTypeOK
<1>. QED  BY <1>1, <1>2 DEF ImageInv

LEMMA EditKeepsImages ==
    ASSUME ImageInv, VersionsTyped, NEW media \in SUBSET Asset, NEW copy \in Run \cup {NoCopy},
           NewVersion(media, copy), UNCHANGED mediaVars
    PROVE  ImageInv'
<1>1. /\ DOMAIN versions' = DOMAIN versions \cup {Latest + 1}
      /\ \A v \in DOMAIN versions : versions'[v] = versions[v]
      /\ versions'[Latest + 1].media = media
    BY VersionAdded
<1>2. \A a \in media : a \in Asset /\ assets[a].status \in Retained
    BY DEF NewVersion, Selectable, Retained
<1>3. \A v \in DOMAIN versions : \A a \in versions[v].media :
        a \in Asset /\ assets[a].status \in Retained
    BY DEF ImageInv
<1>4. ASSUME NEW v \in DOMAIN versions', NEW a \in versions'[v].media
      PROVE  a \in Asset /\ assets[a].status \in Retained
    <2>1. CASE v \in DOMAIN versions  BY <1>1, <1>3, <1>4, <2>1
    <2>2. CASE v = Latest + 1  BY <1>1, <1>2, <1>4, <2>2
    <2>. QED  BY <1>1, <2>1, <2>2
<1>. QED  BY <1>4, VersionsKeepImages

LEMMA ReviewKeepsImages ==
    ASSUME ImageInv, VersionsTyped, Reviewed
    PROVE  ImageInv'
<1>1. UNCHANGED mediaVars /\ ReviewStep  BY DEF Reviewed
<1>2. /\ DOMAIN versions' = DOMAIN versions
      /\ \A v \in DOMAIN versions : versions'[v].media = versions[v].media
    BY <1>1, ReviewsKeep
<1>3. \A v \in DOMAIN versions' : \A a \in versions'[v].media :
        a \in Asset /\ assets[a].status \in Retained
    BY <1>2 DEF ImageInv
<1>. QED  BY <1>1, <1>3, VersionsKeepImages

\* Used images are served; cleaned ones are erased.
LEMMA ImagesServed == ASSUME ImageInv, VersionsTyped PROVE UsedIsServed /\ CleanedIsErased
<1>1. ASSUME NEW a \in Asset, Referenced(a) PROVE Served(a)
    <2>1. assets[a].status \in Retained  BY <1>1 DEF ImageInv, Referenced
    <2>2. Sound(assets[a], objects[a], grants[a], mediaJobs[a].state)  BY DEF ImageInv
    <2>. QED  BY <2>1, <2>2 DEF Sound, Served
<1>2. ASSUME NEW a \in Asset, assets[a].status = "failed", assets[a].cleanup = "completed"
      PROVE  objects[a] = Nothing
    <2>1. Sound(assets[a], objects[a], grants[a], mediaJobs[a].state)  BY DEF ImageInv
    <2>. QED  BY <1>2, <2>1 DEF Sound
<1>. QED  BY <1>1, <1>2 DEF UsedIsServed, CleanedIsErased

----------------------------------------------------------------------------
(* The steps of suggestions *)

\* They are steps of the lane.
LEMMA NextIsLaneStep == ASSUME [Next]_vars PROVE LaneStep
<1>1. CASE UNCHANGED laneVars  BY <1>1 DEF LaneStep
<1>2. CASE OperatorCopies
    <2>1. ASSUME NEW p \in Producer, NEW r \in Run, QueueSuggestion(p, r) PROVE LaneStep
        <3>1. Requests(p, r)  BY <2>1 DEF QueueSuggestion, Requests
        <3>. QED  BY <3>1 DEF LaneStep
    <2>2. ASSUME NEW r \in Run, DismissSuggestion(r) PROVE LaneStep
        <3>1. Cancels(r) \/ UNCHANGED laneVars  BY <2>2 DEF DismissSuggestion, Cancels, laneVars
        <3>. QED  BY <3>1 DEF LaneStep
    <2>3. ASSUME NEW media \in SUBSET Asset, EditPageVersion(media) PROVE LaneStep
        BY <1>1, <2>3 DEF EditPageVersion
    <2>. QED  BY <1>2, <2>1, <2>2, <2>3 DEF OperatorCopies
<1>3. CASE WorkerCopies
    <2>1. ASSUME NEW a \in Attempt, LoadRun(a) \/ Reason(a) \/ EndAttempt(a) PROVE LaneStep
        BY <2>1 DEF RunMoves, LaneStep
    <2>2. ASSUME NEW a \in Attempt, MarkRunning(a) PROVE LaneStep
        <3>1. WorksOn(a)
            BY <2>2 DEF MarkRunning, WorksOn, Turns, WriteStatus
        <3>. QED  BY <3>1 DEF LaneStep
    <2>3. ASSUME NEW a \in Attempt, LoadEvidence(a) PROVE LaneStep
        <3>1. WorksOn(a)
            BY <2>3 DEF LoadEvidence, WorksOn, Turns, Refuses, Refused
        <3>. QED  BY <3>1 DEF LaneStep
    <2>4. ASSUME NEW a \in Attempt, MarkFailed(a) \/ PersistSuccess(a) PROVE LaneStep
        <3>1. WorksOn(a)
            BY <2>4 DEF MarkFailed, PersistSuccess, WorksOn, Turns, WriteStatus
        <3>. QED  BY <3>1 DEF LaneStep
    <2>5. ASSUME NEW p \in Producer, AddJob(p) \/ MarkQueueFailure(p) PROVE LaneStep
        BY <2>5 DEF MarkQueueFailure, Withdraws, LaneStep
    <2>6. ASSUME NEW s \in Scan, NEW r \in Run, PickStaleSuggestion(s, r) PROVE LaneStep
        BY <2>6 DEF PickStaleSuggestion, LaneStep
    <2>7. ASSUME NEW s \in Scan,
                 GiveUpSuggestion(s) \/ Observe(s) \/ CheckTransport(s) \/ RemoveOld(s) \/ Claim(s)
                    \/ Recheck(s) \/ AddRecovery(s) \/ FailAudit(s)
          PROVE  LaneStep
        <3>1. ScanMoves(s)  BY <2>7 DEF GiveUpSuggestion, ScanMoves, Forgets
        <3>. QED  BY <3>1 DEF LaneStep
    <2>8. ASSUME NEW r \in Run, Stall(r) \/ \E a \in Attempt : TakeJob(r, a) PROVE LaneStep
        BY <2>8 DEF QueueMoves, LaneStep
    <2>. QED  BY <1>3, <2>1, <2>2, <2>3, <2>4, <2>5, <2>6, <2>7, <2>8 DEF WorkerCopies
<1>4. CASE CopyMishap
    BY <1>4 DEF CopyMishap, RunMoves, ScanMoves, QueueMoves, LaneStep
<1>. QED
    BY <1>1, <1>2, <1>3, <1>4
       DEF Next, vars, ImagesGoOn, CleanersGoOn, CopiesGoOn, Reviewed, copyVars

\* What any step may do to suggestions: nothing, while a version may be added that none
\* wrote; write one that is not decided; make one for a new run; or apply a ready one.
Undecided == Pending \cup {"failed"}
Writes(r) ==
    /\ suggestions[r].status \in Undecided
    /\ \E status \in {"generating", "ready", "failed", "dismissed"} : SetSuggestion(r, status)
    /\ UNCHANGED versionVars
Makes(r) ==
    /\ runs[r].status = "absent" /\ runs'[r].status = "queued"
    /\ suggestions' = [suggestions EXCEPT ![r] = [status |-> "queued", version |-> Latest]]
    /\ UNCHANGED versionVars
Applies(r) ==
    /\ suggestions[r] = [status |-> "ready", version |-> Latest]
    /\ SetSuggestion(r, "applied")
    /\ UNCHANGED laneVars
    /\ \E media \in SUBSET Asset : NewVersion(media, r)
KeepsCopies ==
    /\ UNCHANGED suggestions
    /\ \/ UNCHANGED versionVars
       \/ ReviewStep
       \/ \E media \in SUBSET Asset : NewVersion(media, NoCopy)

LEMMA CopySteps ==
    ASSUME LaneInv, [Next]_vars
    PROVE  KeepsCopies \/ \E r \in Run : Writes(r) \/ Makes(r) \/ Applies(r)
<1>1. CASE UNCHANGED <<suggestions, versionVars>>  BY <1>1 DEF KeepsCopies
<1>2. CASE UNCHANGED vars \/ ImagesGoOn \/ Reviewed
    BY <1>2 DEF vars, ImagesGoOn, Reviewed, copyVars, KeepsCopies
<1>3. CASE CleanersGoOn
    <2>1. UNCHANGED <<suggestions, versionVars>>
        BY <1>3 DEF CleanersGoOn, CleanerStep, DeleteFails, CleanerCrash, PickCandidate,
                    ClaimCleanupCandidate, DeleteSource, DeleteDerivative, MarkCleanupExhausted,
                    MarkCleanupCompleted, MarkCleanupFailed, cleanupFrame, versionVars, copyVars
    <2>. QED  BY <1>1, <2>1
<1>4. CASE OperatorCopies
    <2>1. ASSUME NEW p \in Producer, NEW r \in Run, QueueSuggestion(p, r) PROVE Makes(r)
        <3>1. runs'[r].status = "queued"
            BY <2>1, StatusWritten DEF QueueSuggestion, WriteStatus, LaneInv, LaneTypeOK
        <3>. QED  BY <2>1, <3>1 DEF QueueSuggestion, Makes, versionVars
    <2>2. ASSUME NEW r \in Run, DismissSuggestion(r) PROVE Writes(r)
        BY <2>2 DEF DismissSuggestion, Writes, Undecided, versionVars
    <2>3. ASSUME NEW media \in SUBSET Asset, EditPageVersion(media)
          PROVE  KeepsCopies \/ \E r \in Run : Applies(r)
        BY <2>3 DEF EditPageVersion, KeepsCopies, Applies
    <2>. QED  BY <1>4, <2>1, <2>2, <2>3 DEF OperatorCopies
<1>5. CASE WorkerCopies
    <2>1. ASSUME NEW a \in Attempt, MarkRunning(a) \/ MarkFailed(a) \/ PersistSuccess(a)
          PROVE  UNCHANGED <<suggestions, versionVars>> \/ \E r \in Run : Writes(r)
        <3>1. PICK r \in Run : r = attempts[a].run
            BY <2>1 DEF MarkRunning, MarkFailed, PersistSuccess, LaneInv, AttemptInv
        <3>2. UNCHANGED <<suggestions, versionVars>> \/ Writes(r)
            BY <2>1, <3>1 DEF MarkRunning, MarkFailed, PersistSuccess, MovesSuggestion, Failable,
                              Writes, Undecided, Pending, versionVars
        <3>. QED  BY <3>2
    <2>2. ASSUME NEW p \in Producer, MarkQueueFailure(p)
          PROVE  UNCHANGED <<suggestions, versionVars>> \/ \E r \in Run : Writes(r)
        <3>1. PICK r \in Run : r = producers[p].run
            BY <2>2 DEF MarkQueueFailure, LaneInv, ProducerInv
        <3>2. UNCHANGED <<suggestions, versionVars>> \/ Writes(r)
            BY <2>2, <3>1 DEF MarkQueueFailure, MovesSuggestion, Writes, Undecided, Pending, versionVars
        <3>. QED  BY <3>2
    <2>3. ASSUME NEW s \in Scan, GiveUpSuggestion(s)
          PROVE  UNCHANGED <<suggestions, versionVars>> \/ \E r \in Run : Writes(r)
        <3>1. PICK r \in Run : r = scans[s].run
            BY <2>3 DEF GiveUpSuggestion, LaneInv, ScanInv
        <3>2. UNCHANGED <<suggestions, versionVars>> \/ Writes(r)
            BY <2>3, <3>1 DEF GiveUpSuggestion, MovesSuggestion, Writes, Undecided, versionVars
        <3>. QED  BY <3>2
    <2>4. ASSUME NEW a \in Attempt, LoadEvidence(a) PROVE UNCHANGED <<suggestions, versionVars>>
        BY <2>4 DEF LoadEvidence
    <2>5. ASSUME NEW s \in Scan, NEW r \in Run, PickStaleSuggestion(s, r)
          PROVE  UNCHANGED <<suggestions, versionVars>>
        BY <2>5 DEF PickStaleSuggestion
    <2>. QED  BY <1>1, <1>5, <2>1, <2>2, <2>3, <2>4, <2>5 DEF WorkerCopies
<1>6. CASE CopyMishap  BY <1>1, <1>6 DEF CopyMishap
<1>. QED  BY <1>2, <1>3, <1>4, <1>5, <1>6 DEF Next, CopiesGoOn

----------------------------------------------------------------------------
(* The two halves together *)

SuggestionsTyped == suggestions \in [Run -> Suggestion]

\* The invariant without what needs LostAcks to be false
IInv == ImageInv /\ VersionsTyped /\ LaneInv /\ SuggestionsTyped /\ BirthInv /\ CopyInv

LEMMA Initially == ASSUME Init PROVE IInv
<1>1. LaneInv  BY LaneInvInit DEF Init
<1>2. SuggestionsTyped /\ BirthInv
    <2>1. NoSuggestion \in Suggestion /\ NoSuggestion.status = "absent"
        BY VersionConstants DEF NoSuggestion, Suggestion
    <2>. QED  BY <2>1 DEF Init, SuggestionsInit, SuggestionsTyped, BirthInv
<1>3. VersionsTyped /\ versions = <<FirstVersion>>
    <2>1. FirstVersion \in Version(Run \cup {NoCopy})
        BY DEF FirstVersion, Version, VersionStatus
    <2>2. versions = <<FirstVersion>> /\ Len(versions) = 1 /\ blocked = {} /\ reviews = 0
          /\ proposalStatus = "draft"
        BY DEF Init, VersionsInit
    <2>. QED  BY <2>1, <2>2, VersionConstants DEF VersionsTyped, VersionsTypeOK
<1>4. DOMAIN versions = {1} /\ versions[1].media = {} /\ versions[1].copy = NoCopy
    BY <1>3 DEF FirstVersion
<1>5. CopyInv
    <2>1. ASSUME NEW r \in Run PROVE Written(r) = {} /\ suggestions[r].status # "applied"
        BY <1>4, CopyConstants DEF Written, Init, SuggestionsInit, NoSuggestion
    <2>. QED  BY <2>1 DEF CopyInv
<1>6. ImageInv
    <2>1. CleanupTypeOK
        <3>1. NoProcessor \in ProcessorState /\ NoCleaner \in CleanerState
            BY NoProcessorTyped, NoCleanerTyped
        <3>2. /\ NoAsset \in AssetRow /\ Nothing \in Stored
              /\ [state |-> "missing", recovered |-> 0] \in MediaJob
            BY MediaConstants DEF NoAsset, AssetRow, Nothing, Stored, MediaJob, Unresolved
        <3>3. mishaps \in 0..MaxMishaps  BY MediaConstants DEF Init
        <3>. QED
            BY <3>1, <3>2, <3>3
               DEF Init, MediaLedgerInit, ImagesInit, CleanupInit, CleanupTypeOK, ImagesTypeOK,
                   MediaLedgerTypeOK
    <2>2. ASSUME NEW a \in Asset PROVE Sound(assets[a], objects[a], grants[a], mediaJobs[a].state)
        BY DEF Init, MediaLedgerInit, NoAsset, Sound, Erasable, Retained, Uncompleted
    <2>3. (\A p \in Processor : processors[p].pc = "idle") /\ \A c \in Cleaner : cleaners[c].pc = "idle"
        BY NoProcessorTyped, NoCleanerTyped DEF Init, ImagesInit, CleanupInit
    <2>. QED  BY <1>4, <2>1, <2>2, <2>3 DEF ImageInv
<1>. QED  BY <1>1, <1>2, <1>3, <1>5, <1>6 DEF IInv

LEMMA ImagesStep == ASSUME ImageInv, VersionsTyped, LaneInv, [Next]_vars PROVE ImageInv'
<1>1. CASE UNCHANGED <<mediaVars, versions>>
    <2>1. \A v \in DOMAIN versions' : \A a \in versions'[v].media :
            a \in Asset /\ assets[a].status \in Retained
        BY <1>1 DEF ImageInv
    <2>. QED  BY <1>1, <2>1, VersionsKeepImages
<1>2. CASE ImagesGoOn
    BY <1>2, ImagesKeep DEF ImagesGoOn, versionVars
<1>3. CASE CopiesGoOn
    <2>1. UNCHANGED mediaVars  BY <1>3 DEF CopiesGoOn
    <2>2. CASE KeepsCopies
        <3>1. CASE ReviewStep
            <4>1. /\ DOMAIN versions' = DOMAIN versions
                  /\ \A v \in DOMAIN versions : versions'[v].media = versions[v].media
                BY <3>1, ReviewsKeep
            <4>2. \A v \in DOMAIN versions' : \A a \in versions'[v].media :
                    a \in Asset /\ assets[a].status \in Retained
                BY <4>1 DEF ImageInv
            <4>. QED  BY <2>1, <4>2, VersionsKeepImages
        <3>. QED  BY <1>1, <2>1, <2>2, <3>1, EditKeepsImages DEF KeepsCopies, versionVars
    <2>3. CASE \E r \in Run : Writes(r) \/ Makes(r)
        BY <1>1, <2>1, <2>3 DEF Writes, Makes, versionVars
    <2>4. CASE \E r \in Run : Applies(r)
        BY <2>1, <2>4, EditKeepsImages DEF Applies
    <2>. QED  BY <2>2, <2>3, <2>4, CopySteps
<1>. QED
    BY <1>1, <1>2, <1>3, CleanersKeep, ReviewKeepsImages DEF Next, vars, versionVars

\* What a step leaves of a suggestion it does not write, and makes of the one it writes
LEMMA SuggestionSet ==
    ASSUME SuggestionsTyped, NEW r \in Run,
           NEW status \in {"generating", "ready", "failed", "dismissed", "applied"},
           SetSuggestion(r, status)
    PROVE  /\ SuggestionsTyped' /\ suggestions'[r].status = status
           /\ suggestions'[r].version = suggestions[r].version
           /\ \A q \in Run \ {r} : suggestions'[q] = suggestions[q]
<1>. DEFINE v == [suggestions[r] EXCEPT !.status = status]
<1>1. v \in Suggestion /\ v.status = status /\ v.version = suggestions[r].version
    BY DEF SuggestionsTyped, Suggestion, Pending
<1>2. suggestions' = [suggestions EXCEPT ![r] = v]  BY DEF SetSuggestion
<1>. HIDE DEF v
<1>. QED  BY <1>1, <1>2 DEF SuggestionsTyped

\* A suggestion that a step writes without a version keeps the copies, when it is not
\* applied before or afterwards.
LEMMA CopiesStay ==
    ASSUME CopyInv, NEW r \in Run, suggestions[r].status # "applied", suggestions'[r].status # "applied",
           \A q \in Run \ {r} : suggestions'[q] = suggestions[q], UNCHANGED versionVars
    PROVE  CopyInv'
<1>1. ASSUME NEW q \in Run PROVE Written(q)' = Written(q)  BY DEF Written, versionVars
<1>. QED  BY <1>1 DEF CopyInv

LEMMA CopiesStep ==
    ASSUME IInv, [Next]_vars
    PROVE  VersionsTyped' /\ SuggestionsTyped' /\ BirthInv' /\ CopyInv'
<1>. USE DEF IInv
<1>a. LaneStep  BY NextIsLaneStep
<1>0. ASSUME NEW r \in Run, suggestions'[r].status = suggestions[r].status, runs'[r].status = "absent"
      PROVE  suggestions'[r].status = "absent"
    <2>1. runs[r].status = "absent"  BY <1>a, <1>0, NeverBack
    <2>. QED  BY <1>0, <2>1 DEF BirthInv
<1>1. CASE KeepsCopies
    <2>1. BirthInv'  BY <1>0, <1>1 DEF BirthInv, KeepsCopies
    <2>2. SuggestionsTyped'  BY <1>1 DEF KeepsCopies, SuggestionsTyped
    <2>3. VersionsTyped' /\ \A r \in Run : Written(r)' = Written(r)
        <3>1. CASE UNCHANGED versionVars
            BY <3>1 DEF versionVars, VersionsTyped, VersionsTypeOK, Written
        <3>2. CASE ReviewStep
            BY <3>2, ReviewsKeep DEF Written
        <3>3. ASSUME NEW media \in SUBSET Asset, NewVersion(media, NoCopy)
              PROVE  VersionsTyped' /\ \A r \in Run : Written(r)' = Written(r)
            <4>1. /\ VersionsTyped'
                  /\ DOMAIN versions' = DOMAIN versions \cup {Latest + 1}
                  /\ \A v \in DOMAIN versions : versions'[v] = versions[v]
                  /\ versions'[Latest + 1].copy = NoCopy
                BY <3>3, VersionAdded
            <4>2. ASSUME NEW r \in Run PROVE Written(r)' = Written(r)
                BY <4>1, CopyConstants DEF Written
            <4>. QED  BY <4>1, <4>2
        <3>. QED  BY <1>1, <3>1, <3>2, <3>3 DEF KeepsCopies
    <2>4. CopyInv'  BY <1>1, <2>3 DEF CopyInv, KeepsCopies
    <2>. QED  BY <2>1, <2>2, <2>3, <2>4
<1>2. ASSUME NEW r \in Run, Writes(r)
      PROVE  VersionsTyped' /\ SuggestionsTyped' /\ BirthInv' /\ CopyInv'
    <2>1. PICK status \in {"generating", "ready", "failed", "dismissed"} : SetSuggestion(r, status)
        BY <1>2 DEF Writes
    <2>2. /\ SuggestionsTyped' /\ suggestions'[r].status = status
          /\ \A q \in Run \ {r} : suggestions'[q] = suggestions[q]
        BY <2>1, SuggestionSet
    <2>3. suggestions[r].status \notin {"absent", "applied"}
        BY <1>2 DEF Writes, Undecided, Pending
    <2>4. UNCHANGED versionVars  BY <1>2 DEF Writes
    <2>5. VersionsTyped'  BY <2>4 DEF versionVars, VersionsTyped, VersionsTypeOK
    <2>6. CopyInv'  BY <2>2, <2>3, <2>4, CopiesStay
    <2>7. runs'[r].status # "absent"  BY <1>a, <2>3, NeverBack DEF BirthInv
    <2>8. BirthInv'  BY <1>0, <2>2, <2>7 DEF BirthInv
    <2>. QED  BY <2>2, <2>5, <2>6, <2>8
<1>3. ASSUME NEW r \in Run, Makes(r)
      PROVE  VersionsTyped' /\ SuggestionsTyped' /\ BirthInv' /\ CopyInv'
    <2>. DEFINE v == [status |-> "queued", version |-> Latest]
    <2>1. v \in Suggestion /\ v.status = "queued"
        BY VersionConstants DEF Suggestion, Pending, VersionsTyped, VersionsTypeOK, Latest
    <2>2. suggestions' = [suggestions EXCEPT ![r] = v]  BY <1>3 DEF Makes
    <2>. HIDE DEF v
    <2>3. /\ SuggestionsTyped' /\ suggestions'[r] = v
          /\ \A q \in Run \ {r} : suggestions'[q] = suggestions[q]
        BY <2>1, <2>2 DEF SuggestionsTyped
    <2>4. suggestions[r].status = "absent"  BY <1>3 DEF Makes, BirthInv
    <2>5. UNCHANGED versionVars /\ runs'[r].status = "queued"  BY <1>3 DEF Makes
    <2>6. VersionsTyped'  BY <2>5 DEF versionVars, VersionsTyped, VersionsTypeOK
    <2>7. CopyInv'  BY <2>1, <2>3, <2>4, <2>5, CopiesStay
    <2>8. BirthInv'  BY <1>0, <2>3, <2>5 DEF BirthInv
    <2>. QED  BY <2>3, <2>6, <2>7, <2>8
<1>4. ASSUME NEW r \in Run, Applies(r)
      PROVE  VersionsTyped' /\ SuggestionsTyped' /\ BirthInv' /\ CopyInv'
    <2>1. suggestions[r].status = "ready" /\ suggestions[r].version = Latest /\ SetSuggestion(r, "applied")
        BY <1>4 DEF Applies
    <2>2. /\ SuggestionsTyped' /\ suggestions'[r].status = "applied"
          /\ suggestions'[r].version = Latest
          /\ \A q \in Run \ {r} : suggestions'[q] = suggestions[q]
        BY <2>1, SuggestionSet
    <2>3. PICK media \in SUBSET Asset : NewVersion(media, r)  BY <1>4 DEF Applies
    <2>4. /\ VersionsTyped'
          /\ DOMAIN versions' = DOMAIN versions \cup {Latest + 1}
          /\ \A v \in DOMAIN versions : versions'[v] = versions[v]
          /\ versions'[Latest + 1].copy = r
        BY <2>3, VersionAdded
    <2>5. ASSUME NEW q \in Run \ {r} PROVE Written(q)' = Written(q)
        BY <2>4, <2>5 DEF Written
    <2>6. Written(r) = {}  BY <2>1 DEF CopyInv
    <2>7. Written(r)' = {Latest + 1}
        <3>1. \A v \in DOMAIN versions : versions[v].copy # r  BY <2>6 DEF Written
        <3>. HIDE DEF Latest
        <3>. QED  BY <2>4, <3>1 DEF Written
    <2>8. CopyInv'
        <3>1. ASSUME NEW q \in Run \ {r}
              PROVE  Written(q)' = IF suggestions'[q].status = "applied"
                                     THEN {suggestions'[q].version + 1} ELSE {}
            BY <2>2, <2>5, <3>1 DEF CopyInv
        <3>2. Written(r)' = IF suggestions'[r].status = "applied"
                              THEN {suggestions'[r].version + 1} ELSE {}
            BY <2>2, <2>7
        <3>. QED  BY <3>1, <3>2 DEF CopyInv
    <2>9. runs'[r].status # "absent"  BY <1>a, <2>1, NeverBack DEF BirthInv
    <2>10. BirthInv'  BY <1>0, <2>2, <2>9 DEF BirthInv
    <2>. QED  BY <2>2, <2>4, <2>8, <2>10
<1>. QED  BY <1>1, <1>2, <1>3, <1>4, CopySteps

LEMMA IInvStep == ASSUME IInv, [Next]_vars PROVE IInv'
<1>1. ImageInv'  BY ImagesStep DEF IInv
<1>2. LaneInv'  BY NextIsLaneStep, LaneKeeps DEF IInv
<1>. QED  BY <1>1, <1>2, CopiesStep DEF IInv

LEMMA Invariant == Spec => []IInv
<1>1. Init => IInv  BY Initially
<1>2. IInv /\ [Next]_vars => IInv'  BY IInvStep
<1>. QED  BY <1>1, <1>2, PTL DEF Spec

----------------------------------------------------------------------------
(* A suggestion and its run agree, if no add that throws added the job *)

AgreesAt(r) == suggestions[r].status \in SuggestionOf(runs[r].status)

\* A step at one run may change what this run and its suggestion are.
LEMMA AgreementKept ==
    ASSUME SuggestionFollowsRun, NEW r \in Run, AgreesAt(r)',
           \A q \in Run \ {r} : /\ runs'[q].status = runs[q].status
                                /\ suggestions'[q].status = suggestions[q].status
    PROVE  SuggestionFollowsRun'
<1>1. ASSUME NEW q \in Run \ {r} PROVE suggestions'[q].status \in SuggestionOf(runs'[q].status)
    BY <1>1 DEF SuggestionFollowsRun
<1>. QED  BY <1>1 DEF SuggestionFollowsRun, AgreesAt

LEMMA BothWritten ==
    ASSUME LaneInv, SuggestionsTyped, SuggestionFollowsRun, NEW r \in Run,
           NEW status \in {"queued", "running", "failed", "succeeded"},
           NEW copy \in {"generating", "ready", "failed", "dismissed"},
           runs' = [runs EXCEPT ![r].status = status], SetSuggestion(r, copy),
           copy \in SuggestionOf(status)
    PROVE  SuggestionFollowsRun'
<1>1. runs'[r].status = status /\ \A q \in Run \ {r} : runs'[q] = runs[q]
    BY StatusWritten DEF LaneInv, LaneTypeOK
<1>2. suggestions'[r].status = copy /\ \A q \in Run \ {r} : suggestions'[q] = suggestions[q]
    BY SuggestionSet
<1>3. AgreesAt(r)'  BY <1>1, <1>2 DEF AgreesAt
<1>. QED  BY <1>1, <1>2, <1>3, AgreementKept

LEMMA CopyWritten ==
    ASSUME SuggestionsTyped, SuggestionFollowsRun, NEW r \in Run,
           NEW copy \in {"generating", "ready", "failed", "dismissed", "applied"},
           UNCHANGED runs, SetSuggestion(r, copy), copy \in SuggestionOf(runs[r].status)
    PROVE  SuggestionFollowsRun'
<1>1. suggestions'[r].status = copy /\ \A q \in Run \ {r} : suggestions'[q] = suggestions[q]
    BY SuggestionSet
<1>2. AgreesAt(r)'  BY <1>1 DEF AgreesAt
<1>. QED  BY <1>1, <1>2, AgreementKept

LEMMA RunWritten ==
    ASSUME LaneInv, SuggestionFollowsRun, NEW r \in Run,
           NEW status \in {"queued", "running", "failed", "succeeded"},
           runs' = [runs EXCEPT ![r].status = status], UNCHANGED suggestions,
           suggestions[r].status \in SuggestionOf(status)
    PROVE  SuggestionFollowsRun'
<1>1. runs'[r].status = status /\ \A q \in Run \ {r} : runs'[q] = runs[q]
    BY StatusWritten DEF LaneInv, LaneTypeOK
<1>2. AgreesAt(r)'  BY <1>1 DEF AgreesAt
<1>. QED  BY <1>1, <1>2, AgreementKept

LEMMA QuietKeeps ==
    ASSUME LaneInv, SuggestionFollowsRun, QuietStep, UNCHANGED suggestions
    PROVE  SuggestionFollowsRun'
<1>1. StatusesStay  BY StatusesKept
<1>. QED  BY <1>1 DEF StatusesStay, SuggestionFollowsRun

LEMMA OperatorAgrees ==
    ASSUME IInv, OwnedInv, SuggestionFollowsRun, OperatorCopies
    PROVE  SuggestionFollowsRun'
<1>. USE DEF IInv
<1>0. \A r \in Run : suggestions[r].status \in SuggestionOf(runs[r].status)
    BY DEF SuggestionFollowsRun
<1>1. ASSUME NEW p \in Producer, NEW r \in Run, QueueSuggestion(p, r) PROVE SuggestionFollowsRun'
    <2>1. runs'[r].status = "queued" /\ \A q \in Run \ {r} : runs'[q] = runs[q]
        BY <1>1, StatusWritten DEF QueueSuggestion, WriteStatus, LaneInv, LaneTypeOK
    <2>2. suggestions'[r].status = "queued" /\ \A q \in Run \ {r} : suggestions'[q] = suggestions[q]
        BY <1>1 DEF QueueSuggestion, SuggestionsTyped
    <2>3. AgreesAt(r)'  BY <2>1, <2>2 DEF AgreesAt, SuggestionOf
    <2>. QED  BY <2>1, <2>2, <2>3, AgreementKept
<1>2. ASSUME NEW r \in Run, DismissSuggestion(r) PROVE SuggestionFollowsRun'
    <2>1. suggestions[r].status \in Pending /\ SetSuggestion(r, "dismissed")
        BY <1>2 DEF DismissSuggestion
    <2>2. CASE runs[r].status \in Active
        <3>1. runs' = [runs EXCEPT ![r].status = "failed"]
            BY <1>2, <2>2 DEF DismissSuggestion, WriteStatus
        <3>2. "dismissed" \in SuggestionOf("failed")  BY DEF SuggestionOf
        <3>. QED  BY <2>1, <3>1, <3>2, BothWritten
    <2>3. CASE runs[r].status \notin Active
        <3>1. runs' = runs  BY <1>2, <2>3 DEF DismissSuggestion
        <3>2. runs[r] \in RunRow  BY DEF LaneInv, LaneTypeOK
        <3>3. "dismissed" \in SuggestionOf(runs[r].status)
            BY <1>0, <2>1, <2>3, <3>2 DEF SuggestionOf, Pending, Active, RunRow
        <3>. QED  BY <2>1, <3>1, <3>3, CopyWritten
    <2>. QED  BY <2>2, <2>3
<1>3. ASSUME NEW media \in SUBSET Asset, EditPageVersion(media) PROVE SuggestionFollowsRun'
    <2>1. UNCHANGED laneVars  BY <1>3 DEF EditPageVersion
    <2>2. CASE UNCHANGED suggestions
        BY <2>1, <2>2, QuietKeeps DEF QuietStep
    <2>3. ASSUME NEW r \in Run, suggestions[r] = [status |-> "ready", version |-> Latest],
                 SetSuggestion(r, "applied")
          PROVE  SuggestionFollowsRun'
        <3>1. runs[r] \in RunRow  BY DEF LaneInv, LaneTypeOK
        <3>2. "applied" \in SuggestionOf(runs[r].status)
            BY <1>0, <2>3, <3>1 DEF SuggestionOf, RunRow
        <3>3. runs' = runs  BY <2>1 DEF laneVars
        <3>. QED  BY <2>3, <3>2, <3>3, CopyWritten
    <2>. QED  BY <1>3, <2>2, <2>3 DEF EditPageVersion
<1>. QED  BY <1>1, <1>2, <1>3 DEF OperatorCopies

LEMMA WorkerAgrees ==
    ASSUME IInv, OwnedInv, PastInv, SuggestionFollowsRun, WorkerCopies
    PROVE  SuggestionFollowsRun'
<1>. USE DEF IInv
<1>0. \A r \in Run : /\ suggestions[r].status \in SuggestionOf(runs[r].status)
                     /\ runs[r] \in RunRow
    BY DEF SuggestionFollowsRun, LaneInv, LaneTypeOK
<1>1. CASE QuietStep /\ UNCHANGED suggestions  BY <1>1, QuietKeeps
<1>2. ASSUME NEW a \in Attempt, MarkRunning(a) PROVE SuggestionFollowsRun'
    <2>1. PICK r \in Run : r = attempts[a].run  BY <1>2 DEF MarkRunning, LaneInv, AttemptInv
    <2>2. \/ UNCHANGED <<runs, suggestions>>
          \/ runs' = [runs EXCEPT ![r].status = "running"] /\ SetSuggestion(r, "generating")
        BY <1>2, <2>1 DEF MarkRunning, WriteStatus
    <2>3. CASE UNCHANGED <<runs, suggestions>>  BY <2>3 DEF SuggestionFollowsRun
    <2>4. "generating" \in SuggestionOf("running")  BY DEF SuggestionOf
    <2>. QED  BY <2>2, <2>3, <2>4, BothWritten
<1>3. ASSUME NEW a \in Attempt, LoadEvidence(a) PROVE SuggestionFollowsRun'
    BY <1>3 DEF LoadEvidence, SuggestionFollowsRun
<1>4. ASSUME NEW a \in Attempt, MarkFailed(a) PROVE SuggestionFollowsRun'
    <2>1. PICK r \in Run : r = attempts[a].run  BY <1>4 DEF MarkFailed, LaneInv, AttemptInv
    <2>2. runs[r].status \notin {"absent", "queued"}  BY <1>4, <2>1 DEF MarkFailed, PastInv, Past
    <2>3. CASE runs[r].status = "running"
        <3>1. suggestions[r].status = "generating"  BY <1>0, <2>3 DEF SuggestionOf
        <3>2. runs' = [runs EXCEPT ![r].status = "failed"] /\ SetSuggestion(r, "failed")
            BY <1>4, <2>1, <2>3, <3>1 DEF MarkFailed, WriteStatus, MovesSuggestion, Failable
        <3>3. "failed" \in SuggestionOf("failed")  BY DEF SuggestionOf
        <3>. QED  BY <3>2, <3>3, BothWritten
    <2>4. CASE runs[r].status # "running"
        <3>1. runs' = runs  BY <1>4, <2>1, <2>4 DEF MarkFailed
        <3>2. CASE UNCHANGED suggestions  BY <3>1, <3>2 DEF SuggestionFollowsRun
        <3>3. CASE suggestions[r].status \in Failable /\ SetSuggestion(r, "failed")
            <4>1. "failed" \in SuggestionOf(runs[r].status)
                BY <1>0, <2>2, <2>4, <3>3 DEF SuggestionOf, Failable, RunRow
            <4>. QED  BY <3>1, <3>3, <4>1, CopyWritten
        <3>. QED  BY <1>4, <2>1, <3>2, <3>3 DEF MarkFailed, MovesSuggestion
    <2>. QED  BY <2>3, <2>4
<1>5. ASSUME NEW a \in Attempt, PersistSuccess(a) PROVE SuggestionFollowsRun'
    <2>1. PICK r \in Run : r = attempts[a].run  BY <1>5 DEF PersistSuccess, LaneInv, AttemptInv
    <2>2. \/ UNCHANGED <<runs, suggestions>>
          \/ runs' = [runs EXCEPT ![r].status = "succeeded"] /\ SetSuggestion(r, "ready")
        BY <1>5, <2>1 DEF PersistSuccess, WriteStatus
    <2>3. CASE UNCHANGED <<runs, suggestions>>  BY <2>3 DEF SuggestionFollowsRun
    <2>4. "ready" \in SuggestionOf("succeeded")  BY DEF SuggestionOf
    <2>. QED  BY <2>2, <2>3, <2>4, BothWritten
<1>6. ASSUME NEW p \in Producer, MarkQueueFailure(p) PROVE SuggestionFollowsRun'
    <2>1. PICK r \in Run : r = producers[p].run  BY <1>6 DEF MarkQueueFailure, LaneInv, ProducerInv
    <2>2. runs[r].status \in {"queued", "failed"}
        BY <1>6, <2>1 DEF MarkQueueFailure, OwnedInv, OwnedAt
    <2>3. runs' = [runs EXCEPT ![r].status = "failed"]
        BY <1>6, <2>1 DEF MarkQueueFailure, WriteStatus
    <2>4. CASE runs[r].status = "queued"
        <3>1. suggestions[r].status = "queued"  BY <1>0, <2>4 DEF SuggestionOf
        <3>2. SetSuggestion(r, "failed")
            BY <1>6, <2>1, <3>1 DEF MarkQueueFailure, MovesSuggestion
        <3>3. "failed" \in SuggestionOf("failed")  BY DEF SuggestionOf
        <3>. QED  BY <2>3, <3>2, <3>3, BothWritten
    <2>5. CASE runs[r].status = "failed"
        <3>1. suggestions[r].status \in {"failed", "dismissed"}  BY <1>0, <2>5 DEF SuggestionOf
        <3>2. UNCHANGED suggestions
            BY <1>6, <2>1, <3>1 DEF MarkQueueFailure, MovesSuggestion
        <3>3. suggestions[r].status \in SuggestionOf("failed")  BY <3>1 DEF SuggestionOf
        <3>. QED  BY <2>3, <3>2, <3>3, RunWritten
    <2>. QED  BY <2>2, <2>4, <2>5
<1>7. ASSUME NEW s \in Scan, GiveUpSuggestion(s) PROVE SuggestionFollowsRun'
    <2>1. PICK r \in Run : r = scans[s].run  BY <1>7 DEF GiveUpSuggestion, LaneInv, ScanInv
    <2>2. \/ UNCHANGED <<runs, suggestions>>
          \/ /\ runs' = [runs EXCEPT ![r].status = "failed"] /\ SetSuggestion(r, "failed")
        BY <1>7, <2>1 DEF GiveUpSuggestion, GiveUp, MovesSuggestion, Pending
    <2>3. CASE UNCHANGED <<runs, suggestions>>  BY <2>3 DEF SuggestionFollowsRun
    <2>4. "failed" \in SuggestionOf("failed")  BY DEF SuggestionOf
    <2>. QED  BY <2>2, <2>3, <2>4, BothWritten
<1>8. \/ QuietStep /\ UNCHANGED suggestions
      \/ \E a \in Attempt : MarkRunning(a) \/ LoadEvidence(a) \/ MarkFailed(a) \/ PersistSuccess(a)
      \/ \E p \in Producer : MarkQueueFailure(p)
      \/ \E s \in Scan : GiveUpSuggestion(s)
    <2>1. ASSUME NEW a \in Attempt, LoadRun(a) \/ Reason(a) \/ EndAttempt(a) PROVE QuietStep
        BY <2>1 DEF RunMoves, QuietStep
    <2>2. ASSUME NEW p \in Producer, AddJob(p) PROVE QuietStep  BY <2>2 DEF QuietStep
    <2>3. ASSUME NEW s \in Scan, NEW r \in Run, PickStaleSuggestion(s, r)
          PROVE  QuietStep /\ UNCHANGED suggestions
        BY <2>3 DEF PickStaleSuggestion, QuietStep
    <2>4. ASSUME NEW s \in Scan,
                 Observe(s) \/ CheckTransport(s) \/ RemoveOld(s) \/ Claim(s) \/ Recheck(s)
                    \/ AddRecovery(s) \/ FailAudit(s)
          PROVE  QuietStep
        <3>1. ScanMoves(s) /\ ~GiveUp(s)
            BY <2>4 DEF ScanMoves, Observe, CheckTransport, RemoveOld, Claim, Recheck, AddRecovery,
                        FailAudit, GiveUp
        <3>. QED  BY <3>1 DEF QuietStep
    <2>5. ASSUME NEW r \in Run, Stall(r) \/ \E a \in Attempt : TakeJob(r, a) PROVE QuietStep
        BY <2>5 DEF QueueMoves, QuietStep
    <2>. QED  BY <2>1, <2>2, <2>3, <2>4, <2>5 DEF WorkerCopies
<1>. QED  BY <1>1, <1>2, <1>3, <1>4, <1>5, <1>6, <1>7, <1>8

LEMMA AgreementStep ==
    ASSUME IInv, OwnedInv, PastInv, SuggestionFollowsRun, [Next]_vars
    PROVE  SuggestionFollowsRun'
<1>. USE DEF IInv
<1>1. CASE UNCHANGED copyVars
    BY <1>1, QuietKeeps DEF copyVars, QuietStep
<1>2. CASE CopyMishap
    <2>1. UNCHANGED suggestions  BY <1>2 DEF CopyMishap
    <2>2. ASSUME NEW a \in Attempt, Throws(a) \/ AttemptCrash(a) PROVE QuietStep
        BY <2>2 DEF RunMoves, QuietStep
    <2>3. ASSUME NEW p \in Producer, ProducerCrash(p) PROVE QuietStep  BY <2>3 DEF QuietStep
    <2>4. ASSUME NEW s \in Scan, ScanCrash(s) PROVE SuggestionFollowsRun'
        BY <2>1, <2>4 DEF ScanCrash, SuggestionFollowsRun
    <2>5. ASSUME NEW r \in Run, LockLost(r) PROVE QuietStep  BY <2>5 DEF QueueMoves, QuietStep
    <2>. QED  BY <1>2, <2>1, <2>2, <2>3, <2>4, <2>5, QuietKeeps DEF CopyMishap
<1>. QED
    BY <1>1, <1>2, OperatorAgrees, WorkerAgrees
       DEF Next, vars, ImagesGoOn, CleanersGoOn, CopiesGoOn, Reviewed

\* Whoever gets past markRunning has made the run running, or found it so.
LEMMA PastStep ==
    ASSUME LaneInv, PastInv, [Next]_vars
    PROVE  PastInv'
<1>. DEFINE Stays(b) == /\ attempts[b].pc \in Past
                       /\ attempts'[b].run = attempts[b].run
            Known(b) == runs'[attempts'[b].run].status \notin {"absent", "queued"}
            Fine(b) == attempts'[b].pc \in Past => Stays(b) \/ Known(b)
<1>0. LaneStep /\ attempts \in [Attempt -> AttemptState] /\ runs \in [Run -> RunRow]
    BY NextIsLaneStep DEF LaneInv, LaneTypeOK
<1>a. ASSUME \A b \in Attempt : Fine(b) PROVE PastInv'
    <2>1. ASSUME NEW b \in Attempt, Stays(b) PROVE Known(b)
        <3>1. attempts[b].run \in Run  BY <2>1 DEF Past, LaneInv, AttemptInv
        <3>2. runs[attempts[b].run].status \notin {"absent", "queued"}  BY <2>1 DEF PastInv
        <3>. QED  BY <1>0, <2>1, <3>1, <3>2, NeverBack
    <2>. QED  BY <1>a, <2>1 DEF PastInv
<1>b. ASSUME NEW a \in Attempt, Fine(a), \A b \in Attempt \ {a} : attempts'[b] = attempts[b]
      PROVE  PastInv'
    <2>1. \A b \in Attempt : Fine(b)  BY <1>b
    <2>. HIDE DEF Fine
    <2>. QED  BY <1>a, <2>1
<1>c. ASSUME UNCHANGED attempts PROVE PastInv'
    <2>1. \A b \in Attempt : Fine(b)  BY <1>c
    <2>. HIDE DEF Fine
    <2>. QED  BY <1>a, <2>1
<1>d. ASSUME NEW a \in Attempt, NEW pc, Goes(a, pc), pc \in Past => attempts[a].pc \in Past \/ Known(a)
      PROVE  PastInv'
    <2>1. attempts'[a].pc = pc /\ attempts'[a].run = attempts[a].run
        BY <1>0, <1>d DEF Goes, AttemptState
    <2>2. \A b \in Attempt \ {a} : attempts'[b] = attempts[b]  BY <1>0, <1>d DEF Goes
    <2>3. Fine(a)  BY <1>d, <2>1
    <2>. HIDE DEF Fine
    <2>. QED  BY <1>b, <2>2, <2>3
<1>e. ASSUME NEW a \in Attempt, attempts[a].pc \in Past,
             \/ \E e : attempts' = [attempts EXCEPT ![a].pc = "refuse", ![a].error = e]
             \/ \E x : attempts' = [attempts EXCEPT ![a].pc = "persist", ![a].answer = x]
      PROVE  PastInv'
    <2>1. attempts'[a].run = attempts[a].run  BY <1>0, <1>e DEF AttemptState
    <2>2. \A b \in Attempt \ {a} : attempts'[b] = attempts[b]  BY <1>0, <1>e
    <2>3. Fine(a)  BY <1>e, <2>1
    <2>. HIDE DEF Fine
    <2>. QED  BY <1>b, <2>2, <2>3
<1>f. ASSUME NEW a \in Attempt, SetAttempt(a, NoAttempt) \/ \E e : Raises(a, e)
      PROVE  PastInv'
    <2>1. attempts'[a].pc \notin Past
        BY <1>0, <1>f DEF SetAttempt, Raises, NoAttempt, Past, AttemptState
    <2>2. \A b \in Attempt \ {a} : attempts'[b] = attempts[b]
        BY <1>0, <1>f DEF SetAttempt, Raises
    <2>3. Fine(a)  BY <2>1
    <2>. HIDE DEF Fine
    <2>. QED  BY <1>b, <2>2, <2>3
<1>1. ASSUME NEW a \in Attempt, NEW r \in Run, TakeJob(r, a) PROVE PastInv'
    <2>. DEFINE v == [NoAttempt EXCEPT !.pc = "load", !.run = r, !.audit = jobs[r].audit,
                         !.final = jobs[r].made + 1 >= MaxAttempts]
    <2>1. v.pc = "load"  BY DEF NoAttempt
    <2>2. attempts' = [attempts EXCEPT ![a] = v]  BY <1>1 DEF TakeJob, SetAttempt
    <2>. HIDE DEF v
    <2>3. attempts'[a].pc = "load" /\ \A b \in Attempt \ {a} : attempts'[b] = attempts[b]
        BY <1>0, <2>1, <2>2
    <2>4. Fine(a)  BY <2>3 DEF Past
    <2>. HIDE DEF Fine
    <2>. QED  BY <1>b, <2>3, <2>4
<1>2. ASSUME NEW a \in Attempt, LoadRun(a) PROVE PastInv'
    <2>1. CASE Goes(a, "evidence") /\ runs[attempts[a].run].status = "running"
        <3>1. runs' = runs /\ attempts'[a].run = attempts[a].run
            BY <1>0, <1>2, <2>1 DEF LoadRun, Goes, AttemptState
        <3>2. Known(a)  BY <2>1, <3>1
        <3>. HIDE DEF Fine
        <3>. QED  BY <1>d, <2>1, <3>2
    <2>2. CASE \E pc \in {"end", "mark"} : Goes(a, pc)
        <3>1. "end" \notin Past /\ "mark" \notin Past  BY DEF Past
        <3>. HIDE DEF Known, Fine
        <3>. QED  BY <1>d, <2>2, <3>1
    <2>3. CASE Raises(a, "terminal")  BY <1>f, <2>3
    <2>. QED  BY <1>2, <2>1, <2>2, <2>3 DEF LoadRun
<1>3. ASSUME NEW a \in Attempt, Reason(a) PROVE PastInv'
    BY <1>e, <1>3 DEF Reason, Past
<1>4. ASSUME NEW a \in Attempt, MarkRunning(a) PROVE PastInv'
    <2>. DEFINE r == attempts[a].run
    <2>1. CASE WriteStatus(r, "running") /\ Goes(a, "evidence")
        <3>1. r \in Run  BY <1>4 DEF MarkRunning, LaneInv, AttemptInv
        <3>2. attempts'[a].run = r  BY <1>0, <2>1 DEF Goes, AttemptState
        <3>3. runs'[r].status = "running"
            <4>. HIDE DEF r
            <4>. QED  BY <1>0, <2>1, <3>1, StatusWritten DEF WriteStatus
        <3>4. Known(a)  BY <3>2, <3>3
        <3>. HIDE DEF Fine
        <3>. QED  BY <1>d, <2>1, <3>4
    <2>2. CASE Goes(a, "reload")
        <3>1. "reload" \notin Past  BY DEF Past
        <3>. HIDE DEF Known, Fine
        <3>. QED  BY <1>d, <2>2, <3>1
    <2>3. CASE Raises(a, "terminal")  BY <1>f, <2>3
    <2>. QED  BY <1>4, <2>1, <2>2, <2>3 DEF MarkRunning
<1>5. ASSUME NEW a \in Attempt, LoadEvidence(a) PROVE PastInv'
    <2>1. attempts[a].pc \in Past  BY <1>5 DEF LoadEvidence, Past
    <2>2. Goes(a, "reason") \/ Refuses(a)  BY <1>5 DEF LoadEvidence
    <2>. HIDE DEF Known, Fine
    <2>. QED  BY <1>d, <1>e, <2>1, <2>2 DEF Refuses
<1>6. ASSUME NEW a \in Attempt, MarkFailed(a) \/ PersistSuccess(a) PROVE PastInv'
    <2>1. Goes(a, "end") \/ Raises(a, "terminal")  BY <1>6 DEF MarkFailed, PersistSuccess
    <2>2. "end" \notin Past  BY DEF Past
    <2>. HIDE DEF Known, Fine
    <2>. QED  BY <1>d, <1>f, <2>1, <2>2
<1>7. ASSUME NEW a \in Attempt, EndAttempt(a) \/ AttemptCrash(a) \/ Throws(a) PROVE PastInv'
    BY <1>f, <1>7 DEF EndAttempt, AttemptCrash, Throws
<1>8. CASE UNCHANGED copyVars  BY <1>c, <1>8 DEF copyVars, laneVars
<1>9. CASE OperatorCopies
    BY <1>c, <1>9 DEF OperatorCopies, QueueSuggestion, DismissSuggestion, EditPageVersion, laneVars
<1>10. CASE WorkerCopies
    <2>1. ASSUME NEW p \in Producer, AddJob(p) \/ MarkQueueFailure(p) PROVE UNCHANGED attempts
        BY <2>1 DEF AddJob, MarkQueueFailure
    <2>2. ASSUME NEW s \in Scan,
                 \/ \E r \in Run : PickStaleSuggestion(s, r)
                 \/ GiveUpSuggestion(s) \/ Observe(s) \/ CheckTransport(s) \/ RemoveOld(s) \/ Claim(s)
                 \/ Recheck(s) \/ AddRecovery(s) \/ FailAudit(s)
          PROVE  UNCHANGED attempts
        BY <2>2 DEF PickStaleSuggestion, PickStale, GiveUpSuggestion, GiveUp, Observe, CheckTransport,
                    RemoveOld, Claim, Recheck, AddRecovery, FailAudit
    <2>3. ASSUME NEW r \in Run, Stall(r) PROVE UNCHANGED attempts  BY <2>3 DEF Stall
    <2>. HIDE DEF Fine
    <2>. QED
        BY <1>1, <1>2, <1>3, <1>4, <1>5, <1>6, <1>7, <1>c, <1>10, <2>1, <2>2, <2>3 DEF WorkerCopies
<1>11. CASE CopyMishap
    BY <1>7, <1>c, <1>11 DEF CopyMishap, ProducerCrash, ScanCrash, LockLost
<1>. QED
    BY <1>8, <1>9, <1>10, <1>11 DEF Next, vars, ImagesGoOn, CleanersGoOn, CopiesGoOn, Reviewed

\* No request's add throws after the job was added.
NoLostAcks == ~LostAcks

LEMMA AgreeInit == ASSUME Init PROVE AgreeInv
<1>1. OwnedInv  BY OwnedInit DEF Init
<1>2. PastInv  BY DEF Init, LaneInit, PastInv, Past, NoAttempt
<1>3. SuggestionFollowsRun
    BY DEF Init, LaneInit, SuggestionsInit, NoSuggestion, SuggestionFollowsRun, SuggestionOf
<1>. QED  BY <1>1, <1>2, <1>3 DEF AgreeInv

LEMMA AgreeStep == ASSUME NoLostAcks, IInv, AgreeInv, [Next]_vars PROVE AgreeInv'
<1>1. OwnedInv'  BY NextIsLaneStep, OwnedKeeps DEF IInv, AgreeInv, NoLostAcks
<1>. QED  BY <1>1, PastStep, AgreementStep DEF IInv, AgreeInv

----------------------------------------------------------------------------
(* The theorems *)

\* Every variable of images, cleanups, versions, runs and suggestions keeps its type:
\* no image is reenqueued or cleaned up, and no run recovered, more often than its budget
\* allows (recoverImage, markCleanupExhausted, claimRecoveryAttempt).
THEOREM StudioTypes == Spec => []StudioTypeOK
<1>1. IInv => StudioTypeOK
    BY DEF IInv, ImageInv, LaneInv, SuggestionsTyped, VersionsTyped, StudioTypeOK, SuggestionsTypeOK
<1>. QED  BY <1>1, Invariant, PTL

\* An image that some page version uses can be served with all its derivatives, whatever
\* attempts, archiving and cleanups do meanwhile (loadSelectablePageMediaVariants,
\* persistReady, media-cleanup.ts).
THEOREM UsedImagesServed == Spec => []UsedIsServed
<1>1. IInv => UsedIsServed  BY ImagesServed DEF IInv
<1>. QED  BY <1>1, Invariant, PTL

\* Nothing is stored any more for a failed image whose cleanup was completed: no attempt
\* that is late puts anything there (claimCleanupCandidate waits until none can be).
THEOREM CleanedImagesErased == Spec => []CleanedIsErased
<1>1. IInv => CleanedIsErased  BY ImagesServed DEF IInv
<1>. QED  BY <1>1, Invariant, PTL

\* What an operator decided about a suggestion stays decided, and a suggestion is in
\* exactly the version that applied it, even where an acknowledgement of the queue is
\* lost (dismissSectionCopySuggestion, editPageVersion, markFailed, persistSuccess).
THEOREM DecidedCopyFinal == Spec => DecidedCopyStays
<1>. DEFINE A == \A r \in Run :
        /\ suggestions[r].status \in {"dismissed", "applied"} => suggestions'[r] = suggestions[r]
        /\ {v \in DOMAIN versions' : versions'[v].copy = r} =
            (IF suggestions'[r].status = "applied" THEN {suggestions'[r].version + 1} ELSE {})
<1>1. IInv /\ IInv' /\ [Next]_vars => A
    <2>. SUFFICES ASSUME IInv, IInv', [Next]_vars PROVE A  OBVIOUS
    <2>1. ASSUME NEW r \in Run
          PROVE  {v \in DOMAIN versions' : versions'[v].copy = r} =
                    (IF suggestions'[r].status = "applied" THEN {suggestions'[r].version + 1} ELSE {})
        BY DEF IInv, CopyInv, Written
    <2>2. ASSUME NEW r \in Run, suggestions[r].status \in {"dismissed", "applied"}
          PROVE  suggestions'[r] = suggestions[r]
        <3>1. CASE KeepsCopies  BY <3>1 DEF KeepsCopies
        <3>2. ASSUME NEW q \in Run, Writes(q) PROVE suggestions'[r] = suggestions[r]
            BY <2>2, <3>2 DEF Writes, Undecided, Pending, SetSuggestion, IInv, SuggestionsTyped
        <3>3. ASSUME NEW q \in Run, Makes(q) PROVE suggestions'[r] = suggestions[r]
            BY <2>2, <3>3 DEF Makes, IInv, SuggestionsTyped, BirthInv
        <3>4. ASSUME NEW q \in Run, Applies(q) PROVE suggestions'[r] = suggestions[r]
            BY <2>2, <3>4 DEF Applies, SetSuggestion, IInv, SuggestionsTyped
        <3>. QED  BY <3>1, <3>2, <3>3, <3>4, CopySteps DEF IInv
    <2>. QED  BY <2>1, <2>2
<1>. HIDE DEF A
<1>2. IInv /\ IInv' /\ [Next]_vars =>
        [\A r \in Run :
            /\ suggestions[r].status \in {"dismissed", "applied"} => suggestions'[r] = suggestions[r]
            /\ {v \in DOMAIN versions' : versions'[v].copy = r} =
                (IF suggestions'[r].status = "applied" THEN {suggestions'[r].version + 1} ELSE {})]_vars
    BY <1>1 DEF A
<1>. QED  BY <1>2, Invariant, PTL DEF Spec, DecidedCopyStays

\* A suggestion and its run always agree, although the request, the operator, attempts
\* that overlap and the scan all write them, as long as NoLostAcks: only then is a run
\* whose request failed not already in the hands of a worker (markQueueFailure).
THEOREM SuggestionsAgree == ASSUME NoLostAcks PROVE Spec => []SuggestionFollowsRun
<1>1. Init => AgreeInv  BY AgreeInit
<1>2. IInv /\ AgreeInv /\ [Next]_vars => AgreeInv'  BY AgreeStep
<1>3. AgreeInv => SuggestionFollowsRun  BY DEF AgreeInv
<1>. QED  BY <1>1, <1>2, <1>3, Invariant, PTL DEF Spec
=============================================================================
