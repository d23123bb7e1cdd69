------------------------------ MODULE PageVersions ------------------------------
(***************************************************************************)
(* The versions of one page proposal and their review                      *)
(* (page-version.capability.ts, page-section-notes.capability.ts), and     *)
(* which images each of them uses (packages/db/src/media-manifest.ts).     *)
(* Edits and reviews lock the proposal, so that each is one step; those    *)
(* that find their version not to be the latest any more change nothing.   *)
(***************************************************************************)
EXTENDS MediaLedger, Sequences

CONSTANTS
    MaxVersions, \* bound on edits
    MaxReviews,  \* bound on reviews and blockers
    NoCopy       \* the copy of a version that no suggestion wrote

ASSUME VersionConstants == MaxVersions \in Nat \ {0} /\ MaxReviews \in Nat

VARIABLES
    versions,       \* page_versions in the order of their numbers
    proposalStatus, \* page_proposals.status
    blocked,        \* numbers of the versions with an unresolved approval_blocker note
    reviews         \* how many reviews and blockers there were

versionVars == <<versions, proposalStatus, blocked, reviews>>

VersionStatus == {"preview", "changes_requested", "approved"}

\* media: its rows of page_version_media_assets; copy: the run whose suggestion it applies
Version(copies) == [status : VersionStatus, media : SUBSET Asset, copy : copies]
FirstVersion == [status |-> "preview", media |-> {}, copy |-> NoCopy]

VersionsTypeOK(copies) ==
    /\ versions \in Seq(Version(copies)) /\ Len(versions) \in 1..MaxVersions
    /\ proposalStatus \in {"draft", "approved", "changes_requested"}
    /\ blocked \subseteq DOMAIN versions
    /\ reviews \in 0..MaxReviews

VersionsInit ==
    /\ versions = <<FirstVersion>>
    /\ proposalStatus = "draft"
    /\ blocked = {}
    /\ reviews = 0

Latest == Len(versions)

\* Some version uses the image.
Referenced(a) == \E v \in DOMAIN versions : a \in versions[v].media

\* loadSelectablePageMediaVariants, under locks of the assets
Selectable(a, inherited) ==
    /\ \/ assets[a].status = "ready"
       \/ assets[a].status = "archived" /\ a \in inherited
    /\ assets[a].variants = Width

\* loadPreviewMediaManifest and verifyPreviewMediaManifestBytes
Served(a) ==
    /\ assets[a].status \in Retained
    /\ assets[a].variants = Width
    /\ objects[a].derivatives = Width

----------------------------------------------------------------------------
\* editPageVersion, whose base is the latest version; media: what the edited page uses
NewVersion(media, copy) ==
    /\ Latest < MaxVersions
    /\ \A a \in media : Selectable(a, versions[Latest].media)
    /\ versions' = Append(versions, [status |-> "preview", media |-> media, copy |-> copy])
    /\ proposalStatus' = "draft"
    /\ UNCHANGED <<blocked, reviews>>

Reviews == reviews < MaxReviews /\ reviews' = reviews + 1

ReviewPageVersion(decision) ==
    /\ Reviews
    /\ versions[Latest].status \in {"preview", "changes_requested"}
    /\ decision = "approved" => /\ Latest \notin blocked
                                /\ \A a \in versions[Latest].media : Served(a)
    /\ versions' = [versions EXCEPT ![Latest].status = decision]
    /\ proposalStatus' = decision
    /\ UNCHANGED blocked

\* createPageSectionNote of an approval blocker: on any version, whatever its status
CreateBlocker(v) ==
    /\ Reviews
    /\ v \notin blocked
    /\ blocked' = blocked \cup {v}
    /\ UNCHANGED <<versions, proposalStatus>>

\* resolvePageSectionNote, of the last one
ResolveBlocker(v) ==
    /\ v \in blocked
    /\ blocked' = blocked \ {v}
    /\ UNCHANGED <<versions, proposalStatus, reviews>>

ReviewStep ==
    \/ \E decision \in {"approved", "changes_requested"} : ReviewPageVersion(decision)
    \/ \E v \in DOMAIN versions : CreateBlocker(v) \/ ResolveBlocker(v)
================================================================================
