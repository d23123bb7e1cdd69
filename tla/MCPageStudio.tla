------------------------------ MODULE MCPageStudio ------------------------------
(***************************************************************************)
(* PageStudio with one image, from several kinds of state, to keep its     *)
(* parts apart.  All runs are behind us, refused by the queue, and the     *)
(* image is to be uploaded, processed again or cleaned up, or the page is  *)
(* reviewed; or the page has an archived image, copies are asked for, and  *)
(* either nothing fails, or one run was refused and the other one meets a  *)
(* failure, before or after it was recovered.                              *)
(***************************************************************************)
EXTENDS PageStudio

Suggestion2(status) == [status |-> status, version |-> 2]

\* What QueueSuggestion, an AddJob that throws and MarkQueueFailure leave of the runs, which
\* are about the second version
Refused(past) ==
    /\ runs = [r \in Run |->
            [status |-> IF r \in past THEN "failed" ELSE "absent", count |-> 0]]
    /\ audits = [r \in Run |-> IF r \in past THEN [id |-> 0, status |-> "failed"] ELSE NoAudit]
    /\ suggestions = [r \in Run |-> IF r \in past THEN Suggestion2("failed") ELSE NoSuggestion]
    /\ jobs = [r \in Run |-> NoJob]

OneRun == {CHOOSE r \in Run : TRUE}

\* The others were recovered once, and the attempt at the new job died.
OthersRecovered ==
    /\ runs = [r \in Run |-> IF r \in OneRun THEN [status |-> "failed", count |-> 0]
                                              ELSE [status |-> "running", count |-> 1]]
    /\ audits = [r \in Run |-> IF r \in OneRun THEN [id |-> 0, status |-> "failed"]
                                                ELSE [id |-> 1, status |-> "running"]]
    /\ suggestions = [r \in Run |-> Suggestion2(IF r \in OneRun THEN "failed" ELSE "generating")]
    /\ jobs = [r \in Run |-> IF r \in OneRun THEN NoJob
                    ELSE [NoJob EXCEPT !.state = "waiting", !.stalls = 1, !.audit = 1]]

\* An image that was uploaded earlier
Uploaded(image, stored, job) ==
    /\ assets = [a \in Asset |-> image]
    /\ objects = [a \in Asset |-> stored]
    /\ grants = [a \in Asset |-> "closed"]
    /\ mediaJobs = [a \in Asset |-> job]

\* The upload was completed, but the process died before it enqueued the processing.
ImageStranded == Uploaded([NoAsset EXCEPT !.status = "processing"],
    [Nothing EXCEPT !.source = TRUE], [state |-> "missing", recovered |-> 0])

Processed(status, cleanup) ==
    [NoAsset EXCEPT !.status = status, !.variants = Width, !.cleanup = cleanup, !.tries = 1]
Done == [state |-> "completed", recovered |-> 0]

\* The process that cleaned up died before it deleted anything.
CleanupAbandoned == Uploaded(Processed("ready", "claimed"),
    [source |-> TRUE, derivatives |-> Width], Done)

ImageArchived == Uploaded(Processed("archived", "completed"),
    [source |-> FALSE, derivatives |-> Width], Done)

\* The page was edited once.
Edited(media) == versions = <<FirstVersion, [FirstVersion EXCEPT !.media = media]>>

MCInit ==
    /\ \/ /\ (MediaLedgerInit \/ ImageStranded \/ CleanupAbandoned)
          /\ mishaps = 0 /\ Edited({})
          /\ Refused(Run) /\ faults = MaxFaults /\ reviews = MaxReviews
       \/ /\ ImageArchived /\ mishaps = MaxMishaps /\ Edited(Asset)
          /\ \/ Refused({}) /\ faults = MaxFaults /\ reviews = MaxReviews
             \/ (Refused(OneRun) \/ OthersRecovered) /\ faults = 0 /\ reviews = MaxReviews
             \/ Refused(Run) /\ faults = MaxFaults /\ reviews = 0
    /\ ImagesInit /\ CleanupInit
    /\ proposalStatus = "draft" /\ blocked = {}
    /\ attempts = [a \in Attempt |-> NoAttempt]
    /\ producers = [p \in Producer |-> NoRequest]
    /\ scans = [s \in Scan |-> NoScan]

MCSpec == MCInit /\ [][Next]_vars /\ WF_vars(ImageProgress)
================================================================================
