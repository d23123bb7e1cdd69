---------------------------- MODULE ProjectEvidence ----------------------------
(***************************************************************************)
(* The evidence of one project: the connection to Search Console, the runs *)
(* that are requested, and the attempts at them, with what the results may *)
(* be relied upon for.                                                     *)
(***************************************************************************)
EXTENDS EvidenceWork

Init == LedgerInit /\ mishaps = 0 /\ WorkInit

Next ==
    \/ OAuthStep /\ UNCHANGED <<runs, opportunities, jobs, requests, misled, attempts, split>>
    \/ EvidenceRequest /\ UNCHANGED <<attempts, split>>
    \/ EvidenceStep

Spec == Init /\ [][Next]_vars

----------------------------------------------------------------------------

\* Either nothing takes a result back, or two attempts at the run overlapped, or an error
\* reported as failed what was done.
KeepsResult(r) ==
    runs[r].status \in Done /\ runs'[r].status \notin Done => r \in split \cup misled'

\* Rows and row_count are written one after the other.
RowsAreCounted(r) == runs[r].status = "completed" => runs[r].rows = {runs[r].count}

\* A run that has its result keeps it, though failures are written without looking at what is
\* there: websites and searches unless attempts overlap or an error misreports, a scout even
\* then.  And the number of rows that a completed sync states is that of the rows stored,
\* whatever failed between the two and was repeated with another answer, unless attempts overlap.
ResultsStay ==
    /\ [][/\ \A r \in Crawl \cup Serp : KeepsResult(r)
          /\ \A r \in Scout : runs[r].status \in Done => runs'[r].status \in Done]_vars
    /\ [](\A r \in Sync \ split : RowsAreCounted(r))

\* A scout proposes nothing that an open opportunity is about already, though it gathers what
\* there is long before it stores its briefs and other runs and operators work meanwhile: as
\* long as no two attempts at one run overlap.  Even then, no run stores its briefs twice, or
\* without being finished.
BriefsAreNew ==
    \A i \in DOMAIN opportunities :
        /\ runs[opportunities[i].run].status \in Done
        /\ \A j \in DOMAIN opportunities \ {i} :
            /\ opportunities[i].run # opportunities[j].run
            /\ \/ opportunities[i].key # opportunities[j].key
               \/ opportunities[i].status # "new" \/ opportunities[j].status # "new"
               \/ split # {}

\* A token that is kept is that of the last grant: a nonce makes one connection, and when the
\* callback of a grant is through (and did not die half-way), no earlier connection keeps its
\* token, whichever callbacks overlapped.  And a failed sync, however late, only takes
\* away a connection whose own token a sync could not use, be the grant good or not: never the
\* one that has replaced its own since it was queued.
GrantsHold ==
    /\ LastGrant
    /\ [][/\ LastGrant'
          /\ \A i \in DOMAIN connections :
                connections[i].status = "connected" /\ connections'[i].status = "error"
                    => connections[i].nonce \in unusable]_vars
================================================================================
