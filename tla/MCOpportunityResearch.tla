-------------------------- MODULE MCOpportunityResearch --------------------------
(***************************************************************************)
(* OpportunityResearch for TLC: what may happen together.                  *)
(***************************************************************************)
EXTENDS OpportunityResearch

Together == {[changes |-> 1, commands |-> 0, mishaps |-> 1],
             [changes |-> 0, commands |-> 1, mishaps |-> 1],
             [changes |-> 2, commands |-> 1, mishaps |-> 0]}
================================================================================
