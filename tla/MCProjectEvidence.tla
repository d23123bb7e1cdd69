--------------------------- MODULE MCProjectEvidence ---------------------------
(***************************************************************************)
(* ProjectEvidence from five kinds of state, to keep its parts apart: the  *)
(* project's website is to be imported or audited, or searches captured,   *)
(* or it is to be scouted for opportunities, where one thing goes wrong;   *)
(* or it is to be connected to Search Console and synchronized while       *)
(* nothing goes wrong; or it is connected, was synchronized in vain, and   *)
(* may be connected again, with one thing going wrong.  The runs of the    *)
(* other kinds are behind us, refused by the queue, and where nothing is   *)
(* to be connected the intents have expired.                               *)
(***************************************************************************)
EXTENDS ProjectEvidence

Fresh == [n \in Nonce |-> "absent"]
Expired == [n \in Nonce |-> "gone"]

Runs(ahead, past) ==
    /\ requests = [r \in Run |-> IF r \in ahead THEN "none" ELSE "over"]
    /\ runs = [r \in Run |->
            IF r \in ahead \cup Serp THEN NoRun
            ELSE [NoRun EXCEPT !.status = "failed", !.connection = IF r \in past THEN 1 ELSE 0]]

NotConnected == connections = <<>>
Connected(n) ==
    /\ connections =
        <<[nonce |-> n, property |-> TRUE, status |-> "connected", token |-> TRUE]>>
    /\ intents = [Fresh EXCEPT ![n] = "gone"]

MCInit ==
    /\ callbacks = [c \in Callback |-> NoCallback]
    /\ unusable = {} /\ opportunities = <<>> /\ misled = {}
    /\ jobs = [r \in Run |-> NoJob]
    /\ WorkInit
    /\ \/ /\ NotConnected /\ intents = Expired /\ mishaps = 0
          /\ \E kind \in {Import, Audit, Serp} : Runs(kind \cup Sync, {})
       \/ /\ NotConnected /\ intents = Expired /\ mishaps = MaxMishaps - 1
          /\ Runs(Scout \cup Sync, {})
       \/ NotConnected /\ intents = Fresh /\ mishaps = MaxMishaps /\ Runs(Sync, {})
       \/ /\ \E n \in Nonce : Connected(n)
          /\ mishaps = MaxMishaps - 1
          /\ \E r \in Sync : Runs({r}, Sync \ {r})

MCSpec == MCInit /\ [][Next]_vars

Symmetry ==
    Permutations(Nonce) \cup Permutations(Callback) \cup Permutations(Key)
        \cup Permutations(Scout) \cup Permutations(Sync)
================================================================================
