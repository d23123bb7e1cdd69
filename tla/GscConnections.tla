----------------------------- MODULE GscConnections -----------------------------
(***************************************************************************)
(* The Google Search Console connections of a project (gsc.module.ts).  An *)
(* operator starts OAuth with an intent, kept under a nonce that one       *)
(* callback may consume; the callback exchanges Google's code for a token, *)
(* inserts a connection and then revokes the others, in calls of its own.  *)
(* The newest row is the project's connection.                             *)
(***************************************************************************)
EXTENDS Naturals, SequencesExt

CONSTANTS
    Nonce,     \* of the OAuth intents
    Callback,  \* requests that Google redirects to /gsc/callback
    MaxMishaps \* how many calls throw, processes die and locks expire

ASSUME ConnectionConstants == MaxMishaps \in Nat

VARIABLES
    intents,     \* nonces in Redis
    callbacks,   \* the local variables of each callback
    connections, \* gsc_connections, in the order of created_at
    unusable,     \* history: nonces of the grants whose token some sync could not use
    mishaps

gscVars == <<intents, callbacks, connections, unusable, mishaps>>

NoCallback == [pc |-> "idle", nonce |-> 0, mine |-> 0]
\* property: the account has one
Connection ==
    [nonce : Nonce, property : BOOLEAN, status : {"connected", "revoked", "error"},
     token : BOOLEAN]

GscTypeOK ==
    /\ intents \in [Nonce -> {"absent", "stored", "gone"}]
    /\ callbacks \in [Callback ->
            [pc : {"idle", "exchange", "insert", "revoke_others", "revoke_all", "insert_error",
                   "dead"},
             nonce : Nonce \cup {0}, mine : Nat]]
    /\ connections \in Seq(Connection)
    /\ unusable \subseteq Nonce
    /\ mishaps \in 0..MaxMishaps

GscInit ==
    /\ intents = [n \in Nonce |-> "absent"]
    /\ callbacks = [c \in Callback |-> NoCallback]
    /\ connections = <<>>
    /\ unusable = {}

GoesWrong == mishaps < MaxMishaps /\ mishaps' = mishaps + 1

\* findLatestConnection
Latest == Len(connections)

Revoked(row) == [row EXCEPT !.status = "revoked", !.token = FALSE]
AtCallback(c, pc) == callbacks[c].pc = pc
CallbackGoes(c, pc) == callbacks' = [callbacks EXCEPT ![c].pc = pc]

----------------------------------------------------------------------------

\* createOAuthIntent: the nonce is random.
CreateIntent(n) ==
    /\ intents[n] = "absent"
    /\ intents' = [intents EXCEPT ![n] = "stored"]
    /\ UNCHANGED <<callbacks, connections, unusable, mishaps>>

\* The time to live of the nonce is over.
IntentExpires(n) ==
    /\ intents[n] = "stored"
    /\ intents' = [intents EXCEPT ![n] = "gone"]
    /\ UNCHANGED <<callbacks, connections, unusable, mishaps>>

\* The signed state holds; consume reads the nonce and deletes it at once.  One that is gone
\* is answered with oauth_state_replayed_or_expired.
Consume(c, n) ==
    /\ AtCallback(c, "idle")
    /\ intents[n] = "stored"
    /\ intents' = [intents EXCEPT ![n] = "gone"]
    /\ callbacks' = [callbacks EXCEPT ![c] = [NoCallback EXCEPT !.pc = "exchange", !.nonce = n]]
    /\ UNCHANGED <<connections, unusable, mishaps>>

\* Session, access, exchangeCode and listSites: refused, or a grant with a property or none
Exchange(c) ==
    /\ AtCallback(c, "exchange")
    /\ \E pc \in {"idle", "insert", "revoke_all"} : CallbackGoes(c, pc)
    /\ UNCHANGED <<intents, connections, unusable, mishaps>>

InsertConnection(c) ==
    /\ AtCallback(c, "insert")
    /\ connections' = Append(connections,
            [nonce |-> callbacks[c].nonce, property |-> TRUE, status |-> "connected",
             token |-> TRUE])
    /\ callbacks' = [callbacks EXCEPT ![c].pc = "revoke_others", ![c].mine = Latest + 1]
    /\ UNCHANGED <<intents, unusable, mishaps>>

RevokeOthersBug(c) ==
    /\ AtCallback(c, "revoke_others")
    /\ connections' = [i \in DOMAIN connections |->
            IF i = callbacks[c].mine \/ connections[i].status # "connected"
              THEN connections[i] ELSE Revoked(connections[i])]
    /\ CallbackGoes(c, "idle")
    /\ UNCHANGED <<intents, unusable, mishaps>>

\* revokeOtherProjectConnections: in any status, and newer ones too
RevokeOthers(c) ==
    /\ AtCallback(c, "revoke_others")
    /\ connections' = [i \in DOMAIN connections |->
            IF i = callbacks[c].mine THEN connections[i] ELSE Revoked(connections[i])]
    /\ CallbackGoes(c, "idle")
    /\ UNCHANGED <<intents, unusable, mishaps>>

\* revokeProjectConnections, where the account has no property
RevokeAll(c) ==
    /\ AtCallback(c, "revoke_all")
    /\ connections' = [i \in DOMAIN connections |-> Revoked(connections[i])]
    /\ CallbackGoes(c, "insert_error")
    /\ UNCHANGED <<intents, unusable, mishaps>>

InsertError(c) ==
    /\ AtCallback(c, "insert_error")
    /\ connections' = Append(connections,
            [nonce |-> callbacks[c].nonce, property |-> FALSE, status |-> "error",
             token |-> FALSE])
    /\ CallbackGoes(c, "idle")
    /\ UNCHANGED <<intents, unusable, mishaps>>

\* A call throws, or the process dies: the nonce is spent, and what is half done stays so.
CallbackDies(c) ==
    /\ ~AtCallback(c, "idle") /\ ~AtCallback(c, "dead")
    /\ GoesWrong
    /\ CallbackGoes(c, IF AtCallback(c, "revoke_others") THEN "dead" ELSE "idle")
    /\ UNCHANGED <<intents, connections, unusable>>

OAuthStep ==
    \/ \E n \in Nonce : CreateIntent(n) \/ IntentExpires(n)
    \/ \E c \in Callback :
        \/ \E n \in Nonce : Consume(c, n)
        \/ Exchange(c) \/ InsertConnection(c) \/ RevokeOthers(c)
        \/ RevokeAll(c) \/ InsertError(c) \/ CallbackDies(c)

----------------------------------------------------------------------------

\* No callback that inserted the connection j is still to revoke the others, or died before it.
Settled(j) ==
    \A c \in Callback :
        callbacks[c].mine = j => callbacks[c].pc \notin {"revoke_others", "dead"}

\* A nonce makes one connection; and once the callback of a grant with a property is through,
\* no connection that was inserted before keeps a token.
LastGrant ==
    /\ \A i, j \in DOMAIN connections :
            connections[i].nonce = connections[j].nonce => i = j
    /\ \A i, j \in DOMAIN connections :
            i < j /\ connections[j].property /\ Settled(j) => ~connections[i].token
================================================================================
