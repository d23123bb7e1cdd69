------------------------- MODULE ProjectEvidenceProofs -------------------------
(***************************************************************************)
(* Theorems about ProjectEvidence, for every number of runs, attempts,     *)
(* callbacks, nonces, keys, answers and mishaps.                           *)
(*                                                                         *)
(* The connections keep an invariant of their own (GscInv).  Of the runs,  *)
(* an attempt knows something only as long as it is the one that works on  *)
(* its run (JobInv, Fits): no run that was handed out again while its      *)
(* attempt worked is claimed anything about but what the rows' own         *)
(* conditions give.                                                        *)
(***************************************************************************)
EXTENDS ProjectEvidence, TLAPS

----------------------------------------------------------------------------
(* The connections to Search Console *)

\* A callback between its insert and its revocation, or one that died there
Pending(c) == callbacks[c].pc \in {"revoke_others", "dead"}
\* A callback that holds a nonce it has consumed
InCallback(c) == callbacks[c].pc \in {"exchange", "insert", "revoke_all", "insert_error"}

TokenInv ==
    /\ \A i \in DOMAIN connections : connections[i].status = "connected" => connections[i].token
    /\ \A i, j \in DOMAIN connections :
            i < j /\ connections[j].property /\ Settled(j) => ~connections[i].token

NonceInv ==
    /\ \A i \in DOMAIN connections : intents[connections[i].nonce] = "gone"
    /\ \A i, j \in DOMAIN connections : connections[i].nonce = connections[j].nonce => i = j
    /\ \A c \in Callback : InCallback(c) =>
        /\ callbacks[c].nonce \in Nonce /\ intents[callbacks[c].nonce] = "gone"
        /\ \A i \in DOMAIN connections : connections[i].nonce # callbacks[c].nonce
        /\ \A b \in Callback : InCallback(b) /\ callbacks[b].nonce = callbacks[c].nonce => b = c

GscInv == GscTypeOK /\ TokenInv /\ NonceInv

CallbackRow ==
    [pc : {"idle", "exchange", "insert", "revoke_others", "revoke_all", "insert_error", "dead"},
     nonce : Nonce \cup {0}, mine : Nat]

\* What a step of the connections does for those who read them: rows stay at their place
\* with their nonce, and none becomes one in error that a callback inserted as connected.
RowsStay ==
    /\ DOMAIN connections \subseteq DOMAIN connections'
    /\ \A i \in DOMAIN connections :
        /\ connections'[i].nonce = connections[i].nonce
        /\ connections'[i].status = "connected" => connections[i].status = "connected"
    /\ unusable \subseteq unusable'

NoErrors == \A i \in DOMAIN connections :
    connections[i].status = "connected" => connections'[i].status # "error"

LEMMA GscBegins == ASSUME GscInit, mishaps = 0 PROVE GscInv
<1>1. GscTypeOK  BY ConnectionConstants DEF GscInit, GscTypeOK, NoCallback
<1>2. TokenInv /\ NonceInv  BY DEF GscInit, TokenInv, NonceInv, InCallback, NoCallback
<1>. QED  BY <1>1, <1>2 DEF GscInv

LEMMA ConnectionRows ==
    ASSUME GscInv
    PROVE  /\ connections \in Seq(Connection)
           /\ Len(connections) \in Nat /\ DOMAIN connections = 1..Len(connections)
           /\ \A i \in DOMAIN connections : connections[i] \in Connection
           /\ \A c \in Callback : callbacks[c] \in CallbackRow
BY DEF GscInv, GscTypeOK, CallbackRow

LEMMA GoingWrong ==
    ASSUME mishaps \in 0..MaxMishaps, GoesWrong
    PROVE  mishaps' \in 0..MaxMishaps
BY ConnectionConstants DEF GoesWrong

LEMMA CallbackMoves ==
    ASSUME GscInv, NEW c \in Callback,
           NEW pc \in {"idle", "insert", "revoke_all", "insert_error", "dead"}, CallbackGoes(c, pc)
    PROVE  /\ callbacks' \in [Callback -> CallbackRow]
           /\ callbacks'[c].pc = pc
           /\ callbacks'[c].nonce = callbacks[c].nonce /\ callbacks'[c].mine = callbacks[c].mine
           /\ \A b \in Callback \ {c} : callbacks'[b] = callbacks[b]
<1>. DEFINE v == [callbacks[c] EXCEPT !.pc = pc]
<1>1. callbacks[c] \in CallbackRow /\ callbacks \in [Callback -> CallbackRow]
    BY DEF GscInv, GscTypeOK, CallbackRow
<1>2. v \in CallbackRow /\ v.pc = pc /\ v.nonce = callbacks[c].nonce /\ v.mine = callbacks[c].mine
    BY <1>1 DEF CallbackRow
<1>3. callbacks' = [callbacks EXCEPT ![c] = v]  BY DEF CallbackGoes
<1>. HIDE DEF v
<1>. QED  BY <1>1, <1>2, <1>3

LEMMA IntentStep ==
    ASSUME GscInv, NEW n \in Nonce, CreateIntent(n) \/ IntentExpires(n)
    PROVE  GscInv' /\ RowsStay /\ NoErrors
<1>1. intents' \in [Nonce -> {"absent", "stored", "gone"}]
    BY DEF GscInv, GscTypeOK, CreateIntent, IntentExpires
<1>2. \A m \in Nonce : intents[m] = "gone" => intents'[m] = "gone"
    BY DEF GscInv, GscTypeOK, CreateIntent, IntentExpires
<1>3. UNCHANGED <<callbacks, connections, unusable, mishaps>>
    BY DEF CreateIntent, IntentExpires
<1>4. \A i \in DOMAIN connections : connections[i].nonce \in Nonce
    BY ConnectionRows DEF Connection
<1>5. GscTypeOK'  BY <1>1, <1>3 DEF GscInv, GscTypeOK
<1>6. TokenInv'  BY <1>3 DEF GscInv, TokenInv, Settled, Pending
<1>7. NonceInv'  BY <1>2, <1>3, <1>4 DEF GscInv, NonceInv, InCallback
<1>8. RowsStay /\ NoErrors  BY <1>3 DEF RowsStay, NoErrors
<1>. QED  BY <1>5, <1>6, <1>7, <1>8 DEF GscInv

LEMMA ConsumeStep ==
    ASSUME GscInv, NEW c \in Callback, NEW n \in Nonce, Consume(c, n)
    PROVE  GscInv' /\ RowsStay /\ NoErrors
<1>. DEFINE v == [NoCallback EXCEPT !.pc = "exchange", !.nonce = n]
<1>1. v \in CallbackRow /\ v.pc = "exchange" /\ v.nonce = n
    BY DEF CallbackRow, NoCallback
<1>2. callbacks' = [callbacks EXCEPT ![c] = v] /\ callbacks \in [Callback -> CallbackRow]
    BY DEF Consume, GscInv, GscTypeOK, CallbackRow
<1>. HIDE DEF v
<1>3. /\ callbacks'[c] = v /\ \A b \in Callback \ {c} : callbacks'[b] = callbacks[b]
      /\ callbacks' \in [Callback -> CallbackRow]
    BY <1>1, <1>2
<1>4. /\ intents' = [intents EXCEPT ![n] = "gone"] /\ intents[n] = "stored"
      /\ intents \in [Nonce -> {"absent", "stored", "gone"}]
      /\ UNCHANGED <<connections, unusable, mishaps>> /\ callbacks[c].pc = "idle"
    BY DEF Consume, GscInv, GscTypeOK, AtCallback
<1>5. /\ intents' \in [Nonce -> {"absent", "stored", "gone"}]
      /\ intents'[n] = "gone" /\ \A m \in Nonce : intents[m] = "gone" => intents'[m] = "gone"
    BY <1>4
<1>6. GscTypeOK'  BY <1>3, <1>4, <1>5 DEF GscInv, GscTypeOK, CallbackRow
<1>7. TokenInv'
    BY <1>1, <1>3, <1>4 DEF GscInv, TokenInv, Settled, Pending
<1>8. NonceInv'
    <2>1. \A i \in DOMAIN connections : connections[i].nonce \in Nonce /\ connections[i].nonce # n
        BY <1>4, ConnectionRows DEF Connection, GscInv, NonceInv
    <2>2. \A b \in Callback : InCallback(b) => callbacks[b].nonce # n
        BY <1>4 DEF GscInv, NonceInv
    <2>3. \A b \in Callback \ {c} : InCallback(b)' <=> InCallback(b)
        BY <1>3 DEF InCallback
    <2>4. InCallback(c)' /\ callbacks'[c].nonce = n  BY <1>1, <1>3 DEF InCallback
    <2>5. ASSUME NEW b \in Callback, InCallback(b)'
          PROVE  /\ callbacks'[b].nonce \in Nonce /\ intents'[callbacks'[b].nonce] = "gone"
                 /\ \A i \in DOMAIN connections' : connections'[i].nonce # callbacks'[b].nonce
                 /\ \A e \in Callback : InCallback(e)' /\ callbacks'[e].nonce = callbacks'[b].nonce => e = b
        <3>1. CASE b = c  BY <1>3, <1>4, <1>5, <2>1, <2>2, <2>3, <2>4, <3>1
        <3>2. CASE b # c
            BY <1>3, <1>4, <1>5, <2>1, <2>2, <2>3, <2>4, <2>5, <3>2 DEF GscInv, NonceInv
        <3>. QED  BY <3>1, <3>2
    <2>. QED  BY <1>4, <1>5, <2>1, <2>5 DEF GscInv, NonceInv
<1>9. RowsStay /\ NoErrors  BY <1>4 DEF RowsStay, NoErrors
<1>. QED  BY <1>6, <1>7, <1>8, <1>9 DEF GscInv

\* A callback goes on, or ends, without touching the connections.
LEMMA CallbackOnly ==
    ASSUME GscInv, NEW c \in Callback,
           NEW pc \in {"idle", "insert", "revoke_all", "insert_error", "dead"}, CallbackGoes(c, pc),
           Pending(c) <=> pc = "dead", pc \in {"insert", "revoke_all", "insert_error"} => InCallback(c),
           UNCHANGED <<intents, connections, unusable>>, mishaps' \in 0..MaxMishaps
    PROVE  GscInv' /\ RowsStay /\ NoErrors
<1>1. /\ callbacks' \in [Callback -> CallbackRow]
      /\ callbacks'[c].pc = pc
      /\ callbacks'[c].nonce = callbacks[c].nonce /\ callbacks'[c].mine = callbacks[c].mine
      /\ \A b \in Callback \ {c} : callbacks'[b] = callbacks[b]
    BY CallbackMoves
<1>2. GscTypeOK'  BY <1>1 DEF GscInv, GscTypeOK, CallbackRow
<1>3. \A b \in Callback : /\ Pending(b)' <=> Pending(b)
                          /\ InCallback(b)' => InCallback(b)
                          /\ callbacks'[b].nonce = callbacks[b].nonce
                          /\ callbacks'[b].mine = callbacks[b].mine
    BY <1>1 DEF Pending, InCallback
<1>4. TokenInv'
    <2>1. \A j : Settled(j)' => Settled(j)  BY <1>3 DEF Settled, Pending
    <2>. QED  BY <2>1 DEF GscInv, TokenInv
<1>5. NonceInv'  BY <1>3 DEF GscInv, NonceInv
<1>6. RowsStay /\ NoErrors  BY DEF RowsStay, NoErrors
<1>. QED  BY <1>2, <1>4, <1>5, <1>6 DEF GscInv

LEMMA CallbackDiesStep ==
    ASSUME GscInv, NEW c \in Callback, CallbackDies(c)
    PROVE  GscInv' /\ RowsStay /\ NoErrors
<1>1. mishaps' \in 0..MaxMishaps  BY GoingWrong DEF CallbackDies, GscInv, GscTypeOK
<1>2. CASE callbacks[c].pc = "revoke_others"
    BY <1>1, <1>2, CallbackOnly DEF CallbackDies, AtCallback, Pending
<1>3. CASE callbacks[c].pc # "revoke_others"
    BY <1>1, <1>3, CallbackOnly DEF CallbackDies, AtCallback, Pending
<1>. QED  BY <1>2, <1>3

LEMMA ExchangeStep ==
    ASSUME GscInv, NEW c \in Callback, Exchange(c)
    PROVE  GscInv' /\ RowsStay /\ NoErrors
<1>1. mishaps' \in 0..MaxMishaps  BY DEF Exchange, GscInv, GscTypeOK
<1>. QED  BY <1>1, CallbackOnly DEF Exchange, AtCallback, Pending, InCallback

\* A callback inserts a connection of its nonce, and is through with the nonce.
LEMMA Inserting ==
    ASSUME GscInv, NEW c \in Callback, InCallback(c), NEW row \in Connection,
           row.nonce = callbacks[c].nonce, row.status = "connected" => row.token,
           connections' = Append(connections, row),
           callbacks' \in [Callback -> CallbackRow],
           \A b \in Callback \ {c} : callbacks'[b] = callbacks[b],
           ~InCallback(c)', row.property => Pending(c)' /\ callbacks'[c].mine = Len(connections) + 1,
           UNCHANGED <<intents, unusable, mishaps>>
    PROVE  GscInv' /\ RowsStay /\ NoErrors
<1>. DEFINE n == Len(connections) + 1
<1>1. /\ connections' \in Seq(Connection) /\ n \in Nat
      /\ DOMAIN connections = 1..n - 1 /\ DOMAIN connections' = 1..n
      /\ connections'[n] = row
      /\ \A i \in DOMAIN connections : connections'[i] = connections[i]
    BY ConnectionRows
<1>2. GscTypeOK'  BY <1>1 DEF GscInv, GscTypeOK, CallbackRow
<1>3. TokenInv'
    <2>1. \A i \in DOMAIN connections' : connections'[i].status = "connected" => connections'[i].token
        BY <1>1 DEF GscInv, TokenInv
    <2>2. ~Pending(c)  BY DEF Pending, InCallback
    <2>3. ASSUME NEW i \in DOMAIN connections', NEW j \in DOMAIN connections',
                 i < j, connections'[j].property, Settled(j)'
          PROVE  ~connections'[i].token
        <3>1. j # n  BY <1>1, <2>3 DEF Settled, Pending
        <3>2. i \in DOMAIN connections /\ j \in DOMAIN connections  BY <1>1, <2>3, <3>1
        <3>3. Settled(j)
            <4>. SUFFICES ASSUME NEW b \in Callback, Pending(b), callbacks[b].mine = j
                          PROVE  FALSE
                BY DEF Settled, Pending
            <4>1. callbacks'[b] = callbacks[b]  BY <2>2
            <4>. QED  BY <2>3, <4>1 DEF Settled, Pending
        <3>. QED  BY <1>1, <2>3, <3>2, <3>3 DEF GscInv, TokenInv
    <2>. QED  BY <2>1, <2>3 DEF TokenInv
<1>4. NonceInv'
    <2>1. /\ callbacks[c].nonce \in Nonce /\ intents[callbacks[c].nonce] = "gone"
          /\ \A i \in DOMAIN connections : connections[i].nonce # callbacks[c].nonce
          /\ \A b \in Callback : InCallback(b) /\ callbacks[b].nonce = callbacks[c].nonce => b = c
        BY DEF GscInv, NonceInv
    <2>2. \A b \in Callback : InCallback(b)' => b # c /\ InCallback(b)
        BY DEF InCallback
    <2>3. \A i \in DOMAIN connections' : i = n \/ i \in DOMAIN connections  BY <1>1
    <2>4. \A i \in DOMAIN connections' : intents'[connections'[i].nonce] = "gone"
        BY <1>1, <2>1, <2>3 DEF GscInv, NonceInv
    <2>5. \A i, j \in DOMAIN connections' : connections'[i].nonce = connections'[j].nonce => i = j
        BY <1>1, <2>1, <2>3 DEF GscInv, NonceInv
    <2>6. ASSUME NEW b \in Callback, InCallback(b)'
          PROVE  /\ callbacks'[b].nonce \in Nonce /\ intents'[callbacks'[b].nonce] = "gone"
                 /\ \A i \in DOMAIN connections' : connections'[i].nonce # callbacks'[b].nonce
                 /\ \A e \in Callback : InCallback(e)' /\ callbacks'[e].nonce = callbacks'[b].nonce => e = b
        <3>1. b # c /\ InCallback(b) /\ callbacks'[b] = callbacks[b]  BY <2>2, <2>6
        <3>2. callbacks[b].nonce # callbacks[c].nonce  BY <2>1, <3>1
        <3>. QED  BY <1>1, <2>2, <2>3, <3>1, <3>2 DEF GscInv, NonceInv
    <2>. QED  BY <2>4, <2>5, <2>6 DEF NonceInv
<1>5. RowsStay /\ NoErrors  BY <1>1 DEF RowsStay, NoErrors
<1>. QED  BY <1>2, <1>3, <1>4, <1>5 DEF GscInv

LEMMA InsertConnectionStep ==
    ASSUME GscInv, NEW c \in Callback, InsertConnection(c)
    PROVE  GscInv' /\ RowsStay /\ NoErrors
<1>. DEFINE v == [callbacks[c] EXCEPT !.pc = "revoke_others", !.mine = Latest + 1]
            row == [nonce |-> callbacks[c].nonce, property |-> TRUE, status |-> "connected",
                    token |-> TRUE]
<1>1. callbacks[c].pc = "insert" /\ InCallback(c)
    BY DEF InsertConnection, AtCallback, InCallback
<1>2. callbacks[c] \in CallbackRow /\ callbacks[c].nonce \in Nonce /\ Latest + 1 \in Nat
    BY <1>1, ConnectionRows DEF GscInv, NonceInv, Latest
<1>3. v \in CallbackRow /\ v.pc = "revoke_others" /\ v.mine = Len(connections) + 1
    <2>1. \A m \in Nat : [callbacks[c] EXCEPT !.pc = "revoke_others", !.mine = m] \in CallbackRow
        BY <1>2 DEF CallbackRow
    <2>. QED  BY <1>2, <2>1 DEF CallbackRow, Latest
<1>4. callbacks' = [callbacks EXCEPT ![c] = v] /\ callbacks \in [Callback -> CallbackRow]
    BY <1>2 DEF InsertConnection, GscInv, GscTypeOK, CallbackRow
<1>. HIDE DEF v
<1>5. /\ callbacks'[c] = v /\ \A b \in Callback \ {c} : callbacks'[b] = callbacks[b]
      /\ callbacks' \in [Callback -> CallbackRow]
    BY <1>3, <1>4
<1>6. row \in Connection /\ row.nonce = callbacks[c].nonce /\ row.token  BY <1>2 DEF Connection
<1>7. connections' = Append(connections, row) /\ UNCHANGED <<intents, unusable, mishaps>>
    BY DEF InsertConnection
<1>8. ~InCallback(c)' /\ Pending(c)'  BY <1>3, <1>5 DEF InCallback, Pending
<1>. HIDE DEF row
<1>. QED  BY <1>1, <1>3, <1>5, <1>6, <1>7, <1>8, Inserting

LEMMA InsertErrorStep ==
    ASSUME GscInv, NEW c \in Callback, InsertError(c)
    PROVE  GscInv' /\ RowsStay /\ NoErrors
<1>. DEFINE row == [nonce |-> callbacks[c].nonce, property |-> FALSE, status |-> "error",
                    token |-> FALSE]
<1>1. InCallback(c) /\ callbacks[c].nonce \in Nonce
    BY DEF InsertError, AtCallback, InCallback, GscInv, NonceInv
<1>2. /\ callbacks' \in [Callback -> CallbackRow] /\ callbacks'[c].pc = "idle"
      /\ \A b \in Callback \ {c} : callbacks'[b] = callbacks[b]
    BY CallbackMoves DEF InsertError
<1>3. row \in Connection /\ row.nonce = callbacks[c].nonce /\ ~row.property /\ row.status # "connected"
    BY <1>1 DEF Connection
<1>4. connections' = Append(connections, row) /\ UNCHANGED <<intents, unusable, mishaps>>
    BY DEF InsertError
<1>5. ~InCallback(c)'  BY <1>2 DEF InCallback
<1>. HIDE DEF row
<1>. QED  BY <1>1, <1>2, <1>3, <1>4, <1>5, Inserting

\* The connections but one that may stay, mine, are revoked.
LEMMA Revoking ==
    ASSUME GscInv, NEW c \in Callback, NEW pc \in {"idle", "insert_error"}, CallbackGoes(c, pc),
           NEW mine, pc = "insert_error" => InCallback(c), Pending(c) => mine = callbacks[c].mine,
           connections' = [i \in DOMAIN connections |->
                IF i = mine THEN connections[i] ELSE Revoked(connections[i])],
           UNCHANGED <<intents, unusable, mishaps>>
    PROVE  GscInv' /\ RowsStay /\ NoErrors
<1>1. /\ callbacks' \in [Callback -> CallbackRow]
      /\ callbacks'[c].pc = pc
      /\ callbacks'[c].nonce = callbacks[c].nonce /\ callbacks'[c].mine = callbacks[c].mine
      /\ \A b \in Callback \ {c} : callbacks'[b] = callbacks[b]
    BY CallbackMoves
<1>2. \A i \in DOMAIN connections :
        /\ Revoked(connections[i]) \in Connection
        /\ Revoked(connections[i]).nonce = connections[i].nonce
        /\ Revoked(connections[i]).property = connections[i].property
        /\ Revoked(connections[i]).status = "revoked" /\ ~Revoked(connections[i]).token
    BY ConnectionRows DEF Connection, Revoked
<1>3. /\ DOMAIN connections' = DOMAIN connections
      /\ \A i \in DOMAIN connections :
            /\ connections'[i] \in Connection /\ connections'[i].nonce = connections[i].nonce
            /\ connections'[i].property = connections[i].property
            /\ i # mine => connections'[i].status = "revoked" /\ ~connections'[i].token
      /\ mine \in DOMAIN connections => connections'[mine] = connections[mine]
    BY <1>2, ConnectionRows
<1>4. connections' \in Seq(Connection)
    <2>1. connections' \in [1..Len(connections) -> Connection]
        BY <1>3, ConnectionRows
    <2>. QED  BY <2>1, ConnectionRows
<1>5. GscTypeOK'  BY <1>1, <1>4 DEF GscInv, GscTypeOK, CallbackRow
<1>6. TokenInv'
    <2>1. \A i \in DOMAIN connections' : connections'[i].status = "connected" => connections'[i].token
        BY <1>3 DEF GscInv, TokenInv
    <2>2. ASSUME NEW i \in DOMAIN connections, NEW j \in DOMAIN connections,
                 i < j, connections[j].property, Settled(j)'
          PROVE  ~connections'[i].token
        <3>1. CASE Pending(c) /\ callbacks[c].mine = j
            <4>1. i # j  BY <2>2, ConnectionRows
            <4>. QED  BY <1>3, <3>1, <4>1
        <3>2. CASE ~(Pending(c) /\ callbacks[c].mine = j)
            <4>1. Settled(j)  BY <1>1, <2>2, <3>2 DEF Settled, Pending
            <4>2. ~connections[i].token  BY <2>2, <4>1 DEF GscInv, TokenInv
            <4>. QED  BY <1>3, <4>2
        <3>. QED  BY <3>1, <3>2
    <2>. QED  BY <1>3, <2>1, <2>2 DEF TokenInv
<1>7. NonceInv'
    <2>1. \A b \in Callback : InCallback(b)' => InCallback(b) /\ callbacks'[b].nonce = callbacks[b].nonce
        BY <1>1 DEF InCallback
    <2>. QED  BY <1>3, <2>1 DEF GscInv, NonceInv
<1>8. RowsStay /\ NoErrors  BY <1>3 DEF RowsStay, NoErrors
<1>. QED  BY <1>5, <1>6, <1>7, <1>8 DEF GscInv

LEMMA RevokeSteps ==
    ASSUME GscInv, NEW c \in Callback, RevokeOthers(c) \/ RevokeAll(c)
    PROVE  GscInv' /\ RowsStay /\ NoErrors
<1>1. CASE RevokeOthers(c)
    BY <1>1, Revoking DEF RevokeOthers
<1>2. CASE RevokeAll(c)
    <2>1. 0 \notin DOMAIN connections  BY ConnectionRows
    <2>2. connections' = [i \in DOMAIN connections |->
                IF i = 0 THEN connections[i] ELSE Revoked(connections[i])]
        BY <1>2, <2>1 DEF RevokeAll
    <2>3. /\ InCallback(c) /\ ~Pending(c) /\ CallbackGoes(c, "insert_error")
          /\ UNCHANGED <<intents, unusable, mishaps>>
        BY <1>2 DEF RevokeAll, AtCallback, InCallback, Pending
    <2>. QED  BY <2>2, <2>3, Revoking
<1>. QED  BY <1>1, <1>2

LEMMA OAuthKeeps == ASSUME GscInv, OAuthStep PROVE GscInv' /\ RowsStay /\ NoErrors
<1>1. CASE \E n \in Nonce : CreateIntent(n) \/ IntentExpires(n)
    BY <1>1, IntentStep
<1>2. ASSUME NEW c \in Callback,
             \/ \E n \in Nonce : Consume(c, n)
             \/ Exchange(c) \/ InsertConnection(c) \/ RevokeOthers(c)
             \/ RevokeAll(c) \/ InsertError(c) \/ CallbackDies(c)
      PROVE  GscInv' /\ RowsStay /\ NoErrors
    BY <1>2, ConsumeStep, ExchangeStep, InsertConnectionStep, RevokeSteps, InsertErrorStep,
       CallbackDiesStep
<1>. QED  BY <1>1, <1>2 DEF OAuthStep

\* A sync takes a connection away (Disconnect).
LEMMA ErrorWritten ==
    ASSUME GscInv, NEW i \in DOMAIN connections,
           connections' = [connections EXCEPT ![i].status = "error"],
           UNCHANGED <<intents, callbacks, unusable, mishaps>>
    PROVE  /\ GscInv' /\ RowsStay
           /\ \A j \in DOMAIN connections : j # i => connections'[j] = connections[j]
<1>. DEFINE row == [connections[i] EXCEPT !.status = "error"]
<1>1. connections[i] \in Connection /\ connections \in [1..Len(connections) -> Connection]
      /\ Len(connections) \in Nat /\ i \in 1..Len(connections)
    BY ConnectionRows
<1>2. /\ row \in Connection /\ row.status = "error" /\ row.nonce = connections[i].nonce
      /\ row.token = connections[i].token /\ row.property = connections[i].property
    BY <1>1 DEF Connection
<1>3. connections' = [connections EXCEPT ![i] = row]  OBVIOUS
<1>. HIDE DEF row
<1>4. /\ DOMAIN connections' = DOMAIN connections
      /\ connections'[i] = row /\ \A j \in DOMAIN connections : j # i => connections'[j] = connections[j]
      /\ connections' \in [1..Len(connections) -> Connection]
    BY <1>1, <1>2, <1>3
<1>5. connections' \in Seq(Connection)  BY <1>1, <1>4
<1>6. GscTypeOK'  BY <1>5 DEF GscInv, GscTypeOK
<1>7. TokenInv'
    BY <1>2, <1>4 DEF GscInv, TokenInv, Settled, Pending
<1>8. \A j \in DOMAIN connections : connections'[j].nonce = connections[j].nonce  BY <1>2, <1>4
<1>9. NonceInv'  BY <1>4, <1>8 DEF GscInv, NonceInv, InCallback
<1>10. RowsStay  BY <1>2, <1>4, <1>8 DEF RowsStay
<1>. QED  BY <1>4, <1>6, <1>7, <1>9, <1>10 DEF GscInv

LEMMA GscGrants == ASSUME GscInv PROVE LastGrant
BY DEF GscInv, TokenInv, NonceInv, LastGrant

----------------------------------------------------------------------------
(* What an attempt knows of its run *)

CrawlPcs == {"crawl_mark", "crawl", "crawl_persist", "crawl_failed"}
SerpPcs == {"search", "serp_persist", "serp_failed"}
ScoutPcs == {"scout_mark", "gather", "reason", "scout_persist", "scout_failed"}
SyncPcs == {"sync_mark", "query", "sync_rows", "sync_count", "sync_touch", "sync_failed",
            "disconnect"}

\* The variables v of an attempt fit the row of its run, unless another attempt overlapped,
\* or, for a crawl, an error told the caller otherwise.
Fits(v, row, overlapped, told) ==
    /\ v.pc \in CrawlPcs => v.run \in Crawl /\ (overlapped \/ told \/ row.status \notin Done)
    /\ v.pc \in SerpPcs => v.run \in Serp /\ (overlapped \/ row.status \notin Done)
    /\ v.pc \in ScoutPcs => v.run \in Scout
    /\ v.pc = "scout_persist" => v.answer = 0 \/ v.answer \in Key \ v.seen
    /\ v.pc \in SyncPcs => v.run \in Sync
    /\ v.pc \in {"query", "sync_rows"} => overlapped \/ row.status # "completed"
    /\ v.pc \in {"sync_rows", "sync_count"} => v.answer \in Answer
    /\ v.pc = "sync_count" => overlapped \/ row.rows = {v.answer}

AttemptInv == \A a \in Attempt :
    /\ attempts[a].pc = "idle" => attempts[a].run = None
    /\ attempts[a].pc # "idle" =>
        /\ attempts[a].run \in Run
        /\ Fits(attempts[a], runs[attempts[a].run],
                attempts[a].run \in split, attempts[a].run \in misled)

\* The holder of a job knows whether its attempt is the last; and who works on a run that
\* was never handed out to two is the holder of its job.
JobInv == \A a \in Attempt, r \in Run : attempts[a].run = r =>
    /\ jobs[r].holder = a =>
            jobs[r].state = "active" /\ attempts[a].final = FinalAttempt(jobs[r])
    /\ r \notin split => jobs[r].state = "active" /\ jobs[r].holder = a

NotStarted(r) ==
    /\ jobs[r].state = "none" /\ \A a \in Attempt : attempts[a].run # r
    /\ runs[r].status \notin Done

UnderWay(r) ==
    requests[r] \in {"adding", "refused"} \/ jobs[r].state # "none"
        \/ \E a \in Attempt : attempts[a].run = r

\* A run whose job was not added has no result, nor one whose add was refused, unless the
\* queue had taken the job.
RequestInv == \A r \in Run :
    /\ requests[r] = "none" => runs[r].status = "absent"
    /\ requests[r] \in {"none", "adding"} => NotStarted(r)
    /\ requests[r] = "refused" => r \in misled \/ NotStarted(r)
    /\ r \in Sync /\ UnderWay(r) => runs[r].connection \in DOMAIN connections

\* Whoever is to take a connection away is to do so for a reason.
Warrants(connection, grants, v) ==
    v.pc = "disconnect" \/ (v.pc = "sync_failed" /\ v.reconnect)
        => connection.status # "connected" \/ connection.nonce \in grants
HasReason(v, row) == Warrants(connections[row.connection], unusable, v)

SyncInv ==
    /\ \A r \in Sync \ split : RowsAreCounted(r)
    /\ \A a \in Attempt : attempts[a].pc # "idle" => HasReason(attempts[a], runs[attempts[a].run])

\* What is new was there when the evidence was gathered.
Sees(v) == \A i \in DOMAIN opportunities :
    opportunities[i].status = "new" => opportunities[i].key \in v.seen

\* One scout is active, and as long as its run is and no attempts overlap, nothing is
\* proposed behind its back.
ScoutInv ==
    /\ \A r, q \in ActiveScouts : r = q
    /\ \A a \in Attempt : attempts[a].pc \in {"reason", "scout_persist"} /\ Status(a) = "running" =>
        split # {} \/ Sees(attempts[a])
    /\ BriefsAreNew

IInv == WorkTypeOK /\ GscInv /\ AttemptInv /\ JobInv /\ RequestInv /\ SyncInv /\ ScoutInv

ErrorsHaveReason == \A i \in DOMAIN connections :
    connections[i].status = "connected" /\ connections'[i].status = "error"
        => connections[i].nonce \in unusable

\* What every step keeps
Onward ==
    /\ \A r \in Crawl \cup Serp : KeepsResult(r)
    /\ \A r \in Scout : runs[r].status \in Done => runs'[r].status \in Done
    /\ ErrorsHaveReason

StepKeeps == IInv' /\ Onward

LEMMA Kinds ==
    /\ Crawl \subseteq Run /\ Serp \subseteq Run /\ Scout \subseteq Run /\ Sync \subseteq Run
    /\ Run = Crawl \cup Serp \cup Scout \cup Sync
    /\ Crawl \cap Serp = {} /\ Crawl \cap Scout = {} /\ Crawl \cap Sync = {}
    /\ Serp \cap Scout = {} /\ Serp \cap Sync = {} /\ Scout \cap Sync = {}
    /\ None \notin Run /\ None \notin Attempt
    /\ MaxAttempts \in Nat \ {0} /\ MaxStalls \in Nat
BY EvidenceConstants, AttemptConstants DEF Run

LEMMA Empties ==
    /\ NoJob \in Jobs(Attempt) /\ NoJob.state = "none" /\ NoJob.holder = None
    /\ NoAttempt \in AttemptRow /\ NoAttempt.pc = "idle" /\ NoAttempt.run = None
    /\ NoRun \in RunRow /\ NoRun.status = "absent" /\ NoRun.connection = 0
<1>1. NoJob \in Jobs(Attempt) /\ NoJob.state = "none" /\ NoJob.holder = None
    BY Kinds DEF NoJob, Jobs
<1>2. NoAttempt \in AttemptRow /\ NoAttempt.pc = "idle" /\ NoAttempt.run = None
    BY Kinds DEF NoAttempt, AttemptRow
<1>3. NoRun \in RunRow /\ NoRun.status = "absent" /\ NoRun.connection = 0
    BY DEF NoRun, RunRow, Active, Done
<1>. QED  BY <1>1, <1>2, <1>3

LEMMA Begins == ASSUME Init PROVE IInv
<1>. USE DEF Init, LedgerInit, WorkInit
<1>1. GscInv  BY GscBegins
<1>2. LedgerTypeOK  BY <1>1, Empties DEF LedgerTypeOK, GscInv
<1>3. WorkTypeOK  BY <1>2, Empties DEF WorkTypeOK
<1>4. AttemptInv /\ JobInv  BY Empties, Kinds DEF AttemptInv, JobInv
<1>5. RequestInv  BY Empties, Kinds DEF RequestInv, NotStarted, UnderWay, Done
<1>6. SyncInv  BY Empties, Kinds DEF SyncInv, RowsAreCounted
<1>7. ScoutInv  BY Empties, Kinds DEF ScoutInv, ActiveScouts, BriefsAreNew, Active
<1>. QED  BY <1>1, <1>3, <1>4, <1>5, <1>6, <1>7 DEF IInv

LEMMA Opportunities ==
    ASSUME LedgerTypeOK
    PROVE  /\ Len(opportunities) \in Nat /\ DOMAIN opportunities = 1..Len(opportunities)
           /\ \A i \in DOMAIN opportunities :
                opportunities[i] \in [run : Scout, key : Key, status : {"new", "rejected", "reopened"}]
           /\ \A i \in DOMAIN opportunities :
                opportunities[i].run \in Scout /\ opportunities[i].key \in Key
<1>. DEFINE S == [run : Scout, key : Key, status : {"new", "rejected", "reopened"}]
<1>1. opportunities \in Seq(S)  BY DEF LedgerTypeOK
<1>2. \A o \in S : o.run \in Scout /\ o.key \in Key  OBVIOUS
<1>. HIDE DEF S
<1>3. /\ Len(opportunities) \in Nat /\ DOMAIN opportunities = 1..Len(opportunities)
      /\ \A i \in DOMAIN opportunities : opportunities[i] \in S
    BY <1>1
<1>. QED  BY <1>2, <1>3 DEF S

LEMMA JobsOf ==
    ASSUME NEW job \in Jobs(Attempt)
    PROVE  /\ Enqueued(job) \in Jobs(Attempt) /\ Enqueued(job).state # "none"
           /\ Enqueued(job).holder = job.holder /\ Enqueued(job).made = job.made
           /\ job.state # "none" => Enqueued(job) = job
           /\ \A a \in Attempt : /\ Taken(job, a) \in Jobs(Attempt)
                                 /\ Taken(job, a).state = "active" /\ Taken(job, a).holder = a
                                 /\ Taken(job, a).made = job.made
           /\ AfterStall(job) \in Jobs(Attempt) /\ AfterStall(job).holder = None
           /\ \A again \in BOOLEAN : (again => ~FinalAttempt(job)) =>
                /\ Ended(job, again) \in Jobs(Attempt) /\ Ended(job, again).holder = None
<1>1. /\ job.made \in 0..MaxAttempts /\ job.stalls \in 0..MaxStalls
      /\ MaxAttempts \in Nat /\ MaxStalls \in Nat
    BY Kinds DEF Jobs
<1>2. /\ Enqueued(job) \in Jobs(Attempt) /\ Enqueued(job).state # "none"
      /\ Enqueued(job).holder = job.holder /\ Enqueued(job).made = job.made
      /\ job.state # "none" => Enqueued(job) = job
    BY DEF Jobs, Enqueued
<1>3. \A a \in Attempt : /\ Taken(job, a) \in Jobs(Attempt)
                         /\ Taken(job, a).state = "active" /\ Taken(job, a).holder = a
                         /\ Taken(job, a).made = job.made
    BY DEF Jobs, Taken
<1>4. AfterStall(job) \in Jobs(Attempt) /\ AfterStall(job).holder = None
    <2>1. CASE job.stalls >= MaxStalls  BY <2>1, Empties DEF AfterStall
    <2>2. CASE ~(job.stalls >= MaxStalls)
        <3>1. job.stalls + 1 \in 0..MaxStalls  BY <1>1, <2>2
        <3>2. AfterStall(job) = [job EXCEPT !.state = "waiting", !.stalls = job.stalls + 1,
                                            !.holder = None]
            BY <2>2 DEF AfterStall, Jobs
        <3>3. \A n \in 0..MaxStalls :
                [job EXCEPT !.state = "waiting", !.stalls = n, !.holder = None] \in Jobs(Attempt)
            BY DEF Jobs
        <3>4. AfterStall(job).holder = None  BY <3>2 DEF Jobs
        <3>. QED  BY <3>1, <3>2, <3>3, <3>4
    <2>. QED  BY <2>1, <2>2
<1>5. ASSUME NEW again \in BOOLEAN, again => ~FinalAttempt(job)
      PROVE  Ended(job, again) \in Jobs(Attempt) /\ Ended(job, again).holder = None
    <2>1. CASE ~again  BY <2>1, Empties DEF Ended
    <2>2. CASE again
        <3>1. job.made + 1 \in 0..MaxAttempts  BY <1>1, <1>5, <2>2 DEF FinalAttempt
        <3>2. Ended(job, again) = [job EXCEPT !.state = "waiting", !.made = job.made + 1,
                                              !.holder = None]
            BY <2>2 DEF Ended, Jobs
        <3>3. \A n \in 0..MaxAttempts :
                [job EXCEPT !.state = "waiting", !.made = n, !.holder = None] \in Jobs(Attempt)
            BY DEF Jobs
        <3>4. Ended(job, again).holder = None  BY <3>2 DEF Jobs
        <3>. QED  BY <3>1, <3>2, <3>3, <3>4
    <2>. QED  BY <2>1, <2>2
<1>. QED  BY <1>2, <1>3, <1>4, <1>5

LEMMA AttemptOf ==
    ASSUME IInv, NEW a \in Attempt, attempts[a].pc # "idle"
    PROVE  /\ attempts[a] \in AttemptRow
           /\ attempts[a].run \in Run /\ runs[attempts[a].run] \in RunRow
           /\ Fits(attempts[a], runs[attempts[a].run],
                   attempts[a].run \in split, attempts[a].run \in misled)
           /\ HasReason(attempts[a], runs[attempts[a].run])
           /\ attempts[a].run \in Sync => runs[attempts[a].run].connection \in DOMAIN connections
           /\ requests[attempts[a].run] \notin {"none", "adding"}
<1>1. attempts[a].run \in Run
    BY DEF IInv, AttemptInv
<1>2. UnderWay(attempts[a].run) /\ ~NotStarted(attempts[a].run)  BY DEF UnderWay, NotStarted
<1>. QED  BY <1>1, <1>2 DEF IInv, WorkTypeOK, LedgerTypeOK, AttemptInv, SyncInv, RequestInv

----------------------------------------------------------------------------
(* The steps of an attempt *)

\* Attempt a stores the brief of its run, and its success.
Proposes(a, r, row) ==
    /\ r \in Scout /\ r = attempts[a].run /\ attempts[a].pc = "scout_persist"
    /\ runs[r].status = "running" /\ row.status = "succeeded"
    /\ opportunities' = Inserted(a)

LEMMA Proposing ==
    ASSUME IInv, NEW a \in Attempt, NEW r, NEW row \in RunRow, Proposes(a, r, row)
    PROVE  /\ opportunities' \in Seq([run : Scout, key : Key, status : {"new", "rejected", "reopened"}])
           /\ /\ runs'[r] = row /\ \A q \in Run \ {r} : runs'[q] = runs[q]
              /\ UNCHANGED split
              => BriefsAreNew' /\ \A q \in Scout : runs'[q].status # "running"
<1>. DEFINE S == [run : Scout, key : Key, status : {"new", "rejected", "reopened"}]
            brief == [run |-> r, key |-> attempts[a].answer, status |-> "new"]
            n == Len(opportunities) + 1
<1>1. /\ r \in Scout /\ runs[r].status = "running" /\ row.status = "succeeded"
      /\ attempts[a].pc # "idle" /\ r = attempts[a].run
      /\ opportunities' = IF attempts[a].answer = 0 THEN opportunities
                          ELSE Append(opportunities, brief)
    BY DEF Proposes, Inserted, RunOf
<1>2. attempts[a].answer = 0 \/ attempts[a].answer \in Key \ attempts[a].seen
    BY AttemptOf, <1>1 DEF Fits, Proposes
<1>3. /\ attempts[a].answer # 0 =>
            brief \in S /\ brief.run = r /\ brief.status = "new" /\ brief.key \in Key \ attempts[a].seen
      /\ opportunities \in Seq(S)
    BY <1>1, <1>2 DEF IInv, WorkTypeOK, LedgerTypeOK
<1>4. /\ n \in Nat /\ DOMAIN opportunities = 1..n - 1
      /\ \A i \in DOMAIN opportunities : opportunities[i].run \in Scout
    BY Opportunities DEF IInv, WorkTypeOK
<1>. HIDE DEF S, brief
<1>5. opportunities' \in Seq(S)  BY <1>1, <1>3
<1>6. ASSUME runs'[r] = row, \A q \in Run \ {r} : runs'[q] = runs[q], UNCHANGED split
      PROVE  BriefsAreNew' /\ \A q \in Scout : runs'[q].status # "running"
    <2>1. \A q \in Scout : q # r => runs'[q] = runs[q]  BY <1>6, Kinds
    <2>2. \A q \in Scout : runs'[q].status # "running"
        BY <1>1, <1>6, <2>1 DEF IInv, ScoutInv, ActiveScouts, Active
    <2>3. \A i \in DOMAIN opportunities :
            /\ runs[opportunities[i].run].status \in Done /\ opportunities[i].run # r
            /\ runs'[opportunities[i].run].status \in Done
        BY <1>1, <1>4, <2>1 DEF IInv, ScoutInv, BriefsAreNew, Done
    <2>4. CASE attempts[a].answer = 0
        BY <1>1, <1>6, <2>2, <2>3, <2>4 DEF IInv, ScoutInv, BriefsAreNew
    <2>5. CASE attempts[a].answer # 0
        <3>1. /\ DOMAIN opportunities' = 1..n /\ opportunities'[n] = brief
              /\ \A i \in DOMAIN opportunities : opportunities'[i] = opportunities[i] /\ i # n
              /\ \A i \in DOMAIN opportunities' : i = n \/ i \in DOMAIN opportunities
            BY <1>1, <1>3, <1>4, <2>5
        <3>2. brief.run = r /\ brief.status = "new" /\ brief.key \notin attempts[a].seen
            BY <1>3, <2>5
        <3>3. \A i \in DOMAIN opportunities : opportunities[i].status = "new" =>
                split # {} \/ opportunities[i].key # brief.key
            BY <1>1, <3>2 DEF Proposes, IInv, ScoutInv, Sees, Status, RunOf
        <3>4. runs'[r].status \in Done  BY <1>1, <1>6 DEF Done
        <3>5. ASSUME NEW i \in DOMAIN opportunities'
              PROVE  runs'[opportunities'[i].run].status \in Done
            BY <2>3, <3>1, <3>2, <3>4
        <3>6. ASSUME NEW i \in DOMAIN opportunities', NEW j \in DOMAIN opportunities' \ {i}
              PROVE  /\ opportunities'[i].run # opportunities'[j].run
                     /\ \/ opportunities'[i].key # opportunities'[j].key
                        \/ opportunities'[i].status # "new" \/ opportunities'[j].status # "new"
                        \/ split # {}
            <4>1. CASE i = n
                <5>1. j \in DOMAIN opportunities  BY <3>1, <4>1
                <5>. QED  BY <2>3, <3>1, <3>2, <3>3, <4>1, <5>1
            <4>2. CASE j = n
                <5>1. i \in DOMAIN opportunities  BY <3>1, <4>2
                <5>. QED  BY <2>3, <3>1, <3>2, <3>3, <4>2, <5>1
            <4>3. CASE i # n /\ j # n
                <5>1. i \in DOMAIN opportunities /\ j \in DOMAIN opportunities \ {i}
                    BY <3>1, <4>3
                <5>. QED  BY <3>1, <5>1 DEF IInv, ScoutInv, BriefsAreNew
            <4>. QED  BY <4>1, <4>2, <4>3
        <3>. QED  BY <1>6, <2>2, <3>5, <3>6 DEF BriefsAreNew
    <2>. QED  BY <2>2, <2>4, <2>5
<1>. QED  BY <1>5, <1>6 DEF S

\* Attempt a goes on to v and leaves its run's row as row; what it finds out is no more than
\* what the rows let it know.
LEMMA Steps ==
    ASSUME IInv, NEW a \in Attempt, attempts[a].pc # "idle",
           NEW r, r = attempts[a].run, NEW v \in AttemptRow, NEW row \in RunRow,
           attempts' = [attempts EXCEPT ![a] = v], runs' = [runs EXCEPT ![r] = row],
           v.pc # "idle", v.run = r, v.final = attempts[a].final,
           misled \subseteq misled', misled' \subseteq Run,
           Fits(v, row, r \in split, r \in misled'),
           row.connection = runs[r].connection, Warrants(connections[row.connection], unusable', v),
           r \in Sync \ split => (row.status = "completed" => row.rows = {row.count}),
           r \in Crawl \cup Serp =>
                (runs[r].status \in Done /\ row.status \notin Done => r \in split \cup misled'),
           r \in Scout =>
                /\ row.status \in Active => runs[r].status \in Active \/ ActiveScouts \subseteq {r}
                /\ runs[r].status \in Done => row.status \in Done
                /\ v.pc \in {"reason", "scout_persist"} /\ row.status = "running" =>
                        split # {} \/ Sees(v),
           UNCHANGED opportunities \/ Proposes(a, r, row),
           UNCHANGED <<jobs, requests, split>>,
           GscInv', RowsStay, ErrorsHaveReason
    PROVE  StepKeeps
<1>1. /\ attempts[a] \in AttemptRow /\ r \in Run /\ runs[r] \in RunRow
      /\ requests[r] \notin {"none", "adding"}
      /\ r \in Sync => runs[r].connection \in DOMAIN connections
    BY AttemptOf
<1>2. /\ attempts' \in [Attempt -> AttemptRow]
      /\ attempts'[a] = v /\ \A b \in Attempt \ {a} : attempts'[b] = attempts[b]
      /\ runs' \in [Run -> RunRow]
      /\ runs'[r] = row /\ \A q \in Run \ {r} : runs'[q] = runs[q]
    BY <1>1 DEF IInv, WorkTypeOK, LedgerTypeOK
<1>3. GscInv'  OBVIOUS
<1>4. WorkTypeOK'
    <2>1. opportunities' \in Seq([run : Scout, key : Key, status : {"new", "rejected", "reopened"}])
        BY Proposing DEF IInv, WorkTypeOK, LedgerTypeOK
    <2>. QED  BY <1>2, <1>3, <2>1 DEF IInv, WorkTypeOK, LedgerTypeOK, GscInv
<1>5. \A b \in Attempt \ {a} : attempts[b].pc # "idle" /\ attempts[b].run = r => r \in split
    <2>. SUFFICES ASSUME NEW b \in Attempt \ {a}, attempts[b].run = r, r \notin split
                  PROVE  FALSE
        OBVIOUS
    <2>. QED  BY <1>1 DEF IInv, JobInv
<1>6. AttemptInv'
    <2>. SUFFICES ASSUME NEW b \in Attempt
                  PROVE  /\ attempts'[b].pc = "idle" => attempts'[b].run = None
                         /\ attempts'[b].pc # "idle" =>
                              /\ attempts'[b].run \in Run
                              /\ Fits(attempts'[b], runs'[attempts'[b].run],
                                      attempts'[b].run \in split, attempts'[b].run \in misled')
        BY DEF AttemptInv
    <2>1. CASE b = a  BY <1>1, <1>2, <2>1
    <2>2. CASE b # a
        <3>1. attempts'[b] = attempts[b]  BY <1>2, <2>2
        <3>2. CASE attempts[b].pc = "idle"  BY <3>1, <3>2 DEF IInv, AttemptInv
        <3>3. CASE attempts[b].pc # "idle"
            <4>1. /\ attempts[b].run \in Run
                  /\ Fits(attempts[b], runs[attempts[b].run],
                          attempts[b].run \in split, attempts[b].run \in misled)
                BY <3>3 DEF IInv, AttemptInv
            <4>2. Fits(attempts[b], runs'[attempts[b].run],
                       attempts[b].run \in split, attempts[b].run \in misled')
                <5>1. CASE attempts[b].run = r  BY <1>5, <2>2, <3>3, <4>1, <5>1 DEF Fits
                <5>2. CASE attempts[b].run # r  BY <1>2, <4>1, <5>2 DEF Fits
                <5>. QED  BY <5>1, <5>2
            <4>. QED  BY <3>1, <3>3, <4>1, <4>2
        <3>. QED  BY <3>2, <3>3
    <2>. QED  BY <2>1, <2>2
<1>7. JobInv'  BY <1>2 DEF IInv, JobInv
<1>8. \A q \in Run : (\E b \in Attempt : attempts'[b].run = q) <=> (\E b \in Attempt : attempts[b].run = q)
    BY <1>2
<1>9. RequestInv'
    <2>. SUFFICES ASSUME NEW q \in Run
                  PROVE  /\ requests[q] = "none" => runs'[q].status = "absent"
                         /\ requests[q] \in {"none", "adding"} => NotStarted(q)'
                         /\ requests[q] = "refused" => q \in misled' \/ NotStarted(q)'
                         /\ q \in Sync /\ UnderWay(q)' => runs'[q].connection \in DOMAIN connections'
        BY DEF RequestInv
    <2>1. CASE q = r
        <3>1. ~NotStarted(r)  BY <1>1 DEF NotStarted
        <3>. QED  BY <1>1, <1>2, <2>1, <3>1 DEF IInv, RequestInv, RowsStay
    <2>2. CASE q # r
        <3>1. NotStarted(q) => NotStarted(q)'  BY <1>2, <1>8, <2>2 DEF NotStarted
        <3>2. UnderWay(q)' => UnderWay(q)  BY <1>8 DEF UnderWay
        <3>. QED  BY <1>2, <2>2, <3>1, <3>2 DEF IInv, RequestInv, RowsStay
    <2>. QED  BY <2>1, <2>2
<1>10. SyncInv'
    <2>1. \A q \in Sync \ split : RowsAreCounted(q)'
        BY <1>2, Kinds DEF IInv, SyncInv, RowsAreCounted
    <2>2. ASSUME NEW w \in AttemptRow, NEW old \in RunRow,
                 Warrants(connections[old.connection], unusable', w),
                 w.pc \in SyncPcs => old.connection \in DOMAIN connections
          PROVE  Warrants(connections'[old.connection], unusable', w)
        BY <2>2 DEF Warrants, RowsStay, SyncPcs
    <2>3. ASSUME NEW b \in Attempt, attempts'[b].pc # "idle"
          PROVE  Warrants(connections'[runs'[attempts'[b].run].connection], unusable', attempts'[b])
        <3>1. CASE b = a
            <4>1. v.pc \in SyncPcs => row.connection \in DOMAIN connections
                BY <1>1 DEF Fits
            <4>. QED  BY <1>2, <2>2, <3>1, <4>1
        <3>2. CASE b # a
            <4>1. attempts'[b] = attempts[b] /\ attempts[b].pc # "idle"
                BY <1>2, <2>3, <3>2
            <4>2. /\ attempts[b].run \in Run /\ HasReason(attempts[b], runs[attempts[b].run])
                  /\ attempts[b] \in AttemptRow /\ runs[attempts[b].run] \in RunRow
                  /\ attempts[b].pc \in SyncPcs => runs[attempts[b].run].connection \in DOMAIN connections
                BY <4>1, AttemptOf DEF Fits
            <4>3. runs'[attempts[b].run].connection = runs[attempts[b].run].connection
                BY <1>2, <4>2
            <4>4. Warrants(connections[runs[attempts[b].run].connection], unusable', attempts[b])
                BY <4>2 DEF HasReason, Warrants, RowsStay
            <4>. QED  BY <2>2, <4>1, <4>2, <4>3, <4>4
        <3>. QED  BY <3>1, <3>2
    <2>. QED  BY <2>1, <2>3 DEF SyncInv, HasReason
<1>11. ScoutInv'
    <2>1. \A q \in Scout : q # r => runs'[q] = runs[q]  BY <1>2, Kinds
    <2>2. \A p, q \in ActiveScouts' : p = q
        BY <1>2, <2>1 DEF IInv, ScoutInv, ActiveScouts
    <2>3. CASE Proposes(a, r, row)
        <3>1. BriefsAreNew' /\ \A q \in Scout : runs'[q].status # "running"
            BY <1>2, <2>3, Proposing
        <3>2. \A b \in Attempt : attempts'[b].pc \in {"reason", "scout_persist"}
                                    => attempts'[b].run \in Scout
            BY <1>6 DEF AttemptInv, Fits, ScoutPcs
        <3>. QED  BY <2>2, <3>1, <3>2 DEF ScoutInv, Status, RunOf
    <2>4. CASE UNCHANGED opportunities
        <3>1. ASSUME NEW b \in Attempt, attempts'[b].pc \in {"reason", "scout_persist"},
                     runs'[attempts'[b].run].status = "running", split = {}
              PROVE  Sees(attempts'[b])
            <4>1. CASE b = a
                <5>1. v.run \in Scout  BY <1>2, <3>1, <4>1 DEF Fits, ScoutPcs
                <5>. QED  BY <1>2, <3>1, <4>1, <5>1
            <4>2. CASE b # a
                <5>1. attempts'[b] = attempts[b] /\ attempts[b].run # r
                    BY <1>2, <1>5, <3>1, <4>2
                <5>2. attempts[b].run \in Run  BY <3>1, <5>1 DEF IInv, AttemptInv
                <5>. QED  BY <1>2, <3>1, <5>1, <5>2 DEF IInv, ScoutInv, Status, RunOf
            <4>. QED  BY <4>1, <4>2
        <3>2. ASSUME NEW b \in Attempt, attempts'[b].pc \in {"reason", "scout_persist"},
                     Status(b)' = "running"
              PROVE  split # {} \/ Sees(attempts'[b])
            BY <3>1, <3>2 DEF Status, RunOf
        <3>3. \A i \in DOMAIN opportunities : opportunities[i].run \in Scout
            BY Opportunities DEF IInv, WorkTypeOK
        <3>4. \A q \in Scout : runs[q].status \in Done => runs'[q].status \in Done
            BY <1>2, <2>1
        <3>5. BriefsAreNew'
            BY <2>4, <3>3, <3>4 DEF IInv, ScoutInv, BriefsAreNew
        <3>6. \A b \in Attempt : attempts'[b].pc \in {"reason", "scout_persist"} /\ Status(b)' = "running"
            => split' # {} \/ \A i \in DOMAIN opportunities' :
                    opportunities'[i].status = "new" => opportunities'[i].key \in attempts'[b].seen
            BY <2>4, <3>2 DEF Sees
        <3>. QED  BY <2>2, <3>5, <3>6 DEF ScoutInv, Sees
    <2>. QED  BY <2>3, <2>4
<1>12. Onward
    <2>1. \A q \in Crawl \cup Serp : KeepsResult(q)
        BY <1>2, Kinds DEF KeepsResult
    <2>2. \A q \in Scout : runs[q].status \in Done => runs'[q].status \in Done
        BY <1>2, Kinds
    <2>. QED  BY <2>1, <2>2 DEF Onward, ErrorsHaveReason
<1>. QED  BY <1>3, <1>4, <1>6, <1>7, <1>9, <1>10, <1>11, <1>12 DEF IInv, StepKeeps

\* The same, of one that leaves the connections alone.
LEMMA Moves ==
    ASSUME IInv, NEW a \in Attempt, attempts[a].pc # "idle",
           NEW r, r = attempts[a].run, NEW v \in AttemptRow, NEW row \in RunRow,
           attempts' = [attempts EXCEPT ![a] = v], runs' = [runs EXCEPT ![r] = row],
           v.pc # "idle", v.run = r, v.final = attempts[a].final,
           misled \subseteq misled', misled' \subseteq Run,
           Fits(v, row, r \in split, r \in misled'),
           row.connection = runs[r].connection, HasReason(v, row),
           r \in Sync \ split => (row.status = "completed" => row.rows = {row.count}),
           r \in Crawl \cup Serp =>
                (runs[r].status \in Done /\ row.status \notin Done => r \in split \cup misled'),
           r \in Scout =>
                /\ row.status \in Active => runs[r].status \in Active \/ ActiveScouts \subseteq {r}
                /\ runs[r].status \in Done => row.status \in Done
                /\ v.pc \in {"reason", "scout_persist"} /\ row.status = "running" =>
                        split # {} \/ Sees(v),
           UNCHANGED opportunities \/ Proposes(a, r, row),
           UNCHANGED <<intents, callbacks, connections, unusable, jobs, requests, split>>,
           mishaps' \in 0..MaxMishaps
    PROVE  StepKeeps
<1>1. GscInv' /\ RowsStay /\ ErrorsHaveReason
    BY DEF IInv, GscInv, GscTypeOK, TokenInv, Settled, Pending, NonceInv, InCallback, RowsStay,
           ErrorsHaveReason
<1>2. Warrants(connections[row.connection], unusable', v)  BY DEF HasReason
<1>. QED  BY <1>1, <1>2, Steps

Pcs == CrawlPcs \cup SerpPcs \cup ScoutPcs \cup SyncPcs \cup {"load", "end"}

\* Attempt a goes on to v.
GoesTo(a, v) ==
    /\ v \in AttemptRow /\ v.run = attempts[a].run /\ v.final = attempts[a].final
    /\ attempts' = [attempts EXCEPT ![a] = v]

Answers(a, pc, x) == attempts' = [attempts EXCEPT ![a].pc = pc, ![a].answer = x]
Learns(a, pc, K) == attempts' = [attempts EXCEPT ![a].pc = pc, ![a].seen = K]

PcValue == Pcs \cup {"idle"}
LEMMA RowOfPcs ==
    AttemptRow = [pc : PcValue, run : Run \cup {None}, final : BOOLEAN, seen : SUBSET Key,
                  answer : Answer \cup Key \cup {0}, reconnect : BOOLEAN, retry : BOOLEAN]
<1>1. PcValue = {"idle", "load", "crawl_mark", "crawl", "crawl_persist", "crawl_failed",
           "search", "serp_persist", "serp_failed",
           "scout_mark", "gather", "reason", "scout_persist", "scout_failed",
           "sync_mark", "query", "sync_rows", "sync_count", "sync_touch", "sync_failed",
           "disconnect", "end"}
    BY DEF PcValue, Pcs, CrawlPcs, SerpPcs, ScoutPcs, SyncPcs
<1>. QED  BY <1>1 DEF AttemptRow

LEMMA Turn ==
    ASSUME IInv, NEW a \in Attempt, NEW pc \in Pcs, Goes(a, pc)
    PROVE  \E v \in AttemptRow :
                /\ GoesTo(a, v) /\ v.pc = pc /\ v.seen = attempts[a].seen
                /\ v.answer = attempts[a].answer /\ v.reconnect = attempts[a].reconnect
<1>. DEFINE v == [attempts[a] EXCEPT !.pc = pc]
<1>0. pc \in PcValue  BY DEF PcValue
<1>1. attempts[a] \in AttemptRow /\ attempts \in [Attempt -> AttemptRow]
    BY DEF IInv, WorkTypeOK
<1>2. /\ v \in AttemptRow /\ v.run = attempts[a].run /\ v.final = attempts[a].final
      /\ v.pc = pc /\ v.seen = attempts[a].seen
      /\ v.answer = attempts[a].answer /\ v.reconnect = attempts[a].reconnect
    BY <1>0, <1>1, RowOfPcs
<1>3. attempts' = [attempts EXCEPT ![a] = v]  BY <1>1 DEF Goes
<1>. QED  BY <1>2, <1>3 DEF GoesTo

LEMMA Ending ==
    ASSUME IInv, NEW a \in Attempt, NEW retry \in BOOLEAN, Ends(a, retry)
    PROVE  \E v \in AttemptRow : GoesTo(a, v) /\ v.pc = "end"
<1>. DEFINE v == [attempts[a] EXCEPT !.pc = "end", !.retry = retry]
<1>1. attempts[a] \in AttemptRow /\ attempts \in [Attempt -> AttemptRow]
    BY DEF IInv, WorkTypeOK
<1>2. v \in AttemptRow /\ v.run = attempts[a].run /\ v.final = attempts[a].final /\ v.pc = "end"
    BY <1>1 DEF AttemptRow
<1>3. attempts' = [attempts EXCEPT ![a] = v]  BY <1>1 DEF Ends
<1>. QED  BY <1>2, <1>3 DEF GoesTo

LEMMA Failing ==
    ASSUME IInv, NEW a \in Attempt, NEW pc \in Pcs, NEW retry \in BOOLEAN, FailsAt(a, pc, retry)
    PROVE  \E v \in AttemptRow : GoesTo(a, v) /\ v.pc = pc
<1>. DEFINE v == [attempts[a] EXCEPT !.pc = pc, !.retry = retry]
<1>0. pc \in PcValue  BY DEF PcValue
<1>1. attempts[a] \in AttemptRow /\ attempts \in [Attempt -> AttemptRow]
    BY DEF IInv, WorkTypeOK
<1>2. v \in AttemptRow /\ v.run = attempts[a].run /\ v.final = attempts[a].final /\ v.pc = pc
    BY <1>0, <1>1, RowOfPcs
<1>3. attempts' = [attempts EXCEPT ![a] = v]  BY <1>1 DEF FailsAt
<1>. QED  BY <1>2, <1>3 DEF GoesTo

LEMMA SyncFailing ==
    ASSUME IInv, NEW a \in Attempt, NEW reconnect \in BOOLEAN, SyncFails(a, reconnect)
    PROVE  \E v \in AttemptRow : GoesTo(a, v) /\ v.pc = "sync_failed" /\ v.reconnect = reconnect
<1>. DEFINE v == [attempts[a] EXCEPT !.pc = "sync_failed", !.reconnect = reconnect, !.retry = ~reconnect]
<1>1. attempts[a] \in AttemptRow /\ attempts \in [Attempt -> AttemptRow]
    BY DEF IInv, WorkTypeOK
<1>2. /\ v \in AttemptRow /\ v.run = attempts[a].run /\ v.final = attempts[a].final
      /\ v.pc = "sync_failed" /\ v.reconnect = reconnect
    BY <1>1 DEF AttemptRow
<1>3. attempts' = [attempts EXCEPT ![a] = v]  BY <1>1 DEF SyncFails
<1>. QED  BY <1>2, <1>3 DEF GoesTo

LEMMA Answering ==
    ASSUME IInv, NEW a \in Attempt, NEW pc \in Pcs, NEW x \in Answer \cup Key \cup {0},
           Answers(a, pc, x)
    PROVE  \E v \in AttemptRow :
                GoesTo(a, v) /\ v.pc = pc /\ v.answer = x /\ v.seen = attempts[a].seen
<1>. DEFINE v == [attempts[a] EXCEPT !.pc = pc, !.answer = x]
<1>0. pc \in PcValue  BY DEF PcValue
<1>1. attempts[a] \in AttemptRow /\ attempts \in [Attempt -> AttemptRow]
    BY DEF IInv, WorkTypeOK
<1>2. /\ v \in AttemptRow /\ v.run = attempts[a].run /\ v.final = attempts[a].final
      /\ v.pc = pc /\ v.answer = x /\ v.seen = attempts[a].seen
    BY <1>0, <1>1, RowOfPcs
<1>3. attempts' = [attempts EXCEPT ![a] = v]  BY <1>1 DEF Answers
<1>. QED  BY <1>2, <1>3 DEF GoesTo

LEMMA Seeing ==
    ASSUME IInv, NEW a \in Attempt, NEW pc \in Pcs, NEW K \in SUBSET Key,
           Learns(a, pc, K)
    PROVE  \E v \in AttemptRow : GoesTo(a, v) /\ v.pc = pc /\ v.seen = K
<1>. DEFINE v == [attempts[a] EXCEPT !.pc = pc, !.seen = K]
<1>0. pc \in PcValue  BY DEF PcValue
<1>1. attempts[a] \in AttemptRow /\ attempts \in [Attempt -> AttemptRow]
    BY DEF IInv, WorkTypeOK
<1>2. /\ v \in AttemptRow /\ v.run = attempts[a].run /\ v.final = attempts[a].final
      /\ v.pc = pc /\ v.seen = K
    BY <1>0, <1>1, RowOfPcs
<1>3. attempts' = [attempts EXCEPT ![a] = v]  BY <1>1 DEF Learns
<1>. QED  BY <1>2, <1>3 DEF GoesTo

\* It only changes what it knows.
LEMMA Thinks ==
    ASSUME IInv, NEW a \in Attempt, attempts[a].pc # "idle", NEW v \in AttemptRow, GoesTo(a, v),
           v.pc # "idle",
           Fits(v, runs[v.run], v.run \in split, v.run \in misled), HasReason(v, runs[v.run]),
           v.run \in Scout /\ v.pc \in {"reason", "scout_persist"} /\ runs[v.run].status = "running"
                => split # {} \/ Sees(v),
           UNCHANGED <<intents, callbacks, connections, unusable, runs, opportunities, jobs,
                       requests, misled, split>>,
           mishaps' \in 0..MaxMishaps
    PROVE  StepKeeps
<1>. DEFINE r == attempts[a].run  row == runs[r]
<1>1. r \in Run /\ row \in RunRow  BY AttemptOf
<1>2. runs' = [runs EXCEPT ![r] = row] /\ misled \subseteq misled' /\ misled' \subseteq Run
    BY <1>1 DEF IInv, WorkTypeOK, LedgerTypeOK
<1>3. v.run = r /\ attempts' = [attempts EXCEPT ![a] = v] /\ v.final = attempts[a].final
    BY DEF GoesTo
<1>4. r \in Sync \ split => (row.status = "completed" => row.rows = {row.count})
    BY DEF IInv, SyncInv, RowsAreCounted
<1>5. r \in Scout /\ row.status \in Active => runs[r].status \in Active  OBVIOUS
<1>6. Fits(v, row, r \in split, r \in misled') /\ HasReason(v, row)
      /\ (r \in Scout => (v.pc \in {"reason", "scout_persist"} /\ row.status = "running" =>
                        split # {} \/ Sees(v)))
    BY <1>3
<1>7. row.connection = runs[r].connection
      /\ (r \in Crawl \cup Serp => (runs[r].status \in Done /\ row.status \notin Done => r \in split \cup misled'))
      /\ (r \in Scout => /\ row.status \in Active => runs[r].status \in Active \/ ActiveScouts \subseteq {r}
                         /\ runs[r].status \in Done => row.status \in Done)
    OBVIOUS
<1>. HIDE DEF r, row
<1>. QED
    <2>1. r = attempts[a].run  BY DEF r
    <2>. QED  BY <1>1, <1>2, <1>3, <1>4, <1>6, <1>7, <2>1, Moves

\* It marks its run, which is not a success of a sync.
LEMMA Marks ==
    ASSUME IInv, NEW a \in Attempt, attempts[a].pc # "idle", NEW v \in AttemptRow, GoesTo(a, v),
           v.pc \notin {"idle", "reason", "scout_persist"},
           NEW status \in {"failed", "queued", "running"} \cup Done, SetStatus(RunOf(a), status),
           v.run \in Sync => status # "completed",
           misled \subseteq misled', misled' \subseteq Run,
           \A row \in RunRow : row.status = status /\ row.rows = runs[v.run].rows =>
                Fits(v, row, v.run \in split, v.run \in misled'),
           HasReason(v, runs[v.run]),
           v.run \in Crawl \cup Serp =>
                (runs[v.run].status \in Done => status \in Done \/ v.run \in split \cup misled'),
           v.run \in Scout =>
                /\ status \in Active => runs[v.run].status \in Active \/ ActiveScouts \subseteq {v.run}
                /\ runs[v.run].status \in Done => status \in Done,
           UNCHANGED <<intents, callbacks, connections, unusable, opportunities, jobs, requests, split>>,
           mishaps' \in 0..MaxMishaps
    PROVE  StepKeeps
<1>. DEFINE r == attempts[a].run  row == [runs[r] EXCEPT !.status = status]
<1>1. r \in Run /\ runs[r] \in RunRow  BY AttemptOf
<1>2. /\ row \in RunRow /\ row.status = status /\ row.rows = runs[r].rows
      /\ row.connection = runs[r].connection
    BY <1>1 DEF RunRow, Active
<1>3. v.run = r /\ attempts' = [attempts EXCEPT ![a] = v] /\ v.final = attempts[a].final
    BY DEF GoesTo
<1>4. runs' = [runs EXCEPT ![r] = row]
    BY DEF SetStatus, RunOf
<1>. HIDE DEF row
<1>5. Fits(v, row, r \in split, r \in misled')  BY <1>2, <1>3
<1>6. HasReason(v, row)  BY <1>2, <1>3 DEF HasReason
<1>7. /\ r \in Sync \ split => (row.status = "completed" => row.rows = {row.count})
      /\ r \in Crawl \cup Serp =>
                (runs[r].status \in Done /\ row.status \notin Done => r \in split \cup misled')
      /\ r \in Scout =>
                /\ row.status \in Active => runs[r].status \in Active \/ ActiveScouts \subseteq {r}
                /\ runs[r].status \in Done => row.status \in Done
                /\ v.pc \in {"reason", "scout_persist"} /\ row.status = "running" =>
                        split # {} \/ Sees(v)
    BY <1>2, <1>3
<1>. HIDE DEF r
<1>. QED
    <2>1. r = attempts[a].run  BY DEF r
    <2>. QED  BY <1>1, <1>2, <1>3, <1>4, <1>5, <1>6, <1>7, <2>1, Moves

LEMMA CrawlSteps ==
    ASSUME IInv, NEW a \in Attempt, ImportStep(a)
    PROVE  StepKeeps
<1>. DEFINE r == attempts[a].run
<1>1. attempts[a].pc # "idle" /\ attempts[a].pc \in CrawlPcs \cup {"load"} /\ r \in Crawl
    BY AttemptOf DEF ImportStep, LoadCrawl, MarkCrawlRunning, CrawlWebsite, PersistCrawl,
        MarkCrawlFailed, At, RunOf, CrawlPcs, Fits
<1>2. /\ r \in Run /\ mishaps \in 0..MaxMishaps /\ misled \subseteq Run /\ attempts[a] \in AttemptRow
      /\ Fits(attempts[a], runs[r], r \in split, r \in misled)
      /\ r \notin Serp /\ r \notin Scout /\ r \notin Sync
    BY <1>1, AttemptOf, Kinds DEF IInv, WorkTypeOK, LedgerTypeOK, GscTypeOK
<1>3. \A v \in AttemptRow : GoesTo(a, v) => v.run = r  BY DEF GoesTo
<1>4. CASE LoadCrawl(a)
    <2>1. UNCHANGED <<intents, callbacks, connections, unusable, mishaps, runs, opportunities,
                      jobs, requests, misled, split>>
        BY <1>4 DEF LoadCrawl, unchangedLedger, ledgerVars, gscVars
    <2>2. \E v \in AttemptRow : GoesTo(a, v) /\ (v.pc = "end" \/ (v.pc = "crawl_mark" /\ runs[r].status \notin Done))
        BY <1>4, Turn, Ending DEF LoadCrawl, Status, RunOf, Pcs, CrawlPcs
    <2>. QED
        <3>1. PICK v \in AttemptRow : GoesTo(a, v) /\ (v.pc = "end" \/ (v.pc = "crawl_mark" /\ runs[r].status \notin Done))
            BY <2>2
        <3>2. Fits(v, runs[r], r \in split, r \in misled) /\ HasReason(v, runs[r])
            BY <1>1, <1>3, <3>1 DEF Fits, HasReason, Warrants, CrawlPcs, SerpPcs, ScoutPcs, SyncPcs
        <3>. QED  BY <1>1, <1>2, <1>3, <2>1, <3>1, <3>2, Thinks
<1>5. CASE MarkCrawlRunning(a)
    <2>1. UNCHANGED <<intents, callbacks, connections, unusable, mishaps, opportunities,
                      jobs, requests, misled, split>>
        BY <1>5 DEF MarkCrawlRunning, onlyRuns, gscVars
    <2>2. \E v \in AttemptRow : GoesTo(a, v) /\ v.pc = "crawl"
        BY <1>5, Turn DEF MarkCrawlRunning, Pcs, CrawlPcs
    <2>3. PICK v \in AttemptRow : GoesTo(a, v) /\ v.pc = "crawl"  BY <2>2
    <2>4. \A row \in RunRow : row.status = "running" => Fits(v, row, r \in split, r \in misled')
        BY <1>1, <1>3, <2>3 DEF Fits, CrawlPcs, SerpPcs, ScoutPcs, SyncPcs, Done
    <2>5. r \in split \cup misled \/ runs[r].status \notin Done
        BY <1>2, <1>5 DEF Fits, MarkCrawlRunning, At, CrawlPcs
    <2>6. HasReason(v, runs[r])  BY <2>3 DEF HasReason, Warrants
    <2>. QED  BY <1>1, <1>2, <1>3, <1>5, <2>1, <2>3, <2>4, <2>5, <2>6, Marks DEF MarkCrawlRunning, RunOf
<1>6. CASE CrawlWebsite(a)
    <2>1. UNCHANGED <<intents, callbacks, connections, unusable, mishaps, runs, opportunities,
                      jobs, requests, misled, split>>
        BY <1>6 DEF CrawlWebsite, unchangedLedger, ledgerVars, gscVars
    <2>2. \E v \in AttemptRow : GoesTo(a, v) /\ v.pc \in {"crawl_persist", "crawl_failed"}
        <3>1. {"crawl_persist", "crawl_failed"} \subseteq Pcs  BY DEF Pcs, CrawlPcs
        <3>2. CASE Goes(a, "crawl_persist")  BY <3>1, <3>2, Turn
        <3>3. CASE FailsAt(a, "crawl_failed", TRUE)  BY <3>1, <3>3, Failing
        <3>. QED  BY <1>6, <3>2, <3>3 DEF CrawlWebsite
    <2>3. PICK v \in AttemptRow : GoesTo(a, v) /\ v.pc \in {"crawl_persist", "crawl_failed"}
        BY <2>2
    <2>4. Fits(v, runs[r], r \in split, r \in misled) /\ HasReason(v, runs[r])
        BY <1>1, <1>2, <1>3, <1>6, <2>3
        DEF Fits, HasReason, Warrants, CrawlPcs, SerpPcs, ScoutPcs, SyncPcs, CrawlWebsite, At
    <2>. QED  BY <1>1, <1>2, <1>3, <2>1, <2>3, <2>4, Thinks
<1>7. CASE PersistCrawl(a)
    <2>1. UNCHANGED <<intents, callbacks, connections, unusable, mishaps, opportunities,
                      jobs, requests, misled, split>>
        BY <1>7 DEF PersistCrawl, onlyRuns, gscVars
    <2>2. \E v \in AttemptRow : GoesTo(a, v) /\ v.pc = "end"
        BY <1>7, Ending DEF PersistCrawl
    <2>3. PICK v \in AttemptRow : GoesTo(a, v) /\ v.pc = "end"  BY <2>2
    <2>4. HasReason(v, runs[r]) /\ \A row \in RunRow : Fits(v, row, r \in split, r \in misled')
        BY <2>3 DEF Fits, HasReason, Warrants, CrawlPcs, SerpPcs, ScoutPcs, SyncPcs
    <2>5. "completed" \in Done  BY DEF Done
    <2>. QED  BY <1>1, <1>2, <1>3, <1>7, <2>1, <2>3, <2>4, <2>5, Marks DEF PersistCrawl, RunOf
<1>8. CASE MarkCrawlFailed(a)
    <2>1. /\ UNCHANGED <<intents, callbacks, connections, unusable, opportunities, jobs, requests,
                         misled, split>>
          /\ \/ SetStatus(r, "failed") /\ UNCHANGED mishaps
             \/ GoesWrong /\ UNCHANGED runs
        BY <1>8 DEF MarkCrawlFailed, RunOf
    <2>2. \E v \in AttemptRow : GoesTo(a, v) /\ v.pc = "end"
        BY <1>8, Ending DEF MarkCrawlFailed
    <2>3. PICK v \in AttemptRow : GoesTo(a, v) /\ v.pc = "end"  BY <2>2
    <2>4. /\ HasReason(v, runs[r]) /\ Fits(v, runs[r], r \in split, r \in misled)
          /\ \A row \in RunRow : Fits(v, row, r \in split, r \in misled')
        BY <2>3 DEF Fits, HasReason, Warrants, CrawlPcs, SerpPcs, ScoutPcs, SyncPcs
    <2>5. r \in split \cup misled \/ runs[r].status \notin Done
        BY <1>2, <1>8 DEF Fits, MarkCrawlFailed, At, CrawlPcs
    <2>6. mishaps' \in 0..MaxMishaps /\ runs[r] \in RunRow
        BY <1>1, <1>2, <2>1, GoingWrong, AttemptOf
    <2>7. CASE GoesWrong /\ UNCHANGED runs
        BY <1>1, <1>2, <1>3, <2>1, <2>3, <2>4, <2>6, <2>7, Thinks
    <2>8. CASE SetStatus(r, "failed")
        BY <1>1, <1>2, <1>3, <2>1, <2>3, <2>4, <2>5, <2>6, <2>8, Marks DEF RunOf
    <2>. QED  BY <2>1, <2>7, <2>8
<1>. QED  BY <1>4, <1>5, <1>6, <1>7, <1>8 DEF ImportStep

LEMMA SerpSteps ==
    ASSUME IInv, NEW a \in Attempt, SerpStep(a)
    PROVE  StepKeeps
<1>. DEFINE r == attempts[a].run
<1>1. attempts[a].pc # "idle" /\ attempts[a].pc \in SerpPcs \cup {"load"} /\ r \in Serp
    BY AttemptOf DEF SerpStep, LoadSerp, Search, PersistSnapshot, PersistSerpFailure,
        At, RunOf, SerpPcs, Fits
<1>2. /\ r \in Run /\ mishaps \in 0..MaxMishaps /\ misled \subseteq Run /\ attempts[a] \in AttemptRow
      /\ Fits(attempts[a], runs[r], r \in split, r \in misled)
      /\ r \notin Crawl /\ r \notin Scout /\ r \notin Sync
    BY <1>1, AttemptOf, Kinds DEF IInv, WorkTypeOK, LedgerTypeOK, GscTypeOK
<1>3. \A v \in AttemptRow : GoesTo(a, v) => v.run = r  BY DEF GoesTo
<1>4. CASE LoadSerp(a)
    <2>1. UNCHANGED <<intents, callbacks, connections, unusable, mishaps, runs, opportunities,
                      jobs, requests, misled, split>>
        BY <1>4 DEF LoadSerp, unchangedLedger, ledgerVars, gscVars
    <2>2. \E v \in AttemptRow : GoesTo(a, v) /\ (v.pc = "end" \/ (v.pc = "search" /\ runs[r].status \notin Done))
        BY <1>4, Turn, Ending DEF LoadSerp, Status, RunOf, Pcs, SerpPcs
    <2>3. PICK v \in AttemptRow : GoesTo(a, v) /\ (v.pc = "end" \/ (v.pc = "search" /\ runs[r].status \notin Done))
        BY <2>2
    <2>4. Fits(v, runs[r], r \in split, r \in misled) /\ HasReason(v, runs[r])
        BY <1>1, <1>3, <2>3 DEF Fits, HasReason, Warrants, CrawlPcs, SerpPcs, ScoutPcs, SyncPcs
    <2>. QED  BY <1>1, <1>2, <1>3, <2>1, <2>3, <2>4, Thinks
<1>5. CASE Search(a)
    <2>1. UNCHANGED <<intents, callbacks, connections, unusable, mishaps, runs, opportunities,
                      jobs, requests, misled, split>>
        BY <1>5 DEF Search, unchangedLedger, ledgerVars, gscVars
    <2>2. \E v \in AttemptRow : GoesTo(a, v) /\ v.pc \in {"serp_persist", "serp_failed"}
        BY <1>5, Turn, Failing DEF Search, Pcs, SerpPcs
    <2>3. PICK v \in AttemptRow : GoesTo(a, v) /\ v.pc \in {"serp_persist", "serp_failed"}
        BY <2>2
    <2>4. Fits(v, runs[r], r \in split, r \in misled) /\ HasReason(v, runs[r])
        BY <1>1, <1>2, <1>3, <1>5, <2>3
        DEF Fits, HasReason, Warrants, CrawlPcs, SerpPcs, ScoutPcs, SyncPcs, Search, At
    <2>. QED  BY <1>1, <1>2, <1>3, <2>1, <2>3, <2>4, Thinks
<1>6. CASE PersistSnapshot(a) \/ PersistSerpFailure(a)
    <2>1. UNCHANGED <<intents, callbacks, connections, unusable, mishaps, opportunities,
                      jobs, requests, misled, split>>
        BY <1>6 DEF PersistSnapshot, PersistSerpFailure, onlyRuns, gscVars
    <2>2. \E v \in AttemptRow : GoesTo(a, v) /\ v.pc = "end"
        BY <1>6, Turn, Ending DEF PersistSnapshot, PersistSerpFailure, Pcs
    <2>3. PICK v \in AttemptRow : GoesTo(a, v) /\ v.pc = "end"  BY <2>2
    <2>4. HasReason(v, runs[r]) /\ \A row \in RunRow : Fits(v, row, r \in split, r \in misled')
        BY <2>3 DEF Fits, HasReason, Warrants, CrawlPcs, SerpPcs, ScoutPcs, SyncPcs
    <2>5. r \in split \/ runs[r].status \notin Done
        BY <1>2, <1>6 DEF Fits, PersistSnapshot, PersistSerpFailure, At, SerpPcs
    <2>6. \E status \in {"failed", "captured"} : SetStatus(RunOf(a), status)
        BY <1>6 DEF PersistSnapshot, PersistSerpFailure
    <2>7. {"failed", "captured"} \subseteq {"failed", "queued", "running"} \cup Done  BY DEF Done
    <2>. QED  BY <1>1, <1>2, <1>3, <2>1, <2>3, <2>4, <2>5, <2>6, <2>7, Marks
<1>. QED  BY <1>4, <1>5, <1>6 DEF SerpStep

LEMMA ScoutThinks ==
    ASSUME IInv, NEW a \in Attempt, LoadScout(a) \/ GatherEvidence(a) \/ Reason(a)
    PROVE  StepKeeps
<1>. DEFINE r == attempts[a].run
<1>1. attempts[a].pc # "idle" /\ attempts[a].pc \in ScoutPcs \cup {"load"} /\ r \in Scout
    BY AttemptOf DEF LoadScout, GatherEvidence, Reason, At, RunOf, ScoutPcs, Fits
<1>2. /\ r \in Run /\ mishaps \in 0..MaxMishaps /\ attempts[a] \in AttemptRow
      /\ r \notin Crawl /\ r \notin Serp /\ r \notin Sync
    BY <1>1, AttemptOf, Kinds DEF IInv, WorkTypeOK, LedgerTypeOK, GscTypeOK
<1>3. UNCHANGED <<intents, callbacks, connections, unusable, mishaps, runs, opportunities,
                  jobs, requests, misled, split>>
    BY DEF LoadScout, GatherEvidence, Reason, unchangedLedger, ledgerVars, gscVars
<1>4. CASE LoadScout(a)
    <2>1. \E v \in AttemptRow : GoesTo(a, v) /\ v.pc \in {"end", "gather", "scout_mark"}
        <3>1. {"gather", "scout_mark"} \subseteq Pcs  BY DEF Pcs, ScoutPcs
        <3>2. CASE Ends(a, FALSE)  BY <3>2, Ending
        <3>3. CASE Goes(a, "gather")  BY <3>1, <3>3, Turn
        <3>4. CASE Goes(a, "scout_mark")  BY <3>1, <3>4, Turn
        <3>. QED  BY <1>4, <3>2, <3>3, <3>4 DEF LoadScout
    <2>2. PICK v \in AttemptRow : GoesTo(a, v) /\ v.pc \in {"end", "gather", "scout_mark"}
        BY <2>1
    <2>3. Fits(v, runs[v.run], v.run \in split, v.run \in misled) /\ HasReason(v, runs[v.run])
        BY <1>1, <2>2 DEF GoesTo, Fits, HasReason, Warrants, CrawlPcs, SerpPcs, ScoutPcs, SyncPcs
    <2>. QED  BY <1>1, <1>2, <1>3, <2>2, <2>3, Thinks
<1>5. CASE GatherEvidence(a)
    <2>1. OpenKeys \in SUBSET Key
        BY Opportunities DEF IInv, WorkTypeOK, OpenKeys
    <2>2. \E v \in AttemptRow : GoesTo(a, v) /\ v.pc = "reason" /\ v.seen = OpenKeys
        <3>1. "reason" \in Pcs  BY DEF Pcs, ScoutPcs
        <3>2. Learns(a, "reason", OpenKeys)  BY <1>5 DEF GatherEvidence, Learns
        <3>. QED  BY <2>1, <3>1, <3>2, Seeing
    <2>3. PICK v \in AttemptRow : GoesTo(a, v) /\ v.pc = "reason" /\ v.seen = OpenKeys
        BY <2>2
    <2>4. Fits(v, runs[v.run], v.run \in split, v.run \in misled) /\ HasReason(v, runs[v.run])
        BY <1>1, <2>3 DEF GoesTo, Fits, HasReason, Warrants, CrawlPcs, SerpPcs, ScoutPcs, SyncPcs
    <2>5. Sees(v)  BY <2>3 DEF Sees, OpenKeys
    <2>. QED  BY <1>1, <1>2, <1>3, <2>3, <2>4, <2>5, Thinks
<1>6. CASE Reason(a)
    <2>1. CASE \E retry \in BOOLEAN : FailsAt(a, "scout_failed", retry)
        <3>1. "scout_failed" \in Pcs  BY DEF Pcs, ScoutPcs
        <3>2. PICK v \in AttemptRow : GoesTo(a, v) /\ v.pc = "scout_failed"
            BY <2>1, <3>1, Failing
        <3>3. Fits(v, runs[v.run], v.run \in split, v.run \in misled) /\ HasReason(v, runs[v.run])
            BY <1>1, <3>2 DEF GoesTo, Fits, HasReason, Warrants, CrawlPcs, SerpPcs, ScoutPcs, SyncPcs
        <3>. QED  BY <1>1, <1>2, <1>3, <3>2, <3>3, Thinks
    <2>2. ASSUME NEW key \in Proposable(a),
                 attempts' = [attempts EXCEPT ![a].pc = "scout_persist", ![a].answer = key]
          PROVE  StepKeeps
        <3>1. "scout_persist" \in Pcs  BY DEF Pcs, ScoutPcs
        <3>2. key \in Answer \cup Key \cup {0} /\ (key = 0 \/ key \in Key \ attempts[a].seen)
            BY DEF Proposable
        <3>. Answers(a, "scout_persist", key)  BY <2>2 DEF Answers
        <3>3. PICK v \in AttemptRow : /\ GoesTo(a, v) /\ v.pc = "scout_persist"
                                      /\ v.answer = key /\ v.seen = attempts[a].seen
            BY <3>1, <3>2, Answering
        <3>4. Fits(v, runs[v.run], v.run \in split, v.run \in misled) /\ HasReason(v, runs[v.run])
            BY <1>1, <3>2, <3>3 DEF GoesTo, Fits, HasReason, Warrants, CrawlPcs, SerpPcs, ScoutPcs, SyncPcs
        <3>5. runs[r].status = "running" => split # {} \/ Sees(attempts[a])
            BY <1>6 DEF Reason, At, IInv, ScoutInv, Status, RunOf
        <3>6. Sees(attempts[a]) => Sees(v)  BY <3>3 DEF Sees
        <3>7. v.run = r  BY <3>3 DEF GoesTo
        <3>. QED  BY <1>1, <1>2, <1>3, <3>3, <3>4, <3>5, <3>6, <3>7, Thinks
    <2>. QED  BY <1>6, <2>1, <2>2 DEF Reason
<1>. QED  BY <1>4, <1>5, <1>6

\* The brief of a scout is stored, whatever the attempt hears of it.
LEMMA Briefs ==
    ASSUME IInv, NEW a \in Attempt, attempts[a].pc = "scout_persist", Status(a) = "running",
           NEW v \in AttemptRow, GoesTo(a, v), v.pc = "end",
           SetStatus(RunOf(a), "succeeded"), opportunities' = Inserted(a),
           UNCHANGED <<intents, callbacks, connections, unusable, jobs, requests, misled, split>>,
           mishaps' \in 0..MaxMishaps
    PROVE  StepKeeps
<1>. DEFINE r == attempts[a].run  row == [runs[r] EXCEPT !.status = "succeeded"]
<1>1. r \in Run /\ runs[r] \in RunRow /\ r \in Scout
    BY AttemptOf DEF Fits, ScoutPcs
<1>2. /\ row \in RunRow /\ row.status = "succeeded" /\ row.rows = runs[r].rows
      /\ row.connection = runs[r].connection
    BY <1>1 DEF RunRow, Done
<1>3. v.run = r /\ attempts' = [attempts EXCEPT ![a] = v] /\ v.final = attempts[a].final
    BY DEF GoesTo
<1>4. runs' = [runs EXCEPT ![r] = row]  BY DEF SetStatus, RunOf
<1>5. misled \subseteq misled' /\ misled' \subseteq Run
    BY DEF IInv, WorkTypeOK, LedgerTypeOK
<1>. HIDE DEF row
<1>6. /\ Fits(v, row, r \in split, r \in misled') /\ HasReason(v, row)
    BY DEF Fits, HasReason, Warrants, CrawlPcs, SerpPcs, ScoutPcs, SyncPcs
<1>7. Proposes(a, r, row)  BY <1>1, <1>2 DEF Proposes, Status, RunOf
<1>8. r \notin Crawl /\ r \notin Serp /\ r \notin Sync  BY <1>1, Kinds
<1>9. row.status \in Done /\ row.status \notin Active  BY <1>2 DEF Done, Active
<1>. HIDE DEF r
<1>. QED
    <2>1. r = attempts[a].run  BY DEF r
    <2>. QED  BY <1>1, <1>2, <1>3, <1>4, <1>5, <1>6, <1>7, <1>8, <1>9, <2>1, Moves

LEMMA ScoutWrites ==
    ASSUME IInv, NEW a \in Attempt, MarkScoutRunning(a) \/ PersistScout(a) \/ MarkScoutFailed(a)
    PROVE  StepKeeps
<1>. DEFINE r == attempts[a].run
<1>1. attempts[a].pc # "idle" /\ attempts[a].pc \in ScoutPcs /\ r \in Scout
    BY AttemptOf DEF MarkScoutRunning, PersistScout, MarkScoutFailed, At, RunOf, ScoutPcs, Fits
<1>2. /\ r \in Run /\ mishaps \in 0..MaxMishaps /\ misled \subseteq Run
      /\ r \notin Crawl /\ r \notin Serp /\ r \notin Sync
    BY <1>1, AttemptOf, Kinds DEF IInv, WorkTypeOK, LedgerTypeOK, GscTypeOK
<1>3. UNCHANGED <<intents, callbacks, connections, unusable, mishaps, jobs, requests, misled, split>>
    BY DEF MarkScoutRunning, PersistScout, MarkScoutFailed, onlyRuns, gscVars
<1>4. \A v \in AttemptRow : GoesTo(a, v) => v.run = r  BY DEF GoesTo
<1>5. \A v \in AttemptRow, row \in RunRow : GoesTo(a, v) /\ v.pc \in {"end", "gather"} =>
        Fits(v, row, r \in split, r \in misled) /\ HasReason(v, row)
    BY <1>1, <1>4 DEF Fits, HasReason, Warrants, CrawlPcs, SerpPcs, ScoutPcs, SyncPcs
<1>6. ASSUME NEW v \in AttemptRow, GoesTo(a, v), v.pc \in {"end", "gather"},
             UNCHANGED <<runs, opportunities>>
      PROVE  StepKeeps
    <2>1. runs[r] \in RunRow  BY <1>1, AttemptOf
    <2>. QED  BY <1>1, <1>2, <1>3, <1>4, <1>5, <1>6, <2>1, Thinks
<1>7. ASSUME NEW v \in AttemptRow, GoesTo(a, v), v.pc \in {"end", "gather"},
             NEW status \in {"failed", "running"}, SetStatus(RunOf(a), status),
             runs[r].status \notin Done,
             status = "running" => ActiveScouts \subseteq {r},
             UNCHANGED opportunities
      PROVE  StepKeeps
    <2>1. runs[r] \in RunRow  BY <1>1, AttemptOf
    <2>2. \A row \in RunRow : row.status = status /\ row.rows = runs[v.run].rows =>
                Fits(v, row, v.run \in split, v.run \in misled')
        BY <1>3, <1>4, <1>5, <1>7
    <2>3. HasReason(v, runs[v.run]) /\ v.run = r  BY <1>4, <1>5, <1>7, <2>1
    <2>4. status \in Active => status = "running"  BY DEF Active
    <2>. QED  BY <1>1, <1>2, <1>3, <1>7, <2>2, <2>3, <2>4, Marks
<1>8. CASE MarkScoutRunning(a)
    <2>1. "gather" \in Pcs  BY DEF Pcs, ScoutPcs
    <2>2. UNCHANGED opportunities  BY <1>8 DEF MarkScoutRunning, onlyRuns
    <2>3. CASE Status(a) \in {"queued", "failed"} /\ ActiveScouts \subseteq {RunOf(a)}
        <3>1. SetStatus(RunOf(a), "running") /\ Goes(a, "gather")
            BY <1>8, <2>3 DEF MarkScoutRunning
        <3>2. PICK v \in AttemptRow : GoesTo(a, v) /\ v.pc = "gather"
            BY <2>1, <3>1, Turn
        <3>. QED  BY <1>7, <2>2, <2>3, <3>1, <3>2 DEF Status, RunOf, Done
    <2>4. CASE ~(Status(a) \in {"queued", "failed"} /\ ActiveScouts \subseteq {RunOf(a)})
        <3>1. Ends(a, FALSE) /\ UNCHANGED runs
            BY <1>8, <2>4 DEF MarkScoutRunning
        <3>2. PICK v \in AttemptRow : GoesTo(a, v) /\ v.pc = "end"  BY <3>1, Ending
        <3>. QED  BY <1>6, <2>2, <3>1, <3>2
    <2>. QED  BY <2>3, <2>4
<1>9. CASE PersistScout(a)
    <2>1. PICK v \in AttemptRow : GoesTo(a, v) /\ v.pc = "end"
        BY <1>9, Ending DEF PersistScout
    <2>2. CASE Status(a) = "running"
        BY <1>2, <1>3, <1>9, <2>1, <2>2, Briefs DEF PersistScout, At
    <2>3. CASE Status(a) # "running"
        BY <1>6, <1>9, <2>1, <2>3 DEF PersistScout
    <2>. QED  BY <2>2, <2>3
<1>10. CASE MarkScoutFailed(a)
    <2>1. "end" \in Pcs /\ UNCHANGED opportunities
        BY <1>10 DEF Pcs, MarkScoutFailed, onlyRuns
    <2>2. PICK v \in AttemptRow : GoesTo(a, v) /\ v.pc = "end"
        BY <1>10, <2>1, Turn DEF MarkScoutFailed
    <2>3. CASE Status(a) \in Done
        BY <1>6, <1>10, <2>1, <2>2, <2>3 DEF MarkScoutFailed
    <2>4. CASE Status(a) \notin Done
        BY <1>7, <1>10, <2>1, <2>2, <2>4 DEF MarkScoutFailed, Status, RunOf
    <2>. QED  BY <2>3, <2>4
<1>. QED  BY <1>8, <1>9, <1>10

LEMMA SyncReads ==
    ASSUME IInv, NEW a \in Attempt,
           LoadSync(a) \/ QuerySearchAnalytics(a) \/ TouchConnection(a)
    PROVE  StepKeeps
<1>. DEFINE r == attempts[a].run
<1>1. attempts[a].pc # "idle" /\ attempts[a].pc \in SyncPcs \cup {"load"} /\ r \in Sync
    BY AttemptOf DEF LoadSync, QuerySearchAnalytics, TouchConnection, At, RunOf, SyncPcs, Fits
<1>2. /\ r \in Run /\ mishaps \in 0..MaxMishaps /\ runs[r] \in RunRow
      /\ Fits(attempts[a], runs[r], r \in split, r \in misled)
      /\ r \notin Crawl /\ r \notin Serp /\ r \notin Scout
      /\ runs[r].connection \in DOMAIN connections
    BY <1>1, AttemptOf, Kinds DEF IInv, WorkTypeOK, LedgerTypeOK, GscTypeOK
<1>3. UNCHANGED <<intents, callbacks, connections, unusable, mishaps, runs, opportunities,
                  jobs, requests, misled, split>>
    BY DEF LoadSync, QuerySearchAnalytics, TouchConnection, unchangedLedger, ledgerVars, gscVars
<1>4. ASSUME NEW v \in AttemptRow, GoesTo(a, v), v.pc # "idle", v.pc \notin {"reason", "scout_persist"},
             Fits(v, runs[r], r \in split, r \in misled), HasReason(v, runs[r])
      PROVE  StepKeeps
    BY <1>1, <1>2, <1>3, <1>4, Thinks DEF GoesTo
<1>5. ASSUME NEW v \in AttemptRow, GoesTo(a, v), v.pc = "sync_failed",
             v.reconnect => \/ connections[runs[r].connection].status # "connected"
                            \/ connections[runs[r].connection].nonce \in unusable
      PROVE  StepKeeps
    <2>1. v.run = r  BY <1>5 DEF GoesTo
    <2>2. Fits(v, runs[r], r \in split, r \in misled)
        BY <1>1, <1>5, <2>1 DEF Fits, CrawlPcs, SerpPcs, ScoutPcs, SyncPcs
    <2>3. HasReason(v, runs[r])  BY <1>5 DEF HasReason, Warrants
    <2>. QED  BY <1>4, <1>5, <2>2, <2>3
<1>6. CASE LoadSync(a)
    <2>. DEFINE row == connections[runs[r].connection]
    <2>1. CASE row.status = "connected" /\ row.token
        <3>1. Goes(a, "sync_mark") /\ "sync_mark" \in Pcs
            BY <1>6, <2>1 DEF LoadSync, ConnectionOf, RunOf, Pcs, SyncPcs
        <3>2. PICK v \in AttemptRow : GoesTo(a, v) /\ v.pc = "sync_mark"  BY <3>1, Turn
        <3>3. v.run = r  BY <3>2 DEF GoesTo
        <3>4. Fits(v, runs[r], r \in split, r \in misled) /\ HasReason(v, runs[r])
            BY <1>1, <3>2, <3>3 DEF Fits, HasReason, Warrants, CrawlPcs, SerpPcs, ScoutPcs, SyncPcs
        <3>. QED  BY <1>4, <3>2, <3>4
    <2>2. CASE ~(row.status = "connected" /\ row.token)
        <3>1. SyncFails(a, TRUE)
            BY <1>6, <2>2 DEF LoadSync, ConnectionOf, RunOf
        <3>2. PICK v \in AttemptRow : GoesTo(a, v) /\ v.pc = "sync_failed"
            BY <3>1, SyncFailing
        <3>3. row.status # "connected"  BY <1>2, <2>2 DEF IInv, GscInv, TokenInv
        <3>. QED  BY <1>5, <3>2, <3>3
    <2>. QED  BY <2>1, <2>2
<1>7. CASE QuerySearchAnalytics(a)
    <2>1. CASE SyncFails(a, FALSE)
        BY <1>5, <2>1, SyncFailing
    <2>2. ASSUME NEW x \in Answer, Answers(a, "sync_rows", x)
          PROVE  StepKeeps
        <3>1. "sync_rows" \in Pcs  BY DEF Pcs, SyncPcs
        <3>2. PICK v \in AttemptRow : GoesTo(a, v) /\ v.pc = "sync_rows" /\ v.answer = x
            BY <2>2, <3>1, Answering
        <3>3. v.run = r  BY <3>2 DEF GoesTo
        <3>4. r \in split \/ runs[r].status # "completed"
            BY <1>2, <1>7 DEF Fits, QuerySearchAnalytics, At
        <3>5. Fits(v, runs[r], r \in split, r \in misled) /\ HasReason(v, runs[r])
            BY <1>1, <3>2, <3>3, <3>4
            DEF Fits, HasReason, Warrants, CrawlPcs, SerpPcs, ScoutPcs, SyncPcs
        <3>. QED  BY <1>4, <3>2, <3>5
    <2>. QED  BY <1>7, <2>1, <2>2 DEF QuerySearchAnalytics, Answers
<1>8. CASE TouchConnection(a)
    <2>1. PICK v \in AttemptRow : GoesTo(a, v) /\ v.pc = "end"
        BY <1>8, Ending DEF TouchConnection
    <2>2. Fits(v, runs[r], r \in split, r \in misled) /\ HasReason(v, runs[r])
        BY <2>1 DEF Fits, HasReason, Warrants, CrawlPcs, SerpPcs, ScoutPcs, SyncPcs
    <2>. QED  BY <1>4, <2>1, <2>2
<1>. QED  BY <1>6, <1>7, <1>8

LEMMA SyncMarks ==
    ASSUME IInv, NEW a \in Attempt, MarkSyncRunning(a) \/ MarkSyncRunFailed(a)
    PROVE  StepKeeps
<1>. DEFINE r == attempts[a].run
<1>1. attempts[a].pc # "idle" /\ attempts[a].pc \in {"sync_mark", "sync_failed"} /\ r \in Sync
    BY AttemptOf DEF MarkSyncRunning, MarkSyncRunFailed, At, SyncPcs, Fits
<1>2. /\ r \in Run /\ mishaps \in 0..MaxMishaps /\ misled \subseteq Run
      /\ r \notin Crawl /\ r \notin Serp /\ r \notin Scout
    BY <1>1, AttemptOf, Kinds DEF IInv, WorkTypeOK, LedgerTypeOK, GscTypeOK
<1>3. UNCHANGED <<intents, callbacks, connections, unusable, mishaps, opportunities,
                  jobs, requests, misled, split>>
    BY DEF MarkSyncRunning, MarkSyncRunFailed, onlyRuns, gscVars
<1>4. CASE MarkSyncRunning(a)
    <2>1. "query" \in Pcs  BY DEF Pcs, SyncPcs
    <2>2. PICK v \in AttemptRow : GoesTo(a, v) /\ v.pc = "query"
        BY <1>4, <2>1, Turn DEF MarkSyncRunning
    <2>3. v.run = r  BY <2>2 DEF GoesTo
    <2>4. \A row \in RunRow : row.status = "running" => Fits(v, row, r \in split, r \in misled')
        BY <1>1, <2>2, <2>3 DEF Fits, CrawlPcs, SerpPcs, ScoutPcs, SyncPcs
    <2>5. HasReason(v, runs[r])  BY <2>2 DEF HasReason, Warrants
    <2>. QED  BY <1>1, <1>2, <1>3, <1>4, <2>2, <2>3, <2>4, <2>5, Marks DEF MarkSyncRunning
<1>5. CASE MarkSyncRunFailed(a)
    <2>1. {"disconnect", "end"} \subseteq Pcs  BY DEF Pcs, SyncPcs
    <2>2. PICK v \in AttemptRow :
            /\ GoesTo(a, v) /\ v.pc = IF attempts[a].reconnect THEN "disconnect" ELSE "end"
            /\ v.reconnect = attempts[a].reconnect
        BY <1>5, <2>1, Turn DEF MarkSyncRunFailed
    <2>3. v.run = r /\ v.pc \in {"disconnect", "end"}  BY <2>2 DEF GoesTo
    <2>4. \A row \in RunRow : Fits(v, row, r \in split, r \in misled')
        BY <1>1, <2>3 DEF Fits, CrawlPcs, SerpPcs, ScoutPcs, SyncPcs
    <2>5. HasReason(attempts[a], runs[r]) /\ attempts[a].pc = "sync_failed"
        BY <1>1, <1>5, AttemptOf DEF MarkSyncRunFailed, At
    <2>6. HasReason(v, runs[r])  BY <2>2, <2>5 DEF HasReason, Warrants
    <2>. QED  BY <1>1, <1>2, <1>3, <1>5, <2>2, <2>3, <2>4, <2>6, Marks DEF MarkSyncRunFailed
<1>. QED  BY <1>4, <1>5

\* The rows of a sync are stored, or counted, whatever the attempt hears of it.
LEMMA Stores ==
    ASSUME IInv, NEW a \in Attempt, attempts[a].pc = "sync_rows",
           NEW v \in AttemptRow, GoesTo(a, v),
           v.pc \in {"sync_count", "sync_failed"},
           v.pc = "sync_count" => v.answer = attempts[a].answer,
           v.pc = "sync_failed" => ~v.reconnect,
           runs' = [runs EXCEPT ![RunOf(a)].rows = {attempts[a].answer}],
           UNCHANGED <<intents, callbacks, connections, unusable, opportunities, jobs, requests,
                       misled, split>>,
           mishaps' \in 0..MaxMishaps
    PROVE  StepKeeps
<1>. DEFINE r == attempts[a].run  x == attempts[a].answer  row == [runs[r] EXCEPT !.rows = {x}]
<1>1. /\ r \in Run /\ runs[r] \in RunRow /\ r \in Sync /\ x \in Answer
      /\ r \in split \/ runs[r].status # "completed"
    BY AttemptOf DEF Fits, SyncPcs
<1>2. /\ row \in RunRow /\ row.status = runs[r].status /\ row.rows = {x}
      /\ row.connection = runs[r].connection
    BY <1>1 DEF RunRow
<1>3. v.run = r /\ attempts' = [attempts EXCEPT ![a] = v] /\ v.final = attempts[a].final
    BY DEF GoesTo
<1>4. runs' = [runs EXCEPT ![r] = row]  BY DEF RunOf
<1>5. misled \subseteq misled' /\ misled' \subseteq Run
    BY DEF IInv, WorkTypeOK, LedgerTypeOK
<1>. HIDE DEF row
<1>6. Fits(v, row, r \in split, r \in misled') /\ HasReason(v, row)
    BY <1>1, <1>2, <1>3 DEF Fits, HasReason, Warrants, CrawlPcs, SerpPcs, ScoutPcs, SyncPcs
<1>7. /\ r \notin Crawl /\ r \notin Serp /\ r \notin Scout
      /\ r \in Sync \ split => (row.status = "completed" => row.rows = {row.count})
    BY <1>1, <1>2, Kinds
<1>. HIDE DEF r, x
<1>. QED
    <2>1. r = attempts[a].run  BY DEF r
    <2>. QED  BY <1>1, <1>2, <1>3, <1>4, <1>5, <1>6, <1>7, <2>1, Moves

LEMMA Counts ==
    ASSUME IInv, NEW a \in Attempt, attempts[a].pc = "sync_count",
           NEW v \in AttemptRow, GoesTo(a, v), v.pc \in {"sync_touch", "sync_failed"},
           v.pc = "sync_failed" => ~v.reconnect,
           runs' = [runs EXCEPT ![RunOf(a)].status = "completed",
                                ![RunOf(a)].count = attempts[a].answer],
           UNCHANGED <<intents, callbacks, connections, unusable, opportunities, jobs, requests,
                       misled, split>>,
           mishaps' \in 0..MaxMishaps
    PROVE  StepKeeps
<1>. DEFINE r == attempts[a].run  x == attempts[a].answer
            row == [runs[r] EXCEPT !.status = "completed", !.count = x]
<1>1. /\ r \in Run /\ runs[r] \in RunRow /\ r \in Sync /\ x \in Answer
      /\ r \in split \/ runs[r].rows = {x}
    BY AttemptOf DEF Fits, SyncPcs
<1>2. /\ row \in RunRow /\ row.rows = runs[r].rows /\ row.count = x
      /\ row.connection = runs[r].connection
    BY <1>1 DEF RunRow, Done
<1>3. v.run = r /\ attempts' = [attempts EXCEPT ![a] = v] /\ v.final = attempts[a].final
    BY DEF GoesTo
<1>4. runs' = [runs EXCEPT ![r] = row]
    BY <1>1 DEF RunOf, IInv, WorkTypeOK, LedgerTypeOK
<1>5. misled \subseteq misled' /\ misled' \subseteq Run
    BY DEF IInv, WorkTypeOK, LedgerTypeOK
<1>. HIDE DEF row
<1>6. Fits(v, row, r \in split, r \in misled') /\ HasReason(v, row)
    BY <1>1, <1>3 DEF Fits, HasReason, Warrants, CrawlPcs, SerpPcs, ScoutPcs, SyncPcs
<1>7. /\ r \notin Crawl /\ r \notin Serp /\ r \notin Scout
      /\ r \in Sync \ split => (row.status = "completed" => row.rows = {row.count})
    BY <1>1, <1>2, Kinds
<1>. HIDE DEF r, x
<1>. QED
    <2>1. r = attempts[a].run  BY DEF r
    <2>. QED  BY <1>1, <1>2, <1>3, <1>4, <1>5, <1>6, <1>7, <2>1, Moves

LEMMA DisconnectStep ==
    ASSUME IInv, NEW a \in Attempt, Disconnect(a)
    PROVE  StepKeeps
<1>. DEFINE r == attempts[a].run  i == runs[r].connection
<1>1. attempts[a].pc = "disconnect"  BY DEF Disconnect, At
<1>2. /\ r \in Run /\ runs[r] \in RunRow /\ r \in Sync
      /\ i \in DOMAIN connections /\ HasReason(attempts[a], runs[r])
      /\ r \notin Crawl /\ r \notin Serp /\ r \notin Scout
    BY <1>1, AttemptOf, Kinds DEF Fits, SyncPcs
<1>3. "end" \in Pcs  BY DEF Pcs
<1>4. PICK v \in AttemptRow : GoesTo(a, v) /\ v.pc = "end"
    BY <1>3, Turn DEF Disconnect
<1>5. /\ connections' = [connections EXCEPT ![i].status = "error"]
      /\ UNCHANGED <<intents, callbacks, unusable, mishaps, runs, opportunities, jobs, requests,
                     misled, split>>
    BY DEF Disconnect, ConnectionOf, RunOf
<1>6. /\ GscInv' /\ RowsStay
      /\ \A j \in DOMAIN connections : j # i => connections'[j] = connections[j]
    BY <1>2, <1>5, ErrorWritten DEF IInv
<1>7. ErrorsHaveReason
    BY <1>1, <1>2, <1>6 DEF ErrorsHaveReason, HasReason, Warrants
<1>8. /\ v.run = r /\ attempts' = [attempts EXCEPT ![a] = v] /\ v.final = attempts[a].final
    BY <1>4 DEF GoesTo
<1>9. runs' = [runs EXCEPT ![r] = runs[r]] /\ misled \subseteq misled' /\ misled' \subseteq Run
    BY <1>2, <1>5 DEF IInv, WorkTypeOK, LedgerTypeOK
<1>10. /\ Fits(v, runs[r], r \in split, r \in misled')
       /\ Warrants(connections[runs[r].connection], unusable', v)
    BY <1>4 DEF Fits, Warrants, CrawlPcs, SerpPcs, ScoutPcs, SyncPcs
<1>11. r \in Sync \ split => (runs[r].status = "completed" => runs[r].rows = {runs[r].count})
    BY DEF IInv, SyncInv, RowsAreCounted
<1>12. attempts[a].pc # "idle" /\ v.pc # "idle" /\ UNCHANGED opportunities
       /\ UNCHANGED <<jobs, requests, split>>
    BY <1>1, <1>4, <1>5
<1>. HIDE DEF i
<1>. QED  BY <1>2, <1>6, <1>7, <1>8, <1>9, <1>10, <1>11, <1>12, Steps

\* The token of its connection is remembered as one that a sync could not use.
LEMMA TokenUnusableStep ==
    ASSUME IInv, NEW a \in Attempt, TokenUnusable(a)
    PROVE  StepKeeps
<1>. DEFINE r == attempts[a].run  i == runs[r].connection
<1>1. attempts[a].pc = "query" /\ SyncFails(a, TRUE)  BY DEF TokenUnusable, At
<1>2. /\ r \in Run /\ runs[r] \in RunRow /\ r \in Sync /\ i \in DOMAIN connections
      /\ r \notin Crawl /\ r \notin Serp /\ r \notin Scout
    BY <1>1, AttemptOf, Kinds DEF Fits, SyncPcs
<1>3. PICK v \in AttemptRow : GoesTo(a, v) /\ v.pc = "sync_failed" /\ v.reconnect
    BY <1>1, SyncFailing
<1>4. /\ v.run = r /\ attempts' = [attempts EXCEPT ![a] = v] /\ v.final = attempts[a].final
    BY <1>3 DEF GoesTo
<1>5. /\ unusable' = unusable \cup {connections[i].nonce}
      /\ UNCHANGED <<intents, callbacks, connections, mishaps, runs, opportunities, jobs,
                     requests, misled, split>>
    BY DEF TokenUnusable, ConnectionOf, RunOf
<1>6. connections[i].nonce \in Nonce  BY <1>2, ConnectionRows DEF Connection, IInv
<1>7. GscInv' /\ RowsStay /\ ErrorsHaveReason
    BY <1>5, <1>6 DEF IInv, GscInv, GscTypeOK, TokenInv, Settled, NonceInv, InCallback, RowsStay,
                      ErrorsHaveReason
<1>8. runs' = [runs EXCEPT ![r] = runs[r]] /\ misled \subseteq misled' /\ misled' \subseteq Run
    BY <1>2, <1>5 DEF IInv, WorkTypeOK, LedgerTypeOK
<1>9. Warrants(connections[i], unusable', v)  BY <1>5 DEF Warrants
<1>10. Fits(v, runs[r], r \in split, r \in misled')
    BY <1>2, <1>3, <1>4 DEF Fits, CrawlPcs, SerpPcs, ScoutPcs, SyncPcs
<1>11. r \in Sync \ split => (runs[r].status = "completed" => runs[r].rows = {runs[r].count})
    BY DEF IInv, SyncInv, RowsAreCounted
<1>12. attempts[a].pc # "idle" /\ v.pc # "idle"  BY <1>1, <1>3
<1>. QED  BY <1>2, <1>4, <1>5, <1>7, <1>8, <1>9, <1>10, <1>11, <1>12, Steps

LEMMA SyncSteps ==
    ASSUME IInv, NEW a \in Attempt, SyncStep(a)
    PROVE  StepKeeps
<1>0. {"sync_count", "sync_touch"} \subseteq Pcs /\ mishaps \in 0..MaxMishaps
    BY DEF Pcs, SyncPcs, IInv, WorkTypeOK, LedgerTypeOK, GscTypeOK
<1>1. CASE LoadSync(a) \/ QuerySearchAnalytics(a) \/ TouchConnection(a)  BY <1>1, SyncReads
<1>2. CASE MarkSyncRunning(a) \/ MarkSyncRunFailed(a)  BY <1>2, SyncMarks
<1>3. CASE StoreRows(a)
    <2>1. PICK v \in AttemptRow :
            GoesTo(a, v) /\ v.pc = "sync_count" /\ v.answer = attempts[a].answer
        BY <1>0, <1>3, Turn DEF StoreRows
    <2>2. /\ attempts[a].pc = "sync_rows"
          /\ runs' = [runs EXCEPT ![RunOf(a)].rows = {attempts[a].answer}]
          /\ UNCHANGED <<intents, callbacks, connections, unusable, opportunities, jobs, requests,
                         misled, split>>
          /\ mishaps' \in 0..MaxMishaps
        BY <1>0, <1>3 DEF StoreRows, At, onlyRuns, gscVars
    <2>. QED  BY <2>1, <2>2, Stores
<1>4. CASE CompleteSync(a)
    <2>1. PICK v \in AttemptRow : GoesTo(a, v) /\ v.pc = "sync_touch"
        BY <1>0, <1>4, Turn DEF CompleteSync
    <2>. QED  BY <1>0, <1>4, <2>1, Counts DEF CompleteSync, At, onlyRuns, gscVars
<1>5. CASE Disconnect(a)  BY <1>5, DisconnectStep
<1>6. CASE TokenUnusable(a)  BY <1>6, TokenUnusableStep
<1>. QED  BY <1>1, <1>2, <1>3, <1>4, <1>5, <1>6 DEF SyncStep

LEMMA ThrowsStep ==
    ASSUME IInv, NEW a \in Attempt, Throws(a)
    PROVE  StepKeeps
<1>. DEFINE r == attempts[a].run
<1>1. /\ attempts[a].pc # "idle"
      /\ UNCHANGED <<intents, callbacks, connections, unusable, runs, opportunities, jobs,
                     requests, misled, split>>
      /\ GoesWrong
    BY DEF Throws
<1>2. /\ r \in Run /\ runs[r] \in RunRow /\ mishaps' \in 0..MaxMishaps
      /\ Fits(attempts[a], runs[r], r \in split, r \in misled)
    BY <1>1, AttemptOf, GoingWrong DEF IInv, WorkTypeOK, LedgerTypeOK, GscTypeOK
<1>3. ASSUME NEW v \in AttemptRow, GoesTo(a, v), v.pc \in {"end", "crawl_failed", "sync_failed"},
             v.pc = "crawl_failed" => attempts[a].pc \in CrawlPcs,
             v.pc = "sync_failed" => r \in Sync /\ ~v.reconnect
      PROVE  StepKeeps
    <2>1. v.run = r  BY <1>3 DEF GoesTo
    <2>2. Fits(v, runs[r], r \in split, r \in misled) /\ HasReason(v, runs[r])
        BY <1>2, <1>3, <2>1 DEF Fits, HasReason, Warrants, CrawlPcs, SerpPcs, ScoutPcs, SyncPcs
    <2>. QED  BY <1>1, <1>2, <1>3, <2>1, <2>2, Thinks
<1>4. CASE attempts[a].pc \in InCrawl
    <2>1. "crawl_failed" \in Pcs /\ attempts[a].pc \in CrawlPcs
        BY <1>4 DEF Pcs, CrawlPcs, InCrawl
    <2>2. FailsAt(a, "crawl_failed", TRUE)
        BY <1>4 DEF Throws, InCrawl, Inside, At
    <2>. QED  BY <1>3, <2>1, <2>2, Failing
<1>5. CASE attempts[a].pc \in Inside \/ (At(a, "load") /\ RunOf(a) \in Sync)
    <2>1. r \in Sync /\ attempts[a].pc \notin InCrawl
        BY <1>2, <1>5 DEF Fits, Inside, InCrawl, SyncPcs, RunOf, At
    <2>2. SyncFails(a, FALSE)  BY <1>5, <2>1 DEF Throws
    <2>. QED  BY <1>3, <2>1, <2>2, SyncFailing
<1>6. CASE attempts[a].pc \notin InCrawl
           /\ ~(attempts[a].pc \in Inside \/ (At(a, "load") /\ RunOf(a) \in Sync))
    <2>1. Ends(a, TRUE)  BY <1>6 DEF Throws
    <2>. QED  BY <1>3, <2>1, Ending
<1>. QED  BY <1>4, <1>5, <1>6

LEMMA AnswerLostStep ==
    ASSUME IInv, NEW a \in Attempt, AnswerLost(a)
    PROVE  StepKeeps
<1>. DEFINE r == attempts[a].run
<1>1. /\ UNCHANGED <<intents, callbacks, connections, unusable, jobs, requests, split>>
      /\ mishaps' \in 0..MaxMishaps /\ misled \subseteq Run
    BY GoingWrong DEF AnswerLost, IInv, WorkTypeOK, LedgerTypeOK, GscTypeOK
<1>2. CASE /\ At(a, "crawl_persist")
           /\ SetStatus(RunOf(a), "completed")
           /\ misled' = misled \cup {RunOf(a)}
           /\ FailsAt(a, "crawl_failed", TRUE)
           /\ UNCHANGED opportunities
    <2>1. /\ attempts[a].pc # "idle" /\ r \in Crawl /\ r \in Run
          /\ r \notin Serp /\ r \notin Scout /\ r \notin Sync
        BY <1>2, AttemptOf, Kinds DEF At, Fits, CrawlPcs
    <2>2. "crawl_failed" \in Pcs  BY DEF Pcs, CrawlPcs
    <2>3. PICK v \in AttemptRow : GoesTo(a, v) /\ v.pc = "crawl_failed"
        BY <1>2, <2>2, Failing
    <2>4. v.run = r  BY <2>3 DEF GoesTo
    <2>5. /\ HasReason(v, runs[r])
          /\ \A row \in RunRow : Fits(v, row, r \in split, r \in misled')
        BY <1>2, <2>1, <2>3, <2>4
        DEF Fits, HasReason, Warrants, CrawlPcs, SerpPcs, ScoutPcs, SyncPcs, RunOf
    <2>6. /\ misled \subseteq misled' /\ misled' \subseteq Run /\ "completed" \in Done
        BY <1>1, <1>2, <2>1 DEF RunOf, Done
    <2>. QED  BY <1>1, <1>2, <2>1, <2>3, <2>4, <2>5, <2>6, Marks
<1>3. CASE /\ At(a, "serp_persist")
           /\ SetStatus(RunOf(a), "captured")
           /\ Ends(a, TRUE)
           /\ UNCHANGED <<opportunities, misled>>
    <2>1. /\ attempts[a].pc # "idle" /\ r \in Serp /\ r \in Run
          /\ r \notin Crawl /\ r \notin Scout /\ r \notin Sync
        BY <1>3, AttemptOf, Kinds DEF At, Fits, SerpPcs
    <2>2. PICK v \in AttemptRow : GoesTo(a, v) /\ v.pc = "end"
        BY <1>3, Ending
    <2>3. v.run = r  BY <2>2 DEF GoesTo
    <2>4. /\ HasReason(v, runs[r])
          /\ \A row \in RunRow : Fits(v, row, r \in split, r \in misled')
        BY <2>2 DEF Fits, HasReason, Warrants, CrawlPcs, SerpPcs, ScoutPcs, SyncPcs
    <2>5. "captured" \in Done  BY DEF Done
    <2>. QED  BY <1>1, <1>3, <2>1, <2>2, <2>3, <2>4, <2>5, Marks
<1>4. CASE /\ At(a, "scout_persist") /\ Status(a) = "running"
           /\ SetStatus(RunOf(a), "succeeded") /\ opportunities' = Inserted(a)
           /\ Ends(a, TRUE)
           /\ UNCHANGED misled
    <2>1. PICK v \in AttemptRow : GoesTo(a, v) /\ v.pc = "end"
        BY <1>4, Ending
    <2>. QED  BY <1>1, <1>4, <2>1, Briefs DEF At
<1>5. CASE /\ At(a, "sync_rows")
           /\ runs' = [runs EXCEPT ![RunOf(a)].rows = {attempts[a].answer}]
           /\ SyncFails(a, FALSE)
           /\ UNCHANGED <<opportunities, misled>>
    <2>1. PICK v \in AttemptRow : GoesTo(a, v) /\ v.pc = "sync_failed" /\ ~v.reconnect
        BY <1>5, SyncFailing
    <2>. QED  BY <1>1, <1>5, <2>1, Stores DEF At
<1>6. CASE /\ At(a, "sync_count")
           /\ runs' = [runs EXCEPT ![RunOf(a)].status = "completed",
                                   ![RunOf(a)].count = attempts[a].answer]
           /\ SyncFails(a, FALSE)
           /\ UNCHANGED <<opportunities, misled>>
    <2>1. PICK v \in AttemptRow : GoesTo(a, v) /\ v.pc = "sync_failed" /\ ~v.reconnect
        BY <1>6, SyncFailing
    <2>. QED  BY <1>1, <1>6, <2>1, Counts DEF At
<1>. QED  BY <1>2, <1>3, <1>4, <1>5, <1>6 DEF AnswerLost

----------------------------------------------------------------------------
(* The queue *)

\* Jobs are handed out, ended or stalled; attempts begin at a job that is there, or end.
LEMMA Hands ==
    ASSUME IInv,
           attempts' \in [Attempt -> AttemptRow],
           \A b \in Attempt :
                \/ attempts'[b] = attempts[b]
                \/ attempts'[b].pc = "idle" /\ attempts'[b].run = None
                \/ attempts'[b].pc = "load" /\ attempts'[b].run \in Run
                    /\ jobs[attempts'[b].run].state # "none",
           jobs' \in [Run -> Jobs(Attempt)], JobInv',
           \A r \in Run : jobs[r].state = "none" => jobs'[r].state = "none",
           split \subseteq split', split' \subseteq Run,
           UNCHANGED <<intents, callbacks, connections, unusable, runs, opportunities, requests, misled>>,
           mishaps' \in 0..MaxMishaps
    PROVE  StepKeeps
<1>1. GscInv' /\ Onward
    BY DEF IInv, GscInv, GscTypeOK, TokenInv, Settled, Pending, NonceInv, InCallback, Onward,
           KeepsResult, ErrorsHaveReason
<1>2. WorkTypeOK'
    BY <1>1 DEF IInv, WorkTypeOK, LedgerTypeOK, GscInv
<1>3. ASSUME NEW b \in Attempt, attempts'[b].pc # "idle"
      PROVE  /\ attempts'[b].run \in Run
             /\ Fits(attempts'[b], runs[attempts'[b].run],
                     attempts'[b].run \in split', attempts'[b].run \in misled)
             /\ HasReason(attempts'[b], runs[attempts'[b].run])
    <2>1. CASE attempts'[b] = attempts[b]
        BY <1>3, <2>1, AttemptOf DEF Fits
    <2>2. CASE attempts'[b].pc = "load"
        <3>1. attempts'[b].run \in Run
            BY <2>2 DEF IInv, AttemptInv
        <3>. QED
            BY <2>2, <3>1 DEF Fits, HasReason, Warrants, CrawlPcs, SerpPcs, ScoutPcs, SyncPcs
    <2>. QED  BY <1>3, <2>1, <2>2
<1>4. AttemptInv'
    BY <1>3 DEF IInv, AttemptInv
<1>5. SyncInv'
    <2>1. \A q \in Sync \ split' : RowsAreCounted(q)  BY DEF IInv, SyncInv
    <2>. QED  BY <1>3, <2>1 DEF SyncInv, RowsAreCounted, HasReason
<1>6. RequestInv'
    <2>1. \A q \in Run : NotStarted(q) => NotStarted(q)'  BY Kinds DEF NotStarted
    <2>2. \A q \in Run : UnderWay(q)' => UnderWay(q)  BY Kinds DEF UnderWay
    <2>. QED  BY <2>1, <2>2 DEF IInv, RequestInv
<1>7. ScoutInv'
    <2>1. ASSUME NEW b \in Attempt, attempts'[b].pc \in {"reason", "scout_persist"},
                 Status(b)' = "running"
          PROVE  split' # {} \/ \A i \in DOMAIN opportunities' :
                    opportunities'[i].status = "new" => opportunities'[i].key \in attempts'[b].seen
        <3>1. attempts'[b] = attempts[b]  BY <2>1
        <3>. QED  BY <2>1, <3>1 DEF IInv, ScoutInv, Status, RunOf, Sees
    <2>2. BriefsAreNew' /\ \A r, q \in ActiveScouts' : r = q
        BY DEF IInv, ScoutInv, BriefsAreNew, ActiveScouts
    <2>. QED  BY <2>1, <2>2 DEF ScoutInv, Sees
<1>. QED  BY <1>1, <1>2, <1>4, <1>5, <1>6, <1>7 DEF IInv, StepKeeps

LEMMA TakeStep ==
    ASSUME IInv, NEW a \in Attempt, NEW r \in Run, Take(a, r)
    PROVE  StepKeeps
<1>. DEFINE v == [NoAttempt EXCEPT !.pc = "load", !.run = r, !.final = FinalAttempt(jobs[r])]
            j == Taken(jobs[r], a)
<1>1. /\ v \in AttemptRow /\ v.pc = "load" /\ v.run = r /\ v.final = FinalAttempt(jobs[r])
    <2>1. FinalAttempt(jobs[r]) \in BOOLEAN  BY DEF FinalAttempt
    <2>2. \A f \in BOOLEAN :
            LET w == [NoAttempt EXCEPT !.pc = "load", !.run = r, !.final = f] IN
            w \in AttemptRow /\ w.pc = "load" /\ w.run = r /\ w.final = f
        <3>. SUFFICES ASSUME NEW f \in BOOLEAN
                      PROVE  LET w == [NoAttempt EXCEPT !.pc = "load", !.run = r, !.final = f] IN
                             w \in AttemptRow /\ w.pc = "load" /\ w.run = r /\ w.final = f
            OBVIOUS
        <3>1. NoAttempt \in AttemptRow /\ "load" \in PcValue  BY Empties DEF PcValue, Pcs
        <3>. QED  BY <3>1, RowOfPcs
    <2>. QED  BY <2>1, <2>2
<1>2. /\ j \in Jobs(Attempt) /\ j.state = "active" /\ j.holder = a /\ j.made = jobs[r].made
    <2>1. jobs[r] \in Jobs(Attempt)  BY DEF IInv, WorkTypeOK
    <2>. QED  BY <2>1 DEF Jobs, Taken
<1>3. /\ jobs[r].state = "waiting" /\ attempts[a].pc = "idle"
      /\ jobs' = [jobs EXCEPT ![r] = j]
      /\ attempts' = [attempts EXCEPT ![a] = v]
      /\ UNCHANGED <<intents, callbacks, connections, unusable, mishaps, runs, opportunities,
                     requests, misled, split>>
    BY DEF Take, At, gscVars
<1>4. FinalAttempt(j) = FinalAttempt(jobs[r])  BY <1>2 DEF FinalAttempt
<1>. HIDE DEF v, j
<1>5. /\ attempts' \in [Attempt -> AttemptRow] /\ jobs' \in [Run -> Jobs(Attempt)]
      /\ attempts'[a] = v /\ \A b \in Attempt \ {a} : attempts'[b] = attempts[b]
      /\ jobs'[r] = j /\ \A q \in Run \ {r} : jobs'[q] = jobs[q]
    BY <1>1, <1>2, <1>3 DEF IInv, WorkTypeOK
<1>6. \A b \in Attempt : attempts[b].run = r => r \in split
    BY <1>3 DEF IInv, JobInv
<1>7. JobInv'
    <2>. SUFFICES ASSUME NEW b \in Attempt, NEW q \in Run, attempts'[b].run = q
                  PROVE  /\ jobs'[q].holder = b =>
                            jobs'[q].state = "active" /\ attempts'[b].final = FinalAttempt(jobs'[q])
                         /\ q \notin split => jobs'[q].state = "active" /\ jobs'[q].holder = b
        BY <1>3, Zenon DEF JobInv, FinalAttempt
    <2>1. CASE b = a
        <3>1. q = r  BY <1>1, <1>5, <2>1
        <3>. QED  BY <1>1, <1>2, <1>4, <1>5, <2>1, <3>1
    <2>2. CASE b # a
        <3>1. attempts'[b] = attempts[b]  BY <1>5, <2>2
        <3>2. CASE q = r  BY <1>2, <1>5, <1>6, <2>2, <3>1, <3>2
        <3>3. CASE q # r  BY <1>5, <3>1, <3>3 DEF IInv, JobInv
        <3>. QED  BY <3>2, <3>3
    <2>. QED  BY <2>1, <2>2
<1>8. \A q \in Run : jobs[q].state = "none" => jobs'[q].state = "none"
    BY <1>3, <1>5
<1>. QED  BY <1>1, <1>3, <1>5, <1>7, <1>8, Hands DEF IInv, WorkTypeOK, LedgerTypeOK, GscTypeOK

\* An attempt ends, and its job, if it still holds it, as j.
LEMMA Idles ==
    ASSUME IInv, NEW a \in Attempt, attempts[a].pc # "idle", NEW r, r = attempts[a].run,
           attempts' = [attempts EXCEPT ![a] = NoAttempt],
           \/ UNCHANGED jobs
           \/ /\ jobs[r].holder = a
              /\ \E j \in Jobs(Attempt) : /\ j.holder = None
                                          /\ jobs' = [jobs EXCEPT ![r] = j],
           UNCHANGED <<intents, callbacks, connections, unusable, runs, opportunities, requests,
                       misled, split>>,
           mishaps' \in 0..MaxMishaps
    PROVE  StepKeeps
<1>1. /\ attempts' \in [Attempt -> AttemptRow] /\ attempts'[a] = NoAttempt
      /\ \A b \in Attempt \ {a} : attempts'[b] = attempts[b]
      /\ r \in Run
    BY Empties, AttemptOf DEF IInv, WorkTypeOK
<1>2. \A b \in Attempt : attempts'[b] = attempts[b] \/ attempts'[b] = NoAttempt
    BY <1>1
<1>3. ASSUME NEW b \in Attempt, NEW q \in Run, attempts'[b].run = q
      PROVE  b # a /\ attempts'[b] = attempts[b]
    BY <1>1, <1>3, Empties, Kinds
<1>4. CASE UNCHANGED jobs
    <2>1. JobInv'  BY <1>3, <1>4 DEF IInv, JobInv, FinalAttempt
    <2>. QED  BY <1>1, <1>2, <1>4, <2>1, Empties, Hands DEF IInv, WorkTypeOK
<1>5. ASSUME jobs[r].holder = a, NEW j \in Jobs(Attempt), j.holder = None,
             jobs' = [jobs EXCEPT ![r] = j]
      PROVE  StepKeeps
    <2>1. /\ jobs' \in [Run -> Jobs(Attempt)]
          /\ jobs'[r] = j /\ \A q \in Run \ {r} : jobs'[q] = jobs[q]
        BY <1>1, <1>5 DEF IInv, WorkTypeOK
    <2>2. \A b \in Attempt : b # a /\ attempts[b].run = r => r \in split
        BY <1>1, <1>5 DEF IInv, JobInv
    <2>3. JobInv'
        BY <1>3, <1>5, <2>1, <2>2, Kinds DEF IInv, JobInv, FinalAttempt
    <2>4. jobs[r].state # "none"
        BY <1>1, <1>5 DEF IInv, JobInv
    <2>. QED  BY <1>1, <1>2, <2>1, <2>3, <2>4, Empties, Hands DEF IInv, WorkTypeOK
<1>. QED  BY <1>4, <1>5

LEMMA EndAttemptStep ==
    ASSUME IInv, NEW a \in Attempt, EndAttempt(a)
    PROVE  StepKeeps
<1>. DEFINE r == attempts[a].run
            again == attempts[a].retry /\ ~attempts[a].final
            j == Ended(jobs[r], again)
<1>1. /\ attempts[a].pc # "idle"
      /\ jobs' = IF jobs[r].holder = a THEN [jobs EXCEPT ![r] = j] ELSE jobs
      /\ attempts' = [attempts EXCEPT ![a] = NoAttempt]
      /\ UNCHANGED <<intents, callbacks, connections, unusable, mishaps, runs, opportunities,
                     requests, misled, split>>
    BY DEF EndAttempt, At, RunOf, gscVars
<1>2. /\ r \in Run /\ jobs[r] \in Jobs(Attempt) /\ attempts[a] \in AttemptRow
      /\ mishaps' \in 0..MaxMishaps
    BY <1>1, AttemptOf DEF IInv, WorkTypeOK, LedgerTypeOK, GscTypeOK
<1>3. CASE jobs[r].holder # a
    <2>1. UNCHANGED jobs  BY <1>1, <1>3
    <2>. HIDE DEF r
    <2>. QED  BY <1>1, <1>2, <2>1, Idles
<1>4. CASE jobs[r].holder = a
    <2>1. again \in BOOLEAN /\ (again => ~FinalAttempt(jobs[r]))
        BY <1>2, <1>4 DEF IInv, JobInv, AttemptRow
    <2>2. j \in Jobs(Attempt) /\ j.holder = None
        <3>. HIDE DEF again
        <3>. QED  BY <1>2, <2>1, JobsOf
    <2>3. jobs' = [jobs EXCEPT ![r] = j]  BY <1>1, <1>4
    <2>. HIDE DEF j
    <2>4. \E k \in Jobs(Attempt) : k.holder = None /\ jobs' = [jobs EXCEPT ![r] = k]
        BY <2>2, <2>3
    <2>. HIDE DEF r
    <2>5. r = attempts[a].run  BY DEF r
    <2>. QED  BY <1>1, <1>2, <1>4, <2>4, <2>5, Idles
<1>. QED  BY <1>3, <1>4

LEMMA AttemptDiesStep ==
    ASSUME IInv, NEW a \in Attempt, AttemptDies(a)
    PROVE  StepKeeps
<1>1. mishaps' \in 0..MaxMishaps
    BY GoingWrong DEF AttemptDies, IInv, WorkTypeOK, LedgerTypeOK, GscTypeOK
<1>. QED  BY <1>1, Idles DEF AttemptDies, At

LEMMA StallStep ==
    ASSUME IInv, NEW r \in Run, Stall(r)
    PROVE  StepKeeps
<1>. DEFINE j == AfterStall(jobs[r])
<1>1. /\ jobs[r].state = "active" /\ jobs' = [jobs EXCEPT ![r] = j]
      /\ split \subseteq split' /\ split' \subseteq Run
      /\ UNCHANGED <<intents, callbacks, connections, unusable, runs, opportunities, requests,
                     misled, attempts>>
      /\ (jobs[r].holder # None /\ RunOf(jobs[r].holder) = r) => r \in split'
    BY DEF Stall, IInv, WorkTypeOK
<1>2. mishaps' \in 0..MaxMishaps
    BY GoingWrong DEF Stall, IInv, WorkTypeOK, LedgerTypeOK, GscTypeOK
<1>3. j \in Jobs(Attempt) /\ j.holder = None
    <2>1. jobs[r] \in Jobs(Attempt)  BY DEF IInv, WorkTypeOK
    <2>. QED  BY <2>1, JobsOf
<1>. HIDE DEF j
<1>4. /\ jobs' \in [Run -> Jobs(Attempt)]
      /\ jobs'[r] = j /\ \A q \in Run \ {r} : jobs'[q] = jobs[q]
    BY <1>1, <1>3 DEF IInv, WorkTypeOK
<1>5. \A b \in Attempt : attempts[b].run = r => r \in split'
    BY <1>1, Kinds DEF IInv, JobInv, RunOf
<1>6. JobInv'
    <2>. SUFFICES ASSUME NEW b \in Attempt, NEW q \in Run, attempts[b].run = q
                  PROVE  /\ jobs'[q].holder = b =>
                            jobs'[q].state = "active" /\ attempts[b].final = FinalAttempt(jobs'[q])
                         /\ q \notin split' => jobs'[q].state = "active" /\ jobs'[q].holder = b
        BY <1>1, Zenon DEF JobInv, FinalAttempt
    <2>1. CASE q = r  BY <1>3, <1>4, <1>5, <2>1, Kinds
    <2>2. CASE q # r  BY <1>1, <1>4, <2>2 DEF IInv, JobInv
    <2>. QED  BY <2>1, <2>2
<1>7. \A q \in Run : jobs[q].state = "none" => jobs'[q].state = "none"
    BY <1>1, <1>4
<1>8. attempts' \in [Attempt -> AttemptRow] /\ \A b \in Attempt : attempts'[b] = attempts[b]
    BY <1>1 DEF IInv, WorkTypeOK
<1>. QED  BY <1>1, <1>2, <1>4, <1>6, <1>7, <1>8, Hands

----------------------------------------------------------------------------
(* Requests *)

\* A request leaves its run as row, its job as j and itself as request.
LEMMA Asks ==
    ASSUME IInv, NEW r \in Run, NEW row \in RunRow, NEW j \in Jobs(Attempt),
           NEW request \in {"adding", "refused", "over"},
           runs' = [runs EXCEPT ![r] = row], jobs' = [jobs EXCEPT ![r] = j],
           requests' = [requests EXCEPT ![r] = request],
           misled \subseteq misled', misled' \subseteq Run,
           row.rows = runs[r].rows, row.count = runs[r].count,
           row.status \in {runs[r].status, "queued", "failed"},
           row.connection = runs[r].connection \/ \A a \in Attempt : attempts[a].run # r,
           jobs[r].state # "none" => j = jobs[r],
           j.holder = jobs[r].holder,
           runs[r].status \in Done => row.status = runs[r].status \/ (r \notin Scout /\ r \in split \cup misled'),
           r \in Scout =>
                (row.status \in Active => runs[r].status \in Active \/ ActiveScouts \subseteq {r}),
           request \in {"adding", "refused"} =>
                \/ request = "refused" /\ r \in misled'
                \/ /\ j.state = "none" /\ \A a \in Attempt : attempts[a].run # r
                   /\ row.status \notin Done,
           r \in Sync => row.connection \in DOMAIN connections \/ (~UnderWay(r) /\ request = "over" /\ j.state = "none"),
           UNCHANGED <<intents, callbacks, connections, unusable, opportunities, attempts, split>>,
           mishaps' \in 0..MaxMishaps
    PROVE  StepKeeps
<1>1. GscInv' /\ ErrorsHaveReason
    BY DEF IInv, GscInv, GscTypeOK, TokenInv, Settled, Pending, NonceInv, InCallback, ErrorsHaveReason
<1>2. /\ runs' \in [Run -> RunRow] /\ runs'[r] = row /\ \A q \in Run \ {r} : runs'[q] = runs[q]
      /\ jobs' \in [Run -> Jobs(Attempt)] /\ jobs'[r] = j /\ \A q \in Run \ {r} : jobs'[q] = jobs[q]
      /\ requests' \in [Run -> {"none", "adding", "refused", "over"}]
      /\ requests'[r] = request /\ \A q \in Run \ {r} : requests'[q] = requests[q]
    BY DEF IInv, WorkTypeOK, LedgerTypeOK
<1>3. WorkTypeOK'
    BY <1>1, <1>2 DEF IInv, WorkTypeOK, LedgerTypeOK, GscInv
<1>4. row.status \in Done \cup {"running"} => row.status = runs[r].status  BY DEF Done
<1>5. AttemptInv'
    <2>1. ASSUME NEW b \in Attempt, attempts[b].pc # "idle"
          PROVE  /\ attempts[b].run \in Run
                 /\ Fits(attempts[b], runs'[attempts[b].run],
                         attempts[b].run \in split, attempts[b].run \in misled')
        <3>1. /\ attempts[b].run \in Run
              /\ Fits(attempts[b], runs[attempts[b].run],
                      attempts[b].run \in split, attempts[b].run \in misled)
            BY <2>1, AttemptOf
        <3>2. CASE attempts[b].run = r
            <4>1. "completed" \in Done  BY DEF Done
            <4>. QED  BY <1>2, <1>4, <3>1, <3>2, <4>1 DEF Fits
        <3>3. CASE attempts[b].run # r  BY <1>2, <3>1, <3>3 DEF Fits
        <3>. QED  BY <3>1, <3>2, <3>3
    <2>. QED  BY <2>1 DEF IInv, AttemptInv
<1>6. JobInv'
    <2>. SUFFICES ASSUME NEW b \in Attempt, NEW q \in Run, attempts[b].run = q
                  PROVE  /\ jobs'[q].holder = b =>
                            jobs'[q].state = "active" /\ attempts[b].final = FinalAttempt(jobs'[q])
                         /\ q \notin split => jobs'[q].state = "active" /\ jobs'[q].holder = b
        BY Zenon DEF JobInv, FinalAttempt
    <2>1. /\ jobs[q].holder = b =>
                jobs[q].state = "active" /\ attempts[b].final = FinalAttempt(jobs[q])
          /\ q \notin split => jobs[q].state = "active" /\ jobs[q].holder = b
        BY DEF IInv, JobInv
    <2>2. CASE q = r  BY <1>2, <2>1, <2>2
    <2>3. CASE q # r  BY <1>2, <2>1, <2>3
    <2>. QED  BY <2>2, <2>3
<1>7. RequestInv'
    <2>. SUFFICES ASSUME NEW q \in Run
                  PROVE  /\ requests'[q] = "none" => runs'[q].status = "absent"
                         /\ requests'[q] \in {"none", "adding"} => NotStarted(q)'
                         /\ requests'[q] = "refused" => q \in misled' \/ NotStarted(q)'
                         /\ q \in Sync /\ UnderWay(q)' => runs'[q].connection \in DOMAIN connections
        BY DEF RequestInv
    <2>1. CASE q = r
        <3>1. request = "adding" \/ (request = "refused" /\ r \notin misled') => NotStarted(r)'
            BY <1>2 DEF NotStarted
        <3>2. ~UnderWay(r) /\ request = "over" /\ j.state = "none" => ~UnderWay(r)'
            BY <1>2 DEF UnderWay
        <3>. QED  BY <1>2, <2>1, <3>1, <3>2
    <2>2. CASE q # r
        <3>1. (NotStarted(q)' <=> NotStarted(q)) /\ (UnderWay(q)' <=> UnderWay(q))
            BY <1>2, <2>2 DEF NotStarted, UnderWay
        <3>. QED  BY <1>2, <2>2, <3>1 DEF IInv, RequestInv
    <2>. QED  BY <2>1, <2>2
<1>8. SyncInv'
    <2>1. \A q \in Sync \ split : RowsAreCounted(q)'
        BY <1>2, <1>4, Kinds DEF IInv, SyncInv, RowsAreCounted, Done
    <2>2. ASSUME NEW b \in Attempt, attempts[b].pc # "idle"
          PROVE  HasReason(attempts[b], runs'[attempts[b].run])
        <3>1. attempts[b].run \in Run /\ HasReason(attempts[b], runs[attempts[b].run])
            BY <2>2, AttemptOf
        <3>2. runs'[attempts[b].run].connection = runs[attempts[b].run].connection
            BY <1>2, <3>1
        <3>. QED  BY <3>1, <3>2 DEF HasReason
    <2>. QED  BY <2>1, <2>2 DEF SyncInv, HasReason
<1>9. \A q \in Scout : runs[q].status \in Done => runs'[q].status \in Done
    BY <1>2, Kinds
<1>10. ScoutInv'
    <2>1. \A p, q \in ActiveScouts' : p = q
        BY <1>2, Kinds DEF IInv, ScoutInv, ActiveScouts
    <2>2. ASSUME NEW b \in Attempt, attempts[b].pc \in {"reason", "scout_persist"},
                 runs'[attempts[b].run].status = "running"
          PROVE  split # {} \/ Sees(attempts[b])
        <3>1. attempts[b].run \in Run  BY <2>2, AttemptOf
        <3>2. runs[attempts[b].run].status = "running"  BY <1>2, <1>4, <2>2, <3>1
        <3>. QED  BY <2>2, <3>2 DEF IInv, ScoutInv, Status, RunOf
    <2>3. \A i \in DOMAIN opportunities : opportunities[i].run \in Scout
        BY Opportunities DEF IInv, WorkTypeOK
    <2>4. BriefsAreNew'
        BY <1>9, <2>3 DEF IInv, ScoutInv, BriefsAreNew
    <2>. QED  BY <2>1, <2>2, <2>4 DEF ScoutInv, Status, RunOf, Sees
<1>11. Onward
    <2>1. \A q \in Crawl \cup Serp : KeepsResult(q)
        BY <1>2, Kinds DEF KeepsResult
    <2>. QED  BY <1>1, <1>9, <2>1 DEF Onward
<1>. QED  BY <1>1, <1>3, <1>5, <1>6, <1>7, <1>8, <1>10, <1>11 DEF IInv, StepKeeps

LEMMA RowWith ==
    ASSUME NEW row \in RunRow, NEW status \in {"queued", "failed"}, NEW connection \in Nat
    PROVE  \A new : new \in {[row EXCEPT !.status = status],
                             [row EXCEPT !.status = status, !.connection = connection]} =>
                new \in RunRow /\ new.status = status /\ new.rows = row.rows /\ new.count = row.count
BY DEF RunRow, Active

LEMMA RequestRunStep ==
    ASSUME IInv, NEW r \in Run, RequestRun(r), UNCHANGED <<attempts, split>>
    PROVE  StepKeeps
<1>1. /\ requests[r] = "none" /\ requests' = [requests EXCEPT ![r] = "adding"]
      /\ UNCHANGED <<intents, callbacks, connections, unusable, mishaps, opportunities, jobs, misled>>
    BY DEF RequestRun, gscVars
<1>2. /\ runs[r] \in RunRow /\ jobs[r] \in Jobs(Attempt) /\ runs[r].status = "absent"
      /\ jobs[r].state = "none" /\ \A a \in Attempt : attempts[a].run # r
      /\ jobs' = [jobs EXCEPT ![r] = jobs[r]] /\ mishaps' \in 0..MaxMishaps
      /\ misled \subseteq misled' /\ misled' \subseteq Run
    BY <1>1 DEF IInv, WorkTypeOK, LedgerTypeOK, GscTypeOK, RequestInv, NotStarted
<1>3. "absent" \notin Done /\ "queued" \notin Done  BY DEF Done
<1>4. ASSUME NEW row \in RunRow, runs' = [runs EXCEPT ![r] = row],
             row.rows = runs[r].rows, row.count = runs[r].count,
             row.status \in {"absent", "queued"},
             r \in Scout => ActiveScouts = {},
             r \in Sync => row.connection \in DOMAIN connections
      PROVE  StepKeeps
    <2>1. /\ runs[r].status \notin Done /\ row.status \notin Done
          /\ row.status \in {runs[r].status, "queued", "failed"}
        BY <1>2, <1>3, <1>4
    <2>2. r \in Scout =>
            (row.status \in Active => runs[r].status \in Active \/ ActiveScouts \subseteq {r})
        BY <1>4
    <2>3. UNCHANGED <<intents, callbacks, connections, unusable, opportunities, attempts, split>>
        BY <1>1
    <2>. QED  BY <1>1, <1>2, <1>4, <2>1, <2>2, <2>3, Asks
<1>5. CASE RequestImport(r) \/ RequestAudit(r) \/ RequestScout(r)
    <2>. DEFINE row == [runs[r] EXCEPT !.status = "queued"]
    <2>1. row \in RunRow /\ row.status = "queued" /\ row.rows = runs[r].rows /\ row.count = runs[r].count
        BY <1>2, RowWith
    <2>2. runs' = [runs EXCEPT ![r] = row]
        BY <1>5 DEF RequestImport, RequestAudit, RequestScout, SetStatus
    <2>3. r \notin Sync /\ (r \in Scout => ActiveScouts = {})
        BY <1>5, Kinds DEF RequestImport, RequestAudit, RequestScout, Crawl
    <2>. HIDE DEF row
    <2>. QED  BY <1>4, <2>1, <2>2, <2>3
<1>6. CASE RequestSerp(r)
    <2>1. r \notin Sync /\ r \notin Scout /\ runs' = [runs EXCEPT ![r] = runs[r]]
        BY <1>6, Kinds DEF RequestSerp, IInv, WorkTypeOK, LedgerTypeOK
    <2>. QED  BY <1>2, <1>4, <2>1
<1>7. CASE RequestSync(r)
    <2>. DEFINE row == [runs[r] EXCEPT !.status = "queued", !.connection = Latest]
    <2>1. Latest \in Nat /\ Latest \in DOMAIN connections
        BY <1>7, ConnectionRows DEF RequestSync, Latest, IInv
    <2>2. /\ row \in RunRow /\ row.status = "queued" /\ row.rows = runs[r].rows /\ row.count = runs[r].count
          /\ row.connection = Latest
        BY <1>2, <2>1, RowWith DEF RunRow
    <2>3. runs' = [runs EXCEPT ![r] = row]
        BY <1>7 DEF RequestSync, IInv, WorkTypeOK, LedgerTypeOK
    <2>4. r \notin Scout  BY <1>7, Kinds DEF RequestSync
    <2>. HIDE DEF row
    <2>. QED  BY <1>4, <2>1, <2>2, <2>3, <2>4
<1>. QED  BY <1>5, <1>6, <1>7 DEF RequestRun

LEMMA AddSteps ==
    ASSUME IInv, NEW r \in Run, AddJob(r) \/ AddFails(r), UNCHANGED <<attempts, split>>
    PROVE  StepKeeps
<1>1. /\ requests[r] = "adding"
      /\ UNCHANGED <<intents, callbacks, connections, unusable, runs, opportunities>>
      /\ mishaps' \in 0..MaxMishaps /\ misled \subseteq misled' /\ misled' \subseteq Run
    BY GoingWrong DEF AddJob, AddFails, gscVars, IInv, WorkTypeOK, LedgerTypeOK, GscTypeOK
<1>2. /\ runs[r] \in RunRow /\ jobs[r] \in Jobs(Attempt)
      /\ jobs[r].state = "none" /\ (\A a \in Attempt : attempts[a].run # r) /\ runs[r].status \notin Done
      /\ runs' = [runs EXCEPT ![r] = runs[r]]
      /\ r \in Sync => runs[r].connection \in DOMAIN connections
    BY <1>1 DEF IInv, WorkTypeOK, LedgerTypeOK, RequestInv, NotStarted, UnderWay
<1>3. Enqueued(jobs[r]) \in Jobs(Attempt) /\ Enqueued(jobs[r]).holder = jobs[r].holder
    BY <1>2, JobsOf
<1>4. ASSUME NEW j \in Jobs(Attempt), jobs' = [jobs EXCEPT ![r] = j], j.holder = jobs[r].holder,
             NEW request \in {"refused", "over"}, requests' = [requests EXCEPT ![r] = request],
             request = "refused" => r \in misled' \/ j.state = "none"
      PROVE  StepKeeps
    BY <1>1, <1>2, <1>4, Asks
<1>5. CASE jobs' = [jobs EXCEPT ![r] = Enqueued(jobs[r])] /\ requests' = [requests EXCEPT ![r] = "over"]
    BY <1>3, <1>4, <1>5
<1>6. CASE /\ jobs' = [jobs EXCEPT ![r] = Enqueued(jobs[r])] /\ misled' = misled \cup {r}
           /\ requests' = [requests EXCEPT ![r] = "refused"]
    BY <1>3, <1>4, <1>6
<1>7. CASE UNCHANGED jobs /\ requests' = [requests EXCEPT ![r] = "refused"]
    <2>1. jobs' = [jobs EXCEPT ![r] = jobs[r]]  BY <1>7 DEF IInv, WorkTypeOK
    <2>. QED  BY <1>2, <1>4, <1>7, <2>1
<1>. QED  BY <1>5, <1>6, <1>7 DEF AddJob, AddFails

LEMMA GivingUpSteps ==
    ASSUME IInv, NEW r \in Run, MarkQueueFailure(r) \/ RequestDies(r), UNCHANGED <<attempts, split>>
    PROVE  StepKeeps
<1>1. /\ requests[r] \in {"adding", "refused"} /\ requests' = [requests EXCEPT ![r] = "over"]
      /\ UNCHANGED <<intents, callbacks, connections, unusable, opportunities, jobs, misled>>
      /\ mishaps' \in 0..MaxMishaps /\ misled \subseteq misled' /\ misled' \subseteq Run
    BY GoingWrong DEF MarkQueueFailure, RequestDies, gscVars, IInv, WorkTypeOK, LedgerTypeOK, GscTypeOK
<1>2. /\ runs[r] \in RunRow /\ jobs[r] \in Jobs(Attempt)
      /\ jobs' = [jobs EXCEPT ![r] = jobs[r]]
      /\ r \in Sync => runs[r].connection \in DOMAIN connections
    BY <1>1 DEF IInv, WorkTypeOK, LedgerTypeOK, RequestInv, UnderWay
<1>3. ASSUME NEW row \in RunRow, runs' = [runs EXCEPT ![r] = row],
             row.rows = runs[r].rows, row.count = runs[r].count, row.connection = runs[r].connection,
             row = runs[r]
                \/ /\ row.status = "failed"
                   /\ runs[r].status \in Done => r \notin Scout /\ r \in misled
      PROVE  StepKeeps
    <2>1. "failed" \notin Active  BY DEF Active
    <2>2. CASE row = runs[r]
        <3>1. row.status = runs[r].status /\ (r \in Sync => row.connection \in DOMAIN connections)
            BY <1>2, <1>3, <2>2
        <3>2. row.status \in {runs[r].status, "queued", "failed"}  BY <3>1
        <3>3. /\ runs' = [runs EXCEPT ![r] = row] /\ row.rows = runs[r].rows
              /\ row.count = runs[r].count /\ row.connection = runs[r].connection
            BY <1>3
        <3>4. /\ runs[r].status \in Done =>
                    row.status = runs[r].status \/ (r \notin Scout /\ r \in split \cup misled')
              /\ r \in Scout =>
                    (row.status \in Active => runs[r].status \in Active \/ ActiveScouts \subseteq {r})
            BY <3>1
        <3>. QED  BY <1>1, <1>2, <3>1, <3>2, <3>3, <3>4, Asks
    <2>3. CASE row.status = "failed" /\ (runs[r].status \in Done => r \notin Scout /\ r \in misled)
        <3>1. r \in Sync => row.connection \in DOMAIN connections  BY <1>2, <1>3
        <3>2. runs[r].status \in Done => r \notin Scout /\ r \in split \cup misled'
            BY <1>1, <2>3
        <3>. QED  BY <1>1, <1>2, <1>3, <2>1, <2>3, <3>1, <3>2, Asks
    <2>. QED  BY <1>3, <2>2, <2>3
<1>4. CASE UNCHANGED runs
    <2>1. runs' = [runs EXCEPT ![r] = runs[r]]  BY <1>4 DEF IInv, WorkTypeOK, LedgerTypeOK
    <2>. QED  BY <1>2, <1>3, <2>1
<1>5. CASE requests[r] = "refused" /\ ~(r \in Serp \/ (r \in Scout /\ r \notin ActiveScouts))
           /\ SetStatus(r, "failed")
    <2>. DEFINE row == [runs[r] EXCEPT !.status = "failed"]
    <2>1. row \in RunRow /\ row.status = "failed" /\ row.rows = runs[r].rows /\ row.count = runs[r].count
        BY <1>2, RowWith
    <2>2. runs' = [runs EXCEPT ![r] = row]  BY <1>5 DEF SetStatus
    <2>3. row.connection = runs[r].connection  BY <1>2 DEF RunRow
    <2>4. runs[r].status \in Done => r \in misled
        BY <1>5 DEF IInv, RequestInv, NotStarted
    <2>5. runs[r].status \in Done => r \notin Scout
        BY <1>5 DEF ActiveScouts, Active, Done
    <2>. HIDE DEF row
    <2>. QED  BY <1>3, <2>1, <2>2, <2>3, <2>4, <2>5
<1>. QED  BY <1>4, <1>5 DEF MarkQueueFailure, RequestDies

LEMMA DecideStep ==
    ASSUME IInv, NEW i \in DOMAIN opportunities, Decide(i), UNCHANGED <<attempts, split>>
    PROVE  StepKeeps
<1>. DEFINE S == [run : Scout, key : Key, status : {"new", "rejected", "reopened"}]
            o == [opportunities[i] EXCEPT !.status =
                    IF opportunities[i].status = "rejected" THEN "reopened" ELSE "rejected"]
<1>1. /\ Len(opportunities) \in Nat /\ DOMAIN opportunities = 1..Len(opportunities)
      /\ opportunities \in [1..Len(opportunities) -> S] /\ opportunities[i] \in S
    BY Opportunities DEF IInv, WorkTypeOK, LedgerTypeOK
<1>2. /\ o \in S /\ o.run = opportunities[i].run /\ o.key = opportunities[i].key /\ o.status # "new"
    BY <1>1
<1>3. /\ opportunities' = [opportunities EXCEPT ![i] = o]
      /\ UNCHANGED <<intents, callbacks, connections, unusable, mishaps, runs, jobs, requests, misled>>
    BY DEF Decide, gscVars
<1>. HIDE DEF o
<1>4. /\ DOMAIN opportunities' = DOMAIN opportunities
      /\ \A j \in DOMAIN opportunities :
            /\ opportunities'[j].run = opportunities[j].run
            /\ opportunities'[j].key = opportunities[j].key
            /\ opportunities'[j].status = "new" => opportunities[j].status = "new"
      /\ opportunities' \in [1..Len(opportunities) -> S]
    BY <1>1, <1>2, <1>3
<1>. HIDE DEF S
<1>5. opportunities' \in Seq(S)  BY <1>1, <1>4
<1>6. GscInv' /\ Onward
    BY <1>3 DEF IInv, GscInv, GscTypeOK, TokenInv, Settled, Pending, NonceInv, InCallback, Onward,
           KeepsResult, ErrorsHaveReason
<1>7. WorkTypeOK'
    BY <1>3, <1>5, <1>6 DEF IInv, WorkTypeOK, LedgerTypeOK, GscInv, S
<1>8. AttemptInv' /\ SyncInv'
    BY <1>3 DEF IInv, AttemptInv, SyncInv, RowsAreCounted, HasReason
<1>9. JobInv' /\ RequestInv'
    BY <1>3 DEF IInv, JobInv, FinalAttempt, RequestInv, NotStarted, UnderWay
<1>10. ScoutInv'
    <2>1. \A v : Sees(v) => \A j \in DOMAIN opportunities' :
                opportunities'[j].status = "new" => opportunities'[j].key \in v.seen
        BY <1>4 DEF Sees
    <2>2. BriefsAreNew'  BY <1>3, <1>4 DEF IInv, ScoutInv, BriefsAreNew
    <2>. QED  BY <1>3, <2>1, <2>2 DEF IInv, ScoutInv, ActiveScouts, Status, RunOf, Sees
<1>. QED  BY <1>6, <1>7, <1>8, <1>9, <1>10 DEF IInv, StepKeeps

LEMMA OAuthStepKeeps ==
    ASSUME IInv, OAuthStep, UNCHANGED <<runs, opportunities, jobs, requests, misled, attempts, split>>
    PROVE  StepKeeps
<1>1. GscInv' /\ RowsStay /\ NoErrors  BY OAuthKeeps DEF IInv
<1>2. WorkTypeOK'  BY <1>1 DEF IInv, WorkTypeOK, LedgerTypeOK, GscInv
<1>3. AttemptInv'  BY DEF IInv, AttemptInv
<1>4. JobInv'  BY DEF IInv, JobInv, FinalAttempt
<1>5. RequestInv'
    <2>1. \A r \in Run : (NotStarted(r)' <=> NotStarted(r)) /\ (UnderWay(r)' <=> UnderWay(r))
        BY DEF NotStarted, UnderWay
    <2>. QED  BY <1>1, <2>1 DEF IInv, RequestInv, RowsStay
<1>6. SyncInv'
    <2>1. ASSUME NEW b \in Attempt, attempts[b].pc # "idle"
          PROVE  Warrants(connections'[runs[attempts[b].run].connection], unusable', attempts[b])
        <3>1. /\ HasReason(attempts[b], runs[attempts[b].run])
              /\ attempts[b].pc \in SyncPcs => runs[attempts[b].run].connection \in DOMAIN connections
            BY <2>1, AttemptOf DEF Fits
        <3>. QED  BY <1>1, <3>1 DEF HasReason, Warrants, RowsStay, SyncPcs
    <2>2. \A r \in Sync \ split : RowsAreCounted(r)'  BY DEF IInv, SyncInv, RowsAreCounted
    <2>. QED  BY <2>1, <2>2 DEF SyncInv, HasReason
<1>7. ScoutInv'
    BY DEF IInv, ScoutInv, ActiveScouts, Status, RunOf, Sees, BriefsAreNew
<1>8. Onward  BY <1>1 DEF NoErrors, Onward, KeepsResult, ErrorsHaveReason
<1>. QED  BY <1>1, <1>2, <1>3, <1>4, <1>5, <1>6, <1>7, <1>8 DEF IInv, StepKeeps

----------------------------------------------------------------------------
(* The steps together *)

LEMMA NextKeeps == ASSUME IInv, [Next]_vars PROVE StepKeeps
<1>1. CASE OAuthStep /\ UNCHANGED <<runs, opportunities, jobs, requests, misled, attempts, split>>
    BY <1>1, OAuthStepKeeps
<1>2. CASE EvidenceRequest /\ UNCHANGED <<attempts, split>>
    BY <1>2, RequestRunStep, AddSteps, GivingUpSteps, DecideStep DEF EvidenceRequest
<1>3. CASE EvidenceStep
    <2>1. ASSUME NEW a \in Attempt, AttemptStep(a) PROVE StepKeeps
        BY <2>1, TakeStep, CrawlSteps, SerpSteps, ScoutThinks, ScoutWrites, SyncSteps, EndAttemptStep
        DEF AttemptStep, ScoutStep
    <2>2. ASSUME NEW a \in Attempt, Throws(a) \/ AnswerLost(a) \/ AttemptDies(a) PROVE StepKeeps
        BY <2>2, ThrowsStep, AnswerLostStep, AttemptDiesStep
    <2>. QED  BY <1>3, <2>1, <2>2, StallStep DEF EvidenceStep
<1>4. CASE UNCHANGED vars
    <2>. USE <1>4 DEF vars, ledgerVars, gscVars
    <2>1. GscInv'
        BY DEF IInv, GscInv, GscTypeOK, TokenInv, Settled, Pending, NonceInv, InCallback
    <2>2. WorkTypeOK'  BY <2>1 DEF IInv, WorkTypeOK, LedgerTypeOK, GscInv
    <2>3. AttemptInv' /\ JobInv'  BY DEF IInv, AttemptInv, JobInv, FinalAttempt
    <2>4. RequestInv'  BY DEF IInv, RequestInv, NotStarted, UnderWay
    <2>5. SyncInv' /\ ScoutInv'
        BY DEF IInv, SyncInv, RowsAreCounted, HasReason, ScoutInv, ActiveScouts, Status, RunOf,
               Sees, BriefsAreNew
    <2>6. Onward  BY DEF Onward, KeepsResult, ErrorsHaveReason
    <2>. QED  BY <2>1, <2>2, <2>3, <2>4, <2>5, <2>6 DEF IInv, StepKeeps
<1>. QED  BY <1>1, <1>2, <1>3, <1>4 DEF Next

LEMMA Invariant == Spec => []IInv /\ [][Onward]_vars
<1>1. Init => IInv  BY Begins
<1>2. IInv /\ [Next]_vars => IInv' /\ [Onward]_vars  BY NextKeeps DEF StepKeeps
<1>. QED  BY <1>1, <1>2, PTL DEF Spec

\* The rows, the jobs and the local variables of the handlers (WorkTypeOK) have their types.
THEOREM EvidenceTypes == Spec => []WorkTypeOK
<1>1. IInv => WorkTypeOK  BY DEF IInv
<1>. QED  BY <1>1, Invariant, PTL

\* BriefsAreNew: no two open opportunities are about the same, and no run stores briefs twice,
\* whatever runs, operators and failures come between gathering evidence and storing a brief.
THEOREM ScoutsRepeatNothing == Spec => []BriefsAreNew
<1>1. IInv => BriefsAreNew  BY DEF IInv, ScoutInv
<1>. QED  BY <1>1, Invariant, PTL

\* ResultsStay: no step takes back what a run has brought, but for overlapping attempts and
\* errors that misreport; a completed sync's row_count is the number of its rows.
THEOREM RunKeepsItsResult == Spec => ResultsStay
<1>. DEFINE A == /\ \A r \in Crawl \cup Serp : KeepsResult(r)
                 /\ \A r \in Scout : runs[r].status \in Done => runs'[r].status \in Done
            P == \A r \in Sync \ split : RowsAreCounted(r)
<1>1. IInv => P  BY DEF IInv, SyncInv
<1>2. Onward => A  BY DEF Onward
<1>3. Spec => [][A]_vars /\ []P
    <2>. HIDE DEF A, P
    <2>. QED  BY <1>1, <1>2, Invariant, PTL
<1>. QED  BY <1>3 DEF ResultsStay

\* GrantsHold: a nonce makes one connection, no connection keeps its token once the callback of
\* a later grant is through, and a sync only takes a connection away whose own token some sync
\* could not use, not the one that has replaced it.
THEOREM ConnectionIsTheLastGrant == Spec => GrantsHold
<1>. DEFINE A == \A i \in DOMAIN connections :
                    connections[i].status = "connected" /\ connections'[i].status = "error"
                        => connections[i].nonce \in unusable
<1>1. IInv => LastGrant  BY GscGrants DEF IInv
<1>2. Onward => A  BY DEF Onward, ErrorsHaveReason
<1>3. Spec => LastGrant /\ [][LastGrant' /\ A]_vars
    <2>. HIDE DEF A
    <2>. QED  BY <1>1, <1>2, Invariant, PTL
<1>. QED  BY <1>3, PTL DEF GrantsHold
=============================================================================
