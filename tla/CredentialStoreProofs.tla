------------------------ MODULE CredentialStoreProofs ------------------------
(***************************************************************************)
(* Proofs about CredentialStore, for every number of rows, names, secrets  *)
(* and simultaneous requests.                                              *)
(***************************************************************************)
EXTENDS CredentialStore, TLAPS

-----------------------------------------------------------------------------
(* The invariant. Between two statements a handler relies on what it has     *)
(* read; only another request on the same credential can make that untrue.   *)

\* The credential that a handler is going to write or to hand out is there.
Held ==
    \A r \in Requests : req[r].pc \in {"upsert", "updateCred", "setUsers", "deleteCred"} =>
        /\ creds[req[r].on[2]] # None \/ req[r].on \in overlapped
        /\ req[r].pc = "upsert" => req[r].row.cred = req[r].on[2]

\* What the count of the users showed still holds when the credential is deleted.
Unused ==
    \A r \in Requests : req[r].pc = "deleteCred" =>
        UsersOf(req[r].on[2]) = {} \/ req[r].on \in overlapped

\* The id of a client credential is never given to another one.
Fresh ==
    /\ \A c \in ClientIds : clients[c] # None => c <= last.client
    /\ \A r \in Requests : req[r].pc = "updateClient" => req[r].on[2] <= last.client

\* A request that carries no secret writes the one that is stored.
Carried ==
    \A r \in Requests : req[r].pc = "updateClient" /\ req[r].blank =>
        LET c == req[r].on[2] IN
        \/ clients[c] = None
        \/ clients[c].kind # req[r].row.kind
        \/ clients[c] = req[r].row
        \/ req[r].on \in overlapped

StoreInv ==
    StoreTypeOK /\ Held /\ Unused /\ Listable /\ GrantsRefer /\ Fresh /\ Carried

-----------------------------------------------------------------------------
(* Typing *)

\* What a handler keeps at each of its stages.
CredStages == {"upsert", "updateCred", "setUsers", "deleteCred"}

LEMMA RequestShape ==
    ASSUME NEW q \in Request
    PROVE  /\ q.pc \in CredStages \cup {"idle", "updateClient"}
           /\ q.pc \in CredStages => q.on[2] \in CredIds /\ q.on = <<"cred", q.on[2]>>
           /\ q.pc = "upsert" => q.id \in 0..MaxServers /\ q.row \in ServerRow
           /\ q.pc = "updateCred" => q.row \in AuthRow /\ q.users \subseteq Names
           /\ q.pc = "setUsers" => q.users \subseteq Names
           /\ q.pc = "updateClient" => /\ q.on[2] \in ClientIds /\ q.on = <<"client", q.on[2]>>
                                       /\ q.row \in AuthRow /\ q.blank \in BOOLEAN
                                       /\ q.users \subseteq Names
BY DEF Request, Idle, CredStages

LEMMA RequestMade ==
    /\ Idle \in Request
    /\ \A c \in CredIds :
        /\ \A i \in 0..MaxServers, row \in ServerRow :
            [pc |-> "upsert", on |-> <<"cred", c>>, id |-> i, row |-> row] \in Request
        /\ \A row \in AuthRow, u \in SUBSET Names :
            [pc |-> "updateCred", on |-> <<"cred", c>>, row |-> row, users |-> u] \in Request
        /\ \A u \in SUBSET Names :
            [pc |-> "setUsers", on |-> <<"cred", c>>, users |-> u] \in Request
        /\ [pc |-> "deleteCred", on |-> <<"cred", c>>] \in Request
    /\ \A c \in ClientIds, row \in AuthRow, b \in BOOLEAN, u \in SUBSET Names :
        [pc |-> "updateClient", on |-> <<"client", c>>, row |-> row, blank |-> b,
         users |-> u] \in Request
BY DEF Request

LEMMA KeptTyped ==
    ASSUME NEW k \in Kinds, NEW g \in Secrets \cup {Blank}, NEW row \in AuthRow
    PROVE  Kept(k, g, row) \in AuthRow
BY DEF Kept, AuthRow

LEMMA NewServerTyped ==
    ASSUME NEW n \in Names, NEW t \in {"ssh", "agent"}, NEW c \in CredIds \cup {None}
    PROVE  [name |-> n, type |-> t, cred |-> c] \in ServerRow
BY DEF ServerRow

LEMMA SavedTyped ==
    ASSUME StoreTypeOK, NEW i \in 0..MaxServers, NEW row \in ServerRow, Saved(i, row),
           req' \in [Requests -> Request]
    PROVE  StoreTypeOK'
<1> USE StoreAssumption DEF StoreTypeOK, Saved, ServerIds
<1>1. CASE i = 0
  <2>1. last.server + 1 \in ServerIds /\ last.server \in Nat
    BY <1>1
  <2>2. last' = [last EXCEPT !.server = last.server + 1]
        /\ servers' = [servers EXCEPT ![last.server + 1] = row]
    BY <1>1
  <2>3. last'.server = last.server + 1
        /\ last' \in [server : 0..MaxServers, cred : 0..MaxCreds, client : 0..MaxClients]
    BY <2>1, <2>2
  <2>4. servers' \in [ServerIds -> ServerRow \cup {None}]
        /\ \A s \in ServerIds : s > last'.server => servers'[s] = None
    BY <2>1, <2>2, <2>3
  <2> QED BY <2>3, <2>4
<1>2. CASE i # 0
  <2>1. i \in ServerIds /\ servers[i] # None
    BY <1>2 DEF Server
  <2> QED BY <1>2, <2>1
<1> QED BY <1>1, <1>2

LEMMA ServerTyped ==
    ASSUME StoreTypeOK, NEW r \in Requests, ServerRequest(r)
    PROVE  StoreTypeOK'
<1>0. req[r] \in Request /\ \A q \in Request : Goes(r, q) => req' \in [Requests -> Request]
  BY DEF StoreTypeOK, Goes
<1>1. CASE UpsertPlain(r)
  <2>1. PICK i \in 0..MaxServers, n \in Names, t \in {"ssh", "agent"} :
            Saved(i, [name |-> n, type |-> t, cred |-> None])
    BY <1>1 DEF UpsertPlain
  <2>2. req' \in [Requests -> Request]
    BY <1>1 DEF UpsertPlain, OneStep, StoreTypeOK
  <2> QED BY <2>1, <2>2, NewServerTyped, SavedTyped
<1>2. CASE UpsertReads(r)
  <2>1. req' \in [Requests -> Request]
    BY <1>0, <1>2, RequestMade, NewServerTyped DEF UpsertReads
  <2> QED BY <1>2, <2>1 DEF UpsertReads, tables, StoreTypeOK
<1>3. CASE UpsertWrites(r)
  <2>1. req' \in [Requests -> Request]
    BY <1>0, <1>3, RequestMade DEF UpsertWrites
  <2>2. req[r].id \in 0..MaxServers /\ req[r].row \in ServerRow
    BY <1>0, <1>3, RequestShape DEF UpsertWrites
  <2>3. CASE UNCHANGED tables
    BY <2>1, <2>3 DEF tables, StoreTypeOK
  <2>4. CASE Saved(req[r].id, req[r].row)
    BY <2>1, <2>2, <2>4, SavedTyped
  <2> QED BY <1>3, <2>3, <2>4 DEF UpsertWrites
<1>4. CASE DeleteServer(r)
  BY <1>4 DEF DeleteServer, OneStep, StoreTypeOK
<1>5. CASE BulkServerCredential(r)
  <2>1. PICK S \in SUBSET ServerIds, c \in CredIds \cup {None} :
            (\A s \in S : Server(s)) /\ servers' = WithCred(S, c)
    BY <1>5 DEF BulkServerCredential
  <2>2. \A s \in S : [servers[s] EXCEPT !.cred = c] \in ServerRow
    BY <2>1 DEF StoreTypeOK, Server, ServerRow
  <2>3. \A s \in ServerIds : s > last.server => s \notin S
    BY <2>1 DEF StoreTypeOK, Server
  <2> QED BY <1>5, <2>1, <2>2, <2>3 DEF BulkServerCredential, WithCred, OneStep, StoreTypeOK
<1> QED BY <1>1, <1>2, <1>3, <1>4, <1>5 DEF ServerRequest

LEMMA CredTyped ==
    ASSUME StoreTypeOK, NEW r \in Requests, CredRequest(r)
    PROVE  StoreTypeOK'
<1>0. req[r] \in Request /\ \A q \in Request : Goes(r, q) => req' \in [Requests -> Request]
  BY DEF StoreTypeOK, Goes
<1>1. CASE CreateCred(r)
  <2>1. last.cred + 1 \in CredIds
    BY <1>1, StoreAssumption DEF CreateCred, StoreTypeOK, CredIds
  <2>2. req' \in [Requests -> Request]
    BY <1>0, <1>1, <2>1, RequestMade DEF CreateCred
  <2> QED BY <1>1, <2>1, <2>2, StoreAssumption DEF CreateCred, StoreTypeOK
<1>2. CASE UpdateCredReads(r)
  <2>1. req' \in [Requests -> Request]
    BY <1>0, <1>2, RequestMade, KeptTyped DEF UpdateCredReads, StoreTypeOK
  <2> QED BY <1>2, <2>1 DEF UpdateCredReads, tables, StoreTypeOK
<1>3. CASE UpdateCredWrites(r)
  <2>1. req[r].on[2] \in CredIds /\ req[r].row \in AuthRow /\ req[r].users \subseteq Names
        /\ req[r].on = <<"cred", req[r].on[2]>>
    BY <1>0, <1>3, RequestShape DEF UpdateCredWrites, CredStages
  <2>2. req' \in [Requests -> Request]
    BY <1>0, <1>3, <2>1, RequestMade DEF UpdateCredWrites
  <2> QED BY <1>3, <2>1, <2>2 DEF UpdateCredWrites, StoreTypeOK
<1>4. CASE SetUsers(r)
  <2>1. req[r].on[2] \in CredIds
    BY <1>0, <1>4, RequestShape DEF SetUsers, CredStages
  <2>2. req' \in [Requests -> Request]
    BY <1>0, <1>4, RequestMade DEF SetUsers
  <2>3. \A s \in ServerIds : Server(s) =>
            \A c \in CredIds \cup {None} : [servers[s] EXCEPT !.cred = c] \in ServerRow
    BY DEF StoreTypeOK, Server, ServerRow
  <2>4. servers' \in [ServerIds -> ServerRow \cup {None}]
        /\ \A s \in ServerIds : servers[s] = None => servers'[s] = None
    <3>1. CASE servers' = servers
      BY <3>1 DEF StoreTypeOK
    <3>2. CASE servers' # servers
      <4> DEFINE c == req[r].on[2]
                 users == UNION {Named(n) : n \in req[r].users}
      <4>1. servers' = [s \in ServerIds |->
                            IF s \in users THEN [servers[s] EXCEPT !.cred = c]
                            ELSE IF s \in UsersOf(c) THEN [servers[s] EXCEPT !.cred = None]
                            ELSE servers[s]]
        BY <1>4, <3>2 DEF SetUsers
      <4>2. \A s \in users \cup UsersOf(c) : s \in ServerIds /\ Server(s)
        BY DEF Named, UsersOf
      <4>3. c \in CredIds
        BY <2>1
      <4> HIDE DEF c, users
      <4> QED BY <2>3, <4>1, <4>2, <4>3 DEF StoreTypeOK, Server
    <3> QED BY <3>1, <3>2
  <2> QED BY <1>4, <2>2, <2>4 DEF SetUsers, StoreTypeOK
<1>5. CASE DeleteCredCounts(r)
  <2>1. req' \in [Requests -> Request]
    BY <1>0, <1>5, RequestMade DEF DeleteCredCounts
  <2> QED BY <1>5, <2>1 DEF DeleteCredCounts, tables, StoreTypeOK
<1>6. CASE DeleteCredDeletes(r)
  <2>1. req' \in [Requests -> Request]
    BY <1>0, <1>6, RequestMade DEF DeleteCredDeletes
  <2> QED BY <1>6, <2>1 DEF DeleteCredDeletes, StoreTypeOK
<1> QED BY <1>1, <1>2, <1>3, <1>4, <1>5, <1>6 DEF CredRequest

LEMMA ClientTyped ==
    ASSUME StoreTypeOK, NEW r \in Requests, ClientRequest(r)
    PROVE  StoreTypeOK'
<1>0. req[r] \in Request /\ \A q \in Request : Goes(r, q) => req' \in [Requests -> Request]
  BY DEF StoreTypeOK, Goes
<1>1. CASE CreateClient(r)
  <2>1. last.client + 1 \in ClientIds
    BY <1>1, StoreAssumption DEF CreateClient, StoreTypeOK, ClientIds
  <2> QED
    BY <1>1, <2>1, StoreAssumption DEF CreateClient, OneStep, GrantsOf, Named, StoreTypeOK
<1>2. CASE UpdateClientReads(r)
  <2>1. req' \in [Requests -> Request]
    BY <1>0, <1>2, RequestMade, KeptTyped DEF UpdateClientReads, StoreTypeOK
  <2> QED BY <1>2, <2>1 DEF UpdateClientReads, tables, StoreTypeOK
<1>3. CASE UpdateClientWrites(r)
  <2>1. req[r].on[2] \in ClientIds /\ req[r].row \in AuthRow
    BY <1>0, <1>3, RequestShape DEF UpdateClientWrites
  <2>2. req' \in [Requests -> Request]
    BY <1>0, <1>3, RequestMade DEF UpdateClientWrites
  <2> QED BY <1>3, <2>1, <2>2 DEF UpdateClientWrites, GrantsOf, Named, StoreTypeOK
<1>4. CASE DeleteClient(r)
  BY <1>4 DEF DeleteClient, OneStep, StoreTypeOK
<1>5. CASE BulkClientCredentials(r)
  BY <1>5 DEF BulkClientCredentials, OneStep, StoreTypeOK
<1> QED BY <1>1, <1>2, <1>3, <1>4, <1>5 DEF ClientRequest

LEMMA StoreTyped ==
    ASSUME StoreTypeOK, [StoreStep]_storeVars
    PROVE  StoreTypeOK'
<1>1. ASSUME NEW r \in Requests, Abort(r) PROVE StoreTypeOK'
  BY <1>1, RequestMade DEF Abort, Goes, tables, StoreTypeOK
<1>2. CASE UNCHANGED storeVars
  BY <1>2 DEF storeVars, tables, StoreTypeOK
<1> QED BY <1>1, <1>2, ServerTyped, CredTyped, ClientTyped DEF StoreStep

-----------------------------------------------------------------------------
(* What a step does to the rows of servers. It removes none but by           *)
(* DeleteServer, and gives a server a credential only that is there, as far  *)
(* as no other request has been at it.                                       *)

\* The request r assigns the credential c, and is through.
Hands(r, c) ==
    /\ c \in CredIds
    /\ creds[c] # None \/ <<"cred", c>> \in overlapped
    /\ UNCHANGED creds
    /\ req'[r] = Idle
    /\ Overlaps(r, <<"cred", c>>)

ServerFlow(r) ==
    \A s \in ServerIds :
        /\ Server(s) => servers'[s] # None \/ DeleteServer(r)
        /\ servers'[s] # None => \/ Server(s) /\ servers'[s].cred = servers[s].cred
                                 \/ servers'[s].cred = None
                                 \/ Hands(r, servers'[s].cred)

LEMMA NewCred ==
    ASSUME NEW row \in ServerRow, NEW c \in CredIds \cup {None}
    PROVE  [row EXCEPT !.cred = c] # None /\ [row EXCEPT !.cred = c].cred = c
<1>1. [row EXCEPT !.cred = c] \in ServerRow
  BY DEF ServerRow
<1> QED BY <1>1, RowsAssumption DEF ServerRow

\* The rows that UpsertServer touches.
LEMMA SavedFlow ==
    ASSUME StoreTypeOK, NEW i \in 0..MaxServers, NEW row \in ServerRow, Saved(i, row),
           NEW s \in ServerIds
    PROVE  servers'[s] = row \/ servers'[s] = servers[s]
BY DEF StoreTypeOK, Saved

LEMMA IdleStays ==
    ASSUME StoreTypeOK, NEW r \in Requests
    PROVE  /\ req[r].pc = "idle" => req[r] = Idle
           /\ \A q : Goes(r, q) => req'[r] = q /\ \A o \in Requests : o # r => req'[o] = req[o]
<1>1. req[r] \in Request
  BY DEF StoreTypeOK
<1>2. req[r].pc = "idle" => req[r] = Idle
  BY <1>1 DEF Request, Idle
<1> QED BY <1>2 DEF StoreTypeOK, Goes

LEMMA ServersFlow ==
    ASSUME StoreInv, NEW r \in Requests, ServerRequest(r) \/ CredRequest(r)
    PROVE  ServerFlow(r)
<1> USE RowsAssumption, IdleStays DEF StoreInv
<1>0. req[r] \in Request
  BY DEF StoreTypeOK
<1>1. CASE UpsertPlain(r)
  <2>1. PICK i \in 0..MaxServers, row \in ServerRow : Saved(i, row) /\ row.cred = None
    BY <1>1, NewServerTyped DEF UpsertPlain
  <2> QED BY <2>1, SavedFlow DEF ServerFlow, Server
<1>2. CASE UpsertWrites(r)
  <2> DEFINE c == req[r].on[2]
  <2>1. /\ req[r].id \in 0..MaxServers /\ req[r].row \in ServerRow /\ req[r].row.cred = c
        /\ c \in CredIds /\ req[r].on = <<"cred", c>>
        /\ creds[c] # None \/ req[r].on \in overlapped
    BY <1>0, <1>2, RequestShape DEF UpsertWrites, CredStages, Held
  <2>2. UNCHANGED servers \/ Saved(req[r].id, req[r].row)
    BY <1>2 DEF UpsertWrites, tables
  <2>3. Hands(r, c)
    BY <1>2, <2>1 DEF UpsertWrites, Hands, Saved, tables
  <2> QED BY <2>1, <2>2, <2>3, SavedFlow DEF ServerFlow, Server
<1>3. CASE DeleteServer(r)
  BY <1>3 DEF DeleteServer, ServerFlow, Server, StoreTypeOK
<1>4. CASE BulkServerCredential(r)
  <2>1. PICK S \in SUBSET ServerIds, c \in CredIds \cup {None} :
            /\ \A s \in S : Server(s)
            /\ c # None => creds[c] # None
            /\ servers' = WithCred(S, c)
            /\ Overlaps(r, <<"cred", c>>)
    BY <1>4 DEF BulkServerCredential
  <2>2. c = None \/ Hands(r, c)
    BY <1>4, <2>1 DEF BulkServerCredential, OneStep, Hands
  <2>3. \A s \in S : servers'[s] # None /\ servers'[s].cred = c
    BY <2>1, NewCred DEF WithCred, StoreTypeOK, Server
  <2>4. \A s \in ServerIds \ S : servers'[s] = servers[s]
    BY <2>1 DEF WithCred
  <2> QED BY <2>2, <2>3, <2>4 DEF ServerFlow, Server
<1>5. CASE SetUsers(r)
  <2> DEFINE c == req[r].on[2]
             users == UNION {Named(n) : n \in req[r].users}
  <2>1. /\ c \in CredIds /\ req[r].on = <<"cred", c>>
        /\ creds[c] # None \/ req[r].on \in overlapped
    BY <1>0, <1>5, RequestShape DEF SetUsers, CredStages, Held
  <2>2. Hands(r, c)
    BY <1>5, <2>1 DEF SetUsers, Hands
  <2>3. CASE servers' = servers
    BY <2>3 DEF ServerFlow, Server
  <2>4. CASE servers' # servers
    <3>1. servers' = [s \in ServerIds |->
                          IF s \in users THEN [servers[s] EXCEPT !.cred = c]
                          ELSE IF s \in UsersOf(c) THEN [servers[s] EXCEPT !.cred = None]
                          ELSE servers[s]]
      BY <1>5, <2>4 DEF SetUsers
    <3>2. \A s \in users \cup UsersOf(c) : s \in ServerIds /\ servers[s] \in ServerRow
      BY DEF Named, UsersOf, Server, StoreTypeOK
    <3> HIDE DEF c, users
    <3>3. \A s \in ServerIds :
              \/ servers'[s] = servers[s]
              \/ servers'[s] # None /\ servers'[s].cred \in {c, None}
      <4> SUFFICES ASSUME NEW s \in ServerIds
                   PROVE  \/ servers'[s] = servers[s]
                          \/ servers'[s] # None /\ servers'[s].cred \in {c, None}
        OBVIOUS
      <4>1. c \in CredIds
        BY <2>1
      <4>2. CASE s \in users
        <5>1. servers'[s] = [servers[s] EXCEPT !.cred = c]
          BY <3>1, <4>2
        <5>2. servers[s] \in ServerRow
          BY <3>2, <4>2
        <5> QED BY <4>1, <5>1, <5>2, NewCred
      <4>3. CASE s \notin users /\ s \in UsersOf(c)
        <5>1. servers'[s] = [servers[s] EXCEPT !.cred = None]
          BY <3>1, <4>3
        <5> QED BY <3>2, <4>3, <5>1, NewCred
      <4>4. CASE s \notin users /\ s \notin UsersOf(c)
        BY <3>1, <4>4
      <4> QED BY <4>2, <4>3, <4>4
    <3> QED BY <2>2, <3>3 DEF ServerFlow, Server
  <2> QED BY <2>3, <2>4
<1>6. CASE UNCHANGED servers
  BY <1>6 DEF ServerFlow, Server
<1> QED
  BY <1>1, <1>2, <1>3, <1>4, <1>5, <1>6
     DEF ServerRequest, CredRequest, UpsertReads, CreateCred, UpdateCredReads,
         UpdateCredWrites, DeleteCredCounts, DeleteCredDeletes, tables

-----------------------------------------------------------------------------
(* Grants *)

LEMMA GrantsStep ==
    ASSUME StoreInv, [StoreStep]_storeVars
    PROVE  GrantsRefer'
<1> USE RowsAssumption DEF StoreInv
<1>1. ASSUME NEW r \in Requests, ServerRequest(r) \/ CredRequest(r) PROVE GrantsRefer'
  <2>1. CASE DeleteServer(r)
    <3>1. PICK s \in ServerIds : servers' = [servers EXCEPT ![s] = None]
                                 /\ grants' = {g \in grants : g[1] # s}
      BY <2>1 DEF DeleteServer
    <3>2. \A t \in ServerIds : t # s => servers'[t] = servers[t]
      BY <3>1 DEF StoreTypeOK
    <3> QED BY <2>1, <3>1, <3>2 DEF DeleteServer, GrantsRefer, Server, StoreTypeOK
  <2>2. CASE ~DeleteServer(r)
    <3>1. UNCHANGED <<clients, grants>>
      BY <1>1, <2>2 DEF ServerRequest, CredRequest, UpsertPlain, UpsertReads, UpsertWrites,
         BulkServerCredential, Saved, CreateCred, UpdateCredReads, UpdateCredWrites, SetUsers,
         DeleteCredCounts, DeleteCredDeletes, tables
    <3>2. \A s \in ServerIds : Server(s) => servers'[s] # None
      BY <1>1, <2>2, ServersFlow DEF ServerFlow
    <3> QED BY <3>1, <3>2 DEF GrantsRefer, Server, StoreTypeOK
  <2> QED BY <2>1, <2>2
<1>2. ASSUME NEW r \in Requests, ClientRequest(r) PROVE GrantsRefer'
  <2>1. UNCHANGED servers
    BY <1>2 DEF ClientRequest, CreateClient, UpdateClientReads, UpdateClientWrites,
                DeleteClient, BulkClientCredentials, tables
  <2>2. \A c, u : \A g \in GrantsOf(c, u) : Server(g[1]) /\ g[2] = c
    BY DEF GrantsOf, Named
  <2>3. CASE CreateClient(r)
    <3>1. last.client + 1 \in ClientIds
      BY <2>3, StoreAssumption DEF CreateClient, StoreTypeOK, ClientIds
    <3>2. PICK row \in AuthRow, u \in SUBSET Names :
              /\ clients' = [clients EXCEPT ![last.client + 1] = row]
              /\ grants' = grants \cup GrantsOf(last.client + 1, u)
      BY <2>3 DEF CreateClient
    <3>3. clients'[last.client + 1] # None
          /\ \A c \in ClientIds : clients[c] # None => clients'[c] # None
      BY <3>1, <3>2 DEF StoreTypeOK
    <3> QED BY <2>1, <2>2, <3>2, <3>3 DEF GrantsRefer, Server, StoreTypeOK
  <2>4. CASE UpdateClientWrites(r)
    <3> DEFINE c == req[r].on[2]
    <3>1. c \in ClientIds /\ req[r].row # None
      BY <2>4, RequestShape DEF UpdateClientWrites, StoreTypeOK
    <3>2. CASE UNCHANGED <<clients, grants>>
      BY <2>1, <3>2 DEF GrantsRefer, Server
    <3>3. CASE /\ clients' = [clients EXCEPT ![c] = req[r].row]
               /\ grants' = {g \in grants : g[2] # c} \cup GrantsOf(c, req[r].users)
      <4>1. clients'[c] # None /\ \A d \in ClientIds : clients[d] # None => clients'[d] # None
        BY <3>1, <3>3 DEF StoreTypeOK
      <4> QED BY <2>1, <2>2, <3>3, <4>1 DEF GrantsRefer, Server, StoreTypeOK
    <3> QED BY <2>4, <3>2, <3>3 DEF UpdateClientWrites
  <2>5. CASE DeleteClient(r)
    <3>1. PICK c \in ClientIds : clients' = [clients EXCEPT ![c] = None]
                                 /\ grants' = {g \in grants : g[2] # c}
      BY <2>5 DEF DeleteClient
    <3>2. \A d \in ClientIds : d # c => clients'[d] = clients[d]
      BY <3>1 DEF StoreTypeOK
    <3> QED BY <2>1, <3>1, <3>2 DEF GrantsRefer, Server, StoreTypeOK
  <2>6. CASE BulkClientCredentials(r)
    BY <2>1, <2>6 DEF BulkClientCredentials, GrantsRefer, Server
  <2>7. CASE UNCHANGED <<clients, grants>>
    BY <2>1, <2>7 DEF GrantsRefer, Server
  <2> QED BY <1>2, <2>3, <2>4, <2>5, <2>6, <2>7 DEF ClientRequest, UpdateClientReads, tables
<1>3. ASSUME UNCHANGED <<servers, clients, grants>> PROVE GrantsRefer'
  BY <1>3 DEF GrantsRefer, Server
<1> QED BY <1>1, <1>2, <1>3 DEF StoreStep, Abort, storeVars, tables

-----------------------------------------------------------------------------
(* Server credentials *)

\* A step of r leaves the other requests where they are, and forgets no overlap.
OnlyRequest(r) ==
    /\ \A o \in Requests : o # r => req'[o] = req[o]
    /\ overlapped \subseteq overlapped'

NoUsersNext(c) == \A s \in ServerIds : servers'[s] # None => servers'[s].cred # c

\* What the next statement of r relies on holds after its step.
Relies(r) ==
    LET q == req'[r] IN q.pc \in CredStages =>
        /\ creds'[q.on[2]] # None \/ q.on \in overlapped'
        /\ q.pc = "upsert" => q.row.cred = q.on[2]
        /\ q.pc = "deleteCred" => NoUsersNext(q.on[2])

\* A step that deletes no credential.
LEMMA CredGains ==
    ASSUME StoreInv, NEW r \in Requests, OnlyRequest(r), ServerFlow(r), Relies(r),
           StoreTypeOK',
           \A c \in CredIds : creds[c] # None => creds'[c] # None
    PROVE  Held' /\ Unused' /\ Listable'
<1> USE DEF StoreInv, OnlyRequest
<1>1. Held'
  <2> SUFFICES ASSUME NEW o \in Requests, req'[o].pc \in CredStages
               PROVE  /\ creds'[req'[o].on[2]] # None \/ req'[o].on \in overlapped'
                      /\ req'[o].pc = "upsert" => req'[o].row.cred = req'[o].on[2]
    BY DEF Held, CredStages
  <2>1. CASE o = r
    BY <2>1 DEF Relies
  <2>2. CASE o # r
    <3>1. req[o].pc \in CredStages /\ req[o].on[2] \in CredIds
      BY <2>2, RequestShape DEF StoreTypeOK
    <3> QED BY <2>2, <3>1 DEF Held, CredStages
  <2> QED BY <2>1, <2>2
<1>2. Unused'
  <2> SUFFICES ASSUME NEW o \in Requests, req'[o].pc = "deleteCred"
               PROVE  NoUsersNext(req'[o].on[2]) \/ req'[o].on \in overlapped'
    BY DEF Unused, UsersOf, Server, NoUsersNext
  <2>1. CASE o = r
    BY <2>1 DEF Relies, CredStages
  <2>2. CASE o # r
    <3> DEFINE c == req[o].on[2]
    <3>1. req'[o] = req[o] /\ c \in CredIds /\ req[o].on = <<"cred", c>>
      BY <2>2, RequestShape DEF StoreTypeOK, CredStages
    <3>2. CASE req[o].on \in overlapped
      BY <3>1, <3>2
    <3>3. CASE Hands(r, c)
      BY <2>2, <3>1, <3>3 DEF Hands, Overlaps
    <3>4. CASE UsersOf(c) = {} /\ ~Hands(r, c)
      <4>1. NoUsersNext(c)
        BY <3>1, <3>4, StoreAssumption DEF ServerFlow, UsersOf, CredIds, NoUsersNext
      <4> QED BY <3>1, <4>1
    <3> QED BY <3>1, <3>2, <3>3, <3>4 DEF Unused
  <2> QED BY <2>1, <2>2
<1>3. Listable'
  <2> SUFFICES ASSUME NEW s \in ServerIds, servers'[s] # None, servers'[s].cred # None
               PROVE  \/ creds'[servers'[s].cred] # None
                      \/ <<"cred", servers'[s].cred>> \in overlapped'
    BY DEF Listable, Server
  <2>1. servers'[s].cred \in CredIds
    BY DEF StoreTypeOK, ServerRow
  <2>2. CASE Server(s) /\ servers'[s].cred = servers[s].cred
    BY <2>1, <2>2 DEF Listable
  <2>3. CASE Hands(r, servers'[s].cred)
    BY <2>1, <2>3 DEF Hands
  <2> QED BY <2>2, <2>3 DEF ServerFlow
<1> QED BY <1>1, <1>2, <1>3

LEMMA CredDeleted ==
    ASSUME StoreInv, NEW r \in Requests, DeleteCredDeletes(r), OnlyRequest(r)
    PROVE  Held' /\ Unused' /\ Listable'
<1> USE DEF StoreInv, OnlyRequest
<1> DEFINE c == req[r].on[2]
<1>1. /\ c \in CredIds /\ req[r].on = <<"cred", c>>
      /\ UsersOf(c) = {} \/ req[r].on \in overlapped
  BY RequestShape DEF StoreTypeOK, DeleteCredDeletes, CredStages, Unused
<1>2. /\ req'[r] = Idle /\ UNCHANGED servers
      /\ \A d \in CredIds : d # c => creds'[d] = creds[d]
  BY <1>1, IdleStays DEF DeleteCredDeletes, StoreTypeOK
<1>3. \A o \in Requests : o # r /\ req[o].pc # "idle" /\ req[o].on = <<"cred", c>>
          => req[o].on \in overlapped'
  BY <1>1 DEF DeleteCredDeletes, Overlaps
<1>4. ASSUME NEW o \in Requests, req'[o].pc \in CredStages
      PROVE  /\ o # r /\ req'[o] = req[o] /\ req[o].on[2] \in CredIds
             /\ req[o].on = <<"cred", req[o].on[2]>>
             /\ req[o].on[2] # c \/ req[o].on \in overlapped'
  <2>1. o # r /\ req'[o] = req[o]
    BY <1>2, <1>4 DEF Idle, CredStages
  <2>2. req[o].on[2] \in CredIds /\ req[o].on = <<"cred", req[o].on[2]>>
    BY <1>4, <2>1, RequestShape DEF StoreTypeOK
  <2> QED BY <1>3, <1>4, <2>1, <2>2 DEF CredStages
<1> HIDE DEF c
<1>5. Held'
  <2> SUFFICES ASSUME NEW o \in Requests, req'[o].pc \in CredStages
               PROVE  /\ creds'[req'[o].on[2]] # None \/ req'[o].on \in overlapped'
                      /\ req'[o].pc = "upsert" => req'[o].row.cred = req'[o].on[2]
    BY DEF Held, CredStages
  <2> QED BY <1>2, <1>4 DEF Held, CredStages
<1>6. Unused'
  <2> SUFFICES ASSUME NEW o \in Requests, req'[o].pc = "deleteCred"
               PROVE  NoUsersNext(req'[o].on[2]) \/ req'[o].on \in overlapped'
    BY DEF Unused, UsersOf, Server, NoUsersNext
  <2>1. req'[o] = req[o]
    BY <1>4 DEF CredStages
  <2> QED BY <1>2, <2>1 DEF Unused, UsersOf, Server, NoUsersNext
<1>7. Listable'
  <2> SUFFICES ASSUME NEW s \in ServerIds, Server(s), servers[s].cred # None
               PROVE  \/ creds'[servers[s].cred] # None
                      \/ <<"cred", servers[s].cred>> \in overlapped'
    BY <1>2 DEF Listable, Server
  <2>1. servers[s].cred \in CredIds
    BY DEF StoreTypeOK, ServerRow, Server
  <2>2. CASE servers[s].cred = c
    BY <1>1, <2>2 DEF UsersOf
  <2>3. CASE servers[s].cred # c
    BY <1>2, <2>1, <2>3 DEF Listable
  <2> QED BY <2>2, <2>3
<1> QED BY <1>5, <1>6, <1>7

LEMMA StepShape ==
    ASSUME StoreTypeOK, StoreStep
    PROVE  \E r \in Requests : /\ ServerRequest(r) \/ CredRequest(r) \/ ClientRequest(r) \/ Abort(r)
                               /\ OnlyRequest(r)
<1> USE IdleStays
<1>0. PICK r \in Requests : ServerRequest(r) \/ CredRequest(r) \/ ClientRequest(r) \/ Abort(r)
  BY DEF StoreStep
<1>1. OnlyRequest(r)
  <2>1. \A o \in Requests : o # r => req'[o] = req[o]
    BY <1>0 DEF ServerRequest, CredRequest, ClientRequest, UpsertPlain, UpsertReads,
       UpsertWrites, DeleteServer, BulkServerCredential, CreateCred, UpdateCredReads,
       UpdateCredWrites, SetUsers, DeleteCredCounts, DeleteCredDeletes, CreateClient,
       UpdateClientReads, UpdateClientWrites, DeleteClient, BulkClientCredentials, Abort, OneStep
  <2>2. overlapped \subseteq overlapped'
    BY <1>0 DEF ServerRequest, CredRequest, ClientRequest, UpsertPlain, UpsertReads,
       UpsertWrites, DeleteServer, BulkServerCredential, CreateCred, UpdateCredReads,
       UpdateCredWrites, SetUsers, DeleteCredCounts, DeleteCredDeletes, CreateClient,
       UpdateClientReads, UpdateClientWrites, DeleteClient, BulkClientCredentials, Abort, Overlaps
  <2> QED BY <2>1, <2>2 DEF OnlyRequest
<1> QED BY <1>0, <1>1

LEMMA CredStep ==
    ASSUME StoreInv, StoreStep, StoreTypeOK'
    PROVE  Held' /\ Unused' /\ Listable'
<1> USE IdleStays DEF StoreInv
<1>0. PICK r \in Requests : /\ ServerRequest(r) \/ CredRequest(r) \/ ClientRequest(r) \/ Abort(r)
                            /\ OnlyRequest(r)
  BY StepShape
<1>1. OnlyRequest(r)
  BY <1>0
<1>2. ServerFlow(r)
  <2>1. CASE ServerRequest(r) \/ CredRequest(r)
    BY <2>1, ServersFlow
  <2>2. CASE ClientRequest(r) \/ Abort(r)
    <3>1. UNCHANGED servers
      BY <2>2 DEF ClientRequest, CreateClient, UpdateClientReads, UpdateClientWrites,
                  DeleteClient, BulkClientCredentials, Abort, tables
    <3> QED BY <3>1 DEF ServerFlow, Server
  <2> QED BY <1>0, <2>1, <2>2
<1>3. CASE UpdateCredReads(r) \/ DeleteCredCounts(r) \/ UpsertReads(r)
  <2>1. UNCHANGED <<servers, creds>>
    BY <1>3 DEF UpdateCredReads, DeleteCredCounts, UpsertReads, tables
  <2>2. Relies(r)
    <3>1. CASE UpdateCredReads(r)
      BY <2>1, <3>1 DEF UpdateCredReads, Relies
    <3>2. CASE DeleteCredCounts(r)
      BY <2>1, <3>2 DEF DeleteCredCounts, Relies, UsersOf, Server, NoUsersNext
    <3>3. CASE UpsertReads(r)
      BY <2>1, <3>3 DEF UpsertReads, Relies
    <3> QED BY <1>3, <3>1, <3>2, <3>3
  <2> QED BY <1>1, <1>2, <2>1, <2>2, CredGains
<1>4. CASE CreateCred(r)
  <2>1. last.cred + 1 \in CredIds
    BY <1>4, StoreAssumption DEF CreateCred, StoreTypeOK, CredIds
  <2>2. PICK row \in AuthRow, u \in SUBSET Names :
            /\ creds' = [creds EXCEPT ![last.cred + 1] = row]
            /\ Goes(r, [pc |-> "setUsers", on |-> <<"cred", last.cred + 1>>, users |-> u])
    BY <1>4 DEF CreateCred
  <2>3. creds'[last.cred + 1] # None /\ \A c \in CredIds : creds[c] # None => creds'[c] # None
    BY <2>1, <2>2, RowsAssumption DEF StoreTypeOK
  <2>4. Relies(r)
    BY <2>2, <2>3 DEF Relies
  <2> QED BY <1>1, <1>2, <2>3, <2>4, CredGains
<1>5. CASE UpdateCredWrites(r)
  <2> DEFINE c == req[r].on[2]
  <2>1. c \in CredIds /\ req[r].row # None
    BY <1>5, RequestShape, RowsAssumption DEF UpdateCredWrites, StoreTypeOK, CredStages
  <2>2. CASE UNCHANGED creds /\ req'[r] = Idle
    <3>1. Relies(r)
      BY <2>2 DEF Relies, Idle, CredStages
    <3> QED BY <1>1, <1>2, <2>2, <3>1, CredGains
  <2>3. CASE /\ creds' = [creds EXCEPT ![c] = req[r].row]
             /\ req'[r] = [pc |-> "setUsers", on |-> req[r].on, users |-> req[r].users]
    <3>1. creds'[c] # None /\ \A d \in CredIds : creds[d] # None => creds'[d] # None
      BY <2>1, <2>3 DEF StoreTypeOK
    <3>2. Relies(r)
      BY <2>3, <3>1 DEF Relies
    <3> QED BY <1>1, <1>2, <3>1, <3>2, CredGains
  <2> QED BY <1>5, <2>2, <2>3 DEF UpdateCredWrites
<1>6. CASE DeleteCredDeletes(r)
  BY <1>1, <1>6, CredDeleted
<1>7. CASE UNCHANGED creds /\ req'[r].pc \notin CredStages
  BY <1>1, <1>2, <1>7, CredGains DEF Relies
<1>8. CASE UpdateClientReads(r)
  <2>1. UNCHANGED creds /\ req'[r].pc = "updateClient"
    BY <1>8 DEF UpdateClientReads, tables
  <2> QED BY <1>7, <2>1 DEF CredStages
<1>9. CASE \/ UpsertPlain(r) \/ UpsertWrites(r) \/ DeleteServer(r) \/ BulkServerCredential(r)
           \/ SetUsers(r) \/ CreateClient(r) \/ UpdateClientWrites(r) \/ DeleteClient(r)
           \/ BulkClientCredentials(r) \/ Abort(r)
  <2>1. UNCHANGED creds
    BY <1>9 DEF UpsertPlain, UpsertWrites, DeleteServer, BulkServerCredential, SetUsers,
       CreateClient, UpdateClientWrites, DeleteClient, BulkClientCredentials, Abort, Saved, tables
  <2>2. req'[r] = Idle
    BY <1>9 DEF UpsertPlain, UpsertWrites, DeleteServer, BulkServerCredential, SetUsers,
       CreateClient, UpdateClientWrites, DeleteClient, BulkClientCredentials, Abort, OneStep
  <2> QED BY <1>7, <2>1, <2>2 DEF Idle, CredStages
<1> QED
  BY <1>0, <1>3, <1>4, <1>5, <1>6, <1>8, <1>9 DEF ServerRequest, CredRequest, ClientRequest

-----------------------------------------------------------------------------
(* Client credentials *)

\* The steps that touch neither the client credentials nor a request on one.
LEMMA ClientKeeps ==
    ASSUME StoreInv, NEW r \in Requests, OnlyRequest(r), UNCHANGED clients,
           last'.client = last.client, req'[r].pc # "updateClient"
    PROVE  Fresh' /\ Carried'
<1>1. \A o \in Requests : req'[o].pc = "updateClient" => req'[o] = req[o]
  BY DEF OnlyRequest
<1>2. Fresh'
  BY <1>1 DEF StoreInv, Fresh
<1>3. Carried'
  BY <1>1 DEF StoreInv, Carried, OnlyRequest
<1> QED BY <1>2, <1>3

LEMMA ClientReads ==
    ASSUME StoreInv, NEW r \in Requests, OnlyRequest(r), UpdateClientReads(r)
    PROVE  Fresh' /\ Carried'
<1> USE IdleStays DEF StoreInv
<1>1. PICK c \in ClientIds, k \in Kinds, given \in Secrets \cup {Blank}, u \in SUBSET Names :
          /\ clients[c] # None
          /\ Goes(r, [pc |-> "updateClient", on |-> <<"client", c>>,
                      row |-> Kept(k, given, clients[c]), blank |-> given = Blank, users |-> u])
  BY DEF UpdateClientReads
<1>2. /\ req'[r].on = <<"client", c>> /\ req'[r].row = Kept(k, given, clients[c])
      /\ req'[r].blank = (given = Blank)
  BY <1>1
<1>3. UNCHANGED <<clients, last>>
  BY DEF UpdateClientReads, tables
<1>4. clients[c] \in AuthRow
  BY <1>1 DEF StoreTypeOK
<1>5. req'[r].blank => clients[c].kind # req'[r].row.kind \/ clients[c] = req'[r].row
  <2>1. SUFFICES ASSUME given = Blank, clients[c].kind = req'[r].row.kind
                 PROVE  clients[c] = req'[r].row
    BY <1>2
  <2>2. req'[r].row = [kind |-> k, secret |-> IF clients[c].kind = k THEN clients[c].secret
                                             ELSE Blank]
    BY <1>2, <2>1 DEF Kept
  <2>3. req'[r].row = [kind |-> clients[c].kind, secret |-> clients[c].secret]
    BY <2>1, <2>2
  <2> QED BY <1>4, <2>3 DEF AuthRow
<1>6. \A o \in Requests : o # r => req'[o] = req[o]
  BY DEF OnlyRequest
<1>7. Fresh'
  BY <1>1, <1>2, <1>3, <1>6 DEF Fresh
<1>8. Carried'
  <2> SUFFICES ASSUME NEW o \in Requests, req'[o].pc = "updateClient", req'[o].blank
               PROVE  LET d == req'[o].on[2] IN
                      \/ clients'[d] = None
                      \/ clients'[d].kind # req'[o].row.kind
                      \/ clients'[d] = req'[o].row
                      \/ req'[o].on \in overlapped'
    BY DEF Carried
  <2>1. CASE o = r
    BY <1>2, <1>3, <1>5, <2>1
  <2>2. CASE o # r
    BY <1>3, <1>6, <2>2 DEF Carried, OnlyRequest
  <2> QED BY <2>1, <2>2
<1> QED BY <1>7, <1>8

LEMMA ClientWrites ==
    ASSUME StoreInv, NEW r \in Requests, OnlyRequest(r), UpdateClientWrites(r)
    PROVE  Fresh' /\ Carried'
<1> USE IdleStays DEF StoreInv
<1> DEFINE c == req[r].on[2]
<1>1. c \in ClientIds /\ req[r].on = <<"client", c>> /\ c <= last.client
  BY RequestShape DEF UpdateClientWrites, StoreTypeOK, Fresh
<1>2. /\ \A d \in ClientIds : d # c => clients'[d] = clients[d]
      /\ UNCHANGED last /\ req'[r] = Idle
  BY <1>1 DEF UpdateClientWrites, StoreTypeOK
<1>3. \A o \in Requests : o # r /\ req[o].pc # "idle" /\ req[o].on = <<"client", c>>
          => req[o].on \in overlapped'
  BY <1>1 DEF UpdateClientWrites, Overlaps
<1>4. ASSUME NEW o \in Requests, req'[o].pc = "updateClient"
      PROVE  /\ req'[o] = req[o] /\ req[o].on[2] \in ClientIds
             /\ req[o].on[2] # c \/ req[o].on \in overlapped'
  <2>1. o # r /\ req'[o] = req[o]
    BY <1>2, <1>4 DEF Idle, OnlyRequest
  <2>2. req[o].on[2] \in ClientIds /\ req[o].on = <<"client", req[o].on[2]>>
    BY <1>4, <2>1, RequestShape DEF StoreTypeOK
  <2> QED BY <1>3, <1>4, <2>1, <2>2
<1> HIDE DEF c
<1>5. Fresh'
  BY <1>1, <1>2, <1>4 DEF Fresh
<1>6. Carried'
  BY <1>2, <1>4 DEF Carried, OnlyRequest
<1> QED BY <1>5, <1>6

LEMMA ClientStep ==
    ASSUME StoreInv, StoreStep, StoreTypeOK'
    PROVE  Fresh' /\ Carried'
<1> USE IdleStays DEF StoreInv
<1>0. PICK r \in Requests : /\ ServerRequest(r) \/ CredRequest(r) \/ ClientRequest(r) \/ Abort(r)
                            /\ OnlyRequest(r)
  BY StepShape
<1>1. CASE ServerRequest(r) \/ CredRequest(r) \/ Abort(r)
  <2>1. UNCHANGED clients /\ last'.client = last.client
    BY <1>1 DEF ServerRequest, CredRequest, UpsertPlain, UpsertReads, UpsertWrites, Saved,
       DeleteServer, BulkServerCredential, CreateCred, UpdateCredReads, UpdateCredWrites,
       SetUsers, DeleteCredCounts, DeleteCredDeletes, Abort, tables, StoreTypeOK
  <2>2. req'[r].pc # "updateClient"
    <3>0. ASSUME NEW q, Goes(r, q) PROVE req'[r] = q
      BY <3>0
    <3>1. CASE UpsertReads(r) \/ CreateCred(r) \/ UpdateCredReads(r) \/ DeleteCredCounts(r)
      <4>1. PICK q : Goes(r, q) /\ q.pc \in CredStages
        <5>1. CASE UpsertReads(r)
          BY <5>1 DEF UpsertReads, CredStages
        <5>2. CASE CreateCred(r)
          BY <5>2 DEF CreateCred, CredStages
        <5>3. CASE UpdateCredReads(r)
          BY <5>3 DEF UpdateCredReads, CredStages
        <5>4. CASE DeleteCredCounts(r)
          BY <5>4 DEF DeleteCredCounts, CredStages
        <5> QED BY <3>1, <5>1, <5>2, <5>3, <5>4
      <4> QED BY <3>0, <4>1 DEF CredStages
    <3>2. CASE UpdateCredWrites(r)
      BY <3>2 DEF UpdateCredWrites, Idle
    <3>3. CASE \/ UpsertPlain(r) \/ UpsertWrites(r) \/ DeleteServer(r)
               \/ BulkServerCredential(r) \/ SetUsers(r) \/ DeleteCredDeletes(r) \/ Abort(r)
      <4>1. req'[r] = Idle
        BY <3>3 DEF UpsertPlain, UpsertWrites, DeleteServer, BulkServerCredential, SetUsers,
                    DeleteCredDeletes, Abort, OneStep
      <4> QED BY <4>1 DEF Idle
    <3> QED BY <1>1, <3>1, <3>2, <3>3 DEF ServerRequest, CredRequest
  <2> QED BY <1>0, <2>1, <2>2, ClientKeeps
<1>2. CASE CreateClient(r)
  <2> DEFINE n == last.client + 1
  <2>1. n \in ClientIds /\ last.client \in Nat
    BY <1>2, StoreAssumption DEF CreateClient, StoreTypeOK, ClientIds
  <2>2. /\ \A c \in ClientIds : c # n => clients'[c] = clients[c]
        /\ last'.client = n /\ UNCHANGED <<req, overlapped>>
    BY <1>2, <2>1 DEF CreateClient, StoreTypeOK, OneStep
  <2>3. \A o \in Requests : req[o].pc = "updateClient" => /\ req[o].on[2] \in ClientIds
                                                          /\ req[o].on[2] <= last.client
                                                          /\ req[o].on[2] # n
    BY <2>1, RequestShape DEF StoreTypeOK, Fresh, ClientIds
  <2>4. Fresh'
    BY <2>1, <2>2, <2>3 DEF Fresh, ClientIds
  <2>5. Carried'
    BY <2>2, <2>3 DEF Carried
  <2> QED BY <2>4, <2>5
<1>3. CASE DeleteClient(r)
  <2>1. PICK c \in ClientIds : clients' = [clients EXCEPT ![c] = None]
    BY <1>3 DEF DeleteClient
  <2>2. /\ \A d \in ClientIds : clients'[d] \in {clients[d], None}
        /\ UNCHANGED <<last, req, overlapped>>
    BY <1>3, <2>1 DEF DeleteClient, StoreTypeOK, OneStep
  <2>3. Fresh'
    BY <2>2 DEF Fresh
  <2>4. Carried'
    BY <2>2, RequestShape DEF Carried, StoreTypeOK
  <2> QED BY <2>3, <2>4
<1>4. CASE BulkClientCredentials(r)
  BY <1>4 DEF BulkClientCredentials, OneStep, Fresh, Carried
<1>5. CASE UpdateClientReads(r)
  BY <1>0, <1>5, ClientReads
<1>6. CASE UpdateClientWrites(r)
  BY <1>0, <1>6, ClientWrites
<1> QED BY <1>0, <1>1, <1>2, <1>3, <1>4, <1>5, <1>6 DEF ClientRequest

-----------------------------------------------------------------------------
(* The theorems *)

LEMMA StoreInvInit == StoreInit => StoreInv
<1> SUFFICES ASSUME StoreInit PROVE StoreInv
  OBVIOUS
<1> USE DEF StoreInit
<1>1. StoreTypeOK
  BY StoreAssumption, RequestMade DEF StoreTypeOK
<1>2. Held /\ Unused /\ Carried /\ Fresh
  BY DEF Held, Unused, Carried, Fresh, Idle
<1>3. Listable /\ GrantsRefer
  BY DEF Listable, GrantsRefer, Server
<1> QED BY <1>1, <1>2, <1>3 DEF StoreInv

LEMMA StoreInvStep == StoreInv /\ [StoreStep]_storeVars => StoreInv'
<1> SUFFICES ASSUME StoreInv, [StoreStep]_storeVars PROVE StoreInv'
  OBVIOUS
<1>1. StoreTypeOK' /\ GrantsRefer'
  BY StoreTyped, GrantsStep DEF StoreInv
<1>2. CASE StoreStep
  BY <1>1, <1>2, CredStep, ClientStep DEF StoreInv
<1>3. CASE UNCHANGED storeVars
  <2>1. Held' /\ Unused' /\ Listable'
    BY <1>3 DEF StoreInv, Held, Unused, Listable, UsersOf, Server, storeVars, tables
  <2>2. Fresh' /\ Carried'
    BY <1>3 DEF StoreInv, Fresh, Carried, storeVars, tables
  <2> QED BY <1>1, <2>1, <2>2 DEF StoreInv
<1> QED BY <1>2, <1>3

LEMMA StoreInvariant == StoreSpec => []StoreInv
BY StoreInvInit, StoreInvStep, PTL DEF StoreSpec

\* Whatever handlers run side by side, and whichever statement of them fails: a credential
\* that a server refers to is there, unless two requests have overlapped on it, so that
\* ListServers does not fail for all servers.
THEOREM CredentialsListable == StoreSpec => []Listable
<1>1. StoreInv => Listable
  BY DEF StoreInv
<1> QED BY <1>1, StoreInvariant, PTL

\* Every row of server_client_credentials is between a server and a client credential that
\* are there, with any number of requests and without any exception for overlaps.
THEOREM GrantsAlwaysRefer == StoreSpec => []GrantsRefer
<1>1. StoreInv => GrantsRefer
  BY DEF StoreInv
<1> QED BY <1>1, StoreInvariant, PTL

\* The update of a client credential that leaves the secret blank keeps the stored one,
\* unless another request has overlapped with it.
THEOREM BlankSecretKept == StoreSpec => BlankKeepsSecret
<1> DEFINE Keeps == \A c \in ClientIds :
               \/ clients[c] = None
               \/ clients'[c] \in {None, clients[c]}
               \/ clients'[c].kind # clients[c].kind
               \/ <<"client", c>> \in overlapped'
               \/ \E r \in Requests : req[r].pc = "updateClient" /\ req[r].on[2] = c /\ ~req[r].blank
<1>1. StoreInv /\ [StoreStep]_storeVars => [Keeps]_storeVars
  <2> SUFFICES ASSUME StoreInv, StoreStep, NEW c \in ClientIds, clients[c] # None,
                      clients'[c] \notin {None, clients[c]},
                      ~ \E r \in Requests : req[r].pc = "updateClient" /\ req[r].on[2] = c
                                            /\ ~req[r].blank
               PROVE  clients'[c].kind # clients[c].kind \/ <<"client", c>> \in overlapped'
    OBVIOUS
  <2> USE DEF StoreInv
  <2>1. PICK r \in Requests : /\ ServerRequest(r) \/ CredRequest(r) \/ ClientRequest(r) \/ Abort(r)
                              /\ OnlyRequest(r)
    BY StepShape
  <2>2. CASE UpdateClientWrites(r)
    <3>1. /\ req[r].pc = "updateClient" /\ req[r].on[2] \in ClientIds
          /\ req[r].on = <<"client", req[r].on[2]>> /\ req[r].blank \in BOOLEAN
      BY <2>2, RequestShape DEF UpdateClientWrites, StoreTypeOK
    <3>2. req[r].on[2] = c /\ clients'[c] = req[r].row
      BY <2>2, <3>1 DEF UpdateClientWrites, StoreTypeOK
    <3>3. clients[c].kind # req[r].row.kind \/ req[r].on \in overlapped
      BY <3>1, <3>2 DEF Carried
    <3> QED BY <2>1, <3>1, <3>2, <3>3 DEF OnlyRequest
  <2>3. CASE CreateClient(r)
    <3>1. c # last.client + 1
      BY <2>3, StoreAssumption DEF Fresh, StoreTypeOK, ClientIds
    <3> QED BY <2>3, <3>1 DEF CreateClient, StoreTypeOK
  <2>4. CASE DeleteClient(r)
    BY <2>4 DEF DeleteClient, StoreTypeOK
  <2>5. CASE UNCHANGED clients
    BY <2>5
  <2> QED
    BY <2>1, <2>2, <2>3, <2>4, <2>5 DEF ServerRequest, CredRequest, ClientRequest, UpsertPlain,
       UpsertReads, UpsertWrites, Saved, DeleteServer, BulkServerCredential, CreateCred,
       UpdateCredReads, UpdateCredWrites, SetUsers, DeleteCredCounts, DeleteCredDeletes,
       UpdateClientReads, BulkClientCredentials, Abort, tables
<1> QED BY <1>1, StoreInvariant, PTL DEF StoreSpec, BlankKeepsSecret
=============================================================================
