---------------------------- MODULE AgentRegistry ----------------------------
(***************************************************************************)
(* Which agent may serve which route: the credentials in the database, the *)
(* registration of agent connections in the hub, and the admin handlers    *)
(* that change or revoke a credential while agents connect.                *)
(*                                                                         *)
(*   - AgentHub.ServeHTTP, one goroutine per websocket    (Conn actions)   *)
(*   - the admin API handlers, one goroutine per request  (Admin actions)  *)
(*   - the start of a task in agentSession                (Session actions)*)
(* One SQL statement or transaction is one step. The hub lock is held over *)
(* several steps by ServeHTTP and by the handlers of the shared key. Names *)
(* are compared without case, so a member of Hosts is a lower-case name.   *)
(***************************************************************************)
EXTENDS Integers, FiniteSets

CONSTANTS
    Hosts,        \* host names agents report
    Keys,         \* shared self-registration keys
    Tokens,       \* enrollment tokens and tokens of one device
    MaxServers,   \* bound on the rows ever inserted into servers
    MaxSuffix,    \* names tried for a host name that is taken (1000 in the code)
    Conns,        \* websockets of agents
    Admins,       \* admin requests handled at the same time
    Clients,      \* SSH clients of agent routes
    None          \* no row, no peer, NULL, the empty hash

ASSUME RegistryAssumption ==
    /\ MaxServers \in Nat
    /\ MaxSuffix \in Nat \ {0}
    /\ Keys \cap Tokens = {} /\ (Keys \cup Tokens) \cap (Keys \X Hosts) = {}
    /\ Conns \cap Admins = {}
    /\ None \notin Hosts \cup Keys \cup Tokens \cup Conns \cup Admins \cup Nat \cup (Keys \X Hosts)

VARIABLES
    server,      \* table servers: id -> row
    last,        \* AUTOINCREMENT: the last id used
    enrollment,  \* table agent_enrollments: token -> row
    issued,      \* tokens that were handed out
    setting,     \* table agent_registration_settings
    hosts,       \* table agent_registration_hosts: name -> server_id
    lock,        \* holder of AgentHub.mu
    peers,       \* AgentHub.peers
    conn,        \* per websocket: the local variables of ServeHTTP
    admin,       \* per request: the local variables of its handler
    ses          \* per client: the local variables of its agentSession

dbVars == <<server, last, enrollment, issued, setting, hosts>>
hubVars == <<lock, peers, conn>>
vars == <<dbVars, hubVars, admin, ses>>

-----------------------------------------------------------------------------
Ids == 1..MaxServers
Deleted == 0                       \* the NULL of a row that was deleted
Secrets == Keys \cup Tokens
Names == Hosts \X (1..MaxSuffix)

\* The hash of a secret is the secret itself. A route of the shared key gets a hash
\* derived from the key and the host name, which is the hash of no secret.
Derived(k, h) == <<k, h>>
Hashes == Secrets \cup (Keys \X Hosts)

ServerRow ==
    [name : Names, agent : BOOLEAN, enabled : BOOLEAN, hash : Hashes \cup {None}]
EnrollmentRow ==
    [enabled : BOOLEAN, used : BOOLEAN, host : Hosts \cup {None}, id : {None} \cup Ids]
ConnState ==
    [pc : {"free", "upgraded", "locked", "serving", "closed"},
     secret : Secrets \cup {None}, host : Hosts \cup {None},
     id : {None} \cup Ids, hash : Hashes \cup {None},
     missed : BOOLEAN]           \* history: left out of a disconnection
AdminState ==
    [pc : {"idle", "disconnect", "delete", "reread", "rotate", "drop"},
     id : {None} \cup Ids, name : Names \cup {None}]
SessionState ==
    [pc : {"idle", "login", "lookup", "use"}, id : {None} \cup Ids, name : Names \cup {None},
     read : {None} \cup Ids, hash : Hashes \cup {None}, peer : Conns \cup {None}]

\* Every table and every local variable has the shape the code gives it.
TypeOK ==
    /\ server \in [Ids -> ServerRow \cup {None}]
    /\ last \in 0..MaxServers
    /\ enrollment \in [Tokens -> EnrollmentRow \cup {None}]
    /\ issued \in SUBSET Tokens
    /\ setting \in [key : Keys \cup {None}, enabled : BOOLEAN]
    /\ hosts \in [Hosts -> {None, Deleted} \cup Ids]
    /\ lock \in Conns \cup Admins \cup {None}
    /\ peers \in [Ids -> Conns \cup {None}]
    /\ conn \in [Conns -> ConnState]
    /\ admin \in [Admins -> AdminState]
    /\ ses \in [Clients -> SessionState]

FreeConn == [pc |-> "free", secret |-> None, host |-> None, id |-> None, hash |-> None,
             missed |-> FALSE]
IdleAdmin == [pc |-> "idle", id |-> None, name |-> None]
IdleSession ==
    [pc |-> "idle", id |-> None, name |-> None, read |-> None, hash |-> None, peer |-> None]

Init ==
    /\ server = [i \in Ids |-> None]
    /\ last = 0
    /\ enrollment = [t \in Tokens |-> None]
    /\ issued = {}
    /\ setting = [key |-> None, enabled |-> FALSE]
    /\ hosts = [h \in Hosts |-> None]
    /\ lock = None
    /\ peers = [i \in Ids |-> None]
    /\ conn = [c \in Conns |-> FreeConn]
    /\ admin = [a \in Admins |-> IdleAdmin]
    /\ ses = [s \in Clients |-> IdleSession]

-----------------------------------------------------------------------------
(* Queries *)

Row(i) == server[i] # None
Named(n) == {i \in Ids : Row(i) /\ server[i].name = n}

\* authenticateAgent, first query: the route whose hash was presented.
OfHash(x) == {i \in Ids : Row(i) /\ server[i].agent /\ server[i].hash = x}

NewRow(n, agent, x) == [name |-> n, agent |-> agent, enabled |-> TRUE, hash |-> x]
Insert(row) == [server EXCEPT ![last + 1] = row]

\* The first free name: the host name, then the host name with a suffix.
FreeNames(h) == {n \in 1..MaxSuffix : Named(<<h, n>>) = {}}
FirstFree(h) == <<h, CHOOSE n \in FreeNames(h) : \A m \in FreeNames(h) : n <= m>>

-----------------------------------------------------------------------------
(* resolveAgent. Each outcome sets the id and the hash of the connection.    *)

\* A route that has this hash; an enrollment token must not be revoked and must
\* come from the host that claimed it.
KnownRoute(x, h, i) ==
    /\ x # setting.key
    /\ i \in OfHash(x)
    /\ server[i].enabled
    /\ x \in Tokens /\ enrollment[x] # None => enrollment[x].enabled /\ enrollment[x].host = h

\* Mutant of PendingToken: a token that was used may be claimed again.
PendingUsed(x) ==
    /\ x # setting.key
    /\ OfHash(x) = {}
    /\ x \in Tokens
    /\ enrollment[x] # None
    /\ enrollment[x].enabled

\* A pending enrollment token.
PendingToken(x) ==
    /\ x # setting.key
    /\ OfHash(x) = {}
    /\ x \in Tokens
    /\ enrollment[x] # None
    /\ enrollment[x].enabled
    /\ ~enrollment[x].used

\* The shared key.
SharedKey(x) == x = setting.key /\ setting.enabled

\* The check before the upgrade changes nothing.
Accepted(x, h) == (\E i \in Ids : KnownRoute(x, h, i)) \/ PendingToken(x) \/ SharedKey(x)

\* Claim of a pending token, in one transaction: the route is created and the token
\* is used.
ClaimToken(x, h) ==
    /\ PendingToken(x)
    /\ last < MaxServers
    /\ FreeNames(h) # {}
    /\ server' = Insert(NewRow(FirstFree(h), TRUE, x))
    /\ enrollment' = [enrollment EXCEPT ![x] =
                        [enabled |-> TRUE, used |-> TRUE, host |-> h, id |-> last + 1]]
    /\ last' = last + 1
    /\ UNCHANGED hosts

\* Mutant of SharedHash: the name is stored.
SharedHashName(k, h) == h

\* The hash stored for a route of the shared key.
SharedHash(k, h) == Derived(k, h)

\* Reconnection with the shared key: the route keeps its row and gets the hash of
\* the current key. A deleted, disabled, changed or renamed route is refused.
Reconnects(x, h, i) ==
    /\ SharedKey(x)
    /\ hosts[h] = i
    /\ Row(i) /\ server[i].enabled /\ server[i].agent /\ server[i].name = <<h, 1>>
    /\ server' = [server EXCEPT ![i] = [@ EXCEPT !.hash = SharedHash(x, h)]]
    /\ UNCHANGED <<last, enrollment, hosts>>

\* Mutant of FirstRegistration: a host name whose route was deleted is free again.
RegistersAgain(x, h) ==
    /\ SharedKey(x)
    /\ hosts[h] \in {None, Deleted}
    /\ Named(<<h, 1>>) = {}
    /\ last < MaxServers
    /\ server' = Insert(NewRow(<<h, 1>>, TRUE, SharedHash(x, h)))
    /\ hosts' = [hosts EXCEPT ![h] = last + 1]
    /\ last' = last + 1
    /\ UNCHANGED enrollment

\* First registration with the shared key: a name that is taken is refused.
FirstRegistration(x, h) ==
    /\ SharedKey(x)
    /\ hosts[h] = None
    /\ Named(<<h, 1>>) = {}
    /\ last < MaxServers
    /\ server' = Insert(NewRow(<<h, 1>>, TRUE, SharedHash(x, h)))
    /\ hosts' = [hosts EXCEPT ![h] = last + 1]
    /\ last' = last + 1
    /\ UNCHANGED enrollment

-----------------------------------------------------------------------------
(* AgentHub.ServeHTTP *)

\* Authentication and upgrade of a new websocket. (A member of Conns stands for a
\* new websocket once no session holds the old one.)
Connect(c, x, h) ==
    /\ conn[c].pc = "free"
    /\ \A s \in Clients : ses[s].peer # c
    /\ Accepted(x, h)
    /\ conn' = [conn EXCEPT ![c] = [FreeConn EXCEPT !.pc = "upgraded", !.secret = x,
                                                   !.host = h]]
    /\ UNCHANGED <<dbVars, lock, peers, admin, ses>>

\* The second resolveAgent, under the hub lock, which stays locked.
Resolve(c) ==
    LET x == conn[c].secret
        h == conn[c].host
        Locked(i, y) == conn' = [conn EXCEPT ![c] = [@ EXCEPT !.pc = "locked", !.id = i,
                                                              !.hash = y]]
    IN  /\ conn[c].pc = "upgraded"
        /\ lock = None
        /\ lock' = c
        /\ \/ \E i \in Ids : /\ KnownRoute(x, h, i)
                             /\ Locked(i, x)
                             /\ UNCHANGED <<server, last, enrollment, hosts>>
           \/ ClaimToken(x, h) /\ Locked(last + 1, x)
           \/ \E i \in Ids : Reconnects(x, h, i) /\ Locked(i, SharedHash(x, h))
           \/ FirstRegistration(x, h) /\ Locked(last + 1, SharedHash(x, h))
        /\ UNCHANGED <<issued, setting, peers, admin, ses>>

\* It fails: the credential was revoked in between, the name is taken or blocked, or
\* the database reports an error.
ResolveFails(c) ==
    /\ conn[c].pc = "upgraded"
    /\ lock = None
    /\ conn' = [conn EXCEPT ![c] = FreeConn]
    /\ UNCHANGED <<dbVars, lock, peers, admin, ses>>

\* Still under the lock: the first connection of a route wins.
Install(c) ==
    LET i == conn[c].id IN
    /\ conn[c].pc = "locked"
    /\ lock' = None
    /\ IF peers[i] = None
       THEN /\ peers' = [peers EXCEPT ![i] = c]
            /\ conn' = [conn EXCEPT ![c] = [@ EXCEPT !.pc = "serving"]]
       ELSE /\ conn' = [conn EXCEPT ![c] = FreeConn]
            /\ UNCHANGED peers
    /\ UNCHANGED <<dbVars, admin, ses>>

\* The websocket ends for a reason of its own.
Ends(c) ==
    /\ conn[c].pc = "serving"
    /\ conn' = [conn EXCEPT ![c] = [@ EXCEPT !.pc = "closed"]]
    /\ UNCHANGED <<dbVars, lock, peers, admin, ses>>

\* The deferred function deletes only its own entry.
Unregister(c) ==
    LET i == conn[c].id IN
    /\ conn[c].pc = "closed"
    /\ lock = None
    /\ peers' = IF peers[i] = c THEN [peers EXCEPT ![i] = None] ELSE peers
    /\ conn' = [conn EXCEPT ![c] = FreeConn]
    /\ UNCHANGED <<dbVars, lock, admin, ses>>

-----------------------------------------------------------------------------
(* The admin handlers *)

Become(a, state) == admin' = [admin EXCEPT ![a] = state]
ThenDisconnect(a, i) == Become(a, [pc |-> "disconnect", id |-> i, name |-> None])

\* handleUpsertServer with id 0.
CreateServer(a, n, agent) ==
    /\ admin[a].pc = "idle"
    /\ last < MaxServers
    /\ Named(n) = {}
    /\ server' = Insert(NewRow(n, agent, None))
    /\ last' = last + 1
    /\ UNCHANGED <<enrollment, issued, setting, hosts, hubVars, admin, ses>>

\* handleUpsertServer of an existing row: the name and the type may change; the
\* switch and the hash stay.
UpdateServer(a, i, n, agent) ==
    /\ admin[a].pc = "idle"
    /\ Row(i)
    /\ Named(n) \subseteq {i}
    /\ server' = [server EXCEPT ![i] = [@ EXCEPT !.name = n, !.agent = agent]]
    /\ ThenDisconnect(a, i)
    /\ UNCHANGED <<last, enrollment, issued, setting, hosts, hubVars, ses>>

\* handleDeleteServer reads the row to learn its id, then deletes by name. It goes on
\* without an id when the row cannot be read, for whatever reason. The references to
\* the row become NULL.
DeleteReads(a, n) ==
    /\ admin[a].pc = "idle"
    /\ \E i \in Named(n) \cup {None} : Become(a, [pc |-> "delete", id |-> i, name |-> n])
    /\ UNCHANGED <<dbVars, hubVars, ses>>

DeleteWrites(a) ==
    LET gone == Named(admin[a].name) IN
    /\ admin[a].pc = "delete"
    /\ server' = [i \in Ids |-> IF i \in gone THEN None ELSE server[i]]
    /\ hosts' = [h \in Hosts |-> IF hosts[h] \in gone THEN Deleted ELSE hosts[h]]
    /\ enrollment' = [t \in Tokens |->
                        IF enrollment[t] # None /\ enrollment[t].id \in gone
                        THEN [enrollment[t] EXCEPT !.id = None] ELSE enrollment[t]]
    /\ IF admin[a].id = None THEN Become(a, IdleAdmin) ELSE ThenDisconnect(a, admin[a].id)
    /\ UNCHANGED <<last, issued, setting, hubVars, ses>>

\* handleSetServerEnabled writes by name, then reads the row again by name.
SetServerEnabled(a, n, on) ==
    /\ admin[a].pc = "idle"
    /\ Named(n) # {}
    /\ server' = [i \in Ids |-> IF i \in Named(n) THEN [server[i] EXCEPT !.enabled = on]
                                ELSE server[i]]
    /\ Become(a, [pc |-> "reread", id |-> None, name |-> n])
    /\ UNCHANGED <<last, enrollment, issued, setting, hosts, hubVars, ses>>

SetEnabledReads(a) ==
    /\ admin[a].pc = "reread"
    /\ \/ \E i \in Named(admin[a].name) : ~server[i].enabled /\ ThenDisconnect(a, i)
       \/ /\ \A i \in Named(admin[a].name) : server[i].enabled
          /\ Become(a, IdleAdmin)
    /\ UNCHANGED <<dbVars, hubVars, ses>>

\* The row cannot be read again: the handler answers with the error and disconnects
\* nobody, whatever was committed before.
RereadFails(a) ==
    LET left == {i \in Named(admin[a].name) : ~server[i].enabled} IN
    /\ admin[a].pc = "reread"
    /\ conn' = [c \in Conns |-> IF conn[c].id \in left THEN [conn[c] EXCEPT !.missed = TRUE]
                                ELSE conn[c]]
    /\ Become(a, IdleAdmin)
    /\ UNCHANGED <<dbVars, lock, peers, ses>>

\* runServerTest of an agent route ends like SetServerEnabled: the row is read by
\* name, and the agent of a disabled route is disconnected.
TestServer(a, n) ==
    /\ admin[a].pc = "idle"
    /\ Named(n) # {}
    /\ Become(a, [pc |-> "reread", id |-> None, name |-> n])
    /\ UNCHANGED <<dbVars, hubVars, ses>>

\* handleRotateAgentToken reads the row, then writes the hash of a new token by id.
RotateReads(a, n) ==
    /\ admin[a].pc = "idle"
    /\ \E i \in Named(n) : /\ server[i].agent
                           /\ Become(a, [pc |-> "rotate", id |-> i, name |-> None])
    /\ UNCHANGED <<dbVars, hubVars, ses>>

RotateWrites(a, t) ==
    LET i == admin[a].id IN
    /\ admin[a].pc = "rotate"
    /\ t \notin issued
    /\ issued' = issued \cup {t}
    /\ server' = IF Row(i) THEN [server EXCEPT ![i] = [@ EXCEPT !.hash = t]] ELSE server
    /\ ThenDisconnect(a, i)
    /\ UNCHANGED <<last, enrollment, setting, hosts, hubVars, ses>>

\* No token could be generated, or the write failed.
RotateFails(a) ==
    /\ admin[a].pc = "rotate"
    /\ Become(a, IdleAdmin)
    /\ UNCHANGED <<dbVars, hubVars, ses>>

\* handleCreateEnrollment.
CreateEnrollment(a, t) ==
    /\ admin[a].pc = "idle"
    /\ t \notin issued
    /\ issued' = issued \cup {t}
    /\ enrollment' = [enrollment EXCEPT ![t] =
                        [enabled |-> TRUE, used |-> FALSE, host |-> None, id |-> None]]
    /\ UNCHANGED <<server, last, setting, hosts, hubVars, admin, ses>>

\* handleRevokeEnrollment: the token and, in the same transaction, the hash of its
\* route, unless that has been rotated since.
RevokeEnrollment(a, t) ==
    LET i == enrollment[t].id IN
    /\ admin[a].pc = "idle"
    /\ enrollment[t] # None
    /\ enrollment' = [enrollment EXCEPT ![t] = [@ EXCEPT !.enabled = FALSE]]
    /\ IF i # None /\ Row(i) /\ server[i].hash = t
       THEN /\ server' = [server EXCEPT ![i] = [@ EXCEPT !.hash = None]]
            /\ ThenDisconnect(a, i)
       ELSE UNCHANGED <<server, admin>>
    /\ UNCHANGED <<last, issued, setting, hosts, hubVars, ses>>

\* AgentHub.Disconnect at the end of a handler.
Disconnect(a) ==
    LET i == admin[a].id IN
    /\ admin[a].pc = "disconnect"
    /\ lock = None
    /\ IF peers[i] # None
       THEN /\ conn' = [conn EXCEPT ![peers[i]] = [@ EXCEPT !.pc = "closed"]]
            /\ peers' = [peers EXCEPT ![i] = None]
       ELSE UNCHANGED <<conn, peers>>
    /\ Become(a, IdleAdmin)
    /\ UNCHANGED <<dbVars, lock, ses>>

\* handlePutSelfRegistration: the hub lock is held over the commit and the
\* disconnection of the shared-key agents, which is skipped for the same key.
PutSelfRegistration(a, k) ==
    /\ admin[a].pc = "idle"
    /\ lock = None
    /\ setting' = [key |-> k, enabled |-> TRUE]
    /\ IF k = setting.key THEN UNCHANGED <<lock, admin>>
       ELSE lock' = a /\ Become(a, [pc |-> "drop", id |-> None, name |-> None])
    /\ UNCHANGED <<server, last, enrollment, issued, hosts, peers, conn, ses>>

\* Mutant of DisableSelfRegistration: the setting is changed without the hub lock.
DisableUnlocked(a) ==
    /\ admin[a].pc = "idle"
    /\ setting' = [setting EXCEPT !.enabled = FALSE]
    /\ conn' = [c \in Conns |-> IF conn[c].pc = "serving" /\ conn[c].secret \in Keys
                                THEN [conn[c] EXCEPT !.pc = "closed"] ELSE conn[c]]
    /\ peers' = [i \in Ids |-> IF peers[i] # None /\ conn[peers[i]].secret \in Keys
                               THEN None ELSE peers[i]]
    /\ UNCHANGED <<server, last, enrollment, issued, hosts, lock, admin, ses>>

\* handleDisableSelfRegistration.
DisableSelfRegistration(a) ==
    /\ admin[a].pc = "idle"
    /\ lock = None
    /\ setting' = [setting EXCEPT !.enabled = FALSE]
    /\ lock' = a
    /\ Become(a, [pc |-> "drop", id |-> None, name |-> None])
    /\ UNCHANGED <<server, last, enrollment, issued, hosts, peers, conn, ses>>

\* disconnectRegisteredLocked: the routes are read from the database now. If the query
\* fails, every agent is disconnected. A row that cannot be scanned is passed over, and
\* an error that ends the rows early is not looked at, so any part of them may be met.
DisconnectRegistered(a) ==
    LET registered == {i \in Ids : \E h \in Hosts : hosts[h] = i} IN
    /\ admin[a].pc = "drop"
    /\ \E ids \in {Ids} \cup SUBSET registered :
        /\ conn' = [c \in Conns |->
                        IF \E i \in ids : peers[i] = c
                        THEN [conn[c] EXCEPT !.pc = "closed"]
                        ELSE [conn[c] EXCEPT !.missed = @ \/ conn[c].id \in registered \ ids]]
        /\ peers' = [i \in Ids |-> IF i \in ids THEN None ELSE peers[i]]
    /\ lock' = None
    /\ Become(a, IdleAdmin)
    /\ UNCHANGED <<dbVars, ses>>

-----------------------------------------------------------------------------
(* The start of a task: the route was resolved when the client logged in; the *)
(* row is read again by name, the peer by the id of the login.                *)

Login(s, i) ==
    /\ ses[s].pc = "idle"
    /\ Row(i) /\ server[i].agent /\ server[i].enabled
    /\ ses' = [ses EXCEPT ![s] = [IdleSession EXCEPT !.pc = "login", !.id = i,
                                                    !.name = server[i].name]]
    /\ UNCHANGED <<dbVars, hubVars, admin>>

ReadsRoute(s, i) ==
    /\ ses[s].pc = "login"
    /\ i \in Named(ses[s].name)
    /\ server[i].enabled /\ server[i].agent
    /\ ses' = [ses EXCEPT ![s] = [@ EXCEPT !.pc = "lookup", !.read = i,
                                          !.hash = server[i].hash]]
    /\ UNCHANGED <<dbVars, hubVars, admin>>

\* Mutant of FindsPeer: the hash of the peer is not compared.
FindsAnyPeer(s, c) ==
    /\ ses[s].pc = "lookup"
    /\ lock = None
    /\ peers[ses[s].id] = c
    /\ ses' = [ses EXCEPT ![s] = [@ EXCEPT !.pc = "use", !.peer = c]]
    /\ UNCHANGED <<dbVars, hubVars, admin>>

FindsPeer(s, c) ==
    /\ ses[s].pc = "lookup"
    /\ lock = None
    /\ peers[ses[s].id] = c
    /\ conn[c].hash = ses[s].hash
    /\ ses' = [ses EXCEPT ![s] = [@ EXCEPT !.pc = "use", !.peer = c]]
    /\ UNCHANGED <<dbVars, hubVars, admin>>

\* The route is unavailable, the agent offline, or the task over.
Leaves(s) ==
    /\ ses[s].pc # "idle"
    /\ ses' = [ses EXCEPT ![s] = IdleSession]
    /\ UNCHANGED <<dbVars, hubVars, admin>>

-----------------------------------------------------------------------------
ConnStep(c) ==
    \/ \E x \in Secrets, h \in Hosts : Connect(c, x, h)
    \/ Resolve(c) \/ ResolveFails(c) \/ Install(c) \/ Ends(c) \/ Unregister(c)

EditServer(a) ==
    \/ \E n \in Names, agent \in BOOLEAN : CreateServer(a, n, agent)
    \/ \E i \in Ids, n \in Names, agent \in BOOLEAN : UpdateServer(a, i, n, agent)
    \/ \E n \in Names : DeleteReads(a, n)
    \/ DeleteWrites(a)
    \/ \E n \in Names, on \in BOOLEAN : SetServerEnabled(a, n, on)
    \/ SetEnabledReads(a)
    \/ \E n \in Names : TestServer(a, n)

EditCredential(a) ==
    \/ \E n \in Names : RotateReads(a, n)
    \/ \E t \in Tokens : RotateWrites(a, t)
    \/ RotateFails(a)
    \/ \E t \in Tokens : CreateEnrollment(a, t)
    \/ \E t \in Tokens : RevokeEnrollment(a, t)
    \/ \E k \in Keys : PutSelfRegistration(a, k)
    \/ DisableSelfRegistration(a)
    \/ DisconnectRegistered(a)

SessionStep(s) ==
    \/ \E i \in Ids : Login(s, i) \/ ReadsRoute(s, i)
    \/ \E c \in Conns : FindsPeer(s, c)
    \/ Leaves(s)

Next ==
    \/ \E c \in Conns : ConnStep(c)
    \/ \E a \in Admins : EditServer(a) \/ RereadFails(a) \/ EditCredential(a) \/ Disconnect(a)
    \/ \E s \in Clients : SessionStep(s)

Spec == Init /\ [][Next]_vars

-----------------------------------------------------------------------------
(* Safety *)

\* A handler has changed the row of i and will disconnect its agent.
Pending(i) == \E a \in Admins :
    \/ admin[a].pc = "disconnect" /\ admin[a].id = i
    \/ admin[a].pc = "reread" /\ Row(i) /\ admin[a].name = server[i].name

\* What the connection presented still gives access to route i.
Authorised(c, i) ==
    /\ server[i].agent /\ server[i].enabled
    /\ conn[c].secret \in Keys => setting = [key |-> conn[c].secret, enabled |-> TRUE]
    /\ conn[c].secret \in Tokens =>
        /\ server[i].hash \in {conn[c].secret} \cup (Keys \X Hosts)
        /\ enrollment[conn[c].secret] # None => enrollment[conn[c].secret].enabled

\* Once a handler that disabled, changed, rotated or revoked something has returned,
\* no agent it concerns is registered, in whatever order it met a connecting one, but
\* one that a handler left out because it could not read the database.
RevokedIsDisconnected ==
    \A i \in Ids :
        peers[i] # None /\ Row(i) /\ lock = None /\ ~Pending(i)
            => Authorised(peers[i], i) \/ conn[peers[i]].missed

\* No credential opens two routes.
HashIdentifiesRoute ==
    \A i, j \in Ids :
        Row(i) /\ Row(j) /\ server[i].hash # None /\ server[i].hash = server[j].hash => i = j

\* A task goes to an agent of the very route that was found enabled for it, even if
\* routes exchanged their names since the login.
SameRoute ==
    \A s \in Clients : ses[s].pc = "use" => ses[s].read = ses[s].id

\* A self-registered route that was deleted does not come back by reconnection: the
\* name stays blocked and no row is created for it with the shared key.
DeletedStaysDeleted ==
    [][\A h \in Hosts : hosts[h] = Deleted =>
        /\ hosts'[h] = Deleted
        /\ \A i \in Ids : Row(i)' => server'[i].hash \notin Keys \X {h}]_vars

\* A connected agent stays usable: its route keeps the credential it presented.
ConnectedStaysUsable ==
    \A i \in Ids :
        peers[i] # None /\ Row(i) /\ lock = None /\ ~Pending(i)
            => conn[peers[i]].hash = server[i].hash
=============================================================================
