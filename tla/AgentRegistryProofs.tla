------------------------- MODULE AgentRegistryProofs -------------------------
(***************************************************************************)
(* Proofs about AgentRegistry, for any number of agents, administrators,   *)
(* clients, routes and credentials.                                        *)
(***************************************************************************)
EXTENDS AgentRegistry, WellFoundedInduction, TLAPS

-----------------------------------------------------------------------------
(* The tables *)

\* A token that a route has or had. No other route gets it: a token is issued once, and an
\* enrollment token claimed once.
Spent(t) == t \in issued /\ (enrollment[t] # None => enrollment[t].used)

\* Ids are not used twice.
IdsUsed ==
    /\ \A i \in Ids : Row(i) => i <= last
    /\ \A h \in Hosts : hosts[h] \in Ids => hosts[h] <= last
    /\ \A t \in Tokens : enrollment[t] # None /\ enrollment[t].id # None => enrollment[t].id <= last

NamesApart == \A i, j \in Ids : Row(i) /\ Row(j) /\ server[i].name = server[j].name => i = j

\* The route of an enrollment token names it as long as it is there, and is no route of the
\* shared key; a hash of the shared key is that of the route of its host.
RoutesKnown ==
    /\ \A t \in Tokens : enrollment[t] # None => t \in issued
    /\ \A i \in Ids, t \in Tokens :
        Row(i) /\ server[i].hash = t /\ enrollment[t] # None => enrollment[t].id = i
    /\ \A t \in Tokens, h \in Hosts :
        enrollment[t] # None /\ enrollment[t].id # None => hosts[h] # enrollment[t].id
    /\ \A i \in Ids, k \in Keys, h \in Hosts :
        Row(i) /\ server[i].hash = Derived(k, h) => hosts[h] = i

-----------------------------------------------------------------------------
(* What a hash was read for *)

Held == {"locked", "serving", "closed"}

\* Somebody knows the hash x as that of the route i.
Holds(i, x) ==
    \/ Row(i) /\ server[i].hash = x
    \/ \E c \in Conns : conn[c].pc \in Held /\ conn[c].id = i /\ conn[c].hash = x
    \/ \E s \in Clients : ses[s].pc \in {"lookup", "use"} /\ ses[s].read = i /\ ses[s].hash = x

\* No other route will get it.
Owned(i, x) ==
    /\ x \notin Keys
    /\ x \in Tokens => Spent(x)
    /\ \A k \in Keys, h \in Hosts : x = Derived(k, h) => hosts[h] \in {i, Deleted}

HoldersAgree ==
    \A i, j \in Ids, x \in Hashes : Holds(i, x) => Owned(i, x) /\ (Holds(j, x) => i = j)

-----------------------------------------------------------------------------
(* The hub *)

LockInv ==
    /\ \A c \in Conns : conn[c].pc = "locked" <=> lock = c
    /\ \A a \in Admins : admin[a].pc = "drop" <=> lock = a

\* What the connection of an agent was accepted with.
AcceptedWith(c) ==
    /\ conn[c].pc # "free" => conn[c].secret \in Secrets /\ conn[c].host \in Hosts
    /\ conn[c].pc \in Held =>
        /\ conn[c].id \in Ids /\ conn[c].id <= last /\ conn[c].hash \in Hashes
        /\ conn[c].secret \in Tokens =>
            /\ conn[c].hash = conn[c].secret
            /\ enrollment[conn[c].secret] # None /\ Row(conn[c].id) =>
                enrollment[conn[c].secret].id = conn[c].id
        /\ conn[c].secret \in Keys /\ Row(conn[c].id) => hosts[conn[c].host] = conn[c].id

ConnInv == \A c \in Conns : AcceptedWith(c)

PeersInv == \A i \in Ids : peers[i] # None =>
    conn[peers[i]].pc \in {"serving", "closed"} /\ conn[peers[i]].id = i

\* A handler that is about to disconnect the agent of i, and one that is about to read
\* whether it has to.
Disconnects(i) == \E a \in Admins : admin[a].pc = "disconnect" /\ admin[a].id = i
Rereads(i) == \E a \in Admins : admin[a].pc = "reread" /\ admin[a].name = server[i].name

\* A connection that is registered for i, or will be when the lock is released, and that no
\* failed read of the database has left out of a disconnection.
Registered(c, i) ==
    /\ ~conn[c].missed
    /\ peers[i] = c \/ (conn[c].pc = "locked" /\ conn[c].id = i)

\* What the connection presented is good, or somebody has still to act on the change.
Watched(c, i) ==
    /\ server[i].agent \/ Disconnects(i)
    /\ server[i].enabled \/ Disconnects(i) \/ Rereads(i)
    /\ conn[c].secret \in Tokens =>
        \/ Disconnects(i)
        \/ /\ server[i].hash \in {conn[c].secret} \cup (Keys \X Hosts)
           /\ enrollment[conn[c].secret] # None => enrollment[conn[c].secret].enabled
    /\ conn[c].secret \in Keys =>
        setting = [key |-> conn[c].secret, enabled |-> TRUE] \/ lock \in Admins

RegisteredInv == \A c \in Conns, i \in Ids : Registered(c, i) /\ Row(i) => Watched(c, i)

-----------------------------------------------------------------------------
AdminInv == \A a \in Admins :
    /\ admin[a].pc \in {"disconnect", "rotate"} => admin[a].id \in Ids
    /\ admin[a].pc \in {"delete", "reread"} => admin[a].name \in Names

SessionInv == \A s \in Clients :
    /\ ses[s].pc # "idle" => ses[s].id \in Ids
    /\ ses[s].pc \in {"lookup", "use"} => ses[s].read \in Ids
    /\ ses[s].pc = "use" => ses[s].read = ses[s].id

TablesInv == IdsUsed /\ NamesApart /\ RoutesKnown
HubInv == LockInv /\ ConnInv /\ PeersInv /\ RegisteredInv
RegistryInv == TypeOK /\ TablesInv /\ HoldersAgree /\ HubInv /\ AdminInv /\ SessionInv

-----------------------------------------------------------------------------
(* Lemmas about the operators *)

\* A set of numbers has a smallest one.
LEMMA Smallest ==
    ASSUME NEW T, T \subseteq Nat, T # {}
    PROVE  \E m \in T : \A n \in T : m <= n
<1> DEFINE R == {p \in Nat \X Nat : p[1] < p[2]}
<1>1. IsWellFoundedOn(R, Nat)  BY NatLessThanWellFounded DEF OpToRel
<1>2. \A m, n \in Nat : n < m => <<n, m>> \in R  BY DEF R
<1>. HIDE DEF R
<1>3. PICK m \in T : \A n \in T : ~(<<n, m>> \in R)  BY <1>1, WFMin, Zenon
<1>4. ASSUME NEW n \in T PROVE m <= n
  <2>1. m \in Nat /\ n \in Nat  OBVIOUS
  <2>2. ~(n < m)  BY <1>2, <1>3, <2>1
  <2>. QED  BY <2>1, <2>2
<1>. QED  BY <1>4

\* The name found for a host is one of its names, and is free.
LEMMA FirstFreeIsFree ==
    ASSUME NEW h \in Hosts, FreeNames(h) # {}
    PROVE  FirstFree(h) \in Names /\ Named(FirstFree(h)) = {}
<1>1. FreeNames(h) \subseteq Nat  BY RegistryAssumption DEF FreeNames
<1>2. \E n \in FreeNames(h) : \A m \in FreeNames(h) : n <= m  BY <1>1, Smallest
<1>3. PICK n \in FreeNames(h) : FirstFree(h) = <<h, n>>  BY <1>2 DEF FirstFree
<1>. QED  BY <1>3 DEF FreeNames, Names

\* What TypeOK says of the parts of a row and of a local state.
LEMMA Shapes ==
    ASSUME TypeOK
    PROVE  /\ \A i \in Ids : Row(i) => server[i] \in ServerRow
           /\ \A t \in Tokens : enrollment[t] # None => enrollment[t] \in EnrollmentRow
           /\ \A c \in Conns : conn[c] \in ConnState
           /\ \A a \in Admins : admin[a] \in AdminState
           /\ \A s \in Clients : ses[s] \in SessionState
  BY DEF TypeOK, Row

-----------------------------------------------------------------------------
(* The types *)

\* A row that a statement inserts.
LEMMA InsertTyped ==
    ASSUME TypeOK, last < MaxServers, NEW row \in ServerRow, server' = Insert(row),
           last' = last + 1
    PROVE  /\ last + 1 \in Ids /\ last' \in 0..MaxServers
           /\ server' \in [Ids -> ServerRow \cup {None}]
           /\ server'[last + 1] = row
           /\ \A i \in Ids : i # last + 1 => server'[i] = server[i]
  BY RegistryAssumption DEF TypeOK, Ids, Insert

LEMMA NewRowTyped ==
    ASSUME NEW n \in Names, NEW agent \in BOOLEAN, NEW x \in Hashes \cup {None}
    PROVE  NewRow(n, agent, x) \in ServerRow
  BY DEF NewRow, ServerRow

LEMMA FirstNames == \A h \in Hosts : <<h, 1>> \in Names
  BY RegistryAssumption DEF Names

LEMMA ConnTypes ==
    ASSUME TypeOK, ConnInv, NEW c \in Conns, ConnStep(c)
    PROVE  TypeOK'
<1>. USE DEF hubVars, dbVars
<1>0. conn[c] \in ConnState /\ FreeConn \in ConnState  BY DEF TypeOK, ConnState, FreeConn
<1>1. CASE \E x \in Secrets, h \in Hosts : Connect(c, x, h)
  <2>. PICK x \in Secrets, h \in Hosts : Connect(c, x, h)  BY <1>1
  <2>1. [FreeConn EXCEPT !.pc = "upgraded", !.secret = x, !.host = h] \in ConnState
    BY DEF ConnState, FreeConn
  <2>. QED  BY <2>1 DEF Connect, TypeOK
<1>2. CASE Resolve(c)
  <2>. DEFINE x == conn[c].secret
              h == conn[c].host
              Locked(i, y) == conn' = [conn EXCEPT ![c] = [@ EXCEPT !.pc = "locked", !.id = i,
                                                                    !.hash = y]]
  <2>1. x \in Secrets /\ h \in Hosts /\ lock' = c /\ UNCHANGED <<issued, setting, peers, admin, ses>>
    BY <1>2 DEF Resolve, ConnInv, AcceptedWith
  <2>2. ASSUME NEW i \in Ids, NEW y \in Hashes, Locked(i, y)
        PROVE  conn' \in [Conns -> ConnState]
    <3>1. [conn[c] EXCEPT !.pc = "locked", !.id = i, !.hash = y] \in ConnState
      BY <1>0 DEF ConnState
    <3>. QED  BY <2>2, <3>1 DEF TypeOK
  <2>3. CASE \E i \in Ids : /\ KnownRoute(x, h, i)
                            /\ Locked(i, x)
                            /\ UNCHANGED <<server, last, enrollment, hosts>>
    <3>1. x \in Hashes  BY <2>1 DEF Hashes
    <3>2. PICK i \in Ids : Locked(i, x)  BY <2>3
    <3>3. conn' \in [Conns -> ConnState]  BY <3>1, <3>2, <2>2
    <3>. QED  BY <2>1, <2>3, <3>3 DEF TypeOK
  <2>4. CASE ClaimToken(x, h) /\ Locked(last + 1, x)
    <3>1. x \in Hashes /\ x \in Tokens  BY <2>1, <2>4 DEF Hashes, ClaimToken, PendingToken
    <3>2. FirstFree(h) \in Names  BY <2>1, <2>4, FirstFreeIsFree DEF ClaimToken
    <3>3. NewRow(FirstFree(h), TRUE, x) \in ServerRow  BY <3>1, <3>2, NewRowTyped
    <3>4. last + 1 \in Ids /\ last' \in 0..MaxServers /\ server' \in [Ids -> ServerRow \cup {None}]
      BY <2>4, <3>3, InsertTyped DEF ClaimToken
    <3>5. [enabled |-> TRUE, used |-> TRUE, host |-> h, id |-> last + 1] \in EnrollmentRow
      BY <2>1, <3>4 DEF EnrollmentRow
    <3>6. enrollment' \in [Tokens -> EnrollmentRow \cup {None}]
      BY <2>4, <3>1, <3>5 DEF ClaimToken, TypeOK
    <3>7. conn' \in [Conns -> ConnState]  BY <2>2, <2>4, <3>1, <3>4
    <3>8. hosts' = hosts  BY <2>4 DEF ClaimToken
    <3>. QED  BY <2>1, <3>4, <3>6, <3>7, <3>8 DEF TypeOK
  <2>5. CASE \E i \in Ids : Reconnects(x, h, i) /\ Locked(i, SharedHash(x, h))
    <3>. PICK i \in Ids : Reconnects(x, h, i) /\ Locked(i, SharedHash(x, h))  BY <2>5
    <3>1. x \in Keys  BY <2>1, RegistryAssumption DEF Reconnects, SharedKey, TypeOK, Secrets
    <3>2. SharedHash(x, h) \in Hashes  BY <3>1, <2>1 DEF SharedHash, Derived, Hashes
    <3>3. [server[i] EXCEPT !.hash = SharedHash(x, h)] \in ServerRow
      BY <3>2, Shapes DEF Reconnects, ServerRow
    <3>4. server' \in [Ids -> ServerRow \cup {None}]  BY <3>3 DEF Reconnects, TypeOK
    <3>5. conn' \in [Conns -> ConnState]  BY <2>2, <3>2
    <3>. QED  BY <2>1, <3>4, <3>5 DEF TypeOK, Reconnects
  <2>6. CASE FirstRegistration(x, h) /\ Locked(last + 1, SharedHash(x, h))
    <3>1. x \in Keys  BY <2>1, <2>6, RegistryAssumption DEF FirstRegistration, SharedKey, TypeOK, Secrets
    <3>2. SharedHash(x, h) \in Hashes  BY <3>1, <2>1 DEF SharedHash, Derived, Hashes
    <3>3. NewRow(<<h, 1>>, TRUE, SharedHash(x, h)) \in ServerRow
      BY <2>1, <3>2, FirstNames, NewRowTyped
    <3>4. last + 1 \in Ids /\ last' \in 0..MaxServers /\ server' \in [Ids -> ServerRow \cup {None}]
      BY <2>6, <3>3, InsertTyped DEF FirstRegistration
    <3>5. conn' \in [Conns -> ConnState]  BY <2>2, <2>6, <3>2, <3>4
    <3>6. hosts' \in [Hosts -> {None, Deleted} \cup Ids]
      BY <2>1, <2>6, <3>4 DEF FirstRegistration, TypeOK
    <3>. QED  BY <2>1, <2>6, <3>4, <3>5, <3>6 DEF TypeOK, FirstRegistration
  <2>. QED  BY <1>2, <2>3, <2>4, <2>5, <2>6 DEF Resolve
<1>3. CASE ResolveFails(c)
  BY <1>0, <1>3 DEF ResolveFails, TypeOK
<1>4. CASE Install(c)
  <2>1. [conn[c] EXCEPT !.pc = "serving"] \in ConnState  BY <1>0 DEF ConnState
  <2>2. conn[c].id \in Ids  BY <1>4 DEF Install, ConnInv, AcceptedWith, Held
  <2>3. conn' \in [Conns -> ConnState] /\ peers' \in [Ids -> Conns \cup {None}] /\ lock' = None
    BY <1>0, <1>4, <2>1, <2>2 DEF Install, TypeOK
  <2>. QED  BY <1>4, <2>3 DEF Install, TypeOK
<1>5. CASE Ends(c)
  <2>1. [conn[c] EXCEPT !.pc = "closed"] \in ConnState  BY <1>0 DEF ConnState
  <2>. QED  BY <1>5, <2>1 DEF Ends, TypeOK
<1>6. CASE Unregister(c)
  <2>1. conn[c].id \in Ids  BY <1>6 DEF Unregister, ConnInv, AcceptedWith, Held
  <2>2. conn' \in [Conns -> ConnState] /\ peers' \in [Ids -> Conns \cup {None}]
    BY <1>0, <1>6, <2>1 DEF Unregister, TypeOK
  <2>. QED  BY <1>6, <2>2 DEF Unregister, TypeOK
<1>. QED  BY <1>1, <1>2, <1>3, <1>4, <1>5, <1>6 DEF ConnStep

LEMMA BecomeTyped ==
    ASSUME TypeOK, NEW a \in Admins, NEW state \in AdminState, Become(a, state)
    PROVE  admin' \in [Admins -> AdminState]
  BY DEF Become, TypeOK

LEMMA AdminStates ==
    /\ IdleAdmin \in AdminState
    /\ \A i \in Ids : [pc |-> "disconnect", id |-> i, name |-> None] \in AdminState
    /\ \A i \in Ids \cup {None}, n \in Names : [pc |-> "delete", id |-> i, name |-> n] \in AdminState
    /\ \A n \in Names : [pc |-> "reread", id |-> None, name |-> n] \in AdminState
    /\ \A i \in Ids : [pc |-> "rotate", id |-> i, name |-> None] \in AdminState
    /\ [pc |-> "drop", id |-> None, name |-> None] \in AdminState
  BY DEF AdminState, IdleAdmin

LEMMA EditServerTypes ==
    ASSUME TypeOK, AdminInv, NEW a \in Admins, EditServer(a)
    PROVE  TypeOK'
<1>. USE DEF hubVars, dbVars
<1>1. CASE \E n \in Names, agent \in BOOLEAN : CreateServer(a, n, agent)
  <2>. PICK n \in Names, agent \in BOOLEAN : CreateServer(a, n, agent)  BY <1>1
  <2>1. NewRow(n, agent, None) \in ServerRow  BY NewRowTyped
  <2>2. last' \in 0..MaxServers /\ server' \in [Ids -> ServerRow \cup {None}]
    BY <2>1, InsertTyped DEF CreateServer
  <2>. QED  BY <2>2 DEF CreateServer, TypeOK
<1>2. CASE \E i \in Ids, n \in Names, agent \in BOOLEAN : UpdateServer(a, i, n, agent)
  <2>. PICK i \in Ids, n \in Names, agent \in BOOLEAN : UpdateServer(a, i, n, agent)  BY <1>2
  <2>1. [server[i] EXCEPT !.name = n, !.agent = agent] \in ServerRow
    BY Shapes DEF UpdateServer, ServerRow
  <2>2. server' \in [Ids -> ServerRow \cup {None}]  BY <2>1 DEF UpdateServer, TypeOK
  <2>3. admin' \in [Admins -> AdminState]
    BY AdminStates, BecomeTyped DEF UpdateServer, ThenDisconnect
  <2>. QED  BY <2>2, <2>3 DEF UpdateServer, TypeOK
<1>3. CASE \E n \in Names : DeleteReads(a, n)
  <2>. PICK n \in Names : DeleteReads(a, n)  BY <1>3
  <2>1. Named(n) \subseteq Ids  BY DEF Named
  <2>2. admin' \in [Admins -> AdminState]
    BY <2>1, AdminStates, BecomeTyped DEF DeleteReads
  <2>. QED  BY <2>2 DEF DeleteReads, TypeOK
<1>4. CASE DeleteWrites(a)
  <2>. DEFINE gone == Named(admin[a].name)
  <2>1. \A t \in Tokens : enrollment[t] # None =>
            [enrollment[t] EXCEPT !.id = None] \in EnrollmentRow
    BY Shapes DEF EnrollmentRow
  <2>2. server' \in [Ids -> ServerRow \cup {None}] /\ hosts' \in [Hosts -> {None, Deleted} \cup Ids]
    BY <1>4 DEF DeleteWrites, TypeOK
  <2>3. enrollment' \in [Tokens -> EnrollmentRow \cup {None}]
    BY <1>4, <2>1 DEF DeleteWrites, TypeOK
  <2>4. admin[a].id \in Ids \cup {None}  BY DEF TypeOK, AdminState
  <2>5. admin' \in [Admins -> AdminState]
    BY <1>4, <2>4, AdminStates, BecomeTyped DEF DeleteWrites, ThenDisconnect
  <2>. QED  BY <1>4, <2>2, <2>3, <2>5 DEF DeleteWrites, TypeOK
<1>5. CASE \E n \in Names, on \in BOOLEAN : SetServerEnabled(a, n, on)
  <2>. PICK n \in Names, on \in BOOLEAN : SetServerEnabled(a, n, on)  BY <1>5
  <2>1. \A i \in Named(n) : [server[i] EXCEPT !.enabled = on] \in ServerRow
    BY Shapes DEF Named, ServerRow
  <2>2. server' \in [Ids -> ServerRow \cup {None}]  BY <2>1 DEF SetServerEnabled, TypeOK
  <2>3. admin' \in [Admins -> AdminState]
    BY AdminStates, BecomeTyped DEF SetServerEnabled
  <2>. QED  BY <2>2, <2>3 DEF SetServerEnabled, TypeOK
<1>6. CASE SetEnabledReads(a)
  <2>1. Named(admin[a].name) \subseteq Ids  BY DEF Named
  <2>2. admin' \in [Admins -> AdminState]
    BY <1>6, <2>1, AdminStates, BecomeTyped DEF SetEnabledReads, ThenDisconnect
  <2>. QED  BY <1>6, <2>2 DEF SetEnabledReads, TypeOK
<1>7. CASE \E n \in Names : TestServer(a, n)
  <2>1. admin' \in [Admins -> AdminState]
    BY <1>7, AdminStates, BecomeTyped DEF TestServer
  <2>. QED  BY <1>7, <2>1 DEF TestServer, TypeOK
<1>. QED  BY <1>1, <1>2, <1>3, <1>4, <1>5, <1>6, <1>7 DEF EditServer

LEMMA EditCredentialTypes ==
    ASSUME TypeOK, AdminInv, NEW a \in Admins, EditCredential(a)
    PROVE  TypeOK'
<1>. USE DEF hubVars, dbVars
<1>1. CASE \E n \in Names : RotateReads(a, n)
  <2>. PICK n \in Names : RotateReads(a, n)  BY <1>1
  <2>1. Named(n) \subseteq Ids  BY DEF Named
  <2>2. admin' \in [Admins -> AdminState]
    BY <2>1, AdminStates, BecomeTyped DEF RotateReads
  <2>. QED  BY <2>2 DEF RotateReads, TypeOK
<1>2. CASE \E t \in Tokens : RotateWrites(a, t)
  <2>. PICK t \in Tokens : RotateWrites(a, t)  BY <1>2
  <2>1. admin[a].id \in Ids  BY DEF RotateWrites, AdminInv
  <2>2. Row(admin[a].id) => [server[admin[a].id] EXCEPT !.hash = t] \in ServerRow
    BY <2>1, Shapes DEF ServerRow, Hashes, Secrets
  <2>3. server' \in [Ids -> ServerRow \cup {None}]  BY <2>1, <2>2 DEF RotateWrites, TypeOK
  <2>4. admin' \in [Admins -> AdminState]
    BY <2>1, AdminStates, BecomeTyped DEF RotateWrites, ThenDisconnect
  <2>. QED  BY <2>3, <2>4 DEF RotateWrites, TypeOK
<1>3. CASE RotateFails(a)
  <2>1. admin' \in [Admins -> AdminState]
    BY <1>3, AdminStates, BecomeTyped DEF RotateFails
  <2>. QED  BY <1>3, <2>1 DEF RotateFails, TypeOK
<1>4. CASE \E t \in Tokens : CreateEnrollment(a, t)
  <2>. PICK t \in Tokens : CreateEnrollment(a, t)  BY <1>4
  <2>1. [enabled |-> TRUE, used |-> FALSE, host |-> None, id |-> None] \in EnrollmentRow
    BY DEF EnrollmentRow
  <2>. QED  BY <2>1 DEF CreateEnrollment, TypeOK
<1>5. CASE \E t \in Tokens : RevokeEnrollment(a, t)
  <2>. PICK t \in Tokens : RevokeEnrollment(a, t)  BY <1>5
  <2>. DEFINE i == enrollment[t].id
  <2>1. enrollment[t] \in EnrollmentRow  BY Shapes DEF RevokeEnrollment
  <2>2. i \in Ids \cup {None} /\ [enrollment[t] EXCEPT !.enabled = FALSE] \in EnrollmentRow
    BY <2>1 DEF EnrollmentRow
  <2>3. enrollment' \in [Tokens -> EnrollmentRow \cup {None}]
    BY <2>2 DEF RevokeEnrollment, TypeOK
  <2>4. CASE i # None /\ Row(i) /\ server[i].hash = t
    <3>1. [server[i] EXCEPT !.hash = None] \in ServerRow
      BY <2>2, <2>4, Shapes DEF ServerRow
    <3>2. server' \in [Ids -> ServerRow \cup {None}]
      BY <2>4, <3>1 DEF RevokeEnrollment, TypeOK
    <3>3. admin' \in [Admins -> AdminState]
      BY <2>2, <2>4, AdminStates, BecomeTyped DEF RevokeEnrollment, ThenDisconnect
    <3>. QED  BY <2>3, <3>2, <3>3 DEF RevokeEnrollment, TypeOK
  <2>5. CASE ~(i # None /\ Row(i) /\ server[i].hash = t)
    BY <2>3, <2>5 DEF RevokeEnrollment, TypeOK
  <2>. QED  BY <2>4, <2>5
<1>6. CASE \E k \in Keys : PutSelfRegistration(a, k)
  <2>. PICK k \in Keys : PutSelfRegistration(a, k)  BY <1>6
  <2>1. admin' \in [Admins -> AdminState] /\ lock' \in Conns \cup Admins \cup {None}
    BY AdminStates, BecomeTyped DEF PutSelfRegistration, TypeOK
  <2>. QED  BY <2>1 DEF PutSelfRegistration, TypeOK
<1>7. CASE DisableSelfRegistration(a)
  <2>1. admin' \in [Admins -> AdminState]
    BY <1>7, AdminStates, BecomeTyped DEF DisableSelfRegistration
  <2>. QED  BY <1>7, <2>1 DEF DisableSelfRegistration, TypeOK
<1>8. CASE DisconnectRegistered(a)
  <2>. DEFINE registered == {i \in Ids : \E h \in Hosts : hosts[h] = i}
  <2>1. PICK ids \in {Ids} \cup SUBSET registered :
            /\ conn' = [c \in Conns |->
                            IF \E i \in ids : peers[i] = c
                            THEN [conn[c] EXCEPT !.pc = "closed"]
                            ELSE [conn[c] EXCEPT !.missed = @ \/ conn[c].id \in registered \ ids]]
            /\ peers' = [i \in Ids |-> IF i \in ids THEN None ELSE peers[i]]
    BY <1>8 DEF DisconnectRegistered
  <2>2. ASSUME NEW c \in Conns
        PROVE  /\ [conn[c] EXCEPT !.pc = "closed"] \in ConnState
               /\ \A b \in BOOLEAN : [conn[c] EXCEPT !.missed = b] \in ConnState
    BY Shapes DEF ConnState
  <2>3. conn' \in [Conns -> ConnState]
    <3>1. \A c \in Conns : (conn[c].missed \/ conn[c].id \in registered \ ids) \in BOOLEAN
      OBVIOUS
    <3>. QED  BY <2>1, <2>2, <3>1
  <2>4. peers' \in [Ids -> Conns \cup {None}]  BY <2>1 DEF TypeOK
  <2>5. admin' \in [Admins -> AdminState]
    BY <1>8, AdminStates, BecomeTyped DEF DisconnectRegistered
  <2>. QED  BY <1>8, <2>3, <2>4, <2>5 DEF DisconnectRegistered, TypeOK
<1>. QED
  BY <1>1, <1>2, <1>3, <1>4, <1>5, <1>6, <1>7, <1>8 DEF EditCredential

LEMMA DisconnectTypes ==
    ASSUME TypeOK, AdminInv, NEW a \in Admins, Disconnect(a)
    PROVE  TypeOK'
<1>. DEFINE i == admin[a].id
<1>1. i \in Ids  BY DEF Disconnect, AdminInv
<1>2. peers[i] # None => [conn[peers[i]] EXCEPT !.pc = "closed"] \in ConnState
  <2>. SUFFICES ASSUME peers[i] # None PROVE [conn[peers[i]] EXCEPT !.pc = "closed"] \in ConnState
    OBVIOUS
  <2>1. conn[peers[i]] \in ConnState  BY <1>1 DEF TypeOK
  <2>. QED  BY <2>1 DEF ConnState
<1>3. conn' \in [Conns -> ConnState]
  BY <1>1, <1>2 DEF Disconnect, TypeOK
<1>4. peers' \in [Ids -> Conns \cup {None}]  BY <1>1 DEF Disconnect, TypeOK
<1>5. admin' \in [Admins -> AdminState]  BY AdminStates, BecomeTyped DEF Disconnect
<1>. QED  BY <1>3, <1>4, <1>5 DEF Disconnect, TypeOK, dbVars

LEMMA SessionTypes ==
    ASSUME TypeOK, SessionInv, NEW s \in Clients, SessionStep(s)
    PROVE  TypeOK'
<1>. USE DEF hubVars, dbVars
<1>0. ses[s] \in SessionState /\ IdleSession \in SessionState
  BY DEF TypeOK, SessionState, IdleSession
<1>1. ASSUME NEW i \in Ids, Login(s, i) PROVE TypeOK'
  <2>1. server[i].name \in Names  BY <1>1, Shapes DEF Login, ServerRow
  <2>2. [IdleSession EXCEPT !.pc = "login", !.id = i, !.name = server[i].name] \in SessionState
    BY <2>1 DEF IdleSession, SessionState
  <2>. QED  BY <1>1, <2>2 DEF Login, TypeOK
<1>2. ASSUME NEW i \in Ids, ReadsRoute(s, i) PROVE TypeOK'
  <2>1. server[i].hash \in Hashes \cup {None}
    BY <1>2, Shapes DEF ReadsRoute, Named, ServerRow
  <2>2. [ses[s] EXCEPT !.pc = "lookup", !.read = i, !.hash = server[i].hash] \in SessionState
    BY <1>0, <2>1 DEF SessionState
  <2>. QED  BY <1>2, <2>2 DEF ReadsRoute, TypeOK
<1>3. ASSUME NEW c \in Conns, FindsPeer(s, c) PROVE TypeOK'
  <2>1. [ses[s] EXCEPT !.pc = "use", !.peer = c] \in SessionState
    BY <1>0 DEF SessionState
  <2>. QED  BY <1>3, <2>1 DEF FindsPeer, TypeOK
<1>4. CASE Leaves(s)
  BY <1>0, <1>4 DEF Leaves, TypeOK
<1>. QED  BY <1>1, <1>2, <1>3, <1>4 DEF SessionStep

LEMMA RereadFailsTypes ==
    ASSUME TypeOK, NEW a \in Admins, RereadFails(a)
    PROVE  TypeOK'
<1>1. \A c \in Conns : conn[c] \in ConnState /\ [conn[c] EXCEPT !.missed = TRUE] \in ConnState
  BY Shapes DEF ConnState
<1>2. conn' \in [Conns -> ConnState]  BY <1>1 DEF RereadFails
<1>3. admin' \in [Admins -> AdminState]  BY AdminStates, BecomeTyped DEF RereadFails
<1>. QED  BY <1>2, <1>3 DEF RereadFails, TypeOK, dbVars

LEMMA TypeStep ==
    ASSUME TypeOK, ConnInv, AdminInv, SessionInv, [Next]_vars
    PROVE  TypeOK'
<1>1. CASE Next
  BY <1>1, ConnTypes, EditServerTypes, RereadFailsTypes, EditCredentialTypes, DisconnectTypes,
     SessionTypes DEF Next
<1>2. CASE UNCHANGED vars
  BY <1>2 DEF TypeOK, vars, dbVars, hubVars
<1>. QED  BY <1>1, <1>2

-----------------------------------------------------------------------------
(* What a step may do to the tables *)

\* Rows are only added with new ids, a token is issued and claimed once, a name that a host
\* took is given to no other route, and what names a row keeps naming it while it is there.
TablesMove ==
    /\ last <= last' /\ issued \subseteq issued'
    /\ \A i \in Ids : Row(i)' => Row(i) \/ i > last
    /\ \A t \in Tokens : t \in issued /\ enrollment'[t] # None =>
        /\ enrollment[t] # None
        /\ enrollment[t].used => enrollment'[t].used
        /\ \A i \in Ids : enrollment[t].used /\ enrollment[t].id = i /\ Row(i)' =>
            enrollment'[t].id = i
    /\ \A h \in Hosts : hosts[h] # None =>
        /\ hosts'[h] \in {hosts[h], Deleted}
        /\ \A i \in Ids : hosts[h] = i /\ Row(i)' => hosts'[h] = i

\* Connections keep what they were accepted with, sessions what they read, and routes their
\* hash, or lose it.
ConnsSame == \A c \in Conns :
    /\ conn'[c].pc # "free" => conn'[c].secret \in Secrets /\ conn'[c].host \in Hosts
    /\ conn'[c].pc \in Held =>
        /\ conn[c].pc \in Held
        /\ conn'[c].secret = conn[c].secret /\ conn'[c].host = conn[c].host
        /\ conn'[c].id = conn[c].id /\ conn'[c].hash = conn[c].hash

SessionsSame == \A s \in Clients : ses'[s].pc \in {"lookup", "use"} =>
    /\ ses[s].pc \in {"lookup", "use"}
    /\ ses'[s].read = ses[s].read /\ ses'[s].hash = ses[s].hash

HashesSame == \A i \in Ids : Row(i)' =>
    server'[i].hash = None \/ (Row(i) /\ server'[i].hash = server[i].hash)

\* The hash of a route of the shared key is no secret, and tells its host.
LEMMA HashKinds ==
    \A k \in Keys, h \in Hosts :
        /\ Derived(k, h) \in Hashes /\ Derived(k, h) \notin Secrets
        /\ Derived(k, h) # None
        /\ \A k2 \in Keys, h2 \in Hosts : Derived(k, h) = Derived(k2, h2) => h = h2
  BY RegistryAssumption DEF Derived, Hashes, Secrets

LEMMA NoneIsApart ==
    /\ None \notin Ids /\ None # Deleted /\ None \notin Hashes /\ None \notin Secrets
    /\ Deleted \notin Ids
    /\ None \notin Hosts /\ None \notin Conns /\ None \notin Admins
  BY RegistryAssumption DEF Ids, Deleted, Hashes, Secrets

LEMMA OwnedKept ==
    ASSUME TypeOK, TypeOK', TablesMove, NEW i \in Ids, NEW x \in Hashes, Owned(i, x)
    PROVE  Owned(i, x)'
<1>1. x \in Tokens => Spent(x)'
  BY DEF TablesMove, Owned, Spent
<1>2. ASSUME NEW k \in Keys, NEW h \in Hosts, x = Derived(k, h) PROVE hosts'[h] \in {i, Deleted}
  <2>1. hosts[h] \in {i, Deleted}  BY <1>2 DEF Owned
  <2>. QED  BY <2>1, NoneIsApart DEF TablesMove
<1>3. x \notin Keys  BY DEF Owned
<1>. QED  BY <1>1, <1>2, <1>3 DEF Owned

LEMMA NoNewHolder ==
    ASSUME ConnsSame, SessionsSame, HashesSame, NEW i \in Ids, NEW x \in Hashes, Holds(i, x)'
    PROVE  Holds(i, x)
<1>1. CASE Row(i)' /\ server'[i].hash = x
  BY <1>1, NoneIsApart DEF HashesSame, Holds
<1>2. CASE \E c \in Conns : conn'[c].pc \in Held /\ conn'[c].id = i /\ conn'[c].hash = x
  <2>. PICK c \in Conns : conn'[c].pc \in Held /\ conn'[c].id = i /\ conn'[c].hash = x  BY <1>2
  <2>1. conn[c].pc \in Held /\ conn[c].id = i /\ conn[c].hash = x  BY DEF ConnsSame
  <2>. QED  BY <2>1 DEF Holds
<1>3. CASE \E s \in Clients : ses'[s].pc \in {"lookup", "use"} /\ ses'[s].read = i /\ ses'[s].hash = x
  BY <1>3 DEF SessionsSame, Holds
<1>. QED  BY <1>1, <1>2, <1>3 DEF Holds

\* A step that gives no hash to anybody keeps the owners of the hashes.
LEMMA HoldersKept ==
    ASSUME TypeOK, TypeOK', TablesMove, HoldersAgree,
           \A i \in Ids, x \in Hashes : Holds(i, x)' => Holds(i, x)
    PROVE  HoldersAgree'
<1>. SUFFICES ASSUME NEW i \in Ids, NEW j \in Ids, NEW x \in Hashes, Holds(i, x)'
              PROVE  Owned(i, x)' /\ (Holds(j, x)' => i = j)
  BY DEF HoldersAgree
<1>1. Holds(i, x) /\ (Holds(j, x)' => Holds(j, x))  OBVIOUS
<1>2. Owned(i, x) /\ (Holds(j, x) => i = j)  BY <1>1 DEF HoldersAgree
<1>. QED  BY <1>1, <1>2, OwnedKept

\* So does a step that gives a hash to a route alone.
LEMMA HolderAdded ==
    ASSUME TypeOK, TypeOK', TablesMove, HoldersAgree, NEW g \in Ids, NEW y \in Hashes,
           \A i \in Ids, x \in Hashes : Holds(i, x)' => Holds(i, x) \/ (i = g /\ x = y),
           \A i \in Ids : Holds(i, y) => i = g,
           Owned(g, y)'
    PROVE  HoldersAgree'
<1>. SUFFICES ASSUME NEW i \in Ids, NEW j \in Ids, NEW x \in Hashes, Holds(i, x)'
              PROVE  Owned(i, x)' /\ (Holds(j, x)' => i = j)
  BY DEF HoldersAgree
<1>1. CASE x = y
  <2>1. i = g /\ (Holds(j, x)' => j = g)  BY <1>1
  <2>. QED  BY <1>1, <2>1
<1>2. CASE x # y
  <2>1. Holds(i, x) /\ (Holds(j, x)' => Holds(j, x))  BY <1>2
  <2>2. Owned(i, x) /\ (Holds(j, x) => i = j)  BY <2>1 DEF HoldersAgree
  <2>. QED  BY <2>1, <2>2, OwnedKept
<1>. QED  BY <1>1, <1>2

\* A token that somebody holds is spent.
LEMMA HeldIsSpent ==
    ASSUME HoldersAgree, NEW i \in Ids, NEW t \in Tokens, Holds(i, t)
    PROVE  Spent(t)
<1>1. t \in Hashes  BY DEF Hashes, Secrets
<1>. QED  BY <1>1 DEF HoldersAgree, Owned

LEMMA AcceptedKept ==
    ASSUME TypeOK, TypeOK', ConnInv, HoldersAgree, TablesMove, NEW c \in Conns,
           conn'[c].pc # "free" => conn'[c].secret \in Secrets /\ conn'[c].host \in Hosts,
           conn'[c].pc \in Held =>
             /\ conn[c].pc \in Held
             /\ conn'[c].secret = conn[c].secret /\ conn'[c].host = conn[c].host
             /\ conn'[c].id = conn[c].id /\ conn'[c].hash = conn[c].hash
    PROVE  AcceptedWith(c)'
<1>. SUFFICES ASSUME conn'[c].pc \in Held
      PROVE  /\ conn'[c].id \in Ids /\ conn'[c].id <= last' /\ conn'[c].hash \in Hashes
             /\ conn'[c].secret \in Tokens =>
                  /\ conn'[c].hash = conn'[c].secret
                  /\ enrollment'[conn'[c].secret] # None /\ server'[conn'[c].id] # None =>
                        enrollment'[conn'[c].secret].id = conn'[c].id
             /\ conn'[c].secret \in Keys /\ server'[conn'[c].id] # None =>
                  hosts'[conn'[c].host] = conn'[c].id
  BY DEF AcceptedWith, Row
<1>1. /\ conn'[c].id = conn[c].id /\ conn'[c].hash = conn[c].hash
      /\ conn'[c].secret = conn[c].secret /\ conn'[c].host = conn[c].host
      /\ conn[c].pc \in Held
  OBVIOUS
<1>2. /\ conn[c].id \in Ids /\ conn[c].id <= last /\ conn[c].hash \in Hashes
      /\ conn[c].host \in Hosts
      /\ conn[c].secret \in Tokens => conn[c].hash = conn[c].secret
  BY <1>1 DEF ConnInv, AcceptedWith, Held
<1>. PICK i \in Ids : i = conn[c].id  BY <1>2
<1>. PICK x : x = conn[c].secret  OBVIOUS
<1>. PICK h \in Hosts : h = conn[c].host  BY <1>2
<1>3. (Row(i)' => Row(i)) /\ i <= last'
  <2>1. i \in Int /\ last \in Int /\ last' \in Int  BY DEF Ids, TypeOK
  <2>. QED  BY <1>2, <2>1 DEF TablesMove
<1>4. ASSUME x \in Tokens, enrollment'[x] # None, Row(i)'
      PROVE  enrollment'[x].id = i
  <2>1. Row(i)  BY <1>3, <1>4
  <2>2. Holds(i, x)  BY <1>1, <1>2, <1>4 DEF Holds
  <2>3. Spent(x)  BY <1>4, <2>2, HeldIsSpent
  <2>4. enrollment[x] # None /\ enrollment[x].used  BY <1>4, <2>3 DEF Spent, TablesMove
  <2>5. enrollment[x].id = i  BY <1>1, <1>4, <2>1, <2>4 DEF ConnInv, AcceptedWith
  <2>. QED  BY <1>4, <2>3, <2>4, <2>5 DEF Spent, TablesMove
<1>5. ASSUME x \in Keys, Row(i)' PROVE hosts'[h] = i
  <2>1. hosts[h] = i  BY <1>1, <1>3, <1>5 DEF ConnInv, AcceptedWith
  <2>. QED  BY <1>5, <2>1, NoneIsApart DEF TablesMove
<1>. QED  BY <1>1, <1>2, <1>3, <1>4, <1>5 DEF Row

LEMMA ConnKept ==
    ASSUME TypeOK, TypeOK', ConnInv, HoldersAgree, TablesMove, ConnsSame
    PROVE  ConnInv'
<1>1. ASSUME NEW c \in Conns PROVE AcceptedWith(c)'  BY AcceptedKept DEF ConnsSame
<1>. QED  BY <1>1 DEF ConnInv

-----------------------------------------------------------------------------
(* The steps that write the tables *)

LEMMA Unwritten ==
    ASSUME TypeOK, TablesInv, UNCHANGED <<server, last, enrollment, issued, hosts>>
    PROVE  TablesMove /\ TablesInv' /\ HashesSame
<1>1. last' \in Int /\ last' = last  BY DEF TypeOK
<1>2. TablesMove  BY <1>1 DEF TablesMove, Row
<1>3. HashesSame  BY DEF HashesSame, Row
<1>4. IdsUsed' /\ NamesApart' /\ RoutesKnown'
  BY DEF TablesInv, IdsUsed, NamesApart, RoutesKnown, Row
<1>. QED  BY <1>2, <1>3, <1>4 DEF TablesInv

\* A new row: its id is that of no row and no reference, its name is free.
LEMMA Inserted ==
    ASSUME TypeOK, TablesInv, last < MaxServers, NEW row \in ServerRow,
           server' = Insert(row), last' = last + 1, Named(row.name) = {}
    PROVE  /\ last + 1 \in Ids /\ ~Row(last + 1) /\ last \in Int
           /\ server'[last + 1] = row
           /\ \A i \in Ids : i # last + 1 => server'[i] = server[i]
           /\ \A i \in Ids : Row(i)' => i <= last'
           /\ \A i \in Ids : Row(i)' => Row(i) \/ i = last + 1
           /\ NamesApart'
<1>1. /\ last + 1 \in Ids /\ last \in Int
      /\ server'[last + 1] = row
      /\ \A i \in Ids : i # last + 1 => server'[i] = server[i]
  BY InsertTyped DEF TypeOK
<1>2. \A i \in Ids : i \in Int  BY DEF Ids
<1>3. ~Row(last + 1)
  <2>1. ~(last + 1 <= last)  BY <1>1
  <2>. QED  BY <1>1, <2>1 DEF TablesInv, IdsUsed
<1>4. \A i \in Ids : Row(i)' => Row(i) \/ i = last + 1  BY <1>1 DEF Row
<1>5. \A i \in Ids : Row(i)' => i <= last'
  <2>. SUFFICES ASSUME NEW i \in Ids, Row(i)' PROVE i <= last'
    OBVIOUS
  <2>1. i <= last \/ i = last + 1  BY <1>4 DEF TablesInv, IdsUsed
  <2>. QED  BY <1>1, <1>2, <2>1
<1>6. NamesApart'
  <2>. SUFFICES ASSUME NEW i \in Ids, NEW j \in Ids, Row(i)', Row(j)', server'[i].name = server'[j].name
                PROVE  i = j
    BY DEF NamesApart
  <2>1. ASSUME NEW k \in Ids, Row(k), server[k].name = row.name PROVE FALSE
    BY <2>1 DEF Named
  <2>2. CASE i = last + 1 \/ j = last + 1
    BY <1>1, <1>4, <2>1, <2>2
  <2>3. CASE i # last + 1 /\ j # last + 1
    <3>1. Row(i) /\ Row(j) /\ server[i].name = server[j].name  BY <1>1, <1>4, <2>3
    <3>. QED  BY <3>1 DEF TablesInv, NamesApart
  <2>. QED  BY <2>2, <2>3
<1>. QED  BY <1>1, <1>3, <1>4, <1>5, <1>6

LEMMA CreateServerTables ==
    ASSUME TypeOK, TablesInv, NEW a \in Admins, NEW n \in Names, NEW agent \in BOOLEAN,
           CreateServer(a, n, agent)
    PROVE  TablesMove /\ TablesInv' /\ HashesSame
<1>. DEFINE row == NewRow(n, agent, None)
<1>0. row \in ServerRow /\ row.name = n /\ row.hash = None  BY NewRowTyped DEF NewRow
<1>. HIDE DEF row
<1>1. /\ server' = Insert(row) /\ last' = last + 1 /\ last < MaxServers
      /\ UNCHANGED <<enrollment, issued, hosts>>
      /\ Named(row.name) = {}
  BY <1>0 DEF CreateServer, row
<1>2. /\ last + 1 \in Ids /\ ~Row(last + 1) /\ last \in Int
      /\ server'[last + 1] = row
      /\ \A i \in Ids : i # last + 1 => server'[i] = server[i]
      /\ \A i \in Ids : Row(i)' => i <= last'
      /\ \A i \in Ids : Row(i)' => Row(i) \/ i = last + 1
      /\ NamesApart'
  BY <1>0, <1>1, Inserted
<1>3. \A i \in Ids : i \in Int  BY DEF Ids
<1>4. TablesMove
  <2>1. \A i \in Ids : Row(i)' => Row(i) \/ i > last  BY <1>2
  <2>. QED  BY <1>1, <1>2, <2>1 DEF TablesMove
<1>5. HashesSame  BY <1>0, <1>2 DEF HashesSame
<1>6. IdsUsed'
  <2>1. \A h \in Hosts : hosts[h] \in Ids => hosts[h] <= last + 1
    BY <1>2, <1>3 DEF TablesInv, IdsUsed
  <2>2. \A t \in Tokens : enrollment[t] # None /\ enrollment[t].id # None =>
            enrollment[t].id <= last + 1
    <3>. SUFFICES ASSUME NEW t \in Tokens, enrollment[t] # None, enrollment[t].id # None
                  PROVE  enrollment[t].id <= last + 1
      OBVIOUS
    <3>1. enrollment[t].id \in Ids  BY Shapes DEF EnrollmentRow
    <3>2. enrollment[t].id <= last  BY DEF TablesInv, IdsUsed
    <3>. QED  BY <1>2, <1>3, <3>1, <3>2
  <2>. QED  BY <1>1, <1>2, <2>1, <2>2 DEF IdsUsed
<1>7. RoutesKnown'
  <2>1. \A i \in Ids : Row(i)' /\ server'[i].hash # None => Row(i) /\ server[i].hash = server'[i].hash
    BY <1>0, <1>2
  <2>2. \A t \in Tokens : t # None  BY NoneIsApart DEF Secrets
  <2>. QED  BY <1>1, <2>1, <2>2, HashKinds DEF TablesInv, RoutesKnown
<1>. QED  BY <1>2, <1>4, <1>5, <1>6, <1>7 DEF TablesInv

LEMMA UpdateServerTables ==
    ASSUME TypeOK, TablesInv, NEW a \in Admins, NEW i \in Ids, NEW n \in Names,
           NEW agent \in BOOLEAN, UpdateServer(a, i, n, agent)
    PROVE  TablesMove /\ TablesInv' /\ HashesSame
<1>1. server[i] \in ServerRow /\ Row(i) /\ Named(n) \subseteq {i}
      /\ UNCHANGED <<last, enrollment, issued, hosts>>
  BY Shapes DEF UpdateServer
<1>2. PICK r \in ServerRow : r = [server[i] EXCEPT !.name = n, !.agent = agent]
  BY <1>1 DEF ServerRow
<1>3. r.name = n /\ r.hash = server[i].hash  BY <1>1, <1>2 DEF ServerRow
<1>4. server'[i] = r /\ \A j \in Ids : j # i => server'[j] = server[j]
  BY <1>2 DEF UpdateServer, TypeOK
<1>5. \A j \in Ids : Row(j)' => Row(j) /\ server'[j].hash = server[j].hash
  BY <1>1, <1>3, <1>4 DEF Row
<1>6. HashesSame  BY <1>5 DEF HashesSame
<1>7. last \in Int /\ last' = last  BY <1>1 DEF TypeOK
<1>8. TablesMove  BY <1>1, <1>5, <1>7 DEF TablesMove
<1>9. NamesApart'
  <2>. SUFFICES ASSUME NEW j \in Ids, NEW k \in Ids, Row(j)', Row(k)', server'[j].name = server'[k].name
                PROVE  j = k
    BY DEF NamesApart
  <2>1. Row(j) /\ Row(k)  BY <1>5
  <2>2. ASSUME NEW m \in Ids, Row(m), server[m].name = n PROVE m = i
    BY <1>1, <2>2 DEF Named
  <2>. QED  BY <1>3, <1>4, <2>1, <2>2 DEF TablesInv, NamesApart
<1>10. IdsUsed'  BY <1>1, <1>5 DEF TablesInv, IdsUsed
<1>11. RoutesKnown'  BY <1>1, <1>5 DEF TablesInv, RoutesKnown
<1>. QED  BY <1>6, <1>8, <1>9, <1>10, <1>11 DEF TablesInv

LEMMA SetServerEnabledTables ==
    ASSUME TypeOK, TablesInv, NEW a \in Admins, NEW n \in Names, NEW on \in BOOLEAN,
           SetServerEnabled(a, n, on)
    PROVE  /\ TablesMove /\ TablesInv' /\ HashesSame
           /\ \A j \in Ids : Row(j)' => /\ Row(j) /\ server'[j].name = server[j].name
                                        /\ server'[j].hash = server[j].hash
                                        /\ server'[j].agent = server[j].agent
<1>1. UNCHANGED <<last, enrollment, issued, hosts>>  BY DEF SetServerEnabled
<1>2. \A j \in Ids : Row(j)' => /\ Row(j) /\ server'[j].name = server[j].name
                                /\ server'[j].hash = server[j].hash
                                /\ server'[j].agent = server[j].agent
  <2>. SUFFICES ASSUME NEW j \in Ids, Row(j)'
                PROVE  /\ Row(j) /\ server'[j].name = server[j].name
                       /\ server'[j].hash = server[j].hash
                       /\ server'[j].agent = server[j].agent
    OBVIOUS
  <2>1. CASE j \in Named(n)
    <3>1. Row(j) /\ server[j] \in ServerRow  BY <2>1, Shapes DEF Named
    <3>2. server'[j] = [server[j] EXCEPT !.enabled = on]  BY <2>1 DEF SetServerEnabled
    <3>. QED  BY <3>1, <3>2 DEF ServerRow
  <2>2. CASE j \notin Named(n)
    BY <2>2 DEF SetServerEnabled, Row
  <2>. QED  BY <2>1, <2>2
<1>3. HashesSame  BY <1>2 DEF HashesSame
<1>4. last \in Int /\ last' = last  BY <1>1 DEF TypeOK
<1>5. TablesMove  BY <1>1, <1>2, <1>4 DEF TablesMove
<1>6. NamesApart'  BY <1>2 DEF TablesInv, NamesApart
<1>7. IdsUsed'  BY <1>1, <1>2 DEF TablesInv, IdsUsed
<1>8. RoutesKnown'  BY <1>1, <1>2 DEF TablesInv, RoutesKnown
<1>. QED  BY <1>2, <1>3, <1>5, <1>6, <1>7, <1>8 DEF TablesInv

LEMMA DeleteWritesTables ==
    ASSUME TypeOK, TablesInv, NEW a \in Admins, DeleteWrites(a)
    PROVE  /\ TablesMove /\ TablesInv' /\ HashesSame
           /\ \A j \in Ids : Row(j)' => Row(j) /\ server'[j] = server[j]
           /\ \A t \in Tokens : enrollment'[t] # None =>
                enrollment[t] # None /\ enrollment'[t].enabled = enrollment[t].enabled
<1>. PICK gone : gone = Named(admin[a].name)  OBVIOUS
<1>1. UNCHANGED <<last, issued>>  BY DEF DeleteWrites
<1>2. /\ server' = [i \in Ids |-> IF i \in gone THEN None ELSE server[i]]
      /\ hosts' = [h \in Hosts |-> IF hosts[h] \in gone THEN Deleted ELSE hosts[h]]
      /\ enrollment' = [t \in Tokens |->
                            IF enrollment[t] # None /\ enrollment[t].id \in gone
                            THEN [enrollment[t] EXCEPT !.id = None] ELSE enrollment[t]]
      /\ gone \subseteq Ids
  BY DEF DeleteWrites, Named
<1>3. \A j \in Ids : Row(j)' => Row(j) /\ server'[j] = server[j] /\ j \notin gone
  BY <1>2 DEF Row
<1>4. ASSUME NEW t \in Tokens, enrollment'[t] # None
      PROVE  /\ enrollment[t] # None
             /\ enrollment'[t].enabled = enrollment[t].enabled
             /\ enrollment'[t].used = enrollment[t].used
             /\ enrollment'[t].id = IF enrollment[t].id \in gone THEN None ELSE enrollment[t].id
  <2>1. enrollment[t] # None  BY <1>2, <1>4
  <2>2. enrollment[t] \in EnrollmentRow  BY <2>1, Shapes
  <2>. QED  BY <1>2, <2>1, <2>2 DEF EnrollmentRow
<1>5. \A h \in Hosts : hosts'[h] = IF hosts[h] \in gone THEN Deleted ELSE hosts[h]
  BY <1>2
<1>6. HashesSame  BY <1>3 DEF HashesSame
<1>7. last \in Int /\ last' = last  BY <1>1 DEF TypeOK
<1>8. TablesMove
  <2>1. \A t \in Tokens : t \in issued /\ enrollment'[t] # None =>
        /\ enrollment[t] # None
        /\ enrollment[t].used => enrollment'[t].used
        /\ \A i \in Ids : enrollment[t].used /\ enrollment[t].id = i /\ Row(i)' =>
            enrollment'[t].id = i
    BY <1>3, <1>4
  <2>2. \A h \in Hosts : hosts[h] # None =>
        /\ hosts'[h] \in {hosts[h], Deleted}
        /\ \A i \in Ids : hosts[h] = i /\ Row(i)' => hosts'[h] = i
    BY <1>3, <1>5
  <2>. QED  BY <1>1, <1>3, <1>7, <2>1, <2>2 DEF TablesMove
<1>9. NamesApart'  BY <1>3 DEF TablesInv, NamesApart
<1>10. IdsUsed'
  <2>1. \A i \in Ids : Row(i)' => i <= last'  BY <1>1, <1>3 DEF TablesInv, IdsUsed
  <2>2. \A h \in Hosts : hosts'[h] \in Ids => hosts'[h] <= last'
    BY <1>1, <1>5, NoneIsApart DEF TablesInv, IdsUsed
  <2>3. \A t \in Tokens : enrollment'[t] # None /\ enrollment'[t].id # None =>
            enrollment'[t].id <= last'
    BY <1>1, <1>4 DEF TablesInv, IdsUsed
  <2>. QED  BY <2>1, <2>2, <2>3 DEF IdsUsed
<1>11. RoutesKnown'
  <2>1. \A t \in Tokens : enrollment'[t] # None => t \in issued'
    BY <1>1, <1>4 DEF TablesInv, RoutesKnown
  <2>2. \A i \in Ids, t \in Tokens :
            Row(i)' /\ server'[i].hash = t /\ enrollment'[t] # None => enrollment'[t].id = i
    BY <1>3, <1>4 DEF TablesInv, RoutesKnown
  <2>3. \A t \in Tokens, h \in Hosts :
            enrollment'[t] # None /\ enrollment'[t].id # None => hosts'[h] # enrollment'[t].id
    <3>. SUFFICES ASSUME NEW t \in Tokens, NEW h \in Hosts, enrollment'[t] # None,
                         enrollment'[t].id # None
                  PROVE  hosts'[h] # enrollment'[t].id
      OBVIOUS
    <3>1. enrollment[t] # None /\ enrollment[t].id # None /\ enrollment'[t].id = enrollment[t].id
      BY <1>4
    <3>2. enrollment[t].id \in Ids  BY <3>1, Shapes DEF EnrollmentRow
    <3>3. hosts[h] # enrollment[t].id  BY <3>1 DEF TablesInv, RoutesKnown
    <3>. QED  BY <1>5, <3>1, <3>2, <3>3, NoneIsApart
  <2>4. \A i \in Ids, k \in Keys, h \in Hosts :
            Row(i)' /\ server'[i].hash = Derived(k, h) => hosts'[h] = i
    BY <1>3, <1>5 DEF TablesInv, RoutesKnown
  <2>. QED  BY <2>1, <2>2, <2>3, <2>4 DEF RoutesKnown
<1>. QED  BY <1>3, <1>4, <1>6, <1>8, <1>9, <1>10, <1>11 DEF TablesInv

\* A token that was not issued is the hash of nothing.
LEMMA NotIssued ==
    ASSUME TablesInv, HoldersAgree, NEW t \in Tokens, t \notin issued
    PROVE  enrollment[t] = None /\ \A i \in Ids : ~Holds(i, t)
<1>1. enrollment[t] = None  BY DEF TablesInv, RoutesKnown
<1>2. \A i \in Ids : ~Holds(i, t)  BY HeldIsSpent DEF Spent
<1>. QED  BY <1>1, <1>2

LEMMA RotateWritesTables ==
    ASSUME TypeOK, TablesInv, HoldersAgree, NEW a \in Admins, NEW t \in Tokens,
           admin[a].id \in Ids, RotateWrites(a, t)
    PROVE  /\ TablesMove /\ TablesInv'
           /\ \A j \in Ids : Row(j)' =>
                /\ Row(j) /\ server'[j].name = server[j].name
                /\ server'[j].agent = server[j].agent /\ server'[j].enabled = server[j].enabled
                /\ \/ server'[j].hash = server[j].hash
                   \/ j = admin[a].id /\ server'[j].hash = t
<1>. PICK i \in Ids : i = admin[a].id  OBVIOUS
<1>1. UNCHANGED <<last, enrollment, hosts>> /\ t \notin issued /\ issued' = issued \cup {t}
  BY DEF RotateWrites
<1>2. \A j \in Ids : Row(j)' =>
                /\ Row(j) /\ server'[j].name = server[j].name
                /\ server'[j].agent = server[j].agent /\ server'[j].enabled = server[j].enabled
                /\ \/ server'[j].hash = server[j].hash
                   \/ j = i /\ server'[j].hash = t
  <2>1. CASE Row(i)
    <3>1. server[i] \in ServerRow  BY <2>1, Shapes
    <3>2. PICK r \in ServerRow : r = [server[i] EXCEPT !.hash = t]
      BY <3>1 DEF ServerRow, Hashes, Secrets
    <3>3. /\ r.name = server[i].name /\ r.agent = server[i].agent
          /\ r.enabled = server[i].enabled /\ r.hash = t
      BY <3>1, <3>2 DEF ServerRow
    <3>4. server'[i] = r /\ \A j \in Ids : j # i => server'[j] = server[j]
      BY <2>1, <3>2 DEF RotateWrites, TypeOK
    <3>. QED  BY <2>1, <3>3, <3>4 DEF Row
  <2>2. CASE ~Row(i)
    BY <2>2 DEF RotateWrites, Row
  <2>. QED  BY <2>1, <2>2
<1>3. last \in Int /\ last' = last  BY <1>1 DEF TypeOK
<1>4. TablesMove  BY <1>1, <1>2, <1>3 DEF TablesMove
<1>5. NamesApart'  BY <1>2 DEF TablesInv, NamesApart
<1>6. IdsUsed'  BY <1>1, <1>2 DEF TablesInv, IdsUsed
<1>7. RoutesKnown'
  <2>1. enrollment[t] = None  BY <1>1, NotIssued
  <2>2. \A k \in Keys, h \in Hosts : t # Derived(k, h)  BY HashKinds DEF Secrets
  <2>3. \A s \in Tokens : enrollment'[s] # None => s \in issued'
    BY <1>1 DEF TablesInv, RoutesKnown
  <2>4. \A j \in Ids, s \in Tokens :
            Row(j)' /\ server'[j].hash = s /\ enrollment'[s] # None => enrollment'[s].id = j
    BY <1>1, <1>2, <2>1 DEF TablesInv, RoutesKnown
  <2>5. \A s \in Tokens, h \in Hosts :
            enrollment'[s] # None /\ enrollment'[s].id # None => hosts'[h] # enrollment'[s].id
    BY <1>1 DEF TablesInv, RoutesKnown
  <2>6. \A j \in Ids, k \in Keys, h \in Hosts :
            Row(j)' /\ server'[j].hash = Derived(k, h) => hosts'[h] = j
    BY <1>1, <1>2, <2>2 DEF TablesInv, RoutesKnown
  <2>. QED  BY <2>3, <2>4, <2>5, <2>6 DEF RoutesKnown
<1>. QED  BY <1>2, <1>4, <1>5, <1>6, <1>7 DEF TablesInv

LEMMA CreateEnrollmentTables ==
    ASSUME TypeOK, TablesInv, HoldersAgree, NEW a \in Admins, NEW t \in Tokens,
           CreateEnrollment(a, t)
    PROVE  /\ TablesMove /\ TablesInv' /\ HashesSame
           /\ enrollment[t] = None /\ t \notin issued
           /\ \A s \in Tokens : s # t => enrollment'[s] = enrollment[s]
<1>. PICK e : e = [enabled |-> TRUE, used |-> FALSE, host |-> None, id |-> None]  OBVIOUS
<1>0. e.id = None  OBVIOUS
<1>1. /\ UNCHANGED <<server, last, hosts>> /\ t \notin issued /\ issued' = issued \cup {t}
      /\ enrollment'[t] = e
      /\ \A s \in Tokens : s # t => enrollment'[s] = enrollment[s]
  BY DEF CreateEnrollment, TypeOK
<1>2. enrollment[t] = None /\ \A i \in Ids : ~Holds(i, t)  BY <1>1, NotIssued
<1>3. HashesSame  BY <1>1 DEF HashesSame, Row
<1>4. last \in Int /\ last' = last  BY <1>1 DEF TypeOK
<1>5. TablesMove  BY <1>1, <1>4 DEF TablesMove, Row
<1>6. NamesApart'  BY <1>1 DEF TablesInv, NamesApart, Row
<1>7. IdsUsed'  BY <1>0, <1>1 DEF TablesInv, IdsUsed, Row
<1>8. RoutesKnown'
  <2>1. \A i \in Ids : Row(i) => server[i].hash # t  BY <1>2 DEF Holds
  <2>2. \A s \in Tokens : enrollment'[s] # None => s \in issued'
    BY <1>1 DEF TablesInv, RoutesKnown
  <2>3. \A i \in Ids, s \in Tokens :
            Row(i)' /\ server'[i].hash = s /\ enrollment'[s] # None => enrollment'[s].id = i
    BY <1>1, <2>1 DEF TablesInv, RoutesKnown, Row
  <2>4. \A s \in Tokens, h \in Hosts :
            enrollment'[s] # None /\ enrollment'[s].id # None => hosts'[h] # enrollment'[s].id
    BY <1>0, <1>1 DEF TablesInv, RoutesKnown
  <2>5. \A i \in Ids, k \in Keys, h \in Hosts :
            Row(i)' /\ server'[i].hash = Derived(k, h) => hosts'[h] = i
    BY <1>1 DEF TablesInv, RoutesKnown, Row
  <2>. QED  BY <2>2, <2>3, <2>4, <2>5 DEF RoutesKnown
<1>. QED  BY <1>1, <1>2, <1>3, <1>5, <1>6, <1>7, <1>8 DEF TablesInv

LEMMA RevokeEnrollmentTables ==
    ASSUME TypeOK, TablesInv, NEW a \in Admins, NEW t \in Tokens, RevokeEnrollment(a, t)
    PROVE  /\ TablesMove /\ TablesInv' /\ HashesSame
           /\ \A j \in Ids : Row(j)' =>
                /\ Row(j) /\ server'[j].name = server[j].name
                /\ server'[j].agent = server[j].agent /\ server'[j].enabled = server[j].enabled
                /\ \/ server'[j].hash = server[j].hash
                   \/ j = enrollment[t].id /\ server[j].hash = t
           /\ \A s \in Tokens : s # t => enrollment'[s] = enrollment[s]
<1>. PICK i : i = enrollment[t].id  OBVIOUS
<1>1. UNCHANGED <<last, issued, hosts>> /\ enrollment[t] # None  BY DEF RevokeEnrollment
<1>2. enrollment[t] \in EnrollmentRow  BY <1>1, Shapes
<1>3. PICK e \in EnrollmentRow : e = [enrollment[t] EXCEPT !.enabled = FALSE]
  BY <1>2 DEF EnrollmentRow
<1>4. e.id = enrollment[t].id /\ e.used = enrollment[t].used
  BY <1>2, <1>3 DEF EnrollmentRow
<1>5. enrollment'[t] = e /\ \A s \in Tokens : s # t => enrollment'[s] = enrollment[s]
  BY <1>3 DEF RevokeEnrollment, TypeOK
<1>6. \A j \in Ids : Row(j)' =>
        /\ Row(j) /\ server'[j].name = server[j].name
        /\ server'[j].agent = server[j].agent /\ server'[j].enabled = server[j].enabled
        /\ \/ server'[j].hash = server[j].hash
           \/ j = i /\ server[j].hash = t /\ server'[j].hash = None
  <2>1. CASE i # None /\ Row(i) /\ server[i].hash = t
    <3>1. i \in Ids  BY <1>2, <2>1 DEF EnrollmentRow
    <3>2. server[i] \in ServerRow  BY <2>1, <3>1, Shapes
    <3>3. PICK r \in ServerRow : r = [server[i] EXCEPT !.hash = None]
      BY <3>2 DEF ServerRow
    <3>4. /\ r.name = server[i].name /\ r.agent = server[i].agent
          /\ r.enabled = server[i].enabled /\ r.hash = None
      BY <3>2, <3>3 DEF ServerRow
    <3>5. server'[i] = r /\ \A j \in Ids : j # i => server'[j] = server[j]
      BY <2>1, <3>1, <3>3 DEF RevokeEnrollment, TypeOK
    <3>. QED  BY <2>1, <3>4, <3>5 DEF Row
  <2>2. CASE ~(i # None /\ Row(i) /\ server[i].hash = t)
    BY <2>2 DEF RevokeEnrollment, Row
  <2>. QED  BY <2>1, <2>2
<1>7. \A j \in Ids : Row(j)' /\ server'[j].hash # None =>
        Row(j) /\ server'[j].hash = server[j].hash
  BY <1>6
<1>8. HashesSame  BY <1>7 DEF HashesSame
<1>9. last \in Int /\ last' = last  BY <1>1 DEF TypeOK
<1>10. TablesMove
  <2>1. \A s \in Tokens : s \in issued /\ enrollment'[s] # None =>
        /\ enrollment[s] # None
        /\ enrollment[s].used => enrollment'[s].used
        /\ \A j \in Ids : enrollment[s].used /\ enrollment[s].id = j /\ Row(j)' =>
            enrollment'[s].id = j
    BY <1>1, <1>4, <1>5
  <2>. QED  BY <1>1, <1>6, <1>9, <2>1 DEF TablesMove
<1>11. NamesApart'  BY <1>6 DEF TablesInv, NamesApart
<1>12. IdsUsed'  BY <1>1, <1>4, <1>5, <1>6 DEF TablesInv, IdsUsed
<1>13. RoutesKnown'
  <2>1. \A s \in Tokens : s # None  BY NoneIsApart DEF Secrets
  <2>2. \A s \in Tokens : enrollment'[s] # None => s \in issued'
    BY <1>1, <1>5 DEF TablesInv, RoutesKnown
  <2>3. \A j \in Ids, s \in Tokens :
            Row(j)' /\ server'[j].hash = s /\ enrollment'[s] # None => enrollment'[s].id = j
    BY <1>1, <1>4, <1>5, <1>7, <2>1 DEF TablesInv, RoutesKnown
  <2>4. \A s \in Tokens, h \in Hosts :
            enrollment'[s] # None /\ enrollment'[s].id # None => hosts'[h] # enrollment'[s].id
    BY <1>1, <1>4, <1>5 DEF TablesInv, RoutesKnown
  <2>5. \A j \in Ids, k \in Keys, h \in Hosts :
            Row(j)' /\ server'[j].hash = Derived(k, h) => hosts'[h] = j
    BY <1>1, <1>7, HashKinds DEF TablesInv, RoutesKnown
  <2>. QED  BY <2>2, <2>3, <2>4, <2>5 DEF RoutesKnown
<1>. QED  BY <1>5, <1>6, <1>8, <1>10, <1>11, <1>12, <1>13 DEF TablesInv

\* A statement that inserts a row moves the references no further than the new id.
LEMMA RefsBelow ==
    ASSUME TypeOK, TablesInv
    PROVE  /\ last \in Int
           /\ \A i \in Ids : i \in Int
           /\ \A h \in Hosts : hosts[h] \in Ids => hosts[h] <= last + 1 /\ hosts[h] # last + 1
           /\ \A t \in Tokens : enrollment[t] # None /\ enrollment[t].id # None =>
                /\ enrollment[t].id \in Ids
                /\ enrollment[t].id <= last + 1 /\ enrollment[t].id # last + 1
<1>1. last \in Int /\ \A i \in Ids : i \in Int  BY DEF TypeOK, Ids
<1>2. ASSUME NEW i \in Ids, i <= last PROVE i <= last + 1 /\ i # last + 1
  BY <1>1, <1>2
<1>3. \A t \in Tokens : enrollment[t] # None /\ enrollment[t].id # None => enrollment[t].id \in Ids
  BY Shapes DEF EnrollmentRow
<1>. QED  BY <1>1, <1>2, <1>3 DEF TablesInv, IdsUsed

LEMMA ClaimTokenTables ==
    ASSUME TypeOK, TablesInv, HoldersAgree, NEW x \in Secrets, NEW h \in Hosts,
           ClaimToken(x, h), issued' = issued
    PROVE  /\ TablesMove /\ TablesInv' /\ x \in Tokens
           /\ last + 1 \in Ids
           /\ \A j \in Ids : j # last + 1 => server'[j] = server[j]
           /\ \A j \in Ids : Row(j)' => Row(j) \/ j = last + 1
           /\ ~Row(last + 1)
           /\ server'[last + 1] = NewRow(FirstFree(h), TRUE, x)
           /\ \A t \in Tokens : t # x => enrollment'[t] = enrollment[t]
           /\ enrollment'[x] =
                [enabled |-> TRUE, used |-> TRUE, host |-> h, id |-> last + 1]
           /\ \A i \in Ids : ~Holds(i, x)
           /\ \A g \in Ids : g = last + 1 => Owned(g, x)'
<1>. DEFINE row == NewRow(FirstFree(h), TRUE, x)
<1>1. x \in Tokens /\ x \in Hashes /\ enrollment[x] # None /\ ~enrollment[x].used
  BY DEF ClaimToken, PendingToken, Hashes
<1>2. FirstFree(h) \in Names /\ Named(FirstFree(h)) = {}
  BY FirstFreeIsFree DEF ClaimToken
<1>3. row \in ServerRow /\ row.name = FirstFree(h) /\ row.hash = x
  BY <1>1, <1>2, NewRowTyped DEF NewRow
<1>. HIDE DEF row
<1>4. /\ server' = Insert(row) /\ last' = last + 1 /\ last < MaxServers /\ UNCHANGED hosts
  BY DEF ClaimToken, row
<1>5. /\ last + 1 \in Ids /\ ~Row(last + 1) /\ last \in Int
      /\ server'[last + 1] = row
      /\ \A i \in Ids : i # last + 1 => server'[i] = server[i]
      /\ \A i \in Ids : Row(i)' => i <= last'
      /\ \A i \in Ids : Row(i)' => Row(i) \/ i = last + 1
      /\ NamesApart'
  BY <1>2, <1>3, <1>4, Inserted
<1>. PICK e : e = [enabled |-> TRUE, used |-> TRUE, host |-> h, id |-> last + 1]  OBVIOUS
<1>6. e.used /\ e.id = last + 1  OBVIOUS
<1>7. enrollment'[x] = e /\ \A t \in Tokens : t # x => enrollment'[t] = enrollment[t]
  BY <1>1 DEF ClaimToken, TypeOK
<1>8. x \in issued  BY <1>1 DEF TablesInv, RoutesKnown
<1>9. \A i \in Ids : ~Holds(i, x)  BY <1>1, HeldIsSpent DEF Spent
<1>10. TablesMove
  <2>1. \A i \in Ids : Row(i)' => Row(i) \/ i > last  BY <1>5
  <2>. QED  BY <1>1, <1>4, <1>5, <1>7, <2>1 DEF TablesMove
<1>11. ASSUME NEW g \in Ids, g = last + 1 PROVE Owned(g, x)'
  <2>1. x \notin Keys  BY <1>1, RegistryAssumption
  <2>2. Spent(x)'  BY <1>6, <1>7, <1>8 DEF Spent
  <2>3. \A k \in Keys, f \in Hosts : x # Derived(k, f)  BY HashKinds
  <2>. QED  BY <2>1, <2>2, <2>3 DEF Owned
<1>12. IdsUsed'
  <2>1. \A g \in Hosts : hosts'[g] \in Ids => hosts'[g] <= last'  BY <1>4, RefsBelow
  <2>2. \A t \in Tokens : enrollment'[t] # None /\ enrollment'[t].id # None =>
            enrollment'[t].id <= last'
    BY <1>4, <1>5, <1>6, <1>7, RefsBelow
  <2>. QED  BY <1>5, <2>1, <2>2 DEF IdsUsed
<1>13. RoutesKnown'
  <2>1. \A t \in Tokens : enrollment'[t] # None => t \in issued'
    BY <1>7, <1>8 DEF TablesInv, RoutesKnown
  <2>2. \A i \in Ids, t \in Tokens :
            Row(i)' /\ server'[i].hash = t /\ enrollment'[t] # None => enrollment'[t].id = i
    <3>. SUFFICES ASSUME NEW i \in Ids, NEW t \in Tokens, Row(i)', server'[i].hash = t,
                         enrollment'[t] # None
                  PROVE  enrollment'[t].id = i
      OBVIOUS
    <3>1. CASE i = last + 1
      BY <1>3, <1>5, <1>6, <1>7, <3>1
    <3>2. CASE i # last + 1
      <4>1. Row(i) /\ server[i].hash = t  BY <1>5, <3>2
      <4>2. t # x  BY <1>9, <4>1 DEF Holds
      <4>. QED  BY <1>7, <4>1, <4>2 DEF TablesInv, RoutesKnown
    <3>. QED  BY <3>1, <3>2
  <2>3. \A t \in Tokens, g \in Hosts :
            enrollment'[t] # None /\ enrollment'[t].id # None => hosts'[g] # enrollment'[t].id
    <3>. SUFFICES ASSUME NEW t \in Tokens, NEW g \in Hosts, enrollment'[t] # None,
                         enrollment'[t].id # None
                  PROVE  hosts[g] # enrollment'[t].id
      BY <1>4
    <3>1. CASE t = x
      BY <1>5, <1>6, <1>7, <3>1, RefsBelow
    <3>2. CASE t # x
      BY <1>7, <3>2 DEF TablesInv, RoutesKnown
    <3>. QED  BY <3>1, <3>2
  <2>4. \A i \in Ids, k \in Keys, g \in Hosts :
            Row(i)' /\ server'[i].hash = Derived(k, g) => hosts'[g] = i
    <3>. SUFFICES ASSUME NEW i \in Ids, NEW k \in Keys, NEW g \in Hosts, Row(i)',
                         server'[i].hash = Derived(k, g)
                  PROVE  hosts'[g] = i
      OBVIOUS
    <3>1. i # last + 1  BY <1>3, <1>5, HashKinds
    <3>. QED  BY <1>4, <1>5, <3>1 DEF TablesInv, RoutesKnown
  <2>. QED  BY <2>1, <2>2, <2>3, <2>4 DEF RoutesKnown
<1>. QED  BY <1>1, <1>5, <1>7, <1>9, <1>10, <1>11, <1>12, <1>13 DEF TablesInv, row

\* The shared key gives a hash to the route of its host, which only that route holds.
LEMMA SharedIsOwned ==
    ASSUME HoldersAgree, NEW k \in Keys, NEW h \in Hosts
    PROVE  /\ SharedHash(k, h) \in Hashes
           /\ \A i \in Ids : Holds(i, SharedHash(k, h)) => hosts[h] \in {i, Deleted}
<1>1. SharedHash(k, h) = Derived(k, h) /\ Derived(k, h) \in Hashes
  BY HashKinds DEF SharedHash
<1>. QED  BY <1>1 DEF HoldersAgree, Owned

LEMMA ReconnectsTables ==
    ASSUME TypeOK, TablesInv, HoldersAgree, NEW x \in Keys, NEW h \in Hosts, NEW i \in Ids,
           Reconnects(x, h, i), issued' = issued
    PROVE  /\ TablesMove /\ TablesInv'
           /\ UNCHANGED <<enrollment, hosts>> /\ hosts[h] = i
           /\ \A j \in Ids : j # i => server'[j] = server[j]
           /\ \A j \in Ids : Row(j)' =>
                /\ Row(j) /\ server'[j].name = server[j].name
                /\ server'[j].agent = server[j].agent /\ server'[j].enabled = server[j].enabled
           /\ server'[i].hash = SharedHash(x, h)
           /\ \A j \in Ids : Holds(j, SharedHash(x, h)) => j = i
           /\ Owned(i, SharedHash(x, h))'
<1>. PICK y : y = SharedHash(x, h)  OBVIOUS
<1>0. y = Derived(x, h) /\ y \in Hashes /\ y \notin Secrets
  BY HashKinds DEF SharedHash
<1>1. Row(i) /\ hosts[h] = i /\ UNCHANGED <<last, enrollment, hosts>>  BY DEF Reconnects
<1>2. server[i] \in ServerRow  BY <1>1, Shapes
<1>3. PICK r \in ServerRow : r = [server[i] EXCEPT !.hash = y]
  BY <1>0, <1>2 DEF ServerRow
<1>4. /\ r.name = server[i].name /\ r.agent = server[i].agent
      /\ r.enabled = server[i].enabled /\ r.hash = y
  BY <1>2, <1>3 DEF ServerRow
<1>5. server'[i] = r /\ \A j \in Ids : j # i => server'[j] = server[j]
  BY <1>3 DEF Reconnects, TypeOK
<1>6. \A j \in Ids : Row(j)' =>
                /\ Row(j) /\ server'[j].name = server[j].name
                /\ server'[j].agent = server[j].agent /\ server'[j].enabled = server[j].enabled
  BY <1>1, <1>4, <1>5 DEF Row
<1>7. last \in Int /\ last' = last  BY <1>1 DEF TypeOK
<1>8. TablesMove  BY <1>1, <1>6, <1>7 DEF TablesMove
<1>9. \A j \in Ids : Holds(j, y) => j = i
  BY <1>1, SharedIsOwned, NoneIsApart
<1>10. Owned(i, y)'
  <2>1. y \notin Keys /\ y \notin Tokens  BY <1>0 DEF Secrets
  <2>2. \A k \in Keys, g \in Hosts : y = Derived(k, g) => hosts'[g] \in {i, Deleted}
    BY <1>0, <1>1, HashKinds
  <2>. QED  BY <2>1, <2>2 DEF Owned
<1>11. NamesApart'  BY <1>6 DEF TablesInv, NamesApart
<1>12. IdsUsed'  BY <1>1, <1>6 DEF TablesInv, IdsUsed
<1>13. RoutesKnown'
  <2>1. \A t \in Tokens : enrollment'[t] # None => t \in issued'
    BY <1>1 DEF TablesInv, RoutesKnown
  <2>2. \A j \in Ids, t \in Tokens :
            Row(j)' /\ server'[j].hash = t /\ enrollment'[t] # None => enrollment'[t].id = j
    <3>. SUFFICES ASSUME NEW j \in Ids, NEW t \in Tokens, Row(j)', server'[j].hash = t,
                         enrollment[t] # None
                  PROVE  enrollment[t].id = j
      BY <1>1
    <3>1. j # i  BY <1>0, <1>4, <1>5 DEF Secrets
    <3>. QED  BY <1>5, <1>6, <3>1 DEF TablesInv, RoutesKnown
  <2>3. \A t \in Tokens, g \in Hosts :
            enrollment'[t] # None /\ enrollment'[t].id # None => hosts'[g] # enrollment'[t].id
    BY <1>1 DEF TablesInv, RoutesKnown
  <2>4. \A j \in Ids, k \in Keys, g \in Hosts :
            Row(j)' /\ server'[j].hash = Derived(k, g) => hosts'[g] = j
    <3>. SUFFICES ASSUME NEW j \in Ids, NEW k \in Keys, NEW g \in Hosts, Row(j)',
                         server'[j].hash = Derived(k, g)
                  PROVE  hosts[g] = j
      BY <1>1
    <3>1. CASE j = i
      BY <1>0, <1>1, <1>4, <1>5, <3>1, HashKinds
    <3>2. CASE j # i
      BY <1>5, <1>6, <3>2 DEF TablesInv, RoutesKnown
    <3>. QED  BY <3>1, <3>2
  <2>. QED  BY <2>1, <2>2, <2>3, <2>4 DEF RoutesKnown
<1>. QED  BY <1>1, <1>4, <1>5, <1>6, <1>8, <1>9, <1>10, <1>11, <1>12, <1>13 DEF TablesInv

LEMMA FirstRegistrationTables ==
    ASSUME TypeOK, TablesInv, HoldersAgree, NEW x \in Keys, NEW h \in Hosts,
           FirstRegistration(x, h), issued' = issued
    PROVE  /\ TablesMove /\ TablesInv'
           /\ last + 1 \in Ids
           /\ \A j \in Ids : j # last + 1 => server'[j] = server[j]
           /\ \A j \in Ids : Row(j)' => Row(j) \/ j = last + 1
           /\ ~Row(last + 1)
           /\ server'[last + 1] = NewRow(<<h, 1>>, TRUE, SharedHash(x, h))
           /\ UNCHANGED enrollment /\ hosts'[h] = last + 1
           /\ \A i \in Ids : ~Holds(i, SharedHash(x, h))
           /\ \A g \in Ids : g = last + 1 => Owned(g, SharedHash(x, h))'
<1>. DEFINE row == NewRow(<<h, 1>>, TRUE, SharedHash(x, h))
<1>. PICK y : y = SharedHash(x, h)  OBVIOUS
<1>0. y = Derived(x, h) /\ y \in Hashes /\ y \notin Secrets
  BY HashKinds DEF SharedHash
<1>1. row \in ServerRow /\ row.name = <<h, 1>> /\ row.hash = y
  BY <1>0, FirstNames, NewRowTyped DEF NewRow
<1>. HIDE DEF row
<1>2. /\ server' = Insert(row) /\ last' = last + 1 /\ last < MaxServers /\ UNCHANGED enrollment
      /\ Named(row.name) = {}
  BY <1>1 DEF FirstRegistration, row
<1>3. /\ last + 1 \in Ids /\ ~Row(last + 1) /\ last \in Int
      /\ server'[last + 1] = row
      /\ \A i \in Ids : i # last + 1 => server'[i] = server[i]
      /\ \A i \in Ids : Row(i)' => i <= last'
      /\ \A i \in Ids : Row(i)' => Row(i) \/ i = last + 1
      /\ NamesApart'
  BY <1>1, <1>2, Inserted
<1>4. /\ hosts[h] = None /\ hosts'[h] = last + 1
      /\ \A g \in Hosts : g # h => hosts'[g] = hosts[g]
  BY DEF FirstRegistration, TypeOK
<1>5. \A i \in Ids : ~Holds(i, y)
  BY <1>4, SharedIsOwned, NoneIsApart
<1>6. TablesMove
  <2>1. \A i \in Ids : Row(i)' => Row(i) \/ i > last  BY <1>3
  <2>. QED  BY <1>2, <1>3, <1>4, <2>1 DEF TablesMove
<1>7. ASSUME NEW g \in Ids, g = last + 1 PROVE Owned(g, y)'
  <2>1. y \notin Keys /\ y \notin Tokens  BY <1>0 DEF Secrets
  <2>2. \A k \in Keys, f \in Hosts : y = Derived(k, f) => hosts'[f] \in {g, Deleted}
    BY <1>0, <1>4, <1>7, HashKinds
  <2>. QED  BY <2>1, <2>2 DEF Owned
<1>8. IdsUsed'
  <2>1. \A g \in Hosts : hosts'[g] \in Ids => hosts'[g] <= last'
    BY <1>2, <1>3, <1>4, RefsBelow
  <2>2. \A t \in Tokens : enrollment'[t] # None /\ enrollment'[t].id # None =>
            enrollment'[t].id <= last'
    BY <1>2, RefsBelow
  <2>. QED  BY <1>3, <2>1, <2>2 DEF IdsUsed
<1>9. RoutesKnown'
  <2>1. \A t \in Tokens : enrollment'[t] # None => t \in issued'
    BY <1>2 DEF TablesInv, RoutesKnown
  <2>2. \A i \in Ids, t \in Tokens :
            Row(i)' /\ server'[i].hash = t /\ enrollment'[t] # None => enrollment'[t].id = i
    <3>. SUFFICES ASSUME NEW i \in Ids, NEW t \in Tokens, Row(i)', server'[i].hash = t,
                         enrollment[t] # None
                  PROVE  enrollment[t].id = i
      BY <1>2
    <3>1. i # last + 1  BY <1>0, <1>1, <1>3 DEF Secrets
    <3>2. Row(i) /\ server[i].hash = t  BY <1>3, <3>1
    <3>. QED  BY <3>2 DEF TablesInv, RoutesKnown
  <2>3. \A t \in Tokens, g \in Hosts :
            enrollment'[t] # None /\ enrollment'[t].id # None => hosts'[g] # enrollment'[t].id
    <3>. SUFFICES ASSUME NEW t \in Tokens, NEW g \in Hosts, enrollment[t] # None,
                         enrollment[t].id # None
                  PROVE  hosts'[g] # enrollment[t].id
      BY <1>2
    <3>1. CASE g = h
      BY <1>4, <3>1, RefsBelow
    <3>2. CASE g # h
      BY <1>4, <3>2 DEF TablesInv, RoutesKnown
    <3>. QED  BY <3>1, <3>2
  <2>4. \A i \in Ids, k \in Keys, g \in Hosts :
            Row(i)' /\ server'[i].hash = Derived(k, g) => hosts'[g] = i
    <3>. SUFFICES ASSUME NEW i \in Ids, NEW k \in Keys, NEW g \in Hosts, Row(i)',
                         server'[i].hash = Derived(k, g)
                  PROVE  hosts'[g] = i
      OBVIOUS
    <3>1. CASE i = last + 1
      BY <1>0, <1>1, <1>3, <1>4, <3>1, HashKinds
    <3>2. CASE i # last + 1
      <4>1. Row(i) /\ server[i].hash = Derived(k, g)  BY <1>3, <3>2
      <4>2. hosts[g] = i  BY <4>1 DEF TablesInv, RoutesKnown
      <4>. QED  BY <1>4, <4>2, NoneIsApart
    <3>. QED  BY <3>1, <3>2
  <2>. QED  BY <2>1, <2>2, <2>3, <2>4 DEF RoutesKnown
<1>. QED  BY <1>2, <1>3, <1>4, <1>5, <1>6, <1>7, <1>8, <1>9 DEF TablesInv, row

-----------------------------------------------------------------------------
(* The steps of the hub *)

\* A registered connection has the id of its route.
LEMMA RegisteredConn ==
    ASSUME PeersInv, NEW c \in Conns, NEW i \in Ids, Registered(c, i)
    PROVE  conn[c].pc \in Held /\ conn[c].id = i
  BY NoneIsApart DEF PeersInv, Registered, Held

\* What was good stays good, or somebody still acts on it, when the step changes neither the
\* row, nor the token, nor the setting, and leaves no handler behind that had to act.
LEMMA WatchedKept ==
    ASSUME NEW c \in Conns, NEW i \in Ids, Watched(c, i),
           conn'[c].secret = conn[c].secret,
           server'[i].agent = server[i].agent, server'[i].enabled = server[i].enabled,
           Disconnects(i) => Disconnects(i)',
           Rereads(i) => Rereads(i)' \/ Disconnects(i)' \/ server[i].enabled,
           conn[c].secret \in Tokens =>
             \/ Disconnects(i)'
             \/ /\ server'[i].hash \in {server[i].hash} \cup (Keys \X Hosts)
                /\ enrollment'[conn[c].secret] # None =>
                     /\ enrollment[conn[c].secret] # None
                     /\ enrollment[conn[c].secret].enabled => enrollment'[conn[c].secret].enabled,
           setting' = setting \/ lock' \in Admins,
           lock \in Admins => lock' \in Admins
    PROVE  Watched(c, i)'
<1>1. server'[i].agent \/ Disconnects(i)'  BY DEF Watched
<1>2. server'[i].enabled \/ Disconnects(i)' \/ Rereads(i)'  BY DEF Watched
<1>3. ASSUME conn[c].secret \in Tokens
      PROVE  \/ Disconnects(i)'
             \/ /\ server'[i].hash \in {conn[c].secret} \cup (Keys \X Hosts)
                /\ enrollment'[conn[c].secret] # None => enrollment'[conn[c].secret].enabled
  BY <1>3 DEF Watched
<1>4. conn[c].secret \in Keys =>
        setting' = [key |-> conn[c].secret, enabled |-> TRUE] \/ lock' \in Admins
  BY DEF Watched
<1>. QED  BY <1>1, <1>2, <1>3, <1>4 DEF Watched

LEMMA AdminSame ==
    ASSUME NEW i \in Ids, admin' = admin, server'[i].name = server[i].name
    PROVE  /\ Disconnects(i) => Disconnects(i)'
           /\ Rereads(i) => Rereads(i)'
  BY DEF Disconnects, Rereads

\* A step of the hub that gives no route to a connection.
LEMMA HubKept ==
    ASSUME RegistryInv, TypeOK', UNCHANGED <<dbVars, admin, ses>>, ConnsSame,
           LockInv', PeersInv', lock \in Admins => lock' \in Admins,
           \A c \in Conns, i \in Ids : Registered(c, i)' =>
                Registered(c, i) /\ conn'[c].secret = conn[c].secret
    PROVE  RegistryInv'
<1>. USE DEF RegistryInv, HubInv, dbVars
<1>1. TablesMove /\ TablesInv' /\ HashesSame  BY Unwritten
<1>2. SessionsSame  BY DEF SessionsSame
<1>3. HoldersAgree'  BY <1>1, <1>2, NoNewHolder, HoldersKept
<1>4. ConnInv'  BY <1>1, ConnKept
<1>5. RegisteredInv'
  <2>. SUFFICES ASSUME NEW c \in Conns, NEW i \in Ids, Registered(c, i)', Row(i)'
                PROVE  Watched(c, i)'
    BY DEF RegisteredInv
  <2>1. Registered(c, i) /\ Row(i) /\ conn'[c].secret = conn[c].secret  BY DEF Row
  <2>2. Watched(c, i)  BY <2>1 DEF RegisteredInv
  <2>3. (Disconnects(i) => Disconnects(i)') /\ (Rereads(i) => Rereads(i)')  BY AdminSame
  <2>. QED  BY <2>1, <2>2, <2>3, WatchedKept
<1>6. AdminInv' /\ SessionInv'  BY DEF AdminInv, SessionInv
<1>. QED  BY <1>1, <1>3, <1>4, <1>5, <1>6

LEMMA ConnStepKept ==
    ASSUME RegistryInv, TypeOK', NEW c \in Conns,
           \/ \E x \in Secrets, h \in Hosts : Connect(c, x, h)
           \/ ResolveFails(c) \/ Install(c) \/ Ends(c) \/ Unregister(c)
    PROVE  RegistryInv'
<1>. USE DEF RegistryInv, HubInv, hubVars
<1>0. /\ conn[c] \in ConnState /\ FreeConn.pc = "free"
      /\ UNCHANGED <<dbVars, admin, ses>>
  BY Shapes DEF FreeConn, Connect, ResolveFails, Install, Ends, Unregister
<1>1. ASSUME NEW x \in Secrets, NEW h \in Hosts, Connect(c, x, h) PROVE RegistryInv'
  <2>1. PICK new : new = [FreeConn EXCEPT !.pc = "upgraded", !.secret = x, !.host = h]
    OBVIOUS
  <2>2. new.pc = "upgraded" /\ new.secret = x /\ new.host = h  BY <2>1 DEF FreeConn
  <2>3. /\ conn[c].pc = "free" /\ conn'[c] = new
        /\ \A d \in Conns : d # c => conn'[d] = conn[d]
        /\ UNCHANGED <<lock, peers>>
    BY <1>1, <2>1 DEF Connect, TypeOK
  <2>4. ConnsSame  BY <2>2, <2>3 DEF ConnsSame, ConnInv, AcceptedWith, Held
  <2>5. LockInv'  BY <1>0, <2>2, <2>3 DEF LockInv
  <2>6. \A i \in Ids : peers[i] # c  BY <2>3, NoneIsApart DEF PeersInv
  <2>7. PeersInv'  BY <2>3, <2>6 DEF PeersInv, TypeOK
  <2>8. \A d \in Conns, i \in Ids : Registered(d, i)' =>
            Registered(d, i) /\ conn'[d].secret = conn[d].secret
    BY <2>2, <2>3, <2>6 DEF Registered
  <2>. QED  BY <1>0, <2>3, <2>4, <2>5, <2>7, <2>8, HubKept
<1>2. CASE ResolveFails(c)
  <2>1. /\ conn[c].pc = "upgraded" /\ conn'[c] = FreeConn
        /\ \A d \in Conns : d # c => conn'[d] = conn[d]
        /\ UNCHANGED <<lock, peers>>
    BY <1>2 DEF ResolveFails, TypeOK
  <2>2. ConnsSame  BY <1>0, <2>1 DEF ConnsSame, ConnInv, AcceptedWith, Held
  <2>3. LockInv'  BY <1>0, <2>1 DEF LockInv
  <2>4. \A i \in Ids : peers[i] # c  BY <2>1, NoneIsApart DEF PeersInv
  <2>5. PeersInv'  BY <2>1, <2>4 DEF PeersInv, TypeOK
  <2>6. \A d \in Conns, i \in Ids : Registered(d, i)' =>
            Registered(d, i) /\ conn'[d].secret = conn[d].secret
    BY <1>0, <2>1, <2>4 DEF Registered
  <2>. QED  BY <1>0, <2>1, <2>2, <2>3, <2>5, <2>6, HubKept
<1>3. CASE Install(c)
  <2>0. conn[c].pc = "locked" /\ lock = c /\ lock' = None /\ c \notin Admins
    BY <1>3, RegistryAssumption DEF Install, LockInv
  <2>. PICK i \in Ids : i = conn[c].id  BY <2>0 DEF ConnInv, AcceptedWith, Held
  <2>1. \A d \in Conns : conn[d].pc = "locked" => d = c  BY <2>0 DEF LockInv
  <2>2. \A a \in Admins : admin[a].pc # "drop"  BY <2>0 DEF LockInv
  <2>3. \A j \in Ids : peers[j] # c  BY <2>0, NoneIsApart DEF PeersInv
  <2>4. CASE peers[i] = None
    <3>1. PICK new \in ConnState : new = [conn[c] EXCEPT !.pc = "serving"]
      BY <1>0 DEF ConnState
    <3>2. /\ new.pc = "serving" /\ new.secret = conn[c].secret /\ new.host = conn[c].host
          /\ new.id = conn[c].id /\ new.hash = conn[c].hash /\ new.missed = conn[c].missed
      BY <1>0, <3>1 DEF ConnState
    <3>3. /\ conn'[c] = new /\ \A d \in Conns : d # c => conn'[d] = conn[d]
          /\ peers'[i] = c /\ \A j \in Ids : j # i => peers'[j] = peers[j]
      BY <1>3, <2>4, <3>1 DEF Install, TypeOK
    <3>4. ConnsSame  BY <2>0, <3>2, <3>3 DEF ConnsSame, ConnInv, AcceptedWith, Held
    <3>5. LockInv'  BY <1>0, <2>0, <2>1, <2>2, <3>2, <3>3, NoneIsApart DEF LockInv
    <3>6. PeersInv'  BY <2>3, <3>2, <3>3 DEF PeersInv, TypeOK
    <3>7. \A d \in Conns, j \in Ids : Registered(d, j)' =>
              Registered(d, j) /\ conn'[d].secret = conn[d].secret
      BY <2>0, <3>2, <3>3 DEF Registered
    <3>. QED  BY <1>0, <2>0, <3>4, <3>5, <3>6, <3>7, HubKept
  <2>5. CASE peers[i] # None
    <3>1. /\ conn'[c] = FreeConn /\ \A d \in Conns : d # c => conn'[d] = conn[d]
          /\ UNCHANGED peers
      BY <1>3, <2>5 DEF Install, TypeOK
    <3>2. ConnsSame  BY <1>0, <3>1 DEF ConnsSame, ConnInv, AcceptedWith, Held
    <3>3. LockInv'  BY <1>0, <2>0, <2>1, <2>2, <3>1, NoneIsApart DEF LockInv
    <3>4. PeersInv'  BY <2>3, <3>1 DEF PeersInv, TypeOK
    <3>5. \A d \in Conns, j \in Ids : Registered(d, j)' =>
              Registered(d, j) /\ conn'[d].secret = conn[d].secret
      BY <1>0, <2>3, <3>1 DEF Registered
    <3>. QED  BY <1>0, <2>0, <3>2, <3>3, <3>4, <3>5, HubKept
  <2>. QED  BY <2>4, <2>5
<1>4. CASE Ends(c)
  <2>1. PICK new \in ConnState : new = [conn[c] EXCEPT !.pc = "closed"]
    BY <1>0 DEF ConnState
  <2>2. /\ new.pc = "closed" /\ new.secret = conn[c].secret /\ new.host = conn[c].host
        /\ new.id = conn[c].id /\ new.hash = conn[c].hash /\ new.missed = conn[c].missed
    BY <1>0, <2>1 DEF ConnState
  <2>3. /\ conn[c].pc = "serving" /\ conn'[c] = new
        /\ \A d \in Conns : d # c => conn'[d] = conn[d]
        /\ UNCHANGED <<lock, peers>>
    BY <1>4, <2>1 DEF Ends, TypeOK
  <2>4. ConnsSame  BY <2>2, <2>3 DEF ConnsSame, ConnInv, AcceptedWith, Held
  <2>5. LockInv'  BY <1>0, <2>2, <2>3 DEF LockInv
  <2>6. PeersInv'  BY <2>2, <2>3 DEF PeersInv, TypeOK
  <2>7. \A d \in Conns, j \in Ids : Registered(d, j)' =>
            Registered(d, j) /\ conn'[d].secret = conn[d].secret
    BY <2>2, <2>3 DEF Registered
  <2>. QED  BY <1>0, <2>3, <2>4, <2>5, <2>6, <2>7, HubKept
<1>5. CASE Unregister(c)
  <2>1. /\ conn[c].pc = "closed" /\ conn'[c] = FreeConn
        /\ \A d \in Conns : d # c => conn'[d] = conn[d]
        /\ UNCHANGED lock
    BY <1>5 DEF Unregister, TypeOK
  <2>. PICK i \in Ids : i = conn[c].id  BY <2>1 DEF ConnInv, AcceptedWith, Held
  <2>2. \A j \in Ids : peers'[j] \in {peers[j], None} /\ peers'[j] # c
    BY <1>5, NoneIsApart DEF Unregister, PeersInv, TypeOK
  <2>3. ConnsSame  BY <1>0, <2>1 DEF ConnsSame, ConnInv, AcceptedWith, Held
  <2>4. LockInv'  BY <1>0, <2>1 DEF LockInv
  <2>5. PeersInv'  BY <2>1, <2>2 DEF PeersInv, TypeOK
  <2>6. \A d \in Conns, j \in Ids : Registered(d, j)' =>
            Registered(d, j) /\ conn'[d].secret = conn[d].secret
    BY <1>0, <2>1, <2>2, NoneIsApart DEF Registered
  <2>. QED  BY <1>0, <2>1, <2>3, <2>4, <2>5, <2>6, HubKept
<1>. QED  BY <1>1, <1>2, <1>3, <1>4, <1>5

\* The route that resolveAgent found for a connection, under the lock.
LEMMA RouteGiven ==
    ASSUME RegistryInv, TypeOK', NEW c \in Conns, NEW g \in Ids, NEW y \in Hashes,
           NEW x \in Secrets, NEW h \in Hosts,
           conn[c].pc = "upgraded", conn[c].secret = x, conn[c].host = h,
           lock = None, lock' = c, UNCHANGED <<issued, setting, peers, admin, ses>>,
           conn' = [conn EXCEPT ![c] = [@ EXCEPT !.pc = "locked", !.id = g, !.hash = y]],
           TablesMove, TablesInv', g <= last',
           \A j \in Ids : Row(j)' /\ server'[j].hash # None =>
                \/ Row(j) /\ server'[j].hash = server[j].hash
                \/ j = g /\ server'[j].hash = y,
           \A j \in Ids : Holds(j, y) => j = g,
           Owned(g, y)',
           x \in Tokens => y = x /\ (enrollment'[x] # None /\ Row(g)' => enrollment'[x].id = g),
           x \in Keys => hosts'[h] = g,
           \A d \in Conns, j \in Ids : d # c /\ Registered(d, j) /\ Row(j)' /\ Watched(d, j) =>
                Watched(d, j)',
           Watched(c, g)'
    PROVE  RegistryInv'
<1>. USE DEF RegistryInv, HubInv
<1>0. conn[c] \in ConnState  BY Shapes
<1>1. PICK new \in ConnState : new = [conn[c] EXCEPT !.pc = "locked", !.id = g, !.hash = y]
  BY <1>0 DEF ConnState
<1>2. new.pc = "locked" /\ new.id = g /\ new.hash = y /\ new.secret = x /\ new.host = h
  BY <1>0, <1>1 DEF ConnState
<1>3. conn'[c] = new /\ \A d \in Conns : d # c => conn'[d] = conn[d]
  BY <1>1 DEF TypeOK
<1>4. HoldersAgree'
  <2>1. ASSUME NEW i \in Ids, NEW z \in Hashes, Holds(i, z)'
        PROVE  Holds(i, z) \/ (i = g /\ z = y)
    <3>1. CASE Row(i)' /\ server'[i].hash = z
      BY <3>1, NoneIsApart DEF Holds
    <3>2. ASSUME NEW d \in Conns, conn'[d].pc \in Held /\ conn'[d].id = i /\ conn'[d].hash = z
          PROVE  Holds(i, z) \/ (i = g /\ z = y)
      BY <1>2, <1>3, <3>2 DEF Holds
    <3>3. CASE \E s \in Clients : ses'[s].pc \in {"lookup", "use"} /\ ses'[s].read = i /\ ses'[s].hash = z
      BY <3>3 DEF Holds
    <3>. QED  BY <2>1, <3>1, <3>2, <3>3 DEF Holds
  <2>. QED  BY <2>1, HolderAdded
<1>5. ConnInv'
  <2>1. ASSUME NEW d \in Conns, d # c PROVE AcceptedWith(d)'
    BY <1>3, <2>1, AcceptedKept DEF ConnInv, AcceptedWith, Held
  <2>2. AcceptedWith(c)'
    BY <1>2, <1>3 DEF AcceptedWith, Row
  <2>. QED  BY <2>1, <2>2 DEF ConnInv
<1>6. LockInv'
  <2>1. \A d \in Conns : conn[d].pc # "locked"  BY NoneIsApart DEF LockInv
  <2>2. \A a \in Admins : admin[a].pc # "drop"  BY NoneIsApart DEF LockInv
  <2>3. c \notin Admins  BY RegistryAssumption
  <2>. QED  BY <1>2, <1>3, <2>1, <2>2, <2>3 DEF LockInv
<1>7. \A j \in Ids : peers[j] # c  BY NoneIsApart DEF PeersInv
<1>8. PeersInv'  BY <1>3, <1>7 DEF PeersInv, TypeOK
<1>9. RegisteredInv'
  <2>. SUFFICES ASSUME NEW d \in Conns, NEW j \in Ids, Registered(d, j)', Row(j)'
                PROVE  Watched(d, j)'
    BY DEF RegisteredInv
  <2>1. CASE d = c
    <3>1. j = g  BY <1>2, <1>3, <1>7, <2>1 DEF Registered
    <3>. QED  BY <2>1, <3>1
  <2>2. CASE d # c
    <3>1. Registered(d, j)  BY <1>3, <2>2 DEF Registered
    <3>2. j <= last
      <4>1. conn[d].pc \in Held /\ conn[d].id = j  BY <3>1, RegisteredConn
      <4>. QED  BY <4>1 DEF ConnInv, AcceptedWith
    <3>3. Row(j)
      <4>1. j \in Int /\ last \in Int  BY DEF Ids, TypeOK
      <4>. QED  BY <3>2, <4>1 DEF TablesMove
    <3>4. Watched(d, j)  BY <3>1, <3>3 DEF RegisteredInv
    <3>. QED  BY <2>2, <3>1, <3>4
  <2>. QED  BY <2>1, <2>2
<1>10. AdminInv' /\ SessionInv'  BY DEF AdminInv, SessionInv
<1>. QED  BY <1>4, <1>5, <1>6, <1>8, <1>9, <1>10

LEMMA ResolveStepKept ==
    ASSUME RegistryInv, TypeOK', NEW c \in Conns, Resolve(c)
    PROVE  RegistryInv'
<1>. USE DEF RegistryInv, HubInv
<1>1. /\ conn[c].pc = "upgraded" /\ lock = None /\ lock' = c
      /\ UNCHANGED <<issued, setting, peers, admin, ses>>
      /\ conn[c].secret \in Secrets /\ conn[c].host \in Hosts
  BY DEF Resolve, ConnInv, AcceptedWith
<1>. PICK x \in Secrets : x = conn[c].secret  BY <1>1
<1>. PICK h \in Hosts : h = conn[c].host  BY <1>1
<1>2. x \in Tokens => x \notin Keys  BY RegistryAssumption
<1>3. x \in Hashes  BY DEF Hashes
\* What the other connections need: no key is accepted while a handler holds the lock.
<1>4. ASSUME NEW d \in Conns, NEW j \in Ids, d # c, Registered(d, j), Row(j), Watched(d, j),
             server'[j].agent = server[j].agent, server'[j].enabled = server[j].enabled,
             server'[j].name = server[j].name,
             conn'[d] = conn[d],
             conn[d].secret \in Tokens =>
                /\ server'[j].hash \in {server[j].hash} \cup (Keys \X Hosts)
                /\ enrollment'[conn[d].secret] = enrollment[conn[d].secret]
      PROVE  Watched(d, j)'
  <2>1. (Disconnects(j) => Disconnects(j)') /\ (Rereads(j) => Rereads(j)')
    BY <1>1, <1>4, AdminSame
  <2>2. lock \notin Admins  BY <1>1, NoneIsApart
  <2>3. setting' = setting  BY <1>1
  <2>. QED  BY <1>4, <2>1, <2>2, <2>3, WatchedKept
<1>5. ASSUME NEW d \in Conns, NEW j \in Ids, Registered(d, j)
      PROVE  conn[d].pc \in Held /\ conn[d].id = j /\ j <= last
  BY <1>5, RegisteredConn DEF ConnInv, AcceptedWith
<1>6. ASSUME NEW g \in Ids, KnownRoute(x, h, g),
             conn' = [conn EXCEPT ![c] = [@ EXCEPT !.pc = "locked", !.id = g, !.hash = x]],
             UNCHANGED <<server, last, enrollment, hosts>>
      PROVE  RegistryInv'
  <2>1. TablesMove /\ TablesInv' /\ HashesSame  BY <1>1, <1>6, Unwritten
  <2>2. Row(g) /\ server[g].hash = x /\ server[g].agent /\ server[g].enabled
    BY <1>6 DEF KnownRoute, OfHash
  <2>3. Holds(g, x)  BY <2>2 DEF Holds
  <2>4. Owned(g, x) /\ \A j \in Ids : Holds(j, x) => j = g  BY <1>3, <2>3 DEF HoldersAgree
  <2>5. x \in Tokens  BY <2>4 DEF Owned, Secrets
  <2>6. enrollment[x] # None => enrollment[x].enabled  BY <1>6, <2>5 DEF KnownRoute
  <2>7. enrollment'[x] # None => enrollment'[x].id = g
    BY <1>6, <2>2, <2>5 DEF TablesInv, RoutesKnown
  <2>8. g <= last'  BY <1>6, <2>2 DEF TablesInv, IdsUsed
  <2>9. Owned(g, x)'  BY <1>3, <2>1, <2>4, OwnedKept
  <2>10. conn'[c].secret = x /\ \A d \in Conns : d # c => conn'[d] = conn[d]
    <3>1. conn[c] \in ConnState  BY Shapes
    <3>. QED  BY <1>6, <3>1 DEF TypeOK, ConnState
  <2>11. Watched(c, g)'
    BY <1>2, <1>6, <2>2, <2>5, <2>6, <2>10 DEF Watched
  <2>12. \A d \in Conns, j \in Ids : d # c /\ Registered(d, j) /\ Row(j)' /\ Watched(d, j) =>
            Watched(d, j)'
    BY <1>4, <1>6, <2>10 DEF Row
  <2>13. \A j \in Ids : Row(j)' /\ server'[j].hash # None =>
            Row(j) /\ server'[j].hash = server[j].hash
    BY <1>6 DEF Row
  <2>. QED
    BY <1>1, <1>2, <1>3, <1>6, <2>1, <2>4, <2>5, <2>7, <2>8, <2>9, <2>11, <2>12, <2>13, RouteGiven
<1>7. ASSUME ClaimToken(x, h),
             conn' = [conn EXCEPT ![c] = [@ EXCEPT !.pc = "locked", !.id = last + 1, !.hash = x]]
      PROVE  RegistryInv'
  <2>1. /\ TablesMove /\ TablesInv' /\ x \in Tokens
        /\ last + 1 \in Ids
        /\ \A j \in Ids : j # last + 1 => server'[j] = server[j]
        /\ \A j \in Ids : Row(j)' => Row(j) \/ j = last + 1
        /\ ~Row(last + 1)
        /\ server'[last + 1] = NewRow(FirstFree(h), TRUE, x)
        /\ \A t \in Tokens : t # x => enrollment'[t] = enrollment[t]
        /\ enrollment'[x] =
             [enabled |-> TRUE, used |-> TRUE, host |-> h, id |-> last + 1]
        /\ \A i \in Ids : ~Holds(i, x)
        /\ \A g \in Ids : g = last + 1 => Owned(g, x)'
    BY <1>1, <1>7, ClaimTokenTables
  <2>. PICK g \in Ids : g = last + 1  BY <2>1
  <2>2. /\ server'[g].hash = x /\ server'[g].agent /\ server'[g].enabled
        /\ enrollment'[x].enabled /\ enrollment'[x].id = g
    BY <2>1 DEF NewRow
  <2>3. last' = last + 1 /\ g <= last'
    <3>1. last' = g  BY <1>7 DEF ClaimToken
    <3>2. g \in Int  BY DEF Ids
    <3>. QED  BY <3>1, <3>2
  <2>4. conn'[c].secret = x /\ \A d \in Conns : d # c => conn'[d] = conn[d]
    <3>1. conn[c] \in ConnState  BY Shapes
    <3>. QED  BY <1>7, <3>1 DEF TypeOK, ConnState
  <2>5. Watched(c, g)'
    BY <1>2, <2>1, <2>2, <2>4 DEF Watched
  <2>6. \A d \in Conns, j \in Ids : d # c /\ Registered(d, j) /\ Row(j)' /\ Watched(d, j) =>
            Watched(d, j)'
    <3>. SUFFICES ASSUME NEW d \in Conns, NEW j \in Ids, d # c, Registered(d, j), Row(j)',
                         Watched(d, j)
                  PROVE  Watched(d, j)'
      OBVIOUS
    <3>1. j # last + 1
      <4>1. j <= last /\ j \in Int /\ last \in Int  BY <1>5 DEF Ids, TypeOK
      <4>. QED  BY <4>1
    <3>2. server'[j] = server[j] /\ Row(j)  BY <2>1, <3>1 DEF Row
    <3>3. ASSUME conn[d].secret \in Tokens PROVE enrollment'[conn[d].secret] = enrollment[conn[d].secret]
      <4>1. conn[d].pc \in Held /\ conn[d].id = j  BY <1>5
      <4>2. conn[d].hash = conn[d].secret  BY <3>3, <4>1 DEF ConnInv, AcceptedWith
      <4>3. Holds(j, conn[d].secret)  BY <4>1, <4>2 DEF Holds
      <4>. QED  BY <2>1, <3>3, <4>3
    <3>. QED  BY <1>4, <2>4, <3>2, <3>3
  <2>7. \A j \in Ids : Row(j)' /\ server'[j].hash # None =>
            \/ Row(j) /\ server'[j].hash = server[j].hash
            \/ j = g /\ server'[j].hash = x
    BY <2>1, <2>2
  <2>8. conn' = [conn EXCEPT ![c] = [@ EXCEPT !.pc = "locked", !.id = g, !.hash = x]]
    BY <1>7
  <2>. QED
    BY <1>1, <1>2, <1>3, <2>1, <2>2, <2>3, <2>5, <2>6, <2>7, <2>8, RouteGiven
<1>8. ASSUME NEW g \in Ids, Reconnects(x, h, g),
             conn' = [conn EXCEPT ![c] = [@ EXCEPT !.pc = "locked", !.id = g,
                                                   !.hash = SharedHash(x, h)]]
      PROVE  RegistryInv'
  <2>0. x \in Keys /\ x \notin Tokens /\ setting = [key |-> x, enabled |-> TRUE]
    <3>1. x = setting.key /\ setting.enabled  BY <1>8 DEF Reconnects, SharedKey
    <3>2. x \in Keys  BY <3>1, NoneIsApart DEF TypeOK
    <3>. QED  BY <1>2, <3>1, <3>2 DEF TypeOK
  <2>1. /\ TablesMove /\ TablesInv'
        /\ UNCHANGED <<enrollment, hosts>> /\ hosts[h] = g
        /\ \A j \in Ids : j # g => server'[j] = server[j]
        /\ \A j \in Ids : Row(j)' =>
             /\ Row(j) /\ server'[j].name = server[j].name
             /\ server'[j].agent = server[j].agent /\ server'[j].enabled = server[j].enabled
        /\ server'[g].hash = SharedHash(x, h)
        /\ \A j \in Ids : Holds(j, SharedHash(x, h)) => j = g
        /\ Owned(g, SharedHash(x, h))'
    BY <1>1, <1>8, <2>0, ReconnectsTables
  <2>. PICK y \in Hashes : y = SharedHash(x, h)  BY <2>0, SharedIsOwned
  <2>2. y \in Keys \X Hosts  BY <2>0 DEF SharedHash, Derived
  <2>3. Row(g) /\ server[g].agent /\ server[g].enabled  BY <1>8 DEF Reconnects
  <2>4. g <= last'  BY <1>8, <2>3 DEF TablesInv, IdsUsed, Reconnects
  <2>5. conn'[c].secret = x /\ \A d \in Conns : d # c => conn'[d] = conn[d]
    <3>1. conn[c] \in ConnState  BY Shapes
    <3>. QED  BY <1>8, <3>1 DEF TypeOK, ConnState
  <2>6. server'[g].agent /\ server'[g].enabled
    <3>1. server[g] \in ServerRow  BY <2>3, Shapes
    <3>2. PICK r : r = [server[g] EXCEPT !.hash = y]  OBVIOUS
    <3>3. r.agent = server[g].agent /\ r.enabled = server[g].enabled  BY <3>1, <3>2 DEF ServerRow
    <3>4. server'[g] = r  BY <1>8, <3>2 DEF Reconnects, TypeOK
    <3>. QED  BY <2>3, <3>3, <3>4
  <2>7. Watched(c, g)'
    BY <1>1, <2>0, <2>5, <2>6 DEF Watched
  <2>8. \A d \in Conns, j \in Ids : d # c /\ Registered(d, j) /\ Row(j)' /\ Watched(d, j) =>
            Watched(d, j)'
    <3>. SUFFICES ASSUME NEW d \in Conns, NEW j \in Ids, d # c, Registered(d, j), Row(j)',
                         Watched(d, j)
                  PROVE  Watched(d, j)'
      OBVIOUS
    <3>1. Row(j) /\ server'[j].hash \in {server[j].hash} \cup (Keys \X Hosts)
      BY <2>1, <2>2
    <3>2. \A t \in Tokens : enrollment'[t] = enrollment[t]  BY <2>1
    <3>. QED  BY <1>4, <2>1, <2>5, <3>1, <3>2
  <2>9. \A j \in Ids : Row(j)' /\ server'[j].hash # None =>
            \/ Row(j) /\ server'[j].hash = server[j].hash
            \/ j = g /\ server'[j].hash = y
    BY <2>1
  <2>10. conn' = [conn EXCEPT ![c] = [@ EXCEPT !.pc = "locked", !.id = g, !.hash = y]]
    BY <1>8
  <2>11. Owned(g, y)'  BY <2>1 DEF SharedHash
  <2>12. \A j \in Ids : Holds(j, y) => j = g  BY <2>1
  <2>. QED
    BY <1>1, <2>0, <2>1, <2>4, <2>7, <2>8, <2>9, <2>10, <2>11, <2>12, RouteGiven
<1>9. ASSUME FirstRegistration(x, h),
             conn' = [conn EXCEPT ![c] = [@ EXCEPT !.pc = "locked", !.id = last + 1,
                                                   !.hash = SharedHash(x, h)]]
      PROVE  RegistryInv'
  <2>0. x \in Keys /\ x \notin Tokens /\ setting = [key |-> x, enabled |-> TRUE]
    <3>1. x = setting.key /\ setting.enabled  BY <1>9 DEF FirstRegistration, SharedKey
    <3>2. x \in Keys  BY <3>1, NoneIsApart DEF TypeOK
    <3>. QED  BY <1>2, <3>1, <3>2 DEF TypeOK
  <2>1. /\ TablesMove /\ TablesInv'
        /\ last + 1 \in Ids
        /\ \A j \in Ids : j # last + 1 => server'[j] = server[j]
        /\ \A j \in Ids : Row(j)' => Row(j) \/ j = last + 1
        /\ ~Row(last + 1)
        /\ server'[last + 1] = NewRow(<<h, 1>>, TRUE, SharedHash(x, h))
        /\ UNCHANGED enrollment /\ hosts'[h] = last + 1
        /\ \A i \in Ids : ~Holds(i, SharedHash(x, h))
        /\ \A g \in Ids : g = last + 1 => Owned(g, SharedHash(x, h))'
    BY <1>1, <1>9, <2>0, FirstRegistrationTables
  <2>. PICK g \in Ids : g = last + 1  BY <2>1
  <2>. PICK y \in Hashes : y = SharedHash(x, h)  BY <2>0, SharedIsOwned
  <2>2. server'[g].hash = y /\ server'[g].agent /\ server'[g].enabled
    BY <2>1 DEF NewRow
  <2>3. g <= last'
    <3>1. last' = g  BY <1>9 DEF FirstRegistration
    <3>2. g \in Int  BY DEF Ids
    <3>. QED  BY <3>1, <3>2
  <2>4. conn'[c].secret = x /\ \A d \in Conns : d # c => conn'[d] = conn[d]
    <3>1. conn[c] \in ConnState  BY Shapes
    <3>. QED  BY <1>9, <3>1 DEF TypeOK, ConnState
  <2>5. Watched(c, g)'
    BY <1>1, <2>0, <2>2, <2>4 DEF Watched
  <2>6. \A d \in Conns, j \in Ids : d # c /\ Registered(d, j) /\ Row(j)' /\ Watched(d, j) =>
            Watched(d, j)'
    <3>. SUFFICES ASSUME NEW d \in Conns, NEW j \in Ids, d # c, Registered(d, j), Row(j)',
                         Watched(d, j)
                  PROVE  Watched(d, j)'
      OBVIOUS
    <3>1. j # last + 1
      <4>1. j <= last /\ j \in Int /\ last \in Int  BY <1>5 DEF Ids, TypeOK
      <4>. QED  BY <4>1
    <3>2. server'[j] = server[j] /\ Row(j)  BY <2>1, <3>1 DEF Row
    <3>3. \A t \in Tokens : enrollment'[t] = enrollment[t]  BY <2>1
    <3>. QED  BY <1>4, <2>4, <3>2, <3>3
  <2>7. \A j \in Ids : Row(j)' /\ server'[j].hash # None =>
            \/ Row(j) /\ server'[j].hash = server[j].hash
            \/ j = g /\ server'[j].hash = y
    BY <2>1, <2>2
  <2>8. conn' = [conn EXCEPT ![c] = [@ EXCEPT !.pc = "locked", !.id = g, !.hash = y]]
    BY <1>9
  <2>9. Owned(g, y)'  BY <2>1 DEF SharedHash
  <2>10. \A j \in Ids : Holds(j, y) => j = g  BY <2>1
  <2>11. TablesMove /\ TablesInv' /\ hosts'[h] = g  BY <2>1
  <2>. QED
    BY <1>1, <2>0, <2>11, <2>3, <2>5, <2>6, <2>7, <2>8, <2>9, <2>10, RouteGiven
<1>. QED  BY <1>6, <1>7, <1>8, <1>9 DEF Resolve

-----------------------------------------------------------------------------
(* The steps of the handlers *)

\* A handler about to disconnect the agent of a route makes good for whatever it changed.
LEMMA WatchedByDisconnect ==
    ASSUME NEW c \in Conns, NEW i \in Ids, Watched(c, i), Disconnects(i)',
           conn' = conn, setting' = setting, lock' = lock
    PROVE  Watched(c, i)'
<1>1. conn[c].secret \in Keys =>
        setting' = [key |-> conn[c].secret, enabled |-> TRUE] \/ lock' \in Admins
  BY DEF Watched
<1>. QED  BY <1>1 DEF Watched

LEMMA BecomeIs ==
    ASSUME TypeOK, NEW a \in Admins, NEW state, Become(a, state)
    PROVE  admin'[a] = state /\ \A b \in Admins : b # a => admin'[b] = admin[b]
  BY DEF Become, TypeOK

\* The other handlers still do what they were about to do.
LEMMA OthersAct ==
    ASSUME NEW a \in Admins, NEW i \in Ids,
           \A b \in Admins : b # a => admin'[b] = admin[b]
    PROVE  /\ admin[a].pc # "disconnect" /\ Disconnects(i) => Disconnects(i)'
           /\ admin[a].pc # "reread" /\ server'[i].name = server[i].name /\ Rereads(i) => Rereads(i)'
           /\ admin'[a].pc = "disconnect" /\ admin'[a].id = i => Disconnects(i)'
  BY DEF Disconnects, Rereads

\* A step of a handler outside the hub.
LEMMA HandlerKept ==
    ASSUME RegistryInv, TypeOK', NEW a \in Admins,
           \A b \in Admins : b # a => admin'[b] = admin[b],
           admin[a].pc # "drop", admin'[a].pc # "drop",
           admin'[a].pc \in {"disconnect", "rotate"} => admin'[a].id \in Ids,
           admin'[a].pc \in {"delete", "reread"} => admin'[a].name \in Names,
           UNCHANGED <<conn, peers, ses, lock>>,
           TablesMove, TablesInv', HoldersAgree',
           \A c \in Conns, i \in Ids : Registered(c, i) /\ Row(i) /\ Row(i)' /\ Watched(c, i) =>
                Watched(c, i)'
    PROVE  RegistryInv'
<1>. USE DEF RegistryInv, HubInv
<1>1. ConnsSame  BY DEF ConnsSame, ConnInv, AcceptedWith
<1>2. ConnInv'  BY <1>1, ConnKept
<1>3. LockInv'
  <2>1. \A c \in Conns : conn'[c].pc = "locked" <=> lock' = c  BY DEF LockInv
  <2>2. ASSUME NEW b \in Admins PROVE admin'[b].pc = "drop" <=> lock' = b
    BY DEF LockInv
  <2>. QED  BY <2>1, <2>2 DEF LockInv
<1>4. PeersInv'  BY DEF PeersInv
<1>5. RegisteredInv'
  <2>. SUFFICES ASSUME NEW c \in Conns, NEW i \in Ids, Registered(c, i)', Row(i)'
                PROVE  Watched(c, i)'
    BY DEF RegisteredInv
  <2>1. Registered(c, i)  BY DEF Registered
  <2>2. conn[c].pc \in Held /\ conn[c].id = i  BY <2>1, RegisteredConn
  <2>3. i <= last /\ i \in Int /\ last \in Int
    BY <2>2 DEF ConnInv, AcceptedWith, TypeOK, Ids
  <2>4. Row(i)  BY <2>3 DEF TablesMove
  <2>5. Watched(c, i)  BY <2>1, <2>4 DEF RegisteredInv
  <2>. QED  BY <2>1, <2>4, <2>5
<1>6. AdminInv'
  <2>1. ASSUME NEW b \in Admins, b # a
        PROVE  /\ admin'[b].pc \in {"disconnect", "rotate"} => admin'[b].id \in Ids
               /\ admin'[b].pc \in {"delete", "reread"} => admin'[b].name \in Names
    BY <2>1 DEF AdminInv
  <2>. QED  BY <2>1 DEF AdminInv
<1>7. SessionInv'  BY DEF SessionInv
<1>. QED  BY <1>2, <1>3, <1>4, <1>5, <1>6, <1>7

\* A handler that only reads the tables, or that changes no row, no token and no setting.
LEMMA ReaderKept ==
    ASSUME RegistryInv, TypeOK', NEW a \in Admins, NEW state, Become(a, state),
           admin[a].pc \notin {"drop", "disconnect"}, state.pc # "drop",
           state.pc \in {"disconnect", "rotate"} => state.id \in Ids,
           state.pc \in {"delete", "reread"} => state.name \in Names,
           UNCHANGED <<dbVars, hubVars, ses>>,
           \A i \in Ids : Row(i) /\ Rereads(i) =>
                Rereads(i)' \/ Disconnects(i)' \/ server[i].enabled
    PROVE  RegistryInv'
<1>. USE DEF RegistryInv, dbVars, hubVars
<1>1. admin'[a] = state /\ \A b \in Admins : b # a => admin'[b] = admin[b]  BY BecomeIs
<1>2. TablesMove /\ TablesInv' /\ HashesSame  BY Unwritten
<1>3. HoldersAgree'
  <2>1. ConnsSame /\ SessionsSame  BY DEF ConnsSame, SessionsSame, HubInv, ConnInv, AcceptedWith
  <2>. QED  BY <1>2, <2>1, NoNewHolder, HoldersKept
<1>4. ASSUME NEW c \in Conns, NEW i \in Ids, Row(i), Watched(c, i) PROVE Watched(c, i)'
  <2>1. Disconnects(i) => Disconnects(i)'  BY <1>1, OthersAct
  <2>2. Rereads(i) => Rereads(i)' \/ Disconnects(i)' \/ server[i].enabled  BY <1>4
  <2>3. /\ setting' = setting /\ lock' = lock /\ conn' = conn
        /\ server' = server /\ enrollment' = enrollment
    OBVIOUS
  <2>. QED  BY <1>4, <2>1, <2>2, <2>3, WatchedKept
<1>5. UNCHANGED <<conn, peers, ses, lock>>  OBVIOUS
<1>. QED  BY <1>1, <1>2, <1>3, <1>4, <1>5, HandlerKept

LEMMA EditServerKept ==
    ASSUME RegistryInv, TypeOK', NEW a \in Admins, EditServer(a)
    PROVE  RegistryInv'
<1>. USE DEF RegistryInv, dbVars, hubVars
<1>0. /\ TablesMove /\ HashesSame /\ UNCHANGED <<conn, ses>> => HoldersAgree'
      /\ UNCHANGED <<issued, setting, conn, peers, lock, ses>>
  <2>1. ASSUME UNCHANGED <<conn, ses>> PROVE ConnsSame /\ SessionsSame
    BY <2>1 DEF ConnsSame, SessionsSame, HubInv, ConnInv, AcceptedWith
  <2>2. TablesMove /\ HashesSame /\ UNCHANGED <<conn, ses>> => HoldersAgree'
    BY <2>1, NoNewHolder, HoldersKept
  <2>3. UNCHANGED <<issued, setting, conn, peers, lock, ses>>
    BY DEF EditServer, CreateServer, UpdateServer, DeleteReads, DeleteWrites, SetServerEnabled,
           SetEnabledReads, TestServer
  <2>. QED  BY <2>2, <2>3
<1>1. ASSUME NEW n \in Names, NEW agent \in BOOLEAN, CreateServer(a, n, agent) PROVE RegistryInv'
  <2>1. TablesMove /\ TablesInv' /\ HashesSame  BY <1>1, CreateServerTables
  <2>2. admin' = admin /\ admin[a].pc = "idle" /\ enrollment' = enrollment
    BY <1>1 DEF CreateServer
  <2>3. \A i \in Ids : Row(i) => server'[i] = server[i]
    <3>1. NewRow(n, agent, None) \in ServerRow /\ NewRow(n, agent, None).name = n
      BY NewRowTyped DEF NewRow
    <3>. QED  BY <1>1, <3>1, Inserted DEF CreateServer
  <2>4. ASSUME NEW c \in Conns, NEW i \in Ids, Row(i), Watched(c, i) PROVE Watched(c, i)'
    <3>1. server'[i] = server[i]  BY <2>3, <2>4
    <3>2. (Disconnects(i) => Disconnects(i)') /\ (Rereads(i) => Rereads(i)')
      BY <2>2, <3>1, AdminSame
    <3>. QED  BY <1>0, <2>2, <2>4, <3>1, <3>2, WatchedKept
  <2>. QED  BY <1>0, <2>1, <2>2, <2>4, HandlerKept
<1>2. ASSUME NEW i \in Ids, NEW n \in Names, NEW agent \in BOOLEAN, UpdateServer(a, i, n, agent)
      PROVE  RegistryInv'
  <2>1. TablesMove /\ TablesInv' /\ HashesSame  BY <1>2, UpdateServerTables
  <2>. PICK state : state = [pc |-> "disconnect", id |-> i, name |-> None]  OBVIOUS
  <2>2. /\ admin[a].pc = "idle" /\ enrollment' = enrollment
        /\ admin'[a] = state /\ \A b \in Admins : b # a => admin'[b] = admin[b]
    BY <1>2, BecomeIs DEF UpdateServer, ThenDisconnect
  <2>3. \A j \in Ids : j # i => server'[j] = server[j]
    BY <1>2 DEF UpdateServer, TypeOK
  <2>4. ASSUME NEW c \in Conns, NEW j \in Ids, Watched(c, j) PROVE Watched(c, j)'
    <3>1. CASE j = i
      <4>1. Disconnects(j)'  BY <2>2, <3>1, OthersAct
      <4>. QED  BY <1>0, <2>4, <4>1, WatchedByDisconnect
    <3>2. CASE j # i
      <4>1. server'[j] = server[j]  BY <2>3, <3>2
      <4>2. (Disconnects(j) => Disconnects(j)') /\ (Rereads(j) => Rereads(j)')
        BY <2>2, <4>1, OthersAct
      <4>. QED  BY <1>0, <2>2, <2>4, <4>1, <4>2, WatchedKept
    <3>. QED  BY <3>1, <3>2
  <2>. QED  BY <1>0, <2>1, <2>2, <2>4, HandlerKept
<1>3. ASSUME NEW n \in Names, DeleteReads(a, n) PROVE RegistryInv'
  <2>1. PICK i : Become(a, [pc |-> "delete", id |-> i, name |-> n])
    BY <1>3 DEF DeleteReads
  <2>. PICK state : state = [pc |-> "delete", id |-> i, name |-> n]  OBVIOUS
  <2>2. Become(a, state) /\ admin[a].pc = "idle" /\ UNCHANGED <<dbVars, hubVars, ses>>
    BY <1>3, <2>1 DEF DeleteReads
  <2>3. \A j \in Ids : Rereads(j) => Rereads(j)'
    BY <2>2, BecomeIs, OthersAct
  <2>. QED  BY <2>2, <2>3, ReaderKept
<1>4. CASE DeleteWrites(a)
  <2>1. /\ TablesMove /\ TablesInv' /\ HashesSame
        /\ \A j \in Ids : Row(j)' => Row(j) /\ server'[j] = server[j]
        /\ \A t \in Tokens : enrollment'[t] # None =>
             enrollment[t] # None /\ enrollment'[t].enabled = enrollment[t].enabled
    BY <1>4, DeleteWritesTables
  <2>2. PICK state \in AdminState : /\ Become(a, state) /\ state.pc \in {"idle", "disconnect"}
                                    /\ state.pc = "disconnect" => state.id \in Ids
    <3>1. admin[a].id \in Ids \cup {None}  BY Shapes DEF AdminState
    <3>2. CASE admin[a].id = None
      BY <1>4, <3>2, AdminStates DEF DeleteWrites, IdleAdmin
    <3>3. CASE admin[a].id # None
      <4>1. admin[a].id \in Ids  BY <3>1, <3>3
      <4>. PICK s \in AdminState : s = [pc |-> "disconnect", id |-> admin[a].id, name |-> None]
        BY <4>1, AdminStates
      <4>2. Become(a, s) /\ s.pc = "disconnect" /\ s.id \in Ids
        BY <1>4, <3>3, <4>1 DEF DeleteWrites, ThenDisconnect
      <4>. QED  BY <4>2
    <3>. QED  BY <3>2, <3>3
  <2>3. /\ admin[a].pc = "delete"
        /\ admin'[a] = state /\ \A b \in Admins : b # a => admin'[b] = admin[b]
    BY <1>4, <2>2, BecomeIs DEF DeleteWrites
  <2>4. ASSUME NEW c \in Conns, NEW j \in Ids, Row(j)', Watched(c, j) PROVE Watched(c, j)'
    <3>1. server'[j] = server[j]  BY <2>1, <2>4
    <3>2. (Disconnects(j) => Disconnects(j)') /\ (Rereads(j) => Rereads(j)')
      BY <2>3, <3>1, OthersAct
    <3>. QED  BY <1>0, <2>1, <2>4, <3>1, <3>2, WatchedKept
  <2>. QED  BY <1>0, <2>1, <2>2, <2>3, <2>4, HandlerKept
<1>5. ASSUME NEW n \in Names, NEW on \in BOOLEAN, SetServerEnabled(a, n, on) PROVE RegistryInv'
  <2>1. /\ TablesMove /\ TablesInv' /\ HashesSame
        /\ \A j \in Ids : Row(j)' => /\ Row(j) /\ server'[j].name = server[j].name
                                     /\ server'[j].hash = server[j].hash
                                     /\ server'[j].agent = server[j].agent
    BY <1>5, SetServerEnabledTables
  <2>. PICK state : state = [pc |-> "reread", id |-> None, name |-> n]  OBVIOUS
  <2>2. /\ admin[a].pc = "idle" /\ enrollment' = enrollment
        /\ admin'[a] = state /\ \A b \in Admins : b # a => admin'[b] = admin[b]
    BY <1>5, BecomeIs DEF SetServerEnabled
  <2>3. ASSUME NEW c \in Conns, NEW j \in Ids, Row(j)', Watched(c, j) PROVE Watched(c, j)'
    <3>1. CASE j \in Named(n)
      <4>1. server'[j].name = n  BY <2>1, <2>3, <3>1 DEF Named
      <4>2. Rereads(j)'  BY <2>2, <4>1 DEF Rereads
      <4>3. Disconnects(j) => Disconnects(j)'  BY <2>2, OthersAct
      <4>4. server'[j].agent \/ Disconnects(j)'  BY <2>1, <2>3, <4>3 DEF Watched
      <4>5. ASSUME conn[c].secret \in Tokens
            PROVE  \/ Disconnects(j)'
                   \/ /\ server'[j].hash \in {conn[c].secret} \cup (Keys \X Hosts)
                      /\ enrollment'[conn[c].secret] # None => enrollment'[conn[c].secret].enabled
        BY <2>1, <2>2, <2>3, <4>3, <4>5 DEF Watched
      <4>6. conn[c].secret \in Keys =>
                setting = [key |-> conn[c].secret, enabled |-> TRUE] \/ lock \in Admins
        BY <2>3 DEF Watched
      <4>. QED  BY <1>0, <4>2, <4>4, <4>5, <4>6 DEF Watched
    <3>2. CASE j \notin Named(n)
      <4>1. server'[j] = server[j]  BY <1>5, <3>2 DEF SetServerEnabled
      <4>2. (Disconnects(j) => Disconnects(j)') /\ (Rereads(j) => Rereads(j)')
        BY <2>2, <4>1, OthersAct
      <4>. QED  BY <1>0, <2>2, <2>3, <4>1, <4>2, WatchedKept
    <3>. QED  BY <3>1, <3>2
  <2>. QED  BY <1>0, <2>1, <2>2, <2>3, HandlerKept
<1>6. CASE SetEnabledReads(a)
  <2>1. admin[a].pc = "reread" /\ UNCHANGED <<dbVars, hubVars, ses>>
    BY <1>6 DEF SetEnabledReads
  <2>2. ASSUME NEW i \in Named(admin[a].name), ThenDisconnect(a, i) PROVE RegistryInv'
    <3>. PICK state : state = [pc |-> "disconnect", id |-> i, name |-> None]  OBVIOUS
    <3>1. Become(a, state)  BY <2>2 DEF ThenDisconnect
    <3>2. admin'[a] = state /\ \A b \in Admins : b # a => admin'[b] = admin[b]
      BY <3>1, BecomeIs
    <3>3. i \in Ids /\ Row(i) /\ server[i].name = admin[a].name  BY DEF Named
    <3>4. ASSUME NEW j \in Ids, Row(j), Rereads(j) PROVE Rereads(j)' \/ Disconnects(j)'
      <4>1. CASE server[j].name = admin[a].name
        <5>1. j = i  BY <3>3, <3>4, <4>1 DEF TablesInv, NamesApart
        <5>. QED  BY <3>2, <5>1, OthersAct
      <4>2. CASE server[j].name # admin[a].name
        BY <2>1, <3>2, <3>4, <4>2 DEF Rereads
      <4>. QED  BY <4>1, <4>2
    <3>. QED  BY <2>1, <3>1, <3>3, <3>4, ReaderKept
  <2>3. ASSUME \A i \in Named(admin[a].name) : server[i].enabled, Become(a, IdleAdmin)
        PROVE  RegistryInv'
    <3>1. admin'[a] = IdleAdmin /\ \A b \in Admins : b # a => admin'[b] = admin[b]
      BY <2>3, BecomeIs
    <3>2. ASSUME NEW j \in Ids, Row(j), Rereads(j) PROVE Rereads(j)' \/ server[j].enabled
      <4>1. CASE server[j].name = admin[a].name
        BY <2>3, <3>2, <4>1 DEF Named
      <4>2. CASE server[j].name # admin[a].name
        BY <2>1, <3>1, <3>2, <4>2 DEF Rereads
      <4>. QED  BY <4>1, <4>2
    <3>3. IdleAdmin.pc = "idle"  BY DEF IdleAdmin
    <3>. QED  BY <2>1, <2>3, <3>2, <3>3, ReaderKept
  <2>. QED  BY <1>6, <2>2, <2>3 DEF SetEnabledReads
<1>7. ASSUME NEW n \in Names, TestServer(a, n) PROVE RegistryInv'
  <2>. PICK state : state = [pc |-> "reread", id |-> None, name |-> n]  OBVIOUS
  <2>1. Become(a, state) /\ admin[a].pc = "idle" /\ UNCHANGED <<dbVars, hubVars, ses>>
    BY <1>7 DEF TestServer
  <2>2. \A j \in Ids : Rereads(j) => Rereads(j)'
    BY <2>1, BecomeIs, OthersAct
  <2>. QED  BY <2>1, <2>2, ReaderKept
<1>. QED  BY <1>1, <1>2, <1>3, <1>4, <1>5, <1>6, <1>7 DEF EditServer

LEMMA EditCredentialKept ==
    ASSUME RegistryInv, TypeOK', NEW a \in Admins,
           \/ \E n \in Names : RotateReads(a, n)
           \/ \E t \in Tokens : RotateWrites(a, t)
           \/ RotateFails(a)
           \/ \E t \in Tokens : CreateEnrollment(a, t)
           \/ \E t \in Tokens : RevokeEnrollment(a, t)
    PROVE  RegistryInv'
<1>. USE DEF RegistryInv, dbVars, hubVars
<1>0. UNCHANGED <<setting, conn, peers, lock, ses>> /\ ConnsSame /\ SessionsSame
  <2>1. UNCHANGED <<setting, conn, peers, lock, ses>>
    BY DEF RotateReads, RotateWrites, RotateFails, CreateEnrollment, RevokeEnrollment
  <2>. QED  BY <2>1 DEF ConnsSame, SessionsSame, HubInv, ConnInv, AcceptedWith
<1>1. ASSUME NEW n \in Names, RotateReads(a, n) PROVE RegistryInv'
  <2>1. PICK i \in Ids : Become(a, [pc |-> "rotate", id |-> i, name |-> None])
    BY <1>1 DEF RotateReads, Named
  <2>. PICK state : state = [pc |-> "rotate", id |-> i, name |-> None]  OBVIOUS
  <2>2. Become(a, state) /\ admin[a].pc = "idle" /\ UNCHANGED <<dbVars, hubVars, ses>>
    BY <1>1, <2>1 DEF RotateReads
  <2>3. \A j \in Ids : Rereads(j) => Rereads(j)'
    BY <2>2, BecomeIs, OthersAct
  <2>. QED  BY <2>2, <2>3, ReaderKept
<1>2. ASSUME NEW t \in Tokens, RotateWrites(a, t) PROVE RegistryInv'
  <2>1. admin[a].pc = "rotate" /\ admin[a].id \in Ids /\ t \notin issued /\ issued' = issued \cup {t}
    BY <1>2 DEF RotateWrites, AdminInv
  <2>. PICK i \in Ids : i = admin[a].id  BY <2>1
  <2>. PICK state : state = [pc |-> "disconnect", id |-> i, name |-> None]  OBVIOUS
  <2>2. /\ TablesMove /\ TablesInv'
        /\ \A j \in Ids : Row(j)' =>
             /\ Row(j) /\ server'[j].name = server[j].name
             /\ server'[j].agent = server[j].agent /\ server'[j].enabled = server[j].enabled
             /\ \/ server'[j].hash = server[j].hash
                \/ j = i /\ server'[j].hash = t
    BY <1>2, <2>1, RotateWritesTables
  <2>3. /\ enrollment' = enrollment
        /\ admin'[a] = state /\ \A b \in Admins : b # a => admin'[b] = admin[b]
    BY <1>2, BecomeIs DEF RotateWrites, ThenDisconnect
  <2>4. enrollment[t] = None /\ \A j \in Ids : ~Holds(j, t)  BY <2>1, NotIssued
  <2>5. HoldersAgree'
    <3>1. ASSUME NEW j \in Ids, NEW z \in Hashes, Holds(j, z)'
          PROVE  Holds(j, z) \/ (j = i /\ z = t)
      <4>1. CASE Row(j)' /\ server'[j].hash = z
        BY <2>2, <4>1 DEF Holds
      <4>2. CASE \E c \in Conns : conn'[c].pc \in Held /\ conn'[c].id = j /\ conn'[c].hash = z
        BY <1>0, <4>2 DEF Holds
      <4>3. CASE \E s \in Clients : ses'[s].pc \in {"lookup", "use"} /\ ses'[s].read = j /\ ses'[s].hash = z
        BY <1>0, <4>3 DEF Holds
      <4>. QED  BY <3>1, <4>1, <4>2, <4>3 DEF Holds
    <3>2. Owned(i, t)'
      <4>1. Spent(t)'  BY <2>1, <2>3, <2>4 DEF Spent
      <4>2. t \notin Keys /\ \A k \in Keys, h \in Hosts : t # Derived(k, h)
        BY RegistryAssumption, HashKinds DEF Secrets
      <4>. QED  BY <4>1, <4>2 DEF Owned
    <3>3. t \in Hashes  BY DEF Hashes, Secrets
    <3>. QED  BY <2>2, <2>4, <3>1, <3>2, <3>3, HolderAdded
  <2>6. ASSUME NEW c \in Conns, NEW j \in Ids, Row(j)', Watched(c, j) PROVE Watched(c, j)'
    <3>1. CASE j = i
      <4>1. Disconnects(j)'  BY <2>3, <3>1, OthersAct
      <4>. QED  BY <1>0, <2>6, <4>1, WatchedByDisconnect
    <3>2. CASE j # i
      <4>1. /\ server'[j].name = server[j].name /\ server'[j].hash = server[j].hash
            /\ server'[j].agent = server[j].agent /\ server'[j].enabled = server[j].enabled
        BY <2>2, <2>6, <3>2
      <4>2. (Disconnects(j) => Disconnects(j)') /\ (Rereads(j) => Rereads(j)')
        BY <2>1, <2>3, <4>1, OthersAct
      <4>. QED  BY <1>0, <2>3, <2>6, <4>1, <4>2, WatchedKept
    <3>. QED  BY <3>1, <3>2
  <2>. QED  BY <1>0, <2>1, <2>2, <2>3, <2>5, <2>6, HandlerKept
<1>3. CASE RotateFails(a)
  <2>1. Become(a, IdleAdmin) /\ admin[a].pc = "rotate" /\ UNCHANGED <<dbVars, hubVars, ses>>
    BY <1>3 DEF RotateFails
  <2>2. \A j \in Ids : Rereads(j) => Rereads(j)'
    BY <2>1, BecomeIs, OthersAct
  <2>3. IdleAdmin.pc = "idle"  BY DEF IdleAdmin
  <2>. QED  BY <2>1, <2>2, <2>3, ReaderKept
<1>4. ASSUME NEW t \in Tokens, CreateEnrollment(a, t) PROVE RegistryInv'
  <2>1. /\ TablesMove /\ TablesInv' /\ HashesSame
        /\ enrollment[t] = None /\ t \notin issued
        /\ \A s \in Tokens : s # t => enrollment'[s] = enrollment[s]
    BY <1>4, CreateEnrollmentTables
  <2>2. HoldersAgree'  BY <1>0, <2>1, NoNewHolder, HoldersKept
  <2>3. admin' = admin /\ admin[a].pc = "idle" /\ server' = server
    BY <1>4 DEF CreateEnrollment
  <2>4. ASSUME NEW c \in Conns, NEW j \in Ids, Registered(c, j), Watched(c, j)
        PROVE  Watched(c, j)'
    <3>1. (Disconnects(j) => Disconnects(j)') /\ (Rereads(j) => Rereads(j)')
      BY <2>3, AdminSame
    <3>2. ASSUME conn[c].secret \in Tokens
          PROVE  enrollment'[conn[c].secret] = enrollment[conn[c].secret]
      <4>1. conn[c].pc \in Held /\ conn[c].id = j  BY <2>4, RegisteredConn DEF HubInv
      <4>2. conn[c].hash = conn[c].secret  BY <3>2, <4>1 DEF HubInv, ConnInv, AcceptedWith
      <4>3. Holds(j, conn[c].secret)  BY <4>1, <4>2 DEF Holds
      <4>4. conn[c].secret # t  BY <2>1, <3>2, <4>3, NotIssued
      <4>. QED  BY <2>1, <3>2, <4>4
    <3>. QED  BY <1>0, <2>3, <2>4, <3>1, <3>2, WatchedKept
  <2>. QED  BY <1>0, <2>1, <2>2, <2>3, <2>4, HandlerKept
<1>5. ASSUME NEW t \in Tokens, RevokeEnrollment(a, t) PROVE RegistryInv'
  <2>1. /\ TablesMove /\ TablesInv' /\ HashesSame
        /\ \A j \in Ids : Row(j)' =>
             /\ Row(j) /\ server'[j].name = server[j].name
             /\ server'[j].agent = server[j].agent /\ server'[j].enabled = server[j].enabled
             /\ \/ server'[j].hash = server[j].hash
                \/ j = enrollment[t].id /\ server[j].hash = t
        /\ \A s \in Tokens : s # t => enrollment'[s] = enrollment[s]
    BY <1>5, RevokeEnrollmentTables
  <2>2. HoldersAgree'  BY <1>0, <2>1, NoNewHolder, HoldersKept
  <2>. PICK i : i = enrollment[t].id  OBVIOUS
  <2>3. admin[a].pc = "idle" /\ enrollment[t] # None  BY <1>5 DEF RevokeEnrollment
  <2>4. /\ \A b \in Admins : b # a => admin'[b] = admin[b]
        /\ i # None /\ Row(i) /\ server[i].hash = t =>
                admin'[a] = [pc |-> "disconnect", id |-> i, name |-> None]
        /\ ~(i # None /\ Row(i) /\ server[i].hash = t) => admin'[a] = admin[a]
    BY <1>5 DEF RevokeEnrollment, ThenDisconnect, Become, TypeOK
  <2>5. i \in Ids \cup {None}  BY <2>3, Shapes DEF EnrollmentRow
  <2>6. /\ admin'[a].pc \in {"idle", "disconnect"}
        /\ admin'[a].pc = "disconnect" => admin'[a].id = i /\ i \in Ids
    BY <2>3, <2>4, <2>5
  <2>7. ASSUME NEW c \in Conns, NEW j \in Ids, Registered(c, j), Row(j), Row(j)', Watched(c, j)
        PROVE  Watched(c, j)'
    <3>1. (Disconnects(j) => Disconnects(j)') /\ (Rereads(j) => Rereads(j)')
      BY <2>1, <2>3, <2>4, <2>7, OthersAct
    <3>2. CASE j = i /\ server[j].hash = t
      <4>1. Disconnects(j)'  BY <2>4, <2>7, <3>2, NoneIsApart, OthersAct
      <4>. QED  BY <1>0, <2>7, <4>1, WatchedByDisconnect
    <3>3. CASE ~(j = i /\ server[j].hash = t)
      <4>1. server'[j].hash = server[j].hash  BY <2>1, <2>7, <3>3
      <4>2. ASSUME conn[c].secret = t, ~Disconnects(j) PROVE FALSE
        <5>1. conn[c].pc \in Held /\ conn[c].id = j  BY <2>7, RegisteredConn DEF HubInv
        <5>2. i = j  BY <2>3, <2>7, <4>2, <5>1 DEF HubInv, ConnInv, AcceptedWith
        <5>3. server[j].hash \in Keys \X Hosts  BY <2>7, <3>3, <4>2, <5>2 DEF Watched
        <5>4. PICK k \in Keys, h \in Hosts : server[j].hash = Derived(k, h)
          BY <5>3 DEF Derived
        <5>5. hosts[h] = j  BY <2>7, <5>4 DEF TablesInv, RoutesKnown
        <5>. QED  BY <2>3, <2>5, <5>2, <5>5, NoneIsApart DEF TablesInv, RoutesKnown
      <4>3. ASSUME conn[c].secret \in Tokens, ~Disconnects(j)
            PROVE  enrollment'[conn[c].secret] = enrollment[conn[c].secret]
        BY <2>1, <4>2, <4>3
      <4>. QED  BY <1>0, <2>1, <2>7, <3>1, <4>1, <4>3, WatchedKept
    <3>. QED  BY <3>2, <3>3
  <2>. QED  BY <1>0, <2>1, <2>2, <2>3, <2>4, <2>6, <2>7, HandlerKept
<1>. QED  BY <1>1, <1>2, <1>3, <1>4, <1>5

\* A handler under the hub lock, or about to take it.
LEMMA HubHandlerKept ==
    ASSUME RegistryInv, TypeOK', NEW a \in Admins, NEW state, Become(a, state),
           state.pc \in {"idle", "drop"},
           UNCHANGED <<server, last, enrollment, issued, hosts, ses>>, ConnsSame,
           LockInv', PeersInv',
           \A c \in Conns, i \in Ids : Registered(c, i)' /\ Row(i) => Watched(c, i)'
    PROVE  RegistryInv'
<1>. USE DEF RegistryInv, HubInv
<1>1. TablesMove /\ TablesInv' /\ HashesSame  BY Unwritten
<1>2. SessionsSame  BY DEF SessionsSame
<1>3. HoldersAgree'  BY <1>1, <1>2, NoNewHolder, HoldersKept
<1>4. ConnInv'  BY <1>1, ConnKept
<1>5. RegisteredInv'  BY DEF RegisteredInv, Row
<1>6. admin'[a] = state /\ \A b \in Admins : b # a => admin'[b] = admin[b]  BY BecomeIs
<1>7. AdminInv'
  <2>1. ASSUME NEW b \in Admins
        PROVE  /\ admin'[b].pc \in {"disconnect", "rotate"} => admin'[b].id \in Ids
               /\ admin'[b].pc \in {"delete", "reread"} => admin'[b].name \in Names
    BY <1>6 DEF AdminInv
  <2>. QED  BY <2>1 DEF AdminInv
<1>8. SessionInv'  BY DEF SessionInv
<1>. QED  BY <1>1, <1>3, <1>4, <1>5, <1>7, <1>8

LEMMA SettingKept ==
    ASSUME RegistryInv, TypeOK', NEW a \in Admins,
           (\E k \in Keys : PutSelfRegistration(a, k)) \/ DisableSelfRegistration(a)
    PROVE  RegistryInv'
<1>. USE DEF RegistryInv, HubInv, dbVars, hubVars
<1>1. /\ admin[a].pc = "idle" /\ lock = None
      /\ UNCHANGED <<server, last, enrollment, issued, hosts, peers, conn, ses>>
  BY DEF PutSelfRegistration, DisableSelfRegistration
<1>2. ConnsSame  BY <1>1 DEF ConnsSame, ConnInv, AcceptedWith
<1>3. PeersInv'  BY <1>1 DEF PeersInv
<1>. PICK state : state = [pc |-> "drop", id |-> None, name |-> None]  OBVIOUS
<1>4. ASSUME lock' = a, Become(a, state) PROVE RegistryInv'
  <2>1. admin'[a] = state /\ \A b \in Admins : b # a => admin'[b] = admin[b]  BY <1>4, BecomeIs
  <2>2. LockInv'
    <3>1. \A c \in Conns : conn[c].pc # "locked"  BY <1>1, NoneIsApart DEF LockInv
    <3>2. \A b \in Admins : admin[b].pc # "drop"  BY <1>1, NoneIsApart DEF LockInv
    <3>3. a \notin Conns  BY RegistryAssumption
    <3>. QED  BY <1>1, <1>4, <2>1, <3>1, <3>2, <3>3 DEF LockInv
  <2>3. ASSUME NEW c \in Conns, NEW i \in Ids, Registered(c, i)', Row(i) PROVE Watched(c, i)'
    <3>1. Registered(c, i)  BY <1>1, <2>3 DEF Registered
    <3>2. Watched(c, i)  BY <2>3, <3>1 DEF RegisteredInv
    <3>3. (Disconnects(i) => Disconnects(i)') /\ (Rereads(i) => Rereads(i)')
      BY <1>1, <2>1, OthersAct
    <3>4. server' = server /\ enrollment' = enrollment /\ conn' = conn /\ lock' \in Admins
      BY <1>1, <1>4
    <3>. QED  BY <3>2, <3>3, <3>4, WatchedKept
  <2>. QED  BY <1>1, <1>2, <1>3, <1>4, <2>2, <2>3, HubHandlerKept
<1>5. ASSUME NEW k \in Keys, PutSelfRegistration(a, k), k = setting.key PROVE RegistryInv'
  <2>1. setting' = [key |-> k, enabled |-> TRUE] /\ UNCHANGED <<lock, admin>>
    BY <1>5 DEF PutSelfRegistration
  <2>2. TablesMove /\ TablesInv' /\ HashesSame  BY <1>1, Unwritten
  <2>3. SessionsSame  BY <1>1 DEF SessionsSame
  <2>4. HoldersAgree'  BY <1>2, <2>2, <2>3, NoNewHolder, HoldersKept
  <2>5. ASSUME NEW c \in Conns, NEW i \in Ids, Watched(c, i) PROVE Watched(c, i)'
    <3>1. (Disconnects(i) => Disconnects(i)') /\ (Rereads(i) => Rereads(i)')
      BY <1>1, <2>1, AdminSame
    <3>2. CASE conn[c].secret \in Keys
      <4>1. lock \notin Admins  BY <1>1, NoneIsApart
      <4>2. setting = [key |-> conn[c].secret, enabled |-> TRUE]
        BY <2>5, <3>2, <4>1 DEF Watched
      <4>3. setting' = setting  BY <1>5, <2>1, <4>2
      <4>4. server' = server /\ enrollment' = enrollment /\ conn' = conn /\ lock' = lock
        BY <1>1, <2>1
      <4>. QED  BY <2>5, <3>1, <4>3, <4>4, WatchedKept
    <3>3. CASE conn[c].secret \notin Keys
      <4>1. server' = server /\ enrollment' = enrollment /\ conn' = conn  BY <1>1
      <4>. QED  BY <2>5, <3>1, <3>3, <4>1 DEF Watched
    <3>. QED  BY <3>2, <3>3
  <2>. QED  BY <1>1, <2>1, <2>2, <2>4, <2>5, HandlerKept
<1>6. ASSUME NEW k \in Keys, PutSelfRegistration(a, k), k # setting.key PROVE RegistryInv'
  BY <1>4, <1>6 DEF PutSelfRegistration
<1>7. CASE DisableSelfRegistration(a)
  BY <1>4, <1>7 DEF DisableSelfRegistration
<1>. QED  BY <1>5, <1>6, <1>7

LEMMA DisconnectKept ==
    ASSUME RegistryInv, TypeOK', NEW a \in Admins, Disconnect(a)
    PROVE  RegistryInv'
<1>. USE DEF RegistryInv, HubInv, dbVars
<1>1. /\ admin[a].pc = "disconnect" /\ admin[a].id \in Ids /\ lock = None
      /\ Become(a, IdleAdmin) /\ UNCHANGED <<dbVars, lock, ses>> /\ IdleAdmin.pc = "idle"
  BY DEF Disconnect, AdminInv, IdleAdmin
<1>. PICK i \in Ids : i = admin[a].id  BY <1>1
<1>2. admin'[a] = IdleAdmin /\ \A b \in Admins : b # a => admin'[b] = admin[b]  BY <1>1, BecomeIs
<1>3. peers'[i] = None /\ \A j \in Ids : j # i => peers'[j] = peers[j]
  BY DEF Disconnect, TypeOK
<1>4. \A c \in Conns :
        \/ conn'[c] = conn[c]
        \/ /\ conn[c].pc \in {"serving", "closed"}
           /\ conn'[c] = [conn[c] EXCEPT !.pc = "closed"]
  <2>1. CASE peers[i] = None
    BY <2>1 DEF Disconnect
  <2>2. CASE peers[i] # None
    <3>. PICK p \in Conns : p = peers[i]  BY <2>2 DEF TypeOK
    <3>1. conn[p].pc \in {"serving", "closed"}  BY <2>2 DEF PeersInv
    <3>2. conn' = [conn EXCEPT ![p] = [@ EXCEPT !.pc = "closed"]]  BY <2>2 DEF Disconnect
    <3>. QED  BY <3>1, <3>2 DEF TypeOK
  <2>. QED  BY <2>1, <2>2
<1>5. \A c \in Conns :
        /\ conn'[c].secret = conn[c].secret /\ conn'[c].host = conn[c].host
        /\ conn'[c].id = conn[c].id /\ conn'[c].hash = conn[c].hash
        /\ \/ conn'[c].pc = conn[c].pc
           \/ conn[c].pc \in {"serving", "closed"} /\ conn'[c].pc = "closed"
        /\ conn'[c].missed = conn[c].missed
  <2>1. \A c \in Conns : conn[c] \in ConnState  BY Shapes
  <2>. QED  BY <1>4, <2>1 DEF ConnState
<1>6. ConnsSame  BY <1>5 DEF ConnsSame, ConnInv, AcceptedWith, Held
<1>7. LockInv'
  <2>1. \A c \in Conns : conn'[c].pc # "locked"  BY <1>1, <1>5, NoneIsApart DEF LockInv
  <2>2. \A b \in Admins : admin'[b].pc # "drop"  BY <1>1, <1>2, NoneIsApart DEF LockInv
  <2>. QED  BY <1>1, <2>1, <2>2, NoneIsApart DEF LockInv
<1>8. PeersInv'
  <2>. SUFFICES ASSUME NEW j \in Ids, peers'[j] # None
                PROVE  conn'[peers'[j]].pc \in {"serving", "closed"} /\ conn'[peers'[j]].id = j
    BY DEF PeersInv
  <2>1. peers'[j] = peers[j]  BY <1>3
  <2>2. conn[peers[j]].pc \in {"serving", "closed"} /\ conn[peers[j]].id = j
    BY <2>1 DEF PeersInv
  <2>3. peers[j] \in Conns  BY <2>1 DEF TypeOK
  <2>. QED  BY <1>5, <2>1, <2>2, <2>3
<1>9. ASSUME NEW c \in Conns, NEW j \in Ids, Registered(c, j)', Row(j) PROVE Watched(c, j)'
  <2>1. conn'[c].pc # "locked"  BY <1>1, <1>5, NoneIsApart DEF LockInv
  <2>2. j # i /\ Registered(c, j)  BY <1>3, <1>5, <1>9, <2>1, NoneIsApart DEF Registered
  <2>3. Watched(c, j)  BY <1>9, <2>2 DEF RegisteredInv
  <2>4. Disconnects(j) => Disconnects(j)'  BY <1>2, <2>2 DEF Disconnects
  <2>5. Rereads(j) => Rereads(j)'  BY <1>1, <1>2, OthersAct
  <2>6. server' = server /\ enrollment' = enrollment /\ setting' = setting /\ lock' = lock
    BY <1>1
  <2>. QED  BY <1>5, <2>3, <2>4, <2>5, <2>6, WatchedKept
<1>. QED  BY <1>1, <1>6, <1>7, <1>8, <1>9, HubHandlerKept

\* Connections are left out for which nobody reads the row any more.
LEMMA RereadFailsKept ==
    ASSUME RegistryInv, TypeOK', NEW a \in Admins, RereadFails(a)
    PROVE  RegistryInv'
<1>. USE DEF RegistryInv, HubInv, dbVars
<1>1. /\ admin[a].pc = "reread" /\ IdleAdmin.pc = "idle"
      /\ Become(a, IdleAdmin) /\ UNCHANGED <<dbVars, lock, peers, ses>>
  BY DEF RereadFails, IdleAdmin
<1>2. admin'[a] = IdleAdmin /\ \A b \in Admins : b # a => admin'[b] = admin[b]  BY <1>1, BecomeIs
<1>3. \A c \in Conns :
        /\ conn'[c].secret = conn[c].secret /\ conn'[c].host = conn[c].host
        /\ conn'[c].id = conn[c].id /\ conn'[c].hash = conn[c].hash
        /\ conn'[c].pc = conn[c].pc
        /\ ~conn'[c].missed => ~conn[c].missed
  <2>1. \A c \in Conns : conn[c] \in ConnState  BY Shapes
  <2>2. \A c \in Conns : conn'[c] = conn[c] \/ conn'[c] = [conn[c] EXCEPT !.missed = TRUE]
    BY DEF RereadFails
  <2>. QED  BY <2>1, <2>2 DEF ConnState
<1>4. ConnsSame  BY <1>3 DEF ConnsSame, ConnInv, AcceptedWith, Held
<1>5. LockInv'
  <2>1. \A b \in Admins : admin'[b].pc = "drop" <=> lock' = b  BY <1>1, <1>2 DEF LockInv
  <2>. QED  BY <1>1, <1>3, <2>1 DEF LockInv
<1>6. PeersInv'  BY <1>1, <1>3 DEF PeersInv, TypeOK
<1>7. ASSUME NEW c \in Conns, NEW j \in Ids, Registered(c, j)', Row(j) PROVE Watched(c, j)'
  <2>1. Registered(c, j)  BY <1>1, <1>3, <1>7 DEF Registered
  <2>2. Watched(c, j)  BY <1>7, <2>1 DEF RegisteredInv
  <2>3. Disconnects(j) => Disconnects(j)'  BY <1>1, <1>2, OthersAct
  <2>4. Rereads(j) => Rereads(j)' \/ server[j].enabled
    <3>1. CASE server[j].name = admin[a].name
      <4>1. conn[c].id = j  BY <2>1, RegisteredConn
      <4>2. ~server[j].enabled => conn'[c].missed
        <5>. SUFFICES ASSUME ~server[j].enabled PROVE conn'[c].missed  OBVIOUS
        <5>1. conn'[c] = [conn[c] EXCEPT !.missed = TRUE]
          BY <1>7, <3>1, <4>1 DEF RereadFails, Named
        <5>2. conn[c] \in ConnState  BY Shapes
        <5>. QED  BY <5>1, <5>2 DEF ConnState
      <4>. QED  BY <1>7, <4>2 DEF Registered
    <3>2. CASE server[j].name # admin[a].name
      BY <1>1, <1>2, <3>2 DEF Rereads
    <3>. QED  BY <3>1, <3>2
  <2>. QED  BY <1>1, <1>3, <2>2, <2>3, <2>4, WatchedKept
<1>. QED  BY <1>1, <1>4, <1>5, <1>6, <1>7, HubHandlerKept

LEMMA DisconnectRegisteredKept ==
    ASSUME RegistryInv, TypeOK', NEW a \in Admins, DisconnectRegistered(a)
    PROVE  RegistryInv'
<1>. USE DEF RegistryInv, HubInv, dbVars
<1>. DEFINE registered == {i \in Ids : \E h \in Hosts : hosts[h] = i}
<1>1. /\ admin[a].pc = "drop" /\ lock = a /\ lock' = None
      /\ Become(a, IdleAdmin) /\ UNCHANGED <<dbVars, ses>> /\ IdleAdmin.pc = "idle"
  BY DEF DisconnectRegistered, LockInv, IdleAdmin
<1>2. admin'[a] = IdleAdmin /\ \A b \in Admins : b # a => admin'[b] = admin[b]  BY <1>1, BecomeIs
<1>3. PICK ids \in {Ids} \cup SUBSET registered :
        /\ conn' = [c \in Conns |->
                        IF \E i \in ids : peers[i] = c
                        THEN [conn[c] EXCEPT !.pc = "closed"]
                        ELSE [conn[c] EXCEPT !.missed = @ \/ conn[c].id \in registered \ ids]]
        /\ peers' = [i \in Ids |-> IF i \in ids THEN None ELSE peers[i]]
  BY DEF DisconnectRegistered
<1>4. ASSUME NEW c \in Conns, ~conn'[c].missed, ~(\E i \in ids : peers[i] = c)
      PROVE  ~conn[c].missed /\ (\A h \in Hosts : hosts[h] = conn[c].id /\ conn[c].id \in Ids =>
                                    conn[c].id \in ids)
  <2>1. conn[c] \in ConnState  BY Shapes
  <2>2. conn'[c] = [conn[c] EXCEPT !.missed = conn[c].missed \/ conn[c].id \in registered \ ids]
    BY <1>3, <1>4
  <2>3. conn'[c].missed = (conn[c].missed \/ conn[c].id \in registered \ ids)
    BY <2>1, <2>2 DEF ConnState
  <2>. QED  BY <1>4, <2>3
<1>5. \A c \in Conns :
        /\ conn'[c].secret = conn[c].secret /\ conn'[c].host = conn[c].host
        /\ conn'[c].id = conn[c].id /\ conn'[c].hash = conn[c].hash
        /\ \/ conn'[c].pc = conn[c].pc
           \/ conn[c].pc \in {"serving", "closed"} /\ conn'[c].pc = "closed"
        /\ (\E i \in ids : peers[i] = c) \/ conn'[c].pc = conn[c].pc
  <2>1. \A c \in Conns : conn[c] \in ConnState  BY Shapes
  <2>. SUFFICES ASSUME NEW c \in Conns
                PROVE  /\ conn'[c].secret = conn[c].secret /\ conn'[c].host = conn[c].host
                       /\ conn'[c].id = conn[c].id /\ conn'[c].hash = conn[c].hash
                       /\ \/ conn'[c].pc = conn[c].pc
                          \/ conn[c].pc \in {"serving", "closed"} /\ conn'[c].pc = "closed"
                       /\ (\E i \in ids : peers[i] = c) \/ conn'[c].pc = conn[c].pc
    OBVIOUS
  <2>2. CASE \E i \in ids : peers[i] = c
    <3>1. conn[c].pc \in {"serving", "closed"}  BY <2>2, NoneIsApart DEF PeersInv
    <3>2. conn'[c] = [conn[c] EXCEPT !.pc = "closed"]  BY <1>3, <2>2
    <3>. QED  BY <2>1, <2>2, <3>1, <3>2 DEF ConnState
  <2>3. CASE ~(\E i \in ids : peers[i] = c)
    <3>1. PICK b : conn'[c] = [conn[c] EXCEPT !.missed = b]  BY <1>3, <2>3
    <3>. QED  BY <2>1, <3>1 DEF ConnState
  <2>. QED  BY <2>2, <2>3
<1>6. ConnsSame  BY <1>5 DEF ConnsSame, ConnInv, AcceptedWith, Held
<1>7. LockInv'
  <2>1. a \notin Conns  BY RegistryAssumption
  <2>2. \A c \in Conns : conn'[c].pc # "locked"  BY <1>1, <1>5, <2>1 DEF LockInv
  <2>3. \A b \in Admins : admin'[b].pc # "drop"  BY <1>1, <1>2 DEF LockInv
  <2>. QED  BY <1>1, <2>2, <2>3, NoneIsApart DEF LockInv
<1>8. PeersInv'
  <2>. SUFFICES ASSUME NEW j \in Ids, peers'[j] # None
                PROVE  conn'[peers'[j]].pc \in {"serving", "closed"} /\ conn'[peers'[j]].id = j
    BY DEF PeersInv
  <2>1. peers'[j] = peers[j]  BY <1>3
  <2>2. conn[peers[j]].pc \in {"serving", "closed"} /\ conn[peers[j]].id = j
    BY <2>1 DEF PeersInv
  <2>3. peers[j] \in Conns  BY <2>1 DEF TypeOK
  <2>. QED  BY <1>5, <2>1, <2>2, <2>3
<1>9. ASSUME NEW c \in Conns, NEW j \in Ids, Registered(c, j)', Row(j) PROVE Watched(c, j)'
  <2>1. a \notin Conns  BY RegistryAssumption
  <2>2. conn'[c].pc # "locked"  BY <1>1, <1>5, <2>1 DEF LockInv
  <2>3. j \notin ids /\ peers[j] = c  BY <1>3, <1>9, <2>2, NoneIsApart DEF Registered
  <2>4. \A i \in ids : peers[i] # c  BY <1>3, <2>3, NoneIsApart DEF PeersInv
  <2>5. ~conn'[c].missed  BY <1>9 DEF Registered
  <2>6. ~conn[c].missed /\ conn[c].id = j /\ \A h \in Hosts : hosts[h] # j
    BY <1>4, <2>3, <2>4, <2>5, NoneIsApart DEF PeersInv
  <2>7. Registered(c, j)  BY <2>3, <2>6 DEF Registered
  <2>8. Watched(c, j)  BY <1>9, <2>7 DEF RegisteredInv
  <2>9. (Disconnects(j) => Disconnects(j)') /\ (Rereads(j) => Rereads(j)')
    BY <1>1, <1>2, OthersAct
  <2>10. conn[c].secret \notin Keys
    <3>1. conn[c].pc \in Held /\ conn[c].host \in Hosts
      BY <2>7, RegisteredConn DEF ConnInv, AcceptedWith, Held
    <3>. QED  BY <1>9, <2>6, <3>1 DEF ConnInv, AcceptedWith
  <2>11. conn'[c].secret = conn[c].secret /\ server' = server /\ enrollment' = enrollment
    BY <1>1, <1>5
  <2>. QED  BY <2>8, <2>9, <2>10, <2>11 DEF Watched
<1>. QED  BY <1>1, <1>6, <1>7, <1>8, <1>9, HubHandlerKept

-----------------------------------------------------------------------------
(* The start of a task *)

\* The hash that was read and the hash of the agent name the same route.
LEMMA PeerOfRoute ==
    ASSUME RegistryInv, NEW s \in Clients, NEW c \in Conns, FindsPeer(s, c)
    PROVE  ses[s].read = ses[s].id /\ ses[s].read \in Ids
<1>. USE DEF RegistryInv, HubInv
<1>1. /\ ses[s].pc = "lookup" /\ ses[s].id \in Ids /\ ses[s].read \in Ids
      /\ peers[ses[s].id] = c /\ conn[c].hash = ses[s].hash
  BY DEF FindsPeer, SessionInv
<1>2. conn[c].pc \in Held /\ conn[c].id = ses[s].id
  BY <1>1, NoneIsApart DEF PeersInv, Held
<1>3. conn[c].hash \in Hashes  BY <1>2 DEF ConnInv, AcceptedWith
<1>4. Holds(ses[s].id, conn[c].hash)  BY <1>2 DEF Holds
<1>5. Holds(ses[s].read, conn[c].hash)  BY <1>1 DEF Holds
<1>. QED  BY <1>1, <1>3, <1>4, <1>5 DEF HoldersAgree

LEMMA SessionKept ==
    ASSUME RegistryInv, TypeOK', NEW s \in Clients, SessionStep(s)
    PROVE  RegistryInv'
<1>. USE DEF RegistryInv, HubInv, dbVars, hubVars
<1>0. ses[s] \in SessionState /\ UNCHANGED <<dbVars, hubVars, admin>>
  BY Shapes DEF SessionStep, Login, ReadsRoute, FindsPeer, Leaves
\* The state of the session after the step.
<1>1. /\ \A r \in Clients : r # s => ses'[r] = ses[r]
      /\ ses'[s].pc # "idle" => ses'[s].id \in Ids
      /\ ses'[s].pc \in {"lookup", "use"} =>
            /\ ses'[s].read \in Ids
            /\ \/ Row(ses'[s].read) /\ ses'[s].hash = server[ses'[s].read].hash
               \/ /\ ses[s].pc \in {"lookup", "use"}
                  /\ ses'[s].read = ses[s].read /\ ses'[s].hash = ses[s].hash
      /\ ses'[s].pc = "use" => ses'[s].read = ses'[s].id
  <2>1. ASSUME NEW i \in Ids, Login(s, i)
        PROVE  ses'[s].pc = "login" /\ ses'[s].id = i /\ \A r \in Clients : r # s => ses'[r] = ses[r]
    BY <2>1 DEF Login, IdleSession, TypeOK
  <2>2. ASSUME NEW i \in Ids, ReadsRoute(s, i)
        PROVE  /\ \A r \in Clients : r # s => ses'[r] = ses[r]
               /\ ses'[s].pc = "lookup" /\ ses'[s].id \in Ids
               /\ ses'[s].read = i /\ Row(i) /\ ses'[s].hash = server[i].hash
    <3>1. PICK new : new = [ses[s] EXCEPT !.pc = "lookup", !.read = i, !.hash = server[i].hash]
      OBVIOUS
    <3>2. new.pc = "lookup" /\ new.id = ses[s].id /\ new.read = i /\ new.hash = server[i].hash
      BY <1>0, <3>1 DEF SessionState
    <3>3. ses'[s] = new /\ \A r \in Clients : r # s => ses'[r] = ses[r]
      BY <2>2, <3>1 DEF ReadsRoute, TypeOK
    <3>4. Row(i) /\ ses[s].id \in Ids  BY <2>2 DEF ReadsRoute, Named, SessionInv
    <3>. QED  BY <3>2, <3>3, <3>4
  <2>3. ASSUME NEW c \in Conns, FindsPeer(s, c)
        PROVE  /\ \A r \in Clients : r # s => ses'[r] = ses[r]
               /\ ses'[s].pc = "use" /\ ses'[s].id = ses[s].id
               /\ ses'[s].read = ses[s].read /\ ses'[s].hash = ses[s].hash
               /\ ses[s].pc = "lookup" /\ ses[s].read = ses[s].id /\ ses[s].read \in Ids
    <3>1. PICK new : new = [ses[s] EXCEPT !.pc = "use", !.peer = c]
      OBVIOUS
    <3>2. new.pc = "use" /\ new.id = ses[s].id /\ new.read = ses[s].read /\ new.hash = ses[s].hash
      BY <1>0, <3>1 DEF SessionState
    <3>3. /\ ses'[s] = new /\ \A r \in Clients : r # s => ses'[r] = ses[r]
          /\ ses[s].pc = "lookup"
      BY <2>3, <3>1 DEF FindsPeer, TypeOK
    <3>4. ses[s].read = ses[s].id /\ ses[s].read \in Ids  BY <2>3, PeerOfRoute
    <3>. QED  BY <3>2, <3>3, <3>4
  <2>4. ASSUME Leaves(s)
        PROVE  ses'[s].pc = "idle" /\ \A r \in Clients : r # s => ses'[r] = ses[r]
    BY <2>4 DEF Leaves, IdleSession, TypeOK
  <2>5. CASE \E i \in Ids : Login(s, i)
    <3>. PICK i \in Ids : Login(s, i)  BY <2>5
    <3>. QED  BY <2>1
  <2>6. CASE \E i \in Ids : ReadsRoute(s, i)
    <3>. PICK i \in Ids : ReadsRoute(s, i)  BY <2>6
    <3>. QED  BY <2>2
  <2>7. CASE \E c \in Conns : FindsPeer(s, c)
    <3>. PICK c \in Conns : FindsPeer(s, c)  BY <2>7
    <3>. QED  BY <2>3
  <2>8. CASE Leaves(s)
    BY <2>4, <2>8
  <2>. QED  BY <2>5, <2>6, <2>7, <2>8 DEF SessionStep
<1>2. TablesMove /\ TablesInv' /\ HashesSame  BY <1>0, Unwritten
<1>3. HoldersAgree'
  <2>1. ASSUME NEW i \in Ids, NEW x \in Hashes, Holds(i, x)' PROVE Holds(i, x)
    <3>1. CASE Row(i)' /\ server'[i].hash = x
      BY <1>0, <3>1 DEF Holds, Row
    <3>2. CASE \E c \in Conns : conn'[c].pc \in Held /\ conn'[c].id = i /\ conn'[c].hash = x
      BY <1>0, <3>2 DEF Holds
    <3>3. ASSUME NEW r \in Clients, ses'[r].pc \in {"lookup", "use"}, ses'[r].read = i, ses'[r].hash = x
          PROVE  Holds(i, x)
      BY <1>1, <3>3 DEF Holds
    <3>. QED  BY <2>1, <3>1, <3>2, <3>3 DEF Holds
  <2>. QED  BY <1>2, <2>1, HoldersKept
<1>4. ConnsSame  BY <1>0 DEF ConnsSame, ConnInv, AcceptedWith
<1>5. ConnInv'  BY <1>2, <1>4, ConnKept
<1>6. LockInv' /\ PeersInv' /\ AdminInv'  BY <1>0 DEF LockInv, PeersInv, AdminInv
<1>7. RegisteredInv'
  <2>. SUFFICES ASSUME NEW c \in Conns, NEW i \in Ids, Registered(c, i)', Row(i)'
                PROVE  Watched(c, i)'
    BY DEF RegisteredInv
  <2>1. Registered(c, i) /\ Row(i)  BY <1>0 DEF Registered, Row
  <2>2. Watched(c, i)  BY <2>1 DEF RegisteredInv
  <2>3. (Disconnects(i) => Disconnects(i)') /\ (Rereads(i) => Rereads(i)')
    BY <1>0, AdminSame
  <2>4. /\ setting' = setting /\ lock' = lock /\ conn' = conn
        /\ server' = server /\ enrollment' = enrollment
    BY <1>0
  <2>. QED  BY <2>2, <2>3, <2>4, WatchedKept
<1>8. SessionInv'  BY <1>1 DEF SessionInv
<1>. QED  BY <1>2, <1>3, <1>5, <1>6, <1>7, <1>8

-----------------------------------------------------------------------------
(* The invariant *)

LEMMA InitRegistry == Init => RegistryInv
<1>. SUFFICES ASSUME Init PROVE RegistryInv  OBVIOUS
<1>. USE DEF Init
<1>0. /\ FreeConn.pc = "free" /\ IdleAdmin.pc = "idle" /\ IdleSession.pc = "idle"
  BY DEF FreeConn, IdleAdmin, IdleSession
<1>1. TypeOK
  <2>1. FreeConn \in ConnState /\ IdleAdmin \in AdminState /\ IdleSession \in SessionState
    BY DEF FreeConn, ConnState, IdleAdmin, AdminState, IdleSession, SessionState
  <2>2. last \in 0..MaxServers  BY RegistryAssumption
  <2>. QED  BY <2>1, <2>2 DEF TypeOK
<1>2. TablesInv
  BY NoneIsApart DEF TablesInv, IdsUsed, NamesApart, RoutesKnown, Row
<1>3. HoldersAgree
  <2>1. ASSUME NEW i \in Ids, NEW x \in Hashes PROVE ~Holds(i, x)
    BY <1>0 DEF Holds, Row, Held
  <2>. QED  BY <2>1 DEF HoldersAgree
<1>4. LockInv  BY <1>0, NoneIsApart DEF LockInv
<1>5. ConnInv  BY <1>0 DEF ConnInv, AcceptedWith, Held
<1>6. PeersInv /\ RegisteredInv  BY <1>0 DEF PeersInv, RegisteredInv, Row
<1>7. AdminInv /\ SessionInv  BY <1>0 DEF AdminInv, SessionInv
<1>. QED  BY <1>1, <1>2, <1>3, <1>4, <1>5, <1>6, <1>7 DEF RegistryInv, HubInv

LEMMA RegistryStep == RegistryInv /\ [Next]_vars => RegistryInv'
<1>. SUFFICES ASSUME RegistryInv, [Next]_vars PROVE RegistryInv'  OBVIOUS
<1>0. TypeOK'  BY TypeStep DEF RegistryInv, HubInv
<1>1. ASSUME NEW c \in Conns, ConnStep(c) PROVE RegistryInv'
  BY <1>0, <1>1, ConnStepKept, ResolveStepKept DEF ConnStep
<1>2. ASSUME NEW a \in Admins, EditServer(a) PROVE RegistryInv'
  BY <1>0, <1>2, EditServerKept
<1>3. ASSUME NEW a \in Admins, EditCredential(a) PROVE RegistryInv'
  BY <1>0, <1>3, EditCredentialKept, SettingKept, DisconnectRegisteredKept DEF EditCredential
<1>4. ASSUME NEW a \in Admins, Disconnect(a) PROVE RegistryInv'
  BY <1>0, <1>4, DisconnectKept
<1>5. ASSUME NEW s \in Clients, SessionStep(s) PROVE RegistryInv'
  BY <1>0, <1>5, SessionKept
<1>7. ASSUME NEW a \in Admins, RereadFails(a) PROVE RegistryInv'
  BY <1>0, <1>7, RereadFailsKept
<1>6. CASE UNCHANGED vars
  <2>1. UNCHANGED <<server, last, enrollment, issued, setting, hosts, lock, peers, conn, admin, ses>>
    BY <1>6 DEF vars, dbVars, hubVars
  <2>2. TablesInv'  BY <2>1, Unwritten DEF RegistryInv
  <2>3. HoldersAgree'
    BY <2>1 DEF RegistryInv, HoldersAgree, Holds, Owned, Row, Spent
  <2>4. LockInv' /\ PeersInv' /\ AdminInv' /\ SessionInv'
    BY <2>1 DEF RegistryInv, HubInv, LockInv, PeersInv, AdminInv, SessionInv
  <2>5. ConnInv'  BY <2>1 DEF RegistryInv, HubInv, ConnInv, AcceptedWith, Row
  <2>6. RegisteredInv'
    BY <2>1 DEF RegistryInv, HubInv, RegisteredInv, Registered, Watched, Row, Disconnects, Rereads
  <2>. QED  BY <1>0, <2>2, <2>3, <2>4, <2>5, <2>6 DEF RegistryInv, HubInv
<1>. QED  BY <1>1, <1>2, <1>3, <1>4, <1>5, <1>6, <1>7 DEF Next

LEMMA RegistryAlways == Spec => []RegistryInv
  BY InitRegistry, RegistryStep, PTL DEF Spec

-----------------------------------------------------------------------------
(* What it gives *)

\* Every table and every local variable of ServeHTTP, of the handlers and of the sessions has
\* the shape the code gives it.
THEOREM TypeCorrect == Spec => []TypeOK
  BY RegistryAlways, PTL DEF RegistryInv

\* resolveAgent finds at most one route for a hash: authenticateAgent never has to choose.
THEOREM OneRoutePerHash == Spec => []HashIdentifiesRoute
<1>1. RegistryInv => HashIdentifiesRoute
  <2>. SUFFICES ASSUME RegistryInv, NEW i \in Ids, NEW j \in Ids, Row(i), Row(j),
                       server[i].hash # None, server[i].hash = server[j].hash
                PROVE  i = j
    BY DEF HashIdentifiesRoute
  <2>1. server[i].hash \in Hashes  BY Shapes DEF RegistryInv, ServerRow
  <2>2. Holds(i, server[i].hash) /\ Holds(j, server[i].hash)  BY DEF Holds
  <2>. QED  BY <2>1, <2>2 DEF RegistryInv, HoldersAgree
<1>. QED  BY <1>1, RegistryAlways, PTL

\* agentSession: the agent that gets the task serves the route found enabled for it.
THEOREM TaskOnItsRoute == Spec => []SameRoute
<1>1. RegistryInv => SameRoute  BY DEF RegistryInv, SessionInv, SameRoute
<1>. QED  BY <1>1, RegistryAlways, PTL

\* AgentHub: when the handlers that disable, change, rotate or revoke have returned, the agents
\* that are registered are those whose credential is still good and those that a handler left
\* out because it could not read the database.
THEOREM RevocationHolds == Spec => []RevokedIsDisconnected
<1>1. RegistryInv => RevokedIsDisconnected
  <2>. SUFFICES ASSUME RegistryInv, NEW i \in Ids, peers[i] # None, Row(i), lock = None,
                       ~Pending(i)
                PROVE  Authorised(peers[i], i) \/ conn[peers[i]].missed
    BY DEF RevokedIsDisconnected
  <2>. PICK c \in Conns : c = peers[i]  BY DEF RegistryInv, TypeOK
  <2>1. conn[c].missed \/ Watched(c, i)
    BY DEF RegistryInv, HubInv, RegisteredInv, Registered
  <2>2. ~Disconnects(i) /\ ~Rereads(i)  BY DEF Pending, Disconnects, Rereads
  <2>3. lock \notin Admins  BY NoneIsApart
  <2>. QED  BY <2>1, <2>2, <2>3 DEF Watched, Authorised
<1>. QED  BY <1>1, RegistryAlways, PTL

\* The host name of a deleted self-registered route stays blocked: resolveAgent creates no row
\* for it with the shared key.
THEOREM DeletionLasts == Spec => DeletedStaysDeleted
<1>. DEFINE Step == \A h \in Hosts : hosts[h] = Deleted =>
        /\ hosts'[h] = Deleted
        /\ \A i \in Ids : Row(i)' => server'[i].hash \notin Keys \X {h}
<1>1. RegistryInv /\ RegistryInv' /\ [Next]_vars => Step
  <2>. SUFFICES ASSUME RegistryInv, RegistryInv', [Next]_vars, NEW h \in Hosts, hosts[h] = Deleted
                PROVE  /\ hosts'[h] = Deleted
                       /\ \A i \in Ids : Row(i)' => server'[i].hash \notin Keys \X {h}
    OBVIOUS
  <2>1. hosts'[h] = Deleted
    <3>1. ASSUME NEW c \in Conns, Resolve(c) PROVE hosts'[h] = Deleted
      BY <3>1, NoneIsApart
         DEF Resolve, ClaimToken, Reconnects, FirstRegistration, RegistryInv, TypeOK
    <3>2. ASSUME NEW a \in Admins, DeleteWrites(a) PROVE hosts'[h] = Deleted
      BY <3>2 DEF DeleteWrites
    <3>3. CASE UNCHANGED hosts
      BY <3>3
    <3>4. (\E c \in Conns : Resolve(c)) \/ (\E a \in Admins : DeleteWrites(a)) \/ UNCHANGED hosts
      <4>1. ASSUME NEW c \in Conns, ConnStep(c) PROVE Resolve(c) \/ UNCHANGED hosts
        BY <4>1 DEF ConnStep, Connect, ResolveFails, Install, Ends, Unregister, dbVars
      <4>2. ASSUME NEW a \in Admins, EditServer(a) PROVE DeleteWrites(a) \/ UNCHANGED hosts
        BY <4>2 DEF EditServer, CreateServer, UpdateServer, DeleteReads, SetServerEnabled,
                    SetEnabledReads, TestServer, dbVars
      <4>3. ASSUME NEW a \in Admins, EditCredential(a) \/ Disconnect(a) PROVE UNCHANGED hosts
        BY <4>3 DEF EditCredential, RotateReads, RotateWrites, RotateFails, CreateEnrollment,
                    RevokeEnrollment, PutSelfRegistration, DisableSelfRegistration,
                    DisconnectRegistered, Disconnect, dbVars
      <4>6. ASSUME NEW a \in Admins, RereadFails(a) PROVE UNCHANGED hosts
        BY <4>6 DEF RereadFails, dbVars
      <4>4. ASSUME NEW s \in Clients, SessionStep(s) PROVE UNCHANGED hosts
        BY <4>4 DEF SessionStep, Login, ReadsRoute, FindsPeer, Leaves, dbVars
      <4>5. CASE UNCHANGED vars
        BY <4>5 DEF vars, dbVars
      <4>. QED  BY <4>1, <4>2, <4>3, <4>4, <4>5, <4>6 DEF Next
    <3>. QED  BY <3>1, <3>2, <3>3, <3>4
  <2>2. ASSUME NEW i \in Ids, Row(i)', server'[i].hash \in Keys \X {h} PROVE FALSE
    <3>1. PICK k \in Keys : server'[i].hash = Derived(k, h)  BY <2>2 DEF Derived
    <3>2. hosts'[h] = i  BY <2>2, <3>1 DEF RegistryInv, TablesInv, RoutesKnown, Derived
    <3>. QED  BY <2>1, <3>2, NoneIsApart DEF Deleted
  <2>. QED  BY <2>1, <2>2
<1>2. RegistryInv /\ RegistryInv' /\ [Next]_vars => [Step]_vars  BY <1>1
<1>. QED  BY <1>2, RegistryAlways, PTL DEF Spec, DeletedStaysDeleted
=============================================================================
