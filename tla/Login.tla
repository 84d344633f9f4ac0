-------------------------------- MODULE Login --------------------------------
(***************************************************************************)
(* SSH logins on the tables of CredentialStore: the authentication callback *)
(* resolves the login text to a route and compares the client credentials  *)
(* of that route; handleConn then resolves the text a second time and dials *)
(* what it finds. In between, administrators change the tables.            *)
(*                                                                         *)
(* Every statement takes a connection of the database pool. ResolveServer  *)
(* keeps the rows of its second query open while it runs another statement. *)
(* A login text is a sequence of characters.                               *)
(***************************************************************************)
EXTENDS CredentialStore, Sequences

CONSTANTS
    Logins,     \* SSH connections that log in at the same time
    Users,      \* the login texts they use
    Text,       \* the text of a name, without ${PORT}
    PortMin,    \* port_min and port_max of a name, for a dynamic one
    PortMax,
    PoolSize    \* db.SetMaxOpenConns (8 in the code)

ASSUME LoginAssumption ==
    /\ Users \subseteq Seq(STRING)
    /\ Text \in [Names -> Seq(STRING)]
    /\ \A n, m \in Names : (n \in DynamicNames <=> m \in DynamicNames) /\ Text[n] = Text[m]
                            => n = m
    /\ PortMin \in [DynamicNames -> Nat \ {0}] /\ PortMax \in [DynamicNames -> Nat]
    /\ PoolSize \in Nat \ {0}

VARIABLES
    disabled,   \* servers with enabled = 0
    login       \* per connection: the callback, then handleConn

vars == <<storeVars, disabled, login>>

-----------------------------------------------------------------------------
(* strconv *)

Digits == <<"0", "1", "2", "3", "4", "5", "6", "7", "8", "9">>
IsDigit(c) == \E i \in 1..10 : Digits[i] = c
DigitOf(c) == (CHOOSE i \in 1..10 : Digits[i] = c) - 1

\* A text that is not a number is no port at all; a sign does not come back from Itoa.
Atoi(text) ==
    LET value[i \in 0..Len(text)] ==
            IF i = 0 THEN 0 ELSE 10 * value[i - 1] + DigitOf(text[i])
    IN  IF text # <<>> /\ \A i \in 1..Len(text) : IsDigit(text[i])
        THEN value[Len(text)] ELSE None

Itoa[n \in Nat] ==
    IF n < 10 THEN <<Digits[n + 1]>> ELSE Append(Itoa[n \div 10], Digits[(n % 10) + 1])

-----------------------------------------------------------------------------
(* ResolveServer *)

FixedNames == [user \in Users |-> {n \in Names \ DynamicNames : Text[n] = user}]

\* The fixed route of the text, if there is one.
FixedRoutes(user) == UNION {Named(n) : n \in FixedNames[user]}

\* What follows the prefix of the rule n in the text.
PortText(n, user) == SubSeq(user, Len(Text[n]) + 1, Len(user))

\* Mutant of Matches: leading zeros are accepted.
MatchesLoosely(n, user) ==
    LET port == Atoi(PortText(n, user)) IN
    /\ SubSeq(user, 1, Len(Text[n])) = Text[n]
    /\ port # None
    /\ port \in PortMin[n]..PortMax[n]

\* The text is the prefix of the rule and the decimal form of a port that it allows.
Matches(n, user) ==
    LET port == Atoi(PortText(n, user)) IN
    /\ Len(Text[n]) <= Len(user) /\ SubSeq(user, 1, Len(Text[n])) = Text[n]
    /\ port # None
    /\ Itoa[port] = PortText(n, user)
    /\ port \in PortMin[n]..PortMax[n]

Rules == [user \in Users |-> {n \in DynamicNames : Matches(n, user)}]

Candidates(user) == UNION {Named(n) : n \in Rules[user]}

\* ORDER BY LENGTH(proxy_user) DESC: the candidate with the longest prefix.
DynamicRoutes(user) ==
    {s \in Candidates(user) : \A t \in Candidates(user) :
        Len(Text[servers[s].name]) >= Len(Text[servers[t].name])}

\* What the two queries would find if nothing changed between them.
Routes(user) == IF FixedRoutes(user) # {} THEN FixedRoutes(user) ELSE DynamicRoutes(user)

\* The answers to the two queries.
Answers(user) == <<FixedRoutes(user), DynamicRoutes(user)>>

-----------------------------------------------------------------------------
(* The connections. pass tells the callback's use of ResolveServer from that of      *)
(* handleConn; server is the id of the row the current pass has read.                *)

Password == [kind : {"password"}, secret : Secrets]

LoginState ==
    [pc : {"idle", "fixed", "dynamic", "finish", "keys", "open"},
     pass : {"auth", "conn"}, user : Users \cup {None}, auth : Password \cup {None},
     server : ServerIds \cup {None}, cred : CredIds \cup {None}, enabled : BOOLEAN,
     held : BOOLEAN,                    \* the rows of the second query are open
     granted : SUBSET ServerIds,        \* history: the route, if its password was granted it
     moved : BOOLEAN]                   \* history: the routes of its text have changed

NoLogin ==
    [pc |-> "idle", pass |-> "auth", user |-> None, auth |-> None, server |-> None,
     cred |-> None, enabled |-> FALSE, held |-> FALSE, granted |-> {}, moved |-> FALSE]

\* The tables and every connection have their shape.
TypeOK ==
    /\ StoreTypeOK
    /\ disabled \subseteq ServerIds
    /\ login \in [Logins -> LoginState]

Holding == {l \in Logins : login[l].held}
FreeConn == Cardinality(Holding) < PoolSize

\* Every connection of the pool is held by a login that waits for another one.
Stuck == Cardinality({l \in Holding : login[l].pc = "finish"}) >= PoolSize

Becomes(l, state) == login' = [login EXCEPT ![l] = state]
OnlyLogin == UNCHANGED <<storeVars, disabled>>

\* A client connects with a login text and a password; the callback for public keys takes
\* the same steps.
Connect(l) ==
    /\ login[l].pc = "idle"
    /\ \E u \in Users, a \in Password :
        Becomes(l, [NoLogin EXCEPT !.pc = "fixed", !.user = u, !.auth = a])
    /\ OnlyLogin

\* Mutant of Scanned: the id is not among the columns.
ScannedNoId(l, s, held) ==
    [login[l] EXCEPT !.pc = "finish", !.server = 0, !.cred = servers[s].cred,
                     !.enabled = s \notin disabled, !.held = held]

\* scanServer: the copy of the row a query has found.
Scanned(l, s, held) ==
    [login[l] EXCEPT !.pc = "finish", !.server = s, !.cred = servers[s].cred,
                     !.enabled = s \notin disabled, !.held = held]

\* The first query.
QueryFixed(l) ==
    /\ login[l].pc = "fixed"
    /\ FreeConn
    /\ IF FixedRoutes(login[l].user) = {}
       THEN Becomes(l, [login[l] EXCEPT !.pc = "dynamic"])
       ELSE \E s \in FixedRoutes(login[l].user) : Becomes(l, Scanned(l, s, FALSE))
    /\ OnlyLogin

\* The second query: its rows stay open until ResolveServer returns.
QueryDynamic(l) ==
    /\ login[l].pc = "dynamic"
    /\ FreeConn
    /\ IF DynamicRoutes(login[l].user) = {}
       THEN Becomes(l, NoLogin)
       ELSE \E s \in DynamicRoutes(login[l].user) : Becomes(l, Scanned(l, s, TRUE))
    /\ OnlyLogin

\* The credential of the server is missing, or the server disabled: no login.
Unusable(l) == ~login[l].enabled \/ (login[l].cred # None /\ creds[login[l].cred] = None)

\* Mutant of Finish: the rows of a login that is refused are not closed.
FinishLeaks(l) ==
    /\ login[l].pc = "finish"
    /\ FreeConn
    /\ Becomes(l, IF Unusable(l) THEN [NoLogin EXCEPT !.held = login[l].held]
                  ELSE [login[l] EXCEPT !.pc = IF login[l].pass = "auth" THEN "keys" ELSE "open",
                                        !.cred = None, !.enabled = FALSE, !.held = FALSE])
    /\ OnlyLogin

\* finishResolvedServer, with a connection of its own; then ResolveServer returns.
Finish(l) ==
    /\ login[l].pc = "finish"
    /\ FreeConn
    /\ Becomes(l, IF Unusable(l) THEN NoLogin
                  ELSE [login[l] EXCEPT !.pc = IF login[l].pass = "auth" THEN "keys" ELSE "open",
                                        !.cred = None, !.enabled = FALSE, !.held = FALSE])
    /\ OnlyLogin

\* Mutant of Matching: every client credential is tried.
MatchingAny(l) == {c \in ClientIds : clients[c] = login[l].auth}

\* The client credentials of the route that match.
Matching(l) == {c \in ClientIds : <<login[l].server, c>> \in grants /\ clients[c] = login[l].auth}

\* The route, if some client credential with this password is granted to it.
Granted(l) == {login[l].server} \cap {g[1] : g \in {h \in grants : clients[h[2]] = login[l].auth}}

\* ListClientCredentialsForServerID and the comparison; handleConn goes on.
CompareKeys(l) ==
    /\ login[l].pc = "keys"
    /\ FreeConn
    /\ Becomes(l, IF Matching(l) = {} THEN NoLogin
                  ELSE [login[l] EXCEPT !.pc = "fixed", !.pass = "conn",
                                        !.granted = Granted(l),
                                        !.server = None, !.auth = None])
    /\ OnlyLogin

\* The target cannot be dialled, or the connection ends.
Close(l) ==
    /\ login[l].pc = "open"
    /\ Becomes(l, NoLogin)
    /\ OnlyLogin

LoginStep(l) ==
    QueryFixed(l) \/ QueryDynamic(l) \/ Finish(l) \/ CompareKeys(l)

-----------------------------------------------------------------------------
(* The handlers that change what a login reads, each in one statement here.          *)

\* SetServerEnabled
SetServerEnabled ==
    /\ \E s \in ServerIds :
        /\ Server(s)
        /\ disabled' \in {disabled \cup {s}, disabled \ {s}}
    /\ UNCHANGED storeVars

Change ==
    \/ \E r \in Requests :
        /\ UpsertPlain(r) \/ DeleteServer(r) \/ BulkClientCredentials(r)
        /\ disabled' = {s \in disabled : servers'[s] # None}
    \/ SetServerEnabled

\* The login has read a route and has not dialled yet.
HasRead(l) == login[l].pc # "open" /\ (login[l].pc = "fixed" => login[l].pass = "conn")

\* A login does not look at connection_type until it is through: all servers are SSH
\* servers here. A change marks the logins for whose text a query now answers differently.
Administrator ==
    /\ FreeConn
    /\ Change
    /\ \A s \in ServerIds : servers'[s] # None => servers'[s].type = "ssh"
    /\ <<servers, grants, disabled>>' # <<servers, grants, disabled>>
    /\ LET changed == {u \in Users : Answers(u)' # Answers(u)} IN
       login' = IF changed = {} THEN login
                ELSE [l \in Logins |-> IF login[l].user \in changed /\ HasRead(l)
                                       THEN [login[l] EXCEPT !.moved = TRUE] ELSE login[l]]

\* SSH servers of any names, with no credential or with one that has been deleted under
\* them, and client credentials that are not granted yet.
Init ==
    /\ servers \in [ServerIds -> ServerRow]
    /\ \A s, t \in ServerIds : s # t => servers[s].name # servers[t].name
    /\ \A s \in ServerIds : servers[s].type = "ssh"
    /\ creds = [c \in CredIds |-> None]
    /\ clients \in [ClientIds -> Password]
    /\ grants = {}
    /\ last = [server |-> MaxServers, cred |-> MaxCreds, client |-> MaxClients]
    /\ req = [r \in Requests |-> Idle]
    /\ overlapped = {}
    /\ disabled = {}
    /\ login = [l \in Logins |-> NoLogin]

Next == (\E l \in Logins : Connect(l) \/ LoginStep(l) \/ Close(l)) \/ Administrator

Spec == Init /\ [][Next]_vars

\* Goroutines keep running; clients and administrators may do nothing.
FairSpec == Spec /\ \A l \in Logins : WF_vars(LoginStep(l))

-----------------------------------------------------------------------------
\* A login text leads to one route at most, whatever rules overlap, and two texts never
\* to the same port of one dynamic route: the text in the audit log identifies the target.
OneTarget ==
    /\ \A u \in Users : Cardinality(Routes(u)) <= 1
    /\ \A u, v \in Users : \A s \in DynamicRoutes(u) \cap DynamicRoutes(v) :
        Atoi(PortText(servers[s].name, u)) = Atoi(PortText(servers[s].name, v)) => u = v

\* A connection is dialled only to a server that its password was granted when it was
\* compared, unless the routes of its login text were changed while it logged in.
DialledAsGranted ==
    \A l \in Logins : login[l].pc = "open" /\ ~login[l].moved =>
        login[l].server \in login[l].granted

\* A login ends, unless as many logins as the pool has connections hold one each and wait
\* for a second one; no refused login keeps a connection.
LoginEnds ==
    \A l \in Logins : login[l].pc = "fixed" ~> login[l].pc \in {"idle", "open"} \/ Stuck
=============================================================================
