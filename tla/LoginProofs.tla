------------------------------ MODULE LoginProofs ------------------------------
(***************************************************************************)
(* Proofs about Login, for any tables, login texts, names, number of       *)
(* logins and size of the pool.                                            *)
(***************************************************************************)
EXTENDS Login, CredentialStoreProofs, SequenceTheorems, FiniteSetTheorems

-----------------------------------------------------------------------------
(* The invariant *)

\* UNIQUE(proxy_user)
NamesUnique ==
    \A s, t \in ServerIds :
        Server(s) /\ Server(t) /\ servers[s].name = servers[t].name => s = t

\* What a login with the text u has found so far is what a query would find now.
Current(l, u) ==
    login[l].user = u /\ ~login[l].moved =>
        /\ login[l].pc = "dynamic" => FixedRoutes(u) = {}
        /\ login[l].pc \in {"finish", "keys"} => login[l].server \in Routes(u)
        /\ login[l].pass = "conn" /\ login[l].pc # "open" =>
            login[l].granted # {} /\ login[l].granted \subseteq Routes(u)
        /\ login[l].pc = "open" => login[l].server \in login[l].granted

LoginsInv ==
    \A l \in Logins :
        /\ login[l].pc # "idle" => login[l].user \in Users
        /\ login[l].pc = "idle" => login[l].pass = "auth"
        /\ \A u \in Users : Current(l, u)

LoginInv == TypeOK /\ NamesUnique /\ LoginsInv

-----------------------------------------------------------------------------
(* ResolveServer *)

\* At most one row has a name.
LEMMA NamedOnce ==
    ASSUME NamesUnique, NEW n, NEW s \in Named(n), NEW t \in Named(n) PROVE s = t
BY DEF NamesUnique, Named

LEMMA FixedOnce ==
    ASSUME NamesUnique, NEW u \in Users, NEW s \in FixedRoutes(u), NEW t \in FixedRoutes(u)
    PROVE  s = t
<1>1. PICK n \in Names \ DynamicNames : Text[n] = u /\ s \in Named(n)
    BY DEF FixedRoutes, FixedNames
<1>2. PICK m \in Names \ DynamicNames : Text[m] = u /\ t \in Named(m)
    BY DEF FixedRoutes, FixedNames
<1>3. n = m
    BY <1>1, <1>2, LoginAssumption
<1> QED BY <1>1, <1>2, <1>3, NamedOnce

LEMMA CandidateRule ==
    ASSUME NEW u \in Users, NEW s \in DynamicRoutes(u)
    PROVE  /\ s \in ServerIds /\ Server(s)
           /\ servers[s].name \in DynamicNames /\ Matches(servers[s].name, u)
           /\ s \in Named(servers[s].name) /\ s \in Candidates(u)
<1>1. PICK n \in Rules[u] : s \in Named(n)
    BY DEF DynamicRoutes, Candidates
<1>2. n \in DynamicNames /\ Matches(n, u)
    BY <1>1 DEF Rules
<1> QED BY <1>1, <1>2 DEF Named, DynamicRoutes, Candidates

\* Of the rules that match a text, those with a longest prefix are one rule.
LEMMA DynamicOnce ==
    ASSUME NamesUnique, NEW u \in Users, NEW s \in DynamicRoutes(u), NEW t \in DynamicRoutes(u)
    PROVE  s = t
<1> DEFINE n == servers[s].name
           m == servers[t].name
<1>1. /\ n \in DynamicNames /\ s \in Named(n) /\ s \in Candidates(u) /\ Matches(n, u)
      /\ m \in DynamicNames /\ t \in Named(m) /\ t \in Candidates(u) /\ Matches(m, u)
    BY CandidateRule
<1>2. Len(Text[n]) >= Len(Text[m]) /\ Len(Text[m]) >= Len(Text[n])
    BY <1>1 DEF DynamicRoutes
<1>3. Text[n] \in Seq(STRING) /\ Text[m] \in Seq(STRING)
    BY <1>1, LoginAssumption, StoreAssumption
<1>4. Len(Text[n]) = Len(Text[m])
    BY <1>2, <1>3, LenProperties
<1>5. Text[n] = Text[m]
    BY <1>1, <1>4 DEF Matches
<1>6. n = m
    BY <1>1, <1>5, LoginAssumption, StoreAssumption
<1> QED BY <1>1, <1>6, NamedOnce

LEMMA RouteOnce ==
    ASSUME NamesUnique, NEW u \in Users, NEW s \in Routes(u), NEW t \in Routes(u)
    PROVE  s = t
BY FixedOnce, DynamicOnce DEF Routes

\* A text is its prefix and what follows it.
LEMMA SameText ==
    ASSUME NEW u \in Seq(STRING), NEW v \in Seq(STRING), NEW k \in Nat,
           k <= Len(u), k <= Len(v),
           SubSeq(u, 1, k) = SubSeq(v, 1, k),
           SubSeq(u, k + 1, Len(u)) = SubSeq(v, k + 1, Len(v))
    PROVE  u = v
<1>1. Len(u) \in Nat /\ Len(v) \in Nat
    BY LenProperties
<1>2. Len(SubSeq(u, k + 1, Len(u))) = Len(u) - k /\ Len(SubSeq(v, k + 1, Len(v))) = Len(v) - k
    BY <1>1
<1>3. Len(u) = Len(v)
    BY <1>1, <1>2
<1>4. ASSUME NEW i \in 1..Len(u) PROVE u[i] = v[i]
    <2>1. CASE i <= k
        <3>1. SubSeq(u, 1, k)[i] = u[i] /\ SubSeq(v, 1, k)[i] = v[i]
            BY <1>1, <2>1
        <3> QED BY <3>1
    <2>2. CASE i > k
        <3>1. i - k \in 1..(Len(u) - k)
            BY <1>1, <2>2
        <3>2. /\ SubSeq(u, k + 1, Len(u))[i - k] = u[i]
              /\ SubSeq(v, k + 1, Len(v))[i - k] = v[i]
            BY <1>1, <1>3, <2>2, <3>1
        <3> QED BY <3>2
    <2> QED BY <1>1, <2>1, <2>2
<1> QED BY <1>3, <1>4, SeqEqual

\* A text is known from its rule and its port: the port is written in one way only.
LEMMA PortIdentifies ==
    ASSUME NEW u \in Users, NEW v \in Users, NEW n \in DynamicNames,
           Matches(n, u), Matches(n, v), Atoi(PortText(n, u)) = Atoi(PortText(n, v))
    PROVE  u = v
<1>1. Text[n] \in Seq(STRING) /\ u \in Seq(STRING) /\ v \in Seq(STRING)
    BY LoginAssumption, StoreAssumption
<1>2. PortText(n, u) = PortText(n, v)
    BY DEF Matches
<1>3. Len(Text[n]) \in Nat /\ Len(Text[n]) <= Len(u) /\ Len(Text[n]) <= Len(v)
      /\ SubSeq(u, 1, Len(Text[n])) = SubSeq(v, 1, Len(Text[n]))
    BY <1>1, LenProperties DEF Matches
<1> QED BY <1>1, <1>2, <1>3, SameText DEF PortText

LEMMA TargetUnique == ASSUME NamesUnique PROVE OneTarget
<1>1. ASSUME NEW u \in Users PROVE Cardinality(Routes(u)) <= 1
    <2>1. CASE Routes(u) = {}
        BY <2>1, FS_EmptySet
    <2>2. ASSUME NEW s \in Routes(u) PROVE Cardinality(Routes(u)) <= 1
        <3>1. Routes(u) = {s}
            BY RouteOnce
        <3> QED BY <3>1, FS_Singleton
    <2> QED BY <2>1, <2>2
<1>2. ASSUME NEW u \in Users, NEW v \in Users, NEW s \in DynamicRoutes(u) \cap DynamicRoutes(v),
             Atoi(PortText(servers[s].name, u)) = Atoi(PortText(servers[s].name, v))
      PROVE  u = v
    BY <1>2, CandidateRule, PortIdentifies
<1> QED BY <1>1, <1>2 DEF OneTarget

-----------------------------------------------------------------------------
(* Initial states *)

LEMMA InitInv == Init => LoginInv
<1> SUFFICES ASSUME Init PROVE LoginInv
    OBVIOUS
<1>1. StoreTypeOK
    <2>1. clients \in [ClientIds -> AuthRow \cup {None}]
        BY DEF Init, Password, AuthRow, Kinds
    <2>2. last \in [server : 0..MaxServers, cred : 0..MaxCreds, client : 0..MaxClients]
        BY StoreAssumption DEF Init
    <2>3. \A s \in ServerIds : ~(s > last.server)
        BY StoreAssumption DEF Init, ServerIds
    <2> QED BY <2>1, <2>2, <2>3, RequestMade DEF Init, StoreTypeOK
<1>2. TypeOK
    BY <1>1 DEF Init, TypeOK, LoginState, NoLogin
<1>3. NamesUnique
    BY DEF Init, NamesUnique
<1>4. LoginsInv
    BY DEF Init, LoginsInv, Current, NoLogin
<1> QED BY <1>2, <1>3, <1>4 DEF LoginInv

-----------------------------------------------------------------------------
(* Steps of a login: the tables stay as they are *)

LEMMA RoutesFound ==
    ASSUME StoreTypeOK, NEW u \in Users
    PROVE  /\ FixedRoutes(u) \subseteq ServerIds /\ DynamicRoutes(u) \subseteq ServerIds
           /\ \A s \in FixedRoutes(u) \cup DynamicRoutes(u) :
                servers[s] \in ServerRow /\ servers[s].cred \in CredIds \cup {None}
<1>1. \A s \in FixedRoutes(u) \cup DynamicRoutes(u) : s \in ServerIds /\ Server(s)
    BY CandidateRule DEF FixedRoutes, Named
<1>2. \A s \in ServerIds : Server(s) => servers[s] \in ServerRow
    BY DEF StoreTypeOK, Server
<1> QED BY <1>1, <1>2 DEF ServerRow

\* What is left to show of a step of one login.
LEMMA LoginMoves ==
    ASSUME LoginInv, NEW l \in Logins, NEW st \in LoginState, Becomes(l, st), OnlyLogin,
           st.pc # "idle" => st.user \in Users,
           st.pc = "idle" => st.pass = "auth",
           \A u \in Users : st.user = u /\ ~st.moved =>
                /\ st.pc = "dynamic" => FixedRoutes(u) = {}
                /\ st.pc \in {"finish", "keys"} => st.server \in Routes(u)
                /\ st.pass = "conn" /\ st.pc # "open" =>
                    st.granted # {} /\ st.granted \subseteq Routes(u)
                /\ st.pc = "open" => st.server \in st.granted
    PROVE  LoginInv'
<1>1. /\ login'[l] = st /\ \A k \in Logins \ {l} : login'[k] = login[k]
      /\ login' \in [Logins -> LoginState]
    BY DEF LoginInv, TypeOK, Becomes
<1>2. UNCHANGED <<servers, creds, clients, grants, last, req, overlapped, disabled>>
    BY DEF OnlyLogin, storeVars, tables
<1>3. TypeOK'
    BY <1>1, <1>2 DEF LoginInv, TypeOK, StoreTypeOK
<1>4. NamesUnique'
    BY <1>2 DEF LoginInv, NamesUnique, Server
<1>5. ASSUME NEW u \in Users
      PROVE  FixedRoutes(u)' = FixedRoutes(u) /\ Routes(u)' = Routes(u)
    BY <1>2 DEF FixedRoutes, Routes, DynamicRoutes, Candidates, Named, Server
<1>6. LoginsInv'
    <2> SUFFICES ASSUME NEW k \in Logins
                 PROVE  /\ login'[k].pc # "idle" => login'[k].user \in Users
                        /\ login'[k].pc = "idle" => login'[k].pass = "auth"
                        /\ \A u \in Users : Current(k, u)'
        BY DEF LoginsInv
    <2>1. CASE k = l
        BY <1>1, <1>5, <2>1 DEF Current
    <2>2. CASE k # l
        BY <1>1, <1>5, <2>2 DEF LoginInv, LoginsInv, Current
    <2> QED BY <2>1, <2>2
<1> QED BY <1>3, <1>4, <1>6 DEF LoginInv

LEMMA NoLoginTyped == NoLogin \in LoginState
BY DEF NoLogin, LoginState

LEMMA ConnectKeeps == ASSUME LoginInv, NEW l \in Logins, Connect(l) PROVE LoginInv'
<1>1. PICK u \in Users, a \in Password :
        Becomes(l, [NoLogin EXCEPT !.pc = "fixed", !.user = u, !.auth = a])
    BY DEF Connect
<1> DEFINE st == [NoLogin EXCEPT !.pc = "fixed", !.user = u, !.auth = a]
<1>2. st \in LoginState
    BY DEF NoLogin, LoginState
<1>3. st.pc = "fixed" /\ st.user \in Users /\ st.pass = "auth"
    BY DEF NoLogin
<1>4. Becomes(l, st) /\ OnlyLogin
    BY <1>1 DEF Connect
<1> HIDE DEF st
<1> QED BY <1>2, <1>3, <1>4, LoginMoves

LEMMA EndKeeps ==
    ASSUME LoginInv, NEW l \in Logins, Becomes(l, NoLogin), OnlyLogin PROVE LoginInv'
<1>1. NoLogin.pc = "idle" /\ NoLogin.pass = "auth"
    BY DEF NoLogin
<1> QED BY <1>1, NoLoginTyped, LoginMoves

\* A query that finds the route s.
LEMMA ScanKeeps ==
    ASSUME LoginInv, NEW l \in Logins, NEW s, NEW held \in BOOLEAN,
           login[l].pc \in {"fixed", "dynamic"}, Becomes(l, Scanned(l, s, held)), OnlyLogin,
           s \in FixedRoutes(login[l].user) \cup DynamicRoutes(login[l].user),
           ~login[l].moved => s \in Routes(login[l].user)
    PROVE  LoginInv'
<1> DEFINE st == Scanned(l, s, held)
<1>1. login[l] \in LoginState /\ login[l].user \in Users /\ StoreTypeOK
    BY DEF LoginInv, LoginsInv, TypeOK
<1>2. s \in ServerIds /\ servers[s].cred \in CredIds \cup {None}
    BY <1>1, RoutesFound
<1>3. st \in LoginState
    BY <1>1, <1>2 DEF Scanned, LoginState
<1>4. /\ st.pc = "finish" /\ st.user = login[l].user /\ st.server = s
      /\ st.pass = login[l].pass /\ st.granted = login[l].granted /\ st.moved = login[l].moved
    BY <1>1 DEF Scanned, LoginState
<1>5. Becomes(l, st) /\ Current(l, login[l].user)
    BY <1>1 DEF LoginInv, LoginsInv
<1> HIDE DEF st
<1> QED BY <1>1, <1>3, <1>4, <1>5, LoginMoves DEF Current

LEMMA QueryFixedKeeps == ASSUME LoginInv, NEW l \in Logins, QueryFixed(l) PROVE LoginInv'
<1> DEFINE u == login[l].user
<1>1. login[l] \in LoginState /\ u \in Users /\ login[l].pc = "fixed" /\ OnlyLogin
    BY DEF LoginInv, LoginsInv, TypeOK, QueryFixed
<1>2. CASE FixedRoutes(u) = {}
    <2> DEFINE st == [login[l] EXCEPT !.pc = "dynamic"]
    <2>1. Becomes(l, st)
        BY <1>2 DEF QueryFixed
    <2>2. st \in LoginState
        BY <1>1 DEF LoginState
    <2>3. /\ st.pc = "dynamic" /\ st.user = u /\ st.pass = login[l].pass
          /\ st.granted = login[l].granted /\ st.moved = login[l].moved
        BY <1>1 DEF LoginState
    <2>4. Current(l, u)
        BY <1>1 DEF LoginInv, LoginsInv
    <2> HIDE DEF st
    <2> QED BY <1>1, <1>2, <2>1, <2>2, <2>3, <2>4, LoginMoves DEF Current
<1>3. CASE FixedRoutes(u) # {}
    <2>1. PICK s \in FixedRoutes(u) : Becomes(l, Scanned(l, s, FALSE))
        BY <1>3 DEF QueryFixed
    <2>2. s \in Routes(u)
        BY <1>3, <2>1 DEF Routes
    <2> QED BY <1>1, <2>1, <2>2, ScanKeeps
<1> QED BY <1>2, <1>3

LEMMA QueryDynamicKeeps == ASSUME LoginInv, NEW l \in Logins, QueryDynamic(l) PROVE LoginInv'
<1> DEFINE u == login[l].user
<1>1. u \in Users /\ login[l].pc = "dynamic" /\ OnlyLogin
    BY DEF LoginInv, LoginsInv, QueryDynamic
<1>2. CASE DynamicRoutes(u) = {}
    BY <1>1, <1>2, EndKeeps DEF QueryDynamic
<1>3. CASE DynamicRoutes(u) # {}
    <2>1. PICK s \in DynamicRoutes(u) : Becomes(l, Scanned(l, s, TRUE))
        BY <1>3 DEF QueryDynamic
    <2>2. ~login[l].moved => FixedRoutes(u) = {}
        BY <1>1 DEF LoginInv, LoginsInv, Current
    <2>3. ~login[l].moved => s \in Routes(u)
        BY <2>1, <2>2 DEF Routes
    <2> QED BY <1>1, <2>1, <2>3, ScanKeeps
<1> QED BY <1>2, <1>3

\* The route that handleConn dials is the one that was granted: there is one route only.
LEMMA FinishKeeps == ASSUME LoginInv, NEW l \in Logins, Finish(l) PROVE LoginInv'
<1> DEFINE u == login[l].user
           p == IF login[l].pass = "auth" THEN "keys" ELSE "open"
           st == [login[l] EXCEPT !.pc = p, !.cred = None, !.enabled = FALSE, !.held = FALSE]
<1>1. /\ login[l] \in LoginState /\ u \in Users /\ login[l].pc = "finish" /\ OnlyLogin
      /\ NamesUnique /\ Current(l, u)
    BY DEF LoginInv, LoginsInv, TypeOK, Finish
<1>2. CASE Unusable(l)
    BY <1>1, <1>2, EndKeeps DEF Finish
<1>3. CASE ~Unusable(l)
    <2>1. Becomes(l, st)
        BY <1>3 DEF Finish
    <2>2. st \in LoginState
        BY <1>1 DEF LoginState
    <2>3. /\ st.pc = p /\ st.user = u /\ st.pass = login[l].pass /\ st.server = login[l].server
          /\ st.granted = login[l].granted /\ st.moved = login[l].moved
        BY <1>1 DEF LoginState
    <2>4. ASSUME ~login[l].moved, login[l].pass # "auth"
          PROVE  login[l].server \in login[l].granted
        <3>1. /\ login[l].pass = "conn" /\ login[l].server \in Routes(u)
              /\ login[l].granted # {} /\ login[l].granted \subseteq Routes(u)
            BY <1>1, <2>4 DEF Current, LoginState
        <3>2. PICK s \in login[l].granted : s \in Routes(u)
            BY <3>1
        <3>3. s = login[l].server
            BY <1>1, <3>1, <3>2, RouteOnce
        <3> QED BY <3>2, <3>3
    <2>5. /\ p \in {"keys", "open"} /\ (p = "keys" <=> login[l].pass = "auth")
        OBVIOUS
    <2> HIDE DEF st, p
    <2> QED BY <1>1, <2>1, <2>2, <2>3, <2>4, <2>5, LoginMoves DEF Current
<1> QED BY <1>2, <1>3

LEMMA CompareKeysKeeps == ASSUME LoginInv, NEW l \in Logins, CompareKeys(l) PROVE LoginInv'
<1> DEFINE u == login[l].user
           st == [login[l] EXCEPT !.pc = "fixed", !.pass = "conn", !.granted = Granted(l),
                                  !.server = None, !.auth = None]
<1>1. /\ login[l] \in LoginState /\ u \in Users /\ login[l].pc = "keys" /\ OnlyLogin
      /\ Current(l, u) /\ StoreTypeOK
    BY DEF LoginInv, LoginsInv, TypeOK, CompareKeys
<1>2. CASE Matching(l) = {}
    BY <1>1, <1>2, EndKeeps DEF CompareKeys
<1>3. CASE Matching(l) # {}
    <2>1. Becomes(l, st)
        BY <1>3 DEF CompareKeys
    <2>2. Granted(l) = {login[l].server}
        <3>1. PICK c \in ClientIds :
                <<login[l].server, c>> \in grants /\ clients[c] = login[l].auth
            BY <1>3 DEF Matching
        <3> QED BY <3>1 DEF Granted
    <2>3. login[l].server \in ServerIds
        BY <1>1, <1>3 DEF Matching, StoreTypeOK
    <2>4. st \in LoginState
        BY <1>1, <2>2, <2>3 DEF LoginState
    <2>5. /\ st.pc = "fixed" /\ st.user = u /\ st.granted = {login[l].server}
          /\ st.moved = login[l].moved
        BY <1>1, <2>2 DEF LoginState
    <2> HIDE DEF st
    <2> QED BY <1>1, <2>1, <2>4, <2>5, LoginMoves DEF Current
<1> QED BY <1>2, <1>3

-----------------------------------------------------------------------------
(* The administrators *)

LEMMA SavedUnique ==
    ASSUME StoreTypeOK, NamesUnique, NEW i \in 0..MaxServers, NEW row \in ServerRow,
           Saved(i, row)
    PROVE  NamesUnique'
<1>1. PICK j \in ServerIds :
        servers' = [servers EXCEPT ![j] = row] /\ (i = j \/ i = 0)
    <2>1. CASE i = 0
        <3>1. last.server + 1 \in ServerIds
            BY <2>1, StoreAssumption DEF Saved, ServerIds, StoreTypeOK
        <3> QED BY <2>1, <3>1 DEF Saved
    <2>2. CASE i # 0
        <3>1. i \in ServerIds
            BY <2>2, StoreAssumption DEF ServerIds
        <3> QED BY <2>2, <3>1 DEF Saved
    <2> QED BY <2>1, <2>2
<1>2. ASSUME NEW t \in ServerIds \ {j}, Server(t) PROVE servers[t].name # row.name
    <2>1. t # i
        BY <1>1, StoreAssumption DEF ServerIds
    <2> QED BY <1>2, <2>1 DEF Saved, NameTaken, Named
<1>3. /\ servers'[j] = row
      /\ \A t \in ServerIds \ {j} : servers'[t] = servers[t]
    BY <1>1 DEF StoreTypeOK
<1>4. ASSUME NEW s \in ServerIds, NEW t \in ServerIds, s # t,
             servers'[s] # None, servers'[t] # None
      PROVE  servers'[s].name # servers'[t].name
    <2>1. CASE s = j
        BY <1>2, <1>3, <1>4, <2>1 DEF Server
    <2>2. CASE t = j
        BY <1>2, <1>3, <1>4, <2>2 DEF Server
    <2>3. CASE s # j /\ t # j
        BY <1>3, <1>4, <2>3 DEF NamesUnique, Server
    <2> QED BY <2>1, <2>2, <2>3
<1> QED BY <1>4 DEF NamesUnique, Server

LEMMA ChangeKeeps ==
    ASSUME StoreTypeOK, NamesUnique, disabled \subseteq ServerIds, Change
    PROVE  StoreTypeOK' /\ NamesUnique' /\ disabled' \subseteq ServerIds
<1>1. ASSUME NEW r \in Requests,
             UpsertPlain(r) \/ DeleteServer(r) \/ BulkClientCredentials(r),
             disabled' = {s \in disabled : servers'[s] # None}
      PROVE  StoreTypeOK' /\ NamesUnique' /\ disabled' \subseteq ServerIds
    <2>1. StoreTypeOK'
        BY <1>1, StoreTyped DEF StoreStep, ServerRequest, ClientRequest
    <2>2. disabled' \subseteq ServerIds
        BY <1>1
    <2>3. CASE UpsertPlain(r)
        <3>1. PICK i \in 0..MaxServers, n \in Names, t \in {"ssh", "agent"} :
                Saved(i, [name |-> n, type |-> t, cred |-> None])
            BY <2>3 DEF UpsertPlain
        <3> QED BY <2>1, <2>2, <3>1, NewServerTyped, SavedUnique
    <2>4. CASE DeleteServer(r)
        BY <2>1, <2>2, <2>4 DEF DeleteServer, NamesUnique, Server, StoreTypeOK
    <2>5. CASE BulkClientCredentials(r)
        BY <2>1, <2>2, <2>5 DEF BulkClientCredentials, NamesUnique, Server
    <2> QED BY <1>1, <2>3, <2>4, <2>5
<1>2. CASE SetServerEnabled
    BY <1>2 DEF SetServerEnabled, storeVars, tables, StoreTypeOK, NamesUnique, Server
<1> QED BY <1>1, <1>2 DEF Change

\* A change of the tables marks the logins that it concerns.
LEMMA AdministratorKeeps == ASSUME LoginInv, Administrator PROVE LoginInv'
<1> DEFINE changed == {u \in Users : Answers(u)' # Answers(u)}
<1>1. StoreTypeOK' /\ NamesUnique' /\ disabled' \subseteq ServerIds
    BY ChangeKeeps DEF LoginInv, TypeOK, Administrator
<1>2. login' = IF changed = {} THEN login
               ELSE [l \in Logins |-> IF login[l].user \in changed /\ HasRead(l)
                                      THEN [login[l] EXCEPT !.moved = TRUE] ELSE login[l]]
    BY DEF Administrator
<1> HIDE DEF changed
<1>3. ASSUME NEW l \in Logins
      PROVE  /\ login[l] \in LoginState /\ login'[l] \in LoginState
             /\ login'[l] \in {login[l], [login[l] EXCEPT !.moved = TRUE]}
             /\ login'[l].moved \/ login'[l] = login[l]
             /\ login'[l].moved \/ ~(login[l].user \in changed /\ HasRead(l))
    <2>1. login[l] \in LoginState
        BY DEF LoginInv, TypeOK
    <2>2. [login[l] EXCEPT !.moved = TRUE] \in LoginState
          /\ [login[l] EXCEPT !.moved = TRUE].moved
        BY <2>1 DEF LoginState
    <2>3. login'[l] = IF login[l].user \in changed /\ HasRead(l)
                      THEN [login[l] EXCEPT !.moved = TRUE] ELSE login[l]
        BY <1>2 DEF LoginInv, TypeOK
    <2> QED BY <2>1, <2>2, <2>3
<1>4. login' \in [Logins -> LoginState]
    <2>1. login' = [l \in Logins |-> login'[l]]
        BY <1>2 DEF LoginInv, TypeOK
    <2> QED BY <1>3, <2>1
<1>5. TypeOK'
    BY <1>1, <1>4 DEF TypeOK
<1>6. ASSUME NEW u \in Users, u \notin changed
      PROVE  FixedRoutes(u)' = FixedRoutes(u) /\ Routes(u)' = Routes(u)
    <2>1. Answers(u)' = Answers(u)
        BY <1>6 DEF changed
    <2> QED BY <2>1 DEF Answers, Routes
<1>7. ASSUME NEW l \in Logins, NEW u \in Users PROVE Current(l, u)'
    <2> SUFFICES ASSUME login'[l].user = u, ~login'[l].moved PROVE Current(l, u)'
        BY DEF Current
    <2>1. login'[l] = login[l] /\ (u \notin changed \/ ~HasRead(l)) /\ Current(l, u)
        BY <1>3 DEF LoginInv, LoginsInv
    <2>2. CASE u \notin changed
        BY <1>6, <2>1, <2>2 DEF Current
    <2>3. CASE ~HasRead(l)
        <3>1. login[l].pc = "open" \/ (login[l].pc = "fixed" /\ login[l].pass # "conn")
            BY <2>3 DEF HasRead
        <3> QED BY <2>1, <3>1 DEF Current
    <2> QED BY <2>1, <2>2, <2>3
<1>8. ASSUME NEW l \in Logins
      PROVE  /\ login'[l].pc # "idle" => login'[l].user \in Users
             /\ login'[l].pc = "idle" => login'[l].pass = "auth"
    <2>1. login'[l].pc = login[l].pc /\ login'[l].user = login[l].user
          /\ login'[l].pass = login[l].pass
        BY <1>3 DEF LoginState
    <2> QED BY <2>1 DEF LoginInv, LoginsInv
<1> QED BY <1>1, <1>5, <1>7, <1>8 DEF LoginInv, LoginsInv

-----------------------------------------------------------------------------
(* The properties *)

LEMMA NextKeeps == ASSUME LoginInv, [Next]_vars PROVE LoginInv'
<1>1. ASSUME NEW l \in Logins, Connect(l) \/ LoginStep(l) PROVE LoginInv'
    BY <1>1, ConnectKeeps, QueryFixedKeeps, QueryDynamicKeeps, FinishKeeps, CompareKeysKeeps
    DEF LoginStep
<1>2. ASSUME NEW l \in Logins, Close(l) PROVE LoginInv'
    BY <1>2, EndKeeps DEF Close
<1>3. CASE UNCHANGED vars
    <2>1. UNCHANGED <<servers, creds, clients, grants, last, req, disabled, login>>
        BY <1>3 DEF vars, storeVars, tables
    <2>2. TypeOK' /\ NamesUnique'
        BY <2>1 DEF LoginInv, TypeOK, StoreTypeOK, NamesUnique, Server
    <2>3. ASSUME NEW u \in Users
          PROVE  FixedRoutes(u)' = FixedRoutes(u) /\ Routes(u)' = Routes(u)
        BY <2>1 DEF FixedRoutes, Routes, DynamicRoutes, Candidates, Named, Server
    <2>4. ASSUME NEW l \in Logins, NEW u \in Users PROVE Current(l, u)'
        BY <2>1, <2>3 DEF LoginInv, LoginsInv, Current
    <2> QED BY <2>1, <2>2, <2>4 DEF LoginInv, LoginsInv
<1> QED BY <1>1, <1>2, <1>3, AdministratorKeeps DEF Next

LEMMA Invariance == Spec => []LoginInv
BY InitInv, NextKeeps, PTL DEF Spec

\* The tables, and what every login has read of them, keep their shape.
THEOREM TypeCorrect == Spec => []TypeOK
<1>1. LoginInv => TypeOK
    BY DEF LoginInv
<1> QED BY <1>1, Invariance, PTL

\* ResolveServer: whatever rules overlap, UNIQUE(proxy_user) and the longest prefix leave one
\* route for a login text, and the comparison with Itoa leaves one text for a port.
THEOREM TextIdentifiesTarget == Spec => []OneTarget
<1>1. LoginInv => OneTarget
    BY TargetUnique DEF LoginInv
<1> QED BY <1>1, Invariance, PTL

\* handleConn resolves the login text again after the callback compared the password: it dials
\* the route of which a credential matched, as long as the routes of the text stay.
THEOREM DialsWhatWasGranted == Spec => []DialledAsGranted
<1>1. ASSUME LoginInv PROVE DialledAsGranted
    <2> SUFFICES ASSUME NEW l \in Logins, login[l].pc = "open", ~login[l].moved
                 PROVE  login[l].server \in login[l].granted
        BY DEF DialledAsGranted
    <2>1. login[l].user \in Users /\ Current(l, login[l].user)
        BY <1>1 DEF LoginInv, LoginsInv
    <2> QED BY <2>1 DEF Current
<1> QED BY <1>1, Invariance, PTL
=============================================================================
