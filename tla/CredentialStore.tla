--------------------------- MODULE CredentialStore ---------------------------
(***************************************************************************)
(* The tables servers, server_credentials, client_credentials and          *)
(* server_client_credentials, and the handlers of the console that change  *)
(* them. A handler runs in its own goroutine; every SQL statement outside  *)
(* a transaction, and every transaction, is one step. What a handler has   *)
(* read in an earlier statement it keeps in req[r].                        *)
(*                                                                         *)
(* Names stand for login names, secrets for passwords and keys. The body   *)
(* of a request carries the secret of its own type only. Handlers that     *)
(* refuse a request before they change anything are not modelled as steps. *)
(***************************************************************************)
EXTENDS Integers, FiniteSets

CONSTANTS
    Names,        \* login names
    DynamicNames, \* the names that end in ${PORT}: route_mode is dynamic_port
    Secrets,      \* passwords and private or public keys
    Blank,        \* the empty secret
    None,         \* no row; no credential
    MaxServers,   \* bounds on the rows ever inserted: ids are never used twice
    MaxCreds,
    MaxClients,
    Requests      \* requests that may run at the same time

ASSUME StoreAssumption ==
    /\ DynamicNames \subseteq Names
    /\ Blank \notin Secrets
    /\ MaxServers \in Nat /\ MaxCreds \in Nat /\ MaxClients \in Nat
    /\ None \notin 1..MaxCreds

ServerIds == 1..MaxServers
CredIds == 1..MaxCreds
ClientIds == 1..MaxClients

VARIABLES
    servers,     \* rows of servers, by id
    creds,       \* rows of server_credentials, by id
    clients,     \* rows of client_credentials, by id
    grants,      \* rows of server_client_credentials
    last,        \* the last id of each table
    req,         \* per request: what its handler keeps between two statements
    overlapped   \* history: credentials on which two requests have overlapped

tables == <<servers, creds, clients, grants, last>>
storeVars == <<tables, req, overlapped>>

-----------------------------------------------------------------------------
Kinds == {"password", "key"}
ServerRow == [name : Names, type : {"ssh", "agent"}, cred : CredIds \cup {None}]
AuthRow == [kind : Kinds, secret : Secrets \cup {Blank}]

\* None stands for a row that is not there.
ASSUME RowsAssumption == None \notin ServerRow /\ None \notin AuthRow

Idle == [pc |-> "idle"]
\* on is the credential a request works on; id, row, users, blank are the body.
Request ==
    {Idle}
    \cup [pc : {"upsert"}, on : {"cred"} \X CredIds, id : 0..MaxServers, row : ServerRow]
    \cup [pc : {"updateCred"}, on : {"cred"} \X CredIds, row : AuthRow,
          users : SUBSET Names]
    \cup [pc : {"setUsers"}, on : {"cred"} \X CredIds, users : SUBSET Names]
    \cup [pc : {"deleteCred"}, on : {"cred"} \X CredIds]
    \cup [pc : {"updateClient"}, on : {"client"} \X ClientIds, row : AuthRow,
          blank : BOOLEAN, users : SUBSET Names]

\* Every table has rows of its shape, and none with an id above the last one.
StoreTypeOK ==
    /\ servers \in [ServerIds -> ServerRow \cup {None}]
    /\ creds \in [CredIds -> AuthRow \cup {None}]
    /\ clients \in [ClientIds -> AuthRow \cup {None}]
    /\ grants \subseteq ServerIds \X ClientIds
    /\ last \in [server : 0..MaxServers, cred : 0..MaxCreds, client : 0..MaxClients]
    /\ req \in [Requests -> Request]
    /\ \A s \in ServerIds : s > last.server => servers[s] = None

StoreInit ==
    /\ servers = [s \in ServerIds |-> None]
    /\ creds = [c \in CredIds |-> None]
    /\ clients = [c \in ClientIds |-> None]
    /\ grants = {}
    /\ last = [server |-> 0, cred |-> 0, client |-> 0]
    /\ req = [r \in Requests |-> Idle]
    /\ overlapped = {}

Server(s) == servers[s] # None
Named(n) == {s \in ServerIds : Server(s) /\ servers[s].name = n}
UsersOf(c) == {s \in ServerIds : Server(s) /\ servers[s].cred = c}

-----------------------------------------------------------------------------
(* What the requests have in common *)

\* Another request is between two statements that concern the credential x.
Overlaps(r, x) ==
    overlapped' = IF \E o \in Requests \ {r} : req[o].pc # "idle" /\ req[o].on = x
                  THEN overlapped \cup {x} ELSE overlapped

Goes(r, q) == req' = [req EXCEPT ![r] = q]
OneStep(r) == req[r].pc = "idle" /\ UNCHANGED req

\* A statement of the request fails, or the process ends.
Abort(r) ==
    /\ req[r].pc # "idle"
    /\ Goes(r, Idle)
    /\ UNCHANGED <<tables, overlapped>>

\* Mutant of Kept: a blank secret is stored as it is.
KeptBlank(kind, given, row) == [kind |-> kind, secret |-> given]

\* A blank secret keeps the one that was read, if it is of the same type.
Kept(kind, given, row) ==
    [kind |-> kind,
     secret |-> IF given # Blank THEN given
                ELSE IF row.kind = kind THEN row.secret ELSE Blank]

-----------------------------------------------------------------------------
(* servers *)

\* UNIQUE(proxy_user)
NameTaken(id, n) == \E s \in Named(n) : s # id

\* UpsertServer: an INSERT without id, else an UPDATE that finds its row.
Saved(id, row) ==
    /\ ~NameTaken(id, row.name)
    /\ IF id = 0
       THEN /\ last.server < MaxServers
            /\ last' = [last EXCEPT !.server = last.server + 1]
            /\ servers' = [servers EXCEPT ![last.server + 1] = row]
       ELSE /\ Server(id)
            /\ servers' = [servers EXCEPT ![id] = row]
            /\ UNCHANGED last
    /\ UNCHANGED <<creds, clients, grants>>

\* handleUpsertServer without a credential: one statement.
UpsertPlain(r) ==
    /\ OneStep(r)
    /\ \E id \in 0..MaxServers, n \in Names, t \in {"ssh", "agent"} :
        /\ t = "agent" => n \notin DynamicNames
        /\ Saved(id, [name |-> n, type |-> t, cred |-> None])
    /\ UNCHANGED overlapped

\* handleUpsertServer with a credential, of an SSH server: GetServerCredential.
UpsertReads(r) ==
    /\ req[r].pc = "idle"
    /\ \E id \in 0..MaxServers, n \in Names, c \in CredIds :
        /\ creds[c] # None
        /\ Goes(r, [pc |-> "upsert", on |-> <<"cred", c>>, id |-> id,
                    row |-> [name |-> n, type |-> "ssh", cred |-> c]])
        /\ Overlaps(r, <<"cred", c>>)
    /\ UNCHANGED tables

UpsertWrites(r) ==
    /\ req[r].pc = "upsert"
    /\ IF NameTaken(req[r].id, req[r].row.name) \/ (req[r].id # 0 /\ ~Server(req[r].id))
       THEN UNCHANGED tables
       ELSE Saved(req[r].id, req[r].row)
    /\ Goes(r, Idle)
    /\ Overlaps(r, req[r].on)

\* Mutant of DeleteServer: foreign keys are off, nothing cascades.
DeleteServerOnly(r) ==
    /\ OneStep(r)
    /\ \E s \in ServerIds :
        /\ Server(s)
        /\ servers' = [servers EXCEPT ![s] = None]
    /\ UNCHANGED <<creds, clients, grants, last, overlapped>>

\* DELETE FROM servers by name; its grants are deleted with it.
DeleteServer(r) ==
    /\ OneStep(r)
    /\ \E s \in ServerIds :
        /\ Server(s)
        /\ servers' = [servers EXCEPT ![s] = None]
        /\ grants' = {g \in grants : g[1] # s}
    /\ UNCHANGED <<creds, clients, last, overlapped>>

WithCred(S, c) ==
    [s \in ServerIds |-> IF s \in S THEN [servers[s] EXCEPT !.cred = c] ELSE servers[s]]

\* BulkUpdateServerCredential, one transaction: it refuses servers that are not there
\* or not SSH servers, and a credential that is not there.
BulkServerCredential(r) ==
    /\ OneStep(r)
    /\ \E S \in SUBSET ServerIds, c \in CredIds \cup {None} :
        /\ S # {}
        /\ \A s \in S : Server(s) /\ servers[s].type = "ssh"
        /\ c # None => creds[c] # None
        /\ servers' = WithCred(S, c)
        /\ Overlaps(r, <<"cred", c>>)
    /\ UNCHANGED <<creds, clients, grants, last>>

-----------------------------------------------------------------------------
(* server_credentials *)

\* handleCreateServerCredential: the row is inserted; its users follow.
CreateCred(r) ==
    /\ req[r].pc = "idle"
    /\ last.cred < MaxCreds
    /\ \E row \in AuthRow, users \in SUBSET Names :
        /\ creds' = [creds EXCEPT ![last.cred + 1] = row]
        /\ Goes(r, [pc |-> "setUsers", on |-> <<"cred", last.cred + 1>>, users |-> users])
    /\ last' = [last EXCEPT !.cred = last.cred + 1]
    /\ UNCHANGED <<servers, clients, grants, overlapped>>

\* handleUpdateServerCredential: GetServerCredential, then validateServerCredentialAuth
\* fills in what the body left blank.
UpdateCredReads(r) ==
    /\ req[r].pc = "idle"
    /\ \E c \in CredIds, k \in Kinds, given \in Secrets \cup {Blank}, users \in SUBSET Names :
        /\ creds[c] # None
        /\ Goes(r, [pc |-> "updateCred", on |-> <<"cred", c>>, row |-> Kept(k, given, creds[c]),
                    users |-> users])
        /\ Overlaps(r, <<"cred", c>>)
    /\ UNCHANGED tables

\* UpdateServerCredential; the handler ends here if the row has gone.
UpdateCredWrites(r) ==
    LET c == req[r].on[2] IN
    /\ req[r].pc = "updateCred"
    /\ IF creds[c] = None
       THEN UNCHANGED creds /\ Goes(r, Idle)
       ELSE /\ creds' = [creds EXCEPT ![c] = req[r].row]
            /\ Goes(r, [pc |-> "setUsers", on |-> req[r].on, users |-> req[r].users])
    /\ Overlaps(r, req[r].on)
    /\ UNCHANGED <<servers, clients, grants, last>>

\* SetServerCredentialServers, one transaction: a name that is not there rolls it back.
\* The credential itself is not looked up again.
SetUsers(r) ==
    LET c == req[r].on[2]
        users == UNION {Named(n) : n \in req[r].users}
    IN
    /\ req[r].pc = "setUsers"
    /\ servers' = IF \E n \in req[r].users : Named(n) = {} THEN servers
                  ELSE [s \in ServerIds |->
                            IF s \in users THEN [servers[s] EXCEPT !.cred = c]
                            ELSE IF s \in UsersOf(c) THEN [servers[s] EXCEPT !.cred = None]
                            ELSE servers[s]]
    /\ Goes(r, Idle)
    /\ Overlaps(r, req[r].on)
    /\ UNCHANGED <<creds, clients, grants, last>>

\* Mutant of DeleteCredCounts: the users are not counted.
DeleteCredAnyway(r) ==
    /\ req[r].pc = "idle"
    /\ \E c \in CredIds :
        /\ creds[c] # None
        /\ Goes(r, [pc |-> "deleteCred", on |-> <<"cred", c>>])
        /\ Overlaps(r, <<"cred", c>>)
    /\ UNCHANGED tables

\* DeleteServerCredential refuses while listServersUsingServerCredential finds a user.
DeleteCredCounts(r) ==
    /\ req[r].pc = "idle"
    /\ \E c \in CredIds :
        /\ creds[c] # None
        /\ UsersOf(c) = {}
        /\ Goes(r, [pc |-> "deleteCred", on |-> <<"cred", c>>])
        /\ Overlaps(r, <<"cred", c>>)
    /\ UNCHANGED tables

DeleteCredDeletes(r) ==
    /\ req[r].pc = "deleteCred"
    /\ creds' = [creds EXCEPT ![req[r].on[2]] = None]
    /\ Goes(r, Idle)
    /\ Overlaps(r, req[r].on)
    /\ UNCHANGED <<servers, clients, grants, last>>

-----------------------------------------------------------------------------
(* client_credentials and server_client_credentials *)

\* INSERT ... SELECT id FROM servers WHERE proxy_user = n: a name that is not there
\* adds nothing.
GrantsOf(c, users) == {<<s, c>> : s \in UNION {Named(n) : n \in users}}

\* CreateClientCredential, one transaction.
CreateClient(r) ==
    /\ OneStep(r)
    /\ last.client < MaxClients
    /\ \E row \in AuthRow, users \in SUBSET Names :
        /\ clients' = [clients EXCEPT ![last.client + 1] = row]
        /\ grants' = grants \cup GrantsOf(last.client + 1, users)
    /\ last' = [last EXCEPT !.client = last.client + 1]
    /\ UNCHANGED <<servers, creds, overlapped>>

\* UpdateClientCredential: GetClientCredential and clientCredentialAuthColumns, before
\* the transaction begins.
UpdateClientReads(r) ==
    /\ req[r].pc = "idle"
    /\ \E c \in ClientIds, k \in Kinds, given \in Secrets \cup {Blank}, users \in SUBSET Names :
        /\ clients[c] # None
        /\ Goes(r, [pc |-> "updateClient", on |-> <<"client", c>>, row |-> Kept(k, given, clients[c]),
                    blank |-> given = Blank, users |-> users])
        /\ Overlaps(r, <<"client", c>>)
    /\ UNCHANGED tables

\* The transaction: the row, then its grants from the names of the body.
UpdateClientWrites(r) ==
    LET c == req[r].on[2] IN
    /\ req[r].pc = "updateClient"
    /\ IF clients[c] = None
       THEN UNCHANGED <<clients, grants>>
       ELSE /\ clients' = [clients EXCEPT ![c] = req[r].row]
            /\ grants' = {g \in grants : g[2] # c} \cup GrantsOf(c, req[r].users)
    /\ Goes(r, Idle)
    /\ Overlaps(r, req[r].on)
    /\ UNCHANGED <<servers, creds, last>>

\* DELETE FROM client_credentials; its grants are deleted with it.
DeleteClient(r) ==
    /\ OneStep(r)
    /\ \E c \in ClientIds :
        /\ clients[c] # None
        /\ clients' = [clients EXCEPT ![c] = None]
        /\ grants' = {g \in grants : g[2] # c}
    /\ UNCHANGED <<servers, creds, last, overlapped>>

\* BulkUpdateClientCredentials, one transaction: replace, add or remove, and nothing at
\* all if one of the rows is not there.
BulkClientCredentials(r) ==
    /\ OneStep(r)
    /\ \E S \in SUBSET ServerIds, C \in SUBSET ClientIds :
        /\ S # {} /\ C # {}
        /\ \A s \in S : Server(s)
        /\ \A c \in C : clients[c] # None
        /\ \/ grants' = {g \in grants : g[1] \notin S} \cup S \X C
           \/ grants' = grants \cup S \X C
           \/ grants' = grants \ (S \X C)
    /\ UNCHANGED <<servers, creds, clients, last, overlapped>>

-----------------------------------------------------------------------------
ServerRequest(r) ==
    \/ UpsertPlain(r) \/ UpsertReads(r) \/ UpsertWrites(r) \/ DeleteServer(r)
    \/ BulkServerCredential(r)

CredRequest(r) ==
    \/ CreateCred(r) \/ UpdateCredReads(r) \/ UpdateCredWrites(r) \/ SetUsers(r)
    \/ DeleteCredCounts(r) \/ DeleteCredDeletes(r)

ClientRequest(r) ==
    \/ CreateClient(r) \/ UpdateClientReads(r) \/ UpdateClientWrites(r) \/ DeleteClient(r)
    \/ BulkClientCredentials(r)

StoreStep ==
    \E r \in Requests : ServerRequest(r) \/ CredRequest(r) \/ ClientRequest(r) \/ Abort(r)

StoreSpec == StoreInit /\ [][StoreStep]_storeVars

-----------------------------------------------------------------------------
\* A credential that a server refers to is there, unless two requests overlapped on it:
\* ListServers, which fails for all servers when the credential of one is missing, keeps
\* working. In particular the handlers may fail at any statement.
Listable ==
    \A s \in ServerIds : Server(s) /\ servers[s].cred # None =>
        creds[servers[s].cred] # None \/ <<"cred", servers[s].cred>> \in overlapped

\* A grant is between rows that are there, and so follows a server through a rename and
\* ends with either of them: no later server or client credential inherits it.
GrantsRefer ==
    \A g \in grants : Server(g[1]) /\ clients[g[2]] # None

\* The stored secret changes under its type only to a secret that the request carries: an
\* edit that leaves the secret blank keeps it, unless another request overlapped with it.
BlankKeepsSecret ==
    [][\A c \in ClientIds :
        \/ clients[c] = None
        \/ clients'[c] \in {None, clients[c]}
        \/ clients'[c].kind # clients[c].kind
        \/ <<"client", c>> \in overlapped'
        \/ \E r \in Requests : req[r].pc = "updateClient" /\ req[r].on[2] = c /\ ~req[r].blank]_storeVars
=============================================================================
