------------------------------ MODULE Listeners ------------------------------
(***************************************************************************)
(* The sockets the program listens on and the addresses in its settings:   *)
(*                                                                         *)
(*   - main, which binds the SSH listener, then the web and the agent      *)
(*     listener, and ends when one of them cannot be had                   *)
(*   - Proxy.Restart under Proxy.mu, called by handleUpdateSettings        *)
(*   - handlePutListeners, which takes effect at the next start            *)
(*   - other processes of the machine, which bind and close sockets        *)
(* An address is a pair <<host, port>>; the host "any" is the wildcard.    *)
(***************************************************************************)
EXTENDS Integers, FiniteSets

CONSTANTS
    Requests,      \* concurrent requests of administrators
    SshAddrs,      \* addresses for the SSH listener
    WebAddrs,      \* addresses for the web and the agent listener
    Unusable,      \* addresses of other machines: a bind fails, not for being in use
    ForeignAddrs,  \* addresses other processes bind
    Defaults,      \* the addresses of a first start
    None,          \* no address: the empty string
    Random,        \* the socket net.Listen opens for the empty string
    MaxForeign,    \* bound on the sockets other processes have at a time
    MaxFaults      \* bound on database errors and crashes

Addrs == SshAddrs \cup WebAddrs
Settings == [ssh : SshAddrs, web : WebAddrs, agent : WebAddrs]

ASSUME ListenersAssumption ==
    /\ None \notin Addrs \cup Requests /\ Random \notin Addrs /\ None # Random
    /\ Defaults \in Settings
    /\ MaxForeign \in Nat /\ MaxFaults \in Nat

VARIABLES
    main,        \* where main is
    config,      \* the settings this process was started with
    stored,      \* the settings in the database
    untried,     \* history: they have an address that was not bound beside the others
    sock,        \* per service: the sockets that are open
    listener,    \* Proxy.listener
    listenAddr,  \* Proxy.listenAddr
    lock,        \* Proxy.mu, while Restart has closed the old listener
    req,         \* handleUpdateSettings, per request
    foreign,     \* sockets of other processes
    faults,      \* faults so far
    history      \* of this process: what the properties ask about

vars ==
    <<main, config, stored, untried, sock, listener, listenAddr, lock, req, foreign, faults,
      history>>

Idle == [pc |-> "idle", addr |-> None, old |-> None, undo |-> FALSE]
Nothing == [overlapped |-> FALSE, reported |-> FALSE, stolen |-> FALSE]

\* Every variable has the shape its part of the code gives it.
TypeOK ==
    /\ main \in {"down", "ssh", "bind", "web", "bound", "serving"}
    /\ config \in Settings /\ stored \in Settings /\ untried \in BOOLEAN
    /\ sock \in [{"ssh", "web", "agent"} -> SUBSET (Addrs \cup {Random})]
    /\ listener \in SshAddrs \cup {Random, None}
    /\ listenAddr \in SshAddrs \cup {None}
    /\ lock \in Requests \cup {None}
    /\ req \in [Requests -> [pc : {"idle", "restart", "retry", "restore", "save"},
                             addr : SshAddrs \cup {None}, old : SshAddrs \cup {None},
                             undo : BOOLEAN]]
    /\ foreign \in SUBSET ForeignAddrs
    /\ faults \in 0..MaxFaults
    /\ history \in [overlapped : BOOLEAN, reported : BOOLEAN, stolen : BOOLEAN]

Init ==
    /\ main = "down"
    /\ config = Defaults /\ stored = Defaults /\ untried = TRUE
    /\ sock = [s \in {"ssh", "web", "agent"} |-> {}]
    /\ listener = None /\ listenAddr = None /\ lock = None
    /\ req = [r \in Requests |-> Idle]
    /\ foreign = {}
    /\ faults = 0
    /\ history = Nothing

-----------------------------------------------------------------------------
(* The sockets of the machine *)

\* Two addresses cannot be bound together.
Conflict(a, b) ==
    /\ {a, b} \cap {None, Random} = {}
    /\ a[2] = b[2]
    /\ a[1] = b[1] \/ "any" \in {a[1], b[1]}

InUse == foreign \cup UNION {sock[s] : s \in DOMAIN sock}
Free(a) == \A b \in InUse : ~Conflict(a, b)

\* net.Listen succeeds. The empty address is any host and a port of the system's choice.
CanListen(a) == a \notin Unusable /\ Free(a)

\* Mutant of Socket: takes the empty address for the name of a socket.
SocketNamed(a) == a

Socket(a) == IF a = None THEN Random ELSE a

sameTCPPort(current, requested) == current \in Addrs /\ current[2] = requested[2]

ForeignBinds(a) ==
    /\ Free(a) /\ Cardinality(foreign) < MaxForeign
    /\ foreign' = foreign \cup {a}
    /\ history' = [history EXCEPT !.stolen = history.stolen \/ lock # None]
    /\ UNCHANGED <<main, config, stored, untried, sock, listener, listenAddr, lock, req, faults>>

ForeignCloses(a) ==
    /\ a \in foreign
    /\ foreign' = foreign \ {a}
    /\ UNCHANGED <<main, config, stored, untried, sock, listener, listenAddr, lock, req,
                   faults, history>>

-----------------------------------------------------------------------------
(* main. An unset key of the settings reads as its default.                  *)

\* The process ends: its sockets are closed, requests are cut off.
Exit ==
    /\ main' = "down"
    /\ sock' = [s \in {"ssh", "web", "agent"} |-> {}]
    /\ listener' = None /\ listenAddr' = None /\ lock' = None
    /\ req' = [r \in Requests |-> Idle]
    /\ history' = Nothing

Fault == faults < MaxFaults /\ faults' = faults + 1

\* Proxy.Start. Each address comes from the settings or from a flag.
Start(c) ==
    /\ main = "down"
    /\ CanListen(c.ssh)
    /\ main' = "ssh"
    /\ config' = c
    /\ sock' = [sock EXCEPT !["ssh"] = {c.ssh}]
    /\ listener' = c.ssh /\ listenAddr' = c.ssh
    /\ UNCHANGED <<stored, untried, lock, req, foreign, faults, history>>

\* An address given by a flag is saved, before the other two are tried; without one the
\* settings stay as they are.
SaveSsh ==
    /\ main = "ssh"
    /\ main' = "bind"
    /\ stored' = [stored EXCEPT !.ssh = config.ssh]
    /\ untried' = (untried \/ config.ssh # stored.ssh)
    /\ UNCHANGED <<config, sock, listener, listenAddr, lock, req, foreign, faults, history>>

\* ListenerSettings.validate, for addresses that can be parsed and a certificate that can
\* be read: any other setting is refused where this one would be. Different addresses may
\* still not be had together, which is found out by openListeners.
Valid(web, agent) == web # agent

\* openListeners: validation and the first socket, then the second.
BindWeb ==
    /\ main = "bind"
    /\ Valid(config.web, config.agent) /\ CanListen(config.web)
    /\ main' = "web"
    /\ sock' = [sock EXCEPT !["web"] = {config.web}]
    /\ UNCHANGED <<config, stored, untried, listener, listenAddr, lock, req, foreign, faults,
                   history>>

BindAgent ==
    /\ main = "web"
    /\ CanListen(config.agent)
    /\ main' = "bound"
    /\ sock' = [sock EXCEPT !["agent"] = {config.agent}]
    /\ UNCHANGED <<config, stored, untried, listener, listenAddr, lock, req, foreign, faults,
                   history>>

BindFails ==
    /\ \/ main = "bind" /\ ~(Valid(config.web, config.agent) /\ CanListen(config.web))
       \/ main = "web" /\ ~CanListen(config.agent)
    /\ Exit
    /\ UNCHANGED <<config, stored, untried, foreign, faults>>

\* Mutant of SaveListeners: saves before the addresses have been checked.
SaveListenersFirst ==
    /\ main \in {"bind", "bound"}
    /\ main' = IF main = "bind" THEN "bind" ELSE "serving"
    /\ stored' = [stored EXCEPT !.web = config.web, !.agent = config.agent]
    /\ untried' = (untried /\ main = "bind")
    /\ UNCHANGED <<config, sock, listener, listenAddr, lock, req, foreign, faults, history>>

\* saveListenerSettings, one transaction. Then both listeners are served.
SaveListeners ==
    /\ main = "bound"
    /\ main' = "serving"
    /\ stored' = [stored EXCEPT !.web = config.web, !.agent = config.agent]
    /\ untried' = FALSE
    /\ UNCHANGED <<config, sock, listener, listenAddr, lock, req, foreign, faults, history>>

\* A settings statement of main fails, a listener fails while it serves, or the process
\* is killed.
Crash ==
    /\ main # "down"
    /\ Fault
    /\ Exit
    /\ UNCHANGED <<config, stored, untried, foreign>>

-----------------------------------------------------------------------------
(* Proxy.Restart. The mutex is held throughout; it is a variable only where   *)
(* another process can act between two steps, after the old listener is closed. *)

\* The address to change to, or to go back to.
Target(r) == IF req[r].undo THEN req[r].old ELSE req[r].addr

Restarting(r) == req[r].pc = "restart" /\ lock = None

\* Restart returns. A change is saved next; a change that failed, and a roll-back, end
\* the request.
Returns(r, ok) ==
    req' = [req EXCEPT ![r] = IF ok /\ ~req[r].undo THEN [req[r] EXCEPT !.pc = "save"] ELSE Idle]

\* The administrator is told that the old listener is not back.
Reports(r, notBack) == history' = [history EXCEPT !.reported = history.reported \/ notBack]

RestartSame(r) ==
    /\ Restarting(r)
    /\ listener # None /\ Target(r) = listenAddr
    /\ Returns(r, TRUE)
    /\ UNCHANGED <<main, config, stored, untried, sock, listener, listenAddr, lock, foreign,
                   faults,
                   history>>

\* activateListener
Activate(a, sockets) ==
    /\ sock' = [sock EXCEPT !["ssh"] = sockets \cup {Socket(a)}]
    /\ listener' = Socket(a) /\ listenAddr' = a

\* Mutant of RestartBinds: does not close the old listener.
RestartBindsOnly(r) ==
    /\ Restarting(r)
    /\ listener = None \/ Target(r) # listenAddr
    /\ CanListen(Target(r))
    /\ Activate(Target(r), sock["ssh"])
    /\ Returns(r, TRUE)
    /\ UNCHANGED <<main, config, stored, untried, lock, foreign, faults, history>>

\* The new address is bound, then the old listener closed.
RestartBinds(r) ==
    /\ Restarting(r)
    /\ listener = None \/ Target(r) # listenAddr
    /\ CanListen(Target(r))
    /\ Activate(Target(r), sock["ssh"] \ {listener})
    /\ Returns(r, TRUE)
    /\ UNCHANGED <<main, config, stored, untried, lock, foreign, faults, history>>

\* Another reason than the old listener: everything stays as it is.
RestartRefused(r) ==
    /\ Restarting(r)
    /\ listener = None \/ Target(r) # listenAddr
    /\ ~CanListen(Target(r))
    /\ \/ listener = None
       \/ Target(r) \in Unusable
       \/ ~sameTCPPort(listener, Target(r))
    /\ Returns(r, FALSE)
    /\ Reports(r, req[r].undo)
    /\ UNCHANGED <<main, config, stored, untried, sock, listener, listenAddr, lock, foreign,
                   faults>>

\* The old listener may be in the way: it is closed ...
RestartCloses(r) ==
    /\ Restarting(r)
    /\ listener # None /\ Target(r) # listenAddr
    /\ ~CanListen(Target(r)) /\ Target(r) \notin Unusable
    /\ sameTCPPort(listener, Target(r))
    /\ sock' = [sock EXCEPT !["ssh"] = {}]
    /\ lock' = r
    /\ req' = [req EXCEPT ![r] = [req[r] EXCEPT !.pc = "retry"]]
    /\ UNCHANGED <<main, config, stored, untried, listener, listenAddr, foreign, faults, history>>

\* ... and the address tried once more ...
RestartRetries(r) ==
    /\ req[r].pc = "retry"
    /\ \/ /\ CanListen(Target(r))
          /\ Activate(Target(r), {})
          /\ Returns(r, TRUE)
          /\ lock' = None
       \/ /\ ~CanListen(Target(r))
          /\ req' = [req EXCEPT ![r] = [req[r] EXCEPT !.pc = "restore"]]
          /\ UNCHANGED <<sock, listener, listenAddr, lock>>
    /\ UNCHANGED <<main, config, stored, untried, foreign, faults, history>>

\* Mutant of RestartRestores: the failure is returned at once.
RestartGivesUp(r) ==
    /\ req[r].pc = "restore"
    /\ listener' = None /\ listenAddr' = None /\ UNCHANGED sock
    /\ Reports(r, TRUE)
    /\ Returns(r, FALSE)
    /\ lock' = None
    /\ UNCHANGED <<main, config, stored, untried, foreign, faults>>

\* ... and then the old one, which another process may have taken.
RestartRestores(r) ==
    /\ req[r].pc = "restore"
    /\ \/ CanListen(listenAddr) /\ Activate(listenAddr, {}) /\ Reports(r, req[r].undo)
       \/ /\ ~CanListen(listenAddr)
          /\ listener' = None /\ listenAddr' = None /\ UNCHANGED sock
          /\ Reports(r, TRUE)
    /\ Returns(r, FALSE)
    /\ lock' = None
    /\ UNCHANGED <<main, config, stored, untried, foreign, faults>>

-----------------------------------------------------------------------------
(* handleUpdateSettings and handlePutListeners *)

\* The address in use is remembered for a roll-back. It is read under the mutex.
PutSettings(r, a) ==
    /\ main = "serving"
    /\ req[r] = Idle
    /\ lock = None
    /\ req' = [req EXCEPT ![r] = [Idle EXCEPT !.pc = "restart", !.addr = a, !.old = listenAddr]]
    /\ history' = [history EXCEPT !.overlapped =
                       history.overlapped \/ \E q \in Requests : req[q] # Idle]
    /\ UNCHANGED <<main, config, stored, untried, sock, listener, listenAddr, lock, foreign,
                   faults>>

\* SetSetting
Save(r) ==
    /\ req[r].pc = "save"
    /\ stored' = [stored EXCEPT !.ssh = req[r].addr]
    /\ req' = [req EXCEPT ![r] = Idle]
    /\ history' = [history EXCEPT !.reported = FALSE]
    /\ UNCHANGED <<main, config, untried, sock, listener, listenAddr, lock, foreign, faults>>

\* Mutant of SaveFails: answers with the error, and does not go back.
SaveFailsOnly(r) ==
    /\ req[r].pc = "save"
    /\ Fault
    /\ req' = [req EXCEPT ![r] = Idle]
    /\ UNCHANGED <<main, config, stored, untried, sock, listener, listenAddr, lock, foreign,
                   history>>

\* The listener goes back to the address that was read first.
SaveFails(r) ==
    /\ req[r].pc = "save"
    /\ Fault
    /\ req' = [req EXCEPT ![r] = [req[r] EXCEPT !.pc = "restart", !.undo = TRUE]]
    /\ UNCHANGED <<main, config, stored, untried, sock, listener, listenAddr, lock, foreign,
                   history>>

\* The addresses of the next start.
PutListeners(web, agent) ==
    /\ main = "serving"
    /\ Valid(web, agent)
    /\ stored' = [stored EXCEPT !.web = web, !.agent = agent]
    /\ untried' = (untried \/ <<web, agent>> # <<stored.web, stored.agent>>)
    /\ UNCHANGED <<main, config, sock, listener, listenAddr, lock, req, foreign, faults, history>>

-----------------------------------------------------------------------------
Main ==
    \/ \E ssh \in SshAddrs, web, agent \in WebAddrs :
        Start([ssh |-> ssh, web |-> web, agent |-> agent])
    \/ SaveSsh \/ BindWeb \/ BindAgent \/ BindFails \/ SaveListeners \/ Crash

Restart(r) ==
    \/ RestartSame(r) \/ RestartBinds(r) \/ RestartRefused(r) \/ RestartCloses(r)
    \/ RestartRetries(r) \/ RestartRestores(r)

Next ==
    \/ Main
    \/ \E r \in Requests :
        \/ \E a \in SshAddrs : PutSettings(r, a)
        \/ Restart(r) \/ Save(r) \/ SaveFails(r)
    \/ \E web, agent \in WebAddrs : PutListeners(web, agent)
    \/ \E a \in ForeignAddrs : ForeignBinds(a) \/ ForeignCloses(a)

Spec == Init /\ [][Next]_vars

-----------------------------------------------------------------------------
(* Safety *)

Quiet == main = "serving" /\ \A r \in Requests : req[r] = Idle

\* The socket that is open is the one Proxy.listener names: a change, a failed change and
\* a roll-back leave no old socket open and close none that is still named.
SocketsAccounted ==
    sock["ssh"] = IF lock # None THEN {} ELSE {listener} \ {None}

\* A change of the address that fails does not end the service: the proxy is without a
\* listener only if another process took the port in the moment in which it was free.
KeepsServing ==
    main = "serving" /\ listener = None => history.stolen

\* The address that is stored is the one that is served, also after a failed change or a
\* failed save, unless the administrator was told that the old listener is not back. This
\* is the promise of handleUpdateSettings to requests that do not overlap.
SavedIsServed ==
    Quiet /\ ~history.overlapped /\ ~history.reported => listenAddr = stored.ssh

\* The addresses with which the program has served can be had again: until an address is
\* stored that was not bound beside the others (PUT listeners, and an SSH address given by a
\* flag), the next start can bind all three unless another process has one of them. A start
\* that failed, a change of the SSH address, its roll-back and overlapping changes, none of
\* them stores addresses that exclude one another.
Restartable ==
    ~untried =>
        /\ {stored.ssh, stored.web, stored.agent} \cap Unusable = {}
        /\ ~Conflict(stored.ssh, stored.web) /\ ~Conflict(stored.ssh, stored.agent)
        /\ ~Conflict(stored.web, stored.agent)
=============================================================================
