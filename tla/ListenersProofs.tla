--------------------------- MODULE ListenersProofs ---------------------------
(***************************************************************************)
(* Proofs about Listeners, for any number of requests, any addresses and   *)
(* any number of sockets of other processes and of faults.                 *)
(***************************************************************************)
EXTENDS Listeners, TLAPS

-----------------------------------------------------------------------------
\* main: what it has opened and checked so far. Requests are served only at the end.
MainInv ==
    /\ main = "down" => listener = None /\ \A s \in {"ssh", "web", "agent"} : sock[s] = {}
    /\ main # "serving" =>
        /\ lock = None /\ \A r \in Requests : req[r] = Idle
        /\ ~history.overlapped /\ ~history.reported /\ ~history.stolen
    /\ main \notin {"down", "serving"} => listener \in SshAddrs /\ listenAddr = config.ssh
    /\ main \in {"bind", "web", "bound"} => stored.ssh = config.ssh
    /\ main \in {"web", "bound"} => Valid(config.web, config.agent)

\* A request holds what its step needs; the one that has closed the listener has the mutex,
\* and a listener with an address of its own to go back to.
RequestInv ==
    /\ \A r \in Requests :
        /\ req[r].pc = "idle" => req[r] = Idle
        /\ req[r].pc # "idle" => req[r].addr \in SshAddrs
        /\ req[r].pc = "save" => ~req[r].undo
        /\ req[r].pc \in {"retry", "restore"} <=> lock = r
    /\ lock # None => listener \in SshAddrs

\* The two fields of the Proxy agree.
NamesAgree == IF listener = None THEN listenAddr = None ELSE listener = Socket(listenAddr)

\* No other socket is in the way of the address of the listener, unless another process
\* has bound one while the listener was closed: going back to it succeeds.
Regainable ==
    listener \in SshAddrs /\ (lock = None \/ ~history.stolen) =>
        /\ listener \notin Unusable
        /\ \A b \in foreign \cup sock["web"] \cup sock["agent"] : ~Conflict(listener, b)

OneRequest ==
    ~history.overlapped =>
        \A q, r \in Requests : req[q].pc # "idle" /\ req[r].pc # "idle" => q = r

\* A request that has changed the address is about to save it; until then, and while it goes
\* back, what it remembers is what is stored.
SavedInv ==
    main = "serving" /\ ~history.overlapped =>
        /\ ~history.reported /\ (\A r \in Requests : req[r].pc = "idle") => listenAddr = stored.ssh
        /\ \A r \in Requests : req[r].pc # "idle" =>
            /\ req[r].pc = "save" => listenAddr = req[r].addr
            /\ ~history.reported =>
                /\ req[r].old = stored.ssh
                /\ req[r].pc # "save" /\ ~req[r].undo => listenAddr = stored.ssh

\* The web and the agent socket are held from their binding to the end of the process, so
\* an address that was bound for the SSH listener, and is about to be saved, does not
\* exclude theirs. They are those that are stored, as far as the stored ones are tried.
HeldInv ==
    /\ main \in {"web", "bound", "serving"} =>
        config.web \notin Unusable /\ sock["web"] = {config.web}
    /\ main \in {"bound", "serving"} =>
        /\ config.agent \notin Unusable /\ sock["agent"] = {config.agent}
        /\ ~Conflict(config.web, config.agent)
    /\ main = "serving" /\ ~untried => stored.web = config.web /\ stored.agent = config.agent
    /\ \A r \in Requests : req[r].pc = "save" =>
        /\ req[r].addr \notin Unusable
        /\ ~Conflict(req[r].addr, config.web) /\ ~Conflict(req[r].addr, config.agent)

ListenersInv ==
    /\ TypeOK /\ MainInv /\ RequestInv /\ NamesAgree /\ SocketsAccounted /\ Regainable
    /\ KeepsServing /\ OneRequest /\ SavedInv /\ HeldInv /\ Restartable

Services == {"ssh", "web", "agent"}
Request == [pc : {"idle", "restart", "retry", "restore", "save"}, addr : SshAddrs \cup {None},
            old : SshAddrs \cup {None}, undo : BOOLEAN]

LEMMA Facts ==
    /\ Idle \in Request /\ Idle.pc = "idle" /\ Idle.undo = FALSE /\ Idle.old = None
    /\ SshAddrs \subseteq Addrs /\ None \notin Addrs \cup Requests /\ Random \notin Addrs /\ None # Random
    /\ \A a, b : Conflict(a, b) => Conflict(b, a)
    /\ \A a \in SshAddrs : Socket(a) = a
    /\ Socket(None) = Random
    /\ ~Nothing.overlapped /\ ~Nothing.reported /\ ~Nothing.stolen
    /\ Nothing \in [overlapped : BOOLEAN, reported : BOOLEAN, stolen : BOOLEAN]
BY ListenersAssumption DEF Idle, Request, Addrs, Conflict, Socket, Nothing

LEMMA ListenersInit == Init => ListenersInv
<1> SUFFICES ASSUME Init PROVE ListenersInv
  OBVIOUS
<1> USE Facts, ListenersAssumption
<1>1. TypeOK
  <2>1. req \in [Requests -> Request]
    BY DEF Init
  <2> QED BY <2>1 DEF Init, TypeOK, Request
<1>2. MainInv
  BY DEF Init, MainInv
<1>3. RequestInv /\ NamesAgree /\ OneRequest
  BY DEF Init, RequestInv, NamesAgree, OneRequest
<1>4. SocketsAccounted /\ Regainable /\ KeepsServing /\ SavedInv
  BY DEF Init, SocketsAccounted, Regainable, KeepsServing, SavedInv
<1>5. HeldInv /\ Restartable
  BY DEF Init, HeldInv, Restartable
<1> QED BY <1>1, <1>2, <1>3, <1>4, <1>5 DEF ListenersInv

\* What is open stays apart from what is bound.
LEMMA FreeMeans ==
    ASSUME TypeOK, NEW a, Free(a)
    PROVE  \A b \in foreign \cup sock["ssh"] \cup sock["web"] \cup sock["agent"] :
               ~Conflict(a, b) /\ ~Conflict(b, a)
<1>1. DOMAIN sock = {"ssh", "web", "agent"}
  BY DEF TypeOK
<1> QED BY <1>1, Facts DEF Free, InUse

LEMMA ExitInv ==
    ASSUME ListenersInv, Exit, UNCHANGED <<config, stored, untried, foreign>>,
                                           faults' \in 0..MaxFaults
    PROVE  ListenersInv'
<1> USE Facts DEF Exit, ListenersInv
<1>1. TypeOK'
  <2>1. req' \in [Requests -> Request]
    OBVIOUS
  <2> QED BY <2>1 DEF TypeOK, Request
<1>2. MainInv'
  BY DEF MainInv
<1>3. RequestInv' /\ NamesAgree' /\ OneRequest'
  <2>1. \A r \in Requests : req'[r] = Idle /\ req'[r].pc = "idle"
    OBVIOUS
  <2>2. \A r \in Requests : lock' # r
    BY DEF TypeOK, RequestInv
  <2> QED BY <2>1, <2>2 DEF RequestInv, NamesAgree, OneRequest
<1>4. SocketsAccounted' /\ Regainable' /\ KeepsServing' /\ SavedInv' /\ Restartable'
  BY DEF SocketsAccounted, Regainable, KeepsServing, SavedInv, Restartable
<1>5. HeldInv'
  BY DEF HeldInv
<1> QED BY <1>1, <1>2, <1>3, <1>4, <1>5

LEMMA MainInv_Step ==
    ASSUME ListenersInv, Main
    PROVE  ListenersInv'
<1> USE Facts
<1>0. TypeOK /\ DOMAIN sock = Services
  BY DEF ListenersInv, TypeOK, Services
<1>1. ASSUME NEW ssh \in SshAddrs, NEW web \in WebAddrs, NEW agent \in WebAddrs,
             Start([ssh |-> ssh, web |-> web, agent |-> agent])
      PROVE  ListenersInv'
  <2>1. PICK c \in Settings : Start(c) /\ c.ssh \in SshAddrs
    BY <1>1 DEF Settings
  <2>2. /\ sock'["ssh"] = {c.ssh} /\ sock'["web"] = sock["web"] /\ sock'["agent"] = sock["agent"]
        /\ sock' \in [Services -> SUBSET (Addrs \cup {Random})]
    BY <2>1 DEF Start, ListenersInv, TypeOK, Services
  <2>3. TypeOK'
    BY <2>1, <2>2 DEF Start, ListenersInv, TypeOK, Services
  <2>4. MainInv' /\ RequestInv' /\ NamesAgree' /\ SocketsAccounted'
    BY <2>1, <2>2 DEF Start, ListenersInv, MainInv, RequestInv, NamesAgree, SocketsAccounted
  <2>5. Regainable'
    BY <1>0, <2>1, <2>2, FreeMeans DEF Start, Regainable, CanListen
  <2>6. KeepsServing' /\ OneRequest' /\ SavedInv' /\ HeldInv' /\ Restartable'
    BY <2>1 DEF Start, ListenersInv, MainInv, KeepsServing, OneRequest, SavedInv, HeldInv,
                Restartable
  <2> QED BY <2>3, <2>4, <2>5, <2>6 DEF ListenersInv
<1>2. CASE SaveSsh
  <2>1. TypeOK'
    BY <1>2 DEF SaveSsh, ListenersInv, TypeOK, Settings
  <2>2. MainInv'
    BY <1>2 DEF SaveSsh, ListenersInv, TypeOK, MainInv, Settings
  <2>3. RequestInv' /\ NamesAgree' /\ SocketsAccounted' /\ Regainable'
    BY <1>2 DEF SaveSsh, ListenersInv, RequestInv, NamesAgree, SocketsAccounted, Regainable
  <2>4. KeepsServing' /\ OneRequest' /\ SavedInv' /\ HeldInv'
    BY <1>2 DEF SaveSsh, ListenersInv, KeepsServing, OneRequest, SavedInv, HeldInv
  <2>5. Restartable'
    <3>1. ~untried' => ~untried /\ config.ssh = stored.ssh
      BY <1>2 DEF SaveSsh
    <3>2. /\ stored'.ssh = config.ssh
          /\ stored'.web = stored.web /\ stored'.agent = stored.agent
      BY <1>0, <1>2 DEF SaveSsh, TypeOK, Settings
    <3> QED BY <3>1, <3>2 DEF ListenersInv, Restartable
  <2> QED BY <2>1, <2>2, <2>3, <2>4, <2>5 DEF ListenersInv
<1>3. CASE BindWeb \/ BindAgent
  <2>1. PICK s \in {"web", "agent"}, a \in Addrs :
            CanListen(a) /\ sock' = [sock EXCEPT ![s] = {a}]
    BY <1>3 DEF BindWeb, BindAgent, ListenersInv, TypeOK, Settings, Addrs
  <2>2. /\ sock'["ssh"] = sock["ssh"] /\ sock' \in [Services -> SUBSET (Addrs \cup {Random})]
        /\ sock'["web"] \subseteq sock["web"] \cup {a}
        /\ sock'["agent"] \subseteq sock["agent"] \cup {a}
    BY <1>0, <2>1 DEF TypeOK, Services
  <2>3. /\ UNCHANGED <<config, stored, untried, listener, listenAddr, lock, req, foreign,
                       faults, history>>
        /\ main \in {"bind", "web"} /\ main' \in {"web", "bound"}
        /\ Valid(config.web, config.agent)
    BY <1>3 DEF BindWeb, BindAgent, ListenersInv, MainInv
  <2>4. TypeOK' /\ MainInv'
    BY <2>2, <2>3 DEF ListenersInv, TypeOK, MainInv, Services
  <2>5. RequestInv' /\ NamesAgree' /\ SocketsAccounted'
    BY <2>2, <2>3 DEF ListenersInv, RequestInv, NamesAgree, SocketsAccounted
  <2>6. Regainable'
    <3>1. listener \in SshAddrs => ~Conflict(listener, a)
      BY <1>0, <2>1, <2>3, FreeMeans DEF ListenersInv, MainInv, SocketsAccounted, CanListen
    <3> QED BY <2>2, <2>3, <3>1 DEF ListenersInv, Regainable
  <2>7. KeepsServing' /\ OneRequest' /\ SavedInv' /\ Restartable'
    BY <2>3 DEF ListenersInv, KeepsServing, OneRequest, SavedInv, Restartable
  <2>8. HeldInv'
    <3>1. \A r \in Requests : req'[r].pc # "save"
      BY <2>3, Facts DEF ListenersInv, MainInv
    <3>2. CASE BindWeb
      <4>1. sock'["web"] = {config.web} /\ config.web \notin Unusable /\ main' = "web"
        BY <1>0, <3>2 DEF BindWeb, CanListen, Services, TypeOK
      <4> QED BY <2>3, <3>1, <4>1 DEF HeldInv
    <3>3. CASE BindAgent
      <4>1. /\ sock'["agent"] = {config.agent} /\ sock'["web"] = sock["web"]
            /\ sock["web"] = {config.web} /\ config.web \notin Unusable
            /\ config.agent \notin Unusable /\ main' = "bound"
        BY <1>0, <3>3 DEF BindAgent, CanListen, Services, TypeOK, ListenersInv, HeldInv
      <4>2. ~Conflict(config.web, config.agent)
        BY <1>0, <3>3, <4>1, FreeMeans DEF BindAgent, CanListen
      <4> QED BY <2>3, <3>1, <4>1, <4>2 DEF HeldInv
    <3> QED BY <1>3, <3>2, <3>3
  <2> QED BY <2>4, <2>5, <2>6, <2>7, <2>8 DEF ListenersInv
<1>4. CASE BindFails
  BY <1>0, <1>4, ExitInv DEF BindFails, TypeOK
<1>5. CASE SaveListeners
  <2>1. TypeOK' /\ stored'.ssh = stored.ssh /\ stored'.web = config.web /\ stored'.agent = config.agent
    BY <1>5 DEF SaveListeners, ListenersInv, TypeOK, Settings
  <2>2. MainInv' /\ RequestInv' /\ NamesAgree' /\ SocketsAccounted' /\ Regainable'
    BY <1>5 DEF SaveListeners, ListenersInv, MainInv, RequestInv, NamesAgree, SocketsAccounted,
                Regainable
  <2>3. KeepsServing' /\ OneRequest'
    BY <1>5 DEF SaveListeners, ListenersInv, MainInv, KeepsServing, OneRequest
  <2>4. SavedInv' /\ HeldInv'
    BY <1>5, <2>1 DEF SaveListeners, ListenersInv, MainInv, SavedInv, HeldInv
  <2>5. Restartable'
    <3>1. /\ listener = config.ssh /\ listener \in SshAddrs /\ lock = None
          /\ stored'.ssh = listener
      <4>1. listener \in SshAddrs /\ listenAddr = config.ssh /\ lock = None
            /\ stored.ssh = config.ssh
        BY <1>5 DEF SaveListeners, ListenersInv, MainInv
      <4>2. config.ssh \in SshAddrs
        BY <1>0 DEF TypeOK, Settings
      <4>3. listener = Socket(listenAddr)
        BY <4>1 DEF ListenersInv, NamesAgree
      <4> QED BY <2>1, <4>1, <4>2, <4>3
    <3>2. /\ listener \notin Unusable
          /\ ~Conflict(listener, config.web) /\ ~Conflict(listener, config.agent)
      BY <1>5, <3>1 DEF SaveListeners, ListenersInv, Regainable, HeldInv
    <3> QED BY <1>5, <2>1, <3>1, <3>2 DEF SaveListeners, ListenersInv, HeldInv, Restartable
  <2> QED BY <2>1, <2>2, <2>3, <2>4, <2>5 DEF ListenersInv
<1>6. CASE Crash
  <2>1. faults' \in 0..MaxFaults
    BY <1>0, <1>6, ListenersAssumption DEF Crash, Fault, TypeOK
  <2> QED BY <1>6, <2>1, ExitInv DEF Crash
<1> QED BY <1>1, <1>2, <1>3, <1>4, <1>5, <1>6 DEF Main

LEMMA ForeignInv ==
    ASSUME ListenersInv, NEW a \in ForeignAddrs, ForeignBinds(a) \/ ForeignCloses(a)
    PROVE  ListenersInv'
<1> USE Facts
<1>1. /\ UNCHANGED <<main, config, stored, untried, sock, listener, listenAddr, lock, req,
                     faults>>
      /\ history'.overlapped = history.overlapped /\ history'.reported = history.reported
      /\ history.stolen => history'.stolen
      /\ foreign' \in SUBSET ForeignAddrs
      /\ history' \in [overlapped : BOOLEAN, reported : BOOLEAN, stolen : BOOLEAN]
      /\ lock = None => history'.stolen = history.stolen
  <2>1. PICK b \in BOOLEAN : b <=> history.stolen \/ lock # None
    OBVIOUS
  <2>2. ForeignBinds(a) => history' = [history EXCEPT !.stolen = b]
    BY <2>1 DEF ForeignBinds
  <2> QED BY <2>1, <2>2 DEF ForeignBinds, ForeignCloses, ListenersInv, TypeOK
<1>2. TypeOK' /\ MainInv' /\ RequestInv'
  BY <1>1 DEF ListenersInv, TypeOK, MainInv, RequestInv
<1>3. /\ NamesAgree' /\ SocketsAccounted' /\ KeepsServing' /\ OneRequest' /\ SavedInv'
      /\ HeldInv' /\ Restartable'
  BY <1>1 DEF ListenersInv, NamesAgree, SocketsAccounted, KeepsServing, OneRequest, SavedInv,
              HeldInv, Restartable
<1>4. Regainable'
  <2>1. CASE ForeignBinds(a) /\ lock = None
    <3>1. listener \in SshAddrs => ~Conflict(listener, a)
      BY <2>1, FreeMeans DEF ForeignBinds, ListenersInv, SocketsAccounted
    <3> QED BY <1>1, <2>1, <3>1 DEF ForeignBinds, ListenersInv, Regainable
  <2>2. CASE ForeignBinds(a) /\ lock # None
    BY <1>1, <2>2 DEF ForeignBinds, Regainable, ListenersInv, TypeOK
  <2>3. CASE ForeignCloses(a)
    BY <1>1, <2>3 DEF ForeignCloses, ListenersInv, Regainable
  <2> QED BY <2>1, <2>2, <2>3
<1> QED BY <1>2, <1>3, <1>4 DEF ListenersInv

\* A request that is at work is served by a main that has come to its end.
LEMMA Busy ==
    ASSUME ListenersInv, NEW r \in Requests, req[r].pc # "idle"
    PROVE  /\ main = "serving" /\ req[r] \in Request /\ req[r].addr \in SshAddrs
           /\ req \in [Requests -> Request]
           /\ ~history.overlapped => \A q \in Requests \ {r} : req[q].pc = "idle"
BY Facts DEF ListenersInv, TypeOK, MainInv, RequestInv, OneRequest, Request

\* Restart returns: nothing has changed, or an address has been bound, or the old one is
\* lost.
LEMMA RestartEnds ==
    ASSUME ListenersInv, NEW r \in Requests, req[r].pc \in {"restart", "retry", "restore"},
           lock \in {None, r}, lock' = None,
           UNCHANGED <<main, config, stored, untried, foreign, faults>>,
           sock' \in [Services -> SUBSET (Addrs \cup {Random})],
           sock'["web"] = sock["web"], sock'["agent"] = sock["agent"],
           \/ lock = None /\ UNCHANGED <<sock, listener, listenAddr>>
           \/ /\ listenAddr' \in SshAddrs \cup {None} /\ CanListen(listenAddr')
              /\ listener' = Socket(listenAddr') /\ sock'["ssh"] = {Socket(listenAddr')}
           \/ listener' = None /\ listenAddr' = None /\ sock'["ssh"] = {} /\ history.stolen,
           history' \in [overlapped : BOOLEAN, reported : BOOLEAN, stolen : BOOLEAN],
           history'.overlapped = history.overlapped, history'.stolen = history.stolen,
           ~history'.reported => ~history.reported,
           \/ Returns(r, TRUE) /\ listenAddr' = Target(r)
           \/ /\ Returns(r, FALSE)
              /\ ~history'.reported => ~req[r].undo /\ UNCHANGED listenAddr
    PROVE  ListenersInv'
<1> USE Facts
<1>1. main = "serving" /\ req \in [Requests -> Request]
  BY Busy
<1>2. PICK s \in Request :
          /\ req' = [req EXCEPT ![r] = s]
          /\ \/ s = Idle /\ req[r].undo /\ listenAddr' = Target(r)
             \/ s = Idle /\ (~history'.reported => ~req[r].undo /\ UNCHANGED listenAddr)
             \/ /\ s.pc = "save" /\ s.addr = req[r].addr /\ s.old = req[r].old
                /\ ~s.undo /\ ~req[r].undo /\ listenAddr' = Target(r)
  <2>1. CASE ~req[r].undo /\ Returns(r, TRUE) /\ listenAddr' = Target(r)
    <3>1. PICK s \in Request : s = [req[r] EXCEPT !.pc = "save"]
      BY <1>1 DEF Request
    <3>2. s.pc = "save" /\ s.addr = req[r].addr /\ s.old = req[r].old /\ s.undo = req[r].undo
      BY <1>1, <3>1 DEF Request
    <3> QED BY <2>1, <3>1, <3>2 DEF Returns
  <2>2. CASE req[r].undo /\ Returns(r, TRUE) /\ listenAddr' = Target(r)
    BY <2>2 DEF Returns
  <2>3. CASE Returns(r, FALSE) /\ (~history'.reported => ~req[r].undo /\ UNCHANGED listenAddr)
    BY <2>3 DEF Returns
  <2> QED BY <2>1, <2>2, <2>3
<1>3. /\ req' \in [Requests -> Request] /\ req'[r] = s
      /\ \A q \in Requests \ {r} : req'[q] = req[q]
  BY <1>1, <1>2
<1>4. listenAddr' \in SshAddrs \cup {None} /\ listener' \in SshAddrs \cup {Random, None}
  BY DEF ListenersInv, TypeOK
<1>5. TypeOK'
  BY <1>3, <1>4 DEF ListenersInv, TypeOK, Request, Services
<1>6. MainInv'
  BY <1>1 DEF MainInv
<1>7. RequestInv'
  <2>1. \A q \in Requests : req'[q].pc \notin {"retry", "restore"}
    BY <1>2, <1>3 DEF ListenersInv, RequestInv
  <2>2. \A q \in Requests : /\ req'[q].pc = "idle" => req'[q] = Idle
                            /\ req'[q].pc # "idle" => req'[q].addr \in SshAddrs
                            /\ req'[q].pc = "save" => ~req'[q].undo
    BY <1>2, <1>3, Busy DEF ListenersInv, RequestInv
  <2>3. \A q \in Requests : lock' # q
    OBVIOUS
  <2> QED BY <2>1, <2>2, <2>3 DEF RequestInv
<1>8. NamesAgree' /\ SocketsAccounted' /\ KeepsServing'
  BY DEF ListenersInv, NamesAgree, SocketsAccounted, KeepsServing, TypeOK
<1>9. Regainable'
  <2>1. CASE lock = None /\ UNCHANGED <<sock, listener, listenAddr>>
    BY <2>1 DEF ListenersInv, Regainable
  <2>2. CASE /\ listenAddr' \in SshAddrs \cup {None} /\ CanListen(listenAddr')
             /\ listener' = Socket(listenAddr')
    <3>1. PICK a \in SshAddrs \cup {None} : a = listenAddr'
      BY <2>2
    <3>2. CanListen(a) /\ listener' = Socket(a)
      BY <2>2, <3>1
    <3> QED BY <3>2, FreeMeans DEF ListenersInv, Regainable, CanListen
  <2>3. CASE listener' = None
    BY <2>3 DEF Regainable
  <2> QED BY <2>1, <2>2, <2>3
<1>10. OneRequest'
  BY <1>3, Busy DEF ListenersInv, OneRequest
<1>11. SavedInv'
  <2> SUFFICES ASSUME ~history.overlapped PROVE SavedInv'
    BY DEF SavedInv
  <2>1. \A q \in Requests \ {r} : req'[q].pc = "idle"
    BY <1>3, Busy
  <2>2. ~history.reported => /\ req[r].old = stored.ssh
                             /\ ~req[r].undo => listenAddr = stored.ssh
    BY <1>1 DEF ListenersInv, SavedInv
  <2>3. CASE \/ s = Idle /\ req[r].undo /\ listenAddr' = Target(r)
             \/ s = Idle /\ (~history'.reported => ~req[r].undo /\ UNCHANGED listenAddr)
    BY <1>3, <2>1, <2>2, <2>3 DEF SavedInv, Target
  <2>4. CASE /\ s.pc = "save" /\ s.addr = req[r].addr /\ s.old = req[r].old
             /\ ~s.undo /\ ~req[r].undo /\ listenAddr' = Target(r)
    BY <1>3, <2>1, <2>2, <2>4 DEF SavedInv, Target
  <2> QED BY <1>2, <2>3, <2>4
<1>12. Restartable'
  BY DEF ListenersInv, Restartable
<1>13. HeldInv'
  <2>1. /\ sock'["web"] = {config.web} /\ sock'["agent"] = {config.agent}
        /\ sock["web"] = {config.web} /\ sock["agent"] = {config.agent}
    BY <1>1 DEF ListenersInv, HeldInv
  <2>2. ASSUME s.pc = "save"
        PROVE  /\ s.addr \notin Unusable
               /\ ~Conflict(s.addr, config.web) /\ ~Conflict(s.addr, config.agent)
    <3>1. s.addr \in SshAddrs /\ listenAddr' = s.addr
      BY <1>2, <2>2, Busy DEF Target, Idle
    <3>2. listener' = s.addr
      BY <1>8, <3>1 DEF NamesAgree
    <3> QED BY <1>9, <2>1, <3>1, <3>2 DEF Regainable
  <2>3. ASSUME NEW q \in Requests, req'[q].pc = "save"
        PROVE  /\ req'[q].addr \notin Unusable
               /\ ~Conflict(req'[q].addr, config.web) /\ ~Conflict(req'[q].addr, config.agent)
    BY <1>3, <2>2, <2>3 DEF ListenersInv, HeldInv
  <2> QED BY <1>1, <2>1, <2>3 DEF ListenersInv, HeldInv
<1> QED BY <1>5, <1>6, <1>7, <1>8, <1>9, <1>10, <1>11, <1>12, <1>13 DEF ListenersInv

\* Restart goes on: the old listener is closed, or the address was in use once more.
LEMMA RestartGoesOn ==
    ASSUME ListenersInv, NEW r \in Requests,
           \/ RestartCloses(r)
           \/ RestartRetries(r) /\ ~CanListen(Target(r))
    PROVE  ListenersInv'
<1> USE Facts
<1>1. /\ main = "serving" /\ req \in [Requests -> Request] /\ req[r] \in Request
      /\ req[r].pc \in {"restart", "retry"}
  BY Busy DEF RestartCloses, RestartRetries, Restarting
<1>2. PICK p \in {"retry", "restore"} : req' = [req EXCEPT ![r] = [req[r] EXCEPT !.pc = p]]
  BY DEF RestartCloses, RestartRetries
<1>3. /\ req' \in [Requests -> Request] /\ req'[r].pc = p /\ req'[r].addr = req[r].addr
      /\ req'[r].old = req[r].old /\ req'[r].undo = req[r].undo
      /\ \A q \in Requests \ {r} : req'[q] = req[q]
  BY <1>1, <1>2 DEF Request
<1>4. /\ lock \in {None, r} /\ lock' = r /\ listener \in SshAddrs /\ sock'["ssh"] = {}
      /\ sock' \in [Services -> SUBSET (Addrs \cup {Random})]
      /\ sock'["web"] = sock["web"] /\ sock'["agent"] = sock["agent"]
      /\ UNCHANGED <<main, config, stored, untried, listener, listenAddr, foreign, faults,
                     history>>
  <2>1. CASE RestartCloses(r)
    BY <2>1 DEF RestartCloses, Restarting, sameTCPPort, ListenersInv, TypeOK, Services
  <2>2. CASE RestartRetries(r) /\ ~CanListen(Target(r))
    <3>1. lock = r
      BY <2>2 DEF RestartRetries, ListenersInv, RequestInv
    <3> QED BY <2>2, <3>1 DEF RestartRetries, ListenersInv, TypeOK, RequestInv, SocketsAccounted,
                             Services
  <2> QED BY <2>1, <2>2
<1>5. TypeOK' /\ MainInv'
  BY <1>1, <1>3, <1>4 DEF ListenersInv, TypeOK, MainInv, Request, Services
<1>6. RequestInv'
  <2>1. \A q \in Requests : req'[q].pc \in {"retry", "restore"} <=> lock' = q
    BY <1>3, <1>4 DEF ListenersInv, RequestInv
  <2>2. \A q \in Requests : /\ req'[q].pc = "idle" => req'[q] = Idle
                            /\ req'[q].pc # "idle" => req'[q].addr \in SshAddrs
                            /\ req'[q].pc = "save" => ~req'[q].undo
    BY <1>1, <1>3, Busy DEF ListenersInv, RequestInv
  <2> QED BY <1>4, <2>1, <2>2 DEF RequestInv
<1>7. NamesAgree' /\ SocketsAccounted' /\ KeepsServing' /\ Restartable'
  BY <1>4 DEF ListenersInv, NamesAgree, SocketsAccounted, KeepsServing, Restartable
<1>8. Regainable'
  BY <1>4 DEF ListenersInv, Regainable
<1>9. OneRequest'
  BY <1>1, <1>3, <1>4, Busy DEF ListenersInv, OneRequest
<1>10. SavedInv'
  BY <1>1, <1>3, <1>4, Busy DEF ListenersInv, SavedInv
<1>11. HeldInv'
  BY <1>3, <1>4 DEF ListenersInv, HeldInv
<1> QED BY <1>5, <1>6, <1>7, <1>8, <1>9, <1>10, <1>11 DEF ListenersInv

LEMMA RestartInv ==
    ASSUME ListenersInv, NEW r \in Requests, Restart(r)
    PROVE  ListenersInv'
<1> USE Facts
<1>0. /\ main = "serving" /\ req \in [Requests -> Request] /\ req[r] \in Request
      /\ sock \in [Services -> SUBSET (Addrs \cup {Random})]
      /\ history \in [overlapped : BOOLEAN, reported : BOOLEAN, stolen : BOOLEAN]
  BY Busy DEF Restart, RestartSame, RestartBinds, RestartRefused, RestartCloses, RestartRetries,
              RestartRestores, Restarting, ListenersInv, TypeOK, Services
<1>1. Target(r) \in SshAddrs \cup {None}
  BY <1>0 DEF Target, Request
\* An address is bound instead of the one of the listener.
<1>2. ASSUME NEW a \in SshAddrs \cup {None}, NEW old, sock["ssh"] \ old = {},
             Activate(a, sock["ssh"] \ old)
      PROVE  /\ sock' \in [Services -> SUBSET (Addrs \cup {Random})]
             /\ sock'["web"] = sock["web"] /\ sock'["agent"] = sock["agent"]
             /\ listener' = Socket(a) /\ listenAddr' = a /\ sock'["ssh"] = {Socket(a)}
  BY <1>0, <1>2 DEF Activate, Services
<1>3. ASSUME NEW b \in BOOLEAN, Reports(r, b)
      PROVE  /\ history' \in [overlapped : BOOLEAN, reported : BOOLEAN, stolen : BOOLEAN]
             /\ history'.overlapped = history.overlapped /\ history'.stolen = history.stolen
             /\ ~history'.reported => ~history.reported /\ ~b
  <2>1. PICK h \in BOOLEAN : h <=> history.reported \/ b
    OBVIOUS
  <2>2. history' = [history EXCEPT !.reported = h]
    BY <1>3, <2>1 DEF Reports
  <2> QED BY <1>0, <2>1, <2>2
<1>4. CASE RestartSame(r)
  BY <1>0, <1>4, RestartEnds DEF RestartSame, Restarting
<1>5. CASE RestartBinds(r)
  <2>1. sock["ssh"] \ {listener} = {} /\ lock = None
    BY <1>5 DEF RestartBinds, Restarting, ListenersInv, SocketsAccounted
  <2>2. Activate(Target(r), sock["ssh"] \ {listener}) /\ CanListen(Target(r))
    BY <1>5 DEF RestartBinds
  <2>3. /\ sock' \in [Services -> SUBSET (Addrs \cup {Random})]
        /\ sock'["web"] = sock["web"] /\ sock'["agent"] = sock["agent"]
        /\ listener' = Socket(Target(r)) /\ listenAddr' = Target(r)
        /\ sock'["ssh"] = {Socket(Target(r))}
    BY <1>1, <1>2, <2>1, <2>2
  <2>4. /\ req[r].pc = "restart" /\ Returns(r, TRUE)
        /\ UNCHANGED <<main, config, stored, untried, lock, foreign, faults, history>>
    BY <1>5 DEF RestartBinds, Restarting
  <2> QED BY <1>0, <1>1, <2>1, <2>2, <2>3, <2>4, RestartEnds
<1>6. CASE RestartRefused(r)
  <2>1. req[r].undo \in BOOLEAN
    BY <1>0 DEF Request
  <2>2. /\ history' \in [overlapped : BOOLEAN, reported : BOOLEAN, stolen : BOOLEAN]
        /\ history'.overlapped = history.overlapped /\ history'.stolen = history.stolen
        /\ ~history'.reported => ~history.reported /\ ~req[r].undo
    BY <1>3, <1>6, <2>1 DEF RestartRefused
  <2>3. /\ req[r].pc = "restart" /\ Returns(r, FALSE) /\ lock = None
        /\ UNCHANGED <<main, config, stored, untried, sock, listener, listenAddr, lock,
                       foreign, faults>>
    BY <1>6 DEF RestartRefused, Restarting
  <2>4. /\ sock' \in [Services -> SUBSET (Addrs \cup {Random})]
        /\ sock'["web"] = sock["web"] /\ sock'["agent"] = sock["agent"]
        /\ ~history'.reported => ~req[r].undo /\ UNCHANGED listenAddr
        /\ lock \in {None, r} /\ lock' = None
        /\ UNCHANGED <<sock, listener, listenAddr>>
    BY <1>0, <2>2, <2>3
  <2> QED BY <2>2, <2>3, <2>4, RestartEnds
<1>7. CASE RestartCloses(r)
  BY <1>7, RestartGoesOn
<1>8. CASE RestartRetries(r)
  <2>1. CASE ~CanListen(Target(r))
    BY <1>8, <2>1, RestartGoesOn
  <2>2. CASE CanListen(Target(r))
    <3>1. lock = r /\ sock["ssh"] = {}
      BY <1>8 DEF RestartRetries, ListenersInv, RequestInv, SocketsAccounted
    <3>2. Activate(Target(r), sock["ssh"] \ {}) /\ Returns(r, TRUE) /\ lock' = None
      BY <1>8, <2>2, <3>1 DEF RestartRetries
    <3>3. sock["ssh"] \ {} = {}
      BY <3>1
    <3>4. /\ sock' \in [Services -> SUBSET (Addrs \cup {Random})]
          /\ sock'["web"] = sock["web"] /\ sock'["agent"] = sock["agent"]
          /\ listener' = Socket(Target(r)) /\ listenAddr' = Target(r)
          /\ sock'["ssh"] = {Socket(Target(r))}
      BY <1>1, <1>2, <3>2, <3>3
    <3>5. req[r].pc = "retry" /\ UNCHANGED <<main, config, stored, untried, foreign, faults,
                                             history>>
      BY <1>8 DEF RestartRetries
    <3> QED BY <1>0, <1>1, <2>2, <3>1, <3>2, <3>4, <3>5, RestartEnds
  <2> QED BY <2>1, <2>2
<1>9. CASE RestartRestores(r)
  <2>1. /\ lock = r /\ sock["ssh"] = {} /\ listener \in SshAddrs /\ listenAddr = listener
        /\ req[r].undo \in BOOLEAN
    BY <1>0, <1>9 DEF RestartRestores, ListenersInv, RequestInv, SocketsAccounted, NamesAgree, TypeOK,
                      Request
  <2>2. CASE CanListen(listenAddr) /\ Activate(listenAddr, {}) /\ Reports(r, req[r].undo)
    <3>1. Activate(listenAddr, sock["ssh"] \ {}) /\ sock["ssh"] \ {} = {}
      BY <2>1, <2>2
    <3>2. /\ sock' \in [Services -> SUBSET (Addrs \cup {Random})]
          /\ sock'["web"] = sock["web"] /\ sock'["agent"] = sock["agent"]
          /\ listener' = Socket(listenAddr) /\ listenAddr' = listenAddr
          /\ sock'["ssh"] = {Socket(listenAddr)}
      BY <1>2, <2>1, <3>1
    <3> QED BY <1>3, <1>9, <2>1, <2>2, <3>2, RestartEnds DEF RestartRestores
  <2>3. CASE /\ ~CanListen(listenAddr) /\ Reports(r, TRUE)
             /\ listener' = None /\ listenAddr' = None /\ UNCHANGED sock
    <3>1. history.stolen
      <4> SUFFICES ASSUME ~history.stolen PROVE CanListen(listenAddr)
        BY <2>3
      <4>1. /\ listenAddr \notin Unusable
            /\ \A b \in foreign \cup sock["web"] \cup sock["agent"] : ~Conflict(listenAddr, b)
        BY <2>1 DEF ListenersInv, Regainable
      <4>2. InUse = foreign \cup sock["web"] \cup sock["agent"]
        BY <1>0, <2>1 DEF InUse, Services
      <4> QED BY <4>1, <4>2 DEF CanListen, Free
    <3> QED BY <1>0, <1>3, <1>9, <2>1, <2>3, <3>1, RestartEnds DEF RestartRestores
  <2> QED BY <1>9, <2>2, <2>3 DEF RestartRestores
<1> QED BY <1>4, <1>5, <1>6, <1>7, <1>8, <1>9 DEF Restart

\* A request begins, saves the address, or goes back because it could not be saved.
LEMMA RequestStep ==
    ASSUME ListenersInv, NEW r \in Requests,
           (\E a \in SshAddrs : PutSettings(r, a)) \/ Save(r) \/ SaveFails(r)
    PROVE  ListenersInv'
<1> USE Facts
<1>0. req \in [Requests -> Request] /\ req[r] \in Request
  BY DEF ListenersInv, TypeOK, Request
<1>1. ASSUME NEW a \in SshAddrs, PutSettings(r, a)
      PROVE  ListenersInv'
  <2>1. PICK s \in Request : s = [Idle EXCEPT !.pc = "restart", !.addr = a, !.old = listenAddr]
    BY DEF ListenersInv, TypeOK, Request, Idle
  <2>2. s.pc = "restart" /\ s.addr = a /\ s.old = listenAddr /\ ~s.undo
    BY <2>1 DEF Idle
  <2>3. /\ req' \in [Requests -> Request] /\ req'[r] = s /\ req[r].pc = "idle"
        /\ \A q \in Requests \ {r} : req'[q] = req[q]
    BY <1>0, <1>1, <2>1 DEF PutSettings
  <2>4. PICK b \in BOOLEAN : b <=> history.overlapped \/ \E q \in Requests : req[q] # Idle
    OBVIOUS
  <2>5. history' = [history EXCEPT !.overlapped = b]
    BY <1>1, <2>4 DEF PutSettings
  <2>6. /\ history' \in [overlapped : BOOLEAN, reported : BOOLEAN, stolen : BOOLEAN]
        /\ history'.reported = history.reported /\ history'.stolen = history.stolen
        /\ ~history'.overlapped => ~history.overlapped /\ \A q \in Requests : req[q].pc = "idle"
    BY <2>4, <2>5 DEF ListenersInv, TypeOK
  <2>7. /\ main = "serving" /\ lock = None
        /\ UNCHANGED <<main, config, stored, untried, sock, listener, listenAddr, lock,
                       foreign, faults>>
    BY <1>1 DEF PutSettings
  <2>8. TypeOK' /\ MainInv'
    BY <2>3, <2>6, <2>7 DEF ListenersInv, TypeOK, MainInv, Request
  <2>9. RequestInv' /\ NamesAgree' /\ SocketsAccounted'
    BY <2>2, <2>3, <2>7 DEF ListenersInv, RequestInv, NamesAgree, SocketsAccounted
  <2>10. Regainable' /\ KeepsServing' /\ Restartable'
    BY <2>6, <2>7 DEF ListenersInv, Regainable, KeepsServing, Restartable
  <2>11. OneRequest'
    BY <2>3, <2>6 DEF OneRequest
  <2>12. SavedInv' /\ HeldInv'
    BY <2>2, <2>3, <2>6, <2>7 DEF ListenersInv, SavedInv, HeldInv
  <2> QED BY <2>8, <2>9, <2>10, <2>11, <2>12 DEF ListenersInv
<1>2. CASE Save(r)
  <2>1. /\ req[r].pc = "save" /\ main = "serving" /\ req[r].addr \in SshAddrs
    BY <1>2, Busy DEF Save
  <2>2. /\ req' \in [Requests -> Request] /\ req'[r] = Idle
        /\ \A q \in Requests \ {r} : req'[q] = req[q]
    BY <1>0, <1>2 DEF Save
  <2>3. /\ stored' \in Settings /\ stored'.ssh = req[r].addr
        /\ stored'.web = stored.web /\ stored'.agent = stored.agent
    BY <1>2, <2>1 DEF Save, ListenersInv, TypeOK, Settings
  <2>4. /\ history' \in [overlapped : BOOLEAN, reported : BOOLEAN, stolen : BOOLEAN]
        /\ history'.overlapped = history.overlapped /\ history'.stolen = history.stolen
    BY <1>2 DEF Save, ListenersInv, TypeOK
  <2>5. UNCHANGED <<main, config, untried, sock, listener, listenAddr, lock, foreign, faults>>
    BY <1>2 DEF Save
  <2>6. TypeOK' /\ MainInv'
    BY <2>1, <2>2, <2>3, <2>4, <2>5 DEF ListenersInv, TypeOK, MainInv, Request
  <2>7. RequestInv' /\ NamesAgree' /\ SocketsAccounted'
    BY <2>1, <2>2, <2>5 DEF ListenersInv, RequestInv, NamesAgree, SocketsAccounted
  <2>8. Regainable' /\ KeepsServing' /\ HeldInv'
    BY <2>2, <2>3, <2>4, <2>5, Facts DEF ListenersInv, Regainable, KeepsServing, HeldInv
  <2>9. OneRequest' /\ Restartable'
    BY <2>1, <2>2, <2>3, <2>4, <2>5 DEF ListenersInv, OneRequest, HeldInv, Restartable
  <2>10. SavedInv'
    <3> SUFFICES ASSUME ~history.overlapped PROVE SavedInv'
      BY <2>4 DEF SavedInv
    <3>1. \A q \in Requests : req'[q].pc = "idle"
      BY <2>1, <2>2, Busy
    <3>2. listenAddr = req[r].addr
      BY <2>1 DEF ListenersInv, SavedInv
    <3> QED BY <2>3, <2>5, <3>1, <3>2 DEF SavedInv
  <2> QED BY <2>6, <2>7, <2>8, <2>9, <2>10 DEF ListenersInv
<1>3. CASE SaveFails(r)
  <2>1. PICK s \in Request : s = [req[r] EXCEPT !.pc = "restart", !.undo = TRUE]
    BY <1>0 DEF Request
  <2>2. s.pc = "restart" /\ s.undo /\ s.addr = req[r].addr /\ s.old = req[r].old
    BY <1>0, <2>1 DEF Request
  <2>3. /\ req' \in [Requests -> Request] /\ req'[r] = s
        /\ \A q \in Requests \ {r} : req'[q] = req[q]
    BY <1>0, <1>3, <2>1 DEF SaveFails
  <2>4. req[r].pc = "save" /\ main = "serving" /\ req[r].addr \in SshAddrs
    BY <1>3, Busy DEF SaveFails
  <2>5. /\ UNCHANGED <<main, config, stored, untried, sock, listener, listenAddr, lock,
                       foreign, history>>
        /\ faults' \in 0..MaxFaults
    BY <1>3, ListenersAssumption DEF SaveFails, Fault, ListenersInv, TypeOK
  <2>6. TypeOK' /\ MainInv'
    BY <2>3, <2>4, <2>5 DEF ListenersInv, TypeOK, MainInv, Request
  <2>7. RequestInv' /\ NamesAgree' /\ SocketsAccounted'
    BY <2>2, <2>3, <2>4, <2>5 DEF ListenersInv, RequestInv, NamesAgree, SocketsAccounted
  <2>8. Regainable' /\ KeepsServing' /\ Restartable'
    BY <2>5 DEF ListenersInv, Regainable, KeepsServing, Restartable
  <2>9. OneRequest'
    BY <2>3, <2>4, <2>5 DEF ListenersInv, OneRequest
  <2>10. SavedInv' /\ HeldInv'
    BY <2>2, <2>3, <2>4, <2>5 DEF ListenersInv, SavedInv, HeldInv
  <2> QED BY <2>6, <2>7, <2>8, <2>9, <2>10 DEF ListenersInv
<1> QED BY <1>1, <1>2, <1>3

LEMMA PutListenersInv ==
    ASSUME ListenersInv, NEW web \in WebAddrs, NEW agent \in WebAddrs, PutListeners(web, agent)
    PROVE  ListenersInv'
<1>1. /\ stored' \in Settings /\ stored'.ssh = stored.ssh /\ untried' \in BOOLEAN
      /\ ~untried' => ~untried /\ stored'.web = stored.web /\ stored'.agent = stored.agent
      /\ main = "serving"
      /\ UNCHANGED <<main, config, sock, listener, listenAddr, lock, req, foreign, faults,
                     history>>
  BY DEF PutListeners, ListenersInv, TypeOK, Settings
<1>2. TypeOK' /\ MainInv' /\ RequestInv' /\ NamesAgree' /\ SocketsAccounted'
  BY <1>1 DEF ListenersInv, TypeOK, MainInv, RequestInv, NamesAgree, SocketsAccounted
<1>3. Regainable' /\ KeepsServing' /\ OneRequest' /\ SavedInv' /\ HeldInv' /\ Restartable'
  BY <1>1 DEF ListenersInv, Regainable, KeepsServing, OneRequest, SavedInv, HeldInv, Restartable
<1> QED BY <1>2, <1>3 DEF ListenersInv

LEMMA ListenersStep == ListenersInv /\ [Next]_vars => ListenersInv'
<1> SUFFICES ASSUME ListenersInv, [Next]_vars PROVE ListenersInv'
  OBVIOUS
<1>1. CASE UNCHANGED vars
  BY <1>1 DEF vars, ListenersInv, TypeOK, MainInv, RequestInv, NamesAgree, SocketsAccounted,
              Regainable, KeepsServing, OneRequest, SavedInv, HeldInv, Restartable
<1> QED BY <1>1, MainInv_Step, ForeignInv, RestartInv, RequestStep, PutListenersInv DEF Next

LEMMA ListenersInvariant == Spec => []ListenersInv
BY ListenersInit, ListenersStep, PTL DEF Spec

-----------------------------------------------------------------------------
\* The state of main, of the Proxy and of the requests has its types.
THEOREM TypeCorrect == Spec => []TypeOK
<1>1. ListenersInv => TypeOK
  BY DEF ListenersInv
<1> QED BY <1>1, ListenersInvariant, PTL

\* Proxy.Restart: a change of the address, a failed one and a roll-back leave no old socket
\* open and close none that the Proxy still names.
THEOREM NoSocketLost == Spec => []SocketsAccounted
<1>1. ListenersInv => SocketsAccounted
  BY DEF ListenersInv
<1> QED BY <1>1, ListenersInvariant, PTL

\* Proxy.Restart goes back to the old address when the new one cannot be had: it succeeds
\* unless another process has taken the port in between.
THEOREM FailureKeepsServing == Spec => []KeepsServing
<1>1. ListenersInv => KeepsServing
  BY DEF ListenersInv
<1> QED BY <1>1, ListenersInvariant, PTL

\* handleUpdateSettings: what is stored is what is served, also after a failed change or
\* save, unless requests have overlapped or the administrator was told otherwise.
THEOREM StoredIsServed == Spec => []SavedIsServed
<1>1. ListenersInv => SavedIsServed
  BY DEF ListenersInv, SavedInv, SavedIsServed, Quiet, Idle
<1> QED BY <1>1, ListenersInvariant, PTL

\* Once main has served, what it, Proxy.Restart and handleUpdateSettings store are addresses
\* that the next start can bind together, until one is stored that was not bound beside the
\* others: by handlePutListeners, or the SSH address of a flag.
THEOREM AlwaysRestartable == Spec => []Restartable
<1>1. ListenersInv => Restartable
  BY DEF ListenersInv
<1> QED BY <1>1, ListenersInvariant, PTL
=============================================================================
