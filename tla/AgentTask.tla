------------------------------ MODULE AgentTask ------------------------------
(***************************************************************************)
(* Dispatch of one command from an SSH session to the Windows agent of one *)
(* server, and the way back of its output and exit code.                   *)
(*                                                                         *)
(* Threads of the code and the actions that model them:                    *)
(*   - agentSession, one goroutine per SSH session      (Session actions)  *)
(*   - the watchdog of a session                        (Watchdog)         *)
(*   - AgentHub.ServeHTTP, one goroutine per websocket  (Handler actions)  *)
(*   - connect, the read loop of the agent process      (Agent actions)    *)
(*   - the task goroutine started by connect            (Task actions)     *)
(* A session runs exactly one command, so the session names the job id.    *)
(* Authentication is abstracted to a choice: LookupFails may always occur. *)
(***************************************************************************)
EXTENDS Integers, Sequences

CONSTANTS
    Sessions,        \* SSH exec sessions on this server's route
    Conns,           \* websocket connections that exist at the same time
    None,            \* the nil of peers[id], of jobID/events, of jobCancel ...
    EventsCap,       \* capacity of the events channel (128 in the code)
    MaxOutput,       \* output limit of agentSession, in chunks (8 MiB)
    AgentMaxOutput,  \* output limit of the agent; the same constant in one release
    MaxFaults        \* bound on the faults the environment injects

ASSUME ConstantsAssumption ==
    /\ None \notin Sessions
    /\ None \notin Conns
    /\ EventsCap \in Nat \ {0}
    /\ MaxOutput \in Nat
    /\ AgentMaxOutput \in Nat
    /\ MaxFaults \in Nat

VARIABLES
    peers,      \* AgentHub.peers[id] for this server id
    srv,        \* per connection: stage of its ServeHTTP goroutine
    job,        \* peer.jobID and peer.events, which are set and cleared together
    held,       \* the message ServeHTTP is delivering to an events channel
    srvOpen,    \* the server's end of the websocket has not been closed
    cliOpen,    \* the agent's end has not been closed or cut off
    toAgent,    \* messages in flight to the agent
    toServer,   \* messages in flight to the server
    ses,        \* per session: the local variables of agentSession
    agent,      \* the local variables of connect
    task,       \* per job: the task goroutine of the agent
    faults      \* faults injected so far

hubVars == <<peers, srv, job, held>>
wireVars == <<srvOpen, cliOpen, toAgent, toServer>>
vars == <<hubVars, wireVars, ses, agent, task, faults>>

-----------------------------------------------------------------------------
(* Messages, exit codes and stages *)

NoCode == -1                       \* no exit code yet
TimedOut == 124
Unavailable == 125
Aborted == 130
ProcessCodes == {0, 1}             \* what a command may exit with
Codes == ProcessCodes \cup {TimedOut, Unavailable, Aborted}

ExecMsg(s) == [type |-> "exec", id |-> s]
CancelMsg(s) == [type |-> "cancel", id |-> s]
ToAgentMsg == [type : {"exec", "cancel"}, id : Sessions]

OutputMsg(s) == [type |-> "output", id |-> s, code |-> 0]
ExitMsg(s, c) == [type |-> "exit", id |-> s, code |-> c]
ToServerMsg == [type : {"output", "exit"}, id : Sessions, code : Codes]

\* held[k] tells a message from nil.
ASSUME MessageAssumption == None \notin ToServerMsg

HandlerStages == {"gone", "upgraded", "serving", "returning"}
SessionStages == {"idle", "lookup", "claim", "refuse", "send", "report", "loop",
                  "write", "exit", "release", "clear", "done"}
\* The deadline timer, the request reader and the watchdog are running.
WatchedStages == {"loop", "write", "exit"}
AgentStages == {"offline", "reading", "leaving"}
TaskStages == {"none", "starting", "running", "failed", "ended", "over"}
\* The goroutine exists: wg.Wait waits for it.
LiveStages == {"starting", "running", "failed", "ended"}

SessionState ==
    [pc : SessionStages,
     peer : Conns \cup {None},        \* the local variable peer
     events : Seq(ToServerMsg),       \* the channel it created
     forwarded : Nat,                 \* output chunks written to the SSH client
     chanOpen : BOOLEAN,              \* CLOSE has not been sent on the SSH channel
     completed : BOOLEAN,             \* the local variable completed
     code : Codes \cup {NoCode}]      \* the argument of exit() until it returns

AgentState ==
    [pc : AgentStages,
     conn : Conns \cup {None},        \* the connection of this connect call
     job : Sessions \cup {None}]      \* jobID and jobCancel

TaskState ==
    [pc : TaskStages,
     conn : Conns \cup {None},        \* the connection captured by the goroutine
     stop : {"none", "deadline", "cancelled"},   \* jobCtx.Err()
     exceeded : BOOLEAN,              \* output.exceeded
     sent : Nat,                      \* output.total
     code : Codes \cup {NoCode},      \* the exit code of the job
     runs : Nat]                      \* history: starts of the user's command

\* Every variable has the shape its part of the code gives it.
TypeOK ==
    /\ peers \in Conns \cup {None}
    /\ srv \in [Conns -> HandlerStages]
    /\ job \in [Conns -> Sessions \cup {None}]
    /\ held \in [Conns -> ToServerMsg \cup {None}]
    /\ srvOpen \in [Conns -> BOOLEAN]
    /\ cliOpen \in [Conns -> BOOLEAN]
    /\ toAgent \in [Conns -> Seq(ToAgentMsg)]
    /\ toServer \in [Conns -> Seq(ToServerMsg)]
    /\ ses \in [Sessions -> SessionState]
    /\ agent \in AgentState
    /\ task \in [Sessions -> TaskState]
    /\ faults \in Nat

NewSession ==
    [pc |-> "idle", peer |-> None, events |-> <<>>, forwarded |-> 0,
     chanOpen |-> TRUE, completed |-> FALSE, code |-> NoCode]

NoTask ==
    [pc |-> "none", conn |-> None, stop |-> "none", exceeded |-> FALSE, sent |-> 0,
     code |-> NoCode, runs |-> 0]

Init ==
    /\ peers = None
    /\ srv = [k \in Conns |-> "gone"]
    /\ job = [k \in Conns |-> None]
    /\ held = [k \in Conns |-> None]
    /\ srvOpen = [k \in Conns |-> FALSE]
    /\ cliOpen = [k \in Conns |-> FALSE]
    /\ toAgent = [k \in Conns |-> <<>>]
    /\ toServer = [k \in Conns |-> <<>>]
    /\ ses = [s \in Sessions |-> NewSession]
    /\ agent = [pc |-> "offline", conn |-> None, job |-> None]
    /\ task = [s \in Sessions |-> NoTask]
    /\ faults = 0

-----------------------------------------------------------------------------
(* The websocket. Close on one end makes every later Send and Read of that   *)
(* end fail; the other end may still read what is in flight, or fail. A Send *)
(* towards an end that is gone fails, or succeeds and is lost.               *)

WireDead(k) == ~srvOpen[k] \/ ~cliOpen[k]
SendToAgent(k, m) == IF cliOpen[k] THEN [toAgent EXCEPT ![k] = Append(@, m)] ELSE toAgent
SendToServer(k, m) == IF srvOpen[k] THEN [toServer EXCEPT ![k] = Append(@, m)] ELSE toServer

\* A member of Conns may stand for a new connection once nothing is left of the
\* one it stood for: no handler, no agent, no session and no task holds it.
Unused(k) ==
    /\ srv[k] = "gone"
    /\ agent.conn # k
    /\ \A s \in Sessions : ses[s].peer # k
    /\ \A s \in Sessions : task[s].pc \in LiveStages => task[s].conn # k

-----------------------------------------------------------------------------
(* AgentHub.ServeHTTP, the handler of a connection *)

\* Under the hub lock: the first connection wins, a later one is closed.
Register(k) ==
    /\ srv[k] = "upgraded"
    /\ IF peers = None
       THEN /\ peers' = k
            /\ srv' = [srv EXCEPT ![k] = "serving"]
            /\ UNCHANGED srvOpen
       ELSE /\ srv' = [srv EXCEPT ![k] = "gone"]
            /\ srvOpen' = [srvOpen EXCEPT ![k] = FALSE]
            /\ UNCHANGED peers
    /\ UNCHANGED <<job, held, cliOpen, toAgent, toServer, ses, agent, task, faults>>

\* The read loop returns: the deferred function closes the connection and
\* then the channel peer.done.
HandlerReturns(k) ==
    /\ srv' = [srv EXCEPT ![k] = "returning"]
    /\ srvOpen' = [srvOpen EXCEPT ![k] = FALSE]
    /\ held' = [held EXCEPT ![k] = None]
    /\ toServer' = [toServer EXCEPT ![k] = <<>>]

\* peer.done is closed.
Done(k) == srv[k] \in {"returning", "gone"}

\* The loop reads a message; one that is not of the current job ends the loop.
HandlerReads(k) ==
    /\ srv[k] = "serving"
    /\ held[k] = None
    /\ srvOpen[k]
    /\ toServer[k] # <<>>
    /\ IF Head(toServer[k]).id = job[k]
       THEN /\ held' = [held EXCEPT ![k] = Head(toServer[k])]
            /\ toServer' = [toServer EXCEPT ![k] = Tail(@)]
            /\ UNCHANGED <<srv, srvOpen>>
       ELSE HandlerReturns(k)
    /\ UNCHANGED <<peers, job, cliOpen, toAgent, ses, agent, task, faults>>

\* ReadJSON fails: the connection was closed here or there, or 60 seconds
\* passed without a pong.
HandlerReadFails(k) ==
    /\ srv[k] = "serving"
    /\ held[k] = None
    /\ WireDead(k)
    /\ HandlerReturns(k)
    /\ UNCHANGED <<peers, job, cliOpen, toAgent, ses, agent, task, faults>>

HandlerDelivers(k) ==
    LET s == held[k].id IN
    /\ held[k] # None
    /\ Len(ses[s].events) < EventsCap
    /\ ses' = [ses EXCEPT ![s] = [@ EXCEPT !.events = Append(ses[s].events, held[k])]]
    /\ held' = [held EXCEPT ![k] = None]
    /\ UNCHANGED <<peers, srv, job, wireVars, agent, task, faults>>

\* Mutant of HandlerGivesUp: drops the message and reads on.
HandlerDropsMessage(k) ==
    /\ held[k] # None
    /\ Len(ses[held[k].id].events) >= EventsCap
    /\ held' = [held EXCEPT ![k] = None]
    /\ UNCHANGED <<peers, srv, job, wireVars, ses, agent, task, faults>>

\* The events channel stayed full for 10 seconds: disconnect.
HandlerGivesUp(k) ==
    /\ held[k] # None
    /\ Len(ses[held[k].id].events) >= EventsCap
    /\ HandlerReturns(k)
    /\ UNCHANGED <<peers, job, cliOpen, toAgent, ses, agent, task, faults>>

\* Mutant of Unregister: deletes whatever connection is registered.
UnregisterAny(k) ==
    /\ srv[k] = "returning"
    /\ srv' = [srv EXCEPT ![k] = "gone"]
    /\ peers' = None
    /\ UNCHANGED <<job, held, wireVars, ses, agent, task, faults>>

\* The end of the deferred function, under the hub lock: a handler deletes only
\* its own entry.
Unregister(k) ==
    /\ srv[k] = "returning"
    /\ srv' = [srv EXCEPT ![k] = "gone"]
    /\ peers' = IF peers = k THEN None ELSE peers
    /\ UNCHANGED <<job, held, wireVars, ses, agent, task, faults>>

\* The Heartbeat goroutine of the server could not send its ping.
HeartbeatFails(k) ==
    /\ faults < MaxFaults
    /\ srv[k] = "serving"
    /\ srvOpen[k]
    /\ srvOpen' = [srvOpen EXCEPT ![k] = FALSE]
    /\ faults' = faults + 1
    /\ UNCHANGED <<hubVars, cliOpen, toAgent, toServer, ses, agent, task>>

\* AgentHub.Disconnect, called by the admin handlers that change the server.
Disconnect ==
    /\ faults < MaxFaults
    /\ peers # None
    /\ peers' = None
    /\ srvOpen' = [srvOpen EXCEPT ![peers] = FALSE]
    /\ faults' = faults + 1
    /\ UNCHANGED <<srv, job, held, cliOpen, toAgent, toServer, ses, agent, task>>

-----------------------------------------------------------------------------
(* agentSession. A session that was refused before it registered its job     *)
(* holds no peer.                                                            *)

OnlySession == UNCHANGED <<hubVars, wireVars, agent, task, faults>>

\* The goroutine has returned: its variables are gone, its channel is closed.
EndedSession == [NewSession EXCEPT !.pc = "done", !.chanOpen = FALSE]

\* An exec request arrives and is accepted.
ExecRequest(s) ==
    /\ ses[s].pc = "idle"
    /\ ses' = [ses EXCEPT ![s] = [@ EXCEPT !.pc = "lookup"]]
    /\ OnlySession

\* 30 seconds without exec, the channel closed, or a command over the limit.
NoExecRequest(s) ==
    /\ ses[s].pc = "idle"
    /\ ses' = [ses EXCEPT ![s] = EndedSession]
    /\ OnlySession

\* GetServer, then peers[id] under the hub lock.
LookupPeer(s) ==
    /\ ses[s].pc = "lookup"
    /\ peers # None
    /\ ses' = [ses EXCEPT ![s] = [@ EXCEPT !.pc = "claim", !.peer = peers]]
    /\ OnlySession

\* No peer, a peer with an outdated credential, or a route that was disabled.
LookupFails(s) ==
    /\ ses[s].pc = "lookup"
    /\ ses' = [ses EXCEPT ![s] = [@ EXCEPT !.pc = "refuse", !.code = Unavailable]]
    /\ OnlySession

\* Under the peer lock: one job per peer.
Claim(s) ==
    /\ ses[s].pc = "claim"
    /\ job[ses[s].peer] = None
    /\ job' = [job EXCEPT ![ses[s].peer] = s]
    /\ ses' = [ses EXCEPT ![s] = [@ EXCEPT !.pc = "send"]]
    /\ UNCHANGED <<peers, srv, held, wireVars, agent, task, faults>>

Busy(s) ==
    /\ ses[s].pc = "claim"
    /\ job[ses[s].peer] # None
    /\ ses' = [ses EXCEPT ![s] = [@ EXCEPT !.pc = "refuse", !.code = Unavailable,
                                          !.peer = None]]
    /\ OnlySession

Dispatch(s) ==
    /\ ses[s].pc = "send"
    /\ srvOpen[ses[s].peer]
    /\ toAgent' = SendToAgent(ses[s].peer, ExecMsg(s))
    /\ ses' = [ses EXCEPT ![s] = [@ EXCEPT !.pc = "loop"]]
    /\ UNCHANGED <<hubVars, srvOpen, cliOpen, toServer, agent, task, faults>>

DispatchFails(s) ==
    /\ ses[s].pc = "send"
    /\ WireDead(ses[s].peer)
    /\ ses' = [ses EXCEPT ![s] = [@ EXCEPT !.pc = "report", !.code = Unavailable]]
    /\ OnlySession

\* Send returns an error although the agent can read the message: the write failed
\* at its last bytes.
DispatchInDoubt(s) ==
    /\ ses[s].pc = "send"
    /\ srvOpen[ses[s].peer]
    /\ toAgent' = SendToAgent(ses[s].peer, ExecMsg(s))
    /\ ses' = [ses EXCEPT ![s] = [@ EXCEPT !.pc = "report", !.code = Unavailable]]
    /\ UNCHANGED <<hubVars, srvOpen, cliOpen, toServer, agent, task, faults>>

\* exit() of a session that has no watchdog: nothing was written to the channel
\* before, so the write does not block.
Refuse(s) ==
    /\ ses[s].pc = "refuse"
    /\ ses' = [ses EXCEPT ![s] = EndedSession]
    /\ OnlySession

\* The same after a failed Send: the session holds the slot, the deferred function
\* releases it.
ReportFailure(s) ==
    /\ ses[s].pc = "report"
    /\ ses' = [ses EXCEPT ![s] = [@ EXCEPT !.pc = "release", !.code = NoCode]]
    /\ OnlySession

\* The select loop leaves for a reason other than the exit message.
LeaveLoop(s, c) ==
    /\ ses[s].pc = "loop"
    /\ ses' = [ses EXCEPT ![s] = [@ EXCEPT !.pc = "exit", !.code = c]]
    /\ OnlySession

\* A signal, a closed request channel and the deadline may come at any moment.
SeesCancel(s) == LeaveLoop(s, Aborted)
SeesDeadline(s) == LeaveLoop(s, TimedOut)

\* Mutant of SeesDone: the command is dispatched again.
SeesDoneRetries(s) ==
    /\ ses[s].pc = "loop"
    /\ Done(ses[s].peer)
    /\ ses' = [ses EXCEPT ![s] = [@ EXCEPT !.pc = "lookup", !.peer = None]]
    /\ OnlySession

\* peer.done: no automatic retry.
SeesDone(s) == ses[s].pc = "loop" /\ Done(ses[s].peer) /\ LeaveLoop(s, Unavailable)

\* Mutant of TakesExit: the code of the message is ignored.
TakesAnyExit(s) ==
    /\ ses[s].pc = "loop"
    /\ ses[s].events # <<>>
    /\ Head(ses[s].events).type = "exit"
    /\ ses' = [ses EXCEPT ![s] = [@ EXCEPT !.pc = "exit", !.events = Tail(ses[s].events),
                                          !.completed = TRUE, !.code = 0]]
    /\ job' = [job EXCEPT ![ses[s].peer] = None]
    /\ UNCHANGED <<peers, srv, held, wireVars, agent, task, faults>>

\* The exit message: the slot of the peer is released at once.
TakesExit(s) ==
    /\ ses[s].pc = "loop"
    /\ ses[s].events # <<>>
    /\ Head(ses[s].events).type = "exit"
    /\ ses' = [ses EXCEPT ![s] = [@ EXCEPT !.pc = "exit", !.events = Tail(ses[s].events),
                                          !.completed = TRUE,
                                          !.code = Head(ses[s].events).code]]
    /\ job' = [job EXCEPT ![ses[s].peer] = None]
    /\ UNCHANGED <<peers, srv, held, wireVars, agent, task, faults>>

\* Every chunk taken before this one has been written.
OverLimit(s) == ses[s].forwarded + 1 > MaxOutput

TakesOutput(s) ==
    /\ ses[s].pc = "loop"
    /\ ses[s].events # <<>>
    /\ Head(ses[s].events).type = "output"
    /\ ses' = [ses EXCEPT ![s] = [@ EXCEPT !.events = Tail(ses[s].events),
                                          !.pc = IF OverLimit(s) THEN "exit" ELSE "write",
                                          !.code = IF OverLimit(s) THEN Unavailable ELSE ses[s].code]]
    /\ OnlySession

\* The SSH client takes the chunk. It may also stop reading: the write then
\* waits for window.
WriteSucceeds(s) ==
    /\ ses[s].pc = "write"
    /\ ses[s].chanOpen
    /\ ses' = [ses EXCEPT ![s] = [@ EXCEPT !.pc = "loop", !.forwarded = ses[s].forwarded + 1]]
    /\ OnlySession

\* The session returns without any exit-status. Close sends CLOSE only: a write that
\* waits ends when the client sends window or its own CLOSE, or its connection ends.
\* A client that closes the channel by itself is Watchdog, for any reason, and this.
WriteFails(s) ==
    /\ ses[s].pc = "write"
    /\ ~ses[s].chanOpen
    /\ ses' = [ses EXCEPT ![s] = [@ EXCEPT !.pc = "release"]]
    /\ OnlySession

\* exit() after the loop. The exit-status is lost if the watchdog has closed the
\* channel; the message that comes with every code but the agent's own waits for
\* window like the output.
SendExit(s) ==
    /\ ses[s].pc = "exit"
    /\ ses' = [ses EXCEPT ![s] = [@ EXCEPT !.pc = "release", !.code = NoCode]]
    /\ OnlySession

ExitMayBlock(s) == ~ses[s].completed

\* Mutant of Release: cancels the job but keeps the connection.
ReleaseKeepsConnection(s) ==
    /\ ses[s].pc = "release"
    /\ ses' = [ses EXCEPT ![s] = [@ EXCEPT !.pc = "clear"]]
    /\ toAgent' = IF srvOpen[ses[s].peer] /\ ~ses[s].completed
                  THEN SendToAgent(ses[s].peer, CancelMsg(s)) ELSE toAgent
    /\ UNCHANGED <<hubVars, srvOpen, cliOpen, toServer, agent, task, faults>>

\* Deferred: a job that did not complete is cancelled, and its connection closed.
Release(s) ==
    LET k == ses[s].peer IN
    /\ ses[s].pc = "release"
    /\ ses' = [ses EXCEPT ![s] = [@ EXCEPT !.pc = "clear"]]
    /\ IF ses[s].completed
       THEN UNCHANGED <<toAgent, srvOpen>>
       ELSE /\ toAgent' = IF srvOpen[k] THEN SendToAgent(k, CancelMsg(s)) ELSE toAgent
            /\ srvOpen' = [srvOpen EXCEPT ![k] = FALSE]
    /\ UNCHANGED <<hubVars, cliOpen, toServer, agent, task, faults>>

\* Mutant of Clear: clears the slot whoever holds it.
ClearAny(s) ==
    /\ ses[s].pc = "clear"
    /\ job' = [job EXCEPT ![ses[s].peer] = None]
    /\ ses' = [ses EXCEPT ![s] = EndedSession]
    /\ UNCHANGED <<peers, srv, held, wireVars, agent, task, faults>>

\* Deferred, under the peer lock: only the session's own job is cleared. The
\* local variables end with the goroutine.
Clear(s) ==
    LET k == ses[s].peer IN
    /\ ses[s].pc = "clear"
    /\ job' = IF job[k] = s THEN [job EXCEPT ![k] = None] ELSE job
    /\ ses' = [ses EXCEPT ![s] = EndedSession]
    /\ UNCHANGED <<peers, srv, held, wireVars, agent, task, faults>>

\* Mutant of Watchdog: reacts to peer.done only.
WatchdogOnDone(s) ==
    /\ ses[s].pc \in WatchedStages
    /\ ses[s].chanOpen
    /\ Done(ses[s].peer)
    /\ ses' = [ses EXCEPT ![s] = [@ EXCEPT !.chanOpen = FALSE]]
    /\ OnlySession

\* The watchdog closes the channel after a cancellation, when peer.done is closed,
\* or at the latest one second after the deadline: at any moment.
Watchdog(s) ==
    /\ ses[s].pc \in WatchedStages
    /\ ses[s].chanOpen
    /\ ses' = [ses EXCEPT ![s] = [@ EXCEPT !.chanOpen = FALSE]]
    /\ OnlySession

-----------------------------------------------------------------------------
(* connect and run of the agent process *)

\* Five seconds after the last connection ended: dial. The server's handler is
\* past the upgrade and waits for the hub lock.
Dial(k) ==
    /\ agent.pc = "offline"
    /\ Unused(k)
    /\ agent' = [pc |-> "reading", conn |-> k, job |-> None]
    /\ srv' = [srv EXCEPT ![k] = "upgraded"]
    /\ job' = [job EXCEPT ![k] = None]
    /\ held' = [held EXCEPT ![k] = None]
    /\ srvOpen' = [srvOpen EXCEPT ![k] = TRUE]
    /\ cliOpen' = [cliOpen EXCEPT ![k] = TRUE]
    /\ toAgent' = [toAgent EXCEPT ![k] = <<>>]
    /\ toServer' = [toServer EXCEPT ![k] = <<>>]
    /\ UNCHANGED <<peers, ses, task, faults>>

\* Cancelling a context that has ended has no effect.
Cancelled(cause) == IF cause = "none" THEN "cancelled" ELSE cause
CancelTask(s) == [task EXCEPT ![s] = [@ EXCEPT !.stop = Cancelled(task[s].stop)]]

\* Mutant of AgentReturns: the task is not cancelled.
AgentReturnsNoCancel ==
    /\ agent' = [agent EXCEPT !.pc = "leaving"]
    /\ cliOpen' = [cliOpen EXCEPT ![agent.conn] = FALSE]
    /\ toAgent' = [toAgent EXCEPT ![agent.conn] = <<>>]
    /\ UNCHANGED task

\* The read loop returns: the deferred functions close the connection and
\* cancel the context of the task.
AgentReturns ==
    /\ agent' = [agent EXCEPT !.pc = "leaving"]
    /\ cliOpen' = [cliOpen EXCEPT ![agent.conn] = FALSE]
    /\ toAgent' = [toAgent EXCEPT ![agent.conn] = <<>>]
    /\ task' = IF agent.job = None THEN task ELSE CancelTask(agent.job)

\* The next message in flight to the agent is of type t and can be read.
AgentSees(t) ==
    /\ agent.pc = "reading"
    /\ cliOpen[agent.conn]
    /\ toAgent[agent.conn] # <<>>
    /\ Head(toAgent[agent.conn]).type = t

\* exec: start the task, or return if one is running.
AgentExec ==
    LET s == Head(toAgent[agent.conn]).id IN
    /\ AgentSees("exec")
    /\ IF agent.job = None
       THEN /\ agent' = [agent EXCEPT !.job = s]
            /\ toAgent' = [toAgent EXCEPT ![agent.conn] = Tail(@)]
            /\ task' = [task EXCEPT ![s] = [@ EXCEPT !.pc = "starting", !.conn = agent.conn]]
            /\ UNCHANGED cliOpen
       ELSE AgentReturns
    /\ UNCHANGED <<hubVars, srvOpen, toServer, ses, faults>>

AgentCancel ==
    LET s == Head(toAgent[agent.conn]).id IN
    /\ AgentSees("cancel")
    /\ toAgent' = [toAgent EXCEPT ![agent.conn] = Tail(@)]
    /\ task' = IF agent.job = s THEN CancelTask(s) ELSE task
    /\ UNCHANGED <<hubVars, srvOpen, cliOpen, toServer, ses, agent, faults>>

AgentReadFails ==
    /\ agent.pc = "reading"
    /\ WireDead(agent.conn)
    /\ AgentReturns
    /\ UNCHANGED <<hubVars, srvOpen, toServer, ses, faults>>

\* Mutant of AgentLeaves: returns without wg.Wait.
AgentLeavesAtOnce ==
    /\ agent.pc = "leaving"
    /\ agent' = [pc |-> "offline", conn |-> None, job |-> None]
    /\ UNCHANGED <<hubVars, wireVars, ses, task, faults>>

\* wg.Wait: connect returns only when its task goroutine has ended.
AgentLeaves ==
    /\ agent.pc = "leaving"
    /\ \A s \in Sessions : ~(task[s].pc \in LiveStages /\ task[s].conn = agent.conn)
    /\ agent' = [pc |-> "offline", conn |-> None, job |-> None]
    /\ UNCHANGED <<hubVars, wireVars, ses, task, faults>>

\* The network drops the agent's end; the server has not noticed.
ConnectionCut ==
    /\ faults < MaxFaults
    /\ agent.pc = "reading"
    /\ cliOpen[agent.conn]
    /\ cliOpen' = [cliOpen EXCEPT ![agent.conn] = FALSE]
    /\ faults' = faults + 1
    /\ UNCHANGED <<hubVars, srvOpen, toAgent, toServer, ses, agent, task>>

\* The goroutine of s has ended without its exit message.
TaskLost(s) == [NoTask EXCEPT !.pc = "over", !.runs = task[s].runs]

\* The agent process ends and is started again. The Job Object takes the
\* process tree of a running task with it.
AgentRestart ==
    /\ faults < MaxFaults
    /\ agent.pc # "offline"
    /\ agent' = [pc |-> "offline", conn |-> None, job |-> None]
    /\ cliOpen' = [cliOpen EXCEPT ![agent.conn] = FALSE]
    /\ toAgent' = [toAgent EXCEPT ![agent.conn] = <<>>]
    /\ task' = [s \in Sessions |-> IF task[s].pc \in LiveStages
                                   THEN TaskLost(s) ELSE task[s]]
    /\ faults' = faults + 1
    /\ UNCHANGED <<hubVars, srvOpen, toServer, ses>>

-----------------------------------------------------------------------------
(* The task goroutine: runPowerShell, its output, its exit message *)

OnlyTask == UNCHANGED <<hubVars, wireVars, ses, agent, faults>>

\* The wrapper is in its Job Object and the context is still alive: the user's
\* command starts.
TaskStarts(s) ==
    /\ task[s].pc = "starting"
    /\ task[s].stop = "none"
    /\ task' = [task EXCEPT ![s] = [@ EXCEPT !.pc = "running", !.runs = task[s].runs + 1]]
    /\ OnlyTask

\* The process cannot be created or contained, or the context ended before.
TaskCannotStart(s) ==
    /\ task[s].pc = "starting"
    /\ task' = [task EXCEPT ![s] =
                    [@ EXCEPT !.pc = "failed",
                              !.code = IF task[s].stop = "none" THEN Unavailable ELSE TimedOut]]
    /\ OnlyTask

\* Mutant of TaskEnds: a negative exit code is passed on.
TaskEndsUnchecked(s) ==
    /\ task[s].pc = "running"
    /\ task' = [task EXCEPT ![s] = [@ EXCEPT !.pc = "ended", !.code = -1]]
    /\ OnlyTask

\* The process ends by itself or could not be handed its script, or is terminated
\* once the context has ended. A negative exit code is replaced. Wait may return an
\* error with any code: a child that kept the output open outlived the process.
TaskEnds(s) ==
    /\ task[s].pc = "running"
    /\ \E c \in ProcessCodes \cup {Aborted, Unavailable} :
        /\ c = Aborted => task[s].stop # "none"
        /\ \E next \in {"failed", "ended"} :
            /\ next = "ended" => c = 0
            /\ task' = [task EXCEPT ![s] = [@ EXCEPT !.pc = next, !.code = c]]
    /\ OnlyTask

\* TaskTimeout, measured by the agent.
TaskTimesOut(s) ==
    /\ task[s].pc \in LiveStages
    /\ task[s].stop = "none"
    /\ task' = [task EXCEPT ![s] = [@ EXCEPT !.stop = "deadline"]]
    /\ OnlyTask

\* streamWriter.Write of one chunk. next is the stage the goroutine goes on with:
\* it writes the output of a running command, and a last line for a failed one.
TaskWrites(s, next) ==
    LET k == task[s].conn IN
    \/ /\ task[s].sent + 1 > AgentMaxOutput
       /\ task' = [task EXCEPT ![s] = [@ EXCEPT !.pc = next, !.exceeded = TRUE,
                                               !.stop = Cancelled(task[s].stop)]]
       /\ UNCHANGED <<cliOpen, toServer>>
    \/ /\ task[s].sent + 1 <= AgentMaxOutput
       /\ cliOpen[k]
       /\ task' = [task EXCEPT ![s] = [@ EXCEPT !.pc = next, !.sent = task[s].sent + 1]]
       /\ toServer' = SendToServer(k, OutputMsg(s))
       /\ UNCHANGED cliOpen
    \/ /\ task[s].sent + 1 <= AgentMaxOutput
       /\ WireDead(k)
       /\ task' = [task EXCEPT ![s] = [@ EXCEPT !.pc = next, !.stop = Cancelled(task[s].stop)]]
       /\ cliOpen' = [cliOpen EXCEPT ![k] = FALSE]
       /\ UNCHANGED toServer

TaskOutput(s) ==
    /\ task[s].pc = "running"
    /\ TaskWrites(s, "running")
    /\ UNCHANGED <<hubVars, srvOpen, toAgent, ses, agent, faults>>

TaskReportsError(s) ==
    /\ task[s].pc = "failed"
    /\ TaskWrites(s, "ended")
    /\ UNCHANGED <<hubVars, srvOpen, toAgent, ses, agent, faults>>

\* The limits override the exit code of the process.
DecidedCode(s) ==
    CASE task[s].exceeded -> Unavailable
      [] task[s].stop = "deadline" -> TimedOut
      [] task[s].stop = "cancelled" -> Aborted
      [] OTHER -> task[s].code

\* Under the mutex of connect: the job is cleared before its exit is sent, and the
\* goroutine ends. A cancellation between the decision and the send has no effect,
\* like one after the send: one step is enough.
TaskSendsExit(s) ==
    LET k == task[s].conn IN
    /\ task[s].pc = "ended"
    /\ agent' = [agent EXCEPT !.job = None]
    /\ \/ /\ cliOpen[k]
          /\ toServer' = SendToServer(k, ExitMsg(s, DecidedCode(s)))
          /\ task' = [task EXCEPT ![s] = [TaskLost(s) EXCEPT !.code = DecidedCode(s),
                                                            !.sent = task[s].sent]]
          /\ UNCHANGED cliOpen
       \/ /\ WireDead(k)
          /\ cliOpen' = [cliOpen EXCEPT ![k] = FALSE]
          /\ task' = [task EXCEPT ![s] = TaskLost(s)]
          /\ UNCHANGED toServer
    /\ UNCHANGED <<hubVars, srvOpen, toAgent, ses, faults>>

-----------------------------------------------------------------------------
HandlerStep(k) ==
    \/ Register(k) \/ HandlerReads(k) \/ HandlerReadFails(k) \/ HandlerDelivers(k)
    \/ HandlerGivesUp(k) \/ Unregister(k)

\* What a session does without waiting for its SSH client.
SessionStep(s) ==
    \/ LookupPeer(s) \/ LookupFails(s) \/ Claim(s) \/ Busy(s) \/ Dispatch(s)
    \/ DispatchFails(s) \/ DispatchInDoubt(s) \/ Refuse(s) \/ ReportFailure(s)
    \/ SeesDone(s) \/ SeesDeadline(s) \/ TakesExit(s) \/ TakesOutput(s)
    \/ (SendExit(s) /\ ~ExitMayBlock(s)) \/ Release(s) \/ Clear(s)

\* The SSH client answers CLOSE, or its connection ends: the write that waits returns.
ClientAnswersClose(s) ==
    /\ ~ses[s].chanOpen
    /\ WriteFails(s) \/ (SendExit(s) /\ ExitMayBlock(s))

SshClient(s) ==
    \/ ExecRequest(s) \/ NoExecRequest(s) \/ SeesCancel(s) \/ WriteSucceeds(s)
    \/ (SendExit(s) /\ ExitMayBlock(s) /\ ses[s].chanOpen) \/ ClientAnswersClose(s)

AgentStep == AgentExec \/ AgentCancel \/ AgentReadFails \/ AgentLeaves

\* What the goroutine does without waiting for the user's command.
TaskStep(s) ==
    \/ TaskStarts(s) \/ TaskCannotStart(s)
    \/ (TaskEnds(s) /\ task[s].stop # "none")
    \/ TaskReportsError(s) \/ TaskSendsExit(s)

Command(s) == (TaskEnds(s) /\ task[s].stop = "none") \/ TaskOutput(s)

Faults == (\E k \in Conns : HeartbeatFails(k)) \/ Disconnect \/ ConnectionCut \/ AgentRestart

Next ==
    \/ \E k \in Conns : HandlerStep(k) \/ Dial(k)
    \/ \E s \in Sessions : SessionStep(s) \/ SshClient(s) \/ Watchdog(s)
    \/ AgentStep
    \/ \E s \in Sessions : TaskStep(s) \/ Command(s) \/ TaskTimesOut(s)
    \/ Faults

Spec == Init /\ [][Next]_vars

\* Every goroutine keeps running, timers fire and the agent dials again. Nothing
\* is assumed of the SSH client, of the user's command, of the faults, nor of
\* the agent's own task timer.
CodeFairness ==
    /\ \A k \in Conns : WF_vars(HandlerStep(k))
    /\ WF_vars(\E k \in Conns : Dial(k))
    /\ WF_vars(AgentStep)
    /\ \A s \in Sessions : /\ WF_vars(SessionStep(s))
                           /\ WF_vars(Watchdog(s))
                           /\ WF_vars(TaskStep(s))

\* An SSH client may stop reading for ever, but it answers the CLOSE of its channel,
\* as RFC 4254 demands, or its connection ends.
ClientFairness == \A s \in Sessions : WF_vars(ClientAnswersClose(s))

Fairness == CodeFairness /\ ClientFairness

FairSpec == Spec /\ Fairness

-----------------------------------------------------------------------------
(* Safety *)

\* The agent is never sent a command while it still has one: the "concurrent
\* task" exit of connect is never taken against this server.
NoOverlappingExec ==
    AgentSees("exec") => agent.job = None

\* Two commands never run at the same time on the agent, not even across a
\* reconnection, when the old command is still being terminated.
SingleProcess ==
    \A s, t \in Sessions :
        task[s].pc \in LiveStages /\ task[t].pc \in LiveStages => s = t

\* A command is started at most once, whatever is lost, cut or restarted.
AtMostOnce ==
    \A s \in Sessions : task[s].runs <= 1

\* A session that waits for its job owns the slot of its peer: no other session
\* and no late deferred function took it away.
SlotOwned ==
    \A s \in Sessions : ses[s].pc \in {"send", "loop", "write"} => job[ses[s].peer] = s

\* A session that reports the agent's exit code reports the code of its own job,
\* after all output the agent sent for it.
CompleteOutput ==
    \A s \in Sessions : ses[s].pc = "exit" /\ ses[s].completed =>
        /\ ses[s].code = task[s].code
        /\ ses[s].forwarded = task[s].sent

\* A connection that is being served and still open is the one sessions find:
\* no late clean-up of an older connection removed it from the hub.
ServingIsRegistered ==
    \A k \in Conns : srv[k] = "serving" /\ srvOpen[k] => peers = k

-----------------------------------------------------------------------------
(* Liveness *)

\* Every session that issued a command ends, even if its SSH client stops reading
\* and the agent never answers: the watchdog sends CLOSE, and the client's answer
\* ends the write that waits for window.
SessionEnds ==
    \A s \in Sessions : ses[s].pc = "lookup" ~> ses[s].pc = "done"

\* Once a session has ended its command does not go on running on the agent, even
\* without the agent's own time limit.
NoOrphan ==
    \A s \in Sessions : ses[s].pc = "done" ~> task[s].pc \notin LiveStages

\* After the last fault and the last session the agent is found online again.
AgentComesBack ==
    <>[](agent.pc = "reading" /\ peers = agent.conn)

\* "SSH clients may stop reading. Closing the channel independently unblocks a pending
\* output Write, so cancellation and task limits still take effect" (agent.go:285):
\* a session whose watchdog has sent CLOSE ends.
ClosingEndsSession ==
    \A s \in Sessions :
        ses[s].pc \in WatchedStages /\ ~ses[s].chanOpen ~> ses[s].pc = "done"
=============================================================================
