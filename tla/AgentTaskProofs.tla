--------------------------- MODULE AgentTaskProofs ---------------------------
(***************************************************************************)
(* Proofs about AgentTask, for every set of sessions and connections and   *)
(* every value of the limits.                                              *)
(***************************************************************************)
EXTENDS AgentTask, TLAPS

-----------------------------------------------------------------------------
(* Typing. TypeOK is not inductive by itself: the agent must hold a real     *)
(* connection while it reads, and a task that has ended must have a code.    *)

AgentConnected ==
    IF agent.pc = "offline" THEN agent.job = None ELSE agent.conn \in Conns

CodeKnown ==
    \A s \in Sessions : task[s].pc \in {"failed", "ended"} => task[s].code \in Codes

TypeInv == TypeOK /\ AgentConnected /\ CodeKnown

LEMMA TypeInit == Init => TypeInv
BY ConstantsAssumption
   DEF Init, TypeInv, TypeOK, AgentConnected, CodeKnown, NewSession, NoTask,
       SessionState, AgentState, TaskState, HandlerStages, SessionStages,
       AgentStages, TaskStages, NoCode, Codes, ProcessCodes

\* The updates of a session's variables that the actions make keep its type.
LEMMA SessionUpdates ==
    ASSUME NEW r \in SessionState
    PROVE  /\ \A p \in SessionStages : [r EXCEPT !.pc = p] \in SessionState
           /\ \A p \in SessionStages, c \in Codes \cup {NoCode} : [r EXCEPT !.pc = p, !.code = c] \in SessionState
           /\ \A p \in SessionStages, k \in Conns \cup {None} : [r EXCEPT !.pc = p, !.peer = k] \in SessionState
           /\ \A p \in SessionStages, c \in Codes \cup {NoCode}, k \in Conns \cup {None} : [r EXCEPT !.pc = p, !.code = c, !.peer = k] \in SessionState
           /\ \A p \in SessionStages, n \in Nat : [r EXCEPT !.pc = p, !.forwarded = n] \in SessionState
           /\ [r EXCEPT !.chanOpen = FALSE] \in SessionState
           /\ \A q \in Seq(ToServerMsg) : [r EXCEPT !.events = q] \in SessionState
           /\ \A p \in SessionStages, q \in Seq(ToServerMsg), c \in Codes \cup {NoCode} : [r EXCEPT !.events = q, !.pc = p, !.code = c] \in SessionState
           /\ \A p \in SessionStages, q \in Seq(ToServerMsg), c \in Codes \cup {NoCode} : [r EXCEPT !.pc = p, !.events = q, !.completed = TRUE, !.code = c] \in SessionState
<1>1. \A p \in SessionStages : [r EXCEPT !.pc = p] \in SessionState
  BY DEF SessionState
<1>2. \A p \in SessionStages, c \in Codes \cup {NoCode} : [r EXCEPT !.pc = p, !.code = c] \in SessionState
  BY DEF SessionState
<1>3. \A p \in SessionStages, k \in Conns \cup {None} : [r EXCEPT !.pc = p, !.peer = k] \in SessionState
  BY DEF SessionState
<1>4. \A p \in SessionStages, c \in Codes \cup {NoCode}, k \in Conns \cup {None} : [r EXCEPT !.pc = p, !.code = c, !.peer = k] \in SessionState
  BY DEF SessionState
<1>5. \A p \in SessionStages, n \in Nat : [r EXCEPT !.pc = p, !.forwarded = n] \in SessionState
  BY DEF SessionState
<1>6. [r EXCEPT !.chanOpen = FALSE] \in SessionState
  BY DEF SessionState
<1>7. \A q \in Seq(ToServerMsg) : [r EXCEPT !.events = q] \in SessionState
  BY DEF SessionState
<1>8. \A p \in SessionStages, q \in Seq(ToServerMsg), c \in Codes \cup {NoCode} : [r EXCEPT !.events = q, !.pc = p, !.code = c] \in SessionState
  BY DEF SessionState
<1>9. \A p \in SessionStages, q \in Seq(ToServerMsg), c \in Codes \cup {NoCode} : [r EXCEPT !.pc = p, !.events = q, !.completed = TRUE, !.code = c] \in SessionState
  BY DEF SessionState
<1> QED BY <1>1, <1>2, <1>3, <1>4, <1>5, <1>6, <1>7, <1>8, <1>9

LEMMA EndedTyped == EndedSession \in SessionState
<1>1. NewSession \in SessionState
  BY DEF SessionState, SessionStages, NewSession
<1>2. \A x \in SessionState : [x EXCEPT !.pc = "done", !.chanOpen = FALSE] \in SessionState
  BY DEF SessionState, SessionStages
<1> QED BY <1>1, <1>2 DEF EndedSession

\* The same for the variables of a task.
LEMMA TaskUpdates ==
    ASSUME NEW r \in TaskState
    PROVE  /\ \A d \in {"none", "deadline", "cancelled"} : [r EXCEPT !.stop = d] \in TaskState
           /\ \A p \in TaskStages, k \in Conns \cup {None} : [r EXCEPT !.pc = p, !.conn = k] \in TaskState
           /\ \A p \in TaskStages, n \in Nat : [r EXCEPT !.pc = p, !.runs = n] \in TaskState
           /\ \A p \in TaskStages, c \in Codes \cup {NoCode} : [r EXCEPT !.pc = p, !.code = c] \in TaskState
           /\ \A p \in TaskStages, d \in {"none", "deadline", "cancelled"} : [r EXCEPT !.pc = p, !.exceeded = TRUE, !.stop = d] \in TaskState
           /\ \A p \in TaskStages, n \in Nat : [r EXCEPT !.pc = p, !.sent = n] \in TaskState
           /\ \A p \in TaskStages, d \in {"none", "deadline", "cancelled"} : [r EXCEPT !.pc = p, !.stop = d] \in TaskState
           /\ \A c \in Codes \cup {NoCode}, n \in Nat : [r EXCEPT !.code = c, !.sent = n] \in TaskState
<1>1. \A d \in {"none", "deadline", "cancelled"} : [r EXCEPT !.stop = d] \in TaskState
  BY DEF TaskState
<1>2. \A p \in TaskStages, k \in Conns \cup {None} : [r EXCEPT !.pc = p, !.conn = k] \in TaskState
  BY DEF TaskState
<1>3. \A p \in TaskStages, n \in Nat : [r EXCEPT !.pc = p, !.runs = n] \in TaskState
  BY DEF TaskState
<1>4. \A p \in TaskStages, c \in Codes \cup {NoCode} : [r EXCEPT !.pc = p, !.code = c] \in TaskState
  BY DEF TaskState
<1>5. \A p \in TaskStages, d \in {"none", "deadline", "cancelled"} : [r EXCEPT !.pc = p, !.exceeded = TRUE, !.stop = d] \in TaskState
  BY DEF TaskState
<1>6. \A p \in TaskStages, n \in Nat : [r EXCEPT !.pc = p, !.sent = n] \in TaskState
  BY DEF TaskState
<1>7. \A p \in TaskStages, d \in {"none", "deadline", "cancelled"} : [r EXCEPT !.pc = p, !.stop = d] \in TaskState
  BY DEF TaskState
<1>8. \A c \in Codes \cup {NoCode}, n \in Nat : [r EXCEPT !.code = c, !.sent = n] \in TaskState
  BY DEF TaskState
<1> QED BY <1>1, <1>2, <1>3, <1>4, <1>5, <1>6, <1>7, <1>8

LEMMA NoTaskTyped == NoTask \in TaskState
BY DEF TaskState, TaskStages, NoTask

LEMMA CodesKnown == {0, 1, TimedOut, Unavailable, Aborted} \subseteq Codes
BY DEF Codes, ProcessCodes

LEMMA TypeInvFacts ==
    ASSUME TypeInv
    PROVE  /\ ses \in [Sessions -> SessionState] /\ task \in [Sessions -> TaskState]
           /\ agent \in AgentState /\ AgentConnected /\ CodeKnown
           /\ peers \in Conns \cup {None}
           /\ srv \in [Conns -> HandlerStages] /\ job \in [Conns -> Sessions \cup {None}]
           /\ held \in [Conns -> ToServerMsg \cup {None}]
           /\ srvOpen \in [Conns -> BOOLEAN] /\ cliOpen \in [Conns -> BOOLEAN]
           /\ toAgent \in [Conns -> Seq(ToAgentMsg)]
           /\ toServer \in [Conns -> Seq(ToServerMsg)]
BY DEF TypeInv, TypeOK

LEMMA SendToAgentTyped ==
    ASSUME TypeInv, NEW m \in ToAgentMsg, NEW k
    PROVE  SendToAgent(k, m) \in [Conns -> Seq(ToAgentMsg)]
<1>1. k \in Conns => Append(toAgent[k], m) \in Seq(ToAgentMsg)
  BY TypeInvFacts
<1> QED BY <1>1, TypeInvFacts DEF SendToAgent

LEMMA SendToServerTyped ==
    ASSUME TypeInv, NEW m \in ToServerMsg, NEW k
    PROVE  SendToServer(k, m) \in [Conns -> Seq(ToServerMsg)]
<1>1. k \in Conns => Append(toServer[k], m) \in Seq(ToServerMsg)
  BY TypeInvFacts
<1> QED BY <1>1, TypeInvFacts DEF SendToServer

\* A step of a session that changes nothing but its own variables.
LEMMA OnlySessionTyped ==
    ASSUME TypeInv, NEW s \in Sessions, NEW r \in SessionState,
           ses' = [ses EXCEPT ![s] = r], OnlySession
    PROVE  TypeInv'
<1>1. ses' \in [Sessions -> SessionState]
  BY TypeInvFacts
<1> QED BY <1>1 DEF TypeInv, TypeOK, AgentConnected, CodeKnown, OnlySession, hubVars, wireVars

LEMMA TypeSession ==
    ASSUME TypeInv, NEW s \in Sessions, SessionStep(s) \/ SshClient(s) \/ Watchdog(s)
    PROVE  TypeInv'
<1>0. /\ ses[s] \in SessionState
      /\ ses[s].events \in Seq(ToServerMsg)
      /\ ses[s].code \in Codes \cup {NoCode}
      /\ ses[s].forwarded + 1 \in Nat
      /\ ses[s].peer \in Conns \cup {None}
  BY TypeInvFacts DEF SessionState
<1> DEFINE Kept == \E r \in SessionState : ses' = [ses EXCEPT ![s] = r]
<1>1. CASE ExecRequest(s)
  <2>1. Kept
    BY <1>0, <1>1, SessionUpdates DEF ExecRequest, SessionStages
  <2> QED BY <1>1, <2>1, OnlySessionTyped DEF ExecRequest
<1>2. CASE NoExecRequest(s)
  <2>1. Kept
    BY <1>0, <1>2, SessionUpdates, EndedTyped DEF NoExecRequest, SessionStages
  <2> QED BY <1>2, <2>1, OnlySessionTyped DEF NoExecRequest
<1>3. CASE LookupPeer(s)
  <2>1. Kept
    BY <1>0, <1>3, SessionUpdates, TypeInvFacts DEF LookupPeer, SessionStages
  <2> QED BY <1>3, <2>1, OnlySessionTyped DEF LookupPeer
<1>4. CASE LookupFails(s)
  <2>1. Kept
    BY <1>0, <1>4, SessionUpdates, CodesKnown DEF LookupFails, SessionStages
  <2> QED BY <1>4, <2>1, OnlySessionTyped DEF LookupFails
<1>5. CASE Busy(s)
  <2>1. Kept
    BY <1>0, <1>5, SessionUpdates, CodesKnown DEF Busy, SessionStages
  <2> QED BY <1>5, <2>1, OnlySessionTyped DEF Busy
<1>6. CASE DispatchFails(s)
  <2>1. Kept
    BY <1>0, <1>6, SessionUpdates, CodesKnown DEF DispatchFails, SessionStages
  <2> QED BY <1>6, <2>1, OnlySessionTyped DEF DispatchFails
<1>7. CASE Refuse(s)
  <2>1. Kept
    BY <1>0, <1>7, SessionUpdates, EndedTyped DEF Refuse, SessionStages
  <2> QED BY <1>7, <2>1, OnlySessionTyped DEF Refuse
<1>21. CASE ReportFailure(s)
  <2>1. Kept
    BY <1>0, <1>21, SessionUpdates DEF ReportFailure, SessionStages
  <2> QED BY <1>21, <2>1, OnlySessionTyped DEF ReportFailure
<1>22. CASE DispatchInDoubt(s)
  <2>1. Kept
    BY <1>0, <1>22, SessionUpdates, CodesKnown DEF DispatchInDoubt, SessionStages
  <2>2. ses' \in [Sessions -> SessionState]
    BY <2>1, TypeInvFacts
  <2>3. toAgent' \in [Conns -> Seq(ToAgentMsg)]
    BY <1>22, SendToAgentTyped DEF DispatchInDoubt, ExecMsg, ToAgentMsg
  <2> QED BY <1>22, <2>2, <2>3 DEF DispatchInDoubt, TypeInv, TypeOK, AgentConnected, CodeKnown, hubVars
<1>8. CASE SeesCancel(s)
  <2>1. Kept
    BY <1>0, <1>8, SessionUpdates, CodesKnown DEF SeesCancel, LeaveLoop, SessionStages
  <2> QED BY <1>8, <2>1, OnlySessionTyped DEF SeesCancel, LeaveLoop
<1>9. CASE SeesDeadline(s)
  <2>1. Kept
    BY <1>0, <1>9, SessionUpdates, CodesKnown DEF SeesDeadline, LeaveLoop, SessionStages
  <2> QED BY <1>9, <2>1, OnlySessionTyped DEF SeesDeadline, LeaveLoop
<1>10. CASE SeesDone(s)
  <2>1. Kept
    BY <1>0, <1>10, SessionUpdates, CodesKnown DEF SeesDone, LeaveLoop, SessionStages
  <2> QED BY <1>10, <2>1, OnlySessionTyped DEF SeesDone, LeaveLoop
<1>11. CASE WriteSucceeds(s)
  <2>1. Kept
    <3>1. [ses[s] EXCEPT !.pc = "loop", !.forwarded = ses[s].forwarded + 1] \in SessionState
      BY <1>0, SessionUpdates DEF SessionStages
    <3> QED BY <1>11, <3>1 DEF WriteSucceeds
  <2> QED BY <1>11, <2>1, OnlySessionTyped DEF WriteSucceeds
<1>12. CASE WriteFails(s)
  <2>1. Kept
    BY <1>0, <1>12, SessionUpdates DEF WriteFails, SessionStages
  <2> QED BY <1>12, <2>1, OnlySessionTyped DEF WriteFails
<1>13. CASE SendExit(s)
  <2>1. Kept
    BY <1>0, <1>13, SessionUpdates DEF SendExit, SessionStages
  <2> QED BY <1>13, <2>1, OnlySessionTyped DEF SendExit
<1>14. CASE Watchdog(s)
  <2>1. Kept
    BY <1>0, <1>14, SessionUpdates DEF Watchdog, SessionStages
  <2> QED BY <1>14, <2>1, OnlySessionTyped DEF Watchdog
<1>15. CASE Claim(s)
  <2>1. Kept
    BY <1>0, <1>15, SessionUpdates DEF Claim, SessionStages
  <2>2. ses' \in [Sessions -> SessionState]
    BY <2>1, TypeInvFacts
  <2>3. job' \in [Conns -> Sessions \cup {None}]
    BY <1>0, <1>15, TypeInvFacts DEF Claim
  <2> QED BY <1>15, <2>2, <2>3 DEF Claim, TypeInv, TypeOK, AgentConnected, CodeKnown, wireVars
<1>16. CASE Dispatch(s)
  <2>1. Kept
    BY <1>0, <1>16, SessionUpdates DEF Dispatch, SessionStages
  <2>2. ses' \in [Sessions -> SessionState]
    BY <2>1, TypeInvFacts
  <2>3. toAgent' \in [Conns -> Seq(ToAgentMsg)]
    BY <1>16, SendToAgentTyped DEF Dispatch, ExecMsg, ToAgentMsg
  <2> QED BY <1>16, <2>2, <2>3 DEF Dispatch, TypeInv, TypeOK, AgentConnected, CodeKnown, hubVars
<1>17. CASE TakesExit(s)
  <2>1. Head(ses[s].events) \in ToServerMsg /\ Tail(ses[s].events) \in Seq(ToServerMsg)
    BY <1>0, <1>17 DEF TakesExit
  <2>2. Head(ses[s].events).code \in Codes
    BY <2>1 DEF ToServerMsg
  <2>3. Kept
    <3>1. [ses[s] EXCEPT !.pc = "exit", !.events = Tail(ses[s].events), !.completed = TRUE,
                         !.code = Head(ses[s].events).code] \in SessionState
      BY <1>0, <2>1, <2>2, SessionUpdates DEF SessionStages
    <3> QED BY <1>17, <3>1 DEF TakesExit
  <2>4. ses' \in [Sessions -> SessionState]
    BY <2>3, TypeInvFacts
  <2>5. job' \in [Conns -> Sessions \cup {None}]
    BY <1>0, <1>17, TypeInvFacts DEF TakesExit
  <2> QED BY <1>17, <2>4, <2>5 DEF TakesExit, TypeInv, TypeOK, AgentConnected, CodeKnown, wireVars
<1>18. CASE TakesOutput(s)
  <2>1. Tail(ses[s].events) \in Seq(ToServerMsg)
    BY <1>0, <1>18 DEF TakesOutput
  <2>2. Kept
    <3> DEFINE p == IF OverLimit(s) THEN "exit" ELSE "write"
               c == IF OverLimit(s) THEN Unavailable ELSE ses[s].code
    <3>1. p \in SessionStages /\ c \in Codes \cup {NoCode}
      BY <1>0, CodesKnown DEF SessionStages
    <3> HIDE DEF p, c
    <3>2. [ses[s] EXCEPT !.events = Tail(ses[s].events), !.pc = p, !.code = c] \in SessionState
      BY <1>0, <2>1, <3>1, SessionUpdates
    <3> QED BY <1>18, <3>2 DEF TakesOutput, p, c
  <2> QED BY <1>18, <2>2, OnlySessionTyped DEF TakesOutput
<1>19. CASE Release(s)
  <2>1. Kept
    BY <1>0, <1>19, SessionUpdates DEF Release, SessionStages
  <2>2. ses' \in [Sessions -> SessionState]
    BY <2>1, TypeInvFacts
  <2>3. toAgent' \in [Conns -> Seq(ToAgentMsg)]
    <3>1. CancelMsg(s) \in ToAgentMsg
      BY DEF CancelMsg, ToAgentMsg
    <3> QED BY <1>19, <3>1, TypeInvFacts, SendToAgentTyped DEF Release
  <2>4. srvOpen' \in [Conns -> BOOLEAN]
    BY <1>19, TypeInvFacts DEF Release
  <2> QED BY <1>19, <2>2, <2>3, <2>4 DEF Release, TypeInv, TypeOK, AgentConnected, CodeKnown, hubVars
<1>20. CASE Clear(s)
  <2>1. Kept
    BY <1>0, <1>20, EndedTyped DEF Clear
  <2>2. ses' \in [Sessions -> SessionState]
    BY <2>1, TypeInvFacts
  <2>3. job' \in [Conns -> Sessions \cup {None}]
    BY <1>0, <1>20, TypeInvFacts DEF Clear
  <2> QED BY <1>20, <2>2, <2>3 DEF Clear, TypeInv, TypeOK, AgentConnected, CodeKnown, wireVars
<1> QED
  BY <1>1, <1>2, <1>3, <1>4, <1>5, <1>6, <1>7, <1>8, <1>9, <1>10, <1>11, <1>12, <1>13, <1>14, <1>15, <1>16, <1>17, <1>18, <1>19, <1>20, <1>21, <1>22 DEF SessionStep, SshClient, ClientAnswersClose

LEMMA TypeHandler ==
    ASSUME TypeInv, NEW k \in Conns, HandlerStep(k)
    PROVE  TypeInv'
<1> USE DEF TypeInv, TypeOK, AgentConnected, CodeKnown, HandlerStages
<1>1. CASE Register(k)
  BY <1>1 DEF Register
<1>2. ASSUME HandlerReturns(k), UNCHANGED <<peers, job, cliOpen, toAgent, ses, agent, task, faults>>
      PROVE  TypeInv'
  <2>1. toServer' \in [Conns -> Seq(ToServerMsg)]
    BY <1>2 DEF HandlerReturns
  <2> QED BY <1>2, <2>1 DEF HandlerReturns
<1>3. CASE HandlerReads(k)
  <2>1. Head(toServer[k]) \in ToServerMsg /\ Tail(toServer[k]) \in Seq(ToServerMsg)
    BY <1>3 DEF HandlerReads
  <2>2. CASE Head(toServer[k]).id = job[k]
    BY <1>3, <2>1, <2>2 DEF HandlerReads
  <2> QED BY <1>2, <1>3, <2>2 DEF HandlerReads
<1>4. CASE HandlerDelivers(k)
  <2> DEFINE s == held[k].id
  <2>1. held[k] \in ToServerMsg /\ s \in Sessions
    BY <1>4 DEF HandlerDelivers, ToServerMsg
  <2>2. ses[s] \in SessionState /\ Append(ses[s].events, held[k]) \in Seq(ToServerMsg)
    BY <2>1 DEF SessionState
  <2>3. [ses[s] EXCEPT !.events = Append(ses[s].events, held[k])] \in SessionState
    BY <2>2, SessionUpdates
  <2>4. ses' \in [Sessions -> SessionState]
    BY <1>4, <2>1, <2>3 DEF HandlerDelivers
  <2> QED BY <1>4, <2>4 DEF HandlerDelivers, wireVars
<1>5. CASE HandlerReadFails(k)
  BY <1>2, <1>5 DEF HandlerReadFails
<1>6. CASE HandlerGivesUp(k)
  BY <1>2, <1>6 DEF HandlerGivesUp
<1>7. CASE Unregister(k)
  BY <1>7 DEF Unregister, wireVars
<1> QED
  BY <1>1, <1>3, <1>4, <1>5, <1>6, <1>7 DEF HandlerStep

LEMMA Drained ==
    ASSUME NEW f \in [Conns -> Seq(ToAgentMsg)], NEW k
    PROVE  [f EXCEPT ![k] = <<>>] \in [Conns -> Seq(ToAgentMsg)]
<1>1. <<>> \in Seq(ToAgentMsg)
  OBVIOUS
<1> DEFINE e == <<>>
<1>2. e \in Seq(ToAgentMsg)
  BY <1>1
<1> HIDE DEF e
<1>3. [f EXCEPT ![k] = e] \in [Conns -> Seq(ToAgentMsg)]
  BY <1>2
<1> QED BY <1>3 DEF e

LEMMA TypeAgentReturns ==
    ASSUME TypeInv, agent.pc # "offline", AgentReturns,
           UNCHANGED <<hubVars, srvOpen, toServer, ses, faults>>
    PROVE  TypeInv'
<1>1. agent' \in AgentState /\ AgentConnected'
  BY TypeInvFacts DEF AgentReturns, AgentState, AgentStages, AgentConnected
<1>2. task' \in [Sessions -> TaskState] /\ CodeKnown'
  <2>1. CASE agent.job = None
    BY <2>1, TypeInvFacts DEF AgentReturns, CodeKnown
  <2>2. CASE agent.job # None
    <3>1. agent.job \in Sessions /\ task[agent.job] \in TaskState
      BY <2>2, TypeInvFacts DEF AgentState
    <3>2. Cancelled(task[agent.job].stop) \in {"none", "deadline", "cancelled"}
      BY <3>1 DEF Cancelled, TaskState
    <3>3. [task[agent.job] EXCEPT !.stop = Cancelled(task[agent.job].stop)] \in TaskState
      BY <3>1, <3>2, TaskUpdates
    <3>4. task' = CancelTask(agent.job)
      BY <2>2 DEF AgentReturns
    <3>5. task' \in [Sessions -> TaskState]
      BY <3>1, <3>3, <3>4, TypeInvFacts DEF CancelTask
    <3>6. \A s \in Sessions : task'[s].pc = task[s].pc /\ task'[s].code = task[s].code
      BY <3>1, <3>4, TypeInvFacts DEF CancelTask, TaskState
    <3> QED BY <3>5, <3>6, TypeInvFacts DEF CodeKnown
  <2> QED BY <2>1, <2>2
<1>3. cliOpen' \in [Conns -> BOOLEAN]
  BY TypeInvFacts DEF AgentReturns
<1>4. toAgent' \in [Conns -> Seq(ToAgentMsg)]
  BY Drained, TypeInvFacts DEF AgentReturns
<1> QED BY <1>1, <1>2, <1>3, <1>4 DEF TypeInv, TypeOK, hubVars

LEMMA TypeAgent ==
    ASSUME TypeInv, AgentStep \/ ConnectionCut \/ AgentRestart \/ \E k \in Conns : Dial(k)
    PROVE  TypeInv'
<1> USE ConstantsAssumption
<1>0. \A k \in Conns : /\ toAgent[k] \in Seq(ToAgentMsg)
                       /\ toAgent[k] # <<>> => /\ Head(toAgent[k]) \in ToAgentMsg
                                               /\ Tail(toAgent[k]) \in Seq(ToAgentMsg)
  BY TypeInvFacts
<1>1. CASE AgentExec
  <2> DEFINE k == agent.conn
             s == Head(toAgent[k]).id
  <2>0. agent.pc = "reading" /\ k \in Conns /\ toAgent[k] # <<>> /\ agent \in AgentState
    BY <1>1, TypeInvFacts DEF AgentExec, AgentSees, AgentConnected
  <2>1. CASE agent.job = None
    <3>1. s \in Sessions
      BY <1>0, <2>0 DEF ToAgentMsg
    <3> HIDE DEF s
    <3>2. agent' \in AgentState /\ AgentConnected'
      BY <1>1, <2>0, <2>1, <3>1 DEF AgentExec, AgentState, AgentConnected, s
    <3>3. toAgent' \in [Conns -> Seq(ToAgentMsg)]
      BY <1>0, <1>1, <2>0, <2>1, TypeInvFacts DEF AgentExec
    <3>4. task[s] \in TaskState
      BY <3>1, TypeInvFacts
    <3>5. [task[s] EXCEPT !.pc = "starting", !.conn = k] \in TaskState
      BY <2>0, <3>4, TaskUpdates DEF TaskStages
    <3>6. task' = [task EXCEPT ![s] = [task[s] EXCEPT !.pc = "starting", !.conn = k]]
      BY <1>1, <2>1 DEF AgentExec, s
    <3>7. task' \in [Sessions -> TaskState]
      BY <3>1, <3>5, <3>6, TypeInvFacts
    <3>8. CodeKnown'
      BY <3>1, <3>4, <3>6, TypeInvFacts DEF CodeKnown, TaskState
    <3> QED BY <1>1, <2>1, <3>2, <3>3, <3>7, <3>8 DEF AgentExec, TypeInv, TypeOK, hubVars
  <2>2. CASE agent.job # None
    BY <1>1, <2>0, <2>2, TypeAgentReturns DEF AgentExec
  <2> QED BY <2>1, <2>2
<1>2. CASE AgentCancel
  <2> DEFINE k == agent.conn
             s == Head(toAgent[k]).id
  <2>0. agent.pc = "reading" /\ k \in Conns /\ toAgent[k] # <<>>
    BY <1>2, TypeInvFacts DEF AgentCancel, AgentSees, AgentConnected
  <2>1. s \in Sessions /\ task[s] \in TaskState
    BY <1>0, <2>0, TypeInvFacts DEF ToAgentMsg
  <2> HIDE DEF s
  <2>2. toAgent' \in [Conns -> Seq(ToAgentMsg)]
    BY <1>0, <1>2, <2>0, TypeInvFacts DEF AgentCancel
  <2>3. Cancelled(task[s].stop) \in {"none", "deadline", "cancelled"}
    BY <2>1 DEF Cancelled, TaskState
  <2>4. [task[s] EXCEPT !.stop = Cancelled(task[s].stop)] \in TaskState
    BY <2>1, <2>3, TaskUpdates
  <2>5. task' = CancelTask(s) \/ task' = task
    BY <1>2 DEF AgentCancel, s
  <2>6. task' \in [Sessions -> TaskState]
    BY <2>1, <2>4, <2>5, TypeInvFacts DEF CancelTask
  <2>7. \A t \in Sessions : task'[t].pc = task[t].pc /\ task'[t].code = task[t].code
    <3>1. CASE task' = task
      BY <3>1
    <3>2. CASE task' = CancelTask(s)
      BY <2>1, <3>2, TypeInvFacts DEF CancelTask, TaskState
    <3> QED BY <2>5, <3>1, <3>2
  <2>8. CodeKnown'
    BY <2>7, TypeInvFacts DEF CodeKnown
  <2> QED BY <1>2, <2>2, <2>6, <2>8 DEF AgentCancel, TypeInv, TypeOK, AgentConnected, hubVars
<1>3. CASE AgentReadFails
  BY <1>3, TypeAgentReturns DEF AgentReadFails
<1>4. CASE AgentLeaves
  <2>1. agent' \in AgentState /\ AgentConnected'
    BY <1>4 DEF AgentLeaves, AgentState, AgentStages, AgentConnected
  <2> QED BY <1>4, <2>1 DEF AgentLeaves, TypeInv, TypeOK, CodeKnown, hubVars, wireVars
<1>5. CASE ConnectionCut
  BY <1>5 DEF ConnectionCut, TypeInv, TypeOK, AgentConnected, CodeKnown, hubVars
<1>6. CASE AgentRestart
  <2>1. agent' \in AgentState /\ AgentConnected'
    BY <1>6 DEF AgentRestart, AgentState, AgentStages, AgentConnected
  <2>2. \A s \in Sessions : TaskLost(s) \in TaskState /\ TaskLost(s).pc = "over"
    <3>1. \A n \in Nat : [NoTask EXCEPT !.pc = "over", !.runs = n] \in TaskState
      BY NoTaskTyped, TaskUpdates DEF TaskStages
    <3>2. \A s \in Sessions : task[s].runs \in Nat
      BY TypeInvFacts DEF TaskState
    <3> QED BY <3>1, <3>2 DEF TaskLost, NoTask
  <2>3. \A s \in Sessions : task'[s] = TaskLost(s) \/ task'[s] = task[s]
    BY <1>6 DEF AgentRestart
  <2>4. task' \in [Sessions -> TaskState]
    BY <1>6, <2>2, TypeInvFacts DEF AgentRestart
  <2>5. CodeKnown'
    BY <2>2, <2>3, TypeInvFacts DEF CodeKnown
  <2>6. toAgent' \in [Conns -> Seq(ToAgentMsg)]
    BY <1>6, Drained, TypeInvFacts DEF AgentRestart
  <2>7. cliOpen' \in [Conns -> BOOLEAN]
    BY <1>6, TypeInvFacts DEF AgentRestart
  <2> QED BY <1>6, <2>1, <2>4, <2>5, <2>6, <2>7 DEF AgentRestart, TypeInv, TypeOK, hubVars
<1>7. ASSUME NEW k \in Conns, Dial(k) PROVE TypeInv'
  <2>1. agent' \in AgentState /\ AgentConnected'
    BY <1>7 DEF Dial, AgentState, AgentStages, AgentConnected
  <2>2. toAgent' \in [Conns -> Seq(ToAgentMsg)]
    BY <1>7, TypeInvFacts DEF Dial
  <2>3. toServer' \in [Conns -> Seq(ToServerMsg)]
    BY <1>7, TypeInvFacts DEF Dial
  <2>4. /\ srv' \in [Conns -> HandlerStages] /\ job' \in [Conns -> Sessions \cup {None}]
        /\ held' \in [Conns -> ToServerMsg \cup {None}]
    BY <1>7, TypeInvFacts DEF Dial, HandlerStages
  <2>5. srvOpen' \in [Conns -> BOOLEAN] /\ cliOpen' \in [Conns -> BOOLEAN]
    BY <1>7, TypeInvFacts DEF Dial
  <2> QED BY <1>7, <2>1, <2>2, <2>3, <2>4, <2>5 DEF Dial, TypeInv, TypeOK, CodeKnown
<1> QED BY <1>1, <1>2, <1>3, <1>4, <1>5, <1>6, <1>7 DEF AgentStep

\* A step of a task that changes nothing but its own variables.
LEMMA OnlyTaskTyped ==
    ASSUME TypeInv, NEW s \in Sessions, NEW r \in TaskState,
           r.pc \in {"failed", "ended"} => r.code \in Codes,
           task' = [task EXCEPT ![s] = r]
    PROVE  task' \in [Sessions -> TaskState] /\ CodeKnown'
<1>1. task' \in [Sessions -> TaskState]
  BY TypeInvFacts
<1>2. \A t \in Sessions : task'[t] = IF t = s THEN r ELSE task[t]
  BY TypeInvFacts
<1> QED BY <1>1, <1>2, TypeInvFacts DEF CodeKnown

LEMMA TypeTask ==
    ASSUME TypeInv, NEW s \in Sessions, TaskStep(s) \/ Command(s) \/ TaskTimesOut(s)
    PROVE  TypeInv'
<1> DEFINE k == task[s].conn
           r == task'[s]
<1>0. /\ task[s] \in TaskState
      /\ task[s].runs \in Nat /\ task[s].runs + 1 \in Nat
      /\ task[s].sent \in Nat /\ task[s].sent + 1 \in Nat
      /\ task[s].stop \in {"none", "deadline", "cancelled"}
      /\ Cancelled(task[s].stop) \in {"none", "deadline", "cancelled"}
      /\ k \in Conns \cup {None}
      /\ task[s].code \in Codes \cup {NoCode}
      /\ task[s].pc \in {"failed", "ended"} => task[s].code \in Codes
  BY TypeInvFacts DEF TaskState, Cancelled, CodeKnown
<1> USE DEF TaskStages
<1>1. CASE TaskStarts(s)
  <2> DEFINE v == [task[s] EXCEPT !.pc = "running", !.runs = task[s].runs + 1]
  <2>1. v \in TaskState /\ v.pc = "running"
    <3>1. v \in TaskState
      BY <1>0, TaskUpdates
    <3>2. v.pc = "running"
      BY <1>0 DEF TaskState
    <3> QED BY <3>1, <3>2
  <2>2. task' = [task EXCEPT ![s] = v]
    BY <1>1 DEF TaskStarts
  <2> HIDE DEF v
  <2>3. task' \in [Sessions -> TaskState] /\ CodeKnown'
    BY <2>1, <2>2, OnlyTaskTyped
  <2> QED BY <1>1, <2>3 DEF TaskStarts, OnlyTask, TypeInv, TypeOK, AgentConnected, hubVars, wireVars
<1>2. CASE TaskCannotStart(s)
  <2> DEFINE c == IF task[s].stop = "none" THEN Unavailable ELSE TimedOut
             v == [task[s] EXCEPT !.pc = "failed", !.code = c]
  <2>1. c \in Codes
    BY CodesKnown
  <2>2. task' = [task EXCEPT ![s] = v]
    BY <1>2 DEF TaskCannotStart
  <2> HIDE DEF c
  <2>3. v \in TaskState /\ v.code = c
    <3>1. v \in TaskState
      BY <1>0, <2>1, TaskUpdates
    <3>2. v.code = c
      BY <1>0 DEF TaskState
    <3> QED BY <3>1, <3>2
  <2> HIDE DEF v
  <2>4. task' \in [Sessions -> TaskState] /\ CodeKnown'
    BY <2>1, <2>2, <2>3, OnlyTaskTyped
  <2> QED BY <1>2, <2>4 DEF TaskCannotStart, OnlyTask, TypeInv, TypeOK, AgentConnected, hubVars, wireVars
<1>3. CASE TaskEnds(s)
  <2>1. PICK c \in Codes, next \in {"failed", "ended"} :
            task' = [task EXCEPT ![s] = [task[s] EXCEPT !.pc = next, !.code = c]]
    BY <1>3 DEF TaskEnds, Codes
  <2> DEFINE v == [task[s] EXCEPT !.pc = next, !.code = c]
  <2>2. v \in TaskState /\ v.code = c
    <3>1. v \in TaskState
      BY <1>0, TaskUpdates
    <3>2. v.code = c
      BY <1>0 DEF TaskState
    <3> QED BY <3>1, <3>2
  <2>3. task' = [task EXCEPT ![s] = v]
    BY <2>1
  <2> HIDE DEF v
  <2>4. task' \in [Sessions -> TaskState] /\ CodeKnown'
    BY <2>2, <2>3, OnlyTaskTyped
  <2> QED BY <1>3, <2>4 DEF TaskEnds, OnlyTask, TypeInv, TypeOK, AgentConnected, hubVars, wireVars
<1>4. CASE TaskTimesOut(s)
  <2> DEFINE v == [task[s] EXCEPT !.stop = "deadline"]
  <2>1. v \in TaskState /\ v.pc = task[s].pc /\ v.code = task[s].code
    <3>1. v \in TaskState
      BY <1>0, TaskUpdates
    <3>2. v.pc = task[s].pc /\ v.code = task[s].code
      BY <1>0 DEF TaskState
    <3> QED BY <3>1, <3>2
  <2>2. task' = [task EXCEPT ![s] = v]
    BY <1>4 DEF TaskTimesOut
  <2> HIDE DEF v
  <2>3. task' \in [Sessions -> TaskState] /\ CodeKnown'
    BY <1>0, <2>1, <2>2, OnlyTaskTyped
  <2> QED BY <1>4, <2>3 DEF TaskTimesOut, OnlyTask, TypeInv, TypeOK, AgentConnected, hubVars, wireVars
<1>5. ASSUME NEW next \in {"running", "ended"}, TaskWrites(s, next),
             next = "ended" => task[s].pc = "failed",
             UNCHANGED <<hubVars, srvOpen, toAgent, ses, agent, faults>>
      PROVE  TypeInv'
  <2> DEFINE v1 == [task[s] EXCEPT !.pc = next, !.exceeded = TRUE,
                                   !.stop = Cancelled(task[s].stop)]
             v2 == [task[s] EXCEPT !.pc = next, !.sent = task[s].sent + 1]
             v3 == [task[s] EXCEPT !.pc = next, !.stop = Cancelled(task[s].stop)]
  <2>1. v1 \in TaskState /\ v1.pc = next /\ v1.code = task[s].code
    <3>1. v1 \in TaskState
      BY <1>0, TaskUpdates
    <3>2. v1.pc = next /\ v1.code = task[s].code
      BY <1>0 DEF TaskState
    <3> QED BY <3>1, <3>2
  <2>2. v2 \in TaskState /\ v2.pc = next /\ v2.code = task[s].code
    <3>1. v2 \in TaskState
      BY <1>0, TaskUpdates
    <3>2. v2.pc = next /\ v2.code = task[s].code
      BY <1>0 DEF TaskState
    <3> QED BY <3>1, <3>2
  <2>3. v3 \in TaskState /\ v3.pc = next /\ v3.code = task[s].code
    <3>1. v3 \in TaskState
      BY <1>0, TaskUpdates
    <3>2. v3.pc = next /\ v3.code = task[s].code
      BY <1>0 DEF TaskState
    <3> QED BY <3>1, <3>2
  <2>4. \/ task' = [task EXCEPT ![s] = v1]
        \/ task' = [task EXCEPT ![s] = v2]
        \/ task' = [task EXCEPT ![s] = v3]
    BY <1>5 DEF TaskWrites
  <2> HIDE DEF v1, v2, v3
  <2>5. task' \in [Sessions -> TaskState] /\ CodeKnown'
    BY <1>0, <1>5, <2>1, <2>2, <2>3, <2>4, OnlyTaskTyped
  <2>6. OutputMsg(s) \in ToServerMsg
    BY CodesKnown DEF OutputMsg, ToServerMsg
  <2>7. toServer' \in [Conns -> Seq(ToServerMsg)]
    BY <1>5, <2>6, SendToServerTyped, TypeInvFacts DEF TaskWrites
  <2>8. cliOpen' \in [Conns -> BOOLEAN]
    BY <1>5, TypeInvFacts DEF TaskWrites
  <2> QED BY <1>5, <2>5, <2>7, <2>8 DEF TypeInv, TypeOK, AgentConnected, hubVars
<1>6. CASE TaskSendsExit(s)
  <2> DEFINE c == DecidedCode(s)
             v1 == [TaskLost(s) EXCEPT !.code = c, !.sent = task[s].sent]
  <2>1. c \in Codes
    BY <1>0, <1>6, CodesKnown DEF TaskSendsExit, DecidedCode
  <2> HIDE DEF c
  <2>2. TaskLost(s) \in TaskState /\ TaskLost(s).pc = "over"
    <3>1. \A n \in Nat : [NoTask EXCEPT !.pc = "over", !.runs = n] \in TaskState
      BY NoTaskTyped, TaskUpdates
    <3> QED BY <1>0, <3>1 DEF TaskLost, NoTask
  <2>3. v1 \in TaskState /\ v1.pc = "over"
    <3>1. v1 \in TaskState
      BY <1>0, <2>1, <2>2, TaskUpdates
    <3> QED BY <2>2, <3>1 DEF TaskState
  <2>4. task' = [task EXCEPT ![s] = v1] \/ task' = [task EXCEPT ![s] = TaskLost(s)]
    BY <1>6 DEF TaskSendsExit, c
  <2> HIDE DEF v1
  <2>5. task' \in [Sessions -> TaskState] /\ CodeKnown'
    BY <2>2, <2>3, <2>4, OnlyTaskTyped
  <2>6. ExitMsg(s, c) \in ToServerMsg
    BY <2>1 DEF ExitMsg, ToServerMsg
  <2>7. toServer' \in [Conns -> Seq(ToServerMsg)]
    BY <1>6, <2>6, SendToServerTyped, TypeInvFacts DEF TaskSendsExit, c
  <2>8. cliOpen' \in [Conns -> BOOLEAN]
    BY <1>6, TypeInvFacts DEF TaskSendsExit
  <2>9. agent' \in AgentState /\ AgentConnected'
    BY <1>6, TypeInvFacts DEF TaskSendsExit, AgentState, AgentConnected
  <2> QED BY <1>6, <2>5, <2>7, <2>8, <2>9 DEF TaskSendsExit, TypeInv, TypeOK, hubVars
<1> QED
  BY <1>1, <1>2, <1>3, <1>4, <1>5, <1>6 DEF TaskStep, Command, TaskOutput, TaskReportsError

LEMMA TypeFaults ==
    ASSUME TypeInv, Faults
    PROVE  TypeInv'
<1>1. ASSUME NEW k \in Conns, HeartbeatFails(k) PROVE TypeInv'
  BY <1>1 DEF HeartbeatFails, TypeInv, TypeOK, AgentConnected, CodeKnown, hubVars
<1>2. CASE Disconnect
  BY <1>2 DEF Disconnect, TypeInv, TypeOK, AgentConnected, CodeKnown
<1> QED BY <1>1, <1>2, TypeAgent DEF Faults

LEMMA TypeNext ==
    ASSUME TypeInv, [Next]_vars
    PROVE  TypeInv'
<1>1. CASE Next
  BY <1>1, TypeHandler, TypeSession, TypeAgent, TypeTask, TypeFaults DEF Next
<1>2. CASE UNCHANGED vars
  BY <1>2 DEF vars, hubVars, wireVars, TypeInv, TypeOK, AgentConnected, CodeKnown
<1> QED BY <1>1, <1>2

\* Every variable keeps its type, whatever the sessions, connections and limits.
THEOREM TypeCorrect == Spec => []TypeOK
<1>1. Init => TypeInv
  BY TypeInit
<1>2. TypeInv /\ [Next]_vars => TypeInv'
  BY TypeNext
<1> QED BY <1>1, <1>2, PTL DEF Spec, TypeInv

-----------------------------------------------------------------------------
(* What the steps of a session, of the agent and of a task leave alone.      *)

LEMMA SessionFrame ==
    ASSUME NEW s \in Sessions, SessionStep(s) \/ SshClient(s) \/ Watchdog(s)
    PROVE  /\ UNCHANGED <<peers, srv, held, cliOpen, toServer, agent, task, faults>>
           /\ Release(s) \/ UNCHANGED srvOpen
           /\ Claim(s) \/ TakesExit(s) \/ Clear(s) \/ UNCHANGED job
<1> USE DEF OnlySession, hubVars, wireVars
<1>1. CASE SessionStep(s)
  BY <1>1 DEF SessionStep, LookupPeer, LookupFails, Claim, Busy, Dispatch, DispatchFails,
              DispatchInDoubt, Refuse, ReportFailure, SeesDone, SeesDeadline, LeaveLoop, TakesExit, TakesOutput, WriteFails,
              SendExit, Release, Clear
<1>2. CASE SshClient(s)
  BY <1>2 DEF SshClient, ExecRequest, NoExecRequest, SeesCancel, LeaveLoop, WriteSucceeds,
              ClientAnswersClose, WriteFails, SendExit
<1>3. CASE Watchdog(s)
  BY <1>3 DEF Watchdog
<1> QED BY <1>1, <1>2, <1>3

LEMMA AgentFrame ==
    ASSUME AgentStep \/ ConnectionCut \/ AgentRestart
    PROVE  UNCHANGED <<hubVars, srvOpen, toServer, ses>>
BY DEF AgentStep, AgentExec, AgentCancel, AgentReadFails, AgentLeaves, ConnectionCut,
       AgentRestart, wireVars

LEMMA TaskFrame ==
    ASSUME NEW s \in Sessions, TaskStep(s) \/ Command(s) \/ TaskTimesOut(s)
    PROVE  UNCHANGED <<hubVars, srvOpen, toAgent, ses, faults>>
BY DEF TaskStep, Command, TaskTimesOut, TaskStarts, TaskCannotStart, TaskEnds, TaskOutput,
       TaskReportsError, TaskSendsExit, OnlyTask, wireVars

-----------------------------------------------------------------------------
(* The registered connection *)

LEMMA ServingStep ==
    ASSUME TypeInv, ServingIsRegistered, Next
    PROVE  ServingIsRegistered'
<1> USE ConstantsAssumption, TypeInvFacts DEF ServingIsRegistered
<1>1. ASSUME NEW k \in Conns, HandlerStep(k) PROVE ServingIsRegistered'
  <2>1. CASE Register(k)
    <3>1. CASE peers = None
      BY <2>1, <3>1 DEF Register
    <3>2. CASE peers # None
      <4>1. UNCHANGED peers /\ srv' = [srv EXCEPT ![k] = "gone"]
        BY <2>1, <3>2 DEF Register
      <4>2. \A j \in Conns : srvOpen'[j] => srvOpen[j]
        BY <2>1, <3>2 DEF Register
      <4> QED BY <4>1, <4>2
    <3> QED BY <3>1, <3>2
  <2>2. CASE Unregister(k)
    BY <2>2 DEF Unregister, wireVars
  <2>3. CASE HandlerReturns(k) /\ UNCHANGED peers
    BY <2>3 DEF HandlerReturns
  <2>4. CASE UNCHANGED <<peers, srv, srvOpen>>
    BY <2>4
  <2> QED BY <1>1, <2>1, <2>2, <2>3, <2>4
       DEF HandlerStep, HandlerReads, HandlerReadFails, HandlerDelivers, HandlerGivesUp, wireVars
<1>2. ASSUME NEW k \in Conns, Dial(k) PROVE ServingIsRegistered'
  BY <1>2 DEF Dial
<1>3. ASSUME NEW s \in Sessions, SessionStep(s) \/ SshClient(s) \/ Watchdog(s)
      PROVE  ServingIsRegistered'
  <2>1. CASE Release(s)
    BY <2>1 DEF Release, hubVars
  <2> QED BY <1>3, <2>1, SessionFrame
<1>4. CASE AgentStep \/ ConnectionCut \/ AgentRestart
  BY <1>4, AgentFrame DEF hubVars
<1>5. ASSUME NEW s \in Sessions, TaskStep(s) \/ Command(s) \/ TaskTimesOut(s)
      PROVE  ServingIsRegistered'
  BY <1>5, TaskFrame DEF hubVars
<1>6. ASSUME NEW k \in Conns, HeartbeatFails(k) PROVE ServingIsRegistered'
  BY <1>6 DEF HeartbeatFails, hubVars
<1>7. CASE Disconnect
  BY <1>7 DEF Disconnect
<1> QED BY <1>1, <1>2, <1>3, <1>4, <1>5, <1>6, <1>7 DEF Next, Faults

\* A connection that is served and open is the one sessions find, whatever the
\* order in which older handlers clean up.
THEOREM ServingRegistered == Spec => []ServingIsRegistered
<1> DEFINE Inv == TypeInv /\ ServingIsRegistered
<1>1. Init => Inv
  BY TypeInit DEF Init, ServingIsRegistered
<1>2. Inv /\ [Next]_vars => Inv'
  <2>1. CASE Next
    BY <2>1, TypeNext, ServingStep
  <2>2. CASE UNCHANGED vars
    BY <2>2, TypeNext DEF vars, hubVars, wireVars, ServingIsRegistered
  <2> QED BY <2>1, <2>2
<1> QED BY <1>1, <1>2, PTL DEF Spec

-----------------------------------------------------------------------------
(* The slot of a connection. A session holds a real connection from the      *)
(* lookup until it has cleared its job.                                      *)

PeerHeld ==
    \A s \in Sessions :
        ses[s].pc \in {"claim", "send", "report", "loop", "write", "exit", "release", "clear"}
            => ses[s].peer \in Conns

SlotInv == PeerHeld /\ SlotOwned

LEMMA SlotSession ==
    ASSUME TypeInv, SlotInv, NEW s \in Sessions,
           SessionStep(s) \/ SshClient(s) \/ Watchdog(s)
    PROVE  SlotInv'
<1> USE ConstantsAssumption, TypeInvFacts DEF SlotInv, PeerHeld, SlotOwned
<1>0. /\ ses[s] \in SessionState
      /\ \A t \in Sessions : ses[t].peer \in Conns \cup {None}
  BY DEF SessionState
<1>2. CASE Claim(s)
  BY <1>0, <1>2 DEF Claim, SessionState
<1>3. CASE TakesExit(s)
  BY <1>0, <1>3 DEF TakesExit, SessionState
<1>4. CASE Clear(s)
  BY <1>0, <1>4 DEF Clear, EndedSession, NewSession
<1>5. CASE LookupPeer(s)
  BY <1>0, <1>5 DEF LookupPeer, OnlySession, hubVars, SessionState
<1>6. CASE Busy(s)
  BY <1>0, <1>6 DEF Busy, OnlySession, hubVars, SessionState
<1>7. CASE NoExecRequest(s)
  BY <1>0, <1>7 DEF NoExecRequest, OnlySession, hubVars, EndedSession, NewSession
<1>8. CASE Refuse(s)
  BY <1>0, <1>8 DEF Refuse, OnlySession, hubVars, EndedSession, NewSession, SessionState
<1>9. CASE ExecRequest(s)
  BY <1>0, <1>9 DEF ExecRequest, OnlySession, hubVars, SessionState
<1>10. CASE LookupFails(s)
  BY <1>0, <1>10 DEF LookupFails, OnlySession, hubVars, SessionState
<1>11. CASE Dispatch(s)
  BY <1>0, <1>11 DEF Dispatch, hubVars, SessionState
<1>12. CASE DispatchFails(s)
  BY <1>0, <1>12 DEF DispatchFails, OnlySession, hubVars, SessionState
<1>13. ASSUME NEW c, LeaveLoop(s, c) PROVE SlotInv'
  BY <1>0, <1>13 DEF LeaveLoop, OnlySession, hubVars, SessionState
<1>14. CASE TakesOutput(s)
  BY <1>0, <1>14 DEF TakesOutput, OnlySession, hubVars, SessionState
<1>15. CASE WriteSucceeds(s)
  BY <1>0, <1>15 DEF WriteSucceeds, OnlySession, hubVars, SessionState
<1>16. CASE WriteFails(s)
  BY <1>0, <1>16 DEF WriteFails, OnlySession, hubVars, SessionState
<1>17. CASE SendExit(s)
  BY <1>0, <1>17 DEF SendExit, OnlySession, hubVars, SessionState
<1>18. CASE Release(s)
  BY <1>0, <1>18 DEF Release, hubVars, SessionState
<1>19. CASE Watchdog(s)
  BY <1>0, <1>19 DEF Watchdog, OnlySession, hubVars, SessionState
<1>20. CASE ReportFailure(s)
  BY <1>0, <1>20 DEF ReportFailure, OnlySession, hubVars, SessionState
<1>21. CASE DispatchInDoubt(s)
  BY <1>0, <1>21 DEF DispatchInDoubt, hubVars, SessionState
<1> QED
  BY <1>2, <1>3, <1>4, <1>5, <1>6, <1>7, <1>8, <1>9, <1>10, <1>11, <1>12, <1>13, <1>14, <1>15,
     <1>16, <1>17, <1>18, <1>19, <1>20, <1>21
     DEF SessionStep, SshClient, ClientAnswersClose, SeesDone, SeesDeadline, SeesCancel

LEMMA SlotStep ==
    ASSUME TypeInv, SlotInv, Next
    PROVE  SlotInv'
<1> USE ConstantsAssumption, TypeInvFacts DEF SlotInv, PeerHeld, SlotOwned
<1>1. ASSUME NEW k \in Conns, HandlerStep(k) PROVE SlotInv'
  <2>1. \A s \in Sessions : ses'[s].pc = ses[s].pc /\ ses'[s].peer = ses[s].peer
    <3>1. CASE HandlerDelivers(k)
      BY <3>1 DEF HandlerDelivers, SessionState
    <3> QED BY <1>1, <3>1 DEF HandlerStep, Register, HandlerReads, HandlerReadFails,
                              HandlerGivesUp, Unregister
  <2>2. UNCHANGED job
    BY <1>1 DEF HandlerStep, Register, HandlerReads, HandlerReadFails, HandlerDelivers,
                HandlerGivesUp, Unregister
  <2> QED BY <2>1, <2>2
<1>2. ASSUME NEW k \in Conns, Dial(k) PROVE SlotInv'
  BY <1>2 DEF Dial, Unused
<1>3. ASSUME UNCHANGED <<job, ses>> PROVE SlotInv'
  BY <1>3
<1>4. CASE AgentStep \/ ConnectionCut \/ AgentRestart
  BY <1>3, <1>4, AgentFrame DEF hubVars
<1>5. ASSUME NEW s \in Sessions, TaskStep(s) \/ Command(s) \/ TaskTimesOut(s)
      PROVE  SlotInv'
  BY <1>3, <1>5, TaskFrame DEF hubVars
<1>6. CASE (\E k \in Conns : HeartbeatFails(k)) \/ Disconnect
  BY <1>3, <1>6 DEF HeartbeatFails, Disconnect, hubVars
<1> QED BY <1>1, <1>2, <1>4, <1>5, <1>6, SlotSession DEF Next, Faults

\* While a session waits for its job no other session can take or clear the slot
\* of its connection.
THEOREM SlotAlwaysOwned == Spec => []SlotOwned
<1> DEFINE Inv == TypeInv /\ SlotInv
<1>1. Init => Inv
  BY TypeInit DEF Init, NewSession, SlotInv, PeerHeld, SlotOwned
<1>2. Inv /\ [Next]_vars => Inv'
  <2>1. CASE Next
    BY <2>1, TypeNext, SlotStep
  <2>2. CASE UNCHANGED vars
    BY <2>2, TypeNext DEF vars, hubVars, wireVars, SlotInv, PeerHeld, SlotOwned
  <2> QED BY <2>1, <2>2
<1> QED BY <1>1, <1>2, PTL DEF Spec, SlotInv

-----------------------------------------------------------------------------
(* One process. The goroutine of a task belongs to the connect call that     *)
(* started it: it is the current job of the agent, on its connection.        *)

TaskOfAgent ==
    \A s \in Sessions : task[s].pc \in LiveStages =>
        agent.job = s /\ agent.conn = task[s].conn /\ agent.pc # "offline"

LEMMA TaskOfAgentReturns ==
    ASSUME TypeInv, TaskOfAgent, agent.pc # "offline", AgentReturns
    PROVE  TaskOfAgent'
<1>1. \A s \in Sessions : task'[s].pc = task[s].pc /\ task'[s].conn = task[s].conn
  <2>1. CASE agent.job = None
    BY <2>1 DEF AgentReturns
  <2>2. CASE agent.job # None
    BY <2>2, TypeInvFacts DEF AgentReturns, CancelTask, TaskState, AgentState
  <2> QED BY <2>1, <2>2
<1>2. agent'.job = agent.job /\ agent'.conn = agent.conn /\ agent'.pc # "offline"
  BY TypeInvFacts DEF AgentReturns, AgentState
<1> QED BY <1>1, <1>2 DEF TaskOfAgent

LEMMA TaskOfAgentStep ==
    ASSUME TypeInv, TaskOfAgent, Next
    PROVE  TaskOfAgent'
<1> USE ConstantsAssumption
<1>1. CASE AgentExec
  <2> DEFINE k == agent.conn
             s == Head(toAgent[k]).id
  <2>0. agent.pc = "reading" /\ k \in Conns /\ toAgent[k] # <<>>
    BY <1>1, TypeInvFacts DEF AgentExec, AgentSees, AgentConnected
  <2>1. CASE agent.job = None
    <3>1. s \in Sessions
      <4>1. Head(toAgent[k]) \in ToAgentMsg
        BY <2>0, TypeInvFacts
      <4> QED BY <4>1 DEF ToAgentMsg
    <3>2. /\ task' = [task EXCEPT ![s] = [task[s] EXCEPT !.pc = "starting", !.conn = k]]
          /\ agent' = [agent EXCEPT !.job = s]
      BY <1>1, <2>1 DEF AgentExec
    <3> HIDE DEF s
    <3>3. agent'.job = s /\ agent'.conn = k /\ agent'.pc # "offline"
      BY <2>0, <3>2, TypeInvFacts DEF AgentState
    <3>4. \A t \in Sessions : task[t].pc \notin LiveStages
      BY <2>1 DEF TaskOfAgent
    <3>5. task'[s].conn = k /\ \A t \in Sessions : t # s => task'[t] = task[t]
      BY <3>1, <3>2, TypeInvFacts DEF TaskState
    <3> QED BY <3>3, <3>4, <3>5 DEF TaskOfAgent
  <2>2. CASE agent.job # None
    BY <1>1, <2>0, <2>2, TaskOfAgentReturns DEF AgentExec
  <2> QED BY <2>1, <2>2
<1>2. CASE AgentCancel
  <2>1. \A t \in Sessions : task'[t].pc = task[t].pc /\ task'[t].conn = task[t].conn
    BY <1>2, TypeInvFacts DEF AgentCancel, CancelTask, TaskState
  <2> QED BY <1>2, <2>1 DEF AgentCancel, TaskOfAgent
<1>3. CASE AgentReadFails
  BY <1>3, TaskOfAgentReturns DEF AgentReadFails
<1>4. CASE AgentLeaves
  BY <1>4 DEF AgentLeaves, TaskOfAgent
<1>5. CASE AgentRestart
  <2>1. \A t \in Sessions : task'[t].pc \notin LiveStages
    <3>1. \A t \in Sessions : TaskLost(t).pc = "over"
      BY DEF TaskLost, NoTask
    <3> QED BY <1>5, <3>1 DEF AgentRestart, LiveStages
  <2> QED BY <2>1 DEF TaskOfAgent
<1>6. ASSUME NEW s \in Sessions, TaskStep(s) \/ Command(s) \/ TaskTimesOut(s)
      PROVE  TaskOfAgent'
  <2>1. CASE TaskSendsExit(s)
    <3>1. TaskLost(s).pc = "over" /\ [TaskLost(s) EXCEPT !.code = DecidedCode(s),
                                                        !.sent = task[s].sent].pc = "over"
      BY DEF TaskLost, NoTask
    <3>2. task'[s].pc = "over" /\ \A t \in Sessions : t # s => task'[t] = task[t]
      BY <2>1, <3>1, TypeInvFacts DEF TaskSendsExit
    <3>3. agent.job = s
      BY <2>1 DEF TaskSendsExit, TaskOfAgent, LiveStages
    <3> QED BY <3>2, <3>3 DEF TaskOfAgent, LiveStages
  <2>2. ASSUME UNCHANGED agent, task[s].pc \in LiveStages,
               \A t \in Sessions : t # s => task'[t] = task[t],
               task'[s].conn = task[s].conn
        PROVE  TaskOfAgent'
    BY <2>2 DEF TaskOfAgent
  <2>3. task[s] \in TaskState
    BY TypeInvFacts
  <2>4. CASE TaskStarts(s)
    BY <2>2, <2>3, <2>4, TypeInvFacts DEF TaskStarts, OnlyTask, TaskState, LiveStages
  <2>5. CASE TaskCannotStart(s)
    BY <2>2, <2>3, <2>5, TypeInvFacts DEF TaskCannotStart, OnlyTask, TaskState, LiveStages
  <2>6. CASE TaskEnds(s)
    BY <2>2, <2>3, <2>6, TypeInvFacts DEF TaskEnds, OnlyTask, TaskState, LiveStages
  <2>7. CASE TaskTimesOut(s)
    BY <2>2, <2>3, <2>7, TypeInvFacts DEF TaskTimesOut, OnlyTask, TaskState, LiveStages
  <2>8. CASE TaskOutput(s) \/ TaskReportsError(s)
    <3>1. task'[s].conn = task[s].conn /\ \A t \in Sessions : t # s => task'[t] = task[t]
      <4>1. PICK next : TaskWrites(s, next)
        BY <2>8 DEF TaskOutput, TaskReportsError
      <4>2. \E r : task' = [task EXCEPT ![s] = r] /\ r.conn = task[s].conn
        <5> DEFINE v1 == [task[s] EXCEPT !.pc = next, !.exceeded = TRUE,
                                         !.stop = Cancelled(task[s].stop)]
                   v2 == [task[s] EXCEPT !.pc = next, !.sent = task[s].sent + 1]
                   v3 == [task[s] EXCEPT !.pc = next, !.stop = Cancelled(task[s].stop)]
        <5>1. v1.conn = task[s].conn /\ v2.conn = task[s].conn /\ v3.conn = task[s].conn
          BY <2>3 DEF TaskState
        <5>2. \/ task' = [task EXCEPT ![s] = v1]
              \/ task' = [task EXCEPT ![s] = v2]
              \/ task' = [task EXCEPT ![s] = v3]
          BY <4>1 DEF TaskWrites
        <5> HIDE DEF v1, v2, v3
        <5> QED BY <5>1, <5>2
      <4> QED BY <4>2, TypeInvFacts
    <3> QED BY <2>2, <2>8, <3>1 DEF TaskOutput, TaskReportsError, LiveStages
  <2> QED BY <1>6, <2>1, <2>4, <2>5, <2>6, <2>7, <2>8 DEF TaskStep, Command
<1>7. ASSUME NEW k \in Conns, Dial(k) PROVE TaskOfAgent'
  BY <1>7 DEF Dial, TaskOfAgent
<1>8. ASSUME UNCHANGED <<agent, task>> PROVE TaskOfAgent'
  BY <1>8 DEF TaskOfAgent
<1>9. ASSUME NEW k \in Conns, HandlerStep(k) \/ HeartbeatFails(k) PROVE TaskOfAgent'
  BY <1>8, <1>9 DEF HandlerStep, Register, HandlerReads, HandlerReadFails, HandlerDelivers,
                    HandlerGivesUp, Unregister, HeartbeatFails
<1>10. CASE Disconnect \/ ConnectionCut
  BY <1>8, <1>10 DEF Disconnect, ConnectionCut
<1>11. ASSUME NEW s \in Sessions, SessionStep(s) \/ SshClient(s) \/ Watchdog(s)
       PROVE  TaskOfAgent'
  BY <1>8, <1>11, SessionFrame
<1> QED
  BY <1>1, <1>2, <1>3, <1>4, <1>5, <1>6, <1>7, <1>9, <1>10, <1>11 DEF Next, AgentStep, Faults

\* Two commands never run at the same time on the agent, across reconnections too.
THEOREM OneProcess == Spec => []SingleProcess
<1> DEFINE Inv == TypeInv /\ TaskOfAgent
<1>1. Init => Inv
  BY TypeInit DEF Init, NoTask, TaskOfAgent, LiveStages
<1>2. Inv /\ [Next]_vars => Inv'
  <2>1. CASE Next
    BY <2>1, TypeNext, TaskOfAgentStep
  <2>2. CASE UNCHANGED vars
    BY <2>2, TypeNext DEF vars, hubVars, wireVars, TaskOfAgent
  <2> QED BY <2>1, <2>2
<1>3. Inv => SingleProcess
  BY DEF TaskOfAgent, SingleProcess
<1> QED BY <1>1, <1>2, <1>3, PTL DEF Spec
=============================================================================
