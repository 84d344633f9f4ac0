----------------------- MODULE AgentTaskRefinementProofs -----------------------
(***************************************************************************)
(* Proofs about the life of one command in AgentTask: it is dispatched and *)
(* started at most once, never while the agent has another one, its output *)
(* is complete when its exit code is passed on, and AgentTask implements   *)
(* RemoteExec.                                                             *)
(***************************************************************************)
EXTENDS AgentTaskRefinement, AgentTaskProofs

-----------------------------------------------------------------------------
(* Once. A session sends its exec message when it leaves these stages, and  *)
(* the agent starts a task by taking that message out of the queue.         *)

Unsent == {"idle", "lookup", "refuse", "claim", "send"}

Queue(k) == 1..Len(toAgent[k])
IsExec(k, i) == toAgent[k][i].type = "exec"

\* The task of a command that is on its way does not exist yet.
ExecPending ==
    \A k \in Conns : \A i \in Queue(k) : IsExec(k, i) =>
        /\ task[toAgent[k][i].id].pc = "none"
        /\ ses[toAgent[k][i].id].pc \notin Unsent

\* A queue has at most one exec message, and no two queues one of the same session.
ExecAlone ==
    \A k \in Conns : \A i, j \in Queue(k) : IsExec(k, i) /\ IsExec(k, j) => i = j

ExecHome ==
    \A k, l \in Conns : k # l =>
        \A i \in Queue(k), j \in Queue(l) :
            IsExec(k, i) /\ IsExec(l, j) => toAgent[k][i].id # toAgent[l][j].id

\* The steps in which the exec message of s leaves, the two that end a Send of it.
ExecLeaves(s) == Dispatch(s) \/ DispatchInDoubt(s)

UnsentNone == \A s \in Sessions : ses[s].pc \in Unsent => task[s].pc = "none"

RunsOf ==
    \A s \in Sessions :
        /\ task[s].runs <= 1
        /\ task[s].pc \in {"none", "starting"} => task[s].runs = 0

-----------------------------------------------------------------------------
(* What any step does to the stage of a session, to a task and to a queue    *)

LEMMA UnsentFlow ==
    ASSUME TypeInv, Next
    PROVE  \A s \in Sessions : ses'[s].pc \in Unsent => ses[s].pc \in Unsent
<1> USE TypeInvFacts DEF Unsent
<1>0. \A t \in Sessions : ses[t] \in SessionState
  OBVIOUS
<1>1. ASSUME NEW s \in Sessions, SessionStep(s) \/ SshClient(s) \/ Watchdog(s),
             NEW t \in Sessions, ses'[t].pc \in Unsent
      PROVE  ses[t].pc \in Unsent
  <2> USE <1>0, <1>1 DEF SessionState
  <2>1. CASE LookupPeer(s) \/ LookupFails(s) \/ Claim(s) \/ Busy(s) \/ ExecRequest(s)
    BY <2>1 DEF LookupPeer, LookupFails, Claim, Busy, ExecRequest
  <2>2. CASE Dispatch(s) \/ DispatchFails(s) \/ DispatchInDoubt(s)
    BY <2>2 DEF Dispatch, DispatchFails, DispatchInDoubt
  <2>3. CASE Refuse(s) \/ NoExecRequest(s) \/ Clear(s)
    <3>1. EndedSession.pc = "done"
      BY DEF EndedSession, NewSession
    <3>2. CASE NoExecRequest(s) \/ Clear(s)
      BY <3>1, <3>2 DEF NoExecRequest, Clear
    <3>3. CASE Refuse(s)
      BY <3>1, <3>3 DEF Refuse
    <3> QED BY <2>3, <3>2, <3>3
  <2>4. ASSUME NEW c, LeaveLoop(s, c) PROVE ses[t].pc \in Unsent
    BY <2>4 DEF LeaveLoop
  <2>5. CASE TakesExit(s)
    BY <2>5 DEF TakesExit
  <2>6. CASE TakesOutput(s)
    BY <2>6 DEF TakesOutput
  <2>11. CASE ReportFailure(s)
    BY <2>11 DEF ReportFailure
  <2>7. CASE WriteSucceeds(s) \/ WriteFails(s)
    BY <2>7 DEF WriteSucceeds, WriteFails
  <2>8. CASE SendExit(s)
    BY <2>8 DEF SendExit
  <2>9. CASE Release(s)
    BY <2>9 DEF Release
  <2>10. CASE Watchdog(s)
    BY <2>10 DEF Watchdog
  <2> QED BY <2>1, <2>2, <2>3, <2>4, <2>5, <2>6, <2>7, <2>8, <2>9, <2>10, <2>11
          DEF SessionStep, SshClient, ClientAnswersClose, SeesDone, SeesDeadline, SeesCancel
<1>2. ASSUME NEW k \in Conns, HandlerStep(k), NEW t \in Sessions
      PROVE  ses'[t].pc = ses[t].pc
  <2>1. CASE HandlerDelivers(k)
    BY <1>0, <2>1 DEF HandlerDelivers, SessionState
  <2> QED BY <1>2, <2>1 DEF HandlerStep, Register, HandlerReads, HandlerReadFails,
                            HandlerGivesUp, Unregister
<1>3. ASSUME NEW k \in Conns, Dial(k) \/ HeartbeatFails(k) PROVE UNCHANGED ses
  BY <1>3 DEF Dial, HeartbeatFails
<1>4. Disconnect => UNCHANGED ses
  BY DEF Disconnect
<1> QED BY <1>1, <1>2, <1>3, <1>4, AgentFrame, TaskFrame DEF Next, Faults

\* A task that exists goes on existing, one that is over stays as it is, a run is counted
\* where it begins, and a task that ends is the agent's job no longer.
TaskFlow(s) ==
    /\ task'[s].pc = "none" <=> task[s].pc = "none"
    /\ task[s].pc = "over" => task'[s].pc = "over" /\ task'[s].code = task[s].code
    /\ task'[s].pc = "starting" => task[s].pc = "starting"
    /\ \/ task'[s].runs = task[s].runs
       \/ /\ task[s].pc = "starting" /\ task'[s].pc = "running"
          /\ task'[s].runs = task[s].runs + 1
    /\ task[s].pc \in LiveStages => task'[s].pc \in LiveStages \/ agent'.job = None

LEMMA CancelFlow ==
    ASSUME TypeInv, NEW t \in Sessions, task' = CancelTask(t)
    PROVE  \A s \in Sessions : TaskFlow(s)
BY TypeInvFacts DEF CancelTask, TaskState, TaskFlow

LEMMA ReturnsFlow ==
    ASSUME TypeInv, AgentReturns
    PROVE  \A s \in Sessions : TaskFlow(s)
<1>1. CASE agent.job = None
  BY <1>1 DEF AgentReturns, TaskFlow
<1>2. CASE agent.job # None
  BY <1>2, CancelFlow, TypeInvFacts DEF AgentReturns, AgentState
<1> QED BY <1>1, <1>2

LEMMA TaskFlows ==
    ASSUME TypeInv, Next
    PROVE  (AgentExec /\ agent.job = None) \/ \A s \in Sessions : TaskFlow(s)
<1> USE TypeInvFacts
<1>0. ASSUME UNCHANGED task PROVE \A s \in Sessions : TaskFlow(s)
  BY <1>0 DEF TaskFlow
<1>1. ASSUME AgentExec, agent.job # None PROVE \A s \in Sessions : TaskFlow(s)
  BY <1>1, ReturnsFlow DEF AgentExec
<1>2. ASSUME AgentCancel PROVE \A s \in Sessions : TaskFlow(s)
  <2>1. CASE UNCHANGED task
    BY <1>0, <2>1
  <2>2. CASE ~UNCHANGED task
    <3>1. task' = CancelTask(agent.job) /\ agent.job \in Sessions
      <4>1. agent.conn \in Conns /\ toAgent[agent.conn] # <<>>
        BY <1>2 DEF AgentCancel, AgentSees, AgentConnected
      <4>2. Head(toAgent[agent.conn]) \in ToAgentMsg
        BY <4>1
      <4> QED BY <1>2, <2>2, <4>2 DEF AgentCancel, ToAgentMsg
    <3> QED BY <3>1, CancelFlow
  <2> QED BY <2>1, <2>2
<1>3. ASSUME AgentReadFails PROVE \A s \in Sessions : TaskFlow(s)
  BY <1>3, ReturnsFlow DEF AgentReadFails
<1>4. ASSUME AgentRestart, NEW s \in Sessions PROVE TaskFlow(s)
  <2>1. TaskLost(s).pc = "over" /\ TaskLost(s).runs = task[s].runs
    BY DEF TaskLost, NoTask
  <2>2. agent'.job = None
    BY <1>4 DEF AgentRestart
  <2> QED BY <1>4, <2>1, <2>2 DEF AgentRestart, TaskFlow, LiveStages
<1>5. ASSUME NEW s \in Sessions, TaskStep(s) \/ Command(s) \/ TaskTimesOut(s)
      PROVE  \A t \in Sessions : TaskFlow(t)
  <2>0. task[s] \in TaskState
    OBVIOUS
  <2>1. ASSUME \A t \in Sessions : t # s => task'[t] = task[t], TaskFlow(s)
        PROVE  \A t \in Sessions : TaskFlow(t)
    BY <2>1 DEF TaskFlow
  <2>2. CASE TaskStarts(s)
    BY <2>0, <2>1, <2>2 DEF TaskStarts, TaskState, TaskFlow, LiveStages
  <2>3. CASE TaskCannotStart(s)
    BY <2>0, <2>1, <2>3 DEF TaskCannotStart, TaskState, TaskFlow, LiveStages
  <2>4. CASE TaskEnds(s)
    BY <2>0, <2>1, <2>4 DEF TaskEnds, TaskState, TaskFlow, LiveStages
  <2>5. CASE TaskTimesOut(s)
    BY <2>0, <2>1, <2>5 DEF TaskTimesOut, TaskState, TaskFlow, LiveStages
  <2>6. CASE TaskOutput(s) \/ TaskReportsError(s)
    <3>1. \E p \in {"running", "ended"} :
              /\ TaskWrites(s, p) /\ task[s].pc \in {"running", "failed"}
      BY <2>6 DEF TaskOutput, TaskReportsError
    <3>2. PICK p \in {"running", "ended"} :
              /\ TaskWrites(s, p) /\ task[s].pc \in {"running", "failed"}
      BY <3>1
    <3> DEFINE v1 == [task[s] EXCEPT !.pc = p, !.exceeded = TRUE,
                                     !.stop = Cancelled(task[s].stop)]
               v2 == [task[s] EXCEPT !.pc = p, !.sent = task[s].sent + 1]
               v3 == [task[s] EXCEPT !.pc = p, !.stop = Cancelled(task[s].stop)]
    <3>3. \A v \in {v1, v2, v3} : v.pc = p /\ v.runs = task[s].runs
      BY <2>0 DEF TaskState
    <3>4. \E v \in {v1, v2, v3} : task' = [task EXCEPT ![s] = v]
      BY <3>2 DEF TaskWrites
    <3> HIDE DEF v1, v2, v3
    <3>5. /\ \A t \in Sessions : t # s => task'[t] = task[t]
          /\ task'[s].pc = p /\ task'[s].runs = task[s].runs
      BY <3>3, <3>4
    <3> QED BY <2>1, <3>2, <3>5 DEF TaskFlow, LiveStages
  <2>7. CASE TaskSendsExit(s)
    <3>1. \A v \in {TaskLost(s), [TaskLost(s) EXCEPT !.code = DecidedCode(s), !.sent = task[s].sent]} :
              v.pc = "over" /\ v.runs = task[s].runs
      BY DEF TaskLost, NoTask
    <3>2. \E v \in {TaskLost(s), [TaskLost(s) EXCEPT !.code = DecidedCode(s), !.sent = task[s].sent]} :
              task' = [task EXCEPT ![s] = v]
      BY <2>7 DEF TaskSendsExit
    <3>3. /\ \A t \in Sessions : t # s => task'[t] = task[t]
          /\ task'[s].pc = "over" /\ task'[s].runs = task[s].runs
      BY <3>1, <3>2
    <3>4. task[s].pc = "ended" /\ agent'.job = None
      BY <2>7 DEF TaskSendsExit, AgentState
    <3> QED BY <2>1, <3>3, <3>4 DEF TaskFlow
  <2> QED BY <1>5, <2>2, <2>3, <2>4, <2>5, <2>6, <2>7 DEF TaskStep, Command
<1>6. ASSUME NEW s \in Sessions, SessionStep(s) \/ SshClient(s) \/ Watchdog(s)
      PROVE  UNCHANGED task
  BY <1>6, SessionFrame
<1>7. ASSUME NEW k \in Conns, HandlerStep(k) \/ HeartbeatFails(k) \/ Dial(k) PROVE UNCHANGED task
  BY <1>7 DEF HandlerStep, Register, HandlerReads, HandlerReadFails, HandlerDelivers,
              HandlerGivesUp, Unregister, HeartbeatFails, Dial
<1>8. Disconnect \/ ConnectionCut \/ AgentLeaves => UNCHANGED task
  BY DEF Disconnect, ConnectionCut, AgentLeaves
<1> QED BY <1>0, <1>1, <1>2, <1>3, <1>4, <1>5, <1>6, <1>7, <1>8 DEF Next, AgentStep, Faults

\* What is left of a queue: d messages have been taken from it, and no exec was added.
Left(k, d) ==
    \A i \in 1..Len(toAgent'[k]) : toAgent'[k][i].type = "exec" =>
        i + d \in Queue(k) /\ toAgent'[k][i] = toAgent[k][i + d]

LEMMA TailLeft ==
    ASSUME TypeInv, NEW k \in Conns, toAgent[k] # <<>>, toAgent'[k] = Tail(toAgent[k])
    PROVE  Left(k, 1)
<1>1. toAgent[k] \in Seq(ToAgentMsg)
  BY TypeInvFacts
<1>2. /\ Len(Tail(toAgent[k])) = Len(toAgent[k]) - 1
      /\ \A i \in 1..(Len(toAgent[k]) - 1) : Tail(toAgent[k])[i] = toAgent[k][i + 1]
      /\ Len(toAgent[k]) \in Nat
  BY <1>1
<1> QED BY <1>2 DEF Left, Queue

LEMMA AppendAt ==
    ASSUME NEW T, NEW q \in Seq(T), NEW m
    PROVE  /\ Len(Append(q, m)) = Len(q) + 1 /\ Len(q) \in Nat
           /\ \A i \in 1..Len(q) : Append(q, m)[i] = q[i]
           /\ Append(q, m)[Len(q) + 1] = m
OBVIOUS

LEMMA QueueFlow ==
    ASSUME TypeInv, Next, \A s \in Sessions : ~ExecLeaves(s), NEW k \in Conns
    PROVE  \E d \in {0, 1} : Left(k, d)
<1> USE TypeInvFacts
<1>1. ASSUME toAgent'[k] = toAgent[k] PROVE Left(k, 0)
  BY <1>1 DEF Left, Queue
<1>2. ASSUME toAgent'[k] = <<>> PROVE Left(k, 0)
  BY <1>2 DEF Left
<1>3. ASSUME NEW l \in Conns, toAgent' = [toAgent EXCEPT ![l] = <<>>] PROVE Left(k, 0)
  BY <1>1, <1>2, <1>3
<1>4. ASSUME NEW l \in Conns, toAgent[l] # <<>>, toAgent' = [toAgent EXCEPT ![l] = Tail(@)]
      PROVE  Left(k, 0) \/ Left(k, 1)
  BY <1>1, <1>4, TailLeft
<1>5. ASSUME NEW s \in Sessions, Release(s) PROVE Left(k, 0)
  <2>1. CASE toAgent'[k] = toAgent[k]
    BY <1>1, <2>1
  <2>2. CASE toAgent'[k] = Append(toAgent[k], CancelMsg(s))
    <3>1. CancelMsg(s).type = "cancel"
      BY DEF CancelMsg
    <3> QED BY <2>2, <3>1, AppendAt DEF Left, Queue
  <2>3. toAgent' = toAgent \/ \E l : toAgent' = [toAgent EXCEPT ![l] = Append(@, CancelMsg(s))]
    BY <1>5 DEF Release, SendToAgent
  <2> QED BY <2>1, <2>2, <2>3
<1>6. ASSUME NEW s \in Sessions, SessionStep(s) \/ SshClient(s) \/ Watchdog(s)
      PROVE  Left(k, 0)
  <2>1. CASE Release(s)
    BY <1>5, <2>1
  <2>2. CASE ~Release(s)
    <3>1. ~Dispatch(s) /\ ~DispatchInDoubt(s)
      BY DEF ExecLeaves
    <3>2. UNCHANGED toAgent
      BY <1>6, <2>2, <3>1 DEF SessionStep, SshClient, Watchdog, ExecRequest, NoExecRequest, LookupPeer,
         LookupFails, Claim, Busy, DispatchFails, Refuse, ReportFailure, SeesDone, SeesDeadline,
         SeesCancel, ClientAnswersClose, LeaveLoop, TakesExit, TakesOutput, WriteSucceeds, WriteFails, SendExit, Clear,
         OnlySession, wireVars
    <3> QED BY <1>1, <3>2
  <2> QED BY <2>1, <2>2
<1>7. ASSUME AgentReturns, agent.conn \in Conns PROVE Left(k, 0)
  BY <1>3, <1>7 DEF AgentReturns
<1>8. CASE AgentStep
  <2>1. CASE AgentExec
    BY <1>4, <1>7, <2>1 DEF AgentExec, AgentSees, AgentConnected
  <2>2. CASE AgentCancel
    BY <1>4, <2>2 DEF AgentCancel, AgentSees, AgentConnected
  <2>3. CASE AgentReadFails
    BY <1>7, <2>3 DEF AgentReadFails, AgentConnected
  <2>4. CASE AgentLeaves
    BY <1>1, <2>4 DEF AgentLeaves, wireVars
  <2> QED BY <1>8, <2>1, <2>2, <2>3, <2>4 DEF AgentStep
<1>9. CASE Faults
  <2>1. CASE AgentRestart
    BY <1>3, <2>1 DEF AgentRestart, AgentConnected
  <2>2. CASE ~AgentRestart
    <3>1. UNCHANGED toAgent
      BY <1>9, <2>2 DEF Faults, HeartbeatFails, Disconnect, ConnectionCut
    <3> QED BY <1>1, <3>1
  <2> QED BY <2>1, <2>2
<1>10. ASSUME NEW l \in Conns, Dial(l) PROVE Left(k, 0)
  BY <1>3, <1>10 DEF Dial
<1>11. ASSUME NEW l \in Conns, HandlerStep(l) PROVE Left(k, 0)
  <2>1. UNCHANGED toAgent
    BY <1>11 DEF HandlerStep, Register, HandlerReads, HandlerReadFails, HandlerDelivers,
                 HandlerGivesUp, Unregister, wireVars
  <2> QED BY <1>1, <2>1
<1>12. ASSUME NEW s \in Sessions, TaskStep(s) \/ Command(s) \/ TaskTimesOut(s) PROVE Left(k, 0)
  BY <1>1, <1>12, TaskFrame
<1> QED BY <1>6, <1>8, <1>9, <1>10, <1>11, <1>12 DEF Next

-----------------------------------------------------------------------------
OnceInv == ExecPending /\ ExecAlone /\ ExecHome /\ UnsentNone /\ RunsOf

\* The message the agent reads next.
LEMMA HeadRead ==
    ASSUME TypeInv, NEW t, AgentSees(t)
    PROVE  LET k == agent.conn IN
           /\ agent.pc = "reading" /\ k \in Conns /\ toAgent[k] # <<>> /\ 1 \in Queue(k)
           /\ Head(toAgent[k]) = toAgent[k][1] /\ toAgent[k][1] \in ToAgentMsg
           /\ toAgent[k][1].id \in Sessions /\ toAgent[k][1].type = t
<1> DEFINE k == agent.conn
<1>1. agent.pc = "reading" /\ k \in Conns /\ toAgent[k] # <<>> /\ Head(toAgent[k]).type = t
  BY TypeInvFacts DEF AgentSees, AgentConnected
<1>2. toAgent[k] \in Seq(ToAgentMsg)
  BY <1>1, TypeInvFacts
<1> HIDE DEF k
<1>3. 1 \in 1..Len(toAgent[k]) /\ Head(toAgent[k]) = toAgent[k][1] /\ toAgent[k][1] \in ToAgentMsg
  BY <1>1, <1>2
<1> QED BY <1>1, <1>3 DEF k, Queue, ToAgentMsg

LEMMA QueueTyped ==
    ASSUME TypeInv, NEW k \in Conns, NEW i \in Queue(k)
    PROVE  toAgent[k][i] \in ToAgentMsg /\ toAgent[k][i].id \in Sessions
<1>1. toAgent[k] \in Seq(ToAgentMsg)
  BY TypeInvFacts
<1>2. toAgent[k][i] \in ToAgentMsg
  BY <1>1 DEF Queue
<1> QED BY <1>2 DEF ToAgentMsg

LEMMA UnsentNoneRuns ==
    ASSUME TypeInv, OnceInv, Next, \A s \in Sessions : TaskFlow(s)
    PROVE  UnsentNone' /\ RunsOf'
<1>1. UnsentNone'
  BY UnsentFlow DEF OnceInv, UnsentNone, TaskFlow
<1>2. ASSUME NEW s \in Sessions
      PROVE  task'[s].runs <= 1 /\ (task'[s].pc \in {"none", "starting"} => task'[s].runs = 0)
  <2>1. task[s].runs \in Nat
    BY TypeInvFacts DEF TaskState
  <2> QED BY <2>1 DEF OnceInv, RunsOf, TaskFlow
<1> QED BY <1>1, <1>2 DEF RunsOf

\* exec of an agent without a job.
LEMMA OnceExec ==
    ASSUME TypeInv, OnceInv, Next, AgentExec, agent.job = None
    PROVE  OnceInv'
<1> DEFINE k == agent.conn
           s == toAgent[k][1].id
<1>1. /\ k \in Conns /\ toAgent[k] # <<>> /\ 1 \in Queue(k)
      /\ Head(toAgent[k]) = toAgent[k][1] /\ s \in Sessions /\ IsExec(k, 1)
  BY HeadRead DEF AgentExec, IsExec
<1>2. /\ toAgent' = [toAgent EXCEPT ![k] = Tail(@)]
      /\ task' = [task EXCEPT ![s] = [@ EXCEPT !.pc = "starting", !.conn = k]]
      /\ UNCHANGED ses
  BY <1>1 DEF AgentExec
<1>3. task[s].pc = "none" /\ ses[s].pc \notin Unsent /\ task[s].runs = 0
  BY <1>1 DEF OnceInv, ExecPending, RunsOf
<1>4. /\ task'[s].pc = "starting" /\ task'[s].runs = 0
      /\ \A t \in Sessions : t # s => task'[t] = task[t]
  BY <1>1, <1>2, <1>3, TypeInvFacts DEF TaskState
<1>5. Left(k, 1)
  BY <1>1, <1>2, TailLeft, TypeInvFacts
<1>6. \A l \in Conns : l # k => toAgent'[l] = toAgent[l]
  BY <1>2, TypeInvFacts
<1>7. \A i \in 1..Len(toAgent'[k]) : toAgent'[k][i].type # "exec"
  <2> SUFFICES ASSUME NEW i \in 1..Len(toAgent'[k]), toAgent'[k][i].type = "exec"
               PROVE  FALSE
    OBVIOUS
  <2>1. i + 1 \in Queue(k) /\ IsExec(k, i + 1)
    BY <1>5 DEF Left, IsExec
  <2>2. 1 = i + 1
    BY <1>1, <2>1 DEF OnceInv, ExecAlone
  <2> QED BY <2>2
<1>8. \A l \in Conns : l # k => \A i \in Queue(l) : IsExec(l, i) => toAgent[l][i].id # s
  BY <1>1 DEF OnceInv, ExecHome
<1> HIDE DEF k, s
<1>9. ExecPending'
  <2> SUFFICES ASSUME NEW l \in Conns, NEW i \in 1..Len(toAgent'[l]), toAgent'[l][i].type = "exec"
               PROVE  /\ task'[toAgent'[l][i].id].pc = "none"
                      /\ ses'[toAgent'[l][i].id].pc \notin Unsent
    BY DEF ExecPending, Queue, IsExec
  <2>1. l # k
    BY <1>7
  <2>2. i \in Queue(l) /\ toAgent'[l][i] = toAgent[l][i] /\ IsExec(l, i)
    BY <1>6, <2>1 DEF Queue, IsExec
  <2> QED BY <1>2, <1>4, <1>8, <2>1, <2>2, QueueTyped DEF OnceInv, ExecPending
<1>10. ExecAlone'
  BY <1>6, <1>7 DEF OnceInv, ExecAlone, Queue, IsExec
<1>11. ExecHome'
  BY <1>6, <1>7 DEF OnceInv, ExecHome, Queue, IsExec
<1>12. UnsentNone'
  BY <1>2, <1>3, <1>4 DEF OnceInv, UnsentNone
<1>13. RunsOf'
  BY <1>4 DEF OnceInv, RunsOf
<1> QED BY <1>9, <1>10, <1>11, <1>12, <1>13 DEF OnceInv

\* The exec message is sent by the session whose command it is.
LEMMA OnceDispatch ==
    ASSUME TypeInv, OnceInv, SlotInv, NEW s \in Sessions, ExecLeaves(s), Next,
           \A k \in Conns : \A i \in Queue(k) : srvOpen[k] /\ IsExec(k, i) => job[k] = toAgent[k][i].id
    PROVE  OnceInv'
<1> DEFINE k == ses[s].peer
<1>1. k \in Conns /\ ses[s].pc = "send" /\ job[k] = s
  BY DEF ExecLeaves, Dispatch, DispatchInDoubt, SlotInv, PeerHeld, SlotOwned
<1>2. UNCHANGED task
  BY SessionFrame DEF SessionStep, ExecLeaves
<1>3. /\ \A t \in Sessions : TaskFlow(t)
      /\ UnsentNone' /\ RunsOf'
  BY <1>2, UnsentNoneRuns DEF TaskFlow
<1>4. ses'[s].pc \in {"loop", "report"} /\ \A t \in Sessions : t # s => ses'[t] = ses[t]
  <2>1. ses[s] \in SessionState
    BY TypeInvFacts
  <2>2. CASE Dispatch(s)
    BY <2>1, <2>2, TypeInvFacts DEF Dispatch, SessionState
  <2>3. CASE DispatchInDoubt(s)
    BY <2>1, <2>3, TypeInvFacts DEF DispatchInDoubt, SessionState
  <2> QED BY <2>2, <2>3 DEF ExecLeaves
<1>5. task[s].pc = "none"
  BY <1>1 DEF OnceInv, UnsentNone, Unsent
<1>6. \A l \in Conns : \A i \in Queue(l) : IsExec(l, i) => toAgent[l][i].id # s
  BY <1>1 DEF OnceInv, ExecPending, Unsent
<1>7. \A i \in Queue(k) : ~IsExec(k, i)
  BY <1>1, <1>6 DEF ExecLeaves, Dispatch, DispatchInDoubt
<1>8. \A l \in Conns : \/ toAgent'[l] = toAgent[l]
                       \/ l = k /\ toAgent'[l] = Append(toAgent[l], ExecMsg(s))
  <2>1. toAgent' = toAgent \/ toAgent' = [toAgent EXCEPT ![k] = Append(@, ExecMsg(s))]
    BY DEF ExecLeaves, Dispatch, DispatchInDoubt, SendToAgent
  <2> QED BY <1>1, <2>1, TypeInvFacts
<1>9. ExecMsg(s).type = "exec" /\ ExecMsg(s).id = s
  BY DEF ExecMsg
<1> HIDE DEF k
<1>10. ASSUME NEW l \in Conns, NEW i \in 1..Len(toAgent'[l]), toAgent'[l][i].type = "exec"
       PROVE  \/ i \in Queue(l) /\ IsExec(l, i) /\ toAgent'[l][i] = toAgent[l][i]
              \/ l = k /\ i = Len(toAgent[k]) + 1 /\ toAgent'[l][i].id = s
  <2>1. CASE toAgent'[l] = toAgent[l]
    BY <1>10, <2>1 DEF Queue, IsExec
  <2>2. CASE l = k /\ toAgent'[l] = Append(toAgent[l], ExecMsg(s))
    <3>1. toAgent[l] \in Seq(ToAgentMsg)
      BY TypeInvFacts
    <3> QED BY <1>9, <1>10, <2>2, <3>1, AppendAt DEF Queue, IsExec
  <2> QED BY <1>8, <2>1, <2>2
<1>11. ExecPending'
  <2> SUFFICES ASSUME NEW l \in Conns, NEW i \in 1..Len(toAgent'[l]), toAgent'[l][i].type = "exec"
               PROVE  /\ task'[toAgent'[l][i].id].pc = "none"
                      /\ ses'[toAgent'[l][i].id].pc \notin Unsent
    BY DEF ExecPending, Queue, IsExec
  <2>1. CASE i \in Queue(l) /\ IsExec(l, i) /\ toAgent'[l][i] = toAgent[l][i]
    BY <1>2, <1>4, <1>6, <2>1, QueueTyped DEF OnceInv, ExecPending
  <2>2. CASE toAgent'[l][i].id = s
    BY <1>2, <1>4, <1>5, <2>2 DEF Unsent
  <2> QED BY <1>10, <2>1, <2>2
<1>12. ExecAlone'
  <2> SUFFICES ASSUME NEW l \in Conns, NEW i \in 1..Len(toAgent'[l]), NEW j \in 1..Len(toAgent'[l]),
                      toAgent'[l][i].type = "exec", toAgent'[l][j].type = "exec"
               PROVE  i = j
    BY DEF ExecAlone, Queue, IsExec
  <2> QED BY <1>7, <1>10 DEF OnceInv, ExecAlone
<1>13. ExecHome'
  <2> SUFFICES ASSUME NEW l \in Conns, NEW m \in Conns, l # m,
                      NEW i \in 1..Len(toAgent'[l]), NEW j \in 1..Len(toAgent'[m]),
                      toAgent'[l][i].type = "exec", toAgent'[m][j].type = "exec"
               PROVE  toAgent'[l][i].id # toAgent'[m][j].id
    BY DEF ExecHome, Queue, IsExec
  <2> QED BY <1>6, <1>10 DEF OnceInv, ExecHome
<1> QED BY <1>3, <1>11, <1>12, <1>13 DEF OnceInv

\* Any other step only takes messages out of the queues.
LEMMA OnceOther ==
    ASSUME TypeInv, OnceInv, Next, \A s \in Sessions : ~ExecLeaves(s), \A s \in Sessions : TaskFlow(s)
    PROVE  OnceInv'
<1>1. \A k \in Conns : \E d \in {0, 1} : Left(k, d)
  BY QueueFlow
<1>2. ASSUME NEW k \in Conns, NEW i \in 1..Len(toAgent'[k]), toAgent'[k][i].type = "exec"
      PROVE  \E j \in Queue(k) : IsExec(k, j) /\ toAgent[k][j] = toAgent'[k][i]
  BY <1>1, <1>2 DEF Left, IsExec
<1>3. ExecPending'
  <2> SUFFICES ASSUME NEW k \in Conns, NEW i \in 1..Len(toAgent'[k]), toAgent'[k][i].type = "exec"
               PROVE  /\ task'[toAgent'[k][i].id].pc = "none"
                      /\ ses'[toAgent'[k][i].id].pc \notin Unsent
    BY DEF ExecPending, Queue, IsExec
  <2>1. PICK j \in Queue(k) : IsExec(k, j) /\ toAgent[k][j] = toAgent'[k][i]
    BY <1>2
  <2>2. /\ toAgent[k][j].id \in Sessions /\ task[toAgent[k][j].id].pc = "none"
        /\ ses[toAgent[k][j].id].pc \notin Unsent
    BY <2>1, QueueTyped DEF OnceInv, ExecPending
  <2> QED BY <2>1, <2>2, UnsentFlow DEF TaskFlow
<1>4. ExecAlone'
  <2> SUFFICES ASSUME NEW k \in Conns, NEW i \in 1..Len(toAgent'[k]), NEW j \in 1..Len(toAgent'[k]),
                      toAgent'[k][i].type = "exec", toAgent'[k][j].type = "exec"
               PROVE  i = j
    BY DEF ExecAlone, Queue, IsExec
  <2>1. PICK d \in {0, 1} : Left(k, d)
    BY <1>1
  <2>2. /\ i + d \in Queue(k) /\ IsExec(k, i + d)
        /\ j + d \in Queue(k) /\ IsExec(k, j + d)
    BY <2>1 DEF Left, IsExec
  <2>3. i + d = j + d
    BY <2>2 DEF OnceInv, ExecAlone
  <2> QED BY <2>3
<1>5. ExecHome'
  <2> SUFFICES ASSUME NEW l \in Conns, NEW m \in Conns, l # m,
                      NEW i \in 1..Len(toAgent'[l]), NEW j \in 1..Len(toAgent'[m]),
                      toAgent'[l][i].type = "exec", toAgent'[m][j].type = "exec"
               PROVE  toAgent'[l][i].id # toAgent'[m][j].id
    BY DEF ExecHome, Queue, IsExec
  <2> QED BY <1>2 DEF OnceInv, ExecHome
<1> QED BY <1>3, <1>4, <1>5, UnsentNoneRuns DEF OnceInv

-----------------------------------------------------------------------------
(* The exit message. Wherever it is on its way, the task it reports is over *)
(* and has its code.                                                        *)

Reported(m) == m.type = "exit" => task[m.id].pc = "over" /\ task[m.id].code = m.code
AllReported(q) == \A i \in 1..Len(q) : Reported(q[i])

Reports ==
    /\ \A k \in Conns : AllReported(toServer[k])
    /\ \A k \in Conns : held[k] # None => Reported(held[k])
    /\ \A s \in Sessions : AllReported(ses[s].events)
    /\ \A s \in Sessions : \A i \in 1..Len(ses[s].events) : ses[s].events[i].id = s
    /\ \A s \in Sessions : ses[s].pc = "exit" /\ ses[s].completed =>
           task[s].pc = "over" /\ task[s].code = ses[s].code

OverStays ==
    \A s \in Sessions : task[s].pc = "over" => task'[s].pc = "over" /\ task'[s].code = task[s].code

LEMMA OverIsFinal ==
    ASSUME TypeInv, OnceInv, Next
    PROVE  OverStays
<1>1. CASE AgentExec /\ agent.job = None
  <2> DEFINE s == toAgent[agent.conn][1].id
  <2>1. task[s].pc = "none" /\ s \in Sessions
    BY <1>1, HeadRead DEF AgentExec, OnceInv, ExecPending, IsExec
  <2>2. Head(toAgent[agent.conn]).id = s
    BY <1>1, HeadRead DEF AgentExec
  <2>3. \A t \in Sessions : t # s => task'[t] = task[t]
    BY <1>1, <2>2, TypeInvFacts DEF AgentExec
  <2> QED BY <2>1, <2>3 DEF OverStays
<1>2. CASE \A s \in Sessions : TaskFlow(s)
  BY <1>2 DEF TaskFlow, OverStays
<1> QED BY <1>1, <1>2, TaskFlows

LEMMA ReportedStays ==
    ASSUME OverStays, NEW m \in ToServerMsg, Reported(m)
    PROVE  Reported(m)'
BY DEF OverStays, Reported, ToServerMsg

LEMMA AllReportedStays ==
    ASSUME OverStays, NEW q \in Seq(ToServerMsg), AllReported(q)
    PROVE  AllReported(q)'
<1>1. \A i \in 1..Len(q) : q[i] \in ToServerMsg
  OBVIOUS
<1> QED BY <1>1, ReportedStays DEF AllReported

LEMMA AllReportedTail ==
    ASSUME NEW q \in Seq(ToServerMsg), q # <<>>, AllReported(q)
    PROVE  /\ AllReported(Tail(q)) /\ Reported(Head(q))
           /\ Head(q) \in ToServerMsg /\ Tail(q) \in Seq(ToServerMsg)
<1>1. /\ Len(q) \in Nat /\ Len(q) >= 1 /\ Head(q) = q[1]
      /\ Len(Tail(q)) = Len(q) - 1
      /\ \A i \in 1..(Len(q) - 1) : Tail(q)[i] = q[i + 1]
      /\ Head(q) \in ToServerMsg /\ Tail(q) \in Seq(ToServerMsg)
  OBVIOUS
<1> QED BY <1>1 DEF AllReported

\* What is left of a sequence of messages, or one more message, is reported in the next state.
LEMMA ReportedNext ==
    ASSUME OverStays, NEW q \in Seq(ToServerMsg), AllReported(q), NEW r,
           \/ r = q \/ r = <<>>
           \/ q # <<>> /\ r = Tail(q)
           \/ \E m \in ToServerMsg : Reported(m)' /\ r = Append(q, m)
    PROVE  \A i \in 1..Len(r) : Reported(r[i])'
<1>1. CASE r = q
  BY <1>1, AllReportedStays DEF AllReported
<1>2. CASE r = <<>>
  BY <1>2
<1>3. CASE q # <<>> /\ r = Tail(q)
  BY <1>3, AllReportedTail, AllReportedStays DEF AllReported
<1>4. ASSUME NEW m \in ToServerMsg, Reported(m)', r = Append(q, m)
      PROVE  \A i \in 1..Len(r) : Reported(r[i])'
  <2>1. /\ Len(r) = Len(q) + 1 /\ Len(q) \in Nat
        /\ \A i \in 1..Len(q) : r[i] = q[i]
        /\ r[Len(q) + 1] = m
    BY <1>4, AppendAt
  <2>2. \A i \in 1..Len(q) : Reported(q[i])'
    BY AllReportedStays DEF AllReported
  <2>3. \A i \in 1..(Len(q) + 1) : i \in 1..Len(q) \/ i = Len(q) + 1
    BY <2>1
  <2> QED BY <1>4, <2>1, <2>2, <2>3
<1> QED BY <1>1, <1>2, <1>3, <1>4

LEMMA ToServerFlow ==
    ASSUME TypeInv, Next, NEW k \in Conns
    PROVE  LET q == toServer[k]
               r == toServer'[k]
           IN  \/ r = q \/ r = <<>>
               \/ q # <<>> /\ r = Tail(q)
               \/ \E m \in ToServerMsg : Reported(m)' /\ r = Append(q, m)
<1> DEFINE q == toServer[k]
           r == toServer'[k]
           Flow == \/ r = q \/ r = <<>>
                   \/ q # <<>> /\ r = Tail(q)
                   \/ \E m \in ToServerMsg : Reported(m)' /\ r = Append(q, m)
<1> USE TypeInvFacts
<1>1. ASSUME NEW l \in Conns, HandlerStep(l) PROVE Flow
  <2>1. CASE HandlerReads(l)
    BY <2>1 DEF HandlerReads, HandlerReturns
  <2>2. CASE HandlerReturns(l)
    BY <2>2 DEF HandlerReturns
  <2>3. CASE UNCHANGED toServer
    BY <2>3
  <2> QED BY <1>1, <2>1, <2>2, <2>3 DEF HandlerStep, Register, HandlerReadFails,
             HandlerDelivers, HandlerGivesUp, Unregister, wireVars
<1>2. ASSUME NEW l \in Conns, Dial(l) PROVE Flow
  BY <1>2 DEF Dial
<1>3. ASSUME NEW s \in Sessions, SessionStep(s) \/ SshClient(s) \/ Watchdog(s) PROVE Flow
  BY <1>3, SessionFrame
<1>4. ASSUME NEW s \in Sessions, TaskStep(s) \/ Command(s) \/ TaskTimesOut(s) PROVE Flow
  <2>1. CASE TaskOutput(s) \/ TaskReportsError(s)
    <3>1. OutputMsg(s) \in ToServerMsg /\ OutputMsg(s).type = "output"
      BY CodesKnown DEF OutputMsg, ToServerMsg
    <3>2. Reported(OutputMsg(s))'
      BY <3>1 DEF Reported
    <3>3. \/ UNCHANGED toServer
          \/ \E l : toServer' = [toServer EXCEPT ![l] = Append(@, OutputMsg(s))]
      BY <2>1 DEF TaskOutput, TaskReportsError, TaskWrites, SendToServer
    <3> QED BY <3>1, <3>2, <3>3
  <2>2. CASE TaskSendsExit(s)
    <3>1. \E x \in Codes : x = DecidedCode(s)
      <4>1. task[s].code \in Codes /\ task[s].stop \in {"none", "deadline", "cancelled"}
        BY <2>2 DEF TaskSendsExit, CodeKnown, TaskState
      <4> QED BY <4>1, CodesKnown DEF DecidedCode
    <3> PICK c \in Codes : c = DecidedCode(s)
      BY <3>1
    <3> DEFINE m == ExitMsg(s, c)
    <3>2. CASE UNCHANGED toServer
      BY <3>2
    <3>3. CASE /\ task' = [task EXCEPT ![s] = [TaskLost(s) EXCEPT !.code = c, !.sent = task[s].sent]]
               /\ \E l : toServer' = [toServer EXCEPT ![l] = Append(@, m)]
      <4>1. m \in ToServerMsg /\ m.id = s /\ m.code = c
        BY DEF ExitMsg, ToServerMsg
      <4> DEFINE v == [TaskLost(s) EXCEPT !.code = c, !.sent = task[s].sent]
      <4>2. v.pc = "over" /\ v.code = c
        BY DEF TaskLost, NoTask
      <4> HIDE DEF v
      <4>3. task'[s].pc = "over" /\ task'[s].code = c
        BY <3>3, <4>2 DEF v
      <4>4. Reported(m)'
        BY <4>1, <4>3 DEF Reported
      <4> HIDE DEF m
      <4> QED BY <3>3, <4>1, <4>4
    <3> QED BY <2>2, <3>2, <3>3 DEF TaskSendsExit, SendToServer
  <2>3. CASE UNCHANGED toServer
    BY <2>3
  <2> QED BY <1>4, <2>1, <2>2, <2>3 DEF TaskStep, Command, TaskTimesOut, TaskStarts,
             TaskCannotStart, TaskEnds, OnlyTask, wireVars
<1>5. AgentStep \/ ConnectionCut \/ AgentRestart => UNCHANGED toServer
  BY AgentFrame
<1>6. ASSUME NEW l \in Conns, HeartbeatFails(l) PROVE UNCHANGED toServer
  BY <1>6 DEF HeartbeatFails
<1>7. Disconnect => UNCHANGED toServer
  BY DEF Disconnect
<1> QED BY <1>1, <1>2, <1>3, <1>4, <1>5, <1>6, <1>7 DEF Next, Faults

\* What a step does to the events of a session, and to the code it passes on.
EventsFlow(s) ==
    LET q == ses[s].events
        r == ses'[s].events
    IN  \/ r = q \/ r = <<>>
        \/ q # <<>> /\ r = Tail(q)
        \/ \E k \in Conns : held[k] # None /\ held[k].id = s /\ r = Append(q, held[k])

CodeFlow(s) ==
    ses'[s].pc = "exit" /\ ses'[s].completed =>
        \/ ses[s].pc = "exit" /\ ses[s].completed /\ ses'[s].code = ses[s].code
        \/ /\ ses[s].events # <<>> /\ Head(ses[s].events).type = "exit"
           /\ ses'[s].code = Head(ses[s].events).code

\* completed is only set by the exit message.
CompletedLate ==
    \A s \in Sessions : ses[s].completed => ses[s].pc \in {"exit", "release", "clear"}

LEMMA SessionFlow ==
    ASSUME TypeInv, CompletedLate, NEW s \in Sessions, SessionStep(s) \/ SshClient(s) \/ Watchdog(s)
    PROVE  EventsFlow(s) /\ CodeFlow(s) /\ \A t \in Sessions : t # s => ses'[t] = ses[t]
<1> USE DEF EventsFlow, CodeFlow
<1>0. ses[s] \in SessionState /\ ses \in [Sessions -> SessionState]
  BY TypeInvFacts
<1>c. ses[s].completed => ses[s].pc \in {"exit", "release", "clear"}
  BY DEF CompletedLate
<1>1. EndedSession.pc = "done" /\ EndedSession.events = <<>>
  BY DEF EndedSession, NewSession
<1> USE <1>0, <1>c, <1>1 DEF SessionState
<1>2. CASE ExecRequest(s)
  BY <1>2 DEF ExecRequest
<1>3. CASE NoExecRequest(s)
  BY <1>3 DEF NoExecRequest
<1>4. CASE LookupPeer(s)
  BY <1>4 DEF LookupPeer
<1>5. CASE LookupFails(s)
  BY <1>5 DEF LookupFails
<1>6. CASE Claim(s)
  BY <1>6 DEF Claim
<1>7. CASE Busy(s)
  BY <1>7 DEF Busy
<1>8. CASE Dispatch(s)
  BY <1>8 DEF Dispatch
<1>9. CASE DispatchFails(s)
  BY <1>9 DEF DispatchFails
<1>20. CASE DispatchInDoubt(s)
  BY <1>20 DEF DispatchInDoubt
<1>10. CASE Refuse(s)
  BY <1>10 DEF Refuse
<1>21. CASE ReportFailure(s)
  BY <1>21 DEF ReportFailure
<1>11. ASSUME NEW c, LeaveLoop(s, c)
       PROVE  EventsFlow(s) /\ CodeFlow(s) /\ \A t \in Sessions : t # s => ses'[t] = ses[t]
  BY <1>11 DEF LeaveLoop
<1>12. CASE TakesExit(s)
  BY <1>12 DEF TakesExit
<1>13. CASE TakesOutput(s)
  BY <1>13 DEF TakesOutput
<1>14. CASE WriteSucceeds(s)
  BY <1>14 DEF WriteSucceeds
<1>15. CASE WriteFails(s)
  BY <1>15 DEF WriteFails
<1>16. CASE SendExit(s)
  BY <1>16 DEF SendExit
<1>17. CASE Release(s)
  BY <1>17 DEF Release
<1>18. CASE Clear(s)
  BY <1>18 DEF Clear
<1>19. CASE Watchdog(s)
  BY <1>19 DEF Watchdog
<1> QED
  BY <1>2, <1>3, <1>4, <1>5, <1>6, <1>7, <1>8, <1>9, <1>10, <1>11, <1>12, <1>13, <1>14, <1>15,
     <1>16, <1>17, <1>18, <1>19, <1>20, <1>21
     DEF SessionStep, SshClient, ClientAnswersClose, SeesDone, SeesDeadline, SeesCancel

LEMMA SessionFlows ==
    ASSUME TypeInv, CompletedLate, Next, NEW t \in Sessions
    PROVE  EventsFlow(t) /\ CodeFlow(t)
<1>0. UNCHANGED ses => EventsFlow(t) /\ CodeFlow(t)
  BY DEF EventsFlow, CodeFlow
<1>1. ASSUME NEW s \in Sessions, SessionStep(s) \/ SshClient(s) \/ Watchdog(s)
      PROVE  EventsFlow(t) /\ CodeFlow(t)
  BY <1>1, SessionFlow DEF EventsFlow, CodeFlow
<1>2. ASSUME NEW k \in Conns, HandlerDelivers(k) PROVE EventsFlow(t) /\ CodeFlow(t)
  <2>1. ses[t] \in SessionState
    BY TypeInvFacts
  <2>2. CASE t # held[k].id
    BY <1>2, <2>2, TypeInvFacts DEF HandlerDelivers, EventsFlow, CodeFlow
  <2>3. CASE t = held[k].id
    <3>1. /\ ses'[t].events = Append(ses[t].events, held[k])
          /\ ses'[t].pc = ses[t].pc /\ ses'[t].completed = ses[t].completed
          /\ ses'[t].code = ses[t].code /\ held[k] # None
      BY <1>2, <2>1, <2>3, TypeInvFacts DEF HandlerDelivers, SessionState
    <3> QED BY <2>3, <3>1 DEF EventsFlow, CodeFlow
  <2> QED BY <2>2, <2>3
<1>3. ASSUME NEW k \in Conns, HandlerStep(k), ~HandlerDelivers(k) PROVE UNCHANGED ses
  BY <1>3 DEF HandlerStep, Register, HandlerReads, HandlerReadFails, HandlerGivesUp, Unregister
<1>4. ASSUME NEW k \in Conns, Dial(k) \/ HeartbeatFails(k) PROVE UNCHANGED ses
  BY <1>4 DEF Dial, HeartbeatFails
<1>5. Disconnect => UNCHANGED ses
  BY DEF Disconnect
<1> QED BY <1>0, <1>1, <1>2, <1>3, <1>4, <1>5, AgentFrame, TaskFrame DEF Next, Faults

LEMMA HeldFlow ==
    ASSUME TypeInv, Next, NEW k \in Conns
    PROVE  \/ held'[k] \in {None, held[k]}
           \/ toServer[k] # <<>> /\ held'[k] = Head(toServer[k])
<1> DEFINE Flow == \/ held'[k] \in {None, held[k]}
                   \/ toServer[k] # <<>> /\ held'[k] = Head(toServer[k])
<1> USE TypeInvFacts
<1>1. ASSUME NEW l \in Conns, HandlerStep(l) PROVE Flow
  BY <1>1 DEF HandlerStep, Register, HandlerReads, HandlerReadFails, HandlerReturns,
              HandlerDelivers, HandlerGivesUp, Unregister
<1>2. ASSUME NEW l \in Conns, Dial(l) PROVE Flow
  BY <1>2 DEF Dial
<1>3. ASSUME NEW l \in Conns, HeartbeatFails(l) PROVE Flow
  BY <1>3 DEF HeartbeatFails, hubVars
<1>4. Disconnect => Flow
  BY DEF Disconnect
<1> QED BY <1>1, <1>2, <1>3, <1>4, AgentFrame, TaskFrame, SessionFrame DEF Next, Faults, hubVars

LEMMA ReportsStep ==
    ASSUME TypeInv, OnceInv, CompletedLate, Reports, Next
    PROVE  Reports'
<1> USE TypeInvFacts
<1>0. OverStays
  BY OverIsFinal
<1>1. ASSUME NEW k \in Conns PROVE AllReported(toServer[k])'
  <2>1. \A i \in 1..Len(toServer'[k]) : Reported(toServer[k][i])'
    <3>1. toServer[k] \in Seq(ToServerMsg) /\ AllReported(toServer[k])
      BY DEF Reports
    <3> PICK q \in Seq(ToServerMsg) : q = toServer[k]
      BY <3>1
    <3> PICK r : r = toServer'[k]
      OBVIOUS
    <3>2. \/ r = q \/ r = <<>>
          \/ q # <<>> /\ r = Tail(q)
          \/ \E m \in ToServerMsg : Reported(m)' /\ r = Append(q, m)
      BY ToServerFlow
    <3>3. AllReported(q)
      BY <3>1
    <3>4. \A i \in 1..Len(r) : Reported(r[i])'
      BY <1>0, <3>2, <3>3, ReportedNext
    <3> QED BY <3>4 DEF Reported
  <2> QED BY <2>1 DEF AllReported
<1>2. ASSUME NEW k \in Conns, held'[k] # None PROVE Reported(held[k])'
  <2>1. PICK m \in ToServerMsg : m = held'[k] /\ Reported(m)
    <3>1. CASE held'[k] = held[k]
      BY <1>2, <3>1 DEF Reports
    <3>2. CASE toServer[k] # <<>> /\ held'[k] = Head(toServer[k])
      BY <3>2, AllReportedTail DEF Reports
    <3> QED BY <1>2, <3>1, <3>2, HeldFlow
  <2>2. Reported(m)'
    BY <1>0, <2>1, ReportedStays
  <2> QED BY <2>1, <2>2 DEF Reported
<1>3. ASSUME NEW s \in Sessions
      PROVE  /\ AllReported(ses[s].events)'
             /\ \A i \in 1..Len(ses'[s].events) : ses'[s].events[i].id = s
  <2>1. ses[s].events \in Seq(ToServerMsg) /\ AllReported(ses[s].events)
    BY DEF Reports, SessionState
  <2> PICK q \in Seq(ToServerMsg) : q = ses[s].events
    BY <2>1
  <2> PICK r : r = ses'[s].events
    OBVIOUS
  <2>2. AllReported(q) /\ \A i \in 1..Len(q) : q[i].id = s
    BY <2>1 DEF Reports
  <2>3. \/ r = q \/ r = <<>>
        \/ q # <<>> /\ r = Tail(q)
        \/ \E m \in ToServerMsg : Reported(m)' /\ m.id = s /\ r = Append(q, m)
    <3>1. ASSUME NEW k \in Conns, held[k] # None, held[k].id = s, r = Append(q, held[k])
          PROVE  \E m \in ToServerMsg : Reported(m)' /\ m.id = s /\ r = Append(q, m)
      <4>1. PICK m \in ToServerMsg : m = held[k] /\ Reported(m)
        BY <3>1 DEF Reports
      <4>2. Reported(m)'
        BY <1>0, <4>1, ReportedStays
      <4> QED BY <3>1, <4>1, <4>2
    <3> QED BY <3>1, SessionFlows DEF EventsFlow
  <2>4. \A i \in 1..Len(r) : Reported(r[i])'
    BY <1>0, <2>2, <2>3, ReportedNext
  <2>5. \A i \in 1..Len(r) : r[i].id = s
    <3>1. CASE r = q
      BY <2>2, <3>1
    <3>2. CASE r = <<>>
      BY <3>2
    <3>3. CASE q # <<>> /\ r = Tail(q)
      <4>1. /\ Len(q) \in Nat /\ Len(Tail(q)) = Len(q) - 1
            /\ \A i \in 1..(Len(q) - 1) : Tail(q)[i] = q[i + 1]
        BY <3>3
      <4> QED BY <2>2, <3>3, <4>1
    <3>4. ASSUME NEW m, m.id = s, r = Append(q, m)
          PROVE  \A i \in 1..Len(r) : r[i].id = s
      <4>1. /\ Len(r) = Len(q) + 1 /\ Len(q) \in Nat
            /\ \A i \in 1..Len(q) : r[i] = q[i]
            /\ r[Len(q) + 1] = m
        BY <3>4, AppendAt
      <4>2. \A i \in 1..Len(r) : i \in 1..Len(q) \/ i = Len(q) + 1
        BY <4>1
      <4> QED BY <2>2, <3>4, <4>1, <4>2
    <3> QED BY <2>3, <3>1, <3>2, <3>3, <3>4
  <2> QED BY <2>4, <2>5 DEF AllReported, Reported
<1>4. ASSUME NEW s \in Sessions, ses'[s].pc = "exit", ses'[s].completed
      PROVE  task'[s].pc = "over" /\ task'[s].code = ses'[s].code
  <2>1. CASE ses[s].pc = "exit" /\ ses[s].completed /\ ses'[s].code = ses[s].code
    BY <1>0, <2>1 DEF Reports, OverStays
  <2>2. CASE /\ ses[s].events # <<>> /\ Head(ses[s].events).type = "exit"
             /\ ses'[s].code = Head(ses[s].events).code
    <3>1. ses[s].events \in Seq(ToServerMsg)
      BY DEF SessionState
    <3>2. Reported(Head(ses[s].events)) /\ Head(ses[s].events).id = s
      <4>1. Len(ses[s].events) >= 1 /\ Head(ses[s].events) = ses[s].events[1]
        BY <2>2, <3>1
      <4> QED BY <2>2, <3>1, <4>1 DEF Reports, AllReported
    <3> QED BY <1>0, <2>2, <3>2 DEF Reported, OverStays
  <2> QED BY <1>4, <2>1, <2>2, SessionFlows DEF CodeFlow
<1> QED BY <1>1, <1>2, <1>3, <1>4 DEF Reports

-----------------------------------------------------------------------------
(* The slot. Only the session whose job it is gives the slot of a connection *)
(* back: with the exit message, or after the connection has been closed.     *)

JobOf ==
    \A k \in Conns, s \in Sessions : job[k] = s =>
        /\ ses[s].peer = k
        /\ ses[s].pc \in {"send", "report", "loop", "write", "exit", "release", "clear"}
        /\ ~ses[s].completed

ClearClosed ==
    \A s \in Sessions : ses[s].pc = "clear" /\ job[ses[s].peer] = s => ~srvOpen[ses[s].peer]

JobInv == JobOf /\ CompletedLate /\ ClearClosed

\* A step that changes neither the slots nor what this invariant reads of a session.
LEMMA JobKept ==
    ASSUME TypeInv, PeerHeld, JobInv, UNCHANGED job,
           \A k \in Conns : srvOpen'[k] => srvOpen[k],
           \A s \in Sessions : /\ ses'[s].pc = ses[s].pc /\ ses'[s].peer = ses[s].peer
                               /\ ses'[s].completed = ses[s].completed
    PROVE  JobInv'
<1>1. JobOf'
  BY DEF JobInv, JobOf
<1>2. CompletedLate'
  BY DEF JobInv, CompletedLate
<1>3. ClearClosed'
  BY DEF JobInv, ClearClosed, PeerHeld
<1> QED BY <1>1, <1>2, <1>3 DEF JobInv

LEMMA JobSession ==
    ASSUME TypeInv, SlotInv, JobInv, NEW s \in Sessions,
           SessionStep(s) \/ SshClient(s) \/ Watchdog(s)
    PROVE  JobInv'
<1> USE ConstantsAssumption, TypeInvFacts DEF JobInv, JobOf, CompletedLate, ClearClosed
<1>0. /\ ses[s] \in SessionState
      /\ \A t \in Sessions : ses[t].peer \in Conns \cup {None} /\ ses[t].completed \in BOOLEAN
  BY DEF SessionState
<1>h. PeerHeld /\ SlotOwned
  BY DEF SlotInv
<1>e. EndedSession.pc = "done" /\ EndedSession.completed = FALSE
  BY DEF EndedSession, NewSession
<1>1. CASE ExecRequest(s)
  BY <1>0, <1>1 DEF ExecRequest, OnlySession, hubVars, wireVars, SessionState
<1>2. CASE NoExecRequest(s)
  BY <1>0, <1>e, <1>2 DEF NoExecRequest, OnlySession, hubVars, wireVars
<1>3. CASE LookupPeer(s)
  BY <1>0, <1>3 DEF LookupPeer, OnlySession, hubVars, wireVars, SessionState
<1>4. CASE LookupFails(s)
  BY <1>0, <1>4 DEF LookupFails, OnlySession, hubVars, wireVars, SessionState
<1>5. CASE Claim(s)
  BY <1>0, <1>h, <1>5 DEF Claim, wireVars, SessionState, PeerHeld
<1>6. CASE Busy(s)
  BY <1>0, <1>6 DEF Busy, OnlySession, hubVars, wireVars, SessionState
<1>7. CASE Dispatch(s)
  BY <1>0, <1>7 DEF Dispatch, hubVars, SessionState
<1>8. CASE DispatchFails(s)
  BY <1>0, <1>8 DEF DispatchFails, OnlySession, hubVars, wireVars, SessionState
<1>19. CASE DispatchInDoubt(s)
  BY <1>0, <1>19 DEF DispatchInDoubt, hubVars, SessionState
<1>20. CASE ReportFailure(s)
  BY <1>0, <1>20 DEF ReportFailure, OnlySession, hubVars, wireVars, SessionState
<1>9. CASE Refuse(s)
  BY <1>0, <1>e, <1>9 DEF Refuse, OnlySession, hubVars, wireVars, SessionState
<1>10. ASSUME NEW c, LeaveLoop(s, c) PROVE JobInv'
  BY <1>0, <1>10 DEF LeaveLoop, OnlySession, hubVars, wireVars, SessionState
<1>11. CASE TakesExit(s)
  BY <1>0, <1>h, <1>11 DEF TakesExit, wireVars, SessionState, PeerHeld
<1>12. CASE TakesOutput(s)
  BY <1>0, <1>12 DEF TakesOutput, OnlySession, hubVars, wireVars, SessionState
<1>13. CASE WriteSucceeds(s)
  BY <1>0, <1>13 DEF WriteSucceeds, OnlySession, hubVars, wireVars, SessionState
<1>14. CASE WriteFails(s)
  BY <1>0, <1>14 DEF WriteFails, OnlySession, hubVars, wireVars, SessionState
<1>15. CASE SendExit(s)
  BY <1>0, <1>15 DEF SendExit, OnlySession, hubVars, wireVars, SessionState
<1>16. CASE Release(s)
  <2>1. /\ ses'[s].pc = "clear" /\ ses'[s].peer = ses[s].peer
        /\ ses'[s].completed = ses[s].completed
        /\ \A t \in Sessions : t # s => ses'[t] = ses[t]
        /\ UNCHANGED job /\ ses[s].peer \in Conns /\ ses[s].pc = "release"
    BY <1>0, <1>h, <1>16 DEF Release, hubVars, SessionState, PeerHeld
  <2> HIDE DEF JobInv, JobOf, CompletedLate, ClearClosed
  <2>a. srvOpen' = IF ses[s].completed THEN srvOpen ELSE [srvOpen EXCEPT ![ses[s].peer] = FALSE]
    BY <1>16 DEF Release
  <2>2. /\ \A k \in Conns : srvOpen'[k] => srvOpen[k]
        /\ ~ses[s].completed => ~srvOpen'[ses[s].peer]
    BY <2>1, <2>a
  <2>3. JobOf'
    <3> SUFFICES ASSUME NEW k \in Conns, NEW t \in Sessions, job[k] = t
                 PROVE  /\ ses'[t].peer = k /\ ~ses'[t].completed
                        /\ ses'[t].pc \in {"send", "report", "loop", "write", "exit", "release", "clear"}
      BY <2>1 DEF JobOf
    <3>1. CASE t = s
      BY <2>1, <3>1 DEF JobInv, JobOf
    <3>2. CASE t # s
      BY <2>1, <3>2 DEF JobInv, JobOf
    <3> QED BY <3>1, <3>2
  <2>4. CompletedLate'
    BY <1>h, <2>1, <2>2 DEF JobInv, CompletedLate
  <2>5. ClearClosed'
    <3> SUFFICES ASSUME NEW t \in Sessions, ses'[t].pc = "clear", job[ses'[t].peer] = t
                 PROVE  ~srvOpen'[ses'[t].peer]
      BY <2>1 DEF ClearClosed
    <3>1. CASE t = s
      BY <2>1, <2>2, <3>1 DEF JobInv, JobOf
    <3>2. CASE t # s
      BY <1>h, <2>1, <2>2, <3>2 DEF JobInv, ClearClosed, PeerHeld
    <3> QED BY <3>1, <3>2
  <2> QED BY <2>3, <2>4, <2>5 DEF JobInv
<1>17. CASE Clear(s)
  <2>1. ses[s].peer \in Conns
    BY <1>h, <1>17 DEF Clear, PeerHeld
  <2>2. \A k \in Conns : job'[k] # s /\ (job'[k] = job[k] \/ job'[k] = None)
    BY <1>17, <2>1 DEF Clear
  <2>3. /\ ses'[s] = EndedSession /\ UNCHANGED srvOpen
        /\ \A t \in Sessions : t # s => ses'[t] = ses[t]
    BY <1>17 DEF Clear, wireVars
  <2> HIDE DEF JobInv, JobOf, CompletedLate, ClearClosed
  <2>4. JobOf'
    <3> SUFFICES ASSUME NEW k \in Conns, NEW t \in Sessions, job'[k] = t
                 PROVE  /\ ses'[t].peer = k /\ ~ses'[t].completed
                        /\ ses'[t].pc \in {"send", "report", "loop", "write", "exit", "release", "clear"}
      BY DEF JobOf
    <3>1. t # s /\ job[k] = t
      BY <2>2
    <3> QED BY <2>3, <3>1 DEF JobInv, JobOf
  <2>5. CompletedLate'
    BY <1>h, <1>e, <2>2, <2>3 DEF JobInv, CompletedLate
  <2>6. ClearClosed'
    <3> SUFFICES ASSUME NEW t \in Sessions, ses'[t].pc = "clear", job'[ses'[t].peer] = t
                 PROVE  ~srvOpen'[ses'[t].peer]
      BY DEF ClearClosed
    <3>1. t # s /\ ses'[t] = ses[t] /\ ses[t].peer \in Conns
      BY <1>h, <1>e, <2>3 DEF PeerHeld
    <3>2. job[ses[t].peer] = t
      BY <2>2, <3>1, ConstantsAssumption
    <3> QED BY <2>3, <3>1, <3>2 DEF JobInv, ClearClosed
  <2> QED BY <2>4, <2>5, <2>6 DEF JobInv
<1>18. CASE Watchdog(s)
  BY <1>0, <1>18 DEF Watchdog, OnlySession, hubVars, wireVars, SessionState
<1> QED
  BY <1>1, <1>2, <1>3, <1>4, <1>5, <1>6, <1>7, <1>8, <1>9, <1>10, <1>11, <1>12, <1>13, <1>14,
     <1>15, <1>16, <1>17, <1>18, <1>19, <1>20
     DEF SessionStep, SshClient, ClientAnswersClose, SeesDone, SeesDeadline, SeesCancel

LEMMA JobStep ==
    ASSUME TypeInv, SlotInv, JobInv, Next
    PROVE  JobInv'
<1> USE TypeInvFacts
<1>0. PeerHeld
  BY DEF SlotInv
<1>1. ASSUME NEW k \in Conns, HandlerStep(k) PROVE JobInv'
  <2>1. \A s \in Sessions : /\ ses'[s].pc = ses[s].pc /\ ses'[s].peer = ses[s].peer
                            /\ ses'[s].completed = ses[s].completed
    <3>1. CASE HandlerDelivers(k)
      BY <3>1 DEF HandlerDelivers, SessionState
    <3> QED BY <1>1, <3>1 DEF HandlerStep, Register, HandlerReads, HandlerReadFails,
                              HandlerGivesUp, Unregister
  <2>2. UNCHANGED job /\ \A l \in Conns : srvOpen'[l] => srvOpen[l]
    BY <1>1 DEF HandlerStep, Register, HandlerReads, HandlerReadFails, HandlerDelivers,
                HandlerGivesUp, HandlerReturns, Unregister, wireVars
  <2> QED BY <1>0, <2>1, <2>2, JobKept
<1>2. ASSUME NEW k \in Conns, Dial(k) PROVE JobInv'
  <2>1. /\ \A l \in Conns : job'[l] = IF l = k THEN None ELSE job[l]
        /\ \A l \in Conns : l # k => srvOpen'[l] = srvOpen[l]
        /\ UNCHANGED ses /\ \A s \in Sessions : ses[s].peer # k
    BY <1>2 DEF Dial, Unused
  <2>2. JobOf'
    <3> SUFFICES ASSUME NEW l \in Conns, NEW t \in Sessions, job'[l] = t
                 PROVE  /\ ses[t].peer = l /\ ~ses[t].completed
                        /\ ses[t].pc \in {"send", "report", "loop", "write", "exit", "release", "clear"}
      BY <2>1 DEF JobOf
    <3>1. job[l] = t
      BY <2>1, ConstantsAssumption
    <3> QED BY <3>1 DEF JobInv, JobOf
  <2>3. CompletedLate'
    BY <1>0, <2>1, ConstantsAssumption DEF JobInv, CompletedLate
  <2>4. ClearClosed'
    <3> SUFFICES ASSUME NEW t \in Sessions, ses[t].pc = "clear", job'[ses[t].peer] = t
                 PROVE  ~srvOpen'[ses[t].peer]
      BY <2>1 DEF ClearClosed
    <3>1. ses[t].peer \in Conns /\ ses[t].peer # k
      BY <1>0, <2>1 DEF PeerHeld
    <3> QED BY <2>1, <3>1 DEF JobInv, ClearClosed
  <2> QED BY <2>2, <2>3, <2>4 DEF JobInv
<1>3. ASSUME NEW k \in Conns, HeartbeatFails(k) PROVE JobInv'
  BY <1>0, <1>3, JobKept DEF HeartbeatFails, hubVars
<1>4. CASE Disconnect
  BY <1>0, <1>4, JobKept DEF Disconnect
<1>5. CASE UNCHANGED <<job, srvOpen, ses>>
  BY <1>0, <1>5, JobKept
<1> QED BY <1>1, <1>2, <1>3, <1>4, <1>5, JobSession, AgentFrame, TaskFrame DEF Next, Faults, hubVars

-----------------------------------------------------------------------------
(* One command. A connection carries, in its queue or as the job of the     *)
(* agent, at most one command that is not over; while the server keeps it   *)
(* open, it is the command of the session that holds the slot.              *)

JobLive == agent.job # None => task[agent.job].pc \in LiveStages

ExecIdle ==
    \A k \in Conns : \A i \in Queue(k) : IsExec(k, i) /\ agent.conn = k => agent.job = None

SlotCovers ==
    \A k \in Conns : srvOpen[k] =>
        /\ \A i \in Queue(k) : IsExec(k, i) => job[k] = toAgent[k][i].id
        /\ agent.conn = k /\ agent.job # None => job[k] = agent.job

AloneInv == JobLive /\ ExecIdle /\ SlotCovers

SameJob == agent'.job = None \/ (agent'.job = agent.job /\ agent'.conn = agent.conn)

LEMMA AgentFlow ==
    ASSUME TypeInv, Next
    PROVE  (AgentExec /\ agent.job = None) \/ (\E k \in Conns : Dial(k)) \/ SameJob
<1>0. agent \in AgentState
  BY TypeInvFacts
<1>1. AgentReturns => SameJob
  BY <1>0 DEF AgentReturns, AgentState, SameJob
<1>2. AgentStep => (AgentExec /\ agent.job = None) \/ SameJob
  BY <1>1 DEF AgentStep, AgentExec, AgentCancel, AgentReadFails, AgentLeaves, SameJob
<1>3. ASSUME NEW s \in Sessions, TaskStep(s) \/ Command(s) \/ TaskTimesOut(s) PROVE SameJob
  <2>1. CASE TaskSendsExit(s)
    BY <1>0, <2>1 DEF TaskSendsExit, AgentState, SameJob
  <2> QED BY <1>3, <2>1 DEF TaskStep, Command, TaskTimesOut, TaskStarts, TaskCannotStart,
             TaskEnds, TaskOutput, TaskReportsError, OnlyTask, SameJob
<1>4. Faults => SameJob
  BY DEF Faults, HeartbeatFails, Disconnect, ConnectionCut, AgentRestart, SameJob
<1>5. ASSUME NEW k \in Conns, HandlerStep(k) PROVE SameJob
  BY <1>5 DEF HandlerStep, Register, HandlerReads, HandlerReadFails, HandlerDelivers,
              HandlerGivesUp, Unregister, SameJob
<1>6. ASSUME NEW s \in Sessions, SessionStep(s) \/ SshClient(s) \/ Watchdog(s) PROVE SameJob
  BY <1>6, SessionFrame DEF SameJob
<1> QED BY <1>2, <1>3, <1>4, <1>5, <1>6 DEF Next

LEMMA JobLiveStep ==
    ASSUME TypeInv, OnceInv, JobLive, Next
    PROVE  JobLive'
<1>1. CASE AgentExec /\ agent.job = None
  <2> DEFINE s == toAgent[agent.conn][1].id
  <2>1. s \in Sessions /\ Head(toAgent[agent.conn]).id = s
    BY <1>1, HeadRead DEF AgentExec
  <2>2. agent'.job = s /\ task'[s].pc = "starting"
    <3>1. agent' = [agent EXCEPT !.job = s]
          /\ task' = [task EXCEPT ![s] = [task[s] EXCEPT !.pc = "starting", !.conn = agent.conn]]
      BY <1>1, <2>1 DEF AgentExec
    <3> HIDE DEF s
    <3> QED BY <2>1, <3>1, TypeInvFacts DEF AgentState, TaskState
  <2> QED BY <2>2 DEF JobLive, LiveStages
<1>2. ASSUME NEW k \in Conns, Dial(k) PROVE JobLive'
  BY <1>2 DEF Dial, JobLive
<1>3. CASE SameJob /\ ~(AgentExec /\ agent.job = None)
  <2>1. \A s \in Sessions : TaskFlow(s)
    BY <1>3, TaskFlows
  <2>2. agent.job \in Sessions \cup {None}
    BY TypeInvFacts DEF AgentState
  <2> QED BY <1>3, <2>1, <2>2 DEF SameJob, JobLive, TaskFlow
<1> QED BY <1>1, <1>2, <1>3, AgentFlow

\* A step that sends no exec, starts no task, opens no connection and clears no slot that
\* covers a command.
LEMMA CoverKept ==
    ASSUME TypeInv, AloneInv, SameJob,
           \A k \in Conns : \E d \in {0, 1} : Left(k, d),
           \A k \in Conns : srvOpen'[k] => srvOpen[k],
           \A k \in Conns : srvOpen[k] => \/ job'[k] = job[k]
                                          \/ /\ \A i \in Queue(k) : ~IsExec(k, i)
                                             /\ ~(agent.conn = k /\ agent.job # None)
    PROVE  ExecIdle' /\ SlotCovers'
<1>1. ASSUME NEW k \in Conns, NEW i \in 1..Len(toAgent'[k]), toAgent'[k][i].type = "exec"
      PROVE  \E j \in Queue(k) : IsExec(k, j) /\ toAgent[k][j] = toAgent'[k][i]
  BY <1>1 DEF Left, IsExec
<1>2. ExecIdle'
  <2> SUFFICES ASSUME NEW k \in Conns, NEW i \in 1..Len(toAgent'[k]), toAgent'[k][i].type = "exec",
                      agent'.conn = k
               PROVE  agent'.job = None
    BY DEF ExecIdle, Queue, IsExec
  <2> QED BY <1>1 DEF SameJob, AloneInv, ExecIdle
<1>3. SlotCovers'
  <2> SUFFICES ASSUME NEW k \in Conns, srvOpen'[k]
               PROVE  /\ \A i \in 1..Len(toAgent'[k]) : toAgent'[k][i].type = "exec" =>
                                                        job'[k] = toAgent'[k][i].id
                      /\ agent'.conn = k /\ agent'.job # None => job'[k] = agent'.job
    BY DEF SlotCovers, Queue, IsExec
  <2>1. ASSUME NEW i \in 1..Len(toAgent'[k]), toAgent'[k][i].type = "exec"
        PROVE  job'[k] = toAgent'[k][i].id
    BY <1>1, <2>1 DEF AloneInv, SlotCovers
  <2>2. ASSUME agent'.conn = k, agent'.job # None PROVE job'[k] = agent'.job
    BY <2>2 DEF AloneInv, SlotCovers, SameJob
  <2> QED BY <2>1, <2>2
<1> QED BY <1>2, <1>3

\* The command that a served connection carries is the one in its slot.
LEMMA CarriedInSlot ==
    ASSUME TypeInv, AloneInv, NEW k \in Conns, srvOpen[k],
           job[k] = None \/ (task[job[k]].pc \notin {"none"} \cup LiveStages), OnceInv
    PROVE  (\A i \in Queue(k) : ~IsExec(k, i)) /\ ~(agent.conn = k /\ agent.job # None)
<1>1. ASSUME NEW i \in Queue(k), IsExec(k, i) PROVE FALSE
  <2>1. job[k] = toAgent[k][i].id /\ task[job[k]].pc = "none" /\ job[k] \in Sessions
    BY <1>1, QueueTyped DEF AloneInv, SlotCovers, OnceInv, ExecPending
  <2> QED BY <2>1, ConstantsAssumption
<1>2. ASSUME agent.conn = k, agent.job # None PROVE FALSE
  <2>1. job[k] = agent.job /\ task[job[k]].pc \in LiveStages
    BY <1>2 DEF AloneInv, SlotCovers, JobLive
  <2> QED BY <1>2, <2>1
<1> QED BY <1>1, <1>2

LEMMA AloneExec ==
    ASSUME TypeInv, OnceInv, AloneInv, AgentExec, agent.job = None
    PROVE  ExecIdle' /\ SlotCovers'
<1> DEFINE k == agent.conn
           s == toAgent[k][1].id
<1>1. /\ k \in Conns /\ toAgent[k] # <<>> /\ 1 \in Queue(k)
      /\ Head(toAgent[k]) = toAgent[k][1] /\ s \in Sessions /\ IsExec(k, 1)
  BY HeadRead DEF AgentExec, IsExec
<1>2. /\ toAgent' = [toAgent EXCEPT ![k] = Tail(@)]
      /\ agent' = [agent EXCEPT !.job = s] /\ UNCHANGED <<job, srvOpen>>
  BY <1>1 DEF AgentExec, hubVars
<1>3. agent'.job = s /\ agent'.conn = k
  BY <1>2, TypeInvFacts DEF AgentState
<1>4. Left(k, 1)
  BY <1>1, <1>2, TailLeft, TypeInvFacts
<1>5. \A l \in Conns : l # k => toAgent'[l] = toAgent[l]
  BY <1>2, TypeInvFacts
<1>6. srvOpen[k] => job[k] = s
  BY <1>1 DEF AloneInv, SlotCovers
<1>7. \A i \in 1..Len(toAgent'[k]) : toAgent'[k][i].type # "exec"
  <2> SUFFICES ASSUME NEW i \in 1..Len(toAgent'[k]), toAgent'[k][i].type = "exec"
               PROVE  FALSE
    OBVIOUS
  <2>1. i + 1 \in Queue(k) /\ IsExec(k, i + 1)
    BY <1>4 DEF Left, IsExec
  <2>2. 1 = i + 1
    BY <1>1, <2>1 DEF OnceInv, ExecAlone
  <2> QED BY <2>2
<1> HIDE DEF k, s
<1>8. ExecIdle'
  BY <1>3, <1>7 DEF ExecIdle, Queue, IsExec
<1>9. SlotCovers'
  <2> SUFFICES ASSUME NEW l \in Conns, srvOpen'[l]
               PROVE  /\ \A i \in 1..Len(toAgent'[l]) : toAgent'[l][i].type = "exec" =>
                                                        job'[l] = toAgent'[l][i].id
                      /\ agent'.conn = l /\ agent'.job # None => job'[l] = agent'.job
    BY DEF SlotCovers, Queue, IsExec
  <2>1. CASE l = k
    BY <1>2, <1>3, <1>6, <1>7, <2>1
  <2>2. CASE l # k
    BY <1>2, <1>3, <1>5, <2>2 DEF AloneInv, SlotCovers, Queue, IsExec
  <2> QED BY <2>1, <2>2
<1> QED BY <1>8, <1>9

LEMMA AloneDispatch ==
    ASSUME TypeInv, OnceInv, SlotInv, AloneInv, NEW s \in Sessions, ExecLeaves(s)
    PROVE  ExecIdle' /\ SlotCovers'
<1> DEFINE k == ses[s].peer
<1>1. k \in Conns /\ ses[s].pc = "send" /\ job[k] = s /\ srvOpen[k] /\ task[s].pc = "none"
  BY DEF ExecLeaves, Dispatch, DispatchInDoubt, SlotInv, PeerHeld, SlotOwned, OnceInv, UnsentNone, Unsent
<1>2. ~(agent.conn = k /\ agent.job # None)
  BY <1>1 DEF AloneInv, SlotCovers, JobLive, LiveStages
<1>3. \A i \in Queue(k) : ~IsExec(k, i)
  BY <1>1 DEF AloneInv, SlotCovers, OnceInv, ExecPending, Unsent
<1>4. UNCHANGED <<job, srvOpen, agent>>
  BY DEF ExecLeaves, Dispatch, DispatchInDoubt, hubVars
<1>5. \A l \in Conns : \/ toAgent'[l] = toAgent[l]
                       \/ l = k /\ toAgent'[l] = Append(toAgent[l], ExecMsg(s))
  <2>1. toAgent' = toAgent \/ toAgent' = [toAgent EXCEPT ![k] = Append(@, ExecMsg(s))]
    BY DEF ExecLeaves, Dispatch, DispatchInDoubt, SendToAgent
  <2> QED BY <1>1, <2>1, TypeInvFacts
<1>6. ExecMsg(s).id = s
  BY DEF ExecMsg
<1> HIDE DEF k
<1>7. ASSUME NEW l \in Conns, NEW i \in 1..Len(toAgent'[l]), toAgent'[l][i].type = "exec"
      PROVE  \/ i \in Queue(l) /\ IsExec(l, i) /\ toAgent'[l][i] = toAgent[l][i]
             \/ l = k /\ toAgent'[l][i].id = s
  <2>1. CASE toAgent'[l] = toAgent[l]
    BY <1>7, <2>1 DEF Queue, IsExec
  <2>2. CASE l = k /\ toAgent'[l] = Append(toAgent[l], ExecMsg(s))
    <3>1. toAgent[l] \in Seq(ToAgentMsg)
      BY TypeInvFacts
    <3> QED BY <1>6, <1>7, <2>2, <3>1, AppendAt DEF Queue, IsExec
  <2> QED BY <1>5, <2>1, <2>2
<1>8. ExecIdle'
  <2> SUFFICES ASSUME NEW l \in Conns, NEW i \in 1..Len(toAgent'[l]), toAgent'[l][i].type = "exec",
                      agent.conn = l
               PROVE  agent.job = None
    BY <1>4 DEF ExecIdle, Queue, IsExec
  <2> QED BY <1>2, <1>7 DEF AloneInv, ExecIdle
<1>9. SlotCovers'
  <2> SUFFICES ASSUME NEW l \in Conns, srvOpen[l]
               PROVE  /\ \A i \in 1..Len(toAgent'[l]) : toAgent'[l][i].type = "exec" =>
                                                        job[l] = toAgent'[l][i].id
                      /\ agent.conn = l /\ agent.job # None => job[l] = agent.job
    BY <1>4 DEF SlotCovers, Queue, IsExec
  <2> QED BY <1>1, <1>7 DEF AloneInv, SlotCovers
<1> QED BY <1>8, <1>9

LEMMA AloneDial ==
    ASSUME TypeInv, AloneInv, NEW k \in Conns, Dial(k)
    PROVE  ExecIdle' /\ SlotCovers'
<1>1. /\ toAgent'[k] = <<>> /\ agent'.job = None
      /\ \A l \in Conns : l # k => /\ toAgent'[l] = toAgent[l] /\ job'[l] = job[l]
                                   /\ srvOpen'[l] = srvOpen[l]
  BY TypeInvFacts DEF Dial
<1> QED BY <1>1 DEF AloneInv, ExecIdle, SlotCovers, Queue, IsExec

\* The steps of a session other than the dispatch.
LEMMA AloneSession ==
    ASSUME TypeInv, OnceInv, SlotInv, JobInv, Reports, AloneInv, NEW s \in Sessions,
           SessionStep(s) \/ SshClient(s) \/ Watchdog(s), \A t \in Sessions : ~ExecLeaves(t), Next
    PROVE  ExecIdle' /\ SlotCovers'
<1> DEFINE k == ses[s].peer
<1> USE TypeInvFacts
<1>1. SameJob
  BY SessionFrame DEF SameJob
<1>2. \A l \in Conns : srvOpen'[l] => srvOpen[l]
  BY SessionFrame DEF Release
<1>3. \A l \in Conns : \E d \in {0, 1} : Left(l, d)
  BY QueueFlow
<1>4. CASE UNCHANGED job
  BY <1>1, <1>2, <1>3, <1>4, CoverKept
<1>5. ASSUME k \in Conns, \A l \in Conns : l # k => job'[l] = job[l],
             srvOpen[k] => job'[k] = job[k] \/ job[k] = None
                           \/ task[job[k]].pc \notin {"none"} \cup LiveStages
      PROVE  ExecIdle' /\ SlotCovers'
  BY <1>1, <1>2, <1>3, <1>5, CarriedInSlot, CoverKept
<1>6. CASE Claim(s)
  <2>1. k \in Conns
    BY <1>6 DEF Claim, SlotInv, PeerHeld
  <2> QED BY <1>5, <1>6, <2>1 DEF Claim
<1>7. CASE TakesExit(s)
  <2>1. k \in Conns /\ job[k] = s
    BY <1>7 DEF TakesExit, SlotInv, PeerHeld, SlotOwned
  <2>2. task[s].pc = "over"
    <3>1. ses[s].events \in Seq(ToServerMsg) /\ ses[s].events # <<>>
      BY <1>7 DEF TakesExit, SessionState
    <3>2. 1 \in 1..Len(ses[s].events) /\ Head(ses[s].events) = ses[s].events[1]
      BY <3>1
    <3>3. AllReported(ses[s].events) /\ \A i \in 1..Len(ses[s].events) : ses[s].events[i].id = s
      BY DEF Reports
    <3>4. Reported(Head(ses[s].events)) /\ Head(ses[s].events).id = s
      BY <3>2, <3>3 DEF AllReported
    <3>5. Head(ses[s].events).type = "exit"
      BY <1>7 DEF TakesExit
    <3> QED BY <3>4, <3>5 DEF Reported
  <2> QED BY <1>5, <1>7, <2>1, <2>2 DEF TakesExit, LiveStages
<1>8. CASE Clear(s)
  <2>1. k \in Conns
    BY <1>8 DEF Clear, SlotInv, PeerHeld
  <2>2. job[k] = s => ~srvOpen[k]
    BY <1>8 DEF Clear, JobInv, ClearClosed
  <2> QED BY <1>5, <1>8, <2>1, <2>2 DEF Clear
<1> QED BY <1>4, <1>6, <1>7, <1>8, SessionFrame

LEMMA AloneStep ==
    ASSUME TypeInv, OnceInv, SlotInv, JobInv, Reports, AloneInv, Next
    PROVE  AloneInv'
<1>1. ASSUME UNCHANGED job, \A k \in Conns : srvOpen'[k] => srvOpen[k], SameJob,
             \A s \in Sessions : ~ExecLeaves(s)
      PROVE  ExecIdle' /\ SlotCovers'
  BY <1>1, QueueFlow, CoverKept
<1>2. ExecIdle' /\ SlotCovers'
  <2>1. CASE AgentExec /\ agent.job = None
    BY <2>1, AloneExec
  <2>2. CASE \E k \in Conns : Dial(k)
    BY <2>2, AloneDial
  <2>3. CASE \E s \in Sessions : ExecLeaves(s)
    BY <2>3, AloneDispatch
  <2>4. ASSUME SameJob, \A s \in Sessions : ~ExecLeaves(s), ~(\E k \in Conns : Dial(k))
        PROVE  ExecIdle' /\ SlotCovers'
    <3>1. ASSUME NEW s \in Sessions, SessionStep(s) \/ SshClient(s) \/ Watchdog(s)
          PROVE  ExecIdle' /\ SlotCovers'
      BY <2>4, <3>1, AloneSession
    <3>2. ASSUME NEW k \in Conns, HandlerStep(k) \/ HeartbeatFails(k)
          PROVE  UNCHANGED job /\ \A l \in Conns : srvOpen'[l] => srvOpen[l]
      BY <3>2, TypeInvFacts DEF HandlerStep, Register, HandlerReads, HandlerReadFails, HandlerDelivers,
         HandlerGivesUp, HandlerReturns, Unregister, HeartbeatFails, hubVars, wireVars
    <3>3. Disconnect => UNCHANGED job /\ \A l \in Conns : srvOpen'[l] => srvOpen[l]
      BY TypeInvFacts DEF Disconnect
    <3>4. UNCHANGED <<hubVars, srvOpen>> => UNCHANGED job /\ \A l \in Conns : srvOpen'[l] => srvOpen[l]
      BY DEF hubVars
    <3>5. ASSUME UNCHANGED job /\ \A l \in Conns : srvOpen'[l] => srvOpen[l]
          PROVE  ExecIdle' /\ SlotCovers'
      BY <1>1, <2>4, <3>5
    <3> QED BY <2>4, <3>1, <3>2, <3>3, <3>4, <3>5, AgentFrame, TaskFrame DEF Next, Faults
  <2> QED BY <2>1, <2>2, <2>3, <2>4, AgentFlow
<1> QED BY <1>2, JobLiveStep DEF AloneInv

-----------------------------------------------------------------------------
\* The life of one command: everything above together.
LifeInv == TypeInv /\ SlotInv /\ TaskOfAgent /\ OnceInv /\ Reports /\ JobInv /\ AloneInv

LEMMA LifeInit == Init => LifeInv
<1> SUFFICES ASSUME Init PROVE LifeInv
  OBVIOUS
<1>1. TypeInv
  BY TypeInit
<1>2. SlotInv /\ TaskOfAgent
  BY DEF Init, NewSession, NoTask, SlotInv, PeerHeld, SlotOwned, TaskOfAgent, LiveStages
<1>3. OnceInv
  BY DEF Init, NewSession, NoTask, OnceInv, ExecPending, ExecAlone, ExecHome, UnsentNone, RunsOf, Queue
<1>4. Reports
  BY DEF Init, NewSession, Reports, AllReported
<1>5. JobInv
  BY ConstantsAssumption DEF Init, NewSession, JobInv, JobOf, CompletedLate, ClearClosed
<1>6. AloneInv
  BY DEF Init, AloneInv, JobLive, ExecIdle, SlotCovers, Queue
<1> QED BY <1>1, <1>2, <1>3, <1>4, <1>5, <1>6 DEF LifeInv

LEMMA LifeStep ==
    ASSUME LifeInv, [Next]_vars
    PROVE  LifeInv'
<1>1. CASE Next
  <2> USE <1>1 DEF LifeInv
  <2>1. TypeInv' /\ SlotInv' /\ TaskOfAgent'
    BY TypeNext, SlotStep, TaskOfAgentStep
  <2>2. OnceInv'
    <3>1. CASE \E s \in Sessions : ExecLeaves(s)
      BY <3>1, OnceDispatch DEF AloneInv, SlotCovers
    <3>2. CASE AgentExec /\ agent.job = None
      BY <3>2, OnceExec
    <3>3. CASE (\A s \in Sessions : ~ExecLeaves(s)) /\ (\A s \in Sessions : TaskFlow(s))
      BY <3>3, OnceOther
    <3> QED BY <3>1, <3>2, <3>3, TaskFlows
  <2>3. Reports' /\ JobInv' /\ AloneInv'
    BY ReportsStep, JobStep, AloneStep DEF JobInv
  <2> QED BY <2>1, <2>2, <2>3
<1>2. CASE UNCHANGED vars
  <2> USE <1>2 DEF LifeInv, vars, hubVars, wireVars
  <2>1. TypeInv'
    BY TypeNext
  <2>2. SlotInv' /\ TaskOfAgent'
    BY DEF SlotInv, PeerHeld, SlotOwned, TaskOfAgent
  <2>3. OnceInv'
    BY DEF OnceInv, ExecPending, ExecAlone, ExecHome, UnsentNone, RunsOf, Queue, IsExec
  <2>4. Reports'
    BY DEF Reports, AllReported, Reported
  <2>5. JobInv'
    BY DEF JobInv, JobOf, CompletedLate, ClearClosed
  <2>6. AloneInv'
    BY DEF AloneInv, JobLive, ExecIdle, SlotCovers, Queue, IsExec
  <2> QED BY <2>1, <2>2, <2>3, <2>4, <2>5, <2>6
<1> QED BY <1>1, <1>2

LEMMA LifeInvariant == Spec => []LifeInv
BY LifeInit, LifeStep, PTL DEF Spec

\* The command of a session starts at most once, whatever is lost, cut or restarted.
THEOREM StartedAtMostOnce == Spec => []AtMostOnce
<1>1. LifeInv => AtMostOnce
  BY DEF LifeInv, OnceInv, RunsOf, AtMostOnce
<1> QED BY <1>1, LifeInvariant, PTL

\* The agent never reads an exec message while it has a job: the exit of connect for
\* concurrent tasks is dead code against this server.
THEOREM NeverOverlaps == Spec => []NoOverlappingExec
<1>1. LifeInv => NoOverlappingExec
  <2> SUFFICES ASSUME LifeInv, AgentSees("exec") PROVE agent.job = None
    BY DEF NoOverlappingExec
  <2> QED BY HeadRead DEF LifeInv, AloneInv, ExecIdle, IsExec
<1> QED BY <1>1, LifeInvariant, PTL

-----------------------------------------------------------------------------
(* Complete output. The chunks of a command are counted where they are: written *)
(* to the SSH client, in the events of its session, held by the handler of its  *)
(* connection, in flight. While the server keeps the connection open nothing is *)
(* missing, and an exit message comes after all of them.                        *)

Waiting(s) == ses[s].pc \in {"loop", "write"}

\* The server reads from an open connection only what belongs to the current job.
OfSlot(k, m) == m.id = job[k] /\ ses[m.id].pc \notin Unsent

SlotStream ==
    \A k \in Conns : srvOpen[k] =>
        /\ held[k] # None => OfSlot(k, held[k])
        /\ \A i \in 1..Len(toServer[k]) : OfSlot(k, toServer[k][i])

\* A message that is held goes to a session of the same connection, if it still waits.
HeldHome ==
    \A k \in Conns : held[k] # None =>
        /\ ses[held[k].id].pc \notin Unsent
        /\ Waiting(held[k].id) => ses[held[k].id].peer = k

\* So does what the task of a session writes.
TaskHome ==
    \A s \in Sessions : Waiting(s) =>
        /\ task[s].pc \in LiveStages => task[s].conn = ses[s].peer
        /\ \A k \in Conns : \A i \in Queue(k) :
               IsExec(k, i) /\ toAgent[k][i].id = s => k = ses[s].peer

Fresh ==
    \A s \in Sessions :
        /\ ses[s].pc \in Unsent => ses[s].events = <<>> /\ ses[s].forwarded = 0
        /\ task[s].pc = "none" => task[s].sent = 0

\* Messages the session has taken from its channel, and those that arrived there.
Taken(s) == ses[s].forwarded + (IF ses[s].pc = "write" THEN 1 ELSE 0)
Arrived(s) == Taken(s) + Len(ses[s].events)
Holding(k) == IF held[k] = None THEN 0 ELSE 1
Reporting(s) == IF task[s].pc = "over" THEN 1 ELSE 0

\* The task ended without its exit message.
Lost(s) == task[s].pc = "over" /\ task[s].code = NoCode

\* Nothing is missing on an open connection.
Whole(s) ==
    LET k == ses[s].peer IN
    srvOpen[k] /\ ~Lost(s) =>
        Arrived(s) + Holding(k) + Len(toServer[k]) = task[s].sent + Reporting(s)

\* t messages came before those of q: an exit among them comes after n others.
ExitAfter(q, t, n) == \A i \in 1..Len(q) : q[i].type = "exit" => t + i = n + 1

ExitLast(s) ==
    LET k == ses[s].peer IN
    /\ ExitAfter(ses[s].events, Taken(s), task[s].sent)
    /\ held[k] # None /\ held[k].id = s /\ held[k].type = "exit" => Arrived(s) = task[s].sent
    /\ srvOpen[k] => ExitAfter(toServer[k], Arrived(s) + Holding(k), task[s].sent)

Stream(s) == Waiting(s) => Whole(s) /\ ExitLast(s)
Streams == \A s \in Sessions : Stream(s)

Delivered ==
    \A s \in Sessions : ses[s].pc = "exit" /\ ses[s].completed => ses[s].forwarded = task[s].sent

OutputInv == SlotStream /\ HeldHome /\ TaskHome /\ Fresh /\ Streams /\ Delivered

-----------------------------------------------------------------------------
LEMMA ExitAfterTail ==
    ASSUME NEW q \in Seq(ToServerMsg), q # <<>>, NEW t \in Nat, NEW n \in Nat, ExitAfter(q, t, n)
    PROVE  /\ Tail(q) \in Seq(ToServerMsg) /\ Len(Tail(q)) = Len(q) - 1 /\ Len(q) \in Nat \ {0}
           /\ ExitAfter(Tail(q), t + 1, n)
           /\ Head(q) \in ToServerMsg /\ (Head(q).type = "exit" => t = n)
<1>1. /\ Len(q) \in Nat /\ Len(q) >= 1 /\ Head(q) = q[1]
      /\ Len(Tail(q)) = Len(q) - 1
      /\ \A i \in 1..(Len(q) - 1) : Tail(q)[i] = q[i + 1]
      /\ Head(q) \in ToServerMsg /\ Tail(q) \in Seq(ToServerMsg)
  OBVIOUS
<1>2. ExitAfter(Tail(q), t + 1, n)
  <2> SUFFICES ASSUME NEW i \in 1..(Len(q) - 1), q[i + 1].type = "exit"
               PROVE  t + 1 + i = n + 1
    BY <1>1 DEF ExitAfter
  <2>1. i + 1 \in 1..Len(q)
    BY <1>1
  <2>2. t + (i + 1) = n + 1
    BY <2>1 DEF ExitAfter
  <2> QED BY <2>2
<1>3. Head(q).type = "exit" => t = n
  BY <1>1 DEF ExitAfter
<1> QED BY <1>1, <1>2, <1>3

LEMMA ExitAfterAppend ==
    ASSUME NEW q \in Seq(ToServerMsg), NEW m \in ToServerMsg, NEW t \in Nat, NEW n \in Nat,
           ExitAfter(q, t, n), m.type = "exit" => t + Len(q) = n
    PROVE  /\ Append(q, m) \in Seq(ToServerMsg) /\ Len(Append(q, m)) = Len(q) + 1
           /\ ExitAfter(Append(q, m), t, n)
<1>1. /\ Len(Append(q, m)) = Len(q) + 1 /\ Len(q) \in Nat
      /\ \A i \in 1..Len(q) : Append(q, m)[i] = q[i]
      /\ Append(q, m)[Len(q) + 1] = m
  BY AppendAt
<1>2. \A i \in 1..(Len(q) + 1) : i \in 1..Len(q) \/ i = Len(q) + 1
  BY <1>1
<1>3. \A i \in 1..(Len(q) + 1) : Append(q, m)[i].type = "exit" => t + i = n + 1
  BY <1>1, <1>2 DEF ExitAfter
<1> QED BY <1>1, <1>3 DEF ExitAfter

\* No exit of a task that is not over is under way.
LEMMA NoExitYet ==
    ASSUME NEW s \in Sessions, task[s].pc # "over", NEW q, AllReported(q),
           \A i \in 1..Len(q) : q[i].id = s, NEW t, NEW n
    PROVE  ExitAfter(q, t, n)
BY DEF AllReported, Reported, ExitAfter

-----------------------------------------------------------------------------
(* What each actor does to the message counts *)

\* A session goes on waiting, on the same connection, having taken nothing or one chunk.
WaitFlow(s) ==
    ses'[s].pc \in {"loop", "write"} =>
        \/ Dispatch(s)
        \/ /\ Waiting(s) /\ ses'[s].peer = ses[s].peer
           /\ \/ Taken(s)' = Taken(s) /\ ses'[s].events = ses[s].events
              \/ /\ Taken(s)' = Taken(s) + 1
                 /\ ses[s].events # <<>> /\ ses'[s].events = Tail(ses[s].events)

FreshFlow(s) ==
    ses'[s].pc \in Unsent =>
        ses'[s].events = ses[s].events /\ ses'[s].forwarded = ses[s].forwarded

EndFlow(s) ==
    ses'[s].pc = "exit" /\ ses'[s].completed =>
        /\ ses'[s].forwarded = ses[s].forwarded
        /\ TakesExit(s) \/ (ses[s].pc = "exit" /\ ses[s].completed)

SessionCounts(s) == WaitFlow(s) /\ FreshFlow(s) /\ EndFlow(s)

LEMMA CountsSession ==
    ASSUME TypeInv, CompletedLate, NEW s \in Sessions, SessionStep(s) \/ SshClient(s) \/ Watchdog(s)
    PROVE  SessionCounts(s)
<1> USE DEF SessionCounts, WaitFlow, FreshFlow, EndFlow, Waiting, Taken, Unsent
<1>0. ses[s] \in SessionState /\ ses \in [Sessions -> SessionState]
  BY TypeInvFacts
<1>c. ses[s].completed => ses[s].pc \in {"exit", "release", "clear"}
  BY DEF CompletedLate
<1>1. EndedSession.pc = "done"
  BY DEF EndedSession, NewSession
<1> USE <1>0, <1>c, <1>1 DEF SessionState
<1>2. CASE ExecRequest(s)
  BY <1>2 DEF ExecRequest
<1>3. CASE NoExecRequest(s)
  BY <1>3 DEF NoExecRequest
<1>4. CASE LookupPeer(s)
  BY <1>4 DEF LookupPeer
<1>5. CASE LookupFails(s)
  BY <1>5 DEF LookupFails
<1>6. CASE Claim(s)
  BY <1>6 DEF Claim
<1>7. CASE Busy(s)
  BY <1>7 DEF Busy
<1>8. CASE Dispatch(s)
  BY <1>8 DEF Dispatch
<1>9. CASE DispatchFails(s)
  BY <1>9 DEF DispatchFails
<1>20. CASE DispatchInDoubt(s)
  BY <1>20 DEF DispatchInDoubt
<1>10. CASE Refuse(s)
  BY <1>10 DEF Refuse
<1>21. CASE ReportFailure(s)
  BY <1>21 DEF ReportFailure
<1>11. ASSUME NEW c, LeaveLoop(s, c) PROVE SessionCounts(s)
  BY <1>11 DEF LeaveLoop
<1>12. CASE TakesExit(s)
  BY <1>12 DEF TakesExit
<1>13. CASE TakesOutput(s)
  <2>1. /\ ses[s].pc = "loop" /\ ses[s].events # <<>>
        /\ ses'[s].events = Tail(ses[s].events) /\ ses'[s].peer = ses[s].peer
        /\ ses'[s].forwarded = ses[s].forwarded /\ ses'[s].pc \in {"exit", "write"}
        /\ ses'[s].completed = ses[s].completed
    BY <1>13 DEF TakesOutput
  <2> QED BY <2>1
<1>14. CASE WriteSucceeds(s)
  BY <1>14 DEF WriteSucceeds
<1>15. CASE WriteFails(s)
  BY <1>15 DEF WriteFails
<1>16. CASE SendExit(s)
  BY <1>16 DEF SendExit
<1>17. CASE Release(s)
  BY <1>17 DEF Release
<1>18. CASE Clear(s)
  BY <1>18 DEF Clear
<1>19. CASE Watchdog(s)
  BY <1>19 DEF Watchdog
<1> QED
  BY <1>2, <1>3, <1>4, <1>5, <1>6, <1>7, <1>8, <1>9, <1>10, <1>11, <1>12, <1>13, <1>14, <1>15,
     <1>16, <1>17, <1>18, <1>19, <1>20, <1>21
     DEF SessionStep, SshClient, ClientAnswersClose, SeesDone, SeesDeadline, SeesCancel

\* A task of which nothing changes that is counted here.
Quiet(s) ==
    /\ task'[s].sent = task[s].sent
    /\ task'[s].pc = "over" <=> task[s].pc = "over"
    /\ task[s].pc = "over" => task'[s].code = task[s].code
    /\ task'[s].pc = "none" => task[s].pc = "none"

\* A task ends without an exit message.
GoesLost(s) == task[s].pc \in LiveStages /\ task'[s].pc = "over" /\ task'[s].code = NoCode

Sends(s, m) == toServer' = SendToServer(task[s].conn, m)

WritesChunk(s) ==
    /\ task[s].pc \in LiveStages /\ task'[s].pc \in LiveStages
    /\ task'[s].sent = task[s].sent + 1
    /\ Sends(s, OutputMsg(s))

ReportsExit(s) ==
    /\ task[s].pc \in LiveStages /\ task'[s].pc = "over"
    /\ task'[s].sent = task[s].sent
    /\ \E c \in Codes : task'[s].code = c /\ Sends(s, ExitMsg(s, c))

LEMMA CountsTask ==
    ASSUME TypeInv, NEW s \in Sessions, TaskStep(s) \/ Command(s) \/ TaskTimesOut(s)
    PROVE  /\ \A t \in Sessions : t # s => task'[t] = task[t]
           /\ \/ Quiet(s) /\ UNCHANGED toServer
              \/ GoesLost(s) /\ UNCHANGED toServer
              \/ WritesChunk(s)
              \/ ReportsExit(s)
<1> USE TypeInvFacts DEF Quiet, GoesLost, WritesChunk, ReportsExit
<1>0. task[s] \in TaskState
  OBVIOUS
<1>1. CASE TaskStarts(s)
  BY <1>0, <1>1 DEF TaskStarts, OnlyTask, wireVars, TaskState
<1>2. CASE TaskCannotStart(s)
  BY <1>0, <1>2 DEF TaskCannotStart, OnlyTask, wireVars, TaskState
<1>3. CASE TaskEnds(s)
  BY <1>0, <1>3 DEF TaskEnds, OnlyTask, wireVars, TaskState
<1>4. CASE TaskTimesOut(s)
  BY <1>0, <1>4 DEF TaskTimesOut, OnlyTask, wireVars, TaskState, LiveStages
<1>5. CASE TaskOutput(s) \/ TaskReportsError(s)
  <2>1. PICK p \in {"running", "ended"} : TaskWrites(s, p) /\ task[s].pc \in {"running", "failed"}
    BY <1>5 DEF TaskOutput, TaskReportsError
  <2> DEFINE v1 == [task[s] EXCEPT !.pc = p, !.exceeded = TRUE, !.stop = Cancelled(task[s].stop)]
             v2 == [task[s] EXCEPT !.pc = p, !.sent = task[s].sent + 1]
             v3 == [task[s] EXCEPT !.pc = p, !.stop = Cancelled(task[s].stop)]
  <2>2. /\ \A v \in {v1, v3} : v.pc = p /\ v.sent = task[s].sent
        /\ v2.pc = p /\ v2.sent = task[s].sent + 1
    BY <1>0 DEF TaskState
  <2>3. \/ (\E v \in {v1, v3} : task' = [task EXCEPT ![s] = v]) /\ UNCHANGED toServer
        \/ task' = [task EXCEPT ![s] = v2] /\ Sends(s, OutputMsg(s))
    BY <2>1 DEF TaskWrites, Sends
  <2> HIDE DEF v1, v2, v3
  <2>4. /\ \A t \in Sessions : t # s => task'[t] = task[t]
        /\ task'[s].pc = p
        /\ \/ task'[s].sent = task[s].sent /\ UNCHANGED toServer
           \/ task'[s].sent = task[s].sent + 1 /\ Sends(s, OutputMsg(s))
    BY <2>2, <2>3
  <2> QED BY <2>1, <2>4 DEF LiveStages
<1>6. CASE TaskSendsExit(s)
  <2>1. \E x \in Codes : x = DecidedCode(s)
    <3>1. task[s].code \in Codes /\ task[s].stop \in {"none", "deadline", "cancelled"}
      BY <1>6 DEF TaskSendsExit, CodeKnown, TaskState
    <3> QED BY <3>1, CodesKnown DEF DecidedCode
  <2> PICK c \in Codes : c = DecidedCode(s)
    BY <2>1
  <2> DEFINE v1 == [TaskLost(s) EXCEPT !.code = c, !.sent = task[s].sent]
             v2 == TaskLost(s)
  <2>2. /\ v1.pc = "over" /\ v1.code = c /\ v1.sent = task[s].sent
        /\ v2.pc = "over" /\ v2.code = NoCode
    BY DEF TaskLost, NoTask
  <2>3. \/ task' = [task EXCEPT ![s] = v1] /\ Sends(s, ExitMsg(s, c))
        \/ task' = [task EXCEPT ![s] = v2] /\ UNCHANGED toServer
    BY <1>6 DEF TaskSendsExit, Sends
  <2>4. task[s].pc = "ended"
    BY <1>6 DEF TaskSendsExit
  <2> HIDE DEF v1, v2
  <2> QED BY <2>2, <2>3, <2>4 DEF LiveStages
<1> QED BY <1>1, <1>2, <1>3, <1>4, <1>5, <1>6 DEF TaskStep, Command

LEMMA CountsAgent ==
    ASSUME TypeInv, OnceInv, AgentStep \/ ConnectionCut \/ AgentRestart, NEW s \in Sessions
    PROVE  Quiet(s) \/ GoesLost(s)
<1> USE TypeInvFacts
<1>1. ASSUME UNCHANGED task PROVE Quiet(s)
  BY <1>1 DEF Quiet
<1>2. ASSUME NEW t \in Sessions, task' = CancelTask(t) PROVE Quiet(s)
  BY <1>2 DEF CancelTask, TaskState, Quiet
<1>3. AgentReturns => Quiet(s)
  BY <1>1, <1>2 DEF AgentReturns, AgentState
<1>4. CASE AgentExec /\ agent.job = None
  <2> DEFINE t == toAgent[agent.conn][1].id
  <2>1. /\ t \in Sessions /\ Head(toAgent[agent.conn]).id = t
        /\ task[t].pc = "none"
    BY <1>4, HeadRead DEF AgentExec, OnceInv, ExecPending, IsExec
  <2>2. task' = [task EXCEPT ![t] = [task[t] EXCEPT !.pc = "starting", !.conn = agent.conn]]
    BY <1>4, <2>1 DEF AgentExec
  <2> HIDE DEF t
  <2>3. /\ task'[t].pc = "starting" /\ task'[t].sent = task[t].sent
        /\ \A u \in Sessions : u # t => task'[u] = task[u]
    BY <2>1, <2>2 DEF TaskState
  <2> QED BY <2>1, <2>3 DEF Quiet
<1>5. CASE AgentCancel
  <2>1. Head(toAgent[agent.conn]).id \in Sessions
    BY <1>5, HeadRead DEF AgentCancel
  <2> QED BY <1>1, <1>2, <1>5, <2>1 DEF AgentCancel
<1>6. CASE AgentLeaves \/ ConnectionCut
  BY <1>1, <1>6 DEF AgentLeaves, ConnectionCut
<1>7. CASE AgentRestart
  <2>1. TaskLost(s).pc = "over" /\ TaskLost(s).code = NoCode
    BY DEF TaskLost, NoTask
  <2> QED BY <1>7, <2>1 DEF AgentRestart, Quiet, GoesLost
<1> QED BY <1>3, <1>4, <1>5, <1>6, <1>7 DEF AgentStep, AgentExec, AgentReadFails

-----------------------------------------------------------------------------
(* The stream of a connection and the slot *)

LEMMA StreamTyped ==
    ASSUME TypeInv, NEW k \in Conns
    PROVE  /\ toServer[k] \in Seq(ToServerMsg) /\ Len(toServer[k]) \in Nat
           /\ \A i \in 1..Len(toServer[k]) : /\ toServer[k][i] \in ToServerMsg
                                             /\ toServer[k][i].id \in Sessions
           /\ held[k] # None => held[k] \in ToServerMsg /\ held[k].id \in Sessions
<1>1. toServer[k] \in Seq(ToServerMsg) /\ held[k] \in ToServerMsg \cup {None}
  BY TypeInvFacts
<1>2. Len(toServer[k]) \in Nat /\ \A i \in 1..Len(toServer[k]) : toServer[k][i] \in ToServerMsg
  BY <1>1
<1>3. \A m \in ToServerMsg : m.id \in Sessions
  BY DEF ToServerMsg
<1> QED BY <1>1, <1>2, <1>3

LEMMA CountsTyped ==
    ASSUME TypeInv, NEW s \in Sessions
    PROVE  /\ ses[s].events \in Seq(ToServerMsg) /\ Len(ses[s].events) \in Nat
           /\ ses[s].forwarded \in Nat /\ Taken(s) \in Nat /\ Arrived(s) \in Nat
           /\ task[s].sent \in Nat /\ task[s].pc \in TaskStages
<1>1. ses[s] \in SessionState /\ task[s] \in TaskState
  BY TypeInvFacts
<1>2. ses[s].events \in Seq(ToServerMsg) /\ ses[s].forwarded \in Nat
  BY <1>1 DEF SessionState
<1>3. Len(ses[s].events) \in Nat
  BY <1>2
<1>4. Taken(s) \in Nat
  BY <1>2 DEF Taken
<1>5. Arrived(s) \in Nat
  BY <1>3, <1>4 DEF Arrived
<1>6. task[s].sent \in Nat /\ task[s].pc \in TaskStages
  BY <1>1 DEF TaskState
<1> QED BY <1>2, <1>3, <1>4, <1>5, <1>6

LEMMA NoCodeApart == NoCode \notin Codes
BY DEF Codes, ProcessCodes, NoCode, TimedOut, Unavailable, Aborted

\* When a session takes its exit message, nothing is left behind it.
LEMMA ExitEmpties ==
    ASSUME LifeInv, Streams, NEW s \in Sessions, TakesExit(s)
    PROVE  /\ ses[s].forwarded = task[s].sent
           /\ srvOpen[ses[s].peer] => held[ses[s].peer] = None /\ Len(toServer[ses[s].peer]) = 0
<1> DEFINE k == ses[s].peer
           e == ses[s].events
<1>1. /\ ses[s].pc = "loop" /\ e # <<>> /\ Head(e).type = "exit"
      /\ k \in Conns
  BY DEF TakesExit, LifeInv, SlotInv, PeerHeld
<1>2. Whole(s) /\ ExitLast(s)
  BY <1>1 DEF Streams, Stream, Waiting
<1>3. TypeInv
  BY DEF LifeInv
<1>4. e \in Seq(ToServerMsg) /\ Taken(s) \in Nat /\ task[s].sent \in Nat /\ Len(toServer[k]) \in Nat
  BY <1>1, <1>3, CountsTyped, StreamTyped
<1>5. Taken(s) = task[s].sent /\ Len(e) \in Nat \ {0} /\ Head(e) \in ToServerMsg
  <2>1. ExitAfter(e, Taken(s), task[s].sent)
    BY <1>2 DEF ExitLast
  <2> HIDE DEF e, k
  <2> QED BY <1>1, <1>4, <2>1, ExitAfterTail
<1>6. task[s].pc = "over" /\ ~Lost(s)
  <2>1. Reported(Head(e)) /\ Head(e).id = s
    <3>1. AllReported(e) /\ \A i \in 1..Len(e) : e[i].id = s
      BY DEF LifeInv, Reports
    <3> HIDE DEF e
    <3>2. 1 \in 1..Len(e) /\ Head(e) = e[1]
      BY <1>1, <1>4, <1>5
    <3> QED BY <3>1, <3>2 DEF AllReported
  <2>2. task[s].pc = "over" /\ task[s].code = Head(e).code
    BY <1>1, <2>1 DEF Reported
  <2>3. Head(e).code \in Codes
    BY <1>5 DEF ToServerMsg
  <2> QED BY <2>2, <2>3, NoCodeApart DEF Lost
<1>7. Taken(s) = ses[s].forwarded
  BY <1>1, <1>3, CountsTyped DEF Taken
<1>8. ASSUME srvOpen[k] PROVE held[k] = None /\ Len(toServer[k]) = 0
  <2>1. Taken(s) + Len(e) + Holding(k) + Len(toServer[k]) = task[s].sent + 1
    BY <1>2, <1>6, <1>8 DEF Whole, Arrived, Reporting
  <2>2. Holding(k) \in {0, 1} /\ (Holding(k) = 0 => held[k] = None)
    BY DEF Holding
  <2> HIDE DEF e, k
  <2> QED BY <1>4, <1>5, <2>1, <2>2
<1> QED BY <1>5, <1>7, <1>8

SlotStreamAt(k) ==
    srvOpen[k] =>
        /\ held[k] # None => OfSlot(k, held[k])
        /\ \A i \in 1..Len(toServer[k]) : OfSlot(k, toServer[k][i])

LEMMA SlotStreamKept ==
    ASSUME TypeInv, SlotStream, Next, NEW k \in Conns,
           srvOpen'[k] => /\ srvOpen[k] /\ job'[k] = job[k]
                          /\ held'[k] \in {None, held[k]} /\ toServer'[k] = toServer[k]
    PROVE  SlotStreamAt(k)'
<1> SUFFICES ASSUME srvOpen'[k]
             PROVE  /\ held'[k] # None => OfSlot(k, held[k])'
                    /\ \A i \in 1..Len(toServer'[k]) : OfSlot(k, toServer[k][i])'
  BY DEF SlotStreamAt
<1>1. /\ held[k] # None => OfSlot(k, held[k])
      /\ \A i \in 1..Len(toServer[k]) : OfSlot(k, toServer[k][i])
  BY DEF SlotStream
<1>2. ASSUME NEW m, m.id \in Sessions, OfSlot(k, m)
      PROVE  m.id = job'[k] /\ ses'[m.id].pc \notin Unsent
  BY <1>2, UnsentFlow DEF OfSlot
<1>3. ASSUME held'[k] # None PROVE OfSlot(k, held[k])'
  BY <1>1, <1>2, <1>3, StreamTyped DEF OfSlot
<1>4. ASSUME NEW i \in 1..Len(toServer'[k]) PROVE OfSlot(k, toServer[k][i])'
  BY <1>1, <1>2, <1>4, StreamTyped DEF OfSlot
<1> QED BY <1>3, <1>4

LEMMA SlotStreamEmpty ==
    ASSUME NEW k \in Conns,
           srvOpen'[k] => held'[k] = None /\ Len(toServer'[k]) = 0
    PROVE  SlotStreamAt(k)'
BY DEF SlotStreamAt

LEMMA SlotStreamSession ==
    ASSUME LifeInv, SlotStream, Streams, Next,
           NEW s \in Sessions, SessionStep(s) \/ SshClient(s) \/ Watchdog(s), NEW k \in Conns
    PROVE  SlotStreamAt(k)'
<1> USE ConstantsAssumption DEF LifeInv
<1>1. UNCHANGED <<held, toServer>> /\ (srvOpen'[k] => srvOpen[k])
  <2>1. CASE Release(s)
    BY <2>1, SessionFrame, TypeInvFacts DEF Release
  <2> QED BY <2>1, SessionFrame
<1>2. CASE job'[k] = job[k]
  BY <1>1, <1>2, SlotStreamKept
<1>3. CASE Claim(s) /\ job[k] = None
  <2>1. ASSUME srvOpen'[k] PROVE held'[k] = None /\ Len(toServer'[k]) = 0
    <3>1. /\ held[k] # None => held[k].id = None
          /\ \A i \in 1..Len(toServer[k]) : toServer[k][i].id = None
      BY <1>1, <1>3, <2>1 DEF SlotStream, OfSlot
    <3>2. Len(toServer[k]) \in Nat /\ 1 \notin 1..Len(toServer[k])
      BY <3>1, StreamTyped
    <3>3. Len(toServer[k]) = 0
      BY <3>2
    <3> QED BY <1>1, <3>1, <3>3, StreamTyped
  <2> QED BY <2>1, SlotStreamEmpty
<1>4. CASE TakesExit(s) /\ k = ses[s].peer
  BY <1>1, <1>4, ExitEmpties, SlotStreamEmpty
<1>5. CASE Clear(s) /\ job[k] = s
  <2>1. ~srvOpen[k]
    BY <1>5 DEF JobInv, JobOf, ClearClosed, Clear
  <2> QED BY <1>1, <2>1, SlotStreamEmpty
<1>6. \/ job'[k] = job[k]
      \/ Claim(s) /\ job[k] = None
      \/ TakesExit(s) /\ k = ses[s].peer
      \/ Clear(s) /\ job[k] = s
  <2>1. CASE UNCHANGED job
    BY <2>1
  <2>2. CASE Claim(s) \/ TakesExit(s) \/ Clear(s)
    BY <2>2, TypeInvFacts DEF Claim, TakesExit, Clear
  <2> QED BY <2>1, <2>2, SessionFrame
<1> QED BY <1>2, <1>3, <1>4, <1>5, <1>6

\* A live task writes to the connection of its session's slot, if the server reads there.
LEMMA LiveInSlot ==
    ASSUME LifeInv, NEW s \in Sessions, task[s].pc \in LiveStages
    PROVE  /\ task[s].conn \in Conns
           /\ srvOpen[task[s].conn] => job[task[s].conn] = s
           /\ ses[s].pc \notin Unsent
<1> USE ConstantsAssumption DEF LifeInv
<1>1. agent.job = s /\ agent.conn = task[s].conn /\ agent.pc # "offline"
  BY DEF TaskOfAgent
<1>2. agent.conn \in Conns
  BY <1>1, TypeInvFacts DEF AgentConnected
<1>3. srvOpen[agent.conn] => job[agent.conn] = s
  BY <1>1, <1>2 DEF AloneInv, SlotCovers
<1>4. ses[s].pc \notin Unsent
  BY DEF OnceInv, UnsentNone, LiveStages
<1> QED BY <1>1, <1>2, <1>3, <1>4

\* What a task sends to a connection.
LEMMA SendsFlow ==
    ASSUME TypeInv, NEW s \in Sessions, NEW m, Sends(s, m), NEW k \in Conns
    PROVE  toServer'[k] = IF k = task[s].conn /\ srvOpen[k] THEN Append(toServer[k], m)
                          ELSE toServer[k]
BY TypeInvFacts DEF Sends, SendToServer

LEMMA SlotStreamTask ==
    ASSUME LifeInv, SlotStream, Next,
           NEW s \in Sessions, TaskStep(s) \/ Command(s) \/ TaskTimesOut(s), NEW k \in Conns
    PROVE  SlotStreamAt(k)'
<1> USE DEF LifeInv
<1>1. UNCHANGED <<job, held, srvOpen, ses>>
  BY TaskFrame DEF hubVars
<1>2. CASE toServer'[k] = toServer[k]
  BY <1>1, <1>2, SlotStreamKept
<1>3. ASSUME NEW m, m.id = s, task[s].pc \in LiveStages, Sends(s, m), toServer'[k] # toServer[k]
      PROVE  SlotStreamAt(k)'
  <2>1. /\ k = task[s].conn /\ srvOpen[k] /\ toServer'[k] = Append(toServer[k], m)
        /\ job[k] = s /\ ses[s].pc \notin Unsent
    BY <1>3, SendsFlow, LiveInSlot
  <2>2. /\ held[k] # None => OfSlot(k, held[k])
        /\ \A i \in 1..Len(toServer[k]) : OfSlot(k, toServer[k][i])
    BY <2>1 DEF SlotStream
  <2>3. OfSlot(k, m)
    BY <1>3, <2>1 DEF OfSlot
  <2>4. toServer[k] \in Seq(ToServerMsg)
    BY StreamTyped
  <2> PICK q \in Seq(ToServerMsg) : q = toServer[k]
    BY <2>4
  <2> PICK r : r = Append(q, m)
    OBVIOUS
  <2>5. /\ Len(r) = Len(q) + 1 /\ Len(q) \in Nat
        /\ \A i \in 1..Len(q) : r[i] = q[i]
        /\ r[Len(q) + 1] = m
    BY AppendAt
  <2>6. \A i \in 1..Len(r) : i \in 1..Len(q) \/ i = Len(q) + 1
    BY <2>5
  <2>7. \A i \in 1..Len(r) : OfSlot(k, r[i])
    BY <2>2, <2>3, <2>5, <2>6
  <2>8. \A i \in 1..Len(toServer'[k]) : OfSlot(k, toServer[k][i])'
    BY <1>1, <2>1, <2>7 DEF OfSlot
  <2>9. held'[k] # None => OfSlot(k, held[k])'
    BY <1>1, <2>2 DEF OfSlot
  <2> QED BY <2>8, <2>9 DEF SlotStreamAt
<1>4. OutputMsg(s).id = s /\ \A c \in Codes : ExitMsg(s, c).id = s
  BY DEF OutputMsg, ExitMsg
<1> QED BY <1>2, <1>3, <1>4, CountsTask DEF WritesChunk, ReportsExit

LEMMA SlotStreamHandler ==
    ASSUME TypeInv, SlotStream, Next, NEW l \in Conns, HandlerStep(l), NEW k \in Conns
    PROVE  SlotStreamAt(k)'
<1> USE TypeInvFacts
<1>1. UNCHANGED job /\ (srvOpen'[k] => srvOpen[k])
  BY DEF HandlerStep, Register, HandlerReads, HandlerReadFails, HandlerDelivers,
         HandlerGivesUp, HandlerReturns, Unregister, wireVars
<1>2. CASE k = l /\ HandlerReads(k) /\ Head(toServer[k]).id = job[k]
  <2>1. /\ srvOpen[k] /\ toServer[k] # <<>> /\ UNCHANGED <<ses, job>>
        /\ held'[k] = Head(toServer[k]) /\ toServer'[k] = Tail(toServer[k])
    BY <1>2 DEF HandlerReads
  <2>2. \A i \in 1..Len(toServer[k]) : OfSlot(k, toServer[k][i])
    BY <2>1 DEF SlotStream
  <2>3. toServer[k] \in Seq(ToServerMsg)
    OBVIOUS
  <2> PICK q \in Seq(ToServerMsg) : q = toServer[k]
    BY <2>3
  <2>4. /\ Len(q) \in Nat /\ Len(q) >= 1 /\ Head(q) = q[1]
        /\ Len(Tail(q)) = Len(q) - 1
        /\ \A i \in 1..(Len(q) - 1) : Tail(q)[i] = q[i + 1]
    BY <2>1
  <2>5. OfSlot(k, Head(q)) /\ \A i \in 1..Len(Tail(q)) : OfSlot(k, Tail(q)[i])
    BY <2>2, <2>4
  <2> QED BY <2>1, <2>5 DEF SlotStreamAt, OfSlot
<1>3. CASE ~(k = l /\ HandlerReads(k) /\ Head(toServer[k]).id = job[k])
  <2>1. srvOpen'[k] => held'[k] \in {None, held[k]} /\ toServer'[k] = toServer[k]
    BY <1>3 DEF HandlerStep, Register, HandlerReads, HandlerReadFails, HandlerDelivers,
         HandlerGivesUp, HandlerReturns, Unregister, wireVars
  <2> QED BY <1>1, <2>1, SlotStreamKept
<1> QED BY <1>2, <1>3

LEMMA SlotStreamStep ==
    ASSUME LifeInv, SlotStream, Streams, Next
    PROVE  SlotStream'
<1> SUFFICES ASSUME NEW k \in Conns PROVE SlotStreamAt(k)'
  BY DEF SlotStream, SlotStreamAt
<1> USE DEF LifeInv
<1>1. ASSUME UNCHANGED <<job, held, toServer>>, srvOpen'[k] => srvOpen[k] PROVE SlotStreamAt(k)'
  BY <1>1, SlotStreamKept
<1>2. ASSUME NEW l \in Conns, Dial(l) PROVE SlotStreamAt(k)'
  <2>1. CASE k = l
    <3>1. held'[k] = None /\ toServer'[k] = <<>>
      BY <1>2, <2>1, TypeInvFacts DEF Dial
    <3> QED BY <3>1, SlotStreamEmpty
  <2>2. CASE k # l
    BY <1>2, <2>2, SlotStreamKept DEF Dial
  <2> QED BY <2>1, <2>2
<1>3. ASSUME NEW l \in Conns, HeartbeatFails(l) PROVE SlotStreamAt(k)'
  BY <1>1, <1>3, TypeInvFacts DEF HeartbeatFails, hubVars
<1>4. Disconnect => SlotStreamAt(k)'
  BY <1>1, TypeInvFacts DEF Disconnect
<1>5. AgentStep \/ ConnectionCut \/ AgentRestart => SlotStreamAt(k)'
  BY <1>1, AgentFrame DEF hubVars
<1> QED BY <1>2, <1>3, <1>4, <1>5, SlotStreamSession, SlotStreamTask, SlotStreamHandler
        DEF Next, Faults

-----------------------------------------------------------------------------
(* Where the messages of a session come from *)

LEMMA SessionCountsKept ==
    ASSUME NEW s \in Sessions, ses'[s] = ses[s]
    PROVE  SessionCounts(s)
BY DEF SessionCounts, WaitFlow, FreshFlow, EndFlow, Waiting, Taken

\* The events of a session change by its own steps or by a delivery.
LEMMA SessionCountsStep ==
    ASSUME TypeInv, CompletedLate, Next, NEW s \in Sessions
    PROVE  SessionCounts(s) \/ \E k \in Conns : HandlerDelivers(k) /\ held[k].id = s
<1>1. ASSUME NEW t \in Sessions, SessionStep(t) \/ SshClient(t) \/ Watchdog(t)
      PROVE  SessionCounts(s)
  BY <1>1, SessionFlow, CountsSession, SessionCountsKept
<1>2. ASSUME NEW k \in Conns, HandlerDelivers(k), held[k].id # s PROVE SessionCounts(s)
  BY <1>2, TypeInvFacts, SessionCountsKept DEF HandlerDelivers
<1>3. ASSUME NEW k \in Conns, HandlerStep(k), ~HandlerDelivers(k) PROVE SessionCounts(s)
  BY <1>3, SessionCountsKept
     DEF HandlerStep, Register, HandlerReads, HandlerReadFails, HandlerGivesUp, Unregister
<1>4. ASSUME NEW k \in Conns, Dial(k) \/ HeartbeatFails(k) PROVE SessionCounts(s)
  BY <1>4, SessionCountsKept DEF Dial, HeartbeatFails
<1>5. Disconnect => SessionCounts(s)
  BY SessionCountsKept DEF Disconnect
<1> QED BY <1>1, <1>2, <1>3, <1>4, <1>5, AgentFrame, TaskFrame, SessionCountsKept DEF Next, Faults

\* What a delivery changes.
LEMMA DeliveryFlow ==
    ASSUME TypeInv, NEW k \in Conns, HandlerDelivers(k)
    PROVE  LET s == held[k].id IN
           /\ s \in Sessions /\ held[k] \in ToServerMsg /\ held[k] # None /\ held'[k] = None
           /\ ses'[s].events = Append(ses[s].events, held[k])
           /\ ses'[s].pc = ses[s].pc /\ ses'[s].peer = ses[s].peer
           /\ ses'[s].forwarded = ses[s].forwarded /\ ses'[s].completed = ses[s].completed
           /\ \A t \in Sessions : t # s => ses'[t] = ses[t]
           /\ \A l \in Conns : l # k => held'[l] = held[l]
           /\ UNCHANGED <<srvOpen, toServer, task>>
<1> DEFINE s == held[k].id
<1>1. held[k] # None /\ held[k] \in ToServerMsg /\ s \in Sessions
  BY StreamTyped DEF HandlerDelivers
<1>2. ses[s] \in SessionState
  BY <1>1, TypeInvFacts
<1>3. ses' = [ses EXCEPT ![s] = [ses[s] EXCEPT !.events = Append(ses[s].events, held[k])]]
  BY DEF HandlerDelivers
<1> HIDE DEF s
<1>4. /\ ses'[s].events = Append(ses[s].events, held[k])
      /\ ses'[s].pc = ses[s].pc /\ ses'[s].peer = ses[s].peer
      /\ ses'[s].forwarded = ses[s].forwarded /\ ses'[s].completed = ses[s].completed
      /\ \A t \in Sessions : t # s => ses'[t] = ses[t]
  BY <1>1, <1>2, <1>3, TypeInvFacts DEF SessionState
<1>5. /\ held'[k] = None /\ \A l \in Conns : l # k => held'[l] = held[l]
      /\ UNCHANGED <<srvOpen, toServer, task>>
  BY TypeInvFacts DEF HandlerDelivers, wireVars
<1> QED BY <1>1, <1>4, <1>5 DEF s

\* A session that waits has waited before, on the same connection, or sends its command now.
LEMMA WaitStep ==
    ASSUME TypeInv, CompletedLate, Next, NEW s \in Sessions, ses'[s].pc \in {"loop", "write"}
    PROVE  Dispatch(s) \/ (Waiting(s) /\ ses'[s].peer = ses[s].peer)
<1>1. ASSUME NEW k \in Conns, HandlerDelivers(k), held[k].id = s
      PROVE  Waiting(s) /\ ses'[s].peer = ses[s].peer
  BY <1>1, DeliveryFlow DEF Waiting
<1> QED BY <1>1, SessionCountsStep DEF SessionCounts, WaitFlow

LEMMA HeldHomeStep ==
    ASSUME LifeInv, SlotStream, HeldHome, Next
    PROVE  HeldHome'
<1> USE DEF LifeInv, JobInv
<1> SUFFICES ASSUME NEW k \in Conns, held'[k] # None
             PROVE  /\ ses'[held'[k].id].pc \notin Unsent
                    /\ ses'[held'[k].id].pc \in {"loop", "write"} => ses'[held'[k].id].peer = k
  BY DEF HeldHome, Waiting
<1>1. \E s \in Sessions : /\ s = held'[k].id /\ ses[s].pc \notin Unsent
                          /\ Waiting(s) => ses[s].peer = k
  <2>1. CASE held'[k] = held[k]
    BY <2>1, StreamTyped DEF HeldHome
  <2>2. CASE held'[k] # held[k]
    <3>1. /\ srvOpen[k] /\ toServer[k] # <<>> /\ Head(toServer[k]).id = job[k]
          /\ held'[k] = Head(toServer[k])
      <4>1. ASSUME NEW l \in Conns, HandlerStep(l)
            PROVE  k = l /\ HandlerReads(k) /\ held'[k] = Head(toServer[k])
        BY <2>2, <4>1, TypeInvFacts DEF HandlerStep, Register, HandlerReads, HandlerReadFails,
           HandlerReturns, HandlerDelivers, HandlerGivesUp, Unregister
      <4>2. ASSUME NEW l \in Conns, Dial(l) PROVE FALSE
        BY <2>2, <4>2, TypeInvFacts DEF Dial
      <4>3. ASSUME NEW l \in Conns, HeartbeatFails(l) PROVE FALSE
        BY <2>2, <4>3 DEF HeartbeatFails, hubVars
      <4>4. ~Disconnect
        BY <2>2 DEF Disconnect
      <4>5. \E l \in Conns : HandlerStep(l)
        BY <2>2, <4>2, <4>3, <4>4, AgentFrame, TaskFrame, SessionFrame DEF Next, Faults, hubVars
      <4>6. HandlerReads(k) /\ held'[k] = Head(toServer[k])
        BY <4>1, <4>5
      <4> QED BY <2>2, <4>6, TypeInvFacts DEF HandlerReads, HandlerReturns
    <3>2. 1 \in 1..Len(toServer[k]) /\ toServer[k][1] = Head(toServer[k])
      BY <3>1, StreamTyped
    <3>3. OfSlot(k, Head(toServer[k])) /\ Head(toServer[k]).id \in Sessions
      BY <3>1, <3>2, StreamTyped DEF SlotStream
    <3>4. ses[job[k]].peer = k
      BY <3>1, <3>3 DEF JobOf
    <3> QED BY <3>1, <3>3, <3>4 DEF OfSlot
  <2> QED BY <2>1, <2>2
<1> PICK s \in Sessions : s = held'[k].id /\ ses[s].pc \notin Unsent /\ (Waiting(s) => ses[s].peer = k)
  BY <1>1
<1>2. ses'[s].pc \notin Unsent
  BY UnsentFlow
<1>3. ses'[s].pc \in {"loop", "write"} => ses'[s].peer = k
  BY WaitStep DEF Dispatch, Unsent
<1> QED BY <1>2, <1>3

LEMMA TaskHomeStep ==
    ASSUME LifeInv, LifeInv', TaskHome, Next
    PROVE  TaskHome'
<1> USE DEF LifeInv, JobInv
<1> SUFFICES ASSUME NEW s \in Sessions, ses'[s].pc \in {"loop", "write"}
             PROVE  /\ task'[s].pc \in LiveStages => task'[s].conn = ses'[s].peer
                    /\ \A k \in Conns : \A i \in 1..Len(toAgent'[k]) :
                           toAgent'[k][i].type = "exec" /\ toAgent'[k][i].id = s => k = ses'[s].peer
  BY DEF TaskHome, Waiting, Queue, IsExec
<1>1. CASE Dispatch(s)
  <2>1. /\ ses[s].pc = "send" /\ ses'[s].peer = ses[s].peer /\ UNCHANGED task
        /\ toAgent' = SendToAgent(ses[s].peer, ExecMsg(s))
    BY <1>1, TypeInvFacts DEF Dispatch, SessionState
  <2>2. task'[s].pc = "none"
    BY <2>1 DEF OnceInv, UnsentNone, Unsent
  <2>3. ASSUME NEW k \in Conns, k # ses[s].peer, NEW i \in 1..Len(toAgent'[k]),
               toAgent'[k][i].type = "exec", toAgent'[k][i].id = s
        PROVE  FALSE
    <3>1. toAgent'[k] = toAgent[k]
      BY <2>1, <2>3, TypeInvFacts DEF SendToAgent
    <3>2. ses[s].pc \notin Unsent
      BY <2>3, <3>1 DEF OnceInv, ExecPending, Queue, IsExec
    <3> QED BY <2>1, <3>2 DEF Unsent
  <2> QED BY <2>1, <2>2, <2>3 DEF LiveStages
<1>2. CASE ~ExecLeaves(s)
  <2>1. Waiting(s) /\ ses'[s].peer = ses[s].peer
    BY <1>2, WaitStep DEF ExecLeaves
  <2>2. ASSUME NEW k \in Conns, NEW i \in 1..Len(toAgent'[k]),
               toAgent'[k][i].type = "exec", toAgent'[k][i].id = s
        PROVE  k = ses[s].peer
    <3>1. \E j \in Queue(k) : toAgent[k][j] = toAgent'[k][i]
      <4>1. CASE \A t \in Sessions : ~ExecLeaves(t)
        <5>1. PICK d \in {0, 1} : Left(k, d)
          BY <4>1, QueueFlow
        <5> QED BY <2>2, <5>1 DEF Left
      <4>2. ASSUME NEW t \in Sessions, ExecLeaves(t)
            PROVE  \E j \in Queue(k) : toAgent[k][j] = toAgent'[k][i]
        <5>1. t # s
          BY <1>2, <4>2
        <5>2. toAgent'[k] = toAgent[k] \/ toAgent'[k] = Append(toAgent[k], ExecMsg(t))
          BY <4>2, TypeInvFacts DEF ExecLeaves, Dispatch, DispatchInDoubt, SendToAgent
        <5>3. CASE toAgent'[k] = toAgent[k]
          BY <2>2, <5>3 DEF Queue
        <5>4. CASE toAgent'[k] = Append(toAgent[k], ExecMsg(t))
          <6>1. ExecMsg(t).id # s
            BY <5>1 DEF ExecMsg
          <6>2. toAgent[k] \in Seq(ToAgentMsg)
            BY TypeInvFacts
          <6> PICK q \in Seq(ToAgentMsg) : q = toAgent[k]
            BY <6>2
          <6> PICK r : r = Append(q, ExecMsg(t))
            OBVIOUS
          <6>3. /\ Len(r) = Len(q) + 1 /\ Len(q) \in Nat
                /\ \A j \in 1..Len(q) : r[j] = q[j]
                /\ r[Len(q) + 1] = ExecMsg(t)
            BY AppendAt
          <6>4. r = toAgent'[k] /\ i \in 1..Len(r) /\ r[i].id = s
            BY <2>2, <5>4
          <6>5. i \in 1..Len(q)
            BY <6>1, <6>3, <6>4
          <6> QED BY <6>3, <6>4, <6>5 DEF Queue
        <5> QED BY <5>2, <5>3, <5>4
      <4> QED BY <4>1, <4>2
    <3> QED BY <2>1, <2>2, <3>1 DEF TaskHome, IsExec
  <2>3. ASSUME task'[s].pc \in LiveStages PROVE task'[s].conn = ses[s].peer
    <3>1. agent'.job = s /\ agent'.conn = task'[s].conn
      BY <2>3 DEF TaskOfAgent
    <3>2. CASE AgentExec /\ agent.job = None
      <4>1. /\ agent.conn \in Conns /\ 1 \in Queue(agent.conn) /\ IsExec(agent.conn, 1)
            /\ Head(toAgent[agent.conn]) = toAgent[agent.conn][1]
        BY <3>2, HeadRead DEF AgentExec, IsExec
      <4>2. agent'.job = Head(toAgent[agent.conn]).id /\ agent'.conn = agent.conn
        BY <3>2, TypeInvFacts DEF AgentExec, AgentState
      <4> QED BY <2>1, <3>1, <4>1, <4>2 DEF TaskHome
    <3>3. CASE SameJob
      <4>1. agent.job = s /\ agent'.conn = agent.conn
        BY <3>1, <3>3, ConstantsAssumption DEF SameJob
      <4>2. task[s].pc \in LiveStages
        BY <4>1, ConstantsAssumption DEF AloneInv, JobLive
      <4> QED BY <2>1, <3>1, <4>1, <4>2 DEF TaskHome, TaskOfAgent
    <3>4. ASSUME NEW k \in Conns, Dial(k) PROVE FALSE
      BY <3>1, <3>4, ConstantsAssumption DEF Dial
    <3> QED BY <3>2, <3>3, <3>4, AgentFlow
  <2> QED BY <2>1, <2>2, <2>3
<1>3. ASSUME DispatchInDoubt(s) PROVE FALSE
  <2>1. ses[s] \in SessionState /\ ses \in [Sessions -> SessionState]
    BY TypeInvFacts
  <2>2. ses'[s].pc = "report"
    BY <1>3, <2>1 DEF DispatchInDoubt, SessionState
  <2> QED BY <2>2
<1> QED BY <1>1, <1>2, <1>3 DEF ExecLeaves

\* What a step makes of the task of a session.
TaskCounts(s) == Quiet(s) \/ GoesLost(s) \/ WritesChunk(s) \/ ReportsExit(s)

LEMMA TaskCountsStep ==
    ASSUME TypeInv, OnceInv, Next, NEW s \in Sessions
    PROVE  TaskCounts(s)
<1>1. ASSUME task'[s] = task[s] PROVE TaskCounts(s)
  BY <1>1 DEF TaskCounts, Quiet
<1>2. ASSUME NEW t \in Sessions, TaskStep(t) \/ Command(t) \/ TaskTimesOut(t) PROVE TaskCounts(s)
  BY <1>1, <1>2, CountsTask DEF TaskCounts
<1>3. AgentStep \/ ConnectionCut \/ AgentRestart => TaskCounts(s)
  BY CountsAgent DEF TaskCounts
<1>4. ASSUME NEW t \in Sessions, SessionStep(t) \/ SshClient(t) \/ Watchdog(t) PROVE TaskCounts(s)
  BY <1>1, <1>4, SessionFrame
<1>5. ASSUME NEW k \in Conns, HandlerStep(k) \/ HeartbeatFails(k) \/ Dial(k) PROVE TaskCounts(s)
  <2>1. UNCHANGED task
    BY <1>5 DEF HandlerStep, Register, HandlerReads, HandlerReadFails, HandlerDelivers,
                HandlerGivesUp, Unregister, HeartbeatFails, Dial
  <2> QED BY <1>1, <2>1
<1>6. Disconnect => TaskCounts(s)
  BY <1>1 DEF Disconnect
<1> QED BY <1>2, <1>3, <1>4, <1>5, <1>6 DEF Next, Faults

LEMMA FreshStep ==
    ASSUME LifeInv, HeldHome, Fresh, Next
    PROVE  Fresh'
<1> USE DEF LifeInv, JobInv
<1>1. ASSUME NEW s \in Sessions, ses'[s].pc \in Unsent
      PROVE  ses'[s].events = <<>> /\ ses'[s].forwarded = 0
  <2>1. ses[s].pc \in Unsent
    BY <1>1, UnsentFlow
  <2>2. ASSUME NEW k \in Conns, HandlerDelivers(k), held[k].id = s PROVE FALSE
    BY <2>1, <2>2 DEF HeldHome, HandlerDelivers
  <2> QED BY <1>1, <2>1, <2>2, SessionCountsStep DEF SessionCounts, FreshFlow, Fresh
<1>2. ASSUME NEW s \in Sessions, task'[s].pc = "none" PROVE task'[s].sent = 0
  BY <1>2, TaskCountsStep DEF TaskCounts, Quiet, GoesLost, WritesChunk, ReportsExit, LiveStages, Fresh
<1> QED BY <1>1, <1>2 DEF Fresh

LEMMA DeliveredStep ==
    ASSUME LifeInv, Streams, Delivered, Next
    PROVE  Delivered'
<1> USE DEF LifeInv, JobInv
<1> SUFFICES ASSUME NEW s \in Sessions, ses'[s].pc = "exit", ses'[s].completed
             PROVE  ses'[s].forwarded = task'[s].sent
  BY DEF Delivered
<1>1. CASE TakesExit(s)
  <2>1. UNCHANGED task
    BY <1>1 DEF TakesExit
  <2>2. SessionCounts(s)
    BY <1>1, CountsSession DEF SessionStep
  <2> QED BY <1>1, <2>1, <2>2, ExitEmpties DEF SessionCounts, EndFlow
<1>2. CASE /\ ses[s].pc = "exit" /\ ses[s].completed
           /\ ses'[s].forwarded = ses[s].forwarded
  <2>1. task[s].pc = "over" /\ ses[s].forwarded = task[s].sent
    BY <1>2 DEF Reports, Delivered
  <2> QED BY <1>2, <2>1, TaskCountsStep
          DEF TaskCounts, Quiet, GoesLost, WritesChunk, ReportsExit, LiveStages
<1>3. ASSUME NEW k \in Conns, HandlerDelivers(k), held[k].id = s
      PROVE  /\ ses[s].pc = "exit" /\ ses[s].completed
             /\ ses'[s].forwarded = ses[s].forwarded
  BY <1>3, DeliveryFlow
<1> QED BY <1>1, <1>2, <1>3, SessionCountsStep DEF SessionCounts, EndFlow

-----------------------------------------------------------------------------
(* The counts themselves *)

\* No exit of a running command is anywhere.
LEMMA NoExitNow ==
    ASSUME LifeInv, SlotStream, NEW s \in Sessions, Waiting(s), task[s].pc # "over"
    PROVE  LET k == ses[s].peer IN
           /\ \A t, n : ExitAfter(ses[s].events, t, n)
           /\ held[k] # None /\ held[k].id = s => held[k].type # "exit"
           /\ srvOpen[k] => \A t, n : ExitAfter(toServer[k], t, n)
<1> USE DEF LifeInv
<1> DEFINE k == ses[s].peer
<1>1. k \in Conns /\ job[k] = s
  BY DEF SlotInv, PeerHeld, SlotOwned, Waiting
<1>2. \A t, n : ExitAfter(ses[s].events, t, n)
  BY NoExitYet DEF Reports
<1>3. held[k] # None /\ held[k].id = s => held[k].type # "exit"
  BY <1>1 DEF Reports, Reported
<1>4. ASSUME srvOpen[k] PROVE \A t, n : ExitAfter(toServer[k], t, n)
  <2>1. AllReported(toServer[k]) /\ \A i \in 1..Len(toServer[k]) : toServer[k][i].id = s
    BY <1>1, <1>4 DEF Reports, SlotStream, OfSlot
  <2> QED BY <2>1, NoExitYet
<1> QED BY <1>2, <1>3, <1>4

\* The session takes nothing, or the chunk at the head of its channel, and nothing else moves.
LEMMA StreamTakes ==
    ASSUME TypeInv, NEW s \in Sessions, Waiting(s), Whole(s), ExitLast(s),
           ses[s].peer \in Conns, ses'[s].peer = ses[s].peer,
           \/ Taken(s)' = Taken(s) /\ ses'[s].events = ses[s].events
           \/ /\ Taken(s)' = Taken(s) + 1
              /\ ses[s].events # <<>> /\ ses'[s].events = Tail(ses[s].events),
           LET k == ses[s].peer IN
           /\ srvOpen'[k] => srvOpen[k] /\ held'[k] = held[k] /\ toServer'[k] = toServer[k]
           /\ held'[k] \in {None, held[k]},
           UNCHANGED task
    PROVE  Whole(s)' /\ ExitLast(s)'
<1> DEFINE k == ses[s].peer
           e == ses[s].events
           f == ses'[s].events
           n == task[s].sent
<1>1. /\ e \in Seq(ToServerMsg) /\ Taken(s) \in Nat /\ n \in Nat /\ Len(e) \in Nat
  BY CountsTyped
<1>2. ExitAfter(e, Taken(s), n)
  BY DEF ExitLast
<1> PICK t \in Nat : t = Taken(s)
  BY <1>1
<1> PICK u : u = Taken(s)'
  OBVIOUS
<1>3. /\ u + Len(f) = t + Len(e) /\ ExitAfter(f, u, n)
  <2>1. CASE u = t /\ f = e
    BY <1>2, <2>1
  <2>2. CASE u = t + 1 /\ e # <<>> /\ f = Tail(e)
    <3> HIDE DEF e, f, n
    <3>1. /\ Len(Tail(e)) = Len(e) - 1 /\ ExitAfter(Tail(e), t + 1, n)
      BY <1>1, <1>2, <2>2, ExitAfterTail
    <3> QED BY <1>1, <2>2, <3>1
  <2> QED BY <2>1, <2>2
<1>4. Arrived(s)' = Arrived(s)
  BY <1>3 DEF Arrived
<1>5. Whole(s)'
  BY <1>4 DEF Whole, Lost, Holding, Reporting
<1>6. ExitLast(s)'
  <2>1. ExitAfter(ses[s].events, Taken(s), task[s].sent)'
    BY <1>3 DEF ExitAfter
  <2>2. held'[k] # None /\ held'[k].id = s /\ held'[k].type = "exit" => Arrived(s)' = task'[s].sent
    BY <1>4 DEF ExitLast
  <2>3. srvOpen'[k] => ExitAfter(toServer[k], Arrived(s) + Holding(k), task[s].sent)'
    BY <1>4 DEF ExitLast, Holding, ExitAfter
  <2> QED BY <2>1, <2>2, <2>3 DEF ExitLast
<1> QED BY <1>5, <1>6

\* Neither the session nor its connection moves; the task may end without an exit.
LEMMA StreamKept ==
    ASSUME LifeInv, SlotStream, NEW s \in Sessions, Waiting(s), Whole(s), ExitLast(s),
           ses'[s] = ses[s], Quiet(s) \/ GoesLost(s),
           LET k == ses[s].peer IN
           /\ srvOpen'[k] => srvOpen[k] /\ held'[k] = held[k] /\ toServer'[k] = toServer[k]
           /\ held'[k] \in {None, held[k]}
    PROVE  Whole(s)' /\ ExitLast(s)'
<1> DEFINE k == ses[s].peer
<1>1. Taken(s)' = Taken(s) /\ Arrived(s)' = Arrived(s)
  BY DEF Taken, Arrived
<1>2. CASE Quiet(s)
  <2>1. Whole(s)'
    BY <1>1, <1>2 DEF Whole, Lost, Holding, Reporting, Quiet
  <2>2. ExitLast(s)'
    BY <1>1, <1>2 DEF ExitLast, Holding, Quiet, ExitAfter
  <2> QED BY <2>1, <2>2
<1>3. CASE GoesLost(s)
  <2>1. Whole(s)'
    BY <1>3 DEF Whole, Lost, GoesLost
  <2>2. /\ \A t, n : ExitAfter(ses[s].events, t, n)
        /\ held[k] # None /\ held[k].id = s => held[k].type # "exit"
        /\ srvOpen[k] => \A t, n : ExitAfter(toServer[k], t, n)
    BY <1>3, NoExitNow DEF GoesLost, LiveStages
  <2>3. ExitLast(s)'
    BY <2>2 DEF ExitLast, ExitAfter
  <2> QED BY <2>1, <2>3
<1> QED BY <1>2, <1>3

\* The handler takes the next message of an open connection.
LEMMA StreamReads ==
    ASSUME LifeInv, NEW s \in Sessions, Waiting(s), Whole(s), ExitLast(s),
           HandlerReads(ses[s].peer), Head(toServer[ses[s].peer]).id = s
    PROVE  Whole(s)' /\ ExitLast(s)'
<1> USE DEF LifeInv
<1> DEFINE k == ses[s].peer
<1>0. k \in Conns /\ job[k] = s
  BY DEF SlotInv, PeerHeld, SlotOwned, Waiting
<1>1. /\ held[k] = None /\ srvOpen[k] /\ toServer[k] # <<>>
      /\ held'[k] = Head(toServer[k]) /\ toServer'[k] = Tail(toServer[k])
      /\ UNCHANGED <<ses, task, srvOpen>>
  BY <1>0, TypeInvFacts DEF HandlerReads
<1>2. Arrived(s)' = Arrived(s) /\ Taken(s)' = Taken(s)
  BY <1>1 DEF Arrived, Taken
<1>3. toServer[k] \in Seq(ToServerMsg) /\ Arrived(s) \in Nat /\ task[s].sent \in Nat
  BY <1>0, CountsTyped, StreamTyped
<1> PICK q \in Seq(ToServerMsg) : q = toServer[k]
  BY <1>3
<1> PICK a \in Nat : a = Arrived(s)
  BY <1>3
<1> PICK n \in Nat : n = task[s].sent
  BY <1>3
<1>4. Holding(k) = 0 /\ Holding(k)' = 1
  <2>1. Head(q) \in ToServerMsg
    BY <1>1
  <2> QED BY <1>1, <2>1, MessageAssumption DEF Holding
<1>5. Whole(s)'
  <2>1. Len(Tail(q)) = Len(q) - 1 /\ Len(q) \in Nat
    BY <1>1
  <2>2. ~Lost(s) => a + 0 + Len(q) = n + Reporting(s)
    BY <1>1, <1>4 DEF Whole
  <2>3. ~Lost(s) => a + 1 + Len(Tail(q)) = n + Reporting(s)
    BY <2>1, <2>2
  <2> QED BY <1>1, <1>2, <1>4, <2>3 DEF Whole, Lost, Reporting
<1>6. ExitLast(s)'
  <2>1. ExitAfter(q, a, n)
    BY <1>1, <1>3, <1>4 DEF ExitLast
  <2>2. ExitAfter(Tail(q), a + 1, n) /\ (Head(q).type = "exit" => a = n)
    BY <1>1, <2>1, ExitAfterTail
  <2>3. ExitAfter(ses[s].events, Taken(s), task[s].sent)'
    BY <1>1, <1>2 DEF ExitLast, ExitAfter
  <2>4. held'[k] # None /\ held'[k].id = s /\ held'[k].type = "exit" => Arrived(s)' = task'[s].sent
    BY <1>1, <1>2, <2>2
  <2>5. srvOpen'[k] => ExitAfter(toServer[k], Arrived(s) + Holding(k), task[s].sent)'
    BY <1>1, <1>2, <1>4, <2>2 DEF ExitAfter
  <2> QED BY <1>1, <2>3, <2>4, <2>5 DEF ExitLast
<1> QED BY <1>5, <1>6

\* The handler passes it on to the channel of the session.
LEMMA StreamDelivers ==
    ASSUME LifeInv, NEW s \in Sessions, Waiting(s), Whole(s), ExitLast(s),
           HandlerDelivers(ses[s].peer), held[ses[s].peer].id = s
    PROVE  Whole(s)' /\ ExitLast(s)'
<1> USE DEF LifeInv
<1> DEFINE k == ses[s].peer
           e == ses[s].events
           m == held[k]
           n == task[s].sent
<1>0. k \in Conns
  BY DEF SlotInv, PeerHeld, Waiting
<1>1. /\ m \in ToServerMsg /\ m # None /\ held'[k] = None
      /\ ses'[s].events = Append(e, m) /\ ses'[s].peer = k
      /\ Taken(s)' = Taken(s)
      /\ UNCHANGED <<srvOpen, toServer, task>>
  BY <1>0, DeliveryFlow DEF Taken
<1>2. /\ e \in Seq(ToServerMsg) /\ Len(e) \in Nat /\ Taken(s) \in Nat /\ n \in Nat
      /\ Len(toServer[k]) \in Nat
  BY <1>0, CountsTyped, StreamTyped
<1>3. ExitAfter(e, Taken(s), n) /\ (m.type = "exit" => Taken(s) + Len(e) = n)
  BY <1>1 DEF ExitLast, Arrived
<1> PICK t \in Nat : t = Taken(s)
  BY <1>2
<1>4. Len(Append(e, m)) = Len(e) + 1 /\ ExitAfter(Append(e, m), t, n)
  <2> HIDE DEF e, m, n
  <2> QED BY <1>1, <1>2, <1>3, ExitAfterAppend
<1>5. Holding(k) = 1 /\ Holding(k)' = 0
  BY <1>1 DEF Holding
<1>6. Arrived(s)' = Arrived(s) + 1 /\ Arrived(s) \in Nat
  <2>1. Arrived(s)' = Taken(s) + Len(Append(e, m)) /\ Arrived(s) = Taken(s) + Len(e)
    BY <1>1 DEF Arrived
  <2> HIDE DEF e, m
  <2> QED BY <1>2, <1>4, <2>1
<1>7. Arrived(s)' + Holding(k)' = Arrived(s) + Holding(k)
  BY <1>5, <1>6
<1>8. Whole(s)'
  BY <1>1, <1>7 DEF Whole, Lost, Reporting
<1>9. ExitLast(s)'
  <2>1. ExitAfter(ses[s].events, Taken(s), task[s].sent)'
    BY <1>1, <1>4 DEF ExitAfter
  <2>2. srvOpen'[k] => ExitAfter(toServer[k], Arrived(s) + Holding(k), task[s].sent)'
    BY <1>1, <1>7 DEF ExitLast, ExitAfter
  <2> QED BY <1>1, <2>1, <2>2 DEF ExitLast
<1> QED BY <1>8, <1>9

\* The task writes a chunk, or its exit message after the last one.
LEMMA StreamSends ==
    ASSUME LifeInv, SlotStream, NEW s \in Sessions, Waiting(s), Whole(s), ExitLast(s),
           task[s].conn = ses[s].peer,
           UNCHANGED <<ses, held, srvOpen>>, WritesChunk(s) \/ ReportsExit(s)
    PROVE  Whole(s)' /\ ExitLast(s)'
<1> USE DEF LifeInv
<1> DEFINE k == ses[s].peer
           q == toServer[k]
           r == toServer'[k]
           n == task[s].sent
<1>0. k \in Conns
  BY DEF SlotInv, PeerHeld, Waiting
<1>1. task[s].pc \in LiveStages /\ ~Lost(s) /\ Reporting(s) = 0
  BY DEF WritesChunk, ReportsExit, Lost, Reporting, LiveStages
<1>2. /\ \A t, j : ExitAfter(ses[s].events, t, j)
      /\ held[k] # None /\ held[k].id = s => held[k].type # "exit"
      /\ srvOpen[k] => \A t, j : ExitAfter(q, t, j)
  BY <1>1, NoExitNow DEF LiveStages
<1>3. Taken(s)' = Taken(s) /\ Arrived(s)' = Arrived(s) /\ Holding(k)' = Holding(k)
  BY DEF Taken, Arrived, Holding
<1>4. q \in Seq(ToServerMsg) /\ Len(q) \in Nat /\ Arrived(s) \in Nat /\ n \in Nat /\ Holding(k) \in Nat
  BY <1>0, CountsTyped, StreamTyped DEF Holding
<1>5. srvOpen[k] => Arrived(s) + Holding(k) + Len(q) = n
  BY <1>1, <1>4 DEF Whole
<1> PICK b \in Nat : b = Arrived(s) + Holding(k)
  BY <1>4
<1>6. \E m \in ToServerMsg :
        /\ srvOpen[k] => r = Append(q, m)
        /\ \/ m.type = "output" /\ task'[s].sent = n + 1 /\ Reporting(s)' = 0
           \/ m.type = "exit" /\ task'[s].sent = n /\ Reporting(s)' = 1
  <2>1. CASE WritesChunk(s)
    <3>1. OutputMsg(s) \in ToServerMsg /\ OutputMsg(s).type = "output"
      BY CodesKnown DEF OutputMsg, ToServerMsg
    <3>2. task'[s].sent = n + 1 /\ Reporting(s)' = 0
      BY <2>1 DEF WritesChunk, Reporting, LiveStages
    <3>3. srvOpen[k] => r = Append(q, OutputMsg(s))
      BY <1>0, <2>1, SendsFlow DEF WritesChunk
    <3> QED BY <3>1, <3>2, <3>3
  <2>2. CASE ReportsExit(s)
    <3> PICK c \in Codes : Sends(s, ExitMsg(s, c))
      BY <2>2 DEF ReportsExit
    <3>1. ExitMsg(s, c) \in ToServerMsg /\ ExitMsg(s, c).type = "exit"
      BY DEF ExitMsg, ToServerMsg
    <3>2. task'[s].sent = n /\ Reporting(s)' = 1
      BY <2>2 DEF ReportsExit, Reporting
    <3>3. srvOpen[k] => r = Append(q, ExitMsg(s, c))
      BY <1>0, SendsFlow
    <3> QED BY <3>1, <3>2, <3>3
  <2> QED BY <2>1, <2>2
<1> PICK m \in ToServerMsg :
        /\ srvOpen[k] => r = Append(q, m)
        /\ \/ m.type = "output" /\ task'[s].sent = n + 1 /\ Reporting(s)' = 0
           \/ m.type = "exit" /\ task'[s].sent = n /\ Reporting(s)' = 1
  BY <1>6
<1>7. ASSUME srvOpen[k]
      PROVE  /\ Len(r) = Len(q) + 1
             /\ b + Len(r) = task'[s].sent + Reporting(s)'
             /\ ExitAfter(r, b, task'[s].sent)
  <2>0. n + 1 \in Nat
    BY <1>4
  <2>1. task'[s].sent \in Nat /\ b + Len(q) = n /\ r = Append(q, m)
    BY <1>4, <1>5, <1>7, <2>0
  <2>2. m.type = "exit" => b + Len(q) = task'[s].sent
    BY <2>1
  <2>3. ExitAfter(q, b, task'[s].sent)
    BY <1>2, <1>7
  <2> HIDE DEF q, r, n
  <2>4. Len(r) = Len(q) + 1 /\ ExitAfter(r, b, task'[s].sent)
    BY <1>4, <2>1, <2>2, <2>3, ExitAfterAppend
  <2> QED BY <1>4, <2>1, <2>4
<1>8. Whole(s)'
  BY <1>3, <1>7 DEF Whole
<1>9. ExitLast(s)'
  <2>1. ExitAfter(ses[s].events, Taken(s), task[s].sent)'
    BY <1>2 DEF ExitAfter
  <2>2. srvOpen'[k] => ExitAfter(toServer[k], Arrived(s) + Holding(k), task[s].sent)'
    BY <1>3, <1>7 DEF ExitAfter
  <2> QED BY <1>2, <2>1, <2>2 DEF ExitLast
<1> QED BY <1>8, <1>9

\* A session that sends its command starts with nothing.
LEMMA StreamDispatch ==
    ASSUME LifeInv, SlotStream, HeldHome, Fresh, NEW s \in Sessions, Dispatch(s)
    PROVE  Whole(s)' /\ ExitLast(s)'
<1> USE DEF LifeInv
<1> DEFINE k == ses[s].peer
<1>1. /\ ses[s].pc = "send" /\ ses'[s].pc = "loop" /\ ses'[s].peer = k
      /\ ses'[s].events = ses[s].events /\ ses'[s].forwarded = ses[s].forwarded
      /\ UNCHANGED <<task, held, toServer, srvOpen, job>>
  BY TypeInvFacts DEF Dispatch, SessionState, hubVars
<1>2. k \in Conns /\ job[k] = s
  BY <1>1 DEF SlotInv, PeerHeld, SlotOwned
<1>3. task[s].pc = "none" /\ task[s].sent = 0 /\ ses[s].events = <<>> /\ ses[s].forwarded = 0
  BY <1>1 DEF OnceInv, UnsentNone, Fresh, Unsent
<1>4. srvOpen[k] => held[k] = None /\ Len(toServer[k]) = 0
  <2> SUFFICES ASSUME srvOpen[k] PROVE held[k] = None /\ Len(toServer[k]) = 0
    OBVIOUS
  <2>1. ASSUME NEW m, OfSlot(k, m) PROVE FALSE
    BY <1>1, <1>2, <2>1 DEF OfSlot, Unsent
  <2>2. held[k] = None /\ 1 \notin 1..Len(toServer[k])
    BY <1>2, <2>1 DEF SlotStream
  <2>3. Len(toServer[k]) \in Nat
    BY <1>2, StreamTyped
  <2> QED BY <2>2, <2>3
<1>5. Taken(s)' = 0 /\ Arrived(s)' = 0
  <2>1. Taken(s)' = 0
    BY <1>1, <1>3 DEF Taken
  <2>2. Len(ses'[s].events) = 0
    BY <1>1, <1>3
  <2>3. Arrived(s)' = Taken(s)' + Len(ses'[s].events)
    BY DEF Arrived
  <2> QED BY <2>1, <2>2, <2>3
<1>6. Whole(s)'
  <2>1. Reporting(s)' = 0 /\ task'[s].sent = 0
    BY <1>1, <1>3 DEF Reporting
  <2>2. srvOpen'[k] => Holding(k)' = 0 /\ Len(toServer'[k]) = 0
    BY <1>1, <1>4 DEF Holding
  <2>3. srvOpen'[k] => Arrived(s)' + Holding(k)' + Len(toServer'[k]) = task'[s].sent + Reporting(s)'
    BY <1>5, <2>1, <2>2
  <2> QED BY <1>1, <2>3 DEF Whole
<1>7. ExitLast(s)'
  <2>1. held[k] # None => held[k].id # s
    BY <1>1, <1>2 DEF HeldHome, Unsent
  <2>2. Len(ses'[s].events) = 0
    BY <1>1, <1>3
  <2> QED BY <1>1, <1>4, <2>1, <2>2 DEF ExitLast, ExitAfter
<1> QED BY <1>6, <1>7

LEMMA StreamSession ==
    ASSUME LifeInv, SlotStream, HeldHome, Fresh, Streams, NEW s \in Sessions, NEW t \in Sessions,
           SessionStep(t) \/ SshClient(t) \/ Watchdog(t)
    PROVE  Stream(s)'
<1> USE DEF LifeInv, JobInv
<1> SUFFICES ASSUME ses'[s].pc \in {"loop", "write"} PROVE Whole(s)' /\ ExitLast(s)'
  BY DEF Stream, Waiting
<1>1. UNCHANGED <<held, toServer, task>> /\ \A k \in Conns : srvOpen'[k] => srvOpen[k]
  <2>1. CASE Release(t)
    BY <2>1, SessionFrame, TypeInvFacts DEF Release
  <2> QED BY <2>1, SessionFrame
<1>2. CASE Dispatch(s)
  BY <1>2, StreamDispatch
<1>3. CASE /\ Waiting(s) /\ ses'[s].peer = ses[s].peer
           /\ \/ Taken(s)' = Taken(s) /\ ses'[s].events = ses[s].events
              \/ /\ Taken(s)' = Taken(s) + 1
                 /\ ses[s].events # <<>> /\ ses'[s].events = Tail(ses[s].events)
  <2>1. Whole(s) /\ ExitLast(s) /\ ses[s].peer \in Conns
    BY <1>3 DEF Streams, Stream, SlotInv, PeerHeld, Waiting
  <2> QED BY <1>1, <1>3, <2>1, StreamTakes
<1>4. SessionCounts(s)
  BY SessionFlow, CountsSession, SessionCountsKept
<1> QED BY <1>2, <1>3, <1>4 DEF SessionCounts, WaitFlow

LEMMA StreamHandler ==
    ASSUME LifeInv, SlotStream, HeldHome, Streams, NEW s \in Sessions, NEW l \in Conns,
           HandlerStep(l)
    PROVE  Stream(s)'
<1> USE DEF LifeInv
<1> SUFFICES ASSUME ses'[s].pc \in {"loop", "write"} PROVE Whole(s)' /\ ExitLast(s)'
  BY DEF Stream, Waiting
<1>1. Waiting(s)
  <2>1. CASE HandlerDelivers(l)
    BY <2>1, DeliveryFlow DEF Waiting
  <2> QED BY <2>1 DEF HandlerStep, Register, HandlerReads, HandlerReadFails, HandlerGivesUp,
                      Unregister, Waiting
<1> DEFINE k == ses[s].peer
<1>2. Whole(s) /\ ExitLast(s) /\ k \in Conns /\ job[k] = s
  BY <1>1 DEF Streams, Stream, SlotInv, PeerHeld, SlotOwned, Waiting
<1>3. UNCHANGED task /\ Quiet(s) /\ (srvOpen'[k] => srvOpen[k])
  <2>1. UNCHANGED task /\ (srvOpen'[k] => srvOpen[k])
    BY <1>2, TypeInvFacts DEF HandlerStep, Register, HandlerReads, HandlerReadFails,
       HandlerDelivers, HandlerGivesUp, HandlerReturns, Unregister, wireVars
  <2> QED BY <2>1 DEF Quiet
<1>4. CASE HandlerDelivers(l)
  <2>1. CASE held[l].id = s
    <3>1. l = k
      BY <1>1, <1>4, <2>1 DEF HeldHome, HandlerDelivers
    <3> QED BY <1>1, <1>2, <1>4, <2>1, <3>1, StreamDelivers
  <2>2. CASE held[l].id # s
    <3>1. ses'[s] = ses[s] /\ held'[k] \in {None, held[k]} /\ toServer'[k] = toServer[k]
      BY <1>2, <1>4, <2>2, DeliveryFlow
    <3>2. srvOpen'[k] => held'[k] = held[k]
      <4>1. CASE k = l
        BY <1>2, <1>3, <1>4, <2>2, <4>1 DEF SlotStream, OfSlot, HandlerDelivers
      <4>2. CASE k # l
        BY <1>2, <1>4, <4>2, DeliveryFlow
      <4> QED BY <4>1, <4>2
    <3> QED BY <1>1, <1>2, <1>3, <3>1, <3>2, StreamKept
  <2> QED BY <2>1, <2>2
<1>5. CASE HandlerReads(l) /\ l = k /\ Head(toServer[l]).id = job[l]
  BY <1>1, <1>2, <1>5, StreamReads
<1>6. CASE ~HandlerDelivers(l) /\ ~(HandlerReads(l) /\ l = k /\ Head(toServer[l]).id = job[l])
  <2>1. /\ UNCHANGED ses /\ held'[k] \in {None, held[k]}
        /\ srvOpen'[k] => held'[k] = held[k] /\ toServer'[k] = toServer[k]
    BY <1>2, <1>6, TypeInvFacts DEF HandlerStep, Register, HandlerReads, HandlerReadFails,
       HandlerGivesUp, HandlerReturns, Unregister, wireVars
  <2> QED BY <1>1, <1>2, <1>3, <2>1, StreamKept
<1> QED BY <1>4, <1>5, <1>6

LEMMA StreamTask ==
    ASSUME LifeInv, SlotStream, TaskHome, Streams, NEW s \in Sessions, NEW t \in Sessions,
           TaskStep(t) \/ Command(t) \/ TaskTimesOut(t)
    PROVE  Stream(s)'
<1> USE DEF LifeInv
<1>1. UNCHANGED <<job, held, srvOpen, ses>>
  BY TaskFrame DEF hubVars
<1> SUFFICES ASSUME Waiting(s) PROVE Whole(s)' /\ ExitLast(s)'
  BY <1>1 DEF Stream, Waiting
<1> DEFINE k == ses[s].peer
<1>2. Whole(s) /\ ExitLast(s) /\ k \in Conns /\ job[k] = s
  BY DEF Streams, Stream, SlotInv, PeerHeld, SlotOwned, Waiting
<1>3. CASE t = s /\ (WritesChunk(s) \/ ReportsExit(s))
  <2>1. task[s].conn = k
    BY <1>3 DEF TaskHome, WritesChunk, ReportsExit
  <2> QED BY <1>1, <1>2, <1>3, <2>1, StreamSends
<1>4. CASE Quiet(s) \/ GoesLost(s)
  <2>1. ASSUME srvOpen[k] PROVE toServer'[k] = toServer[k]
    <3>1. CASE UNCHANGED toServer
      BY <3>1
    <3>2. ASSUME NEW m, task[t].pc \in LiveStages, Sends(t, m), t # s
          PROVE  toServer'[k] = toServer[k]
      <4>1. k # task[t].conn
        BY <1>2, <2>1, <3>2, LiveInSlot
      <4> QED BY <1>2, <3>2, <4>1, SendsFlow
    <3>3. CASE t = s
      <4>1. ~WritesChunk(s)
        BY <1>4, CountsTyped DEF Quiet, GoesLost, WritesChunk, LiveStages
      <4>2. ~ReportsExit(s)
        BY <1>4, NoCodeApart DEF Quiet, GoesLost, ReportsExit, LiveStages
      <4> QED BY <3>1, <3>3, <4>1, <4>2, CountsTask
    <3> QED BY <3>1, <3>2, <3>3, CountsTask DEF WritesChunk, ReportsExit
  <2> QED BY <1>1, <1>2, <1>4, <2>1, StreamKept
<1>5. CASE t # s
  <2>1. task'[s] = task[s]
    BY <1>5, CountsTask
  <2> QED BY <1>4, <2>1 DEF Quiet
<1> QED BY <1>3, <1>4, <1>5, CountsTask

LEMMA StreamsStep ==
    ASSUME LifeInv, SlotStream, HeldHome, TaskHome, Fresh, Streams, Next
    PROVE  Streams'
<1> SUFFICES ASSUME NEW s \in Sessions PROVE Stream(s)'
  BY DEF Streams
<1> USE DEF LifeInv
<1> DEFINE k == ses[s].peer
<1>1. ASSUME UNCHANGED ses, Quiet(s) \/ GoesLost(s),
             Waiting(s) => /\ srvOpen'[k] => srvOpen[k]
                           /\ held'[k] = held[k] /\ toServer'[k] = toServer[k]
      PROVE  Stream(s)'
  <2> SUFFICES ASSUME Waiting(s) PROVE Whole(s)' /\ ExitLast(s)'
    BY <1>1 DEF Stream, Waiting
  <2>1. Whole(s) /\ ExitLast(s)
    BY DEF Streams, Stream
  <2> QED BY <1>1, <2>1, StreamKept
<1>2. UNCHANGED task => Quiet(s)
  BY DEF Quiet
<1>3. Waiting(s) => k \in Conns
  BY DEF SlotInv, PeerHeld, Waiting
<1>4. ASSUME NEW l \in Conns, Dial(l) PROVE Stream(s)'
  <2>1. l # k /\ UNCHANGED <<ses, task>>
    BY <1>4 DEF Dial, Unused
  <2>2. Waiting(s) => srvOpen'[k] = srvOpen[k] /\ held'[k] = held[k] /\ toServer'[k] = toServer[k]
    BY <1>3, <1>4, <2>1, TypeInvFacts DEF Dial
  <2> QED BY <1>1, <1>2, <2>1, <2>2
<1>5. ASSUME NEW l \in Conns, HeartbeatFails(l) PROVE Stream(s)'
  BY <1>1, <1>2, <1>3, <1>5, TypeInvFacts DEF HeartbeatFails, hubVars
<1>6. Disconnect => Stream(s)'
  BY <1>1, <1>2, <1>3, TypeInvFacts DEF Disconnect
<1>7. AgentStep \/ ConnectionCut \/ AgentRestart => Stream(s)'
  BY <1>1, AgentFrame, CountsAgent DEF hubVars
<1> QED BY <1>4, <1>5, <1>6, <1>7, StreamSession, StreamHandler, StreamTask DEF Next, Faults

-----------------------------------------------------------------------------
LEMMA OutputInit == Init => OutputInv
BY DEF Init, NewSession, NoTask, OutputInv, SlotStream, HeldHome, TaskHome, Fresh, Streams, Stream,
       Delivered, Waiting, LiveStages, Unsent, Queue

LEMMA OutputStep ==
    ASSUME LifeInv, OutputInv, [Next]_vars
    PROVE  OutputInv'
<1>1. CASE Next
  <2>1. LifeInv'
    BY LifeStep
  <2> QED BY <1>1, <2>1, SlotStreamStep, HeldHomeStep, TaskHomeStep, FreshStep, StreamsStep, DeliveredStep
          DEF OutputInv
<1>2. CASE UNCHANGED vars
  <2> USE <1>2 DEF OutputInv, vars, hubVars, wireVars, Unsent
  <2>1. SlotStream' /\ HeldHome'
    BY DEF SlotStream, OfSlot, HeldHome, Waiting
  <2>2. TaskHome' /\ Fresh' /\ Delivered'
    BY DEF TaskHome, Waiting, Queue, IsExec, Fresh, Delivered
  <2>3. Streams'
    BY DEF Streams, Stream, Waiting, Whole, ExitLast, ExitAfter, Lost, Arrived, Taken, Holding, Reporting
  <2> QED BY <2>1, <2>2, <2>3
<1> QED BY <1>1, <1>2

\* When a session passes on the exit code of its command, all output the agent sent before
\* it has been written to the SSH client, whatever connections were cut or replaced.
THEOREM OutputIsComplete == Spec => []CompleteOutput
<1>1. LifeInv /\ OutputInv => CompleteOutput
  BY DEF LifeInv, Reports, OutputInv, Delivered, CompleteOutput
<1> QED BY <1>1, LifeInit, LifeStep, OutputInit, OutputStep, PTL DEF Spec

-----------------------------------------------------------------------------
(* Refinement. A step of AgentTask is one of RemoteExec for the commands or  *)
(* for the answers, never for both, or changes neither.                      *)

Commands == [s \in Sessions |-> CommandOf(s)]
Answers == [s \in Sessions |-> AnswerOf(s)]

LEMMA CommandsKept ==
    ASSUME \A s \in Sessions : task'[s].pc = task[s].pc /\ task'[s].code = task[s].code
                               /\ task'[s].runs = task[s].runs
    PROVE  UNCHANGED Commands
BY DEF Commands, CommandOf

\* The code of a task that is not over is not known yet.
LEMMA CommandsKeptLive ==
    ASSUME NEW t \in Sessions,
           \A s \in Sessions : s # t => task'[s] = task[s],
           task'[t].pc # "over", task[t].pc # "over", task'[t].runs = task[t].runs
    PROVE  UNCHANGED Commands
BY DEF Commands, CommandOf

LEMMA BeginStep ==
    ASSUME LifeInv, NEW s \in Sessions, TaskStarts(s)
    PROVE  Service!Begin(s)
<1> USE DEF LifeInv
<1>1. /\ task[s].pc = "starting" /\ task[s].runs = 0
      /\ task'[s].pc = "running" /\ task'[s].runs = 1
      /\ \A t \in Sessions : t # s => task'[t] = task[t]
  BY TypeInvFacts DEF TaskStarts, TaskState, OnceInv, RunsOf
<1>2. CommandOf(s) = [state |-> "waiting", code |-> NoCode]
  BY <1>1 DEF CommandOf
<1>3. \A t \in Sessions : CommandOf(t).state # "running"
  <2> SUFFICES ASSUME NEW t \in Sessions, CommandOf(t).state = "running" PROVE FALSE
    OBVIOUS
  <2>1. task[t].pc # "over" /\ task[t].runs # 0
    BY DEF CommandOf
  <2>2. task[t].pc \in TaskStages
    BY TypeInvFacts DEF TaskState
  <2>3. task[t].pc \in LiveStages
    BY <2>1, <2>2 DEF TaskStages, LiveStages, OnceInv, RunsOf
  <2>4. t = s
    BY <1>1, <2>3 DEF TaskOfAgent, LiveStages
  <2> QED BY <1>1, <2>1, <2>4
<1>4. Commands' = [Commands EXCEPT ![s].state = "running"]
  <2>1. CommandOf(s)' = [state |-> "running", code |-> NoCode]
    BY <1>1 DEF CommandOf
  <2>2. \A t \in Sessions : t # s => CommandOf(t)' = CommandOf(t)
    BY <1>1 DEF CommandOf
  <2>3. Commands[s] = [state |-> "waiting", code |-> NoCode]
    BY <1>2 DEF Commands
  <2>4. [Commands[s] EXCEPT !.state = "running"] = [state |-> "running", code |-> NoCode]
    BY <2>3
  <2>5. Commands' = [t \in Sessions |-> IF t = s THEN [state |-> "running", code |-> NoCode]
                                       ELSE Commands[t]]
    BY <2>1, <2>2 DEF Commands
  <2>6. [Commands EXCEPT ![s].state = "running"]
            = [t \in Sessions |-> IF t = s THEN [Commands[s] EXCEPT !.state = "running"]
                                 ELSE Commands[t]]
    BY DEF Commands
  <2> QED BY <2>4, <2>5, <2>6
<1>5. UNCHANGED Answers
  BY DEF TaskStarts, OnlyTask, Answers, AnswerOf
<1> QED BY <1>2, <1>3, <1>4, <1>5 DEF Service!Begin, Commands, Answers

LEMMA EndStep ==
    ASSUME LifeInv, NEW s \in Sessions, NEW c \in Codes \cup {NoCode}, UNCHANGED ses,
           task[s].pc # "over", task'[s].pc = "over", task'[s].code = c,
           \A t \in Sessions : t # s => task'[t] = task[t]
    PROVE  Service!End(s)
<1>1. CommandOf(s).state # "over"
  BY DEF CommandOf
<1>2. Commands' = [Commands EXCEPT ![s] = [state |-> "over", code |-> c]]
  <2>1. CommandOf(s)' = [state |-> "over", code |-> c]
    BY DEF CommandOf
  <2>2. \A t \in Sessions : t # s => CommandOf(t)' = CommandOf(t)
    BY DEF CommandOf
  <2> QED BY <2>1, <2>2 DEF Commands
<1>3. UNCHANGED Answers
  BY DEF Answers, AnswerOf
<1> QED BY <1>1, <1>2, <1>3 DEF Service!End, Commands, Answers

LEMMA TaskRefines ==
    ASSUME LifeInv, NEW s \in Sessions, TaskStep(s) \/ Command(s) \/ TaskTimesOut(s)
    PROVE  UNCHANGED <<Commands, Answers>> \/ Service!Begin(s) \/ Service!End(s)
<1> USE TypeInvFacts DEF LifeInv
<1>0. task[s] \in TaskState
  OBVIOUS
<1>1. UNCHANGED ses /\ UNCHANGED Answers
  BY TaskFrame DEF Answers, AnswerOf
<1>2. CASE TaskStarts(s)
  BY <1>2, BeginStep
<1>3. CASE TaskCannotStart(s)
  BY <1>0, <1>1, <1>3, CommandsKeptLive DEF TaskCannotStart, TaskState
<1>4. CASE TaskEnds(s)
  <2>1. PICK c \in ProcessCodes \cup {Aborted, Unavailable}, p \in {"failed", "ended"} :
            task' = [task EXCEPT ![s] = [task[s] EXCEPT !.pc = p, !.code = c]]
    BY <1>4 DEF TaskEnds
  <2> DEFINE v == [task[s] EXCEPT !.pc = p, !.code = c]
  <2>2. v.pc = p /\ v.runs = task[s].runs /\ task' = [task EXCEPT ![s] = v]
    BY <1>0, <2>1 DEF TaskState
  <2> HIDE DEF v
  <2>3. /\ \A t \in Sessions : t # s => task'[t] = task[t]
        /\ task'[s].pc = p /\ task'[s].runs = task[s].runs
    BY <2>2
  <2>4. task[s].pc = "running"
    BY <1>4 DEF TaskEnds
  <2> QED BY <1>1, <2>3, <2>4, CommandsKeptLive
<1>5. CASE TaskTimesOut(s)
  BY <1>0, <1>1, <1>5, CommandsKeptLive DEF TaskTimesOut, TaskState, LiveStages
<1>6. CASE TaskOutput(s) \/ TaskReportsError(s)
  <2>1. PICK p \in {"running", "ended"} : TaskWrites(s, p) /\ task[s].pc \in {"running", "failed"}
    BY <1>6 DEF TaskOutput, TaskReportsError
  <2> DEFINE v1 == [task[s] EXCEPT !.pc = p, !.exceeded = TRUE, !.stop = Cancelled(task[s].stop)]
             v2 == [task[s] EXCEPT !.pc = p, !.sent = task[s].sent + 1]
             v3 == [task[s] EXCEPT !.pc = p, !.stop = Cancelled(task[s].stop)]
  <2>2. \A v \in {v1, v2, v3} : v.pc = p /\ v.runs = task[s].runs
    BY <1>0 DEF TaskState
  <2>3. \E v \in {v1, v2, v3} : task' = [task EXCEPT ![s] = v]
    BY <2>1 DEF TaskWrites
  <2> HIDE DEF v1, v2, v3
  <2>4. /\ \A t \in Sessions : t # s => task'[t] = task[t]
        /\ task'[s].pc = p /\ task'[s].runs = task[s].runs
    BY <2>2, <2>3
  <2> QED BY <1>1, <2>1, <2>4, CommandsKeptLive
<1>7. CASE TaskSendsExit(s)
  <2> DEFINE v1 == [TaskLost(s) EXCEPT !.code = DecidedCode(s), !.sent = task[s].sent]
             v2 == TaskLost(s)
  <2>1. DecidedCode(s) \in Codes /\ task[s].pc = "ended"
    <3>1. task[s].code \in Codes /\ task[s].stop \in {"none", "deadline", "cancelled"}
      BY <1>7 DEF TaskSendsExit, CodeKnown, TaskState
    <3> QED BY <1>7, <3>1, CodesKnown DEF DecidedCode, TaskSendsExit
  <2>2. \A v \in {v1, v2} : v.pc = "over" /\ v.code \in Codes \cup {NoCode}
    BY <2>1 DEF TaskLost, NoTask
  <2>3. \E v \in {v1, v2} : task' = [task EXCEPT ![s] = v]
    BY <1>7 DEF TaskSendsExit
  <2> HIDE DEF v1, v2
  <2>4. /\ \A t \in Sessions : t # s => task'[t] = task[t]
        /\ task'[s].pc = "over" /\ task'[s].code \in Codes \cup {NoCode}
    BY <2>2, <2>3
  <2>5. Service!End(s)
    BY <1>1, <2>1, <2>4, EndStep
  <2> QED BY <2>5
<1> QED BY <1>2, <1>3, <1>4, <1>5, <1>6, <1>7 DEF TaskStep, Command

\* What a step of a session does to its answer.
LEMMA AnswerFlow ==
    ASSUME LifeInv, NEW s \in Sessions, SessionStep(s) \/ SshClient(s) \/ Watchdog(s)
    PROVE  \/ AnswerOf(s)' = AnswerOf(s)
           \/ AnswerOf(s).state # "closed" /\ AnswerOf(s)' = [state |-> "closed", code |-> NoCode]
           \/ TakesExit(s)
<1> DEFINE Flow == \/ AnswerOf(s)' = AnswerOf(s)
                   \/ /\ AnswerOf(s).state # "closed"
                      /\ AnswerOf(s)' = [state |-> "closed", code |-> NoCode]
                   \/ TakesExit(s)
<1>0. ses[s] \in SessionState /\ ses \in [Sessions -> SessionState]
  BY TypeInvFacts DEF LifeInv
<1>c. ses[s].completed => ses[s].pc \in {"exit", "release", "clear"}
  BY DEF LifeInv, JobInv, CompletedLate
<1>e. EndedSession.pc = "done"
  BY DEF EndedSession, NewSession
<1> USE <1>0, <1>c, <1>e DEF SessionState, AnswerOf
<1>1. CASE ExecRequest(s)
  BY <1>1 DEF ExecRequest
<1>2. CASE NoExecRequest(s)
  BY <1>2 DEF NoExecRequest
<1>3. CASE LookupPeer(s)
  BY <1>3 DEF LookupPeer
<1>4. CASE LookupFails(s)
  BY <1>4 DEF LookupFails
<1>5. CASE Claim(s)
  BY <1>5 DEF Claim
<1>6. CASE Busy(s)
  BY <1>6 DEF Busy
<1>7. CASE Dispatch(s)
  BY <1>7 DEF Dispatch
<1>8. CASE DispatchFails(s)
  BY <1>8 DEF DispatchFails
<1>18. CASE DispatchInDoubt(s)
  BY <1>18 DEF DispatchInDoubt
<1>19. CASE ReportFailure(s)
  BY <1>19 DEF ReportFailure
<1>9. CASE Refuse(s)
  BY <1>9 DEF Refuse
<1>10. ASSUME NEW c, LeaveLoop(s, c) PROVE Flow
  BY <1>10 DEF LeaveLoop
<1>11. CASE TakesOutput(s)
  BY <1>11 DEF TakesOutput
<1>12. CASE WriteSucceeds(s)
  BY <1>12 DEF WriteSucceeds
<1>13. CASE WriteFails(s)
  BY <1>13 DEF WriteFails
<1>14. CASE SendExit(s)
  BY <1>14 DEF SendExit
<1>15. CASE Release(s)
  BY <1>15 DEF Release
<1>16. CASE Clear(s)
  BY <1>16 DEF Clear
<1>17. CASE Watchdog(s)
  BY <1>17 DEF Watchdog
<1> QED
  BY <1>1, <1>2, <1>3, <1>4, <1>5, <1>6, <1>7, <1>8, <1>9, <1>10, <1>11, <1>12, <1>13, <1>14,
     <1>15, <1>16, <1>17, <1>18, <1>19
     DEF SessionStep, SshClient, ClientAnswersClose, SeesDone, SeesDeadline, SeesCancel

LEMMA GiveStep ==
    ASSUME LifeInv, NEW s \in Sessions, TakesExit(s)
    PROVE  Service!Give(s)
<1> DEFINE c == Head(ses[s].events).code
<1>1. ses[s] \in SessionState
  BY TypeInvFacts DEF LifeInv
<1>2. /\ ses[s].pc = "loop" /\ ses'[s].pc = "exit" /\ ses'[s].completed /\ ses'[s].code = c
      /\ \A t \in Sessions : t # s => ses'[t] = ses[t]
  BY <1>1, TypeInvFacts DEF LifeInv, TakesExit, SessionState
<1>3. c \in Codes /\ task[s].pc = "over" /\ task[s].code = c
  <2>1. ses[s].events \in Seq(ToServerMsg) /\ ses[s].events # <<>>
    BY <1>1 DEF TakesExit, SessionState
  <2>2. /\ 1 \in 1..Len(ses[s].events) /\ Head(ses[s].events) = ses[s].events[1]
        /\ Head(ses[s].events) \in ToServerMsg
    BY <2>1
  <2>3. AllReported(ses[s].events) /\ \A i \in 1..Len(ses[s].events) : ses[s].events[i].id = s
    BY DEF LifeInv, Reports
  <2>4. Reported(Head(ses[s].events)) /\ Head(ses[s].events).id = s
    BY <2>2, <2>3 DEF AllReported
  <2>5. Head(ses[s].events).type = "exit"
    BY DEF TakesExit
  <2> QED BY <2>2, <2>4, <2>5 DEF Reported, ToServerMsg
<1> HIDE DEF c
<1>4. c # NoCode
  BY <1>3 DEF Codes, ProcessCodes, NoCode, TimedOut, Unavailable, Aborted
<1>5. CommandOf(s) = [state |-> "over", code |-> c]
  BY <1>3 DEF CommandOf
<1>6. AnswerOf(s) = [state |-> "none", code |-> NoCode]
  BY <1>2 DEF AnswerOf
<1>7. Answers' = [Answers EXCEPT ![s] = [state |-> "given", code |-> c]]
  <2>1. AnswerOf(s)' = [state |-> "given", code |-> c]
    BY <1>2 DEF AnswerOf
  <2>2. \A t \in Sessions : t # s => AnswerOf(t)' = AnswerOf(t)
    BY <1>2 DEF AnswerOf
  <2> QED BY <2>1, <2>2 DEF Answers
<1>8. UNCHANGED Commands
  BY DEF TakesExit, Commands, CommandOf
<1>9. Commands[s] = [state |-> "over", code |-> c] /\ Answers[s].state = "none"
  BY <1>5, <1>6 DEF Commands, Answers
<1> HIDE DEF Commands, Answers
<1>10. /\ Answers[s].state = "none" /\ Commands[s].state = "over" /\ Commands[s].code # NoCode
       /\ Answers' = [Answers EXCEPT ![s] = [state |-> "given", code |-> Commands[s].code]]
       /\ UNCHANGED Commands
  BY <1>4, <1>7, <1>8, <1>9
<1> QED BY <1>10 DEF Service!Give, Commands, Answers

LEMMA SessionRefines ==
    ASSUME LifeInv, NEW s \in Sessions, SessionStep(s) \/ SshClient(s) \/ Watchdog(s)
    PROVE  UNCHANGED <<Commands, Answers>> \/ Service!Give(s) \/ Service!Close(s)
<1>1. UNCHANGED Commands
  BY SessionFrame DEF Commands, CommandOf
<1>2. \A t \in Sessions : t # s => AnswerOf(t)' = AnswerOf(t)
  <2>1. \A t \in Sessions : t # s => ses'[t] = ses[t]
    BY SessionFlow DEF LifeInv, JobInv
  <2> QED BY <2>1 DEF AnswerOf
<1>3. CASE AnswerOf(s)' = AnswerOf(s)
  BY <1>1, <1>2, <1>3 DEF Answers
<1>4. CASE AnswerOf(s).state # "closed" /\ AnswerOf(s)' = [state |-> "closed", code |-> NoCode]
  <2>1. Answers' = [Answers EXCEPT ![s] = [state |-> "closed", code |-> NoCode]]
    BY <1>2, <1>4 DEF Answers
  <2> QED BY <1>1, <1>4, <2>1 DEF Service!Close, Commands, Answers
<1> QED BY <1>3, <1>4, GiveStep, AnswerFlow

LEMMA RestartRefines ==
    ASSUME LifeInv, AgentRestart
    PROVE  UNCHANGED <<Commands, Answers>> \/ \E s \in Sessions : Service!End(s)
<1>1. UNCHANGED ses /\ UNCHANGED Answers
  BY DEF AgentRestart, Answers, AnswerOf
<1>2. CASE \A s \in Sessions : task[s].pc \notin LiveStages
  <2>1. \A s \in Sessions : task'[s] = task[s]
    BY <1>2 DEF AgentRestart
  <2> QED BY <1>1, <2>1, CommandsKept
<1>3. ASSUME NEW s \in Sessions, task[s].pc \in LiveStages PROVE Service!End(s)
  <2>1. \A t \in Sessions : t # s => task[t].pc \notin LiveStages
    BY <1>3 DEF LifeInv, TaskOfAgent
  <2>2. TaskLost(s).pc = "over" /\ TaskLost(s).code = NoCode
    BY DEF TaskLost, NoTask
  <2>3. /\ \A t \in Sessions : t # s => task'[t] = task[t]
        /\ task'[s].pc = "over" /\ task'[s].code = NoCode
    BY <1>3, <2>1, <2>2 DEF AgentRestart
  <2> QED BY <1>1, <1>3, <2>3, EndStep DEF LiveStages
<1> QED BY <1>2, <1>3

LEMMA CancelKeeps ==
    ASSUME LifeInv, NEW t \in Sessions, task' = CancelTask(t)
    PROVE  UNCHANGED Commands
<1>1. \A s \in Sessions : task'[s].pc = task[s].pc /\ task'[s].code = task[s].code
                          /\ task'[s].runs = task[s].runs
  BY TypeInvFacts DEF LifeInv, CancelTask, TaskState
<1> QED BY <1>1, CommandsKept

LEMMA AgentRefines ==
    ASSUME LifeInv, AgentStep
    PROVE  UNCHANGED <<Commands, Answers>>
<1> USE TypeInvFacts DEF LifeInv
<1>1. UNCHANGED Answers
  BY AgentFrame DEF Answers, AnswerOf
<1>2. ASSUME AgentReturns PROVE UNCHANGED Commands
  <2>1. CASE agent.job = None
    BY <1>2, <2>1 DEF AgentReturns, Commands, CommandOf
  <2>2. CASE agent.job # None
    BY <1>2, <2>2, CancelKeeps DEF AgentReturns, AgentState
  <2> QED BY <2>1, <2>2
<1>3. CASE AgentExec /\ agent.job = None
  <2> DEFINE s == toAgent[agent.conn][1].id
  <2>1. /\ s \in Sessions /\ Head(toAgent[agent.conn]).id = s
        /\ task[s].pc = "none"
    BY <1>3, HeadRead DEF AgentExec, OnceInv, ExecPending, IsExec
  <2>2. task' = [task EXCEPT ![s] = [task[s] EXCEPT !.pc = "starting", !.conn = agent.conn]]
    BY <1>3, <2>1 DEF AgentExec
  <2> HIDE DEF s
  <2>3. /\ task'[s].pc = "starting" /\ task'[s].runs = task[s].runs
        /\ \A t \in Sessions : t # s => task'[t] = task[t]
    BY <2>1, <2>2 DEF TaskState
  <2> QED BY <1>1, <2>1, <2>3, CommandsKeptLive
<1>4. CASE AgentCancel
  <2>1. CASE UNCHANGED task
    BY <1>1, <2>1 DEF Commands, CommandOf
  <2>2. CASE ~UNCHANGED task
    <3>1. task' = CancelTask(Head(toAgent[agent.conn]).id)
      BY <1>4, <2>2 DEF AgentCancel
    <3>2. Head(toAgent[agent.conn]).id \in Sessions
      BY <1>4, HeadRead DEF AgentCancel
    <3> QED BY <1>1, <3>1, <3>2, CancelKeeps
  <2> QED BY <2>1, <2>2
<1>5. CASE AgentLeaves
  BY <1>1, <1>5 DEF AgentLeaves, Commands, CommandOf
<1> QED BY <1>1, <1>2, <1>3, <1>4, <1>5 DEF AgentStep, AgentExec, AgentReadFails

LEMMA HandlerRefines ==
    ASSUME LifeInv, NEW k \in Conns, HandlerStep(k)
    PROVE  UNCHANGED <<Commands, Answers>>
<1>1. UNCHANGED task
  BY DEF HandlerStep, Register, HandlerReads, HandlerReadFails, HandlerDelivers,
         HandlerGivesUp, Unregister
<1>2. \A s \in Sessions : /\ ses'[s].pc = ses[s].pc /\ ses'[s].completed = ses[s].completed
                          /\ ses'[s].code = ses[s].code
  <2>1. CASE HandlerDelivers(k)
    BY <2>1, TypeInvFacts DEF LifeInv, HandlerDelivers, SessionState
  <2> QED BY <2>1 DEF HandlerStep, Register, HandlerReads, HandlerReadFails,
                      HandlerGivesUp, Unregister
<1> QED BY <1>1, <1>2 DEF Commands, CommandOf, Answers, AnswerOf

LEMMA RefinesStep ==
    ASSUME LifeInv, [Next]_vars
    PROVE  [Service!Next]_<<Commands, Answers>>
<1>1. ASSUME UNCHANGED <<task, ses>> PROVE UNCHANGED <<Commands, Answers>>
  BY <1>1 DEF Commands, CommandOf, Answers, AnswerOf
<1>2. ASSUME NEW k \in Conns, Dial(k) \/ HeartbeatFails(k) PROVE UNCHANGED <<task, ses>>
  BY <1>2 DEF Dial, HeartbeatFails
<1>3. Disconnect \/ ConnectionCut => UNCHANGED <<task, ses>>
  BY DEF Disconnect, ConnectionCut
<1>4. \/ UNCHANGED <<Commands, Answers>>
      \/ \E s \in Sessions : \/ Service!Begin(s) \/ Service!End(s)
                             \/ Service!Give(s) \/ Service!Close(s)
  <2>1. CASE Next
    BY <1>1, <1>2, <1>3, <2>1, TaskRefines, SessionRefines, RestartRefines, AgentRefines,
       HandlerRefines DEF Next, Faults
  <2>2. CASE UNCHANGED vars
    BY <1>1, <2>2 DEF vars
  <2> QED BY <2>1, <2>2
<1> QED BY <1>4 DEF Service!Next, Commands, Answers

\* AgentTask implements RemoteExec: whatever is cut, lost or restarted, a command begins at
\* most once and alone, and a session passes on the exit code of its own command only.
THEOREM RefinesRemoteExec == Spec => ImplementsRemoteExec
<1>1. Init => Service!Init
  BY DEF Init, NewSession, NoTask, Service!Init, CommandOf, AnswerOf
<1>2. LifeInv /\ [Next]_vars => [Service!Next]_<<Commands, Answers>>
  BY RefinesStep
<1> QED BY <1>1, <1>2, LifeInvariant, PTL DEF Spec, ImplementsRemoteExec, Service!Spec, Commands, Answers
=============================================================================
