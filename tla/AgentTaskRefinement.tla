------------------------- MODULE AgentTaskRefinement -------------------------
(***************************************************************************)
(* AgentTask implements RemoteExec.                                        *)
(***************************************************************************)
EXTENDS AgentTask

\* The user's command is running from its start until the goroutine of its task is over:
\* in between nobody else may have the machine.
CommandOf(s) ==
    [state |-> IF task[s].pc = "over" THEN "over"
               ELSE IF task[s].runs = 0 THEN "waiting" ELSE "running",
     code |-> IF task[s].pc = "over" THEN task[s].code ELSE NoCode]

\* completed and the code are read from the exit message and passed on in exit().
AnswerOf(s) ==
    CASE ses[s].pc \in {"release", "clear", "done"} -> [state |-> "closed", code |-> NoCode]
      [] ses[s].pc = "exit" /\ ses[s].completed -> [state |-> "given", code |-> ses[s].code]
      [] OTHER -> [state |-> "none", code |-> NoCode]

Service == INSTANCE RemoteExec WITH
    command <- [s \in Sessions |-> CommandOf(s)],
    answer <- [s \in Sessions |-> AnswerOf(s)]

\* Whatever connections are cut, messages lost and processes restarted: a command begins
\* at most once and alone, and the only exit code that agentSession passes on as the
\* agent's is that of its own command after its end.
ImplementsRemoteExec == Service!Spec
=============================================================================
