------------------------------ MODULE RemoteExec ------------------------------
(***************************************************************************)
(* What the proxy promises of the commands on one Windows agent, without   *)
(* connections, messages or goroutines: a command runs at most once, one   *)
(* at a time and never again after it is over, and the exit code a session *)
(* passes on is that of its own command, which is over by then. Everything *)
(* else may fail: a command may never begin, may be over without anybody   *)
(* learning its code, and a session may end without an answer.             *)
(***************************************************************************)
CONSTANTS
    Sessions,   \* each asks for one command
    Codes,      \* exit codes
    NoCode      \* no code is known

VARIABLES
    command,    \* per session: its command on the machine of the agent
    answer      \* per session: what the agent's exit code was passed on as

TypeOK ==
    /\ command \in [Sessions -> [state : {"waiting", "running", "over"},
                                 code : Codes \cup {NoCode}]]
    /\ answer \in [Sessions -> [state : {"none", "given", "closed"},
                                code : Codes \cup {NoCode}]]

Init ==
    /\ command = [s \in Sessions |-> [state |-> "waiting", code |-> NoCode]]
    /\ answer = [s \in Sessions |-> [state |-> "none", code |-> NoCode]]

\* One command at a time.
Begin(s) ==
    /\ command[s].state = "waiting"
    /\ \A t \in Sessions : command[t].state # "running"
    /\ command' = [command EXCEPT ![s].state = "running"]
    /\ UNCHANGED answer

\* It ends, or never begins; NoCode: the agent could not tell anybody.
End(s) ==
    /\ command[s].state # "over"
    /\ \E c \in Codes \cup {NoCode} :
        command' = [command EXCEPT ![s] = [state |-> "over", code |-> c]]
    /\ UNCHANGED answer

\* The session has the exit code of its command.
Give(s) ==
    /\ answer[s].state = "none"
    /\ command[s].state = "over"
    /\ command[s].code # NoCode
    /\ answer' = [answer EXCEPT ![s] = [state |-> "given", code |-> command[s].code]]
    /\ UNCHANGED command

\* The session ends, with an answer or without.
Close(s) ==
    /\ answer[s].state # "closed"
    /\ answer' = [answer EXCEPT ![s] = [state |-> "closed", code |-> NoCode]]
    /\ UNCHANGED command

\* Every step changes one of the variables.
Next ==
    /\ <<command, answer>>' # <<command, answer>>
    /\ \E s \in Sessions : Begin(s) \/ End(s) \/ Give(s) \/ Close(s)

Spec == Init /\ [][Next]_<<command, answer>>
=============================================================================
