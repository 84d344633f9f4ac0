----------------------------- MODULE MCAgentTask -----------------------------
(* Small instances of AgentTask for TLC. *)
EXTENDS AgentTaskRefinement, TLC

Symmetry == Permutations(Sessions) \cup Permutations(Conns)

\* The only state in which everything may stand still: all sessions have ended and
\* the agent waits, registered, for work. Any other halt is reported as a deadlock.
Quiescent ==
    /\ \A s \in Sessions : ses[s].pc = "done" /\ task[s].pc \notin LiveStages
    /\ agent.pc = "reading" /\ agent.job = None /\ peers = agent.conn
    /\ \A k \in Conns : srv[k] = IF k = peers THEN "serving" ELSE "gone"
    /\ UNCHANGED vars

MCSpec == Init /\ [][Next \/ Quiescent]_vars
MCFairSpec == MCSpec /\ Fairness

\* The code's own fairness: an SSH client may be connected and silent for ever.
MCCodeFairSpec == MCSpec /\ CodeFairness
=============================================================================
