--------------------------- MODULE MCAgentRegistry ---------------------------
(* Small instances of AgentRegistry for TLC. *)
EXTENDS AgentRegistry, TLC

Symmetry == Permutations(Hosts) \cup Permutations(Keys) \cup Permutations(Tokens)
                \cup Permutations(Conns) \cup Permutations(Admins)
=============================================================================
