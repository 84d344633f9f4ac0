-------------------------- MODULE MCCredentialStore --------------------------
(* Small instances of CredentialStore for TLC. *)
EXTENDS CredentialStore, TLC

\* Listable says nothing of a server credential on which requests have overlapped, and no
\* handler of the client credentials depends on one: such states are not explored further.
NoOverlapOnCred == overlapped \cap ({"cred"} \X CredIds) = {}

Symmetry == Permutations(Names) \cup Permutations(Secrets) \cup Permutations(Requests)
=============================================================================
