---------------------------- MODULE MCSshForward ----------------------------
(* Small instances of SshForward for TLC. *)
EXTENDS SshForward

\* One direction at most is over the limit, and no channel is a shell: until the next
\* request it does what a subsystem does. The chunks and the requests are the peers',
\* which need do nothing: no fair step has only states outside to go to.
OneOverLimit ==
    \A c \in Channels : down[c].total + up[c].total <= 3 /\ chan[c].event # "shell"
=============================================================================
