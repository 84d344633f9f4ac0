------------------------------- MODULE MCLogin -------------------------------
(* Small instances of Login for TLC. *)
EXTENDS Login, TLC

\* A fixed route and two rules, of which one prefix extends the other.
MCNames == {"fixed", "short", "long"}
MCDynamicNames == {"short", "long"}
MCText == [fixed |-> <<"a", "1", "1">>, short |-> <<"a">>, long |-> <<"a", "1">>]
MCPortMin == [short |-> 1, long |-> 1]
MCPortMax == [short |-> 11, long |-> 2]

\* The first text is the fixed name, the highest port of the short rule and the lowest
\* port of the long one; the second has a leading zero.
MCUsers == {<<"a", "1", "1">>, <<"a", "0", "1", "1">>}

=============================================================================
