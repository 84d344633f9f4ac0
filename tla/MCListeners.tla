----------------------------- MODULE MCListeners -----------------------------
(* Small instances of Listeners for TLC. *)
EXTENDS Listeners, TLC

\* Three addresses of one port of which the first conflicts with the others and one is of
\* another machine; one that the agent listener has at a first start.
MCSshAddrs == {<<"any", 1>>, <<"lan", 1>>, <<"lo", 4>>, <<"other", 1>>}
MCUnusable == {<<"other", 1>>}

\* Two of one port, which are different and cannot be had together.
MCWebAddrs == {<<"lo", 3>>, <<"lo", 4>>, <<"any", 3>>}

\* Other processes compete for the first port and for the second web address.
MCForeignAddrs == {<<"lo", 1>>, <<"any", 1>>, <<"lo", 4>>}
MCDefaults == [ssh |-> <<"any", 1>>, web |-> <<"lo", 3>>, agent |-> <<"lo", 4>>]

RequestSymmetry == Permutations(Requests)
=============================================================================
