--------------------------- MODULE MC_KylinFirewall ---------------------------
(* Small firewalls for KylinFirewall.                                      *)
EXTENDS KylinFirewall, TLC

CONSTANTS p1, p2

Two == {p1, p2}
One == {p1}

Ports == <<"tcp22", "udp137">>
Old == <<"tcp136">>

Count(a, b, c) == [tcp22 |-> a, udp137 |-> b, tcp136 |-> c]

Table(chain, input, rules) == [chain |-> chain, input |-> input, rules |-> rules]

\* Never hardened; hardened; hardened by an earlier version, and KSC has put
\* itself first since; jumps and rules more than once; CEMS has taken over,
\* and has rebuilt INPUT.
Bare == Table(FALSE, <<"accept">>, Count(0, 0, 0))
Hard == Table(TRUE, <<Jump, "accept">>, Count(1, 1, 0))
Pushed == Table(TRUE, <<"other", Jump, "accept">>, Count(1, 0, 1))
Doubled == Table(TRUE, <<Jump, "other", Jump, Jump>>, Count(2, 1, 1))
Taken == Table(TRUE, <<Cems, Jump>>, Count(1, 1, 2))
Rebuilt == Table(TRUE, <<Cems>>, Count(0, 0, 1))

AllTables == {Bare, Hard, Pushed, Doubled, Taken}
HardTables == {Hard}
RebuiltTables == {Rebuilt}

Policy(target, ports, restricted) == [target |-> target, ports |-> ports, restricted |-> restricted]

\* CEMS drops both ports; accepts one of them first; drops one of them only
\* for some sources.
Drops == Policy("DROP", {"tcp22", "udp137"}, FALSE)
Policies == {<<Drops>>,
             <<Policy("ACCEPT", {"tcp22"}, FALSE), Drops>>,
             <<Policy("DROP", {"tcp22"}, TRUE), Policy("DROP", {"udp137"}, FALSE)>>}
OnePolicy == {<<Drops>>}

NoListings == {0}
OtherListing == {1}
SomeListings == {0, 1}

Comers == {"accept", Cems}
Leavers == {Jump, Cems}
Nobody == {}

Symmetry == Permutations(Proc)
=============================================================================
