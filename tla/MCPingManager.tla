--------------------------- MODULE MCPingManager ---------------------------
(* Instances of PingManager for TLC.                                        *)
EXTENDS PingManager

CONSTANTS a, b, c, x, y

\* Two places in the pool and lists of two hosts; one host moves between two
\* addresses, the others come and go while it does, and flights of the list
\* of before occupy places that the hosts of the new one wait for.
ThreeIds == {a, b, c}
TwoIps == {x, y}
TwoLists ==
    { << [id |-> a, ip |-> x, interval |-> 1], [id |-> b, ip |-> x, interval |-> 0] >>,
      << [id |-> c, ip |-> x, interval |-> 1], [id |-> a, ip |-> y, interval |-> 1] >> }

\* One host more than places, both due at every tick.
TwoIds == {a, b}
OneIp == {x}
ManyLists ==
    { << [id |-> a, ip |-> x, interval |-> 1], [id |-> b, ip |-> x, interval |-> 1] >> }

=============================================================================
