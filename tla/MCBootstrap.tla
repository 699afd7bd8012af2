---------------------------- MODULE MCBootstrap ----------------------------
(* Bootstrap for TLC: two processes that start, fail and start again.       *)
EXTENDS Bootstrap

CONSTANTS p1, p2, s1, s2

TwoProcesses == {p1, p2}
TwoSecrets == {s1, s2}

=============================================================================
