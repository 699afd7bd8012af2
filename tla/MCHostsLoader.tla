--------------------------- MODULE MCHostsLoader ---------------------------
(* HostsLoader for TLC: two lists, so that an old one can be told from a    *)
(* new one, at two paths.                                                   *)
EXTENDS HostsLoader, TLC

CONSTANTS one, two

MCLists == {one, two}
ListSymmetry == Permutations(MCLists)

=============================================================================
