---------------------------- MODULE MCLifecycle -----------------------------
(* Lifecycle for TLC.                                                       *)
EXTENDS Lifecycle, TLC

CONSTANTS ssh1, get1

OneCall == {ssh1}
OneOther == {get1}
Sizes == 0..2

=============================================================================
