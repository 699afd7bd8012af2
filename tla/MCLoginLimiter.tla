--------------------------- MODULE MCLoginLimiter ---------------------------
(* LoginLimiter for TLC.                                                    *)
EXTENDS LoginLimiter, TLC

CONSTANTS ip1, ip2, ann, bob, s1, s2

OneIp == {ip1}
TwoIps == {ip1, ip2}
OneAccount == {ann}
TwoAccounts == {ann, bob}
TwoSlots == {s1, s2}
OneSlot == {s1}

SlotSymmetry == Permutations(TwoSlots)
KeySymmetry == Permutations(TwoIps) \cup Permutations(TwoAccounts)

=============================================================================
