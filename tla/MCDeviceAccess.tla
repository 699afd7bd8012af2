--------------------------- MODULE MCDeviceAccess ---------------------------
(* DeviceAccess for TLC: two accounts, two devices.                         *)
EXTENDS DeviceAccess, TLC

CONSTANTS e1, e2, p1, d1, d2

TwoEmails == {e1, e2}
OnePassword == {p1}
TwoDevices == {d1, d2}

Symmetry == Permutations(TwoEmails) \cup Permutations(TwoDevices)

=============================================================================
