----------------------------- MODULE MCAccounts -----------------------------
(* Instances of Accounts for TLC.  Each configuration sends the requests    *)
(* its question is about; first-run setup, login, failures, restarts and    *)
(* the command line tool are part of all of them.                           *)
EXTENDS Accounts, TLC

CONSTANTS e1, e2, p1, p2, d1, r1, r2

TwoEmails == {e1, e2}
OnePassword == {p1}
TwoPasswords == {p1, p2}
OneDevice == {d1}
NoDevices == {}
TwoRequests == {r1, r2}
OneRequest == {r1}

\* Whatever ends a session, or makes or unmakes an administrator: a new
\* password, a new role, deletion, logout.
SessionOperations ==
    DeleteOp \cup LogoutOp \cup
    {op \in UpdateOp : op.devices = OmittedList /\ (op.password = Omitted) # (op.isAdmin = Omitted)}

\* Whatever concerns device rows.
AssignmentOperations ==
    DeleteOp \cup CreateOp \cup {op \in UpdateOp : op.password = Omitted /\ op.isAdmin = Omitted}

SessionSymmetry == Permutations(TwoEmails) \cup Permutations(TwoPasswords) \cup Permutations(TwoRequests)
EmailSymmetry == Permutations(TwoEmails)

=============================================================================
