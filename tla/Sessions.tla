------------------------------ MODULE Sessions ------------------------------
(***************************************************************************)
(* What the server promises of accounts and sessions: every operation      *)
(* happens at once, to the accounts as they are.  There are no ids,        *)
(* versions, tokens or requests here, and no time between the moment a     *)
(* password is compared and the moment somebody is signed in.  Module      *)
(* Accounts, whose handlers act on what they have read before, implements  *)
(* it.                                                                     *)
(*                                                                         *)
(* Who may ask for what is not promised: the role of a request is that of  *)
(* the moment it began.                                                    *)
(***************************************************************************)
CONSTANTS Emails, Passwords

VARIABLES
    accounts,  \* as they are
    sessions,  \* open: the address, the password that was given, the role
    owed       \* whom first-run setup still has to sign in

sessionVars == <<accounts, sessions, owed>>

Account == [email : Emails, password : Passwords, isAdmin : BOOLEAN]

SessionsInit ==
    /\ accounts = {}
    /\ sessions = {}
    /\ owed = {}

Free(e) == \A a \in accounts : a.email # e

Administered == \E a \in accounts : a.isAdmin

\* Accounts that can lose their role, or go.
Dispensable(a) == a.isAdmin => \E b \in accounts : b # a /\ b.isAdmin

Without(e) == {s \in sessions : s.email # e}

-----------------------------------------------------------------------------

\* The password given is the one the account has at this moment, and so is
\* the role.
SignIn ==
    /\ \E a \in accounts : sessions' = sessions \cup {a}
    /\ UNCHANGED <<accounts, owed>>

SignOut ==
    /\ \E a \in accounts : sessions' = Without(a.email)
    /\ UNCHANGED <<accounts, owed>>

Expire ==
    /\ \E s \in sessions : sessions' = sessions \ {s}
    /\ UNCHANGED <<accounts, owed>>

\* Only as long as there is no administrator.
Setup ==
    /\ ~Administered
    /\ \E e \in Emails, p \in Passwords :
        /\ Free(e)
        /\ accounts' = accounts \cup {[email |-> e, password |-> p, isAdmin |-> TRUE]}
        /\ owed' = {[email |-> e, password |-> p]}
    /\ UNCHANGED sessions

\* To the account that has the address by then, whatever its password.
SignInAfterSetup ==
    /\ \E a \in accounts, o \in owed :
        /\ a.email = o.email
        /\ sessions' = sessions \cup {[a EXCEPT !.password = o.password]}
    /\ owed' = {}
    /\ UNCHANGED accounts

SetupGivesUp ==
    /\ owed' = {}
    /\ UNCHANGED <<accounts, sessions>>

\* Nobody is signed in to a new account, whoever had its address before.
Create ==
    /\ \E a \in Account :
        /\ Free(a.email)
        /\ accounts' = accounts \cup {a}
    /\ UNCHANGED <<sessions, owed>>

\* A new password or role ends all sessions.
Change ==
    /\ \E a \in accounts, p \in Passwords, admin \in BOOLEAN :
        /\ ~admin => Dispensable(a)
        /\ accounts' = (accounts \ {a}) \cup {[email |-> a.email, password |-> p, isAdmin |-> admin]}
        /\ sessions' = Without(a.email)
    /\ UNCHANGED owed

Delete ==
    /\ \E a \in accounts :
        /\ Dispensable(a)
        /\ accounts' = accounts \ {a}
        /\ sessions' = Without(a.email)
    /\ UNCHANGED owed

SessionsNext ==
    \/ SetupGivesUp
    \/ Setup
    \/ SignInAfterSetup
    \/ SignIn
    \/ SignOut
    \/ Expire
    \/ Create
    \/ Change
    \/ Delete

SessionsSpec == SessionsInit /\ [][SessionsNext]_sessionVars

=============================================================================
