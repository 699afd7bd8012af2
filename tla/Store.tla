------------------------------- MODULE Store -------------------------------
(***************************************************************************)
(* The SQLite repository of the backend (backend/internal/store).          *)
(*                                                                         *)
(* A table is the set of its rows.  Each operator below is ONE atomic      *)
(* statement or transaction, as SQLite runs it: its conjuncts are the      *)
(* WHERE clause and the constraints, its primed variables the rows it      *)
(* writes.  A statement whose conjuncts fail changes nothing; the handler  *)
(* that issued it then answers with an error (Accounts!Reject).            *)
(*                                                                         *)
(* A bcrypt hash is represented by the password it was made from: the only *)
(* thing the program does with one is CheckPasswordHash, which is equality *)
(* of the passwords.  Operators named ...Bug are plausible mistakes; the   *)
(* model never uses them, the mutation runs substitute them.               *)
(***************************************************************************)
EXTENDS Naturals

CONSTANTS
    Emails,           \* the addresses that occur, after ValidateEmail
    Passwords,        \* the passwords that occur
    Devices,          \* the device ids that occur
    Omitted,          \* a nil pointer: "the request leaves this field alone"
    MaxUserId,        \* bound: rows ever inserted into users
    MaxTokenVersion   \* bound: value of a token_version column

ASSUME OmittedAssumption ==
    /\ Omitted \notin Passwords
    /\ Omitted \notin BOOLEAN
    /\ Omitted \notin Devices

\* A device list that the request leaves out, as opposed to an empty one.
OmittedList == {Omitted}

ASSUME BoundsAssumption == MaxUserId \in Nat /\ MaxTokenVersion \in Nat

VARIABLES
    users,            \* rows of table users
    userDevices,      \* rows of table user_devices, without their own id
    lastUserId        \* SQLite's AUTOINCREMENT counter for users.id

storeVars == <<users, userDevices, lastUserId>>

UserIds == 1..MaxUserId

User == [id : UserIds, email : Emails, password : Passwords,
         isAdmin : BOOLEAN, tokenVersion : 0..MaxTokenVersion]

UserDevice == [userId : UserIds, deviceId : Devices]

StoreTypeOK ==
    /\ users \subseteq User
    /\ userDevices \subseteq UserDevice
    /\ lastUserId \in 0..MaxUserId

\* Migrate on an empty database file.
StoreInit ==
    /\ users = {}
    /\ userDevices = {}
    /\ lastUserId = 0

HasAdmins == \E u \in users : u.isAdmin

SeveralAdminsBug == \E u \in users : u.isAdmin

\* (SELECT COUNT( * ) FROM users WHERE is_admin) > 1
SeveralAdmins == \E u, v \in users : u # v /\ u.isAdmin /\ v.isAdmin

\* The unique index on users.email.
EmailFree(e) == \A u \in users : u.email # e

DevicesOf(id) == {d \in userDevices : d.userId = id}

\* The primary key is declared AUTOINCREMENT: the id of a deleted row is
\* never given out again.
NewUserId == lastUserId + 1

NewRow(e, p, admin) ==
    [id |-> NewUserId, email |-> e, password |-> p, isAdmin |-> admin, tokenVersion |-> 0]

-----------------------------------------------------------------------------

InitialAdminAllowedBug == TRUE

\* The NOT EXISTS clause of CreateInitialAdmin.
InitialAdminAllowed == ~HasAdmins

CreateInitialAdmin(e, p) ==
    /\ InitialAdminAllowed
    /\ EmailFree(e)
    /\ NewUserId <= MaxUserId
    /\ users' = users \cup {NewRow(e, p, TRUE)}
    /\ lastUserId' = NewUserId
    /\ UNCHANGED userDevices

CreateUser(e, p, admin, devices) ==
    /\ EmailFree(e)
    /\ NewUserId <= MaxUserId
    /\ users' = users \cup {NewRow(e, p, admin)}
    /\ userDevices' = userDevices \cup [userId : {NewUserId}, deviceId : devices]
    /\ lastUserId' = NewUserId

\* A new password always ends the account's sessions, a role only when it
\* really changes; both together end them once.
EndsSessionsBug(u, password, admin) == password # Omitted

EndsSessions(u, password, admin) ==
    \/ password # Omitted
    \/ admin # Omitted /\ admin # u.isAdmin

UpdatedRowBug(u, password, admin) ==
    [u EXCEPT !.password = password,
              !.isAdmin = IF admin = Omitted THEN @ ELSE admin,
              !.tokenVersion = IF EndsSessions(u, password, admin) THEN @ + 1 ELSE @]

VersionResetBug(u, password, admin) ==
    [u EXCEPT !.password = IF password = Omitted THEN @ ELSE password,
              !.isAdmin = IF admin = Omitted THEN @ ELSE admin,
              !.tokenVersion = IF EndsSessions(u, password, admin) THEN 1 ELSE @]

UpdatedRow(u, password, admin) ==
    [u EXCEPT !.password = IF password = Omitted THEN @ ELSE password,
              !.isAdmin = IF admin = Omitted THEN @ ELSE admin,
              !.tokenVersion = IF EndsSessions(u, password, admin) THEN @ + 1 ELSE @]

RowsUncheckedBug(id, password, admin, devices) ==
    /\ users' = {IF u.id = id THEN UpdatedRow(u, password, admin) ELSE u : u \in users}
    /\ userDevices' = IF devices = OmittedList
                      THEN userDevices
                      ELSE (userDevices \ DevicesOf(id))
                               \cup [userId : {id}, deviceId : devices]
    /\ UNCHANGED lastUserId

UpdateUser(id, password, admin, devices) ==
    \E u \in users :
        /\ u.id = id
        /\ admin = FALSE => ~u.isAdmin \/ SeveralAdmins
        /\ UpdatedRow(u, password, admin).tokenVersion <= MaxTokenVersion
        /\ users' = (users \ {u}) \cup {UpdatedRow(u, password, admin)}
        /\ userDevices' = IF devices = OmittedList
                          THEN userDevices
                          ELSE (userDevices \ DevicesOf(id))
                                   \cup [userId : {id}, deviceId : devices]
        /\ UNCHANGED lastUserId

\* The rows of user_devices stay: the model declares ON DELETE CASCADE, but
\* the DSN does not switch SQLite's foreign keys on.
DeleteUser(id) ==
    \E u \in users :
        /\ u.id = id
        /\ ~u.isAdmin \/ SeveralAdmins
        /\ users' = users \ {u}
        /\ UNCHANGED <<userDevices, lastUserId>>

RevocableBug(u, id, version) == u.id = id

Revocable(u, id, version) == u.id = id /\ u.tokenVersion = version

RevokeUserTokens(id, version) ==
    \E u \in users :
        /\ Revocable(u, id, version)
        /\ u.tokenVersion < MaxTokenVersion
        /\ users' = (users \ {u}) \cup {[u EXCEPT !.tokenVersion = @ + 1]}
        /\ UNCHANGED <<userDevices, lastUserId>>

=============================================================================
