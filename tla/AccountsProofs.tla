--------------------------- MODULE AccountsProofs ---------------------------
(***************************************************************************)
(* Proofs about Accounts, for any sets of accounts, passwords, devices and *)
(* requests and any bounds.                                                *)
(*                                                                         *)
(* The argument: ids are never reused and the version of a row only grows, *)
(* and it grows whenever the password or the role changes.  So whoever     *)
(* holds an (id, version) pair, a token or the row fetched by a login that *)
(* is still checking the password, holds either the row as it is now or a  *)
(* pair no row will ever have again.                                       *)
(***************************************************************************)
EXTENDS Accounts, TLAPS

-----------------------------------------------------------------------------
(* The statements of Store: ids and addresses stay unique, and rows only   *)
(* move forward                                                            *)

UniqueAccounts ==
    \A u, v \in users : u.id = v.id \/ u.email = v.email => u = v

\* UpdateUser keeps id and email, never lowers the version, and leaves the
\* version alone only if it leaves the whole row alone.
LEMMA UpdatedRowFacts ==
    ASSUME NEW u \in User,
           NEW p \in {Omitted} \cup Passwords, NEW a \in {Omitted} \cup BOOLEAN,
           UpdatedRow(u, p, a).tokenVersion <= MaxTokenVersion
    PROVE  /\ UpdatedRow(u, p, a) \in User
           /\ UpdatedRow(u, p, a).id = u.id
           /\ UpdatedRow(u, p, a).email = u.email
           /\ UpdatedRow(u, p, a) = u \/ UpdatedRow(u, p, a).tokenVersion > u.tokenVersion
<1> DEFINE v == UpdatedRow(u, p, a)
<1>1. v.id = u.id /\ v.email = u.email
  BY DEF UpdatedRow, User
<1>2. v.password \in Passwords /\ v.isAdmin \in BOOLEAN
  BY DEF UpdatedRow, User
<1>3. CASE EndsSessions(u, p, a)
  <2>1. v.tokenVersion = u.tokenVersion + 1
    BY <1>3 DEF UpdatedRow, User
  <2>2. u.tokenVersion \in Nat /\ v.tokenVersion \in 0..MaxTokenVersion
    BY <2>1, BoundsAssumption DEF User
  <2>3. v \in User
    BY <1>1, <1>2, <2>2 DEF UpdatedRow, User
  <2> QED BY <1>1, <2>1, <2>2, <2>3
<1>4. CASE ~EndsSessions(u, p, a)
  <2>1. p = Omitted /\ (a = Omitted \/ a = u.isAdmin)
    BY <1>4 DEF EndsSessions
  <2>2. v = u
    BY <2>1, <1>4 DEF UpdatedRow, User
  <2> QED BY <1>1, <2>2
<1> QED BY <1>3, <1>4

LEMMA NewRowFacts ==
    ASSUME NEW e \in Emails, NEW p \in Passwords, NEW a \in BOOLEAN,
           lastUserId \in 0..MaxUserId, NewUserId <= MaxUserId
    PROVE  /\ NewRow(e, p, a) \in User
           /\ NewUserId \in UserIds
           /\ NewUserId > lastUserId
BY BoundsAssumption DEF NewRow, User, NewUserId, UserIds

-----------------------------------------------------------------------------
(* What each statement of the store does to the rows                       *)

IdsBelowCounter == \A u \in users : u.id <= lastUserId

\* A row after a step is new, or comes from a row of the same account and is
\* that row or one of a greater version.
RowsMoveForward ==
    /\ lastUserId <= lastUserId'
    /\ \A v \in users' :
          \/ v.id > lastUserId
          \/ \E u \in users : /\ u.id = v.id
                              /\ v = u \/ v.tokenVersion > u.tokenVersion

\* What all statements of the store have in common.
StoreStep ==
    /\ StoreTypeOK'
    /\ RowsMoveForward
    /\ UniqueAccounts /\ IdsBelowCounter => UniqueAccounts' /\ IdsBelowCounter'

LEMMA StoreUnchanged ==
    ASSUME StoreTypeOK, UNCHANGED storeVars
    PROVE  StoreStep
BY DEF StoreTypeOK, storeVars, StoreStep, RowsMoveForward, UniqueAccounts, IdsBelowCounter

LEMMA InsertEffect ==
    ASSUME StoreTypeOK,
           NEW e \in Emails, NEW p \in Passwords, NEW a \in BOOLEAN,
           EmailFree(e), NewUserId <= MaxUserId,
           users' = users \cup {NewRow(e, p, a)},
           lastUserId' = NewUserId,
           userDevices' \subseteq UserDevice
    PROVE  StoreStep
<1> DEFINE w == NewRow(e, p, a)
<1>1. /\ w \in User
      /\ w.id = NewUserId
      /\ w.email = e
      /\ NewUserId \in UserIds
      /\ NewUserId > lastUserId
      /\ lastUserId \in Nat
  BY NewRowFacts DEF NewRow, StoreTypeOK
<1>2. StoreTypeOK'
  BY <1>1, BoundsAssumption DEF StoreTypeOK, UserIds
<1>3. RowsMoveForward
  BY <1>1, BoundsAssumption DEF RowsMoveForward, StoreTypeOK, UserIds, User
<1>4. ASSUME UniqueAccounts, IdsBelowCounter
      PROVE  UniqueAccounts' /\ IdsBelowCounter'
  <2>1. \A u \in users : u.id \in Nat /\ u.id < NewUserId /\ u.email # e
    BY <1>1, <1>4, BoundsAssumption
    DEF IdsBelowCounter, EmailFree, StoreTypeOK, User, UserIds
  <2> QED BY <1>1, <1>4, <2>1 DEF UniqueAccounts, IdsBelowCounter, UserIds
<1> QED BY <1>2, <1>3, <1>4 DEF StoreStep

LEMMA CreateInitialAdminEffect ==
    ASSUME StoreTypeOK, NEW e \in Emails, NEW p \in Passwords, CreateInitialAdmin(e, p)
    PROVE  StoreStep
BY InsertEffect DEF CreateInitialAdmin, StoreTypeOK

LEMMA CreateUserEffect ==
    ASSUME StoreTypeOK, NEW e \in Emails, NEW p \in Passwords, NEW a \in BOOLEAN,
           NEW ds \in SUBSET Devices, CreateUser(e, p, a, ds)
    PROVE  StoreStep
<1>1. NewUserId \in UserIds
  BY NewRowFacts DEF CreateUser, StoreTypeOK
<1>2. [userId : {NewUserId}, deviceId : ds] \subseteq UserDevice
  BY <1>1 DEF UserDevice
<1> QED BY <1>2, InsertEffect DEF CreateUser, StoreTypeOK

\* One row is replaced by a row of the same account.
LEMMA ReplaceEffect ==
    ASSUME StoreTypeOK, NEW u \in users, NEW v \in User,
           v.id = u.id, v.email = u.email, v = u \/ v.tokenVersion > u.tokenVersion,
           users' = (users \ {u}) \cup {v},
           lastUserId' = lastUserId,
           userDevices' \subseteq UserDevice
    PROVE  StoreStep
<1>1. StoreTypeOK'
  BY DEF StoreTypeOK
<1>2. RowsMoveForward
  BY BoundsAssumption DEF RowsMoveForward, StoreTypeOK, User
<1>3. UniqueAccounts /\ IdsBelowCounter => UniqueAccounts' /\ IdsBelowCounter'
  BY DEF UniqueAccounts, IdsBelowCounter
<1> QED BY <1>1, <1>2, <1>3 DEF StoreStep

LEMMA UpdateUserEffect ==
    ASSUME StoreTypeOK, NEW id \in UserIds,
           NEW p \in {Omitted} \cup Passwords, NEW a \in {Omitted} \cup BOOLEAN,
           NEW ds \in {OmittedList} \cup SUBSET Devices, UpdateUser(id, p, a, ds)
    PROVE  StoreStep
<1>1. PICK u \in users :
        /\ u.id = id
        /\ UpdatedRow(u, p, a).tokenVersion <= MaxTokenVersion
        /\ users' = (users \ {u}) \cup {UpdatedRow(u, p, a)}
        /\ userDevices' = IF ds = OmittedList
                          THEN userDevices
                          ELSE (userDevices \ DevicesOf(id))
                                   \cup [userId : {id}, deviceId : ds]
        /\ lastUserId' = lastUserId
  BY DEF UpdateUser
<1> DEFINE v == UpdatedRow(u, p, a)
<1>2. /\ v \in User
      /\ v.id = u.id
      /\ v.email = u.email
      /\ v = u \/ v.tokenVersion > u.tokenVersion
  BY <1>1, UpdatedRowFacts DEF StoreTypeOK
<1>3. userDevices' \subseteq UserDevice
  BY <1>1 DEF StoreTypeOK, DevicesOf, UserDevice
<1> HIDE DEF v
<1> QED BY <1>1, <1>2, <1>3, ReplaceEffect DEF v

LEMMA DeleteUserEffect ==
    ASSUME StoreTypeOK, NEW id, DeleteUser(id)
    PROVE  StoreStep
<1>1. users' \subseteq users /\ UNCHANGED <<userDevices, lastUserId>>
  BY DEF DeleteUser
<1> QED
  BY <1>1, BoundsAssumption
  DEF StoreStep, StoreTypeOK, RowsMoveForward, UniqueAccounts, IdsBelowCounter

LEMMA RevokeUserTokensEffect ==
    ASSUME StoreTypeOK, NEW id, NEW version, RevokeUserTokens(id, version)
    PROVE  StoreStep
<1>1. PICK u \in users :
        /\ u.tokenVersion < MaxTokenVersion
        /\ users' = (users \ {u}) \cup {[u EXCEPT !.tokenVersion = @ + 1]}
        /\ UNCHANGED <<userDevices, lastUserId>>
  BY DEF RevokeUserTokens
<1> DEFINE v == [u EXCEPT !.tokenVersion = @ + 1]
<1>2. /\ v \in User
      /\ v.id = u.id
      /\ v.email = u.email
      /\ v.tokenVersion > u.tokenVersion
  BY <1>1, BoundsAssumption DEF StoreTypeOK, User
<1> HIDE DEF v
<1>3. users' = (users \ {u}) \cup {v}
  BY <1>1 DEF v
<1> QED BY <1>1, <1>2, <1>3, ReplaceEffect DEF StoreTypeOK

-----------------------------------------------------------------------------
(* The inductive invariant                                                 *)

\* Every id in use was given out by the counter.
IdsAllocated ==
    /\ \A u \in users : u.id <= lastUserId
    /\ \A d \in userDevices : d.userId <= lastUserId
    /\ \A t \in tokens : t.userId <= lastUserId
    /\ \A r \in Requests : req[r].stage = "found" => req[r].user.id <= lastUserId

\* A row some login still holds is the current one or an outdated one.
SnapshotsBehind ==
    \A r \in Requests, u \in users :
        req[r].stage = "found" /\ req[r].user.id = u.id =>
            /\ req[r].user.tokenVersion <= u.tokenVersion
            /\ req[r].user.tokenVersion = u.tokenVersion => req[r].user = u

\* A token is of the current version, and then agrees with the row, or of an
\* earlier one.
TokensBehind ==
    \A t \in tokens, u \in users :
        t.userId = u.id =>
            /\ t.tokenVersion <= u.tokenVersion
            /\ t.tokenVersion = u.tokenVersion =>
                 /\ u.email = t.email
                 /\ u.isAdmin = t.isAdmin
                 /\ t.bySetup \/ u.password = t.password

SetupHistory == setups <= 1 /\ (setups = 1 => HasAdmins)

IInv ==
    /\ TypeOK
    /\ UniqueAccounts
    /\ IdsAllocated
    /\ SnapshotsBehind
    /\ TokensBehind
    /\ SetupHistory

-----------------------------------------------------------------------------
(* Facts about rows and requests                                           *)

\* The stage of a request says which record it is.
LEMMA StageTypes ==
    ASSUME TypeOK, NEW r \in Requests
    PROVE  /\ req[r].stage \in {"missing", "setup", "created"} => req[r] \in Login
           /\ req[r].stage = "found" => req[r] \in Found
           /\ req[r].stage \in {"authorized", "validated"} => req[r] \in Session
BY DEF TypeOK, Idle, Login, Found, Session

\* The kind of an operation says which record it is.
LEMMA OperationTypes ==
    ASSUME NEW op \in Operations
    PROVE  /\ op.kind = "create" => op \in CreateOp
           /\ op.kind = "update" => op \in UpdateOp
BY OperationsAssumption DEF Operation, CreateOp, UpdateOp, DeleteOp, LogoutOp

\* Every step of the system moves the rows forward.
LEMMA NextIsStoreStep ==
    ASSUME TypeOK, [Next]_vars
    PROVE  StoreStep
<1> USE DEF TypeOK
<1>1. ASSUME UNCHANGED storeVars PROVE StoreStep
  BY <1>1, StoreUnchanged
<1>2. ASSUME NEW r \in Requests, SetupCreate(r) PROVE StoreStep
  <2>1. req[r].email \in Emails /\ req[r].password \in Passwords
    BY <1>2, StageTypes DEF SetupCreate, Login
  <2> QED BY <1>2, <2>1, CreateInitialAdminEffect DEF SetupCreate
<1>3. ASSUME NEW r \in Requests, HandleCreateUser(r) PROVE StoreStep
  <2>1. req[r].op \in CreateOp
    BY <1>3, StageTypes, OperationTypes DEF HandleCreateUser, Session
  <2> QED BY <1>3, <2>1, CreateUserEffect DEF HandleCreateUser, CreateOp
<1>4. ASSUME NEW r \in Requests, HandleUpdateUser(r) PROVE StoreStep
  <2>1. req[r].op \in UpdateOp
    BY <1>4, StageTypes, OperationTypes DEF HandleUpdateUser, Session
  <2> QED BY <1>4, <2>1, UpdateUserEffect DEF HandleUpdateUser, UpdateOp
<1>5. ASSUME NEW r \in Requests, HandleDeleteUser(r) PROVE StoreStep
  BY <1>5, DeleteUserEffect DEF HandleDeleteUser
<1>6. ASSUME NEW r \in Requests, HandleLogout(r) PROVE StoreStep
  BY <1>6, RevokeUserTokensEffect DEF HandleLogout
<1>7. ASSUME CliAddUser PROVE StoreStep
  BY <1>7, CreateUserEffect DEF CliAddUser
<1> QED
  BY <1>1, <1>2, <1>3, <1>4, <1>5, <1>6, <1>7
  DEF Next, vars, storeVars, LoginLookup, LoginNoAccount, SetupFetch, IssueToken,
      Authenticate, Validate, Reject, HostsChange, TokenExpires, Restart

-----------------------------------------------------------------------------
(* Type correctness                                                        *)

\* The types of what is not in the database: a step only rewrites the slot
\* of one request, or empties all of them.
LEMMA TypeStep ==
    ASSUME TypeOK, [Next]_vars
    PROVE  TypeOK'
<1> DEFINE Req == {Idle} \cup Login \cup Found \cup Session
<1>1. StoreTypeOK'
  BY NextIsStoreStep DEF StoreStep
<1>2. configured' \subseteq Devices
  BY DEF TypeOK, Next, vars, LoginLookup, LoginNoAccount, SetupCreate, SetupFetch, IssueToken,
         Authenticate, Validate, HandleCreateUser, HandleUpdateUser, HandleDeleteUser,
         HandleLogout, Reject, CliAddUser, HostsChange, TokenExpires, Restart
<1>3. setups' \in Nat
  BY DEF TypeOK, Next, vars, LoginLookup, LoginNoAccount, SetupCreate, SetupFetch, IssueToken,
         Authenticate, Validate, HandleCreateUser, HandleUpdateUser, HandleDeleteUser,
         HandleLogout, Reject, CliAddUser, HostsChange, TokenExpires, Restart
<1>4. tokens' \subseteq Token
  <2>1. ASSUME NEW r \in Requests, IssueToken(r) PROVE tokens' \subseteq Token
    <3>1. req[r] \in Found
      BY <2>1, StageTypes DEF IssueToken
    <3>2. GenerateJWT(req[r]) \in Token
      BY <3>1 DEF GenerateJWT, Found, User, Token
    <3> QED BY <2>1, <3>2 DEF IssueToken, TypeOK
  <2> QED
    BY <2>1
    DEF TypeOK, Next, vars, LoginLookup, LoginNoAccount, SetupCreate, SetupFetch,
        Authenticate, Validate, HandleCreateUser, HandleUpdateUser, HandleDeleteUser,
        HandleLogout, Reject, CliAddUser, HostsChange, TokenExpires, Restart
<1>5. req' \in [Requests -> Req]
  <2>1. ASSUME NEW r \in Requests, NEW q \in Req, req' = [req EXCEPT ![r] = q]
        PROVE  req' \in [Requests -> Req]
    BY <2>1 DEF TypeOK
  <2>2. ASSUME NEW r \in Requests, LoginLookup(r) PROVE req' \in [Requests -> Req]
    <3>1. PICK e \in Emails, p \in Passwords :
            \/ \E u \in users :
                  req' = [req EXCEPT ![r] = [stage |-> "found", user |-> u,
                                             password |-> p, bySetup |-> FALSE]]
            \/ req' = [req EXCEPT ![r] = [stage |-> "missing", email |-> e, password |-> p]]
      BY <2>2 DEF LoginLookup
    <3>2. [stage |-> "missing", email |-> e, password |-> p] \in Login
      BY DEF Login
    <3>3. \A u \in users : [stage |-> "found", user |-> u, password |-> p, bySetup |-> FALSE]
                              \in Found
      BY DEF Found, TypeOK, StoreTypeOK
    <3> QED BY <2>1, <3>1, <3>2, <3>3
  <2>3. ASSUME NEW r \in Requests, LoginNoAccount(r) \/ SetupCreate(r)
        PROVE  req' \in [Requests -> Req]
    <3>1. PICK s \in {"setup", "created"} : req' = [req EXCEPT ![r].stage = s]
      BY <2>3 DEF LoginNoAccount, SetupCreate
    <3>2. req[r] \in Login
      BY <2>3, StageTypes DEF LoginNoAccount, SetupCreate
    <3>3. [req[r] EXCEPT !.stage = s] \in Login
      BY <3>2 DEF Login
    <3> QED BY <3>1, <3>3 DEF TypeOK
  <2>4. ASSUME NEW r \in Requests, SetupFetch(r) PROVE req' \in [Requests -> Req]
    <3>1. PICK u \in users :
            req' = [req EXCEPT ![r] = [stage |-> "found", user |-> u,
                                       password |-> req[r].password, bySetup |-> TRUE]]
      BY <2>4 DEF SetupFetch
    <3>2. req[r] \in Login
      BY <2>4, StageTypes DEF SetupFetch
    <3>3. [stage |-> "found", user |-> u, password |-> req[r].password, bySetup |-> TRUE] \in Found
      BY <3>2 DEF Found, Login, TypeOK, StoreTypeOK
    <3> QED BY <2>1, <3>1, <3>3
  <2>5. ASSUME NEW r \in Requests, Authenticate(r) PROVE req' \in [Requests -> Req]
    <3>1. PICK u \in users, op \in Operations :
            req' = [req EXCEPT ![r] = [stage |-> "authorized", userId |-> u.id,
                                       tokenVersion |-> u.tokenVersion, op |-> op]]
      BY <2>5 DEF Authenticate
    <3>2. [stage |-> "authorized", userId |-> u.id,
           tokenVersion |-> u.tokenVersion, op |-> op] \in Session
      BY DEF Session, TypeOK, StoreTypeOK, User
    <3> QED BY <2>1, <3>1, <3>2
  <2>6. ASSUME NEW r \in Requests, Validate(r) PROVE req' \in [Requests -> Req]
    <3>1. [req[r] EXCEPT !.stage = "validated"] \in Session
      BY <2>6, StageTypes DEF Validate, Session
    <3> QED BY <2>6, <3>1 DEF Validate, TypeOK
  <2>7. ASSUME NEW r \in Requests, Finish(r) PROVE req' \in [Requests -> Req]
    BY <2>1, <2>7 DEF Finish
  <2>8. CASE Restart
    BY <2>8 DEF Restart
  <2> QED
    BY <2>2, <2>3, <2>4, <2>5, <2>6, <2>7, <2>8
    DEF TypeOK, Next, vars, IssueToken, HandleCreateUser, HandleUpdateUser, HandleDeleteUser,
        HandleLogout, Reject, CliAddUser, HostsChange, TokenExpires
<1> QED BY <1>1, <1>2, <1>3, <1>4, <1>5 DEF TypeOK

\* Every variable keeps its type: no step stores a nil field, a version or an
\* id outside its range, or a request of no known stage.
THEOREM TypeCorrect == Spec => []TypeOK
<1>1. Init => TypeOK
  BY BoundsAssumption DEF Init, StoreInit, TypeOK, StoreTypeOK
<1>2. TypeOK /\ [Next]_vars => TypeOK'
  BY TypeStep
<1> QED BY <1>1, <1>2, PTL DEF Spec

-----------------------------------------------------------------------------
(* Administrators                                                          *)

LEMMA UpdateUserKeepsAdmins ==
    ASSUME StoreTypeOK, HasAdmins, NEW id,
           NEW p \in {Omitted} \cup Passwords, NEW a \in {Omitted} \cup BOOLEAN, NEW ds,
           UpdateUser(id, p, a, ds)
    PROVE  HasAdmins'
<1>1. PICK u \in users :
        /\ a = FALSE => ~u.isAdmin \/ SeveralAdmins
        /\ UpdatedRow(u, p, a).tokenVersion <= MaxTokenVersion
        /\ users' = (users \ {u}) \cup {UpdatedRow(u, p, a)}
  BY DEF UpdateUser
<1>2. CASE \E w \in users : w # u /\ w.isAdmin
  BY <1>1, <1>2 DEF HasAdmins
<1>3. CASE \A w \in users : w.isAdmin => w = u
  <2>1. u.isAdmin /\ ~SeveralAdmins
    BY <1>3 DEF HasAdmins, SeveralAdmins
  <2>2. a # FALSE
    BY <1>1, <2>1
  <2>3. UpdatedRow(u, p, a).isAdmin
    BY <2>1, <2>2 DEF UpdatedRow, StoreTypeOK, User
  <2> QED BY <1>1, <2>3 DEF HasAdmins
<1> QED BY <1>2, <1>3

LEMMA AdminsStep ==
    ASSUME TypeOK, HasAdmins, [Next]_vars
    PROVE  HasAdmins'
<1> USE DEF TypeOK
<1>1. ASSUME users \subseteq users' PROVE HasAdmins'
  BY <1>1 DEF HasAdmins
<1>2. ASSUME NEW r \in Requests, HandleUpdateUser(r) PROVE HasAdmins'
  <2>1. req[r].op \in UpdateOp
    BY <1>2, StageTypes, OperationTypes DEF HandleUpdateUser, Session
  <2> QED BY <1>2, <2>1, UpdateUserKeepsAdmins DEF HandleUpdateUser, UpdateOp
<1>3. ASSUME NEW r \in Requests, HandleDeleteUser(r) PROVE HasAdmins'
  BY <1>3 DEF HandleDeleteUser, DeleteUser, HasAdmins, SeveralAdmins
<1>4. ASSUME NEW r \in Requests, HandleLogout(r) PROVE HasAdmins'
  <2>1. PICK u \in users : users' = (users \ {u}) \cup {[u EXCEPT !.tokenVersion = @ + 1]}
    BY <1>4 DEF HandleLogout, RevokeUserTokens
  <2>2. [u EXCEPT !.tokenVersion = @ + 1].isAdmin = u.isAdmin
    BY DEF StoreTypeOK, User
  <2> QED BY <2>1, <2>2 DEF HasAdmins
<1> QED
  BY <1>1, <1>2, <1>3, <1>4
  DEF Next, vars, LoginLookup, LoginNoAccount, SetupCreate, SetupFetch, IssueToken,
      Authenticate, Validate, HandleCreateUser, Reject, CliAddUser, HostsChange,
      TokenExpires, Restart, CreateInitialAdmin, CreateUser

-----------------------------------------------------------------------------
(* The inductive invariant                                                 *)

LEMMA InitEstablishes == Init => IInv
BY BoundsAssumption
DEF Init, StoreInit, IInv, TypeOK, StoreTypeOK, UniqueAccounts, IdsAllocated,
    SnapshotsBehind, TokensBehind, SetupHistory, Idle

\* A login holds the row it held before, or one it has just read.
LEMMA SnapshotOrigin ==
    ASSUME TypeOK, [Next]_vars, NEW r \in Requests, req'[r].stage = "found"
    PROVE  \/ req'[r] = req[r]
           \/ req'[r].user \in users /\ UNCHANGED storeVars
<1>1. ASSUME NEW s \in Requests, NEW q, req' = [req EXCEPT ![s] = q], r # s
      PROVE  req'[r] = req[r]
  BY <1>1 DEF TypeOK
<1>2. ASSUME NEW s \in Requests, Finish(s) PROVE req'[r] = req[r]
  BY <1>1, <1>2 DEF Finish, Idle, TypeOK
<1>3. ASSUME NEW s \in Requests, LoginLookup(s) \/ SetupFetch(s)
      PROVE  req'[r] = req[r] \/ (req'[r].user \in users /\ UNCHANGED storeVars)
  <2>1. UNCHANGED storeVars
    BY <1>3 DEF LoginLookup, SetupFetch, storeVars
  <2>2. CASE r = s
    BY <1>3, <2>1, <2>2 DEF LoginLookup, SetupFetch, TypeOK
  <2>3. CASE r # s
    BY <1>1, <1>3, <2>3 DEF LoginLookup, SetupFetch
  <2> QED BY <2>2, <2>3
<1>4. ASSUME NEW s \in Requests, LoginNoAccount(s) \/ SetupCreate(s) \/ Authenticate(s) \/ Validate(s)
      PROVE  req'[r] = req[r]
  <2>1. r # s
    <3>1. ASSUME r = s, NEW t \in {"setup", "created", "validated"},
                 req' = [req EXCEPT ![s].stage = t],
                 req[s] \in Login \cup Session
          PROVE  FALSE
      BY <3>1 DEF TypeOK, Login, Session
    <3>2. CASE LoginNoAccount(s) \/ SetupCreate(s) \/ Validate(s)
      BY <1>4, <3>1, <3>2, StageTypes DEF LoginNoAccount, SetupCreate, Validate
    <3>3. CASE Authenticate(s)
      BY <3>3 DEF Authenticate, TypeOK
    <3> QED BY <1>4, <3>2, <3>3
  <2> QED BY <1>4, <2>1 DEF LoginNoAccount, SetupCreate, Authenticate, Validate, TypeOK
<1>5. CASE Restart
  BY <1>5 DEF Restart, Idle
<1> QED
  BY <1>2, <1>3, <1>4, <1>5
  DEF Next, vars, IssueToken, HandleCreateUser, HandleUpdateUser, HandleDeleteUser,
      HandleLogout, Reject, CliAddUser, HostsChange, TokenExpires

\* A token was there before, or is made from the row its login holds.
LEMMA TokenOrigin ==
    ASSUME TypeOK, [Next]_vars, NEW t \in tokens'
    PROVE  \/ t \in tokens
           \/ /\ UNCHANGED storeVars
              /\ \E r \in Requests : /\ req[r].stage = "found"
                                     /\ PasswordProven(req[r])
                                     /\ t = GenerateJWT(req[r])
BY DEF Next, vars, storeVars, LoginLookup, LoginNoAccount, SetupCreate, SetupFetch, IssueToken,
       Authenticate, Validate, HandleCreateUser, HandleUpdateUser, HandleDeleteUser,
       HandleLogout, Reject, CliAddUser, HostsChange, TokenExpires, Restart

\* A device row was there before, or belongs to an account that exists or is new.
DeviceRowHasOrigin(d) ==
    d \in userDevices \/ d.userId = lastUserId' \/ \E u \in users : u.id = d.userId

LEMMA DeviceRowOrigin ==
    ASSUME TypeOK, [Next]_vars, NEW d \in userDevices'
    PROVE  DeviceRowHasOrigin(d)
<1>1. ASSUME \E e, p, a, ds : CreateUser(e, p, a, ds) PROVE DeviceRowHasOrigin(d)
  BY <1>1 DEF CreateUser, DeviceRowHasOrigin
<1>2. ASSUME \E id, p, a, ds : UpdateUser(id, p, a, ds) PROVE DeviceRowHasOrigin(d)
  BY <1>2 DEF UpdateUser, DevicesOf, DeviceRowHasOrigin
<1>3. ASSUME UNCHANGED userDevices PROVE DeviceRowHasOrigin(d)
  BY <1>3 DEF DeviceRowHasOrigin
<1>4. CASE \E r \in Requests : HandleCreateUser(r)
  <2>1. \E e, p, a, ds : CreateUser(e, p, a, ds)
    BY <1>4 DEF HandleCreateUser
  <2> QED BY <1>1, <2>1
<1>5. CASE \E r \in Requests : HandleUpdateUser(r)
  <2>1. \E id, p, a, ds : UpdateUser(id, p, a, ds)
    BY <1>5 DEF HandleUpdateUser
  <2> QED BY <1>2, <2>1
<1>6. CASE CliAddUser
  <2>1. \E e, p, a, ds : CreateUser(e, p, a, ds)
    BY <1>6 DEF CliAddUser
  <2> QED BY <1>1, <2>1
<1> QED
  BY <1>3, <1>4, <1>5, <1>6
  DEF Next, vars, LoginLookup, LoginNoAccount, SetupCreate, SetupFetch, IssueToken,
      Authenticate, Validate, HandleDeleteUser, HandleLogout, Reject, HostsChange,
      TokenExpires, Restart, CreateInitialAdmin, DeleteUser, RevokeUserTokens

LEMMA IdsAllocatedStep ==
    ASSUME IInv, [Next]_vars
    PROVE  IdsAllocated'
<1>1. /\ TypeOK
      /\ StoreTypeOK'
      /\ RowsMoveForward
      /\ IdsBelowCounter'
  BY NextIsStoreStep DEF IInv, StoreStep, IdsBelowCounter, IdsAllocated
<1>2. lastUserId \in Nat /\ lastUserId' \in Nat /\ lastUserId <= lastUserId'
  BY <1>1, BoundsAssumption DEF TypeOK, StoreTypeOK, RowsMoveForward
<1>3. \A u \in users : u.id \in Nat /\ u.id <= lastUserId'
  BY <1>1, <1>2, BoundsAssumption DEF IInv, IdsAllocated, TypeOK, StoreTypeOK, User, UserIds
<1>4. ASSUME NEW d \in userDevices' PROVE d.userId <= lastUserId'
  <2>1. d \in userDevices => d.userId \in Nat /\ d.userId <= lastUserId
    BY BoundsAssumption DEF IInv, IdsAllocated, TypeOK, StoreTypeOK, UserDevice, UserIds
  <2> QED BY <1>1, <1>2, <1>3, <2>1, DeviceRowOrigin DEF DeviceRowHasOrigin
<1>5. ASSUME NEW t \in tokens' PROVE t.userId <= lastUserId'
  <2>1. CASE t \in tokens
    BY <1>2, <2>1, BoundsAssumption DEF IInv, IdsAllocated, TypeOK, Token, UserIds
  <2>2. CASE /\ UNCHANGED storeVars
             /\ \E r \in Requests : req[r].stage = "found" /\ t = GenerateJWT(req[r])
    BY <2>2 DEF IInv, IdsAllocated, GenerateJWT, storeVars
  <2> QED BY <1>1, <2>1, <2>2, TokenOrigin
<1>6. ASSUME NEW r \in Requests, req'[r].stage = "found"
      PROVE  req'[r].user.id <= lastUserId'
  <2>1. CASE req'[r] = req[r]
    <3>1. req[r].user.id \in Nat /\ req[r].user.id <= lastUserId
      BY <1>1, <1>6, <2>1, StageTypes, BoundsAssumption DEF IInv, IdsAllocated, Found, User, UserIds
    <3> QED BY <1>2, <2>1, <3>1
  <2>2. CASE req'[r].user \in users
    BY <1>3, <2>2
  <2> QED BY <1>1, <1>6, <2>1, <2>2, SnapshotOrigin
<1> QED BY <1>1, <1>4, <1>5, <1>6 DEF IdsAllocated, IdsBelowCounter

\* What is old stays behind: for an id already given out, a row of the next
\* state is a row of this one or of a greater version.
LEMMA OldIdsMoveForward ==
    ASSUME IInv, [Next]_vars, NEW id \in Nat, id <= lastUserId,
           NEW v \in users', v.id = id
    PROVE  \E u \in users : u.id = id /\ (v = u \/ v.tokenVersion > u.tokenVersion)
BY NextIsStoreStep, BoundsAssumption DEF IInv, TypeOK, StoreStep, RowsMoveForward, StoreTypeOK

LEMMA SnapshotsBehindStep ==
    ASSUME IInv, [Next]_vars
    PROVE  SnapshotsBehind'
<1> SUFFICES ASSUME NEW r \in Requests, NEW v \in users',
                    req'[r].stage = "found", req'[r].user.id = v.id
             PROVE  /\ req'[r].user.tokenVersion <= v.tokenVersion
                    /\ req'[r].user.tokenVersion = v.tokenVersion => req'[r].user = v
  BY DEF SnapshotsBehind
<1>1. TypeOK /\ TypeOK'
  BY TypeStep DEF IInv
<1>2. v \in User /\ v.id \in Nat /\ v.tokenVersion \in Nat
  BY <1>1, BoundsAssumption DEF TypeOK, StoreTypeOK, User, UserIds
<1>3. CASE req'[r] = req[r]
  <2>1. req[r].user.tokenVersion \in Nat /\ req[r].user.id <= lastUserId
    BY <1>1, <1>3, StageTypes, BoundsAssumption DEF IInv, IdsAllocated, Found, User
  <2>2. PICK u \in users : u.id = v.id /\ (v = u \/ v.tokenVersion > u.tokenVersion)
    BY <1>2, <1>3, <2>1, OldIdsMoveForward
  <2>3. u.tokenVersion \in Nat
    BY <1>1, BoundsAssumption DEF TypeOK, StoreTypeOK, User
  <2> QED BY <1>2, <1>3, <2>1, <2>2, <2>3 DEF IInv, SnapshotsBehind
<1>4. CASE req'[r].user \in users /\ UNCHANGED storeVars
  BY <1>2, <1>4 DEF IInv, UniqueAccounts, storeVars
<1> QED BY <1>1, <1>3, <1>4, SnapshotOrigin

LEMMA TokensBehindStep ==
    ASSUME IInv, [Next]_vars
    PROVE  TokensBehind'
<1> DEFINE Agrees(t, v) == /\ v.email = t.email
                           /\ v.isAdmin = t.isAdmin
                           /\ t.bySetup \/ v.password = t.password
<1> SUFFICES ASSUME NEW t \in tokens', NEW v \in users', t.userId = v.id
             PROVE  /\ t.tokenVersion <= v.tokenVersion
                    /\ t.tokenVersion = v.tokenVersion => Agrees(t, v)
  BY DEF TokensBehind
<1>1. TypeOK /\ TypeOK'
  BY TypeStep DEF IInv
<1>2. /\ v.id \in Nat /\ v.tokenVersion \in Nat
      /\ t.tokenVersion \in Nat
  BY <1>1, BoundsAssumption DEF TypeOK, StoreTypeOK, User, UserIds, Token
<1>3. CASE t \in tokens
  <2>1. PICK u \in users : u.id = v.id /\ (v = u \/ v.tokenVersion > u.tokenVersion)
    BY <1>2, <1>3, OldIdsMoveForward DEF IInv, IdsAllocated
  <2>2. u.tokenVersion \in Nat
    BY <1>1, BoundsAssumption DEF TypeOK, StoreTypeOK, User
  <2>3. /\ t.tokenVersion <= u.tokenVersion
        /\ t.tokenVersion = u.tokenVersion => Agrees(t, u)
    BY <1>3, <2>1 DEF IInv, TokensBehind
  <2> QED BY <1>2, <2>1, <2>2, <2>3
<1>4. ASSUME UNCHANGED storeVars, NEW r \in Requests, req[r].stage = "found",
             PasswordProven(req[r]), t = GenerateJWT(req[r])
      PROVE  /\ t.tokenVersion <= v.tokenVersion
             /\ t.tokenVersion = v.tokenVersion => Agrees(t, v)
  <2>1. /\ t.userId = req[r].user.id
        /\ t.tokenVersion = req[r].user.tokenVersion
        /\ Agrees(t, req[r].user)
    BY <1>4 DEF GenerateJWT, PasswordProven
  <2>2. v \in users
    BY <1>4 DEF storeVars
  <2> QED BY <1>4, <2>1, <2>2 DEF IInv, SnapshotsBehind
<1> QED BY <1>1, <1>3, <1>4, TokenOrigin

LEMMA SetupHistoryStep ==
    ASSUME IInv, [Next]_vars
    PROVE  SetupHistory'
<1>1. ASSUME UNCHANGED setups PROVE SetupHistory'
  BY <1>1, AdminsStep DEF IInv, SetupHistory
<1>2. ASSUME NEW r \in Requests, SetupCreate(r) PROVE SetupHistory'
  <2>1. ~HasAdmins /\ setups' = setups + 1
    BY <1>2 DEF SetupCreate, CreateInitialAdmin, InitialAdminAllowed
  <2>2. setups = 0
    BY <2>1 DEF IInv, SetupHistory, TypeOK
  <2>3. HasAdmins'
    <3>1. NewRow(req[r].email, req[r].password, TRUE) \in users'
      BY <1>2 DEF SetupCreate, CreateInitialAdmin
    <3> QED BY <3>1 DEF NewRow, HasAdmins
  <2> QED BY <2>1, <2>2, <2>3 DEF SetupHistory
<1> QED
  BY <1>1, <1>2
  DEF Next, vars, LoginLookup, LoginNoAccount, SetupFetch, IssueToken, Authenticate, Validate,
      HandleCreateUser, HandleUpdateUser, HandleDeleteUser, HandleLogout, Reject, CliAddUser,
      HostsChange, TokenExpires, Restart

LEMMA IInvStep == IInv /\ [Next]_vars => IInv'
<1> SUFFICES ASSUME IInv, [Next]_vars PROVE IInv'
  OBVIOUS
<1>1. TypeOK'
  BY TypeStep DEF IInv
<1>2. UniqueAccounts'
  BY NextIsStoreStep DEF IInv, StoreStep, IdsBelowCounter, IdsAllocated
<1> QED
  BY <1>1, <1>2, IdsAllocatedStep, SnapshotsBehindStep, TokensBehindStep, SetupHistoryStep
  DEF IInv

LEMMA Invariance == Spec => []IInv
BY InitEstablishes, IInvStep, PTL DEF Spec

-----------------------------------------------------------------------------
(* The properties of Accounts                                              *)

\* First-run setup makes at most one account, ever (CreateInitialAdmin).
THEOREM SetupIsUnique == Spec => []AtMostOneSetup
<1>1. IInv => AtMostOneSetup
  BY DEF IInv, SetupHistory, AtMostOneSetup
<1> QED BY <1>1, Invariance, PTL

\* A session the server accepts has the role of its account and was opened
\* with the account's present password (UpdateUser, HandleLogin).
THEOREM SessionsAreCurrent == Spec => []SessionsReflectAccount
<1>1. IInv => SessionsReflectAccount
  BY DEF IInv, TokensBehind, SessionsReflectAccount, Accepted
<1> QED BY <1>1, Invariance, PTL

\* The last administrator is never lost (DeleteUser, UpdateUser).
THEOREM AdministratorsPersist == Spec => AdminPersists
<1>1. IInv /\ [Next]_vars => [HasAdmins => HasAdmins']_vars
  BY AdminsStep DEF IInv
<1> QED BY <1>1, Invariance, PTL DEF Spec, AdminPersists

\* A revoked token is never accepted again (AuthMiddleware, AUTOINCREMENT).
THEOREM RevocationIsFinal == Spec => RevokedStaysRevoked
<1> DEFINE Final == \A t \in tokens : ~Usable(t) => ~Usable(t)'
<1>1. ASSUME IInv, [Next]_vars PROVE Final
  <2> SUFFICES ASSUME NEW t \in tokens, ~Usable(t), Usable(t)' PROVE FALSE
    BY DEF Final
  <2>1. PICK v \in users' : t.userId = v.id /\ t.tokenVersion = v.tokenVersion
    BY DEF Usable, Accepted
  <2>2. /\ t.userId \in Nat /\ t.userId <= lastUserId
        /\ t.tokenVersion \in Nat
    BY <1>1, BoundsAssumption DEF IInv, TypeOK, Token, UserIds, IdsAllocated
  <2>3. PICK u \in users : u.id = v.id /\ (v = u \/ v.tokenVersion > u.tokenVersion)
    BY <1>1, <2>1, <2>2, OldIdsMoveForward
  <2>4. v # u
    BY <2>1, <2>3 DEF Usable, Accepted
  <2>5. t.tokenVersion <= u.tokenVersion /\ u.tokenVersion \in Nat
    BY <1>1, <2>1, <2>3, BoundsAssumption
    DEF IInv, TokensBehind, TypeOK, StoreTypeOK, User
  <2> QED BY <2>1, <2>2, <2>3, <2>4, <2>5
<1> HIDE DEF Final
<1>2. IInv /\ [Next]_vars => [Final]_vars
  BY <1>1
<1>3. Spec => [][Final]_vars
  BY <1>2, Invariance, PTL DEF Spec
<1> QED BY <1>3 DEF Final, RevokedStaysRevoked

\* A late logout leaves the sessions of later versions alone
\* (RevokeUserTokens).
THEOREM LogoutIsPrecise == Spec => LogoutRevokesOnlyItsVersion
<1> DEFINE Precise ==
      \A r \in Requests : LogoutPending(r) /\ req'[r] = Idle =>
          \A t \in tokens : Usable(t) /\ ~Usable(t)' =>
              t.userId = req[r].userId /\ t.tokenVersion = req[r].tokenVersion
<1>1. ASSUME TypeOK, [Next]_vars PROVE Precise
  <2> SUFFICES ASSUME NEW r \in Requests, LogoutPending(r), req'[r] = Idle,
                      NEW t \in tokens, Usable(t), ~Usable(t)'
               PROVE  t.userId = req[r].userId /\ t.tokenVersion = req[r].tokenVersion
    BY DEF Precise
  <2>1. req[r] # Idle /\ req[r].stage = "authorized" /\ req[r].op.kind = "logout"
    BY DEF LogoutPending
  <2>2. users' # users
    BY DEF Usable, Accepted
  <2>3. ASSUME NEW s \in Requests, Finish(s) PROVE s = r
    BY <2>1, <2>3 DEF Finish, TypeOK
  <2>4. ASSUME NEW s \in Requests, HandleLogout(s)
        PROVE  t.userId = req[r].userId /\ t.tokenVersion = req[r].tokenVersion
    <3>1. s = r
      BY <2>3, <2>4 DEF HandleLogout
    <3>2. PICK u \in users :
            /\ Revocable(u, req[r].userId, req[r].tokenVersion)
            /\ users' = (users \ {u}) \cup {[u EXCEPT !.tokenVersion = @ + 1]}
      BY <2>4, <3>1 DEF HandleLogout, RevokeUserTokens
    <3>3. PICK w \in users : t.userId = w.id /\ t.tokenVersion = w.tokenVersion
      BY DEF Usable, Accepted
    <3>4. w = u
      BY <3>2, <3>3 DEF Usable, Accepted
    <3> QED BY <3>2, <3>3, <3>4 DEF Revocable
  <2>5. ASSUME NEW s \in Requests,
               SetupCreate(s) \/ HandleCreateUser(s) \/ HandleUpdateUser(s) \/ HandleDeleteUser(s)
        PROVE  FALSE
    <3>1. CASE SetupCreate(s)
      BY <2>1, <3>1 DEF SetupCreate, Idle, TypeOK
    <3>2. CASE HandleCreateUser(s) \/ HandleUpdateUser(s) \/ HandleDeleteUser(s)
      BY <2>1, <2>3, <3>2 DEF HandleCreateUser, HandleUpdateUser, HandleDeleteUser
    <3> QED BY <2>5, <3>1, <3>2
  <2>6. ~CliAddUser
    BY <2>1 DEF CliAddUser
  <2> QED
    BY <1>1, <2>2, <2>4, <2>5, <2>6
    DEF Next, vars, LoginLookup, LoginNoAccount, SetupFetch, IssueToken, Authenticate,
        Validate, Reject, HostsChange, TokenExpires, Restart
<1> HIDE DEF Precise
<1>2. IInv /\ [Next]_vars => [Precise]_vars
  BY <1>1 DEF IInv
<1>3. Spec => [][Precise]_vars
  BY <1>2, Invariance, PTL DEF Spec
<1> QED BY <1>3 DEF Precise, LogoutRevokesOnlyItsVersion

\* A new account inherits no device row of a deleted one (DeleteUser,
\* AUTOINCREMENT).
THEOREM NewAccountsAreEmpty == Spec => NewAccountInheritsNothing
<1> DEFINE Fresh == \A u \in users' :
      (\A v \in users : v.id # u.id) => \A d \in userDevices : d.userId # u.id
<1>1. ASSUME IInv, [Next]_vars PROVE Fresh
  <2> SUFFICES ASSUME NEW u \in users', \A v \in users : v.id # u.id,
                      NEW d \in userDevices
               PROVE  d.userId # u.id
    BY DEF Fresh
  <2>1. u.id > lastUserId
    BY <1>1, NextIsStoreStep DEF IInv, StoreStep, RowsMoveForward
  <2>2. d.userId <= lastUserId /\ d.userId \in Nat /\ lastUserId \in Nat
    BY <1>1, BoundsAssumption
    DEF IInv, IdsAllocated, TypeOK, StoreTypeOK, UserDevice, UserIds
  <2> QED BY <2>1, <2>2
<1> HIDE DEF Fresh
<1>2. IInv /\ [Next]_vars => [Fresh]_vars
  BY <1>1
<1>3. Spec => [][Fresh]_vars
  BY <1>2, Invariance, PTL DEF Spec
<1> QED BY <1>3 DEF Fresh, NewAccountInheritsNothing

-----------------------------------------------------------------------------
(* Accounts implements Sessions                                            *)

\* At most one request is the one that made the first administrator.
OneBySetup ==
    /\ \A r \in Requests : BySetup(req[r]) => setups > 0
    /\ \A r, s \in Requests : BySetup(req[r]) /\ BySetup(req[s]) => r = s

LEMMA NotBySetup ==
    /\ ~BySetup(Idle)
    /\ \A q : q.stage \in {"idle", "missing", "setup", "authorized", "validated"} => ~BySetup(q)
BY DEF BySetup, Idle


\* A slot is rewritten: others owe what they owed.
LEMMA SlotRewritten ==
    ASSUME TypeOK, NEW r \in Requests, NEW q, req' = [req EXCEPT ![r] = q]
    PROVE  req'[r] = q /\ \A s \in Requests : s # r => req'[s] = req[s]
BY DEF TypeOK

\* Nothing is owed by the step of a request that neither did the setup nor
\* does it now.
LEMMA NothingOwed ==
    ASSUME TypeOK, NEW r \in Requests, NEW q, req' = [req EXCEPT ![r] = q],
           ~BySetup(req[r]), ~BySetup(q)
    PROVE  /\ OwedSignIns' = OwedSignIns
           /\ \A s \in Requests : BySetup(req'[s]) <=> BySetup(req[s])
<1>1. \A s \in Requests : BySetup(req'[s]) <=> BySetup(req[s])
  BY SlotRewritten
<1>2. \A s \in Requests : BySetup(req[s]) => req'[s] = req[s]
  BY SlotRewritten
<1> QED BY <1>1, <1>2 DEF OwedSignIns

\* When the request that did the setup ends, nothing is owed.
LEMMA FinishOwes ==
    ASSUME TypeOK, OneBySetup, NEW r \in Requests, Finish(r)
    PROVE  /\ \A s \in Requests : BySetup(req'[s]) => BySetup(req[s])
           /\ IF BySetup(req[r])
              THEN OwedSignIns = {OwedTo(req[r])} /\ OwedSignIns' = {}
              ELSE OwedSignIns' = OwedSignIns
<1>1. req' = [req EXCEPT ![r] = Idle]
  BY DEF Finish
<1>2. req'[r] = Idle /\ \A s \in Requests : s # r => req'[s] = req[s]
  BY <1>1, SlotRewritten
<1>3. \A s \in Requests : BySetup(req'[s]) => BySetup(req[s]) /\ s # r
  BY <1>2, NotBySetup
<1>4. CASE BySetup(req[r])
  <2>1. \A s \in Requests : BySetup(req[s]) => s = r
    BY <1>4 DEF OneBySetup
  <2>2. \A s \in Requests : ~BySetup(req'[s])
    BY <1>3, <2>1
  <2>3. OwedSignIns = {OwedTo(req[r])}
    BY <1>4, <2>1 DEF OwedSignIns
  <2>4. OwedSignIns' = {}
    BY <2>2 DEF OwedSignIns
  <2> QED BY <1>3, <1>4, <2>3, <2>4
<1>5. CASE ~BySetup(req[r])
  BY <1>1, <1>3, <1>5, NothingOwed, NotBySetup
<1> QED BY <1>4, <1>5

\* The steps in which a request only goes on reading.
Reads(r) ==
    LoginLookup(r) \/ LoginNoAccount(r) \/ Authenticate(r) \/ Validate(r)

LEMMA ReadsEffect ==
    ASSUME TypeOK, NEW r \in Requests, Reads(r)
    PROVE  /\ UNCHANGED <<users, tokens, setups>>
           /\ OwedSignIns' = OwedSignIns
           /\ \A s \in Requests : BySetup(req'[s]) <=> BySetup(req[s])
<1>1. UNCHANGED <<users, tokens, setups>>
  BY DEF Reads, LoginLookup, LoginNoAccount, Authenticate, Validate
<1>2. \E q : req' = [req EXCEPT ![r] = q] /\ ~BySetup(q)
  <2>1. CASE LoginLookup(r)
    <3>1. \A u, p : ~BySetup([stage |-> "found", user |-> u, password |-> p, bySetup |-> FALSE])
      BY DEF BySetup
    <3>2. \A e, p : ~BySetup([stage |-> "missing", email |-> e, password |-> p])
      BY DEF BySetup
    <3> QED BY <2>1, <3>1, <3>2 DEF LoginLookup
  <2>2. CASE LoginNoAccount(r)
    <3> DEFINE q == [req[r] EXCEPT !.stage = "setup"]
    <3>1. req[r] \in Login
      BY <2>2, StageTypes DEF LoginNoAccount
    <3>2. q.stage = "setup"
      BY <3>1 DEF Login
    <3>3. req' = [req EXCEPT ![r].stage = "setup"]
      BY <2>2 DEF LoginNoAccount
    <3> HIDE DEF q
    <3>4. ~BySetup(q)
      BY <3>2, NotBySetup
    <3>5. req' = [req EXCEPT ![r] = q]
      BY <3>3 DEF q
    <3> QED BY <3>4, <3>5
  <2>3. CASE Authenticate(r)
    <3>1. \A id, version, op :
            ~BySetup([stage |-> "authorized", userId |-> id, tokenVersion |-> version, op |-> op])
      BY DEF BySetup
    <3> QED BY <2>3, <3>1 DEF Authenticate
  <2>4. CASE Validate(r)
    <3> DEFINE q == [req[r] EXCEPT !.stage = "validated"]
    <3>1. req[r] \in Session
      BY <2>4, StageTypes DEF Validate
    <3>2. q.stage = "validated"
      BY <3>1 DEF Session
    <3>3. req' = [req EXCEPT ![r].stage = "validated"]
      BY <2>4 DEF Validate
    <3> HIDE DEF q
    <3>4. ~BySetup(q)
      BY <3>2, NotBySetup
    <3>5. req' = [req EXCEPT ![r] = q]
      BY <3>3 DEF q
    <3> QED BY <3>4, <3>5
  <2> QED BY <2>1, <2>2, <2>3, <2>4 DEF Reads
<1>3. ~BySetup(req[r])
  BY NotBySetup DEF Reads, LoginLookup, LoginNoAccount, Authenticate, Validate
<1> QED BY <1>1, <1>2, <1>3, NothingOwed

LEMMA SetupFetchEffect ==
    ASSUME TypeOK, NEW r \in Requests, SetupFetch(r)
    PROVE  /\ UNCHANGED <<users, tokens, setups>>
           /\ OwedSignIns' = OwedSignIns
           /\ \A s \in Requests : BySetup(req'[s]) <=> BySetup(req[s])
<1>1. PICK u \in users :
        /\ u.email = req[r].email
        /\ req' = [req EXCEPT ![r] = [stage |-> "found", user |-> u,
                                      password |-> req[r].password, bySetup |-> TRUE]]
  BY DEF SetupFetch
<1> DEFINE q == [stage |-> "found", user |-> u, password |-> req[r].password, bySetup |-> TRUE]
<1>2. /\ req[r].stage = "created"
      /\ UNCHANGED <<users, tokens, setups>>
  BY DEF SetupFetch
<1>3. BySetup(req[r]) /\ BySetup(q)
  BY <1>2 DEF BySetup
<1>4. OwedTo(q) = OwedTo(req[r])
  BY <1>1, <1>2 DEF OwedTo
<1> HIDE DEF q
<1>5. req'[r] = q /\ \A s \in Requests : s # r => req'[s] = req[s]
  BY <1>1, SlotRewritten DEF q
<1>6. \A s \in Requests : /\ BySetup(req'[s]) <=> BySetup(req[s])
                          /\ OwedTo(req'[s]) = OwedTo(req[s])
  BY <1>3, <1>4, <1>5
<1>7. OwedSignIns' = OwedSignIns
  BY <1>6 DEF OwedSignIns
<1> QED BY <1>2, <1>6, <1>7

LEMMA SetupCreateEffect ==
    ASSUME IInv, OneBySetup, NEW r \in Requests, SetupCreate(r)
    PROVE  /\ setups = 0 /\ setups' = 1
           /\ OwedSignIns' = {[email |-> req[r].email, password |-> req[r].password]}
           /\ \A s \in Requests : BySetup(req'[s]) => s = r
<1>1. /\ ~HasAdmins /\ setups' = setups + 1
      /\ req' = [req EXCEPT ![r].stage = "created"]
      /\ TypeOK
      /\ req[r].stage = "setup"
  BY DEF SetupCreate, CreateInitialAdmin, InitialAdminAllowed, IInv
<1>2. setups = 0
  BY <1>1 DEF IInv, SetupHistory, TypeOK
<1>3. \A s \in Requests : ~BySetup(req[s])
  BY <1>2 DEF OneBySetup
<1> DEFINE q == [req[r] EXCEPT !.stage = "created"]
<1>4. req[r] \in Login
  BY <1>1, StageTypes
<1>5. q.stage = "created" /\ q.email = req[r].email /\ q.password = req[r].password
  BY <1>4 DEF Login
<1> HIDE DEF q
<1>6. req'[r] = q /\ \A s \in Requests : s # r => req'[s] = req[s]
  BY <1>1, SlotRewritten DEF q
<1>7. BySetup(q) /\ OwedTo(q) = [email |-> req[r].email, password |-> req[r].password]
  BY <1>5 DEF BySetup, OwedTo
<1>8. \A s \in Requests : BySetup(req'[s]) <=> s = r
  BY <1>3, <1>6, <1>7
<1>9. OwedSignIns' = {OwedTo(q)}
  BY <1>6, <1>8 DEF OwedSignIns
<1> QED BY <1>1, <1>2, <1>7, <1>8, <1>9

LEMMA RestartEffect ==
    ASSUME Restart
    PROVE  OwedSignIns' = {} /\ \A s \in Requests : ~BySetup(req'[s])
<1>1. \A s \in Requests : ~BySetup(req'[s])
  BY NotBySetup DEF Restart
<1> QED BY <1>1 DEF OwedSignIns

\* The steps that end a request, apart from those of setup.
Ends(r) ==
    \/ IssueToken(r)
    \/ HandleCreateUser(r)
    \/ HandleUpdateUser(r)
    \/ HandleDeleteUser(r)
    \/ HandleLogout(r)
    \/ Reject(r)

LEMMA OneBySetupStep ==
    ASSUME IInv, OneBySetup, [Next]_vars
    PROVE  OneBySetup'
<1>0. TypeOK
  BY DEF IInv
<1>1. ASSUME setups' = setups, \A s \in Requests : BySetup(req'[s]) => BySetup(req[s])
      PROVE  OneBySetup'
  BY <1>1 DEF OneBySetup
<1>2. ASSUME UNCHANGED <<req, setups>> PROVE OneBySetup'
  BY <1>1, <1>2
<1>3. ASSUME NEW r \in Requests, SetupCreate(r) PROVE OneBySetup'
  BY <1>3, SetupCreateEffect DEF OneBySetup
<1>4. ASSUME NEW r \in Requests, Ends(r) PROVE OneBySetup'
  <2>1. Finish(r) /\ setups' = setups
    BY <1>4 DEF Ends, IssueToken, HandleCreateUser, HandleUpdateUser, HandleDeleteUser,
                HandleLogout, Reject
  <2> QED BY <1>0, <1>1, <2>1, FinishOwes
<1>5. ASSUME NEW r \in Requests, Reads(r) PROVE OneBySetup'
  BY <1>0, <1>1, <1>5, ReadsEffect
<1>6. ASSUME NEW r \in Requests, SetupFetch(r) PROVE OneBySetup'
  BY <1>0, <1>1, <1>6, SetupFetchEffect
<1>7. ASSUME Restart PROVE OneBySetup'
  <2>1. setups' = setups
    BY <1>7 DEF Restart
  <2> QED BY <1>1, <1>7, <2>1, RestartEffect
<1>8. ASSUME CliAddUser \/ HostsChange \/ TokenExpires PROVE OneBySetup'
  BY <1>2, <1>8 DEF CliAddUser, HostsChange, TokenExpires
<1> QED
  BY <1>2, <1>3, <1>4, <1>5, <1>6, <1>7, <1>8 DEF Next, vars, Reads, Ends

\* What a token that is accepted says of its account.
LEMMA AcceptedAgrees ==
    ASSUME IInv, NEW t \in tokens, NEW u \in users, Accepted(t, u)
    PROVE  t.email = u.email
BY DEF IInv, TokensBehind, Accepted

LEMMA SameSessions ==
    ASSUME tokens' = tokens, \A t \in tokens : Usable(t)' <=> Usable(t)
    PROVE  OpenSessions' = OpenSessions
BY DEF OpenSessions

LEMMA RowsUnchanged ==
    ASSUME UNCHANGED users
    PROVE  /\ AccountsHeld' = AccountsHeld
           /\ \A t : Usable(t)' <=> Usable(t)
BY DEF AccountsHeld, Usable

\* Nobody is signed in to a row with an id that was never used.
LEMMA InsertOpens ==
    ASSUME IInv, tokens' = tokens, NEW w, w.id = NewUserId, users' = users \cup {w}
    PROVE  /\ OpenSessions' = OpenSessions
           /\ AccountsHeld' = AccountsHeld \cup {AccountOf(w)}
<1>1. \A t \in tokens : t.userId # w.id
  BY BoundsAssumption DEF IInv, IdsAllocated, TypeOK, StoreTypeOK, Token, UserIds, NewUserId
<1>2. \A t \in tokens : Usable(t)' <=> Usable(t)
  BY <1>1 DEF Usable, Accepted
<1>3. AccountsHeld' = AccountsHeld \cup {AccountOf(w)}
  BY DEF AccountsHeld
<1> QED BY <1>2, <1>3, SameSessions

\* The sessions of a row end when it goes, or gets a greater version.
LEMMA RowChangeEnds ==
    ASSUME IInv, tokens' = tokens, NEW u \in users,
           \A w \in users : w # u => w \in users',
           \A w \in users' :
               \/ w \in users /\ w # u
               \/ w.id = u.id /\ w.tokenVersion > u.tokenVersion /\ w.tokenVersion \in Nat
    PROVE  OpenSessions' = Promise!Without(u.email)
<1>1. ASSUME NEW t \in tokens, Usable(t)'
      PROVE  Usable(t) /\ t.email # u.email
  <2>1. PICK w \in users' : Accepted(t, w)
    BY <1>1 DEF Usable
  <2>2. ~(w.id = u.id /\ w.tokenVersion > u.tokenVersion)
    <3>1. t.userId = u.id => t.tokenVersion <= u.tokenVersion
      BY DEF IInv, TokensBehind
    <3>2. u.tokenVersion \in Nat /\ t.tokenVersion \in Nat
      BY BoundsAssumption DEF IInv, TypeOK, StoreTypeOK, User, Token
    <3> QED BY <2>1, <3>1, <3>2 DEF Accepted
  <2>3. w \in users /\ w # u
    BY <2>2
  <2>4. t.email = w.email
    BY <2>1, <2>3, AcceptedAgrees
  <2>5. w.email # u.email
    BY <2>3 DEF IInv, UniqueAccounts
  <2> QED BY <2>1, <2>3, <2>4, <2>5 DEF Usable
<1>2. ASSUME NEW t \in tokens, Usable(t), t.email # u.email
      PROVE  Usable(t)'
  <2>1. PICK w \in users : Accepted(t, w)
    BY <1>2 DEF Usable
  <2>2. w # u
    BY <1>2, <2>1, AcceptedAgrees
  <2> QED BY <2>1, <2>2 DEF Usable, Accepted
<1>3. \A t : SessionOf(t).email = t.email
  BY DEF SessionOf
<1> QED BY <1>1, <1>2, <1>3 DEF OpenSessions, Promise!Without

\* Addresses tell accounts apart as they tell rows.
LEMMA AccountsAreRows ==
    ASSUME IInv, NEW u \in users
    PROVE  /\ AccountOf(u) \in AccountsHeld
           /\ AccountOf(u).email = u.email
           /\ AccountOf(u).isAdmin = u.isAdmin
           /\ \A w \in users : w # u => AccountOf(w) # AccountOf(u)
BY DEF IInv, UniqueAccounts, AccountOf, AccountsHeld

LEMMA ReplacedHeld ==
    ASSUME IInv, NEW u \in users, NEW v, users' = (users \ {u}) \cup {v}
    PROVE  AccountsHeld' = (AccountsHeld \ {AccountOf(u)}) \cup {AccountOf(v)}
BY AccountsAreRows DEF AccountsHeld

LEMMA DeletedHeld ==
    ASSUME IInv, NEW u \in users, users' = users \ {u}
    PROVE  AccountsHeld' = AccountsHeld \ {AccountOf(u)}
BY AccountsAreRows DEF AccountsHeld

LEMMA OthersAdminister ==
    ASSUME IInv, NEW u \in users, ~u.isAdmin \/ SeveralAdmins
    PROVE  Promise!Dispensable(AccountOf(u))
<1> SUFFICES ASSUME AccountOf(u).isAdmin
             PROVE  \E b \in AccountsHeld : b # AccountOf(u) /\ b.isAdmin
  BY DEF Promise!Dispensable
<1>1. PICK w \in users : w # u /\ w.isAdmin
  BY AccountsAreRows DEF SeveralAdmins
<1> QED BY <1>1, AccountsAreRows

-----------------------------------------------------------------------------
(* Every step of Accounts is one of Sessions, or changes nothing of it     *)

PromisedStep == Promise!SessionsNext \/ UNCHANGED <<AccountsHeld, OpenSessions, OwedSignIns>>

LEMMA SetupIsPromised ==
    ASSUME IInv, OneBySetup, NEW r \in Requests, SetupCreate(r)
    PROVE  Promise!Setup
<1> DEFINE e == req[r].email
           p == req[r].password
<1>1. e \in Emails /\ p \in Passwords
  BY StageTypes DEF IInv, SetupCreate, Login
<1>2. /\ ~HasAdmins /\ EmailFree(e)
      /\ users' = users \cup {NewRow(e, p, TRUE)}
      /\ tokens' = tokens
  BY DEF SetupCreate, CreateInitialAdmin, InitialAdminAllowed
<1>3. NewRow(e, p, TRUE).id = NewUserId
  BY DEF NewRow
<1>4. AccountOf(NewRow(e, p, TRUE)) = [email |-> e, password |-> p, isAdmin |-> TRUE]
  BY DEF NewRow, AccountOf
<1>5. /\ OpenSessions' = OpenSessions
      /\ AccountsHeld' = AccountsHeld \cup {[email |-> e, password |-> p, isAdmin |-> TRUE]}
  BY <1>2, <1>3, <1>4, InsertOpens
<1>6. OwedSignIns' = {[email |-> e, password |-> p]}
  BY SetupCreateEffect
<1>7. ~Promise!Administered /\ Promise!Free(e)
  BY <1>2, AccountsAreRows DEF Promise!Administered, Promise!Free, HasAdmins, EmailFree,
     AccountsHeld, AccountOf
<1> HIDE DEF e, p
<1> QED BY <1>1, <1>5, <1>6, <1>7 DEF Promise!Setup

LEMMA CreateIsPromised ==
    ASSUME IInv, NEW e \in Emails, NEW p \in Passwords, NEW a \in BOOLEAN, NEW ds,
           CreateUser(e, p, a, ds), tokens' = tokens, OwedSignIns' = OwedSignIns
    PROVE  Promise!Create
<1> DEFINE b == AccountOf(NewRow(e, p, a))
<1>1. EmailFree(e) /\ users' = users \cup {NewRow(e, p, a)}
  BY DEF CreateUser
<1>2. NewRow(e, p, a).id = NewUserId
  BY DEF NewRow
<1>3. b \in Promise!Account /\ b.email = e
  BY DEF NewRow, AccountOf, Promise!Account
<1>4. OpenSessions' = OpenSessions /\ AccountsHeld' = AccountsHeld \cup {b}
  BY <1>1, <1>2, InsertOpens
<1>5. Promise!Free(b.email)
  BY <1>1, <1>3 DEF Promise!Free, EmailFree, AccountsHeld, AccountOf
<1> HIDE DEF b
<1> QED BY <1>3, <1>4, <1>5 DEF Promise!Create

LEMMA UpdateIsPromised ==
    ASSUME IInv, NEW id \in UserIds,
           NEW p \in {Omitted} \cup Passwords, NEW a \in {Omitted} \cup BOOLEAN,
           NEW ds \in {OmittedList} \cup SUBSET Devices,
           UpdateUser(id, p, a, ds), tokens' = tokens, OwedSignIns' = OwedSignIns
    PROVE  PromisedStep
<1>1. PICK u \in users :
        /\ a = FALSE => ~u.isAdmin \/ SeveralAdmins
        /\ UpdatedRow(u, p, a).tokenVersion <= MaxTokenVersion
        /\ users' = (users \ {u}) \cup {UpdatedRow(u, p, a)}
  BY DEF UpdateUser
<1> DEFINE v == UpdatedRow(u, p, a)
<1>2. u \in User /\ v \in User
  BY <1>1, UpdatedRowFacts DEF IInv, TypeOK, StoreTypeOK
<1>3. /\ v.id = u.id /\ v.email = u.email
      /\ v = u \/ v.tokenVersion > u.tokenVersion
  BY <1>1, <1>2, UpdatedRowFacts
<1>4. ~v.isAdmin => ~u.isAdmin \/ SeveralAdmins
  BY <1>1, <1>2 DEF UpdatedRow, User
<1> HIDE DEF v
<1>5. users' = (users \ {u}) \cup {v}
  BY <1>1 DEF v
<1>6. CASE v = u
  <2>1. users' = users
    BY <1>5, <1>6
  <2>2. OpenSessions' = OpenSessions
    BY <2>1, RowsUnchanged, SameSessions
  <2> QED BY <2>1, <2>2, RowsUnchanged DEF PromisedStep
<1>7. CASE v # u
  <2>1. v.tokenVersion \in Nat /\ v.tokenVersion > u.tokenVersion
    BY <1>2, <1>3, <1>7, BoundsAssumption DEF User
  <2>2. OpenSessions' = Promise!Without(u.email)
    BY <1>3, <1>5, <2>1, RowChangeEnds
  <2>3. AccountsHeld' = (AccountsHeld \ {AccountOf(u)}) \cup {AccountOf(v)}
    BY <1>5, ReplacedHeld
  <2>4. v.password \in Passwords /\ v.isAdmin \in BOOLEAN
    BY <1>2 DEF User
  <2>5. AccountOf(v) = [email |-> u.email, password |-> v.password, isAdmin |-> v.isAdmin]
    BY <1>3 DEF AccountOf
  <2>6. ~v.isAdmin => Promise!Dispensable(AccountOf(u))
    BY <1>4, OthersAdminister
  <2>7. AccountOf(u) \in AccountsHeld /\ AccountOf(u).email = u.email
    BY AccountsAreRows
  <2>8. Promise!Change
    BY <2>2, <2>3, <2>4, <2>5, <2>6, <2>7 DEF Promise!Change
  <2> QED BY <2>8 DEF PromisedStep, Promise!SessionsNext
<1> QED BY <1>6, <1>7

LEMMA DeleteIsPromised ==
    ASSUME IInv, NEW id, DeleteUser(id), tokens' = tokens, OwedSignIns' = OwedSignIns
    PROVE  Promise!Delete
<1>1. PICK u \in users : (~u.isAdmin \/ SeveralAdmins) /\ users' = users \ {u}
  BY DEF DeleteUser
<1>2. OpenSessions' = Promise!Without(u.email)
  BY <1>1, RowChangeEnds
<1>3. AccountsHeld' = AccountsHeld \ {AccountOf(u)}
  BY <1>1, DeletedHeld
<1>4. AccountOf(u) \in AccountsHeld /\ AccountOf(u).email = u.email
  BY AccountsAreRows
<1>5. Promise!Dispensable(AccountOf(u))
  BY <1>1, OthersAdminister
<1> QED BY <1>2, <1>3, <1>4, <1>5 DEF Promise!Delete

LEMMA LogoutIsPromised ==
    ASSUME IInv, NEW id, NEW version, RevokeUserTokens(id, version), tokens' = tokens,
           OwedSignIns' = OwedSignIns
    PROVE  Promise!SignOut
<1>1. PICK u \in users : users' = (users \ {u}) \cup {[u EXCEPT !.tokenVersion = @ + 1]}
  BY DEF RevokeUserTokens
<1> DEFINE v == [u EXCEPT !.tokenVersion = @ + 1]
<1>2. /\ v.id = u.id /\ v.tokenVersion > u.tokenVersion /\ v.tokenVersion \in Nat
      /\ AccountOf(v) = AccountOf(u)
  BY BoundsAssumption DEF IInv, TypeOK, StoreTypeOK, User, AccountOf
<1> HIDE DEF v
<1>3. users' = (users \ {u}) \cup {v}
  BY <1>1 DEF v
<1>4. OpenSessions' = Promise!Without(u.email)
  BY <1>2, <1>3, RowChangeEnds
<1>5. AccountOf(u) \in AccountsHeld /\ AccountOf(u).email = u.email
  BY AccountsAreRows
<1>6. AccountsHeld' = AccountsHeld
  BY <1>2, <1>3, <1>5, ReplacedHeld
<1> QED BY <1>4, <1>5, <1>6 DEF Promise!SignOut

\* A token for what has changed opens nothing; any other is one for the
\* account as it is.
LEMMA IssueIsPromised ==
    ASSUME IInv, OneBySetup, NEW r \in Requests, IssueToken(r)
    PROVE  PromisedStep
<1> DEFINE q == req[r]
           t == GenerateJWT(q)
<1>1. /\ q.stage = "found" /\ PasswordProven(q)
      /\ tokens' = tokens \cup {t}
      /\ Finish(r)
      /\ users' = users
  BY DEF IssueToken
<1>2. TypeOK /\ q \in Found
  BY <1>1, StageTypes DEF IInv
<1>3. /\ t.userId = q.user.id /\ t.tokenVersion = q.user.tokenVersion
      /\ SessionOf(t) = [email |-> q.user.email, password |-> q.password, isAdmin |-> q.user.isAdmin]
  BY DEF GenerateJWT, SessionOf
<1>4. AccountsHeld' = AccountsHeld /\ \A s : Usable(s)' <=> Usable(s)
  BY <1>1, RowsUnchanged
<1>5. BySetup(q) <=> q.bySetup
  BY <1>1 DEF BySetup
<1>6. IF BySetup(q)
      THEN OwedSignIns = {OwedTo(q)} /\ OwedSignIns' = {}
      ELSE OwedSignIns' = OwedSignIns
  BY <1>1, <1>2, FinishOwes
<1> HIDE DEF t
<1>7. CASE ~Usable(t)
  <2>1. OpenSessions' = OpenSessions
    BY <1>1, <1>4, <1>7 DEF OpenSessions
  <2> QED BY <1>4, <1>6, <2>1 DEF PromisedStep, Promise!SessionsNext, Promise!SetupGivesUp
<1>8. CASE Usable(t)
  <2>1. PICK u \in users : t.userId = u.id /\ t.tokenVersion = u.tokenVersion
    BY <1>8 DEF Usable, Accepted
  <2>2. q.user = u
    BY <1>1, <1>3, <2>1 DEF IInv, SnapshotsBehind
  <2>3. OpenSessions' = OpenSessions \cup {SessionOf(t)}
    BY <1>1, <1>4, <1>8 DEF OpenSessions
  <2>4. AccountOf(u) \in AccountsHeld /\ AccountOf(u).email = u.email
    BY AccountsAreRows
  <2>5. CASE q.bySetup
    <3>1. SessionOf(t) = [AccountOf(u) EXCEPT !.password = OwedTo(q).password]
      BY <1>1, <1>3, <2>2 DEF AccountOf, OwedTo
    <3>2. OwedTo(q).email = u.email
      BY <1>1, <2>2 DEF OwedTo
    <3>3. OwedTo(q) \in OwedSignIns /\ OwedSignIns' = {}
      BY <1>5, <1>6, <2>5
    <3>4. Promise!SignInAfterSetup
      BY <1>4, <2>3, <2>4, <3>1, <3>2, <3>3 DEF Promise!SignInAfterSetup
    <3> QED BY <3>4 DEF PromisedStep, Promise!SessionsNext
  <2>6. CASE ~q.bySetup
    <3>1. SessionOf(t) = AccountOf(u)
      BY <1>1, <1>3, <2>2, <2>6 DEF AccountOf, PasswordProven
    <3>2. OwedSignIns' = OwedSignIns
      BY <1>5, <1>6, <2>6
    <3>3. Promise!SignIn
      BY <1>4, <2>3, <2>4, <3>1, <3>2 DEF Promise!SignIn
    <3> QED BY <3>3 DEF PromisedStep, Promise!SessionsNext
  <2> QED BY <2>5, <2>6
<1> QED BY <1>7, <1>8

LEMMA ExpiryIsPromised ==
    ASSUME TokenExpires
    PROVE  PromisedStep
<1>1. PICK t \in tokens : tokens' = tokens \ {t}
  BY DEF TokenExpires
<1>2. AccountsHeld' = AccountsHeld /\ \A s : Usable(s)' <=> Usable(s)
  BY RowsUnchanged DEF TokenExpires
<1>3. OwedSignIns' = OwedSignIns
  BY DEF TokenExpires, OwedSignIns
<1>4. OpenSessions' = {SessionOf(s) : s \in {s \in tokens \ {t} : Usable(s)}}
  BY <1>1, <1>2 DEF OpenSessions
<1>5. OpenSessions' = OpenSessions \/ OpenSessions' = OpenSessions \ {SessionOf(t)}
  BY <1>4 DEF OpenSessions
<1>6. OpenSessions' # OpenSessions => SessionOf(t) \in OpenSessions
  BY <1>5
<1> QED BY <1>2, <1>3, <1>5, <1>6 DEF PromisedStep, Promise!SessionsNext, Promise!Expire

LEMMA StepIsPromised ==
    ASSUME IInv, OneBySetup, [Next]_vars
    PROVE  PromisedStep
<1>0. TypeOK
  BY DEF IInv
<1>1. ASSUME UNCHANGED <<users, tokens>>, OwedSignIns' = OwedSignIns
      PROVE  PromisedStep
  <2>1. OpenSessions' = OpenSessions
    BY <1>1, RowsUnchanged, SameSessions
  <2> QED BY <1>1, <2>1, RowsUnchanged DEF PromisedStep
<1>2. ASSUME UNCHANGED <<users, tokens>>, OwedSignIns' = {}
      PROVE  PromisedStep
  <2>1. OpenSessions' = OpenSessions
    BY <1>2, RowsUnchanged, SameSessions
  <2> QED BY <1>2, <2>1, RowsUnchanged DEF PromisedStep, Promise!SessionsNext, Promise!SetupGivesUp
<1>3. ASSUME UNCHANGED req PROVE OwedSignIns' = OwedSignIns
  BY <1>3 DEF OwedSignIns
<1>4. ASSUME NEW r \in Requests, ~BySetup(req[r]), Finish(r) PROVE OwedSignIns' = OwedSignIns
  BY <1>0, <1>4, FinishOwes
<1>5. ASSUME NEW r \in Requests, SetupCreate(r) PROVE PromisedStep
  BY <1>5, SetupIsPromised DEF PromisedStep, Promise!SessionsNext
<1>6. ASSUME NEW r \in Requests, IssueToken(r) PROVE PromisedStep
  BY <1>6, IssueIsPromised
<1>7. ASSUME NEW r \in Requests, HandleCreateUser(r) PROVE PromisedStep
  <2>1. req[r].op \in CreateOp
    BY <1>0, <1>7, StageTypes, OperationTypes DEF HandleCreateUser, Session
  <2>2. OwedSignIns' = OwedSignIns /\ tokens' = tokens
    BY <1>4, <1>7, NotBySetup DEF HandleCreateUser
  <2>3. Promise!Create
    BY <1>7, <2>1, <2>2, CreateIsPromised DEF HandleCreateUser, CreateOp
  <2> QED BY <2>3 DEF PromisedStep, Promise!SessionsNext
<1>8. ASSUME NEW r \in Requests, HandleUpdateUser(r) PROVE PromisedStep
  <2>1. req[r].op \in UpdateOp
    BY <1>0, <1>8, StageTypes, OperationTypes DEF HandleUpdateUser, Session
  <2>2. OwedSignIns' = OwedSignIns /\ tokens' = tokens
    BY <1>4, <1>8, NotBySetup DEF HandleUpdateUser
  <2> QED BY <1>8, <2>1, <2>2, UpdateIsPromised DEF HandleUpdateUser, UpdateOp
<1>9. ASSUME NEW r \in Requests, HandleDeleteUser(r) PROVE PromisedStep
  <2>1. OwedSignIns' = OwedSignIns /\ tokens' = tokens
    BY <1>4, <1>9, NotBySetup DEF HandleDeleteUser
  <2>2. Promise!Delete
    BY <1>9, <2>1, DeleteIsPromised DEF HandleDeleteUser
  <2> QED BY <2>2 DEF PromisedStep, Promise!SessionsNext
<1>10. ASSUME NEW r \in Requests, HandleLogout(r) PROVE PromisedStep
  <2>1. OwedSignIns' = OwedSignIns /\ tokens' = tokens
    BY <1>4, <1>10, NotBySetup DEF HandleLogout
  <2>2. Promise!SignOut
    BY <1>10, <2>1, LogoutIsPromised DEF HandleLogout
  <2> QED BY <2>2 DEF PromisedStep, Promise!SessionsNext
<1>11. ASSUME NEW r \in Requests, Reject(r) PROVE PromisedStep
  <2>1. UNCHANGED <<users, tokens>> /\ Finish(r)
    BY <1>11 DEF Reject
  <2>2. OwedSignIns' = OwedSignIns \/ OwedSignIns' = {}
    BY <1>0, <2>1, FinishOwes
  <2> QED BY <1>1, <1>2, <2>1, <2>2
<1>12. ASSUME NEW r \in Requests, Reads(r) \/ SetupFetch(r) PROVE PromisedStep
  BY <1>0, <1>1, <1>12, ReadsEffect, SetupFetchEffect
<1>13. ASSUME CliAddUser PROVE PromisedStep
  <2>1. Promise!Create
    BY <1>3, <1>13, CreateIsPromised DEF CliAddUser
  <2> QED BY <2>1 DEF PromisedStep, Promise!SessionsNext
<1>14. ASSUME HostsChange PROVE PromisedStep
  BY <1>1, <1>3, <1>14 DEF HostsChange
<1>15. ASSUME Restart PROVE PromisedStep
  BY <1>2, <1>15, RestartEffect DEF Restart
<1>16. ASSUME UNCHANGED vars PROVE PromisedStep
  BY <1>1, <1>3, <1>16 DEF vars
<1> QED
  BY <1>5, <1>6, <1>7, <1>8, <1>9, <1>10, <1>11, <1>12, <1>13, <1>14, <1>15, <1>16,
     ExpiryIsPromised
  DEF Next, Reads

\* The handlers, with all that lies between what they read and what they do,
\* are as good as operations that happen at once (auth_handlers.go,
\* admin_handlers.go, users.go, auth.go).
THEOREM Implementation == Spec => ImplementsSessions
<1>1. Init => Promise!SessionsInit /\ OneBySetup
  <2> SUFFICES ASSUME Init PROVE Promise!SessionsInit /\ OneBySetup
    OBVIOUS
  <2>1. users = {} /\ tokens = {} /\ \A r \in Requests : req[r] = Idle
    BY DEF Init, StoreInit
  <2>2. \A r \in Requests : ~BySetup(req[r])
    BY <2>1, NotBySetup
  <2>3. AccountsHeld = {} /\ OpenSessions = {} /\ OwedSignIns = {}
    BY <2>1, <2>2 DEF AccountsHeld, OpenSessions, OwedSignIns
  <2> QED BY <2>2, <2>3 DEF Promise!SessionsInit, OneBySetup
<1>2. IInv /\ OneBySetup /\ [Next]_vars =>
          OneBySetup' /\ [Promise!SessionsNext]_(Promise!sessionVars)
  BY OneBySetupStep, StepIsPromised DEF PromisedStep, Promise!sessionVars
<1> QED
  BY <1>1, <1>2, Invariance, PTL DEF Spec, ImplementsSessions, Promise!SessionsSpec

=============================================================================
