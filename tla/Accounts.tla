------------------------------ MODULE Accounts ------------------------------
(***************************************************************************)
(* Sign-in, first-run setup, sessions and account administration: the      *)
(* handlers of backend/internal/server and the middleware and tokens of    *)
(* backend/internal/auth, over the repository of module Store.             *)
(*                                                                         *)
(* Every request runs in a goroutine of its own.  A step of a request is   *)
(* the stretch of its handler between two accesses to shared state, so     *)
(* what a handler read may be stale when it acts on it: the row a login    *)
(* fetched before bcrypt, the context AuthMiddleware attached, the device  *)
(* list a request was validated against.                                   *)
(***************************************************************************)
EXTENDS Store, FiniteSets

CONSTANTS
    LongPasswords,   \* those of at least MinimumPasswordLength characters
    Requests,        \* slots for requests being served at the same time
    Operations,      \* the authenticated requests clients send
    MaxTokens        \* bound: issued tokens that have not expired

ASSUME LongPasswordsAssumption == LongPasswords \subseteq Passwords

VARIABLES
    req,             \* what each slot is doing
    tokens,          \* signed, unexpired JWTs, wherever they are stored
    configured,      \* device ids of the host list LoadHosts returns
    setups           \* history: administrators created by first-run setup

vars == <<users, userDevices, lastUserId, req, tokens, configured, setups>>

CreateOp == [kind : {"create"}, email : Emails, password : Passwords,
             isAdmin : BOOLEAN, devices : SUBSET Devices]
UpdateOp == [kind : {"update"}, id : UserIds, password : {Omitted} \cup Passwords,
             isAdmin : {Omitted} \cup BOOLEAN, devices : {OmittedList} \cup SUBSET Devices]
DeleteOp == [kind : {"delete"}, id : UserIds]
LogoutOp == [kind : {"logout"}]

Operation == CreateOp \cup UpdateOp \cup DeleteOp \cup LogoutOp

ASSUME OperationsAssumption == Operations \subseteq Operation

(***************************************************************************)
(* A request in progress.  "missing": GetUserByEmail failed; "setup": no   *)
(* administrator was seen; "created": the first administrator is inserted; *)
(* "found": holds the row the token will be made from (bySetup: no         *)
(* password check follows); "authorized" and "validated": past the         *)
(* middleware, and past the validation of the body.                        *)
(***************************************************************************)
Idle == [stage |-> "idle"]
Login == [stage : {"missing", "setup", "created"}, email : Emails, password : Passwords]
Found == [stage : {"found"}, user : User, password : Passwords, bySetup : BOOLEAN]
Session == [stage : {"authorized", "validated"}, userId : UserIds,
            tokenVersion : 0..MaxTokenVersion, op : Operations]

\* The claims are userId (subject) and tokenVersion.  The rest is history:
\* what the login knew of the account when the token was signed.
Token == [userId : UserIds, tokenVersion : 0..MaxTokenVersion, email : Emails,
          password : Passwords, isAdmin : BOOLEAN, bySetup : BOOLEAN]

TypeOK ==
    /\ StoreTypeOK
    /\ req \in [Requests -> {Idle} \cup Login \cup Found \cup Session]
    /\ tokens \subseteq Token
    /\ configured \subseteq Devices
    /\ setups \in Nat

Init ==
    /\ StoreInit
    /\ req = [r \in Requests |-> Idle]
    /\ tokens = {}
    /\ configured \in SUBSET Devices
    /\ setups = 0

Finish(r) == req' = [req EXCEPT ![r] = Idle]

-----------------------------------------------------------------------------
(* Login and first-run setup                                               *)

\* The lookup by email.  Any error of the query, not only "no such row", is
\* taken for an unknown account.
LoginLookup(r) ==
    /\ req[r] = Idle
    /\ \E e \in Emails, p \in Passwords :
        \/ \E u \in users :
            /\ u.email = e
            /\ req' = [req EXCEPT ![r] = [stage |-> "found", user |-> u,
                                          password |-> p, bySetup |-> FALSE]]
        \/ req' = [req EXCEPT ![r] = [stage |-> "missing", email |-> e, password |-> p]]
    /\ UNCHANGED <<users, userDevices, lastUserId, tokens, configured, setups>>

\* Only without any administrator does an unknown account start the setup.
LoginNoAccount(r) ==
    /\ req[r].stage = "missing"
    /\ ~HasAdmins
    /\ req[r].password \in LongPasswords
    /\ req' = [req EXCEPT ![r].stage = "setup"]
    /\ UNCHANGED <<users, userDevices, lastUserId, tokens, configured, setups>>

SetupCreate(r) ==
    /\ req[r].stage = "setup"
    /\ CreateInitialAdmin(req[r].email, req[r].password)
    /\ setups' = setups + 1
    /\ req' = [req EXCEPT ![r].stage = "created"]
    /\ UNCHANGED <<tokens, configured>>

SetupFetch(r) ==
    /\ req[r].stage = "created"
    /\ \E u \in users :
        /\ u.email = req[r].email
        /\ req' = [req EXCEPT ![r] = [stage |-> "found", user |-> u,
                                      password |-> req[r].password, bySetup |-> TRUE]]
    /\ UNCHANGED <<users, userDevices, lastUserId, tokens, configured, setups>>

VersionReadAgainBug(q) ==
    LET now == {u \in users : u.id = q.user.id}
    IN  [userId |-> q.user.id,
         tokenVersion |-> IF now = {} THEN 0 ELSE (CHOOSE u \in now : TRUE).tokenVersion,
         email |-> q.user.email, password |-> q.password, isAdmin |-> q.user.isAdmin,
         bySetup |-> q.bySetup]

GenerateJWT(q) ==
    [userId |-> q.user.id, tokenVersion |-> q.user.tokenVersion, email |-> q.user.email,
     password |-> q.password, isAdmin |-> q.user.isAdmin, bySetup |-> q.bySetup]

\* A login that did the setup has no password to check.
PasswordProven(q) == q.bySetup \/ q.password = q.user.password

IssueToken(r) ==
    /\ req[r].stage = "found"
    /\ PasswordProven(req[r])
    /\ Cardinality(tokens) < MaxTokens
    /\ tokens' = tokens \cup {GenerateJWT(req[r])}
    /\ Finish(r)
    /\ UNCHANGED <<users, userDevices, lastUserId, configured, setups>>

-----------------------------------------------------------------------------
(* Authenticated requests                                                  *)

\* What AuthMiddleware compares with the row it reads.
Accepted(t, u) == t.userId = u.id /\ t.tokenVersion = u.tokenVersion

\* AuthMiddleware, then AdminMiddleware on the routes under /api/users.
Authenticate(r) ==
    /\ req[r] = Idle
    /\ \E t \in tokens, u \in users, op \in Operations :
        /\ Accepted(t, u)
        /\ op.kind # "logout" => u.isAdmin
        /\ req' = [req EXCEPT ![r] = [stage |-> "authorized", userId |-> u.id,
                                      tokenVersion |-> u.tokenVersion, op |-> op]]
    /\ UNCHANGED <<users, userDevices, lastUserId, tokens, configured, setups>>

\* ValidatePassword, and ValidateDeviceIDs against the list LoadHosts returns.
ValidPassword(p) == p \in LongPasswords \cup {Omitted}
ValidDevices(ds) == ds = OmittedList \/ ds \subseteq configured

Validate(r) ==
    /\ req[r].stage = "authorized"
    /\ req[r].op.kind \in {"create", "update"}
    /\ ValidPassword(req[r].op.password)
    /\ ValidDevices(req[r].op.devices)
    /\ req' = [req EXCEPT ![r].stage = "validated"]
    /\ UNCHANGED <<users, userDevices, lastUserId, tokens, configured, setups>>

HandleCreateUser(r) ==
    /\ req[r].stage = "validated"
    /\ req[r].op.kind = "create"
    /\ CreateUser(req[r].op.email, req[r].op.password, req[r].op.isAdmin, req[r].op.devices)
    /\ Finish(r)
    /\ UNCHANGED <<tokens, configured, setups>>

HandleUpdateUser(r) ==
    /\ req[r].stage = "validated"
    /\ req[r].op.kind = "update"
    /\ UpdateUser(req[r].op.id, req[r].op.password, req[r].op.isAdmin, req[r].op.devices)
    /\ Finish(r)
    /\ UNCHANGED <<tokens, configured, setups>>

HandleDeleteUser(r) ==
    /\ req[r].stage = "authorized"
    /\ req[r].op.kind = "delete"
    /\ DeleteUser(req[r].op.id)
    /\ Finish(r)
    /\ UNCHANGED <<tokens, configured, setups>>

HandleLogout(r) ==
    /\ req[r].stage = "authorized"
    /\ req[r].op.kind = "logout"
    /\ RevokeUserTokens(req[r].userId, req[r].tokenVersion)
    /\ Finish(r)
    /\ UNCHANGED <<tokens, configured, setups>>

\* Every way a handler ends without having changed anything: a failed
\* validation, a WHERE clause no row satisfies, the unique index, an error of
\* SQLite (busy for too long), which may hit any statement.
Reject(r) ==
    /\ req[r] # Idle
    /\ Finish(r)
    /\ UNCHANGED <<users, userDevices, lastUserId, tokens, configured, setups>>

-----------------------------------------------------------------------------
(* Around the server                                                       *)

\* "secure-switch -adduser": another process on the same database, which
\* checks only that the password is not empty.
CliAddUser ==
    /\ \E e \in Emails, p \in Passwords, admin \in BOOLEAN, ds \in SUBSET Devices :
        CreateUser(e, p, admin, ds)
    /\ UNCHANGED <<req, tokens, configured, setups>>

\* Someone saved hosts.yaml.
HostsChange ==
    /\ configured' \in SUBSET Devices \ {configured}
    /\ UNCHANGED <<users, userDevices, lastUserId, req, tokens, setups>>

\* jwtLifetime has passed for a token.
TokenExpires ==
    /\ \E t \in tokens : tokens' = tokens \ {t}
    /\ UNCHANGED <<users, userDevices, lastUserId, req, configured, setups>>

\* The process stops, or is killed, and starts again: requests are lost, the
\* database is kept, and so are the tokens, since the signing secret is.
Restart ==
    /\ req' = [r \in Requests |-> Idle]
    /\ UNCHANGED <<users, userDevices, lastUserId, tokens, configured, setups>>

Next ==
    \/ \E r \in Requests :
        \/ LoginLookup(r)
        \/ LoginNoAccount(r)
        \/ SetupCreate(r)
        \/ SetupFetch(r)
        \/ IssueToken(r)
        \/ Authenticate(r)
        \/ Validate(r)
        \/ HandleCreateUser(r)
        \/ HandleUpdateUser(r)
        \/ HandleDeleteUser(r)
        \/ HandleLogout(r)
        \/ Reject(r)
    \/ CliAddUser
    \/ HostsChange
    \/ TokenExpires
    \/ Restart

Spec == Init /\ [][Next]_vars

-----------------------------------------------------------------------------
(* Properties                                                              *)

\* The server accepts the token.
Usable(t) == \E u \in users : Accepted(t, u)

\* Once the system has an administrator it never loses the last one, whatever
\* demotions and deletions run at the same time: first-run setup, open to
\* anyone, cannot open again (admin.go:38, users.go:125).
AdminPersists == [][HasAdmins => HasAdmins']_vars

\* However many setup requests race, and even when an administrator appears
\* by another way between their check and their INSERT, first-run setup makes
\* at most one account (auth_handlers.go:48-59).
AtMostOneSetup == setups <= 1

\* A usable session stands for its account as it is now: the role is the one
\* of sign-in, and the password proved then is still the account's password,
\* although bcrypt runs between reading the row and signing the token.  A
\* token of first-run setup proves no password (auth_handlers.go:70).
SessionsReflectAccount ==
    \A t \in tokens, u \in users :
        Accepted(t, u) =>
            /\ u.email = t.email
            /\ u.isAdmin = t.isAdmin
            /\ t.bySetup \/ u.password = t.password

\* A token the server has ceased to accept, because of a logout, a password
\* or role change or a deletion, is never accepted again, not even by an
\* account created later.
RevokedStaysRevoked ==
    [][\A t \in tokens : ~Usable(t) => ~Usable(t)']_vars

LogoutPending(r) ==
    /\ req[r] # Idle
    /\ req[r].stage = "authorized"
    /\ req[r].op.kind = "logout"

\* A logout that reaches the database late revokes at most the sessions of
\* the version it was authenticated with; a session opened after a password
\* change meanwhile stays open (users.go:105-116).
LogoutRevokesOnlyItsVersion ==
    [][\A r \in Requests : LogoutPending(r) /\ req'[r] = Idle =>
          \A t \in tokens : Usable(t) /\ ~Usable(t)' =>
              t.userId = req[r].userId /\ t.tokenVersion = req[r].tokenVersion]_vars

\* A new account starts with no device rows but those of the request that
\* makes it, although DeleteUser leaves the rows of deleted accounts behind.
NewAccountInheritsNothing ==
    [][\A u \in users' :
          (\A v \in users : v.id # u.id) => \A d \in userDevices : d.userId # u.id]_vars

\* store.go:28 declares OnDelete:CASCADE on the devices of a user.  It does
\* not hold: SQLite enforces foreign keys only when the connection asks for
\* it, and the DSN (store.go:17-19) does not.
NoOrphanAssignments == \A d \in userDevices : \E u \in users : u.id = d.userId

-----------------------------------------------------------------------------
(* What is promised of all this                                            *)

AccountOf(u) == [email |-> u.email, password |-> u.password, isAdmin |-> u.isAdmin]

SessionOf(t) == [email |-> t.email, password |-> t.password, isAdmin |-> t.isAdmin]

\* The request made the first administrator and has not answered yet.
BySetup(q) ==
    \/ q.stage = "created"
    \/ q.stage = "found" /\ q.bySetup

OwedTo(q) ==
    [email |-> IF q.stage = "found" THEN q.user.email ELSE q.email, password |-> q.password]

AccountsHeld == {AccountOf(u) : u \in users}
OpenSessions == {SessionOf(t) : t \in {t \in tokens : Usable(t)}}
OwedSignIns == {OwedTo(req[r]) : r \in {r \in Requests : BySetup(req[r])}}

Promise == INSTANCE Sessions WITH
    accounts <- AccountsHeld, sessions <- OpenSessions, owed <- OwedSignIns

\* Although a handler acts on what it read some time before, sign-in, logout
\* and every change of an account happen as if at once, to the account as it
\* then is: a token signed for what has changed meanwhile opens nothing
\* (auth_handlers.go:24-101, users.go, auth.go:187-232).
ImplementsSessions == Promise!SessionsSpec

=============================================================================
