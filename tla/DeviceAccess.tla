---------------------------- MODULE DeviceAccess ----------------------------
(***************************************************************************)
(* Listing devices and acting on them (backend/internal/server/            *)
(* device_handlers.go), while accounts, assignments and the host list      *)
(* change.                                                                 *)
(*                                                                         *)
(* One request is followed through its handler.  It only reads, so other   *)
(* requests matter to it by the statements of Store they end in.  Each of  *)
(* its reads is a step: gorm's Preload makes GetUserByID two queries, one  *)
(* for the row and one for its devices, without a transaction.             *)
(***************************************************************************)
EXTENDS Store

VARIABLES
    configured,  \* ids of the list LoadHosts returns
    request,     \* the request and what it has read
    ever,        \* history: devices its account was permitted at some moment of it
    kept         \* history: devices its account was assigned at every moment of it

vars == <<storeVars, configured, request, ever, kept>>

Idle == [stage |-> "idle"]

\* device: the one being checked; todo: those still to check; permitted:
\* those isAuthorizedForDevice has answered true for; failed: a query did.
Request == [stage : {"loading", "checking", "reading", "acting"}, op : {"list", "act"},
            userId : UserIds, isAdmin : BOOLEAN, devices : SUBSET Devices,
            todo : SUBSET Devices, permitted : SUBSET Devices, failed : BOOLEAN]

TypeOK ==
    /\ StoreTypeOK
    /\ configured \subseteq Devices
    /\ request \in Request \cup {Idle}
    /\ ever \subseteq Devices
    /\ kept \subseteq Devices

Exists(id) == \E u \in users : u.id = id

AnyUsersRowBug(id, d) == \E row \in userDevices : row.deviceId = d

\* The second query of GetUserByID finds d.
HasRow(id, d) == [userId |-> id, deviceId |-> d] \in userDevices

\* For the history and the properties, what an account is entitled to:
\* administrators may use every device, others those assigned to them.
Assigned(id) == {d \in Devices : [userId |-> id, deviceId |-> d] \in userDevices}

Permitted(id) ==
    {d \in Devices : \E u \in users : u.id = id /\ (u.isAdmin \/ d \in Assigned(id))}

Init ==
    /\ StoreInit
    /\ configured \in SUBSET Devices
    /\ request = Idle
    /\ ever = {}
    /\ kept = {}

-----------------------------------------------------------------------------
(* The handlers                                                            *)

\* AuthMiddleware attaches id and role of the account to the request.
NewRequest(u, stage, op, ds) ==
    [stage |-> stage, op |-> op, userId |-> u.id, isAdmin |-> u.isAdmin,
     devices |-> ds, todo |-> ds, permitted |-> {}, failed |-> FALSE]

\* The device of an action comes from the path and need not be configured.
Begin ==
    /\ request = Idle
    /\ \E u \in users :
        /\ \/ request' = NewRequest(u, "loading", "list", {})
           \/ \E d \in Devices : request' = NewRequest(u, "checking", "act", {d})
        /\ ever' = Permitted(u.id)
        /\ kept' = Assigned(u.id)
    /\ UNCHANGED <<storeVars, configured>>

LoadList ==
    /\ request.stage = "loading"
    /\ request' = [request EXCEPT !.stage = "checking", !.devices = configured, !.todo = configured]
    /\ UNCHANGED <<storeVars, configured, ever, kept>>

Permit(d) == [request EXCEPT !.stage = "checking", !.todo = @ \ {d}, !.permitted = @ \cup {d}]

StopAtRefusalBug(d) == [request EXCEPT !.stage = "checking", !.todo = {}]

\* The device is left out, and the loop goes on.
Refuse(d) == [request EXCEPT !.stage = "checking", !.todo = @ \ {d}]

\* isAuthorizedForDevice, for the devices of the list in whatever order they
\* have there: the role is that of the middleware, the rest is read again.
AdminPasses ==
    /\ request.stage = "checking"
    /\ request.isAdmin
    /\ \E d \in request.todo : request' = Permit(d)
    /\ UNCHANGED <<storeVars, configured, ever, kept>>

FindAccount ==
    /\ request.stage = "checking"
    /\ ~request.isAdmin
    /\ request.todo # {}
    /\ Exists(request.userId)
    /\ request' = [request EXCEPT !.stage = "reading"]
    /\ UNCHANGED <<storeVars, configured, ever, kept>>

NoAccount ==
    /\ request.stage = "checking"
    /\ ~request.isAdmin
    /\ ~Exists(request.userId)
    /\ \E d \in request.todo : request' = Refuse(d)
    /\ UNCHANGED <<storeVars, configured, ever, kept>>

ReadDevices ==
    /\ request.stage = "reading"
    /\ \E d \in request.todo :
        request' = IF HasRow(request.userId, d) THEN Permit(d) ELSE Refuse(d)
    /\ UNCHANGED <<storeVars, configured, ever, kept>>

\* An error of either query is a refusal.
QueryFails ==
    /\ request.stage = "reading" \/ (request.stage = "checking" /\ ~request.isAdmin)
    /\ \E d \in request.todo : request' = [Refuse(d) EXCEPT !.failed = TRUE]
    /\ UNCHANGED <<storeVars, configured, ever, kept>>

Authorized == request.op = "act" /\ request.permitted # {}

\* findHost looks for an authorized device in the list of now.
FindHost ==
    /\ request.stage = "checking"
    /\ Authorized
    /\ request.devices \subseteq configured
    /\ request' = [request EXCEPT !.stage = "acting"]
    /\ UNCHANGED <<storeVars, configured, ever, kept>>

\* The answer: the list; Wake or Shutdown called; 403, 404 or 500.  Or the
\* process is killed.
Finish ==
    /\ request # Idle
    /\ request' = Idle
    /\ ever' = {}
    /\ kept' = {}
    /\ UNCHANGED <<storeVars, configured>>

-----------------------------------------------------------------------------
(* Everything else                                                         *)

\* Who may issue these statements is the matter of module Accounts.  New
\* passwords and logouts change nothing this request reads.
AccountsChange ==
    /\ UNCHANGED <<configured, request>>
    /\ \/ \E e \in Emails, p \in Passwords, admin \in BOOLEAN, ds \in SUBSET Devices :
            CreateUser(e, p, admin, ds)
       \/ \E id \in UserIds, admin \in {Omitted} \cup BOOLEAN,
             ds \in {OmittedList} \cup SUBSET Devices :
            UpdateUser(id, Omitted, admin, ds)
       \/ \E id \in UserIds : DeleteUser(id)
    /\ IF request = Idle THEN UNCHANGED <<ever, kept>>
       ELSE /\ ever' = ever \cup Permitted(request.userId)'
            /\ kept' = kept \cap (IF Exists(request.userId)'
                                  THEN Assigned(request.userId)' ELSE {})

HostsChange ==
    /\ configured' \in SUBSET Devices \ {configured}
    /\ UNCHANGED <<storeVars, request, ever, kept>>

Next ==
    \/ Begin
    \/ LoadList
    \/ AdminPasses
    \/ FindAccount
    \/ NoAccount
    \/ ReadDevices
    \/ QueryFails
    \/ FindHost
    \/ Finish
    \/ AccountsChange
    \/ HostsChange

Spec == Init /\ [][Next]_vars

-----------------------------------------------------------------------------
(* Properties                                                              *)

\* What the handler gives away: entries of the list, or the action.
Used ==
    IF request.op = "list" THEN request.permitted
    ELSE IF request.stage = "acting" THEN request.devices ELSE {}

\* README.md:16: "standard users can control only their assigned devices."
\* A device that is listed, woken or shut down was permitted to the account
\* at some moment between the middleware and the answer, although role,
\* account and rows are read at three moments, and DeleteUser leaves rows
\* behind; what was taken away before the request began is never used.
OnlyPermittedDevices == request # Idle => Used \subseteq ever

\* README.md:30: "Standard users see [...] the devices assigned to them."  A
\* list may mix assignments of before and after an edit, but it leaves out
\* no device of the loaded file that was assigned all along, unless a query
\* failed: then the device is missing although the answer is 200.
ListLeavesNothingOut ==
    request # Idle /\ request.op = "list" /\ request.stage = "checking" /\ request.todo = {} =>
        request.failed \/ kept \cap request.devices \subseteq request.permitted

=============================================================================
