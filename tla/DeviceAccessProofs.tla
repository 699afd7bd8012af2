------------------------- MODULE DeviceAccessProofs -------------------------
(***************************************************************************)
(* Proofs about DeviceAccess, for any sets of accounts and devices.        *)
(*                                                                         *)
(* The argument: as long as the account exists, what it is permitted now   *)
(* has been recorded in "ever"; when the account goes, its rows stay as    *)
(* they were and none is added, so that the rows a request reads between   *)
(* its two queries are recorded too, whenever it reads them.               *)
(***************************************************************************)
EXTENDS DeviceAccess, TLAPS

\* What the request could still be granted is recorded.
EverCovers ==
    request # Idle =>
        /\ request.isAdmin => ever = Devices
        /\ Exists(request.userId) => Permitted(request.userId) \subseteq ever
        /\ request.stage = "reading" => Assigned(request.userId) \subseteq ever
        /\ request.permitted \subseteq ever

\* An action is about one device, and acts only once that is permitted.
ActsOnOneDevice ==
    request # Idle =>
        \/ request.op = "list" /\ request.stage # "acting"
        \/ request.op = "act" /\ request.stage # "loading" /\
           \E d \in Devices :
            /\ request.devices = {d}
            /\ request.todo \subseteq {d}
            /\ request.permitted \subseteq {d}
            /\ request.stage = "acting" => request.permitted = {d}

\* What was assigned all along is assigned now, and is granted, still to be
\* checked, or missing because of a failed query.
KeptIsCurrent ==
    request # Idle =>
        /\ kept \subseteq Assigned(request.userId)
        /\ kept # {} => Exists(request.userId)
        /\ request.op = "list" /\ ~request.failed =>
              kept \cap request.devices \subseteq request.permitted \cup request.todo

IInv == TypeOK /\ EverCovers /\ ActsOnOneDevice /\ KeptIsCurrent

-----------------------------------------------------------------------------
(* The statements of the store                                             *)

\* A statement leaves rows only to an account that exists after it, or rows
\* the account had before: nobody adds rows to a deleted account.
LEMMA RowsNeedAccount ==
    ASSUME TypeOK, AccountsChange, NEW id
    PROVE  Exists(id)' \/ Assigned(id)' \subseteq Assigned(id)
<1>1. ASSUME NEW e \in Emails, NEW p \in Passwords, NEW a \in BOOLEAN, NEW ds \in SUBSET Devices,
             CreateUser(e, p, a, ds)
      PROVE  Exists(id)' \/ Assigned(id)' \subseteq Assigned(id)
  <2>1. CASE id = NewUserId
    <3>1. NewRow(e, p, a) \in users' /\ NewRow(e, p, a).id = id
      BY <1>1, <2>1 DEF CreateUser, NewRow
    <3> QED BY <3>1 DEF Exists
  <2>2. CASE id # NewUserId
    BY <1>1, <2>2 DEF CreateUser, Assigned
  <2> QED BY <2>1, <2>2
<1>2. ASSUME NEW i \in UserIds, NEW a \in {Omitted} \cup BOOLEAN,
             NEW ds \in {OmittedList} \cup SUBSET Devices,
             UpdateUser(i, Omitted, a, ds)
      PROVE  Exists(id)' \/ Assigned(id)' \subseteq Assigned(id)
  <2>1. PICK u \in users :
          /\ u.id = i
          /\ users' = (users \ {u}) \cup {UpdatedRow(u, Omitted, a)}
          /\ userDevices' = IF ds = OmittedList
                            THEN userDevices
                            ELSE (userDevices \ DevicesOf(i))
                                     \cup [userId : {i}, deviceId : ds]
    BY <1>2 DEF UpdateUser
  <2>2. UpdatedRow(u, Omitted, a).id = i
    BY <2>1 DEF UpdatedRow, TypeOK, StoreTypeOK, User
  <2>3. CASE id = i
    BY <2>1, <2>2, <2>3 DEF Exists
  <2>4. CASE id # i
    BY <2>1, <2>4 DEF Assigned, DevicesOf
  <2> QED BY <2>3, <2>4
<1>3. ASSUME NEW i \in UserIds, DeleteUser(i)
      PROVE  Exists(id)' \/ Assigned(id)' \subseteq Assigned(id)
  BY <1>3 DEF DeleteUser, Assigned
<1> QED BY <1>1, <1>2, <1>3 DEF AccountsChange

\* They keep the types, whichever account they are about.
LEMMA AccountsChangeTypes ==
    ASSUME TypeOK, AccountsChange
    PROVE  StoreTypeOK'
<1>1. StoreTypeOK
  BY DEF TypeOK
<1>2. ASSUME NEW e \in Emails, NEW p \in Passwords, NEW a \in BOOLEAN, NEW ds \in SUBSET Devices,
             CreateUser(e, p, a, ds)
      PROVE  StoreTypeOK'
  <2>1. NewUserId \in UserIds /\ NewRow(e, p, a) \in User
    BY <1>1, <1>2, BoundsAssumption DEF CreateUser, StoreTypeOK, NewUserId, NewRow, User, UserIds
  <2>2. [userId : {NewUserId}, deviceId : ds] \subseteq UserDevice
    BY <2>1 DEF UserDevice
  <2> QED BY <1>1, <1>2, <2>1, <2>2, BoundsAssumption DEF CreateUser, StoreTypeOK, UserIds
<1>3. ASSUME NEW i \in UserIds, NEW a \in {Omitted} \cup BOOLEAN,
             NEW ds \in {OmittedList} \cup SUBSET Devices,
             UpdateUser(i, Omitted, a, ds)
      PROVE  StoreTypeOK'
  <2>1. PICK u \in users :
          /\ UpdatedRow(u, Omitted, a).tokenVersion <= MaxTokenVersion
          /\ users' = (users \ {u}) \cup {UpdatedRow(u, Omitted, a)}
          /\ userDevices' = IF ds = OmittedList
                            THEN userDevices
                            ELSE (userDevices \ DevicesOf(i))
                                     \cup [userId : {i}, deviceId : ds]
          /\ UNCHANGED lastUserId
    BY <1>3 DEF UpdateUser
  <2>2. u \in User
    BY <1>1 DEF StoreTypeOK
  <2> DEFINE v == UpdatedRow(u, Omitted, a)
  <2>3. v.id = u.id /\ v.email = u.email /\ v.password \in Passwords /\ v.isAdmin \in BOOLEAN
    BY <2>2 DEF UpdatedRow, User
  <2>4. v.tokenVersion \in 0..MaxTokenVersion
    <3>1. u.tokenVersion \in 0..MaxTokenVersion
      BY <2>2 DEF User
    <3>2. v.tokenVersion = u.tokenVersion + 1 \/ v.tokenVersion = u.tokenVersion
      BY <2>2 DEF UpdatedRow, User
    <3> QED BY <2>1, <3>1, <3>2, BoundsAssumption
  <2>5. v \in User
    BY <2>2, <2>3, <2>4 DEF UpdatedRow, User
  <2>6. userDevices' \subseteq UserDevice
    BY <1>1, <2>1 DEF StoreTypeOK, DevicesOf, UserDevice
  <2> HIDE DEF v
  <2> QED BY <1>1, <2>1, <2>5, <2>6 DEF StoreTypeOK, v
<1>4. ASSUME NEW i \in UserIds, DeleteUser(i)
      PROVE  StoreTypeOK'
  BY <1>1, <1>4 DEF DeleteUser, StoreTypeOK
<1> QED BY <1>2, <1>3, <1>4 DEF AccountsChange

-----------------------------------------------------------------------------
(* Types                                                                   *)

LEMMA RequestTypes ==
    ASSUME TypeOK, request # Idle
    PROVE  request \in Request
BY DEF TypeOK

\* However the check of a device ends, it concerns nothing else.
LEMMA CheckedKeeps ==
    ASSUME request \in Request, NEW d, NEW q,
           q = Permit(d) \/ q = Refuse(d) \/ q = [Refuse(d) EXCEPT !.failed = TRUE]
    PROVE  /\ q.userId = request.userId
           /\ q.isAdmin = request.isAdmin
           /\ q.stage = "checking"
           /\ q.op = request.op
           /\ q.devices = request.devices
           /\ q.todo = request.todo \ {d}
<1>1. CASE q = Permit(d)
  BY <1>1 DEF Permit, Request
<1>2. CASE q = Refuse(d)
  BY <1>2 DEF Refuse, Request
<1>3. CASE q = [Refuse(d) EXCEPT !.failed = TRUE]
  <2>1. Refuse(d) \in Request
    BY DEF Refuse, Request
  <2>2. q.isAdmin = Refuse(d).isAdmin
    BY <1>3, <2>1 DEF Request
  <2>3. Refuse(d).isAdmin = request.isAdmin
    BY DEF Refuse, Request
  <2>4. q.isAdmin = request.isAdmin
    BY <2>2, <2>3, Zenon
  <2>5. /\ q.userId = request.userId
        /\ q.stage = "checking"
        /\ q.op = request.op
        /\ q.devices = request.devices
        /\ q.todo = request.todo \ {d}
    BY <1>3, <2>1 DEF Refuse, Request
  <2> QED BY <2>4, <2>5, Zenon
<1> QED BY <1>1, <1>2, <1>3

LEMMA NewRequestType ==
    ASSUME TypeOK, NEW u \in users, NEW ds \in SUBSET Devices,
           NEW stage \in {"loading", "checking"}, NEW op \in {"list", "act"}
    PROVE  NewRequest(u, stage, op, ds) \in Request
<1>1. u.id \in UserIds /\ u.isAdmin \in BOOLEAN
  BY DEF TypeOK, StoreTypeOK, User
<1> QED BY <1>1 DEF NewRequest, Request

LEMMA TypeStep ==
    ASSUME TypeOK, [Next]_vars
    PROVE  TypeOK'
<1>1. StoreTypeOK'
  <2>1. CASE AccountsChange
    BY <2>1, AccountsChangeTypes
  <2>2. CASE UNCHANGED storeVars
    BY <2>2 DEF TypeOK, StoreTypeOK, storeVars
  <2> QED
    BY <2>1, <2>2
    DEF Next, vars, Begin, LoadList, AdminPasses, FindAccount, NoAccount, ReadDevices,
        QueryFails, FindHost, Finish, HostsChange
<1>2. /\ configured' \subseteq Devices
      /\ ever' \subseteq Devices
      /\ kept' \subseteq Devices
  BY DEF TypeOK, Next, vars, Begin, LoadList, AdminPasses, FindAccount, NoAccount, ReadDevices,
         QueryFails, FindHost, Finish, HostsChange, AccountsChange, Permitted, Assigned
<1>3. request' \in Request \cup {Idle}
  <2>1. CASE Begin
    BY <2>1, NewRequestType DEF Begin
  <2>2. CASE LoadList \/ FindAccount \/ FindHost
    <3>1. request # Idle
      BY <2>2 DEF LoadList, FindAccount, FindHost, Idle
    <3> QED BY <2>2, <3>1, RequestTypes DEF LoadList, FindAccount, FindHost, Request, TypeOK
  <2>3. ASSUME NEW d \in Devices, request # Idle
        PROVE  /\ Permit(d) \in Request
               /\ Refuse(d) \in Request
               /\ [Refuse(d) EXCEPT !.failed = TRUE] \in Request
    BY <2>3, RequestTypes DEF Permit, Refuse, Request
  <2>4. CASE AdminPasses \/ NoAccount \/ ReadDevices \/ QueryFails
    <3>1. request # Idle
      BY <2>4 DEF AdminPasses, NoAccount, ReadDevices, QueryFails, Idle
    <3>2. request.todo \subseteq Devices
      BY <3>1, RequestTypes DEF Request
    <3> QED
      BY <2>3, <2>4, <3>1, <3>2 DEF AdminPasses, NoAccount, ReadDevices, QueryFails
  <2>5. CASE Finish
    BY <2>5 DEF Finish
  <2>6. CASE UNCHANGED request
    BY <2>6 DEF TypeOK
  <2> QED
    BY <2>1, <2>2, <2>4, <2>5, <2>6 DEF Next, vars, AccountsChange, HostsChange
<1> QED BY <1>1, <1>2, <1>3 DEF TypeOK

\* Type correctness of the device handlers' state.
THEOREM TypeCorrect == Spec => []TypeOK
<1>1. Init => TypeOK
  BY BoundsAssumption DEF Init, StoreInit, TypeOK, StoreTypeOK
<1>2. TypeOK /\ [Next]_vars => TypeOK'
  BY TypeStep
<1> QED BY <1>1, <1>2, PTL DEF Spec

-----------------------------------------------------------------------------
(* What the request is granted is recorded                                 *)

LEMMA EverCoversStep ==
    ASSUME TypeOK, EverCovers, [Next]_vars
    PROVE  EverCovers'
<1>1. CASE Begin
  <2>1. PICK u \in users :
          /\ request'.userId = u.id /\ request'.isAdmin = u.isAdmin
          /\ request'.stage # "reading" /\ request'.permitted = {}
          /\ ever' = Permitted(u.id)
          /\ UNCHANGED storeVars
    BY <1>1 DEF Begin, NewRequest
  <2>2. u.isAdmin => Permitted(u.id) = Devices
    BY DEF Permitted
  <2>3. Permitted(u.id)' = Permitted(u.id)
    BY <2>1 DEF Permitted, Assigned, storeVars
  <2> QED BY <2>1, <2>2, <2>3 DEF EverCovers, Permitted, Assigned, storeVars
<1>2. ASSUME request # Idle, UNCHANGED <<storeVars, ever>>,
             request'.userId = request.userId, request'.isAdmin = request.isAdmin,
             request'.stage = "reading" => Assigned(request.userId) \subseteq ever,
             request'.permitted \subseteq ever
      PROVE  EverCovers'
  BY <1>2 DEF EverCovers, Exists, Permitted, Assigned, storeVars
<1>3. ASSUME NEW d \in Devices, request # Idle, UNCHANGED <<storeVars, ever>>,
             \/ request' = Permit(d) /\ d \in ever
             \/ request' = Refuse(d)
             \/ request' = [Refuse(d) EXCEPT !.failed = TRUE]
      PROVE  EverCovers'
  <2>1. request \in Request /\ request.permitted \subseteq ever
    BY <1>3, RequestTypes DEF EverCovers
  <2>3. \/ request' = Permit(d) \/ request' = Refuse(d)
        \/ request' = [Refuse(d) EXCEPT !.failed = TRUE]
    BY <1>3
  <2>2. PICK q : q = request'
    OBVIOUS
  <2>4. /\ request'.userId = request.userId
        /\ request'.isAdmin = request.isAdmin
        /\ request'.stage = "checking"
    <3>1. q = Permit(d) \/ q = Refuse(d) \/ q = [Refuse(d) EXCEPT !.failed = TRUE]
      BY <2>2, <2>3, Zenon
    <3>2. /\ q.userId = request.userId
          /\ q.isAdmin = request.isAdmin
          /\ q.stage = "checking"
      BY <2>1, <3>1, CheckedKeeps
    <3> QED BY <2>2, <3>2, Zenon
  <2>5. CASE request' = Permit(d) /\ d \in ever
    BY <1>2, <1>3, <2>1, <2>4, <2>5 DEF Permit, Request
  <2>6. CASE request' = Refuse(d) \/ request' = [Refuse(d) EXCEPT !.failed = TRUE]
    <3>1. request'.permitted = request.permitted
      BY <2>1, <2>6 DEF Refuse, Request
    <3> QED BY <1>2, <1>3, <2>1, <2>4, <3>1
  <2> QED BY <1>3, <2>5, <2>6
<1>4. CASE LoadList
  BY <1>2, <1>4, RequestTypes DEF LoadList, Idle, Request, EverCovers
<1>5. CASE AdminPasses
  BY <1>3, <1>5, RequestTypes DEF AdminPasses, Idle, Request, EverCovers
<1>6. CASE FindAccount
  <2>1. Assigned(request.userId) \subseteq Permitted(request.userId)
    BY <1>6 DEF FindAccount, Exists, Permitted, Assigned
  <2> QED BY <1>2, <1>6, <2>1, RequestTypes DEF FindAccount, Idle, Request, EverCovers
<1>7. CASE NoAccount
  BY <1>3, <1>7, RequestTypes DEF NoAccount, Idle, Request
<1>8. CASE ReadDevices
  <2>1. request # Idle /\ request.stage = "reading"
    BY <1>8 DEF ReadDevices, Idle
  <2>2. PICK d \in request.todo :
          request' = IF HasRow(request.userId, d) THEN Permit(d) ELSE Refuse(d)
    BY <1>8 DEF ReadDevices
  <2>3. d \in Devices
    BY <2>1, RequestTypes DEF Request
  <2>4. HasRow(request.userId, d) => d \in ever
    BY <2>1, <2>3 DEF EverCovers, HasRow, Assigned
  <2>5. UNCHANGED <<storeVars, ever>>
    BY <1>8 DEF ReadDevices
  <2>6. \/ request' = Permit(d) /\ d \in ever
        \/ request' = Refuse(d)
    BY <2>2, <2>4
  <2> QED BY <1>3, <2>1, <2>3, <2>5, <2>6
<1>9. CASE QueryFails
  BY <1>3, <1>9, RequestTypes DEF QueryFails, Idle, Request
<1>10. CASE FindHost
  BY <1>2, <1>10, RequestTypes DEF FindHost, Authorized, Idle, Request, EverCovers
<1>11. CASE Finish
  BY <1>11 DEF Finish, EverCovers
<1>12. CASE AccountsChange
  <2>1. CASE request = Idle
    BY <1>12, <2>1 DEF AccountsChange, EverCovers
  <2>2. CASE request # Idle
    <3>1. /\ UNCHANGED request
          /\ ever' = ever \cup Permitted(request.userId)'
      BY <1>12, <2>2 DEF AccountsChange
    <3>2. Exists(request.userId)' => Assigned(request.userId)' \subseteq Permitted(request.userId)'
      BY DEF Exists, Assigned, Permitted
    <3>3. Exists(request.userId)' \/ Assigned(request.userId)' \subseteq Assigned(request.userId)
      <4>1. PICK id : id = request.userId
        OBVIOUS
      <4>2. Exists(id)' \/ Assigned(id)' \subseteq Assigned(id)
        BY <1>12, RowsNeedAccount
      <4> QED BY <3>1, <4>1, <4>2 DEF Exists, Assigned
    <3>4. ever' \subseteq Devices
      BY <3>1 DEF TypeOK, Permitted
    <3> QED BY <2>2, <3>1, <3>2, <3>3, <3>4 DEF EverCovers
  <2> QED BY <2>1, <2>2
<1>13. CASE HostsChange \/ UNCHANGED vars
  BY <1>13 DEF HostsChange, vars, storeVars, EverCovers, Exists, Permitted, Assigned
<1> QED
  BY <1>1, <1>4, <1>5, <1>6, <1>7, <1>8, <1>9, <1>10, <1>11, <1>12, <1>13 DEF Next

-----------------------------------------------------------------------------
(* Actions and lists                                                       *)

LEMMA ActsOnOneDeviceStep ==
    ASSUME TypeOK, ActsOnOneDevice, [Next]_vars
    PROVE  ActsOnOneDevice'
<1>1. CASE Begin
  BY <1>1 DEF Begin, NewRequest, ActsOnOneDevice
<1>2. CASE LoadList
  <2>1. request # Idle /\ request.op = "list"
    BY <1>2 DEF LoadList, Idle, ActsOnOneDevice
  <2> QED BY <1>2, <2>1, RequestTypes DEF LoadList, Request, ActsOnOneDevice
<1>3. CASE AdminPasses \/ NoAccount \/ ReadDevices \/ QueryFails
  <2>1. request # Idle /\ request \in Request
    BY <1>3, RequestTypes DEF AdminPasses, NoAccount, ReadDevices, QueryFails, Idle
  <2>2. PICK d \in request.todo :
          \/ request' = Permit(d)
          \/ request' = Refuse(d)
          \/ request' = [Refuse(d) EXCEPT !.failed = TRUE]
    BY <1>3 DEF AdminPasses, NoAccount, ReadDevices, QueryFails
  <2>3. /\ request'.stage = "checking"
        /\ request'.op = request.op
        /\ request'.devices = request.devices
        /\ request'.todo = request.todo \ {d}
    <3>1. \A q : q = Permit(d) \/ q = Refuse(d) \/ q = [Refuse(d) EXCEPT !.failed = TRUE] =>
              q.stage = "checking" /\ q.op = request.op /\ q.devices = request.devices /\
              q.todo = request.todo \ {d}
      BY <2>1, CheckedKeeps
    <3> QED BY <2>2, <3>1
  <2>4. request'.permitted \subseteq request.permitted \cup {d}
    <3>1. Permit(d).permitted = request.permitted \cup {d}
      BY <2>1 DEF Permit, Request
    <3>2. Refuse(d).permitted = request.permitted /\ Refuse(d) \in Request
      BY <2>1 DEF Refuse, Request
    <3>3. [Refuse(d) EXCEPT !.failed = TRUE].permitted = request.permitted
      BY <3>2 DEF Request
    <3> QED BY <2>2, <3>1, <3>2, <3>3
  <2> QED BY <2>1, <2>3, <2>4 DEF ActsOnOneDevice
<1>4. CASE FindAccount
  BY <1>4, RequestTypes DEF FindAccount, Idle, Request, ActsOnOneDevice
<1>5. CASE FindHost
  BY <1>5, RequestTypes DEF FindHost, Authorized, Idle, Request, ActsOnOneDevice
<1>6. CASE Finish
  BY <1>6 DEF Finish, ActsOnOneDevice
<1>7. CASE UNCHANGED request
  BY <1>7 DEF ActsOnOneDevice
<1> QED
  BY <1>1, <1>2, <1>3, <1>4, <1>5, <1>6, <1>7 DEF Next, vars, AccountsChange, HostsChange

LEMMA KeptIsCurrentStep ==
    ASSUME TypeOK, KeptIsCurrent, [Next]_vars
    PROVE  KeptIsCurrent'
<1>1. CASE Begin
  <2>1. PICK u \in users :
          /\ \E stage, op, ds : request' = NewRequest(u, stage, op, ds)
          /\ kept' = Assigned(u.id)
          /\ UNCHANGED storeVars
    BY <1>1 DEF Begin
  <2>2. request'.userId = u.id /\ request'.devices = request'.todo
    BY <2>1 DEF NewRequest
  <2>3. Exists(u.id)
    BY DEF Exists
  <2>4. kept' \subseteq Assigned(request.userId)' /\ Exists(request.userId)'
    BY <2>1, <2>2, <2>3 DEF Assigned, Exists, storeVars
  <2> QED BY <2>2, <2>4 DEF KeptIsCurrent
<1>2. ASSUME request # Idle, UNCHANGED <<storeVars, kept>>,
             request'.userId = request.userId,
             request'.op = "list" /\ ~request'.failed =>
                 kept \cap request'.devices \subseteq request'.permitted \cup request'.todo
      PROVE  KeptIsCurrent'
  BY <1>2 DEF KeptIsCurrent, Exists, Assigned, storeVars
<1>3. ASSUME NEW d, request # Idle, UNCHANGED <<storeVars, kept>>,
             \/ request' = Permit(d)
             \/ request' = Refuse(d) /\ d \notin kept
             \/ request' = [Refuse(d) EXCEPT !.failed = TRUE]
      PROVE  KeptIsCurrent'
  <2>1. request \in Request
    BY <1>3, RequestTypes
  <2>2. /\ request'.userId = request.userId
        /\ request'.op = request.op
        /\ request'.devices = request.devices
        /\ request'.todo = request.todo \ {d}
    BY <1>3, <2>1, CheckedKeeps
  <2>3. CASE request' = Permit(d)
    BY <1>2, <1>3, <2>1, <2>2, <2>3 DEF Permit, Request, KeptIsCurrent
  <2>4. CASE request' = Refuse(d) /\ d \notin kept
    BY <1>2, <1>3, <2>1, <2>2, <2>4 DEF Refuse, Request, KeptIsCurrent
  <2>5. CASE request' = [Refuse(d) EXCEPT !.failed = TRUE]
    <3>1. request'.failed
      BY <2>1, <2>5 DEF Refuse, Request
    <3> QED BY <1>2, <1>3, <2>2, <3>1
  <2> QED BY <1>3, <2>3, <2>4, <2>5
<1>4. CASE LoadList \/ FindAccount \/ FindHost
  <2>1. request # Idle /\ request \in Request
    BY <1>4, RequestTypes DEF LoadList, FindAccount, FindHost, Idle
  <2>2. CASE LoadList
    BY <1>2, <2>1, <2>2 DEF LoadList, Request
  <2>3. CASE FindAccount \/ FindHost
    BY <1>2, <2>1, <2>3 DEF FindAccount, FindHost, Request, KeptIsCurrent
  <2> QED BY <1>4, <2>2, <2>3
<1>5. CASE AdminPasses
  BY <1>3, <1>5 DEF AdminPasses, Idle
<1>6. CASE NoAccount
  BY <1>3, <1>6 DEF NoAccount, Idle, KeptIsCurrent
<1>7. CASE ReadDevices
  <2>1. request # Idle
    BY <1>7 DEF ReadDevices, Idle
  <2>2. PICK d \in request.todo :
          request' = IF HasRow(request.userId, d) THEN Permit(d) ELSE Refuse(d)
    BY <1>7 DEF ReadDevices
  <2>3. ~HasRow(request.userId, d) => d \notin kept
    BY <2>1 DEF KeptIsCurrent, HasRow, Assigned
  <2>4. UNCHANGED <<storeVars, kept>>
    BY <1>7 DEF ReadDevices
  <2> QED BY <1>3, <2>1, <2>2, <2>3, <2>4
<1>8. CASE QueryFails
  BY <1>3, <1>8 DEF QueryFails, Idle
<1>9. CASE Finish
  BY <1>9 DEF Finish, KeptIsCurrent
<1>10. CASE AccountsChange
  <2>1. CASE request = Idle
    BY <1>10, <2>1 DEF AccountsChange, KeptIsCurrent
  <2>2. CASE request # Idle
    <3>1. /\ UNCHANGED request
          /\ kept' = kept \cap (IF Exists(request.userId)'
                                THEN Assigned(request.userId)' ELSE {})
      BY <1>10, <2>2 DEF AccountsChange
    <3> QED BY <2>2, <3>1 DEF KeptIsCurrent
  <2> QED BY <2>1, <2>2
<1>11. CASE HostsChange \/ UNCHANGED vars
  BY <1>11 DEF HostsChange, vars, storeVars, KeptIsCurrent, Exists, Assigned
<1> QED
  BY <1>1, <1>4, <1>5, <1>6, <1>7, <1>8, <1>9, <1>10, <1>11 DEF Next

-----------------------------------------------------------------------------
(* The theorems                                                            *)

LEMMA Invariance == Spec => []IInv
<1>1. Init => IInv
  BY BoundsAssumption
  DEF Init, StoreInit, IInv, TypeOK, StoreTypeOK, EverCovers, ActsOnOneDevice, KeptIsCurrent
<1>2. IInv /\ [Next]_vars => IInv'
  BY TypeStep, EverCoversStep, ActsOnOneDeviceStep, KeptIsCurrentStep DEF IInv
<1> QED BY <1>1, <1>2, PTL DEF Spec

\* Nothing is listed, woken or shut down that the account was not permitted
\* at some moment of the request (device_handlers.go:13-74).
THEOREM AccessIsPermitted == Spec => []OnlyPermittedDevices
<1>1. IInv => OnlyPermittedDevices
  BY RequestTypes DEF IInv, EverCovers, ActsOnOneDevice, OnlyPermittedDevices, Used, Request
<1> QED BY <1>1, Invariance, PTL

\* A complete list has every device assigned all along, unless a query failed
\* (device_handlers.go:29-54).
THEOREM ListIsComplete == Spec => []ListLeavesNothingOut
<1>1. IInv => ListLeavesNothingOut
  BY DEF IInv, KeptIsCurrent, ListLeavesNothingOut
<1> QED BY <1>1, Invariance, PTL

=============================================================================
