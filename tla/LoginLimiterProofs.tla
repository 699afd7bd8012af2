------------------------- MODULE LoginLimiterProofs -------------------------
(***************************************************************************)
(* Proofs about LoginLimiter, for any addresses, accounts and slots and    *)
(* any limits and times.                                                   *)
(*                                                                         *)
(* Three arguments.  The map: every call leaves room for what it adds.     *)
(* The implementation: to record a failure and sweep then is to sweep and  *)
(* record it then, so the expired records nobody swept yet change nothing. *)
(* The bound on wrong passwords: the record of a key tells how many there  *)
(* were lately, before its window, within it and since its last block,     *)
(* and how many of the logins let in before that block can still add one.  *)
(***************************************************************************)
EXTENDS LoginLimiter, FiniteSetTheorems, TLAPS

Maps == [Keys -> Attempt \cup {None}]

\* A record says when its window began and, if it blocks, for how long: not
\* longer than one backoff from now.
Timely(m) ==
    \A k \in Keys :
        m[k] # None => m[k].windowStart <= clock /\ m[k].blockedUntil <= clock + Backoff

Bounded(m) == IsFiniteSet(Tracked(m)) /\ Cardinality(Tracked(m)) <= MaxTracked

\* What every call needs of the map it finds, and leaves behind.
Sound(m) == m \in Maps /\ Timely(m) /\ Bounded(m)

IInv == TypeOK /\ Sound(attempts)

-----------------------------------------------------------------------------
(* What the operators on maps of records return                            *)

\* n holds no record that m does not hold.
Part(n, m) == n \in Maps /\ \A k \in Keys : n[k] = None \/ n[k] = m[k]

LEMMA PartSound ==
    ASSUME NEW m, NEW n, Sound(m), Part(n, m)
    PROVE  Sound(n) /\ Tracked(n) \subseteq Tracked(m)
<1>1. Tracked(n) \subseteq Tracked(m)
  BY DEF Part, Tracked
<1>2. Bounded(n)
  <2>1. IsFiniteSet(Tracked(m)) /\ Cardinality(Tracked(m)) <= MaxTracked
    BY DEF Sound, Bounded
  <2>2. IsFiniteSet(Tracked(n)) /\ Cardinality(Tracked(n)) <= Cardinality(Tracked(m))
    BY <1>1, <2>1, FS_Subset
  <2>3. Cardinality(Tracked(n)) \in Nat /\ Cardinality(Tracked(m)) \in Nat
    BY <2>1, <2>2, FS_CardinalityType
  <2> QED
    BY <2>1, <2>2, <2>3, LimitAssumption DEF Bounded
<1>3. Timely(n)
  BY DEF Sound, Part, Timely
<1> QED
  BY <1>1, <1>2, <1>3 DEF Sound, Part

LEMMA SweepPart ==
    ASSUME NEW m \in Maps, NEW now
    PROVE  Part(Sweep(m, now), m)
BY DEF Part, Maps, Sweep

LEMMA StrikeType ==
    ASSUME clock \in Nat,
           NEW a \in [failures : Nat, windowStart : Nat, blockedUntil : Nat],
           a.windowStart <= clock, a.blockedUntil <= clock + Backoff
    PROVE  /\ Strike(a) \in Attempt
           /\ Strike(a).failures = a.failures + 1
           /\ Strike(a).windowStart = a.windowStart
           /\ Strike(a).blockedUntil = IF Blocks(a) THEN clock + Backoff ELSE a.blockedUntil
           /\ Strike(a).blockedUntil <= clock + Backoff
<1>1. a.failures \in Nat /\ a.windowStart \in Nat /\ a.blockedUntil \in Nat
  OBVIOUS
<1>2. clock + Backoff \in Nat
  BY LimitAssumption
<1>3. /\ Strike(a).failures = a.failures + 1
      /\ Strike(a).windowStart = a.windowStart
      /\ Strike(a).blockedUntil = IF Blocks(a) THEN clock + Backoff ELSE a.blockedUntil
  BY <1>1 DEF Strike
<1>4. a.failures + 1 \in Nat \ {0}
  BY <1>1
<1>5. Strike(a) \in Attempt
  BY <1>1, <1>2, <1>4 DEF Attempt, Strike
<1>6. Strike(a).blockedUntil <= clock + Backoff
  BY <1>1, <1>2, <1>3
<1> QED
  BY <1>3, <1>5, <1>6

LEMMA FreshType ==
    ASSUME clock \in Nat
    PROVE  /\ Fresh \in [failures : Nat, windowStart : Nat, blockedUntil : Nat]
           /\ Fresh.failures = 0 /\ Fresh.windowStart = clock /\ Fresh.blockedUntil = 0
           /\ Fresh.blockedUntil <= clock + Backoff
BY LimitAssumption DEF Fresh

\* Evicting removes as many records as there are too many.
LEMMA EvictEffect ==
    ASSUME NEW m, m \in Maps, IsFiniteSet(Tracked(m)), NEW n \in Evict(m)
    PROVE  Part(n, m) /\ IsFiniteSet(Tracked(n)) /\ Cardinality(Tracked(n)) < MaxTracked
<1> DEFINE excess == Cardinality(Tracked(m)) + 1 - MaxTracked
<1>0. Cardinality(Tracked(m)) \in Nat /\ MaxTracked \in Nat
  BY FS_CardinalityType, LimitAssumption
<1>1. CASE excess <= 0
  <2>1. n = m
    BY <1>1 DEF Evict
  <2> QED
    BY <1>0, <1>1, <2>1 DEF Part
<1>2. CASE ~(excess <= 0)
  <2>1. PICK S \in Oldest(m, excess) : n = [k \in Keys |-> IF k \in S THEN None ELSE m[k]]
    BY <1>2 DEF Evict
  <2>2. S \subseteq Tracked(m) /\ Cardinality(S) = excess
    BY <2>1 DEF Oldest
  <2>3. Tracked(n) = Tracked(m) \ S
    BY <2>1, <2>2 DEF Tracked
  <2>4. IsFiniteSet(S) /\ IsFiniteSet(Tracked(n))
    BY <2>2, <2>3, FS_Subset
  <2>5. Cardinality(Tracked(m) \ S) = Cardinality(Tracked(m)) - Cardinality(Tracked(m) \cap S)
    BY FS_Difference
  <2>6. Tracked(m) \cap S = S
    BY <2>2
  <2>7. Cardinality(Tracked(n)) = Cardinality(Tracked(m)) - excess
    BY <2>2, <2>3, <2>5, <2>6
  <2>9. Cardinality(Tracked(n)) = MaxTracked - 1
    BY <1>0, <2>7
  <2>8. Part(n, m)
    BY <2>1 DEF Part, Maps
  <2> QED
    BY <1>0, <2>4, <2>8, <2>9
<1> QED
  BY <1>1, <1>2

LEMMA MakeRoomEffect ==
    ASSUME NEW m, Sound(m), NEW n \in MakeRoom(m)
    PROVE  Part(n, m) /\ IsFiniteSet(Tracked(n)) /\ Cardinality(Tracked(n)) < MaxTracked
<1>1. m \in Maps /\ IsFiniteSet(Tracked(m))
  BY DEF Sound, Bounded
<1>2. CASE Cardinality(Tracked(m)) < MaxTracked
  BY <1>1, <1>2 DEF MakeRoom, Part
<1>3. CASE ~(Cardinality(Tracked(m)) < MaxTracked)
  <2> DEFINE swept == Sweep(m, clock)
  <2>1. n \in Evict(swept)
    BY <1>3 DEF MakeRoom
  <2>2. Part(swept, m)
    BY <1>1, SweepPart
  <2>3. swept \in Maps /\ IsFiniteSet(Tracked(swept))
    BY <2>2, PartSound DEF Part, Sound, Bounded
  <2>4. Part(n, swept) /\ IsFiniteSet(Tracked(n)) /\ Cardinality(Tracked(n)) < MaxTracked
    <3> HIDE DEF swept
    <3> QED BY <2>1, <2>3, EvictEffect
  <2> QED
    BY <2>2, <2>4 DEF Part
<1> QED
  BY <1>2, <1>3

\* One failure adds a record or changes the one there is.
LEMMA RecordOfType ==
    ASSUME NEW m, Sound(m), NEW key \in Keys, clock \in Nat
    PROVE  /\ RecordOf(m, key) \in [failures : Nat, windowStart : Nat, blockedUntil : Nat]
           /\ RecordOf(m, key).windowStart <= clock
           /\ RecordOf(m, key).blockedUntil <= clock + Backoff
<1>1. CASE m[key] = None \/ Expired(m[key], clock)
  BY <1>1, FreshType DEF RecordOf
<1>2. CASE ~(m[key] = None \/ Expired(m[key], clock))
  <2>1. m[key] \in Attempt
    BY <1>2 DEF Sound, Maps
  <2>2. m[key].windowStart <= clock /\ m[key].blockedUntil <= clock + Backoff
    BY <1>2 DEF Sound, Timely
  <2> QED
    BY <1>2, <2>1, <2>2 DEF RecordOf, Attempt
<1> QED
  BY <1>1, <1>2

LEMMA RecordedFailureEffect ==
    ASSUME NEW m, Sound(m), NEW key \in Keys, clock \in Nat, NEW n \in RecordedFailure(m, key)
    PROVE  /\ Sound(n)
           /\ n[key] = Strike(RecordOf(m, key)) /\ n[key] \in Attempt
           /\ \A k \in Keys \ {key} : n[k] = None \/ n[k] = m[k]
<1>1. PICK p \in IF m[key] = None THEN MakeRoom(m) ELSE {m} :
          n = [p EXCEPT ![key] = Strike(RecordOf(m, key))]
  BY DEF RecordedFailure
<1>2. Part(p, m)
  BY <1>1, MakeRoomEffect DEF Part, Sound
<1> DEFINE a == Strike(RecordOf(m, key))
<1>3. a \in Attempt /\ a.windowStart <= clock /\ a.blockedUntil <= clock + Backoff
  BY RecordOfType, StrikeType
<1>4. Sound(p)
  BY <1>2, PartSound
<1>5. n \in Maps /\ n[key] = a /\ \A k \in Keys \ {key} : n[k] = p[k]
  BY <1>1, <1>3, <1>4 DEF Sound, Maps
<1>6. Timely(n)
  BY <1>3, <1>4, <1>5 DEF Sound, Timely
<1>7. Bounded(n)
  <2>1. IsFiniteSet(Tracked(p)) /\ Cardinality(Tracked(p)) \in Nat /\ MaxTracked \in Nat
    BY <1>4, FS_CardinalityType, LimitAssumption DEF Sound, Bounded
  <2>2. CASE m[key] = None
    <3>1. Cardinality(Tracked(p)) < MaxTracked
      BY <1>1, <2>2, MakeRoomEffect
    <3>2. Tracked(n) \subseteq Tracked(p) \cup {key}
      BY <1>5 DEF Tracked
    <3>3. /\ IsFiniteSet(Tracked(p) \cup {key})
          /\ Cardinality(Tracked(p) \cup {key}) <= Cardinality(Tracked(p)) + 1
      <4>1. /\ IsFiniteSet(Tracked(p) \cup {key})
            /\ Cardinality(Tracked(p) \cup {key}) =
                 IF key \in Tracked(p) THEN Cardinality(Tracked(p)) ELSE Cardinality(Tracked(p)) + 1
        BY <2>1, FS_AddElement
      <4> QED
        BY <2>1, <4>1
    <3>4. /\ IsFiniteSet(Tracked(n))
          /\ Cardinality(Tracked(n)) <= Cardinality(Tracked(p) \cup {key})
      BY <3>2, <3>3, FS_Subset
    <3>5. Cardinality(Tracked(n)) \in Nat /\ Cardinality(Tracked(p) \cup {key}) \in Nat
      BY <3>3, <3>4, FS_CardinalityType
    <3> QED
      BY <2>1, <3>1, <3>3, <3>4, <3>5 DEF Bounded
  <2>3. CASE m[key] # None
    <3>1. p = m
      BY <1>1, <2>3
    <3>2. Tracked(n) \subseteq Tracked(m)
      BY <1>5, <2>3, <3>1 DEF Tracked
    <3>3. /\ IsFiniteSet(Tracked(n))
          /\ Cardinality(Tracked(n)) <= Cardinality(Tracked(m))
      BY <2>1, <3>1, <3>2, FS_Subset
    <3>4. Cardinality(Tracked(n)) \in Nat /\ Cardinality(Tracked(m)) <= MaxTracked
      BY <3>3, FS_CardinalityType DEF Sound, Bounded
    <3> QED
      BY <2>1, <3>1, <3>3, <3>4 DEF Bounded
  <2> QED
    BY <2>2, <2>3
<1> QED
  BY <1>2, <1>3, <1>5, <1>6, <1>7 DEF Sound, Part

LEMMA AfterCleanupPart ==
    ASSUME attempts \in Maps
    PROVE  Part(AfterCleanup, attempts)
BY SweepPart DEF AfterCleanup, Part

\* A call of RecordFailure, as the two failures it records.
LEMMA RecordFailureEffect ==
    ASSUME IInv, NEW ip \in Ips, NEW account \in Accounts, RecordFailure(ip, account)
    PROVE  \E m :
               /\ m \in RecordedFailure(AfterCleanup, ip)
               /\ attempts' \in RecordedFailure(m, account)
               /\ Sound(AfterCleanup) /\ Sound(m) /\ Sound(attempts')
<1>1. clock \in Nat /\ Sound(attempts) /\ ip \in Keys /\ account \in Keys
  BY LimitAssumption DEF IInv, TypeOK, Keys
<1>2. Sound(AfterCleanup)
  BY <1>1, AfterCleanupPart, PartSound DEF Sound
<1>3. PICK m \in RecordedFailure(AfterCleanup, ip) : attempts' \in RecordedFailure(m, account)
  BY DEF RecordFailure
<1>4. Sound(m)
  BY <1>1, <1>2, <1>3, RecordedFailureEffect
<1>5. Sound(attempts')
  BY <1>1, <1>3, <1>4, RecordedFailureEffect
<1> QED
  BY <1>2, <1>3, <1>4, <1>5

LEMMA RetryAfterEffect ==
    ASSUME IInv, NEW ip \in Ips, NEW account \in Accounts, RetryAfter(ip, account)
    PROVE  Part(attempts', attempts) /\ Sound(attempts') /\ wait' \in 0..Backoff
<1>1. clock \in Nat /\ Sound(attempts) /\ ip \in Keys /\ account \in Keys
  BY LimitAssumption DEF IInv, TypeOK, Keys
<1>2. Part(AfterCleanup, attempts)
  BY <1>1, AfterCleanupPart DEF Sound
<1>3. Part(Sweep(AfterCleanup, clock), AfterCleanup)
  BY <1>2, SweepPart DEF Part
<1>4. Part(attempts', attempts)
  BY <1>2, <1>3 DEF Part, Maps, RetryAfter
<1>5. Sound(attempts')
  BY <1>1, <1>4, PartSound
<1>6. \A k \in Keys : Remaining(attempts', k) \in 0..Backoff
  <2> TAKE k \in Keys
  <2>1. attempts'[k] # None =>
            attempts'[k].blockedUntil \in Nat /\ attempts'[k].blockedUntil <= clock + Backoff
    BY <1>5 DEF Sound, Maps, Timely, Attempt
  <2> QED
    BY <1>1, <2>1, LimitAssumption DEF Remaining
<1>7. wait' \in 0..Backoff
  BY <1>1, <1>6 DEF RetryAfter, Longest
<1> QED
  BY <1>4, <1>5, <1>7

-----------------------------------------------------------------------------
(* Types and the bound on the map                                          *)

LEMMA IInvInit ==
    ASSUME Init
    PROVE  IInv
<1>1. clock = 0 /\ attempts = [k \in Keys |-> None] /\ wait = 0
  BY DEF Init, LimitInit
<1>2. attempts \in Maps /\ Timely(attempts)
  BY <1>1 DEF Maps, Timely
<1>3. Tracked(attempts) = {}
  BY <1>1 DEF Tracked
<1>4. Bounded(attempts)
  BY <1>3, FS_EmptySet, LimitAssumption DEF Bounded
<1>5. recent \in [Keys -> [0..Backoff -> Nat]]
  BY DEF Init, NoFailures
<1>6. nextCleanup \in Nat /\ pending \in [Slots -> Login \cup {None}]
  BY DEF Init
<1> QED
  BY <1>1, <1>2, <1>4, <1>5, <1>6, LimitAssumption DEF IInv, TypeOK, Sound, Maps

\* The history keeps its type, whatever is counted in it.
LEMMA HistoryTypes ==
    ASSUME NEW r \in [0..Backoff -> Nat]
    PROVE  /\ NoFailures \in [0..Backoff -> Nat]
           /\ OneMore(r) \in [0..Backoff -> Nat]
           /\ OneTickOlder(r) \in [0..Backoff -> Nat]
BY LimitAssumption DEF NoFailures, OneMore, OneTickOlder

LEMMA PendingType ==
    ASSUME TypeOK, NEW s \in Slots, pending[s] # None
    PROVE  pending[s].ip \in Ips /\ pending[s].account \in Accounts
<1>1. pending[s] \in Login
  BY DEF TypeOK
<1> QED
  BY <1>1 DEF Login

LEMMA IInvNext ==
    ASSUME IInv, [Next]_vars
    PROVE  IInv'
<1>0. clock \in 0..MaxClock /\ clock \in Nat /\ MaxClock \in Nat
  BY LimitAssumption DEF IInv, TypeOK
<1>c. CleanupIfDue => nextCleanup' \in Nat
  BY <1>0, LimiterAssumption DEF IInv, TypeOK, CleanupIfDue
<1>1. ASSUME NEW s \in Slots, Ask(s)
      PROVE  IInv'
  <2>1. PICK ip \in Ips, account \in Accounts :
            /\ RetryAfter(ip, account)
            /\ pending' = IF wait' > 0 THEN pending
                          ELSE [pending EXCEPT ![s] = [ip |-> ip, account |-> account]]
    BY <1>1 DEF Ask
  <2>2. Sound(attempts') /\ wait' \in 0..Backoff
    BY <2>1, RetryAfterEffect
  <2>3. pending' \in [Slots -> Login \cup {None}]
    BY <2>1 DEF IInv, TypeOK, Login
  <2>4. nextCleanup' \in Nat
    BY <1>c, <2>1 DEF RetryAfter
  <2>5. clock' = clock /\ recent' = recent
    BY <1>1 DEF Ask
  <2> QED
    BY <2>2, <2>3, <2>4, <2>5 DEF IInv, TypeOK, Sound, Maps, Timely
<1>2. ASSUME NEW s \in Slots, Fail(s)
      PROVE  IInv'
  <2> DEFINE ip == pending[s].ip
             account == pending[s].account
  <2>1. ip \in Ips /\ account \in Accounts /\ RecordFailure(ip, account)
    BY <1>2, PendingType DEF Fail, IInv
  <2>2. Sound(attempts')
    BY <2>1, RecordFailureEffect
  <2>3. pending' \in [Slots -> Login \cup {None}]
    BY <1>2 DEF Fail, IInv, TypeOK
  <2>4. nextCleanup' \in Nat
    BY <1>c, <2>1 DEF RecordFailure
  <2>5. recent' \in [Keys -> [0..Backoff -> Nat]]
    <3> DEFINE before(k) == IF Evicted(k, ip, account) THEN NoFailures ELSE recent[k]
    <3>1. \A k \in Keys : before(k) \in [0..Backoff -> Nat]
      BY HistoryTypes DEF IInv, TypeOK
    <3>2. recent' = [k \in Keys |-> IF k \in {ip, account} /\ attempts'[k] # None
                                    THEN OneMore(before(k)) ELSE before(k)]
      BY <2>1 DEF RecordFailure
    <3>3. \A k \in Keys : OneMore(before(k)) \in [0..Backoff -> Nat]
      <4> HIDE DEF before
      <4> QED BY <3>1, HistoryTypes
    <3> HIDE DEF before
    <3> QED BY <3>1, <3>2, <3>3
  <2>6. clock' = clock /\ wait' = wait
    BY <1>2 DEF Fail
  <2> QED
    BY <2>2, <2>3, <2>4, <2>5, <2>6 DEF IInv, TypeOK, Sound, Maps, Timely
<1>3. ASSUME NEW s \in Slots, Succeed(s)
      PROVE  IInv'
  <2> DEFINE ip == pending[s].ip
             account == pending[s].account
  <2>1. ip \in Ips /\ account \in Accounts /\ RecordSuccess(ip, account)
    BY <1>3, PendingType DEF Succeed, IInv
  <2>2. Part(attempts', attempts)
    BY <2>1 DEF RecordSuccess, Forget, Part, Maps, IInv, Sound
  <2>3. Sound(attempts')
    BY <2>2, PartSound DEF IInv
  <2>4. pending' \in [Slots -> Login \cup {None}]
    BY <1>3 DEF Succeed, IInv, TypeOK
  <2>5. recent' \in [Keys -> [0..Backoff -> Nat]]
    BY <2>1, HistoryTypes DEF RecordSuccess, IInv, TypeOK
  <2>6. clock' = clock /\ wait' = wait /\ nextCleanup' = nextCleanup
    BY <1>3 DEF Succeed
  <2> QED
    BY <2>3, <2>4, <2>5, <2>6 DEF IInv, TypeOK, Sound, Maps, Timely
<1>4. ASSUME NEW s \in Slots, Abandon(s)
      PROVE  IInv'
  <2>1. pending' \in [Slots -> Login \cup {None}]
    BY <1>4 DEF Abandon, IInv, TypeOK
  <2> QED
    BY <1>4, <2>1 DEF Abandon, IInv, TypeOK, Sound, Maps, Timely, Bounded
<1>5. ASSUME Tick
      PROVE  IInv'
  <2>1. clock' = clock + 1 /\ clock < MaxClock
    BY <1>5 DEF Tick
  <2>2. attempts' = attempts /\ wait' = wait /\ nextCleanup' = nextCleanup /\ pending' = pending
    BY <1>5 DEF Tick
  <2>3. recent' \in [Keys -> [0..Backoff -> Nat]]
    BY <1>5, HistoryTypes DEF Tick, IInv, TypeOK
  <2>4. \A k \in Keys : attempts[k] # None =>
            attempts[k].windowStart \in Nat /\ attempts[k].blockedUntil \in Nat
    BY DEF IInv, TypeOK, Attempt
  <2>5. Timely(attempts)'
    BY <1>0, <2>1, <2>2, <2>4, LimitAssumption DEF IInv, Sound, Timely
  <2>6. Sound(attempts)'
    BY <2>2, <2>5 DEF IInv, Sound, Maps, Bounded
  <2> QED
    BY <1>0, <2>1, <2>2, <2>3, <2>6 DEF IInv, TypeOK
<1>6. CASE UNCHANGED vars
  BY <1>6 DEF vars, IInv, TypeOK, Sound, Maps, Timely, Bounded
<1> QED
  BY <1>1, <1>2, <1>3, <1>4, <1>5, <1>6 DEF Next

THEOREM Invariance == Spec => []IInv
<1>1. Init => IInv
  BY IInvInit
<1>2. IInv /\ [Next]_vars => IInv'
  BY IInvNext
<1> QED
  BY <1>1, <1>2, PTL DEF Spec

\* The variables keep their types: a wait is never longer than one backoff.
THEOREM TypeCorrect == Spec => []TypeOK
<1>1. IInv => TypeOK
  BY DEF IInv
<1> QED
  BY <1>1, Invariance, PTL

\* The map never holds more than MaxTracked keys, however many keys there are.
THEOREM TrackedKeysAlwaysBounded == Spec => []TrackedKeysBounded
<1>1. IInv => TrackedKeysBounded
  BY DEF IInv, Sound, Bounded, TrackedKeysBounded
<1> QED
  BY <1>1, Invariance, PTL

-----------------------------------------------------------------------------
(* The implementation of LoginLimit: what a sweep would leave              *)

LEMMA SameOperators ==
    /\ \A m, now : Limit!Sweep(m, now) = Sweep(m, now)
    /\ \A m, key : Limit!Failed(m, key) = Failed(m, key)
    /\ \A m, ip, account : Limit!Longest(m, ip, account) = Longest(m, ip, account)
    /\ \A m, ip, account : Limit!Forget(m, ip, account) = Forget(m, ip, account)
<1>0. \A S : Limit!Cardinality(S) = Cardinality(S)
  BY DEF Limit!Cardinality, Cardinality
<1>1. Limit!Keys = Keys
  BY DEF Limit!Keys, Keys
<1>2. \A a : Limit!ExpiresAt(a) = ExpiresAt(a)
  BY DEF Limit!ExpiresAt, ExpiresAt
<1>3. \A a, now : Limit!Expired(a, now) = Expired(a, now)
  BY <1>2 DEF Limit!Expired, Expired
<1>4. \A m, now : Limit!Sweep(m, now) = Sweep(m, now)
  BY <1>1, <1>3 DEF Limit!Sweep, Sweep
<1>5. \A m : Limit!Tracked(m) = Tracked(m)
  BY <1>1 DEF Limit!Tracked, Tracked
<1>6. \A m, n : Limit!Oldest(m, n) = Oldest(m, n)
  BY <1>0, <1>2, <1>5 DEF Limit!Oldest, Oldest
<1>7. \A m : Limit!Evict(m) = Evict(m)
  BY <1>0, <1>1, <1>5, <1>6 DEF Limit!Evict, Evict
<1>8. \A a : Limit!Strike(a) = Strike(a)
  BY DEF Limit!Strike, Strike, Limit!Blocks, Blocks
<1>9. Limit!Fresh = Fresh
  BY DEF Limit!Fresh, Fresh
<1>10. \A m, key : Limit!Failed(m, key) = Failed(m, key)
  BY <1>7, <1>8, <1>9 DEF Limit!Failed, Failed
<1>11. \A m, k : Limit!Remaining(m, k) = Remaining(m, k)
  BY DEF Limit!Remaining, Remaining
<1>12. \A m, ip, account : Limit!Longest(m, ip, account) = Longest(m, ip, account)
  BY <1>11 DEF Limit!Longest, Longest
<1>13. \A m, ip, account : Limit!Forget(m, ip, account) = Forget(m, ip, account)
  BY <1>1 DEF Limit!Forget, Forget
<1> QED
  BY <1>4, <1>10, <1>12, <1>13

\* A record that has just been struck has not expired.
LEMMA StruckIsLive ==
    ASSUME clock \in Nat,
           NEW a \in [failures : Nat, windowStart : Nat, blockedUntil : Nat],
           a.windowStart <= clock, a.blockedUntil <= clock + Backoff, ~Expired(a, clock)
    PROVE  ~Expired(Strike(a), clock)
<1>1. /\ Strike(a).windowStart = a.windowStart
      /\ Strike(a).blockedUntil = IF Blocks(a) THEN clock + Backoff ELSE a.blockedUntil
  BY StrikeType
<1>2. a.windowStart \in Nat /\ a.blockedUntil \in Nat
  OBVIOUS
<1>3. CASE Blocks(a)
  BY <1>1, <1>2, <1>3, LimitAssumption DEF Expired, ExpiresAt
<1>4. CASE ~Blocks(a)
  BY <1>1, <1>2, <1>4, LimitAssumption DEF Expired, ExpiresAt
<1> QED
  BY <1>3, <1>4

LEMMA FreshIsLive ==
    ASSUME clock \in Nat
    PROVE  ~Expired(Fresh, clock)
BY LimitAssumption DEF Fresh, Expired, ExpiresAt

\* What the records evicted in both specifications leave is not changed by
\* a sweep.
LEMMA RoomForKey ==
    ASSUME NEW m, Sound(m), NEW n \in MakeRoom(m)
    PROVE  Sweep(n, clock) \in Evict(Sweep(m, clock))
<1> DEFINE swept == Sweep(m, clock)
<1>0. Part(swept, m) /\ Sound(swept)
  BY SweepPart, PartSound DEF Sound
<1>1. CASE Cardinality(Tracked(m)) < MaxTracked
  <2>1. n = m
    BY <1>1 DEF MakeRoom
  <2>2. Cardinality(Tracked(swept)) <= Cardinality(Tracked(m))
    BY <1>0, PartSound, FS_Subset DEF Sound, Bounded
  <2>3. Cardinality(Tracked(swept)) \in Nat /\ Cardinality(Tracked(m)) \in Nat
    BY <1>0, FS_CardinalityType DEF Sound, Bounded
  <2>4. Cardinality(Tracked(swept)) + 1 - MaxTracked <= 0
    BY <1>1, <2>2, <2>3, LimitAssumption
  <2>5. Evict(swept) = {swept}
    BY <2>4 DEF Evict
  <2> QED
    BY <2>1, <2>5
<1>2. CASE ~(Cardinality(Tracked(m)) < MaxTracked)
  <2>1. n \in Evict(swept)
    BY <1>2 DEF MakeRoom
  <2>2. Part(n, swept)
    BY <1>0, <2>1, EvictEffect DEF Sound, Bounded
  <2>3. Sweep(n, clock) = n
    <3>1. \A k \in Keys : n[k] # None => ~Expired(n[k], clock)
      BY <2>2 DEF Part, Sweep
    <3>2. n = [k \in Keys |-> n[k]]
      BY <2>2 DEF Part, Maps
    <3> QED
      BY <3>1, <3>2 DEF Sweep
  <2> QED
    BY <2>1, <2>3
<1> QED
  BY <1>1, <1>2

\* The heart of the refinement: recording a failure and then sweeping is
\* sweeping and then recording it.
LEMMA FailureThenSweep ==
    ASSUME NEW m, Sound(m), NEW key \in Keys, clock \in Nat, NEW n \in RecordedFailure(m, key)
    PROVE  Sweep(n, clock) \in Failed(Sweep(m, clock), key)
<1> DEFINE swept == Sweep(m, clock)
           struck == Strike(RecordOf(m, key))
<1>1. PICK p \in IF m[key] = None THEN MakeRoom(m) ELSE {m} : n = [p EXCEPT ![key] = struck]
  BY DEF RecordedFailure
<1>2. Part(p, m)
  BY <1>1, MakeRoomEffect DEF Part, Sound
<1>3. struck # None /\ ~Expired(struck, clock)
  <2>1. n[key] = struck /\ n[key] \in Attempt
    BY RecordedFailureEffect
  <2>2. n[key] # None
    BY <2>1, NoneAssumption
  <2>3. RecordOf(m, key).windowStart <= clock /\ RecordOf(m, key).blockedUntil <= clock + Backoff
    BY RecordOfType
  <2>4. ~Expired(RecordOf(m, key), clock)
    BY FreshIsLive DEF RecordOf
  <2>5. ~Expired(struck, clock)
    BY <2>3, <2>4, RecordOfType, StruckIsLive
  <2> QED
    BY <2>1, <2>2, <2>5
<1>4. Sweep(n, clock) = [Sweep(p, clock) EXCEPT ![key] = struck]
  <2>1. n[key] = struck /\ \A k \in Keys \ {key} : n[k] = p[k]
    BY <1>1, <1>2 DEF Part, Maps
  <2>2. \A k \in Keys : Sweep(n, clock)[k] = IF k = key THEN struck ELSE Sweep(p, clock)[k]
    BY <1>3, <2>1 DEF Sweep
  <2>3. /\ Sweep(n, clock) = [k \in Keys |-> Sweep(n, clock)[k]]
        /\ Sweep(p, clock) = [k \in Keys |-> Sweep(p, clock)[k]]
    BY DEF Sweep
  <2> QED
    BY <2>2, <2>3
<1>5. CASE m[key] = None
  <2>1. swept[key] = None /\ struck = Strike(Fresh)
    BY <1>5 DEF RecordOf, Sweep
  <2>2. Sweep(p, clock) \in Evict(swept)
    BY <1>1, <1>5, RoomForKey
  <2> QED
    BY <1>4, <2>1, <2>2 DEF Failed
<1>6. CASE m[key] # None /\ ~Expired(m[key], clock)
  <2>1. p = m /\ swept[key] = m[key] /\ struck = Strike(m[key])
    BY <1>1, <1>6 DEF RecordOf, Sweep
  <2> QED
    BY <1>4, <1>6, <2>1 DEF Failed
<1>7. CASE m[key] # None /\ Expired(m[key], clock)
  <2>1. p = m /\ swept[key] = None /\ struck = Strike(Fresh)
    BY <1>1, <1>7 DEF RecordOf, Sweep
  <2>2. Part(swept, m)
    BY SweepPart DEF Sound
  <2>3. Tracked(swept) \subseteq Tracked(m) \ {key}
    BY <2>1, <2>2, PartSound DEF Tracked
  <2>4. key \in Tracked(m)
    BY <1>7 DEF Tracked
  <2>5. IsFiniteSet(Tracked(m)) /\ Cardinality(Tracked(m)) <= MaxTracked
    BY DEF Sound, Bounded
  <2>6. /\ IsFiniteSet(Tracked(m) \ {key})
        /\ Cardinality(Tracked(m) \ {key}) = Cardinality(Tracked(m)) - 1
    BY <2>4, <2>5, FS_RemoveElement
  <2>7. /\ IsFiniteSet(Tracked(swept))
        /\ Cardinality(Tracked(swept)) <= Cardinality(Tracked(m) \ {key})
    BY <2>3, <2>6, FS_Subset
  <2>8. Cardinality(Tracked(swept)) \in Nat /\ Cardinality(Tracked(m)) \in Nat
    BY <2>5, <2>7, FS_CardinalityType
  <2>9. Cardinality(Tracked(swept)) + 1 - MaxTracked <= 0
    BY <2>5, <2>6, <2>7, <2>8, LimitAssumption
  <2>10. Evict(swept) = {swept}
    BY <2>9 DEF Evict
  <2> QED
    BY <1>4, <2>1, <2>10 DEF Failed
<1> QED
  BY <1>5, <1>6, <1>7

Swept == Sweep(attempts, clock)

\* The map as callers see it, after a step of the limiter.
LEMMA SweepTwice ==
    ASSUME NEW m \in Maps, NEW t \in Nat, NEW u \in Nat, t <= u
    PROVE  Sweep(Sweep(m, t), u) = Sweep(m, u)
<1>1. ASSUME NEW k \in Keys, m[k] # None
      PROVE  Expired(m[k], t) => Expired(m[k], u)
  <2>1. m[k] \in Attempt
    BY <1>1 DEF Maps
  <2>2. ExpiresAt(m[k]) \in Int
    BY <2>1, LimitAssumption DEF Attempt, ExpiresAt
  <2> QED
    BY <2>2 DEF Expired
<1> QED
  BY <1>1 DEF Sweep

LEMMA StepRefines ==
    ASSUME IInv, [Next]_vars
    PROVE  [Limit!LimitNext]_(Limit!limitVars)
<1>0. clock \in Nat /\ MaxClock \in Nat /\ Sound(attempts)
  BY LimitAssumption DEF IInv, TypeOK
<1>1. ASSUME NEW s \in Slots, Ask(s)
      PROVE  Limit!LimitRetryAfter
  <2>1. PICK ip \in Ips, account \in Accounts : RetryAfter(ip, account)
    BY <1>1 DEF Ask
  <2>2. \A k \in {ip, account} : attempts'[k] = Sweep(AfterCleanup, clock)[k]
    BY <2>1 DEF RetryAfter, Keys
  <2>3. Sweep(AfterCleanup, clock) = Swept
    BY <1>0, SweepTwice DEF AfterCleanup, Swept, Sound
  <2>4. wait' = Longest(Swept, ip, account)
    BY <2>1, <2>2, <2>3 DEF RetryAfter, Longest, Remaining
  <2>5. Sweep(attempts', clock) = Swept
    BY <1>0, <2>1, <2>3 DEF RetryAfter, Sweep, Swept, AfterCleanup
  <2>6. clock' = clock /\ Swept' = Swept
    BY <1>1, <2>5 DEF Ask, Swept
  <2> QED
    BY <2>4, <2>6, SameOperators DEF Limit!LimitRetryAfter, Swept
<1>2. ASSUME NEW s \in Slots, Fail(s)
      PROVE  Limit!LimitRecordFailure
  <2> DEFINE ip == pending[s].ip
             account == pending[s].account
  <2>1. ip \in Ips /\ account \in Accounts /\ RecordFailure(ip, account)
    BY <1>2, PendingType DEF Fail, IInv
  <2>2. PICK m :
            /\ m \in RecordedFailure(AfterCleanup, ip)
            /\ attempts' \in RecordedFailure(m, account)
            /\ Sound(AfterCleanup) /\ Sound(m) /\ Sound(attempts')
    BY <2>1, RecordFailureEffect
  <2>3. Sweep(AfterCleanup, clock) = Swept
    BY <1>0, SweepTwice DEF AfterCleanup, Swept, Sound
  <2>4. Sweep(m, clock) \in Failed(Swept, ip)
    BY <1>0, <2>1, <2>2, <2>3, FailureThenSweep DEF Keys
  <2>5. Sweep(attempts', clock) \in Failed(Sweep(m, clock), account)
    BY <1>0, <2>1, <2>2, FailureThenSweep DEF Keys
  <2>6. clock' = clock /\ wait' = wait /\ Swept' = Sweep(attempts', clock)
    BY <1>2 DEF Fail, Swept
  <2> HIDE DEF ip, account
  <2> QED
    BY <2>1, <2>4, <2>5, <2>6, SameOperators DEF Limit!LimitRecordFailure, Swept
<1>3. ASSUME NEW s \in Slots, Succeed(s)
      PROVE  Limit!LimitRecordSuccess
  <2> DEFINE ip == pending[s].ip
             account == pending[s].account
  <2>1. ip \in Ips /\ account \in Accounts /\ RecordSuccess(ip, account)
    BY <1>3, PendingType DEF Succeed, IInv
  <2>2. clock' = clock /\ wait' = wait
    BY <1>3 DEF Succeed
  <2>3. Sweep(attempts', clock) = Forget(Swept, ip, account)
    BY <2>1 DEF RecordSuccess, Forget, Sweep, Swept
  <2>4. Swept' = Forget(Swept, ip, account)
    BY <2>2, <2>3 DEF Swept
  <2> HIDE DEF ip, account
  <2> QED
    BY <2>1, <2>2, <2>4, SameOperators DEF Limit!LimitRecordSuccess, Swept
<1>4. ASSUME NEW s \in Slots, Abandon(s)
      PROVE  UNCHANGED Limit!limitVars
  BY <1>4 DEF Abandon, Limit!limitVars
<1>5. ASSUME Tick
      PROVE  Limit!LimitTick
  <2>1. clock < MaxClock /\ clock' = clock + 1 /\ attempts' = attempts /\ wait' = wait
    BY <1>5 DEF Tick
  <2>2. Sweep(attempts, clock + 1) = Sweep(Swept, clock + 1)
    BY <1>0, SweepTwice DEF Swept, Sound
  <2> QED
    BY <2>1, <2>2, SameOperators DEF Limit!LimitTick, Swept
<1>6. CASE UNCHANGED vars
  BY <1>6 DEF vars, Limit!limitVars
<1> QED
  BY <1>1, <1>2, <1>3, <1>4, <1>5, <1>6 DEF Next, Limit!LimitNext

\* The limiter implements the one that forgets records as they expire.
THEOREM Implementation == Spec => ImplementsLoginLimit
<1>1. Init => Limit!LimitInit
  <2> SUFFICES ASSUME Init
               PROVE  Limit!LimitInit
    OBVIOUS
  <2>1. clock = 0 /\ wait = 0 /\ attempts = [k \in Keys |-> None]
    BY DEF Init, LimitInit
  <2>2. Sweep(attempts, clock) = [k \in Keys |-> None]
    BY <2>1 DEF Sweep
  <2> QED
    BY <2>1, <2>2 DEF Limit!LimitInit, Limit!Keys, Keys
<1>2. IInv /\ [Next]_vars => [Limit!LimitNext]_(Limit!limitVars)
  BY StepRefines
<1> QED
  BY <1>1, <1>2, Invariance, PTL DEF Spec, ImplementsLoginLimit, Limit!LimitSpec

-----------------------------------------------------------------------------
(* The bound on wrong passwords                                            *)

\* Logins past the check that will record a failure of k, if they fail.
Waiting(k) == {s \in Slots : pending[s] # None /\ k \in {pending[s].ip, pending[s].account}}

Most == (MaxFailures - 2) + MaxFailures + (Cardinality(Slots) - 1)

\* A record that does not block: its failures are those since its window
\* began, those before it were at most MaxFailures - 2.
Counting(a, r, now) ==
    a # None /\ a.failures < MaxFailures =>
        /\ a.blockedUntil = 0
        /\ \A n \in 0..Backoff : r[n] <= (MaxFailures - 2) + a.failures
        /\ \A n \in 0..Backoff : n <= now - a.windowStart => r[n] <= a.failures - 1

\* A record that blocks, or did: nothing failed since the last block was set,
\* and only the logins that were let in before it can still fail.
Blocking(a, r, p, now) ==
    a # None /\ a.failures >= MaxFailures =>
        /\ \A n \in 0..Backoff : n <= now + Backoff - a.blockedUntil => r[n] = 0
        /\ a.blockedUntil > now => \A n \in 0..Backoff : r[n] + p <= Most

\* How the record a of a key and its history r go together, with p logins
\* waiting to fail.
Counted(a, r, p, now) ==
    /\ r[0] = 0
    /\ a = None => \A n \in 0..Backoff : r[n] <= MaxFailures - 2
    /\ Counting(a, r, now)
    /\ Blocking(a, r, p, now)

\* What Timely says of one record.
Timed(a) == a.windowStart <= clock /\ a.blockedUntil <= clock + Backoff

Long == MaxFailures >= 2 /\ Window >= Backoff

HistoryInv ==
    Long => \A k \in Keys : Counted(attempts[k], recent[k], Cardinality(Waiting(k)), clock)

\* An expired record, like none, is preceded by at most MaxFailures - 2
\* failures.
LEMMA FewWhenGone ==
    ASSUME Long, clock \in Nat, NEW a \in Attempt \cup {None}, NEW r \in [0..Backoff -> Nat], NEW p,
           Counted(a, r, p, clock), a = None \/ Expired(a, clock)
    PROVE  \A n \in 0..Backoff : r[n] <= MaxFailures - 2
<1>0. MaxFailures \in Nat /\ Backoff \in Nat /\ Window \in Nat /\ MaxFailures >= 2 /\ Window >= Backoff
  BY LimitAssumption DEF Long
<1>1. CASE a = None
  BY <1>1 DEF Counted
<1>2. CASE a # None
  <2>1. a.failures \in Nat /\ a.windowStart \in Nat /\ a.blockedUntil \in Nat
    BY <1>2 DEF Attempt
  <2>2. clock >= a.windowStart + Window /\ clock >= a.blockedUntil
    BY <1>0, <1>2, <2>1 DEF Expired, ExpiresAt
  <2> TAKE n \in 0..Backoff
  <2>3. r[n] \in Nat
    OBVIOUS
  <2>4. CASE a.failures < MaxFailures
    <3>1. n <= clock - a.windowStart
      BY <1>0, <2>1, <2>2
    <3>2. r[n] <= a.failures - 1
      BY <1>2, <2>4, <3>1 DEF Counted, Counting
    <3> QED
      BY <1>0, <2>1, <2>3, <2>4, <3>2
  <2>5. CASE a.failures >= MaxFailures
    <3>1. n <= clock + Backoff - a.blockedUntil
      BY <1>0, <2>1, <2>2
    <3>2. r[n] = 0
      BY <1>2, <2>5, <3>1 DEF Counted, Blocking
    <3> QED
      BY <1>0, <3>2
  <2> QED
    BY <1>0, <2>1, <2>4, <2>5
<1> QED
  BY <1>1, <1>2

\* Without a record any short history will do.
LEMMA CountedNone ==
    ASSUME NEW r, NEW p, r[0] = 0, \A n \in 0..Backoff : r[n] <= MaxFailures - 2
    PROVE  Counted(None, r, p, clock)
BY DEF Counted, Counting, Blocking

\* There are p logins besides the one that records its outcome.
Others(p) == p \in Nat /\ Cardinality(Slots) \in Nat /\ p <= Cardinality(Slots) - 1

\* One more failure in a record.
LEMMA CountedStrike ==
    ASSUME Long, clock \in Nat, NEW a \in Attempt, Timed(a), NEW r \in [0..Backoff -> Nat],
           NEW p, Others(p), Counted(a, r, p + 1, clock)
    PROVE  Counted(Strike(a), OneMore(r), p, clock)
<1>0. MaxFailures \in Nat /\ Backoff \in Nat /\ MaxFailures >= 2
  BY LimitAssumption DEF Long
<1>1. a.failures \in Nat /\ a.windowStart \in Nat /\ a.blockedUntil \in Nat /\ a # None
  BY NoneAssumption DEF Attempt
<1>2. /\ Strike(a) \in Attempt
      /\ Strike(a).failures = a.failures + 1
      /\ Strike(a).windowStart = a.windowStart
      /\ Strike(a).blockedUntil = IF Blocks(a) THEN clock + Backoff ELSE a.blockedUntil
  <2>1. a \in [failures : Nat, windowStart : Nat, blockedUntil : Nat]
    BY DEF Attempt
  <2>2. a.windowStart <= clock /\ a.blockedUntil <= clock + Backoff
    BY DEF Timed
  <2> QED
    BY <2>1, <2>2, StrikeType
<1>3. Strike(a) # None
  BY <1>2, NoneAssumption
<1>4. OneMore(r)[0] = 0 /\ \A n \in 0..Backoff : OneMore(r)[n] = IF n = 0 THEN 0 ELSE r[n] + 1
  BY <1>0 DEF OneMore
<1>5. Counting(Strike(a), OneMore(r), clock)
  <2> SUFFICES ASSUME a.failures + 1 < MaxFailures
               PROVE  /\ Strike(a).blockedUntil = 0
                      /\ \A n \in 0..Backoff : OneMore(r)[n] <= (MaxFailures - 2) + (a.failures + 1)
                      /\ \A n \in 0..Backoff : n <= clock - a.windowStart => OneMore(r)[n] <= a.failures
    BY <1>1, <1>2 DEF Counting
  <2>1. a.failures < MaxFailures /\ ~Blocks(a)
    BY <1>0, <1>1 DEF Blocks
  <2>2. /\ a.blockedUntil = 0
        /\ \A n \in 0..Backoff : r[n] <= (MaxFailures - 2) + a.failures
        /\ \A n \in 0..Backoff : n <= clock - a.windowStart => r[n] <= a.failures - 1
    BY <1>1, <2>1 DEF Counted, Counting
  <2>3. Strike(a).blockedUntil = 0
    BY <1>2, <2>1, <2>2
  <2>4. ASSUME NEW n \in 0..Backoff
        PROVE  /\ OneMore(r)[n] <= (MaxFailures - 2) + (a.failures + 1)
               /\ n <= clock - a.windowStart => OneMore(r)[n] <= a.failures
    <3>1. r[n] \in Nat /\ OneMore(r)[n] \in Nat /\ OneMore(r)[n] <= r[n] + 1
      <4>1. r[n] \in Nat /\ OneMore(r)[n] = IF n = 0 THEN 0 ELSE r[n] + 1
        BY <1>4
      <4> QED
        BY <4>1
    <3>2. r[n] <= (MaxFailures - 2) + a.failures
      BY <2>2
    <3>3. n <= clock - a.windowStart => r[n] <= a.failures - 1
      BY <2>2
    <3>4. r[n] + 1 <= (MaxFailures - 2) + (a.failures + 1)
      BY <1>0, <1>1, <3>1, <3>2
    <3>5. n <= clock - a.windowStart => r[n] + 1 <= a.failures
      BY <1>1, <3>1, <3>3
    <3>6. OneMore(r)[n] <= (MaxFailures - 2) + (a.failures + 1)
      <4> DEFINE more == OneMore(r)[n]
                 before == r[n]
      <4>1. more \in Nat /\ before \in Nat /\ more <= before + 1
        BY <3>1
      <4>2. before + 1 <= (MaxFailures - 2) + (a.failures + 1)
        BY <3>4
      <4> HIDE DEF more, before
      <4>3. more <= (MaxFailures - 2) + (a.failures + 1)
        BY <1>0, <1>1, <4>1, <4>2
      <4> QED
        BY <4>3 DEF more
    <3>7. n <= clock - a.windowStart => OneMore(r)[n] <= a.failures
      BY <1>1, <3>1, <3>5
    <3> QED
      BY <3>6, <3>7
  <2> QED
    BY <2>3, <2>4
<1>6. Blocking(Strike(a), OneMore(r), p, clock)
  <2> SUFFICES ASSUME a.failures + 1 >= MaxFailures
               PROVE  /\ \A n \in 0..Backoff :
                             n <= clock + Backoff - Strike(a).blockedUntil => OneMore(r)[n] = 0
                      /\ \A n \in 0..Backoff : OneMore(r)[n] + p <= Most
    BY <1>2 DEF Blocking
  <2>1. Strike(a).blockedUntil = clock + Backoff
    BY <1>2 DEF Blocks
  <2>2. \A n \in 0..Backoff : n <= clock + Backoff - Strike(a).blockedUntil => OneMore(r)[n] = 0
    BY <1>0, <1>4, <2>1
  <2> SUFFICES ASSUME NEW n \in 0..Backoff
               PROVE  OneMore(r)[n] + p <= Most
    BY <2>2
  <2>3. OneMore(r)[n] <= r[n] + 1 /\ OneMore(r)[n] \in Nat /\ r[n] \in Nat
    BY <1>4
  <2>4. CASE a.failures < MaxFailures
    <3>1. r[n] <= (MaxFailures - 2) + a.failures
      BY <1>1, <2>4 DEF Counted, Counting
    <3>2. a.failures <= MaxFailures - 1
      BY <1>0, <1>1, <2>4
    <3>3. r[n] + 1 <= (MaxFailures - 2) + MaxFailures
      BY <1>0, <1>1, <3>1, <3>2
    <3>4. OneMore(r)[n] <= (MaxFailures - 2) + MaxFailures
      BY <1>0, <2>3, <3>3
    <3> QED
      BY <1>0, <2>3, <3>4 DEF Most, Others
  <2>5. CASE a.failures >= MaxFailures /\ a.blockedUntil > clock
    <3>1. r[n] + (p + 1) <= Most
      BY <1>1, <2>5 DEF Counted, Blocking
    <3> QED
      BY <1>0, <2>3, <3>1 DEF Most, Others
  <2>6. CASE a.failures >= MaxFailures /\ ~(a.blockedUntil > clock)
    <3>1. n <= clock + Backoff - a.blockedUntil
      BY <1>0, <1>1, <2>6
    <3>2. r[n] = 0
      BY <1>1, <2>6, <3>1 DEF Counted, Blocking
    <3> QED
      BY <1>0, <2>3, <3>2 DEF Most, Others
  <2> QED
    BY <1>0, <1>1, <2>4, <2>5, <2>6
<1> QED
  BY <1>3, <1>4, <1>5, <1>6 DEF Counted

\* The first failure of a new window, after a short history.
LEMMA CountedFirst ==
    ASSUME Long, clock \in Nat, NEW r \in [0..Backoff -> Nat], NEW p,
           \A n \in 0..Backoff : r[n] <= MaxFailures - 2
    PROVE  Counted(Strike(Fresh), OneMore(r), p, clock)
<1>0. MaxFailures \in Nat /\ Backoff \in Nat /\ MaxFailures >= 2
  BY LimitAssumption DEF Long
<1>1. ~Blocks(Fresh)
  BY <1>0, FreshType DEF Blocks
<1>2. /\ Strike(Fresh) \in Attempt /\ Strike(Fresh).failures = 1
      /\ Strike(Fresh).windowStart = clock /\ Strike(Fresh).blockedUntil = 0
  <2>1. Fresh.windowStart <= clock
    BY FreshType
  <2> QED
    BY <1>1, <2>1, FreshType, StrikeType
<1>3. Strike(Fresh) # None
  BY <1>2, NoneAssumption
<1>4. OneMore(r)[0] = 0 /\ \A n \in 0..Backoff : OneMore(r)[n] = IF n = 0 THEN 0 ELSE r[n] + 1
  BY <1>0 DEF OneMore
<1>5. Counting(Strike(Fresh), OneMore(r), clock)
  BY <1>0, <1>2, <1>4 DEF Counting
<1>6. Blocking(Strike(Fresh), OneMore(r), p, clock)
  BY <1>0, <1>2 DEF Blocking
<1> QED
  BY <1>3, <1>4, <1>5, <1>6 DEF Counted

\* While a record does not block, it does not matter who waits.
LEMMA CountedUnblocked ==
    ASSUME clock \in Nat, NEW a \in Attempt \cup {None}, NEW r, NEW p, NEW q,
           Counted(a, r, p, clock), a = None \/ a.blockedUntil <= clock
    PROVE  Counted(a, r, q, clock)
<1>1. a # None => a.blockedUntil \in Nat /\ ~(a.blockedUntil > clock)
  BY DEF Attempt
<1> QED
  BY <1>1 DEF Counted, Counting, Blocking

\* It is better to have fewer of them.
LEMMA CountedFewer ==
    ASSUME NEW a, NEW r \in [0..Backoff -> Nat], NEW p, Others(p), Counted(a, r, p + 1, clock)
    PROVE  Counted(a, r, p, clock)
<1>1. ASSUME NEW n \in 0..Backoff, r[n] + (p + 1) <= Most
      PROVE  r[n] + p <= Most
  <2>1. r[n] \in Nat /\ p \in Nat /\ Most \in Int
    BY LimitAssumption DEF Others, Most
  <2> QED
    BY <1>1, <2>1
<1> QED
  BY <1>1 DEF Counted, Blocking

Gone(k) == attempts[k] = None \/ Expired(attempts[k], clock)

LEMMA CleanupKeepsLive ==
    ASSUME NEW k \in Keys
    PROVE  AfterCleanup[k] = attempts[k] \/ (AfterCleanup[k] = None /\ Gone(k))
BY DEF AfterCleanup, Sweep, Gone

\* What RetryAfter drops had expired, and what it lets pass does not block.
LEMMA RetryAfterKeepsLive ==
    ASSUME IInv, NEW ip \in Ips, NEW account \in Accounts, RetryAfter(ip, account)
    PROVE  /\ \A k \in Keys : attempts'[k] = attempts[k] \/ (attempts'[k] = None /\ Gone(k))
           /\ wait' = 0 => \A k \in {ip, account} :
                               attempts'[k] = None \/ attempts'[k].blockedUntil <= clock
<1>1. \A k \in Keys : attempts'[k] = attempts[k] \/ (attempts'[k] = None /\ Gone(k))
  <2> TAKE k \in Keys
  <2>1. attempts'[k] = AfterCleanup[k] \/ attempts'[k] = Sweep(AfterCleanup, clock)[k]
    BY DEF RetryAfter
  <2>2. Sweep(AfterCleanup, clock)[k] = AfterCleanup[k]
        \/ (Sweep(AfterCleanup, clock)[k] = None /\ Expired(AfterCleanup[k], clock))
    BY DEF Sweep
  <2> QED
    BY <2>1, <2>2, CleanupKeepsLive DEF Gone
<1>2. ASSUME wait' = 0, NEW k \in {ip, account}, attempts'[k] # None
      PROVE  attempts'[k].blockedUntil <= clock
  <2>1. clock \in Nat /\ ip \in Keys /\ account \in Keys
    BY LimitAssumption DEF IInv, TypeOK, Keys
  <2>2. Remaining(attempts', ip) \in Nat /\ Remaining(attempts', account) \in Nat
    <3>1. attempts' \in Maps
      BY RetryAfterEffect DEF Sound
    <3>2. \A l \in Keys : attempts'[l] # None => attempts'[l].blockedUntil \in Nat
      BY <3>1 DEF Maps, Attempt
    <3> QED
      BY <2>1, <3>2 DEF Remaining
  <2>3. Remaining(attempts', ip) = 0 /\ Remaining(attempts', account) = 0
    BY <1>2, <2>2 DEF RetryAfter, Longest
  <2>4. attempts'[k].blockedUntil \in Nat
    BY <1>2, <2>1, RetryAfterEffect DEF Sound, Maps, Attempt
  <2> QED
    BY <1>2, <2>1, <2>3, <2>4 DEF Remaining
<1> QED
  BY <1>1, <1>2

\* What becomes of each record and its history when a failure is recorded.
LEMMA RecordFailureCases ==
    ASSUME IInv, NEW ip \in Ips, NEW account \in Accounts, RecordFailure(ip, account),
           NEW k \in Keys
    PROVE  \/ attempts'[k] = None /\ recent'[k] = NoFailures
           \/ attempts'[k] = None /\ Gone(k) /\ recent'[k] = recent[k]
           \/ /\ k \in {ip, account}
              /\ ~Gone(k) /\ attempts'[k] = Strike(attempts[k]) /\ recent'[k] = OneMore(recent[k])
           \/ /\ k \in {ip, account}
              /\ Gone(k) /\ attempts'[k] = Strike(Fresh) /\ recent'[k] = OneMore(recent[k])
           \/ /\ k \in {ip, account}
              /\ attempts'[k] = Strike(Fresh) /\ recent'[k] = OneMore(NoFailures)
           \/ /\ k \notin {ip, account}
              /\ attempts'[k] = attempts[k] /\ recent'[k] = recent[k]
<1>1. PICK m :
          /\ m \in RecordedFailure(AfterCleanup, ip)
          /\ attempts' \in RecordedFailure(m, account)
          /\ Sound(AfterCleanup) /\ Sound(m) /\ Sound(attempts')
  BY RecordFailureEffect
<1>2. clock \in Nat /\ ip \in Keys /\ account \in Keys /\ ip # account
  BY LimitAssumption DEF IInv, TypeOK, Keys
<1>3. /\ m[ip] = Strike(RecordOf(AfterCleanup, ip))
      /\ \A l \in Keys \ {ip} : m[l] = None \/ m[l] = AfterCleanup[l]
  BY <1>1, <1>2, RecordedFailureEffect
<1>4. /\ attempts'[account] = Strike(RecordOf(m, account)) /\ attempts'[account] \in Attempt
      /\ \A l \in Keys \ {account} : attempts'[l] = None \/ attempts'[l] = m[l]
  BY <1>1, <1>2, RecordedFailureEffect
<1>5. recent'[k] = LET before == IF Evicted(k, ip, account) THEN NoFailures ELSE recent[k]
                   IN  IF k \in {ip, account} /\ attempts'[k] # None THEN OneMore(before)
                       ELSE before
  BY DEF RecordFailure
<1>6. Gone(k) => ~Evicted(k, ip, account)
  BY DEF Gone, Evicted
<1>7. ~Gone(k) => (attempts'[k] = None => Evicted(k, ip, account))
  BY DEF Gone, Evicted
<1>8. CASE k \in {ip, account} /\ attempts'[k] # None
  <2>1. attempts'[k] = Strike(Fresh) \/ (~Gone(k) /\ attempts'[k] = Strike(attempts[k]))
    <3>1. RecordOf(AfterCleanup, k) = Fresh \/ (~Gone(k) /\ RecordOf(AfterCleanup, k) = attempts[k])
      BY CleanupKeepsLive DEF RecordOf, Gone
    <3>2. CASE k = ip
      BY <1>2, <1>3, <1>4, <1>8, <3>1, <3>2
    <3>3. CASE k = account
      <4>1. m[k] = None \/ m[k] = AfterCleanup[k]
        BY <1>2, <1>3, <3>3
      <4>2. RecordOf(m, k) = Fresh \/ RecordOf(m, k) = RecordOf(AfterCleanup, k)
        BY <4>1 DEF RecordOf
      <4> QED
        BY <1>4, <3>1, <3>3, <4>2
    <3> QED
      BY <1>8, <3>2, <3>3
  <2>2. CASE ~Gone(k) /\ attempts'[k] = Strike(attempts[k])
    <3>1. attempts[k] \in Attempt /\ attempts[k].failures \in Nat \ {0}
      BY <2>2 DEF Gone, IInv, TypeOK, Attempt
    <3>2. Timed(attempts[k])
      BY <2>2 DEF Gone, IInv, Sound, Timely, Timed
    <3>3. attempts'[k].failures = attempts[k].failures + 1
      BY <1>2, <2>2, <3>1, <3>2, StrikeType DEF Timed, Attempt
    <3>4. ~Evicted(k, ip, account)
      BY <1>8, <3>1, <3>3 DEF Evicted
    <3> QED
      BY <1>5, <1>8, <2>2, <3>4
  <2>3. CASE attempts'[k] = Strike(Fresh)
    <3>1. Strike(Fresh).failures = 1
      <4>1. Fresh.windowStart <= clock
        BY <1>2, FreshType
      <4> QED
        BY <1>2, <4>1, FreshType, StrikeType
    <3>2. ~Gone(k) => Evicted(k, ip, account)
      BY <1>8, <2>3, <3>1 DEF Gone, Evicted
    <3> QED
      BY <1>5, <1>6, <1>8, <2>3, <3>2
  <2> QED
    BY <2>1, <2>2, <2>3
<1>9. CASE k \in {ip, account} /\ attempts'[k] = None
  BY <1>5, <1>6, <1>7, <1>9
<1>10. CASE k \notin {ip, account}
  <2>1. attempts'[k] = None \/ attempts'[k] = AfterCleanup[k]
    BY <1>3, <1>4, <1>10
  <2>2. recent'[k] = IF Evicted(k, ip, account) THEN NoFailures ELSE recent[k]
    BY <1>5, <1>10
  <2>3. CASE attempts'[k] = None
    BY <1>6, <1>7, <2>2, <2>3
  <2>4. CASE attempts'[k] # None
    <3>1. attempts'[k] = attempts[k]
      BY <2>1, <2>4, CleanupKeepsLive
    <3>2. ~Evicted(k, ip, account)
      BY <1>10, <2>4 DEF Evicted
    <3> QED
      BY <1>10, <2>2, <3>1, <3>2
  <2> QED
    BY <2>3, <2>4
<1> QED
  BY <1>8, <1>9, <1>10

LEMMA WaitingFinite ==
    ASSUME NEW k
    PROVE  /\ IsFiniteSet(Waiting(k)) /\ Cardinality(Waiting(k)) \in Nat
           /\ Cardinality(Slots) \in Nat
<1>1. Waiting(k) \subseteq Slots
  BY DEF Waiting
<1>2. IsFiniteSet(Waiting(k))
  BY <1>1, LimiterAssumption, FS_Subset
<1> QED
  BY <1>2, LimiterAssumption, FS_CardinalityType

\* A login that ends waits no longer, and the others are fewer than the slots.
LEMMA OneWaitsLess ==
    ASSUME NEW s \in Slots, pending[s] # None, NEW k \in {pending[s].ip, pending[s].account},
           TypeOK, pending' = [pending EXCEPT ![s] = None]
    PROVE  /\ Others(Cardinality(Waiting(k)'))
           /\ Cardinality(Waiting(k)) = Cardinality(Waiting(k)') + 1
<1>1. Waiting(k)' = Waiting(k) \ {s} /\ s \in Waiting(k)
  BY DEF Waiting, TypeOK
<1>2. /\ Cardinality(Waiting(k)') = Cardinality(Waiting(k)) - 1
      /\ IsFiniteSet(Waiting(k)')
  BY <1>1, WaitingFinite, FS_RemoveElement
<1>3. Waiting(k)' \subseteq Slots \ {s}
  BY <1>1 DEF Waiting
<1>4. IsFiniteSet(Slots \ {s}) /\ Cardinality(Slots \ {s}) = Cardinality(Slots) - 1
  BY LimiterAssumption, FS_RemoveElement
<1>5. Cardinality(Waiting(k)') <= Cardinality(Slots \ {s})
  BY <1>3, <1>4, FS_Subset
<1>6. Cardinality(Waiting(k)') \in Nat /\ Cardinality(Waiting(k)) \in Nat /\ Cardinality(Slots) \in Nat
  BY <1>2, WaitingFinite, FS_CardinalityType
<1> QED
  BY <1>2, <1>4, <1>5, <1>6 DEF Others

\* Ending a login of other keys, or starting one, leaves who waits for k.
LEMMA SameWaiting ==
    ASSUME TypeOK, NEW s \in Slots, NEW k, NEW login, pending' = [pending EXCEPT ![s] = login],
           pending[s] # None => k \notin {pending[s].ip, pending[s].account},
           login # None => k \notin {login.ip, login.account}
    PROVE  Waiting(k)' = Waiting(k)
BY DEF Waiting, TypeOK

\* Time passing makes the history older, and blocks end.
LEMMA CountedTick ==
    ASSUME clock \in Nat, NEW a \in Attempt \cup {None}, NEW r \in [0..Backoff -> Nat], NEW p,
           Counted(a, r, p, clock)
    PROVE  Counted(a, OneTickOlder(r), p, clock + 1)
<1>0. Backoff \in Nat /\ 0 \in 0..Backoff
  BY LimitAssumption
<1>1. \A n \in 0..Backoff : n = 0 \/ n - 1 \in 0..Backoff
  BY <1>0
<1>2. /\ OneTickOlder(r)[0] = 0
      /\ \A n \in 0..Backoff : n # 0 => OneTickOlder(r)[n] = r[n - 1]
  BY <1>0 DEF OneTickOlder
<1>3. r[0] = 0
  BY DEF Counted
<1>4. \A n \in 0..Backoff : \E i \in 0..Backoff :
          OneTickOlder(r)[n] = r[i] /\ (i = n - 1 \/ (n = 0 /\ i = 0))
  BY <1>0, <1>1, <1>2, <1>3
<1>5. a = None => \A n \in 0..Backoff : OneTickOlder(r)[n] <= MaxFailures - 2
  BY <1>4 DEF Counted
<1>6. ASSUME a # None
      PROVE  a.failures \in Nat \ {0} /\ a.windowStart \in Nat /\ a.blockedUntil \in Nat
  BY <1>6 DEF Attempt
<1>7. Counting(a, OneTickOlder(r), clock + 1)
  <2> SUFFICES ASSUME a # None, a.failures < MaxFailures
               PROVE  /\ a.blockedUntil = 0
                      /\ \A n \in 0..Backoff : OneTickOlder(r)[n] <= (MaxFailures - 2) + a.failures
                      /\ \A n \in 0..Backoff :
                             n <= (clock + 1) - a.windowStart => OneTickOlder(r)[n] <= a.failures - 1
    BY DEF Counting
  <2>1. /\ a.blockedUntil = 0
        /\ \A n \in 0..Backoff : r[n] <= (MaxFailures - 2) + a.failures
        /\ \A n \in 0..Backoff : n <= clock - a.windowStart => r[n] <= a.failures - 1
    BY DEF Counted, Counting
  <2>2. \A n \in 0..Backoff : OneTickOlder(r)[n] <= (MaxFailures - 2) + a.failures
    BY <1>4, <2>1
  <2>3. ASSUME NEW n \in 0..Backoff, n <= (clock + 1) - a.windowStart
        PROVE  OneTickOlder(r)[n] <= a.failures - 1
    <3>1. CASE n = 0
      BY <1>2, <1>6, <3>1
    <3>2. CASE n # 0
      <4>1. n - 1 \in 0..Backoff /\ OneTickOlder(r)[n] = r[n - 1]
        BY <1>1, <1>2, <3>2
      <4>2. n - 1 <= clock - a.windowStart
        BY <1>0, <1>6, <2>3
      <4> QED
        BY <2>1, <4>1, <4>2
    <3> QED
      BY <3>1, <3>2
  <2> QED
    BY <2>1, <2>2, <2>3
<1>8. Blocking(a, OneTickOlder(r), p, clock + 1)
  <2> SUFFICES ASSUME a # None, a.failures >= MaxFailures
               PROVE  /\ \A n \in 0..Backoff :
                             n <= (clock + 1) + Backoff - a.blockedUntil => OneTickOlder(r)[n] = 0
                      /\ a.blockedUntil > clock + 1 =>
                             \A n \in 0..Backoff : OneTickOlder(r)[n] + p <= Most
    BY DEF Blocking
  <2>1. /\ \A n \in 0..Backoff : n <= clock + Backoff - a.blockedUntil => r[n] = 0
        /\ a.blockedUntil > clock => \A n \in 0..Backoff : r[n] + p <= Most
    BY DEF Counted, Blocking
  <2>2. \A n \in 0..Backoff :
            n <= (clock + 1) + Backoff - a.blockedUntil => OneTickOlder(r)[n] = 0
    <3> SUFFICES ASSUME NEW n \in 0..Backoff, n <= (clock + 1) + Backoff - a.blockedUntil
                 PROVE  OneTickOlder(r)[n] = 0
      OBVIOUS
    <3>1. CASE n = 0
      BY <1>2, <3>1
    <3>2. CASE n # 0
      <4>1. n - 1 \in 0..Backoff /\ OneTickOlder(r)[n] = r[n - 1]
        BY <1>1, <1>2, <3>2
      <4>2. n - 1 <= clock + Backoff - a.blockedUntil
        BY <1>0, <1>6
      <4> QED
        BY <2>1, <4>1, <4>2
    <3> QED
      BY <3>1, <3>2
  <2>3. a.blockedUntil > clock + 1 => \A n \in 0..Backoff : OneTickOlder(r)[n] + p <= Most
    BY <1>4, <1>6, <2>1
  <2> QED
    BY <2>2, <2>3
<1> QED
  BY <1>2, <1>5, <1>7, <1>8 DEF Counted

LEMMA HistoryNext ==
    ASSUME IInv, HistoryInv, [Next]_vars
    PROVE  HistoryInv'
<1> SUFFICES ASSUME Long, NEW k \in Keys
             PROVE  Counted(attempts[k], recent[k], Cardinality(Waiting(k)), clock)'
  BY DEF HistoryInv, Long
<1> DEFINE a == attempts[k]
           r == recent[k]
           p == Cardinality(Waiting(k))
<1>0. /\ TypeOK /\ clock \in Nat /\ a \in Attempt \cup {None} /\ r \in [0..Backoff -> Nat]
      /\ Counted(a, r, p, clock) /\ p \in Nat /\ (a # None => Timed(a))
  <2>1. TypeOK /\ clock \in Nat /\ a \in Attempt \cup {None} /\ r \in [0..Backoff -> Nat]
    BY LimitAssumption DEF IInv, TypeOK
  <2>2. p \in Nat
    BY WaitingFinite
  <2>3. a # None => Timed(a)
    BY DEF IInv, Sound, Timely, Timed
  <2> QED
    BY <2>1, <2>2, <2>3 DEF HistoryInv
<1>z. NoFailures[0] = 0 /\ \A n \in 0..Backoff : NoFailures[n] <= MaxFailures - 2
  BY LimitAssumption DEF NoFailures, Long
<1>1. ASSUME NEW s \in Slots, Ask(s)
      PROVE  Counted(attempts'[k], recent'[k], Cardinality(Waiting(k)'), clock')
  <2>1. PICK ip \in Ips, account \in Accounts :
            /\ RetryAfter(ip, account)
            /\ pending' = IF wait' > 0 THEN pending
                          ELSE [pending EXCEPT ![s] = [ip |-> ip, account |-> account]]
    BY <1>1 DEF Ask
  <2>2. pending[s] = None /\ clock' = clock /\ recent' = recent
    BY <1>1 DEF Ask
  <2>3. attempts'[k] \in Attempt \cup {None} /\ wait' \in Nat
    BY <2>1, RetryAfterEffect DEF Sound, Maps
  <2>4. Counted(attempts'[k], r, p, clock)
    <3>1. CASE attempts'[k] = a
      BY <1>0, <3>1
    <3>2. CASE attempts'[k] = None /\ Gone(k)
      <4>1. \A n \in 0..Backoff : r[n] <= MaxFailures - 2
        BY <1>0, <3>2, FewWhenGone DEF Gone
      <4>2. r[0] = 0
        BY <1>0 DEF Counted
      <4> HIDE DEF r, p
      <4> QED
        BY <3>2, <4>1, <4>2, CountedNone
    <3> QED
      BY <2>1, <3>1, <3>2, RetryAfterKeepsLive
  <2>5. CASE wait' > 0
    BY <2>1, <2>2, <2>4, <2>5 DEF Waiting
  <2>6. CASE ~(wait' > 0) /\ k \in {ip, account}
    <3>1. wait' = 0
      BY <2>3, <2>6
    <3>2. attempts'[k] = None \/ attempts'[k].blockedUntil <= clock
      BY <2>1, <2>6, <3>1, RetryAfterKeepsLive
    <3> QED
      BY <1>0, <2>2, <2>3, <2>4, <3>2, CountedUnblocked
  <2>7. CASE ~(wait' > 0) /\ k \notin {ip, account}
    <3> DEFINE login == [ip |-> ip, account |-> account]
    <3>1. pending' = [pending EXCEPT ![s] = login] /\ login.ip = ip /\ login.account = account
      BY <2>1, <2>7
    <3> HIDE DEF login
    <3>2. Waiting(k)' = Waiting(k)
      BY <1>0, <2>2, <2>7, <3>1, SameWaiting
    <3> QED
      BY <2>2, <2>4, <3>2
  <2> QED
    BY <2>5, <2>6, <2>7
<1>2. ASSUME NEW s \in Slots, Fail(s)
      PROVE  Counted(attempts'[k], recent'[k], Cardinality(Waiting(k)'), clock')
  <2> DEFINE ip == pending[s].ip
             account == pending[s].account
             q == Cardinality(Waiting(k)')
  <2>1. /\ ip \in Ips /\ account \in Accounts /\ RecordFailure(ip, account)
        /\ pending[s] # None /\ pending' = [pending EXCEPT ![s] = None] /\ clock' = clock
    BY <1>0, <1>2, PendingType DEF Fail
  <2>2. CASE attempts'[k] = None /\ recent'[k] = NoFailures
    BY <1>z, <2>1, <2>2, CountedNone
  <2>3. CASE attempts'[k] = None /\ Gone(k) /\ recent'[k] = r
    <3>1. \A n \in 0..Backoff : r[n] <= MaxFailures - 2
      BY <1>0, <2>3, FewWhenGone DEF Gone
    <3>2. r[0] = 0
      BY <1>0 DEF Counted
    <3> QED
      BY <2>1, <2>3, <3>1, <3>2, CountedNone
  <2>4. CASE /\ k \in {ip, account}
             /\ ~Gone(k) /\ attempts'[k] = Strike(a) /\ recent'[k] = OneMore(r)
    <3>1. Others(q) /\ p = q + 1
      BY <1>0, <2>1, <2>4, OneWaitsLess
    <3>2. a \in Attempt /\ Timed(a) /\ Counted(a, r, q + 1, clock)
      BY <1>0, <2>4, <3>1 DEF Gone
    <3> HIDE DEF q, a, r
    <3>3. Counted(Strike(a), OneMore(r), q, clock)
      BY <1>0, <3>1, <3>2, CountedStrike
    <3> QED
      BY <2>1, <2>4, <3>3 DEF q
  <2>5. CASE Gone(k) /\ attempts'[k] = Strike(Fresh) /\ recent'[k] = OneMore(r)
    <3>1. \A n \in 0..Backoff : r[n] <= MaxFailures - 2
      BY <1>0, <2>5, FewWhenGone DEF Gone
    <3>2. Counted(Strike(Fresh), OneMore(r), q, clock)
      BY <1>0, <3>1, CountedFirst
    <3> QED
      BY <2>1, <2>5, <3>2
  <2>6. CASE attempts'[k] = Strike(Fresh) /\ recent'[k] = OneMore(NoFailures)
    <3>1. Counted(Strike(Fresh), OneMore(NoFailures), q, clock)
      BY <1>0, <1>z, HistoryTypes, CountedFirst
    <3> QED
      BY <2>1, <2>6, <3>1
  <2>7. CASE /\ k \notin {ip, account}
             /\ attempts'[k] = a /\ recent'[k] = r
    <3>1. Waiting(k)' = Waiting(k)
      BY <1>0, <2>1, <2>7, SameWaiting
    <3> QED
      BY <1>0, <2>1, <2>7, <3>1
  <2> QED
    BY <2>1, <2>2, <2>3, <2>4, <2>5, <2>6, <2>7, RecordFailureCases
<1>3. ASSUME NEW s \in Slots, Succeed(s)
      PROVE  Counted(attempts'[k], recent'[k], Cardinality(Waiting(k)'), clock')
  <2>1. /\ RecordSuccess(pending[s].ip, pending[s].account)
        /\ pending' = [pending EXCEPT ![s] = None] /\ clock' = clock
    BY <1>3 DEF Succeed
  <2>2. CASE k \in {pending[s].ip, pending[s].account}
    <3>1. attempts'[k] = None /\ recent'[k] = NoFailures
      BY <2>1, <2>2 DEF RecordSuccess, Forget
    <3> QED
      BY <1>z, <2>1, <3>1, CountedNone
  <2>3. CASE k \notin {pending[s].ip, pending[s].account}
    <3>1. attempts'[k] = a /\ recent'[k] = r
      BY <2>1, <2>3 DEF RecordSuccess, Forget
    <3>2. Waiting(k)' = Waiting(k)
      BY <1>0, <2>1, <2>3, SameWaiting
    <3> QED
      BY <1>0, <2>1, <3>1, <3>2
  <2> QED
    BY <2>2, <2>3
<1>4. ASSUME NEW s \in Slots, Abandon(s)
      PROVE  Counted(attempts'[k], recent'[k], Cardinality(Waiting(k)'), clock')
  <2>1. /\ attempts' = attempts /\ recent' = recent /\ clock' = clock /\ pending[s] # None
        /\ pending' = [pending EXCEPT ![s] = None]
    BY <1>4 DEF Abandon
  <2>2. CASE k \in {pending[s].ip, pending[s].account}
    <3> DEFINE q == Cardinality(Waiting(k)')
    <3>1. Others(q) /\ p = q + 1
      BY <1>0, <2>1, <2>2, OneWaitsLess
    <3>2. Counted(a, r, q + 1, clock)
      BY <1>0, <3>1
    <3>3. Counted(a, r, q, clock)
      BY <1>0, <3>1, <3>2, CountedFewer
    <3> QED
      BY <2>1, <3>3
  <2>3. CASE k \notin {pending[s].ip, pending[s].account}
    <3>1. Waiting(k)' = Waiting(k)
      BY <1>0, <2>1, <2>3, SameWaiting
    <3> QED
      BY <1>0, <2>1, <3>1
  <2> QED
    BY <2>2, <2>3
<1>5. ASSUME Tick
      PROVE  Counted(attempts'[k], recent'[k], Cardinality(Waiting(k)'), clock')
  <2>1. /\ attempts' = attempts /\ clock' = clock + 1 /\ pending' = pending
        /\ recent'[k] = OneTickOlder(r)
    BY <1>5 DEF Tick
  <2>2. Waiting(k)' = Waiting(k)
    BY <2>1 DEF Waiting
  <2>3. Counted(a, OneTickOlder(r), p, clock + 1)
    BY <1>0, CountedTick
  <2> QED
    BY <2>1, <2>2, <2>3
<1>6. CASE UNCHANGED vars
  <2>1. attempts' = attempts /\ clock' = clock /\ pending' = pending /\ recent' = recent
    BY <1>6 DEF vars
  <2>2. Waiting(k)' = Waiting(k)
    BY <2>1 DEF Waiting
  <2> QED
    BY <1>0, <2>1, <2>2
<1> QED
  BY <1>1, <1>2, <1>3, <1>4, <1>5, <1>6 DEF Next

\* A key that is neither reset nor evicted sees, in one backoff, at most
\* MaxFailures - 2 wrong passwords of one window, MaxFailures of the next and
\* those of the logins let in before the block.
THEOREM FailuresAlwaysBounded == Spec => []FailuresBounded
<1>1. Init => HistoryInv
  <2> SUFFICES ASSUME Init, Long, NEW k \in Keys
               PROVE  Counted(attempts[k], recent[k], Cardinality(Waiting(k)), clock)
    BY DEF HistoryInv
  <2>1. attempts[k] = None /\ recent[k] = NoFailures
    BY DEF Init, LimitInit
  <2>2. NoFailures[0] = 0 /\ \A n \in 0..Backoff : NoFailures[n] <= MaxFailures - 2
    BY LimitAssumption DEF NoFailures, Long
  <2> QED
    BY <2>1, <2>2, CountedNone
<1>2. IInv /\ HistoryInv /\ [Next]_vars => HistoryInv'
  BY HistoryNext
<1>3. IInv /\ HistoryInv => FailuresBounded
  <2> SUFFICES ASSUME IInv, HistoryInv, Long, NEW k \in Keys
               PROVE  RecentFailures(k) <= (MaxFailures - 2) + MaxFailures + (Cardinality(Slots) - 1)
    BY DEF FailuresBounded, Long
  <2> DEFINE a == attempts[k]
             r == recent[k]
  <2>0. /\ MaxFailures \in Nat /\ MaxFailures >= 2 /\ Backoff \in 0..Backoff
        /\ Cardinality(Slots) \in Nat
    BY LimitAssumption, WaitingFinite DEF Long
  <2>1. /\ clock \in Nat /\ a \in Attempt \cup {None} /\ r \in [0..Backoff -> Nat]
        /\ r[Backoff] \in Nat
    BY <2>0, LimitAssumption DEF IInv, TypeOK
  <2>2. Counted(a, r, Cardinality(Waiting(k)), clock)
    BY DEF HistoryInv
  <2>3. CASE a = None
    <3>1. r[Backoff] <= MaxFailures - 2
      BY <2>0, <2>2, <2>3 DEF Counted
    <3> QED
      BY <2>0, <2>1, <3>1 DEF RecentFailures
  <2>4. CASE a # None /\ a.failures < MaxFailures
    <3>1. r[Backoff] <= (MaxFailures - 2) + a.failures
      BY <2>0, <2>2, <2>4 DEF Counted, Counting
    <3>2. a.failures \in Nat
      BY <2>1, <2>4 DEF Attempt
    <3>3. r[Backoff] + 1 <= (MaxFailures - 2) + MaxFailures
      BY <2>0, <2>1, <2>4, <3>1, <3>2
    <3> QED
      BY <2>0, <2>1, <3>3 DEF RecentFailures
  <2>5. CASE a # None /\ a.failures >= MaxFailures /\ a.blockedUntil > clock
    <3>1. r[Backoff] + Cardinality(Waiting(k)) <= Most
      BY <2>0, <2>2, <2>5 DEF Counted, Blocking
    <3>2. Cardinality(Waiting(k)) \in Nat /\ Most \in Int
      BY <2>0, WaitingFinite DEF Most
    <3>3. r[Backoff] <= Most
      BY <2>1, <3>1, <3>2
    <3> QED
      BY <3>3 DEF RecentFailures, Most
  <2>6. CASE a # None /\ a.failures >= MaxFailures /\ ~(a.blockedUntil > clock)
    <3>1. a.blockedUntil \in Nat
      BY <2>1, <2>6 DEF Attempt
    <3>2. Backoff <= clock + Backoff - a.blockedUntil
      BY <2>0, <2>1, <2>6, <3>1, LimitAssumption
    <3>3. r[Backoff] = 0
      BY <2>0, <2>2, <2>6, <3>2 DEF Counted, Blocking
    <3> QED
      BY <2>0, <3>3 DEF RecentFailures
  <2>7. a # None => a.failures \in Nat
    BY <2>1 DEF Attempt
  <2> QED
    BY <2>0, <2>3, <2>4, <2>5, <2>6, <2>7
<1> QED
  BY <1>1, <1>2, <1>3, Invariance, PTL DEF Spec

=============================================================================
