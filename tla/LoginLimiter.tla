---------------------------- MODULE LoginLimiter ----------------------------
(***************************************************************************)
(* The login limiter (backend/internal/auth/limiter.go) and the way        *)
(* HandleLogin uses it: ask, compare the password, record the outcome,     *)
(* with other logins in between.  Each call holds the mutex throughout,    *)
(* with the time read just before; the counters of Metrics are left out.   *)
(* The records and what a failure does to one are those of LoginLimit.     *)
(***************************************************************************)
EXTENDS LoginLimit

CONSTANTS
    Slots,           \* logins served at the same time
    CleanupInterval  \* LoginCleanupInterval

ASSUME LimiterAssumption ==
    /\ CleanupInterval \in Nat
    /\ IsFiniteSet(Slots)

VARIABLES
    nextCleanup,  \* when the next sweep is due; zero before the first
    pending,      \* logins past the check, their password being compared
    recent        \* history: failures of a key in the last n ticks, since its last reset

limiterVars == <<nextCleanup, pending, recent>>
vars == <<clock, attempts, wait, nextCleanup, pending, recent>>

Login == [ip : Ips, account : Accounts]

TypeOK ==
    /\ clock \in 0..MaxClock
    /\ attempts \in [Keys -> Attempt \cup {None}]
    /\ wait \in 0..Backoff
    /\ nextCleanup \in Nat
    /\ pending \in [Slots -> Login \cup {None}]
    /\ recent \in [Keys -> [0..Backoff -> Nat]]

NoFailures == [n \in 0..Backoff |-> 0]
OneMore(r) == [n \in 0..Backoff |-> IF n = 0 THEN 0 ELSE r[n] + 1]
OneTickOlder(r) == [n \in 0..Backoff |-> IF n = 0 THEN 0 ELSE r[n - 1]]

Init ==
    /\ LimitInit
    /\ nextCleanup = 0
    /\ pending = [s \in Slots |-> None]
    /\ recent = [k \in Keys |-> NoFailures]

-----------------------------------------------------------------------------
(* The operations of the limiter                                           *)

CleanupDue == clock >= nextCleanup

AfterCleanup == IF CleanupDue THEN Sweep(attempts, clock) ELSE attempts

CleanupIfDue ==
    nextCleanup' = IF CleanupDue THEN clock + CleanupInterval ELSE nextCleanup

\* A key is new, or its record has expired and starts again, or goes on.
KeepsExpiredBug(m, key) == IF m[key] = None THEN Fresh ELSE m[key]

RecordOf(m, key) ==
    IF m[key] = None \/ Expired(m[key], clock) THEN Fresh ELSE m[key]

NoEvictionBug(m) == {Sweep(m, clock)}

\* Room is only made when it lacks, and expired records go first.
MakeRoom(m) ==
    IF Cardinality(Tracked(m)) < MaxTracked THEN {m} ELSE Evict(Sweep(m, clock))

RecordedFailure(m, key) ==
    {[n EXCEPT ![key] = Strike(RecordOf(m, key))] :
        n \in IF m[key] = None THEN MakeRoom(m) ELSE {m}}

\* RetryAfter drops the records it finds expired, then answers.
RetryAfter(ip, account) ==
    /\ attempts' = [k \in Keys |->
                       IF k \in {ip, account} THEN Sweep(AfterCleanup, clock)[k]
                       ELSE AfterCleanup[k]]
    /\ wait' = Longest(attempts', ip, account)
    /\ CleanupIfDue

\* The record of the key was live and made room for another; the same call
\* may have made a new one for it since.
Evicted(k, ip, account) ==
    /\ attempts[k] # None
    /\ ~Expired(attempts[k], clock)
    /\ \/ attempts'[k] = None
       \/ k \in {ip, account} /\ attempts'[k].failures = 1

RecordFailure(ip, account) ==
    /\ \E m \in RecordedFailure(AfterCleanup, ip) : attempts' \in RecordedFailure(m, account)
    /\ CleanupIfDue
    /\ recent' = [k \in Keys |->
                     LET before == IF Evicted(k, ip, account) THEN NoFailures ELSE recent[k]
                     IN  IF k \in {ip, account} /\ attempts'[k] # None
                         THEN OneMore(before)
                         ELSE before]

RecordSuccess(ip, account) ==
    /\ attempts' = Forget(attempts, ip, account)
    /\ recent' = [k \in Keys |-> IF k \in {ip, account} THEN NoFailures ELSE recent[k]]

-----------------------------------------------------------------------------
(* HandleLogin                                                             *)

\* Refused logins end here, with status 429.
Ask(s) ==
    /\ pending[s] = None
    /\ \E ip \in Ips, account \in Accounts :
        /\ RetryAfter(ip, account)
        /\ pending' = IF wait' > 0 THEN pending
                      ELSE [pending EXCEPT ![s] = [ip |-> ip, account |-> account]]
    /\ UNCHANGED <<clock, recent>>

\* Unknown account, wrong password, or a setup that lost the race.
Fail(s) ==
    /\ pending[s] # None
    /\ RecordFailure(pending[s].ip, pending[s].account)
    /\ pending' = [pending EXCEPT ![s] = None]
    /\ UNCHANGED <<clock, wait>>

Succeed(s) ==
    /\ pending[s] # None
    /\ RecordSuccess(pending[s].ip, pending[s].account)
    /\ pending' = [pending EXCEPT ![s] = None]
    /\ UNCHANGED <<clock, wait, nextCleanup>>

\* Errors of the server, and a setup password that is too short, are neither.
Abandon(s) ==
    /\ pending[s] # None
    /\ pending' = [pending EXCEPT ![s] = None]
    /\ UNCHANGED <<clock, attempts, wait, nextCleanup, recent>>

Tick ==
    /\ clock < MaxClock
    /\ clock' = clock + 1
    /\ recent' = [k \in Keys |-> OneTickOlder(recent[k])]
    /\ UNCHANGED <<attempts, wait, nextCleanup, pending>>

Next ==
    \/ \E s \in Slots : Ask(s) \/ Fail(s) \/ Succeed(s) \/ Abandon(s)
    \/ Tick

Spec == Init /\ [][Next]_vars

-----------------------------------------------------------------------------
(* Properties                                                              *)

\* The map never holds more than MaxTracked keys, although one failure adds
\* two and expired ones stay until they are swept (limiter.go:169-190).
TrackedKeysBounded == Cardinality(Tracked(attempts)) <= MaxTracked

\* What callers see is the limiter that forgets every record the moment it
\* expires: when sweeps run, and what they leave, does not matter.
Limit == INSTANCE LoginLimit WITH attempts <- Sweep(attempts, clock)
ImplementsLoginLimit == Limit!LimitSpec

RecentFailures(k) == recent[k][Backoff]

\* In any period as long as the backoff, a key that is neither reset by a
\* success nor evicted sees a bounded number of wrong passwords: MaxFailures-2
\* at the end of one window (its first failure is older), MaxFailures in the
\* next, and those of the other logins let in before the last of these was
\* recorded.  loginMaxFailures alone is not the bound.
FailuresBounded ==
    MaxFailures >= 2 /\ Window >= Backoff =>
        \A k \in Keys :
            RecentFailures(k) <= (MaxFailures - 2) + MaxFailures + (Cardinality(Slots) - 1)

=============================================================================
