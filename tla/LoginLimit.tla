----------------------------- MODULE LoginLimit -----------------------------
(***************************************************************************)
(* What the login limiter promises, without saying how it keeps house: a   *)
(* record of failures exists for a key from a failure to the moment it     *)
(* expires, and then is gone.  Module LoginLimiter, which keeps expired    *)
(* records until some later call happens to sweep them, implements it.     *)
(***************************************************************************)
EXTENDS Integers, FiniteSets

CONSTANTS
    Ips, Accounts,  \* what failures are counted by: "ip:..." and "account:..."
    None,           \* no record
    MaxFailures,    \* loginMaxFailures
    Window,         \* loginWindow, in units of the clock
    Backoff,        \* loginBackoff
    MaxTracked,     \* LoginMaxTrackedKeys
    MaxClock        \* bound: how long the clock runs

ASSUME LimitAssumption ==
    /\ Ips \cap Accounts = {}
    /\ MaxFailures \in Nat \ {0}
    /\ Window \in Nat \ {0}
    /\ Backoff \in Nat \ {0}
    /\ MaxTracked \in Nat \ {0}
    /\ MaxClock \in Nat

VARIABLES
    clock,     \* time.Now()
    attempts,  \* the record of each key
    wait       \* the last answer of RetryAfter

limitVars == <<clock, attempts, wait>>

Keys == Ips \cup Accounts

Attempt == [failures : Nat \ {0}, windowStart : Nat, blockedUntil : Nat]

ASSUME NoneAssumption == None \notin Attempt

ExpiresAt(a) ==
    IF a.blockedUntil > a.windowStart + Window THEN a.blockedUntil ELSE a.windowStart + Window

Expired(a, now) == now >= ExpiresAt(a)

Tracked(m) == {k \in Keys : m[k] # None}

Sweep(m, now) ==
    [k \in Keys |-> IF m[k] # None /\ Expired(m[k], now) THEN None ELSE m[k]]

Fresh == [failures |-> 0, windowStart |-> clock, blockedUntil |-> 0]

LateBlockBug(a) == a.failures + 1 > MaxFailures

Blocks(a) == a.failures + 1 >= MaxFailures

\* One more failure in a record.
Strike(a) ==
    [a EXCEPT !.failures = @ + 1,
              !.blockedUntil = IF Blocks(a) THEN clock + Backoff ELSE @]

\* The sets of n keys of m none of which expires after a key that stays.
Oldest(m, n) ==
    {S \in SUBSET Tracked(m) :
        /\ Cardinality(S) = n
        /\ \A k \in S, l \in Tracked(m) \ S : ExpiresAt(m[k]) <= ExpiresAt(m[l])}

\* The maps left when the oldest keys have made room for one more.
Evict(m) ==
    LET excess == Cardinality(Tracked(m)) + 1 - MaxTracked
    IN  IF excess <= 0 THEN {m}
        ELSE {[k \in Keys |-> IF k \in S THEN None ELSE m[k]] : S \in Oldest(m, excess)}

Remaining(m, k) ==
    IF m[k] = None \/ m[k].blockedUntil <= clock THEN 0 ELSE m[k].blockedUntil - clock

Longest(m, ip, account) ==
    IF Remaining(m, ip) > Remaining(m, account) THEN Remaining(m, ip) ELSE Remaining(m, account)

Forget(m, ip, account) == [k \in Keys |-> IF k \in {ip, account} THEN None ELSE m[k]]

-----------------------------------------------------------------------------

LimitInit ==
    /\ clock = 0
    /\ attempts = [k \in Keys |-> None]
    /\ wait = 0

\* The maps after one more failure of a key.
Failed(m, key) ==
    IF m[key] # None
    THEN {[m EXCEPT ![key] = Strike(@)]}
    ELSE {[n EXCEPT ![key] = Strike(Fresh)] : n \in Evict(m)}

LimitRetryAfter ==
    /\ \E ip \in Ips, account \in Accounts : wait' = Longest(attempts, ip, account)
    /\ UNCHANGED <<clock, attempts>>

LimitRecordFailure ==
    /\ \E ip \in Ips, account \in Accounts :
        \E m \in Failed(attempts, ip) : attempts' \in Failed(m, account)
    /\ UNCHANGED <<clock, wait>>

LimitRecordSuccess ==
    /\ \E ip \in Ips, account \in Accounts : attempts' = Forget(attempts, ip, account)
    /\ UNCHANGED <<clock, wait>>

LimitTick ==
    /\ clock < MaxClock
    /\ clock' = clock + 1
    /\ attempts' = Sweep(attempts, clock')
    /\ UNCHANGED wait

LimitNext == LimitRetryAfter \/ LimitRecordFailure \/ LimitRecordSuccess \/ LimitTick

LimitSpec == LimitInit /\ [][LimitNext]_limitVars

=============================================================================
