------------------------- MODULE PingManagerProofs --------------------------
(***************************************************************************)
(* Flights and probes of PingManager correspond, for any host lists: a     *)
(* flight in the map stands for one probe that is running or for one       *)
(* result in the channel, at the address of the flight.  And flights are   *)
(* never more than the pool has places.                                    *)
(***************************************************************************)
EXTENDS PingManager, FiniteSetTheorems, TLAPS

Typed ==
    /\ config \in HostLists \cup {LoadError}
    /\ inFlight \in [Ids -> Flight \cup {None}]
    /\ running \in [Ids \X Ips -> Nat]
    /\ results \in Seq(Result)
    /\ status \in [Ids -> HostState \cup {None}]
    /\ loaded \in Seq(Host)

Queued(id) == {i \in 1..Len(results) : results[i].id = id}

\* No flight, no probe; and one probe per flight.
Matched(id) ==
    /\ inFlight[id] = None =>
        /\ \A ip \in Ips : running[<<id, ip>>] = 0
        /\ Queued(id) = {}
    /\ inFlight[id] # None =>
        /\ \A ip \in Ips : running[<<id, ip>>] \in {0, 1}
        /\ \A ip \in Ips : running[<<id, ip>>] = 1 => ip = inFlight[id].ip /\ Queued(id) = {}
        /\ \A i \in Queued(id) : results[i].ip = inFlight[id].ip
        /\ \A i, j \in Queued(id) : i = j

\* A flight that is still valid is to where the host is.
Aimed(id) ==
    inFlight[id] # None /\ inFlight[id].valid => SameTarget(loaded, id, inFlight[id].ip)

Inv ==
    /\ Typed
    /\ \A id \in Ids : Matched(id)
    /\ \A id \in Ids : Aimed(id)
    /\ StatusOnlyOfHosts

-----------------------------------------------------------------------------
(* A check                                                                 *)

LEMMA ListType ==
    ASSUME NEW list \in HostLists
    PROVE  /\ list \in Seq(Host)
           /\ \A h \in ToSet(list) : h \in Host
           /\ \A g, h \in ToSet(list) : g.id = h.id => g = h
<1>1. list \in Seq(Host) /\ \A i, j \in 1..Len(list) : list[i].id = list[j].id => i = j
  BY HostListsAssumption
<1>2. ToSet(list) = {list[i] : i \in 1..Len(list)}
  BY <1>1 DEF ToSet
<1> QED BY <1>1, <1>2

\* Only a host of the list that has no flight is probed, and not when the
\* program is stopping.
LEMMA StartedHosts ==
    ASSUME NEW list \in HostLists
    PROVE  \A h \in Started(list) : h \in ToSet(list) /\ Due(list, h)
<1>1. list \in Seq(Host) /\ DOMAIN list = 1..Len(list)
  BY ListType
<1>2. ToSet(list) = {list[i] : i \in 1..Len(list)}
  BY <1>1 DEF ToSet
<1> QED BY <1>1, <1>2 DEF Started

LEMMA InvalidFlight ==
    ASSUME NEW f \in Flight
    PROVE  /\ Invalidate(f) \in Flight
           /\ Invalidate(f).ip = f.ip
           /\ Invalidate(f).valid = FALSE
BY DEF Flight, Invalidate

LEMMA NewFlight ==
    ASSUME NEW ip \in Ips, NEW f, f = [ip |-> ip, valid |-> TRUE]
    PROVE  f \in Flight /\ f # None /\ f.ip = ip
<1>1. f \in Flight
  BY DEF Flight
<1> QED BY <1>1, ValuesAssumption

LEMMA OldFlights ==
    ASSUME Typed, NEW list \in HostLists, NEW id \in Ids
    PROVE  /\ FlightsAfter(list)[id] \in Flight \cup {None}
           /\ FlightsAfter(list)[id] = None <=> inFlight[id] = None
           /\ inFlight[id] # None =>
                /\ FlightsAfter(list)[id].ip = inFlight[id].ip
                /\ FlightsAfter(list)[id].valid =>
                      inFlight[id].valid /\ SameTarget(list, id, inFlight[id].ip)
<1>1. inFlight[id] \in Flight \cup {None}
  BY DEF Typed
<1>2. FlightsAfter(list)[id] = IF Outdated(list, id) THEN Invalidate(inFlight[id])
                               ELSE inFlight[id]
  BY DEF FlightsAfter
<1>3. CASE Outdated(list, id)
  <2>1. inFlight[id] \in Flight /\ inFlight[id] # None
    BY <1>1, <1>3 DEF Outdated
  <2>2. FlightsAfter(list)[id] = Invalidate(inFlight[id])
    BY <1>2, <1>3
  <2> QED BY <2>1, <2>2, InvalidFlight, ValuesAssumption
<1>4. CASE ~Outdated(list, id)
  <2>1. FlightsAfter(list)[id] = inFlight[id]
    BY <1>2, <1>4
  <2> QED BY <1>1, <1>4, <2>1 DEF Outdated
<1> QED BY <1>3, <1>4

LEMMA CheckHostsKeeps ==
    ASSUME Inv, NEW list \in HostLists, CheckHosts(list), UNCHANGED results,
           config' \in HostLists \cup {LoadError}
    PROVE  Inv'
<1>1. Typed
  BY DEF Inv
<1>2. /\ loaded' = list
      /\ status' = [id \in Ids |-> IF IsHost(list, id) THEN status[id] ELSE None]
  BY DEF CheckHosts
<1>3. PICK S : S = Started(list)
  OBVIOUS
<1>4. \A h \in S : h \in ToSet(list) /\ h \in Host /\ FlightsAfter(list)[h.id] = None
  BY <1>3, StartedHosts, ListType DEF Due, Idle
<1>5. ASSUME NEW h \in S
      PROVE  /\ inFlight'[h.id] = [ip |-> h.ip, valid |-> TRUE]
             /\ inFlight'[h.id] \in Flight /\ inFlight'[h.id] # None
             /\ inFlight'[h.id].ip = h.ip
             /\ inFlight[h.id] = None
  <2>1. h.id \in Ids /\ h.ip \in Ips
    BY <1>4 DEF Host
  <2>2. (CHOOSE g \in S : g.id = h.id) = h
    BY <1>4, ListType
  <2>3. inFlight'[h.id] = [ip |-> (CHOOSE g \in S : g.id = h.id).ip, valid |-> TRUE]
    BY <1>3, <2>1 DEF CheckHosts
  <2>4. inFlight'[h.id] = [ip |-> h.ip, valid |-> TRUE]
    BY <2>2, <2>3
  <2>5. inFlight[h.id] = None
    BY <1>1, <1>4, <2>1, OldFlights
  <2> QED BY <2>1, <2>4, <2>5, NewFlight
<1>6. ASSUME NEW id \in Ids, \A h \in S : h.id # id
      PROVE  inFlight'[id] = FlightsAfter(list)[id]
  BY <1>3, <1>6 DEF CheckHosts
<1>7. ASSUME NEW id \in Ids, NEW ip \in Ips
      PROVE  running'[<<id, ip>>] =
                running[<<id, ip>>] + IF \E h \in S : h.id = id /\ h.ip = ip THEN 1 ELSE 0
  <2>1. running'[<<id, ip>>] =
          running[<<id, ip>>] + IF \E h \in S : <<id, ip>> = <<h.id, h.ip>> THEN 1 ELSE 0
    BY <1>3 DEF CheckHosts
  <2>2. (\E h \in S : <<id, ip>> = <<h.id, h.ip>>) <=> \E h \in S : h.id = id /\ h.ip = ip
    OBVIOUS
  <2> QED BY <2>1, <2>2
<1>8. list \in Seq(Host)
  BY ListType
<1>9. Typed'
  <2>1. \A id \in Ids : inFlight'[id] \in Flight \cup {None}
    <3> SUFFICES ASSUME NEW id \in Ids PROVE inFlight'[id] \in Flight \cup {None}
      OBVIOUS
    <3>1. CASE \E h \in S : h.id = id
      BY <1>5, <3>1
    <3>2. CASE \A h \in S : h.id # id
      BY <1>1, <1>6, <3>2, OldFlights
    <3> QED BY <3>1, <3>2
  <2>2. inFlight' \in [Ids -> Flight \cup {None}]
    <3>1. inFlight' = [id \in Ids |-> inFlight'[id]]
      BY DEF CheckHosts
    <3> QED BY <2>1, <3>1
  <2>3. running' \in [Ids \X Ips -> Nat]
    BY <1>1, <1>3 DEF CheckHosts, Typed
  <2>4. status' \in [Ids -> HostState \cup {None}]
    BY <1>1, <1>2 DEF Typed
  <2> QED BY <1>1, <1>2, <1>8, <2>2, <2>3, <2>4 DEF Typed
<1>10. \A id \in Ids : Queued(id)' = Queued(id)
  BY DEF Queued
<1>11. ASSUME NEW id \in Ids PROVE Matched(id)'
  <2>1. Matched(id)
    BY DEF Inv
  <2>2. CASE \E h \in S : h.id = id
    <3>1. PICK h \in S : h.id = id
      BY <2>2
    <3>2. inFlight'[id].ip = h.ip /\ inFlight[id] = None
      BY <1>5, <3>1
    <3>3. inFlight'[id] # None
      BY <1>5, <3>1
    <3>4. \A g \in S : g.id = id => g = h
      BY <1>4, <3>1, ListType
    <3>5. \A ip \in Ips : running'[<<id, ip>>] = IF ip = h.ip THEN 1 ELSE 0
      BY <1>7, <2>1, <3>1, <3>2, <3>4 DEF Matched
    <3>6. Queued(id)' = {}
      BY <1>10, <2>1, <3>2 DEF Matched
    <3> QED BY <3>2, <3>3, <3>5, <3>6 DEF Matched
  <2>3. CASE \A h \in S : h.id # id
    <3>1. \A ip \in Ips : running'[<<id, ip>>] = running[<<id, ip>>]
      BY <1>1, <1>7, <2>3 DEF Typed
    <3>2. /\ inFlight'[id] = None <=> inFlight[id] = None
          /\ inFlight[id] # None => inFlight'[id].ip = inFlight[id].ip
      BY <1>1, <1>6, <2>3, OldFlights
    <3> QED BY <1>10, <2>1, <3>1, <3>2 DEF Matched
  <2> QED BY <2>2, <2>3
<1>12. ASSUME NEW id \in Ids PROVE Aimed(id)'
  <2>1. CASE \E h \in S : h.id = id
    <3>1. PICK h \in S : h.id = id
      BY <2>1
    <3>2. inFlight'[id].ip = h.ip
      BY <1>5, <3>1
    <3>3. SameTarget(list, id, h.ip)
      BY <1>4, <3>1 DEF SameTarget
    <3> QED BY <1>2, <3>2, <3>3 DEF Aimed
  <2>2. CASE \A h \in S : h.id # id
    <3>1. inFlight'[id] = FlightsAfter(list)[id]
      BY <1>6, <2>2
    <3> QED BY <1>1, <1>2, <3>1, OldFlights DEF Aimed
  <2> QED BY <2>1, <2>2
<1>13. StatusOnlyOfHosts'
  BY <1>2 DEF StatusOnlyOfHosts
<1> QED BY <1>9, <1>11, <1>12, <1>13 DEF Inv

LEMMA CheckOrSkipKeeps ==
    ASSUME Inv, CheckOrSkip, UNCHANGED <<config, results>>
    PROVE  Inv'
<1>1. CASE config # LoadError /\ CheckHosts(config)
  BY <1>1, CheckHostsKeeps DEF Inv, Typed
<1>2. CASE UNCHANGED <<loaded, status, age, inFlight, running>>
  BY <1>2 DEF Inv, Typed, Matched, Queued, Aimed, StatusOnlyOfHosts
<1> QED BY <1>1, <1>2 DEF CheckOrSkip

-----------------------------------------------------------------------------
(* A result                                                                *)

LEMMA TailFacts ==
    ASSUME NEW s \in Seq(Result), s # <<>>
    PROVE  /\ Head(s) = s[1] /\ Head(s) \in Result /\ 1 \in 1..Len(s)
           /\ Tail(s) \in Seq(Result)
           /\ Len(Tail(s)) = Len(s) - 1
           /\ Len(s) \in Nat
           /\ \A i \in 1..Len(Tail(s)) : Tail(s)[i] = s[i + 1] /\ i + 1 \in 2..Len(s)
OBVIOUS

\* What taking the first result does to those of one host.
LEMMA QueuedAfterTake ==
    ASSUME Typed, results # <<>>, results' = Tail(results), NEW id \in Ids
    PROVE  /\ \A i \in Queued(id)' : i + 1 \in Queued(id) /\ results'[i] = results[i + 1]
           /\ Queued(id) = {} => Queued(id)' = {}
<1>1. \A i \in 1..Len(results') : results'[i] = results[i + 1] /\ i + 1 \in 1..Len(results)
  BY TailFacts DEF Typed
<1> QED BY <1>1 DEF Queued

LEMMA TakeResultKeeps ==
    ASSUME Inv, TakeResult
    PROVE  /\ Inv'
           /\ \A id \in Ids : status'[id] # status[id] => SameTarget(loaded', id, status'[id].ip)
<1>1. /\ Typed /\ results # <<>> /\ results' = Tail(results)
      /\ UNCHANGED <<config, running, loaded>>
  BY DEF Inv, TakeResult
<1>2. PICK r : r = Head(results)
  OBVIOUS
<1>3. r \in Result /\ r.id \in Ids /\ r.ip \in Ips /\ 1 \in Queued(r.id) /\ r = results[1]
  BY <1>1, <1>2, TailFacts DEF Typed, Result, Queued
<1>4. Matched(r.id) /\ Aimed(r.id) /\ inFlight[r.id] \in Flight \cup {None}
  BY <1>1, <1>3 DEF Inv, Typed
<1>5. inFlight[r.id] # None /\ inFlight[r.id].ip = r.ip
  BY <1>3, <1>4 DEF Matched
<1>6. /\ inFlight' = [inFlight EXCEPT ![r.id] = None]
      /\ status' = IF inFlight[r.id].valid THEN [status EXCEPT ![r.id] = NewStatus(r)]
                   ELSE status
  BY <1>2, <1>5 DEF TakeResult, Land, Accepted
<1>7. NewStatus(r) \in HostState /\ NewStatus(r).ip = r.ip
  BY <1>3 DEF NewStatus, HostState, Result
<1>8. results' \in Seq(Result)
  BY <1>1, TailFacts DEF Typed
<1>9. Typed'
  BY <1>1, <1>3, <1>6, <1>7, <1>8 DEF Typed
<1>10. ASSUME NEW id \in Ids PROVE Matched(id)'
  <2>1. Matched(id)
    BY DEF Inv
  <2>2. /\ \A i \in Queued(id)' : i + 1 \in Queued(id) /\ results'[i] = results[i + 1]
        /\ Queued(id) = {} => Queued(id)' = {}
        /\ \A i \in Queued(id)' : i \in Nat
    BY <1>1, QueuedAfterTake DEF Queued
  <2>3. CASE id = r.id
    <3>1. inFlight'[id] = None
      BY <1>1, <1>6, <2>3 DEF Typed
    <3>2. \A ip \in Ips : running[<<id, ip>>] = 0
      BY <1>3, <1>4, <1>5, <2>3 DEF Matched
    <3>3. Queued(id)' = {}
      <4>1. ASSUME NEW i \in Queued(id)' PROVE FALSE
        <5>1. i + 1 \in Queued(id) /\ i + 1 # 1
          BY <2>2 DEF Queued
        <5> QED BY <1>3, <1>5, <2>1, <2>3, <5>1 DEF Matched
      <4> QED BY <4>1
    <3> QED BY <1>1, <3>1, <3>2, <3>3 DEF Matched
  <2>4. CASE id # r.id
    <3>1. inFlight'[id] = inFlight[id]
      BY <1>1, <1>6, <2>4 DEF Typed
    <3>2. CASE inFlight[id] = None
      BY <1>1, <2>1, <2>2, <3>1, <3>2 DEF Matched
    <3>3. CASE inFlight[id] # None
      <4>1. \A ip \in Ips : running'[<<id, ip>>] = 1 => ip = inFlight'[id].ip /\ Queued(id)' = {}
        BY <1>1, <2>1, <2>2, <3>1, <3>3 DEF Matched
      <4>2. \A i \in Queued(id)' : results'[i].ip = inFlight'[id].ip
        BY <2>1, <2>2, <3>1, <3>3 DEF Matched
      <4>3. \A i, j \in Queued(id)' : i = j
        <5>1. ASSUME NEW i \in Queued(id)', NEW j \in Queued(id)' PROVE i = j
          <6>1. i + 1 \in Queued(id) /\ j + 1 \in Queued(id) /\ i \in Nat /\ j \in Nat
            BY <2>2
          <6>2. i + 1 = j + 1
            BY <2>1, <3>3, <6>1 DEF Matched
          <6> QED BY <6>1, <6>2
        <5> QED BY <5>1
      <4> QED BY <1>1, <2>1, <3>1, <3>3, <4>1, <4>2, <4>3 DEF Matched
    <3> QED BY <3>2, <3>3
  <2> QED BY <2>3, <2>4
<1>11. ASSUME NEW id \in Ids PROVE Aimed(id)'
  <2>1. CASE id = r.id
    BY <1>1, <1>6, <2>1 DEF Typed, Aimed
  <2>2. CASE id # r.id
    <3>1. inFlight'[id] = inFlight[id]
      BY <1>1, <1>6, <2>2 DEF Typed
    <3> QED BY <1>1, <3>1 DEF Inv, Aimed
  <2> QED BY <2>1, <2>2
<1>12. ASSUME NEW id \in Ids, status'[id] # status[id]
       PROVE  id = r.id /\ SameTarget(loaded, id, r.ip) /\ status'[id].ip = r.ip
  <2>1. inFlight[r.id].valid /\ id = r.id /\ status'[id] = NewStatus(r)
    BY <1>1, <1>3, <1>6, <1>12 DEF Typed
  <2> QED BY <1>4, <1>5, <1>7, <2>1 DEF Aimed
<1>13. StatusOnlyOfHosts'
  BY <1>1, <1>12 DEF Inv, StatusOnlyOfHosts, SameTarget, IsHost
<1> QED BY <1>1, <1>9, <1>10, <1>11, <1>12, <1>13 DEF Inv

LEMMA ProbeEndsKeeps == ASSUME Inv, NEW w \in Ids \X Ips, ProbeEnds(w) PROVE Inv'
<1>1. PICK id \in Ids, ip \in Ips : w = <<id, ip>>
  OBVIOUS
<1>2. PICK online \in BOOLEAN :
          results' = Append(results, [id |-> id, ip |-> ip, online |-> online])
  BY <1>1 DEF ProbeEnds
<1>3. PICK r : r = [id |-> id, ip |-> ip, online |-> online]
  OBVIOUS
<1>4. r \in Result /\ r.id = id /\ r.ip = ip
  BY <1>3 DEF Result
<1>5. /\ Typed
      /\ UNCHANGED <<config, inFlight, status, loaded>>
      /\ running[<<id, ip>>] > 0
      /\ running' = [running EXCEPT ![<<id, ip>>] = running[<<id, ip>>] - 1]
  BY <1>1 DEF Inv, ProbeEnds
<1>6. /\ Matched(id) /\ inFlight[id] # None /\ running[<<id, ip>>] = 1
      /\ ip = inFlight[id].ip /\ Queued(id) = {}
  <2>1. Matched(id) /\ running[<<id, ip>>] \in Nat
    BY <1>5 DEF Inv, Typed
  <2> QED BY <1>5, <2>1 DEF Matched
<1>7. /\ Len(results) \in Nat /\ Len(results') = Len(results) + 1
      /\ \A i \in 1..Len(results) : results'[i] = results[i]
      /\ results'[Len(results) + 1] = r
      /\ results' \in Seq(Result)
  BY <1>2, <1>3, <1>4, <1>5 DEF Typed
<1>8. Typed'
  <2>1. running' \in [Ids \X Ips -> Nat]
    BY <1>5, <1>6 DEF Typed
  <2> QED BY <1>5, <1>7, <2>1 DEF Typed
<1>9. ASSUME NEW other \in Ids PROVE Matched(other)'
  <2>1. CASE other = id
    <3>1. \A q \in Ips : running'[<<id, q>>] = 0
      BY <1>5, <1>6 DEF Typed, Matched
    <3>2. Queued(id)' = {Len(results) + 1}
      BY <1>4, <1>6, <1>7 DEF Queued
    <3> QED BY <1>4, <1>5, <1>6, <1>7, <2>1, <3>1, <3>2 DEF Matched
  <2>2. CASE other # id
    <3>1. \A q \in Ips : running'[<<other, q>>] = running[<<other, q>>]
      BY <1>5, <2>2 DEF Typed
    <3>2. Queued(other)' = Queued(other) /\ \A i \in Queued(other) : results'[i] = results[i]
      BY <1>4, <1>7, <2>2 DEF Queued
    <3>3. Matched(other)
      BY DEF Inv
    <3> QED BY <1>5, <3>1, <3>2, <3>3 DEF Matched
  <2> QED BY <2>1, <2>2
<1>10. (\A other \in Ids : Aimed(other)') /\ StatusOnlyOfHosts'
  BY <1>5 DEF Inv, Aimed, StatusOnlyOfHosts
<1> QED BY <1>8, <1>9, <1>10 DEF Inv

-----------------------------------------------------------------------------
(* The theorems                                                            *)

LEMMA InitInv == Init => Inv
<1> SUFFICES ASSUME Init PROVE Inv
  OBVIOUS
<1>1. Typed
  BY DEF Init, Typed
<1>2. \A id \in Ids : Matched(id) /\ Aimed(id)
  BY DEF Init, Matched, Queued, Aimed
<1>3. StatusOnlyOfHosts
  BY DEF Init, StatusOnlyOfHosts
<1> QED BY <1>1, <1>2, <1>3 DEF Inv

LEMMA Unmoved ==
    ASSUME Inv, config' \in HostLists \cup {LoadError},
           UNCHANGED <<inFlight, running, results, status, loaded>>
    PROVE  Inv'
BY DEF Inv, Typed, Matched, Queued, Aimed, StatusOnlyOfHosts

LEMMA StepInv == Inv /\ [Next]_vars => Inv'
<1> SUFFICES ASSUME Inv, [Next]_vars PROVE Inv'
  OBVIOUS
<1>1. config \in HostLists \cup {LoadError}
  BY DEF Inv, Typed
<1>2. CASE FirstCheck \/ Tick
  BY <1>2, CheckOrSkipKeeps DEF FirstCheck, Tick
<1>3. CASE TakeResult
  BY <1>3, TakeResultKeeps
<1>4. ASSUME NEW w \in Ids \X Ips, ProbeEnds(w) PROVE Inv'
  BY <1>4, ProbeEndsKeeps
<1>5. CASE Stop \/ Stopped \/ TimePasses \/ ConfigChanges \/ Cancel \/ UNCHANGED vars
  BY <1>1, <1>5, Unmoved DEF Stop, Stopped, TimePasses, ConfigChanges, Cancel, vars
<1> QED BY <1>2, <1>3, <1>4, <1>5 DEF Next

\* The invariant of the flights.
THEOREM Invariance == Spec => []Inv
BY InitInv, StepInv, PTL DEF Spec

\* What the invariant does not say of types: flags, phases and ages.
OtherTypes ==
    /\ ctxDone \in BOOLEAN
    /\ tickReady \in BOOLEAN
    /\ phase \in {"starting", "selecting", "waiting", "stopped"}
    /\ age \in [Ids -> 0..MaxAge \cup {None}]
    /\ loaded \in HostLists \cup {<<>>}

LEMMA AgesStep ==
    ASSUME OtherTypes, [Next]_vars
    PROVE  age' \in [Ids -> 0..MaxAge \cup {None}]
<1>1. age \in [Ids -> 0..MaxAge \cup {None}] /\ MaxAge \in Nat
  BY MonitorConstantsAssumption DEF OtherTypes
<1>2. ASSUME CheckOrSkip PROVE age' \in [Ids -> 0..MaxAge \cup {None}]
  <2>1. CASE config # LoadError
    <3>1. \A id \in Ids : AgesAfter(config)[id] \in 0..MaxAge \cup {None}
      BY <1>1 DEF AgesAfter
    <3>2. PICK S : age' = [id \in Ids |-> IF id \in S THEN 0 ELSE AgesAfter(config)[id]]
      <4> DEFINE S == {id \in Ids : \E h \in Started(config) : h.id = id}
      <4>1. age' = [id \in Ids |-> IF \E h \in Started(config) : h.id = id
                                   THEN 0 ELSE AgesAfter(config)[id]]
        BY <1>2, <2>1 DEF CheckOrSkip, CheckHosts
      <4>2. \A id \in Ids : id \in S <=> \E h \in Started(config) : h.id = id
        OBVIOUS
      <4>3. age' = [id \in Ids |-> IF id \in S THEN 0 ELSE AgesAfter(config)[id]]
        BY <4>1, <4>2
      <4> QED BY <4>3
    <3> QED BY <1>1, <3>1, <3>2
  <2>2. CASE config = LoadError
    BY <1>1, <1>2, <2>2 DEF CheckOrSkip
  <2> QED BY <2>1, <2>2
<1>3. CASE FirstCheck \/ Tick
  BY <1>2, <1>3 DEF FirstCheck, Tick
<1>4. CASE TimePasses
  BY <1>1, <1>4 DEF TimePasses
<1>5. CASE UNCHANGED age
  BY <1>1, <1>5
<1> QED
  BY <1>3, <1>4, <1>5 DEF Next, vars, TakeResult, Stop, Stopped, ProbeEnds, ConfigChanges, Cancel

LEMMA OtherTypesStep ==
    ASSUME OtherTypes, config \in HostLists \cup {LoadError}, [Next]_vars
    PROVE  OtherTypes'
<1>1. ctxDone' \in BOOLEAN /\ tickReady' \in BOOLEAN
  BY Zenon
  DEF OtherTypes, Next, vars, FirstCheck, Tick, TakeResult, Stop, Stopped, ProbeEnds, TimePasses,
      ConfigChanges, Cancel
<1>2. phase' \in {"starting", "selecting", "waiting", "stopped"}
  BY Zenon
  DEF OtherTypes, Next, vars, FirstCheck, Tick, TakeResult, Stop, Stopped, ProbeEnds, TimePasses,
      ConfigChanges, Cancel
<1>3. loaded' \in {loaded} \cup HostLists
  <2>1. CheckOrSkip => loaded' \in {loaded} \cup HostLists
    BY DEF CheckOrSkip, CheckHosts
  <2> QED BY <2>1
    DEF Next, vars, FirstCheck, Tick, TakeResult, Stop, Stopped, ProbeEnds, TimePasses,
        ConfigChanges, Cancel
<1>4. age' \in [Ids -> 0..MaxAge \cup {None}]
  BY AgesStep
<1> QED BY <1>1, <1>2, <1>3, <1>4 DEF OtherTypes

\* Every variable of the monitor keeps its type.
THEOREM TypeCorrect == Spec => []TypeOK
<1>1. Init => OtherTypes
  <2>1. Init => ctxDone \in BOOLEAN /\ tickReady \in BOOLEAN
    BY Zenon DEF Init
  <2>2. Init => phase = "starting" /\ age = [id \in Ids |-> None] /\ loaded = <<>>
    BY Zenon DEF Init
  <2> QED BY <2>1, <2>2 DEF OtherTypes
<1>2. Inv /\ OtherTypes /\ [Next]_vars => OtherTypes'
  BY OtherTypesStep DEF Inv, Typed
<1>3. Inv /\ OtherTypes => TypeOK
  BY Zenon DEF Inv, Typed, OtherTypes, TypeOK
<1> QED BY <1>1, <1>2, <1>3, Invariance, PTL DEF Spec

\* The monitor never probes a host twice at the same time, whatever happens
\* to the configuration while a probe is running.
THEOREM OneProbeTheorem == Spec => []OneProbePerHost
<1>1. ASSUME Inv, NEW id \in Ids, NEW w \in Outstanding(id)
      PROVE  /\ w = <<id, inFlight[id].ip>> /\ running[w] = 1
             /\ \A i \in DOMAIN results : results[i].id # id
  <2>1. PICK ip \in Ips : w = <<id, ip>> /\ running[w] > 0
    BY DEF Outstanding
  <2>2. Matched(id) /\ running[<<id, ip>>] \in Nat /\ DOMAIN results = 1..Len(results)
    BY <1>1 DEF Inv, Typed
  <2>3. inFlight[id] # None /\ running[<<id, ip>>] = 1
    BY <2>1, <2>2 DEF Matched
  <2>4. ip = inFlight[id].ip /\ Queued(id) = {}
    BY <2>2, <2>3 DEF Matched
  <2> QED BY <2>1, <2>2, <2>3, <2>4 DEF Queued
<1>2. ASSUME Inv, NEW id \in Ids PROVE Cardinality(Outstanding(id)) <= 1
  <2>1. CASE Outstanding(id) = {}
    BY <2>1, FS_EmptySet
  <2>2. CASE Outstanding(id) # {}
    <3>a. \A w \in Outstanding(id) : w = <<id, inFlight[id].ip>>
      BY <1>1, <1>2
    <3>1. Outstanding(id) = {<<id, inFlight[id].ip>>}
      BY <2>2, <3>a
    <3>2. Cardinality({<<id, inFlight[id].ip>>}) = 1
      BY FS_Singleton
    <3> QED BY <3>1, <3>2
  <2> QED BY <2>1, <2>2
<1>3. Inv => OneProbePerHost
  BY <1>1, <1>2 DEF OneProbePerHost
<1> QED BY <1>3, Invariance, PTL

\* A late answer never brings a host back that is no longer configured.
THEOREM StatusTheorem == Spec => []StatusOnlyOfHosts
<1>1. Inv => StatusOnlyOfHosts
  BY DEF Inv
<1> QED BY <1>1, Invariance, PTL

\* No answer is recorded for a host at an address other than its own.
THEOREM AnswersTheorem == Spec => AnswersAreForCurrentAddress
<1> DEFINE Answers == \A id \in Ids : status'[id] # None /\ status'[id] # status[id]
                                    => SameTarget(loaded', id, status'[id].ip)
<1>1. ASSUME Inv, [Next]_vars PROVE [Answers]_vars
  <2>1. CASE CheckOrSkip
    <3>1. ASSUME NEW id \in Ids PROVE status'[id] = status[id] \/ status'[id] = None
      BY <2>1 DEF CheckOrSkip, CheckHosts
    <3> QED BY <3>1
  <2>2. CASE TakeResult
    BY <1>1, <2>2, TakeResultKeeps
  <2>3. CASE UNCHANGED status
    BY <2>3
  <2> QED BY <1>1, <2>1, <2>2, <2>3 DEF Next, FirstCheck, Tick, Stop, Stopped, ProbeEnds,
             TimePasses, ConfigChanges, Cancel, vars
<1> QED BY <1>1, Invariance, PTL DEF Spec, AnswersAreForCurrentAddress

-----------------------------------------------------------------------------
(* The pool                                                                *)

Flying == {id \in Ids : inFlight[id] # None}

\* The flights in the map are never more than the pool has places.
PoolKept == IsFiniteSet(Flying) /\ Cardinality(Flying) <= MaxConcurrent

Earlier(list, j) == {i \in 1..(j - 1) : Due(list, list[i])}

LEMMA EarlierIsFinite ==
    ASSUME NEW list, NEW j \in Nat
    PROVE  IsFiniteSet(Earlier(list, j)) /\ Cardinality(Earlier(list, j)) \in Nat
<1>1. IsFiniteSet(1..(j - 1))
  BY FS_Interval
<1>2. Earlier(list, j) \in SUBSET (1..(j - 1))
  BY DEF Earlier
<1>3. IsFiniteSet(Earlier(list, j))
  BY <1>1, <1>2, FS_Subset
<1> QED BY <1>3, FS_CardinalityType

\* Of two hosts that are due, the later one has more before it.
LEMMA EarlierGrows ==
    ASSUME NEW list, NEW i \in Nat \ {0}, NEW j \in Nat \ {0}, i < j, Due(list, list[i])
    PROVE  Cardinality(Earlier(list, i)) # Cardinality(Earlier(list, j))
<1>1. i \in Earlier(list, j) /\ i \notin Earlier(list, i)
  BY DEF Earlier
<1>2. Earlier(list, i) \in SUBSET Earlier(list, j)
  BY DEF Earlier
<1>3. IsFiniteSet(Earlier(list, j))
  BY EarlierIsFinite
<1> QED BY <1>1, <1>2, <1>3, FS_Subset

\* A check starts no more probes than there is room for: the hosts it starts
\* are numbered by how many are due before them.
LEMMA FewStarted ==
    ASSUME NEW list \in HostLists, NEW room \in Int, room = Room(FlightsAfter(list)),
           NEW New, New = {h.id : h \in Started(list)}
    PROVE  IsFiniteSet(New) /\ Cardinality(New) <= IF room < 0 THEN 0 ELSE room
<1> DEFINE S == {i \in 1..Len(list) : ~ctxDone /\ Due(list, list[i])
                                          /\ Cardinality(Earlier(list, i)) < room}
           index(id) == CHOOSE j \in S : list[j].id = id
           number == [id \in New |-> Cardinality(Earlier(list, index(id))) + 1]
<1>1. list \in Seq(Host) /\ DOMAIN list = 1..Len(list)
  BY ListType
<1>2. Started(list) = {list[j] : j \in S}
  BY <1>1 DEF Started, Earlier
<1>3. \A id \in New : index(id) \in S /\ list[index(id)].id = id
  BY <1>2
<1>4. \A i \in S : Cardinality(Earlier(list, i)) + 1 \in 1..room
  BY EarlierIsFinite
<1>5. number \in [New -> 1..room]
  BY <1>3, <1>4
<1>6. \A i, j \in S : Cardinality(Earlier(list, i)) = Cardinality(Earlier(list, j)) => i = j
  <2>1. ASSUME NEW i \in S, NEW j \in S, i < j
        PROVE  Cardinality(Earlier(list, i)) # Cardinality(Earlier(list, j))
    <3>1. i \in Nat \ {0} /\ j \in Nat \ {0} /\ Due(list, list[i])
      OBVIOUS
    <3> QED BY <2>1, <3>1, EarlierGrows
  <2> QED BY <2>1
<1>7. ASSUME NEW x \in New, NEW y \in New, number[x] = number[y] PROVE x = y
  <2>1. /\ Cardinality(Earlier(list, index(x))) \in Nat
        /\ Cardinality(Earlier(list, index(y))) \in Nat
    <3>1. index(x) \in S /\ index(y) \in S
      BY <1>3
    <3>2. index(x) \in Nat /\ index(y) \in Nat
      <4> HIDE DEF index
      <4> QED BY <3>1
    <3> QED BY <3>2, EarlierIsFinite
  <2>2. Cardinality(Earlier(list, index(x))) = Cardinality(Earlier(list, index(y)))
    BY <1>7, <2>1
  <2>3. index(x) = index(y)
    BY <1>3, <1>6, <2>2
  <2> QED BY <1>3, <2>3
<1>8. number \in Injection(New, 1..room)
  <2> HIDE DEF number
  <2>1. DOMAIN number = New
    BY <1>5
  <2>2. IsInjective(number)
    BY <1>7, <2>1 DEF IsInjective
  <2> QED BY <1>5, <2>2 DEF Injection
<1>9. IsFiniteSet(1..room) /\ Cardinality(1..room) = IF 1 > room THEN 0 ELSE room - 1 + 1
  <2>1. 1 \in Int /\ room \in Int
    OBVIOUS
  <2> QED BY <2>1, FS_Interval
<1>10. /\ IsFiniteSet(New)
       /\ Cardinality(New) <= Cardinality(1..room)
  <2> HIDE DEF number
  <2> QED BY <1>8, <1>9, FS_Injection
<1>11. Cardinality(New) \in Nat
  BY <1>10, FS_CardinalityType
<1> QED BY <1>9, <1>10, <1>11

LEMMA CheckHostsKeepsPool ==
    ASSUME Typed, PoolKept, NEW list \in HostLists, CheckHosts(list)
    PROVE  PoolKept'
<1> DEFINE New == {h.id : h \in Started(list)}
           room == MaxConcurrent - Cardinality(Flying)
<1>1. \A id \in Ids : FlightsAfter(list)[id] = None <=> inFlight[id] = None
  BY OldFlights
<1>2. {id \in Ids : FlightsAfter(list)[id] # None} = Flying
  BY <1>1 DEF Flying
<1>3. Cardinality(Flying) \in Nat /\ MaxConcurrent \in Nat
  BY FS_CardinalityType, MonitorConstantsAssumption DEF PoolKept
<1>4. room \in Int /\ room = Room(FlightsAfter(list)) /\ room >= 0
  <2>1. room = Room(FlightsAfter(list))
    BY <1>2 DEF Room
  <2>2. room \in Int /\ room >= 0
    BY <1>3 DEF PoolKept
  <2> QED BY <2>1, <2>2
<1>5. IsFiniteSet(New) /\ Cardinality(New) <= room
  <2> HIDE DEF New, room
  <2>1. New = {h.id : h \in Started(list)}
    BY DEF New
  <2> QED BY <1>4, <2>1, FewStarted
<1>6. New \subseteq Ids
  BY StartedHosts, ListType DEF Host
<1>7. \A id \in Ids : inFlight'[id] # None <=> id \in Flying \cup New
  <2>1. SUFFICES ASSUME NEW id \in Ids
                 PROVE  inFlight'[id] # None <=> id \in Flying \cup New
    OBVIOUS
  <2>2. CASE \E h \in Started(list) : h.id = id
    <3> DEFINE h == CHOOSE g \in Started(list) : g.id = id
    <3>1. inFlight'[id] = [ip |-> h.ip, valid |-> TRUE]
      BY <2>2 DEF CheckHosts
    <3>2. h \in Started(list)
      BY <2>2
    <3>3. h.ip \in Ips
      BY <3>2, StartedHosts, ListType DEF Host
    <3>4. inFlight'[id] # None
      <4> HIDE DEF h
      <4> QED BY <3>1, <3>3, NewFlight
    <3> QED BY <2>2, <3>4
  <2>3. CASE ~ \E h \in Started(list) : h.id = id
    <3>1. inFlight'[id] = FlightsAfter(list)[id]
      BY <2>3 DEF CheckHosts
    <3> QED BY <1>1, <2>3, <3>1 DEF Flying
  <2> QED BY <2>2, <2>3
<1>8. Flying' = Flying \cup New
  <2>1. Flying' = {id \in Ids : inFlight'[id] # None}
    BY DEF Flying
  <2>2. Flying \subseteq Ids
    BY DEF Flying
  <2> HIDE DEF New
  <2> QED BY <1>6, <1>7, <2>1, <2>2
<1>9. /\ IsFiniteSet(Flying \cup New)
      /\ Cardinality(Flying \cup New) = Cardinality(Flying) + Cardinality(New)
                                          - Cardinality(Flying \cap New)
  <2> HIDE DEF New
  <2> QED BY <1>5, FS_Union DEF PoolKept
<1>10. Cardinality(Flying \cap New) \in Nat
  <2>1. Flying \cap New \in SUBSET Flying
    OBVIOUS
  <2>2. IsFiniteSet(Flying \cap New)
    <3> HIDE DEF New
    <3> QED BY <2>1, FS_Subset DEF PoolKept
  <2> QED BY <2>2, FS_CardinalityType
<1>11. Cardinality(New) \in Nat
  BY <1>5, FS_CardinalityType
<1>12. Cardinality(Flying \cup New) <= MaxConcurrent
  <2> HIDE DEF New
  <2> QED BY <1>3, <1>5, <1>9, <1>10, <1>11
<1> QED BY <1>8, <1>9, <1>12 DEF PoolKept

LEMMA StepPool == Inv /\ PoolKept /\ [Next]_vars => PoolKept'
<1> SUFFICES ASSUME Inv, PoolKept, [Next]_vars PROVE PoolKept'
  OBVIOUS
<1>1. CASE UNCHANGED inFlight
  BY <1>1 DEF PoolKept, Flying
<1>2. CASE CheckOrSkip
  <2>1. config \in HostLists \cup {LoadError} /\ Typed
    BY DEF Inv, Typed
  <2> QED BY <1>1, <1>2, <2>1, CheckHostsKeepsPool DEF CheckOrSkip
<1>3. CASE TakeResult
  <2>1. \A id \in Ids : inFlight'[id] # None => inFlight[id] # None
    <3>1. results \in Seq(Result) /\ inFlight \in [Ids -> Flight \cup {None}] /\ results # <<>>
      BY <1>3 DEF Inv, Typed, TakeResult
    <3>2. Head(results) \in Result
      BY <3>1, TailFacts
    <3>3. Head(results).id \in Ids
      BY <3>2 DEF Result
    <3> QED BY <1>3, <3>1, <3>3 DEF TakeResult, Land
  <2>2. Flying' \in SUBSET Flying
    BY <2>1 DEF Flying
  <2>3. IsFiniteSet(Flying') /\ Cardinality(Flying') <= Cardinality(Flying)
    BY <2>2, FS_Subset DEF PoolKept
  <2>4. Cardinality(Flying') \in Nat /\ Cardinality(Flying) \in Nat /\ MaxConcurrent \in Nat
    BY <2>3, FS_CardinalityType, MonitorConstantsAssumption DEF PoolKept
  <2> QED BY <2>3, <2>4 DEF PoolKept
<1> QED BY <1>1, <1>2, <1>3 DEF Next, FirstCheck, Tick, Stop, Stopped, ProbeEnds,
          TimePasses, ConfigChanges, Cancel, vars

LEMMA InitPool == Init => PoolKept
<1> SUFFICES ASSUME Init PROVE PoolKept
  OBVIOUS
<1>1. Flying = {}
  BY DEF Init, Flying
<1>2. 0 <= MaxConcurrent
  BY MonitorConstantsAssumption
<1> QED BY <1>1, <1>2, FS_EmptySet DEF PoolKept

\* Every probe and every queued result has a flight to itself.
LEMMA UsersFly ==
    ASSUME Inv, PoolKept
    PROVE  ProbesBounded
<1> DEFINE used == {w \in Ids \X Ips : running[w] > 0}
           probed == {w[1] : w \in used}
           queued == {results[i].id : i \in 1..Len(results)}
           first == [w \in used |-> w[1]]
           asker == [i \in 1..Len(results) |-> results[i].id]
<1>1. /\ running \in [Ids \X Ips -> Nat]
      /\ results \in Seq(Result) /\ Len(results) \in Nat
      /\ \A i \in 1..Len(results) : results[i].id \in Ids
      /\ \A id \in Ids : Matched(id)
  <2>1. results \in Seq(Result) /\ Len(results) \in Nat
    BY DEF Inv, Typed
  <2>2. \A i \in 1..Len(results) : results[i] \in Result
    BY <2>1
  <2>3. \A i \in 1..Len(results) : results[i].id \in Ids
    BY <2>2 DEF Result
  <2> QED BY <2>1, <2>3 DEF Inv, Typed
<1>2. ASSUME NEW w \in used
      PROVE  /\ w[1] \in Flying
             /\ w = <<w[1], inFlight[w[1]].ip>>
             /\ \A i \in 1..Len(results) : results[i].id # w[1]
  <2>1. PICK id \in Ids, ip \in Ips : w = <<id, ip>>
    OBVIOUS
  <2>2. running[<<id, ip>>] > 0 /\ running[<<id, ip>>] \in Nat /\ w[1] = id
    BY <1>1, <2>1
  <2>3. inFlight[id] # None /\ running[<<id, ip>>] = 1
    BY <1>1, <2>2 DEF Matched
  <2>4. ip = inFlight[id].ip /\ Queued(id) = {}
    BY <1>1, <2>3 DEF Matched
  <2> QED BY <2>1, <2>2, <2>3, <2>4 DEF Flying, Queued
<1>3. \A i \in 1..Len(results) : results[i].id \in Flying
  <2>1. SUFFICES ASSUME NEW i \in 1..Len(results) PROVE results[i].id \in Flying
    OBVIOUS
  <2>2. i \in Queued(results[i].id)
    BY DEF Queued
  <2> QED BY <1>1, <2>2 DEF Matched, Flying
<1>4. \A i, j \in 1..Len(results) : results[i].id = results[j].id => i = j
  <2>1. SUFFICES ASSUME NEW i \in 1..Len(results), NEW j \in 1..Len(results),
                        results[i].id = results[j].id
                 PROVE  i = j
    OBVIOUS
  <2>2. i \in Queued(results[i].id) /\ j \in Queued(results[i].id)
    BY <2>1 DEF Queued
  <2>3. results[i].id \in Ids /\ inFlight[results[i].id] # None
    BY <1>1, <1>3 DEF Flying
  <2> QED BY <1>1, <2>2, <2>3 DEF Matched
<1>5. probed \in SUBSET Flying /\ queued \in SUBSET Flying /\ probed \cap queued = {}
  BY <1>2, <1>3
<1>6. first \in Injection(used, probed)
  <2>1. first \in [used -> probed]
    OBVIOUS
  <2>2. ASSUME NEW v \in used, NEW w \in used, first[v] = first[w] PROVE v = w
    <3>1. v[1] = w[1]
      BY <2>2
    <3> QED BY <1>2, <3>1
  <2> QED BY <2>1, <2>2 DEF Injection, IsInjective
<1>7. asker \in Injection(1..Len(results), queued)
  <2>1. asker \in [1..Len(results) -> queued]
    OBVIOUS
  <2>2. ASSUME NEW i \in 1..Len(results), NEW j \in 1..Len(results), asker[i] = asker[j]
        PROVE  i = j
    BY <1>4, <2>2
  <2> QED BY <2>1, <2>2 DEF Injection, IsInjective
<1> HIDE DEF used, probed, queued, first, asker
<1>8. IsFiniteSet(probed) /\ IsFiniteSet(queued)
  BY <1>5, FS_Subset DEF PoolKept
<1>9. IsFiniteSet(used) /\ Cardinality(used) <= Cardinality(probed)
  BY <1>6, <1>8, FS_Injection
<1>10. Cardinality(1..Len(results)) <= Cardinality(queued)
  BY <1>7, <1>8, FS_Injection
<1>11. Cardinality(1..Len(results)) = Len(results)
  <2>1. 1 \in Int /\ Len(results) \in Int
    BY <1>1
  <2>2. Cardinality(1..Len(results)) = IF 1 > Len(results) THEN 0 ELSE Len(results) - 1 + 1
    BY <2>1, FS_Interval
  <2> QED BY <1>1, <2>2
<1>12. Cardinality(probed \cup queued) = Cardinality(probed) + Cardinality(queued)
  <2>1. Cardinality(probed \cup queued) =
            Cardinality(probed) + Cardinality(queued) - Cardinality(probed \cap queued)
    BY <1>8, FS_Union
  <2>2. Cardinality(probed \cap queued) = 0
    BY <1>5, FS_EmptySet
  <2>3. Cardinality(probed) \in Nat /\ Cardinality(queued) \in Nat
    BY <1>8, FS_CardinalityType
  <2> QED BY <2>1, <2>2, <2>3
<1>13. probed \cup queued \in SUBSET Flying
  BY <1>5
<1>14. Cardinality(probed \cup queued) <= Cardinality(Flying)
  BY <1>13, FS_Subset DEF PoolKept
<1>15. /\ Cardinality(used) \in Nat /\ Cardinality(probed) \in Nat
       /\ Cardinality(queued) \in Nat /\ Cardinality(Flying) \in Nat
       /\ MaxConcurrent \in Nat /\ Len(results) \in Nat
  BY <1>1, <1>8, <1>9, FS_CardinalityType, MonitorConstantsAssumption DEF PoolKept
<1>16. Cardinality(used) + Len(results) <= MaxConcurrent
  BY <1>9, <1>10, <1>11, <1>12, <1>14, <1>15 DEF PoolKept
<1> QED BY <1>16 DEF ProbesBounded, used

\* The pool is never exceeded, whatever the configuration does, and the
\* channel has room for the result of every probe.
THEOREM PoolTheorem == Spec => []ProbesBounded
<1>1. Spec => [](Inv /\ PoolKept)
  <2>1. Init => Inv /\ PoolKept
    BY InitInv, InitPool
  <2>2. Inv /\ PoolKept /\ [Next]_vars => (Inv /\ PoolKept)'
    BY StepInv, StepPool
  <2> QED BY <2>1, <2>2, PTL DEF Spec
<1>2. Inv /\ PoolKept => ProbesBounded
  BY UsersFly
<1> QED BY <1>1, <1>2, PTL

=============================================================================
