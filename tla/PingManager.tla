----------------------------- MODULE PingManager -----------------------------
(***************************************************************************)
(* The availability monitor (backend/internal/device/monitor.go): one      *)
(* manager goroutine, woken by a ticker and by the results of the probes   *)
(* it starts in goroutines of their own, over a host list that may be a    *)
(* different one at each tick.                                             *)
(*                                                                         *)
(* Time is counted in periods of the ticker (pingCheckInterval), and so    *)
(* are ping intervals, rounded up.  A probe may last for any time;         *)
(* cancelling its context only makes it end sooner and is not represented. *)
(***************************************************************************)
EXTENDS Integers, FiniteSets, SequencesExt

CONSTANTS
    Ids,             \* host ids
    Ips,             \* host addresses
    HostLists,       \* the lists LoadHosts may return, each without duplicate ids
    MaxConcurrent,   \* maxConcurrentPings
    DefaultInterval, \* 60 s, in ticks
    MaxAge,          \* bound: no age counts further, since no interval is longer
    LoadError,       \* instead of a list: LoadHosts fails
    None             \* a key that is not in its map

Host == [id : Ids, ip : Ips, interval : 0..MaxAge]
Flight == [ip : Ips, valid : BOOLEAN]
Result == [id : Ids, ip : Ips, online : BOOLEAN]
HostState == [online : BOOLEAN, seen : BOOLEAN, ip : Ips]

ASSUME HostListsAssumption ==
    \A list \in HostLists :
        /\ list \in Seq(Host)
        /\ \A i, j \in 1..Len(list) : list[i].id = list[j].id => i = j

ASSUME ValuesAssumption ==
    /\ LoadError \notin HostLists
    /\ None \notin Flight \cup HostState

ASSUME MonitorConstantsAssumption ==
    /\ MaxConcurrent \in Nat \ {0}
    /\ MaxAge \in Nat
    /\ DefaultInterval \in 1..MaxAge

VARIABLES
    config,     \* what LoadHosts returns at present
    ctxDone,    \* the context of the program is cancelled
    tickReady,  \* the ticker's channel, of capacity one, holds a tick
    phase,      \* where the manager is: starting, selecting, waiting, stopped
    age,        \* lastPingTimes: ticks since a host was last probed
    inFlight,   \* the flights the manager knows of
    running,    \* number of probe goroutines, by host id and address
    results,    \* the results channel
    status,     \* Monitor.status, with the address that was probed (history)
    loaded      \* history: the list the last successful check worked with

vars == <<config, ctxDone, tickReady, phase, age, inFlight, running, results, status, loaded>>

TypeOK ==
    /\ config \in HostLists \cup {LoadError}
    /\ ctxDone \in BOOLEAN
    /\ tickReady \in BOOLEAN
    /\ phase \in {"starting", "selecting", "waiting", "stopped"}
    /\ age \in [Ids -> 0..MaxAge \cup {None}]
    /\ inFlight \in [Ids -> Flight \cup {None}]
    /\ running \in [Ids \X Ips -> Nat]
    /\ results \in Seq(Result)
    /\ status \in [Ids -> HostState \cup {None}]
    /\ loaded \in HostLists \cup {<<>>}

Init ==
    /\ config \in HostLists \cup {LoadError}
    /\ ctxDone = FALSE
    /\ tickReady = FALSE
    /\ phase = "starting"
    /\ age = [id \in Ids |-> None]
    /\ inFlight = [id \in Ids |-> None]
    /\ running = [w \in Ids \X Ips |-> 0]
    /\ results = <<>>
    /\ status = [id \in Ids |-> None]
    /\ loaded = <<>>

-----------------------------------------------------------------------------
(* checkHosts, for the list it has loaded                                  *)

IsHost(list, id) == \E h \in ToSet(list) : h.id = id

\* The list still has the host, at the address being probed.
SameTargetBug(list, id, ip) == \A h \in ToSet(list) : h.id = id => h.ip = ip

SameTarget(list, id, ip) == \E h \in ToSet(list) : h.id = id /\ h.ip = ip

\* An outdated flight stays in the map, marked, until its probe has ended:
\* the goroutine still counts, and the host is not probed twice at once.
ForgetBug(flight) == None

Invalidate(flight) == [flight EXCEPT !.valid = FALSE]

Outdated(list, id) == inFlight[id] # None /\ ~SameTarget(list, id, inFlight[id].ip)

FlightsAfter(list) ==
    [id \in Ids |-> IF Outdated(list, id) THEN Invalidate(inFlight[id]) ELSE inFlight[id]]

AgesAfter(list) ==
    [id \in Ids |-> IF IsHost(list, id) /\ ~Outdated(list, id) THEN age[id] ELSE None]

Interval(h) == IF h.interval <= 0 THEN DefaultInterval ELSE h.interval

Idle(list, h) == FlightsAfter(list)[h.id] = None

Due(list, h) ==
    /\ Idle(list, h)
    /\ AgesAfter(list)[h.id] = None \/ AgesAfter(list)[h.id] >= Interval(h)

Room(flights) == MaxConcurrent - Cardinality({id \in Ids : flights[id] # None})

\* The loop over the hosts starts those that are due, in the order of the
\* list, until the pool is full or the program is stopping.
Started(list) ==
    LET before(j) == {i \in 1..(j - 1) : Due(list, list[i])}
        room == Room(FlightsAfter(list))
    IN  {list[j] : j \in {i \in DOMAIN list :
            ~ctxDone /\ Due(list, list[i]) /\ Cardinality(before(i)) < room}}

CheckHosts(list) ==
    LET started == Started(list)
        starts(id) == \E h \in started : h.id = id
        host(id) == CHOOSE h \in started : h.id = id
    IN  /\ loaded' = list
        /\ status' = [id \in Ids |-> IF IsHost(list, id) THEN status[id] ELSE None]
        /\ age' = [id \in Ids |-> IF starts(id) THEN 0 ELSE AgesAfter(list)[id]]
        /\ inFlight' = [id \in Ids |-> IF starts(id)
                                       THEN [ip |-> host(id).ip, valid |-> TRUE]
                                       ELSE FlightsAfter(list)[id]]
        /\ running' = [w \in Ids \X Ips |->
                          running[w] + IF \E h \in started : w = <<h.id, h.ip>> THEN 1 ELSE 0]

\* Without a list the check has no effect.
CheckOrSkip ==
    \/ config # LoadError /\ CheckHosts(config)
    \/ config = LoadError /\ UNCHANGED <<loaded, status, age, inFlight, running>>

-----------------------------------------------------------------------------
(* The manager goroutine                                                   *)

FirstCheck ==
    /\ phase = "starting"
    /\ CheckOrSkip
    /\ phase' = "selecting"
    /\ UNCHANGED <<config, ctxDone, tickReady, results>>

\* case <-ticks
Tick ==
    /\ phase = "selecting"
    /\ tickReady
    /\ tickReady' = FALSE
    /\ CheckOrSkip
    /\ UNCHANGED <<config, ctxDone, phase, results>>

AcceptedBug(flight) == TRUE

\* The answer counts only if its flight is still valid.
Accepted(flight) == flight.valid

LandBug(id) == IF inFlight[id].valid THEN None ELSE inFlight[id]

\* The flight is forgotten whether its answer counts or not.
Land(id) == None

\* LastPinged keeps the time of the last answer while the host is offline.
NewStatus(r) ==
    [online |-> r.online,
     seen |-> r.online \/ (status[r.id] # None /\ status[r.id].seen),
     ip |-> r.ip]

\* case result := <-results
TakeResult ==
    /\ phase = "selecting"
    /\ results # <<>>
    /\ results' = Tail(results)
    /\ LET r == Head(results) IN
        \/ /\ inFlight[r.id] = None
           /\ UNCHANGED <<inFlight, status>>
        \/ /\ inFlight[r.id] # None
           /\ inFlight' = [inFlight EXCEPT ![r.id] = Land(r.id)]
           /\ status' = IF Accepted(inFlight[r.id])
                        THEN [status EXCEPT ![r.id] = NewStatus(r)]
                        ELSE status
    /\ UNCHANGED <<config, ctxDone, tickReady, phase, age, running, loaded>>

\* case <-ctx.Done()
Stop ==
    /\ phase = "selecting"
    /\ ctxDone
    /\ phase' = "waiting"
    /\ UNCHANGED <<config, ctxDone, tickReady, age, inFlight, running, results, status, loaded>>

\* workers.Wait() returns when every probe goroutine has ended.
Stopped ==
    /\ phase = "waiting"
    /\ \A w \in Ids \X Ips : running[w] = 0
    /\ phase' = "stopped"
    /\ UNCHANGED <<config, ctxDone, tickReady, age, inFlight, running, results, status, loaded>>

-----------------------------------------------------------------------------
(* Probes, ticker and environment                                          *)

CapacityBug == 1

Capacity == MaxConcurrent

\* A probe ends, by an answer, by its timeout or cancelled, and its goroutine
\* puts the result into the channel, waiting while the channel is full.
ProbeEnds(w) ==
    /\ running[w] > 0
    /\ Len(results) < Capacity
    /\ \E online \in BOOLEAN :
        results' = Append(results, [id |-> w[1], ip |-> w[2], online |-> online])
    /\ running' = [running EXCEPT ![w] = @ - 1]
    /\ UNCHANGED <<config, ctxDone, tickReady, phase, age, inFlight, status, loaded>>

\* A period of the ticker passes; a tick nobody has taken is not repeated.
TimePasses ==
    /\ phase # "stopped"
    /\ tickReady' = TRUE
    /\ age' = [id \in Ids |-> IF age[id] = None \/ age[id] = MaxAge
                              THEN age[id] ELSE age[id] + 1]
    /\ UNCHANGED <<config, ctxDone, phase, inFlight, running, results, status, loaded>>

ConfigChanges ==
    /\ config' \in HostLists \cup {LoadError}
    /\ config' # config
    /\ UNCHANGED <<ctxDone, tickReady, phase, age, inFlight, running, results, status, loaded>>

\* SIGTERM or an interrupt.
Cancel ==
    /\ ~ctxDone
    /\ ctxDone' = TRUE
    /\ UNCHANGED <<config, tickReady, phase, age, inFlight, running, results, status, loaded>>

Next ==
    \/ FirstCheck
    \/ Tick
    \/ TakeResult
    \/ Stop
    \/ Stopped
    \/ \E w \in Ids \X Ips : ProbeEnds(w)
    \/ TimePasses
    \/ ConfigChanges
    \/ Cancel

(***************************************************************************)
(* The scheduler runs every goroutine that can run; select takes a ready   *)
(* case at random, so none is passed over for ever; a probe has a timeout; *)
(* the ticker ticks.  Nothing is assumed of configuration and signals.     *)
(***************************************************************************)
Fairness ==
    /\ WF_vars(FirstCheck)
    /\ SF_vars(Tick)
    /\ SF_vars(TakeResult)
    /\ WF_vars(Stop)
    /\ WF_vars(Stopped)
    /\ \A w \in Ids \X Ips : WF_vars(ProbeEnds(w))
    /\ WF_vars(TimePasses)

Spec == Init /\ [][Next]_vars
FairSpec == Spec /\ Fairness

-----------------------------------------------------------------------------
(* Properties                                                              *)

Outstanding(id) ==
    {w \in Ids \X Ips : w[1] = id /\ running[w] > 0}

\* A host is never probed twice at the same time, not even when it is removed,
\* or moved to another address, and back while a probe for it is running
\* (monitor.go:80-87, 101).
OneProbePerHost ==
    \A id \in Ids :
        /\ Cardinality(Outstanding(id)) <= 1
        /\ \A w \in Outstanding(id) :
              running[w] = 1 /\ \A i \in DOMAIN results : results[i].id # id

\* At most MaxConcurrent probes exist, counting those whose result is still
\* queued, whatever the configuration does; so a probe that ends always finds
\* room in the channel, also after the manager has stopped receiving.
ProbesBounded ==
    LET used == {w \in Ids \X Ips : running[w] > 0}
    IN  Cardinality(used) + Len(results) <= MaxConcurrent

\* Only hosts of the list last loaded have a status: the late answer for a
\* host removed meanwhile does not bring it back (monitor.go:88-94, 141).
StatusOnlyOfHosts ==
    \A id \in Ids : status[id] # None => IsHost(loaded, id)

\* An answer is recorded only if the address that was probed is the one the
\* host has in the list last loaded (monitor.go:82, 141).
AnswersAreForCurrentAddress ==
    [][\A id \in Ids :
          status'[id] # None /\ status'[id] # status[id] => SameTarget(loaded', id, status'[id].ip)]_vars

\* After a signal the manager comes to an end, without leaving a probe behind
\* (monitor.go:126-131): main waits for it.
ShutdownCompletes ==
    ctxDone ~> (phase = "stopped" /\ \A w \in Ids \X Ips : running[w] = 0)

Settled(list) == config = list /\ ~ctxDone

\* When the configuration stays as it is, the status of every host comes to
\* be one of its present address, whatever was in flight when it changed.
StatusCatchesUp ==
    \A list \in HostLists :
        <>[]Settled(list) =>
            <>[](\A h \in ToSet(list) : status[h.id] # None /\ status[h.id].ip = h.ip)

\* README.md:14: the program shows "whether a device responds to ping
\* checks".  It does not hold with more hosts due at every tick than the pool
\* has room for: each check starts again from the head of the list
\* (monitor.go:97-100), and the hosts at its end are never probed.
EveryHostIsChecked ==
    \A list \in HostLists :
        <>[]Settled(list) => \A h \in ToSet(list) : <>(status[h.id] # None)

=============================================================================
