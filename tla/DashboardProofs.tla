-------------------------- MODULE DashboardProofs --------------------------
(***************************************************************************)
(* Proofs about Dashboard, for any devices and any bounds.                 *)
(*                                                                         *)
(* Three arguments.  The polls: the closures of earlier pages are stopped, *)
(* and the one of the open page always holds one fetch or one timer.  The  *)
(* lists: a fetch under way can only bring a list newer than the one that  *)
(* is shown, because no other fetch runs beside it.  The cards: as long as *)
(* no poll has confirmed a command too early, a command without an answer  *)
(* is what keeps its card in "sending", and the button disabled.           *)
(***************************************************************************)
EXTENDS Dashboard, FiniteSetTheorems, TLAPS

\* Only the last page opened polls, with one fetch or one timer.
InOrder(i, last, p) ==
    /\ i > last => p = NotPolling
    /\ i < last => p.stopped
    /\ p.stopped => ~p.timer /\ PendingFetch \notin p.fetches
    /\ ~p.stopped => \/ p.timer /\ p.fetches = {}
                     \/ ~p.timer /\ \E f \in p.fetches : p.fetches = {f}

PollsInOrder == \A i \in 1..MaxPolling : InOrder(i, opened, polling[i])

\* What fetches bring is of the server, and not older than what is shown.
VersionsInOrder ==
    /\ list.hosts.version <= server.version
    /\ \A i \in 1..MaxPolling : \A f \in polling[i].fetches :
        /\ f.hosts.version <= server.version
        /\ ~polling[i].stopped /\ f \notin {PendingFetch, FailedFetch} =>
               list.hosts.version <= f.hosts.version

\* A card that has not been confirmed too early is sending while it has a
\* command under way, and has no other.
CommandsInOrder ==
    \A c \in commands :
        c.mounted =>
            /\ card[c.host] # NoCard
            /\ \/ card[c.host].early
               \/ /\ card[c.host].status = "sending"
                  /\ \A d \in commands : d.mounted /\ d.host = c.host => d = c

IInv ==
    /\ TypeOK
    /\ PollsInOrder
    /\ VersionsInOrder
    /\ CommandsInOrder
    /\ TimerRunsWhileWaiting

-----------------------------------------------------------------------------
(* Types                                                                   *)

LEMMA HostListTypes ==
    /\ NoHosts \in Listed /\ NoHosts.version = 0
    /\ PendingFetch \in Fetch /\ FailedFetch \in Fetch /\ PendingFetch # FailedFetch
    /\ PendingFetch.hosts = NoHosts /\ FailedFetch.hosts = NoHosts
    /\ \A hosts \in Listed :
        /\ Answered(hosts) \in Fetch
        /\ Answered(hosts).hosts = hosts
        /\ Answered(hosts) # PendingFetch
BY BoundsAssumption DEF NoHosts, Listed, PendingFetch, FailedFetch, Answered, Fetch

LEMMA PollingTypes ==
    /\ NotPolling \in Polling /\ NotPolling.stopped /\ ~NotPolling.timer
    /\ NotPolling.fetches = {}
BY DEF NotPolling, Polling

\* A closure is its three fields.
LEMMA PollingFields ==
    ASSUME NEW p \in Polling
    PROVE  p.stopped \in BOOLEAN /\ p.fetches \subseteq Fetch /\ p.timer \in BOOLEAN
BY DEF Polling

LEMMA CardTypes ==
    /\ NoCard \notin Card
    /\ NewCard \in Card /\ NewCard.status = "idle" /\ NewCard.timer = FALSE
BY DEF NoCard, Card, NewCard

LEMMA CardFields ==
    ASSUME NEW c \in Card
    PROVE  /\ c.status \in {"idle", "sending", "waiting", "timedOut", "error"}
           /\ c.expected \in {"on", "off"}
           /\ c.timer \in BOOLEAN /\ c.early \in BOOLEAN
BY DEF Card

\* What the tracker's methods return.
LEMMA TrackerTypes ==
    ASSUME NEW c \in Card
    PROVE  /\ \A isOn : Confirm(c, isOn) \in Card
           /\ \A expected \in {"on", "off"} : Start(c, expected) \in Card
           /\ CommandSent(c) \in Card /\ Fail(c) \in Card /\ TimedOut(c) \in Card
<1>1. \A isOn : Confirm(c, isOn) \in Card
  BY DEF Confirm, Card
<1>2. \A expected \in {"on", "off"} : Start(c, expected) \in Card
  BY DEF Start, Card
<1>3. CommandSent(c) \in Card
  BY DEF CommandSent, Card
<1>4. Fail(c) \in Card
  BY DEF Fail, Card
<1>5. TimedOut(c) \in Card
  BY DEF TimedOut, Card
<1> QED
  BY <1>1, <1>2, <1>3, <1>4, <1>5

\* The timer is the one of the status.
Timed(c) == c.timer <=> c.status = "waiting"

LEMMA TrackerTimers ==
    ASSUME NEW c \in Card, Timed(c)
    PROVE  /\ \A isOn : Timed(Confirm(c, isOn))
           /\ \A expected : Timed(Start(c, expected))
           /\ Timed(CommandSent(c)) /\ Timed(Fail(c)) /\ Timed(TimedOut(c))
           /\ Timed(NewCard)
<1>1. \A isOn : Timed(Confirm(c, isOn))
  BY DEF Confirm, Card, Timed
<1>2. \A expected : Timed(Start(c, expected))
  BY DEF Start, Card, Timed
<1>3. Timed(CommandSent(c))
  BY DEF CommandSent, Card, Timed
<1>4. Timed(Fail(c))
  BY DEF Fail, Card, Timed
<1>5. Timed(TimedOut(c))
  BY DEF TimedOut, Card, Timed
<1>6. Timed(NewCard)
  BY DEF NewCard, Timed
<1> QED
  BY <1>1, <1>2, <1>3, <1>4, <1>5, <1>6

\* What a card shows, once the effect has run: confirmed early, or as it was.
LEMMA TrackerStatus ==
    ASSUME NEW c \in Card
    PROVE  /\ \A isOn : /\ c.early => Confirm(c, isOn).early
                        /\ c.status = "sending" =>
                             Confirm(c, isOn).early \/ Confirm(c, isOn) = c
           /\ \A expected : /\ c.early => Start(c, expected).early
                            /\ Start(c, expected).status = "sending"
           /\ c.early => CommandSent(c).early /\ Fail(c).early /\ TimedOut(c).early
           /\ c.status = "sending" => TimedOut(c).status = "sending"
<1>1. \A isOn : /\ c.early => Confirm(c, isOn).early
                /\ c.status = "sending" => Confirm(c, isOn).early \/ Confirm(c, isOn) = c
  BY DEF Confirm, Card
<1>2. \A expected : /\ c.early => Start(c, expected).early
                    /\ Start(c, expected).status = "sending"
  BY DEF Start, Card
<1>3. c.early => CommandSent(c).early
  BY DEF CommandSent, Card
<1>4. c.early => Fail(c).early
  BY DEF Fail, Card
<1>5. c.early => TimedOut(c).early
  BY DEF TimedOut, Card
<1>6. c.status = "sending" => TimedOut(c).status = "sending"
  BY DEF TimedOut, Card
<1> QED
  BY <1>1, <1>2, <1>3, <1>4, <1>5, <1>6

-----------------------------------------------------------------------------
(* Cards and commands                                                      *)

CardsSound == CommandsInOrder /\ TimerRunsWhileWaiting

CardsTyped == card \in [Hosts -> Card \cup {NoCard}] /\ commands \subseteq Command

\* A request whose card goes is not mounted any longer, and the others are
\* what they were.
LEMMA StillMounted ==
    ASSUME NEW c \in Command, NEW stays \in BOOLEAN
    PROVE  LET d == [c EXCEPT !.mounted = @ /\ stays]
           IN  d \in Command /\ d.host = c.host /\ (d.mounted => stays /\ c.mounted /\ d = c)
<1> DEFINE d == [c EXCEPT !.mounted = @ /\ stays]
<1>1. c = [host |-> c.host, action |-> c.action, mounted |-> c.mounted] /\ c.mounted \in BOOLEAN
  BY DEF Command
<1>2. d \in Command
  BY DEF Command
<1>3. d = [host |-> c.host, action |-> c.action, mounted |-> c.mounted /\ stays]
  BY <1>1
<1>4. d.mounted => stays /\ c.mounted
  BY <1>3
<1>5. d.mounted => d = c
  BY <1>1, <1>3, <1>4
<1> QED
  BY <1>2, <1>3, <1>4, <1>5

LEMMA CardOfCases ==
    ASSUME TypeOK, NEW h \in Hosts, NEW shown
    PROVE  \/ CardOf(h, shown) = NoCard
           \/ card[h] = NoCard /\ CardOf(h, shown) = NewCard
           \/ /\ card[h] # NoCard /\ card[h] \in Card
              /\ CardOf(h, shown) = Confirm(card[h], shown.hosts.status[h])
BY DEF TypeOK, CardOf

LEMMA RenderEffect ==
    ASSUME TypeOK, CardsSound, NEW shown, Render(shown)
    PROVE  CardsTyped' /\ CardsSound'
<1>1. card' = [h \in Hosts |-> CardOf(h, shown)]
  BY DEF Render
<1>2. \A h \in Hosts :
          \/ card'[h] = NoCard
          \/ card[h] = NoCard /\ card'[h] = NewCard
          \/ /\ card[h] # NoCard /\ card[h] \in Card
             /\ card'[h] = Confirm(card[h], shown.hosts.status[h])
  BY <1>1, CardOfCases
<1>3. card' \in [Hosts -> Card \cup {NoCard}]
  BY <1>1, <1>2, CardTypes, TrackerTypes
<1>4. \A d \in commands' : \E c \in commands :
          d = [c EXCEPT !.mounted = @ /\ card'[c.host] # NoCard]
  BY DEF Render
<1>5. ASSUME NEW d \in commands'
      PROVE  d \in Command /\ (d.mounted => d \in commands /\ card'[d.host] # NoCard)
  <2>1. PICK c \in commands : d = [c EXCEPT !.mounted = @ /\ card'[c.host] # NoCard]
    BY <1>4
  <2>2. c \in Command /\ (card'[c.host] # NoCard) \in BOOLEAN
    BY DEF TypeOK
  <2>3. /\ d \in Command /\ d.host = c.host
        /\ d.mounted => card'[c.host] # NoCard /\ c.mounted /\ d = c
    BY <2>1, <2>2, StillMounted
  <2> QED
    BY <2>3
<1>6. CommandsInOrder'
  <2> SUFFICES ASSUME NEW c \in commands', c.mounted
               PROVE  /\ card'[c.host] # NoCard
                      /\ \/ card'[c.host].early
                         \/ /\ card'[c.host].status = "sending"
                            /\ \A d \in commands' : d.mounted /\ d.host = c.host => d = c
    BY DEF CommandsInOrder
  <2>1. c \in commands /\ card'[c.host] # NoCard /\ c.host \in Hosts
    BY <1>5 DEF Command
  <2>2. /\ card[c.host] # NoCard
        /\ \/ card[c.host].early
           \/ /\ card[c.host].status = "sending"
              /\ \A d \in commands : d.mounted /\ d.host = c.host => d = c
    BY <2>1 DEF CardsSound, CommandsInOrder
  <2>3. card[c.host] \in Card /\ \E isOn : card'[c.host] = Confirm(card[c.host], isOn)
    BY <1>2, <2>1, <2>2
  <2>4. \A d \in commands' : d.mounted => d \in commands
    BY <1>5
  <2>5. CASE card[c.host].early
    BY <2>1, <2>3, <2>5, TrackerStatus
  <2>6. CASE /\ card[c.host].status = "sending"
             /\ \A d \in commands : d.mounted /\ d.host = c.host => d = c
    <3>1. card'[c.host].early \/ card'[c.host] = card[c.host]
      BY <2>3, <2>6, TrackerStatus
    <3>2. \A d \in commands' : d.mounted /\ d.host = c.host => d = c
      BY <2>4, <2>6
    <3> QED
      BY <2>1, <2>6, <3>1, <3>2
  <2> QED
    BY <2>2, <2>5, <2>6
<1>7. TimerRunsWhileWaiting'
  <2> SUFFICES ASSUME NEW h \in Hosts, card'[h] # NoCard
               PROVE  Timed(card'[h])
    BY DEF TimerRunsWhileWaiting, Timed
  <2>1. CASE card'[h] = NewCard
    BY <2>1 DEF NewCard, Timed
  <2>2. CASE card[h] # NoCard /\ card[h] \in Card /\ card'[h] = Confirm(card[h], shown.hosts.status[h])
    <3>1. Timed(card[h])
      BY <2>2 DEF CardsSound, TimerRunsWhileWaiting, Timed
    <3> QED
      BY <2>2, <3>1, TrackerTimers
  <2> QED
    BY <1>2, <2>1, <2>2
<1> QED
  BY <1>3, <1>5, <1>6, <1>7 DEF CardsTyped, CardsSound

LEMMA PressEffect ==
    ASSUME TypeOK, CardsSound, NEW h \in Hosts, HandlePowerToggle(h)
    PROVE  CardsTyped' /\ CardsSound' /\ actions' \in 0..MaxActions
<1> DEFINE pressed == Start(card[h], Opposite(list.hosts.status[h]))
           new == [host |-> h, action |-> actions + 1, mounted |-> TRUE]
<1>1. /\ card[h] # NoCard /\ card[h] \in Card /\ ~IsLoading(card[h])
      /\ actions < MaxActions /\ actions' = actions + 1
      /\ card' = [card EXCEPT ![h] = pressed]
      /\ commands' = commands \cup {new}
  BY DEF HandlePowerToggle, TypeOK
<1>2. pressed \in Card /\ pressed # NoCard /\ pressed.status = "sending"
      /\ (card[h].early => pressed.early)
  <2>1. Opposite(list.hosts.status[h]) \in {"on", "off"}
    BY DEF Opposite
  <2> QED
    BY <1>1, <2>1, TrackerTypes, TrackerStatus, CardTypes
<1>3. new \in Command /\ new.host = h /\ actions' \in 0..MaxActions
  BY <1>1, BoundsAssumption DEF Command, TypeOK
<1>4. CardsTyped'
  BY <1>1, <1>2, <1>3 DEF CardsTyped, TypeOK
<1>5. \A c \in commands : c.mounted /\ c.host = h => card[h].early
  BY <1>1 DEF CardsSound, CommandsInOrder, IsLoading
<1>6. CommandsInOrder'
  <2> HIDE DEF pressed, new
  <2> SUFFICES ASSUME NEW c \in commands', c.mounted
               PROVE  /\ card'[c.host] # NoCard
                      /\ \/ card'[c.host].early
                         \/ /\ card'[c.host].status = "sending"
                            /\ \A d \in commands' : d.mounted /\ d.host = c.host => d = c
    BY DEF CommandsInOrder
  <2>0. c \in Command /\ c.host \in Hosts /\ card'[h] = pressed
    BY <1>1, <1>3 DEF TypeOK, Command
  <2>1. CASE c.host = h
    <3>1. CASE card[h].early
      BY <1>2, <2>0, <2>1, <3>1
    <3>2. CASE ~card[h].early
      BY <1>1, <1>2, <1>5, <2>0, <2>1, <3>2
    <3> QED
      BY <3>1, <3>2
  <2>2. CASE c.host # h
    <3>1. c \in commands /\ card'[c.host] = card[c.host]
      BY <1>1, <1>3, <2>0, <2>2 DEF TypeOK
    <3>2. \A d \in commands' : d.host = c.host => d \in commands
      BY <1>1, <1>3, <2>2
    <3> QED
      BY <3>1, <3>2 DEF CardsSound, CommandsInOrder
  <2> QED
    BY <2>1, <2>2
<1>7. TimerRunsWhileWaiting'
  <2> SUFFICES ASSUME NEW g \in Hosts, card'[g] # NoCard
               PROVE  Timed(card'[g])
    BY DEF TimerRunsWhileWaiting, Timed
  <2>1. card[g] # NoCard => Timed(card[g])
    BY DEF CardsSound, TimerRunsWhileWaiting, Timed
  <2>2. Timed(card[h]) => Timed(pressed)
    BY <1>1, TrackerTimers
  <2> HIDE DEF pressed
  <2> QED
    BY <1>1, <2>1, <2>2 DEF TypeOK
<1> QED
  BY <1>3, <1>4, <1>6, <1>7 DEF CardsSound

\* The answer to a command, whatever the tracker makes of it.
LEMMA AnswerEffect ==
    ASSUME TypeOK, CardsSound, NEW c \in commands, NEW tracker, Answer(c, tracker),
           c.mounted => /\ tracker \in Card /\ Timed(tracker)
                        /\ card[c.host].early => tracker.early
    PROVE  CardsTyped' /\ CardsSound'
<1> DEFINE confirmed == Confirm(tracker, list.hosts.status[c.host])
<1>0. c \in Command /\ c.host \in Hosts
  BY DEF TypeOK, Command
<1>1. /\ card' = IF c.mounted THEN [card EXCEPT ![c.host] = confirmed] ELSE card
      /\ commands' = commands \ {c}
  BY DEF Answer
<1>2. ASSUME c.mounted
      PROVE  /\ confirmed \in Card /\ confirmed # NoCard /\ Timed(confirmed)
             /\ card[c.host].early => confirmed.early
  <2>1. tracker \in Card /\ Timed(tracker) /\ (card[c.host].early => tracker.early)
    BY <1>2
  <2>2. confirmed \in Card /\ confirmed # NoCard
    BY <2>1, TrackerTypes, CardTypes
  <2>3. Timed(confirmed)
    BY <2>1, TrackerTimers
  <2>4. tracker.early => confirmed.early
    BY <2>1, TrackerStatus
  <2> QED
    BY <2>1, <2>2, <2>3, <2>4
<1> HIDE DEF confirmed
<1>3. CardsTyped'
  BY <1>0, <1>1, <1>2 DEF CardsTyped, TypeOK
<1>4. CommandsInOrder'
  <2> SUFFICES ASSUME NEW d \in commands', d.mounted
               PROVE  /\ card'[d.host] # NoCard
                      /\ \/ card'[d.host].early
                         \/ /\ card'[d.host].status = "sending"
                            /\ \A e \in commands' : e.mounted /\ e.host = d.host => e = d
    BY DEF CommandsInOrder
  <2>0. d \in commands /\ d # c /\ d.host \in Hosts
    BY <1>1 DEF TypeOK, Command
  <2>1. /\ card[d.host] # NoCard
        /\ \/ card[d.host].early
           \/ /\ card[d.host].status = "sending"
              /\ \A e \in commands : e.mounted /\ e.host = d.host => e = d
    BY <2>0 DEF CardsSound, CommandsInOrder
  <2>2. CASE c.mounted /\ c.host = d.host
    <3>1. card[d.host].early
      BY <2>0, <2>1, <2>2
    <3>2. card'[d.host] = confirmed
      BY <1>0, <1>1, <2>2 DEF TypeOK
    <3> QED
      BY <1>2, <2>2, <3>1, <3>2
  <2>3. CASE ~(c.mounted /\ c.host = d.host)
    <3>1. card'[d.host] = card[d.host]
      BY <1>0, <1>1, <2>0, <2>3 DEF TypeOK
    <3> QED
      BY <1>1, <2>1, <3>1
  <2> QED
    BY <2>2, <2>3
<1>5. TimerRunsWhileWaiting'
  <2> SUFFICES ASSUME NEW g \in Hosts, card'[g] # NoCard
               PROVE  Timed(card'[g])
    BY DEF TimerRunsWhileWaiting, Timed
  <2>1. card[g] # NoCard => Timed(card[g])
    BY DEF CardsSound, TimerRunsWhileWaiting, Timed
  <2> QED
    BY <1>0, <1>1, <1>2, <2>1 DEF TypeOK
<1> QED
  BY <1>3, <1>4, <1>5 DEF CardsSound

LEMMA TimeoutEffect ==
    ASSUME TypeOK, CardsSound, NEW h \in Hosts, ActionTimeout(h)
    PROVE  CardsTyped' /\ CardsSound'
<1> DEFINE late == TimedOut(card[h])
<1>1. /\ card[h] # NoCard /\ card[h] \in Card
      /\ card' = [card EXCEPT ![h] = late] /\ commands' = commands
  BY DEF ActionTimeout, TypeOK
<1>2. /\ late \in Card /\ late # NoCard
      /\ card[h].early => late.early
      /\ card[h].status = "sending" => late.status = "sending"
  BY <1>1, TrackerTypes, TrackerStatus, CardTypes
<1>3. Timed(late)
  BY <1>1, TrackerTimers DEF CardsSound, TimerRunsWhileWaiting, Timed
<1> HIDE DEF late
<1>4. CardsTyped'
  BY <1>1, <1>2 DEF CardsTyped, TypeOK
<1>5. CommandsInOrder'
  <2> SUFFICES ASSUME NEW c \in commands, c.mounted
               PROVE  /\ card'[c.host] # NoCard
                      /\ \/ card'[c.host].early
                         \/ /\ card'[c.host].status = "sending"
                            /\ \A d \in commands : d.mounted /\ d.host = c.host => d = c
    BY <1>1 DEF CommandsInOrder
  <2>1. c.host \in Hosts
    BY DEF TypeOK, Command
  <2>2. card'[c.host] = IF c.host = h THEN late ELSE card[c.host]
    BY <1>1, <2>1 DEF TypeOK
  <2> QED
    BY <1>2, <2>2 DEF CardsSound, CommandsInOrder
<1>6. TimerRunsWhileWaiting'
  <2> SUFFICES ASSUME NEW g \in Hosts, card'[g] # NoCard
               PROVE  Timed(card'[g])
    BY DEF TimerRunsWhileWaiting, Timed
  <2>1. card[g] # NoCard => Timed(card[g])
    BY DEF CardsSound, TimerRunsWhileWaiting, Timed
  <2> QED
    BY <1>1, <1>3, <2>1 DEF TypeOK
<1> QED
  BY <1>4, <1>5, <1>6 DEF CardsSound

-----------------------------------------------------------------------------
(* Polls and lists                                                         *)

PollsSound == PollsInOrder /\ VersionsInOrder

PollsTyped ==
    /\ server \in Listed
    /\ reachable \in BOOLEAN
    /\ polling \in [1..MaxPolling -> Polling]
    /\ opened \in 0..MaxPolling
    /\ list \in [view : Views, hosts : Listed]

\* What VersionsInOrder says of one closure.
Newer(p, shown, now) ==
    \A f \in p.fetches :
        /\ f.hosts.version <= now
        /\ ~p.stopped /\ f \notin {PendingFetch, FailedFetch} => shown <= f.hosts.version

LEMMA VersionsByClosure ==
    VersionsInOrder <=>
        /\ list.hosts.version <= server.version
        /\ \A i \in 1..MaxPolling : Newer(polling[i], list.hosts.version, server.version)
BY DEF VersionsInOrder, Newer

LEMMA StoppedEffect ==
    ASSUME NEW p \in Polling, NEW shown, NEW other, NEW now \in Nat, Newer(p, shown, now)
    PROVE  /\ Stopped(p) \in Polling /\ Newer(Stopped(p), other, now)
           /\ Stopped(p).stopped /\ ~Stopped(p).timer /\ PendingFetch \notin Stopped(p).fetches
<1>1. /\ Stopped(p).stopped /\ ~Stopped(p).timer
      /\ Stopped(p).fetches = {Aborted(f) : f \in p.fetches}
  BY DEF Stopped
<1>2. \A f \in p.fetches : /\ Aborted(f) \in Fetch /\ Aborted(f) # PendingFetch
                           /\ Aborted(f).hosts.version <= now
  BY PollingFields, HostListTypes DEF Aborted, Newer
<1>3. Stopped(p) \in Polling
  BY <1>2 DEF Stopped, Polling
<1>4. Newer(Stopped(p), other, now)
  BY <1>1, <1>2 DEF Newer
<1>5. PendingFetch \notin Stopped(p).fetches
  BY <1>1, <1>2
<1> QED
  BY <1>1, <1>3, <1>4, <1>5

LEMMA FirstFetch ==
    ASSUME NEW shown, NEW now \in Nat
    PROVE  LET p == [stopped |-> FALSE, fetches |-> {PendingFetch}, timer |-> FALSE]
           IN  p \in Polling /\ Newer(p, shown, now) /\ \A i \in Nat : InOrder(i, i, p)
<1> DEFINE p == [stopped |-> FALSE, fetches |-> {PendingFetch}, timer |-> FALSE]
<1>1. p \in Polling
  BY HostListTypes DEF Polling
<1>2. p.stopped = FALSE /\ p.fetches = {PendingFetch} /\ p.timer = FALSE
  OBVIOUS
<1>3. Newer(p, shown, now)
  BY <1>2, HostListTypes DEF Newer
<1> QED
  BY <1>1, <1>2, <1>3 DEF InOrder

LEMMA StoppedInOrder ==
    ASSUME NEW i \in Nat, NEW last \in Nat, NEW p \in Polling, i <= last,
           p.stopped, ~p.timer, PendingFetch \notin p.fetches
    PROVE  InOrder(i, last, p)
BY DEF InOrder

LEMMA MountEffect ==
    ASSUME TypeOK, PollsSound, Mount
    PROVE  PollsTyped' /\ PollsSound'
<1> DEFINE first == [stopped |-> FALSE, fetches |-> {PendingFetch}, timer |-> FALSE]
<1>0. opened \in Nat /\ MaxPolling \in Nat /\ server.version \in Nat /\ opened \in 0..MaxPolling
  BY BoundsAssumption DEF TypeOK, Listed
<1>1. /\ ~Open /\ opened < MaxPolling /\ opened' = opened + 1
      /\ polling' = [polling EXCEPT ![opened + 1] = first]
      /\ list' = [view |-> "loading", hosts |-> NoHosts]
      /\ server' = server /\ reachable' = reachable
  BY DEF Mount, Render
<1>2. first \in Polling /\ \A i \in Nat : InOrder(i, i, first)
  BY <1>0, FirstFetch
<1>3. \A shown : Newer(first, shown, server.version)
  BY <1>0, FirstFetch
<1> HIDE DEF first
<1>4. list' \in [view : Views, hosts : Listed] /\ list'.hosts.version = 0
  BY <1>1, HostListTypes DEF Views
<1>5. PollsTyped'
  BY <1>0, <1>1, <1>2, <1>4 DEF PollsTyped, TypeOK
<1>6. ASSUME NEW i \in 1..MaxPolling
      PROVE  InOrder(i, opened', polling'[i]) /\ Newer(polling'[i], 0, server.version)
  <2>1. CASE i = opened + 1
    <3>1. polling'[i] = first
      BY <1>1, <2>1 DEF TypeOK
    <3> QED
      BY <1>1, <1>2, <1>3, <2>1, <3>1
  <2>2. CASE i # opened + 1
    <3>1. polling'[i] = polling[i] /\ polling[i] \in Polling
      BY <1>1, <2>2 DEF TypeOK
    <3>2. InOrder(i, opened, polling[i])
      BY DEF PollsSound, PollsInOrder
    <3>3. CASE i > opened
      BY <1>0, <1>1, <2>2, <3>1, <3>2, <3>3, PollingTypes DEF InOrder, Newer
    <3>4. CASE i <= opened
      <4>1. polling[i].stopped
        BY <1>0, <1>1, <3>2, <3>4 DEF InOrder, Open
      <4>2. InOrder(i, opened', polling[i])
        BY <1>0, <1>1, <3>1, <3>2, <3>4, <4>1 DEF InOrder
      <4>3. Newer(polling[i], 0, server.version)
        BY <4>1, VersionsByClosure DEF PollsSound, Newer
      <4> QED
        BY <3>1, <4>2, <4>3
    <3> QED
      BY <1>0, <3>3, <3>4
  <2> QED
    BY <2>1, <2>2
<1>7. VersionsInOrder'
  <2>1. list'.hosts.version <= server'.version
    BY <1>0, <1>1, <1>4
  <2>2. \A i \in 1..MaxPolling : Newer(polling'[i], list'.hosts.version, server'.version)
    BY <1>1, <1>4, <1>6
  <2> QED
    BY <2>1, <2>2 DEF VersionsInOrder, Newer
<1> QED
  BY <1>5, <1>6, <1>7 DEF PollsSound, PollsInOrder

\* One closure changes, and the list perhaps, but no page is opened.
LEMMA OneClosure ==
    ASSUME TypeOK, PollsSound, NEW i \in 1..MaxPolling, NEW CONSTANT p \in Polling,
           polling' = [polling EXCEPT ![i] = p], opened' = opened, server' = server,
           reachable' = reachable, list' \in [view : Views, hosts : Listed],
           InOrder(i, opened, p),
           Newer(p, list'.hosts.version, server.version),
           \/ list'.hosts.version = list.hosts.version
           \/ /\ list'.hosts.version <= server.version
              /\ i = opened
    PROVE  PollsTyped' /\ PollsSound'
<1>0. opened \in Nat /\ opened \in 0..MaxPolling /\ MaxPolling \in Nat
  BY BoundsAssumption DEF TypeOK
<1>1. PollsTyped'
  BY DEF PollsTyped, TypeOK
<1>2. polling'[i] = p /\ \A j \in 1..MaxPolling \ {i} : polling'[j] = polling[j]
  BY DEF TypeOK
<1>3. PollsInOrder'
  BY <1>2 DEF PollsSound, PollsInOrder
<1>4. list'.hosts.version <= server.version
  BY DEF PollsSound, VersionsInOrder
<1>5. \A j \in 1..MaxPolling : Newer(polling'[j], list'.hosts.version, server'.version)
  <2> TAKE j \in 1..MaxPolling
  <2>1. CASE j = i
    BY <1>2, <2>1
  <2>2. CASE j # i
    <3>1. polling'[j] = polling[j] /\ Newer(polling[j], list.hosts.version, server.version)
      BY <1>2, <2>2, VersionsByClosure DEF PollsSound
    <3>2. CASE list'.hosts.version = list.hosts.version
      BY <3>1, <3>2
    <3>3. CASE i = opened
      <4>1. InOrder(j, opened, polling[j]) /\ j # opened
        BY <2>2, <3>3 DEF PollsSound, PollsInOrder
      <4>2. polling[j].stopped
        BY <1>0, <4>1, PollingTypes DEF InOrder
      <4> QED
        BY <3>1, <4>2 DEF Newer
    <3> QED
      BY <3>2, <3>3
  <2> QED
    BY <2>1, <2>2
<1>6. VersionsInOrder'
  BY <1>4, <1>5 DEF VersionsInOrder, Newer
<1> QED
  BY <1>1, <1>3, <1>6 DEF PollsSound

\* The facts about one closure that the actions below start from.
LEMMA ClosureFacts ==
    ASSUME TypeOK, PollsSound, NEW i \in 1..MaxPolling
    PROVE  /\ polling[i] \in Polling /\ InOrder(i, opened, polling[i])
           /\ Newer(polling[i], list.hosts.version, server.version)
           /\ server.version \in Nat /\ list.hosts.version \in Nat /\ opened \in Nat
           /\ ~polling[i].stopped => i = opened
<1>1. polling[i] \in Polling /\ InOrder(i, opened, polling[i])
  BY DEF TypeOK, PollsSound, PollsInOrder
<1>2. Newer(polling[i], list.hosts.version, server.version)
  BY VersionsByClosure DEF PollsSound
<1>3. server.version \in Nat /\ opened \in Nat
  BY BoundsAssumption DEF TypeOK, Listed
<1>4. list.hosts.version \in Nat
  <2>1. list.hosts \in Listed
    BY DEF TypeOK
  <2> QED
    BY <2>1, BoundsAssumption DEF Listed
<1>5. ~polling[i].stopped => i = opened
  BY <1>1, <1>3, PollingTypes DEF InOrder
<1> QED
  BY <1>1, <1>2, <1>3, <1>4, <1>5

LEMMA UnmountEffect ==
    ASSUME TypeOK, PollsSound, Unmount
    PROVE  PollsTyped' /\ PollsSound'
<1>1. /\ Open /\ opened' = opened /\ server' = server /\ reachable' = reachable
      /\ polling' = [polling EXCEPT ![opened] = Stopped(polling[opened])]
      /\ list' = [view |-> "loading", hosts |-> NoHosts]
  BY DEF Unmount, Render, TypeOK, Open
<1>2. opened \in 1..MaxPolling /\ opened \in Nat
  BY <1>1, BoundsAssumption DEF Open, TypeOK
<1>3. list' \in [view : Views, hosts : Listed] /\ list'.hosts.version = 0
  BY <1>1, HostListTypes DEF Views
<1>4. /\ Stopped(polling[opened]) \in Polling
      /\ Newer(Stopped(polling[opened]), list'.hosts.version, server.version)
      /\ Stopped(polling[opened]).stopped /\ ~Stopped(polling[opened]).timer
      /\ PendingFetch \notin Stopped(polling[opened]).fetches
  BY <1>2, ClosureFacts, StoppedEffect
<1>5. InOrder(opened, opened, Stopped(polling[opened]))
  BY <1>2, <1>4, StoppedInOrder
<1>6. 0 <= server.version
  BY <1>2, ClosureFacts
<1> QED
  BY <1>1, <1>2, <1>3, <1>4, <1>5, <1>6, OneClosure

LEMMA FetchEndsEffect ==
    ASSUME TypeOK, PollsSound, NEW i \in 1..MaxPolling, FetchEnds(i)
    PROVE  PollsTyped' /\ PollsSound'
<1> DEFINE answer == IF reachable THEN Answered(server) ELSE FailedFetch
           p == [polling[i] EXCEPT !.fetches = (@ \ {PendingFetch}) \cup {answer}]
<1>1. /\ PendingFetch \in polling[i].fetches /\ polling' = [polling EXCEPT ![i] = p]
      /\ opened' = opened /\ server' = server /\ reachable' = reachable /\ list' = list
  BY DEF FetchEnds, TypeOK
<1>2. /\ polling[i] \in Polling /\ InOrder(i, opened, polling[i])
      /\ server.version \in Nat /\ list.hosts.version \in Nat /\ opened \in Nat
  BY ClosureFacts
<1>3. ~polling[i].stopped /\ polling[i].fetches = {PendingFetch} /\ ~polling[i].timer
  BY <1>1, <1>2 DEF InOrder
<1>4. /\ answer \in Fetch /\ answer.hosts.version <= server.version
      /\ answer # FailedFetch => list.hosts.version <= answer.hosts.version
  BY <1>2, HostListTypes DEF TypeOK, PollsSound, VersionsInOrder
<1>5. p \in Polling /\ p.fetches = {answer} /\ p.stopped = polling[i].stopped
      /\ p.timer = polling[i].timer
  BY <1>2, <1>3, <1>4 DEF Polling
<1>6. i = opened
  BY <1>3, ClosureFacts
<1> HIDE DEF p, answer
<1>7. InOrder(i, opened, p) /\ Newer(p, list.hosts.version, server.version)
  BY <1>2, <1>3, <1>4, <1>5, <1>6 DEF InOrder, Newer
<1> QED
  BY <1>1, <1>5, <1>7, OneClosure DEF TypeOK

LEMMA PollTimerEffect ==
    ASSUME TypeOK, PollsSound, NEW i \in 1..MaxPolling, PollTimer(i)
    PROVE  PollsTyped' /\ PollsSound'
<1> DEFINE p == Reloaded(polling[i])
<1>1. /\ polling[i].timer /\ polling' = [polling EXCEPT ![i] = p]
      /\ opened' = opened /\ server' = server /\ reachable' = reachable /\ list' = list
  BY DEF PollTimer, TypeOK
<1>2. /\ polling[i] \in Polling /\ InOrder(i, opened, polling[i])
      /\ server.version \in Nat /\ list.hosts.version \in Nat /\ opened \in Nat
  BY ClosureFacts
<1>3. ~polling[i].stopped /\ polling[i].fetches = {}
  BY <1>1, <1>2 DEF InOrder
<1>4. i = opened
  BY <1>3, ClosureFacts
<1>5. p \in Polling /\ p.fetches = {PendingFetch} /\ p.stopped = polling[i].stopped /\ ~p.timer
  BY <1>2, <1>3, HostListTypes DEF Reloaded, Polling
<1> HIDE DEF p
<1>6. InOrder(i, opened, p)
  BY <1>2, <1>3, <1>4, <1>5 DEF InOrder
<1>7. Newer(p, list.hosts.version, server.version)
  BY <1>2, <1>5, HostListTypes DEF Newer
<1> QED
  BY <1>1, <1>5, <1>6, <1>7, OneClosure DEF TypeOK

\* An answer is only shown on the open page, whose only fetch it was.
LEMMA LoadHostsEffect ==
    ASSUME TypeOK, PollsSound, NEW i \in 1..MaxPolling, LoadHosts(i)
    PROVE  /\ PollsTyped' /\ PollsSound'
           /\ list'.hosts.version >= list.hosts.version
<1>1. PICK f \in polling[i].fetches \ {PendingFetch} :
          /\ polling' = [polling EXCEPT ![i] = Rescheduled(@, f)]
          /\ IF Continues(polling[i])
             THEN Render(IF f = FailedFetch THEN [list EXCEPT !.view = "error"]
                                         ELSE [view |-> "list", hosts |-> f.hosts])
             ELSE UNCHANGED <<list, card, commands>>
          /\ UNCHANGED <<server, reachable, opened, actions>>
  BY DEF LoadHosts
<1> DEFINE p == Rescheduled(polling[i], f)
<1>2. /\ polling' = [polling EXCEPT ![i] = p]
      /\ opened' = opened /\ server' = server /\ reachable' = reachable
  BY <1>1 DEF TypeOK
<1>3. /\ polling[i] \in Polling /\ InOrder(i, opened, polling[i])
      /\ Newer(polling[i], list.hosts.version, server.version)
      /\ server.version \in Nat /\ list.hosts.version \in Nat /\ opened \in Nat
      /\ ~polling[i].stopped => i = opened
  BY ClosureFacts
<1>4. /\ p \in Polling /\ p.fetches = polling[i].fetches \ {f}
      /\ p.stopped = polling[i].stopped
      /\ p.timer = (polling[i].timer \/ ~polling[i].stopped)
  BY <1>3 DEF Rescheduled, Continues, Polling
<1> HIDE DEF p
<1>t. p \in Polling
  BY <1>4
<1>5. CASE polling[i].stopped
  <2>1. list' = list
    BY <1>1, <1>5 DEF Continues
  <2>2. InOrder(i, opened, p) /\ Newer(p, list.hosts.version, server.version)
    <3>1. polling[i] # NotPolling
      BY <1>1, PollingTypes
    <3> QED
      BY <1>3, <1>4, <1>5, <3>1 DEF InOrder, Newer
  <2>3. list'.hosts.version >= list.hosts.version
    BY <1>3, <2>1
  <2> QED
    BY <1>2, <1>t, <2>3, <2>1, <2>2, OneClosure DEF TypeOK
<1>6. CASE ~polling[i].stopped
  <2>1. i = opened /\ polling[i].fetches = {f} /\ ~polling[i].timer
    BY <1>1, <1>3, <1>6 DEF InOrder
  <2>2. p.fetches = {} /\ p.timer /\ ~p.stopped
    BY <1>4, <1>6, <2>1
  <2>3. InOrder(i, opened, p)
    BY <1>3, <2>1, <2>2 DEF InOrder
  <2>4. \A shown : Newer(p, shown, server.version)
    BY <2>2 DEF Newer
  <2>5. f \in Fetch /\ f # PendingFetch
    BY <1>1, <1>3, PollingFields
  <2>6. list' = IF f = FailedFetch THEN [list EXCEPT !.view = "error"]
                                   ELSE [view |-> "list", hosts |-> f.hosts]
    BY <1>1, <1>6 DEF Continues, Render
  <2>8. CASE f = FailedFetch
    <3>1. list' \in [view : Views, hosts : Listed] /\ list'.hosts = list.hosts
      BY <2>6, <2>8 DEF TypeOK, Views
    <3>2. list'.hosts.version = list.hosts.version
      BY <3>1
    <3>3. list'.hosts.version >= list.hosts.version
      BY <1>3, <3>2
    <3> QED
      BY <1>2, <1>t, <2>3, <2>4, <3>1, <3>2, <3>3, OneClosure
  <2>9. CASE f # FailedFetch
    <3>1. list' = [view |-> "list", hosts |-> f.hosts] /\ f.hosts \in Listed
      BY <2>5, <2>6, <2>9 DEF Fetch
    <3>2. list' \in [view : Views, hosts : Listed] /\ list'.hosts.version = f.hosts.version
      BY <3>1 DEF Views
    <3>3. f.hosts.version <= server.version
      BY <1>3, <2>1 DEF Newer
    <3>4. list.hosts.version <= f.hosts.version
      BY <1>3, <1>6, <2>1, <2>5, <2>9 DEF Newer
    <3>5. list'.hosts.version >= list.hosts.version
      BY <1>3, <3>2, <3>4
    <3> QED
      BY <1>2, <1>t, <2>1, <2>3, <2>4, <3>2, <3>3, <3>5, OneClosure
  <2> QED
    BY <2>8, <2>9
<1> QED
  BY <1>5, <1>6

-----------------------------------------------------------------------------
(* Every step                                                              *)

LEMMA IInvInit ==
    ASSUME Init
    PROVE  IInv
<1>1. TypeOK
  BY HostListTypes, PollingTypes, BoundsAssumption DEF Init, TypeOK, Views
<1>2. PollsInOrder
  BY PollingTypes DEF Init, PollsInOrder, InOrder
<1>3. VersionsInOrder
  BY HostListTypes, PollingTypes DEF Init, VersionsInOrder
<1>4. CommandsInOrder /\ TimerRunsWhileWaiting
  BY DEF Init, CommandsInOrder, TimerRunsWhileWaiting
<1> QED
  BY <1>1, <1>2, <1>3, <1>4 DEF IInv

\* The invariant, as its two halves and the count of presses.
LEMMA Halves ==
    IInv <=> /\ PollsTyped /\ PollsSound
             /\ CardsTyped /\ CardsSound
             /\ actions \in 0..MaxActions
BY DEF IInv, TypeOK, PollsTyped, PollsSound, CardsTyped, CardsSound

LEMMA SamePolls ==
    ASSUME PollsTyped, PollsSound, UNCHANGED <<server, reachable, pollingVars>>
    PROVE  PollsTyped' /\ PollsSound'
BY DEF PollsTyped, PollsSound, PollsInOrder, VersionsInOrder, pollingVars

LEMMA SameCards ==
    ASSUME CardsTyped, CardsSound, UNCHANGED <<card, commands>>
    PROVE  CardsTyped' /\ CardsSound'
BY DEF CardsTyped, CardsSound, CommandsInOrder, TimerRunsWhileWaiting

LEMMA AnswerTracker ==
    ASSUME TypeOK, CardsSound, NEW c \in commands, c.mounted
    PROVE  card[c.host] \in Card /\ Timed(card[c.host])
<1>1. c.host \in Hosts /\ card[c.host] # NoCard
  BY DEF TypeOK, Command, CardsSound, CommandsInOrder
<1> QED
  BY <1>1 DEF TypeOK, CardsSound, TimerRunsWhileWaiting, Timed

LEMMA ReloadEffect ==
    ASSUME TypeOK, PollsSound, Reload
    PROVE  PollsTyped' /\ PollsSound' /\ CardsTyped' /\ CardsSound'
<1>1. /\ polling' = [i \in 1..MaxPolling |-> NotPolling]
      /\ list' = [view |-> "loading", hosts |-> NoHosts]
      /\ card' = [h \in Hosts |-> NoCard] /\ commands' = {}
      /\ server' = server /\ reachable' = reachable /\ opened' = opened
  BY DEF Reload
<1>2. list' \in [view : Views, hosts : Listed] /\ list'.hosts.version = 0
  BY <1>1, HostListTypes DEF Views
<1>3. server.version \in Nat
  BY BoundsAssumption DEF TypeOK, Listed
<1>4. PollsTyped'
  BY <1>1, <1>2, PollingTypes DEF PollsTyped, TypeOK
<1>5. PollsInOrder'
  BY <1>1, PollingTypes DEF PollsInOrder, InOrder
<1>6. VersionsInOrder'
  BY <1>1, <1>2, <1>3, PollingTypes DEF VersionsInOrder
<1>7. CardsTyped' /\ CardsSound'
  BY <1>1 DEF CardsTyped, CardsSound, CommandsInOrder, TimerRunsWhileWaiting
<1> QED
  BY <1>4, <1>5, <1>6, <1>7 DEF PollsSound

LEMMA ServerChangesEffect ==
    ASSUME TypeOK, PollsSound, ServerChanges
    PROVE  PollsTyped' /\ PollsSound'
<1>1. PICK status \in [Hosts -> {"on", "off", "gone"}] :
          server' = [status |-> status, version |-> server.version + 1]
  BY DEF ServerChanges
<1>2. /\ server.version < MaxChanges /\ reachable' = reachable
      /\ polling' = polling /\ opened' = opened /\ list' = list
  BY DEF ServerChanges, pollingVars
<1>3. server.version \in 0..MaxChanges /\ list.hosts.version \in Nat
  <2>1. list.hosts \in Listed
    BY DEF TypeOK
  <2> QED
    BY <2>1, BoundsAssumption DEF TypeOK, Listed
<1>4. server' \in Listed /\ server'.version = server.version + 1
  BY <1>1, <1>2, <1>3, BoundsAssumption DEF Listed
<1>5. ASSUME NEW i \in 1..MaxPolling, NEW f \in polling[i].fetches
      PROVE  f.hosts.version \in Nat
  <2>1. f \in Fetch
    BY PollingFields DEF TypeOK
  <2>2. f.hosts \in Listed
    BY <2>1 DEF Fetch
  <2> QED
    BY <2>2, BoundsAssumption DEF Listed
<1>6. VersionsInOrder'
  BY <1>2, <1>3, <1>4, <1>5 DEF PollsSound, VersionsInOrder
<1> QED
  BY <1>2, <1>4, <1>6 DEF PollsTyped, TypeOK, PollsSound, PollsInOrder

LEMMA IInvNext ==
    ASSUME IInv, [Next]_vars
    PROVE  IInv'
<1>0. /\ TypeOK /\ PollsTyped /\ PollsSound /\ CardsTyped /\ CardsSound
      /\ actions \in 0..MaxActions
  BY Halves DEF IInv
<1> SUFFICES /\ PollsTyped' /\ PollsSound'
             /\ CardsTyped' /\ CardsSound'
             /\ actions' \in 0..MaxActions
  BY Halves DEF IInv, TypeOK, PollsTyped, PollsSound, CardsTyped, CardsSound
<1>1. ASSUME Mount
      PROVE  PollsTyped' /\ PollsSound' /\ CardsTyped' /\ CardsSound' /\ actions' = actions
  BY <1>0, <1>1, MountEffect, RenderEffect DEF Mount
<1>2. ASSUME Unmount
      PROVE  PollsTyped' /\ PollsSound' /\ CardsTyped' /\ CardsSound' /\ actions' = actions
  BY <1>0, <1>2, UnmountEffect, RenderEffect DEF Unmount
<1>3. ASSUME NEW i \in 1..MaxPolling, FetchEnds(i)
      PROVE  PollsTyped' /\ PollsSound' /\ CardsTyped' /\ CardsSound' /\ actions' = actions
  BY <1>0, <1>3, FetchEndsEffect, SameCards DEF FetchEnds
<1>4. ASSUME NEW i \in 1..MaxPolling, LoadHosts(i)
      PROVE  PollsTyped' /\ PollsSound' /\ CardsTyped' /\ CardsSound' /\ actions' = actions
  <2>1. (\E shown : Render(shown)) \/ UNCHANGED <<card, commands>>
    BY <1>4 DEF LoadHosts
  <2>2. CardsTyped' /\ CardsSound'
    BY <1>0, <2>1, RenderEffect, SameCards
  <2>3. actions' = actions
    BY <1>4 DEF LoadHosts
  <2> QED
    BY <1>0, <1>4, <2>2, <2>3, LoadHostsEffect
<1>5. ASSUME NEW i \in 1..MaxPolling, PollTimer(i)
      PROVE  PollsTyped' /\ PollsSound' /\ CardsTyped' /\ CardsSound' /\ actions' = actions
  BY <1>0, <1>5, PollTimerEffect, SameCards DEF PollTimer
<1>6. ASSUME NEW h \in Hosts, HandlePowerToggle(h)
      PROVE  /\ PollsTyped' /\ PollsSound' /\ CardsTyped' /\ CardsSound'
             /\ actions' \in 0..MaxActions
  BY <1>0, <1>6, PressEffect, SamePolls DEF HandlePowerToggle
<1>7. ASSUME NEW h \in Hosts, ActionTimeout(h)
      PROVE  PollsTyped' /\ PollsSound' /\ CardsTyped' /\ CardsSound' /\ actions' = actions
  BY <1>0, <1>7, TimeoutEffect, SamePolls DEF ActionTimeout
<1>8. ASSUME NEW c \in commands, NEW tracker, Answer(c, tracker),
             c.mounted => /\ tracker \in Card /\ Timed(tracker)
                          /\ card[c.host].early => tracker.early
      PROVE  PollsTyped' /\ PollsSound' /\ CardsTyped' /\ CardsSound' /\ actions' = actions
  BY <1>0, <1>8, AnswerEffect, SamePolls DEF Answer
<1>9. ASSUME NEW c \in commands, CommandAccepted(c)
      PROVE  PollsTyped' /\ PollsSound' /\ CardsTyped' /\ CardsSound' /\ actions' = actions
  <2>1. c.mounted => /\ CommandSent(card[c.host]) \in Card /\ Timed(CommandSent(card[c.host]))
                     /\ card[c.host].early => CommandSent(card[c.host]).early
    BY <1>0, AnswerTracker, TrackerTypes, TrackerTimers, TrackerStatus
  <2> QED
    BY <1>8, <1>9, <2>1 DEF CommandAccepted
<1>10. ASSUME NEW c \in commands, CommandFails(c)
       PROVE  PollsTyped' /\ PollsSound' /\ CardsTyped' /\ CardsSound' /\ actions' = actions
  <2>1. c.mounted => /\ Fail(card[c.host]) \in Card /\ Timed(Fail(card[c.host]))
                     /\ card[c.host].early => Fail(card[c.host]).early
    BY <1>0, AnswerTracker, TrackerTypes, TrackerTimers, TrackerStatus
  <2> QED
    BY <1>8, <1>10, <2>1 DEF CommandFails
<1>11. ASSUME Reload
       PROVE  PollsTyped' /\ PollsSound' /\ CardsTyped' /\ CardsSound' /\ actions' = actions
  BY <1>0, <1>11, ReloadEffect DEF Reload
<1>12. ASSUME ServerChanges
       PROVE  PollsTyped' /\ PollsSound' /\ CardsTyped' /\ CardsSound' /\ actions' = actions
  BY <1>0, <1>12, ServerChangesEffect, SameCards DEF ServerChanges
<1>13. ASSUME NetworkChanges
       PROVE  PollsTyped' /\ PollsSound' /\ CardsTyped' /\ CardsSound' /\ actions' = actions
  <2>1. /\ reachable' \in BOOLEAN /\ actions' = actions
        /\ UNCHANGED <<server, polling, opened, list, card, commands>>
    BY <1>13 DEF NetworkChanges, pollingVars
  <2>2. PollsTyped' /\ PollsSound'
    BY <1>0, <2>1 DEF PollsTyped, PollsSound, PollsInOrder, VersionsInOrder
  <2> QED
    BY <1>0, <2>1, <2>2, SameCards
<1>14. CASE UNCHANGED vars
  BY <1>0, <1>14, SamePolls, SameCards DEF vars
<1> QED
  BY <1>0, <1>1, <1>2, <1>3, <1>4, <1>5, <1>6, <1>7, <1>9, <1>10, <1>11, <1>12, <1>13, <1>14 DEF Next

THEOREM Invariance == Spec => []IInv
<1>1. Init => IInv
  BY IInvInit
<1>2. IInv /\ [Next]_vars => IInv'
  BY IInvNext
<1> QED
  BY <1>1, <1>2, PTL DEF Spec

-----------------------------------------------------------------------------
(* The properties                                                          *)

\* The variables keep their types: every card has a tracker in one of its
\* states and every request is about a device the page knows.
THEOREM TypeCorrect == Spec => []TypeOK
<1>1. IInv => TypeOK
  BY DEF IInv
<1> QED
  BY <1>1, Invariance, PTL

\* Polls neither pile up nor die out, however often the page is opened.
THEOREM OnePollAlways == Spec => []OnePollPerPage
<1>1. IInv => OnePollPerPage
  <2> SUFFICES ASSUME IInv, NEW i \in 1..MaxPolling
               PROVE  Active(polling[i]) = IF Open /\ i = opened THEN 1 ELSE 0
    BY DEF OnePollPerPage
  <2>1. InOrder(i, opened, polling[i]) /\ (~polling[i].stopped => i = opened) /\ opened \in Nat
    BY ClosureFacts DEF IInv, PollsSound, PollsInOrder
  <2>2. CASE polling[i].stopped
    <3>1. ~polling[i].timer /\ ~(Open /\ i = opened)
      BY <2>1, <2>2 DEF InOrder, Open
    <3> QED
      BY <2>2, <3>1 DEF Active
  <2>3. CASE ~polling[i].stopped
    <3>1. Open /\ i = opened
      BY <2>1, <2>3 DEF Open
    <3>2. CASE polling[i].timer /\ polling[i].fetches = {}
      <4>1. Cardinality(polling[i].fetches) = 0
        BY <3>2, FS_EmptySet
      <4> QED
        BY <2>3, <3>1, <3>2, <4>1 DEF Active
    <3>3. CASE ~polling[i].timer /\ \E f \in polling[i].fetches : polling[i].fetches = {f}
      <4>1. Cardinality(polling[i].fetches) = 1
        BY <3>3, FS_Singleton
      <4> QED
        BY <2>3, <3>1, <3>3, <4>1 DEF Active
    <3> QED
      BY <2>1, <2>3, <3>2, <3>3 DEF InOrder
  <2> QED
    BY <2>2, <2>3
<1> QED
  BY <1>1, Invariance, PTL

\* The timeout of an action runs exactly while the action waits.
THEOREM TimerAlwaysRunsWhileWaiting == Spec => []TimerRunsWhileWaiting
<1>1. IInv => TimerRunsWhileWaiting
  BY DEF IInv
<1> QED
  BY <1>1, Invariance, PTL

\* Two commands of one card are under way only after a poll confirmed one of
\* its commands before the answer to it had come.
THEOREM OneCommandAlways == Spec => []OneCommandAtATime
<1>1. IInv => OneCommandAtATime
  BY DEF IInv, CommandsInOrder, OneCommandAtATime
<1> QED
  BY <1>1, Invariance, PTL

\* An answer never replaces a newer one on the page.
THEOREM ListAlwaysMovesForward == Spec => ListMovesForward
<1>1. ASSUME IInv, [Next]_vars, ~(UNCHANGED vars), opened' = opened, Open, Open'
      PROVE  list'.hosts.version >= list.hosts.version
  <2>0. opened \in 1..MaxPolling /\ TypeOK /\ PollsSound
    BY <1>1, BoundsAssumption DEF IInv, TypeOK, Open, PollsSound
  <2>1. list.hosts.version \in Nat
    BY <2>0, ClosureFacts
  <2>2. CASE list' = list
    BY <2>1, <2>2
  <2>3. ASSUME Mount
        PROVE  FALSE
    BY <1>1, <2>0, <2>3 DEF Mount
  <2>4. ASSUME Unmount
        PROVE  FALSE
    <3>1. polling'[opened].stopped
      BY <2>0, <2>4 DEF Unmount, TypeOK, Stopped
    <3> QED
      BY <1>1, <3>1 DEF Open
  <2>5. ASSUME Reload
        PROVE  FALSE
    <3>1. polling'[opened].stopped
      BY <2>0, <2>5, PollingTypes DEF Reload
    <3> QED
      BY <1>1, <3>1 DEF Open
  <2>6. ASSUME NEW i \in 1..MaxPolling, LoadHosts(i)
        PROVE  list'.hosts.version >= list.hosts.version
    BY <2>0, <2>6, LoadHostsEffect
  <2>7. ASSUME NEW i \in 1..MaxPolling, FetchEnds(i) \/ PollTimer(i)
        PROVE  list' = list
    BY <2>7 DEF FetchEnds, PollTimer
  <2>8. ASSUME NEW h \in Hosts, HandlePowerToggle(h) \/ ActionTimeout(h)
        PROVE  list' = list
    BY <2>8 DEF HandlePowerToggle, ActionTimeout, pollingVars
  <2>9. ASSUME NEW c \in commands, CommandAccepted(c) \/ CommandFails(c)
        PROVE  list' = list
    BY <2>9 DEF CommandAccepted, CommandFails, Answer, pollingVars
  <2>10. ASSUME ServerChanges \/ NetworkChanges
         PROVE  list' = list
    BY <2>10 DEF ServerChanges, NetworkChanges, pollingVars
  <2> QED
    BY <1>1, <2>2, <2>3, <2>4, <2>5, <2>6, <2>7, <2>8, <2>9, <2>10 DEF Next
<1>2. IInv /\ [Next]_vars =>
          [opened' = opened /\ Open /\ Open' => list'.hosts.version >= list.hosts.version]_vars
  BY <1>1
<1> QED
  BY <1>2, Invariance, PTL DEF Spec, ListMovesForward

=============================================================================
