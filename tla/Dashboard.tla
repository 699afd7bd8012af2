----------------------------- MODULE Dashboard -----------------------------
(***************************************************************************)
(* The devices page (frontend/src/components): the polling of the host     *)
(* list, and the power button of each device with the command it has under *)
(* way.  JavaScript runs one callback at a time, so a step is a callback,  *)
(* with the rendering and the effects React runs after it; what is         *)
(* concurrent is the answers and the timers.                               *)
(***************************************************************************)
EXTENDS Naturals, FiniteSets

CONSTANTS
    Hosts,       \* devices that may be listed
    MaxChanges,  \* bound: changes of what the server answers
    MaxPolling,  \* bound: times the page is opened
    MaxActions   \* bound: presses of a power button

ASSUME BoundsAssumption == MaxPolling \in Nat \ {0} /\ MaxChanges \in Nat /\ MaxActions \in Nat

VARIABLES
    server,    \* the list the server would answer with now
    reachable, \* whether the server answers at all
    polling,   \* the closure of each call of startHostPolling
    opened,    \* calls of startHostPolling so far: the last is the page's
    list,      \* the state of DeviceList, and what it shows
    card,      \* the tracker of each device that has a card
    commands,  \* requests of handlePowerToggle without an answer yet
    actions    \* presses so far

pollingVars == <<polling, opened, list>>
vars == <<server, reachable, pollingVars, card, commands, actions>>

\* Versions are history: they number the lists in the order of time.
Listed == [status : [Hosts -> {"on", "off", "gone"}], version : 0..MaxChanges]
NoHosts == [status |-> [h \in Hosts |-> "gone"], version |-> 0]

Fetch == [is : {"pending", "failed", "answered"}, hosts : Listed]
PendingFetch == [is |-> "pending", hosts |-> NoHosts]
FailedFetch == [is |-> "failed", hosts |-> NoHosts]
Answered(hosts) == [is |-> "answered", hosts |-> hosts]
Polling == [stopped : BOOLEAN, fetches : SUBSET Fetch, timer : BOOLEAN]
NotPolling == [stopped |-> TRUE, fetches |-> {}, timer |-> FALSE]

\* A DeviceActionTracker.  early is history: a poll has once confirmed a
\* command that had not been answered.
Card == [status : {"idle", "sending", "waiting", "timedOut", "error"}, expected : {"on", "off"},
         timer : BOOLEAN, early : BOOLEAN]
NoCard == [status |-> "none"]
NewCard == [status |-> "idle", expected |-> "on", timer |-> FALSE, early |-> FALSE]

\* mounted: the card it was sent from is still there.
Command == [host : Hosts, action : 1..MaxActions, mounted : BOOLEAN]

Views == {"loading", "error", "list"}

TypeOK ==
    /\ server \in Listed
    /\ reachable \in BOOLEAN
    /\ polling \in [1..MaxPolling -> Polling]
    /\ opened \in 0..MaxPolling
    /\ list \in [view : Views, hosts : Listed]
    /\ card \in [Hosts -> Card \cup {NoCard}]
    /\ commands \subseteq Command
    /\ actions \in 0..MaxActions

Init ==
    /\ server = NoHosts
    /\ reachable = TRUE
    /\ polling = [i \in 1..MaxPolling |-> NotPolling]
    /\ opened = 0
    /\ list = [view |-> "loading", hosts |-> NoHosts]
    /\ card = [h \in Hosts |-> NoCard]
    /\ commands = {}
    /\ actions = 0

Open == opened > 0 /\ ~polling[opened].stopped

-----------------------------------------------------------------------------
(* DeviceActionTracker                                                     *)

Pending(c) == c.status \in {"sending", "waiting", "timedOut"}

TimerLeftBug(c, isOn) ==
    IF Pending(c) /\ c.expected = isOn THEN [c EXCEPT !.status = "idle"] ELSE c

\* confirm, by the effect that runs whenever status or list have changed.
Confirm(c, isOn) ==
    IF Pending(c) /\ c.expected = isOn
    THEN [c EXCEPT !.status = "idle", !.timer = FALSE, !.early = @ \/ c.status = "sending"]
    ELSE c

Start(c, expected) == [c EXCEPT !.status = "sending", !.expected = expected, !.timer = FALSE]

NoTimeoutBug(c) == IF c.status # "sending" THEN c ELSE [c EXCEPT !.status = "waiting"]

CommandSent(c) ==
    IF c.status # "sending" THEN c ELSE [c EXCEPT !.status = "waiting", !.timer = TRUE]

Fail(c) == [c EXCEPT !.status = "error", !.timer = FALSE]

TimedOut(c) == [c EXCEPT !.status = IF @ = "waiting" THEN "timedOut" ELSE @, !.timer = FALSE]

-----------------------------------------------------------------------------
(* Rendering                                                               *)

\* DeviceList has a card for every device of the list it shows; a card that
\* goes disposes of its tracker, and one that comes has a new one.
CardOf(h, shown) ==
    IF shown.view # "list" \/ shown.hosts.status[h] = "gone" THEN NoCard
    ELSE IF card[h] = NoCard THEN NewCard
    ELSE Confirm(card[h], shown.hosts.status[h])

Render(shown) ==
    /\ list' = shown
    /\ card' = [h \in Hosts |-> CardOf(h, shown)]
    /\ commands' = {[c EXCEPT !.mounted = @ /\ card'[c.host] # NoCard] : c \in commands}

-----------------------------------------------------------------------------
(* startHostPolling                                                        *)

\* The page is opened: after sign-in, or from the administration page.
Mount ==
    /\ ~Open
    /\ opened < MaxPolling
    /\ opened' = opened + 1
    /\ polling' = [polling EXCEPT ![opened + 1] =
                      [stopped |-> FALSE, fetches |-> {PendingFetch}, timer |-> FALSE]]
    /\ Render([view |-> "loading", hosts |-> NoHosts])
    /\ UNCHANGED <<server, reachable, actions>>

\* The cleanup.  A fetch under way is aborted; one that has its answer, and
\* only waits for its turn, is not.
Aborted(f) == IF f = PendingFetch THEN FailedFetch ELSE f
Stopped(p) == [stopped |-> TRUE, fetches |-> {Aborted(f) : f \in p.fetches}, timer |-> FALSE]

Unmount ==
    /\ Open
    /\ polling' = [polling EXCEPT ![opened] = Stopped(@)]
    /\ Render([view |-> "loading", hosts |-> NoHosts])
    /\ UNCHANGED <<server, reachable, opened, actions>>

\* fetchHosts is answered, or gives up after its time limit.
FetchEnds(i) ==
    /\ PendingFetch \in polling[i].fetches
    /\ polling' = [polling EXCEPT ![i].fetches =
                      (@ \ {PendingFetch}) \cup {IF reachable THEN Answered(server) ELSE FailedFetch}]
    /\ UNCHANGED <<server, reachable, opened, list, card, commands, actions>>

\* publish, and the next poll, only as long as polling was not stopped.
Continues(p) == ~p.stopped

StopsOnErrorBug(p, f) ==
    [p EXCEPT !.fetches = @ \ {f}, !.timer = Continues(p) /\ f # FailedFetch]

KeepsPollingBug(p, f) == [p EXCEPT !.fetches = @ \ {f}, !.timer = TRUE]

\* The end of loadHosts: the next poll is due an interval after this one.
Rescheduled(p, f) ==
    [p EXCEPT !.fetches = @ \ {f}, !.timer = @ \/ Continues(p)]

LoadHosts(i) ==
    \E f \in polling[i].fetches \ {PendingFetch} :
        /\ polling' = [polling EXCEPT ![i] = Rescheduled(@, f)]
        /\ IF Continues(polling[i])
           THEN Render(IF f = FailedFetch THEN [list EXCEPT !.view = "error"]
                                       ELSE [view |-> "list", hosts |-> f.hosts])
           ELSE UNCHANGED <<list, card, commands>>
        /\ UNCHANGED <<server, reachable, opened, actions>>

IntervalBug(p) == [p EXCEPT !.fetches = @ \cup {PendingFetch}]

\* The timer has fired: loadHosts begins.
Reloaded(p) ==
    [p EXCEPT !.timer = FALSE, !.fetches = IF p.stopped THEN @ ELSE @ \cup {PendingFetch}]

PollTimer(i) ==
    /\ polling[i].timer
    /\ polling' = [polling EXCEPT ![i] = Reloaded(@)]
    /\ UNCHANGED <<server, reachable, opened, list, card, commands, actions>>

-----------------------------------------------------------------------------
(* DeviceCard                                                              *)

WaitingOnlyBug(c) == c.status = "waiting"

\* The button is disabled.
IsLoading(c) == c.status \in {"sending", "waiting"}

Opposite(status) == IF status = "on" THEN "off" ELSE "on"

HandlePowerToggle(h) ==
    /\ card[h] # NoCard
    /\ ~IsLoading(card[h])
    /\ actions < MaxActions
    /\ actions' = actions + 1
    /\ card' = [card EXCEPT ![h] = Start(@, Opposite(list.hosts.status[h]))]
    /\ commands' = commands \cup {[host |-> h, action |-> actions + 1, mounted |-> TRUE]}
    /\ UNCHANGED <<server, reachable, pollingVars>>

\* The answer goes to the tracker of the card that sent the command, whatever
\* it is about by now; what happens to that of a card that is gone shows
\* nowhere.  The effect follows.
Answer(c, tracker) ==
    /\ card' = IF c.mounted
               THEN [card EXCEPT ![c.host] = Confirm(tracker, list.hosts.status[c.host])]
               ELSE card
    /\ commands' = commands \ {c}
    /\ UNCHANGED <<server, reachable, pollingVars, actions>>

CommandAccepted(c) == Answer(c, CommandSent(card[c.host]))

\* An error, no connection, or no answer within the time limit.
CommandFails(c) == Answer(c, Fail(card[c.host]))

ActionTimeout(h) ==
    /\ card[h] # NoCard
    /\ card[h].timer
    /\ card' = [card EXCEPT ![h] = TimedOut(@)]
    /\ UNCHANGED <<server, reachable, pollingVars, commands, actions>>

-----------------------------------------------------------------------------
(* Around the page                                                         *)

\* Any request may be answered with 401, and the page is loaded anew.
Reload ==
    /\ \/ \E i \in 1..MaxPolling : PendingFetch \in polling[i].fetches
       \/ commands # {}
    /\ polling' = [i \in 1..MaxPolling |-> NotPolling]
    /\ list' = [view |-> "loading", hosts |-> NoHosts]
    /\ card' = [h \in Hosts |-> NoCard]
    /\ commands' = {}
    /\ UNCHANGED <<server, reachable, opened, actions>>

\* A device goes on or off, is configured or removed, assigned or withdrawn.
ServerChanges ==
    /\ server.version < MaxChanges
    /\ \E status \in [Hosts -> {"on", "off", "gone"}] :
        /\ status # server.status
        /\ server' = [status |-> status, version |-> server.version + 1]
    /\ UNCHANGED <<reachable, pollingVars, card, commands, actions>>

NetworkChanges ==
    /\ reachable' = ~reachable
    /\ UNCHANGED <<server, pollingVars, card, commands, actions>>

Next ==
    \/ Mount
    \/ Unmount
    \/ \E i \in 1..MaxPolling : FetchEnds(i) \/ LoadHosts(i) \/ PollTimer(i)
    \/ \E h \in Hosts : HandlePowerToggle(h) \/ ActionTimeout(h)
    \/ \E c \in commands : CommandAccepted(c) \/ CommandFails(c)
    \/ Reload
    \/ ServerChanges
    \/ NetworkChanges

Spec == Init /\ [][Next]_vars

\* Timers fire, callbacks get their turn, and no request lasts longer than
\* REQUEST_TIMEOUT_MS (api.ts:103).
FairSpec ==
    /\ Spec
    /\ \A i \in 1..MaxPolling : WF_vars(FetchEnds(i) \/ LoadHosts(i) \/ PollTimer(i))
    /\ \A h \in Hosts : WF_vars(ActionTimeout(h))
    /\ \A n \in 1..MaxActions :
        WF_vars(\E c \in commands : c.action = n /\ (CommandAccepted(c) \/ CommandFails(c)))

-----------------------------------------------------------------------------
(* Properties                                                              *)

\* Exactly one poll is due or under way on an open page and none otherwise,
\* however often the page was left and opened while requests were pending
\* (hostPolling.ts:25-59): polls neither pile up nor die out.
Active(p) ==
    IF p.stopped THEN (IF p.timer THEN 1 ELSE 0)
                 ELSE Cardinality(p.fetches) + (IF p.timer THEN 1 ELSE 0)

OnePollPerPage ==
    \A i \in 1..MaxPolling : Active(polling[i]) = IF Open /\ i = opened THEN 1 ELSE 0

\* An answer never replaces a newer one on the page.
ListMovesForward ==
    [][opened' = opened /\ Open /\ Open' => list'.hosts.version >= list.hosts.version]_vars

\* The 30 s run exactly while the card waits for confirmation, although late
\* answers, confirmations and new presses come in any order
\* (deviceActionState.ts:19-53): no timeout of one action ends another.
TimerRunsWhileWaiting ==
    \A h \in Hosts : card[h] # NoCard => (card[h].timer <=> card[h].status = "waiting")

\* One command at a time leaves a card, although its button is not disabled
\* by the request but by a status that polls and answers change, unless a
\* poll has once confirmed a command before the answer to it had come: that
\* answer is then applied to the next action (deviceActionState.ts:24,48),
\* and from there on commands may overlap.
OneCommandAtATime ==
    \A c, d \in commands :
        c # d /\ c.host = d.host /\ c.mounted /\ d.mounted => card[c.host].early

\* A card does not stay disabled for ever (deviceActionState.ts:28-33).
ButtonComesBack ==
    \A h \in Hosts :
        (card[h] # NoCard /\ card[h].status \in {"sending", "waiting"})
            ~> (card[h] = NoCard \/ card[h].status \notin {"sending", "waiting"})

\* When the server is reachable again, and its list no longer changes, a page
\* that stays open comes to show it, whatever failed before.
PageCatchesUp ==
    \A v \in 0..MaxChanges :
        <>[](Open /\ reachable /\ server.version = v) =>
            <>[](list = [view |-> "list", hosts |-> server])

=============================================================================
