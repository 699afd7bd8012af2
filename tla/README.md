# SecureSwitch: TLA+ specifications and proofs

SecureSwitch is a small server (Go, gin, SQLite) with a web dashboard (React) from which the users of
a home network wake and shut down machines.  An administrator lists the machines in `hosts.yaml` and
assigns them to accounts.  This directory holds specifications of its backend and of the page that talks to
it, the TLC configurations that check them, and TLAPS proofs of every invariant and action property that is checked.
Paths
below are relative to the repository.

    tlc -workers 2 -config Sessions.cfg MCAccounts     # a run; the pairs are in PROJECT.json
    tlapm AccountsProofs.tla                           # proofs; the modules named ...Proofs, see section 4

## 1. The system

| component | state | operations | correct when |
|---|---|---|---|
| Account store, `backend/internal/store` | tables `users`, `user_devices` in SQLite | one statement or transaction per function: create, first-run create, update, delete, revoke, lookups | the last administrator cannot be lost; ids and token versions never make an old token valid; rows follow their account |
| Sessions and account handlers, `server/auth_handlers.go`, `admin_handlers.go`, `validation.go`, `auth/auth.go` | per request: what the handler has read; outside: signed tokens | login, first-run setup, logout, create, update and delete accounts, middleware | a token the server accepts stands for its account as it is now; setup happens once |
| Command line, `main.go` `-adduser` | none | creates an account from another process | the same rules hold |
| Login limiter, `auth/limiter.go` | map of failure records, time of next sweep | ask, record failure, record success | bounded guesses, bounded memory, sweeping is invisible |
| Availability monitor, `device/monitor.go`, `probe.go` | status map; the manager's ages and flights; results channel | check hosts at each tick, take a result, stop | one probe per host, pool respected, no stale answer recorded, every host probed, shutdown ends |
| Host list loader, `config/loader.go`, `hosts.go`, `model.go` | cached list, path, stamp, error | load | the file's list is served once it is quiet; failures keep the old list and are reported |
| Device handlers, `server/device_handlers.go` | per request: what it has read | list, wake, shut down | only what an account is assigned, or everything for administrators |
| Bootstrap and secret, `config/bootstrap.go`, `auth/auth.go:39-104` | files under `data/` | create if missing | a secret once used is kept; what exists is not replaced, except what comes while a start makes its own; starting together does no harm |
| Lifecycle, `main.go:100-141` | context, two goroutines and their channels, requests under way | serve, stop | what was begun before the signal is answered, the process is gone in time, status 0 means a clean end |
| Wake-on-LAN, `wol/wol.go` | per call: candidates of two loops | choose a network, send packet | the one network that can be meant, its broadcast address, no needless refusal |
| Remote shutdown, `sshrunner` | per call: deadline, output counter | run a command under a deadline | what is reported is so, in time |
| HTTP plumbing, `server/router.go`, `middleware.go`, `auth/proxies.go` | none | headers, limits, addresses | |
| Dashboard, `frontend/src/components` | closures of the polls, view, tracker of each card | poll, press, confirm, time out | polls neither pile up nor die out, late answers do not overwrite newer ones, no button stays disabled |
| Administration, `AdminPanel.tsx` | a form filled from the last load | submit | |

How they interact:

- Every HTTP request runs in a goroutine of its own.  Handlers share the database (`Store`), the limiter
  and the loader (a mutex each), and the monitor's status map (a mutex).
- The middleware (`auth.go:187-232`) verifies the signature of a token, reads the account, compares the
  version in the claims with the column, and attaches id, role and version to the request.  The handler
  acts on these later.
- The monitor's manager goroutine calls the loader at every tick, and starts probes in goroutines that
  answer through a channel.  Main waits for the manager at shutdown, and through `http.Server.Shutdown` for
  the handlers, one of which may be waiting for a device it is shutting down over SSH.
- The dashboard polls the host list and sends commands; it compares what it asked for with what the monitor
  reports in later polls.
- Outside the process: whoever edits `hosts.yaml`, `secure-switch -adduser` on the same database file,
  the clock, signals.

What is hard, and listed line by line as hazards in PROJECT.json: a login reads the row, then spends
about a second in bcrypt, and signs a token for what it read; two administrators demote or delete each
other; a delayed logout; setups that race; deleted accounts whose device rows stay; answers of probes
for hosts that have moved or gone; a manager that waits for goroutines that wait for it; a file that
changes between `stat` and `read`; records that expire while nobody looks; a deadline kept by two timers; a
signal while a device is being shut down; answers and timers that reach a page which has moved on.

## 2. The modules

| module | models | kind |
|---|---|---|
| `Store` | `store/*.go` | operators, one per SQL statement or transaction |
| `Sessions` | what accounts and sessions promise | abstract state machine |
| `Accounts` EXTENDS `Store` | handlers, middleware, tokens, command line | state machine, implements `Sessions` |
| `DeviceAccess` EXTENDS `Store` | `server/device_handlers.go` | state machine |
| `AccountsProofs` EXTENDS `Accounts` | | lemmas on the statements of `Store`, theorems |
| `DeviceAccessProofs` EXTENDS `DeviceAccess` | | theorems |
| `LoginLimit` | what the limiter promises | abstract state machine |
| `LoginLimiter` EXTENDS `LoginLimit` | `auth/limiter.go` and its use by `HandleLogin` | state machine, implements `LoginLimit` |
| `LoginLimiterProofs` EXTENDS `LoginLimiter` | | theorems |
| `PingManager` | `device/monitor.go`, `probe.go` | state machine with fairness |
| `PingManagerProofs` EXTENDS `PingManager` | | theorems |
| `HostsLoader` | `config/loader.go` | state machine |
| `Bootstrap` | `config/bootstrap.go`, the generated secret of `auth/auth.go` | state machine with fairness |
| `ConfigProofs` EXTENDS `Bootstrap`, `HostsLoader` | | theorems of both |
| `WolNetwork` | `wol/wol.go` | state machine, and the choice as a function of sets |
| `WolNetworkProofs` EXTENDS `WolNetwork` | | theorems |
| `RemoteShutdown` | `sshrunner/ssh.go` | variables and steps of calls, composed in `Lifecycle` |
| `Lifecycle` EXTENDS `RemoteShutdown` | `main.go:100-141` and what it uses of `net/http` | state machine with fairness |
| `LifecycleProofs` EXTENDS `Lifecycle` | | theorems |
| `Dashboard` | `hostPolling.ts`, `deviceActionState.ts`, `DeviceCard.tsx`, `DeviceList.tsx` | state machine with fairness |
| `DashboardProofs` EXTENDS `Dashboard` | | theorems |
| `MC...` | | instances for TLC |

A module uses the names of the source for variables and actions.  Operators whose names end in `Bug` are
plausible mistakes next to the definition they would replace; no specification uses them.  PROJECT.json
(`mutants`) pairs each with the property that detects it, and `map` gives the lines each definition
stands for.

### Store and Accounts

`users`, `userDevices` and `lastUserId` are the tables and SQLite's `AUTOINCREMENT` counter.  A function
of `store` is one operator: its `WHERE` clause and constraints are conjuncts, its writes the primed
variables.  SQLite serialises writers, and the functions that issue several statements do so in a
transaction, so each is one step.

`req[r]` is what a request has read and where its handler is.  A step is the stretch between two accesses
to shared state:

    HandleLogin        LoginLookup -> IssueToken                                   (account found)
                       LoginLookup -> LoginNoAccount -> SetupCreate -> SetupFetch -> IssueToken
    create, update     Authenticate -> Validate -> HandleCreateUser / HandleUpdateUser
    delete, logout     Authenticate -> HandleDeleteUser / HandleLogout
    any                ... -> Reject

`Reject` is every way to end without a change: a check that fails, no row matched, a unique index, an
error of SQLite.  It may always happen, since an error may.  `CliAddUser` is the other process,
`HostsChange` the editor of `hosts.yaml`, `TokenExpires` the clock, `Restart` a stop or crash and a new
start: requests are lost, the database and the tokens (their secret is kept in a file) are not.

`tokens` are the signed tokens that have not expired, wherever they are stored: a client may present any
of them at any time.  A token has two claims that matter, id and version.  The further fields (address,
role, password proven) are history that the properties compare with the account; no action reads them.

`Sessions` is what all this amounts to for whoever uses it: accounts, who is signed in to them, and operations that
happen at once.  It has no ids, versions, tokens or requests.  A sign-in there is for an account that has the
given password at that very moment; a new password or role ends all sessions of the account; nobody is signed in to
a new account, whoever had its address before; setup is possible without an administrator only.  The refinement
mapping takes the rows without id and version for the accounts, the tokens the middleware would accept for the sessions
(with the password and the role of their sign-in), and the request that made the first administrator for what setup
still owes (one sign-in to its address, without a password).  So a login takes effect when its token is signed, or
not at all, if the row it had read is no longer the row.  `Sessions` does not say who may ask for what: the role of a
request is that of its beginning.

Abstractions:

- A hash is the password it was made from; comparing is equality.  Tokens cannot be forged.
- Rows of `user_devices` lose their own id, and equal rows are one: nothing in the code tells them apart.
- That `AUTOINCREMENT` does not reuse ids is a fact about SQLite (gorm declares the key so); it is external.
- The body of a request is well formed and its address is one `ValidateEmail` accepts.
- The rate limiter is a module of its own and refuses nobody here: it can only make logins fail, which
  `Reject` does too.

### DeviceAccess

A request to list devices, to wake or to shut one down only reads, but it reads in many steps, and each
may see another state of the database:

    list       Begin -> LoadList -> (per host: AdminPasses | FindAccount -> ReadDevices | NoAccount)* -> Finish
    wake, shut down    Begin -> AdminPasses | FindAccount -> ReadDevices | NoAccount -> FindHost -> Finish

`Begin` is the middleware, whose role stays attached to the request.  `FindAccount` and `ReadDevices` are
the two queries that gorm's `Preload` makes of `GetUserByID`; `QueryFails` is an error of either.  One
request is followed; what others do reaches it through the tables only, so they are represented by the
statements of `Store` they end in (`AccountsChange`), whoever issued them, which is more than `Accounts`
allows.  `ever` and `kept` are history: the devices the account was entitled to at some moment, and was
assigned at every moment, of the request.

The hosts of a list are checked in any order, which covers that of the file.  The online status copied
into the list is the status map of `PingManager` and decides nothing.  `Wake` and `Shutdown` are I/O.

### LoginLimit and LoginLimiter

`LoginLimit` keeps a record from a failure to the moment it expires.  `LoginLimiter` is the code: records
stay until `RetryAfter` meets them or a sweep is due, a failure for a new key makes room by a sweep and
then by evicting the records that expire first (any of them when they tie: Go's map order is random), and
the two keys of a failure are recorded one after the other.  `Ask`, `Fail`, `Succeed` and `Abandon` are
the uses by `HandleLogin`; between `Ask` and the next the password is compared, and others may run.  The
refinement mapping is `attempts <- Sweep(attempts, clock)`.  `recent` is history: for every age up to a backoff,
the wrong passwords of a key within the last so many ticks, since its record was last reset or evicted.

The time is read just before the mutex is taken; the model reads it with the mutex held.  The counters of
`Metrics` are left out.

### PingManager

The loop of `StartPingManager` is `FirstCheck`, `Tick`, `TakeResult`, `Stop` and `Stopped`.  A check
(`checkHosts`) is one step: it takes its list from one call of the loader, nothing else writes the
manager's maps, and the only thing it shares, the status map, it writes once.  `running` counts the probe
goroutines; `ProbeEnds` is an answer, a timeout or a cancellation, which is not told from an offline host
by the code either.  `config` is what the loader returns at present and may become any list, or an error,
at any time.  Time is counted in periods of the ticker.  `status` keeps the address that was probed, and
`loaded` the list of the last check, as history.

### HostsLoader

A call of `LoadHostsWithStatus` holds the mutex from beginning to end, so one `call` is enough; but it
makes system calls (`Stat`, `Stat` of the fallback, `ReadFile`), and between these the files change:
`Write`, `Chmod`, `Replace`.  A file's content is what `ParseHosts` makes of it, a list or `Invalid`; a
file half written is such a content.  Its stamp stands for modification time and size.  A `Write` may keep the
stamp: an edit of the same size within the resolution of the file system's clock, or one whose time was set
back.  `ambiguous` is history: the present stamp may have stood for another content before.  The working
directory does not change, so `os.Getwd` and the absolute path are left out.  Its names begin with `Loader` where `Bootstrap` has the same,
so that one module can prove about both; the two share no variable.

### Bootstrap

Every start of the program, of the server and of `-adduser` alike, first makes `hosts.yaml` and the signing
secret if they are missing.  A step is a system call of one process on one of the files:

    OpenHosts -> WriteHosts -> CloseHosts -> ReadSecret -> CreateSecret -> WriteSecret -> CloseSecret
                                                                       -> ReadAgain      (another was first)

`HostsFail` and `SecretFails` are a write or a close that fails, after which the file is removed in a
further step and may be read until then; `Kill` is the end of a process anywhere, and stands for failing
opens and reads as well.  A file is absent, `Useless` (empty, too short or mixed up, and so not accepted), or
complete; of a secret, a prefix that is long enough passes the checks too.  `ioError` and `killed` are history.

`EditHosts` is an administrator's edit of the host list, at any time, also between the creation of `hosts.yaml`
by a process and its end of making it.  `edited` has the processes to which this has happened.  The edit may be
in place, and then the write of the process, at offset 0 and without truncation, spoils it; or it may be a new
file under the same name, and then the write goes to the file that is no longer there.  A removal after a failed
write or close goes by the name and takes either (`bootstrap.go:20`, `bootstrap.go:24`).

That `Accounts` keeps its tokens across `Restart` rests on `SecretIsForEver`.

The case modelled is that of `docker-compose.yml`: `INITIALIZE_DATA=true` and no secret in the environment.
Data that was written but not yet on the disk when the power fails is not considered lost.

### WolNetwork

One call of `SendWol`, alone with what the system tells it: nothing is shared, so what is hard is not
interleaving but the two loops.  A table has a row per address in the order of the system, so the tables and
settings of `Init` are the inputs.  `Collect` is one turn of the loops over interfaces and addresses,
`Narrow` one of that over the candidates, with the longest prefix so far.  Addresses are numbers of
`AddressBits` bits; masks, containment and broadcast are arithmetic on them, as the code's byte operations
compute them.  The power of two in this is the constant `BlockSize`, how many addresses share their first `p`
bits, of which `BlockAssumption` says only that it doubles with every bit that is left: this determines it, and
is what the provers can reason about.  `Selectable` says in four lines of sets what the loops are for, from README.md:172-177, and the
properties compare the two.  The bytes of the packet, and IPv6, which the code skips, are left out.

### RemoteShutdown and Lifecycle

`RemoteShutdown` has the steps of a call of `remoteShutdown`:

    Begin -> Prepare -> Dialled -> SetDeadline -> Opened -> (CommandStarts, Write*, CommandEnds) -> RunReturns -> Report
                     (ConnectFails, while dialling and while opening)

There are two timers, and neither is the deadline of the call.  That of the context (`Expire`) is only waited for
by the dial.  The connection has none until `SetDeadline` gives it one (`limit`); from then on reads and writes
end at it, and with them handshake, session and command, whatever the context does.  `MayWait` says what each
stage may wait for: a dial until its context is done, the rest until `limit`, and *for ever* if none was set.
That the call as a whole has returned `SshTimeout` after it began to dial (`ReturnsByItsDeadline`) follows only
because `SetDeadline` comes before the handshake and is given the deadline of the context, and not a time of its
own: a deadline counted from the end of the dial breaks it, and so does none at all.  The timers are due at the
same time and fire in either order, and a connection may be lost at any time, also after the command has ended.
`Verdict` is the order in which the code asks for the reasons.  The module has no specification of its own;
`Lifecycle` composes it with the process that serves the request, which is where the deadline matters.

`Lifecycle` is main from `NotifyContext` to the exit: the select (`SelectError`, `SelectSignal`), `Shutdown`
(`Drained`, `DrainTimesOut`), `Close`, and the wait for the monitor and the server's goroutine (`Exit`).
`ServeReturns` is `ListenAndServe` and its channel, `MonitorStops` what `PingManager` is shown to do after a
signal (`ShutdownCompletes`).  `Accept`, `Drop`, `Handle`, `Answer` are external: `net/http` as main.go relies
on it, where a new connection counts as open until it is closed and `Close` cuts what is open.

Time is counted in ticks, and what the program itself does takes none: `Tick` needs everything that can run
to have run, and every timer that is due to have fired (`AtRest`, `CallAtRest`).  Without this no deadline
could be stated; with it, a deadline that holds does so up to the time the steps take.  Devices and clients take any time, and probes end at once when cancelled.

### Dashboard

JavaScript runs one callback at a time, so a step is a callback with the rendering and the effects that
follow.  `polling` has one record for each time the page was opened, since the closures of a page that was left
live on until their requests are answered: `FetchEnds` settles a request, `LoadHosts` is the callback after it,
`PollTimer` the timer.  `card` has the tracker of each card; `Start`, `CommandSent`, `Fail`, `TimedOut` and
`Confirm` are its methods, and `Render` the effect that calls `confirm`, with cards that come and go.  An answer
goes to the tracker of the card that sent the command, if it is still there, whatever that is about by now.

`server` and `reachable` are the environment: the list changes at any time, a request fails whenever the server
cannot be reached, and `Reload` is a 401.  The versions of lists, and the flag `early` of a card, are
history.

## 3. The runs

Times are for two workers.  Symmetry is used only where no liveness property is checked and only over
sets whose members are interchangeable.

| run | instance | distinct states | shows |
|---|---|---|---|
| `sessions` | 2 addresses, 2 passwords, 2 requests, 2 ids, versions 0..2, 1 token | 1.6 M, 2 min | a usable token has role, address and password of its account; a revoked token stays revoked; a late logout spares other versions; the last administrator is never lost; one setup; implements `Sessions` |
| `assignments` | 2 addresses, 1 device, 1 request, 3 ids | 0.15 M | types; a new account has no rows but its own, although deletion leaves rows |
| `devices` | 2 accounts, 2 devices, 1 request | 0.15 M, 25 s | nothing is used without a permission during the request; a list omits nothing assigned throughout |
| `monitor` | 3 hosts, 2 addresses, pool of 2, 2 lists of 2, fairness | 0.34 M, 2 min | one probe per host, pool bounded, no stale status; shutdown ends; every status becomes current |
| `loader` | 2 paths, 2 lists, 3 stamps per file | 1.3 M, 75 s | the quiet file is served, health is right, failures keep the list |
| `limiter` | 1+2 keys in a map of 2, 2 logins, clock to 6 | 0.13 M, 30 s | implements `LoginLimit`; map bounded; the exact bound on wrong passwords |
| `bootstrap` | 2 processes, 2 secrets, fairness | 20 k | one secret for ever, unless a write or close fails; a host list is lost only to a process that was already making one when it came; starts succeed |
| `wol` | 4-bit addresses, tables of up to 3 rows on 2 interfaces, 17 settings | 0.22 M, 5 s | the loops choose what the rule chooses and refuse only when it does; the broadcast address |
| `lifecycle` | 1 remote shutdown, 1 other request, both timeouts 2, clock to 5, 2 signals, fairness | 0.2 M, 20 s | reports are true and in time; what began before the signal is answered; the process ends, in time, and cleanly when it says so |
| `dashboard` | 1 device, 3 openings, 3 presses, 2 changes of the list, fairness | 0.16 M, 50 s | one poll per page, one timer per waiting card, one command at a time, no stale list, no disabled button, the page catches up |
| `orphans`, `starvation` | | violations | see section 6 |

Why the bounds are enough:

- *Two requests* make every race of the code: each handler acts once on what it read, so a third
  request adds no new pair of read and write.  One suffices for `assignments`, whose races are with the
  command line (another process, always enabled) and the host list.
- *Two ids* let an account be deleted and its address or role be taken by a new one, and let two
  administrators demote or delete each other.  `assignments` has a third, so that the rows of a deleted account
  can meet those of two later ones.  *Versions 0..2* allow two changes of one account, the least that shows a
  version coming back.
- *One token* for the properties about sessions: each speaks about one token and the tables, so any
  violation has a behaviour in which the others were never issued.  That `Sessions` is implemented with any number
  of tokens is the matter of the proof.
- The updates of `sessions` change the password or the role, not both at once; that they may change both is
  covered by the proof.
- *Two devices* in `devices` let a list grant one and lose the other; the second account is the one whose
  rows could be taken for the first's, and an account can be deleted and its address taken again.
- *Three hosts and two places*: flights of the list of before occupy places that the hosts of the new one
  wait for.  No list is longer than the pool has places, or `StatusCatchesUp` would not hold (`starvation`).
  Intervals are one tick and the default, so that hosts fall due together and apart.
- *Two processes* start again and again, so that any sequence of authors and readers of a file occurs.  *Two
  secrets* are enough to tell that the first has been replaced.  Edits are not bounded: they may come again and
  again, before, in and after every making of the file.
- *Window 3, backoff 2* (10 and 5 minutes in the code, so the same order) let a block outlive its window
  or end within it; the clock runs past one window and into the next.  A map of two for three keys makes
  every failure of the second account evict a key, possibly the one it has just added.
- *Three stamps* per file are two new ones of each while the loader is at work, and any number of writes
  that keep the stamp.
- *Four bits* of address hold networks that contain, equal, exclude and border each other, with prefixes
  on either side of the limit of two addresses.  *Three rows* are a duplicate and a competitor, or a tie, a
  longer and a shorter prefix, in every order; larger tables are the matter of the proof.
- *One remote shutdown*: calls share nothing, and each property is about one.  The other request stands for
  those that keep `Shutdown` waiting for any time.  *Equal timeouts* of two ticks are the code's (5 s and 5 s,
  `ssh.go:18`, `main.go:130`): the tick between a signal and a deadline is what can go wrong.  The first signal
  comes by tick 2, so that with a clock to 5 every `Shutdown` meets its limit; the *second signal* kills.
- *Three openings* put two left pages, one with a request and one with an answer, behind an open one.
  *Three presses* let an answer reach the action after the next.  *One device*: cards share nothing, and
  going and coming back of a device is a change of the list, of which two make a status that returns.

`CHECK_DEADLOCK FALSE` is set where the system stops: `wol` (the call has returned), `lifecycle` (the process has
ended) and `limiter` (the clock is bounded).  Bounds on ids, versions, tokens, stamps, ages, presses and clocks
are guards named `Max...` in the modules.  `TypeOK` is a property of one run, and elsewhere a part of what is
proved.

Fairness (`FairSpec` of `PingManager`), and why the code has it: the Go scheduler runs a goroutine that
can run (weak fairness of `FirstCheck`, `Stopped`, `ProbeEnds`); `select` chooses among its ready cases at
random, so a case that is ready again and again is taken with probability one (strong fairness of `Tick`
and `TakeResult`; `Stop` once ready stays ready); a probe has a timeout (`ProbeEnds`); the ticker ticks
(`TimePasses`).  Nothing is assumed of the configuration or of signals.  In `Bootstrap` a process comes to its
next system call, and one that has ended is started again (`restart: unless-stopped` in
`docker-compose.yml`).  Kills and errors are never assumed, nor assumed away, except where a property says so.
In `Lifecycle` goroutines run, the clock runs and an ended call is answered; the server comes to listen or
returns after `Shutdown`, but need not fail; clients, devices and signals
are free (`Fairness` has no `Accept`, `Drop` or `Handle`, and of other requests no `Answer`: `Shutdown` ends by its
limit).  In `Dashboard` timers fire, callbacks get their turn, and a request ends by `REQUEST_TIMEOUT_MS`
(`api.ts:103`) at the latest; that the server is reachable, that users act or stay, is not assumed:
`PageCatchesUp` states it as its condition.

## 4. The proofs

`AccountsProofs` proves for every set of addresses, passwords, devices and requests, and for every value
of the bounds:

| theorem | property |
|---|---|
| `TypeCorrect` | `Spec => []TypeOK` |
| `SetupIsUnique` | `Spec => []AtMostOneSetup` |
| `SessionsAreCurrent` | `Spec => []SessionsReflectAccount` |
| `AdministratorsPersist` | `Spec => AdminPersists` |
| `RevocationIsFinal` | `Spec => RevokedStaysRevoked` |
| `LogoutIsPrecise` | `Spec => LogoutRevokesOnlyItsVersion` |
| `NewAccountsAreEmpty` | `Spec => NewAccountInheritsNothing` |
| `Implementation` | `Spec => ImplementsSessions`, the refinement |

`DeviceAccessProofs` proves for every set of addresses, devices and host lists:

| theorem | property |
|---|---|
| `TypeCorrect` | `Spec => []TypeOK` |
| `AccessIsPermitted` | `Spec => []OnlyPermittedDevices` |
| `ListIsComplete` | `Spec => []ListLeavesNothingOut` |

`LoginLimiterProofs` proves for every set of addresses, accounts and parallel logins, every size of the map and
every limit, window and block, from `LimitAssumption`, `NoneAssumption` and `LimiterAssumption` (the logins are
finitely many):

| theorem | property |
|---|---|
| `TypeCorrect` | `Spec => []TypeOK` |
| `TrackedKeysAlwaysBounded` | `Spec => []TrackedKeysBounded` |
| `FailuresAlwaysBounded` | `Spec => []FailuresBounded` |
| `Implementation` | `Spec => ImplementsLoginLimit`, the refinement |

`ConfigProofs` proves about `Bootstrap`, for any number of processes and secrets, from the assumption that the kinds
of content differ (`ContentAssumption`):

| theorem | property |
|---|---|
| `TypeCorrect` | `Spec => []TypeOK` |
| `SecretIsKept` | `Spec => []SecretIsForEver` |
| `HostsAreKept` | `Spec => HostsNeverReplaced` |

and about `HostsLoader`, for all lists and any number of edits:

| theorem | property |
|---|---|
| `LoaderTypeCorrect` | `LoaderSpec => []LoaderTypeOK` |
| `QuietFileTheorem` | `LoaderSpec => []QuietFileIsServed` |
| `HealthTheorem` | `LoaderSpec => []HealthTellsTheTruth` |
| `FailureTheorem` | `LoaderSpec => FailureKeepsTheList` |

from `LoaderAssumption`.

`PingManagerProofs` proves for every set of hosts, every set of lists and every size of the pool:

| theorem | property |
|---|---|
| `TypeCorrect` | `Spec => []TypeOK` |
| `OneProbeTheorem` | `Spec => []OneProbePerHost` |
| `PoolTheorem` | `Spec => []ProbesBounded` |
| `StatusTheorem` | `Spec => []StatusOnlyOfHosts` |
| `AnswersTheorem` | `Spec => AnswersAreForCurrentAddress` |

from `HostListsAssumption` (ids are unique in a list, which `ParseHosts` enforces), `ValuesAssumption` and
`MonitorConstantsAssumption`.

`WolNetworkProofs` proves for tables of any length, any setting and any width of addresses, from
`InputsAssumption` and `BlockAssumption`:

| theorem | property |
|---|---|
| `TypeCorrect` | `Spec => []TypeOK` |
| `NetworkTheorem` | `Spec => []OnlyTheNetworkMeant` |
| `RefusalTheorem` | `Spec => []RefusedForAReason` |
| `BroadcastTheorem` | `Spec => []BroadcastReaches` |

`LifecycleProofs` proves for any number of requests, and any timeouts of which that of SSH is not the longer
(`LifecycleAssumption`, which is what the code relies on; `SshAssumption`):

| theorem | property |
|---|---|
| `TypeCorrect` | `Spec => []TypeOK` |
| `EarlyRequestsAreAnswered` | `Spec => []OnlyLateRequestsAreCut` |
| `StopsInTimeTheorem` | `Spec => []StopsInTime` |
| `CleanExitTheorem` | `Spec => []CleanExit` |
| `ReportTheorem` | `Spec => []ReportIsTrue` |
| `CounterTheorem` | `Spec => []OutputCounted` |
| `DeadlineTheorem` | `Spec => []ReturnsByItsDeadline` |

`DashboardProofs` proves for any devices and any number of openings, presses and changes of the list, from
`BoundsAssumption`:

| theorem | property |
|---|---|
| `TypeCorrect` | `Spec => []TypeOK` |
| `OnePollAlways` | `Spec => []OnePollPerPage` |
| `TimerAlwaysRunsWhileWaiting` | `Spec => []TimerRunsWhileWaiting` |
| `OneCommandAlways` | `Spec => []OneCommandAtATime` |
| `ListAlwaysMovesForward` | `Spec => ListMovesForward` |

Assumptions of `Accounts` and `DeviceAccess`: `Omitted` is no password, role or device
(`OmittedAssumption`), the bounds are naturals (`BoundsAssumption`), `LongPasswords` are passwords,
`Operations` are operations.  Nothing else.

The arguments.  For `Accounts`, none of the properties is inductive: that a token reflects its account says nothing of the
row a login has in its hands, and that says nothing of rows which are gone.  The inductive invariant `IInv`
adds:

- `UniqueAccounts`: no two rows share an id or an address;
- `IdsAllocated`: every id in use anywhere (rows, device rows, requests, tokens) is at most `lastUserId`;
- `SnapshotsBehind`, `TokensBehind`: whatever a login or a token knows of an account is *behind* the
  table: if the account still exists, its version is at least the one known, and if it is the same, then
  so are address, password and role;
- `SetupHistory`: once setup has made an account there is an administrator.

The central lemma, `StoreStep` of `AccountsProofs`, says that every statement of `Store` moves rows forward
(`RowsMoveForward`): a row that survives keeps its id and address, its version does not fall, and while
it is the same so are password and role; a row that is new has an id that was never used.  So a pair of id
and version either is the present one of its account or never will be again, from which
`SessionsAreCurrent` and `RevocationIsFinal` follow, and with the ids, `NewAccountsAreEmpty`.

The refinement of `Sessions` rests on the same invariant and on `OneBySetup`, that at most one request is the one
which did the setup.  An `IssueToken` is a `SignIn` if some row accepts the token, since then the row in the hands of
the login is that row, and a stutter otherwise (`IssueIsPromised`).  A row that is replaced or goes takes exactly its
sessions with it (`RowChangeEnds`), an inserted one has none (`InsertOpens`); addresses tell accounts apart as ids tell
rows (`AccountsAreRows`).  Whatever a request does before its last step is a stutter (`ReadsEffect`).

For the device handlers the difficulty is that a permission read late may concern rows of an account that
is gone.  The lemma `RowsNeedAccount` shows that a statement leaves rows only to an account that exists
after it, or rows the account already had; so while a request is between its two queries, whatever it can
find was recorded as permitted (`EverCovers`).  `ActsOnOneDevice` ties the answer of the authorisation to
the device that is acted on, and `KeptIsCurrent` says that what was assigned all along is granted, still to
be checked, or lost to a failed query.  `IInv` of the module is their conjunction with `TypeOK`.

For the secret the invariant adds to the property that a process which is writing has an empty file before
it and is alone (`OneAuthor`), and that what is closed is stored (`StoredFirst`); an empty or missing file
then has never been used, so making another does no harm.  For the host list `MakersFile` is enough: a process
that makes one, or removes what it has made, has an administrator's before it only if that came meanwhile, since it
began by creating the file.

For the limiter there are three arguments.  *The map*: a call for a new key first makes room for it, by a sweep and
then by evicting exactly as many records as there are too many (`EvictEffect`, `MakeRoomEffect`), so the map is within
its limit after each of the two keys of a failure.  *The implementation*: to record a failure and sweep then is the
same as to sweep and record it then (`FailureThenSweep`), whichever sweeps and evictions the code makes in between; a
call either leaves the swept map as it is or does to it what `LoginLimit` does (`StepRefines`).  It needs that
no record begins in the future or blocks for longer than a backoff (`Timely`), so that one that was just struck does
not expire at once.  *The bound on wrong passwords* is not inductive: how many there were says nothing of how many may
still come.  `HistoryInv` ties the history of a key to its record for every age up to a backoff: with no record there
were at most `MaxFailures - 2`; a record that does not block adds its own failures to these (`Counting`); one that
blocks had none since (`Blocking`), and what there were, with the logins let in before and still comparing, do
not exceed the bound.  That the sum is over logins *in flight* is why the bound counts the slots.

For the monitor the properties speak of goroutines and of the status map, but the code only looks at the flights
in its own map.  `Matched` ties them: a flight stands for exactly one running probe or one queued result, at its
address, and where there is no flight there is neither; `Aimed` says that a flight still valid goes to the
address in the list.  For the pool it remains to count: a check starts at most as many probes as
there is room for, since the hosts it starts can be numbered by how many are due before them (`FewStarted`), so
the flights are never more than the pool has places (`PoolKept`); and probes and queued results map one to one
into flights (`UsersFly`).

For the loader, `CacheReflects` says what the cache is about: if the file still has the stamp in the cache, and that
stamp was given once, the cache has its content and knows whether it is valid.  `CallReflects` says it of the data a
call has read, under the stamp it took *before* reading, which is why the order of `stat` and `read` matters, and
`QuietCallReflects` that an undisturbed call holds what is in the file now.

For the two loops of `selectWolNetwork` the invariant is that of a loop: what has been collected is, without
duplicates, what the reference makes of the rows passed so far (`Collecting`), and what is kept while
narrowing is exactly the candidates passed that match with the longest prefix among them (`Narrowing`).  The broadcast address needs that the blocks of every prefix divide the
addresses without a rest (`BlocksDivide`), which is proved by induction on the prefix.  The library's induction
theorem takes a predicate as a parameter, which the provers cannot instantiate; `SetInduction` states induction for
the *set* of the numbers of which a fact holds, and is proved from the least element of its complement.

For the lifecycle: `CallInv` says that a call on a connection has a deadline set and that it is that of its
context.  So time stops for a call that has not returned at the same moment, whichever timer it waits for: while it
dials by the context's (`TickKeeps`, the case of the dial), later by the connection's.  What is under way in the
server is therefore within its deadline as well (`ConnInv`), and no time passes between signal and `Shutdown`
(`StopInv`).  A call begun before
`Shutdown` thus ends before it gives up.  `ExitInv` says that whatever is given up makes the status 1.

For the page, `PollsInOrder` says that the closures of earlier pages are stopped and that the one of the open page has
either one fetch or one timer; a fetch under way brings a list no older than the one shown, because no other runs
beside it (`VersionsInOrder`).  `CommandsInOrder` says that a card which no poll has confirmed too early is
"sending" as long as it has a command under way, and then has no other, since its button is disabled.

The invariants above are those of the proofs, and hold on the instances of the runs as well: `HistoryInv`, `MakersFile`,
`PollsInOrder`, `VersionsInOrder` and `CommandsInOrder` were checked with TLC before they were proved.

Only model-checked: liveness and fairness (`ShutdownCompletes`, `StatusCatchesUp`, `StartupSucceeds`, `Ends`,
`ButtonComesBack`, `PageCatchesUp`), which are out of the prover's reach.  Every other property of a passing run is
stated by a theorem, and `OutputCounted`, part of the argument for `ReportIsTrue`, by one of its own.  The proofs say nothing of the constants of TLC's instances but that they satisfy the
assumptions, which TLC evaluates.

## 5. What is not modelled

- The content of messages, logging, headers, body limits, routes, parsing of YAML, of addresses and of JSON
  bodies, the SSH protocol, the network.  `router.go`, `middleware.go` and `proxies.go` keep no state and
  have no order of steps that could go wrong; `ParseHosts` is a sequence of independent checks of each entry.
- The administration panel.  Its form keeps role and devices from when it was opened, and submitting it undoes
  what another administrator changed meanwhile.  The API sends whole values without a version, so nothing is
  promised, and there is nothing to check; the server's side of such updates is in `Accounts`.
- The preview mode of the frontend, and everything displayed apart from the view and the buttons.
- Recovery of an empty file: a process killed between creating and writing the secret leaves a file with which
  no start succeeds until an administrator removes it (`Repair`), and the same instant leaves an empty
  `hosts.yaml`.  The code intends not to replace invalid files (`bootstrap.go:9`), and `HostsNeverReplaced` says
  that no later start does; `StartupSucceeds` speaks only of starts that nobody kills.
- Which errors answer with which status, except that no change is made.

Accepted by the properties rather than excluded, because nothing in the repository promises more:

- A role attached to a request by the middleware (`auth.go:224`) serves until its end, so an administrator
  demoted meanwhile completes it; `OnlyPermittedDevices` speaks of permissions at some moment of the request.
- Device ids are validated before bcrypt and inserted after it (`admin_handlers.go:52`); a host removed in
  between leaves a row for a device that is not configured, which no request can use.
- An answer to an earlier press is applied to whatever its card is doing by then (`deviceActionState.ts:24,48`):
  once a poll has confirmed a command before its answer came, a later one can be confirmed, failed or timed
  early, and commands can overlap.  `OneCommandAtATime` excuses the cards this has happened to.
- A remote command that ended is reported as timed out when the deadline comes before its report
  (`ssh.go:148`); `ReportIsTrue` asks of that report only that the deadline was met.
- A host list put in place while a first start is between creating `hosts.yaml` and closing it can be spoilt or
  removed; `HostsNeverReplaced` says that this instant is the only one.
- A close that fails removes a secret another process may have begun to use (`auth.go:99`); `SecretIsForEver` holds
  as long as no write or close fails.
- A file saved half way that is a shorter, valid list is served as it is (`loader.go:79`); with the first
  undisturbed call after the save is complete the list is whole again (`QuietFileIsServed`).
- When the server fails at the moment of a signal and main takes the signal first, the error is dropped and the
  status is 0; `CleanExit` holds, since `Shutdown` still waits for what is
  under way.

## 6. Disagreements found

- `orphans`: `store.go:28` declares `OnDelete:CASCADE`; SQLite enforces it only when asked to, and the DSN
  does not ask.  Deleted accounts leave rows.  Harmless to others, since ids are not reused (`assignments`).
- `starvation`: with more hosts due at each tick than the pool has places (four, with intervals below the
  tick), hosts at the end of the list are never probed.  The run has a pool of one and two hosts.

Two more were met and have no run.  README.md:258 requires passwords of 12 characters; `-adduser` checks only
that there is one, so `CliAddUser` takes any password and the handlers only `LongPasswords`.  An edit of
`hosts.yaml` that keeps modification time and size is not noticed until the next (`loader.go:67-70`); the
properties of `HostsLoader` excuse exactly that (`ambiguous`).

In the run `sessions` the clause on the password exempts tokens made by first-run setup: after
`CreateInitialAdmin` the account is fetched by address again and no password is compared
(`auth_handlers.go:70`), so an account changed in that instant gives its session to the setup request.

## 7. Plan

1. Done: `Store`, `Accounts`, `DeviceAccess`, `Bootstrap`; `LoginLimit`/`LoginLimiter`, `PingManager`, `HostsLoader`;
   `RemoteShutdown`, `Lifecycle`, `WolNetwork`, `Dashboard`.
2. Done: the proofs of all their invariants and action properties, and of the refinements of `LoginLimit` and
   `Sessions`.
3. Next: the safety halves of the liveness properties (in every state that waits, the action that ends the wait has
   its guard true) as invariants and theorems of `PingManager` and `Lifecycle`.
