----------------------------- MODULE Lifecycle ------------------------------
(***************************************************************************)
(* The life of the server process (backend/main.go:100-141 and the HTTP    *)
(* server it starts): the signals that stop it, the goroutines it waits    *)
(* for, and the requests that may be under way, those that shut down a     *)
(* device and others, which take any time.  What net/http does is modelled *)
(* from how main.go uses it.                                               *)
(***************************************************************************)
EXTENDS RemoteShutdown

CONSTANTS
    Others,           \* the requests that are not Calls, each made once at most
    ShutdownTimeout,  \* of the context given to Shutdown
    LatestSignal,     \* bound: when the first signal comes, at the latest
    MaxSignals        \* bound

\* A remote shutdown is given no more time than the requests under way.
ASSUME LifecycleAssumption ==
    /\ Others \cap Calls = {}
    /\ ShutdownTimeout \in Nat
    /\ SshTimeout <= ShutdownTimeout
    /\ LatestSignal \in Nat
    /\ MaxSignals \in Nat

VARIABLES
    conn,         \* the connection of each request
    main,         \* where main is
    cancelled,    \* the context of NotifyContext is done
    signals,      \* number of signals so far
    signalled,    \* when the first one came that was caught
    serve,        \* where ListenAndServe is
    serveErrors,  \* what its channel, of capacity one, holds
    monitor,      \* StartPingManager has returned and pingDone is closed
    drainStart,   \* when Shutdown was called
    failure,      \* main will log.Fatal
    exit          \* how the process ended

asked == <<cancelled, signals, signalled>>
server == <<serve, serveErrors>>
process == <<main, asked, server, monitor, drainStart, failure, exit>>
vars == <<ssh, conn, process>>

Requests == Calls \cup Others

\* Shutdown has been called, and with it the listener closed.
ShuttingDown == main \in {"draining", "finishing"}
Open == {"accepted", "handling"}

TypeOK ==
    /\ SshTypeOK
    /\ conn \in [Requests -> {"none", "gone", "answered", "cut"} \cup Open]
    /\ main \in {"selecting", "draining", "finishing", "failing", "exited"}
    /\ cancelled \in BOOLEAN
    /\ signals \in 0..MaxSignals
    /\ signalled \in 0..MaxTime \cup {Never}
    /\ serve \in {"starting", "listening", "failed", "closed"}
    /\ serveErrors \in {"nothing", "failed", "closed"}
    /\ monitor \in {"running", "stopped"}
    /\ drainStart \in 0..MaxTime \cup {Never}
    /\ failure \in BOOLEAN
    /\ exit \in {"none", "zero", "fatal", "killed"}

Init ==
    /\ SshInit
    /\ conn = [r \in Requests |-> "none"]
    /\ main = "selecting"
    /\ cancelled = FALSE
    /\ signals = 0
    /\ signalled = Never
    /\ serve = "starting"
    /\ serveErrors = "nothing"
    /\ monitor = "running"
    /\ drainStart = Never
    /\ failure = FALSE
    /\ exit = "none"

Alive == exit = "none"

-----------------------------------------------------------------------------
(* Signals                                                                 *)

\* Until stop is called a signal cancels the context; after that it has its
\* usual effect.
Signal ==
    /\ Alive
    /\ signals < MaxSignals
    /\ signals = 0 => clock <= LatestSignal
    /\ signals' = signals + 1
    /\ IF main = "selecting"
       THEN /\ cancelled' = TRUE
            /\ signalled' = IF cancelled THEN signalled ELSE clock
            /\ UNCHANGED <<main, exit>>
       ELSE /\ main' = "exited"
            /\ exit' = "killed"
            /\ UNCHANGED <<cancelled, signalled>>
    /\ UNCHANGED <<ssh, conn, server, monitor, drainStart, failure>>

-----------------------------------------------------------------------------
(* The goroutines of main                                                  *)

\* ListenAndServe: the address cannot be had, accepting fails, or Shutdown
\* was called, before or after it began.
ServeReturns(how) ==
    /\ Alive
    /\ serve \in {"starting", "listening"}
    /\ how = "closed" <=> ShuttingDown
    /\ serve' = how
    /\ serveErrors' = how
    /\ UNCHANGED <<ssh, conn, main, asked, monitor, drainStart, failure, exit>>

Listen ==
    /\ Alive
    /\ serve = "starting"
    /\ ~ShuttingDown
    /\ serve' = "listening"
    /\ UNCHANGED <<ssh, conn, main, asked, serveErrors, monitor, drainStart, failure, exit>>

MonitorStops ==
    /\ Alive
    /\ cancelled
    /\ monitor = "running"
    /\ monitor' = "stopped"
    /\ UNCHANGED <<ssh, conn, main, asked, server, drainStart, failure, exit>>

-----------------------------------------------------------------------------
(* main                                                                    *)

NoStopBug == cancelled

\* stop(), which cancels the context as well.
Stopped == TRUE

SelectError ==
    /\ main = "selecting"
    /\ serveErrors # "nothing"
    /\ main' = "failing"
    /\ failure' = (serveErrors # "closed")
    /\ serveErrors' = "nothing"
    /\ cancelled' = Stopped
    /\ UNCHANGED <<ssh, conn, signals, signalled, serve, monitor, drainStart, exit>>

SelectSignal ==
    /\ main = "selecting"
    /\ cancelled
    /\ main' = "draining"
    /\ drainStart' = clock
    /\ UNCHANGED <<ssh, conn, asked, server, monitor, failure, exit>>

\* No connection has a request under way, or may be about to have one.
Quiet == \A r \in Requests : conn[r] \notin Open

Drained ==
    /\ main = "draining"
    /\ Quiet
    /\ main' = "finishing"
    /\ UNCHANGED <<ssh, conn, asked, server, monitor, drainStart, failure, exit>>

NoLimitBug == MaxTime + 1

DrainLimit == drainStart + ShutdownTimeout

\* Shutdown returns an error, and Close cuts what is still open.
DrainTimesOut ==
    /\ main = "draining"
    /\ clock = DrainLimit
    /\ main' = "finishing"
    /\ failure' = TRUE
    /\ conn' = [r \in Requests |-> IF conn[r] \in Open THEN "cut" ELSE conn[r]]
    /\ UNCHANGED <<ssh, asked, server, monitor, drainStart, exit>>

NotJoinedBug == TRUE

Joined == monitor = "stopped"

Exit ==
    /\ \/ main = "failing" /\ UNCHANGED serveErrors
       \/ main = "finishing" /\ serveErrors # "nothing" /\ serveErrors' = "nothing"
    /\ Joined
    /\ main' = "exited"
    /\ exit' = IF failure THEN "fatal" ELSE "zero"
    /\ UNCHANGED <<ssh, conn, asked, serve, monitor, drainStart, failure>>

-----------------------------------------------------------------------------
(* Requests                                                                *)

\* A connection is made, and closed again before it asks for anything.
Accept(r) ==
    /\ Alive
    /\ serve = "listening" /\ ~ShuttingDown
    /\ conn[r] = "none"
    /\ conn' = [conn EXCEPT ![r] = "accepted"]
    /\ UNCHANGED <<ssh, process>>

Drop(r) ==
    /\ Alive
    /\ conn[r] = "accepted"
    /\ conn' = [conn EXCEPT ![r] = "gone"]
    /\ UNCHANGED <<ssh, process>>

Handle(r) ==
    /\ Alive
    /\ conn[r] = "accepted"
    /\ conn' = [conn EXCEPT ![r] = "handling"]
    /\ IF r \in Calls THEN Begin(r) ELSE UNCHANGED ssh
    /\ UNCHANGED process

Progress(c) == Alive /\ CallStep(c) /\ UNCHANGED <<conn, process>>

Answer(r) ==
    /\ Alive
    /\ conn[r] = "handling"
    /\ r \in Calls => call[r] = "returned"
    /\ conn' = [conn EXCEPT ![r] = "answered"]
    /\ UNCHANGED <<ssh, process>>

-----------------------------------------------------------------------------

\* What the program has to do, and does before time goes on.
AtRest ==
    /\ \A c \in Calls : CallAtRest(c) /\ ~(conn[c] = "handling" /\ call[c] = "returned")
    /\ main = "selecting" => ~cancelled /\ serveErrors = "nothing"
    /\ main = "draining" => ~Quiet /\ clock < DrainLimit
    /\ main \in {"failing", "finishing"} => monitor = "running" /\ ~cancelled
    /\ serve # "starting"
    /\ serve = "listening" => ~ShuttingDown

Tick ==
    /\ Alive
    /\ AtRest
    /\ clock < MaxTime
    /\ clock' = clock + 1
    /\ UNCHANGED <<call, began, expired, limit, command, counter, printed, report, conn, process>>

Main == SelectError \/ SelectSignal \/ Drained \/ DrainTimesOut \/ Exit
Serving == Listen \/ ServeReturns("closed")
Request(r) == Accept(r) \/ Drop(r) \/ Handle(r) \/ Answer(r)

Next ==
    \/ Signal \/ MonitorStops \/ Main \/ Serving \/ ServeReturns("failed") \/ Tick
    \/ \E r \in Requests : Request(r)
    \/ \E c \in Calls : Progress(c)

Spec == Init /\ [][Next]_vars

Fairness ==
    /\ WF_vars(Main) /\ WF_vars(Serving) /\ WF_vars(MonitorStops) /\ WF_vars(Tick)
    /\ \A c \in Calls :
        WF_vars(Progress(c)) /\ WF_vars(Answer(c))

FairSpec == Spec /\ Fairness

-----------------------------------------------------------------------------
(* Properties                                                              *)

\* Status 0 says that the process was asked to stop and that nothing it had
\* begun was cut short: no request under way, no probe, no listener.
CleanExit ==
    exit = "zero" =>
        /\ signalled # Never
        /\ monitor = "stopped"
        /\ serve \in {"failed", "closed"}
        /\ \A r \in Requests : conn[r] \notin Open \cup {"cut"}

\* The remote shutdown of a device that was under way when the process was
\* asked to stop is waited for and answered: what Shutdown gives up on was
\* begun later.
OnlyLateRequestsAreCut ==
    \A c \in Calls : conn[c] = "cut" /\ began[c] # Never => began[c] >= drainStart

\* The process is gone ShutdownTimeout after it was asked to stop, and
\* sooner if it is asked again.
StopsInTime == Alive /\ signalled # Never => clock <= signalled + ShutdownTimeout

\* A process that is asked to stop, or whose server fails, ends: it waits for
\* nobody who waits for it.
Ends == signalled # Never \/ serve = "failed" ~> exit # "none"

=============================================================================
