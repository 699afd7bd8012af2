--------------------------- MODULE RemoteShutdown ---------------------------
(***************************************************************************)
(* The shutdown of a device over SSH (backend/internal/sshrunner): calls   *)
(* of remoteShutdown.  A call has a context with a timer, which ends the   *)
(* dial and nothing else, and a connection, whose reads and writes end at  *)
(* the deadline set on it, if one was set.                                 *)
(*                                                                         *)
(* Time is counted in ticks.  What the program does takes none; the remote *)
(* side takes as long as it likes, or for ever.                            *)
(***************************************************************************)
EXTENDS Integers

CONSTANTS
    Calls,        \* calls, each made once at most
    SshTimeout,   \* sshOperationTimeout
    OutputLimit,  \* sshOutputLimit
    Chunks,       \* the sizes of what one Write may be given
    MaxOutput,    \* bound: what a command prints
    MaxTime,      \* bound of the clock
    Never         \* the time of what has not happened

ASSUME SshAssumption ==
    /\ SshTimeout \in Nat \ {0}
    /\ OutputLimit \in Nat
    /\ Chunks \subseteq Nat
    /\ MaxOutput \in Nat
    /\ MaxTime \in Nat
    /\ Never \notin Int

VARIABLES
    clock,
    call,     \* where each call is
    began,    \* when it dialled
    expired,  \* the timer of its context has fired
    limit,    \* the deadline set on its connection
    command,  \* the command on the device
    counter,  \* its sshOutputCounter
    printed,  \* history: what was written to the counter
    report    \* what it returned

ssh == <<clock, call, began, expired, limit, command, counter, printed, report>>

Connecting == {"dialing", "opening"}
OnConnection == {"opening", "running"}
Waiting == Connecting \cup OnConnection
UnderWay == Waiting \cup {"connected", "ended", "lost"}
Reports == {"none", "done", "unavailable", "timed out", "too much output", "failed"}

SshTypeOK ==
    /\ clock \in 0..MaxTime
    /\ call \in [Calls -> {"idle", "preparing", "returned"} \cup UnderWay]
    /\ began \in [Calls -> 0..MaxTime \cup {Never}]
    /\ expired \in [Calls -> BOOLEAN]
    /\ limit \in [Calls -> 0..(MaxTime + SshTimeout) \cup {Never}]
    /\ command \in [Calls -> {"none", "running", "succeeded", "failed"}]
    /\ counter \in [Calls -> [bytes : 0..OutputLimit, exceeded : BOOLEAN]]
    /\ printed \in [Calls -> 0..MaxOutput]
    /\ report \in [Calls -> Reports]

SshInit ==
    /\ clock = 0
    /\ call = [c \in Calls |-> "idle"]
    /\ began = [c \in Calls |-> Never]
    /\ expired = [c \in Calls |-> FALSE]
    /\ limit = [c \in Calls |-> Never]
    /\ command = [c \in Calls |-> "none"]
    /\ counter = [c \in Calls |-> [bytes |-> 0, exceeded |-> FALSE]]
    /\ printed = [c \in Calls |-> 0]
    /\ report = [c \in Calls |-> "none"]

\* That of the context, from context.WithTimeout.
Deadline(c) == began[c] + SshTimeout

Return(c, r) ==
    /\ call' = [call EXCEPT ![c] = "returned"]
    /\ report' = [report EXCEPT ![c] = r]

-----------------------------------------------------------------------------
(* One call                                                                *)

Begin(c) ==
    /\ call[c] = "idle"
    /\ call' = [call EXCEPT ![c] = "preparing"]
    /\ UNCHANGED <<clock, began, expired, limit, command, counter, printed, report>>

\* Key or password and known hosts are read; both, neither or an unusable
\* one end the call.
Prepare(c) ==
    /\ call[c] = "preparing"
    /\ \/ Return(c, "unavailable") /\ UNCHANGED began
       \/ /\ call' = [call EXCEPT ![c] = "dialing"]
          /\ began' = [began EXCEPT ![c] = clock]
          /\ UNCHANGED report
    /\ UNCHANGED <<clock, expired, limit, command, counter, printed>>

\* The timer of the context, which runs until the call has returned.
Expire(c) ==
    /\ call[c] \in UnderWay
    /\ clock >= Deadline(c)
    /\ ~expired[c]
    /\ expired' = [expired EXCEPT ![c] = TRUE]
    /\ UNCHANGED <<clock, call, began, limit, command, counter, printed, report>>

Dialled(c) ==
    /\ call[c] = "dialing"
    /\ call' = [call EXCEPT ![c] = "connected"]
    /\ UNCHANGED <<clock, began, expired, limit, command, counter, printed, report>>

FromNowBug(c) == clock + SshTimeout
NotSetBug(c) == Never

\* What SetDeadline is given: the deadline of the context.
ConnectionDeadline(c) == Deadline(c)

SetDeadline(c) ==
    /\ call[c] = "connected"
    /\ \/ /\ limit' = [limit EXCEPT ![c] = ConnectionDeadline(c)]
          /\ call' = [call EXCEPT ![c] = "opening"]
          /\ UNCHANGED report
       \/ Return(c, "failed") /\ UNCHANGED limit
    /\ UNCHANGED <<clock, began, expired, command, counter, printed>>

\* The handshake and the session.
Opened(c) ==
    /\ call[c] = "opening"
    /\ call' = [call EXCEPT ![c] = "running"]
    /\ UNCHANGED <<clock, began, expired, limit, command, counter, printed, report>>

\* The device refuses, its key is not known, or a timer fires.
ConnectFails(c) ==
    /\ call[c] \in Connecting
    /\ Return(c, IF expired[c] THEN "timed out" ELSE "failed")
    /\ UNCHANGED <<clock, began, expired, limit, command, counter, printed>>

CommandStarts(c) ==
    /\ call[c] = "running"
    /\ command[c] = "none"
    /\ command' = [command EXCEPT ![c] = "running"]
    /\ UNCHANGED <<clock, call, began, expired, limit, counter, printed, report>>

PerWriteBug(o, n) == [bytes |-> o.bytes, exceeded |-> o.exceeded \/ n > OutputLimit]

\* Write of sshOutputCounter.
Counted(o, n) ==
    IF n > OutputLimit - o.bytes
    THEN [bytes |-> OutputLimit, exceeded |-> TRUE]
    ELSE [o EXCEPT !.bytes = @ + n]

\* Of standard output or of standard error: the lock makes them one.
Write(c, n) ==
    /\ call[c] = "running"
    /\ command[c] = "running"
    /\ printed[c] + n <= MaxOutput
    /\ counter' = [counter EXCEPT ![c] = Counted(@, n)]
    /\ printed' = [printed EXCEPT ![c] = @ + n]
    /\ UNCHANGED <<clock, call, began, expired, limit, command, report>>

CommandEnds(c) ==
    /\ call[c] = "running"
    /\ command[c] = "running"
    /\ \E status \in {"succeeded", "failed"} : command' = [command EXCEPT ![c] = status]
    /\ UNCHANGED <<clock, call, began, expired, limit, counter, printed, report>>

\* Run returns nil when the exit status came and is 0; otherwise an error, also
\* when the connection is lost or meets its deadline before the status comes.
RunReturns(c) ==
    /\ call[c] = "running"
    /\ \/ command[c] = "succeeded" /\ call' = [call EXCEPT ![c] = "ended"]
       \/ call' = [call EXCEPT ![c] = "lost"]
    /\ UNCHANGED <<clock, began, expired, limit, command, counter, printed, report>>

ErrorFirstBug(c) ==
    IF expired[c] THEN "timed out" ELSE IF call[c] = "lost" THEN "failed" ELSE "done"

Verdict(c) ==
    IF expired[c] THEN "timed out"
    ELSE IF counter[c].exceeded THEN "too much output"
    ELSE IF call[c] = "lost" THEN "failed" ELSE "done"

Report(c) ==
    /\ call[c] \in {"ended", "lost"}
    /\ Return(c, Verdict(c))
    /\ UNCHANGED <<clock, began, expired, limit, command, counter, printed>>

CallStep(c) ==
    \/ Prepare(c) \/ Expire(c) \/ Dialled(c) \/ SetDeadline(c) \/ Opened(c) \/ ConnectFails(c)
    \/ CommandStarts(c) \/ (\E n \in Chunks : Write(c, n)) \/ CommandEnds(c)
    \/ RunReturns(c) \/ Report(c)

\* A dial goes on until the context is done, reads and writes until the
\* deadline of the connection, and without one for ever.
MayWait(c) ==
    \/ call[c] = "dialing" /\ ~expired[c]
    \/ call[c] \in OnConnection /\ (limit[c] # Never => clock < limit[c])

\* Nothing of the program is left to do before time goes on: a timer that is
\* due has fired, and the call waits for the remote side.
CallAtRest(c) ==
    /\ call[c] \in {"idle", "returned"} \/ MayWait(c)
    /\ call[c] \in UnderWay /\ clock >= Deadline(c) => expired[c]

-----------------------------------------------------------------------------
(* Properties                                                              *)

\* What a call reports is so: done, that the command ended with status 0 and
\* printed no more than the limit; too much output, that it printed more; a
\* timeout, that the deadline was met.
ReportIsTrue ==
    \A c \in Calls :
        /\ report[c] = "done" => command[c] = "succeeded" /\ printed[c] <= OutputLimit
        /\ report[c] = "too much output" => printed[c] > OutputLimit
        /\ report[c] = "timed out" => expired[c]

\* The counter knows of all that was printed, in however many pieces, until
\* there is too much of it, and then never forgets.
OutputCounted ==
    \A c \in Calls :
        IF printed[c] > OutputLimit
        THEN counter[c].exceeded
        ELSE counter[c] = [bytes |-> printed[c], exceeded |-> FALSE]

\* The deadline of the context is that of the whole call, although the context
\* itself ends no more than the dial (ssh.go:121): whatever the device does,
\* takes or leaves open in handshake, session and command, the call has
\* returned SshTimeout after it began to dial.
ReturnsByItsDeadline ==
    \A c \in Calls : call[c] \in UnderWay => clock <= began[c] + SshTimeout

=============================================================================
