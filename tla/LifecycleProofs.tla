-------------------------- MODULE LifecycleProofs ---------------------------
(***************************************************************************)
(* What holds of Lifecycle for any number of requests and any timeouts     *)
(* that keep SshTimeout <= ShutdownTimeout.                                *)
(***************************************************************************)
EXTENDS Lifecycle, TLAPS

\* Of a call alone: its context bounds it until it has its connection, and
\* then the connection, whose deadline is the same.
CallInv(c) ==
    /\ began[c] # Never => began[c] <= clock
    /\ call[c] \in UnderWay => began[c] # Never /\ clock <= Deadline(c)
    /\ call[c] \in OnConnection => limit[c] = Deadline(c)
    /\ call[c] \in {"idle", "preparing"} => began[c] = Never

OutputInv(c) ==
    IF printed[c] > OutputLimit
    THEN counter[c] = [bytes |-> OutputLimit, exceeded |-> TRUE]
    ELSE counter[c] = [bytes |-> printed[c], exceeded |-> FALSE]

ReportInv(c) ==
    /\ call[c] = "ended" => command[c] = "succeeded"
    /\ call[c] # "returned" => report[c] = "none"
    /\ report[c] = "done" => command[c] = "succeeded" /\ printed[c] <= OutputLimit
    /\ report[c] = "too much output" => printed[c] > OutputLimit
    /\ report[c] = "timed out" => expired[c]

SshInv ==
    /\ SshTypeOK
    /\ \A c \in Calls : CallInv(c)
    /\ \A c \in Calls : OutputInv(c)
    /\ \A c \in Calls : ReportInv(c)

-----------------------------------------------------------------------------
(* The steps of a call                                                     *)

LEMMA Numbers ==
    ASSUME SshTypeOK, NEW c \in Calls
    PROVE  printed[c] \in Nat /\ OutputLimit \in Nat
BY SshAssumption DEF SshTypeOK

\* The flag of the counter is that of what was printed.
LEMMA FlagIsOutput ==
    ASSUME NEW c \in Calls, OutputInv(c)
    PROVE  printed[c] > OutputLimit <=> counter[c].exceeded
<1>1. CASE printed[c] > OutputLimit
  <2>1. counter[c] = [bytes |-> OutputLimit, exceeded |-> TRUE]
    BY <1>1 DEF OutputInv
  <2>2. counter[c].exceeded = TRUE
    BY <2>1
  <2> QED BY <1>1, <2>2
<1>2. CASE ~(printed[c] > OutputLimit)
  <2>1. counter[c] = [bytes |-> printed[c], exceeded |-> FALSE]
    BY <1>2 DEF OutputInv
  <2>2. counter[c].exceeded = FALSE
    BY <2>1
  <2> QED BY <1>2, <2>2
<1> QED BY <1>1, <1>2

\* Report tells the truth.
LEMMA VerdictIsTrue ==
    ASSUME SshTypeOK, NEW c \in Calls, OutputInv(c), call[c] \in {"ended", "lost"},
           call[c] = "ended" => command[c] = "succeeded"
    PROVE  /\ Verdict(c) = "done" => command[c] = "succeeded" /\ printed[c] <= OutputLimit
           /\ Verdict(c) = "too much output" => printed[c] > OutputLimit
           /\ Verdict(c) = "timed out" => expired[c]
<1>1. /\ Verdict(c) = "done" => call[c] # "lost" /\ ~counter[c].exceeded
      /\ Verdict(c) = "too much output" => counter[c].exceeded
      /\ Verdict(c) = "timed out" => expired[c]
  BY DEF Verdict
<1>2. ~(printed[c] > OutputLimit) => printed[c] <= OutputLimit
  BY Numbers
<1> QED BY <1>1, <1>2, FlagIsOutput

LEMMA BeginKeeps == ASSUME SshInv, NEW c \in Calls, Begin(c) PROVE SshInv'
<1> USE SshAssumption DEF SshInv, SshTypeOK, Begin
<1>1. SshTypeOK'
  BY DEF UnderWay, Waiting, Connecting, OnConnection, Reports
<1>2. ASSUME NEW d \in Calls PROVE CallInv(d)'
  BY DEF CallInv, UnderWay, Deadline, Waiting, Connecting, OnConnection
<1>3. ASSUME NEW d \in Calls PROVE OutputInv(d)'
  BY DEF OutputInv
<1>4. ASSUME NEW d \in Calls PROVE ReportInv(d)'
  BY DEF ReportInv, OutputInv
<1> QED BY <1>1, <1>2, <1>3, <1>4

LEMMA ExceptType ==
    ASSUME NEW S, NEW T, NEW f \in [S -> T], NEW x \in S, NEW v \in T
    PROVE  [f EXCEPT ![x] = v] \in [S -> T]
OBVIOUS

LEMMA PrepareTypes == ASSUME SshTypeOK, NEW c \in Calls, Prepare(c) PROVE SshTypeOK'
<1> DEFINE Stages == {"idle", "preparing", "returned"} \cup UnderWay
<1>1. call' \in [Calls -> Stages]
  <2>1. call' = [call EXCEPT ![c] = "returned"] \/ call' = [call EXCEPT ![c] = "dialing"]
    BY DEF Prepare, Return
  <2>2. call \in [Calls -> Stages]
    BY DEF SshTypeOK
  <2>3. "returned" \in Stages /\ "dialing" \in Stages
    BY DEF UnderWay, Waiting, Connecting
  <2> HIDE DEF Stages
  <2>4. /\ [call EXCEPT ![c] = "returned"] \in [Calls -> Stages]
        /\ [call EXCEPT ![c] = "dialing"] \in [Calls -> Stages]
    BY <2>2, <2>3, ExceptType
  <2> QED BY <2>1, <2>4, Zenon
<1>2. began' \in [Calls -> 0..MaxTime \cup {Never}] /\ report' \in [Calls -> Reports]
  <2>1. began' \in {began, [began EXCEPT ![c] = clock]}
    BY DEF Prepare
  <2>2. report' \in {report, [report EXCEPT ![c] = "unavailable"]}
    BY DEF Prepare, Return
  <2>3. began \in [Calls -> 0..MaxTime \cup {Never}] /\ clock \in 0..MaxTime \cup {Never}
    BY DEF SshTypeOK
  <2>4. [began EXCEPT ![c] = clock] \in [Calls -> 0..MaxTime \cup {Never}]
    BY <2>3, ExceptType
  <2>5. report \in [Calls -> Reports] /\ "unavailable" \in Reports
    BY DEF SshTypeOK, Reports
  <2>6. [report EXCEPT ![c] = "unavailable"] \in [Calls -> Reports]
    BY <2>5, ExceptType
  <2>7. began' \in [Calls -> 0..MaxTime \cup {Never}]
    BY <2>1, <2>3, <2>4, Zenon
  <2>8. report' \in [Calls -> Reports]
    BY <2>2, <2>5, <2>6, Zenon
  <2> QED BY <2>7, <2>8
<1>3. UNCHANGED <<clock, expired, limit, command, counter, printed>>
  BY DEF Prepare
<1> QED BY <1>1, <1>2, <1>3, Zenon DEF SshTypeOK

LEMMA PrepareKeeps == ASSUME SshInv, NEW c \in Calls, Prepare(c) PROVE SshInv'
<1> USE SshAssumption DEF SshInv, SshTypeOK, Prepare, Return
<1>1. SshTypeOK'
  <2>1. SshTypeOK
    BY DEF SshInv
  <2> HIDE DEF SshTypeOK, Prepare
  <2> QED BY <2>1, PrepareTypes
<1>2. ASSUME NEW d \in Calls PROVE CallInv(d)'
  <2>1. CallInv(d) /\ call[c] = "preparing" /\ UNCHANGED <<clock, limit>> /\ clock \in 0..MaxTime
    OBVIOUS
  <2>2. \/ call'[d] = call[d] /\ began'[d] = began[d]
        \/ d = c /\ call'[d] = "returned" /\ began'[d] = began[d]
        \/ d = c /\ call'[d] = "dialing" /\ began'[d] = clock
    OBVIOUS
  <2> HIDE DEF SshInv, SshTypeOK, Prepare, Return
  <2>3. clock \in Nat /\ SshTimeout \in Nat /\ Never \notin Int
    BY <2>1, SshAssumption
  <2> QED BY <2>1, <2>2, <2>3 DEF CallInv, UnderWay, Deadline, Waiting, Connecting, OnConnection
<1>3. ASSUME NEW d \in Calls PROVE OutputInv(d)'
  BY DEF OutputInv
<1>4. ASSUME NEW d \in Calls PROVE ReportInv(d)'
  <2>1. ReportInv(d) /\ call[c] = "preparing" /\ UNCHANGED <<command, printed, expired>>
    OBVIOUS
  <2>2. \/ call'[d] = call[d] /\ report'[d] = report[d]
        \/ d = c /\ call'[d] = "returned" /\ report'[d] = "unavailable"
        \/ d = c /\ call'[d] = "dialing" /\ report'[d] = report[d]
    OBVIOUS
  <2> HIDE DEF SshInv, SshTypeOK, Prepare, Return
  <2> QED BY <2>1, <2>2 DEF ReportInv
<1> QED BY <1>1, <1>2, <1>3, <1>4

LEMMA ExpireKeeps == ASSUME SshInv, NEW c \in Calls, Expire(c) PROVE SshInv'
<1> USE SshAssumption DEF SshInv, SshTypeOK, Expire
<1>1. SshTypeOK'
  BY DEF UnderWay, Waiting, Connecting, OnConnection, Reports
<1>2. ASSUME NEW d \in Calls PROVE CallInv(d)'
  BY DEF CallInv, UnderWay, Deadline, Waiting, Connecting, OnConnection
<1>3. ASSUME NEW d \in Calls PROVE OutputInv(d)'
  BY DEF OutputInv
<1>4. ASSUME NEW d \in Calls PROVE ReportInv(d)'
  BY DEF ReportInv, OutputInv
<1> QED BY <1>1, <1>2, <1>3, <1>4

LEMMA DialledKeeps == ASSUME SshInv, NEW c \in Calls, Dialled(c) PROVE SshInv'
<1> USE SshAssumption DEF SshInv, SshTypeOK, Dialled
<1>1. SshTypeOK'
  BY DEF UnderWay, Waiting, Connecting, OnConnection, Reports
<1>2. ASSUME NEW d \in Calls PROVE CallInv(d)'
  BY DEF CallInv, UnderWay, Deadline, Waiting, Connecting, OnConnection
<1>3. ASSUME NEW d \in Calls PROVE OutputInv(d)'
  BY DEF OutputInv
<1>4. ASSUME NEW d \in Calls PROVE ReportInv(d)'
  BY DEF ReportInv, OutputInv
<1> QED BY <1>1, <1>2, <1>3, <1>4

LEMMA SetDeadlineKeeps == ASSUME SshInv, NEW c \in Calls, SetDeadline(c) PROVE SshInv'
<1>1. /\ SshTypeOK
      /\ call[c] = "connected"
      /\ UNCHANGED <<clock, began, expired, command, counter, printed>>
  BY DEF SshInv, SetDeadline
<1>2. \/ /\ limit' = [limit EXCEPT ![c] = Deadline(c)]
         /\ call' = [call EXCEPT ![c] = "opening"]
         /\ report' = report
      \/ /\ limit' = limit
         /\ call' = [call EXCEPT ![c] = "returned"]
         /\ report' = [report EXCEPT ![c] = "failed"]
  BY DEF SetDeadline, ConnectionDeadline, Return
<1>3. began[c] \in 0..MaxTime /\ Deadline(c) \in 0..(MaxTime + SshTimeout)
  BY <1>1, SshAssumption DEF SshInv, SshTypeOK, CallInv, UnderWay, Deadline
<1>4. SshTypeOK'
  <2> DEFINE Stages == {"idle", "preparing", "returned"} \cup UnderWay
             Times == 0..(MaxTime + SshTimeout) \cup {Never}
  <2>1. call \in [Calls -> Stages] /\ limit \in [Calls -> Times] /\ report \in [Calls -> Reports]
    BY <1>1 DEF SshTypeOK
  <2>2. "opening" \in Stages /\ "returned" \in Stages /\ Deadline(c) \in Times /\ "failed" \in Reports
    BY <1>3 DEF UnderWay, Waiting, OnConnection, Reports
  <2>3. call' \in [Calls -> Stages] /\ limit' \in [Calls -> Times] /\ report' \in [Calls -> Reports]
    <3> HIDE DEF Stages, Times
    <3>1. /\ [call EXCEPT ![c] = "opening"] \in [Calls -> Stages]
          /\ [call EXCEPT ![c] = "returned"] \in [Calls -> Stages]
          /\ [limit EXCEPT ![c] = Deadline(c)] \in [Calls -> Times]
          /\ [report EXCEPT ![c] = "failed"] \in [Calls -> Reports]
      BY <2>1, <2>2, ExceptType
    <3> QED BY <1>2, <2>1, <3>1, Zenon
  <2> QED BY <1>1, <2>3, Zenon DEF SshTypeOK
<1>5. ASSUME NEW d \in Calls PROVE CallInv(d)'
  <2>1. CallInv(d) /\ Deadline(d)' = Deadline(d)
    BY <1>1 DEF SshInv, Deadline
  <2>2. \/ call'[d] = call[d] /\ limit'[d] = limit[d]
        \/ d = c /\ call'[d] = "opening" /\ limit'[d] = Deadline(d)
        \/ d = c /\ call'[d] = "returned"
    BY <1>1, <1>2 DEF SshTypeOK
  <2> QED BY <1>1, <2>1, <2>2 DEF CallInv, UnderWay, Waiting, Connecting, OnConnection
<1>6. ASSUME NEW d \in Calls PROVE OutputInv(d)'
  BY <1>1 DEF SshInv, OutputInv
<1>7. ASSUME NEW d \in Calls PROVE ReportInv(d)'
  <2>1. ReportInv(d)
    BY DEF SshInv
  <2>2. \/ call'[d] = call[d] /\ report'[d] = report[d]
        \/ d = c /\ call'[d] = "opening" /\ report'[d] = report[d]
        \/ d = c /\ call'[d] = "returned" /\ report'[d] = "failed"
    BY <1>1, <1>2 DEF SshTypeOK
  <2> QED BY <1>1, <2>1, <2>2 DEF ReportInv
<1> QED BY <1>4, <1>5, <1>6, <1>7 DEF SshInv

LEMMA OpenedKeeps == ASSUME SshInv, NEW c \in Calls, Opened(c) PROVE SshInv'
<1> USE SshAssumption DEF SshInv, SshTypeOK, Opened
<1>1. SshTypeOK'
  BY DEF UnderWay, Waiting, Connecting, OnConnection, Reports
<1>2. ASSUME NEW d \in Calls PROVE CallInv(d)'
  BY DEF CallInv, UnderWay, Deadline, Waiting, Connecting, OnConnection
<1>3. ASSUME NEW d \in Calls PROVE OutputInv(d)'
  BY DEF OutputInv
<1>4. ASSUME NEW d \in Calls PROVE ReportInv(d)'
  BY DEF ReportInv, OutputInv
<1> QED BY <1>1, <1>2, <1>3, <1>4

LEMMA ConnectFailsKeeps == ASSUME SshInv, NEW c \in Calls, ConnectFails(c) PROVE SshInv'
<1> USE SshAssumption DEF SshInv, SshTypeOK, ConnectFails, Return, Connecting
<1>1. SshTypeOK'
  BY DEF UnderWay, Waiting, Connecting, OnConnection, Reports
<1>2. ASSUME NEW d \in Calls PROVE CallInv(d)'
  BY DEF CallInv, UnderWay, Deadline, Waiting, Connecting, OnConnection
<1>3. ASSUME NEW d \in Calls PROVE OutputInv(d)'
  BY DEF OutputInv
<1>4. ASSUME NEW d \in Calls PROVE ReportInv(d)'
  BY DEF ReportInv, OutputInv
<1> QED BY <1>1, <1>2, <1>3, <1>4

LEMMA CommandStartsKeeps == ASSUME SshInv, NEW c \in Calls, CommandStarts(c) PROVE SshInv'
<1> USE SshAssumption DEF SshInv, SshTypeOK, CommandStarts
<1>1. SshTypeOK'
  BY DEF UnderWay, Waiting, Connecting, OnConnection, Reports
<1>2. ASSUME NEW d \in Calls PROVE CallInv(d)'
  BY DEF CallInv, UnderWay, Deadline, Waiting, Connecting, OnConnection
<1>3. ASSUME NEW d \in Calls PROVE OutputInv(d)'
  BY DEF OutputInv
<1>4. ASSUME NEW d \in Calls PROVE ReportInv(d)'
  BY DEF ReportInv, OutputInv
<1> QED BY <1>1, <1>2, <1>3, <1>4

LEMMA CommandEndsKeeps == ASSUME SshInv, NEW c \in Calls, CommandEnds(c) PROVE SshInv'
<1> USE SshAssumption DEF SshInv, SshTypeOK, CommandEnds
<1>1. SshTypeOK'
  BY DEF UnderWay, Waiting, Connecting, OnConnection, Reports
<1>2. ASSUME NEW d \in Calls PROVE CallInv(d)'
  BY DEF CallInv, UnderWay, Deadline, Waiting, Connecting, OnConnection
<1>3. ASSUME NEW d \in Calls PROVE OutputInv(d)'
  BY DEF OutputInv
<1>4. ASSUME NEW d \in Calls PROVE ReportInv(d)'
  BY DEF ReportInv, OutputInv
<1> QED BY <1>1, <1>2, <1>3, <1>4

LEMMA RunReturnsKeeps == ASSUME SshInv, NEW c \in Calls, RunReturns(c) PROVE SshInv'
<1> USE SshAssumption DEF SshInv, SshTypeOK, RunReturns
<1>1. SshTypeOK'
  BY DEF UnderWay, Waiting, Connecting, OnConnection, Reports
<1>2. ASSUME NEW d \in Calls PROVE CallInv(d)'
  BY DEF CallInv, UnderWay, Deadline, Waiting, Connecting, OnConnection
<1>3. ASSUME NEW d \in Calls PROVE OutputInv(d)'
  BY DEF OutputInv
<1>4. ASSUME NEW d \in Calls PROVE ReportInv(d)'
  BY DEF ReportInv, OutputInv
<1> QED BY <1>1, <1>2, <1>3, <1>4

LEMMA ReportKeeps == ASSUME SshInv, NEW c \in Calls, Report(c) PROVE SshInv'
<1> USE SshAssumption DEF SshInv, SshTypeOK, Report, Return, Verdict
<1>1. SshTypeOK'
  BY DEF UnderWay, Waiting, Connecting, OnConnection, Reports
<1>2. ASSUME NEW d \in Calls PROVE CallInv(d)'
  BY DEF CallInv, UnderWay, Deadline, Waiting, Connecting, OnConnection
<1>3. ASSUME NEW d \in Calls PROVE OutputInv(d)'
  BY DEF OutputInv
<1>4. ASSUME NEW d \in Calls PROVE ReportInv(d)'
  <2>1. CASE d # c
    BY <2>1 DEF ReportInv
  <2>2. CASE d = c
    <3>1. report'[c] = Verdict(c) /\ call'[c] = "returned"
      OBVIOUS
    <3>2. /\ Verdict(c) = "done" => command[c] = "succeeded" /\ printed[c] <= OutputLimit
          /\ Verdict(c) = "too much output" => printed[c] > OutputLimit
          /\ Verdict(c) = "timed out" => expired[c]
      BY VerdictIsTrue DEF ReportInv
    <3>3. UNCHANGED <<command, printed, expired>>
      OBVIOUS
    <3> QED BY <2>2, <3>1, <3>2, <3>3, Zenon DEF ReportInv
  <2> QED BY <2>1, <2>2
<1> QED BY <1>1, <1>2, <1>3, <1>4

LEMMA WriteKeeps ==
    ASSUME SshInv, NEW c \in Calls, NEW n \in Chunks, Write(c, n) PROVE SshInv'
<1> USE SshAssumption DEF SshInv, SshTypeOK, Write
<1>1. n \in Nat /\ printed[c] + n \in 0..MaxOutput /\ printed[c] \in Nat
  OBVIOUS
<1>2. counter[c] \in [bytes : 0..OutputLimit, exceeded : BOOLEAN]
  OBVIOUS
<1>3. CASE n > OutputLimit - counter[c].bytes
  <2>1. Counted(counter[c], n) = [bytes |-> OutputLimit, exceeded |-> TRUE]
    BY <1>3 DEF Counted
  <2>2. Counted(counter[c], n) \in [bytes : 0..OutputLimit, exceeded : BOOLEAN]
    BY <2>1
  <2>3. SshTypeOK'
    BY <1>1, <2>2
  <2>4. ASSUME NEW d \in Calls PROVE OutputInv(d)'
    <3>1. CASE d # c
      BY <3>1 DEF OutputInv
    <3>2. CASE d = c
      <4>1. OutputInv(c) /\ printed'[c] = printed[c] + n /\ counter'[c] = Counted(counter[c], n)
        OBVIOUS
      <4> QED BY <1>1, <1>3, <2>1, <3>2, <4>1 DEF OutputInv
    <3> QED BY <3>1, <3>2
  <2>5. ASSUME NEW d \in Calls PROVE CallInv(d)' /\ ReportInv(d)'
    BY <1>1 DEF CallInv, ReportInv, UnderWay, Deadline, Waiting, Connecting, OnConnection
  <2> QED BY <2>3, <2>4, <2>5
<1>4. CASE ~(n > OutputLimit - counter[c].bytes)
  <2>1. Counted(counter[c], n) =
            [bytes |-> counter[c].bytes + n, exceeded |-> counter[c].exceeded]
    BY <1>1, <1>2, <1>4 DEF Counted
  <2>2. Counted(counter[c], n) \in [bytes : 0..OutputLimit, exceeded : BOOLEAN]
    BY <1>1, <1>2, <1>4, <2>1
  <2>3. SshTypeOK'
    BY <1>1, <2>2
  <2>4. ASSUME NEW d \in Calls PROVE OutputInv(d)'
    <3>1. CASE d # c
      BY <3>1 DEF OutputInv
    <3>2. CASE d = c
      <4>1. OutputInv(c) /\ printed'[c] = printed[c] + n /\ counter'[c] = Counted(counter[c], n)
        OBVIOUS
      <4>2. CASE printed[c] > OutputLimit
        <5>1. counter[c] = [bytes |-> OutputLimit, exceeded |-> TRUE]
          BY <4>1, <4>2 DEF OutputInv
        <5>2. n = 0
          BY <1>1, <1>4, <5>1
        <5>3. printed'[c] > OutputLimit /\ counter'[c] = counter[c]
          BY <1>1, <2>1, <4>1, <4>2, <5>1, <5>2
        <5> QED BY <3>2, <5>1, <5>3 DEF OutputInv
      <4>3. CASE ~(printed[c] > OutputLimit)
        <5>1. counter[c] = [bytes |-> printed[c], exceeded |-> FALSE]
          BY <4>1, <4>3 DEF OutputInv
        <5>2. ~(printed'[c] > OutputLimit)
          BY <1>1, <1>4, <4>1, <4>3, <5>1
        <5>3. counter'[c] = [bytes |-> printed'[c], exceeded |-> FALSE]
          BY <2>1, <4>1, <5>1
        <5> QED BY <3>2, <5>2, <5>3 DEF OutputInv
      <4> QED BY <4>2, <4>3
    <3> QED BY <3>1, <3>2
  <2>5. ASSUME NEW d \in Calls PROVE CallInv(d)' /\ ReportInv(d)'
    BY <1>1 DEF CallInv, ReportInv, UnderWay, Deadline, Waiting, Connecting, OnConnection
  <2> QED BY <2>3, <2>4, <2>5
<1> QED BY <1>3, <1>4

-----------------------------------------------------------------------------
(* The steps of the process                                                *)

\* What is under way has not met its deadline, and what was cut began late.
ConnInv ==
    \A c \in Calls :
        /\ conn[c] \in {"none", "accepted", "gone"} => call[c] = "idle"
        /\ conn[c] = "handling" /\ began[c] # Never => clock <= Deadline(c)
        /\ conn[c] = "cut" =>
            /\ drainStart # Never
            /\ began[c] # Never => began[c] >= drainStart

\* The channel holds what ListenAndServe returned until main takes it.
ServeInv ==
    /\ serve \in {"starting", "listening"} => serveErrors = "nothing"
    /\ main = "selecting" => serveErrors # "closed"

\* Time does not pass between the signal and Shutdown, nor after it.
StopInv ==
    /\ main = "selecting" =>
        /\ cancelled <=> signalled # Never
        /\ signalled # Never => signalled = clock
    /\ main # "selecting" => cancelled
    /\ main \in {"draining", "finishing"} =>
        signalled # Never /\ drainStart = signalled /\ clock <= DrainLimit
    /\ main = "failing" /\ signalled # Never => clock <= signalled + ShutdownTimeout
    /\ drainStart # Never => drainStart <= clock

\* Whatever is given up makes the status 1.
ExitInv ==
    /\ exit = "none" <=> main # "exited"
    /\ main \in {"selecting", "draining"} => ~failure
    /\ main = "failing" => failure
    /\ \A r \in Requests : conn[r] = "cut" => failure
    /\ main = "finishing" /\ ~failure => Quiet
    /\ exit = "zero" => ~failure

Inv ==
    /\ TypeOK
    /\ SshInv
    /\ ConnInv
    /\ ServeInv
    /\ StopInv
    /\ ExitInv
    /\ CleanExit

LEMMA SignalKeeps == ASSUME Inv, Signal PROVE Inv'
<1> USE SshAssumption, LifecycleAssumption DEF Inv, Signal, Alive, server, asked, process
<1>1. TypeOK'
  <2>1. CASE main = "selecting"
    BY <2>1 DEF TypeOK, SshTypeOK, ssh, Requests, Open
  <2>2. CASE main # "selecting"
    BY <2>2 DEF TypeOK, SshTypeOK, ssh, Requests, Open
  <2> QED BY <2>1, <2>2
<1>2. SshInv'
  BY DEF SshInv, SshTypeOK, CallInv, OutputInv, ReportInv, Deadline, ssh
<1>3. ConnInv'
  BY DEF ConnInv, ExitInv, Deadline, ssh, TypeOK, SshInv, SshTypeOK, CallInv, Requests, Open, DrainLimit, StopInv
<1>4. ServeInv'
  BY SMT DEF ServeInv, TypeOK, ShuttingDown
<1>5. StopInv'
  BY DEF StopInv, TypeOK, SshTypeOK, DrainLimit, ssh
<1>6. ExitInv'
  BY SMT DEF ExitInv, TypeOK, Quiet, Requests, Open, ServeInv, ShuttingDown
<1>7. CleanExit'
  BY DEF CleanExit, ExitInv, StopInv, ServeInv, TypeOK, Quiet, Requests, Open
<1> QED BY <1>1, <1>2, <1>3, <1>4, <1>5, <1>6, <1>7

LEMMA ServeReturnsKeeps == ASSUME Inv, NEW how \in {"failed", "closed"}, ServeReturns(how) PROVE Inv'
<1> USE SshAssumption, LifecycleAssumption DEF Inv, ServeReturns, Alive, server, asked, process
<1>1. TypeOK'
  BY DEF TypeOK, SshTypeOK, ssh, Requests, Open
<1>2. SshInv'
  BY DEF SshInv, SshTypeOK, CallInv, OutputInv, ReportInv, Deadline, ssh
<1>3. ConnInv'
  BY DEF ConnInv, ExitInv, Deadline, ssh, TypeOK, SshInv, SshTypeOK, CallInv, Requests, Open, DrainLimit, StopInv
<1>4. ServeInv'
  BY SMT DEF ServeInv, TypeOK, ShuttingDown
<1>5. StopInv'
  BY DEF StopInv, TypeOK, SshTypeOK, DrainLimit, ssh
<1>6. ExitInv'
  BY SMT DEF ExitInv, TypeOK, Quiet, Requests, Open, ServeInv, ShuttingDown
<1>7. CleanExit'
  BY DEF CleanExit, ExitInv, StopInv, ServeInv, TypeOK, Quiet, Requests, Open
<1> QED BY <1>1, <1>2, <1>3, <1>4, <1>5, <1>6, <1>7

LEMMA ListenKeeps == ASSUME Inv, Listen PROVE Inv'
<1> USE SshAssumption, LifecycleAssumption DEF Inv, Listen, Alive, server, asked, process
<1>1. TypeOK'
  BY DEF TypeOK, SshTypeOK, ssh, Requests, Open
<1>2. SshInv'
  BY DEF SshInv, SshTypeOK, CallInv, OutputInv, ReportInv, Deadline, ssh
<1>3. ConnInv'
  BY DEF ConnInv, ExitInv, Deadline, ssh, TypeOK, SshInv, SshTypeOK, CallInv, Requests, Open, DrainLimit, StopInv
<1>4. ServeInv'
  BY SMT DEF ServeInv, TypeOK, ShuttingDown
<1>5. StopInv'
  BY DEF StopInv, TypeOK, SshTypeOK, DrainLimit, ssh
<1>6. ExitInv'
  BY SMT DEF ExitInv, TypeOK, Quiet, Requests, Open, ServeInv, ShuttingDown
<1>7. CleanExit'
  BY DEF CleanExit, ExitInv, StopInv, ServeInv, TypeOK, Quiet, Requests, Open
<1> QED BY <1>1, <1>2, <1>3, <1>4, <1>5, <1>6, <1>7

LEMMA MonitorStopsKeeps == ASSUME Inv, MonitorStops PROVE Inv'
<1> USE SshAssumption, LifecycleAssumption DEF Inv, MonitorStops, Alive, server, asked, process
<1>1. TypeOK'
  BY DEF TypeOK, SshTypeOK, ssh, Requests, Open
<1>2. SshInv'
  BY DEF SshInv, SshTypeOK, CallInv, OutputInv, ReportInv, Deadline, ssh
<1>3. ConnInv'
  BY DEF ConnInv, ExitInv, Deadline, ssh, TypeOK, SshInv, SshTypeOK, CallInv, Requests, Open, DrainLimit, StopInv
<1>4. ServeInv'
  BY SMT DEF ServeInv, TypeOK, ShuttingDown
<1>5. StopInv'
  BY DEF StopInv, TypeOK, SshTypeOK, DrainLimit, ssh
<1>6. ExitInv'
  BY SMT DEF ExitInv, TypeOK, Quiet, Requests, Open, ServeInv, ShuttingDown
<1>7. CleanExit'
  BY DEF CleanExit, ExitInv, StopInv, ServeInv, TypeOK, Quiet, Requests, Open
<1> QED BY <1>1, <1>2, <1>3, <1>4, <1>5, <1>6, <1>7

LEMMA SelectErrorKeeps == ASSUME Inv, SelectError PROVE Inv'
<1> USE SshAssumption, LifecycleAssumption DEF Inv, SelectError, Alive, server, asked, process, Stopped
<1>a. serveErrors = "failed"
  BY DEF ServeInv, TypeOK
<1>b. serveErrors' = "nothing" /\ failure' = TRUE
  BY <1>a
<1>1. TypeOK'
  BY DEF TypeOK, SshTypeOK, ssh, Requests, Open
<1>2. SshInv'
  BY DEF SshInv, SshTypeOK, CallInv, OutputInv, ReportInv, Deadline, ssh
<1>3. ConnInv'
  BY DEF ConnInv, ExitInv, Deadline, ssh, TypeOK, SshInv, SshTypeOK, CallInv, Requests, Open, DrainLimit, StopInv
<1>4. ServeInv'
  BY <1>a, <1>b, SMT DEF ServeInv, TypeOK, ShuttingDown
<1>5. StopInv'
  BY DEF StopInv, TypeOK, SshTypeOK, DrainLimit, ssh
<1>6. ExitInv'
  BY <1>a, <1>b, SMT DEF ExitInv, TypeOK, Quiet, Requests, Open, ServeInv, ShuttingDown
<1>7. CleanExit'
  BY DEF CleanExit, ExitInv, StopInv, ServeInv, TypeOK, Quiet, Requests, Open
<1> QED BY <1>1, <1>2, <1>3, <1>4, <1>5, <1>6, <1>7

LEMMA SelectSignalKeeps == ASSUME Inv, SelectSignal PROVE Inv'
<1> USE SshAssumption, LifecycleAssumption DEF Inv, SelectSignal, Alive, server, asked, process
<1>1. TypeOK'
  BY DEF TypeOK, SshTypeOK, ssh, Requests, Open
<1>2. SshInv'
  BY DEF SshInv, SshTypeOK, CallInv, OutputInv, ReportInv, Deadline, ssh
<1>3. ConnInv'
  BY DEF ConnInv, ExitInv, Deadline, ssh, TypeOK, SshInv, SshTypeOK, CallInv, Requests, Open, DrainLimit, StopInv
<1>4. ServeInv'
  BY SMT DEF ServeInv, TypeOK, ShuttingDown
<1>5. StopInv'
  BY DEF StopInv, TypeOK, SshTypeOK, DrainLimit, ssh
<1>6. ExitInv'
  BY SMT DEF ExitInv, TypeOK, Quiet, Requests, Open, ServeInv, ShuttingDown
<1>7. CleanExit'
  BY DEF CleanExit, ExitInv, StopInv, ServeInv, TypeOK, Quiet, Requests, Open
<1> QED BY <1>1, <1>2, <1>3, <1>4, <1>5, <1>6, <1>7

LEMMA DrainedKeeps == ASSUME Inv, Drained PROVE Inv'
<1> USE SshAssumption, LifecycleAssumption DEF Inv, Drained, Alive, server, asked, process
<1>1. TypeOK'
  BY DEF TypeOK, SshTypeOK, ssh, Requests, Open
<1>2. SshInv'
  BY DEF SshInv, SshTypeOK, CallInv, OutputInv, ReportInv, Deadline, ssh
<1>3. ConnInv'
  BY DEF ConnInv, ExitInv, Deadline, ssh, TypeOK, SshInv, SshTypeOK, CallInv, Requests, Open, DrainLimit, StopInv
<1>4. ServeInv'
  BY SMT DEF ServeInv, TypeOK, ShuttingDown
<1>5. StopInv'
  BY DEF StopInv, TypeOK, SshTypeOK, DrainLimit, ssh
<1>6. ExitInv'
  BY SMT DEF ExitInv, TypeOK, Quiet, Requests, Open, ServeInv, ShuttingDown
<1>7. CleanExit'
  BY DEF CleanExit, ExitInv, StopInv, ServeInv, TypeOK, Quiet, Requests, Open
<1> QED BY <1>1, <1>2, <1>3, <1>4, <1>5, <1>6, <1>7

LEMMA DrainTimesOutKeeps == ASSUME Inv, DrainTimesOut PROVE Inv'
<1> USE SshAssumption, LifecycleAssumption DEF Inv, DrainTimesOut, Alive, server, asked, process
<1>1. TypeOK'
  BY DEF TypeOK, SshTypeOK, ssh, Requests, Open
<1>2. SshInv'
  BY DEF SshInv, SshTypeOK, CallInv, OutputInv, ReportInv, Deadline, ssh
<1>3. ConnInv'
  BY DEF ConnInv, ExitInv, Deadline, ssh, TypeOK, SshInv, SshTypeOK, CallInv, Requests, Open, DrainLimit, StopInv
<1>4. ServeInv'
  BY SMT DEF ServeInv, TypeOK, ShuttingDown
<1>5. StopInv'
  BY DEF StopInv, TypeOK, SshTypeOK, DrainLimit, ssh
<1>6. ExitInv'
  BY SMT DEF ExitInv, TypeOK, Quiet, Requests, Open, ServeInv, ShuttingDown
<1>7. CleanExit'
  BY DEF CleanExit, ExitInv, StopInv, ServeInv, TypeOK, Quiet, Requests, Open
<1> QED BY <1>1, <1>2, <1>3, <1>4, <1>5, <1>6, <1>7

LEMMA ExitKeeps == ASSUME Inv, Exit PROVE Inv'
<1> USE SshAssumption, LifecycleAssumption DEF Inv, Exit, Alive, server, asked, process, Joined
<1>1. TypeOK'
  BY DEF TypeOK, SshTypeOK, ssh, Requests, Open
<1>2. SshInv'
  BY DEF SshInv, SshTypeOK, CallInv, OutputInv, ReportInv, Deadline, ssh
<1>3. ConnInv'
  BY DEF ConnInv, ExitInv, Deadline, ssh, TypeOK, SshInv, SshTypeOK, CallInv, Requests, Open, DrainLimit, StopInv
<1>4. ServeInv'
  BY SMT DEF ServeInv, TypeOK, ShuttingDown
<1>5. StopInv'
  BY DEF StopInv, TypeOK, SshTypeOK, DrainLimit, ssh
<1>6. ExitInv'
  BY SMT DEF ExitInv, TypeOK, Quiet, Requests, Open, ServeInv, ShuttingDown
<1>7. CleanExit'
  BY DEF CleanExit, ExitInv, StopInv, ServeInv, TypeOK, Quiet, Requests, Open
<1> QED BY <1>1, <1>2, <1>3, <1>4, <1>5, <1>6, <1>7

LEMMA AcceptKeeps == ASSUME Inv, NEW r \in Requests, Accept(r) PROVE Inv'
<1> USE SshAssumption, LifecycleAssumption DEF Inv, Accept, Alive, server, asked, process
<1>1. TypeOK'
  BY DEF TypeOK, SshTypeOK, ssh, Requests, Open
<1>2. SshInv'
  BY DEF SshInv, SshTypeOK, CallInv, OutputInv, ReportInv, Deadline, ssh
<1>3. ConnInv'
  BY DEF ConnInv, ExitInv, Deadline, ssh, TypeOK, SshInv, SshTypeOK, CallInv, Requests, Open, DrainLimit, StopInv
<1>4. ServeInv'
  BY SMT DEF ServeInv, TypeOK, ShuttingDown
<1>5. StopInv'
  BY DEF StopInv, TypeOK, SshTypeOK, DrainLimit, ssh
<1>6. ExitInv'
  BY SMT DEF ExitInv, TypeOK, Quiet, Requests, Open, ServeInv, ShuttingDown
<1>7. CleanExit'
  BY DEF CleanExit, ExitInv, StopInv, ServeInv, TypeOK, Quiet, Requests, Open
<1> QED BY <1>1, <1>2, <1>3, <1>4, <1>5, <1>6, <1>7

LEMMA DropKeeps == ASSUME Inv, NEW r \in Requests, Drop(r) PROVE Inv'
<1> USE SshAssumption, LifecycleAssumption DEF Inv, Drop, Alive, server, asked, process
<1>1. TypeOK'
  BY DEF TypeOK, SshTypeOK, ssh, Requests, Open
<1>2. SshInv'
  BY DEF SshInv, SshTypeOK, CallInv, OutputInv, ReportInv, Deadline, ssh
<1>3. ConnInv'
  BY DEF ConnInv, ExitInv, Deadline, ssh, TypeOK, SshInv, SshTypeOK, CallInv, Requests, Open, DrainLimit, StopInv
<1>4. ServeInv'
  BY SMT DEF ServeInv, TypeOK, ShuttingDown
<1>5. StopInv'
  BY DEF StopInv, TypeOK, SshTypeOK, DrainLimit, ssh
<1>6. ExitInv'
  BY SMT DEF ExitInv, TypeOK, Quiet, Requests, Open, ServeInv, ShuttingDown
<1>7. CleanExit'
  BY DEF CleanExit, ExitInv, StopInv, ServeInv, TypeOK, Quiet, Requests, Open
<1> QED BY <1>1, <1>2, <1>3, <1>4, <1>5, <1>6, <1>7

LEMMA AnswerKeeps == ASSUME Inv, NEW r \in Requests, Answer(r) PROVE Inv'
<1> USE SshAssumption, LifecycleAssumption DEF Inv, Answer, Alive, server, asked, process
<1>1. TypeOK'
  BY DEF TypeOK, SshTypeOK, ssh, Requests, Open
<1>2. SshInv'
  BY DEF SshInv, SshTypeOK, CallInv, OutputInv, ReportInv, Deadline, ssh
<1>3. ConnInv'
  BY DEF ConnInv, ExitInv, Deadline, ssh, TypeOK, SshInv, SshTypeOK, CallInv, Requests, Open, DrainLimit, StopInv
<1>4. ServeInv'
  BY SMT DEF ServeInv, TypeOK, ShuttingDown
<1>5. StopInv'
  BY DEF StopInv, TypeOK, SshTypeOK, DrainLimit, ssh
<1>6. ExitInv'
  BY SMT DEF ExitInv, TypeOK, Quiet, Requests, Open, ServeInv, ShuttingDown
<1>7. CleanExit'
  BY DEF CleanExit, ExitInv, StopInv, ServeInv, TypeOK, Quiet, Requests, Open
<1> QED BY <1>1, <1>2, <1>3, <1>4, <1>5, <1>6, <1>7

LEMMA HandleKeeps == ASSUME Inv, NEW r \in Requests, Handle(r) PROVE Inv'
<1> USE SshAssumption, LifecycleAssumption DEF Inv, Handle, Alive, server, asked, process
<1>1. SshInv'
  <2>1. CASE r \in Calls
    BY <2>1, BeginKeeps
  <2>2. CASE r \notin Calls
    BY <2>2 DEF SshInv, SshTypeOK, CallInv, OutputInv, ReportInv, Deadline, ssh
  <2> QED BY <2>1, <2>2
<1>2. began' = began /\ clock' = clock
  BY DEF Begin, ssh
<1>3. TypeOK'
  BY <1>1 DEF TypeOK, SshInv, Requests, Open, SshTypeOK
<1>4. ConnInv'
  <2>1. ASSUME NEW c \in Calls, r = c PROVE began[c] = Never
    BY <2>1 DEF ConnInv, SshInv, CallInv, Open
  <2>2. ASSUME NEW c \in Calls, r # c PROVE call'[c] = call[c] /\ conn'[c] = conn[c]
    BY <2>2 DEF Begin, ssh, TypeOK, SshTypeOK, Requests
  <2>3. conn'[r] = "handling"
    BY DEF TypeOK
  <2> QED BY <1>2, <2>1, <2>2, <2>3 DEF ConnInv, Deadline
<1>5. ServeInv' /\ StopInv'
  BY <1>2 DEF ServeInv, StopInv, DrainLimit
<1>6. ExitInv'
  BY DEF ExitInv, TypeOK, Quiet, Requests, Open
<1>7. CleanExit'
  BY DEF CleanExit, ExitInv, TypeOK
<1> QED BY <1>1, <1>3, <1>4, <1>5, <1>6, <1>7

\* A step of a call: its clock and the calls of others stay, and it dials now
\* if it dials.
LEMMA CallStepKeeps ==
    ASSUME SshInv, NEW c \in Calls, CallStep(c)
    PROVE  /\ SshInv'
           /\ clock' = clock
           /\ call[c] # "idle"
           /\ \A d \in Calls : d # c => call'[d] = call[d] /\ began'[d] = began[d]
           /\ began'[c] = began[c] \/ (began[c] = Never /\ began'[c] = clock)
<1> USE DEF CallStep
<1>1. SshInv'
  BY PrepareKeeps, ExpireKeeps, DialledKeeps, SetDeadlineKeeps, OpenedKeeps, ConnectFailsKeeps,
     CommandStartsKeeps, WriteKeeps, CommandEndsKeeps, RunReturnsKeeps, ReportKeeps
<1>2. call \in [Calls -> {"idle", "preparing", "returned"} \cup UnderWay]
      /\ began \in [Calls -> 0..MaxTime \cup {Never}]
  BY DEF SshInv, SshTypeOK
<1>3. CASE Prepare(c)
  <2>1. call[c] = "preparing" /\ began[c] = Never
    BY <1>3 DEF Prepare, SshInv, CallInv
  <2> QED BY <1>1, <1>2, <1>3, <2>1 DEF Prepare, Return
<1>4. CASE ~Prepare(c)
  BY <1>1, <1>2, <1>4 DEF Expire, Dialled, SetDeadline, Opened, ConnectFails, CommandStarts, Write,
     CommandEnds, RunReturns, Report, Return, UnderWay, Waiting, Connecting, OnConnection
<1> QED BY <1>3, <1>4

LEMMA ProgressKeeps == ASSUME Inv, NEW c \in Calls, Progress(c) PROVE Inv'
<1> USE SshAssumption, LifecycleAssumption DEF Inv, Progress, Alive, server, asked, process
<1>1. /\ SshInv'
      /\ clock' = clock
      /\ call[c] # "idle"
      /\ \A d \in Calls : d # c => call'[d] = call[d] /\ began'[d] = began[d]
      /\ began'[c] = began[c] \/ (began[c] = Never /\ began'[c] = clock)
  BY CallStepKeeps
<1>2. TypeOK'
  BY <1>1 DEF TypeOK, SshInv
<1>3. ConnInv'
  <2>1. SshTypeOK /\ drainStart \in 0..MaxTime \cup {Never}
    BY DEF TypeOK
  <2>2. drainStart # Never => drainStart <= clock
    BY DEF StopInv
  <2>3. ASSUME NEW d \in Calls, d # c PROVE Deadline(d)' = Deadline(d)
    BY <1>1, <2>3 DEF Deadline
  <2>4. Deadline(c)' = began'[c] + SshTimeout
    BY DEF Deadline
  <2> QED BY <1>1, <2>1, <2>2, <2>3, <2>4 DEF ConnInv, Deadline, SshTypeOK
<1>4. ServeInv' /\ StopInv'
  BY <1>1 DEF ServeInv, StopInv, DrainLimit
<1>5. ExitInv' /\ CleanExit'
  BY DEF ExitInv, Quiet, CleanExit
<1> QED BY <1>1, <1>2, <1>3, <1>4, <1>5

LEMMA TickKeeps == ASSUME Inv, Tick PROVE Inv'
<1> USE SshAssumption, LifecycleAssumption DEF Inv, Tick, Alive, server, asked, process
<1>1. /\ clock \in Nat /\ clock' = clock + 1 /\ clock' \in 0..MaxTime
      /\ \A c \in Calls : began[c] # Never => began[c] \in Nat
      /\ drainStart # Never => drainStart \in Nat
      /\ signalled # Never => signalled \in Nat
  BY DEF TypeOK, SshTypeOK
<1>2. ASSUME NEW c \in Calls, call[c] \in UnderWay PROVE clock < Deadline(c)
  <2>1. MayWait(c) /\ (clock >= Deadline(c) => expired[c])
    BY <1>2 DEF AtRest, CallAtRest, UnderWay, Waiting, Connecting, OnConnection
  <2>2. CallInv(c) /\ Deadline(c) \in Nat
    BY <1>1, <1>2 DEF SshInv, CallInv, Deadline
  <2>3. CASE call[c] = "dialing"
    BY <1>1, <2>1, <2>2, <2>3 DEF MayWait, OnConnection
  <2>4. CASE call[c] \in OnConnection
    <3>1. limit[c] = Deadline(c) /\ limit[c] # Never
      BY <2>2, <2>4 DEF CallInv
    <3> QED BY <2>1, <2>4, <3>1 DEF MayWait, OnConnection
  <2> QED BY <2>1, <2>3, <2>4 DEF MayWait
<1>3. ASSUME NEW c \in Calls, conn[c] = "handling", began[c] # Never PROVE call[c] \in UnderWay
  BY <1>3 DEF AtRest, SshInv, SshTypeOK, CallInv
<1>4. TypeOK'
  BY <1>1 DEF TypeOK, SshTypeOK
<1>5. SshInv'
  <2>1. ASSUME NEW c \in Calls PROVE CallInv(c)'
    BY <1>1, <1>2 DEF SshInv, CallInv, Deadline
  <2>2. ASSUME NEW c \in Calls PROVE OutputInv(c)' /\ ReportInv(c)'
    BY DEF SshInv, OutputInv, ReportInv
  <2> QED BY <1>4, <2>1, <2>2 DEF TypeOK, SshInv
<1>6. ConnInv'
  BY <1>1, <1>2, <1>3 DEF ConnInv, Deadline
<1>7. ServeInv' /\ ExitInv' /\ CleanExit'
  BY DEF ServeInv, ExitInv, Quiet, CleanExit
<1>8. StopInv'
  <2>1. main = "selecting" => ~cancelled
    BY DEF AtRest
  <2>2. main \notin {"failing", "finishing"}
    BY DEF AtRest, StopInv
  <2>3. main = "draining" => clock < DrainLimit
    BY DEF AtRest
  <2> QED BY <1>1, <2>1, <2>2, <2>3 DEF StopInv, DrainLimit
<1> QED BY <1>4, <1>5, <1>6, <1>7, <1>8

-----------------------------------------------------------------------------
(* The theorems                                                            *)

LEMMA InitInv == Init => Inv
<1> SUFFICES ASSUME Init PROVE Inv
  OBVIOUS
<1> USE SshAssumption, LifecycleAssumption DEF Init, SshInit
<1>1. SshTypeOK
  BY DEF SshTypeOK, Reports
<1>2. TypeOK
  <2>1. conn \in [Requests -> {"none", "gone", "answered", "cut"} \cup Open]
    OBVIOUS
  <2>2. signals \in 0..MaxSignals /\ signalled = Never /\ drainStart = Never
    OBVIOUS
  <2> QED BY <1>1, <2>1, <2>2 DEF TypeOK
<1>3. SshInv
  BY <1>1 DEF SshInv, CallInv, OutputInv, ReportInv, UnderWay, Waiting, Connecting, OnConnection
<1>4. ConnInv /\ ServeInv /\ StopInv /\ ExitInv /\ CleanExit
  BY DEF ConnInv, ServeInv, StopInv, ExitInv, CleanExit, Requests
<1> QED BY <1>2, <1>3, <1>4 DEF Inv

LEMMA StepInv == Inv /\ [Next]_vars => Inv'
<1> SUFFICES ASSUME Inv, [Next]_vars PROVE Inv'
  OBVIOUS
<1>1. CASE UNCHANGED vars
  <2> USE <1>1 DEF vars, ssh, process, asked, server, Inv
  <2>1. TypeOK' /\ SshTypeOK'
    BY DEF TypeOK, SshTypeOK
  <2>2. SshInv'
    BY <2>1 DEF SshInv, CallInv, OutputInv, ReportInv, Deadline
  <2>3. ConnInv' /\ ServeInv' /\ StopInv'
    BY DEF ConnInv, Deadline, ServeInv, StopInv, DrainLimit
  <2>4. ExitInv' /\ CleanExit'
    BY DEF ExitInv, Quiet, CleanExit
  <2> QED BY <2>1, <2>2, <2>3, <2>4
<1>2. CASE Signal \/ MonitorStops \/ Main
  BY <1>2, SignalKeeps, MonitorStopsKeeps, SelectErrorKeeps, SelectSignalKeeps,
     DrainedKeeps, DrainTimesOutKeeps, ExitKeeps DEF Main
<1>3. CASE Serving \/ ServeReturns("failed")
  BY <1>3, ListenKeeps, ServeReturnsKeeps DEF Serving
<1>4. CASE Tick
  BY <1>4, TickKeeps
<1>5. ASSUME NEW r \in Requests, Request(r) PROVE Inv'
  BY <1>5, AcceptKeeps, DropKeeps, HandleKeeps, AnswerKeeps DEF Request
<1>6. ASSUME NEW c \in Calls, Progress(c) PROVE Inv'
  BY <1>6, ProgressKeeps
<1> QED BY <1>1, <1>2, <1>3, <1>4, <1>5, <1>6 DEF Next

\* The invariant that the steps keep.
THEOREM Invariance == Spec => []Inv
BY InitInv, StepInv, PTL DEF Spec

\* Every variable of the server and of its remote shutdowns keeps its type.
THEOREM TypeCorrect == Spec => []TypeOK
<1>1. Inv => TypeOK
  BY DEF Inv
<1> QED BY <1>1, Invariance, PTL

\* A remote shutdown that was under way when the process was asked to stop is
\* waited for: Shutdown cuts only those begun later.
THEOREM EarlyRequestsAreAnswered == Spec => []OnlyLateRequestsAreCut
<1>1. Inv => OnlyLateRequestsAreCut
  BY DEF Inv, ConnInv, OnlyLateRequestsAreCut
<1> QED BY <1>1, Invariance, PTL

\* A process asked to stop is gone ShutdownTimeout later.
THEOREM StopsInTimeTheorem == Spec => []StopsInTime
<1>1. Inv => StopsInTime
  <2> SUFFICES ASSUME Inv, Alive, signalled # Never
               PROVE  clock <= signalled + ShutdownTimeout
    BY DEF StopsInTime
  <2>1. clock \in Nat /\ signalled \in Nat /\ ShutdownTimeout \in Nat
    BY LifecycleAssumption DEF Inv, TypeOK, SshTypeOK
  <2>2. main \in {"selecting", "draining", "finishing", "failing"}
    BY DEF Inv, TypeOK, ExitInv, Alive
  <2>3. StopInv
    BY DEF Inv
  <2>4. CASE main = "selecting"
    BY <2>1, <2>3, <2>4 DEF StopInv
  <2>5. CASE main \in {"draining", "finishing"}
    BY <2>1, <2>3, <2>5 DEF StopInv, DrainLimit
  <2>6. CASE main = "failing"
    BY <2>3, <2>6 DEF StopInv
  <2> QED BY <2>2, <2>4, <2>5, <2>6
<1> QED BY <1>1, Invariance, PTL

\* Status 0 says that nothing was cut short.
THEOREM CleanExitTheorem == Spec => []CleanExit
<1>1. Inv => CleanExit
  BY DEF Inv
<1> QED BY <1>1, Invariance, PTL

\* The report of remoteShutdown is true.
THEOREM ReportTheorem == Spec => []ReportIsTrue
<1>1. Inv => ReportIsTrue
  BY Zenon DEF Inv, SshInv, ReportInv, ReportIsTrue
<1> QED BY <1>1, Invariance, PTL

\* sshOutputCounter misses nothing, in however many pieces it comes.
THEOREM CounterTheorem == Spec => []OutputCounted
<1>1. ASSUME NEW c \in Calls, OutputInv(c)
      PROVE  IF printed[c] > OutputLimit THEN counter[c].exceeded
             ELSE counter[c] = [bytes |-> printed[c], exceeded |-> FALSE]
  BY <1>1, FlagIsOutput DEF OutputInv
<1>2. Inv => OutputCounted
  BY <1>1 DEF Inv, SshInv, OutputCounted
<1> QED BY <1>2, Invariance, PTL

\* Every remoteShutdown has returned SshTimeout after it began to dial: the
\* timer of its context keeps the dial to that, the deadline of its connection
\* all that comes after it.
THEOREM DeadlineTheorem == Spec => []ReturnsByItsDeadline
<1>1. Inv => ReturnsByItsDeadline
  BY DEF Inv, SshInv, CallInv, Deadline, ReturnsByItsDeadline
<1> QED BY <1>1, Invariance, PTL

=============================================================================
