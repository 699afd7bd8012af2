----------------------------- MODULE HostsLoader -----------------------------
(***************************************************************************)
(* The cached reader of hosts.yaml (backend/internal/config/loader.go).    *)
(*                                                                         *)
(* The mutex lets one call run at a time; between the system calls of a    *)
(* call, whoever edits the files may do anything to them.  The content of  *)
(* a file is represented by what ParseHosts makes of it, a list of hosts   *)
(* or Invalid: a save seen half way is one more content.  The stamp stands *)
(* for modification time and size.  The working directory of the server    *)
(* never changes.                                                          *)
(***************************************************************************)
EXTENDS Integers

CONSTANTS
    Lists,    \* the host lists that occur in the files
    Invalid,  \* a content ParseHosts rejects
    NoList,   \* no list: LoadHosts has never succeeded
    MaxStamp  \* bound: stamps given to one file

ASSUME LoaderAssumption ==
    /\ Invalid \notin Lists /\ NoList \notin Lists /\ NoList # Invalid
    /\ MaxStamp \in Nat

Paths == {"data", "../data"}

VARIABLES
    file,       \* the file at each path
    lastStamp,  \* the last stamp given out at each path
    ambiguous,  \* history: it was given to more than one content
    loader,     \* the fields of Loader
    call,       \* the call that holds the mutex
    answer,     \* what the last call returned
    quiet       \* history: no file has changed since the last call began

fileVars == <<file, lastStamp, ambiguous>>
loaderVars == <<fileVars, loader, call, answer, quiet>>

Stamps == 0..MaxStamp
NotRegular == [kind : {"absent", "special"}]
Regular == [kind : {"regular"}, stamp : Stamps, content : Lists \cup {Invalid}, readable : BOOLEAN]

Loader == [path : Paths \cup {""}, stamp : Stamps, checked : BOOLEAN,
           hosts : Lists \cup {NoList}, reloadError : BOOLEAN]

NoCall == [stage |-> "none"]
Call == [stage : {"fallback"}]
            \cup [stage : {"statted"}, path : Paths, info : Regular \cup NotRegular]
            \cup [stage : {"read"}, path : Paths, stamp : Stamps, data : Lists \cup {Invalid, NoList}]

Answer == [hosts : Lists \cup {NoList}, error : BOOLEAN]

LoaderTypeOK ==
    /\ file \in [Paths -> Regular \cup NotRegular]
    /\ lastStamp \in [Paths -> Stamps]
    /\ ambiguous \in [Paths -> BOOLEAN]
    /\ loader \in Loader
    /\ call \in Call \cup {NoCall}
    /\ answer \in Answer
    /\ quiet \in BOOLEAN

LoaderInit ==
    /\ file \in [Paths -> NotRegular \cup
                     [kind : {"regular"}, stamp : {0}, content : Lists \cup {Invalid}, readable : {TRUE}]]
    /\ lastStamp = [p \in Paths |-> 0]
    /\ ambiguous = [p \in Paths |-> FALSE]
    /\ loader = [path |-> "", stamp |-> 0, checked |-> FALSE, hosts |-> NoList, reloadError |-> FALSE]
    /\ call = NoCall
    /\ answer = [hosts |-> NoList, error |-> FALSE]
    /\ quiet = FALSE

-----------------------------------------------------------------------------
(* LoadHostsWithStatus                                                     *)

Return(hosts, error) ==
    /\ answer' = [hosts |-> hosts, error |-> error]
    /\ call' = NoCall

\* The file could not be looked at: keep the list, look again next time.
Fail ==
    /\ loader' = [loader EXCEPT !.reloadError = TRUE, !.checked = FALSE]
    /\ Return(loader.hosts, TRUE)

\* os.Stat fails only on a missing file; a directory has a stat.
StatData ==
    /\ call = NoCall
    /\ quiet' = TRUE
    /\ call' = IF file["data"].kind = "absent"
               THEN [stage |-> "fallback"]
               ELSE [stage |-> "statted", path |-> "data", info |-> file["data"]]
    /\ UNCHANGED <<fileVars, loader, answer>>

StatFallback ==
    /\ call.stage = "fallback"
    /\ \/ /\ file["../data"].kind = "absent"
          /\ Fail
       \/ /\ file["../data"].kind # "absent"
          /\ call' = [stage |-> "statted", path |-> "../data", info |-> file["../data"]]
          /\ UNCHANGED <<loader, answer>>
    /\ UNCHANGED <<fileVars, quiet>>

RejectSpecial ==
    /\ call.stage = "statted"
    /\ call.info.kind # "regular"
    /\ Fail
    /\ UNCHANGED <<fileVars, quiet>>

CachedErrorBug == FALSE

CachedError == loader.reloadError

\* The file is the one that was examined last.
Unchanged(c) ==
    loader.checked /\ loader.path = c.path /\ loader.stamp = c.info.stamp

ReturnCached ==
    /\ call.stage = "statted"
    /\ call.info.kind = "regular"
    /\ Unchanged(call)
    /\ Return(loader.hosts, CachedError)
    /\ UNCHANGED <<fileVars, loader, quiet>>

\* What os.ReadFile makes of the path now, NoList for an error.
DataAt(p) ==
    IF file[p].kind = "regular" /\ file[p].readable THEN file[p].content ELSE NoList

ReadFile ==
    /\ call.stage = "statted"
    /\ call.info.kind = "regular"
    /\ ~Unchanged(call)
    /\ call' = [stage |-> "read", path |-> call.path, stamp |-> call.info.stamp,
                data |-> DataAt(call.path)]
    /\ UNCHANGED <<fileVars, loader, answer, quiet>>

RecordedStampBug(c) ==
    IF file[c.path].kind = "regular" THEN file[c.path].stamp ELSE c.stamp

\* The stamp kept is the one from before the read.
RecordedStamp(c) == c.stamp

\* A file that cannot be read is read again next time: a later chmod changes
\* neither its time nor its size.
CheckedAfter(data) == data # NoList

HostsDroppedBug(data) == IF data \in Lists THEN data ELSE NoList

HostsAfter(data) == IF data \in Lists THEN data ELSE loader.hosts

Finish ==
    /\ call.stage = "read"
    /\ loader' = [path |-> call.path, stamp |-> RecordedStamp(call),
                  checked |-> CheckedAfter(call.data),
                  hosts |-> HostsAfter(call.data),
                  reloadError |-> call.data \notin Lists]
    /\ Return(HostsAfter(call.data), call.data \notin Lists)
    /\ UNCHANGED <<fileVars, quiet>>

-----------------------------------------------------------------------------
(* Whoever edits the files                                                 *)

Change(p, f) ==
    /\ file' = [file EXCEPT ![p] = f]
    /\ quiet' = FALSE
    /\ UNCHANGED <<loader, call, answer>>

\* A write in place, a step of one, or a new file moved over the old.  One
\* that keeps size and modification time, or comes within the resolution of
\* the clock of the file system, keeps the stamp.
Write(p) ==
    \E s \in {lastStamp[p], lastStamp[p] + 1} \cap Stamps,
       c \in Lists \cup {Invalid}, r \in BOOLEAN :
        /\ Change(p, [kind |-> "regular", stamp |-> s, content |-> c, readable |-> r])
        /\ lastStamp' = [lastStamp EXCEPT ![p] = s]
        /\ ambiguous' = [ambiguous EXCEPT ![p] = (s = lastStamp[p])]

\* chown and chmod, which README.md:183-184 prescribes after an upload.
Chmod(p) ==
    /\ file[p].kind = "regular"
    /\ Change(p, [file[p] EXCEPT !.readable = ~@])
    /\ UNCHANGED <<lastStamp, ambiguous>>

Replace(p) ==
    /\ \E k \in {"absent", "special"} : k # file[p].kind /\ Change(p, [kind |-> k])
    /\ UNCHANGED <<lastStamp, ambiguous>>

LoaderNext ==
    \/ StatData
    \/ StatFallback
    \/ RejectSpecial
    \/ ReturnCached
    \/ ReadFile
    \/ Finish
    \/ \E p \in Paths : Write(p) \/ Chmod(p) \/ Replace(p)

LoaderSpec == LoaderInit /\ [][LoaderNext]_loaderVars

-----------------------------------------------------------------------------
(* Properties                                                              *)

CurrentPath == IF file["data"].kind = "absent" THEN "../data" ELSE "data"
Current == file[CurrentPath]

CurrentIsValid ==
    Current.kind = "regular" /\ Current.readable /\ Current.content \in Lists

\* A call during which nobody touches the files has just returned, and the
\* stamp of the file tells its content from those before it.
QuietCall == call = NoCall /\ quiet /\ ~ambiguous[CurrentPath]

\* README.md:187: "SecureSwitch reloads `hosts.yaml` automatically."  A call
\* that runs after the last edit returns the list that is in the file, in
\* spite of the cache and of whatever earlier calls saw of the edits.  It
\* need not when an edit kept size and modification time (loader.go:67-70),
\* until the next one that does not.
QuietFileIsServed == QuietCall /\ CurrentIsValid => answer.hosts = Current.content

\* README.md:194: the health check reports a configuration failure exactly
\* when the file is missing or its YAML is invalid, also when the answer comes
\* from the cache.  (Of a file that lost its read permission after it was
\* read, the loader learns nothing until the file changes.)
HealthTellsTheTruth ==
    QuietCall /\ (Current.kind = "regular" => Current.readable) =>
        (answer.error <=> ~CurrentIsValid)

\* README.md:194: "the last valid device list remains available": a reload
\* that fails returns the list of the call before it.
FailureKeepsTheList ==
    [][answer' # answer /\ answer'.error => answer'.hosts = answer.hosts]_loaderVars

=============================================================================
