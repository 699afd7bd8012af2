----------------------------- MODULE Bootstrap -----------------------------
(***************************************************************************)
(* The files the program makes on its first start (config/bootstrap.go,    *)
(* auth/auth.go LoadJWTSecret, main.go), with INITIALIZE_DATA=true and     *)
(* neither JWT_SECRET nor JWT_SECRET_FILE: the deployment of               *)
(* docker-compose.yml.  Processes start together (the server, -adduser, a  *)
(* container that replaces another), fail, are killed and start again.     *)
(*                                                                         *)
(* A step is a system call.  A write of so few bytes is not seen half      *)
(* done, but may fail half way.                                            *)
(***************************************************************************)
CONSTANTS
    Processes,
    Secrets,     \* outcomes of rand.Read, none of which comes twice (bound)
    EmptyList,   \* the hosts.yaml the program writes: "[]"
    TheirHosts,  \* a hosts.yaml somebody else provides
    Absent,      \* no such file
    Useless      \* content that is empty, too short or mixed up: not accepted

VARIABLES
    hosts,    \* data/hosts.yaml
    edited,   \* the processes whose new hosts.yaml, still open, was edited or replaced
    jwt,      \* data/jwt_secret
    proc,     \* where each process is, and the secret it holds
    drawn,    \* the secrets drawn so far for a new file
    used,     \* history: secrets a server has run with
    ioError,  \* history: a write or a close has failed
    killed    \* history: a process was killed while starting

files == <<hosts, jwt>>
vars == <<hosts, edited, jwt, proc, drawn, used, ioError, killed>>

\* A prefix of a secret that is long enough passes for a secret.
Whole(s) == [secret |-> s, whole |-> TRUE]
Prefix(s) == [secret |-> s, whole |-> FALSE]
Secret == [secret : Secrets, whole : BOOLEAN]
None == [secret |-> Absent, whole |-> FALSE]

ASSUME ContentAssumption ==
    /\ Absent # Useless
    /\ {Absent, Useless, EmptyList} \cap Secret = {}
    /\ TheirHosts \notin {Absent, Useless, EmptyList}

MakingHosts == {"writing hosts", "closing hosts", "removing hosts"}
Stages == MakingHosts \cup
    {"down", "hosts", "secret", "creating", "writing", "closing", "removing", "again", "serving"}

TypeOK ==
    /\ hosts \in {Absent, Useless, EmptyList, TheirHosts}
    /\ edited \subseteq Processes
    /\ jwt \in {Absent, Useless} \cup Secret
    /\ proc \in [Processes -> [at : Stages, holds : Secret \cup {None}]]
    /\ drawn \subseteq Secrets
    /\ used \subseteq Secret
    /\ ioError \in BOOLEAN
    /\ killed \in BOOLEAN

Init ==
    /\ hosts \in {Absent, TheirHosts}
    /\ edited = {}
    /\ jwt = Absent
    /\ proc = [p \in Processes |-> [at |-> "down", holds |-> None]]
    /\ drawn = {}
    /\ used = {}
    /\ ioError = FALSE
    /\ killed = FALSE

At(p, stage) == proc[p].at = stage
GoTo(p, stage) == proc' = [proc EXCEPT ![p].at = stage]
Down(p) == proc' = [proc EXCEPT ![p] = [at |-> "down", holds |-> None]]

-----------------------------------------------------------------------------
(* EnsureInitialHosts                                                      *)

Start(p) ==
    /\ At(p, "down")
    /\ GoTo(p, "hosts")
    /\ UNCHANGED <<files, edited, drawn, used, ioError, killed>>

TruncateBug(content) == TRUE

\* O_CREATE|O_EXCL succeeds.
Creates(content) == content = Absent

OpenHosts(p) ==
    /\ At(p, "hosts")
    /\ IF Creates(hosts)
       THEN hosts' = Useless /\ GoTo(p, "writing hosts")
       ELSE UNCHANGED hosts /\ GoTo(p, "secret")
    /\ UNCHANGED <<edited, jwt, drawn, used, ioError, killed>>

\* What an administrator has put in place meanwhile is another file, which
\* the write does not reach, or is the same and loses its first bytes to it.
WriteHosts(p) ==
    /\ At(p, "writing hosts")
    /\ hosts' \in IF p \in edited THEN {hosts, Useless} ELSE {EmptyList}
    /\ GoTo(p, "closing hosts")
    /\ UNCHANGED <<edited, jwt, drawn, used, ioError, killed>>

CloseHosts(p) ==
    /\ At(p, "closing hosts")
    /\ GoTo(p, "secret")
    /\ edited' = edited \ {p}
    /\ UNCHANGED <<files, drawn, used, ioError, killed>>

\* The process then removes what it has made, which may fail too, and ends.
HostsFail(p) ==
    /\ \/ /\ At(p, "writing hosts")
          /\ hosts' \in IF p \in edited THEN {hosts, Useless} ELSE {Useless, EmptyList}
       \/ At(p, "closing hosts") /\ UNCHANGED hosts
    /\ GoTo(p, "removing hosts")
    /\ ioError' = TRUE
    /\ UNCHANGED <<edited, jwt, drawn, used, killed>>

\* By its path: whatever is there by now.
RemoveHosts(p) ==
    /\ At(p, "removing hosts")
    /\ hosts' \in {hosts, Absent}
    /\ Down(p)
    /\ edited' = edited \ {p}
    /\ UNCHANGED <<jwt, drawn, used, ioError, killed>>

-----------------------------------------------------------------------------
(* LoadJWTSecret                                                           *)

\* What passes the checks of LoadJWTSecret is used to sign from then on.
Serve(p, content) ==
    IF content \in Secret
    THEN /\ proc' = [proc EXCEPT ![p] = [at |-> "serving", holds |-> content]]
         /\ used' = used \cup {content}
    ELSE Down(p) /\ UNCHANGED used

MissingIsFatalBug(content) == FALSE

Missing(content) == content = Absent

ReadSecret(p) ==
    /\ At(p, "secret")
    /\ IF Missing(jwt) THEN GoTo(p, "creating") /\ UNCHANGED used ELSE Serve(p, jwt)
    /\ UNCHANGED <<files, edited, drawn, ioError, killed>>

\* The secret drawn is of no use when another process has made the file.
CreateSecret(p) ==
    /\ At(p, "creating")
    /\ IF Creates(jwt)
       THEN \E s \in Secrets \ drawn :
                /\ drawn' = drawn \cup {s}
                /\ jwt' = Useless
                /\ proc' = [proc EXCEPT ![p] = [at |-> "writing", holds |-> Whole(s)]]
       ELSE UNCHANGED <<drawn, jwt>> /\ GoTo(p, "again")
    /\ UNCHANGED <<hosts, edited, used, ioError, killed>>

\* The file of the other process may be gone by now: then this one ends too.
ReadAgain(p) ==
    /\ At(p, "again")
    /\ Serve(p, jwt)
    /\ UNCHANGED <<files, edited, drawn, ioError, killed>>

WriteSecret(p) ==
    /\ At(p, "writing")
    /\ jwt' = proc[p].holds
    /\ GoTo(p, "closing")
    /\ UNCHANGED <<hosts, edited, drawn, used, ioError, killed>>

CloseSecret(p) ==
    /\ At(p, "closing")
    /\ Serve(p, proc[p].holds)
    /\ UNCHANGED <<files, edited, drawn, ioError, killed>>

\* What a failed write has left, and what a failed close has not taken back,
\* can be read until the file is removed.
SecretFails(p) ==
    /\ \/ At(p, "writing") /\ jwt' \in {jwt, Prefix(proc[p].holds.secret)}
       \/ At(p, "closing") /\ UNCHANGED jwt
    /\ GoTo(p, "removing")
    /\ ioError' = TRUE
    /\ UNCHANGED <<hosts, edited, drawn, used, killed>>

RemoveSecret(p) ==
    /\ At(p, "removing")
    /\ jwt' \in {jwt, Absent}
    /\ Down(p)
    /\ UNCHANGED <<hosts, edited, drawn, used, ioError, killed>>

-----------------------------------------------------------------------------
(* Everything else                                                         *)

\* A kill, a failed open or read: the process ends where it is.
Kill(p) ==
    /\ ~At(p, "down")
    /\ Down(p)
    /\ edited' = edited \ {p}
    /\ killed' = (killed \/ ~At(p, "serving"))
    /\ UNCHANGED <<files, drawn, used, ioError>>

\* An administrator edits the host list where it is or puts another in its
\* place, at any time: also while a process makes it.
EditHosts ==
    /\ hosts' = TheirHosts
    /\ edited' = {p \in Processes : proc[p].at \in MakingHosts}
    /\ UNCHANGED <<jwt, proc, drawn, used, ioError, killed>>

\* With everything stopped, an administrator removes a secret file that the
\* program does not accept.
Repair ==
    /\ \A p \in Processes : At(p, "down")
    /\ jwt = Useless
    /\ jwt' = Absent
    /\ UNCHANGED <<hosts, edited, proc, drawn, used, ioError, killed>>

Run(p) ==
    \/ OpenHosts(p)
    \/ WriteHosts(p)
    \/ CloseHosts(p)
    \/ ReadSecret(p)
    \/ CreateSecret(p)
    \/ ReadAgain(p)
    \/ WriteSecret(p)
    \/ CloseSecret(p)

Next ==
    \/ \E p \in Processes :
        \/ Start(p)
        \/ Run(p)
        \/ HostsFail(p)
        \/ RemoveHosts(p)
        \/ SecretFails(p)
        \/ RemoveSecret(p)
        \/ Kill(p)
    \/ EditHosts
    \/ Repair

Spec == Init /\ [][Next]_vars

\* docker-compose.yml has "restart: unless-stopped" (a command that failed is
\* given again), and a process that runs comes to its next system call.
FairSpec == Spec /\ \A p \in Processes : WF_vars(Start(p)) /\ WF_vars(Run(p))

-----------------------------------------------------------------------------
(* Properties                                                              *)

\* README.md:73: the volume "contains the users, database, device
\* configuration, signing secret": sessions outlive restarts.  Whichever
\* processes start together and wherever they are killed, a secret that was
\* ever used is the one stored now, so that it is the only one.  It takes a
\* failing write or close, after another process has read the file, to lose
\* it (auth.go:94-102).
SecretIsForEver == ~ioError => \A s \in used : jwt = s

\* bootstrap.go:9: "Existing configuration, including invalid configuration,
\* is never replaced".  Whichever processes start together, fail or are
\* killed, only one that found no file, and still makes it, changes what is
\* there, and it hurts an administrator's list only if that was put there
\* while it did: from then on write, close and removal do not look again.
HostsNeverReplaced ==
    [][hosts # Absent /\ hosts' # hosts =>
          \/ hosts' = TheirHosts
          \/ \E p \in Processes :
                /\ proc[p].at \in MakingHosts
                /\ hosts = TheirHosts => p \in edited]_vars

\* README.md:66-73: the first start makes what the program needs.  Unless
\* something fails or is edited while it is made, every process comes to
\* serve, with a host list it can read, although one that reads the secret
\* file before it is written ends and has to be started again.
StartupSucceeds ==
    \A p \in Processes :
        []~(ioError \/ killed \/ edited # {}) =>
            <>(At(p, "serving") /\ hosts \in {EmptyList, TheirHosts})

=============================================================================
