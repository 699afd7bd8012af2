---------------------------- MODULE ConfigProofs ----------------------------
(***************************************************************************)
(* Proofs about the two modules of package config.                         *)
(*                                                                         *)
(* Bootstrap, for any sets of processes and secrets.  While no write and   *)
(* no close fails, the secret file goes from absent to empty to a secret:  *)
(* O_EXCL lets one process at a time be its author, and a file that is     *)
(* still empty, or left so by a kill, has been used by none.               *)
(*                                                                         *)
(* HostsLoader, for all lists, and however the files are edited: what the  *)
(* cache and the call hold stands for what is in the file, as long as the  *)
(* file has the stamp they were taken with.                                *)
(***************************************************************************)
EXTENDS Bootstrap, HostsLoader, TLAPS

-----------------------------------------------------------------------------
(* Bootstrap: the inductive invariant                                      *)

\* A process that is writing has an empty file before it, and is alone.
OneAuthor ==
    \A p \in Processes :
        At(p, "writing") =>
            /\ jwt = Useless
            /\ \A q \in Processes : At(q, "writing") => q = p

\* What was written is stored before it is used.
StoredFirst == \A p \in Processes : At(p, "closing") => jwt = proc[p].holds

NothingToRemove == \A p \in Processes : ~At(p, "removing")

UsedIsStored == \A s \in used : jwt = s

\* An author holds the secret it is about to store.
AuthorsHold == \A p \in Processes : At(p, "writing") \/ At(p, "closing") => proc[p].holds \in Secret

IInv ==
    /\ TypeOK
    /\ AuthorsHold
    /\ ~ioError => OneAuthor /\ StoredFirst /\ NothingToRemove /\ UsedIsStored

Process == [at : Stages, holds : Secret \cup {None}]

-----------------------------------------------------------------------------
(* The steps of a process                                                  *)

LEMMA GoToType ==
    ASSUME TypeOK, NEW p \in Processes, NEW stage \in Stages, GoTo(p, stage)
    PROVE  /\ proc' \in [Processes -> Process]
           /\ proc'[p] = [at |-> stage, holds |-> proc[p].holds]
           /\ \A q \in Processes : q # p => proc'[q] = proc[q]
<1>1. proc \in [Processes -> Process] /\ proc[p] \in Process
  BY DEF TypeOK, Process
<1>2. [proc[p] EXCEPT !.at = stage] = [at |-> stage, holds |-> proc[p].holds]
  BY <1>1 DEF Process
<1>3. [at |-> stage, holds |-> proc[p].holds] \in Process
  BY <1>1 DEF Process
<1> QED BY <1>1, <1>2, <1>3 DEF GoTo

LEMMA BecomesType ==
    ASSUME TypeOK, NEW p \in Processes, NEW r \in Process, proc' = [proc EXCEPT ![p] = r]
    PROVE  /\ proc' \in [Processes -> Process]
           /\ proc'[p] = r
           /\ \A q \in Processes : q # p => proc'[q] = proc[q]
<1>1. proc \in [Processes -> Process]
  BY DEF TypeOK, Process
<1> QED BY <1>1

LEMMA DownType ==
    ASSUME TypeOK, NEW p \in Processes, Down(p)
    PROVE  /\ proc' \in [Processes -> Process]
           /\ proc'[p] = [at |-> "down", holds |-> None]
           /\ \A q \in Processes : q # p => proc'[q] = proc[q]
<1>1. [at |-> "down", holds |-> None] \in Process
  BY DEF Process, Stages
<1> QED BY <1>1, BecomesType DEF Down

LEMMA ServeType ==
    ASSUME TypeOK, NEW p \in Processes, NEW content, Serve(p, content)
    PROVE  /\ proc' \in [Processes -> Process]
           /\ proc'[p].at \in {"down", "serving"}
           /\ \A q \in Processes : q # p => proc'[q] = proc[q]
           /\ used' \subseteq Secret
           /\ used' \subseteq used \cup {content}
<1>1. CASE content \in Secret
  <2>1. [at |-> "serving", holds |-> content] \in Process
    BY <1>1 DEF Process, Stages
  <2> QED BY <1>1, <2>1, BecomesType DEF Serve, TypeOK
<1>2. CASE content \notin Secret
  BY <1>2, DownType DEF Serve, TypeOK
<1> QED BY <1>1, <1>2

-----------------------------------------------------------------------------
(* Types                                                                   *)

\* Whatever a process does, and to whatever file.
LEMMA ProcessTypes ==
    ASSUME TypeOK, AuthorsHold, [Next]_vars
    PROVE  proc' \in [Processes -> Process] /\ AuthorsHold'
<1>1. ASSUME NEW p \in Processes, NEW stage \in Stages \ {"writing"}, GoTo(p, stage),
             stage = "closing" => At(p, "writing")
      PROVE  proc' \in [Processes -> Process] /\ AuthorsHold'
  <2>1. /\ proc' \in [Processes -> Process]
        /\ proc'[p] = [at |-> stage, holds |-> proc[p].holds]
        /\ \A q \in Processes : q # p => proc'[q] = proc[q]
    BY <1>1, GoToType
  <2>2. proc'[p].at = stage /\ proc'[p].holds = proc[p].holds
    BY <2>1
  <2>3. stage = "closing" => proc[p].holds \in Secret
    BY <1>1 DEF AuthorsHold
  <2> QED BY <2>1, <2>2, <2>3 DEF AuthorsHold, At
<1>2. ASSUME NEW p \in Processes, Down(p)
      PROVE  proc' \in [Processes -> Process] /\ AuthorsHold'
  BY <1>2, DownType DEF AuthorsHold, At
<1>3. ASSUME NEW p \in Processes, NEW content, Serve(p, content)
      PROVE  proc' \in [Processes -> Process] /\ AuthorsHold'
  BY <1>3, ServeType DEF AuthorsHold, At
<1>4. ASSUME NEW p \in Processes, CreateSecret(p)
      PROVE  proc' \in [Processes -> Process] /\ AuthorsHold'
  <2>1. CASE Creates(jwt)
    <3>1. PICK s \in Secrets : proc' = [proc EXCEPT ![p] = [at |-> "writing", holds |-> Whole(s)]]
      BY <1>4, <2>1 DEF CreateSecret
    <3>2. Whole(s) \in Secret
      BY DEF Whole, Secret
    <3>3. [at |-> "writing", holds |-> Whole(s)] \in Process
      BY <3>2 DEF Process, Stages
    <3> QED BY <3>1, <3>2, <3>3, BecomesType DEF AuthorsHold, At
  <2>2. CASE ~Creates(jwt)
    <3>1. GoTo(p, "again")
      BY <1>4, <2>2 DEF CreateSecret
    <3> QED BY <1>1, <3>1 DEF Stages
  <2> QED BY <2>1, <2>2
<1>5. ASSUME NEW p \in Processes, Start(p) \/ HostsFail(p) \/ SecretFails(p)
      PROVE  proc' \in [Processes -> Process] /\ AuthorsHold'
  <2>1. \E stage \in {"hosts", "removing hosts", "removing"} : GoTo(p, stage)
    BY <1>5 DEF Start, HostsFail, SecretFails
  <2> QED BY <1>1, <2>1 DEF Stages, MakingHosts
<1>6. ASSUME NEW p \in Processes, OpenHosts(p) \/ WriteHosts(p) \/ CloseHosts(p)
      PROVE  proc' \in [Processes -> Process] /\ AuthorsHold'
  <2>1. \E stage \in {"writing hosts", "closing hosts", "secret"} : GoTo(p, stage)
    BY <1>6 DEF OpenHosts, WriteHosts, CloseHosts
  <2> QED BY <1>1, <2>1 DEF Stages, MakingHosts
<1>7. ASSUME NEW p \in Processes, WriteSecret(p)
      PROVE  proc' \in [Processes -> Process] /\ AuthorsHold'
  <2>1. GoTo(p, "closing") /\ At(p, "writing")
    BY <1>7 DEF WriteSecret
  <2> QED BY <1>1, <2>1 DEF Stages
<1>8. ASSUME NEW p \in Processes, ReadSecret(p) \/ ReadAgain(p) \/ CloseSecret(p)
      PROVE  proc' \in [Processes -> Process] /\ AuthorsHold'
  <2>1. GoTo(p, "creating") \/ \E content : Serve(p, content)
    BY <1>8 DEF ReadSecret, ReadAgain, CloseSecret
  <2> QED BY <1>1, <1>3, <2>1 DEF Stages
<1>9. ASSUME NEW p \in Processes, RemoveHosts(p) \/ RemoveSecret(p) \/ Kill(p)
      PROVE  proc' \in [Processes -> Process] /\ AuthorsHold'
  BY <1>2, <1>9 DEF RemoveHosts, RemoveSecret, Kill
<1>10. CASE UNCHANGED proc
  BY <1>10 DEF TypeOK, Process, AuthorsHold, At
<1> QED
  BY <1>4, <1>5, <1>6, <1>7, <1>8, <1>9, <1>10 DEF Next, Run, EditHosts, Repair, vars

LEMMA FileTypes ==
    ASSUME TypeOK, AuthorsHold, [Next]_vars
    PROVE  /\ hosts' \in {Absent, Useless, EmptyList, TheirHosts}
           /\ edited' \subseteq Processes
           /\ jwt' \in {Absent, Useless} \cup Secret
           /\ drawn' \subseteq Secrets
           /\ used' \subseteq Secret
<1> USE DEF TypeOK, files
<1>1. CASE \E p \in Processes : OpenHosts(p) \/ WriteHosts(p) \/ CloseHosts(p)
  BY <1>1 DEF OpenHosts, WriteHosts, CloseHosts
<1>2. CASE \E p \in Processes : Start(p) \/ HostsFail(p) \/ RemoveHosts(p) \/ Kill(p) \/ RemoveSecret(p)
  BY <1>2 DEF Start, HostsFail, RemoveHosts, Kill, RemoveSecret
<1>3. CASE \E p \in Processes : ReadSecret(p) \/ ReadAgain(p) \/ CloseSecret(p)
  BY <1>3, ServeType DEF ReadSecret, ReadAgain, CloseSecret
<1>4. CASE \E p \in Processes : CreateSecret(p)
  BY <1>4 DEF CreateSecret
<1>5. CASE \E p \in Processes : WriteSecret(p)
  BY <1>5 DEF WriteSecret, AuthorsHold
<1>6. CASE \E p \in Processes : SecretFails(p)
  <2>1. PICK p \in Processes : SecretFails(p)
    BY <1>6
  <2>2. At(p, "writing") => Prefix(proc[p].holds.secret) \in Secret
    BY DEF AuthorsHold, Prefix, Secret
  <2> QED BY <2>1, <2>2 DEF SecretFails
<1>7. CASE EditHosts \/ Repair \/ UNCHANGED vars
  BY <1>7 DEF EditHosts, Repair, vars
<1> QED
  BY <1>1, <1>2, <1>3, <1>4, <1>5, <1>6, <1>7 DEF Next, Run

LEMMA FlagTypes ==
    ASSUME TypeOK, [Next]_vars
    PROVE  ioError' \in BOOLEAN /\ killed' \in BOOLEAN
BY Zenon
DEF TypeOK, Next, Run, vars, Start, OpenHosts, WriteHosts, CloseHosts, HostsFail, RemoveHosts,
    ReadSecret, CreateSecret, ReadAgain, WriteSecret, CloseSecret, SecretFails, RemoveSecret,
    Kill, EditHosts, Repair

LEMMA TypeStep ==
    ASSUME TypeOK, AuthorsHold, [Next]_vars
    PROVE  TypeOK' /\ AuthorsHold'
BY ProcessTypes, FileTypes, FlagTypes DEF TypeOK, Process

-----------------------------------------------------------------------------
(* Invariance                                                              *)

\* A process that neither opens the secret file as its author nor writes it.
LEMMA InvarianceElsewhere ==
    ASSUME OneAuthor, StoredFirst, NothingToRemove, UsedIsStored, UNCHANGED jwt,
           \A q \in Processes :
               \/ proc'[q] = proc[q]
               \/ proc'[q].at \notin {"writing", "closing", "removing"},
           \A s \in used' : s \in used \/ jwt = s
    PROVE  OneAuthor' /\ StoredFirst' /\ NothingToRemove' /\ UsedIsStored'
<1>1. UsedIsStored'
  BY DEF UsedIsStored
<1>2. StoredFirst' /\ NothingToRemove'
  BY DEF StoredFirst, NothingToRemove, At
<1>3. OneAuthor'
  BY DEF OneAuthor, At
<1> QED BY <1>1, <1>2, <1>3

LEMMA InvarianceStep ==
    ASSUME IInv, [Next]_vars
    PROVE  IInv'
<1> DEFINE Inv == OneAuthor /\ StoredFirst /\ NothingToRemove /\ UsedIsStored
<1>1. TypeOK' /\ AuthorsHold'
  BY TypeStep DEF IInv
<1>2. SUFFICES ASSUME ~ioError' PROVE Inv'
  BY <1>1 DEF IInv
<1>3. ~ioError
  BY <1>2 DEF Next, Run, vars, Start, OpenHosts, WriteHosts, CloseHosts, HostsFail, RemoveHosts,
     ReadSecret, CreateSecret, ReadAgain, WriteSecret, CloseSecret, SecretFails, RemoveSecret,
     Kill, EditHosts, Repair
<1>4. TypeOK /\ AuthorsHold /\ OneAuthor /\ StoredFirst /\ NothingToRemove /\ UsedIsStored
  BY <1>3 DEF IInv
<1>5. ASSUME jwt \notin Secret
      PROVE  used = {} /\ \A q \in Processes : ~At(q, "closing")
  BY <1>4, <1>5 DEF TypeOK, UsedIsStored, StoredFirst, AuthorsHold
<1>6. Absent \notin Secret /\ Useless \notin Secret /\ Absent # Useless
  BY ContentAssumption
<1>7. ASSUME NEW p \in Processes, NEW stage \in Stages \ {"writing", "closing", "removing"},
             GoTo(p, stage), UNCHANGED <<jwt, used>>
      PROVE  Inv'
  <2>1. /\ proc'[p] = [at |-> stage, holds |-> proc[p].holds]
        /\ \A q \in Processes : q # p => proc'[q] = proc[q]
    BY <1>4, <1>7, GoToType
  <2>2. proc'[p].at = stage
    BY <2>1
  <2>3. stage \notin {"writing", "closing", "removing"}
    BY <1>7
  <2> QED BY <1>4, <1>7, <2>1, <2>2, <2>3, InvarianceElsewhere
<1>8. ASSUME NEW p \in Processes, Down(p), UNCHANGED <<jwt, used>>
      PROVE  Inv'
  <2>1. /\ proc'[p] = [at |-> "down", holds |-> None]
        /\ \A q \in Processes : q # p => proc'[q] = proc[q]
    BY <1>4, <1>8, DownType
  <2> QED BY <1>4, <1>8, <2>1, InvarianceElsewhere
<1>9. ASSUME NEW p \in Processes, Serve(p, jwt), UNCHANGED jwt
      PROVE  Inv'
  BY <1>4, <1>9, ServeType, InvarianceElsewhere
<1>10. ASSUME NEW p \in Processes, Start(p) \/ OpenHosts(p) \/ WriteHosts(p) \/ CloseHosts(p)
       PROVE  Inv'
  <2>1. /\ \E stage \in {"hosts", "writing hosts", "closing hosts", "secret"} : GoTo(p, stage)
        /\ UNCHANGED <<jwt, used>>
    BY <1>10 DEF Start, OpenHosts, WriteHosts, CloseHosts, files
  <2> QED BY <1>7, <2>1 DEF Stages, MakingHosts
<1>11. ASSUME NEW p \in Processes, RemoveHosts(p) \/ Kill(p)
       PROVE  Inv'
  BY <1>8, <1>11 DEF RemoveHosts, Kill, files
<1>12. ASSUME NEW p \in Processes, ReadSecret(p) \/ ReadAgain(p)
       PROVE  Inv'
  <2>1. \/ GoTo(p, "creating") /\ UNCHANGED <<jwt, used>>
        \/ Serve(p, jwt) /\ UNCHANGED jwt
    BY <1>12 DEF ReadSecret, ReadAgain, files
  <2> QED BY <1>7, <1>9, <2>1 DEF Stages
<1>13. ASSUME NEW p \in Processes, CreateSecret(p)
       PROVE  Inv'
  <2>1. CASE Creates(jwt)
    <3>1. PICK s \in Secrets :
            /\ jwt' = Useless
            /\ proc' = [proc EXCEPT ![p] = [at |-> "writing", holds |-> Whole(s)]]
            /\ UNCHANGED used
      BY <1>13, <2>1 DEF CreateSecret
    <3>2. \A q \in Processes : ~At(q, "writing") /\ ~At(q, "closing") /\ ~At(q, "removing")
      BY <1>4, <1>5, <1>6, <2>1 DEF Creates, OneAuthor, NothingToRemove
    <3>3. used = {}
      BY <1>5, <1>6, <2>1 DEF Creates
    <3>4. /\ proc'[p].at = "writing"
          /\ \A q \in Processes : q # p => proc'[q] = proc[q]
      BY <1>4, <3>1 DEF TypeOK
    <3> QED
      BY <3>1, <3>2, <3>3, <3>4
      DEF OneAuthor, StoredFirst, NothingToRemove, UsedIsStored, At
  <2>2. CASE ~Creates(jwt)
    <3>1. GoTo(p, "again") /\ UNCHANGED <<jwt, used>>
      BY <1>13, <2>2 DEF CreateSecret
    <3> QED BY <1>7, <3>1 DEF Stages
  <2> QED BY <2>1, <2>2
<1>14. ASSUME NEW p \in Processes, WriteSecret(p)
       PROVE  Inv'
  <2>1. /\ At(p, "writing") /\ jwt = Useless
        /\ jwt' = proc[p].holds
        /\ GoTo(p, "closing")
        /\ UNCHANGED used
    BY <1>4, <1>14 DEF WriteSecret, OneAuthor
  <2>2. \A q \in Processes : q # p => ~At(q, "writing") /\ ~At(q, "closing") /\ ~At(q, "removing")
    BY <1>4, <1>5, <1>6, <2>1 DEF OneAuthor, NothingToRemove
  <2>3. proc'[p] = [at |-> "closing", holds |-> proc[p].holds]
    BY <1>4, <2>1, GoToType DEF Stages
  <2>4. \A q \in Processes : q # p => proc'[q] = proc[q]
    BY <1>4, <2>1, GoToType DEF Stages
  <2>5. used = {}
    BY <1>5, <1>6, <2>1
  <2> QED
    BY <2>1, <2>2, <2>3, <2>4, <2>5
    DEF OneAuthor, StoredFirst, NothingToRemove, UsedIsStored, At
<1>15. ASSUME NEW p \in Processes, CloseSecret(p)
       PROVE  Inv'
  BY <1>4, <1>9, <1>15 DEF CloseSecret, StoredFirst, files
<1>16. ASSUME NEW p \in Processes, HostsFail(p) \/ SecretFails(p) \/ RemoveSecret(p)
       PROVE  FALSE
  BY <1>2, <1>4, <1>16 DEF HostsFail, SecretFails, RemoveSecret, NothingToRemove
<1>17. ASSUME Repair PROVE Inv'
  BY <1>5, <1>6, <1>17 DEF Repair, OneAuthor, StoredFirst, NothingToRemove, UsedIsStored, At
<1>18. ASSUME EditHosts \/ UNCHANGED vars PROVE Inv'
  BY <1>4, <1>18
  DEF EditHosts, vars, files, OneAuthor, StoredFirst, NothingToRemove, UsedIsStored, At
<1> QED
  <2> HIDE DEF Inv
  <2> QED
    BY <1>10, <1>11, <1>12, <1>13, <1>14, <1>15, <1>16, <1>17, <1>18 DEF Next, Run

LEMMA AllDown == Init => proc \in [Processes -> Process] /\ \A p \in Processes : At(p, "down")
BY DEF Init, Process, Stages, At

LEMMA Invariance == Spec => []IInv
<1>1. Init => IInv
  <2>1. Init => hosts \in {Absent, TheirHosts} /\ edited = {} /\ jwt = Absent /\ drawn = {} /\ used = {}
    BY DEF Init
  <2>2. Init => proc \in [Processes -> Process] /\ \A p \in Processes : At(p, "down")
    BY AllDown
  <2>3. Init => ioError \in BOOLEAN /\ killed \in BOOLEAN
    BY Zenon DEF Init
  <2>4. Init => AuthorsHold /\ OneAuthor /\ StoredFirst /\ NothingToRemove /\ UsedIsStored
    BY <2>1, <2>2 DEF AuthorsHold, OneAuthor, StoredFirst, NothingToRemove, UsedIsStored, At
  <2> QED BY <2>1, <2>2, <2>3, <2>4 DEF IInv, TypeOK, Process
<1>2. IInv /\ [Next]_vars => IInv'
  BY InvarianceStep
<1> QED BY <1>1, <1>2, PTL DEF Spec

-----------------------------------------------------------------------------
(* The host list                                                           *)

\* An administrator's list lies where a process makes its own only if it came
\* there while the process did.
MakersFile ==
    \A p \in Processes :
        proc[p].at \in MakingHosts /\ hosts = TheirHosts => p \in edited

\* What a step may do to the host list.
HostsStep ==
    hosts # Absent /\ hosts' # hosts =>
        \/ hosts' = TheirHosts
        \/ \E p \in Processes :
              /\ proc[p].at \in MakingHosts
              /\ hosts = TheirHosts => p \in edited

LEMMA MakersStep ==
    ASSUME TypeOK, MakersFile, [Next]_vars
    PROVE  MakersFile' /\ HostsStep
<1> DEFINE Kept == MakersFile' /\ HostsStep
<1>1. TheirHosts \notin {Absent, Useless, EmptyList}
  BY ContentAssumption
<1>2. ASSUME UNCHANGED hosts,
             \A q \in Processes : proc'[q].at \in MakingHosts =>
                 proc[q].at \in MakingHosts /\ (q \in edited => q \in edited')
      PROVE  Kept
  BY <1>2 DEF MakersFile, HostsStep
<1>3. ASSUME NEW p \in Processes, NEW stage \in Stages, GoTo(p, stage)
      PROVE  proc'[p].at = stage /\ \A q \in Processes : q # p => proc'[q] = proc[q]
  <2>1. /\ proc'[p] = [at |-> stage, holds |-> proc[p].holds]
        /\ \A q \in Processes : q # p => proc'[q] = proc[q]
    BY <1>3, GoToType
  <2> QED BY <2>1
<1>4. ASSUME NEW p \in Processes, Down(p)
      PROVE  proc'[p].at = "down" /\ \A q \in Processes : q # p => proc'[q] = proc[q]
  BY <1>4, DownType
<1>5. ASSUME NEW p \in Processes, NEW stage \in Stages \ MakingHosts, GoTo(p, stage),
             UNCHANGED hosts, edited' = edited \/ edited' = edited \ {p}
      PROVE  Kept
  BY <1>2, <1>3, <1>5
<1>6. ASSUME NEW p \in Processes, Down(p), edited' = edited \/ edited' = edited \ {p},
             UNCHANGED hosts
      PROVE  Kept
  BY <1>2, <1>4, <1>6 DEF MakingHosts
<1>7. ASSUME NEW p \in Processes, NEW content, Serve(p, content), UNCHANGED <<hosts, edited>>
      PROVE  Kept
  BY <1>2, <1>7, ServeType DEF MakingHosts
<1>8. ASSUME NEW p \in Processes, OpenHosts(p)
      PROVE  Kept
  <2>1. CASE Creates(hosts)
    <3>1. hosts = Absent /\ hosts' = Useless
      BY <1>8, <2>1 DEF OpenHosts, Creates
    <3> QED BY <1>1, <3>1 DEF MakersFile, HostsStep
  <2>2. CASE ~Creates(hosts)
    BY <1>5, <1>8, <2>2 DEF OpenHosts, Stages, MakingHosts
  <2> QED BY <2>1, <2>2
<1>9. ASSUME NEW p \in Processes, WriteHosts(p) \/ HostsFail(p)
      PROVE  Kept
  <2>1. /\ proc[p].at \in MakingHosts
        /\ UNCHANGED edited
        /\ \E stage \in {"closing hosts", "removing hosts"} : GoTo(p, stage)
        /\ hosts' = hosts \/ hosts' \in {Useless, EmptyList}
    BY <1>9 DEF WriteHosts, HostsFail, At, MakingHosts
  <2>2. \A q \in Processes : proc'[q].at \in MakingHosts => proc[q].at \in MakingHosts
    BY <1>3, <2>1 DEF Stages, MakingHosts
  <2>3. MakersFile'
    BY <1>1, <2>1, <2>2 DEF MakersFile
  <2>4. HostsStep
    BY <2>1 DEF MakersFile, HostsStep
  <2> QED BY <2>3, <2>4
<1>10. ASSUME NEW p \in Processes, CloseHosts(p) \/ Start(p) \/ WriteSecret(p) \/ SecretFails(p)
       PROVE  Kept
  <2>1. /\ UNCHANGED hosts
        /\ edited' = edited \/ edited' = edited \ {p}
        /\ \E stage \in {"secret", "hosts", "closing", "removing"} : GoTo(p, stage)
    BY <1>10 DEF CloseHosts, Start, WriteSecret, SecretFails, files
  <2> QED BY <1>5, <2>1 DEF Stages, MakingHosts
<1>11. ASSUME NEW p \in Processes, RemoveHosts(p)
       PROVE  Kept
  <2>1. /\ proc[p].at \in MakingHosts
        /\ Down(p)
        /\ edited' = edited \ {p}
        /\ hosts' = hosts \/ hosts' = Absent
    BY <1>11 DEF RemoveHosts, At, MakingHosts
  <2>2. HostsStep
    BY <2>1 DEF MakersFile, HostsStep
  <2>3. ASSUME NEW q \in Processes, proc'[q].at \in MakingHosts
        PROVE  proc[q].at \in MakingHosts /\ q # p
    BY <1>4, <2>1, <2>3 DEF MakingHosts
  <2>4. MakersFile'
    BY <1>1, <2>1, <2>3 DEF MakersFile
  <2> QED BY <2>2, <2>4
<1>12. ASSUME NEW p \in Processes, ReadSecret(p) \/ ReadAgain(p) \/ CloseSecret(p)
       PROVE  Kept
  <2>1. /\ UNCHANGED <<hosts, edited>>
        /\ GoTo(p, "creating") \/ \E content : Serve(p, content)
    BY <1>12 DEF ReadSecret, ReadAgain, CloseSecret, files
  <2> QED BY <1>5, <1>7, <2>1 DEF Stages, MakingHosts
<1>13. ASSUME NEW p \in Processes, CreateSecret(p)
       PROVE  Kept
  <2>1. CASE Creates(jwt)
    <3>1. /\ UNCHANGED <<hosts, edited>>
          /\ \E s \in Secrets : proc' = [proc EXCEPT ![p] = [at |-> "writing", holds |-> Whole(s)]]
      BY <1>13, <2>1 DEF CreateSecret
    <3>2. /\ proc'[p].at = "writing"
          /\ \A q \in Processes : q # p => proc'[q] = proc[q]
      BY <3>1 DEF TypeOK
    <3> QED BY <1>2, <3>1, <3>2 DEF MakingHosts
  <2>2. CASE ~Creates(jwt)
    <3>1. UNCHANGED <<hosts, edited>> /\ GoTo(p, "again")
      BY <1>13, <2>2 DEF CreateSecret
    <3> QED BY <1>5, <3>1 DEF Stages, MakingHosts
  <2> QED BY <2>1, <2>2
<1>14. ASSUME NEW p \in Processes, RemoveSecret(p) \/ Kill(p)
       PROVE  Kept
  BY <1>6, <1>14 DEF RemoveSecret, Kill, files
<1>15. ASSUME EditHosts PROVE Kept
  BY <1>15 DEF EditHosts, MakersFile, HostsStep
<1>16. ASSUME Repair \/ UNCHANGED vars PROVE Kept
  BY <1>2, <1>16 DEF Repair, vars
<1> QED
  <2> HIDE DEF Kept
  <2>1. Kept
    BY <1>8, <1>9, <1>10, <1>11, <1>12, <1>13, <1>14, <1>15, <1>16 DEF Next, Run
  <2> QED BY <2>1 DEF Kept

-----------------------------------------------------------------------------
(* Bootstrap: the theorems                                                 *)

\* Type correctness of the files and of every process that starts.
THEOREM TypeCorrect == Spec => []TypeOK
<1>1. IInv => TypeOK
  BY DEF IInv
<1> QED BY <1>1, Invariance, PTL

\* The signing secret, once used, is never lost or doubled by processes that
\* start together or are killed, whatever they were doing (auth.go:74-104).
THEOREM SecretIsKept == Spec => []SecretIsForEver
<1>1. IInv => SecretIsForEver
  BY DEF IInv, UsedIsStored, SecretIsForEver
<1> QED BY <1>1, Invariance, PTL

\* Whoever edits the host list and whenever, and however starts end and overlap,
\* what is at hosts.yaml is changed only by a process that found nothing there
\* and still makes it, and an administrator's list only if it came meanwhile
\* (EnsureInitialHosts, bootstrap.go:9).
THEOREM HostsAreKept == Spec => HostsNeverReplaced
<1>1. Init => MakersFile
  BY AllDown DEF MakersFile, MakingHosts, At
<1>2. TypeOK /\ MakersFile /\ [Next]_vars => MakersFile' /\ [HostsStep]_vars
  BY MakersStep
<1>3. [][HostsStep]_vars => HostsNeverReplaced
  BY PTL DEF HostsNeverReplaced, HostsStep
<1> QED BY <1>1, <1>2, <1>3, TypeCorrect, PTL DEF Spec

-----------------------------------------------------------------------------
(* HostsLoader: the inductive invariant                                    *)

\* The stamp of a file is the last one given out at its path.
StampsAreLast ==
    \A p \in Paths : file[p].kind = "regular" => file[p].stamp = lastStamp[p]

\* The file at p has been itself since it got the stamp s.
SameSince(p, s) ==
    file[p].kind = "regular" /\ s = lastStamp[p] /\ ~ambiguous[p]

\* What the cache stands for is what is in the file, as long as it has the
\* stamp in the cache.
CacheReflects ==
    loader.checked =>
        /\ loader.path \in Paths
        /\ loader.stamp <= lastStamp[loader.path]
        /\ SameSince(loader.path, loader.stamp) =>
              /\ loader.reloadError <=> file[loader.path].content \notin Lists
              /\ file[loader.path].content \in Lists => loader.hosts = file[loader.path].content

\* So does what a call has in its hands.
CallReflects ==
    /\ call.stage = "statted" /\ call.info.kind = "regular" =>
          call.info.stamp <= lastStamp[call.path]
    /\ call.stage = "read" =>
          /\ call.stamp <= lastStamp[call.path]
          /\ call.data # NoList /\ SameSince(call.path, call.stamp) =>
                call.data = file[call.path].content

\* A call that nobody disturbs looks at the current file.
QuietCallReflects ==
    quiet =>
        /\ call.stage = "fallback" => file["data"].kind = "absent"
        /\ call.stage = "statted" => call.path = CurrentPath /\ call.info = Current
        /\ call.stage = "read" =>
              call.path = CurrentPath /\ Current.kind = "regular" /\ call.data = DataAt(CurrentPath)

AnswerIsCached == answer.hosts = loader.hosts

LoaderInv ==
    /\ LoaderTypeOK
    /\ StampsAreLast
    /\ CacheReflects
    /\ CallReflects
    /\ QuietCallReflects
    /\ AnswerIsCached
    /\ QuietFileIsServed
    /\ HealthTellsTheTruth

-----------------------------------------------------------------------------

LEMMA Initially == LoaderInit => LoaderInv
<1> SUFFICES ASSUME LoaderInit PROVE LoaderInv
    OBVIOUS
<1>1. LoaderTypeOK
    <2>0. 0 \in Stamps
        BY LoaderAssumption DEF Stamps
    <2>1. loader \in Loader
        <3>1. loader = [path |-> "", stamp |-> 0, checked |-> FALSE, hosts |-> NoList, reloadError |-> FALSE]
            BY DEF LoaderInit
        <3> QED
            BY <2>0, <3>1 DEF Loader
    <2>2. file \in [Paths -> Regular \cup NotRegular]
        <3>1. [kind : {"regular"}, stamp : {0}, content : Lists \cup {Invalid}, readable : {TRUE}] \subseteq Regular
            BY <2>0, Zenon DEF Regular
        <3> QED
            BY <3>1, Zenon DEF LoaderInit
    <2>3. lastStamp \in [Paths -> Stamps] /\ ambiguous \in [Paths -> BOOLEAN]
        BY <2>0, Zenon DEF LoaderInit
    <2>4. call \in Call \cup {NoCall} /\ quiet \in BOOLEAN
        BY Zenon DEF LoaderInit
    <2>5. answer \in Answer
        <3>1. answer = [hosts |-> NoList, error |-> FALSE]
            BY DEF LoaderInit
        <3> QED
            BY <3>1 DEF Answer
    <2> QED
        BY <2>1, <2>2, <2>3, <2>4, <2>5 DEF LoaderTypeOK
<1>2. StampsAreLast
    BY DEF LoaderInit, StampsAreLast, NotRegular
<1>3. CacheReflects /\ CallReflects /\ QuietCallReflects
    BY DEF LoaderInit, CacheReflects, CallReflects, QuietCallReflects, NoCall
<1>4. AnswerIsCached /\ QuietFileIsServed /\ HealthTellsTheTruth
    BY DEF LoaderInit, AnswerIsCached, QuietFileIsServed, HealthTellsTheTruth, QuietCall
<1> QED
    BY <1>1, <1>2, <1>3, <1>4 DEF LoaderInv

-----------------------------------------------------------------------------
(* The steps of a call, which leave the files alone                        *)

CallStep ==
    \/ StatData
    \/ StatFallback
    \/ RejectSpecial
    \/ ReturnCached
    \/ ReadFile
    \/ Finish

LEMMA CurrentPathIsPath == CurrentPath \in Paths
BY DEF CurrentPath, Paths

LEMMA DataType ==
    ASSUME LoaderTypeOK, NEW p \in Paths
    PROVE  DataAt(p) \in Lists \cup {Invalid, NoList}
BY DEF LoaderTypeOK, DataAt, Regular, NotRegular

LEMMA CallTypes ==
    ASSUME LoaderTypeOK
    PROVE  /\ call.stage = "statted" => call.path \in Paths /\ call.info \in Regular \cup NotRegular
           /\ call.stage = "read" =>
                 /\ call.path \in Paths
                 /\ call.stamp \in Stamps
                 /\ call.data \in Lists \cup {Invalid, NoList}
BY DEF LoaderTypeOK, Call, NoCall

LEMMA FailTypes ==
    ASSUME LoaderTypeOK, Fail
    PROVE  loader' \in Loader /\ answer' \in Answer /\ call' = NoCall
<1>1. loader \in Loader /\ loader' = [loader EXCEPT !.reloadError = TRUE, !.checked = FALSE]
    BY DEF LoaderTypeOK, Fail
<1>2. answer' = [hosts |-> loader.hosts, error |-> TRUE] /\ call' = NoCall
    BY DEF Fail, Return
<1>3. loader.hosts \in Lists \cup {NoList}
    BY <1>1 DEF Loader
<1>4. loader' \in Loader
    BY <1>1 DEF Loader
<1>5. answer' \in Answer
    BY <1>2, <1>3 DEF Answer
<1> QED
    BY <1>2, <1>4, <1>5

LEMMA CallKeepsTypes ==
    ASSUME LoaderTypeOK, CallStep
    PROVE  LoaderTypeOK'
<1> USE CallTypes DEF LoaderTypeOK
<1>1. CASE StatData
    <2>1. file["data"] \in Regular \cup NotRegular
        BY DEF Paths
    <2>2. call' \in Call
        BY <1>1, <2>1 DEF StatData, Call, Paths
    <2> QED
        BY <1>1, <2>2 DEF StatData, fileVars
<1>2. CASE StatFallback
    <2>1. CASE file["../data"].kind = "absent"
        BY <1>2, <2>1, FailTypes DEF StatFallback, fileVars
    <2>2. CASE file["../data"].kind # "absent"
        <3>1. call' \in Call
            BY <1>2, <2>2 DEF StatFallback, Call, Paths
        <3> QED
            BY <1>2, <2>2, <3>1 DEF StatFallback, fileVars
    <2> QED
        BY <2>1, <2>2
<1>3. CASE RejectSpecial
    BY <1>3, FailTypes DEF RejectSpecial, fileVars
<1>4. CASE ReturnCached
    BY <1>4 DEF ReturnCached, Return, CachedError, Loader, Answer, fileVars
<1>5. CASE ReadFile
    <2>1. call.path \in Paths /\ call.info.stamp \in Stamps
        BY <1>5 DEF ReadFile, Regular, NotRegular
    <2>2. call' \in Call
        BY <1>5, <2>1, DataType DEF ReadFile, Call
    <2> QED
        BY <1>5, <2>2 DEF ReadFile, fileVars
<1>6. CASE Finish
    <2>1. HostsAfter(call.data) \in Lists \cup {NoList}
        BY DEF HostsAfter, Loader
    <2>2. loader' \in Loader
        BY <1>6, <2>1 DEF Finish, RecordedStamp, CheckedAfter, Loader
    <2>3. answer' \in Answer /\ call' = NoCall
        BY <1>6, <2>1 DEF Finish, Return, Answer
    <2> QED
        BY <1>6, <2>2, <2>3 DEF Finish, fileVars
<1> QED
    BY <1>1, <1>2, <1>3, <1>4, <1>5, <1>6 DEF CallStep

\* While the files rest, what is said of them stays so.
LEMMA FilesRest ==
    ASSUME UNCHANGED fileVars
    PROVE  /\ CurrentPath' = CurrentPath /\ Current' = Current
           /\ CurrentIsValid' <=> CurrentIsValid
           /\ StampsAreLast => StampsAreLast'
           /\ \A p, s : SameSince(p, s)' <=> SameSince(p, s)
           /\ \A p : DataAt(p)' = DataAt(p)
BY DEF fileVars, CurrentPath, Current, CurrentIsValid, StampsAreLast, SameSince, DataAt

LEMMA StatDataStep ==
    ASSUME LoaderInv, StatData PROVE LoaderInv'
<1>1. LoaderTypeOK' /\ StampsAreLast'
    BY CallKeepsTypes, FilesRest DEF LoaderInv, CallStep, StatData
<1>2. UNCHANGED <<fileVars, loader, answer>>
    BY DEF StatData
<1>3. CacheReflects' /\ AnswerIsCached'
    BY <1>2 DEF LoaderInv, CacheReflects, SameSince, AnswerIsCached, fileVars
<1>4. /\ call'.stage \in {"fallback", "statted"}
      /\ call'.stage = "fallback" => file["data"].kind = "absent"
      /\ call'.stage = "statted" =>
            file["data"].kind # "absent" /\ call'.path = "data" /\ call'.info = file["data"]
    BY DEF StatData
<1>5. CallReflects'
    <2>1. file["data"].kind = "regular" => file["data"].stamp = lastStamp["data"]
        BY DEF LoaderInv, StampsAreLast, Paths
    <2>2. lastStamp["data"] \in Nat
        BY LoaderAssumption DEF LoaderInv, LoaderTypeOK, Stamps, Paths
    <2> QED
        BY <1>2, <1>4, <2>1, <2>2 DEF CallReflects, fileVars
<1>6. QuietCallReflects'
    BY <1>2, <1>4 DEF QuietCallReflects, CurrentPath, Current, fileVars
<1>7. QuietFileIsServed' /\ HealthTellsTheTruth'
    BY <1>4 DEF QuietFileIsServed, HealthTellsTheTruth, QuietCall, NoCall
<1> QED
    BY <1>1, <1>3, <1>5, <1>6, <1>7 DEF LoaderInv

\* A call that could not look at the file returns an error.
LEMMA FailStep ==
    ASSUME LoaderInv, Fail, UNCHANGED <<fileVars, quiet>>, LoaderTypeOK',
           quiet => Current.kind # "regular"
    PROVE  LoaderInv'
<1>1. /\ loader'.hosts = loader.hosts /\ loader'.checked = FALSE
      /\ call' = NoCall
      /\ answer'.hosts = loader.hosts /\ answer'.error = TRUE
    BY DEF Fail, Return, LoaderInv, LoaderTypeOK, Loader
<1>2. StampsAreLast'
    BY FilesRest DEF LoaderInv
<1>3. CacheReflects' /\ AnswerIsCached'
    BY <1>1 DEF CacheReflects, AnswerIsCached
<1>4. CallReflects' /\ QuietCallReflects'
    BY <1>1 DEF CallReflects, QuietCallReflects, NoCall
<1>5. quiet' => ~CurrentIsValid'
    BY FilesRest DEF CurrentIsValid
<1>6. QuietFileIsServed' /\ HealthTellsTheTruth'
    BY <1>1, <1>5 DEF QuietFileIsServed, HealthTellsTheTruth, QuietCall
<1> QED
    BY <1>2, <1>3, <1>4, <1>6 DEF LoaderInv

LEMMA StatFallbackStep ==
    ASSUME LoaderInv, StatFallback PROVE LoaderInv'
<1>1. LoaderTypeOK' /\ StampsAreLast'
    BY CallKeepsTypes, FilesRest DEF LoaderInv, CallStep, StatFallback
<1>2. quiet => CurrentPath = "../data"
    BY DEF StatFallback, LoaderInv, QuietCallReflects, CurrentPath
<1>3. CASE file["../data"].kind = "absent"
    <2>1. Fail /\ UNCHANGED <<fileVars, quiet>>
        BY <1>3 DEF StatFallback
    <2>2. quiet => Current.kind # "regular"
        BY <1>2, <1>3 DEF Current
    <2> QED
        BY <1>1, <2>1, <2>2, FailStep
<1>4. CASE file["../data"].kind # "absent"
    <2>1. /\ call' = [stage |-> "statted", path |-> "../data", info |-> file["../data"]]
          /\ UNCHANGED <<fileVars, quiet, loader, answer>>
        BY <1>4 DEF StatFallback
    <2>2. CacheReflects' /\ AnswerIsCached'
        BY <2>1 DEF LoaderInv, CacheReflects, SameSince, AnswerIsCached, fileVars
    <2>3. file["../data"].kind = "regular" => file["../data"].stamp = lastStamp["../data"]
        BY DEF LoaderInv, StampsAreLast, Paths
    <2>4. lastStamp["../data"] \in Nat
        BY LoaderAssumption DEF LoaderInv, LoaderTypeOK, Stamps, Paths
    <2>5. CallReflects'
        BY <2>1, <2>3, <2>4 DEF CallReflects, fileVars
    <2>6. QuietCallReflects'
        BY <1>2, <2>1, FilesRest DEF QuietCallReflects, Current
    <2>7. QuietFileIsServed' /\ HealthTellsTheTruth'
        BY <2>1 DEF QuietFileIsServed, HealthTellsTheTruth, QuietCall, NoCall
    <2> QED
        BY <1>1, <2>2, <2>5, <2>6, <2>7 DEF LoaderInv
<1> QED
    BY <1>3, <1>4

LEMMA RejectStep ==
    ASSUME LoaderInv, RejectSpecial PROVE LoaderInv'
<1>1. LoaderTypeOK'
    BY CallKeepsTypes DEF LoaderInv, CallStep
<1>2. Fail /\ UNCHANGED <<fileVars, quiet>>
    BY DEF RejectSpecial
<1>3. quiet => Current.kind # "regular"
    BY DEF RejectSpecial, LoaderInv, QuietCallReflects
<1> QED
    BY <1>1, <1>2, <1>3, FailStep

\* The cache answers for a file that has not changed.
LEMMA ReturnCachedStep ==
    ASSUME LoaderInv, ReturnCached PROVE LoaderInv'
<1>1. LoaderTypeOK' /\ StampsAreLast'
    BY CallKeepsTypes, FilesRest DEF LoaderInv, CallStep, ReturnCached
<1>2. /\ UNCHANGED <<fileVars, loader, quiet>>
      /\ call' = NoCall
      /\ answer'.hosts = loader.hosts
    BY DEF ReturnCached, Return
<1>3. answer'.error = loader.reloadError
    BY DEF ReturnCached, Return, CachedError
<1>4. CacheReflects' /\ AnswerIsCached'
    BY <1>2 DEF LoaderInv, CacheReflects, SameSince, AnswerIsCached, fileVars
<1>5. CallReflects' /\ QuietCallReflects'
    BY <1>2 DEF CallReflects, QuietCallReflects, NoCall
<1>6. ASSUME quiet, ~ambiguous[CurrentPath]
      PROVE  /\ Current.kind = "regular"
             /\ loader.reloadError <=> Current.content \notin Lists
             /\ Current.content \in Lists => loader.hosts = Current.content
    <2>1. loader.checked /\ loader.path = CurrentPath /\ loader.stamp = Current.stamp /\ Current.kind = "regular"
        BY <1>6 DEF ReturnCached, Unchanged, LoaderInv, QuietCallReflects
    <2>2. Current.stamp = lastStamp[CurrentPath]
        BY <2>1, CurrentPathIsPath DEF LoaderInv, StampsAreLast, Current
    <2>3. SameSince(loader.path, loader.stamp)
        BY <1>6, <2>1, <2>2 DEF SameSince, Current
    <2> QED
        BY <2>1, <2>3 DEF LoaderInv, CacheReflects, Current
<1>7. QuietFileIsServed'
    <2> SUFFICES ASSUME QuietCall', CurrentIsValid' PROVE answer'.hosts = Current'.content
        BY DEF QuietFileIsServed
    <2>1. quiet /\ ~ambiguous[CurrentPath]
        BY <1>2, FilesRest DEF QuietCall, fileVars
    <2>2. Current.content \in Lists
        BY <1>2, FilesRest DEF CurrentIsValid
    <2> QED
        BY <1>2, <1>6, <2>1, <2>2, FilesRest
<1>8. HealthTellsTheTruth'
    <2> SUFFICES ASSUME QuietCall', Current'.kind = "regular" => Current'.readable
                 PROVE  answer'.error <=> ~CurrentIsValid'
        BY DEF HealthTellsTheTruth
    <2>1. quiet /\ ~ambiguous[CurrentPath]
        BY <1>2, FilesRest DEF QuietCall, fileVars
    <2>2. Current.kind = "regular" /\ Current.readable
        BY <1>2, <1>6, <2>1, FilesRest
    <2>3. CurrentIsValid' <=> Current.content \in Lists
        BY <1>2, <2>2, FilesRest DEF CurrentIsValid
    <2>4. loader.reloadError <=> Current.content \notin Lists
        BY <1>6, <2>1
    <2> QED
        BY <1>3, <2>3, <2>4
<1> QED
    BY <1>1, <1>4, <1>5, <1>7, <1>8 DEF LoaderInv

LEMMA ReadFileStep ==
    ASSUME LoaderInv, ReadFile PROVE LoaderInv'
<1>1. LoaderTypeOK' /\ StampsAreLast'
    BY CallKeepsTypes, FilesRest DEF LoaderInv, CallStep, ReadFile
<1>2. /\ UNCHANGED <<fileVars, loader, answer, quiet>>
      /\ call' = [stage |-> "read", path |-> call.path, stamp |-> call.info.stamp,
                  data |-> DataAt(call.path)]
    BY DEF ReadFile
<1>3. CacheReflects' /\ AnswerIsCached'
    BY <1>2 DEF LoaderInv, CacheReflects, SameSince, AnswerIsCached, fileVars
<1>4. call.info.stamp <= lastStamp[call.path]
    BY DEF ReadFile, LoaderInv, CallReflects
<1>5. DataAt(call.path) # NoList => DataAt(call.path) = file[call.path].content
    BY DEF DataAt
<1>6. CallReflects'
    BY <1>2, <1>4, <1>5 DEF CallReflects, fileVars
<1>7. quiet => call.path = CurrentPath /\ Current.kind = "regular"
    BY DEF ReadFile, LoaderInv, QuietCallReflects
<1>8. QuietCallReflects'
    BY <1>2, <1>7, FilesRest DEF QuietCallReflects
<1>9. QuietFileIsServed' /\ HealthTellsTheTruth'
    BY <1>2 DEF QuietFileIsServed, HealthTellsTheTruth, QuietCall, NoCall
<1> QED
    BY <1>1, <1>3, <1>6, <1>8, <1>9 DEF LoaderInv

\* What was read is cached, and answers.
LEMMA FinishStep ==
    ASSUME LoaderInv, Finish PROVE LoaderInv'
<1>1. LoaderTypeOK' /\ StampsAreLast'
    BY CallKeepsTypes, FilesRest DEF LoaderInv, CallStep, Finish
<1>2. /\ UNCHANGED <<fileVars, quiet>>
      /\ call' = NoCall
      /\ answer'.hosts = HostsAfter(call.data)
      /\ loader'.path = call.path /\ loader'.stamp = call.stamp
      /\ loader'.hosts = HostsAfter(call.data)
    BY DEF Finish, Return, RecordedStamp
<1>3. answer'.error <=> call.data \notin Lists
    BY DEF Finish, Return
<1>4. loader'.reloadError <=> call.data \notin Lists
    BY DEF Finish
<1>5. loader'.checked <=> call.data # NoList
    BY DEF Finish, CheckedAfter
<1>6. call.stage = "read" /\ call.path \in Paths /\ call.stamp <= lastStamp[call.path]
    BY CallTypes DEF Finish, LoaderInv, CallReflects
<1>7. CacheReflects'
    <2> SUFFICES ASSUME call.data # NoList, SameSince(call.path, call.stamp)
                 PROVE  /\ loader'.reloadError <=> file[call.path].content \notin Lists
                        /\ file[call.path].content \in Lists => loader'.hosts = file[call.path].content
        BY <1>2, <1>5, <1>6, FilesRest DEF CacheReflects, fileVars
    <2>1. call.data = file[call.path].content
        BY <1>6 DEF LoaderInv, CallReflects
    <2> QED
        BY <1>2, <1>4, <2>1 DEF HostsAfter
<1>8. AnswerIsCached'
    BY <1>2 DEF AnswerIsCached
<1>9. CallReflects' /\ QuietCallReflects'
    BY <1>2 DEF CallReflects, QuietCallReflects, NoCall
<1>10. ASSUME quiet PROVE Current.kind = "regular" /\ call.data = DataAt(CurrentPath)
    BY <1>6, <1>10 DEF LoaderInv, QuietCallReflects
<1>11. ASSUME quiet, Current.readable PROVE Current.kind = "regular" /\ call.data = Current.content
    BY <1>10, <1>11 DEF DataAt, Current
<1>12. QuietFileIsServed'
    <2> SUFFICES ASSUME QuietCall', CurrentIsValid' PROVE answer'.hosts = Current'.content
        BY DEF QuietFileIsServed
    <2>1. quiet /\ Current.readable /\ Current.content \in Lists
        BY <1>2, FilesRest DEF QuietCall, CurrentIsValid
    <2> QED
        BY <1>2, <1>11, <2>1, FilesRest DEF HostsAfter
<1>13. HealthTellsTheTruth'
    <2> SUFFICES ASSUME QuietCall', Current'.kind = "regular" => Current'.readable
                 PROVE  answer'.error <=> ~CurrentIsValid'
        BY DEF HealthTellsTheTruth
    <2>1. quiet
        BY <1>2 DEF QuietCall
    <2>2. Current.kind = "regular" /\ Current.readable
        BY <1>2, <1>10, <2>1, FilesRest
    <2>3. call.data = Current.content
        BY <1>11, <2>1, <2>2
    <2>4. CurrentIsValid' <=> Current.content \in Lists
        BY <1>2, <2>2, FilesRest DEF CurrentIsValid
    <2> QED
        BY <1>3, <2>3, <2>4
<1> QED
    BY <1>1, <1>7, <1>8, <1>9, <1>12, <1>13 DEF LoaderInv

-----------------------------------------------------------------------------
(* The edits                                                               *)

\* An edit of the file at p: it is the last with its stamp, or the stamp is
\* ambiguous, or nothing but its readability has changed.
Edited(p) ==
    /\ UNCHANGED <<loader, call, answer>>
    /\ quiet' = FALSE
    /\ \A q \in Paths \ {p} : file'[q] = file[q] /\ lastStamp'[q] = lastStamp[q] /\ ambiguous'[q] = ambiguous[q]
    /\ lastStamp[p] <= lastStamp'[p]
    /\ file'[p].kind = "regular" => file'[p].stamp = lastStamp'[p]
    /\ file'[p].kind = "regular" /\ ~ambiguous'[p] =>
          \/ lastStamp[p] < lastStamp'[p]
          \/ /\ file[p].kind = "regular" /\ ~ambiguous[p]
             /\ lastStamp'[p] = lastStamp[p] /\ file'[p].content = file[p].content

LEMMA LoaderStamp == LoaderTypeOK => loader.stamp \in Int
<1>1. ASSUME LoaderTypeOK PROVE loader.stamp \in Stamps
    <2>1. loader \in Loader
        BY <1>1, Zenon DEF LoaderTypeOK
    <2> QED
        BY <2>1 DEF Loader
<1>2. Stamps \subseteq Int
    BY DEF Stamps
<1> QED
    BY <1>1, <1>2

LEMMA EditStep ==
    ASSUME LoaderInv, NEW p \in Paths, Edited(p), LoaderTypeOK'
    PROVE  LoaderInv'
<1>1. \A q \in Paths : lastStamp[q] \in Int /\ lastStamp'[q] \in Int /\ lastStamp[q] <= lastStamp'[q]
    BY LoaderAssumption DEF LoaderInv, LoaderTypeOK, Stamps, Edited
<1>2. StampsAreLast'
    BY DEF LoaderInv, StampsAreLast, Edited
<1>3. ASSUME NEW q \in Paths, NEW s \in Int, s <= lastStamp[q], SameSince(q, s)'
      PROVE  SameSince(q, s) /\ file'[q].content = file[q].content
    BY <1>1, <1>3 DEF Edited, SameSince
<1>4. CacheReflects'
    <2> SUFFICES ASSUME loader.checked PROVE CacheReflects'
        BY DEF CacheReflects, Edited
    <2>1. loader.path \in Paths /\ loader.stamp \in Int /\ loader.stamp <= lastStamp[loader.path]
        BY LoaderStamp DEF LoaderInv, CacheReflects
    <2>2. loader.stamp <= lastStamp'[loader.path]
        BY <1>1, <2>1
    <2>3. SameSince(loader.path, loader.stamp)' =>
              SameSince(loader.path, loader.stamp) /\ file'[loader.path].content = file[loader.path].content
        BY <1>3, <2>1 DEF Edited, SameSince
    <2>4. UNCHANGED loader
        BY DEF Edited
    <2> QED
        BY <2>1, <2>2, <2>3, <2>4 DEF LoaderInv, CacheReflects
<1>5. CallReflects'
    <2>1. UNCHANGED call
        BY DEF Edited
    <2>2. ASSUME call.stage = "statted", call.info.kind = "regular"
          PROVE  call.info.stamp <= lastStamp'[call.path]
        <3>1. call.path \in Paths /\ call.info.stamp \in Int /\ call.info.stamp <= lastStamp[call.path]
            BY <2>2, CallTypes, LoaderAssumption DEF LoaderInv, CallReflects, Regular, NotRegular, Stamps
        <3> QED
            BY <1>1, <3>1
    <2>3. ASSUME call.stage = "read"
          PROVE  /\ call.stamp <= lastStamp'[call.path]
                 /\ call.data # NoList /\ SameSince(call.path, call.stamp)' =>
                        call.data = file'[call.path].content
        <3>1. call.path \in Paths /\ call.stamp \in Int /\ call.stamp <= lastStamp[call.path]
            BY <2>3, CallTypes, LoaderAssumption DEF LoaderInv, CallReflects, Stamps
        <3>2. SameSince(call.path, call.stamp)' =>
                  SameSince(call.path, call.stamp) /\ file'[call.path].content = file[call.path].content
            BY <1>3, <2>1, <3>1 DEF SameSince
        <3> QED
            BY <1>1, <2>3, <3>1, <3>2 DEF LoaderInv, CallReflects
    <2> QED
        BY <2>1, <2>2, <2>3 DEF CallReflects
<1>6. QuietCallReflects' /\ QuietFileIsServed' /\ HealthTellsTheTruth'
    BY DEF Edited, QuietCallReflects, QuietFileIsServed, HealthTellsTheTruth, QuietCall
<1>7. AnswerIsCached'
    BY DEF LoaderInv, AnswerIsCached, Edited
<1> QED
    BY <1>2, <1>4, <1>5, <1>6, <1>7 DEF LoaderInv

LEMMA ChangeTypes ==
    ASSUME LoaderTypeOK, NEW p \in Paths, NEW f \in Regular \cup NotRegular, Change(p, f)
    PROVE  /\ file' \in [Paths -> Regular \cup NotRegular]
           /\ file'[p] = f /\ \A q \in Paths \ {p} : file'[q] = file[q]
           /\ quiet' = FALSE /\ quiet' \in BOOLEAN
           /\ UNCHANGED <<loader, call, answer>>
<1>1. file' = [file EXCEPT ![p] = f] /\ file \in [Paths -> Regular \cup NotRegular]
    BY DEF Change, LoaderTypeOK
<1>2. quiet' = FALSE /\ UNCHANGED <<loader, call, answer>>
    BY DEF Change
<1> QED
    BY <1>1, <1>2, Zenon

LEMMA WriteStep ==
    ASSUME LoaderInv, NEW p \in Paths, Write(p) PROVE LoaderInv'
<1>1. PICK s \in {lastStamp[p], lastStamp[p] + 1} \cap Stamps, c \in Lists \cup {Invalid}, r \in BOOLEAN :
        /\ Change(p, [kind |-> "regular", stamp |-> s, content |-> c, readable |-> r])
        /\ lastStamp' = [lastStamp EXCEPT ![p] = s]
        /\ ambiguous' = [ambiguous EXCEPT ![p] = (s = lastStamp[p])]
    BY DEF Write
<1> DEFINE f == [kind |-> "regular", stamp |-> s, content |-> c, readable |-> r]
<1>2. f \in Regular \cup NotRegular
    BY Zenon DEF Regular
<1>3. LoaderTypeOK
    BY DEF LoaderInv
<1>4. /\ file' \in [Paths -> Regular \cup NotRegular]
      /\ file'[p] = f /\ \A q \in Paths \ {p} : file'[q] = file[q]
      /\ quiet' = FALSE /\ quiet' \in BOOLEAN
      /\ UNCHANGED <<loader, call, answer>>
    <2> HIDE DEF f
    <2>1. Change(p, f)
        BY <1>1 DEF f
    <2> QED
        BY <1>2, <1>3, <2>1, ChangeTypes
<1>5. lastStamp \in [Paths -> Stamps] /\ ambiguous \in [Paths -> BOOLEAN]
    BY <1>3 DEF LoaderTypeOK
<1>6. lastStamp' \in [Paths -> Stamps] /\ lastStamp'[p] = s /\ \A q \in Paths \ {p} : lastStamp'[q] = lastStamp[q]
    BY <1>1, <1>5
<1>7. /\ ambiguous' \in [Paths -> BOOLEAN]
      /\ ambiguous'[p] <=> s = lastStamp[p]
      /\ \A q \in Paths \ {p} : ambiguous'[q] = ambiguous[q]
    <2>1. (s = lastStamp[p]) \in BOOLEAN
        OBVIOUS
    <2> QED
        BY <1>1, <1>5, <2>1, Zenon
<1>8. LoaderTypeOK'
    BY <1>3, <1>4, <1>6, <1>7, Zenon DEF LoaderTypeOK
<1>9. lastStamp[p] \in Int /\ s \in Int /\ lastStamp[p] <= s /\ (s # lastStamp[p] => lastStamp[p] < s)
    BY <1>5, LoaderAssumption DEF Stamps
<1>10. file'[p].kind = "regular" /\ file'[p].stamp = s
    BY <1>4
<1>11. Edited(p)
    BY <1>4, <1>6, <1>7, <1>9, <1>10 DEF Edited
<1> QED
    BY <1>8, <1>11, EditStep

LEMMA ChmodStep ==
    ASSUME LoaderInv, NEW p \in Paths, Chmod(p) PROVE LoaderInv'
<1> DEFINE f == [file[p] EXCEPT !.readable = ~@]
<1>1. LoaderTypeOK /\ file[p] \in Regular
    BY DEF LoaderInv, LoaderTypeOK, Chmod, NotRegular
<1>2. f \in Regular /\ f.kind = "regular" /\ f.stamp = file[p].stamp /\ f.content = file[p].content
    BY <1>1 DEF Regular
<1>3. Change(p, f) /\ UNCHANGED <<lastStamp, ambiguous>> /\ file[p].kind = "regular"
    BY DEF Chmod
<1>4. /\ file' \in [Paths -> Regular \cup NotRegular]
      /\ file'[p] = f /\ \A q \in Paths \ {p} : file'[q] = file[q]
      /\ quiet' = FALSE /\ quiet' \in BOOLEAN
      /\ UNCHANGED <<loader, call, answer>>
    <2> HIDE DEF f
    <2> QED
        BY <1>1, <1>2, <1>3, ChangeTypes
<1>5. LoaderTypeOK'
    BY <1>1, <1>3, <1>4, Zenon DEF LoaderTypeOK
<1>6. lastStamp[p] \in Int /\ file[p].stamp = lastStamp[p]
    BY <1>1, <1>3, LoaderAssumption DEF LoaderTypeOK, Stamps, LoaderInv, StampsAreLast
<1>7. Edited(p)
    <2> HIDE DEF f
    <2> QED
        BY <1>2, <1>3, <1>4, <1>6 DEF Edited
<1> QED
    BY <1>5, <1>7, EditStep

LEMMA ReplaceStep ==
    ASSUME LoaderInv, NEW p \in Paths, Replace(p) PROVE LoaderInv'
<1>1. PICK k \in {"absent", "special"} : Change(p, [kind |-> k])
    BY DEF Replace
<1>2. LoaderTypeOK /\ UNCHANGED <<lastStamp, ambiguous>> /\ [kind |-> k] \in Regular \cup NotRegular
    BY DEF LoaderInv, Replace, NotRegular
<1>3. /\ file' \in [Paths -> Regular \cup NotRegular]
      /\ file'[p] = [kind |-> k] /\ \A q \in Paths \ {p} : file'[q] = file[q]
      /\ quiet' = FALSE /\ quiet' \in BOOLEAN
      /\ UNCHANGED <<loader, call, answer>>
    BY <1>1, <1>2, ChangeTypes
<1>4. LoaderTypeOK'
    BY <1>2, <1>3, Zenon DEF LoaderTypeOK
<1>5. lastStamp[p] \in Int
    BY <1>2, LoaderAssumption DEF LoaderTypeOK, Stamps
<1>6. Edited(p)
    BY <1>2, <1>3, <1>5 DEF Edited
<1> QED
    BY <1>4, <1>6, EditStep

-----------------------------------------------------------------------------
(* HostsLoader: the theorems                                               *)

LEMMA Stutter == LoaderInv /\ UNCHANGED loaderVars => LoaderInv'
<1> SUFFICES ASSUME LoaderInv, UNCHANGED loaderVars PROVE LoaderInv'
    OBVIOUS
<1>1. UNCHANGED fileVars /\ UNCHANGED <<loader, call, answer, quiet>>
    BY DEF loaderVars
<1>2. UNCHANGED <<file, lastStamp, ambiguous>>
    BY <1>1 DEF fileVars
<1> QED
    BY <1>1, <1>2 DEF LoaderInv, LoaderTypeOK, StampsAreLast, CacheReflects, SameSince, CallReflects,
        QuietCallReflects, AnswerIsCached, QuietFileIsServed, HealthTellsTheTruth, QuietCall,
        CurrentIsValid, Current, CurrentPath, DataAt

\* The inductive invariant holds in every state.
THEOREM LoaderInvariance == LoaderSpec => []LoaderInv
<1>1. LoaderInv /\ [LoaderNext]_loaderVars => LoaderInv'
    <2> SUFFICES ASSUME LoaderInv, LoaderNext PROVE LoaderInv'
        BY Stutter
    <2> QED
        BY StatDataStep, StatFallbackStep, RejectStep, ReturnCachedStep, ReadFileStep, FinishStep,
            WriteStep, ChmodStep, ReplaceStep DEF LoaderNext
<1> QED
    BY Initially, <1>1, PTL DEF LoaderSpec

\* Every variable keeps its type (HostsLoader).
THEOREM LoaderTypeCorrect == LoaderSpec => []LoaderTypeOK
BY LoaderInvariance, PTL DEF LoaderInv

\* A call that nobody disturbs serves the list in the file, whatever the cache
\* has been through (LoadHostsWithStatus).
THEOREM QuietFileTheorem == LoaderSpec => []QuietFileIsServed
BY LoaderInvariance, PTL DEF LoaderInv

\* And reports its health (LoadHostsWithStatus, handleHealthz).
THEOREM HealthTheorem == LoaderSpec => []HealthTellsTheTruth
BY LoaderInvariance, PTL DEF LoaderInv

\* A failed reload returns the list of the call before it.
THEOREM FailureTheorem == LoaderSpec => FailureKeepsTheList
<1>1. LoaderInv /\ [LoaderNext]_loaderVars => [answer' # answer /\ answer'.error => answer'.hosts = answer.hosts]_loaderVars
    <2> SUFFICES ASSUME LoaderInv, LoaderNext, answer' # answer, answer'.error
                 PROVE  answer'.hosts = answer.hosts
        OBVIOUS
    <2>1. answer.hosts = loader.hosts
        BY DEF LoaderInv, AnswerIsCached
    <2>2. CASE Finish
        <3>1. call.data \notin Lists
            BY <2>2 DEF Finish, Return
        <3> QED
            BY <2>1, <2>2, <3>1 DEF Finish, Return, HostsAfter
    <2>3. CASE StatFallback
        BY <2>1, <2>3 DEF StatFallback, Fail, Return
    <2>4. CASE RejectSpecial
        BY <2>1, <2>4 DEF RejectSpecial, Fail, Return
    <2>5. CASE ReturnCached
        BY <2>1, <2>5 DEF ReturnCached, Return
    <2>6. CASE StatData \/ ReadFile \/ (\E p \in Paths : Write(p) \/ Chmod(p) \/ Replace(p))
        BY <2>6 DEF StatData, ReadFile, Write, Chmod, Replace, Change
    <2> QED
        BY <2>2, <2>3, <2>4, <2>5, <2>6 DEF LoaderNext
<1> QED
    BY LoaderInvariance, <1>1, PTL DEF LoaderSpec, FailureKeepsTheList

=============================================================================
