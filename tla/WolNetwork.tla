----------------------------- MODULE WolNetwork -----------------------------
(***************************************************************************)
(* Through which network a magic packet leaves (backend/internal/wol).     *)
(* One call of SendWol: collect the IPv4 networks of the machine, narrow   *)
(* them by the address of the device, send to the broadcast address of the *)
(* one that is left.  A step is one turn of a loop or what is between two. *)
(*                                                                         *)
(* The interfaces and their addresses are one table, a row per address, in *)
(* the order in which the system lists them.                               *)
(***************************************************************************)
EXTENDS Integers, Sequences, FiniteSets

CONSTANTS
    AddressBits,  \* 32
    BlockSize,    \* how many addresses share their first p bits
    Interfaces,   \* names of interfaces
    Unset,        \* an empty wol_interface
    Tables,       \* the tables that may be found
    Configs       \* the settings a device may have

Addresses == 0..(BlockSize[0] - 1)

\* able: up, broadcast, no loopback.  "other" is whatever is not a usable
\* IPv4 network; "error" stands for an interface whose addresses cannot be
\* had.
Row == [iface : Interfaces, able : BOOLEAN, kind : {"ipv4", "other", "error"},
        ip : Addresses, prefix : 0..AddressBits]

\* skip: the interfaces whose name contains one of skip_interfaces.  An
\* IPv6 address counts for none.
Config == [sixBytes : BOOLEAN, \* the MAC address parses to six bytes
           wolInterface : Interfaces \cup {Unset}, skip : SUBSET Interfaces,
           target : {"absent", "unresolvable", "known"}, ips : SUBSET Addresses]

\* It doubles with every bit that is left.
ASSUME BlockAssumption ==
    /\ AddressBits \in Nat
    /\ BlockSize \in [0..AddressBits -> Nat]
    /\ BlockSize[AddressBits] = 1
    /\ \A p \in 1..AddressBits : BlockSize[p - 1] = 2 * BlockSize[p]

ASSUME InputsAssumption ==
    /\ Unset \notin Interfaces
    /\ Tables \subseteq Seq(Row)
    /\ Configs \subseteq Config

VARIABLES
    table,      \* what net.Interfaces and Addrs return
    host,       \* the device
    at,         \* where the call is
    next,       \* index of the loop
    candidates,
    matching,   \* those of the loop over candidates so far
    best,       \* and their prefix
    outcome     \* error, or the network chosen

inputs == <<table, host>>
vars == <<table, host, at, next, candidates, matching, best, outcome>>

Candidate == [iface : Interfaces, ip : Addresses, prefix : 0..AddressBits]

Refusal(why) == [is |-> why, by |-> <<>>]
Choice(c) == [is |-> "chosen", by |-> <<c>>]

Outcomes == {"pending", "bad MAC", "unlisted", "failed", "no network", "no match",
             "ambiguous", "unsent"}

TypeOK ==
    /\ table \in Tables
    /\ host \in Configs
    /\ at \in {"starting", "collecting", "narrowing", "choosing", "sending", "done"}
    /\ next \in Nat \ {0}
    /\ candidates \in Seq(Candidate)
    /\ matching \in Seq(Candidate)
    /\ best \in {-1} \cup 0..AddressBits
    /\ outcome \in {Refusal(o) : o \in Outcomes} \cup {Choice(c) : c \in Candidate}

Init ==
    /\ table \in Tables
    /\ host \in Configs
    /\ at = "starting"
    /\ next = 1
    /\ candidates = <<>>
    /\ matching = <<>>
    /\ best = -1
    /\ outcome = Refusal("pending")

-----------------------------------------------------------------------------
(* Networks                                                                *)

\* What the mask of a prefix leaves of an address.
NetworkOf(ip, prefix) == ip \div BlockSize[prefix]

Contains(c, ip) == NetworkOf(ip, c.prefix) = NetworkOf(c.ip, c.prefix)

Broadcast(c) == (NetworkOf(c.ip, c.prefix) + 1) * BlockSize[c.prefix] - 1

CandidateOf(r) == [iface |-> r.iface, ip |-> r.ip, prefix |-> r.prefix]

\* The filters on interfaces.
Considered(r) ==
    /\ host.wolInterface \in {Unset, r.iface}
    /\ r.iface \notin host.skip
    /\ r.able

PointToPointBug(r) == r.kind = "ipv4"

\* The filters on addresses: a network of two addresses or one has none to
\* broadcast to.
Usable(r) == r.kind = "ipv4" /\ r.prefix <= AddressBits - 2

Holds(s, c) == \E i \in 1..Len(s) : s[i] = c

DuplicatesBug(s, c) == Append(s, c)

AddCandidate(s, c) == IF Holds(s, c) THEN s ELSE Append(s, c)

-----------------------------------------------------------------------------
(* sendWol, and in it selectWolNetwork                                     *)

Stop(o) == at' = "done" /\ outcome' = o

\* The MAC address is parsed and the interfaces are listed, which may fail.
Start ==
    /\ at = "starting"
    /\ \/ ~host.sixBytes /\ Stop(Refusal("bad MAC"))
       \/ host.sixBytes /\ Stop(Refusal("unlisted"))
       \/ host.sixBytes /\ at' = "collecting" /\ UNCHANGED outcome
    /\ UNCHANGED <<inputs, next, candidates, matching, best>>

Collect ==
    /\ at = "collecting"
    /\ next <= Len(table)
    /\ LET r == table[next] IN
        IF Considered(r) /\ r.kind = "error"
        THEN Stop(Refusal("failed")) /\ UNCHANGED <<next, candidates>>
        ELSE /\ candidates' = IF Considered(r) /\ Usable(r)
                              THEN AddCandidate(candidates, CandidateOf(r)) ELSE candidates
             /\ next' = next + 1
             /\ UNCHANGED <<at, outcome>>
    /\ UNCHANGED <<inputs, matching, best>>

\* An explicit interface with one address wins, whatever the address of the
\* device.
Pinned == host.wolInterface # Unset /\ Len(candidates) = 1

Collected ==
    /\ at = "collecting"
    /\ next > Len(table)
    /\ \/ candidates = <<>> /\ Stop(Refusal("no network"))
       \/ /\ candidates # <<>>
          /\ host.target = "absent" \/ Pinned
          /\ at' = "choosing"
          /\ UNCHANGED outcome
       \/ /\ candidates # <<>>
          /\ host.target # "absent" /\ ~Pinned
          /\ IF host.target = "unresolvable"
             THEN Stop(Refusal("failed"))
             ELSE at' = "narrowing" /\ UNCHANGED outcome
    /\ next' = 1
    /\ UNCHANGED <<inputs, candidates, matching, best>>

Matches(c) == \E ip \in host.ips : Contains(c, ip)

LastOneWinsBug(c) == IF c.prefix >= best THEN <<>> ELSE matching

\* What is kept of matching when a candidate that matches comes.
Kept(c) == IF c.prefix > best THEN <<>> ELSE matching

Narrow ==
    /\ at = "narrowing"
    /\ next <= Len(candidates)
    /\ LET c == candidates[next] IN
        IF Matches(c)
        THEN /\ best' = IF c.prefix > best THEN c.prefix ELSE best
             /\ matching' = IF c.prefix = best' THEN Append(Kept(c), c) ELSE Kept(c)
        ELSE UNCHANGED <<best, matching>>
    /\ next' = next + 1
    /\ UNCHANGED <<inputs, at, candidates, outcome>>

Narrowed ==
    /\ at = "narrowing"
    /\ next > Len(candidates)
    /\ candidates' = matching
    /\ at' = "choosing"
    /\ UNCHANGED <<inputs, next, matching, best, outcome>>

Choose ==
    /\ at = "choosing"
    /\ \/ Len(candidates) = 0 /\ Stop(Refusal("no match"))
       \/ Len(candidates) > 1 /\ Stop(Refusal("ambiguous"))
       \/ Len(candidates) = 1 /\ at' = "sending" /\ outcome' = Choice(candidates[1])
    /\ UNCHANGED <<inputs, next, candidates, matching, best>>

\* The packet leaves for Broadcast of the network chosen, or cannot be sent.
Send ==
    /\ at = "sending"
    /\ at' = "done"
    /\ outcome' \in {outcome, Refusal("unsent")}
    /\ UNCHANGED <<inputs, next, candidates, matching, best>>

Next == Start \/ Collect \/ Collected \/ Narrow \/ Narrowed \/ Choose \/ Send

Spec == Init /\ [][Next]_vars

-----------------------------------------------------------------------------
(* Reference: the choice as a function of the two sets, rows and addresses *)

Rows == {table[i] : i \in 1..Len(table)}
Unreadable == \E r \in Rows : Considered(r) /\ r.kind = "error"
Networks == {CandidateOf(r) : r \in {q \in Rows : Considered(q) /\ Usable(q)}}
IsOnly(c, S) == S = {c}

\* README.md:172-177: by default the longest network that contains the
\* address; without an address, or with one network on the interface asked
\* for, the only one.
ByAddress ==
    /\ host.target # "absent"
    /\ ~(host.wolInterface # Unset /\ \E c \in Networks : IsOnly(c, Networks))
Fitting == {c \in Networks : Matches(c)}
Longest == {c \in Fitting : \A d \in Fitting : d.prefix <= c.prefix}
Selectable == IF ByAddress THEN Longest ELSE Networks

-----------------------------------------------------------------------------
(* Properties                                                              *)

\* A packet leaves only through the one network that can be meant: no other
\* network of the machine, in whatever order the system lists it and however
\* often, contains the address of the device with as long a prefix.
OnlyTheNetworkMeant ==
    outcome.is = "chosen" =>
        /\ ~Unreadable
        /\ IsOnly(outcome.by[1], Selectable)

\* And the device is not refused when there is such a network.
RefusedForAReason ==
    /\ outcome.is = "no network" => Networks = {}
    /\ outcome.is = "no match" => ByAddress /\ Fitting = {}
    /\ outcome.is = "ambiguous" => \E c, d \in Selectable : c # d
    /\ outcome.is = "failed" => Unreadable \/ (ByAddress /\ host.target = "unresolvable")

\* The packet goes to the last address of the network chosen, and that is
\* nobody's own: the network has room for two hosts besides its first and
\* its last address.
BroadcastReaches ==
    outcome.is = "chosen" =>
        LET c == outcome.by[1]
            inside == {ip \in Addresses : Contains(c, ip)}
        IN /\ Broadcast(c) \in inside
           /\ \A ip \in inside : ip <= Broadcast(c)
           /\ Cardinality(inside) >= 4

=============================================================================
