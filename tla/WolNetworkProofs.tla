-------------------------- MODULE WolNetworkProofs --------------------------
(***************************************************************************)
(* The two loops of selectWolNetwork find the networks its reference       *)
(* describes, whatever the table of addresses and the setting of the       *)
(* device.                                                                 *)
(***************************************************************************)
EXTENDS WolNetwork, FiniteSetTheorems, WellFoundedInduction, TLAPS

Elements(s) == {s[i] : i \in 1..Len(s)}
Distinct(s) == \A i, j \in 1..Len(s) : s[i] = s[j] => i = j

\* What the loops have passed.
RowsBefore(k) == {table[i] : i \in 1..(k - 1)}
NetworksOf(R) == {CandidateOf(r) : r \in {q \in R : Considered(q) /\ Usable(q)}}
FittingBefore(k) == {c \in {candidates[i] : i \in 1..(k - 1)} : Matches(c)}

Typed ==
    /\ table \in Seq(Row)
    /\ candidates \in Seq(Candidate)
    /\ matching \in Seq(Candidate)
    /\ next \in Nat \ {0}
    /\ best \in Int
    /\ host \in Config

Collecting ==
    /\ next <= Len(table) + 1
    /\ \A r \in RowsBefore(next) : ~(Considered(r) /\ r.kind = "error")
    /\ Elements(candidates) = NetworksOf(RowsBefore(next))
    /\ Distinct(candidates)
    /\ matching = <<>>
    /\ best = -1

Narrowing ==
    /\ ~Unreadable
    /\ ByAddress
    /\ next <= Len(candidates) + 1
    /\ Elements(candidates) = Networks
    /\ Distinct(candidates)
    /\ Elements(matching) = {c \in FittingBefore(next) : c.prefix = best}
    /\ Distinct(matching)
    /\ \A c \in FittingBefore(next) : c.prefix <= best
    /\ FittingBefore(next) # {} => matching # <<>>
    /\ matching = <<>> => best = -1

Choosing ==
    /\ ~Unreadable
    /\ Elements(candidates) = Selectable
    /\ Distinct(candidates)
    /\ candidates = <<>> => ByAddress /\ Fitting = {}

Inv ==
    /\ Typed
    /\ at = "starting" => next = 1 /\ candidates = <<>> /\ matching = <<>> /\ best = -1
    /\ at = "collecting" => Collecting
    /\ at = "narrowing" => Narrowing
    /\ at = "choosing" => Choosing
    /\ at = "sending" => outcome.is = "chosen"
    /\ at \notin {"sending", "done"} => outcome.is = "pending"
    /\ OnlyTheNetworkMeant
    /\ RefusedForAReason

-----------------------------------------------------------------------------
(* Powers of two, and the addresses of a network                           *)

\* Induction over the naturals, on the set of those of which a fact holds.
LEMMA SetInduction ==
    ASSUME NEW S \in SUBSET Nat, 0 \in S, \A n \in S : n + 1 \in S
    PROVE  S = Nat
<1> DEFINE Below == {ss \in Nat \X Nat : ss[1] < ss[2]}
<1>1. SUFFICES ASSUME Nat \ S # {} PROVE FALSE
  OBVIOUS
<1>2. IsWellFoundedOn(Below, Nat)
  BY NatLessThanWellFounded DEF OpToRel
<1>3. PICK n \in Nat \ S : \A m \in Nat \ S : ~(<<m, n>> \in Below)
  <2> HIDE DEF Below
  <2> QED BY <1>1, <1>2, WFMin
<1>4. n - 1 \in Nat /\ n - 1 < n /\ (n - 1) + 1 = n
  BY <1>3
<1>5. n - 1 \in S
  BY <1>3, <1>4
<1>6. n \in S
  BY <1>4, <1>5
<1> QED BY <1>3, <1>6

\* No network is empty.
LEMMA BlockPositive ==
    ASSUME NEW p \in 0..AddressBits
    PROVE  BlockSize[p] \in Nat \ {0}
<1> DEFINE S == {h \in Nat : h <= AddressBits => BlockSize[AddressBits - h] \in Nat \ {0}}
<1>1. 0 \in S
  BY BlockAssumption
<1>2. ASSUME NEW h \in S PROVE h + 1 \in S
  <2>1. SUFFICES ASSUME h + 1 <= AddressBits
                 PROVE  BlockSize[AddressBits - (h + 1)] \in Nat \ {0}
    OBVIOUS
  <2>2. AddressBits - h \in 1..AddressBits /\ AddressBits - (h + 1) = (AddressBits - h) - 1
    BY <2>1, BlockAssumption
  <2>3. BlockSize[AddressBits - (h + 1)] = 2 * BlockSize[AddressBits - h]
    BY <2>2, BlockAssumption
  <2>4. BlockSize[AddressBits - h] \in Nat \ {0}
    BY <2>1, BlockAssumption
  <2> QED BY <2>3, <2>4
<1>3. S = Nat
  <2> HIDE DEF S
  <2>1. S \in SUBSET Nat
    BY DEF S
  <2> QED BY <1>1, <1>2, <2>1, SetInduction
<1>4. AddressBits - p \in Nat /\ AddressBits - p <= AddressBits /\ AddressBits - (AddressBits - p) = p
  BY BlockAssumption
<1>5. AddressBits - p \in S
  BY <1>3, <1>4
<1> QED BY <1>4, <1>5

\* The networks of a prefix divide the addresses without a rest.
LEMMA BlocksDivide ==
    ASSUME NEW p \in 0..AddressBits
    PROVE  \E n \in Nat : BlockSize[0] = n * BlockSize[p]
<1> DEFINE S == {q \in Nat : q <= AddressBits => \E n \in Nat : BlockSize[0] = n * BlockSize[q]}
<1>1. 0 \in S
  <2>1. BlockSize[0] \in Nat /\ BlockSize[0] = 1 * BlockSize[0]
    BY BlockAssumption
  <2> QED BY <2>1
<1>2. ASSUME NEW q \in S PROVE q + 1 \in S
  <2>1. SUFFICES ASSUME q + 1 <= AddressBits
                 PROVE  \E n \in Nat : BlockSize[0] = n * BlockSize[q + 1]
    OBVIOUS
  <2>2. PICK n \in Nat : BlockSize[0] = n * BlockSize[q]
    BY <2>1, BlockAssumption
  <2>3. BlockSize[q] = 2 * BlockSize[q + 1] /\ BlockSize[q + 1] \in Nat
    <3>1. q + 1 \in 1..AddressBits /\ (q + 1) - 1 = q
      BY <2>1
    <3> QED BY <3>1, BlockAssumption
  <2>4. BlockSize[0] = (2 * n) * BlockSize[q + 1] /\ 2 * n \in Nat
    BY <2>2, <2>3
  <2> QED BY <2>4
<1>3. S = Nat
  <2> HIDE DEF S
  <2>1. S \in SUBSET Nat
    BY DEF S
  <2> QED BY <1>1, <1>2, <2>1, SetInduction
<1> QED BY <1>3

\* A prefix that leaves two bits or more leaves four addresses or more.
LEMMA BlockOfUsable ==
    ASSUME NEW p \in 0..AddressBits, p <= AddressBits - 2
    PROVE  BlockSize[p] \in Nat /\ BlockSize[p] >= 4
<1>1. p + 1 \in 1..AddressBits /\ (p + 1) - 1 = p /\ p + 2 \in 1..AddressBits /\ (p + 2) - 1 = p + 1
  BY BlockAssumption
<1>2. BlockSize[p] = 2 * BlockSize[p + 1] /\ BlockSize[p + 1] = 2 * BlockSize[p + 2]
  BY <1>1, BlockAssumption
<1>3. BlockSize[p + 2] \in Nat \ {0}
  BY <1>1, BlockPositive
<1> QED BY <1>2, <1>3

LEMMA DivBounds ==
    ASSUME NEW a \in Nat, NEW b \in Nat \ {0}
    PROVE  /\ a \div b \in Nat
           /\ (a \div b) * b <= a
           /\ a < (a \div b + 1) * b
OBVIOUS

LEMMA DivUnique ==
    ASSUME NEW q \in Nat, NEW b \in Nat \ {0}, NEW k \in 0..(b - 1)
    PROVE  (q * b + k) \div b = q
OBVIOUS

LEMMA WholeBlock ==
    ASSUME NEW n \in Nat, NEW b \in Nat \ {0}, NEW q \in Nat, q * b < n * b
    PROVE  (q + 1) * b <= n * b
OBVIOUS

\* The addresses of a usable network: they end at its broadcast address, and
\* there are four of them.
LEMMA NetworkAddresses ==
    ASSUME NEW c \in Candidate, c.prefix <= AddressBits - 2
    PROVE  LET inside == {ip \in Addresses : Contains(c, ip)}
           IN /\ Broadcast(c) \in inside
              /\ \A ip \in inside : ip <= Broadcast(c)
              /\ Cardinality(inside) >= 4
<1> DEFINE b == BlockSize[c.prefix]
           q == c.ip \div b
           inside == {ip \in Addresses : Contains(c, ip)}
<1>1. c.prefix \in 0..AddressBits /\ c.ip \in Addresses
  BY DEF Candidate
<1>2. BlockSize[0] \in Nat /\ 0 \in 0..AddressBits
  BY BlockAssumption
<1>3. c.ip \in Nat /\ c.ip < BlockSize[0]
  BY <1>1, <1>2 DEF Addresses
<1>4. b \in Nat \ {0} /\ b >= 4
  BY <1>1, BlockOfUsable
<1>5. q \in Nat /\ q * b <= c.ip
  <2> HIDE DEF b
  <2> QED BY <1>3, <1>4, DivBounds
<1>6. (q + 1) * b <= BlockSize[0]
  <2>1. PICK n \in Nat : BlockSize[0] = n * b
    BY <1>1, BlocksDivide
  <2>2. q * b < n * b
    <3>1. q * b \in Nat
      BY <1>4, <1>5
    <3> HIDE DEF q, b
    <3> QED BY <1>2, <1>3, <1>5, <2>1, <3>1
  <2> HIDE DEF q, b
  <2> QED BY <1>4, <1>5, <2>1, <2>2, WholeBlock
<1>7. (q + 1) * b = q * b + b /\ q * b \in Nat
  <2> HIDE DEF q, b
  <2> QED BY <1>4, <1>5
<1>8. ASSUME NEW k \in 0..(b - 1)
      PROVE  q * b + k \in inside
  <2>1. (q * b + k) \div b = q
    <3> HIDE DEF q, b
    <3> QED BY <1>4, <1>5, <1>8, DivUnique
  <2>2. q * b + k \in Addresses
    <3> HIDE DEF q, b
    <3> QED BY <1>2, <1>4, <1>6, <1>7, <1>8 DEF Addresses
  <2> QED BY <2>1, <2>2 DEF Contains, NetworkOf
<1>9. Broadcast(c) = q * b + (b - 1)
  BY <1>4, <1>5, <1>7 DEF Broadcast, NetworkOf
<1>10. Broadcast(c) \in inside
  <2> HIDE DEF q, b, inside
  <2> QED BY <1>4, <1>8, <1>9
<1>11. ASSUME NEW ip \in inside
       PROVE  ip <= Broadcast(c)
  <2>1. ip \in Nat /\ ip \div b = q
    BY <1>2, <1>11 DEF Contains, NetworkOf, Addresses
  <2>2. ip < (q + 1) * b
    <3> HIDE DEF q, b
    <3> QED BY <1>4, <2>1, DivBounds
  <2> HIDE DEF q, b
  <2> QED BY <1>4, <1>7, <1>9, <2>1, <2>2
<1>12. Cardinality(inside) >= 4
  <2> DEFINE first == q * b
             four == first..(first + 3)
  <2>1. first \in Nat
    BY <1>7
  <2>2. ASSUME NEW i \in four PROVE i \in inside
    <3>1. i - first \in 0..(b - 1) /\ first + (i - first) = i
      <4> HIDE DEF b, first
      <4> QED BY <1>4, <2>1, <2>2
    <3> HIDE DEF inside
    <3> QED BY <1>8, <3>1
  <2>3. Cardinality(four) = 4
    <3> HIDE DEF first
    <3> QED BY <2>1, FS_Interval
  <2>4. IsFiniteSet(inside)
    <3>1. IsFiniteSet(0..(BlockSize[0] - 1))
      BY <1>2, FS_Interval
    <3> QED BY <3>1, FS_Subset DEF Addresses
  <2>5. Cardinality(four) <= Cardinality(inside)
    <3> HIDE DEF four, inside
    <3> QED BY <2>2, <2>4, FS_Subset
  <2>6. Cardinality(inside) \in Nat
    BY <2>4, FS_CardinalityType
  <2> QED BY <2>3, <2>5, <2>6
<1> QED BY <1>10, <1>11, <1>12

-----------------------------------------------------------------------------
(* Sequences without duplicates                                            *)

LEMMA EmptySequence == Elements(<<>>) = {} /\ Distinct(<<>>)
BY DEF Elements, Distinct

LEMMA AppendElements ==
    ASSUME NEW S, NEW s \in Seq(S), NEW c \in S
    PROVE  /\ Append(s, c) \in Seq(S)
           /\ Append(s, c) # <<>>
           /\ Elements(Append(s, c)) = Elements(s) \cup {c}
           /\ Distinct(s) /\ c \notin Elements(s) => Distinct(Append(s, c))
<1>1. /\ Len(Append(s, c)) = Len(s) + 1
      /\ Len(s) \in Nat
      /\ \A i \in 1..Len(s) : Append(s, c)[i] = s[i]
      /\ Append(s, c)[Len(s) + 1] = c
  OBVIOUS
<1> DEFINE t == Append(s, c)
<1>2. t \in Seq(S) /\ t # <<>>
  BY <1>1
<1> HIDE DEF t
<1>3. Elements(t) = Elements(s) \cup {c}
  <2>1. 1..Len(t) = 1..Len(s) \cup {Len(s) + 1}
    BY <1>1 DEF t
  <2> QED BY <1>1, <2>1 DEF Elements, t
<1>4. ASSUME Distinct(s), c \notin Elements(s) PROVE Distinct(t)
  <2>1. \A i \in 1..Len(s) : s[i] # c
    BY <1>4 DEF Elements
  <2> QED BY <1>1, <1>4, <2>1 DEF Distinct, t
<1> QED BY <1>2, <1>3, <1>4 DEF t

LEMMA AddCandidateElements ==
    ASSUME NEW s \in Seq(Candidate), NEW c \in Candidate, Distinct(s)
    PROVE  /\ AddCandidate(s, c) \in Seq(Candidate)
           /\ Elements(AddCandidate(s, c)) = Elements(s) \cup {c}
           /\ Distinct(AddCandidate(s, c))
<1>1. Holds(s, c) <=> c \in Elements(s)
  BY DEF Holds, Elements
<1> QED BY <1>1, AppendElements DEF AddCandidate

LEMMA OneElement ==
    ASSUME NEW S, NEW s \in Seq(S), Distinct(s)
    PROVE  /\ Len(s) = 0 <=> s = <<>>
           /\ Len(s) = 0 => Elements(s) = {}
           /\ Len(s) = 1 => Elements(s) = {s[1]}
           /\ Len(s) > 1 => \E c, d \in Elements(s) : c # d
<1>1. Len(s) \in Nat /\ (Len(s) = 0 <=> s = <<>>)
  OBVIOUS
<1>2. ASSUME Len(s) > 1 PROVE \E c, d \in Elements(s) : c # d
  <2>1. s[1] \in Elements(s) /\ s[2] \in Elements(s)
    BY <1>1, <1>2 DEF Elements
  <2>2. s[1] # s[2]
    BY <1>1, <1>2 DEF Distinct
  <2> QED BY <2>1, <2>2
<1> QED BY <1>1, <1>2 DEF Elements

-----------------------------------------------------------------------------
(* The first loop                                                          *)

LEMMA NetworksStep ==
    ASSUME NEW R, NEW r
    PROVE  NetworksOf(R \cup {r}) =
              NetworksOf(R) \cup
              IF Considered(r) /\ Usable(r) THEN {CandidateOf(r)} ELSE {}
BY DEF NetworksOf

LEMMA CandidateType == ASSUME NEW r \in Row PROVE CandidateOf(r) \in Candidate
BY DEF Row, CandidateOf, Candidate

LEMMA CollectKeeps == ASSUME Inv, Collect PROVE Inv'
<1>a. PICK r : r = table[next]
  OBVIOUS
<1>1. Typed /\ Collecting /\ at = "collecting" /\ next <= Len(table) /\ r \in Row
  BY <1>a DEF Inv, Collect, Typed
<1>2. UNCHANGED <<table, host, matching, best>>
  BY DEF Collect, inputs
<1>3. outcome.is = "pending"
  BY <1>1 DEF Inv
<1>4. r \in Rows
  BY <1>a, <1>1 DEF Rows, Typed
<1>5. Considered(r)' = Considered(r)
  BY <1>2 DEF Considered
<1>6. CASE Considered(r) /\ r.kind = "error"
  <2>1. /\ at' = "done" /\ outcome' = Refusal("failed")
        /\ UNCHANGED <<next, candidates>>
    BY <1>a, <1>6 DEF Collect, Stop
  <2>2. Unreadable'
    BY <1>2, <1>4, <1>6 DEF Unreadable, Rows, Considered
  <2>3. outcome'.is = "failed"
    BY <2>1 DEF Refusal
  <2>4. Typed'
    BY <1>1, <1>2, <2>1 DEF Typed
  <2>5. OnlyTheNetworkMeant'
    BY <2>3 DEF OnlyTheNetworkMeant
  <2>6. RefusedForAReason'
    BY <2>2, <2>3 DEF RefusedForAReason
  <2> QED BY <2>1, <2>4, <2>5, <2>6 DEF Inv
<1>7. CASE ~(Considered(r) /\ r.kind = "error")
  <2>1. /\ candidates' = IF Considered(r) /\ Usable(r)
                         THEN AddCandidate(candidates, CandidateOf(r)) ELSE candidates
        /\ next' = next + 1
        /\ UNCHANGED <<at, outcome>>
    BY <1>a, <1>7 DEF Collect
  <2>2. CandidateOf(r) \in Candidate
    BY <1>1, CandidateType
  <2>3. Typed'
    BY <1>1, <1>2, <2>1, <2>2, AddCandidateElements DEF Typed, Collecting
  <2>4. RowsBefore(next)' = RowsBefore(next) \cup {r}
    <3>1. 1..(next' - 1) = 1..(next - 1) \cup {next}
      BY <1>1, <2>1 DEF Typed
    <3> QED BY <1>a, <1>2, <3>1 DEF RowsBefore
  <2>5. Collecting'
    <3>1. next' <= Len(table') + 1
      BY <1>1, <1>2, <2>1 DEF Typed
    <3>2. \A q \in RowsBefore(next)' : ~(Considered(q)' /\ q.kind = "error")
      BY <1>1, <1>2, <1>7, <2>4 DEF Collecting, Considered
    <3>3. Elements(candidates)' = NetworksOf(RowsBefore(next) \cup {r})
      <4>1. Elements(candidates) = NetworksOf(RowsBefore(next))
        BY <1>1 DEF Collecting
      <4>2. candidates \in Seq(Candidate) /\ Distinct(candidates)
        BY <1>1 DEF Typed, Collecting
      <4>3. CASE Considered(r) /\ Usable(r)
        <5>1. candidates' = AddCandidate(candidates, CandidateOf(r))
          BY <2>1, <4>3
        <5>2. Elements(candidates)' = Elements(candidates) \cup {CandidateOf(r)}
          <6>1. Elements(AddCandidate(candidates, CandidateOf(r)))
                  = Elements(candidates) \cup {CandidateOf(r)}
            BY <2>2, <4>2, AddCandidateElements
          <6> QED BY <5>1, <6>1
        <5>3. NetworksOf(RowsBefore(next) \cup {r})
                = NetworksOf(RowsBefore(next)) \cup {CandidateOf(r)}
          BY <4>3, NetworksStep
        <5> QED BY <4>1, <5>2, <5>3
      <4>4. CASE ~(Considered(r) /\ Usable(r))
        <5>1. candidates' = candidates
          BY <2>1, <4>4
        <5>2. Elements(candidates)' = Elements(candidates)
          BY <5>1 DEF Elements
        <5>3. NetworksOf(RowsBefore(next) \cup {r}) = NetworksOf(RowsBefore(next))
          BY <4>4, NetworksStep
        <5> QED BY <4>1, <5>2, <5>3
      <4> QED BY <4>3, <4>4
    <3>4. Distinct(candidates)'
      BY <1>1, <2>1, <2>2, AddCandidateElements DEF Typed, Collecting
    <3>5. NetworksOf(RowsBefore(next))' = NetworksOf(RowsBefore(next) \cup {r})
      <4>1. ASSUME NEW q PROVE Considered(q)' <=> Considered(q)
        BY <1>2 DEF Considered
      <4> QED BY <2>4, <4>1, Zenon DEF NetworksOf
    <3> QED BY <1>1, <1>2, <3>1, <3>2, <3>3, <3>4, <3>5 DEF Collecting
  <2>6. OnlyTheNetworkMeant' /\ RefusedForAReason'
    BY <1>1, <1>3, <2>1 DEF OnlyTheNetworkMeant, RefusedForAReason
  <2> QED BY <1>1, <1>3, <2>1, <2>3, <2>5, <2>6 DEF Inv
<1> QED BY <1>6, <1>7

\* The two ways to say that there is one network.
LEMMA OneNetwork ==
    ASSUME NEW s \in Seq(Candidate), Distinct(s), Elements(s) = Networks
    PROVE  Len(s) = 1 <=> \E c \in Networks : IsOnly(c, Networks)
<1>1. Len(s) \in Nat
  OBVIOUS
<1>2. ASSUME Len(s) = 1 PROVE \E c \in Networks : IsOnly(c, Networks)
  BY <1>2, OneElement DEF IsOnly
<1>3. ASSUME NEW c \in Networks, IsOnly(c, Networks) PROVE Len(s) = 1
  <2>1. Networks = {c}
    BY <1>3 DEF IsOnly
  <2>2. Len(s) # 0 /\ ~(Len(s) > 1)
    BY <2>1, OneElement
  <2>3. \A n \in Nat : n # 0 /\ ~(n > 1) => n = 1
    OBVIOUS
  <2> QED BY <1>1, <2>2, <2>3, Zenon
<1> QED BY <1>2, <1>3

LEMMA CollectedKeeps == ASSUME Inv, Collected PROVE Inv'
<1>1. Typed /\ Collecting /\ at = "collecting" /\ next > Len(table)
  BY DEF Inv, Collected
<1>2. UNCHANGED <<table, host, candidates, matching, best>> /\ next' = 1
  BY DEF Collected, inputs
<1>3. outcome.is = "pending"
  BY <1>1 DEF Inv
<1>4. RowsBefore(next) = Rows
  <2>1. next = Len(table) + 1 /\ Len(table) \in Nat
    BY <1>1 DEF Typed, Collecting
  <2> QED BY <2>1 DEF RowsBefore, Rows
<1>5. ~Unreadable
  BY <1>1, <1>4 DEF Collecting, Unreadable
<1>6. Elements(candidates) = Networks /\ Distinct(candidates) /\ candidates \in Seq(Candidate)
  BY <1>1, <1>4 DEF Collecting, NetworksOf, Networks, Typed
<1>7. ByAddress <=> host.target # "absent" /\ ~Pinned
  BY <1>6, OneNetwork DEF ByAddress, Pinned
<1>8. Typed'
  BY <1>1, <1>2 DEF Typed
<1>9. /\ Unreadable' = Unreadable
      /\ Networks' = Networks
      /\ ByAddress' = ByAddress
      /\ Fitting' = Fitting
      /\ Selectable' = Selectable
  BY <1>2 DEF Unreadable, Networks, ByAddress, Fitting, Longest, Selectable, Rows, Considered,
     Matches
<1>10. CASE candidates = <<>> /\ Stop(Refusal("no network"))
  <2>1. Networks = {}
    BY <1>6, <1>10, EmptySequence
  <2>2. outcome'.is = "no network" /\ at' = "done"
    BY <1>10 DEF Stop, Refusal
  <2>3. OnlyTheNetworkMeant' /\ RefusedForAReason'
    BY <1>9, <2>1, <2>2 DEF OnlyTheNetworkMeant, RefusedForAReason
  <2> QED BY <1>8, <2>2, <2>3 DEF Inv
<1>11. CASE /\ candidates # <<>>
            /\ host.target = "absent" \/ Pinned
            /\ at' = "choosing"
            /\ UNCHANGED outcome
  <2>1. Choosing'
    BY <1>2, <1>5, <1>6, <1>7, <1>9, <1>11 DEF Choosing, Selectable, Distinct, Elements
  <2>2. OnlyTheNetworkMeant' /\ RefusedForAReason'
    BY <1>3, <1>11 DEF OnlyTheNetworkMeant, RefusedForAReason
  <2> QED BY <1>3, <1>8, <1>11, <2>1, <2>2 DEF Inv
<1>12. CASE /\ candidates # <<>>
            /\ host.target # "absent" /\ ~Pinned
            /\ host.target = "unresolvable" /\ Stop(Refusal("failed"))
  <2>1. outcome'.is = "failed" /\ at' = "done"
    BY <1>12 DEF Stop, Refusal
  <2>2. ByAddress' /\ host'.target = "unresolvable"
    BY <1>2, <1>7, <1>9, <1>12
  <2>3. OnlyTheNetworkMeant' /\ RefusedForAReason'
    BY <2>1, <2>2 DEF OnlyTheNetworkMeant, RefusedForAReason
  <2> QED BY <1>8, <2>1, <2>3 DEF Inv
<1>13. CASE /\ candidates # <<>>
            /\ host.target # "absent" /\ ~Pinned
            /\ host.target # "unresolvable" /\ at' = "narrowing" /\ UNCHANGED outcome
  <2>1. FittingBefore(1)' = {}
    BY DEF FittingBefore
  <2>2. Narrowing'
    <3>1. matching' = <<>> /\ next' = 1
      BY <1>1, <1>2 DEF Collecting
    <3>a. best' = -1
      BY <1>1, <1>2 DEF Collecting
    <3>2. 1 <= Len(candidates) + 1
      BY <1>6
    <3>3. FittingBefore(next)' = {}
      BY <3>1 DEF FittingBefore
    <3>4. Elements(matching)' = {} /\ Distinct(matching)'
      BY <3>1, EmptySequence
    <3>5. Elements(candidates)' = Networks' /\ Distinct(candidates)'
      BY <1>2, <1>6, <1>9
    <3> QED BY <1>2, <1>5, <1>7, <1>9, <1>13, <3>a, <3>1, <3>2, <3>3, <3>4, <3>5 DEF Narrowing
  <2>3. OnlyTheNetworkMeant' /\ RefusedForAReason'
    BY <1>3, <1>13 DEF OnlyTheNetworkMeant, RefusedForAReason
  <2> QED BY <1>3, <1>8, <1>13, <2>2, <2>3 DEF Inv
<1> QED BY <1>10, <1>11, <1>12, <1>13 DEF Collected

-----------------------------------------------------------------------------
(* The second loop                                                         *)

LEMMA NarrowKeeps == ASSUME Inv, Narrow PROVE Inv'
<1>a. PICK c : c = candidates[next]
  OBVIOUS
<1>1. /\ Typed /\ Narrowing /\ at = "narrowing"
      /\ next \in 1..Len(candidates) /\ c \in Candidate
  BY <1>a DEF Inv, Narrow, Typed
<1>2. UNCHANGED <<table, host, at, candidates, outcome>> /\ next' = next + 1
  BY DEF Narrow, inputs
<1>3. outcome.is = "pending"
  BY <1>1 DEF Inv
<1>4. /\ Unreadable' = Unreadable
      /\ Networks' = Networks
      /\ ByAddress' = ByAddress
      /\ \A d : Matches(d)' <=> Matches(d)
  BY <1>2 DEF Unreadable, Networks, ByAddress, Rows, Considered, Matches
<1>5. c.prefix \in Int
  BY <1>1 DEF Candidate
<1>b. AddressBits \in Nat /\ c.prefix >= 0
  BY <1>1, BlockAssumption DEF Candidate
<1>6. c \notin FittingBefore(next)
  <2>1. \A i \in 1..(next - 1) : candidates[i] # c
    BY <1>a, <1>1 DEF Narrowing, Distinct, Typed
  <2> QED BY <2>1 DEF FittingBefore
<1>7. FittingBefore(next)' = FittingBefore(next) \cup IF Matches(c) THEN {c} ELSE {}
  <2>1. 1..(next' - 1) = 1..(next - 1) \cup {next}
    BY <1>1, <1>2 DEF Typed
  <2>2. {candidates'[i] : i \in 1..(next' - 1)} = {candidates[i] : i \in 1..(next - 1)} \cup {c}
    BY <1>a, <1>2, <2>1
  <2> QED BY <1>4, <2>2 DEF FittingBefore
<1>8. OnlyTheNetworkMeant' /\ RefusedForAReason'
  BY <1>1, <1>2, <1>3 DEF OnlyTheNetworkMeant, RefusedForAReason
<1>9. /\ matching' \in Seq(Candidate) /\ best' \in Int
      /\ Elements(matching)' = {d \in FittingBefore(next)' : d.prefix = best'}
      /\ Distinct(matching)'
      /\ \A d \in FittingBefore(next)' : d.prefix <= best'
      /\ FittingBefore(next)' # {} => matching' # <<>>
      /\ matching' = <<>> => best' = -1
  <2>1. CASE ~Matches(c)
    <3>1. UNCHANGED <<best, matching>>
      BY <1>a, <2>1 DEF Narrow
    <3>2. FittingBefore(next)' = FittingBefore(next)
      BY <1>7, <2>1
    <3> QED BY <1>1, <3>1, <3>2 DEF Narrowing, Typed
  <2>2. CASE Matches(c)
    <3>1. /\ best' = IF c.prefix > best THEN c.prefix ELSE best
          /\ matching' = IF c.prefix = best' THEN Append(Kept(c), c) ELSE Kept(c)
      BY <1>a, <2>2 DEF Narrow
    <3>2. FittingBefore(next)' = FittingBefore(next) \cup {c}
      BY <1>7, <2>2
    <3>3. best \in Int /\ \A d \in FittingBefore(next) : d.prefix <= best /\ d.prefix \in Int
      <4>1. \A d \in FittingBefore(next) : d \in Candidate
        BY <1>1 DEF FittingBefore, Typed
      <4> QED BY <1>1, <4>1 DEF Typed, Narrowing, Candidate
    <3>4. c \notin Elements(matching)
      BY <1>1, <1>6 DEF Narrowing
    <3>5. CASE c.prefix > best
      <4>1. best' = c.prefix /\ matching' = Append(<<>>, c)
        BY <3>1, <3>5 DEF Kept
      <4>2. /\ Append(<<>>, c) \in Seq(Candidate)
            /\ Append(<<>>, c) # <<>>
            /\ Elements(Append(<<>>, c)) = {c}
            /\ Distinct(Append(<<>>, c))
        <5>1. <<>> \in Seq(Candidate)
          OBVIOUS
        <5>2. PICK e : e = <<>>
          OBVIOUS
        <5>3. /\ Append(e, c) \in Seq(Candidate)
              /\ Append(e, c) # <<>>
              /\ Elements(Append(e, c)) = Elements(e) \cup {c}
              /\ Distinct(Append(e, c))
          <6>1. c \in Candidate /\ e \in Seq(Candidate)
            BY <1>1, <5>1, <5>2
          <6>2. Distinct(e) /\ c \notin Elements(e)
            BY <5>2, EmptySequence
          <6> QED BY <6>1, <6>2, AppendElements
        <5> QED BY <5>2, <5>3, EmptySequence, Zenon
      <4>3. \A d \in FittingBefore(next)' : d.prefix <= best' /\ (d.prefix = best' <=> d = c)
        BY <1>5, <3>2, <3>3, <3>5, <4>1
      <4>4. {d \in FittingBefore(next)' : d.prefix = best'} = {c}
        BY <3>2, <4>3
      <4>5. Elements(matching)' = {c} /\ Distinct(matching)' /\ matching' # <<>>
        BY <4>1, <4>2
      <4>6. matching' \in Seq(Candidate) /\ best' \in Int
        BY <1>5, <4>1, <4>2
      <4>7. FittingBefore(next)' # {} => matching' # <<>>
        BY <4>5
      <4> QED BY <4>3, <4>4, <4>5, <4>6, <4>7
    <3>6. CASE c.prefix = best
      <4>1. best' = best /\ matching' = Append(matching, c)
        BY <1>5, <3>1, <3>3, <3>6 DEF Kept
      <4>2. /\ Append(matching, c) \in Seq(Candidate)
            /\ Append(matching, c) # <<>>
            /\ Elements(Append(matching, c)) = Elements(matching) \cup {c}
            /\ Distinct(Append(matching, c))
        BY <1>1, <3>4, AppendElements DEF Typed, Narrowing
      <4>3. Elements(matching) = {d \in FittingBefore(next) : d.prefix = best}
        BY <1>1 DEF Narrowing
      <4>4. Elements(matching) \cup {c} = {d \in FittingBefore(next)' : d.prefix = best'}
        BY <3>2, <3>6, <4>1, <4>3
      <4> QED BY <3>2, <3>3, <3>6, <4>1, <4>2, <4>4
    <3>7. CASE ~(c.prefix > best) /\ c.prefix # best
      <4>1. best' = best /\ matching' = matching
        BY <1>5, <3>1, <3>3, <3>7 DEF Kept
      <4>2. c.prefix <= best
        BY <1>5, <3>3, <3>7
      <4>3. matching # <<>>
        BY <1>1, <1>5, <1>b, <3>3, <3>7 DEF Narrowing
      <4> QED BY <1>1, <3>2, <3>7, <4>1, <4>2, <4>3 DEF Narrowing, Typed
    <3> QED BY <1>5, <3>3, <3>5, <3>6, <3>7
  <2> QED BY <2>1, <2>2
<1>10. Typed'
  BY <1>1, <1>2, <1>9 DEF Typed
<1>11. Narrowing'
  BY <1>1, <1>2, <1>4, <1>9 DEF Narrowing, Typed
<1> QED BY <1>1, <1>2, <1>3, <1>8, <1>10, <1>11 DEF Inv

LEMMA NarrowedKeeps == ASSUME Inv, Narrowed PROVE Inv'
<1>1. Typed /\ Narrowing /\ at = "narrowing" /\ next > Len(candidates)
  BY DEF Inv, Narrowed
<1>2. /\ UNCHANGED <<table, host, next, matching, best, outcome>>
      /\ candidates' = matching /\ at' = "choosing"
  BY DEF Narrowed, inputs
<1>3. outcome.is = "pending"
  BY <1>1 DEF Inv
<1>4. Typed'
  BY <1>1, <1>2 DEF Typed
<1>5. FittingBefore(next) = Fitting
  <2>1. next - 1 = Len(candidates) /\ Len(candidates) \in Nat
    BY <1>1 DEF Typed, Narrowing
  <2>2. {candidates[i] : i \in 1..(next - 1)} = Networks
    BY <1>1, <2>1 DEF Narrowing, Elements
  <2> QED BY <2>2 DEF FittingBefore, Fitting
<1>6. \A c \in Fitting : c.prefix \in Int /\ c.prefix <= best
  <2>1. \A c \in FittingBefore(next) : c \in Candidate
    <3>1. 1..(next - 1) \subseteq 1..Len(candidates)
      BY <1>1 DEF Typed, Narrowing
    <3> QED BY <1>1, <3>1 DEF Typed, FittingBefore
  <2> QED BY <1>1, <1>5, <2>1 DEF Narrowing, Candidate
<1>7. Elements(matching) = {c \in Fitting : c.prefix = best}
  BY <1>1, <1>5 DEF Narrowing
<1>8. Fitting # {} => \E c \in Fitting : c.prefix = best
  <2>1. ASSUME Fitting # {} PROVE Elements(matching) # {}
    <3>1. matching # <<>> /\ matching \in Seq(Candidate)
      BY <1>1, <1>5, <2>1 DEF Narrowing, Typed
    <3>2. matching[1] \in Elements(matching)
      BY <3>1 DEF Elements
    <3> QED BY <3>2
  <2> QED BY <1>7, <2>1
<1>9. Elements(matching) = Longest
  BY <1>1, <1>6, <1>7, <1>8 DEF Longest, Typed
<1>10. /\ Unreadable' = Unreadable
       /\ ByAddress' = ByAddress
       /\ Fitting' = Fitting
       /\ Selectable' = Selectable
  BY <1>2 DEF Unreadable, Networks, ByAddress, Fitting, Longest, Selectable, Rows, Considered,
     Matches
<1>11. matching = <<>> => Fitting = {}
  BY <1>1, <1>5 DEF Narrowing
<1>12. Choosing'
  <2>1. Elements(candidates)' = Selectable'
    BY <1>1, <1>2, <1>9, <1>10 DEF Selectable, Narrowing
  <2>2. Distinct(candidates)'
    BY <1>1, <1>2 DEF Narrowing
  <2> QED BY <1>1, <1>2, <1>10, <1>11, <2>1, <2>2 DEF Choosing, Narrowing
<1>13. OnlyTheNetworkMeant' /\ RefusedForAReason'
  BY <1>2, <1>3 DEF OnlyTheNetworkMeant, RefusedForAReason
<1> QED BY <1>2, <1>3, <1>4, <1>12, <1>13 DEF Inv

-----------------------------------------------------------------------------
(* The end                                                                 *)

LEMMA ReferenceStays ==
    ASSUME UNCHANGED <<table, host>>
    PROVE  /\ Unreadable' = Unreadable
           /\ Networks' = Networks
           /\ ByAddress' = ByAddress
           /\ Fitting' = Fitting
           /\ Selectable' = Selectable
BY DEF Unreadable, Networks, ByAddress, Fitting, Longest, Selectable, Rows, Considered, Matches

LEMMA ChooseKeeps == ASSUME Inv, Choose PROVE Inv'
<1>1. Typed /\ Choosing /\ at = "choosing"
  BY DEF Inv, Choose
<1>2. UNCHANGED <<table, host, next, candidates, matching, best>>
  BY DEF Choose, inputs
<1>3. /\ Unreadable' = Unreadable
      /\ ByAddress' = ByAddress
      /\ Fitting' = Fitting
      /\ Selectable' = Selectable
  BY <1>2, ReferenceStays
<1>4. Typed'
  BY <1>1, <1>2 DEF Typed
<1>5. candidates \in Seq(Candidate) /\ Distinct(candidates) /\ Elements(candidates) = Selectable
  BY <1>1 DEF Typed, Choosing
<1>6. CASE Len(candidates) = 0 /\ Stop(Refusal("no match"))
  <2>1. outcome'.is = "no match" /\ at' = "done"
    BY <1>6 DEF Stop, Refusal
  <2>2. ByAddress /\ Fitting = {}
    BY <1>1, <1>5, <1>6, OneElement DEF Choosing
  <2>3. OnlyTheNetworkMeant' /\ RefusedForAReason'
    BY <1>3, <2>1, <2>2 DEF OnlyTheNetworkMeant, RefusedForAReason
  <2> QED BY <1>4, <2>1, <2>3 DEF Inv
<1>7. CASE Len(candidates) > 1 /\ Stop(Refusal("ambiguous"))
  <2>1. outcome'.is = "ambiguous" /\ at' = "done"
    BY <1>7 DEF Stop, Refusal
  <2>2. \E c, d \in Selectable' : c # d
    BY <1>3, <1>5, <1>7, OneElement
  <2>3. OnlyTheNetworkMeant' /\ RefusedForAReason'
    BY <2>1, <2>2 DEF OnlyTheNetworkMeant, RefusedForAReason
  <2> QED BY <1>4, <2>1, <2>3 DEF Inv
<1>8. CASE Len(candidates) = 1 /\ at' = "sending" /\ outcome' = Choice(candidates[1])
  <2>1. outcome'.is = "chosen" /\ outcome'.by[1] = candidates[1] /\ at' = "sending"
    BY <1>8 DEF Choice
  <2>2. Selectable = {candidates[1]}
    BY <1>5, <1>8, OneElement
  <2>3. ~Unreadable
    BY <1>1 DEF Choosing
  <2>4. OnlyTheNetworkMeant' /\ RefusedForAReason'
    BY <1>3, <2>1, <2>2, <2>3 DEF OnlyTheNetworkMeant, RefusedForAReason, IsOnly
  <2> QED BY <1>4, <2>1, <2>4 DEF Inv
<1> QED BY <1>6, <1>7, <1>8 DEF Choose

LEMMA SendKeeps == ASSUME Inv, Send PROVE Inv'
<1>1. /\ UNCHANGED <<table, host, next, candidates, matching, best>>
      /\ at' = "done"
      /\ outcome' = outcome \/ outcome' = Refusal("unsent")
      /\ outcome.is = "chosen"
  BY DEF Inv, Send, inputs
<1>2. Unreadable' = Unreadable /\ Selectable' = Selectable
  BY <1>1, ReferenceStays
<1>3. Typed'
  BY <1>1 DEF Inv, Typed
<1>4. outcome'.is \in {"chosen", "unsent"}
  BY <1>1 DEF Refusal
<1>5. OnlyTheNetworkMeant'
  BY <1>1, <1>2 DEF Inv, OnlyTheNetworkMeant, Refusal
<1>6. RefusedForAReason'
  BY <1>4 DEF RefusedForAReason
<1> QED BY <1>1, <1>3, <1>5, <1>6 DEF Inv

LEMMA LoopStays ==
    ASSUME UNCHANGED <<table, host, next, candidates, matching, best>>
    PROVE  Collecting' <=> Collecting
<1>1. \A q : Considered(q)' <=> Considered(q)
  BY DEF Considered
<1>2. RowsBefore(next)' = RowsBefore(next)
  BY DEF RowsBefore
<1>3. NetworksOf(RowsBefore(next))' = NetworksOf(RowsBefore(next))
  BY <1>1, <1>2, Zenon DEF NetworksOf
<1> QED BY <1>1, <1>2, <1>3 DEF Collecting

LEMMA StartKeeps == ASSUME Inv, Start PROVE Inv'
<1>1. /\ UNCHANGED <<table, host, next, candidates, matching, best>>
      /\ at = "starting" /\ outcome.is = "pending" /\ Typed
      /\ next = 1 /\ candidates = <<>> /\ matching = <<>> /\ best = -1
  BY DEF Inv, Start, inputs
<1>2. Typed'
  BY <1>1 DEF Typed
<1>3. CASE \E why \in {"bad MAC", "unlisted"} : Stop(Refusal(why))
  <2>a. PICK why \in {"bad MAC", "unlisted"} : at' = "done" /\ outcome' = Refusal(why)
    BY <1>3 DEF Stop
  <2>1. at' = "done" /\ outcome'.is \in {"bad MAC", "unlisted"}
    BY <2>a DEF Refusal
  <2>2. OnlyTheNetworkMeant' /\ RefusedForAReason'
    BY <2>1 DEF OnlyTheNetworkMeant, RefusedForAReason
  <2> QED BY <1>2, <2>1, <2>2 DEF Inv
<1>4. CASE at' = "collecting" /\ UNCHANGED outcome
  <2>1. RowsBefore(1) = {} /\ NetworksOf({}) = {}
    BY DEF RowsBefore, NetworksOf
  <2>2. Len(table) \in Nat
    BY <1>1 DEF Typed
  <2>3. Collecting
    <3>1. RowsBefore(next) = {} /\ NetworksOf(RowsBefore(next)) = {}
      BY <1>1, <2>1
    <3>2. Elements(candidates) = {} /\ Distinct(candidates)
      BY <1>1, EmptySequence
    <3>3. next <= Len(table) + 1
      BY <1>1, <2>2
    <3> QED BY <1>1, <3>1, <3>2, <3>3, Zenon DEF Collecting
  <2>4. Collecting'
    BY <1>1, <2>3, LoopStays
  <2>5. OnlyTheNetworkMeant' /\ RefusedForAReason'
    BY <1>1, <1>4 DEF OnlyTheNetworkMeant, RefusedForAReason
  <2> QED BY <1>1, <1>2, <1>4, <2>4, <2>5 DEF Inv
<1> QED BY <1>3, <1>4 DEF Start

LEMMA InitInv == Init => Inv
BY InputsAssumption DEF Init, Inv, Typed, OnlyTheNetworkMeant, RefusedForAReason, Refusal

LEMMA StutterKeeps == ASSUME Inv, UNCHANGED vars PROVE Inv'
<1> USE DEF vars, Inv
<1>1. Typed' /\ OnlyTheNetworkMeant' /\ RefusedForAReason'
  <2>1. UNCHANGED <<table, host, at, outcome>>
    OBVIOUS
  <2>2. Typed'
    BY DEF Typed
  <2>3. OnlyTheNetworkMeant'
    BY <2>1, ReferenceStays DEF OnlyTheNetworkMeant
  <2>4. RefusedForAReason'
    BY <2>1, ReferenceStays DEF RefusedForAReason
  <2> QED BY <2>2, <2>3, <2>4
<1>2. Collecting' <=> Collecting
  BY LoopStays
<1>3. Narrowing' <=> Narrowing
  BY ReferenceStays DEF Narrowing, FittingBefore, Matches
<1>4. Choosing' <=> Choosing
  BY ReferenceStays DEF Choosing
<1> QED BY <1>1, <1>2, <1>3, <1>4

LEMMA StepInv == Inv /\ [Next]_vars => Inv'
BY StartKeeps, CollectKeeps, CollectedKeeps, NarrowKeeps, NarrowedKeeps, ChooseKeeps, SendKeeps,
   StutterKeeps DEF Next

-----------------------------------------------------------------------------
(* Types                                                                   *)

LEMMA StepTypes ==
    ASSUME TypeOK, [Next]_vars PROVE TypeOK'
<1> DEFINE Reasons == {Refusal(o) : o \in Outcomes}
<1>1. TypeOK /\ table \in Seq(Row)
  BY InputsAssumption DEF TypeOK
<1>2. ASSUME NEW o \in Outcomes PROVE Refusal(o) \in Reasons
  OBVIOUS
<1>3. CASE Start
  BY <1>1, <1>2, <1>3 DEF Start, Stop, TypeOK, inputs, Outcomes
<1>4. CASE Collect
  <2>1. table[next] \in Row
    BY <1>1, <1>4 DEF Collect, TypeOK
  <2>2. CandidateOf(table[next]) \in Candidate
    BY <2>1 DEF CandidateOf, Candidate, Row
  <2>3. AddCandidate(candidates, CandidateOf(table[next])) \in Seq(Candidate)
    BY <1>1, <2>2 DEF AddCandidate, TypeOK
  <2>4. candidates' \in Seq(Candidate)
    BY <1>1, <1>4, <2>3 DEF Collect, TypeOK
  <2>5. next' \in Nat \ {0} /\ at' \in {"collecting", "done"}
    BY <1>1, <1>4 DEF Collect, Stop, TypeOK
  <2>6. outcome' = outcome \/ outcome' = Refusal("failed")
    BY <1>4 DEF Collect, Stop
  <2>7. UNCHANGED <<inputs, matching, best>>
    BY <1>4 DEF Collect
  <2> QED BY <1>1, <1>2, <2>4, <2>5, <2>6, <2>7 DEF TypeOK, inputs, Outcomes
<1>5. CASE Collected
  <2>1. \/ at' \in {"choosing", "narrowing"} /\ outcome' = outcome
        \/ at' = "done" /\ outcome' \in {Refusal("no network"), Refusal("failed")}
    BY <1>5 DEF Collected, Stop
  <2>2. next' = 1 /\ UNCHANGED <<inputs, candidates, matching, best>>
    BY <1>5 DEF Collected
  <2>3. outcome' \in Reasons \cup {outcome}
    BY <1>2, <2>1 DEF Outcomes
  <2> HIDE DEF Reasons
  <2>4. outcome' \in Reasons \cup {Choice(c) : c \in Candidate}
    BY <1>1, <2>3 DEF TypeOK, Reasons
  <2>5. at' \in {"starting", "collecting", "narrowing", "choosing", "sending", "done"}
    BY <2>1
  <2> QED BY <1>1, <2>2, <2>4, <2>5 DEF TypeOK, inputs, Reasons
<1>6. CASE Narrow
  <2> DEFINE c == candidates[next]
  <2>1. c \in Candidate
    <3>1. candidates \in Seq(Candidate) /\ next \in 1..Len(candidates)
      BY <1>1, <1>6 DEF Narrow, TypeOK
    <3> QED BY <3>1
  <2>2. Kept(c) \in Seq(Candidate) /\ c.prefix \in 0..AddressBits
    BY <1>1, <2>1 DEF Kept, TypeOK, Candidate
  <2>3. matching' \in Seq(Candidate) /\ best' \in {-1} \cup 0..AddressBits
    <3>1. matching' \in {matching, Kept(c), Append(Kept(c), c)} /\ best' \in {best, c.prefix}
      BY <1>6 DEF Narrow
    <3>2. matching \in Seq(Candidate) /\ best \in {-1} \cup 0..AddressBits
      BY <1>1 DEF TypeOK
    <3>3. Append(Kept(c), c) \in Seq(Candidate)
      <4> HIDE DEF c
      <4> QED BY <2>1, <2>2, AppendElements
    <3> HIDE DEF c
    <3> QED BY <2>2, <3>1, <3>2, <3>3
  <2>4. next' \in Nat \ {0} /\ UNCHANGED <<inputs, at, candidates, outcome>>
    BY <1>1, <1>6 DEF Narrow, TypeOK
  <2> QED BY <1>1, <2>3, <2>4 DEF TypeOK, inputs
<1>7. CASE Narrowed
  BY <1>1, <1>7 DEF Narrowed, TypeOK, inputs
<1>8. CASE Choose
  <2>1. Len(candidates) = 1 => Choice(candidates[1]) \in {Choice(c) : c \in Candidate}
    <3>1. candidates \in Seq(Candidate)
      BY <1>1 DEF TypeOK
    <3>2. Len(candidates) = 1 => candidates[1] \in Candidate
      BY <3>1
    <3> QED BY <3>2
  <2> QED BY <1>1, <1>2, <1>8, <2>1 DEF Choose, Stop, TypeOK, inputs, Outcomes
<1>9. CASE Send
  BY <1>1, <1>2, <1>9 DEF Send, TypeOK, inputs, Outcomes
<1>10. CASE UNCHANGED vars
  BY <1>1, <1>10 DEF TypeOK, vars, inputs
<1> QED BY <1>3, <1>4, <1>5, <1>6, <1>7, <1>8, <1>9, <1>10 DEF Next

-----------------------------------------------------------------------------
(* The theorems                                                            *)

\* Every variable of a call keeps its type.
THEOREM TypeCorrect == Spec => []TypeOK
<1>1. Init => TypeOK
  BY DEF Init, TypeOK, Outcomes
<1>2. TypeOK /\ [Next]_vars => TypeOK'
  BY StepTypes
<1> QED BY <1>1, <1>2, PTL DEF Spec

\* The invariant of the loops.
THEOREM Invariance == Spec => []Inv
BY InitInv, StepInv, PTL DEF Spec

\* SendWol uses the one network the device's settings mean, or none.
THEOREM NetworkTheorem == Spec => []OnlyTheNetworkMeant
<1>1. Inv => OnlyTheNetworkMeant
  BY DEF Inv
<1> QED BY <1>1, Invariance, PTL

\* It refuses only when there is none, or several.
THEOREM RefusalTheorem == Spec => []RefusedForAReason
<1>1. Inv => RefusedForAReason
  BY DEF Inv
<1> QED BY <1>1, Invariance, PTL

\* What is chosen is one of the usable networks of the table.
LEMMA ChosenIsUsable ==
    ASSUME Inv, outcome.is = "chosen"
    PROVE  outcome.by[1] \in Candidate /\ outcome.by[1].prefix <= AddressBits - 2
<1> DEFINE c == outcome.by[1]
<1>1. c \in Networks
  BY DEF Inv, OnlyTheNetworkMeant, IsOnly, Selectable, Longest, Fitting
<1>2. PICK r \in Rows : Usable(r) /\ c = CandidateOf(r)
  BY <1>1 DEF Networks
<1>3. r \in Row
  BY <1>2 DEF Rows, Inv, Typed
<1> QED BY <1>2, <1>3 DEF CandidateOf, Candidate, Row, Usable

\* A packet goes to the last address of its network, which is no host's
\* (wol.go:53-64, 117-120).
THEOREM BroadcastTheorem == Spec => []BroadcastReaches
<1>1. Inv => BroadcastReaches
  BY ChosenIsUsable, NetworkAddresses DEF BroadcastReaches
<1> QED BY <1>1, Invariance, PTL

=============================================================================
