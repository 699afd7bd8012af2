---------------------------- MODULE MCWolNetwork ----------------------------
(* WolNetwork for TLC: four-bit addresses, tables of up to three rows.      *)
EXTENDS WolNetwork, TLC

CONSTANTS eth, wifi

FourBits == [p \in 0..4 |-> 2^(4 - p)]

TwoInterfaces == {eth, wifi}

\* 0/1 contains 4/2, 5/2 is in the same network as 4/2, 8/1 is the other half;
\* 4/3 is too small.
Networks4 == {<<0, 1>>, <<4, 2>>, <<5, 2>>, <<8, 1>>, <<4, 3>>}

SomeRows ==
    {[iface |-> i, able |-> TRUE, kind |-> "ipv4", ip |-> n[1], prefix |-> n[2]] :
        i \in TwoInterfaces, n \in Networks4}
    \cup {[iface |-> i, able |-> a, kind |-> k, ip |-> 4, prefix |-> 2] :
        i \in TwoInterfaces, a \in {FALSE}, k \in {"ipv4", "error"}}
    \cup {[iface |-> wifi, able |-> TRUE, kind |-> k, ip |-> 4, prefix |-> 2] :
        k \in {"other", "error"}}

\* The rows of an interface are listed together and agree about it; one
\* whose addresses cannot be had has no other.
OneInterface(t, i, j) ==
    t[i].iface = t[j].iface =>
        /\ \A k \in i..j : t[k].iface = t[i].iface
        /\ t[i].able = t[j].able
        /\ "error" \notin {t[i].kind, t[j].kind}

SomeTables ==
    {t \in UNION {[1..n -> SomeRows] : n \in 0..3} :
        \A i, j \in DOMAIN t : i < j => OneInterface(t, i, j)}

SomeConfigs ==
    [sixBytes : {TRUE}, wolInterface : {eth, Unset}, skip : {{}, {eth}},
     target : {"known"}, ips : {{}, {6}, {6, 9}}]
    \cup [sixBytes : {TRUE}, wolInterface : {eth, Unset}, skip : {{}},
          target : {"absent", "unresolvable"}, ips : {{}}]
    \cup [sixBytes : {FALSE}, wolInterface : {eth}, skip : {{}},
          target : {"known"}, ips : {{6}}]

=============================================================================
