---------------------------- MODULE MCTransparent ----------------------------
(***************************************************************************)
(* Small instances of Transparent: a user who has a rule in each chain.    *)
(***************************************************************************)
EXTENDS Transparent

MCUserRules == {"userNat", "userPre", "userFilter"}

MCOwn == [natOutput |-> <<"userNat">>, natPrerouting |-> <<"userPre">>,
          filterOutput |-> <<"userFilter">>]

\* A machine on which no firewall was ever set up.
MCBareOwn == [c \in Chains |-> << >>]

MCFilterOwn == [MCBareOwn EXCEPT !["filterOutput"] = <<"userFilter">>]

\* The user's filter rule accepts UDP to the local network.
MCUserAccepts == {p \in Packet : Udp(p) /\ p.dst = "lan"}

BothTables == {"nat", "filter"}
PlainOnly  == {NoOptions}
\* A plain start, and one with the kill switch and DNSPort up.
TwoOptions == {NoOptions, [kill |-> TRUE, lan |-> FALSE, dns |-> TRUE]}
AllFaults  == FaultKinds
\* Every fault but an iptables-save that fails and is not noticed.
NoticedFaults == FaultKinds \ {"save"}
\* The faults that leave the host half changed.
HalfwayFaults == {"save", "append", "restore"}
==============================================================================
