------------------------------ MODULE Netfilter ------------------------------
(***************************************************************************)
(* The packets a machine sends, the iptables rules that                    *)
(* src/src/transparent.rs appends, and the way the kernel walks a local    *)
(* packet through them: the nat OUTPUT chain first (and only for the first *)
(* packet of a connection), then the filter OUTPUT chain, which sees the   *)
(* address the nat chain has rewritten.  The walk is the kernel's, not the *)
(* program's: it is external, and modelled from what the rules rely on.    *)
(***************************************************************************)
EXTENDS Naturals, Sequences

CONSTANT UserAccepts  \* packets the user's own filter rules already accept

(***************************************************************************)
(* A packet is told apart by its sender, protocol, destination and port,   *)
(* and by whether its connection was opened after the rules were laid.     *)
(***************************************************************************)
Packet ==
  [owner : {"tor", "user"}, proto : {"tcp", "udp"},
   dst   : {"loopback", "lan", "internet", "doh"},
   port  : {"dns", "https", "other"},
   conn  : {"new", "old"}]

ASSUME UserAcceptsAssumption == UserAccepts \subseteq Packet

NatRules    == {"torReturn", "loopReturn", "lanReturn", "tcpRedirect",
                "udpDnsRedirect", "tcpDnsRedirect"}
FilterRules == {"dohReject", "torAccept", "loopAccept", "tcpReject"}
NofindRules == NatRules \cup FilterRules

Tcp(p) == p.proto = "tcp"
Udp(p) == p.proto = "udp"

(***************************************************************************)
(* The match of every rule that start_transparent appends.  The six DoH    *)
(* addresses share one rule: they differ in the address only.              *)
(***************************************************************************)
NofindMatch ==
  [torReturn      |-> {p \in Packet : Tcp(p) /\ p.owner = "tor"},
   loopReturn     |-> {p \in Packet : p.dst = "loopback"},
   lanReturn      |-> {p \in Packet : p.dst = "lan"},
   tcpRedirect    |-> {p \in Packet : Tcp(p) /\ p.conn = "new"},
   udpDnsRedirect |-> {p \in Packet : Udp(p) /\ p.port = "dns"},
   tcpDnsRedirect |-> {p \in Packet : Tcp(p) /\ p.port = "dns"},
   dohReject      |-> {p \in Packet : Tcp(p) /\ p.dst = "doh" /\ p.port = "https"},
   torAccept      |-> {p \in Packet : Tcp(p) /\ p.owner = "tor"},
   loopAccept     |-> {p \in Packet : p.dst = "loopback"},
   tcpReject      |-> {p \in Packet : Tcp(p)}]

\* Where a redirecting rule sends the packet: --to-port.
ToTransPort == {"tcpRedirect"}
ToDNSPort   == {"udpDnsRedirect", "tcpDnsRedirect"}
Redirects   == ToTransPort \cup ToDNSPort
Rejects     == {"dohReject", "tcpReject"}

\* A rule of the user's accepts the packets of UserAccepts in the filter
\* table and lets every packet through in the nat table.
FilterMatch(r) == IF r \in FilterRules THEN NofindMatch[r] ELSE UserAccepts
NatMatch(r)    == IF r \in NatRules THEN NofindMatch[r] ELSE {}

\* The first rule of the chain to match the packet is one of T.
TakenBy(chain, p, Match(_), T) ==
  \E i \in DOMAIN chain :
    /\ p \in Match(chain[i]) /\ chain[i] \in T
    /\ \A j \in 1..(i - 1) : p \in Match(chain[j]) => chain[j] \in T

\* The nat chain is consulted on the first packet of a connection.
NatTakes(natOut, p, T) == p.conn = "new" /\ TakenBy(natOut, p, NatMatch, T)

\* A redirected packet goes to a port of the machine itself.
AfterNat(natOut, p) ==
  IF NatTakes(natOut, p, Redirects)
  THEN [p EXCEPT !.dst = "loopback", !.port = "other"]
  ELSE p

Rejected(filterOut, p) == TakenBy(filterOut, p, FilterMatch, Rejects)

(***************************************************************************)
(* What becomes of a packet: it is "blocked", handed to Tor on "TransPort" *)
(* or "DNSPort", or sent "direct" to the address its program wanted.       *)
(***************************************************************************)
Route(natOut, filterOut, p) ==
  IF Rejected(filterOut, AfterNat(natOut, p)) THEN "blocked"
  ELSE IF ~NatTakes(natOut, p, Redirects) THEN "direct"
  ELSE IF NatTakes(natOut, p, ToTransPort) THEN "TransPort"
  ELSE "DNSPort"
==============================================================================
