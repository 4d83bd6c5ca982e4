----------------------------- MODULE MCMacChange -----------------------------
(***************************************************************************)
(* Small machines: lo, a wired interface, one end of a pair whose other    *)
(* end, in a namespace of its own, is down, and a tunnel without address.  *)
(***************************************************************************)
EXTENDS MacChange

MCAddresses == Byte

\* The second bytes differ from every name; the one of lo's address is 00.
MCSecond(a) == IF a = 0 THEN "00" ELSE "54"

MCAddress == [lo |-> 0, eth0 |-> 82, tun0 |-> NoAddress, veth0 |-> 82]
\* Of the pair ip says UP as the last flag and LOWERLAYERDOWN as the state.
MCShows   == [lo |-> "Up", eth0 |-> "Up", tun0 |-> "Up", veth0 |-> "Unknown"]

\* The interfaces named, of which some are up.
Of(names, ups) ==
  [order |-> names,
   link |-> [n \in {names[i] : i \in DOMAIN names} |->
               [up |-> n \in ups, address |-> MCAddress[n], shows |-> MCShows[n]]]]

MCMachines == {Of(<<"lo", "veth0", "eth0">>, {"lo", "veth0", "eth0"}),
               Of(<<"lo", "eth0">>, {"lo", "eth0"}),
               Of(<<"lo", "tun0", "eth0">>, {"lo", "tun0"}),
               Of(<<"lo", "eth0", "tun0">>, {"lo", "eth0"})}

\* A factory address, one of a group, and something that is no address.
MCGiven == {82, 1, Malformed}
MCDrawn == {255}
==============================================================================
