------------------------------ MODULE MacChange ------------------------------
(***************************************************************************)
(* change-mac of src/src/mac.rs: a command lists the interfaces, takes one *)
(* of them, asks the operator, and then runs ip three times: link down,    *)
(* new address, link up.  Each of these may fail, the command may be       *)
(* killed between them, and another one may be at work on the same link.   *)
(***************************************************************************)
EXTENDS IpLink

CONSTANTS
  Machines,   \* the machines to consider: the order of the names, the links
  Procs,      \* the commands that may run at the same time
  Given,      \* the addresses an operator asks for
  Drawn,      \* the first bytes the generator may draw
  Malformed,  \* an address that is none
  NoTarget,   \* no interface
  Faults      \* what may fail

\* An address is its first byte; the other five are left out.
Byte == 0..255

ASSUME MacAddressAssumption == Addresses = Byte /\ NoAddress \notin Byte
ASSUME MacInputAssumption   ==
  /\ Given \subseteq Byte \cup {Malformed} /\ Malformed \notin Byte
  /\ Drawn \subseteq Byte
ASSUME MacFaultAssumption   ==
  Faults \subseteq {"down", "set", "up", "spawn", "kill"}

\* Whether the link is set up, its address, and what ip says of it as long as it
\* is: one without a carrier says DOWN, one that waits for the link below it says
\* LOWERLAYERDOWN, which the parser does not know.
LinkState == [up : BOOLEAN, address : Addresses \cup {NoAddress}, shows : States]

ASSUME MachinesAssumption ==
  \A m \in Machines :
    /\ m.order \in Seq(STRING \ {""})
    /\ \A i, j \in DOMAIN m.order : m.order[i] = m.order[j] => i = j
    /\ DOMAIN m.link = {m.order[n] : n \in DOMAIN m.order}
    /\ m.link \in [DOMAIN m.link -> LinkState]

VARIABLES
  order,      \* the names of the interfaces, in the order ip prints them
  link,       \* each interface: is it up, and its address
  pc,         \* where each command is
  target,     \* the interface it has taken
  want,       \* the address it will set
  ret,        \* how it has ended
  excused,    \* history: the links that are down because they were found so,
              \* because ip could not bring them up, or after a kill
  overtaken   \* history: another command has set the address since this one did

macVars == <<order, link, pc, target, want, ret, excused, overtaken>>

Names == DOMAIN link
PCs   == {"idle", "confirm", "down", "set", "rescue", "up"}

\* The bits that make a first byte one of a single, local station.
Unicast(a) == a % 2 = 0
Local(a)   == (a \div 2) % 2 = 1

\* generate_random_mac: (b & 0xFC) | 0x02.
RandomMac(b) == (b - (b % 4)) + 2

\* What ip prints of the machine as it is now, and what the command makes of it.
Interface(name) ==
  [name |-> name, address |-> link[name].address,
   state |-> IF link[name].up THEN link[name].shows ELSE "Down"]
Machine == [n \in DOMAIN order |-> Interface(order[n])]
Listed  == Parsed(Printed(Machine))

MacInit ==
  /\ \E m \in Machines : order = m.order /\ link = m.link
  /\ excused = {n \in Names : ~link[n].up}
  /\ pc = [p \in Procs |-> "idle"]
  /\ target = [p \in Procs |-> NoTarget]
  /\ want = [p \in Procs |-> Malformed]
  /\ ret = [p \in Procs |-> "none"]
  /\ overtaken = [p \in Procs |-> FALSE]

MayFail(kind) == kind \in Faults

Goto(p, l) ==
  /\ pc' = [pc EXCEPT ![p] = l]
  /\ UNCHANGED <<order, target, want, ret>>

\* A command ends and reports r; its locals die with it.
Return(p, r) ==
  /\ pc' = [pc EXCEPT ![p] = "idle"]
  /\ target' = [target EXCEPT ![p] = NoTarget]
  /\ want' = [want EXCEPT ![p] = Malformed]
  /\ overtaken' = [overtaken EXCEPT ![p] = FALSE]
  /\ ret' = [ret EXCEPT ![p] = r]
  /\ UNCHANGED order

-----------------------------------------------------------------------------
(* change_mac_command *)

\* The name of the first entry that is up, if there is one: iter().find.
FirstUp(list) ==
  {list[n].name : n \in {n \in DOMAIN list :
     list[n].state = "Up" /\ \A k \in 1..(n - 1) : list[k].state # "Up"}}

\* The interface the operator names, if an entry has this name, or else the
\* first entry that is up; the address the operator gives, or a drawn one.
Choose(p) ==
  /\ pc[p] = "idle"
  /\ \E name \in {Listed[n].name : n \in DOMAIN Listed} \cup FirstUp(Listed) :
       target' = [target EXCEPT ![p] = name]
  /\ \E a \in Given \cup {RandomMac(b) : b \in Drawn} :
       want' = [want EXCEPT ![p] = a]
  /\ pc' = [pc EXCEPT ![p] = "confirm"]
  /\ ret' = [ret EXCEPT ![p] = "none"]
  /\ UNCHANGED <<order, link, excused, overtaken>>

\* ip link show fails, or there is nothing to choose.
ChooseFails(p) ==
  /\ pc[p] = "idle"
  /\ Return(p, "err")
  /\ UNCHANGED <<link, excused>>

Cancel(p) ==
  /\ pc[p] = "confirm"
  /\ Return(p, "cancelled")
  /\ UNCHANGED <<link, excused>>

\* Mutant: change_mac does not look at the form of the address.
ConfirmUnchecked(p) ==
  /\ pc[p] = "confirm"
  /\ Goto(p, "down")
  /\ UNCHANGED <<link, excused, overtaken>>

Confirm(p) ==
  /\ pc[p] = "confirm" /\ want[p] # Malformed
  /\ Goto(p, "down")
  /\ UNCHANGED <<link, excused, overtaken>>

\* is_valid_mac says no.
Invalid(p) ==
  /\ pc[p] = "confirm" /\ want[p] = Malformed
  /\ Return(p, "err")
  /\ UNCHANGED <<link, excused>>

-----------------------------------------------------------------------------
(* change_mac *)

SetLink(p, up) ==
  /\ link' = [link EXCEPT ![target[p]].up = up]
  /\ excused' = excused \ {target[p]}

\* The link stays as this command leaves it.
Strand(p) ==
  /\ excused' = excused \cup ({target[p]} \cap {n \in Names : ~link[n].up})
  /\ UNCHANGED link

LinkDown(p) ==
  /\ pc[p] = "down" /\ target[p] \in Names
  /\ SetLink(p, FALSE)
  /\ Goto(p, "set")
  /\ UNCHANGED overtaken

\* No permission, no such interface, or no ip at all.
LinkDownFails(p) ==
  /\ pc[p] = "down"
  /\ MayFail("down") \/ target[p] \notin Names
  /\ Return(p, "err")
  /\ UNCHANGED <<link, excused>>

\* The kernel takes only an address of a single station.
SetAddress(p) ==
  /\ pc[p] = "set" /\ Unicast(want[p]) /\ link[target[p]].address # NoAddress
  /\ link' = [link EXCEPT ![target[p]].address = want[p]]
  /\ overtaken' = [q \in Procs |-> IF q # p /\ pc[q] = "up" /\ target[q] = target[p]
                                   THEN TRUE ELSE overtaken[q]]
  /\ Goto(p, "up")
  /\ UNCHANGED excused

\* Mutant: the error is returned at once.
SetAddressFailsAtOnce(p) ==
  /\ pc[p] = "set"
  /\ MayFail("set") \/ ~Unicast(want[p]) \/ link[target[p]].address = NoAddress
  /\ Return(p, "err")
  /\ UNCHANGED <<link, excused>>

\* Mutant: the exit status is not looked at.
SetAddressFailsUnnoticed(p) ==
  /\ pc[p] = "set"
  /\ MayFail("set") \/ ~Unicast(want[p]) \/ link[target[p]].address = NoAddress
  /\ Goto(p, "up")
  /\ UNCHANGED <<link, excused, overtaken>>

SetAddressFails(p) ==
  /\ pc[p] = "set"
  /\ MayFail("set") \/ ~Unicast(want[p]) \/ link[target[p]].address = NoAddress
  /\ Goto(p, "rescue")
  /\ UNCHANGED <<link, excused, overtaken>>

\* The ? on output(): the program could not be started.  The command ends
\* without bringing the link up.
SetAddressNotRun(p) ==
  /\ pc[p] = "set" /\ MayFail("spawn")
  /\ Return(p, "err")
  /\ Strand(p)

\* let _ = ... up: "Try to bring interface back up before failing".
Rescue(p) ==
  /\ pc[p] = "rescue"
  /\ Return(p, "err")
  /\ \/ SetLink(p, TRUE)
     \/ MayFail("up") /\ Strand(p)

LinkUp(p) ==
  /\ pc[p] = "up"
  /\ SetLink(p, TRUE)
  /\ Return(p, "ok")

LinkUpFails(p) ==
  /\ pc[p] = "up" /\ MayFail("up")
  /\ Return(p, "err")
  /\ Strand(p)

Kill(p) ==
  /\ pc[p] # "idle" /\ MayFail("kill")
  /\ Return(p, "none")
  /\ IF pc[p] \in {"set", "rescue", "up"} THEN Strand(p) ELSE UNCHANGED <<link, excused>>

MacNext ==
  \E p \in Procs :
    \/ Choose(p) \/ ChooseFails(p) \/ Cancel(p) \/ Confirm(p) \/ Invalid(p)
    \/ LinkDown(p) \/ LinkDownFails(p)
    \/ SetAddress(p) \/ SetAddressFails(p) \/ SetAddressNotRun(p)
    \/ Rescue(p) \/ LinkUp(p) \/ LinkUpFails(p) \/ Kill(p)

MacSpec == MacInit /\ [][MacNext]_macVars

-----------------------------------------------------------------------------
(* Properties *)

\* Every variable stays in its range, and a command past link down is at work
\* on an interface of the machine with an address that is one.
MacTypeOK ==
  /\ DOMAIN link = {order[n] : n \in DOMAIN order}
  /\ link \in [Names -> LinkState]
  /\ pc \in [Procs -> PCs]
  /\ target = [p \in Procs |-> target[p]]
  /\ want \in [Procs -> Addresses \cup {Malformed}]
  /\ ret \in [Procs -> {"none", "ok", "err", "cancelled"}]
  /\ excused \subseteq {n \in Names : ~link[n].up}
  /\ overtaken \in [Procs -> BOOLEAN]
  /\ \A p \in Procs :
       /\ pc[p] \in {"down", "set", "rescue", "up"} => want[p] \in Addresses
       /\ pc[p] \in {"set", "rescue", "up"} => target[p] \in Names

\* No interface stays down behind the operator's back, however many commands
\* overlap and whichever of them fail: one that is down was down before, or a
\* command is still to bring it up, or the program that should have done so
\* failed, could not be started or was killed.
DownHasOwner ==
  \A n \in Names : ~link[n].up =>
    n \in excused \/ \E p \in Procs : target[p] = n /\ pc[p] \in {"set", "rescue", "up"}

\* "MAC address changed successfully" is true when it is printed: the interface
\* is up with the address asked for, unless a command that overlapped with
\* this one has set another one since.
SuccessIsTrue ==
  [][\A p \in Procs : pc[p] = "up" /\ pc'[p] = "idle" /\ ret'[p] = "ok" =>
       /\ link'[target[p]].up
       /\ link'[target[p]].address = want[p] \/ overtaken[p]]_macVars

\* Whatever ip says of the links, every interface but lo is listed with its name
\* and its state.  The entries of a state that the parser knows are such interfaces,
\* each once and in order, so that what else it lists (an entry for each line with an
\* address) is never taken for an interface that is up: the one chosen without a
\* name is the first that says so.
ListingServes ==
  LET machine == Machine
      list    == Listed
      Others  == {n \in DOMAIN machine : machine[n].name # "lo"}
      Known   == {j \in DOMAIN list : list[j].state # "Unknown"}
      Is(j, n) == list[j].name = machine[n].name /\ list[j].state = machine[n].state
      Up(n)   == machine[n].state = "Up"
  IN /\ \A n \in Others : \E j \in DOMAIN list : Is(j, n)
     /\ \A j \in Known : \E n \in Others : Is(j, n)
     /\ \A n, m \in Others, j, k \in Known : Is(j, n) /\ Is(k, m) => (j < k <=> n < m)
     /\ FirstUp(list) = {machine[n].name : n \in {n \in Others :
                           Up(n) /\ \A m \in Others : m < n => ~Up(m)}}
==============================================================================
