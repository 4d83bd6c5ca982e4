-------------------------------- MODULE IpLink --------------------------------
(***************************************************************************)
(* How the MAC changer reads the interfaces of the machine, src/src/mac.rs *)
(* (parse_ip_link_output): line by line, an entry at a time.               *)
(***************************************************************************)
EXTENDS Naturals, Sequences

CONSTANTS
  Addresses,
  Second(_),  \* the second byte of an address, as it is written
  NoAddress   \* of an interface without one, a tunnel for example

\* InterfaceState: it knows UP and DOWN, of those that ip knows.
States == {"Up", "Down", "Unknown"}

\* What the parser tells apart in a line: the name between its first and its
\* second colon, an Ethernet address, and what it says of the state.
Line(colon, name, address, state) ==
  [colon |-> colon, name |-> name, address |-> address, state |-> state]

\* ip prints two lines for an interface: its number, name, flags and state;
\* then its address, whose bytes colons separate.  That of lo is of no Ethernet.
LinesOf(i) ==
  << Line(TRUE, i.name, NoAddress, i.state),
     IF i.address = NoAddress
     THEN Line(FALSE, "", NoAddress, "Unknown")
     ELSE Line(TRUE, Second(i.address),
               IF i.name = "lo" THEN NoAddress ELSE i.address, "Unknown") >>

\* Line k is the first or the second of its interface, which is the (k+1)/2th.
Printed(interfaces) ==
  [k \in 1..(2 * Len(interfaces)) |-> LinesOf(interfaces[(k + 1) \div 2])[2 - (k % 2)]]

\* The entry of a name before anything else is known; without a name, of none.
Entry(name) ==
  [name |-> name, address |-> NoAddress, state |-> "Unknown", loop |-> name = "lo"]

\* list with the entry e, unless it is the loopback's.
Save(list, e) ==
  IF e.name # "" /\ ~e.loop
  THEN Append(list, [name |-> e.name, address |-> e.address, state |-> e.state])
  ELSE list

\* The entry e with what else a line says of it.
Told(e, line) ==
  [name    |-> e.name,
   address |-> IF line.address # NoAddress THEN line.address ELSE e.address,
   state   |-> IF line.state # "Unknown" THEN line.state ELSE e.state,
   loop    |-> e.loop]

\* Mutant: the state is not reset when an entry begins.
TakeKeepsState(read, line) ==
  IF line.colon
  THEN [found |-> Save(read.found, read.entry),
        entry |-> Told([Entry(line.name) EXCEPT !.state = read.entry.state], line)]
  ELSE [found |-> read.found, entry |-> Told(read.entry, line)]

\* A line with a colon begins an entry; what else it says is of that entry.
Take(read, line) ==
  IF line.colon
  THEN [found |-> Save(read.found, read.entry), entry |-> Told(Entry(line.name), line)]
  ELSE [found |-> read.found, entry |-> Told(read.entry, line)]

\* Before the first line.
NothingRead == [found |-> << >>, entry |-> Entry("")]

\* What has been read after so many of the lines.
ReadOf(lines) ==
  LET read[n \in 0..Len(lines)] ==
        IF n = 0 THEN NothingRead ELSE Take(read[n - 1], lines[n])
  IN read

\* The entries found in the lines, the last one included.
Parsed(lines) ==
  LET read == ReadOf(lines)[Len(lines)] IN Save(read.found, read.entry)
===============================================================================
