------------------------------ MODULE MacProofs ------------------------------
(***************************************************************************)
(* What is proved of change-mac for any machine, any number of commands at *)
(* once and whatever fails: no interface is left down without a failure    *)
(* that explains it, a success is true when it is reported, and the list   *)
(* that the parser makes of the interfaces is good enough to choose from.  *)
(***************************************************************************)
EXTENDS MacChange, SequenceTheorems, WellFoundedInduction, TLAPS

\* The places from link down to the end.
Owning == {"set", "rescue", "up"}

\* A command that is about to bring the link up has set its address, unless
\* another command has set one since.
AddressSet ==
  \A p \in Procs : pc[p] = "up" => link[target[p]].address = want[p] \/ overtaken[p]

MacInv == MacTypeOK /\ DownHasOwner /\ AddressSet

-----------------------------------------------------------------------------
(* The generator *)

\* generate_random_mac: whatever byte is drawn, the address is one of a single
\* station, locally administered, as its comment says (mac.rs:33-34).
THEOREM RandomMacIsLocal ==
  ASSUME NEW b \in Byte
  PROVE  /\ RandomMac(b) \in Byte
         /\ Unicast(RandomMac(b))
         /\ Local(RandomMac(b))
BY DEF Byte, RandomMac, Unicast, Local

-----------------------------------------------------------------------------
(* The listing *)

\* The parser's loop has a result after each line: the recursion over the lines
\* is well defined, and each line is taken once, in order.
LEMMA ReadIs ==
  ASSUME NEW lines, Len(lines) \in Nat
  PROVE  /\ ReadOf(lines)[0] = NothingRead
         /\ \A n \in 1..Len(lines) : ReadOf(lines)[n] = Take(ReadOf(lines)[n - 1], lines[n])
<1> DEFINE Is(g, n) == g = [i \in 0..n |-> IF i = 0 THEN NothingRead ELSE Take(g[i - 1], lines[i])]
           T == {n \in 0..Len(lines) : ~ \E g : Is(g, n)}
<1>1. T = {}
  <2> SUFFICES ASSUME T # {} PROVE FALSE
    OBVIOUS
  <2>1. T \subseteq Nat
    OBVIOUS
  <2>2. PICK n \in T : \A m \in T : ~ (<<m, n>> \in OpToRel(<, Nat))
    BY <2>1, NatLessThanWellFounded, WFMin
  <2>3. \A m \in T : ~(m < n)
    BY <2>1, <2>2 DEF OpToRel
  <2>4. CASE n = 0
    <3> DEFINE h == [i \in 0..0 |-> NothingRead]
    <3>1. h = [i \in 0..0 |-> IF i = 0 THEN NothingRead ELSE Take(h[i - 1], lines[i])]
      OBVIOUS
    <3> QED
      BY <2>4, <3>1
  <2>5. CASE n # 0
    <3>1. n \in Nat \ {0} /\ n - 1 \in 0..Len(lines) /\ n - 1 < n
      <4>1. n \in 0..Len(lines)
        OBVIOUS
      <4> QED
        BY <2>5, <4>1
    <3>2. PICK g : Is(g, n - 1)
      BY <2>3, <3>1
    <3> DEFINE h == [i \in 0..n |-> IF i = n THEN Take(g[n - 1], lines[n]) ELSE g[i]]
    <3>3. \A i \in 0..(n - 1) : g[i] = IF i = 0 THEN NothingRead ELSE Take(g[i - 1], lines[i])
      BY <3>2
    <3>4. ASSUME NEW i \in 0..n
          PROVE  h[i] = IF i = 0 THEN NothingRead ELSE Take(h[i - 1], lines[i])
      <4>1. CASE i = n
        BY <3>1, <4>1
      <4>2. CASE i # n
        <5>1. i \in 0..(n - 1) /\ h[i] = g[i] /\ (i # 0 => h[i - 1] = g[i - 1])
          BY <3>1, <4>2
        <5> QED
          BY <3>3, <5>1
      <4> QED
        BY <4>1, <4>2
    <3>5. Is(h, n)
      BY <3>4
    <3> QED
      BY <3>5
  <2> QED
    BY <2>4, <2>5
<1>2. Len(lines) \notin T
  BY <1>1
<1>3. \E g : Is(g, Len(lines))
  BY <1>2
<1>4. ReadOf(lines) = CHOOSE g : Is(g, Len(lines))
  BY DEF ReadOf
<1>5. Is(ReadOf(lines), Len(lines))
  BY <1>3, <1>4
<1> QED
  BY <1>5

\* ip prints two lines for each interface, the second behind the first.
LEMMA PrintedIs ==
  ASSUME NEW s, Len(s) \in Nat
  PROVE  /\ Len(Printed(s)) = 2 * Len(s)
         /\ \A n \in 0..(Len(s) - 1) : /\ Printed(s)[2 * n + 1] = LinesOf(s[n + 1])[1]
                                       /\ Printed(s)[2 * n + 2] = LinesOf(s[n + 1])[2]
<1> DEFINE f(k) == LinesOf(s[(k + 1) \div 2])[2 - (k % 2)]
<1>1. Printed(s) = [k \in 1..(2 * Len(s)) |-> f(k)]
  BY DEF Printed
<1> HIDE DEF f
<1>2. 2 * Len(s) \in Nat
  OBVIOUS
<1>3. Len(Printed(s)) = 2 * Len(s)
  BY <1>1, <1>2
<1>4. ASSUME NEW n \in 0..(Len(s) - 1)
      PROVE  /\ Printed(s)[2 * n + 1] = LinesOf(s[n + 1])[1]
             /\ Printed(s)[2 * n + 2] = LinesOf(s[n + 1])[2]
  <2>1. 2 * n + 1 \in 1..(2 * Len(s)) /\ 2 * n + 2 \in 1..(2 * Len(s))
    OBVIOUS
  <2>2. /\ (2 * n + 1 + 1) \div 2 = n + 1 /\ 2 - ((2 * n + 1) % 2) = 1
        /\ (2 * n + 2 + 1) \div 2 = n + 1 /\ 2 - ((2 * n + 2) % 2) = 2
    OBVIOUS
  <2> QED
    BY <1>1, <2>1, <2>2 DEF f
<1> QED
  BY <1>3, <1>4

\* An entry for the interfaces of s.
EntryFor(s) ==
  [name : {s[n].name : n \in DOMAIN s} \cup {Second(a) : a \in Addresses},
   address : Addresses \cup {NoAddress}, state : States]

\* What an interface of a machine looks like to ip.
AnInterface == [name : STRING \ {""}, address : Addresses \cup {NoAddress}, state : States]

Is(e, i) == e.name = i.name /\ e.state = i.state

\* The list has the first n interfaces of s but lo, and of the states the parser
\* knows nothing else, each once and in order.
Known(list) == {j \in 1..Len(list) : list[j].state # "Unknown"}

Holds(list, s, n) ==
  /\ list \in Seq(EntryFor(s))
  /\ \A i \in 1..n : s[i].name # "lo" => \E j \in 1..Len(list) : Is(list[j], s[i])
  /\ \A j \in Known(list) : \E i \in 1..n : s[i].name # "lo" /\ Is(list[j], s[i])
  /\ \A i, m \in 1..n, j, k \in Known(list) :
       Is(list[j], s[i]) /\ Is(list[k], s[m]) => (j < k <=> i < m)

\* An entry of no state behind the list changes nothing of what it holds.
LEMMA HoldsMore ==
  ASSUME NEW s \in Seq(AnInterface), NEW n \in 0..Len(s), NEW list, Holds(list, s, n),
         NEW e \in EntryFor(s), e.state = "Unknown"
  PROVE  Holds(Append(list, e), s, n)
<1> DEFINE L == Append(list, e)
<1>1. /\ L \in Seq(EntryFor(s)) /\ Len(L) = Len(list) + 1 /\ Len(list) \in Nat
      /\ \A j \in 1..Len(list) : L[j] = list[j]
      /\ L[Len(list) + 1] = e
  BY AppendProperties DEF Holds
<1> HIDE DEF L
<1>2. Known(L) = Known(list) /\ \A j \in Known(list) : L[j] = list[j]
  BY <1>1 DEF Known
<1>3. \A i \in 1..n : s[i].name # "lo" => \E j \in 1..Len(L) : Is(L[j], s[i])
  BY <1>1 DEF Holds
<1>4. \A j \in Known(L) : \E i \in 1..n : s[i].name # "lo" /\ Is(L[j], s[i])
  BY <1>2 DEF Holds
<1>5. \A i, m \in 1..n, j, k \in Known(L) :
        Is(L[j], s[i]) /\ Is(L[k], s[m]) => (j < k <=> i < m)
  BY <1>2 DEF Holds
<1> QED
  BY <1>1, <1>3, <1>4, <1>5 DEF Holds, L

\* The loopback is not among them.
LEMMA HoldsLoopback ==
  ASSUME NEW s \in Seq(AnInterface), NEW n \in 0..(Len(s) - 1), NEW list, Holds(list, s, n),
         s[n + 1].name = "lo"
  PROVE  Holds(list, s, n + 1)
<1>1. \A j \in Known(list) : ~ Is(list[j], s[n + 1])
  BY DEF Holds, Is
<1>2. \A i \in 1..(n + 1) : i \in 1..n \/ i = n + 1
  OBVIOUS
<1>3. \A i \in 1..n : i \in 1..(n + 1)
  OBVIOUS
<1> QED
  BY <1>1, <1>2, <1>3 DEF Holds

\* Every other interface becomes the last entry.
LEMMA HoldsNext ==
  ASSUME NEW s \in Seq(AnInterface), \A i, j \in DOMAIN s : s[i].name = s[j].name => i = j,
         NEW n \in 0..(Len(s) - 1), NEW list, Holds(list, s, n), s[n + 1].name # "lo",
         NEW e \in EntryFor(s), Is(e, s[n + 1])
  PROVE  Holds(Append(list, e), s, n + 1)
<1> DEFINE L == Append(list, e)
<1>1. /\ L \in Seq(EntryFor(s)) /\ Len(L) = Len(list) + 1 /\ Len(list) \in Nat
      /\ \A j \in 1..Len(list) : L[j] = list[j]
      /\ L[Len(list) + 1] = e
  BY AppendProperties DEF Holds
<1> HIDE DEF L
<1>2. /\ \A i \in 1..(n + 1) : i \in 1..n \/ i = n + 1
      /\ \A i \in 1..n : i \in 1..(n + 1) /\ i < n + 1
      /\ \A j \in 1..Len(L) : j \in 1..Len(list) \/ j = Len(list) + 1
      /\ \A j \in 1..Len(list) : j \in 1..Len(L) /\ j < Len(list) + 1
      /\ Len(list) + 1 \in 1..Len(L) /\ n + 1 \in 1..(n + 1)
  BY <1>1
<1>3. \A j \in Known(L) : \/ j \in Known(list) /\ L[j] = list[j]
                       \/ j = Len(list) + 1
  BY <1>1, <1>2 DEF Known
<1>4. \A i, j \in 1..(n + 1) : s[i].name = s[j].name => i = j
  OBVIOUS
<1>5. \A i \in 1..n : ~ Is(e, s[i])
  BY <1>2, <1>4 DEF Is
<1>6. \A j \in Known(list) : ~ Is(list[j], s[n + 1])
  <2> SUFFICES ASSUME NEW j \in Known(list), Is(list[j], s[n + 1]) PROVE FALSE
    OBVIOUS
  <2>1. PICK i \in 1..n : Is(list[j], s[i])
    BY DEF Holds
  <2>2. s[i].name = s[n + 1].name
    BY <2>1 DEF Is
  <2> QED
    BY <1>2, <1>4, <2>2
<1>7. \A i \in 1..(n + 1) : s[i].name # "lo" => \E j \in 1..Len(L) : Is(L[j], s[i])
  BY <1>1, <1>2 DEF Holds
<1>8. \A j \in Known(L) : \E i \in 1..(n + 1) : s[i].name # "lo" /\ Is(L[j], s[i])
  BY <1>1, <1>2, <1>3 DEF Holds
<1>9. ASSUME NEW i \in 1..(n + 1), NEW m \in 1..(n + 1), NEW j \in Known(L), NEW k \in Known(L),
             Is(L[j], s[i]), Is(L[k], s[m])
      PROVE  j < k <=> i < m
  <2>1. j = Len(list) + 1 <=> i = n + 1
    BY <1>1, <1>2, <1>3, <1>5, <1>6, <1>9
  <2>2. k = Len(list) + 1 <=> m = n + 1
    BY <1>1, <1>2, <1>3, <1>5, <1>6, <1>9
  <2>3. j \in 1..Len(L) /\ k \in 1..Len(L)
    BY DEF Known
  <2>4. CASE i = n + 1 \/ m = n + 1
    BY <1>1, <1>2, <2>1, <2>2, <2>3, <2>4
  <2>5. CASE i # n + 1 /\ m # n + 1
    BY <1>2, <1>3, <1>9, <2>1, <2>2, <2>5 DEF Holds
  <2> QED
    BY <2>4, <2>5
<1> QED
  BY <1>1, <1>7, <1>8, <1>9 DEF Holds, L

\* A line without a colon, an address and a state adds nothing to the entry.
LEMMA QuietLine ==
  ASSUME NEW f, NEW e, NEW read, read = [found |-> f, entry |-> e],
         e = [name |-> e.name, address |-> e.address, state |-> e.state, loop |-> e.loop]
  PROVE  Take(read, Line(FALSE, "", NoAddress, "Unknown")) = read
BY DEF Take, Told, Line

\* What two lines of an interface add to the list: the interface, unless it is
\* lo, and behind it an entry of no state, if there is an address.
LEMMA TwoLines ==
  ASSUME NEW i \in AnInterface, NEW read,
         NEW first, first = Take(read, LinesOf(i)[1]),
         NEW second, second = Take(first, LinesOf(i)[2])
  PROVE  LET kept == Save(Save(read.found, read.entry),
                          [name |-> i.name, address |-> NoAddress, state |-> i.state,
                           loop |-> i.name = "lo"])
         IN \/ Save(second.found, second.entry) = kept
            \/ \E r : /\ r \in [name : {Second(a) : a \in Addresses},
                                address : Addresses \cup {NoAddress}, state : {"Unknown"}]
                     /\ Save(second.found, second.entry) = Append(kept, r)
<1> DEFINE L == Save(read.found, read.entry)
           own == [name |-> i.name, address |-> NoAddress, state |-> i.state,
                   loop |-> i.name = "lo"]
           kept == Save(L, own)
<1>1. first = [found |-> L, entry |-> own]
  BY DEF Take, Told, Entry, LinesOf, Line, AnInterface
<1>2. CASE i.address = NoAddress
  <2>1. LinesOf(i)[2] = Line(FALSE, "", NoAddress, "Unknown")
    BY <1>2 DEF LinesOf
  <2>2. own = [name |-> own.name, address |-> own.address, state |-> own.state,
               loop |-> own.loop]
    OBVIOUS
  <2> HIDE DEF own, L
  <2>3. second = first
    BY <1>1, <2>1, <2>2, QuietLine
  <2> QED
    BY <1>1, <2>3 DEF own, L
<1>3. CASE i.address # NoAddress
  <2> DEFINE a == IF i.name = "lo" THEN NoAddress ELSE i.address
             e == second.entry
             r == [name |-> e.name, address |-> e.address, state |-> e.state]
  <2>1. LinesOf(i)[2] = Line(TRUE, Second(i.address), a, "Unknown")
    BY <1>3 DEF LinesOf
  <2>2. /\ second.found = Save(first.found, first.entry)
        /\ e.name = Second(i.address) /\ e.address = a /\ e.state = "Unknown"
    <3>1. second = Take(first, Line(TRUE, Second(i.address), a, "Unknown"))
      BY <2>1
    <3> HIDE DEF a, L, own, kept
    <3> QED
      BY <3>1 DEF Take, Told, Line, Entry
  <2>3. second.found = kept
    BY <1>1, <2>2
  <2>4. r \in [name : {Second(x) : x \in Addresses},
              address : Addresses \cup {NoAddress}, state : {"Unknown"}]
    BY <1>3, <2>2 DEF AnInterface
  <2>5. Save(kept, e) = kept \/ Save(kept, e) = Append(kept, r)
    BY DEF Save
  <2> HIDE DEF kept, r, e
  <2>6. Save(second.found, second.entry) = Save(kept, e)
    BY <2>3 DEF e
  <2>7. Save(second.found, second.entry) = kept \/ Save(second.found, second.entry) = Append(kept, r)
    BY <2>5, <2>6
  <2> QED
    BY <2>4, <2>7 DEF kept
<1> QED
  BY <1>2, <1>3

\* The two lines of an interface, read one after the other, bring it into the
\* list unless it is lo, and with it at most an entry of no state.
LEMMA TwoLinesRead ==
  ASSUME NEW s \in Seq(AnInterface), \A i, j \in DOMAIN s : s[i].name = s[j].name => i = j,
         NEW n \in 0..(Len(s) - 1), NEW read, Holds(Save(read.found, read.entry), s, n),
         NEW first, first = Take(read, LinesOf(s[n + 1])[1]),
         NEW second, second = Take(first, LinesOf(s[n + 1])[2])
  PROVE  Holds(Save(second.found, second.entry), s, n + 1)
<1> DEFINE i == s[n + 1]
           L == Save(read.found, read.entry)
           own == [name |-> i.name, address |-> NoAddress, state |-> i.state,
                   loop |-> i.name = "lo"]
           kept == Save(L, own)
           list == Save(second.found, second.entry)
<1>1. i \in AnInterface
  BY ElementOfSeq
<1>2. Holds(kept, s, n + 1)
  <2>1. CASE i.name = "lo"
    BY <2>1, HoldsLoopback DEF Save
  <2>2. CASE i.name # "lo"
    <3> DEFINE e == [name |-> i.name, address |-> NoAddress, state |-> i.state]
    <3>1. kept = Append(L, e)
      BY <1>1, <2>2 DEF Save, AnInterface
    <3>2. n + 1 \in DOMAIN s
      OBVIOUS
    <3>3. e \in EntryFor(s) /\ Is(e, i)
      BY <1>1, <3>2 DEF EntryFor, AnInterface, Is
    <3> QED
      BY <2>2, <3>1, <3>3, HoldsNext
  <2> QED
    BY <2>1, <2>2
<1>3. \/ list = kept
      \/ \E r : /\ r \in [name : {Second(a) : a \in Addresses},
                          address : Addresses \cup {NoAddress}, state : {"Unknown"}]
               /\ list = Append(kept, r)
  BY <1>1, TwoLines
<1>4. ASSUME NEW r, r \in [name : {Second(a) : a \in Addresses},
                          address : Addresses \cup {NoAddress}, state : {"Unknown"}]
      PROVE  Holds(Append(kept, r), s, n + 1)
  <2>1. r \in EntryFor(s) /\ r.state = "Unknown" /\ n + 1 \in 0..Len(s)
    BY <1>4 DEF EntryFor, States
  <2> HIDE DEF kept
  <2> QED
    BY <1>2, <2>1, HoldsMore
<1> HIDE DEF kept
<1> QED
  BY <1>2, <1>3, <1>4

\* Nothing is found before the first line.
LEMMA NothingFound == Save(NothingRead.found, NothingRead.entry) = << >>
BY DEF Save, NothingRead, Entry

\* Whatever the machine, the parser's list holds its interfaces but lo.
LEMMA ParsedHolds ==
  ASSUME NEW s, s \in Seq(AnInterface), \A i, j \in DOMAIN s : s[i].name = s[j].name => i = j
  PROVE  Holds(Parsed(Printed(s)), s, Len(s))
<1> DEFINE lines == Printed(s)
           read == ReadOf(lines)
           List(n) == Save(read[2 * n].found, read[2 * n].entry)
           T == {n \in 0..Len(s) : ~ Holds(List(n), s, n)}
<1>1. Len(s) \in Nat /\ Len(lines) = 2 * Len(s) /\ Len(lines) \in Nat
  <2>1. Len(s) \in Nat
    OBVIOUS
  <2>2. Len(lines) = 2 * Len(s)
    BY <2>1, PrintedIs
  <2> HIDE DEF lines
  <2> QED
    BY <2>1, <2>2
<1> HIDE DEF read
<1>2. /\ read[0] = NothingRead
      /\ \A k \in 1..Len(lines) : read[k] = Take(read[k - 1], lines[k])
  BY <1>1, ReadIs DEF read
<1>3. Holds(List(0), s, 0)
  <2>1. List(0) = << >>
    BY <1>2, NothingFound
  <2> QED
    BY <2>1 DEF Holds, Known
<1>4. ASSUME NEW n \in 0..(Len(s) - 1), Holds(List(n), s, n)
      PROVE  Holds(List(n + 1), s, n + 1)
  <2>1. /\ read[2 * n + 1] = Take(read[2 * n], lines[2 * n + 1])
        /\ read[2 * n + 2] = Take(read[2 * n + 1], lines[2 * n + 2])
    <3>1. 2 * n + 1 \in 1..Len(lines) /\ 2 * n + 2 \in 1..Len(lines)
      BY <1>1
    <3>2. (2 * n + 1) - 1 = 2 * n /\ (2 * n + 2) - 1 = 2 * n + 1
      OBVIOUS
    <3> QED
      BY <1>2, <3>1, <3>2
  <2>2. /\ lines[2 * n + 1] = LinesOf(s[n + 1])[1]
        /\ lines[2 * n + 2] = LinesOf(s[n + 1])[2]
    BY <1>1, PrintedIs
  <2>3. 2 * (n + 1) = 2 * n + 2
    OBVIOUS
  <2> HIDE DEF read, lines
  <2> QED
    BY <1>4, <2>1, <2>2, <2>3, TwoLinesRead
<1> HIDE DEF List
<1>5. T = {}
  <2> SUFFICES ASSUME T # {} PROVE FALSE
    OBVIOUS
  <2>1. T \subseteq Nat
    BY <1>1
  <2>2. PICK n \in T : \A m \in T : ~ (<<m, n>> \in OpToRel(<, Nat))
    BY <2>1, NatLessThanWellFounded, WFMin
  <2>3. \A m \in T : ~(m < n)
    BY <2>1, <2>2 DEF OpToRel
  <2>4. n \in 0..Len(s) /\ ~ Holds(List(n), s, n)
    OBVIOUS
  <2>5. n # 0
    BY <1>3, <2>4
  <2>6. n - 1 \in 0..(Len(s) - 1) /\ (n - 1) + 1 = n /\ n - 1 < n /\ n - 1 \in 0..Len(s)
    BY <1>1, <2>4, <2>5
  <2>7. n - 1 \notin T
    BY <2>3, <2>6
  <2>8. Holds(List(n - 1), s, n - 1)
    BY <2>6, <2>7
  <2>9. Holds(List((n - 1) + 1), s, (n - 1) + 1)
    BY <1>4, <2>6, <2>8
  <2> QED
    BY <2>4, <2>6, <2>9
<1>6. Len(s) \notin T /\ Len(s) \in 0..Len(s)
  BY <1>1, <1>5
<1>7. Holds(List(Len(s)), s, Len(s))
  BY <1>6
<1> QED
  BY <1>1, <1>7 DEF Parsed, List, read

\* Of a list that holds a machine's interfaces, the first entry that is up is
\* that of the first interface but lo that is.
LEMMA FirstUpOf ==
  ASSUME NEW s \in Seq(AnInterface), NEW list, Holds(list, s, Len(s)),
         NEW O, O = {n \in DOMAIN s : s[n].name # "lo"}
  PROVE  FirstUp(list) = {s[n].name : n \in {n \in O :
           s[n].state = "Up" /\ \A m \in O : m < n => s[m].state # "Up"}}
<1> DEFINE F == {j \in 1..Len(list) : list[j].state = "Up" /\ \A k \in 1..(j - 1) : list[k].state # "Up"}
           G == {n \in O : s[n].state = "Up" /\ \A m \in O : m < n => s[m].state # "Up"}
<1>1. /\ DOMAIN list = 1..Len(list) /\ Len(list) \in Nat
      /\ DOMAIN s = 1..Len(s) /\ Len(s) \in Nat
  BY DEF Holds
<1>2. /\ \A n \in O : \E j \in 1..Len(list) : Is(list[j], s[n])
      /\ \A j \in Known(list) : \E n \in O : Is(list[j], s[n])
      /\ \A n, m \in O, j, k \in Known(list) :
           Is(list[j], s[n]) /\ Is(list[k], s[m]) => (j < k <=> n < m)
      /\ \A j \in 1..Len(list) : list[j].state = "Up" => j \in Known(list)
  <2>1. \A n : n \in O <=> n \in 1..Len(s) /\ s[n].name # "lo"
    BY <1>1
  <2>2. \A n \in O : \E j \in 1..Len(list) : Is(list[j], s[n])
    BY <2>1 DEF Holds
  <2>3. \A j \in Known(list) : \E n \in O : Is(list[j], s[n])
    BY <2>1 DEF Holds
  <2>4. \A n, m \in O, j, k \in Known(list) :
          Is(list[j], s[n]) /\ Is(list[k], s[m]) => (j < k <=> n < m)
    BY <2>1 DEF Holds
  <2>5. \A j \in 1..Len(list) : list[j].state = "Up" => j \in Known(list)
    BY DEF Known
  <2> QED
    BY <2>2, <2>3, <2>4, <2>5
<1>3. ASSUME NEW j \in F PROVE \E n \in G : list[j].name = s[n].name
  <2>1. j \in 1..Len(list) /\ list[j].state = "Up" /\ \A k \in 1..Len(list) : k < j => list[k].state # "Up"
    BY <1>1
  <2>2. PICK n \in O : Is(list[j], s[n])
    BY <1>2, <2>1
  <2>3. ASSUME NEW m \in O, m < n, s[m].state = "Up" PROVE FALSE
    <3>1. PICK k \in 1..Len(list) : Is(list[k], s[m])
      BY <1>2
    <3>2. list[k].state = "Up"
      BY <2>3, <3>1 DEF Is
    <3>3. k < j
      BY <1>2, <2>1, <2>2, <2>3, <3>1, <3>2
    <3> QED
      BY <2>1, <3>2, <3>3
  <2> QED
    BY <2>1, <2>2, <2>3 DEF Is
<1>4. ASSUME NEW n \in G PROVE \E j \in F : list[j].name = s[n].name
  <2>1. PICK j \in 1..Len(list) : list[j].state = "Up" /\ Is(list[j], s[n])
    BY <1>2 DEF Is
  <2>2. ASSUME NEW k \in 1..(j - 1), list[k].state = "Up" PROVE FALSE
    <3>1. k \in 1..Len(list) /\ k < j
      BY <1>1
    <3>2. PICK m \in O : Is(list[k], s[m])
      BY <1>2, <2>2, <3>1
    <3>3. m < n
      BY <1>2, <2>1, <2>2, <3>1, <3>2
    <3> QED
      BY <2>2, <3>2, <3>3 DEF Is
  <2>3. j \in F
    BY <2>1, <2>2 DEF Is
  <2> QED
    BY <2>1, <2>3 DEF Is
<1>5. FirstUp(list) = {list[j].name : j \in F}
  BY <1>1 DEF FirstUp
<1> HIDE DEF F, G
<1>6. {list[j].name : j \in F} = {s[n].name : n \in G}
  BY <1>3, <1>4
<1> QED
  BY <1>5, <1>6 DEF G

-----------------------------------------------------------------------------
(* The initial state *)

\* The machine as it is found satisfies the invariant.
LEMMA InitMacInv == MacInit => MacInv
<1> SUFFICES ASSUME MacInit PROVE MacInv
  OBVIOUS
<1>1. PICK m \in Machines : order = m.order /\ link = m.link
  BY DEF MacInit
<1>2. DOMAIN link = {order[n] : n \in DOMAIN order} /\ link \in [DOMAIN link -> LinkState]
  BY <1>1, MachinesAssumption
<1>3. MacTypeOK
  BY <1>2 DEF MacInit, MacTypeOK, Names, PCs
<1> QED
  BY <1>3 DEF MacInv, DownHasOwner, AddressSet, MacInit

-----------------------------------------------------------------------------
(* The steps.  The first lemma is about a command that touches no link. *)

\* A step that leaves links and excuses alone keeps the invariant when it ends
\* a command that owns no link, or moves one that does not yet.
LEMMA QuietStep ==
  ASSUME MacInv, NEW p \in Procs, pc[p] \notin Owning,
         UNCHANGED <<order, link, excused>>, NEW r \in {"err", "cancelled", "none"},
         Return(p, r)
  PROVE  MacInv'
<1>1. MacTypeOK'
  BY DEF MacInv, MacTypeOK, Return, Names, PCs
<1>2. \A q \in Procs \ {p} : /\ pc'[q] = pc[q] /\ target'[q] = target[q]
                             /\ want'[q] = want[q] /\ overtaken'[q] = overtaken[q]
  BY DEF MacInv, MacTypeOK, Return
<1>3. pc'[p] = "idle"
  BY DEF MacInv, MacTypeOK, Return
<1> QED
  BY <1>1, <1>2, <1>3 DEF MacInv, DownHasOwner, AddressSet, Owning, Names

\* The listing decides the name only, and the generator the address.
LEMMA ChooseStep ==
  ASSUME MacInv, NEW p \in Procs, Choose(p)
  PROVE  MacInv'
<1>1. PICK a \in Given \cup {RandomMac(b) : b \in Drawn} : want' = [want EXCEPT ![p] = a]
  BY DEF Choose
<1>2. a \in Addresses \cup {Malformed}
  BY RandomMacIsLocal, MacInputAssumption, MacAddressAssumption
<1>3. PICK name : target' = [target EXCEPT ![p] = name]
  BY DEF Choose
<1>4. /\ UNCHANGED <<order, link, excused, overtaken>> /\ pc[p] = "idle"
      /\ pc' = [pc EXCEPT ![p] = "confirm"] /\ ret' = [ret EXCEPT ![p] = "none"]
  BY DEF Choose
<1>5. MacTypeOK'
  BY <1>1, <1>2, <1>3, <1>4 DEF MacInv, MacTypeOK, Names, PCs
<1>6. \A q \in Procs \ {p} : /\ pc'[q] = pc[q] /\ target'[q] = target[q]
                             /\ want'[q] = want[q] /\ overtaken'[q] = overtaken[q]
  BY <1>1, <1>3, <1>4 DEF MacInv, MacTypeOK
<1>7. pc'[p] = "confirm"
  BY <1>4 DEF MacInv, MacTypeOK
<1> QED
  BY <1>4, <1>5, <1>6, <1>7 DEF MacInv, DownHasOwner, AddressSet, Names

\* Only an address that is one goes on to change_mac's commands.
LEMMA ConfirmStep ==
  ASSUME MacInv, NEW p \in Procs, Confirm(p)
  PROVE  MacInv'
BY DEF MacInv, MacTypeOK, DownHasOwner, AddressSet, Confirm, Goto, Names, PCs

-----------------------------------------------------------------------------
(* The steps of change_mac. *)

\* A link brought up or down keeps its address; the others stay as they are.
LEMMA UpSet ==
  ASSUME NEW D, NEW l \in [D -> LinkState], NEW n \in D
  PROVE  LET m == [l EXCEPT ![n].up = TRUE]
         IN /\ m \in [D -> LinkState] /\ m[n].up /\ m[n].address = l[n].address
            /\ \A k \in D : k # n => m[k] = l[k]
<1>1. l[n] \in LinkState
  OBVIOUS
<1>2. [l[n] EXCEPT !.up = TRUE] \in LinkState
  BY <1>1 DEF LinkState
<1> QED
  BY <1>1, <1>2 DEF LinkState

\* What an interface is like after the first command.
LEMMA DownSet ==
  ASSUME NEW D, NEW l \in [D -> LinkState], NEW n \in D
  PROVE  LET m == [l EXCEPT ![n].up = FALSE]
         IN /\ m \in [D -> LinkState] /\ ~m[n].up /\ m[n].address = l[n].address
            /\ \A k \in D : k # n => m[k] = l[k]
<1>1. l[n] \in LinkState
  OBVIOUS
<1>2. [l[n] EXCEPT !.up = FALSE] \in LinkState
  BY <1>1 DEF LinkState
<1> QED
  BY <1>1, <1>2 DEF LinkState

\* A link with a new address is as it was up or down; so are the others.
LEMMA AddressIsSet ==
  ASSUME NEW D, NEW l \in [D -> LinkState], NEW n \in D, NEW a \in Addresses
  PROVE  LET m == [l EXCEPT ![n].address = a]
         IN /\ m \in [D -> LinkState] /\ m[n].address = a /\ m[n].up = l[n].up
            /\ \A k \in D : k # n => m[k] = l[k]
<1>1. l[n] \in LinkState
  OBVIOUS
<1>2. [l[n] EXCEPT !.address = a] \in LinkState
  BY <1>1 DEF LinkState
<1> QED
  BY <1>1, <1>2 DEF LinkState

\* Taking the interface down keeps the invariant.
LEMMA LinkDownStep ==
  ASSUME MacInv, NEW p \in Procs, LinkDown(p)
  PROVE  MacInv'
<1>1. /\ link \in [Names -> LinkState] /\ target[p] \in Names
      /\ link' = [link EXCEPT ![target[p]].up = FALSE]
  BY DEF MacInv, MacTypeOK, LinkDown, SetLink
<1>2. /\ link' \in [Names -> LinkState] /\ ~link'[target[p]].up
      /\ link'[target[p]].address = link[target[p]].address
      /\ \A n \in Names : n # target[p] => link'[n] = link[n]
  BY <1>1, DownSet
<1>3. Names' = Names
  BY <1>2 DEF Names
<1>4. /\ excused' = excused \ {target[p]} /\ UNCHANGED <<order, target, want, ret, overtaken>>
      /\ pc' = [pc EXCEPT ![p] = "set"] /\ pc[p] = "down"
  BY DEF LinkDown, SetLink, Goto
<1>5. \A q \in Procs : pc'[q] = IF q = p THEN "set" ELSE pc[q]
  BY <1>4 DEF MacInv, MacTypeOK
<1>6. excused' \subseteq {n \in Names : ~link'[n].up}
  BY <1>2, <1>4 DEF MacInv, MacTypeOK
<1>7. MacTypeOK'
  BY <1>1, <1>2, <1>3, <1>4, <1>5, <1>6 DEF MacInv, MacTypeOK, PCs, Names
<1>8. DownHasOwner'
  BY <1>1, <1>2, <1>3, <1>4, <1>5 DEF MacInv, DownHasOwner
<1>9. AddressSet'
  BY <1>1, <1>2, <1>3, <1>4, <1>5 DEF MacInv, MacTypeOK, AddressSet
<1> QED
  BY <1>7, <1>8, <1>9 DEF MacInv

\* Setting the address keeps the invariant.
LEMMA SetAddressStep ==
  ASSUME MacInv, NEW p \in Procs, SetAddress(p)
  PROVE  MacInv'
<1>1. /\ link \in [Names -> LinkState] /\ target[p] \in Names /\ want[p] \in Addresses
      /\ link' = [link EXCEPT ![target[p]].address = want[p]]
  BY DEF MacInv, MacTypeOK, SetAddress
<1>2. /\ link' \in [Names -> LinkState] /\ link'[target[p]].address = want[p]
      /\ link'[target[p]].up = link[target[p]].up
      /\ \A n \in Names : n # target[p] => link'[n] = link[n]
  BY <1>1, AddressIsSet
<1>3. Names' = Names /\ \A n \in Names : link'[n].up = link[n].up
  BY <1>2 DEF Names
<1>4. /\ UNCHANGED <<order, target, want, ret, excused>>
      /\ pc' = [pc EXCEPT ![p] = "up"] /\ pc[p] = "set"
      /\ overtaken' = [q \in Procs |-> IF q # p /\ pc[q] = "up" /\ target[q] = target[p]
                                        THEN TRUE ELSE overtaken[q]]
  BY DEF SetAddress, Goto
<1>5. \A q \in Procs : pc'[q] = IF q = p THEN "up" ELSE pc[q]
  BY <1>4 DEF MacInv, MacTypeOK
<1>6. MacTypeOK'
  <2>1. DOMAIN link' = {order'[n] : n \in DOMAIN order'}
    BY <1>3, <1>4 DEF MacInv, MacTypeOK, Names
  <2>2. excused' \subseteq {n \in Names : ~link'[n].up}
    BY <1>3, <1>4 DEF MacInv, MacTypeOK
  <2>3. overtaken' \in [Procs -> BOOLEAN] /\ pc' \in [Procs -> PCs]
    BY <1>4 DEF MacInv, MacTypeOK, PCs
  <2>4. \A q \in Procs : /\ pc'[q] \in {"down", "set", "rescue", "up"} => want'[q] \in Addresses
                         /\ pc'[q] \in {"set", "rescue", "up"} => target'[q] \in Names
    BY <1>4, <1>5 DEF MacInv, MacTypeOK
  <2> QED
    BY <1>2, <1>3, <1>4, <2>1, <2>2, <2>3, <2>4 DEF MacInv, MacTypeOK
<1>7. DownHasOwner'
  BY <1>3, <1>4, <1>5 DEF MacInv, DownHasOwner
<1>8. \A q \in Procs : pc[q] = "up" => target[q] \in Names
  BY DEF MacInv, MacTypeOK
<1>9. AddressSet'
  BY <1>1, <1>2, <1>4, <1>5, <1>8 DEF MacInv, AddressSet
<1> QED
  BY <1>6, <1>7, <1>9 DEF MacInv

\* A failure of the second command keeps the invariant.
LEMMA SetAddressFailsStep ==
  ASSUME MacInv, NEW p \in Procs, SetAddressFails(p)
  PROVE  MacInv'
<1>1. MacTypeOK'
  BY DEF MacInv, MacTypeOK, SetAddressFails, Goto, Names, PCs
<1> QED
  BY <1>1 DEF MacInv, MacTypeOK, DownHasOwner, AddressSet, SetAddressFails, Goto, Names

\* What the end of a command leaves of the commands.
LEMMA ReturnFacts ==
  ASSUME MacInv, NEW p \in Procs, NEW r \in {"err", "ok", "cancelled", "none"}, Return(p, r)
  PROVE  /\ pc' \in [Procs -> PCs] /\ pc'[p] = "idle" /\ UNCHANGED order
         /\ want' \in [Procs -> Addresses \cup {Malformed}]
         /\ target' = [q \in Procs |-> target'[q]]
         /\ ret' \in [Procs -> {"none", "ok", "err", "cancelled"}]
         /\ overtaken' \in [Procs -> BOOLEAN]
         /\ \A q \in Procs : q # p =>
              /\ pc'[q] = pc[q] /\ target'[q] = target[q]
              /\ want'[q] = want[q] /\ overtaken'[q] = overtaken[q]
BY DEF MacInv, MacTypeOK, Return, PCs

\* A command that ends and leaves the link as it is.
LEMMA StrandStep ==
  ASSUME MacInv, NEW p \in Procs, pc[p] \in Owning, Strand(p),
         NEW r \in {"err", "none"}, Return(p, r)
  PROVE  MacInv'
<1>1. /\ link' = link /\ target[p] \in Names
      /\ excused' = excused \cup ({target[p]} \cap {n \in Names : ~link[n].up})
  BY DEF MacInv, MacTypeOK, Strand, Owning
<1>2. MacTypeOK'
  BY <1>1, ReturnFacts DEF MacInv, MacTypeOK, Names
<1>3. DownHasOwner'
  BY <1>1, ReturnFacts DEF MacInv, DownHasOwner, Names
<1>4. AddressSet'
  BY <1>1, ReturnFacts DEF MacInv, AddressSet
<1> QED
  BY <1>2, <1>3, <1>4 DEF MacInv

\* A command that ends and brings the link up.
LEMMA UpStep ==
  ASSUME MacInv, NEW p \in Procs, pc[p] \in Owning, SetLink(p, TRUE),
         NEW r \in {"err", "ok"}, Return(p, r)
  PROVE  MacInv'
<1>1. /\ link \in [Names -> LinkState] /\ target[p] \in Names
      /\ link' = [link EXCEPT ![target[p]].up = TRUE]
      /\ excused' = excused \ {target[p]}
  BY DEF MacInv, MacTypeOK, SetLink, Owning
<1>2. /\ link' \in [Names -> LinkState] /\ link'[target[p]].up
      /\ link'[target[p]].address = link[target[p]].address
      /\ \A n \in Names : n # target[p] => link'[n] = link[n]
  BY <1>1, UpSet
<1>3. Names' = Names
  BY <1>2 DEF Names
<1>4. \A n \in excused' : n \in Names /\ ~link'[n].up
  BY <1>1, <1>2 DEF MacInv, MacTypeOK
<1>5. MacTypeOK'
  <2>1. \A q \in Procs : pc'[q] \in {"down", "set", "rescue", "up"} => want'[q] \in Addresses
    BY ReturnFacts DEF MacInv, MacTypeOK
  <2>2. \A q \in Procs : pc'[q] \in {"set", "rescue", "up"} => target'[q] \in DOMAIN link'
    <3>1. \A q \in Procs : pc'[q] \in {"set", "rescue", "up"} => target'[q] \in Names
      BY ReturnFacts DEF MacInv, MacTypeOK
    <3> QED
      BY <1>3, <3>1 DEF Names
  <2>3. DOMAIN link' = {order'[n] : n \in DOMAIN order'}
    BY <1>3, ReturnFacts DEF MacInv, MacTypeOK, Names
  <2>4. /\ pc' \in [Procs -> PCs] /\ want' \in [Procs -> Addresses \cup {Malformed}]
        /\ target' = [q \in Procs |-> target'[q]]
        /\ ret' \in [Procs -> {"none", "ok", "err", "cancelled"}]
        /\ overtaken' \in [Procs -> BOOLEAN]
    BY ReturnFacts
  <2>5. link' \in [DOMAIN link' -> LinkState]
    BY <1>2, <1>3 DEF Names
  <2>6. excused' \subseteq {n \in DOMAIN link' : ~link'[n].up}
    BY <1>3, <1>4 DEF Names
  <2> QED
    BY <2>1, <2>2, <2>3, <2>4, <2>5, <2>6 DEF MacTypeOK, Names
<1>6. DownHasOwner'
  BY <1>1, <1>2, <1>3, ReturnFacts DEF MacInv, DownHasOwner
<1>7. \A q \in Procs : pc[q] = "up" => target[q] \in Names
  BY DEF MacInv, MacTypeOK
<1>8. \A n \in Names : link'[n].address = link[n].address
  BY <1>2
<1>9. AddressSet'
  BY <1>7, <1>8, ReturnFacts DEF MacInv, AddressSet
<1> QED
  BY <1>5, <1>6, <1>9 DEF MacInv

-----------------------------------------------------------------------------
(* The theorems *)

\* Every step keeps the invariant.
LEMMA NextMacInv == MacInv /\ [MacNext]_macVars => MacInv'
<1> SUFFICES ASSUME MacInv, [MacNext]_macVars PROVE MacInv'
  OBVIOUS
<1>1. CASE UNCHANGED macVars
  BY <1>1 DEF macVars, MacInv, MacTypeOK, DownHasOwner, AddressSet, Names
<1>2. ASSUME NEW p \in Procs, Choose(p) PROVE MacInv'
  BY <1>2, ChooseStep
<1>3. ASSUME NEW p \in Procs,
             ChooseFails(p) \/ Cancel(p) \/ Invalid(p) \/ LinkDownFails(p)
      PROVE  MacInv'
  BY <1>3, QuietStep DEF ChooseFails, Cancel, Invalid, LinkDownFails, Owning, Return
<1>4. ASSUME NEW p \in Procs, Confirm(p) PROVE MacInv'
  BY <1>4, ConfirmStep
<1>5. ASSUME NEW p \in Procs, LinkDown(p) PROVE MacInv'
  BY <1>5, LinkDownStep
<1>6. ASSUME NEW p \in Procs, SetAddress(p) PROVE MacInv'
  BY <1>6, SetAddressStep
<1>7. ASSUME NEW p \in Procs, SetAddressFails(p) PROVE MacInv'
  BY <1>7, SetAddressFailsStep
<1>8. ASSUME NEW p \in Procs, SetAddressNotRun(p) \/ LinkUpFails(p) PROVE MacInv'
  BY <1>8, StrandStep DEF SetAddressNotRun, LinkUpFails, Owning
<1>9. ASSUME NEW p \in Procs, Rescue(p) PROVE MacInv'
  BY <1>9, StrandStep, UpStep DEF Rescue, Owning
<1>10. ASSUME NEW p \in Procs, LinkUp(p) PROVE MacInv'
  BY <1>10, UpStep DEF LinkUp, Owning
<1>11. ASSUME NEW p \in Procs, Kill(p) PROVE MacInv'
  <2>1. CASE pc[p] \in Owning
    BY <1>11, <2>1, StrandStep DEF Kill, Owning
  <2>2. CASE pc[p] \notin Owning
    BY <1>11, <2>2, QuietStep DEF Kill, Owning, Return
  <2> QED
    BY <2>1, <2>2
<1> QED
  BY <1>1, <1>2, <1>3, <1>4, <1>5, <1>6, <1>7, <1>8, <1>9, <1>10, <1>11 DEF MacNext

\* MacInv is an invariant of any number of commands.
LEMMA MacInvariant == MacSpec => []MacInv
BY InitMacInv, NextMacInv, PTL DEF MacSpec

\* Every variable stays in its range.
THEOREM MacTypeCorrect == MacSpec => []MacTypeOK
<1>1. MacInv => MacTypeOK
  BY DEF MacInv
<1> QED
  BY <1>1, MacInvariant, PTL

\* No interface is left down without a failure that explains it, however many
\* commands overlap.
THEOREM NoLinkIsStranded == MacSpec => []DownHasOwner
<1>1. MacInv => DownHasOwner
  BY DEF MacInv
<1> QED
  BY <1>1, MacInvariant, PTL

\* The interfaces have different names, in some order.
OrderOK ==
  /\ order \in Seq(STRING \ {""})
  /\ \A i, j \in DOMAIN order : order[i] = order[j] => i = j

\* Whatever machine is found and whatever the commands have made of it, the
\* parser's list serves them: the induction is over the interfaces listed.
THEOREM ListingAlwaysServes == MacSpec => []ListingServes
<1>1. MacInit => OrderOK
  BY MachinesAssumption DEF MacInit, OrderOK
<1>2. OrderOK /\ [MacNext]_macVars => OrderOK'
  <2>1. [MacNext]_macVars => UNCHANGED order
    BY DEF MacNext, macVars, Choose, ChooseFails, Cancel, Confirm, Invalid, LinkDown,
           LinkDownFails, SetAddress, SetAddressFails, SetAddressNotRun, Rescue, LinkUp,
           LinkUpFails, Kill, Goto, Return
  <2> QED
    BY <2>1 DEF OrderOK
<1>3. MacInv /\ OrderOK => ListingServes
  <2> SUFFICES ASSUME MacInv, OrderOK PROVE ListingServes
    OBVIOUS
  <2> DEFINE s == Machine
             list == Listed
             O == {n \in DOMAIN s : s[n].name # "lo"}
  <2>1. /\ order \in Seq(STRING \ {""}) /\ link \in [Names -> LinkState]
        /\ \A n \in DOMAIN order : order[n] \in Names
    BY DEF MacInv, MacTypeOK, OrderOK, Names
  <2>2. /\ DOMAIN order = 1..Len(order) /\ Len(order) \in Nat
        /\ \A n \in DOMAIN order : order[n] \in STRING \ {""}
    <3> DEFINE S == STRING \ {""}
    <3>1. order \in Seq(S)
      BY <2>1
    <3> HIDE DEF S
    <3>2. /\ DOMAIN order = 1..Len(order) /\ Len(order) \in Nat
          /\ \A n \in DOMAIN order : order[n] \in S
      BY <3>1, ElementOfSeq
    <3> QED
      BY <3>2 DEF S
  <2>3. \A n \in DOMAIN order : Interface(order[n]) \in AnInterface
    <3> SUFFICES ASSUME NEW n \in DOMAIN order PROVE Interface(order[n]) \in AnInterface
      OBVIOUS
    <3>1. order[n] \in STRING \ {""}
      BY <2>2
    <3>2. link[order[n]] \in LinkState
      BY <2>1
    <3> QED
      BY <3>1, <3>2 DEF Interface, AnInterface, LinkState, States
  <2>4. s \in Seq(AnInterface) /\ DOMAIN s = DOMAIN order /\ Len(s) = Len(order)
    <3>1. DOMAIN order = 1..Len(order) /\ Len(order) \in Nat
      BY <2>2
    <3>2. s = [n \in 1..Len(order) |-> Interface(order[n])]
      BY <3>1 DEF Machine
    <3> QED
      BY <2>3, <3>1, <3>2
  <2>5. \A n \in DOMAIN s : s[n].name = order[n]
    BY <2>4 DEF Machine, Interface
  <2>6. \A i, j \in DOMAIN s : s[i].name = s[j].name => i = j
    BY <2>4, <2>5 DEF OrderOK
  <2> HIDE DEF s
  <2>7. Holds(list, s, Len(s))
    BY <2>4, <2>6, ParsedHolds DEF Listed, s
  <2> HIDE DEF list
  <2>8. FirstUp(list) = {s[n].name : n \in {n \in O :
          s[n].state = "Up" /\ \A m \in O : m < n => s[m].state # "Up"}}
    BY <2>4, <2>7, FirstUpOf
  <2>9. DOMAIN s = 1..Len(s) /\ DOMAIN list = 1..Len(list)
    BY <2>4, <2>7 DEF Holds
  <2> DEFINE K == {j \in DOMAIN list : list[j].state # "Unknown"}
  <2>10. /\ \A n \in O : \E j \in DOMAIN list : Is(list[j], s[n])
         /\ \A j \in K : \E n \in O : Is(list[j], s[n])
         /\ \A n, m \in O, j, k \in K : Is(list[j], s[n]) /\ Is(list[k], s[m]) => (j < k <=> n < m)
    BY <2>7, <2>9 DEF Holds, Known
  <2> QED
    BY <2>8, <2>10 DEF ListingServes, Is, s, list
<1> QED
  BY <1>1, <1>2, <1>3, MacInvariant, PTL DEF MacSpec

\* "MAC address changed successfully" is true when it is printed.
THEOREM SuccessTold == MacSpec => SuccessIsTrue
<1> DEFINE Ended(p) == pc[p] = "up" /\ pc'[p] = "idle" /\ ret'[p] = "ok"
           True(p)  == /\ link'[target[p]].up
                       /\ link'[target[p]].address = want[p] \/ overtaken[p]
<1>1. MacInv /\ [MacNext]_macVars => [\A p \in Procs : Ended(p) => True(p)]_macVars
  <2> SUFFICES ASSUME MacInv, MacNext, NEW p \in Procs, Ended(p)
               PROVE  True(p)
    OBVIOUS
  <2>1. PICK q \in Procs :
          \/ Choose(q) \/ ChooseFails(q) \/ Cancel(q) \/ Confirm(q) \/ Invalid(q)
          \/ LinkDown(q) \/ LinkDownFails(q)
          \/ SetAddress(q) \/ SetAddressFails(q) \/ SetAddressNotRun(q)
          \/ Rescue(q) \/ LinkUp(q) \/ LinkUpFails(q) \/ Kill(q)
    BY DEF MacNext
  <2>2. q = p
    BY <2>1 DEF MacInv, MacTypeOK, Choose, ChooseFails, Cancel, Confirm, Invalid, LinkDown,
                LinkDownFails, SetAddress, SetAddressFails, SetAddressNotRun, Rescue,
                LinkUp, LinkUpFails, Kill, Goto, Return
  <2>3. LinkUp(p)
    BY <2>1, <2>2 DEF MacInv, MacTypeOK, Choose, ChooseFails, Cancel, Confirm, Invalid,
                LinkDown, LinkDownFails, SetAddress, SetAddressFails, SetAddressNotRun,
                Rescue, LinkUpFails, Kill, Return
  <2>4. /\ link \in [Names -> LinkState] /\ target[p] \in Names
        /\ link' = [link EXCEPT ![target[p]].up = TRUE]
    BY <2>3 DEF MacInv, MacTypeOK, LinkUp, SetLink
  <2> QED
    BY <2>4, UpSet DEF MacInv, AddressSet
<1> QED
  BY <1>1, MacInvariant, PTL DEF MacSpec, SuccessIsTrue

\* No link is down but those of down.
DownAmong(down) == {n \in Names : ~link[n].up} \subseteq down

\* If nobody is killed, the program ip is there and it can bring a link up, then
\* a link that was up at the start is up whenever no command is at work:
\* whatever addresses are refused, and also when commands that overlap take the
\* link of one another up and down.
THEOREM NothingLeftDown ==
  ASSUME Faults \cap {"up", "spawn", "kill"} = {}, NEW CONSTANT D
  PROVE  MacSpec /\ DownAmong(D) =>
           []((\A p \in Procs : pc[p] = "idle") => DownAmong(D))
<1>1. MacInit /\ DownAmong(D) => excused \subseteq D
  BY DEF MacInit, DownAmong
<1>2. excused \subseteq D /\ [MacNext]_macVars => (excused \subseteq D)'
  BY DEF MacNext, macVars, Choose, ChooseFails, Cancel, Confirm, Invalid, LinkDown,
         LinkDownFails, SetAddress, SetAddressFails, SetAddressNotRun, Rescue, LinkUp,
         LinkUpFails, Kill, SetLink, MayFail
<1>3. MacInv /\ excused \subseteq D => ((\A p \in Procs : pc[p] = "idle") => DownAmong(D))
  BY DEF MacInv, DownHasOwner, DownAmong
<1> QED
  BY <1>1, <1>2, <1>3, MacInvariant, PTL DEF MacSpec
=============================================================================
