------------------------------ MODULE LeakProofs ------------------------------
(***************************************************************************)
(* What is proved of check-leaks for any number of test domains and any    *)
(* answers: the report speaks of a DNS leak exactly when answers differed, *)
(* and no failed request spares a later probe.                             *)
(***************************************************************************)
EXTENDS LeakCheck, SequenceTheorems, TLAPS

\* What has come about a domain: nothing before its turn, the provider's answer
\* in it, and then either a failure, of the provider or of making Google's client,
\* or both answers.
DomainsInv ==
  \A i \in 1..N :
    /\ i < at => \/ \E r \in Reply : replies[i] = <<r>> /\ (~Resolved(r) \/ i \in unasked)
                 \/ \E r, s \in Reply : replies[i] = <<r, s>>
    /\ i = at /\ pc = "google" =>
         \E r \in Reply : replies[i] = <<r>> /\ mine = ARecords(r)
    /\ i > at \/ (i = at /\ pc # "google") => replies[i] = << >>

\* The flag agrees with the answers all along.
FlagInv == "dns" \in found <=> \E i \in 1..N : Mismatch(i)

\* How far a check has come says which probes it has tried.
OrderInv ==
  /\ pc = "google" => at <= N
  /\ pc \in {"stun1", "stun2", "headers", "tls", "done"} => at = N + 1 \/ "dns" \in skipped
  /\ pc # "address" => heard["address"] # "untried"
  /\ pc \in {"stun2", "headers", "tls", "done"} => heard["stun1"] # "untried"
  /\ pc \in {"headers", "tls", "done"} =>
       (heard["stun1"] = "failed" => heard["stun2"] # "untried")
  /\ pc \in {"tls", "done"} => heard["headers"] # "untried" \/ "fingerprint" \in skipped
  /\ pc = "done" => heard["tls"] # "untried" \/ "fingerprint" \in skipped

LeakInv == LeakTypeOK /\ DomainsInv /\ FlagInv /\ OrderInv

-----------------------------------------------------------------------------
(* Operators *)

\* A sequence of replies grows from nothing to one reply, and to two.
LEMMA RepliesGrow ==
  ASSUME NEW r \in Reply, NEW s \in Reply
  PROVE  /\ Append(<< >>, r) = <<r>> /\ Append(<<r>>, s) = <<r, s>>
         /\ Len(<< >>) = 0 /\ Len(<<r>>) = 1 /\ Len(<<r, s>>) = 2
         /\ <<r>>[1] = r /\ <<r, s>>[1] = r /\ <<r, s>>[2] = s
         /\ << >> \in Seq(Reply) /\ <<r>> \in Seq(Reply) /\ <<r, s>> \in Seq(Reply)
<1>1. << >> \in Seq(Reply) /\ <<r>> \in Seq(Reply) /\ <<r, s>> \in Seq(Reply)
  OBVIOUS
<1>2. /\ Len(<< >>) = 0 /\ Len(<<r>>) = 1 /\ Len(<<r, s>>) = 2
      /\ <<r>>[1] = r /\ <<r, s>>[1] = r /\ <<r, s>>[2] = s
  OBVIOUS
<1>3. Append(<< >>, r) = <<r>>
  OBVIOUS
<1>4. Append(<<r>>, s) = <<r, s>>
  <2> DEFINE two == Append(<<r>>, s)
  <2>1. two \in Seq(Reply) /\ Len(two) = 2 /\ two[1] = r /\ two[2] = s
    BY <1>1, <1>2, AppendProperties
  <2>2. \A i \in 1..2 : two[i] = <<r, s>>[i]
    BY <1>2, <2>1
  <2> HIDE DEF two
  <2>3. two = <<r, s>>
    BY <1>1, <1>2, <2>1, <2>2, SeqEqual
  <2> QED BY <2>3 DEF two
<1> QED BY <1>1, <1>2, <1>3, <1>4

\* The initial state satisfies the invariant.
LEMMA InitLeak == Init => LeakInv
<1> SUFFICES ASSUME Init PROVE LeakInv
  OBVIOUS
<1>1. LeakTypeOK
  BY NAssumption DEF Init, LeakTypeOK, Points, Probes
<1>2. DomainsInv
  BY NAssumption DEF Init, DomainsInv
<1>3. FlagInv
  BY DEF Init, FlagInv, Mismatch
<1>4. OrderInv
  BY DEF Init, OrderInv, Probes
<1> QED BY <1>1, <1>2, <1>3, <1>4 DEF LeakInv

\* A step that leaves the replies alone, and the turn, keeps what is said of
\* the domains.
LEMMA DomainsUntouched ==
  ASSUME DomainsInv, FlagInv, pc # "google", pc' # "google",
         UNCHANGED <<at, replies, unasked>>, ("dns" \in found') <=> ("dns" \in found)
  PROVE  DomainsInv' /\ FlagInv'
<1>1. DomainsInv'
  BY DEF DomainsInv
<1>2. FlagInv'
  BY DEF FlagInv, Mismatch
<1> QED BY <1>1, <1>2

-----------------------------------------------------------------------------
(* Steps *)

\* The address, the STUN servers and the echo services.
LEMMA ProbeStep ==
  ASSUME LeakInv, CheckAddress \/ AskStun \/ NoEchoClient \/ EchoHeaders \/ EchoTls
  PROVE  LeakInv'
<1> USE DEF LeakInv, Issue, Heard, report, spared, Points, Probes
<1>1. LeakTypeOK'
  <2>1. UNCHANGED <<at, mine, replies, unasked>>
    BY DEF CheckAddress, AskStun, NoEchoClient, EchoHeaders, EchoTls
  <2>2. pc' \in Points /\ skipped' \subseteq {"dns", "fingerprint"}
    BY DEF LeakTypeOK, CheckAddress, AskStun, NoEchoClient, EchoHeaders, EchoTls
  <2>3. found' \subseteq {"address", "dns", "webrtc", "fingerprint"}
    BY DEF LeakTypeOK, CheckAddress, AskStun, NoEchoClient, EchoHeaders, EchoTls
  <2>4. heard' \in [Probes -> {"untried", "failed", "answered"}]
    BY DEF LeakTypeOK, CheckAddress, AskStun, NoEchoClient, EchoHeaders, EchoTls
  <2> QED BY <2>1, <2>2, <2>3, <2>4 DEF LeakTypeOK
<1>2. DomainsInv' /\ FlagInv'
  <2>1. /\ pc # "google" /\ pc' # "google" /\ UNCHANGED <<at, replies, unasked>>
        /\ ("dns" \in found') <=> ("dns" \in found)
    BY DEF CheckAddress, AskStun, NoEchoClient, EchoHeaders, EchoTls
  <2> QED BY <2>1, DomainsUntouched
<1>3. OrderInv'
  BY DEF LeakTypeOK, OrderInv, CheckAddress, AskStun, NoEchoClient, EchoHeaders, EchoTls
<1> QED BY <1>1, <1>2, <1>3

\* The DNS check begins, or is over.
LEMMA EdgeStep ==
  ASSUME LeakInv, NoDohClient \/ NoMoreDomains
  PROVE  LeakInv'
<1> USE DEF LeakInv, report, spared
<1>1. LeakTypeOK'
  BY DEF LeakTypeOK, Points, Probes, NoDohClient, NoMoreDomains
<1>2. DomainsInv' /\ FlagInv'
  <2>1. /\ pc # "google" /\ pc' # "google" /\ UNCHANGED <<at, replies, found, unasked>>
    BY DEF NoDohClient, NoMoreDomains
  <2> QED BY <2>1, DomainsUntouched
<1>3. OrderInv'
  BY NAssumption DEF LeakTypeOK, OrderInv, NoDohClient, NoMoreDomains
<1> QED BY <1>1, <1>2, <1>3

\* The provider answers for the domain whose turn it is.
LEMMA AskProviderStep ==
  ASSUME LeakInv, AskProvider
  PROVE  LeakInv'
<1> USE DEF LeakInv, spared
<1>1. PICK r \in Reply : Resolved(r) /\ Replied(r) /\ mine' = ARecords(r)
  BY DEF AskProvider
<1>2. /\ pc = "doh" /\ at \in 1..N /\ pc' = "google"
      /\ UNCHANGED <<at, found, heard, spared>>
  BY NAssumption DEF AskProvider, LeakTypeOK
<1>3. replies[at] = << >> /\ replies' = [replies EXCEPT ![at] = <<r>>]
  BY <1>1, <1>2, RepliesGrow DEF DomainsInv, Replied
<1>4. LeakTypeOK'
  BY <1>1, <1>2, <1>3, RepliesGrow DEF LeakTypeOK, Points
<1>5. DomainsInv'
  BY <1>1, <1>2, <1>3 DEF DomainsInv, LeakTypeOK
<1>6. FlagInv'
  <2>1. ~Mismatch(at) /\ ~Mismatch(at)'
    BY <1>2, <1>3, RepliesGrow DEF Mismatch, LeakTypeOK
  <2>2. \A i \in 1..N : i # at => (Mismatch(i)' <=> Mismatch(i))
    BY <1>3 DEF Mismatch, LeakTypeOK
  <2> QED BY <1>2, <2>1, <2>2 DEF FlagInv
<1>7. OrderInv'
  BY <1>2 DEF OrderInv
<1> QED BY <1>4, <1>5, <1>6, <1>7

\* The provider fails, and the next domain is due.
LEMMA ProviderFailsStep ==
  ASSUME LeakInv, ProviderFails
  PROVE  LeakInv'
<1> USE DEF LeakInv, spared
<1>1. PICK r \in Reply : ~Resolved(r) /\ Replied(r)
  BY DEF ProviderFails
<1>2. /\ pc = "doh" /\ at \in 1..N /\ pc' = "doh" /\ at' = at + 1
      /\ UNCHANGED <<found, mine, heard, spared>>
  BY NAssumption DEF ProviderFails, LeakTypeOK, NextDomain, report
<1>3. replies[at] = << >> /\ replies' = [replies EXCEPT ![at] = <<r>>]
  BY <1>1, <1>2, RepliesGrow DEF DomainsInv, Replied
<1>4. LeakTypeOK'
  BY <1>1, <1>2, <1>3, RepliesGrow, NAssumption DEF LeakTypeOK, Points
<1>5. DomainsInv'
  <2> SUFFICES ASSUME NEW i \in 1..N
               PROVE  /\ i < at + 1 => \/ \E q \in Reply : /\ replies'[i] = <<q>>
                                                           /\ ~Resolved(q) \/ i \in unasked'
                                       \/ \E q, s \in Reply : replies'[i] = <<q, s>>
                      /\ i > at => replies'[i] = << >>
    BY <1>2, NAssumption DEF DomainsInv
  <2>1. CASE i = at
    BY <1>1, <1>2, <1>3, <2>1 DEF LeakTypeOK
  <2>2. CASE i # at
    <3>1. replies'[i] = replies[i]
      BY <1>3, <2>2 DEF LeakTypeOK
    <3>2. i < at + 1 <=> i < at
      BY <1>2, <2>2, NAssumption
    <3> QED BY <3>1, <3>2, <1>2 DEF DomainsInv
  <2> QED BY <2>1, <2>2
<1>6. FlagInv'
  <2>1. ~Mismatch(at) /\ ~(\E i \in {at} : Mismatch(i)')
    BY <1>2, <1>3, RepliesGrow DEF Mismatch, LeakTypeOK
  <2>2. \A i \in 1..N : i # at => (Mismatch(i)' <=> Mismatch(i))
    BY <1>3 DEF Mismatch, LeakTypeOK
  <2> QED BY <1>2, <2>1, <2>2 DEF FlagInv
<1>7. OrderInv'
  BY <1>2 DEF OrderInv
<1> QED BY <1>4, <1>5, <1>6, <1>7

\* Google replies, and the two answers are compared.
LEMMA AskGoogleStep ==
  ASSUME LeakInv, AskGoogle
  PROVE  LeakInv'
<1> USE DEF LeakInv, spared
<1>1. PICK s \in Reply : Replied(s) /\ Issue("dns", Parsed(s) /\ Differ(mine, ARecords(s)))
  BY DEF AskGoogle
<1>2. /\ pc = "google" /\ at \in 1..N /\ pc' = "doh" /\ at' = at + 1
      /\ UNCHANGED <<mine, heard, spared>>
  BY NAssumption DEF AskGoogle, LeakTypeOK, NextDomain, OrderInv
<1>3. PICK r \in Reply : replies[at] = <<r>> /\ mine = ARecords(r)
  BY <1>2 DEF DomainsInv
<1>4. replies' = [replies EXCEPT ![at] = <<r, s>>]
  BY <1>1, <1>3, RepliesGrow DEF Replied
<1>5. LeakTypeOK'
  BY <1>1, <1>2, <1>4, RepliesGrow, NAssumption DEF LeakTypeOK, Points, Issue
<1>6. DomainsInv'
  <2> SUFFICES ASSUME NEW i \in 1..N
               PROVE  /\ i < at + 1 => \/ \E q \in Reply : /\ replies'[i] = <<q>>
                                                           /\ ~Resolved(q) \/ i \in unasked'
                                       \/ \E q, t \in Reply : replies'[i] = <<q, t>>
                      /\ i > at => replies'[i] = << >>
    BY <1>2, NAssumption DEF DomainsInv
  <2>1. CASE i = at
    BY <1>2, <1>4, <2>1 DEF LeakTypeOK
  <2>2. CASE i # at
    <3>1. replies'[i] = replies[i]
      BY <1>4, <2>2 DEF LeakTypeOK
    <3>2. i < at + 1 <=> i < at
      BY <1>2, <2>2, NAssumption
    <3> QED BY <3>1, <3>2, <1>2 DEF DomainsInv
  <2> QED BY <2>1, <2>2
<1>7. FlagInv'
  <2>1. ~Mismatch(at)
    BY <1>3, RepliesGrow DEF Mismatch
  <2>2. \A i \in {at} : Mismatch(i)' <=> Parsed(s) /\ Differ(mine, ARecords(s))
    BY <1>2, <1>3, <1>4, RepliesGrow DEF Mismatch, LeakTypeOK
  <2>3. \A i \in 1..N : i # at => (Mismatch(i)' <=> Mismatch(i))
    BY <1>4 DEF Mismatch, LeakTypeOK
  <2>4. "dns" \in found' <=> "dns" \in found \/ (Parsed(s) /\ Differ(mine, ARecords(s)))
    BY <1>1 DEF Issue
  <2> QED BY <1>2, <2>1, <2>2, <2>3, <2>4 DEF FlagInv
<1>8. OrderInv'
  BY <1>2 DEF OrderInv
<1> QED BY <1>5, <1>6, <1>7, <1>8

\* Google's client cannot be made, and the next domain is due.
LEMMA NoGoogleClientStep ==
  ASSUME LeakInv, NoGoogleClient
  PROVE  LeakInv'
<1> USE DEF LeakInv
<1>1. /\ pc = "google" /\ at \in 1..N /\ pc' = "doh" /\ at' = at + 1
      /\ unasked' = unasked \cup {at}
      /\ UNCHANGED <<found, mine, replies, heard, skipped>>
  BY NAssumption DEF NoGoogleClient, LeakTypeOK, NextDomain, OrderInv, report
<1>2. PICK r \in Reply : replies[at] = <<r>>
  BY <1>1 DEF DomainsInv
<1>3. LeakTypeOK'
  BY <1>1, NAssumption DEF LeakTypeOK, Points
<1>4. DomainsInv'
  <2> SUFFICES ASSUME NEW i \in 1..N
               PROVE  /\ i < at + 1 => \/ \E q \in Reply : /\ replies[i] = <<q>>
                                                           /\ ~Resolved(q) \/ i \in unasked'
                                       \/ \E q, t \in Reply : replies[i] = <<q, t>>
                      /\ i > at => replies[i] = << >>
    BY <1>1, NAssumption DEF DomainsInv
  <2>1. CASE i = at
    BY <1>1, <1>2, <2>1
  <2>2. CASE i # at
    <3>1. i < at + 1 <=> i < at
      BY <1>1, <2>2, NAssumption
    <3> QED BY <3>1, <1>1 DEF DomainsInv
  <2> QED BY <2>1, <2>2
<1>5. FlagInv'
  BY <1>1 DEF FlagInv, Mismatch
<1>6. OrderInv'
  BY <1>1 DEF OrderInv
<1> QED BY <1>3, <1>4, <1>5, <1>6

-----------------------------------------------------------------------------
(* Theorems *)

\* The invariant holds in every state of every check.
THEOREM LeakInvariant == Spec => []LeakInv
<1>1. ASSUME LeakInv, [Next]_vars PROVE LeakInv'
  <2>1. CASE CheckAddress \/ AskStun \/ NoEchoClient \/ EchoHeaders \/ EchoTls
    BY <1>1, <2>1, ProbeStep
  <2>2. CASE NoDohClient \/ NoMoreDomains
    BY <1>1, <2>2, EdgeStep
  <2>3. CASE AskProvider
    BY <1>1, <2>3, AskProviderStep
  <2>4. CASE ProviderFails
    BY <1>1, <2>4, ProviderFailsStep
  <2>5. CASE AskGoogle
    BY <1>1, <2>5, AskGoogleStep
  <2>6. CASE NoGoogleClient
    BY <1>1, <2>6, NoGoogleClientStep
  <2>7. CASE UNCHANGED vars
    BY <1>1, <2>7 DEF vars, spared, LeakInv, LeakTypeOK, DomainsInv, FlagInv, OrderInv, Mismatch
  <2> QED BY <1>1, <2>1, <2>2, <2>3, <2>4, <2>5, <2>6, <2>7 DEF Next, CheckDns
<1> QED BY <1>1, InitLeak, PTL DEF Spec

\* Whatever is answered, and whatever fails, the report of check-leaks speaks
\* of a DNS leak exactly when the answers for some domain differed.
THEOREM DnsLeakAlwaysReported == Spec => []DnsLeakReported
<1>1. LeakInv => DnsLeakReported
  BY DEF LeakInv, FlagInv, DnsLeakReported
<1> QED BY <1>1, LeakInvariant, PTL

\* No failed request of check-leaks spares a later probe, and where no client for
\* Google can be made only the domain whose turn it was goes unasked.
THEOREM EveryProbeAlwaysTried == Spec => []EveryProbeTried
<1>1. LeakInv => EveryProbeTried
  <2> SUFFICES ASSUME LeakInv, pc = "done" PROVE EveryProbeTried
    BY DEF EveryProbeTried
  <2>1. ASSUME NEW i \in 1..N
        PROVE  /\ replies[i] # << >> \/ "dns" \in skipped
               /\ Len(replies[i]) = 1 => ~Resolved(replies[i][1]) \/ i \in unasked
    <3>1. CASE i < at
      BY <3>1, RepliesGrow DEF LeakInv, DomainsInv
    <3>2. CASE ~(i < at)
      <4>1. at \in 1..(N + 1) /\ at # N + 1 /\ (i > at \/ i = at)
        BY <3>2, NAssumption DEF LeakInv, LeakTypeOK
      <4>2. replies[i] = << >>
        BY <4>1 DEF LeakInv, DomainsInv
      <4>3. "dns" \in skipped
        BY <4>1 DEF LeakInv, OrderInv
      <4> QED BY <4>2, <4>3
    <3> QED BY <3>1, <3>2
  <2> QED BY <2>1 DEF LeakInv, OrderInv, EveryProbeTried
<1> QED BY <1>1, LeakInvariant, PTL

\* What check-leaks keeps stays in range, whatever the servers answer.
THEOREM LeakTypeCorrect == Spec => []LeakTypeOK
<1>1. LeakInv => LeakTypeOK
  BY DEF LeakInv
<1> QED BY <1>1, LeakInvariant, PTL
-----------------------------------------------------------------------------
(* What a check that ends rests on, fairness aside *)

\* How many steps are left at most: two for each domain, and the places behind.
Left ==
  2 * (N + 1 - at)
  + [address |-> 7, doh |-> 6, google |-> 5, stun1 |-> 4, stun2 |-> 3, headers |-> 2,
     tls |-> 1, done |-> 0][pc]

\* A step of the check is never taken back: there are fewer left after each.
StepsRunOut == [][Left' < Left]_vars

\* No domain, server or service is asked in a circle: whatever is answered and
\* whatever fails, each step brings the end of the check nearer, so that it makes
\* 2N + 7 steps at most.
THEOREM CheckRunsOut == Spec => StepsRunOut /\ [](Left \in 0..(2 * N + 7))
<1> DEFINE Weight == [address |-> 7, doh |-> 6, google |-> 5, stun1 |-> 4, stun2 |-> 3,
                      headers |-> 2, tls |-> 1, done |-> 0]
<1>1. LeakTypeOK => Left \in 0..(2 * N + 7)
  <2> SUFFICES ASSUME LeakTypeOK PROVE Left \in 0..(2 * N + 7)
    OBVIOUS
  <2>1. Weight[pc] \in 0..7
    BY DEF LeakTypeOK, Points, Probes
  <2>2. at \in 1..(N + 1) /\ N \in Nat
    BY NAssumption DEF LeakTypeOK
  <2>3. Left = 2 * (N + 1 - at) + Weight[pc]
    BY DEF Left
  <2> HIDE DEF Weight
  <2> QED BY <2>1, <2>2, <2>3
<1>2. ASSUME LeakInv, LeakInv', Next PROVE Left' < Left
  <2>1. at \in 1..(N + 1) /\ N \in Nat /\ at' \in 1..(N + 1)
    BY <1>2, NAssumption DEF LeakInv, LeakTypeOK
  <2>2. \/ at' = at /\ Weight[pc'] \in 0..7 /\ Weight[pc] \in 0..7 /\ Weight[pc'] < Weight[pc]
        \/ at' = at + 1 /\ Weight[pc'] = 6 /\ Weight[pc] \in {5, 6}
    <3>1. CASE CheckAddress \/ AskStun \/ NoEchoClient \/ EchoHeaders \/ EchoTls
      BY <3>1 DEF CheckAddress, AskStun, NoEchoClient, EchoHeaders, EchoTls, Heard
    <3>2. CASE NoDohClient \/ NoMoreDomains \/ AskProvider
      BY <3>2 DEF NoDohClient, NoMoreDomains, AskProvider
    <3>3. CASE ProviderFails \/ AskGoogle \/ NoGoogleClient
      BY <3>3 DEF ProviderFails, AskGoogle, NoGoogleClient, NextDomain
    <3> QED BY <1>2, <3>1, <3>2, <3>3 DEF Next, CheckDns
  <2>3. Left = 2 * (N + 1 - at) + Weight[pc] /\ Left' = 2 * (N + 1 - at') + Weight[pc']
    BY DEF Left
  <2> HIDE DEF Weight
  <2> QED BY <2>1, <2>2, <2>3
<1>3. LeakInv /\ LeakInv' /\ [Next]_vars => [Left' < Left]_vars
  BY <1>2
<1>4. LeakInv => Left \in 0..(2 * N + 7)
  BY <1>1 DEF LeakInv
<1> QED BY <1>3, <1>4, LeakInvariant, PTL DEF Spec, StepsRunOut
===============================================================================
