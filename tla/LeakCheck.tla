------------------------------ MODULE LeakCheck ------------------------------
(***************************************************************************)
(* nofind check-leaks, src/src/leaks.rs (run_checks): four checks one      *)
(* after another, each of which asks others and may get no answer.  The    *)
(* second asks, for each test domain, the DoH provider of the              *)
(* configuration and then Google (src/src/dns.rs, leak_test).  The client  *)
(* is new and the domains are different, so that the cache never answers.  *)
(***************************************************************************)
EXTENDS Naturals, Sequences

CONSTANTS
  N,        \* how many test domains there are
  Answers   \* the records a provider may answer with, a set of sequences

ASSUME NAssumption == N \in Nat
ASSUME AnswersAssumption == Answers \subseteq Seq([type : {"A", "CNAME"}, data : STRING])

\* What comes back from a provider: an HTTP status, the status of the resolution
\* and records; or nothing, or no JSON.
Lost  == [arrived |-> FALSE, success |-> FALSE, status |-> 2, answer |-> << >>]
Reply == {Lost} \cup
         [arrived : {TRUE}, success : BOOLEAN, status : {0, 2}, answer : Answers]

\* What resolve returns an answer for, and what leak_test takes from Google.
Resolved(r) == r.arrived /\ r.success /\ r.status = 0
Parsed(r)   == r.arrived

\* "A records only", as a list.
ARecords(r) == SelectSeq(r.answer, LAMBDA a : a.type = "A")

\* leak_detected.
Differ(mine, other) == mine # << >> /\ other # << >> /\ mine # other

Probes == {"address", "stun1", "stun2", "headers", "tls"}

VARIABLES
  pc,       \* the probe that is next, "doh" and "google" for a domain
  at,       \* the domain that is next
  mine,     \* what the configured provider has answered for it
  found,    \* the report: the checks that have found an issue
  replies,  \* history: the replies about each domain, in the order they came
  heard,    \* history: what has come of the other probes
  skipped,  \* history: the checks for which no HTTP client could be made
  unasked   \* history: the domains for which Google's client could not be made

report == <<found, mine>>
spared == <<skipped, unasked>>
vars   == <<pc, at, mine, found, replies, heard, spared>>

Init ==
  /\ pc = "address" /\ at = 1 /\ mine = << >>
  /\ found = {}
  /\ replies = [i \in 1..N |-> << >>]
  /\ heard = [p \in Probes |-> "untried"]
  /\ skipped = {} /\ unasked = {}

Issue(name, is) == found' = IF is THEN found \cup {name} ELSE found

\* A probe outside DNS gets an answer or not, and the next one is due.
Heard(p, is, next) ==
  /\ heard' = [heard EXCEPT ![p] = IF is THEN "answered" ELSE "failed"]
  /\ pc' = next
  /\ UNCHANGED <<at, mine, replies, spared>>

\* Whoever learns an address counts it as exposed, whatever way it took.
CheckAddress ==
  /\ pc = "address"
  /\ \E ok \in BOOLEAN : Issue("address", ok) /\ Heard("address", ok, "doh")

-----------------------------------------------------------------------------
(* check_dns_leaks *)

NoDohClient ==
  /\ pc = "doh" /\ at = 1
  /\ skipped' = skipped \cup {"dns"}
  /\ pc' = "stun1"
  /\ UNCHANGED <<at, report, replies, heard, unasked>>

Replied(r) == replies' = [replies EXCEPT ![at] = Append(@, r)]

NextDomain == at' = at + 1 /\ pc' = "doh"

\* resolve answers.
AskProvider ==
  /\ pc = "doh" /\ at <= N
  /\ \E r \in Reply :
       /\ Resolved(r)
       /\ Replied(r)
       /\ mine' = ARecords(r)
  /\ pc' = "google"
  /\ UNCHANGED <<at, found, heard, spared>>

\* Mutant: an error of a domain ends the check.
ProviderEndsCheck ==
  /\ pc = "doh" /\ at <= N
  /\ \E r \in Reply : ~Resolved(r) /\ Replied(r)
  /\ pc' = "stun1"
  /\ UNCHANGED <<at, report, heard, spared>>

\* Mutant: a domain is asked for again until it is resolved.
ProviderRetried ==
  /\ pc = "doh" /\ at <= N
  /\ \E r \in Reply : ~Resolved(r) /\ replies' = [replies EXCEPT ![at] = <<r>>]
  /\ UNCHANGED <<pc, at, report, heard, spared>>

\* resolve fails: the domain is given up, and only this one.
ProviderFails ==
  /\ pc = "doh" /\ at <= N
  /\ \E r \in Reply : ~Resolved(r) /\ Replied(r)
  /\ NextDomain
  /\ UNCHANGED <<report, heard, spared>>

\* Mutant: the flag is what the last domain has shown.
AskGoogleOverwrites ==
  /\ pc = "google"
  /\ \E r \in Reply :
       /\ Replied(r)
       /\ found' = IF Parsed(r) /\ Differ(mine, ARecords(r))
                   THEN found \cup {"dns"} ELSE found \ {"dns"}
  /\ NextDomain
  /\ UNCHANGED <<mine, heard, spared>>

\* Of Google's reply neither status is looked at.
AskGoogle ==
  /\ pc = "google"
  /\ \E r \in Reply :
       /\ Replied(r)
       /\ Issue("dns", Parsed(r) /\ Differ(mine, ARecords(r)))
  /\ NextDomain
  /\ UNCHANGED <<mine, heard, spared>>

\* The ? on build(), for a client of its own: leak_test ends with an error and
\* Google is not asked about this domain.
NoGoogleClient ==
  /\ pc = "google"
  /\ unasked' = unasked \cup {at}
  /\ NextDomain
  /\ UNCHANGED <<report, replies, heard, skipped>>

NoMoreDomains ==
  /\ pc = "doh" /\ at > N
  /\ pc' = "stun1"
  /\ UNCHANGED <<at, report, replies, heard, spared>>

-----------------------------------------------------------------------------
(* check_webrtc_leak, check_fingerprint *)

\* The first server that accepts a connection ends the check.
AskStun ==
  \E ok \in BOOLEAN :
    /\ Issue("webrtc", ok)
    /\ \/ pc = "stun1" /\ Heard("stun1", ok, IF ok THEN "headers" ELSE "stun2")
       \/ pc = "stun2" /\ Heard("stun2", ok, "headers")

NoEchoClient ==
  /\ pc = "headers"
  /\ skipped' = skipped \cup {"fingerprint"}
  /\ pc' = "done"
  /\ UNCHANGED <<at, report, replies, heard, unasked>>

\* Only a header that names the user's languages is an issue.
EchoHeaders ==
  /\ pc = "headers"
  /\ \E ok \in BOOLEAN, languages \in BOOLEAN :
       /\ Issue("fingerprint", ok /\ languages)
       /\ Heard("headers", ok, "tls")

EchoTls ==
  /\ pc = "tls"
  /\ \E ok \in BOOLEAN : Heard("tls", ok, "done")
  /\ UNCHANGED found

CheckDns == \/ NoDohClient \/ AskProvider \/ ProviderFails
            \/ AskGoogle \/ NoGoogleClient \/ NoMoreDomains

Next ==
  \/ CheckAddress \/ CheckDns
  \/ AskStun \/ NoEchoClient \/ EchoHeaders \/ EchoTls

\* Every request has a timeout, and the kernel gives up a connection.
Spec == Init /\ [][Next]_vars /\ WF_vars(Next)

\* The verdict of the summary.
Good == pc = "done" /\ found = {}

-----------------------------------------------------------------------------
(* Properties *)

Points == Probes \cup {"doh", "google", "done"}

LeakTypeOK ==
  /\ pc \in Points
  /\ at \in 1..(N + 1)
  /\ mine \in {<< >>} \cup {ARecords(r) : r \in Reply}
  /\ found \subseteq {"address", "dns", "webrtc", "fingerprint"}
  /\ replies \in [1..N -> Seq(Reply)]
  /\ heard \in [Probes -> {"untried", "failed", "answered"}]
  /\ skipped \subseteq {"dns", "fingerprint"}
  /\ unasked \subseteq 1..N

\* Two providers have answered for a domain, and not the same.
Mismatch(i) ==
  /\ Len(replies[i]) = 2
  /\ Parsed(replies[i][2])
  /\ Differ(ARecords(replies[i][1]), ARecords(replies[i][2]))

\* The report of a finished check speaks of a DNS leak exactly when the
\* answers for some domain differed, whatever the other domains, before it
\* and after it, have shown.
DnsLeakReported ==
  pc = "done" => ("dns" \in found <=> \E i \in 1..N : Mismatch(i))

\* No failed request spares a later probe: in the end every domain has been asked
\* of the provider, and of Google when the provider had resolved it, a STUN server
\* has accepted or both have refused, and both echo services have been asked.  A
\* client that cannot be made costs what it would have asked: a whole check, but
\* of Google one domain only.
EveryProbeTried ==
  pc = "done" =>
    /\ \A i \in 1..N :
         /\ replies[i] # << >> \/ "dns" \in skipped
         /\ Len(replies[i]) = 1 => ~Resolved(replies[i][1]) \/ i \in unasked
    /\ \A p \in {"address", "stun1"} : heard[p] # "untried"
    /\ heard["stun1"] = "failed" => heard["stun2"] # "untried"
    /\ \A p \in {"headers", "tls"} : heard[p] # "untried" \/ "fingerprint" \in skipped

\* The check ends, whatever fails: nothing is asked a second time.
CheckEnds == <>(pc = "done")

\* Claimed by the summary, and refuted: a verdict "GOOD - No leaks detected"
\* says that some probe has come back.  With no network all fail alike.
GoodMeansChecked ==
  Good => \/ \E p \in Probes : heard[p] = "answered"
          \/ \E i \in 1..N : \E k \in 1..Len(replies[i]) : replies[i][k].arrived

\* Claimed by the README ("cross-provider consistency"), and refuted: a DNS
\* leak is reported only if, for some domain, a provider has given an address
\* that the other has not.  The answers are compared as lists.
SameAddressesAgree ==
  pc = "done" /\ "dns" \in found =>
    \E i \in 1..N : /\ Len(replies[i]) = 2
                    /\ {ARecords(replies[i][1])[k] : k \in 1..Len(ARecords(replies[i][1]))}
                       # {ARecords(replies[i][2])[k] : k \in 1..Len(ARecords(replies[i][2]))}
===============================================================================
