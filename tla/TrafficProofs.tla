---------------------------- MODULE TrafficProofs ----------------------------
(***************************************************************************)
(* What is proved of the traffic, for commands given one at a time but     *)
(* otherwise in any order, with any options and any faults, and next to a  *)
(* cleaning of the session: Tor's own packets always pass, the kill switch *)
(* holds from the start that set it to the stop that lifts it, and the     *)
(* user is anonymous after a start that ended with Ok.  Then what survives *)
(* any number of commands at the same time, and what a cleaning promises.  *)
(***************************************************************************)
EXTENDS TransparentProofs, TransparentCleanup, WellFoundedInduction

-----------------------------------------------------------------------------
(* Chains in which a guard comes before every rule it protects from *)

\* Every rule of bad has the rule guard somewhere before it.
Guarded(chain, bad, guard) ==
  \A i \in DOMAIN chain :
    chain[i] \in bad => \E j \in DOMAIN chain : j < i /\ chain[j] = guard

NatGuarded(chain) == /\ Guarded(chain, Redirects, "torReturn")
                     /\ Guarded(chain, {"tcpDnsRedirect"}, "tcpRedirect")

FilterGuarded(chain) == /\ Guarded(chain, {"tcpReject"}, "torAccept")
                        /\ Guarded(chain, {"tcpReject"}, "loopAccept")

GuardedRules(f) ==
  /\ "natOutput" \in DOMAIN f => NatGuarded(f["natOutput"])
  /\ "filterOutput" \in DOMAIN f => FilterGuarded(f["filterOutput"])

Has(chain, r) == \E i \in DOMAIN chain : chain[i] = r

\* Every chain, in force or in a file, is guarded.
AllGuarded ==
  /\ GuardedRules(rules)
  /\ \A file \in backup : GuardedRules(file)
  /\ \A p \in Procs : GuardedRules(held[p])

\* The rules a start has gone past are in force, the tolerated ones aside.
Laid(p, k) == LET r == Plan(opt[p])[k] IN r \notin Tolerated => Has(rules[ChainOf(r)], r)

PrefixLaid ==
  \A p \in Procs :
    /\ pc[p] # "append" => step[p] = 1
    /\ pc[p] = "append" => \A k \in DOMAIN Plan(opt[p]) : k < step[p] => Laid(p, k)

KillLaid == promise.kill => Has(rules["filterOutput"], "tcpReject")

\* A completed start has laid its redirections, and whoever is about to flush
\* them has ended the session.
RedirectLaid ==
  session = "active" =>
    /\ Has(rules["natOutput"], "tcpRedirect")
    /\ promise.dns => Has(rules["natOutput"], "udpDnsRedirect")

StopPCs == {"flushNat", "flushPre", "flushFilter", "look", "restore", "unlink"}

StopPlaces == \A p \in Procs : pc[p] \in StopPCs => session # "active"

TrafficInv == /\ TypeOK
              /\ OneAtATime
              /\ AllGuarded
              /\ PrefixLaid
              /\ KillLaid
              /\ RedirectLaid
              /\ StopPlaces

\* What a chain holds after one more rule.
LEMMA HasAppend ==
  ASSUME NEW chain \in Seq(Rule), NEW x \in Rule
  PROVE  /\ Has(Append(chain, x), x)
         /\ \A r : Has(chain, r) => Has(Append(chain, x), r)
<1>1. /\ DOMAIN Append(chain, x) = 1..(Len(chain) + 1)
      /\ Append(chain, x)[Len(chain) + 1] = x
      /\ \A i \in 1..Len(chain) : Append(chain, x)[i] = chain[i]
  OBVIOUS
<1>2. Len(chain) + 1 \in 1..(Len(chain) + 1) /\ DOMAIN chain = 1..Len(chain)
  OBVIOUS
<1> QED BY <1>1, <1>2 DEF Has

\* A chain stays guarded when a rule is appended behind its guard.
LEMMA GuardedAppend ==
  ASSUME NEW chain \in Seq(Rule), NEW x \in Rule, NEW bad, NEW guard,
         Guarded(chain, bad, guard), x \in bad => Has(chain, guard)
  PROVE  Guarded(Append(chain, x), bad, guard)
<1>1. /\ DOMAIN Append(chain, x) = 1..(Len(chain) + 1)
      /\ Append(chain, x)[Len(chain) + 1] = x
      /\ \A i \in 1..Len(chain) : Append(chain, x)[i] = chain[i]
      /\ DOMAIN chain = 1..Len(chain)
  OBVIOUS
<1> SUFFICES ASSUME NEW i \in DOMAIN Append(chain, x), Append(chain, x)[i] \in bad
             PROVE  \E j \in DOMAIN Append(chain, x) : j < i /\ Append(chain, x)[j] = guard
  BY DEF Guarded
<1>2. CASE i \in 1..Len(chain)
  <2>1. PICK j \in DOMAIN chain : j < i /\ chain[j] = guard
    BY <1>1, <1>2 DEF Guarded
  <2> QED BY <1>1, <2>1
<1>3. CASE i = Len(chain) + 1
  <2>1. PICK j \in DOMAIN chain : chain[j] = guard
    BY <1>1, <1>3 DEF Has
  <2>2. j < i
    BY <1>1, <1>3, <2>1
  <2> QED BY <1>1, <2>1, <2>2
<1> QED BY <1>1, <1>2, <1>3

\* A chain of the user's rules only, or of none, has nothing to guard.
LEMMA GuardedOwn == GuardedRules(Own) /\ GuardedRules(EmptyFile)
<1>1. \A c \in Chains : \A i \in DOMAIN Own[c] : Own[c][i] \in UserRules
  BY OwnAssumption
<1>2. (Redirects \cup {"tcpReject"}) \cap UserRules = {}
  BY UserRulesAssumption
  DEF Redirects, ToTransPort, ToDNSPort, NofindRules, NatRules, FilterRules
<1>3. GuardedRules(Own)
  <2>1. ASSUME NEW c \in Chains, NEW guard
        PROVE  /\ Guarded(Own[c], Redirects, guard) /\ Guarded(Own[c], {"tcpReject"}, guard)
               /\ Guarded(Own[c], {"tcpDnsRedirect"}, guard)
    BY <1>1, <1>2 DEF Guarded, Redirects, ToTransPort, ToDNSPort
  <2> QED BY <2>1 DEF GuardedRules, NatGuarded, FilterGuarded, Chains
<1>4. GuardedRules(EmptyFile)
  BY DEF GuardedRules, EmptyFile
<1> QED BY <1>3, <1>4

\* Replaying guarded rules over guarded rules leaves guarded rules.
LEMMA GuardedReplayed ==
  ASSUME NEW rs \in [Chains -> Seq(Rule)], GuardedRules(rs),
         NEW file, GuardedRules(file), NEW ts
  PROVE  GuardedRules(Replayed(rs, file, ts))
BY DEF GuardedRules, Replayed, Chains

\* What is saved of guarded rules is guarded.
LEMMA GuardedSaved ==
  ASSUME NEW rs \in [Chains -> Seq(Rule)], GuardedRules(rs), NEW ts
  PROVE  GuardedRules(Saved(rs, ts))
BY DEF GuardedRules, Saved, Held

\* So is every part of guarded rules.
LEMMA GuardedPart ==
  ASSUME NEW file, GuardedRules(file), NEW ts
  PROVE  GuardedRules(Part(file, ts))
BY DEF GuardedRules, Part

\* The elements of a concatenation.
LEMMA ConcatElements ==
  ASSUME NEW s \in Seq(Rule), NEW t \in Seq(Rule)
  PROVE  /\ s \o t \in Seq(Rule)
         /\ DOMAIN (s \o t) = 1..(Len(s) + Len(t))
         /\ \A i \in DOMAIN s : i \in DOMAIN (s \o t) /\ (s \o t)[i] = s[i]
         /\ \A i \in DOMAIN t : /\ Len(s) + i \in DOMAIN (s \o t)
                               /\ (s \o t)[Len(s) + i] = t[i]
         /\ \A i \in DOMAIN (s \o t) :
              i \in DOMAIN s \/ (i - Len(s) \in DOMAIN t /\ (s \o t)[i] = t[i - Len(s)])
OBVIOUS

\* What a concatenation holds.
LEMMA HasConcat ==
  ASSUME NEW s \in Seq(Rule), NEW t \in Seq(Rule), NEW r
  PROVE  Has(s \o t, r) <=> Has(s, r) \/ Has(t, r)
<1>1. CASE Has(s, r)
  BY <1>1, ConcatElements DEF Has
<1>2. CASE Has(t, r)
  <2>1. PICK i \in DOMAIN t : t[i] = r
    BY <1>2 DEF Has
  <2>2. Len(s) + i \in DOMAIN (s \o t) /\ (s \o t)[Len(s) + i] = r
    BY <2>1, ConcatElements
  <2> QED BY <2>2 DEF Has
<1>3. CASE Has(s \o t, r)
  BY <1>3, ConcatElements DEF Has
<1> QED BY <1>1, <1>2, <1>3

\* What follows a guarded chain is guarded if it is so by itself or if the
\* chain holds the guard.
LEMMA GuardedConcat ==
  ASSUME NEW s \in Seq(Rule), NEW t \in Seq(Rule), NEW bad, NEW guard,
         Guarded(s, bad, guard), Has(s, guard) \/ Guarded(t, bad, guard)
  PROVE  Guarded(s \o t, bad, guard)
<1> DEFINE u == s \o t
<1> SUFFICES ASSUME NEW i \in DOMAIN u, u[i] \in bad
             PROVE  \E j \in DOMAIN u : j < i /\ u[j] = guard
  BY DEF Guarded
<1>0. /\ DOMAIN u = 1..(Len(s) + Len(t)) /\ DOMAIN s = 1..Len(s) /\ DOMAIN t = 1..Len(t)
      /\ \A k \in DOMAIN s : u[k] = s[k]
      /\ \A k \in DOMAIN t : u[Len(s) + k] = t[k]
      /\ Len(s) \in Nat /\ Len(t) \in Nat
  BY ConcatElements
<1> HIDE DEF u
<1>1. CASE i \in DOMAIN s
  <2>1. PICK j \in DOMAIN s : j < i /\ s[j] = guard
    BY <1>0, <1>1 DEF Guarded
  <2> QED BY <1>0, <2>1
<1>2. CASE i \notin DOMAIN s /\ Has(s, guard)
  <2>1. PICK j \in DOMAIN s : s[j] = guard
    BY <1>2 DEF Has
  <2> QED BY <1>0, <1>2, <2>1
<1>3. CASE i \notin DOMAIN s /\ Guarded(t, bad, guard)
  <2>1. i - Len(s) \in DOMAIN t /\ t[i - Len(s)] = u[i]
    BY <1>0, <1>3
  <2>2. PICK j \in DOMAIN t : j < i - Len(s) /\ t[j] = guard
    BY <1>3, <2>1 DEF Guarded
  <2>3. Len(s) + j \in DOMAIN u /\ Len(s) + j < i
    BY <1>0, <2>1, <2>2
  <2> QED BY <1>0, <2>2, <2>3
<1> QED BY <1>1, <1>2, <1>3

\* The plan of a start lays each guard before what it guards from, and every
\* rule that it promises.
LEMMA PlanShape ==
  ASSUME NEW o \in Options
  PROVE  /\ NatGuarded(Plan(o)) /\ FilterGuarded(Plan(o))
         /\ Has(Plan(o), "tcpRedirect")
         /\ o.dns => Has(Plan(o), "udpDnsRedirect")
         /\ o.kill => Has(Plan(o), "tcpReject")
<1> DEFINE pre  == <<"torReturn", "loopReturn">>
           lan  == IF o.lan THEN <<"lanReturn">> ELSE << >>
           tcp  == <<"tcpRedirect">>
           dns  == IF o.dns THEN <<"udpDnsRedirect", "tcpDnsRedirect">> ELSE << >>
           doh  == <<"dohReject">>
           kill == KillPlan(o)
           Shape(s)     == /\ s \in Seq(Rule) /\ NatGuarded(s) /\ FilterGuarded(s)
                           /\ Has(s, "torReturn")
           NoReject(s)  == \A i \in DOMAIN s : s[i] # "tcpReject"
           NoTcpDns(s)  == \A i \in DOMAIN s : s[i] # "tcpDnsRedirect"
<1>0. << >> \in Seq(Rule) /\ DOMAIN << >> = {}
  OBVIOUS
<1>1. pre \in Seq(Rule) /\ tcp \in Seq(Rule) /\ doh \in Seq(Rule)
  BY DEF Rule, NofindRules, NatRules, FilterRules
<1>2. lan \in Seq(Rule) /\ NoReject(lan) /\ NoTcpDns(lan)
  <2>1. <<"lanReturn">> \in Seq(Rule)
    BY DEF Rule, NofindRules, NatRules
  <2>2. NoReject(<<"lanReturn">>) /\ NoTcpDns(<<"lanReturn">>)
    OBVIOUS
  <2> QED BY <1>0, <2>1, <2>2
<1>3. dns \in Seq(Rule) /\ NoReject(dns) /\ (o.dns => Has(dns, "udpDnsRedirect"))
  <2> DEFINE two == <<"udpDnsRedirect", "tcpDnsRedirect">>
  <2>1. two \in Seq(Rule)
    BY DEF Rule, NofindRules, NatRules
  <2>2. NoReject(two) /\ Has(two, "udpDnsRedirect")
    <3>1. two[1] = "udpDnsRedirect" /\ two[2] = "tcpDnsRedirect" /\ DOMAIN two = 1..2
      OBVIOUS
    <3> HIDE DEF two
    <3> QED BY <3>1 DEF Has
  <2> HIDE DEF two
  <2>3. dns = IF o.dns THEN two ELSE << >>
    BY DEF two
  <2> QED BY <1>0, <2>1, <2>2, <2>3
<1>4. /\ kill \in Seq(Rule) /\ FilterGuarded(kill) /\ NoTcpDns(kill)
      /\ o.kill => Has(kill, "tcpReject")
  <2> DEFINE three == <<"torAccept", "loopAccept", "tcpReject">>
  <2>1. three \in Seq(Rule)
    BY DEF Rule, NofindRules, FilterRules
  <2>2. three[1] = "torAccept" /\ three[3] = "tcpReject" /\ DOMAIN three = 1..3
        /\ three[2] = "loopAccept"
    OBVIOUS
  <2>3. kill = IF o.kill THEN three ELSE << >>
    BY DEF KillPlan
  <2> HIDE DEF three, kill
  <2>4. FilterGuarded(three) /\ Has(three, "tcpReject") /\ NoTcpDns(three)
    BY <2>2 DEF FilterGuarded, Guarded, Has
  <2>5. FilterGuarded(<< >>)
    BY <1>0 DEF FilterGuarded, Guarded
  <2> QED BY <1>0, <2>1, <2>3, <2>4, <2>5
<1>5. Shape(pre)
  <2>1. pre[1] = "torReturn" /\ pre[2] = "loopReturn" /\ DOMAIN pre = 1..2
    OBVIOUS
  <2> QED BY <1>1, <2>1 DEF NatGuarded, FilterGuarded, Guarded, Has, Redirects, ToTransPort,
                            ToDNSPort
<1>6. /\ NoReject(tcp) /\ NoReject(doh) /\ NoTcpDns(tcp) /\ NoTcpDns(doh)
      /\ Has(tcp, "tcpRedirect")
  <2>1. /\ tcp[1] = "tcpRedirect" /\ DOMAIN tcp = {1}
        /\ doh[1] = "dohReject" /\ DOMAIN doh = {1}
    OBVIOUS
  <2> QED BY <2>1 DEF Has
<1>7. ASSUME NEW s, Shape(s), NEW t \in Seq(Rule), NoReject(t) \/ FilterGuarded(t),
             Has(s, "tcpRedirect") \/ NoTcpDns(t)
      PROVE  Shape(s \o t)
  <2>1. NoReject(t) => FilterGuarded(t)
    BY DEF FilterGuarded, Guarded
  <2>2. NoTcpDns(t) => Guarded(t, {"tcpDnsRedirect"}, "tcpRedirect")
    BY DEF Guarded
  <2> QED BY <1>7, <2>1, <2>2, ConcatElements, GuardedConcat, HasConcat
          DEF NatGuarded, FilterGuarded
<1>8. Plan(o) = pre \o lan \o tcp \o dns \o doh \o kill
  BY DEF Plan, NatPlan
<1> HIDE DEF pre, lan, tcp, dns, doh, kill
<1>9. Shape(pre \o lan)
  BY <1>2, <1>5, <1>7
<1>10. Shape(pre \o lan \o tcp) /\ Has(pre \o lan \o tcp, "tcpRedirect")
  BY <1>1, <1>6, <1>7, <1>9, HasConcat
<1>11. /\ Shape(pre \o lan \o tcp \o dns) /\ Has(pre \o lan \o tcp \o dns, "tcpRedirect")
       /\ o.dns => Has(pre \o lan \o tcp \o dns, "udpDnsRedirect")
  BY <1>3, <1>7, <1>10, HasConcat
<1> DEFINE nat == pre \o lan \o tcp \o dns
<1> HIDE DEF nat
<1>12. Shape(nat \o doh)
  BY <1>1, <1>6, <1>7, <1>11 DEF nat
<1>13. Shape(nat \o doh \o kill)
  BY <1>4, <1>7, <1>12
<1>14. nat \in Seq(Rule) /\ nat \o doh \in Seq(Rule)
  BY <1>11, <1>12 DEF nat
<1>15. \A r : Has(nat, r) \/ Has(kill, r) => Has(nat \o doh \o kill, r)
  BY <1>1, <1>4, <1>14, HasConcat
<1> QED BY <1>4, <1>8, <1>11, <1>13, <1>15 DEF nat

-----------------------------------------------------------------------------
(* Every step preserves the invariant *)

\* The traffic invariant holds at first.
LEMMA InitTraffic == Init => TrafficInv
<1> SUFFICES ASSUME Init PROVE TrafficInv
  OBVIOUS
<1>1. TypeOK
  BY InitType
<1>2. OneAtATime /\ PrefixLaid
  BY DEF Init, OneAtATime, PrefixLaid
<1>3. AllGuarded
  BY GuardedOwn DEF Init, HostInit, AllGuarded
<1>4. KillLaid /\ RedirectLaid /\ StopPlaces
  BY DEF Init, NoOptions, KillLaid, RedirectLaid, StopPlaces
<1> QED BY <1>1, <1>2, <1>3, <1>4 DEF TrafficInv

\* When a command moves, every other one is idle.
LEMMA Mover ==
  ASSUME TypeOK, OneAtATime, NEW p \in Procs, NEW l,
         pc[p] # "idle" \/ AllIdle, pc' = [pc EXCEPT ![p] = l]
  PROVE  /\ OneAtATime'
         /\ \A q \in Procs : pc'[q] = IF q = p THEN l ELSE "idle"
<1>1. \A q \in Procs : pc'[q] = IF q = p THEN l ELSE "idle"
  BY DEF OneAtATime, TypeOK, AllIdle
<1> QED BY <1>1 DEF OneAtATime

\* A step to a place where no rule is appended keeps PrefixLaid.
LEMMA PrefixElsewhere ==
  ASSUME TrafficInv, NEW p \in Procs, NEW l, l # "append",
         pc[p] # "idle" \/ AllIdle, pc' = [pc EXCEPT ![p] = l],
         pc[p] # "append", step' = step,
         l \in StopPCs => session' # "active"
  PROVE  OneAtATime' /\ PrefixLaid' /\ StopPlaces'
<1>1. OneAtATime' /\ \A q \in Procs : pc'[q] = IF q = p THEN l ELSE "idle"
  BY Mover DEF TrafficInv
<1>2. \A q \in Procs : step'[q] = 1
  BY DEF TrafficInv, PrefixLaid, OneAtATime, AllIdle, TypeOK
<1> QED BY <1>1, <1>2 DEF PrefixLaid, StopPlaces, StopPCs

\* A command that ends keeps the traffic invariant.
LEMMA ReturnTraffic ==
  ASSUME TrafficInv, NEW p \in Procs, NEW r, Return(p, r),
         UNCHANGED <<rules, backup, session>> \/ pc[p] # "idle"
  PROVE  /\ OneAtATime' /\ PrefixLaid' /\ StopPlaces'
         /\ \A q \in Procs : GuardedRules(held'[q])
<1>1. \A q \in Procs : GuardedRules(held'[q])
  BY GuardedOwn DEF Return, TrafficInv, AllGuarded, TypeOK
<1>2. CASE pc[p] # "idle"
  <2>1. OneAtATime' /\ \A q \in Procs : pc'[q] = "idle"
    BY <1>2, Mover DEF Return, TrafficInv
  <2>2. \A q \in Procs : step'[q] = 1
    BY <1>2 DEF Return, TrafficInv, PrefixLaid, OneAtATime, TypeOK
  <2> QED BY <1>1, <2>1, <2>2 DEF PrefixLaid, StopPlaces, StopPCs
<1>3. CASE pc[p] = "idle" /\ UNCHANGED <<rules, backup, session>>
  <2>1. pc' = pc
    BY <1>3 DEF Return, TrafficInv, TypeOK
  <2>2. \A q \in Procs : pc[q] # "append" => step'[q] = 1
    BY <1>3 DEF Return, TrafficInv, PrefixLaid, TypeOK
  <2>3. \A q \in Procs : pc[q] = "append" => step'[q] = step[q] /\ opt'[q] = opt[q]
    BY <1>3 DEF Return, TrafficInv, TypeOK
  <2> QED BY <1>1, <1>3, <2>1, <2>2, <2>3
          DEF PrefixLaid, Laid, TrafficInv, OneAtATime, StopPlaces
<1> QED BY <1>2, <1>3

\* The step that appends: the guard of the new rule is already in force.
LEMMA AppendTraffic ==
  ASSUME TrafficInv, NEW p \in Procs, AppendRule(p)
  PROVE  OneAtATime' /\ AllGuarded' /\ PrefixLaid' /\ KillLaid' /\ RedirectLaid' /\ StopPlaces'
<1> DEFINE x == NextRule(p)
           c == ChainOf(x)
<1>0. TypeOK /\ opt[p] \in Options /\ step[p] \in Nat \ {0} /\ pc[p] = "append"
  BY DEF TrafficInv, TypeOK, AppendRule
<1>1. Plan(opt[p]) \in Seq(NofindRules) /\ step[p] \in DOMAIN Plan(opt[p])
  BY <1>0, PlanType DEF AppendRule, Planned
<1>2. x \in NofindRules /\ x \in Rule /\ x = Plan(opt[p])[step[p]]
  BY <1>0, NextRuleType DEF AppendRule, Rule, NextRule
<1>3. c \in Chains /\ rules \in [Chains -> Seq(Rule)]
      /\ rules' = [rules EXCEPT ![c] = Append(rules[c], x)]
  BY <1>0, <1>2, ChainTables DEF AppendRule, TypeOK
<1>4. \A d \in Chains : \A r : Has(rules[d], r) => Has(rules'[d], r)
  BY <1>2, <1>3, HasAppend
<1>5. Has(rules'[c], x)
  BY <1>2, <1>3, HasAppend
<1>6. OneAtATime'
  BY DEF AppendRule, TrafficInv, OneAtATime
<1>7. PrefixLaid'
  <2>1. UNCHANGED <<pc, opt>> /\ step' = [step EXCEPT ![p] = @ + 1]
    BY DEF AppendRule
  <2>2. \A q \in Procs : pc[q] = "append" => q = p
    BY <1>0 DEF TrafficInv, OneAtATime
  <2>3. step'[p] = step[p] + 1 /\ \A q \in Procs : q # p => step'[q] = step[q]
    BY <2>1, <1>0 DEF TypeOK
  <2>4. ASSUME NEW k \in DOMAIN Plan(opt[p]), k < step[p] + 1
        PROVE  Laid(p, k)'
    <3>1. CASE k < step[p]
      <4>1. Laid(p, k)
        BY <1>0, <3>1 DEF TrafficInv, PrefixLaid
      <4>2. Plan(opt[p])[k] \in Rule
        BY <1>1 DEF Rule
      <4>3. ChainOf(Plan(opt[p])[k]) \in Chains
        BY <4>2, ChainTables
      <4> QED BY <1>4, <2>1, <4>1, <4>3 DEF Laid
    <3>2. CASE k = step[p]
      BY <1>2, <1>5, <2>1, <3>2 DEF Laid
    <3>3. k \in Nat
      BY <1>1
    <3> QED BY <1>0, <2>4, <3>1, <3>2, <3>3
  <2> QED BY <1>0, <2>1, <2>2, <2>3, <2>4 DEF PrefixLaid, TrafficInv
<1>8. KillLaid' /\ RedirectLaid' /\ StopPlaces'
  BY <1>4 DEF AppendRule, TrafficInv, KillLaid, RedirectLaid, StopPlaces, Chains
<1>9. AllGuarded'
  <2>1. ASSUME NEW bad, NEW guard \in Rule \ Tolerated, x \in bad,
               Guarded(Plan(opt[p]), bad, guard)
        PROVE  Has(rules[ChainOf(guard)], guard)
    <3>1. PICK j \in DOMAIN Plan(opt[p]) : j < step[p] /\ Plan(opt[p])[j] = guard
      BY <1>1, <1>2, <2>1 DEF Guarded
    <3>2. Laid(p, j)
      BY <1>0, <3>1 DEF TrafficInv, PrefixLaid
    <3> QED BY <2>1, <3>1, <3>2 DEF Laid
  <2>2. /\ x \in Redirects => Has(rules["natOutput"], "torReturn")
        /\ x = "tcpDnsRedirect" => Has(rules["natOutput"], "tcpRedirect")
    <3>1. /\ {"torReturn", "tcpRedirect"} \subseteq Rule \ Tolerated
          /\ ChainOf("torReturn") = "natOutput" /\ ChainOf("tcpRedirect") = "natOutput"
      BY DEF Rule, NofindRules, NatRules, Tolerated, ChainOf
    <3> HIDE DEF x, c
    <3> QED BY <1>0, <2>1, <3>1, PlanShape DEF NatGuarded
  <2>3. x = "tcpReject" => /\ Has(rules["filterOutput"], "torAccept")
                           /\ Has(rules["filterOutput"], "loopAccept")
    <3>1. /\ {"torAccept", "loopAccept"} \subseteq Rule \ Tolerated
          /\ ChainOf("torAccept") = "filterOutput" /\ ChainOf("loopAccept") = "filterOutput"
      BY DEF Rule, NofindRules, NatRules, FilterRules, Tolerated, ChainOf
    <3> HIDE DEF x, c
    <3> QED BY <1>0, <2>1, <3>1, PlanShape DEF FilterGuarded
  <2>4. NatGuarded(rules["natOutput"]) /\ FilterGuarded(rules["filterOutput"])
    BY <1>3 DEF TrafficInv, AllGuarded, GuardedRules, Chains
  <2>5. NatGuarded(rules'["natOutput"])
    <3>1. CASE c = "natOutput"
      <4>1. rules'["natOutput"] = Append(rules["natOutput"], x)
            /\ rules["natOutput"] \in Seq(Rule)
        BY <1>3, <3>1
      <4> HIDE DEF x, c
      <4> QED BY <1>2, <2>2, <2>4, <4>1, GuardedAppend DEF NatGuarded
    <3>2. CASE c # "natOutput"
      BY <1>3, <2>4, <3>2 DEF Chains
    <3> QED BY <3>1, <3>2
  <2>7. FilterGuarded(rules'["filterOutput"])
    <3>1. CASE c = "filterOutput"
      <4>1. rules'["filterOutput"] = Append(rules["filterOutput"], x)
            /\ rules["filterOutput"] \in Seq(Rule)
        BY <1>3, <3>1
      <4> HIDE DEF x, c
      <4> QED BY <1>2, <2>3, <2>4, <4>1, GuardedAppend DEF FilterGuarded
    <3>2. CASE c # "filterOutput"
      BY <1>3, <2>4, <3>2 DEF Chains
    <3> QED BY <3>1, <3>2
  <2>6. UNCHANGED <<backup, held>>
    BY DEF AppendRule
  <2> QED BY <2>5, <2>6, <2>7 DEF AllGuarded, GuardedRules, TrafficInv
<1> QED BY <1>6, <1>7, <1>8, <1>9

\* Every step of transparent-start keeps the traffic invariant.
LEMMA StartTraffic ==
  ASSUME Sequential, TrafficInv, NEW p \in Procs, Start(p)
  PROVE  OneAtATime' /\ AllGuarded' /\ PrefixLaid' /\ KillLaid' /\ RedirectLaid' /\ StopPlaces'
<1> USE DEF TrafficInv
<1>1. CASE StartProbe(p)
  <2>1. /\ pc' = [pc EXCEPT ![p] = "save"] /\ AllIdle /\ pc[p] = "idle"
        /\ UNCHANGED <<step, held, rules, backup, session, promise>>
    BY <1>1 DEF StartProbe, Begin, hostVars
  <2>2. OneAtATime' /\ PrefixLaid' /\ StopPlaces'
    BY <2>1, PrefixElsewhere DEF StopPCs
  <2> QED BY <2>1, <2>2 DEF AllGuarded, KillLaid, RedirectLaid
<1>2. CASE SaveRules(p)
  <2>1. /\ pc' = [pc EXCEPT ![p] = "truncate"] /\ pc[p] = "save"
        /\ UNCHANGED <<step, rules, backup, session, promise>>
    BY <1>2 DEF SaveRules, Goto, hostVars
  <2>2. OneAtATime' /\ PrefixLaid' /\ StopPlaces'
    BY <2>1, PrefixElsewhere DEF StopPCs
  <2>3. GuardedRules(Saved(rules, loaded)) /\ GuardedRules(EmptyFile)
    BY GuardedSaved, GuardedOwn DEF TypeOK, AllGuarded
  <2>4. \A q \in Procs : GuardedRules(held'[q])
    BY <1>2, <2>3 DEF SaveRules, AllGuarded, TypeOK
  <2> QED BY <2>1, <2>2, <2>4 DEF AllGuarded, KillLaid, RedirectLaid
<1>3. CASE SaveNotFound(p) \/ WriteFails(p) \/ AppendFails(p)
  <2>1. Return(p, "err") /\ UNCHANGED <<rules, backup, session, promise>>
    BY <1>3 DEF SaveNotFound, WriteFails, AppendFails, hostVars
  <2> QED BY <2>1, ReturnTraffic DEF AllGuarded, KillLaid, RedirectLaid
<1>4. CASE TruncateBackup(p)
  <2>1. /\ pc' = [pc EXCEPT ![p] = "fill"] /\ pc[p] = "truncate"
        /\ backup' = {EmptyFile} /\ UNCHANGED <<step, held, rules, session, promise>>
    BY <1>4 DEF TruncateBackup, Goto
  <2>2. OneAtATime' /\ PrefixLaid' /\ StopPlaces'
    BY <2>1, PrefixElsewhere DEF StopPCs
  <2> QED BY <2>1, <2>2, GuardedOwn DEF AllGuarded, KillLaid, RedirectLaid
<1>5. CASE FillBackup(p)
  <2>1. /\ pc' = [pc EXCEPT ![p] = "append"] /\ pc[p] = "fill"
        /\ backup' = {held[p]} /\ UNCHANGED <<step, held, rules, opt>>
        /\ promise' = NoOptions /\ session' = "saved"
    BY <1>5 DEF FillBackup, Goto
  <2>2. OneAtATime' /\ \A q \in Procs : pc'[q] = IF q = p THEN "append" ELSE "idle"
    BY <2>1, Mover
  <2>3. \A q \in Procs : step[q] = 1
    BY <2>1 DEF PrefixLaid, OneAtATime
  <2>4. \A k \in DOMAIN Plan(opt[p]) : ~(k < 1)
    <3>1. opt[p] \in Options
      BY DEF TypeOK
    <3>2. Plan(opt[p]) \in Seq(NofindRules)
      BY <3>1, PlanType
    <3> QED BY <3>2
  <2>5. PrefixLaid'
    BY <2>1, <2>2, <2>3, <2>4 DEF PrefixLaid
  <2> QED BY <2>1, <2>2, <2>5 DEF AllGuarded, KillLaid, NoOptions, RedirectLaid, StopPlaces
<1>5a. CASE FillPart(p)
  <2>1. \A file \in backup' : GuardedRules(file)
    BY <1>5a, GuardedPart DEF FillPart, AllGuarded
  <2> QED BY <1>5a, <2>1 DEF FillPart, procVars, OneAtATime, AllGuarded, PrefixLaid, Laid,
                             KillLaid, RedirectLaid, StopPlaces
<1>6. CASE AppendRule(p)
  BY <1>6, AppendTraffic
<1>7. CASE AppendIgnored(p)
  <2>1. /\ pc[p] = "append" /\ Planned(p) /\ NextRule(p) \in Tolerated
        /\ step' = [step EXCEPT ![p] = @ + 1]
        /\ UNCHANGED <<rules, backup, held, pc, opt, session, promise>>
    BY <1>7 DEF AppendIgnored, hostVars
  <2>2. \A q \in Procs : pc[q] = "append" => q = p
    BY <2>1 DEF OneAtATime
  <2>3. step'[p] = step[p] + 1 /\ step[p] \in Nat
        /\ \A q \in Procs : q # p => step'[q] = step[q]
    BY <2>1 DEF TypeOK
  <2>4. ASSUME NEW k \in DOMAIN Plan(opt[p]), k < step[p] + 1
        PROVE  Laid(p, k)'
    <3>1. opt[p] \in Options
      BY DEF TypeOK
    <3>2. k \in Nat
      BY <3>1, PlanType
    <3>3. CASE k < step[p]
      BY <2>1, <3>3 DEF PrefixLaid, Laid
    <3>4. CASE k = step[p]
      BY <2>1, <3>4 DEF Laid, NextRule
    <3> QED BY <2>3, <2>4, <3>2, <3>3, <3>4
  <2>5. PrefixLaid'
    BY <2>1, <2>2, <2>3, <2>4 DEF PrefixLaid
  <2> QED BY <2>1, <2>5 DEF OneAtATime, AllGuarded, KillLaid, RedirectLaid, StopPlaces
<1>8. CASE Started(p)
  <2>1. /\ Return(p, "started") /\ pc[p] = "append" /\ ~Planned(p)
        /\ UNCHANGED <<rules, backup>> /\ promise' = opt[p]
    BY <1>8 DEF Started, hostVars
  <2>2. opt[p] \in Options /\ step[p] \in Nat
    BY DEF TypeOK
  <2>3. ASSUME NEW r \in Rule \ Tolerated, Has(Plan(opt[p]), r)
        PROVE  Has(rules[ChainOf(r)], r)
    <3>1. PICK k \in DOMAIN Plan(opt[p]) : Plan(opt[p])[k] = r
      BY <2>3 DEF Has
    <3>2. k < step[p]
      <4>1. Plan(opt[p]) \in Seq(NofindRules)
        BY <2>2, PlanType
      <4> QED BY <2>1, <2>2, <4>1 DEF Planned
    <3>3. Laid(p, k)
      BY <2>1, <3>2 DEF PrefixLaid
    <3> QED BY <2>3, <3>1, <3>3 DEF Laid
  <2>4. /\ {"tcpReject", "tcpRedirect", "udpDnsRedirect"} \subseteq Rule \ Tolerated
        /\ ChainOf("tcpReject") = "filterOutput" /\ ChainOf("tcpRedirect") = "natOutput"
        /\ ChainOf("udpDnsRedirect") = "natOutput"
    BY DEF Rule, NofindRules, NatRules, FilterRules, Tolerated, ChainOf
  <2>5. KillLaid' /\ RedirectLaid'
    BY <2>1, <2>2, <2>3, <2>4, PlanShape DEF KillLaid, RedirectLaid
  <2> QED BY <2>1, <2>5, ReturnTraffic DEF AllGuarded
<1> QED BY <1>1, <1>2, <1>3, <1>4, <1>5, <1>5a, <1>6, <1>7, <1>8 DEF Start

\* A flushed chain has nothing to guard.
LEMMA FlushGuarded ==
  ASSUME TrafficInv, NEW c \in Chains
  PROVE  GuardedRules([rules EXCEPT ![c] = << >>])
BY DEF TrafficInv, TypeOK, AllGuarded, GuardedRules, NatGuarded, FilterGuarded, Guarded, Chains

\* Every step of transparent-stop keeps the traffic invariant.
LEMMA StopTraffic ==
  ASSUME Sequential, TrafficInv, NEW p \in Procs, Stop(p)
  PROVE  OneAtATime' /\ AllGuarded' /\ PrefixLaid' /\ KillLaid' /\ RedirectLaid' /\ StopPlaces'
<1> USE DEF TrafficInv
<1>1. CASE StopBegin(p)
  <2>1. /\ pc' = [pc EXCEPT ![p] = "flushNat"] /\ AllIdle /\ pc[p] = "idle"
        /\ UNCHANGED <<step, held, rules, backup, promise>>
        /\ session' # "active"
    BY <1>1 DEF StopBegin, Begin, hostVars
  <2>2. OneAtATime' /\ PrefixLaid' /\ StopPlaces'
    BY <2>1, PrefixElsewhere
  <2> QED BY <2>1, <2>2 DEF AllGuarded, KillLaid, RedirectLaid
<1>2. CASE FlushNat(p) \/ FlushPre(p) \/ FlushPreIgnored(p) \/ FlushFilter(p)
           \/ FlushFilterIgnored(p) \/ LookForBackup(p)
  <2>1. /\ pc[p] \notin {"idle", "append"} /\ UNCHANGED <<backup, held, step>>
        /\ session' # "active"
    BY <1>2 DEF FlushNat, FlushPre, FlushPreIgnored, FlushFilter, FlushFilterIgnored,
                LookForBackup, hostVars, StopPlaces, StopPCs
  <2>2. PICK l \in {"flushPre", "flushFilter", "look", "restore"} :
          pc' = [pc EXCEPT ![p] = l]
    BY <1>2 DEF FlushNat, FlushPre, FlushPreIgnored, FlushFilter, FlushFilterIgnored,
                LookForBackup, Goto
  <2>3. OneAtATime' /\ PrefixLaid' /\ StopPlaces'
    BY <2>1, <2>2, PrefixElsewhere
  <2>4. GuardedRules(rules')
    BY <1>2, FlushGuarded
    DEF FlushNat, FlushPre, FlushPreIgnored, FlushFilter, FlushFilterIgnored,
        LookForBackup, hostVars, Chains, AllGuarded
  <2>5. KillLaid'
    BY <1>2 DEF FlushNat, FlushPre, FlushPreIgnored, FlushFilter, FlushFilterIgnored,
                LookForBackup, hostVars, KillLaid, TypeOK, Chains, Options
  <2> QED BY <2>1, <2>3, <2>4, <2>5 DEF AllGuarded, RedirectLaid
<1>3. CASE FlushNatFails(p) \/ RestoreMissing(p) \/ NoBackup(p)
  <2>1. PICK r : Return(p, r)
    BY <1>3 DEF FlushNatFails, RestoreMissing, NoBackup
  <2>2. /\ UNCHANGED <<rules, backup>> /\ promise' \in {promise, NoOptions}
        /\ pc[p] # "idle" /\ session' # "active"
    BY <1>3 DEF FlushNatFails, RestoreMissing, NoBackup, hostVars, StopPlaces, StopPCs
  <2> QED BY <2>1, <2>2, ReturnTraffic DEF AllGuarded, KillLaid, NoOptions, RedirectLaid
<1>4. CASE RestoreRules(p)
  <2>1. PICK file \in backup : rules' = Replayed(rules, file, Tables)
    BY <1>4 DEF RestoreRules
  <2>2. /\ pc' = [pc EXCEPT ![p] = "unlink"] /\ pc[p] = "restore"
        /\ UNCHANGED <<step, held, backup>> /\ promise' = NoOptions /\ session' = "off"
    BY <1>4 DEF RestoreRules, Goto
  <2>3. GuardedRules(rules')
    BY <2>1, GuardedReplayed DEF AllGuarded, TypeOK
  <2>4. OneAtATime' /\ PrefixLaid' /\ StopPlaces'
    BY <2>2, PrefixElsewhere
  <2> QED BY <2>2, <2>3, <2>4 DEF AllGuarded, KillLaid, NoOptions, RedirectLaid
<1>5. CASE RestoreFails(p)
  <2>1. PICK ts \in SUBSET Tables, file \in backup :
          /\ rules' = Replayed(rules, file, ts)
          /\ promise' = [promise EXCEPT !.kill = @ /\ "filter" \notin ts]
    BY <1>5 DEF RestoreFails
  <2>2. /\ Return(p, "warned") /\ pc[p] = "restore" /\ UNCHANGED backup
        /\ session' # "active"
    BY <1>5 DEF RestoreFails, StopPlaces, StopPCs
  <2>3. GuardedRules(rules')
    BY <2>1, GuardedReplayed DEF AllGuarded, TypeOK
  <2>4. KillLaid'
    <3>1. promise'.kill => promise.kill /\ "filter" \notin ts
      BY <2>1 DEF TypeOK, Options
    <3>2. "filter" \notin ts => rules'["filterOutput"] = rules["filterOutput"]
      BY <2>1 DEF Replayed, Held, TableOf, Chains
    <3> QED BY <3>1, <3>2 DEF KillLaid
  <2> QED BY <2>2, <2>3, <2>4, ReturnTraffic DEF AllGuarded, RedirectLaid
<1>6. CASE Unlink(p)
  <2>1. /\ Return(p, "stopped") /\ pc[p] = "unlink" /\ backup' \subseteq backup
        /\ UNCHANGED <<rules, promise>> /\ session' # "active"
    BY <1>6 DEF Unlink, StopPlaces, StopPCs
  <2> QED BY <2>1, ReturnTraffic DEF AllGuarded, KillLaid, RedirectLaid
<1> QED BY <1>1, <1>2, <1>3, <1>4, <1>5, <1>6 DEF Stop

\* Every step keeps the traffic invariant.
LEMMA StepTraffic == Sequential /\ TrafficInv /\ [Next]_vars => TrafficInv'
<1> SUFFICES ASSUME Sequential, TrafficInv, [Next]_vars PROVE TrafficInv'
  OBVIOUS
<1>0. TypeOK'
  BY StepType DEF TrafficInv
<1>1. ASSUME NEW p \in Procs, Start(p) \/ Stop(p) PROVE TrafficInv'
  BY <1>0, <1>1, StartTraffic, StopTraffic DEF TrafficInv
<1>2. ASSUME NEW p \in Procs, RefuseNonRoot(p) \/ Crash(p) PROVE TrafficInv'
  <2>1. PICK r : Return(p, r)
    BY <1>2 DEF RefuseNonRoot, Crash
  <2>2. UNCHANGED <<rules, backup, session, promise>>
    BY <1>2 DEF RefuseNonRoot, Crash, hostVars
  <2> QED BY <1>0, <2>1, <2>2, ReturnTraffic DEF TrafficInv, AllGuarded, KillLaid, RedirectLaid
<1>3. CASE Reboot
  <2>1. OneAtATime' /\ PrefixLaid' /\ KillLaid' /\ RedirectLaid' /\ StopPlaces'
    BY <1>3 DEF Reboot, OneAtATime, PrefixLaid, KillLaid, NoOptions, RedirectLaid, StopPlaces
  <2>2. AllGuarded'
    BY <1>3, GuardedOwn DEF Reboot, TrafficInv, AllGuarded
  <2> QED BY <1>0, <2>1, <2>2 DEF TrafficInv
<1>4. CASE UNCHANGED vars
  BY <1>0, <1>4 DEF vars, hostVars, procVars, TrafficInv, OneAtATime, AllGuarded,
                    PrefixLaid, Laid, KillLaid, RedirectLaid, StopPlaces
<1> QED BY <1>1, <1>2, <1>3, <1>4 DEF Next

\* A cleaning removes the backup, or lets it be.
LEMMA CleaningBackup ==
  CleaningStep => /\ backup' \subseteq backup
                  /\ UNCHANGED <<rules, loaded, procVars, session, promise, risked>>
BY DEF CleaningStep, CleanStep, CleanBegin, CleanSessionDir, OpenTemp, OpenFails, ScanEntry,
       ScanAborts, ScanEnds, CleanHomeDir, CleanEnd, TryRemove, Remove

\* A cleaning keeps the invariant of the traffic: at most the backup goes.
LEMMA CleaningTraffic == TrafficInv /\ CleaningStep => TrafficInv'
<1> SUFFICES ASSUME TrafficInv, CleaningStep PROVE TrafficInv'
  OBVIOUS
<1>1. /\ backup' \subseteq backup
      /\ UNCHANGED <<rules, loaded, pc, opt, step, held, ret, session, promise, risked>>
  BY CleaningBackup DEF procVars
<1>2. TypeOK'
  BY <1>1 DEF TrafficInv, TypeOK
<1> QED BY <1>1, <1>2 DEF TrafficInv, OneAtATime, AllGuarded, PrefixLaid, Laid, KillLaid,
                          RedirectLaid, StopPlaces

\* With one command at a time, the traffic invariant holds for ever.
THEOREM TrafficInvariant == ASSUME Sequential PROVE Spec => []TrafficInv
<1>1. TrafficInv /\ [Next]_vars => TrafficInv'
  BY StepTraffic
<1> QED BY <1>1, InitTraffic, PTL DEF Spec

\* So it does when a session is cleaned at any point of these commands.
LEMMA TrafficWithCleaning == ASSUME Sequential PROVE CSpec => []TrafficInv
<1>1. CInit => TrafficInv
  BY InitTraffic DEF CInit
<1>2. TrafficInv /\ [CNext]_allVars => TrafficInv'
  BY StepTraffic, CleaningTraffic DEF CNext, CommandStep, allVars
<1> QED BY <1>1, <1>2, PTL DEF CSpec

-----------------------------------------------------------------------------
(* What the invariant says of packets *)

\* In every state the invariant allows, no chain stops a packet of Tor's own.
LEMMA TorPasses == TrafficInv => TorReachesNetwork
<1> SUFFICES ASSUME TrafficInv, NEW p \in Packet, p.owner = "tor", Tcp(p),
                    p.dst \in {"lan", "internet"}
             PROVE  RouteOf(p) = "direct"
  BY DEF TorReachesNetwork
<1>1. /\ Guarded(NatOut, Redirects, "torReturn") /\ NatOut \in Seq(Rule)
      /\ Guarded(FilterOut, {"tcpReject"}, "torAccept") /\ FilterOut \in Seq(Rule)
  BY DEF TrafficInv, AllGuarded, GuardedRules, NatGuarded, FilterGuarded, TypeOK, Chains,
         NatOut, FilterOut
<1>2. p \in NatMatch("torReturn") /\ p \in FilterMatch("torAccept")
      /\ p \notin FilterMatch("dohReject")
  BY DEF NatMatch, FilterMatch, NatRules, FilterRules, NofindMatch
<1>3. ~NatTakes(NatOut, p, Redirects)
  <2>1. "torReturn" \notin Redirects
    BY DEF Redirects, ToTransPort, ToDNSPort
  <2> SUFFICES ASSUME NEW i \in DOMAIN NatOut, NatOut[i] \in Redirects,
                      \A j \in 1..(i - 1) :
                        p \in NatMatch(NatOut[j]) => NatOut[j] \in Redirects
               PROVE  FALSE
    BY DEF NatTakes, TakenBy
  <2>2. PICK j \in DOMAIN NatOut : j < i /\ NatOut[j] = "torReturn"
    BY <1>1 DEF Guarded
  <2> QED BY <1>1, <1>2, <2>1, <2>2
<1>4. ~Rejected(FilterOut, p)
  <2> SUFFICES ASSUME NEW i \in DOMAIN FilterOut, p \in FilterMatch(FilterOut[i]),
                      FilterOut[i] \in Rejects,
                      \A j \in 1..(i - 1) :
                        p \in FilterMatch(FilterOut[j]) => FilterOut[j] \in Rejects
               PROVE  FALSE
    BY DEF Rejected, TakenBy
  <2>1. FilterOut[i] = "tcpReject"
    BY <1>2 DEF Rejects
  <2>2. PICK j \in DOMAIN FilterOut : j < i /\ FilterOut[j] = "torAccept"
    BY <1>1, <2>1 DEF Guarded
  <2> QED BY <1>1, <1>2, <2>2 DEF Rejects
<1> QED BY <1>3, <1>4 DEF RouteOf, Route, AfterNat

\* The invariant implies the kill switch.
LEMMA KillHolds == TrafficInv => KillSwitchHolds
<1> SUFFICES ASSUME TrafficInv, promise.kill, NEW p \in Packet \ UserAccepts,
                    p.owner = "user", Tcp(p), p.dst # "loopback"
             PROVE  RouteOf(p) # "direct"
  BY DEF KillSwitchHolds
<1>1. CASE NatTakes(NatOut, p, Redirects)
  BY <1>1 DEF RouteOf, Route
<1>2. CASE ~NatTakes(NatOut, p, Redirects)
  <2>1. PICK i \in DOMAIN FilterOut : FilterOut[i] = "tcpReject"
    BY DEF TrafficInv, KillLaid, Has, FilterOut
  <2>2. \A r : p \in FilterMatch(r) => r \in Rejects
    BY DEF FilterMatch, FilterRules, NofindMatch, Rejects
  <2>3. p \in FilterMatch("tcpReject") /\ "tcpReject" \in Rejects
    BY DEF FilterMatch, FilterRules, NofindMatch, Rejects
  <2>4. Rejected(FilterOut, p)
    BY <2>1, <2>2, <2>3 DEF Rejected, TakenBy
  <2> QED BY <1>2, <2>4 DEF RouteOf, Route, AfterNat
<1> QED BY <1>1, <1>2

\* Of the places where a chain holds a rule, one is the first.
LEMMA FirstPlace ==
  ASSUME NEW chain \in Seq(Rule), NEW r, Has(chain, r)
  PROVE  \E i \in DOMAIN chain : chain[i] = r /\ \A j \in DOMAIN chain : j < i => chain[j] # r
<1> DEFINE T == {i \in DOMAIN chain : chain[i] = r}
<1>1. T \subseteq Nat /\ T # {}
  BY DEF Has
<1>2. PICK i \in T : \A j \in T : ~ (<<j, i>> \in OpToRel(<, Nat))
  BY <1>1, NatLessThanWellFounded, WFMin
<1>3. \A j \in T : ~(j < i)
  BY <1>1, <1>2 DEF OpToRel
<1> QED BY <1>3

\* The invariant implies that what should go through Tor does.
LEMMA AnonymousHolds == TrafficInv => Anonymous
<1> SUFFICES ASSUME TrafficInv, session = "active", NEW p \in Packet, p.owner = "user",
                    p.conn = "new", p.dst \in {"internet", "doh"}
             PROVE  /\ Tcp(p) => RouteOf(p) = "TransPort"
                    /\ Udp(p) /\ p.port = "dns" /\ promise.dns => RouteOf(p) = "DNSPort"
  BY DEF Anonymous
<1>1. /\ Guarded(NatOut, {"tcpDnsRedirect"}, "tcpRedirect") /\ NatOut \in Seq(Rule)
      /\ Guarded(FilterOut, {"tcpReject"}, "loopAccept") /\ FilterOut \in Seq(Rule)
  BY DEF TrafficInv, AllGuarded, GuardedRules, NatGuarded, FilterGuarded, TypeOK, Chains,
         NatOut, FilterOut
<1>2. /\ Has(NatOut, "tcpRedirect")
      /\ promise.dns => Has(NatOut, "udpDnsRedirect")
  BY DEF TrafficInv, RedirectLaid, NatOut
<1> DEFINE q == [p EXCEPT !.dst = "loopback", !.port = "other"]
<1>3. q \in Packet /\ q.dst = "loopback" /\ q.proto = p.proto /\ q.owner = "user"
  BY DEF Packet
<1>4. ~Rejected(FilterOut, q)
  <2>1. q \notin FilterMatch("dohReject") /\ q \in FilterMatch("loopAccept")
    BY <1>3 DEF FilterMatch, FilterRules, NofindMatch
  <2> HIDE DEF q
  <2> SUFFICES ASSUME NEW i \in DOMAIN FilterOut, q \in FilterMatch(FilterOut[i]),
                      FilterOut[i] \in Rejects,
                      \A j \in 1..(i - 1) :
                        q \in FilterMatch(FilterOut[j]) => FilterOut[j] \in Rejects
               PROVE  FALSE
    BY DEF Rejected, TakenBy
  <2>2. FilterOut[i] = "tcpReject"
    BY <2>1 DEF Rejects
  <2>3. PICK j \in DOMAIN FilterOut : j < i /\ FilterOut[j] = "loopAccept"
    BY <1>1, <2>2 DEF Guarded
  <2> QED BY <1>1, <2>1, <2>3 DEF Rejects
<1>5. ASSUME Tcp(p) PROVE RouteOf(p) = "TransPort"
  <2>1. \A r : p \in NatMatch(r) => r \in {"tcpRedirect", "tcpDnsRedirect"}
    BY <1>5 DEF NatMatch, NatRules, NofindMatch, Tcp, Udp
  <2>2. p \in NatMatch("tcpRedirect")
    BY <1>5 DEF NatMatch, NatRules, NofindMatch, Tcp
  <2>3. PICK i \in DOMAIN NatOut :
          /\ NatOut[i] = "tcpRedirect"
          /\ \A j \in DOMAIN NatOut : j < i => NatOut[j] # "tcpRedirect"
    BY <1>1, <1>2, FirstPlace
  <2>4. \A j \in 1..(i - 1) : j \in DOMAIN NatOut /\ j < i
    BY <1>1, <2>3
  <2>5. \A j \in 1..(i - 1) : p \notin NatMatch(NatOut[j])
    <3> SUFFICES ASSUME NEW j \in 1..(i - 1), NatOut[j] = "tcpDnsRedirect" PROVE FALSE
      BY <2>1, <2>3, <2>4
    <3>1. PICK k \in DOMAIN NatOut : k < j /\ NatOut[k] = "tcpRedirect"
      BY <1>1, <2>4 DEF Guarded
    <3>2. k < i
      BY <1>1, <2>3, <2>4, <3>1
    <3> QED BY <2>3, <3>1, <3>2
  <2>6. TakenBy(NatOut, p, NatMatch, ToTransPort) /\ TakenBy(NatOut, p, NatMatch, Redirects)
    BY <2>2, <2>3, <2>5 DEF TakenBy, Redirects, ToTransPort
  <2>7. NatTakes(NatOut, p, ToTransPort) /\ NatTakes(NatOut, p, Redirects)
    BY <2>6 DEF NatTakes
  <2> QED BY <1>4, <2>7 DEF RouteOf, Route, AfterNat
<1>6. ASSUME Udp(p), p.port = "dns", promise.dns PROVE RouteOf(p) = "DNSPort"
  <2>1. \A r : p \in NatMatch(r) => r = "udpDnsRedirect"
    BY <1>6 DEF NatMatch, NatRules, NofindMatch, Tcp, Udp
  <2>2. p \in NatMatch("udpDnsRedirect")
    BY <1>6 DEF NatMatch, NatRules, NofindMatch, Udp
  <2>3. PICK i \in DOMAIN NatOut : NatOut[i] = "udpDnsRedirect"
    BY <1>2, <1>6 DEF Has
  <2>4. NatTakes(NatOut, p, Redirects)
    BY <2>1, <2>2, <2>3 DEF NatTakes, TakenBy, Redirects, ToDNSPort
  <2>5. ~NatTakes(NatOut, p, ToTransPort)
    BY <2>1 DEF NatTakes, TakenBy, ToTransPort
  <2> QED BY <1>4, <2>4, <2>5 DEF RouteOf, Route, AfterNat
<1> QED BY <1>5, <1>6

\* Tor's own traffic always leaves the machine.
THEOREM TorAlwaysReachesNetwork == ASSUME Sequential PROVE Spec => []TorReachesNetwork
BY TorPasses, TrafficInvariant, PTL

\* The kill switch holds until a stop lifts it.
THEOREM KillSwitchAlwaysHolds == ASSUME Sequential PROVE Spec => []KillSwitchHolds
BY KillHolds, TrafficInvariant, PTL

\* Whatever came before it, a start that ended with Ok leaves no new connection
\* of the user's to the internet, and no DNS query it promised to take.
THEOREM AlwaysAnonymous == ASSUME Sequential PROVE Spec => []Anonymous
BY AnonymousHolds, TrafficInvariant, PTL

\* None of it depends on the backup: a session may be cleaned at any point, and
\* the removal of the backup that comes with it changes no packet's way.
THEOREM TrafficSurvivesCleaning ==
  ASSUME Sequential
  PROVE  CSpec => [](TorReachesNetwork /\ KillSwitchHolds /\ Anonymous)
BY TorPasses, KillHolds, AnonymousHolds, TrafficWithCleaning, PTL

-----------------------------------------------------------------------------
(***************************************************************************)
(* The local network, in the use the README describes: a start on top of   *)
(* another one would find the redirections of the first before its own     *)
(* exclusion, so that this is not to be had of any sequence of commands.   *)
(* A stop may be called at any time, and may lose rules of the user's; what *)
(* it never does is leave any of nofind's in force when the session ends.  *)
(***************************************************************************)

\* No rule of nofind's stands in the chains of f.
UserOnly(f) == \A c \in DOMAIN f : f[c] \in Seq(UserRules)

\* There is a backup, and it is about every chain.
WholeBackup == backup # {} /\ \A file \in backup : DOMAIN file = Chains

(***************************************************************************)
(* Whatever was lost: outside a session, in the backup and in what a start *)
(* has saved there are rules of the user's only, and as long as there are  *)
(* others in force the backup replaces every chain.                        *)
(***************************************************************************)
UsersInv ==
  /\ \A file \in backup : UserOnly(file)
  /\ \A p \in Procs : /\ UserOnly(held[p])
                      /\ pc[p] \in {"truncate", "fill"} => DOMAIN held[p] = Chains
                      /\ pc[p] = "append" => WholeBackup
  /\ session = "off" => UserOnly(rules)
  /\ UserOnly(rules) \/ WholeBackup

\* The user's own rules, a file that holds nothing, what is saved of rules of
\* the user's only, a part of a file of these, and its replay over them.
LEMMA UserOnlyFacts ==
  /\ UserOnly(Own) /\ UserOnly(EmptyFile)
  /\ \A file, ts : UserOnly(file) => UserOnly(Part(file, ts))
  /\ \A ts : UserOnly(rules) /\ DOMAIN rules = Chains => UserOnly(Saved(rules, ts))
  /\ \A file, ts : UserOnly(file) /\ UserOnly(rules) /\ DOMAIN rules = Chains
                     => UserOnly(Replayed(rules, file, ts))
  /\ \A file : UserOnly(file) /\ DOMAIN file = Chains
                     => UserOnly(Replayed(rules, file, Tables))
<1>1. UserOnly(Own)
  BY OwnAssumption DEF UserOnly
<1>2. UserOnly(EmptyFile)
  BY DEF UserOnly, EmptyFile
<1>3. \A file, ts : UserOnly(file) => UserOnly(Part(file, ts))
  BY DEF UserOnly, Part
<1>4. \A ts : UserOnly(rules) /\ DOMAIN rules = Chains => UserOnly(Saved(rules, ts))
  BY DEF UserOnly, Saved, Held
<1>5. \A file, ts : UserOnly(file) /\ UserOnly(rules) /\ DOMAIN rules = Chains
                       => UserOnly(Replayed(rules, file, ts))
  BY DEF UserOnly, Replayed
<1>6. \A file : UserOnly(file) /\ DOMAIN file = Chains
                       => UserOnly(Replayed(rules, file, Tables))
  BY ChainTables DEF UserOnly, Replayed
<1> QED BY <1>1, <1>2, <1>3, <1>4, <1>5, <1>6

\* A step after which no start holds a file: what is left is to say of the
\* backup and of the rules in force.
LEMMA UsersElsewhere ==
  ASSUME UsersInv, NEW p \in Procs, pc[p] # "idle" \/ AllIdle, UndoInv,
         NEW l \in PCs \ {"truncate", "fill", "append"}, pc' = [pc EXCEPT ![p] = l],
         \A q \in Procs : held'[q] \in {held[q], EmptyFile},
         \A file \in backup' : UserOnly(file),
         session' = "off" => UserOnly(rules)',
         UserOnly(rules)' \/ WholeBackup'
  PROVE  UsersInv'
<1>1. \A q \in Procs : pc'[q] = IF q = p THEN l ELSE "idle"
  BY DEF UndoInv, OneAtATime, TypeOK, AllIdle
<1>2. \A q \in Procs : UserOnly(held'[q])
  BY UserOnlyFacts DEF UsersInv
<1> QED BY <1>1, <1>2 DEF UsersInv

\* A command that ends holds no file any more.
LEMMA ReturnUsers ==
  ASSUME UsersInv, UndoInv, NEW p \in Procs, NEW r, Return(p, r),
         \/ pc[p] # "idle" /\ backup' \subseteq backup
         \/ UNCHANGED backup,
         session' = "off" => UserOnly(rules)',
         UserOnly(rules)' \/ WholeBackup'
  PROVE  UsersInv'
<1>1. \A q \in Procs : held'[q] \in {held[q], EmptyFile}
  BY DEF Return, UndoInv, TypeOK
<1>2. CASE pc[p] # "idle"
  <2>1. "idle" \in PCs \ {"truncate", "fill", "append"}
    BY DEF PCs
  <2> QED BY <1>1, <1>2, <2>1, UsersElsewhere DEF Return, UsersInv
<1>3. CASE pc[p] = "idle" /\ UNCHANGED backup
  <2>1. pc' = pc
    BY <1>3 DEF Return, UndoInv, TypeOK
  <2>2. \A q \in Procs : pc[q] # "idle" => held'[q] = held[q]
    BY <1>3 DEF Return, UndoInv, TypeOK
  <2>3. \A q \in Procs : UserOnly(held'[q])
    BY <1>1, UserOnlyFacts DEF UsersInv
  <2> QED BY <1>3, <2>1, <2>2, <2>3 DEF UsersInv, WholeBackup
<1> QED BY <1>2, <1>3

\* Every step of a start keeps the files the user's.
LEMMA StartUsers ==
  ASSUME DocumentedUse, UndoInv, UsersInv, NEW p \in Procs, Start(p)
  PROVE  UsersInv'
<1>0. /\ TypeOK /\ OneAtATime /\ TablesLoaded /\ PlaceInSession /\ Sequential
      /\ DOMAIN rules = Chains
  BY OperatorAssumption DEF UndoInv, DocumentedUse, TypeOK
<1>1. CASE StartProbe(p)
  <2>1. /\ pc' = [pc EXCEPT ![p] = "save"] /\ AllIdle
        /\ UNCHANGED <<rules, backup, session, held>>
    BY <1>0, <1>1 DEF StartProbe, Begin, hostVars
  <2>2. "save" \in PCs \ {"truncate", "fill", "append"}
    BY DEF PCs
  <2> QED BY <2>1, <2>2, UsersElsewhere DEF UsersInv, WholeBackup
<1>2. CASE SaveRules(p)
  <2>1. session = "off" /\ UserOnly(rules)
    BY <1>0, <1>2 DEF SaveRules, PlaceInSession, Outside, UsersInv
  <2>2. /\ held' = [held EXCEPT ![p] = Saved(rules, Tables)]
        /\ pc' = [pc EXCEPT ![p] = "truncate"]
        /\ UNCHANGED <<rules, backup, session>>
    BY <1>0, <1>2 DEF SaveRules, Goto, hostVars, MayFail, DocumentedUse, TablesLoaded
  <2>3. UserOnly(Saved(rules, Tables)) /\ DOMAIN Saved(rules, Tables) = Chains
    BY <1>0, <2>1, UserOnlyFacts, ChainTables DEF Saved
  <2>4. \A q \in Procs : /\ held'[q] = IF q = p THEN Saved(rules, Tables) ELSE held[q]
                         /\ pc'[q] = IF q = p THEN "truncate" ELSE pc[q]
    BY <1>0, <2>2 DEF TypeOK
  <2> QED BY <2>1, <2>2, <2>3, <2>4 DEF UsersInv, WholeBackup
<1>3. CASE SaveNotFound(p) \/ WriteFails(p) \/ AppendFails(p)
  <2>1. Return(p, "err") /\ UNCHANGED <<rules, backup, session>>
    BY <1>3 DEF SaveNotFound, WriteFails, AppendFails, hostVars
  <2> QED BY <2>1, ReturnUsers DEF UsersInv, WholeBackup
<1>4. CASE TruncateBackup(p) \/ FillPart(p) \/ FillBackup(p)
  <2>1. UserOnly(rules) /\ UNCHANGED <<rules, held>> /\ pc[p] \in {"truncate", "fill"}
    BY <1>0, <1>4 DEF TruncateBackup, FillPart, FillBackup, procVars, PlaceInSession,
                      Outside, UsersInv
  <2>2. \A q \in Procs : q # p => pc[q] = "idle"
    BY <1>0, <2>1 DEF OneAtATime
  <2>3. UserOnly(held[p]) /\ DOMAIN held[p] = Chains
    BY <2>1 DEF UsersInv
  <2>4. CASE TruncateBackup(p)
    <3>1. backup' = {EmptyFile} /\ pc' = [pc EXCEPT ![p] = "fill"]
      BY <2>4 DEF TruncateBackup, Goto
    <3>2. \A q \in Procs : pc'[q] = IF q = p THEN "fill" ELSE "idle"
      BY <1>0, <2>2, <3>1 DEF TypeOK
    <3> QED BY <2>1, <2>3, <3>1, <3>2, UserOnlyFacts DEF UsersInv
  <2>5. CASE FillPart(p)
    <3>1. (\A file \in backup' : UserOnly(file)) /\ pc' = pc
      BY <2>3, <2>5, UserOnlyFacts DEF FillPart, procVars
    <3>2. \A q \in Procs : pc[q] # "append"
      BY <2>1, <2>2
    <3> QED BY <2>1, <3>1, <3>2 DEF UsersInv
  <2>6. CASE FillBackup(p)
    <3>1. backup' = {held[p]} /\ pc' = [pc EXCEPT ![p] = "append"]
      BY <2>6 DEF FillBackup, Goto
    <3>2. \A q \in Procs : pc'[q] = IF q = p THEN "append" ELSE "idle"
      BY <1>0, <2>2, <3>1 DEF TypeOK
    <3>3. WholeBackup'
      BY <2>3, <3>1 DEF WholeBackup
    <3> QED BY <2>1, <2>3, <3>1, <3>2, <3>3 DEF UsersInv
  <2> QED BY <1>4, <2>4, <2>5, <2>6
<1>5. CASE AppendRule(p)
  <2>1. UNCHANGED <<backup, pc, held, session>> /\ session # "off" /\ WholeBackup
    BY <1>0, <1>5 DEF AppendRule, PlaceInSession, Inside, Outside, PCs, UsersInv
  <2> QED BY <2>1 DEF UsersInv, WholeBackup
<1>6. CASE AppendIgnored(p)
  BY <1>6 DEF AppendIgnored, hostVars, UsersInv, WholeBackup
<1>7. CASE Started(p)
  <2>1. Return(p, "started") /\ UNCHANGED <<rules, backup>> /\ session' = "active"
    BY <1>7 DEF Started, hostVars
  <2> QED BY <2>1, ReturnUsers DEF UsersInv, WholeBackup
<1> QED BY <1>1, <1>2, <1>3, <1>4, <1>5, <1>6, <1>7 DEF Start

\* Every step of a stop keeps them so, and what it restores is the user's.
LEMMA StopUsers ==
  ASSUME DocumentedUse, UndoInv, UsersInv, NEW p \in Procs, Stop(p)
  PROVE  UsersInv'
<1>0. /\ TypeOK /\ PlaceInSession /\ Sequential /\ DOMAIN rules = Chains
  BY OperatorAssumption DEF UndoInv, DocumentedUse, TypeOK
<1>1. {"flushNat", "flushPre", "flushFilter", "look", "restore", "unlink"}
        \subseteq PCs \ {"truncate", "fill", "append"}
  BY DEF PCs
<1>2. CASE StopBegin(p)
  <2>1. /\ pc' = [pc EXCEPT ![p] = "flushNat"] /\ AllIdle /\ session' = "stopping"
        /\ UNCHANGED <<rules, backup, held>>
    BY <1>0, <1>2 DEF StopBegin, Begin, hostVars
  <2> QED BY <1>1, <2>1, UsersElsewhere DEF UsersInv, WholeBackup
<1>3. CASE FlushNat(p) \/ FlushPre(p) \/ FlushPreIgnored(p) \/ FlushFilter(p)
           \/ FlushFilterIgnored(p) \/ LookForBackup(p)
  <2>1. /\ session # "off" /\ pc[p] # "idle" /\ UNCHANGED <<backup, session, held>>
    BY <1>0, <1>3 DEF FlushNat, FlushPre, FlushPreIgnored, FlushFilter, FlushFilterIgnored,
                      LookForBackup, PlaceInSession, Inside, Outside, PCs, hostVars
  <2>2. PICK l \in {"flushPre", "flushFilter", "look", "restore"} :
          pc' = [pc EXCEPT ![p] = l]
    BY <1>3 DEF FlushNat, FlushPre, FlushPreIgnored, FlushFilter, FlushFilterIgnored,
                LookForBackup, Goto
  <2>3. UserOnly(rules) => UserOnly(rules)'
    <3>1. \A c : UserOnly(rules) => UserOnly([rules EXCEPT ![c] = << >>])
      BY DEF UserOnly
    <3>2. rules' = rules \/ \E c : rules' = [rules EXCEPT ![c] = << >>]
      BY <1>3 DEF FlushNat, FlushPre, FlushPreIgnored, FlushFilter, FlushFilterIgnored,
                  LookForBackup, hostVars
    <3> QED BY <3>1, <3>2 DEF UserOnly
  <2> QED BY <1>1, <2>1, <2>2, <2>3, UsersElsewhere DEF UsersInv, WholeBackup
<1>4. CASE FlushNatFails(p) \/ RestoreMissing(p)
  <2>1. (\E r : Return(p, r)) /\ UNCHANGED <<rules, backup, session>>
    BY <1>4 DEF FlushNatFails, RestoreMissing, hostVars
  <2> QED BY <2>1, ReturnUsers DEF UsersInv, WholeBackup
<1>5. CASE NoBackup(p)
  <2>1. Return(p, "stopped") /\ UNCHANGED <<rules, backup>> /\ backup = {}
    BY <1>5 DEF NoBackup, hostVars
  <2>2. UserOnly(rules)
    BY <2>1 DEF UsersInv, WholeBackup
  <2> QED BY <2>1, <2>2, ReturnUsers
<1>6. CASE RestoreRules(p)
  <2>1. PICK file \in backup : rules' = Replayed(rules, file, Tables)
    BY <1>6 DEF RestoreRules
  <2>2. UserOnly(rules)'
    BY <1>0, <2>1, UserOnlyFacts DEF UsersInv, WholeBackup
  <2>3. pc[p] # "idle" /\ pc' = [pc EXCEPT ![p] = "unlink"] /\ UNCHANGED <<backup, held>>
    BY <1>6 DEF RestoreRules, Goto
  <2> QED BY <1>1, <2>2, <2>3, UsersElsewhere DEF UsersInv
<1>7. CASE RestoreFails(p)
  <2>1. PICK file \in backup : \E ts : rules' = Replayed(rules, file, ts)
    BY <1>7 DEF RestoreFails
  <2>2. /\ Return(p, "warned") /\ UNCHANGED <<backup, session>> /\ session # "off"
    BY <1>0, <1>7 DEF RestoreFails, PlaceInSession, Inside, Outside, PCs
  <2>3. UserOnly(rules) => UserOnly(rules)'
    BY <1>0, <2>1, UserOnlyFacts DEF UsersInv
  <2> QED BY <2>2, <2>3, ReturnUsers DEF UsersInv, WholeBackup
<1>8. CASE Unlink(p)
  <2>1. /\ Return(p, "stopped") /\ backup' \subseteq backup /\ UNCHANGED <<rules, session>>
        /\ pc[p] # "idle" /\ session = "off"
    BY <1>0, <1>8 DEF Unlink, PlaceInSession, Outside
  <2> QED BY <2>1, ReturnUsers DEF UsersInv
<1> QED BY <1>2, <1>3, <1>4, <1>5, <1>6, <1>7, <1>8 DEF Stop

\* Every step keeps the files and the rules outside a session the user's.
LEMMA StepUsers == DocumentedUse /\ UndoInv /\ UsersInv /\ [Next]_vars => UsersInv'
<1> SUFFICES ASSUME DocumentedUse, UndoInv, UsersInv, [Next]_vars PROVE UsersInv'
  OBVIOUS
<1>1. ASSUME NEW p \in Procs, Start(p) \/ Stop(p) PROVE UsersInv'
  BY <1>1, StartUsers, StopUsers
<1>2. ASSUME NEW p \in Procs, RefuseNonRoot(p) \/ Crash(p) PROVE UsersInv'
  <2>1. (\E r : Return(p, r)) /\ UNCHANGED <<rules, backup, session>>
    BY <1>2 DEF RefuseNonRoot, Crash, hostVars
  <2> QED BY <2>1, ReturnUsers DEF UsersInv, WholeBackup
<1>3. CASE Reboot
  BY <1>3, UserOnlyFacts DEF Reboot, UsersInv
<1>4. CASE UNCHANGED vars
  BY <1>4 DEF vars, hostVars, procVars, UsersInv, WholeBackup
<1> QED BY <1>1, <1>2, <1>3, <1>4 DEF Next

\* The rules in force leave the local network alone as the options o ask.
Excluded(o) ==
  /\ o.lan => Guarded(rules["natOutput"], Redirects, "lanReturn")
  /\ ~o.kill => ~Has(rules["filterOutput"], "tcpReject")

LanInv ==
  /\ \A p \in Procs : pc[p] = "append" => Excluded(opt[p]) /\ session = "saved"
  /\ session = "active" => Excluded(promise)

\* The plan of a start excludes the local network before it redirects, and
\* rejects nothing but the DNS-over-HTTPS providers without the kill switch.
LEMMA PlanLan ==
  ASSUME NEW o \in Options
  PROVE  /\ o.lan => Guarded(Plan(o), Redirects, "lanReturn")
         /\ ~o.kill => ~Has(Plan(o), "tcpReject")
<1> DEFINE pre  == <<"torReturn", "loopReturn">>
           lan  == IF o.lan THEN <<"lanReturn">> ELSE << >>
           tcp  == <<"tcpRedirect">>
           dns  == IF o.dns THEN <<"udpDnsRedirect", "tcpDnsRedirect">> ELSE << >>
           doh  == <<"dohReject">>
           kill == KillPlan(o)
           First(t) == Guarded(t, Redirects, "lanReturn") /\ Has(t, "lanReturn")
<1>0. << >> \in Seq(Rule) /\ DOMAIN << >> = {}
  OBVIOUS
<1>1. pre \in Seq(Rule) /\ tcp \in Seq(Rule) /\ doh \in Seq(Rule)
  BY DEF Rule, NofindRules, NatRules, FilterRules
<1>2. /\ lan \in Seq(Rule) /\ (o.lan => Has(lan, "lanReturn")) /\ ~Has(lan, "tcpReject")
      /\ Guarded(lan, Redirects, "lanReturn")
  <2>1. <<"lanReturn">> \in Seq(Rule)
    BY DEF Rule, NofindRules, NatRules
  <2>2. <<"lanReturn">>[1] = "lanReturn" /\ DOMAIN <<"lanReturn">> = {1}
    OBVIOUS
  <2> QED BY <1>0, <2>1, <2>2 DEF Has, Guarded, Redirects, ToTransPort, ToDNSPort
<1>3. dns \in Seq(Rule) /\ ~Has(dns, "tcpReject")
  <2> DEFINE two == <<"udpDnsRedirect", "tcpDnsRedirect">>
  <2>1. two \in Seq(Rule)
    BY DEF Rule, NofindRules, NatRules
  <2>2. two[1] = "udpDnsRedirect" /\ two[2] = "tcpDnsRedirect" /\ DOMAIN two = 1..2
    OBVIOUS
  <2>3. dns = IF o.dns THEN two ELSE << >>
    OBVIOUS
  <2> HIDE DEF two, dns
  <2> QED BY <1>0, <2>1, <2>2, <2>3 DEF Has
<1>4. kill \in Seq(Rule) /\ (~o.kill => kill = << >>)
  <2>1. <<"torAccept", "loopAccept", "tcpReject">> \in Seq(Rule)
    BY DEF Rule, NofindRules, FilterRules
  <2> QED BY <1>0, <2>1 DEF KillPlan
<1>5. /\ Guarded(pre, Redirects, "lanReturn")
      /\ ~Has(pre, "tcpReject") /\ ~Has(tcp, "tcpReject") /\ ~Has(doh, "tcpReject")
  <2>1. /\ pre[1] = "torReturn" /\ pre[2] = "loopReturn" /\ DOMAIN pre = 1..2
        /\ tcp[1] = "tcpRedirect" /\ DOMAIN tcp = {1}
        /\ doh[1] = "dohReject" /\ DOMAIN doh = {1}
    OBVIOUS
  <2> QED BY <2>1 DEF Guarded, Has, Redirects, ToTransPort, ToDNSPort
<1>6. Plan(o) = pre \o lan \o tcp \o dns \o doh \o kill
  BY DEF Plan, NatPlan
<1> HIDE DEF pre, lan, tcp, dns, doh, kill
<1>7. pre \o lan \in Seq(Rule) /\ pre \o lan \o tcp \in Seq(Rule)
      /\ pre \o lan \o tcp \o dns \in Seq(Rule) /\ pre \o lan \o tcp \o dns \o doh \in Seq(Rule)
  BY <1>1, <1>2, <1>3, ConcatElements
<1>8. o.lan => First(pre \o lan)
  BY <1>1, <1>2, <1>5, HasConcat, GuardedConcat
<1>9. ASSUME NEW s \in Seq(Rule), NEW t \in Seq(Rule), First(s) PROVE First(s \o t)
  BY <1>9, HasConcat, GuardedConcat
<1>10. o.lan => First(pre \o lan \o tcp \o dns \o doh \o kill)
  BY <1>1, <1>3, <1>4, <1>7, <1>8, <1>9
<1>11. ~o.kill => ~Has(pre \o lan \o tcp \o dns \o doh \o kill, "tcpReject")
  <2>1. ~Has(pre \o lan \o tcp \o dns \o doh, "tcpReject")
    BY <1>1, <1>2, <1>3, <1>5, <1>7, HasConcat
  <2>2. ~Has(<< >>, "tcpReject")
    BY <1>0 DEF Has
  <2> QED BY <1>4, <1>7, <2>1, <2>2, HasConcat
<1> QED BY <1>6, <1>10, <1>11

\* Rules of the user's redirect nothing and reject nothing.
LEMMA UsersExclude ==
  ASSUME NEW o, DOMAIN rules = Chains, UserOnly(rules) PROVE Excluded(o)
<1>1. \A c \in Chains : \A i \in DOMAIN rules[c] : rules[c][i] \in UserRules
  BY DEF UserOnly
<1>2. (Redirects \cup {"tcpReject"}) \cap UserRules = {}
  BY UserRulesAssumption
  DEF Redirects, ToTransPort, ToDNSPort, NofindRules, NatRules, FilterRules
<1> QED BY <1>1, <1>2 DEF Excluded, Guarded, Has, Chains

\* The rule that a start appends keeps the exclusion it runs with.
LEMMA AppendLan ==
  ASSUME TrafficInv, LanInv, NEW p \in Procs, AppendRule(p)
  PROVE  LanInv'
<1> DEFINE x == NextRule(p)
           c == ChainOf(x)
           o == opt[p]
<1>0. TypeOK /\ o \in Options /\ step[p] \in Nat \ {0} /\ pc[p] = "append" /\ Excluded(o)
  BY DEF TrafficInv, TypeOK, AppendRule, LanInv
<1>1. Plan(o) \in Seq(NofindRules) /\ step[p] \in DOMAIN Plan(o)
  BY <1>0, PlanType DEF AppendRule, Planned
<1>2. x \in Rule /\ x = Plan(o)[step[p]]
  BY <1>0, NextRuleType DEF AppendRule, Rule, NextRule
<1>3. c \in Chains /\ rules \in [Chains -> Seq(Rule)]
      /\ rules' = [rules EXCEPT ![c] = Append(rules[c], x)]
  BY <1>0, <1>2, ChainTables DEF AppendRule, TypeOK
<1>4. UNCHANGED <<pc, opt, session, promise>> /\ \A q \in Procs : pc[q] = "append" => q = p
  BY <1>0 DEF AppendRule, TrafficInv, OneAtATime
<1>5. session = "saved"
  BY <1>0 DEF LanInv
<1>6. o.lan /\ x \in Redirects => Has(rules["natOutput"], "lanReturn")
  <2> SUFFICES ASSUME o.lan, x \in Redirects PROVE Has(rules["natOutput"], "lanReturn")
    OBVIOUS
  <2>1. Guarded(Plan(o), Redirects, "lanReturn")
    BY <1>0, PlanLan
  <2>2. PICK j \in DOMAIN Plan(o) : j < step[p] /\ Plan(o)[j] = "lanReturn"
    BY <1>1, <1>2, <2>1 DEF Guarded
  <2>3. Laid(p, j)
    BY <1>0, <2>2 DEF TrafficInv, PrefixLaid
  <2> QED BY <2>2, <2>3 DEF Laid, Tolerated, ChainOf, NatRules
<1>7. ~o.kill => x # "tcpReject"
  BY <1>0, <1>1, <1>2, PlanLan DEF Has
<1>8. Excluded(o)'
  <2> HIDE DEF x, c, o
  <2>0. rules["natOutput"] \in Seq(Rule) /\ rules["filterOutput"] \in Seq(Rule)
    BY <1>3 DEF Chains
  <2>1. o' = o
    BY <1>4 DEF o
  <2>2. o.lan => Guarded(rules'["natOutput"], Redirects, "lanReturn")
    <3>1. CASE c = "natOutput"
      BY <1>0, <1>2, <1>3, <1>6, <2>0, <3>1, GuardedAppend DEF Excluded
    <3>2. CASE c # "natOutput"
      BY <1>0, <1>3, <3>2 DEF Excluded, Chains
    <3> QED BY <3>1, <3>2
  <2>3. ~o.kill => ~Has(rules'["filterOutput"], "tcpReject")
    <3>1. CASE c = "filterOutput"
      <4>1. rules'["filterOutput"] = Append(rules["filterOutput"], x)
        BY <1>3, <3>1
      <4>2. \A i \in DOMAIN Append(rules["filterOutput"], x) :
              \/ Append(rules["filterOutput"], x)[i] = x
              \/ /\ i \in DOMAIN rules["filterOutput"]
                 /\ Append(rules["filterOutput"], x)[i] = rules["filterOutput"][i]
        BY <1>2, <2>0
      <4> QED BY <1>0, <1>7, <4>1, <4>2 DEF Excluded, Has
    <3>2. CASE c # "filterOutput"
      BY <1>0, <1>3, <3>2 DEF Excluded, Chains
    <3> QED BY <3>1, <3>2
  <2> QED BY <2>1, <2>2, <2>3 DEF Excluded
<1> QED BY <1>4, <1>5, <1>8 DEF LanInv

\* A step after which no start appends and no session is active.
LEMMA NoneLan ==
  ASSUME \A p \in Procs : pc'[p] # "append", session' # "active"
  PROVE  LanInv'
BY DEF LanInv

\* A step that leaves the rules, and takes no command to a first rule.
LEMMA SameLan ==
  ASSUME LanInv, UNCHANGED <<rules, promise>>,
         \A p \in Procs : pc'[p] = "append" => /\ pc[p] = "append" /\ opt'[p] = opt[p]
                                             /\ session' = session,
         session' = session
  PROVE  LanInv'
BY DEF LanInv, Excluded

\* Every step of a command keeps the invariant of the local network.
LEMMA StepLan ==
  ASSUME DocumentedUse, UndoInv, UsersInv, TrafficInv, LanInv, [Next]_vars
  PROVE  LanInv'
<1>0. TypeOK /\ OneAtATime /\ StopPlaces
  BY DEF TrafficInv
<1>1. ASSUME NEW p \in Procs, Start(p) PROVE LanInv'
  <2>1. CASE StartProbe(p) \/ SaveRules(p) \/ TruncateBackup(p)
    <3>1. (\A q \in Procs : pc'[q] # "append") /\ UNCHANGED <<rules, session, promise>>
      <4>1. PICK l \in {"save", "truncate", "fill"} :
              pc' = [pc EXCEPT ![p] = l] /\ UNCHANGED <<rules, session, promise>>
        BY <2>1 DEF StartProbe, Begin, SaveRules, TruncateBackup, Goto, hostVars
      <4>2. pc[p] # "idle" \/ AllIdle
        BY <2>1, OperatorAssumption
        DEF StartProbe, Begin, SaveRules, TruncateBackup, DocumentedUse
      <4>3. \A q \in Procs : pc'[q] = IF q = p THEN l ELSE "idle"
        BY <1>0, <4>1, <4>2, Mover
      <4> QED BY <4>1, <4>3
    <3> QED BY <3>1, SameLan
  <2>2. CASE SaveNotFound(p) \/ WriteFails(p) \/ AppendFails(p)
    <3>1. (\A q \in Procs : pc'[q] # "append") /\ UNCHANGED <<rules, session, promise>>
      BY <1>0, <2>2 DEF SaveNotFound, WriteFails, AppendFails, Return, hostVars, TypeOK, OneAtATime
    <3> QED BY <3>1, SameLan
  <2>3. CASE FillBackup(p)
    <3>1. UserOnly(rules) /\ DOMAIN rules = Chains
      BY <1>0, <2>3 DEF FillBackup, UndoInv, PlaceInSession, Outside, UsersInv, TypeOK
    <3>2. /\ rules' = rules /\ opt' = opt /\ session' = "saved"
      BY <2>3 DEF FillBackup
    <3>3. ASSUME NEW q \in Procs PROVE Excluded(opt[q])'
      BY <3>1, <3>2, UsersExclude DEF Excluded
    <3> QED BY <3>2, <3>3 DEF LanInv
  <2>3a. CASE FillPart(p)
    BY <2>3a, SameLan DEF FillPart, procVars
  <2>4. CASE AppendRule(p)
    BY <2>4, AppendLan
  <2>5. CASE AppendIgnored(p)
    BY <2>5, SameLan DEF AppendIgnored, hostVars
  <2>6. CASE Started(p)
    <3>1. /\ Excluded(opt[p]) /\ rules' = rules /\ promise' = opt[p]
          /\ \A q \in Procs : pc'[q] # "append"
      BY <1>0, <2>6 DEF Started, Return, hostVars, LanInv, OneAtATime, TypeOK
    <3> QED BY <3>1 DEF LanInv, Excluded
  <2> QED BY <1>1, <2>1, <2>2, <2>3, <2>3a, <2>4, <2>5, <2>6 DEF Start
<1>2. ASSUME NEW p \in Procs, Stop(p) PROVE LanInv'
  <2>1. CASE StopBegin(p)
    <3>1. AllIdle /\ pc' = [pc EXCEPT ![p] = "flushNat"] /\ session' # "active"
      BY <2>1, OperatorAssumption DEF StopBegin, Begin, DocumentedUse
    <3> QED BY <1>0, <3>1, NoneLan DEF TypeOK, AllIdle
  <2>2. CASE ~StopBegin(p)
    <3>1. pc[p] \in StopPCs /\ (session' = session \/ session' = "off")
      BY <1>2, <2>2
      DEF Stop, FlushNat, FlushNatFails, FlushPre, FlushPreIgnored, FlushFilter,
          FlushFilterIgnored, LookForBackup, NoBackup, RestoreRules, RestoreFails,
          RestoreMissing, Unlink, StopPCs
    <3>2. PICK l \in PCs \ {"append"} : pc' = [pc EXCEPT ![p] = l]
      BY <1>2, <2>2
      DEF Stop, FlushNat, FlushNatFails, FlushPre, FlushPreIgnored, FlushFilter,
          FlushFilterIgnored, LookForBackup, NoBackup, RestoreRules, RestoreFails,
          RestoreMissing, Unlink, Goto, Return, PCs
    <3>3. \A q \in Procs : pc'[q] # "append"
      BY <1>0, <3>1, <3>2 DEF OneAtATime, TypeOK, StopPCs
    <3> QED BY <1>0, <3>1, <3>3, NoneLan DEF StopPlaces
  <2> QED BY <2>1, <2>2
<1>3. ASSUME NEW p \in Procs, RefuseNonRoot(p) \/ Crash(p) PROVE LanInv'
  <2>1. \A q \in Procs : pc'[q] = "append" => pc[q] = "append" /\ opt'[q] = opt[q]
    BY <1>0, <1>3 DEF RefuseNonRoot, Crash, Return, TypeOK
  <2> QED BY <1>3, <2>1, SameLan DEF RefuseNonRoot, Crash, hostVars
<1>4. CASE Reboot
  BY <1>4, NoneLan DEF Reboot
<1>5. CASE UNCHANGED vars
  BY <1>5, SameLan DEF vars, hostVars, procVars
<1> QED BY <1>1, <1>2, <1>3, <1>4, <1>5 DEF Next

\* The two invariants imply that the local network is left alone.
LEMMA LanHolds == TrafficInv /\ LanInv => LanExcluded
<1> SUFFICES ASSUME TrafficInv, LanInv, session = "active", promise.lan, ~promise.kill,
                    NEW p \in Packet, p.dst = "lan"
             PROVE  RouteOf(p) = "direct"
  BY DEF LanExcluded
<1>1. /\ Guarded(NatOut, Redirects, "lanReturn") /\ NatOut \in Seq(Rule)
      /\ ~Has(FilterOut, "tcpReject")
  BY DEF LanInv, Excluded, TrafficInv, TypeOK, Chains, NatOut, FilterOut
<1>2. p \in NatMatch("lanReturn") /\ p \notin FilterMatch("dohReject")
      /\ "lanReturn" \notin Redirects
  BY DEF NatMatch, FilterMatch, NatRules, FilterRules, NofindMatch, Redirects, ToTransPort,
         ToDNSPort
<1>3. ~NatTakes(NatOut, p, Redirects)
  <2> SUFFICES ASSUME NEW i \in DOMAIN NatOut, NatOut[i] \in Redirects,
                      \A j \in 1..(i - 1) :
                        p \in NatMatch(NatOut[j]) => NatOut[j] \in Redirects
               PROVE  FALSE
    BY DEF NatTakes, TakenBy
  <2>1. PICK j \in DOMAIN NatOut : j < i /\ NatOut[j] = "lanReturn"
    BY <1>1 DEF Guarded
  <2> QED BY <1>1, <1>2, <2>1
<1>4. ~Rejected(FilterOut, p)
  BY <1>1, <1>2 DEF Rejected, TakenBy, Rejects, Has
<1> QED BY <1>3, <1>4 DEF RouteOf, Route, AfterNat

\* With --local-network the local network is left alone as long as the operator
\* follows the README, whatever fails and wherever a command is killed.
THEOREM LanAlwaysExcluded == ASSUME DocumentedUse PROVE Spec => []LanExcluded
<1>1. Sequential
  BY OperatorAssumption DEF DocumentedUse
<1>2. Init => LanInv
  BY DEF Init, LanInv
<1>3. UndoInv /\ UsersInv /\ TrafficInv /\ LanInv /\ [Next]_vars => LanInv'
  BY StepLan
<1>4. Init => UsersInv
  BY UserOnlyFacts DEF Init, HostInit, UsersInv
<1>5. UndoInv /\ UsersInv /\ [Next]_vars => UsersInv'
  BY StepUsers
<1> QED BY <1>1, <1>2, <1>3, <1>4, <1>5, LanHolds, UndoInvariant, TrafficInvariant, PTL DEF Spec

-----------------------------------------------------------------------------
(***************************************************************************)
(* What survives any number of commands running at the same time: proved   *)
(* for every set of commands, of faults and of the user's rules.           *)
(***************************************************************************)

\* What the command line does: a stop is given the default configuration.
NoStopLifts == TRUE \notin StopKill

Keeps(chain) == StartsWith(chain, Own["filterOutput"])

\* A file that is about the filter table keeps the user's rules at its head.
Faithful(file) == "filterOutput" \in DOMAIN file => Keeps(file["filterOutput"])

(***************************************************************************)
(* The strengthening of UserFilterKept: whatever a restore may replay, now *)
(* in the backup file or still in the memory of some start, keeps the      *)
(* user's filter rules too; and no stop is on its way to flush the table.  *)
(***************************************************************************)
BackupFaithful == \A file \in backup : Faithful(file)
HeldFaithful   == \A p \in Procs : Faithful(held[p])
StopsKeepFilter ==
  \A p \in Procs : /\ pc[p] # "flushFilter"
                   /\ pc[p] \in {"flushNat", "flushPre"} => opt[p].kill = FALSE

RaceInv == /\ TypeOK
           /\ UserFilterKept
           /\ BackupFaithful
           /\ HeldFaithful
           /\ StopsKeepFilter

-----------------------------------------------------------------------------
(* The operations on chains *)

\* The user's own filter rules are a sequence.
LEMMA OwnFilter == Own["filterOutput"] \in Seq(UserRules)
BY OwnAssumption DEF Chains

\* The user's own chain begins with itself, and an empty file says nothing.
LEMMA OwnKept == Keeps(Own["filterOutput"]) /\ Faithful(EmptyFile)
BY OwnFilter DEF Keeps, StartsWith, Faithful, EmptyFile

\* A rule appended to a chain leaves its head as it was.
LEMMA AppendKeeps ==
  ASSUME NEW chain \in Seq(Rule), NEW r \in Rule, Keeps(chain)
  PROVE  Keeps(Append(chain, r))
<1> DEFINE own == Own["filterOutput"]
<1>1. Len(own) \in Nat /\ Len(own) <= Len(chain)
  BY OwnFilter DEF Keeps, StartsWith
<1>2. ASSUME NEW i \in 1..Len(own) PROVE Append(chain, r)[i] = own[i]
  BY <1>1, <1>2 DEF Keeps, StartsWith
<1> QED BY <1>1, <1>2 DEF Keeps, StartsWith

\* What iptables-save prints is as faithful as the chain it prints.
LEMMA SavedFaithful ==
  ASSUME UserFilterKept, NEW ts
  PROVE  Faithful(Saved(rules, ts))
BY DEF UserFilterKept, FilterOut, Keeps, Faithful, Saved

\* So is a part of a faithful file.
LEMMA PartFaithful ==
  ASSUME NEW file, Faithful(file), NEW ts
  PROVE  Faithful(Part(file, ts))
BY DEF Faithful, Part

\* A replay of a faithful file keeps the user's filter rules.
LEMMA ReplayKeeps ==
  ASSUME UserFilterKept, NEW file, Faithful(file), NEW ts
  PROVE  Keeps(Replayed(rules, file, ts)["filterOutput"])
BY DEF UserFilterKept, FilterOut, Keeps, Faithful, Replayed, Chains

-----------------------------------------------------------------------------
(* The invariant *)

\* The invariant holds at first.
LEMMA InitRace == Init => RaceInv
<1> SUFFICES ASSUME Init PROVE RaceInv
  OBVIOUS
<1>1. UserFilterKept /\ BackupFaithful
  BY OwnKept DEF Init, HostInit, UserFilterKept, FilterOut, Keeps, BackupFaithful
<1>2. HeldFaithful /\ StopsKeepFilter
  BY OwnKept DEF Init, HeldFaithful, StopsKeepFilter
<1> QED BY <1>1, <1>2, InitType DEF RaceInv

\* A command that ends keeps nothing in memory and is on its way nowhere.
LEMMA ReturnRace ==
  ASSUME RaceInv, NEW p \in Procs, NEW r, Return(p, r)
  PROVE  HeldFaithful' /\ StopsKeepFilter'
BY OwnKept DEF RaceInv, TypeOK, Return, HeldFaithful, StopsKeepFilter, Faithful

\* A step that leaves the filter chain alone keeps the user's filter rules.
LEMMA SameFilter ==
  ASSUME UserFilterKept, rules'["filterOutput"] = rules["filterOutput"]
  PROVE  UserFilterKept'
BY DEF UserFilterKept, FilterOut, StartsWith

\* Every step of a start keeps the invariant.
LEMMA StartRace ==
  ASSUME RaceInv, TypeOK', NEW p \in Procs, Start(p)
  PROVE  RaceInv'
<1> USE DEF RaceInv
<1>1. CASE StartProbe(p)
  BY <1>1, SameFilter DEF StartProbe, Begin, hostVars, TypeOK, BackupFaithful,
                          HeldFaithful, StopsKeepFilter, Faithful
<1>2. CASE SaveRules(p)
  <2>1. Faithful(Saved(rules, loaded)) /\ Faithful(EmptyFile)
    BY SavedFaithful, OwnKept
  <2>2. PICK out : Faithful(out) /\ held' = [held EXCEPT ![p] = out]
    BY <1>2, <2>1 DEF SaveRules
  <2>3. HeldFaithful'
    BY <2>2 DEF HeldFaithful, Faithful, TypeOK
  <2>4. UserFilterKept' /\ BackupFaithful'
    BY <1>2, SameFilter DEF SaveRules, hostVars, BackupFaithful
  <2>5. StopsKeepFilter'
    BY <1>2 DEF SaveRules, Goto, StopsKeepFilter, TypeOK
  <2> QED BY <2>3, <2>4, <2>5
<1>3. CASE SaveNotFound(p) \/ WriteFails(p) \/ AppendFails(p)
  <2>1. Return(p, "err") /\ UNCHANGED hostVars
    BY <1>3 DEF SaveNotFound, WriteFails, AppendFails
  <2>2. UserFilterKept' /\ BackupFaithful'
    BY <2>1, SameFilter DEF hostVars, BackupFaithful
  <2> QED BY <2>1, <2>2, ReturnRace
<1>4. CASE TruncateBackup(p)
  <2>1. BackupFaithful'
    BY <1>4, OwnKept DEF TruncateBackup, BackupFaithful
  <2> QED BY <1>4, <2>1, SameFilter DEF TruncateBackup, Goto, HeldFaithful,
                                        StopsKeepFilter, TypeOK
<1>5. CASE FillBackup(p)
  <2>1. BackupFaithful'
    BY <1>5 DEF FillBackup, BackupFaithful, HeldFaithful
  <2> QED BY <1>5, <2>1, SameFilter DEF FillBackup, Goto, HeldFaithful,
                                        StopsKeepFilter, TypeOK
<1>5a. CASE FillPart(p)
  <2>1. BackupFaithful'
    BY <1>5a, PartFaithful DEF FillPart, BackupFaithful, HeldFaithful
  <2> QED BY <1>5a, <2>1, SameFilter DEF FillPart, procVars, HeldFaithful, StopsKeepFilter
<1>6. CASE AppendRule(p)
  <2> DEFINE c == ChainOf(NextRule(p))
  <2>1. NextRule(p) \in Rule
    BY <1>6, NextRuleType DEF AppendRule, Rule
  <2>2. c \in Chains /\ rules["filterOutput"] \in Seq(Rule)
    BY <2>1, ChainTables DEF TypeOK, Chains
  <2>3. rules' = [rules EXCEPT ![c] = Append(rules[c], NextRule(p))]
    BY <1>6, <2>2 DEF AppendRule, TypeOK
  <2>4. \/ rules'["filterOutput"] = rules["filterOutput"]
        \/ rules'["filterOutput"] = Append(rules["filterOutput"], NextRule(p))
    <3> HIDE DEF c
    <3> QED BY <2>2, <2>3 DEF TypeOK, Chains
  <2>5. Keeps(Append(rules["filterOutput"], NextRule(p)))
    BY <2>1, <2>2, AppendKeeps DEF UserFilterKept, FilterOut, Keeps
  <2>6. UserFilterKept'
    BY <2>4, <2>5, SameFilter DEF UserFilterKept, FilterOut, Keeps
  <2> QED BY <1>6, <2>6 DEF AppendRule, BackupFaithful, HeldFaithful, StopsKeepFilter
<1>7. CASE AppendIgnored(p)
  BY <1>7, SameFilter DEF AppendIgnored, hostVars, BackupFaithful, HeldFaithful,
                          StopsKeepFilter
<1>8. CASE Started(p)
  <2>1. Return(p, "started") /\ UNCHANGED hostVars
    BY <1>8 DEF Started
  <2>2. UserFilterKept' /\ BackupFaithful'
    BY <2>1, SameFilter DEF hostVars, BackupFaithful
  <2> QED BY <2>1, <2>2, ReturnRace
<1> QED BY <1>1, <1>2, <1>3, <1>4, <1>5, <1>5a, <1>6, <1>7, <1>8 DEF Start

\* Every step of a stop keeps the invariant.
LEMMA StopRace ==
  ASSUME NoStopLifts, RaceInv, TypeOK', NEW p \in Procs, Stop(p)
  PROVE  RaceInv'
<1> USE DEF RaceInv
<1>1. CASE StopBegin(p)
  <2>1. PICK kill \in StopKill :
          Begin(p, "flushNat", [NoOptions EXCEPT !.kill = kill])
    BY <1>1 DEF StopBegin
  <2>2. [NoOptions EXCEPT !.kill = kill].kill = FALSE
    BY OptionsAssumption DEF NoStopLifts, NoOptions
  <2>3. StopsKeepFilter'
    BY <2>1, <2>2 DEF Begin, StopsKeepFilter, TypeOK
  <2>4. HeldFaithful'
    BY <2>1 DEF Begin, HeldFaithful
  <2> QED BY <1>1, <2>3, <2>4, SameFilter DEF StopBegin, hostVars, BackupFaithful
<1>2. CASE FlushNat(p) \/ FlushPre(p)
  <2>1. rules'["filterOutput"] = rules["filterOutput"]
    BY <1>2 DEF FlushNat, FlushPre, TypeOK, Chains
  <2>2. StopsKeepFilter'
    BY <1>2 DEF FlushNat, FlushPre, Goto, StopsKeepFilter, TypeOK
  <2> QED BY <1>2, <2>1, <2>2, SameFilter DEF FlushNat, FlushPre, BackupFaithful,
                                              HeldFaithful
<1>3. CASE FlushNatFails(p) \/ NoBackup(p) \/ RestoreMissing(p)
  <2>1. (\E r : Return(p, r)) /\ UNCHANGED hostVars
    BY <1>3 DEF FlushNatFails, NoBackup, RestoreMissing
  <2>2. UserFilterKept' /\ BackupFaithful'
    BY <2>1, SameFilter DEF hostVars, BackupFaithful
  <2> QED BY <2>1, <2>2, ReturnRace
<1>4. CASE FlushPreIgnored(p) \/ LookForBackup(p)
  <2>1. StopsKeepFilter'
    BY <1>4 DEF FlushPreIgnored, LookForBackup, Goto, StopsKeepFilter, TypeOK
  <2> QED BY <1>4, <2>1, SameFilter DEF FlushPreIgnored, LookForBackup, hostVars,
                                        BackupFaithful, HeldFaithful
<1>5. ~FlushFilter(p) /\ ~FlushFilterIgnored(p)
  BY DEF FlushFilter, FlushFilterIgnored, StopsKeepFilter
<1>6. CASE RestoreRules(p) \/ RestoreFails(p)
  <2>1. PICK file \in backup : \E ts : rules' = Replayed(rules, file, ts)
    BY <1>6 DEF RestoreRules, RestoreFails
  <2>2. UserFilterKept'
    BY <2>1, ReplayKeeps DEF BackupFaithful, UserFilterKept, FilterOut, Keeps
  <2>3. HeldFaithful' /\ StopsKeepFilter'
    <3>1. CASE RestoreRules(p)
      BY <3>1 DEF RestoreRules, Goto, HeldFaithful, StopsKeepFilter, TypeOK
    <3>2. CASE RestoreFails(p)
      BY <3>2, ReturnRace DEF RestoreFails
    <3> QED BY <1>6, <3>1, <3>2
  <2>4. BackupFaithful'
    BY <1>6 DEF RestoreRules, RestoreFails, BackupFaithful
  <2> QED BY <2>2, <2>3, <2>4
<1>7. CASE Unlink(p)
  <2>1. backup' \subseteq backup /\ UNCHANGED rules /\ Return(p, "stopped")
    BY <1>7 DEF Unlink
  <2>2. UserFilterKept' /\ BackupFaithful'
    BY <2>1, SameFilter DEF BackupFaithful
  <2> QED BY <2>1, <2>2, ReturnRace
<1> QED BY <1>1, <1>2, <1>3, <1>4, <1>5, <1>6, <1>7 DEF Stop

\* Every step keeps the invariant.
LEMMA StepRace == NoStopLifts /\ RaceInv /\ [Next]_vars => RaceInv'
<1> SUFFICES ASSUME NoStopLifts, RaceInv, [Next]_vars PROVE RaceInv'
  OBVIOUS
<1>0. TypeOK'
  BY StepType DEF RaceInv
<1>1. ASSUME NEW p \in Procs, Start(p) \/ Stop(p) PROVE RaceInv'
  BY <1>0, <1>1, StartRace, StopRace
<1>2. ASSUME NEW p \in Procs, RefuseNonRoot(p) \/ Crash(p) PROVE RaceInv'
  <2>1. (\E r : Return(p, r)) /\ UNCHANGED hostVars
    BY <1>2 DEF RefuseNonRoot, Crash
  <2>2. UserFilterKept' /\ BackupFaithful'
    BY <2>1, SameFilter DEF hostVars, BackupFaithful, RaceInv
  <2> QED BY <1>0, <2>1, <2>2, ReturnRace DEF RaceInv
<1>3. CASE Reboot
  <2>1. UserFilterKept'
    BY <1>3, OwnKept DEF Reboot, UserFilterKept, FilterOut, Keeps
  <2>2. BackupFaithful'
    BY <1>3 DEF Reboot, BackupFaithful, RaceInv
  <2>3. HeldFaithful' /\ StopsKeepFilter'
    BY <1>3, OwnKept DEF Reboot, HeldFaithful, StopsKeepFilter
  <2> QED BY <1>0, <2>1, <2>2, <2>3 DEF RaceInv
<1>4. CASE UNCHANGED vars
  BY <1>0, <1>4, SameFilter DEF vars, hostVars, procVars, RaceInv, BackupFaithful,
                                HeldFaithful, StopsKeepFilter
<1> QED BY <1>1, <1>2, <1>3, <1>4 DEF Next

\* With stops that are not told to lift the kill switch, the invariant holds
\* for any number of commands at once.
THEOREM RaceInvariant == ASSUME NoStopLifts PROVE Spec => []RaceInv
<1>1. RaceInv /\ [Next]_vars => RaceInv'
  BY StepRace
<1> QED BY <1>1, InitRace, PTL DEF Spec

\* The user's own filter rules stay in force, at the head of their chain,
\* whatever commands run at the same time and wherever they fail.
THEOREM FilterRulesAlwaysKept == ASSUME NoStopLifts PROVE Spec => []UserFilterKept
<1>1. RaceInv => UserFilterKept
  BY DEF RaceInv
<1> QED BY <1>1, RaceInvariant, PTL

\* A cleaning next to the commands keeps the invariant: it takes the backup
\* away, or not, and writes none.
LEMMA CleaningRace == RaceInv /\ CleaningStep => RaceInv'
<1> SUFFICES ASSUME RaceInv, CleaningStep PROVE RaceInv'
  OBVIOUS
<1>1. /\ backup' \subseteq backup
      /\ UNCHANGED <<rules, loaded, pc, opt, step, held, ret, session, promise, risked>>
  BY CleaningBackup DEF procVars
<1>2. TypeOK'
  BY <1>1 DEF RaceInv, TypeOK
<1>3. UserFilterKept'
  BY <1>1, SameFilter DEF RaceInv
<1> QED BY <1>1, <1>2, <1>3 DEF RaceInv, BackupFaithful, HeldFaithful, StopsKeepFilter

\* The user's own filter rules stay in force as well when a session is cleaned at
\* any point of any number of commands: a restore that finds the backup gone, or
\* one that another start has begun to write, replays nothing that lacks them.
THEOREM FilterRulesSurviveCleaning == ASSUME NoStopLifts PROVE CSpec => []UserFilterKept
<1>1. CInit => RaceInv
  BY InitRace DEF CInit
<1>2. RaceInv /\ [CNext]_allVars => RaceInv'
  BY StepRace, CleaningRace DEF CNext, CommandStep, allVars
<1>3. RaceInv => UserFilterKept
  BY DEF RaceInv
<1> QED BY <1>1, <1>2, <1>3, PTL DEF CSpec

-----------------------------------------------------------------------------
(***************************************************************************)
(* What is proved of a cleaning for every set of files, whichever of them  *)
(* resist, next to any commands.                                           *)
(***************************************************************************)

\* How many removals may have failed where the cleaning is.
MostErrors == [idle |-> 0, sessionDir |-> 0, open |-> 1, scan |-> 1, cacheDir |-> 2,
               dataDir |-> 3, dnsCache |-> 4, end |-> 5]

CleanType ==
  /\ files \subseteq Paths \ {Backup}
  /\ cpc \in DOMAIN MostErrors
  /\ todo \subseteq TmpNames
  /\ errors \in 0..MostErrors[cpc]
  /\ cret \in {"none", "ok", "err"}
  /\ doomed \subseteq Present

\* The paths that the cleaning has still to come to.
Ahead ==
  [idle |-> {}, sessionDir |-> Paths, open |-> Paths \ {SessionDir},
   scan |-> todo \cup HomeDirs, cacheDir |-> HomeDirs,
   dataDir |-> HomeDirs \ {"cacheDir"}, dnsCache |-> {"dnsCache"}, end |-> {}]

(***************************************************************************)
(* The strengthening of OkMeansClean: as long as no removal has failed,    *)
(* what is left of what the cleaning found is ahead of it.                 *)
(***************************************************************************)
DoomedAhead == cpc # "idle" /\ errors = 0 => doomed \subseteq Ahead[cpc]

CleanInv == CleanType /\ DoomedAhead /\ OkMeansClean

\* The paths that a cleaning removes are distinct.
LEMMA PathFacts ==
  /\ HomeDirs = {"cacheDir", "dataDir", "dnsCache"}
  /\ Paths = TmpNames \cup HomeDirs
  /\ SessionDir \in TmpNames /\ Backup \in TmpNames /\ SessionDir # Backup
  /\ TmpNames \cap HomeDirs = {}
BY TmpFilesAssumption DEF HomeDirs, AfterHome, Paths, TmpNames, SessionDir, Backup

\* The invariant of the cleaning holds at first.
LEMMA InitClean == CInit => CleanInv
<1> SUFFICES ASSUME CInit PROVE CleanInv
  OBVIOUS
<1>1. files \subseteq Paths \ {Backup}
  BY InitFilesAssumption DEF CInit, CleanInit
<1> QED BY <1>1 DEF CInit, CleanInit, CleanInv, CleanType, MostErrors, DoomedAhead, OkMeansClean

\* A command of the proxy's may add a backup and remove one; what the cleaning
\* has found becomes less at most.
LEMMA CommandClean == CleanInv /\ CommandStep => CleanInv'
<1> SUFFICES ASSUME CleanInv, CommandStep PROVE CleanInv'
  OBVIOUS
<1>1. UNCHANGED <<files, cpc, todo, errors, cret>> /\ doomed' = doomed \cap Present'
  BY DEF CommandStep
<1>2. CleanType'
  BY <1>1 DEF CleanInv, CleanType
<1>3. Ahead' = Ahead
  BY <1>1 DEF Ahead
<1> QED BY <1>1, <1>2, <1>3 DEF CleanInv, DoomedAhead, OkMeansClean

\* A path that is removed is no longer there.
LEMMA RemoveTakes ==
  ASSUME NEW f, Remove(f), files \subseteq Paths \ {Backup}
  PROVE  /\ files' \subseteq Paths \ {Backup}
         /\ f \notin Present'
BY DEF Remove, Present

\* After a removal that was tried, the path is gone or the failure is counted.
LEMMA TryTakes ==
  ASSUME NEW f, TryRemove(f), CleanType
  PROVE  /\ files' \subseteq Paths \ {Backup}
         /\ \/ errors' = errors /\ f \notin Present'
            \/ errors' = errors + 1
<1>1. CASE f \in Present /\ Remove(f) /\ UNCHANGED errors
  BY <1>1, RemoveTakes DEF CleanType
<1>2. CASE f \in Present \cap Resisting /\ errors' = errors + 1 /\ UNCHANGED <<files, backup>>
  BY <1>2 DEF CleanType
<1>3. CASE f \notin Present /\ UNCHANGED <<files, backup, errors>>
  BY <1>3 DEF CleanType, Present
<1> QED BY <1>1, <1>2, <1>3 DEF TryRemove

\* A step that tries one path and goes on to the next stage.
LEMMA TryStage ==
  ASSUME CleanInv, NEW f \in Paths, TryRemove(f), NEW l, cpc' = l,
         cret' = cret, todo' = todo, doomed' = doomed \cap Present',
         \/ cpc = "sessionDir" /\ f = SessionDir /\ l = "open"
         \/ cpc = "cacheDir" /\ f = "cacheDir" /\ l = "dataDir"
         \/ cpc = "dataDir" /\ f = "dataDir" /\ l = "dnsCache"
         \/ cpc = "dnsCache" /\ f = "dnsCache" /\ l = "end"
  PROVE  CleanInv'
<1>1. /\ files' \subseteq Paths \ {Backup}
      /\ \/ errors' = errors /\ f \notin Present'
         \/ errors' = errors + 1
  BY TryTakes DEF CleanInv
<1>2. /\ errors \in 0..MostErrors[cpc] /\ l \in DOMAIN MostErrors
      /\ MostErrors[cpc] + 1 = MostErrors[l]
  BY DEF CleanInv, CleanType, MostErrors
<1>3. errors' \in 0..MostErrors[l]
  <2>1. MostErrors[cpc] \in Nat
    BY DEF MostErrors
  <2> QED BY <1>1, <1>2, <2>1
<1>4. CleanType'
  BY <1>1, <1>2, <1>3 DEF CleanInv, CleanType
<1>5. DoomedAhead'
  <2> SUFFICES ASSUME errors' = 0 PROVE doomed' \subseteq Ahead'[l]
    BY DEF DoomedAhead
  <2>1. errors = 0 /\ f \notin Present'
    BY <1>1, <1>2
  <2>2. doomed \subseteq Ahead[cpc]
    BY <2>1 DEF CleanInv, DoomedAhead
  <2>3. Ahead[cpc] \ {f} \subseteq Ahead'[l]
    BY PathFacts DEF Ahead
  <2> QED BY <2>1, <2>2, <2>3
<1>6. OkMeansClean'
  BY DEF CleanInv, OkMeansClean
<1> QED BY <1>4, <1>5, <1>6 DEF CleanInv

\* The scan of the temp directory keeps it.
LEMMA ScanClean ==
  ASSUME CleanInv, ScanEntry \/ ScanAborts \/ ScanEnds
  PROVE  CleanInv'
<1>0. /\ cpc = "scan" /\ errors \in 0..1 /\ CleanType
      /\ errors = 0 => doomed \subseteq todo \cup HomeDirs
  BY DEF ScanEntry, ScanAborts, ScanEnds, CleanInv, CleanType, MostErrors, DoomedAhead, Ahead
<1>1. CASE ScanEntry
  <2>1. PICK f \in todo : Remove(f) /\ todo' = todo \ {f}
    BY <1>1 DEF ScanEntry
  <2>2. files' \subseteq Paths \ {Backup} /\ f \notin Present'
    BY <1>0, <2>1, RemoveTakes DEF CleanType
  <2>3. UNCHANGED <<cpc, errors, cret>> /\ doomed' = doomed \cap Present'
    BY <1>1 DEF ScanEntry
  <2>4. CleanType'
    BY <1>0, <2>1, <2>2, <2>3 DEF CleanType
  <2>5. DoomedAhead'
    BY <1>0, <2>1, <2>2, <2>3 DEF DoomedAhead, Ahead
  <2> QED BY <2>3, <2>4, <2>5 DEF CleanInv, OkMeansClean
<1>2. CASE ScanAborts
  <2>1. /\ errors' = errors + 1 /\ todo' = {} /\ cpc' = "cacheDir"
        /\ UNCHANGED <<files, backup, cret, doomed>>
    BY <1>2 DEF ScanAborts
  <2>2. CleanType'
    BY <1>0, <2>1 DEF CleanType, MostErrors, Present
  <2> QED BY <1>0, <2>1, <2>2 DEF CleanInv, DoomedAhead, OkMeansClean
<1>3. CASE ScanEnds
  <2>1. /\ todo = {} /\ cpc' = "cacheDir"
        /\ UNCHANGED <<files, backup, todo, errors, cret, doomed>>
    BY <1>3 DEF ScanEnds
  <2>2. CleanType'
    BY <1>0, <2>1 DEF CleanType, MostErrors, Present
  <2> QED BY <1>0, <2>1, <2>2 DEF CleanInv, DoomedAhead, OkMeansClean, Ahead
<1> QED BY <1>1, <1>2, <1>3

\* Every step of a cleaning keeps it.
LEMMA CleaningClean == CleanInv /\ CleaningStep => CleanInv'
<1> SUFFICES ASSUME CleanInv, CleanStep PROVE CleanInv'
  BY DEF CleaningStep
<1>0. CleanType
  BY DEF CleanInv
<1>1. CASE CleanBegin
  <2>1. /\ cpc = "idle" /\ cpc' = "sessionDir" /\ cret' = "none" /\ doomed' = Present
        /\ UNCHANGED <<files, backup, todo, errors>>
    BY <1>1 DEF CleanBegin
  <2>2. Present \subseteq Paths /\ Present' = Present
    BY <1>0, <2>1, PathFacts DEF CleanType, Present
  <2>3. CleanType'
    BY <1>0, <2>1, <2>2 DEF CleanType, MostErrors
  <2> QED BY <2>1, <2>2, <2>3 DEF CleanInv, DoomedAhead, OkMeansClean, Ahead
<1>2. CASE CleanSessionDir
  BY <1>2, PathFacts, TryStage DEF CleanSessionDir
<1>3. CASE OpenTemp
  <2>1. /\ cpc = "open" /\ cpc' = "scan" /\ todo' = Present \cap TmpNames
        /\ UNCHANGED <<files, backup, errors, cret, doomed>>
    BY <1>3 DEF OpenTemp
  <2>2. CleanType'
    BY <1>0, <2>1 DEF CleanType, MostErrors, Present
  <2>3. errors = 0 => doomed \subseteq Paths
    BY <2>1 DEF CleanInv, DoomedAhead, Ahead
  <2> QED BY <1>0, <2>1, <2>2, <2>3, PathFacts
          DEF CleanInv, CleanType, DoomedAhead, OkMeansClean, Ahead
<1>3a. CASE OpenFails
  <2>1. /\ cpc = "open" /\ cpc' = "cacheDir" /\ errors' = errors + 1
        /\ UNCHANGED <<files, backup, todo, cret, doomed>>
    BY <1>3a DEF OpenFails
  <2>2. errors \in 0..1
    BY <1>0, <2>1 DEF CleanType, MostErrors
  <2>3. CleanType'
    BY <1>0, <2>1, <2>2 DEF CleanType, MostErrors, Present
  <2> QED BY <2>1, <2>2, <2>3 DEF CleanInv, DoomedAhead, OkMeansClean
<1>4. CASE ScanEntry \/ ScanAborts \/ ScanEnds
  BY <1>4, ScanClean
<1>5. CASE CleanHomeDir
  <2>1. cpc \in {"cacheDir", "dataDir", "dnsCache"} /\ cpc \in Paths
    BY <1>5, PathFacts DEF CleanHomeDir
  <2> QED BY <1>5, <2>1, TryStage DEF CleanHomeDir, AfterHome
<1>6. CASE CleanEnd
  <2>1. /\ cpc = "end" /\ cpc' = "idle" /\ errors' = 0
        /\ cret' = IF errors > 0 THEN "err" ELSE "ok"
        /\ doomed' = IF errors > 0 THEN {} ELSE doomed
        /\ UNCHANGED <<files, backup, todo>>
    BY <1>6 DEF CleanEnd
  <2>2. CleanType'
    BY <1>0, <2>1 DEF CleanType, MostErrors, Present
  <2>3. errors \in 0..5 /\ (errors = 0 => doomed = {})
    BY <1>0, <2>1 DEF CleanInv, CleanType, MostErrors, DoomedAhead, Ahead
  <2> QED BY <2>1, <2>2, <2>3 DEF CleanInv, DoomedAhead, OkMeansClean
<1> QED BY <1>1, <1>2, <1>3, <1>3a, <1>4, <1>5, <1>6 DEF CleanStep

\* A step that changes nothing keeps it.
LEMMA StayClean == CleanInv /\ UNCHANGED allVars => CleanInv'
BY DEF CleanInv, CleanType, DoomedAhead, OkMeansClean, Ahead, Present, allVars, cleanVars,
       vars, hostVars

\* CleanInv is an invariant of commands and a cleaning side by side.
LEMMA CleanInvariant == CSpec => []CleanInv
<1>1. CleanInv /\ [CNext]_allVars => CleanInv'
  BY CommandClean, CleaningClean, StayClean DEF CNext
<1> QED BY <1>1, InitClean, PTL DEF CSpec

\* Every reachable state of a cleaning is typed: it counts five failures at
\* most, and removes nothing but what it has found.
THEOREM CleanTypeCorrect == CSpec => []CleanTypeOK
<1>1. CleanInv => CleanTypeOK
  <2> SUFFICES ASSUME CleanType PROVE CleanTypeOK
    BY DEF CleanInv
  <2>1. errors \in 0..5
    BY DEF CleanType, MostErrors
  <2> QED BY <2>1, PathFacts DEF CleanType, CleanTypeOK, MostErrors
<1> QED BY <1>1, CleanInvariant, PTL

\* A cleaning that ends with Ok has left nothing of what it found, whichever
\* removals may fail and whatever commands run at the same time.
THEOREM OkAlwaysClean == CSpec => []OkMeansClean
<1>1. CleanInv => OkMeansClean
  BY DEF CleanInv
<1> QED BY <1>1, CleanInvariant, PTL
==============================================================================
