-------------------------- MODULE TransparentProofs --------------------------
(***************************************************************************)
(* What is proved of the transparent proxy for every set of commands,      *)
(* every set of the user's rules and every set of faults.                  *)
(***************************************************************************)
EXTENDS Transparent, TLAPS

-----------------------------------------------------------------------------
(* The kernel's tables and the rule plan *)

\* Every chain belongs to one of the two tables.
LEMMA ChainTables ==
  /\ TableOf \in [Chains -> Tables]
  /\ Held(Tables) = Chains
  /\ \A r \in Rule : ChainOf(r) \in Chains
BY DEF TableOf, Chains, Tables, Held, ChainOf

\* The rules a start appends are nofind's.
LEMMA PlanType ==
  ASSUME NEW o \in Options
  PROVE  Plan(o) \in Seq(NofindRules)
<1>0. << >> \in Seq(NofindRules)
  OBVIOUS
<1>1. NatPlan(o) \in Seq(NofindRules)
  <2> DEFINE lan == IF o.lan THEN <<"lanReturn">> ELSE << >>
             dns == IF o.dns THEN <<"udpDnsRedirect", "tcpDnsRedirect">> ELSE << >>
             pre == <<"torReturn", "loopReturn">>
             red == <<"tcpRedirect">>
  <2>1. lan \in Seq(NofindRules)
    <3>1. <<"lanReturn">> \in Seq(NofindRules)
      BY DEF NofindRules, NatRules
    <3> QED BY <1>0, <3>1
  <2>2. dns \in Seq(NofindRules)
    <3>1. <<"udpDnsRedirect", "tcpDnsRedirect">> \in Seq(NofindRules)
      BY DEF NofindRules, NatRules
    <3> QED BY <1>0, <3>1
  <2>3. pre \in Seq(NofindRules)
    BY DEF NofindRules, NatRules
  <2>4. red \in Seq(NofindRules)
    BY DEF NofindRules, NatRules
  <2>5. pre \o lan \o red \o dns \in Seq(NofindRules)
    <3> HIDE DEF lan, dns, pre, red
    <3> QED BY <2>1, <2>2, <2>3, <2>4
  <2> QED BY <2>5 DEF NatPlan
<1>2. KillPlan(o) \in Seq(NofindRules)
  <2>1. <<"torAccept", "loopAccept", "tcpReject">> \in Seq(NofindRules)
    BY DEF NofindRules, FilterRules
  <2> QED BY <1>0, <2>1 DEF KillPlan
<1>3. <<"dohReject">> \in Seq(NofindRules)
  BY DEF NofindRules, FilterRules
<1> QED BY <1>1, <1>2, <1>3 DEF Plan

\* Every rule of the plan goes to a chain of its own table.
LEMMA RightChain ==
  ASSUME NEW r \in NofindRules
  PROVE  r \in RulesIn[ChainOf(r)]
BY DEF NofindRules, RulesIn, ChainOf

\* The user's own rules stand where they may.
LEMMA OwnPlaced == Placed(Own)
<1>1. ASSUME NEW c \in Chains PROVE Own[c] \in Seq(RulesIn[c])
  <2>1. UserRules \subseteq RulesIn[c] /\ Own[c] \in Seq(UserRules)
    BY OwnAssumption DEF RulesIn, Chains
  <2> QED BY <2>1
<1> QED BY <1>1, OwnAssumption DEF Placed

\* A snapshot of typed rules is a typed snapshot.
LEMMA SavedType ==
  ASSUME NEW rs \in [Chains -> Seq(Rule)], Placed(rs), NEW ts \in SUBSET Tables
  PROVE  IsSnapshot(Saved(rs, ts))
<1>1. Held(ts) \subseteq Chains
  BY DEF Held
<1> QED BY <1>1 DEF IsSnapshot, Saved, Placed

\* So is a part of one.
LEMMA PartType ==
  ASSUME NEW file, IsSnapshot(file), NEW ts \in SUBSET Tables
  PROVE  IsSnapshot(Part(file, ts))
<1>1. PICK us \in SUBSET Tables : DOMAIN file = Held(us)
  BY DEF IsSnapshot
<1>2. DOMAIN Part(file, ts) = Held(us \cap ts)
  BY <1>1 DEF Part, Held
<1> QED BY <1>2 DEF IsSnapshot, Part, Placed

\* The file that holds nothing is a snapshot.
LEMMA EmptyType == IsSnapshot(EmptyFile)
<1>1. DOMAIN EmptyFile = Held({})
  BY DEF EmptyFile, Held
<1> QED BY <1>1 DEF IsSnapshot, EmptyFile, Placed

\* Replaying a typed snapshot leaves typed rules.
LEMMA ReplayedType ==
  ASSUME NEW rs \in [Chains -> Seq(Rule)], Placed(rs), NEW file, IsSnapshot(file), NEW ts
  PROVE  Replayed(rs, file, ts) \in [Chains -> Seq(Rule)] /\ Placed(Replayed(rs, file, ts))
BY DEF Replayed, IsSnapshot, Placed

\* Replaying the whole of a complete snapshot brings back what was saved.
LEMMA ReplaySaved ==
  ASSUME NEW rs
  PROVE  Replayed(rs, Saved(Own, Tables), Tables) = Own
BY ChainTables, OwnAssumption DEF Replayed, Saved

-----------------------------------------------------------------------------
(* Type correctness *)

\* The initial state is typed.
LEMMA InitType == Init => TypeOK
<1> SUFFICES ASSUME Init PROVE TypeOK
  OBVIOUS
<1>1. /\ rules \in [Chains -> Seq(Rule)] /\ Placed(rules)
      /\ loaded \subseteq Tables /\ backup = {}
  BY OwnPlaced, OwnAssumption, LoadedAssumption DEF Init, HostInit, Rule
<1>2. /\ pc \in [Procs -> PCs] /\ opt \in [Procs -> Options]
      /\ step \in [Procs -> Nat \ {0}] /\ ret \in [Procs -> Results]
      /\ session \in Sessions /\ promise \in Options /\ (risked = FALSE)
  BY DEF Init, PCs, Options, NoOptions, Results, Sessions
<1>3. DOMAIN held = Procs /\ \A p \in Procs : IsSnapshot(held[p])
  BY EmptyType DEF Init
<1> QED BY <1>1, <1>2, <1>3 DEF TypeOK

\* The typing of the variables that only a command's own step changes.
LEMMA ReturnType ==
  ASSUME TypeOK, NEW p \in Procs, NEW r \in Results, Return(p, r)
  PROVE  /\ pc' \in [Procs -> PCs] /\ opt' \in [Procs -> Options]
         /\ step' \in [Procs -> Nat \ {0}] /\ ret' \in [Procs -> Results]
         /\ DOMAIN held' = Procs /\ \A q \in Procs : IsSnapshot(held'[q])
<1>1. /\ pc' \in [Procs -> PCs] /\ step' \in [Procs -> Nat \ {0}]
      /\ ret' \in [Procs -> Results]
  BY DEF TypeOK, Return, PCs
<1>2. opt' \in [Procs -> Options]
  BY DEF TypeOK, Return, Options, NoOptions
<1>3. DOMAIN held' = Procs /\ \A q \in Procs : IsSnapshot(held'[q])
  BY EmptyType DEF TypeOK, Return
<1> QED BY <1>1, <1>2, <1>3

\* A step that appends or flushes keeps the rules typed.
LEMMA RulesType ==
  ASSUME TypeOK, NEW c \in Chains, NEW s \in Seq(Rule), s \in Seq(RulesIn[c])
  PROVE  /\ [rules EXCEPT ![c] = s] \in [Chains -> Seq(Rule)]
         /\ Placed([rules EXCEPT ![c] = s])
BY DEF TypeOK, Placed

\* The rule a start is about to append is one of nofind's.
LEMMA NextRuleType ==
  ASSUME TypeOK, NEW p \in Procs, Planned(p)
  PROVE  NextRule(p) \in NofindRules
<1>1. opt[p] \in Options /\ step[p] \in Nat \ {0}
  BY DEF TypeOK
<1>2. Plan(opt[p]) \in Seq(NofindRules)
  BY <1>1, PlanType
<1>3. step[p] \in 1..Len(Plan(opt[p]))
  BY <1>1, <1>2 DEF Planned
<1> QED BY <1>2, <1>3 DEF NextRule

\* Every step of transparent-start keeps the types.
LEMMA StartType ==
  ASSUME TypeOK, NEW p \in Procs, Start(p)
  PROVE  TypeOK'
<1>1. CASE StartProbe(p)
  BY <1>1, OptionsAssumption DEF StartProbe, Begin, TypeOK, hostVars, PCs, Results
<1>2. CASE SaveRules(p)
  <2>1. IsSnapshot(Saved(rules, loaded)) /\ IsSnapshot(EmptyFile)
    BY SavedType, EmptyType DEF TypeOK
  <2>2. PICK out : IsSnapshot(out) /\ held' = [held EXCEPT ![p] = out]
    BY <1>2, <2>1 DEF SaveRules
  <2>3. DOMAIN held' = Procs /\ \A q \in Procs : IsSnapshot(held'[q])
    BY <2>2 DEF TypeOK
  <2> QED BY <1>2, <2>3 DEF SaveRules, Goto, TypeOK, hostVars, PCs
<1>3. CASE SaveNotFound(p) \/ WriteFails(p) \/ AppendFails(p)
  <2>1. Return(p, "err") /\ UNCHANGED <<hostVars, session, promise, risked>>
    BY <1>3 DEF SaveNotFound, WriteFails, AppendFails
  <2>2. "err" \in Results
    BY DEF Results
  <2> QED BY <2>1, <2>2, ReturnType DEF TypeOK, hostVars
<1>4. CASE TruncateBackup(p)
  BY <1>4, EmptyType DEF TruncateBackup, Goto, TypeOK, PCs
<1>5. CASE FillBackup(p)
  BY <1>5 DEF FillBackup, Goto, TypeOK, PCs, Sessions, Options, NoOptions
<1>5a. CASE FillPart(p)
  <2>1. \A ts \in SUBSET Tables : IsSnapshot(Part(held[p], ts))
    BY PartType DEF TypeOK
  <2> QED BY <1>5a, <2>1 DEF FillPart, procVars, TypeOK
<1>6. CASE AppendRule(p)
  <2> DEFINE c == ChainOf(NextRule(p))
  <2>1. NextRule(p) \in Rule
    BY <1>6, NextRuleType DEF AppendRule, Rule
  <2>2. c \in Chains /\ TableOf[c] \in Tables
    BY <2>1, ChainTables
  <2>3. Append(rules[c], NextRule(p)) \in Seq(Rule)
    BY <2>1, <2>2 DEF TypeOK
  <2>3a. Append(rules[c], NextRule(p)) \in Seq(RulesIn[c])
    <3>1. NextRule(p) \in RulesIn[c]
      BY <1>6, NextRuleType, RightChain DEF AppendRule
    <3>2. rules[c] \in Seq(RulesIn[c])
      BY <2>2 DEF TypeOK, Placed
    <3> HIDE DEF c
    <3>3. ASSUME NEW S, NEW s \in Seq(S), NEW x \in S PROVE Append(s, x) \in Seq(S)
      OBVIOUS
    <3> QED BY <3>1, <3>2, <3>3
  <2>4. rules' = [rules EXCEPT ![c] = Append(rules[c], NextRule(p))]
    BY <1>6, <2>2 DEF AppendRule, TypeOK
  <2>5. rules' \in [Chains -> Seq(Rule)] /\ Placed(rules)'
    BY <2>2, <2>3, <2>3a, <2>4, RulesType
  <2>6. loaded' \subseteq Tables
    BY <1>6, <2>2 DEF AppendRule, TypeOK
  <2>7. step' \in [Procs -> Nat \ {0}]
    BY <1>6 DEF AppendRule, TypeOK
  <2> QED BY <1>6, <2>5, <2>6, <2>7 DEF AppendRule, TypeOK
<1>7. CASE AppendIgnored(p)
  BY <1>7 DEF AppendIgnored, TypeOK, hostVars
<1>8. CASE Started(p)
  <2>1. "started" \in Results /\ "active" \in Sessions /\ opt[p] \in Options
    BY DEF Results, Sessions, TypeOK
  <2> QED BY <1>8, <2>1, ReturnType DEF Started, TypeOK, hostVars
<1> QED BY <1>1, <1>2, <1>3, <1>4, <1>5, <1>5a, <1>6, <1>7, <1>8 DEF Start

\* Every step of transparent-stop keeps the types.
LEMMA StopType ==
  ASSUME TypeOK, NEW p \in Procs, Stop(p)
  PROVE  TypeOK'
<1>0. << >> \in Seq(Rule) /\ \A c : << >> \in Seq(RulesIn[c])
  OBVIOUS
<1>1. CASE StopBegin(p)
  <2>1. PICK kill \in StopKill :
          Begin(p, "flushNat", [NoOptions EXCEPT !.kill = kill])
    BY <1>1 DEF StopBegin
  <2>2. [NoOptions EXCEPT !.kill = kill] \in Options
    BY OptionsAssumption DEF Options, NoOptions
  <2>3. /\ opt' \in [Procs -> Options] /\ pc' \in [Procs -> PCs]
        /\ ret' \in [Procs -> Results] /\ UNCHANGED <<step, held>>
    BY <2>1, <2>2 DEF Begin, TypeOK, PCs, Results
  <2>4. session' \in Sessions /\ risked' \in BOOLEAN
    BY <1>1 DEF StopBegin, TypeOK, Sessions
  <2> QED BY <1>1, <2>3, <2>4 DEF StopBegin, TypeOK, hostVars
<1>2. CASE FlushNat(p)
  <2>1. rules' \in [Chains -> Seq(Rule)] /\ Placed(rules)'
    BY <1>0, <1>2, RulesType DEF FlushNat, Chains
  <2> QED BY <1>2, <2>1 DEF FlushNat, Goto, TypeOK, PCs, Tables
<1>3. CASE FlushNatFails(p)
  <2>1. "err" \in Results
    BY DEF Results
  <2> QED BY <1>3, <2>1, ReturnType DEF FlushNatFails, TypeOK, hostVars
<1>4. CASE FlushPre(p)
  <2>1. rules' \in [Chains -> Seq(Rule)] /\ Placed(rules)'
    BY <1>0, <1>4, RulesType DEF FlushPre, Chains
  <2> QED BY <1>4, <2>1 DEF FlushPre, Goto, TypeOK, PCs
<1>5. CASE FlushPreIgnored(p) \/ FlushFilterIgnored(p) \/ LookForBackup(p)
  BY <1>5 DEF FlushPreIgnored, FlushFilterIgnored, LookForBackup, Goto, TypeOK,
              hostVars, PCs
<1>6. CASE FlushFilter(p)
  <2>1. rules' \in [Chains -> Seq(Rule)] /\ Placed(rules)'
    BY <1>0, <1>6, RulesType DEF FlushFilter, Chains
  <2>2. promise' \in Options
    BY <1>6 DEF FlushFilter, TypeOK, Options
  <2> QED BY <1>6, <2>1, <2>2 DEF FlushFilter, Goto, TypeOK, PCs, Tables
<1>7. CASE NoBackup(p)
  <2>1. "stopped" \in Results /\ "off" \in Sessions /\ NoOptions \in Options
    BY DEF Results, Sessions, Options, NoOptions
  <2> QED BY <1>7, <2>1, ReturnType DEF NoBackup, TypeOK, hostVars
<1>8. CASE RestoreRules(p)
  <2>1. PICK file \in backup :
          /\ rules' = Replayed(rules, file, Tables)
          /\ loaded' = loaded \cup {TableOf[c] : c \in DOMAIN file}
    BY <1>8 DEF RestoreRules
  <2>2. IsSnapshot(file) /\ rules \in [Chains -> Seq(Rule)] /\ Placed(rules)
    BY DEF TypeOK
  <2>3. rules' \in [Chains -> Seq(Rule)] /\ Placed(rules)'
    BY <2>1, <2>2, ReplayedType
  <2>4. DOMAIN file \subseteq Chains
    BY <2>2 DEF IsSnapshot, Held
  <2>5. loaded' \subseteq Tables
    BY <2>1, <2>4, ChainTables DEF TypeOK
  <2>6. "off" \in Sessions /\ NoOptions \in Options
    BY DEF Sessions, Options, NoOptions
  <2> QED BY <1>8, <2>3, <2>5, <2>6 DEF RestoreRules, Goto, TypeOK, PCs
<1>9. CASE RestoreFails(p)
  <2>1. PICK ts \in SUBSET Tables, file \in backup :
          /\ rules' = Replayed(rules, file, ts)
          /\ loaded' = loaded \cup (ts \cap {TableOf[c] : c \in DOMAIN file})
          /\ promise' = [promise EXCEPT !.kill = @ /\ "filter" \notin ts]
    BY <1>9 DEF RestoreFails
  <2>2. /\ IsSnapshot(file) /\ rules \in [Chains -> Seq(Rule)] /\ Placed(rules)
        /\ loaded \subseteq Tables
    BY DEF TypeOK
  <2>3. rules' \in [Chains -> Seq(Rule)] /\ Placed(rules)' /\ loaded' \subseteq Tables
    BY <2>1, <2>2, ReplayedType
  <2>4. promise' \in Options
    BY <2>1 DEF TypeOK, Options
  <2>5. "warned" \in Results
    BY DEF Results
  <2>6. Return(p, "warned") /\ UNCHANGED <<backup, session, risked>>
    BY <1>9 DEF RestoreFails
  <2> QED BY <2>3, <2>4, <2>5, <2>6, ReturnType DEF TypeOK
<1>10. CASE RestoreMissing(p)
  <2>1. "warned" \in Results
    BY DEF Results
  <2> QED BY <1>10, <2>1, ReturnType DEF RestoreMissing, TypeOK, hostVars
<1>11. CASE Unlink(p)
  <2>1. "stopped" \in Results /\ backup' \subseteq backup
    BY <1>11 DEF Results, Unlink
  <2> QED BY <1>11, <2>1, ReturnType DEF Unlink, TypeOK
<1> QED BY <1>1, <1>2, <1>3, <1>4, <1>5, <1>6, <1>7, <1>8, <1>9, <1>10, <1>11 DEF Stop

\* Every step keeps the types.
LEMMA StepType == TypeOK /\ [Next]_vars => TypeOK'
<1> SUFFICES ASSUME TypeOK, [Next]_vars PROVE TypeOK'
  OBVIOUS
<1>1. ASSUME NEW p \in Procs, Start(p) \/ Stop(p) PROVE TypeOK'
  BY <1>1, StartType, StopType
<1>2. ASSUME NEW p \in Procs, RefuseNonRoot(p) \/ Crash(p) PROVE TypeOK'
  <2>1. {"err", "none"} \subseteq Results
    BY DEF Results
  <2> QED BY <1>2, <2>1, ReturnType DEF RefuseNonRoot, Crash, TypeOK, hostVars
<1>3. CASE Reboot
  <2>1. /\ rules' \in [Chains -> Seq(Rule)] /\ Placed(rules)'
        /\ loaded' \subseteq Tables /\ \A file \in backup' : file \in backup
    BY <1>3, OwnPlaced, OwnAssumption, LoadedAssumption DEF Reboot, Rule
  <2>2. DOMAIN held' = Procs /\ \A p \in Procs : IsSnapshot(held'[p])
    BY <1>3, EmptyType DEF Reboot
  <2>3. \A file \in backup' : IsSnapshot(file)
    BY <2>1 DEF TypeOK
  <2>4. risked' = FALSE
    BY <1>3 DEF Reboot
  <2>5. /\ pc' \in [Procs -> PCs] /\ opt' \in [Procs -> Options]
        /\ step' \in [Procs -> Nat \ {0}] /\ ret' \in [Procs -> Results]
        /\ session' \in Sessions /\ promise' \in Options
    BY <1>3 DEF Reboot, PCs, Options, NoOptions, Results, Sessions
  <2> QED BY <2>1, <2>2, <2>3, <2>4, <2>5 DEF TypeOK
<1>4. CASE UNCHANGED vars
  BY <1>4 DEF vars, hostVars, procVars, TypeOK
<1> QED BY <1>1, <1>2, <1>3, <1>4 DEF Next

\* Every reachable state of the commands is typed.
THEOREM TypeCorrect == Spec => []TypeOK
BY InitType, StepType, PTL DEF Spec

-----------------------------------------------------------------------------
(* The user's rules are never lost *)

\* The use the README describes, no start on top of a session, on a machine
\* whose two tables are loaded and whose iptables-save does not fail unnoticed.
\* A stop may be called at any time.
DocumentedUse == Careful /\ InitLoaded = Tables /\ "save" \notin Faults

\* Before the backup is complete, and after the rules are restored.
Outside == {"save", "truncate", "fill", "unlink"}
\* From the first appended rule to the last restored one.
Inside  == PCs \ (Outside \cup {"idle"})

(***************************************************************************)
(* The strengthening of Recoverable: one command runs at a time; outside a *)
(* session the user's rules are in force, inside it the backup holds them; *)
(* what a start is about to write to the backup is what they were.  All of *)
(* this lasts until a stop is called without a backup, and comes back with *)
(* the next boot.                                                          *)
(***************************************************************************)
OneAtATime     == \A p, q \in Procs : pc[p] # "idle" /\ pc[q] # "idle" => p = q
TablesLoaded   == loaded = Tables
OwnOutside     == ~risked /\ session = "off" => rules = Own
KeptInside     == ~risked /\ session # "off" => backup = {OwnFile}
PlaceInSession == \A p \in Procs : /\ pc[p] \in Outside => session = "off"
                                   /\ pc[p] \in Inside => session # "off"
HeldIsOwn      == \A p \in Procs :
                    ~risked /\ pc[p] \in {"truncate", "fill"} => held[p] = OwnFile

UndoInv == /\ TypeOK
           /\ OneAtATime
           /\ TablesLoaded
           /\ OwnOutside
           /\ KeptInside
           /\ PlaceInSession
           /\ HeldIsOwn

\* Replaying a faithful backup brings the user's own rules back.
LEMMA FullReplay ==
  ASSUME DocumentedUse, NEW rs
  PROVE  Replayed(rs, OwnFile, Tables) = Own
BY ReplaySaved DEF DocumentedUse, OwnFile

\* The undo invariant holds at first.
LEMMA InitUndo == DocumentedUse /\ Init => UndoInv
<1> SUFFICES ASSUME DocumentedUse, Init PROVE UndoInv
  OBVIOUS
<1>1. TypeOK
  BY InitType
<1>2. OneAtATime /\ PlaceInSession /\ HeldIsOwn
  BY DEF Init, OneAtATime, PlaceInSession, HeldIsOwn, Outside, Inside
<1>3. TablesLoaded /\ OwnOutside /\ KeptInside
  BY DEF Init, HostInit, TablesLoaded, OwnOutside, KeptInside, DocumentedUse
<1> QED BY <1>1, <1>2, <1>3 DEF UndoInv

\* The command that moves is the only one that is not idle, so that what the
\* invariant says of places has to be shown for it alone.
LEMMA OnlyMover ==
  ASSUME UndoInv, NEW p \in Procs, NEW l,
         pc[p] # "idle" \/ AllIdle,
         pc' = [pc EXCEPT ![p] = l],
         l \in Outside => session' = "off",
         l \in Inside => session' # "off",
         ~risked' /\ l \in {"truncate", "fill"} => held'[p] = OwnFile
  PROVE  OneAtATime' /\ PlaceInSession' /\ HeldIsOwn'
<1>1. \A q \in Procs : pc'[q] = IF q = p THEN l ELSE "idle"
  BY DEF UndoInv, OneAtATime, TypeOK, AllIdle
<1>2. OneAtATime'
  BY <1>1 DEF OneAtATime
<1>3. PlaceInSession'
  BY <1>1 DEF PlaceInSession, Outside, Inside
<1>4. HeldIsOwn'
  BY <1>1 DEF HeldIsOwn
<1> QED BY <1>2, <1>3, <1>4

\* A command that ends keeps the places right, whatever it reports.
LEMMA ReturnKeepsPlaces ==
  ASSUME UndoInv, NEW p \in Procs, NEW r, Return(p, r),
         pc[p] # "idle" \/ UNCHANGED <<session, risked>>
  PROVE  OneAtATime' /\ PlaceInSession' /\ HeldIsOwn'
<1>1. CASE pc[p] # "idle"
  BY <1>1, OnlyMover DEF Return, Outside, Inside
<1>2. CASE pc[p] = "idle" /\ UNCHANGED <<session, risked>>
  <2>1. pc' = pc
    BY <1>2 DEF Return, UndoInv, TypeOK
  <2>2. \A q \in Procs : pc[q] \in {"truncate", "fill"} => held'[q] = held[q]
    BY <1>2 DEF Return, UndoInv, TypeOK
  <2> QED BY <1>2, <2>1, <2>2
          DEF UndoInv, OneAtATime, PlaceInSession, HeldIsOwn, Outside, Inside
<1> QED BY <1>1, <1>2

\* Every step of transparent-start keeps the undo invariant.
LEMMA StartUndo ==
  ASSUME DocumentedUse, UndoInv, NEW p \in Procs, Start(p)
  PROVE  OneAtATime' /\ TablesLoaded' /\ OwnOutside' /\ KeptInside'
         /\ PlaceInSession' /\ HeldIsOwn'
<1> USE DEF UndoInv
<1>0. Sequential
  BY OperatorAssumption DEF DocumentedUse
<1>1. CASE StartProbe(p)
  <2>1. /\ pc' = [pc EXCEPT ![p] = "save"] /\ AllIdle
        /\ session = "off" /\ UNCHANGED <<hostVars, session, risked, held>>
    BY <1>0, <1>1 DEF StartProbe, Begin, DocumentedUse
  <2>2. OneAtATime' /\ PlaceInSession' /\ HeldIsOwn'
    BY <2>1, OnlyMover DEF Inside, Outside
  <2> QED BY <2>1, <2>2 DEF hostVars, TablesLoaded, OwnOutside, KeptInside
<1>2. CASE SaveRules(p)
  <2>1. session = "off" /\ pc[p] # "idle"
    BY <1>2 DEF SaveRules, PlaceInSession, Outside
  <2>2. ~risked' => held'[p] = OwnFile
    BY <1>2, <2>1
    DEF SaveRules, MayFail, DocumentedUse, OwnFile, OwnOutside, TablesLoaded, TypeOK
  <2>3. OneAtATime' /\ PlaceInSession' /\ HeldIsOwn'
    BY <1>2, <2>1, <2>2, OnlyMover DEF SaveRules, Goto, Inside, Outside
  <2> QED BY <1>2, <2>3 DEF SaveRules, hostVars, TablesLoaded, OwnOutside, KeptInside
<1>3. CASE SaveNotFound(p) \/ WriteFails(p) \/ AppendFails(p)
  <2>1. Return(p, "err") /\ UNCHANGED <<hostVars, session, risked>>
    BY <1>3 DEF SaveNotFound, WriteFails, AppendFails
  <2> QED BY <2>1, ReturnKeepsPlaces DEF hostVars, TablesLoaded, OwnOutside, KeptInside
<1>4. CASE TruncateBackup(p)
  <2>1. session = "off" /\ pc[p] # "idle" /\ (~risked => held[p] = OwnFile)
    BY <1>4 DEF TruncateBackup, PlaceInSession, HeldIsOwn, Outside
  <2>2. OneAtATime' /\ PlaceInSession' /\ HeldIsOwn'
    BY <1>4, <2>1, OnlyMover DEF TruncateBackup, Goto, Inside, Outside
  <2> QED BY <1>4, <2>1, <2>2 DEF TruncateBackup, TablesLoaded, OwnOutside, KeptInside
<1>5a. CASE FillPart(p)
  BY <1>5a DEF FillPart, procVars, OneAtATime, TablesLoaded, OwnOutside, KeptInside,
               PlaceInSession, HeldIsOwn, Outside
<1>5. CASE FillBackup(p)
  <2>1. pc[p] # "idle" /\ (~risked => held[p] = OwnFile)
    BY <1>5 DEF FillBackup, HeldIsOwn
  <2>2. OneAtATime' /\ PlaceInSession' /\ HeldIsOwn'
    BY <1>5, <2>1, OnlyMover DEF FillBackup, Goto, Outside
  <2> QED BY <1>5, <2>1, <2>2 DEF FillBackup, TablesLoaded, OwnOutside, KeptInside
<1>6. CASE AppendRule(p)
  <2>1. session # "off"
    BY <1>6 DEF AppendRule, PlaceInSession, Inside, Outside, PCs
  <2>2. NextRule(p) \in Rule
    BY <1>6, NextRuleType DEF AppendRule, Rule
  <2>3. TablesLoaded'
    BY <1>6, <2>2, ChainTables DEF AppendRule, TablesLoaded
  <2> QED BY <1>6, <2>1, <2>3
          DEF AppendRule, OneAtATime, OwnOutside, KeptInside, PlaceInSession, HeldIsOwn
<1>7. CASE AppendIgnored(p)
  BY <1>7 DEF AppendIgnored, hostVars, OneAtATime, TablesLoaded, OwnOutside,
              KeptInside, PlaceInSession, HeldIsOwn
<1>8. CASE Started(p)
  <2>1. pc[p] # "idle" /\ session # "off"
    BY <1>8 DEF Started, PlaceInSession, Inside, Outside, PCs
  <2>2. OneAtATime' /\ PlaceInSession' /\ HeldIsOwn'
    BY <1>8, <2>1, ReturnKeepsPlaces DEF Started
  <2> QED BY <1>8, <2>1, <2>2 DEF Started, hostVars, TablesLoaded, OwnOutside, KeptInside
<1> QED BY <1>1, <1>2, <1>3, <1>4, <1>5, <1>5a, <1>6, <1>7, <1>8 DEF Start

\* Every step of transparent-stop keeps the undo invariant.
LEMMA StopUndo ==
  ASSUME DocumentedUse, UndoInv, NEW p \in Procs, Stop(p)
  PROVE  OneAtATime' /\ TablesLoaded' /\ OwnOutside' /\ KeptInside'
         /\ PlaceInSession' /\ HeldIsOwn'
<1> USE DEF UndoInv
<1>0. Sequential
  BY OperatorAssumption DEF DocumentedUse
<1>1. CASE StopBegin(p)
  <2>1. /\ pc' = [pc EXCEPT ![p] = "flushNat"] /\ AllIdle
        /\ session' = "stopping" /\ UNCHANGED hostVars
    BY <1>0, <1>1 DEF StopBegin, Begin
  <2>2. ~risked' => ~risked /\ (session # "off" \/ backup = {OwnFile})
    BY <1>1 DEF StopBegin, DocumentedUse, TypeOK
  <2>3. OneAtATime' /\ PlaceInSession' /\ HeldIsOwn'
    BY <2>1, OnlyMover DEF Outside
  <2> QED BY <2>1, <2>2, <2>3 DEF hostVars, TablesLoaded, OwnOutside, KeptInside
<1>2. CASE FlushNat(p) \/ FlushPre(p) \/ FlushPreIgnored(p) \/ FlushFilter(p)
           \/ FlushFilterIgnored(p) \/ LookForBackup(p)
  <2>1. /\ session # "off" /\ pc[p] # "idle"
        /\ UNCHANGED <<backup, session, risked, held>>
    BY <1>2 DEF FlushNat, FlushPre, FlushPreIgnored, FlushFilter, FlushFilterIgnored,
                LookForBackup, PlaceInSession, Inside, Outside, PCs, hostVars
  <2>2. PICK l \in {"flushPre", "flushFilter", "look", "restore"} :
          pc' = [pc EXCEPT ![p] = l]
    BY <1>2 DEF FlushNat, FlushPre, FlushPreIgnored, FlushFilter, FlushFilterIgnored,
                LookForBackup, Goto
  <2>3. OneAtATime' /\ PlaceInSession' /\ HeldIsOwn'
    BY <2>1, <2>2, OnlyMover DEF Outside
  <2>4. TablesLoaded'
    BY <1>2 DEF FlushNat, FlushPre, FlushPreIgnored, FlushFilter, FlushFilterIgnored,
                LookForBackup, hostVars, TablesLoaded, Tables
  <2> QED BY <2>1, <2>3, <2>4 DEF OwnOutside, KeptInside
<1>3. CASE FlushNatFails(p) \/ RestoreMissing(p)
  <2>1. PICK r : Return(p, r)
    BY <1>3 DEF FlushNatFails, RestoreMissing
  <2>2. UNCHANGED <<hostVars, session, risked>>
    BY <1>3 DEF FlushNatFails, RestoreMissing
  <2> QED BY <2>1, <2>2, ReturnKeepsPlaces DEF hostVars, TablesLoaded, OwnOutside, KeptInside
<1>4. CASE NoBackup(p)
  \* Inside a session there is a backup: this stop had none when it was called.
  <2>1. session # "off" /\ Return(p, "stopped") /\ pc[p] # "idle"
    BY <1>4 DEF NoBackup, PlaceInSession, Inside, Outside, PCs
  <2>2. risked /\ risked'
    BY <1>4, <2>1 DEF NoBackup, KeptInside
  <2> QED BY <1>4, <2>1, <2>2, ReturnKeepsPlaces
          DEF NoBackup, hostVars, TablesLoaded, OwnOutside, KeptInside
<1>5. CASE RestoreRules(p)
  <2>1. session # "off" /\ pc[p] # "idle"
    BY <1>5 DEF RestoreRules, PlaceInSession, Inside, Outside, PCs
  <2>2. ~risked' => rules' = Own
    BY <1>5, <2>1, FullReplay DEF RestoreRules, KeptInside
  <2>3. TablesLoaded'
    <3>1. PICK file \in backup :
            loaded' = loaded \cup {TableOf[c] : c \in DOMAIN file}
      BY <1>5 DEF RestoreRules
    <3>2. DOMAIN file \subseteq Chains
      BY DEF TypeOK, IsSnapshot, Held
    <3> QED BY <3>1, <3>2, ChainTables DEF TablesLoaded
  <2>4. OneAtATime' /\ PlaceInSession' /\ HeldIsOwn'
    BY <1>5, <2>1, OnlyMover DEF RestoreRules, Goto, Outside, Inside
  <2> QED BY <1>5, <2>2, <2>3, <2>4 DEF RestoreRules, OwnOutside, KeptInside
<1>6. CASE RestoreFails(p)
  <2>1. /\ session # "off" /\ pc[p] # "idle" /\ Return(p, "warned")
        /\ UNCHANGED <<backup, session, risked>>
    BY <1>6 DEF RestoreFails, PlaceInSession, Inside, Outside, PCs
  <2>2. TablesLoaded'
    BY <1>6 DEF RestoreFails, TablesLoaded
  <2> QED BY <2>1, <2>2, ReturnKeepsPlaces DEF OwnOutside, KeptInside
<1>7. CASE Unlink(p)
  <2>1. session = "off" /\ Return(p, "stopped") /\ UNCHANGED <<rules, loaded, session, risked>>
    BY <1>7 DEF Unlink, PlaceInSession, Outside
  <2> QED BY <2>1, ReturnKeepsPlaces DEF OwnOutside, KeptInside, TablesLoaded
<1> QED BY <1>1, <1>2, <1>3, <1>4, <1>5, <1>6, <1>7 DEF Stop

\* Every step keeps the undo invariant.
LEMMA StepUndo == DocumentedUse /\ UndoInv /\ [Next]_vars => UndoInv'
<1> SUFFICES ASSUME DocumentedUse, UndoInv, [Next]_vars PROVE UndoInv'
  OBVIOUS
<1>0. TypeOK'
  BY StepType DEF UndoInv
<1>1. ASSUME NEW p \in Procs, Start(p) \/ Stop(p) PROVE UndoInv'
  BY <1>0, <1>1, StartUndo, StopUndo DEF UndoInv
<1>2. ASSUME NEW p \in Procs, RefuseNonRoot(p) \/ Crash(p) PROVE UndoInv'
  <2>1. PICK r : Return(p, r)
    BY <1>2 DEF RefuseNonRoot, Crash
  <2>2. UNCHANGED <<hostVars, session, risked>>
    BY <1>2 DEF RefuseNonRoot, Crash
  <2> QED BY <1>0, <2>1, <2>2, ReturnKeepsPlaces
          DEF UndoInv, hostVars, TablesLoaded, OwnOutside, KeptInside
<1>3. CASE Reboot
  <2>1. OneAtATime' /\ PlaceInSession' /\ HeldIsOwn'
    BY <1>3 DEF Reboot, OneAtATime, PlaceInSession, HeldIsOwn, Outside, Inside
  <2> QED BY <1>0, <1>3, <2>1
          DEF Reboot, UndoInv, TablesLoaded, OwnOutside, KeptInside, DocumentedUse
<1>4. CASE UNCHANGED vars
  BY <1>0, <1>4 DEF vars, hostVars, procVars, UndoInv, OneAtATime, TablesLoaded,
                    OwnOutside, KeptInside, PlaceInSession, HeldIsOwn
<1> QED BY <1>1, <1>2, <1>3, <1>4 DEF Next

\* Under the documented use, the undo invariant holds for ever.
THEOREM UndoInvariant == ASSUME DocumentedUse PROVE Spec => []UndoInv
<1>1. Init => UndoInv
  BY InitUndo
<1>2. UndoInv /\ [Next]_vars => UndoInv'
  BY StepUndo
<1> QED BY <1>1, <1>2, PTL DEF Spec

\* While other rules are in force, the backup holds the user's own, after any
\* failure, kill or reboot: only a stop called without a backup can lose them.
THEOREM RulesAreRecoverable == ASSUME DocumentedUse PROVE Spec => []Recoverable
<1>1. UndoInv => Recoverable
  BY DEF UndoInv, OwnOutside, KeptInside, Recoverable
<1> QED BY <1>1, UndoInvariant, PTL

\* A stop that ends without a warning leaves the user's own rules, unless a
\* stop was called without a backup.
THEOREM StopRestoresRules == ASSUME DocumentedUse PROVE Spec => StopRestores
<1> DEFINE Ends == \A p \in Procs :
                     ret[p] = "none" /\ ret'[p] = "stopped"
                       => rules' = Own \/ risked
<1>1. UndoInv /\ [Next]_vars => [Ends]_vars
  <2> SUFFICES ASSUME UndoInv, Next, NEW q \in Procs,
                      ret[q] = "none", ret'[q] = "stopped", ~risked
               PROVE  rules' = Own
    OBVIOUS
  <2>1. ret' # ret /\ DOMAIN ret = Procs
    BY DEF UndoInv, TypeOK
  <2>2. CASE Reboot
    BY <2>2 DEF Reboot
  <2>3. CASE \E p \in Procs : Start(p) \/ Stop(p) \/ RefuseNonRoot(p) \/ Crash(p)
    <3>1. PICK p \in Procs : Start(p) \/ Stop(p) \/ RefuseNonRoot(p) \/ Crash(p)
      BY <2>3
    <3>2. NoBackup(p) \/ Unlink(p)
      BY <2>1, <3>1
      DEF Start, Stop, RefuseNonRoot, Crash, StartProbe, SaveRules, SaveNotFound,
          TruncateBackup, FillPart, FillBackup, WriteFails, AppendRule, AppendFails,
          AppendIgnored, Started, StopBegin, FlushNat, FlushNatFails, FlushPre,
          FlushPreIgnored, FlushFilter, FlushFilterIgnored, LookForBackup,
          RestoreRules, RestoreFails, RestoreMissing, Begin, Return, procVars
    <3>3. ~NoBackup(p)
      BY DEF NoBackup, UndoInv, PlaceInSession, KeptInside, Inside, Outside, PCs
    <3>4. CASE Unlink(p)
      BY <3>4 DEF Unlink, UndoInv, PlaceInSession, OwnOutside, Outside
    <3> QED BY <3>2, <3>3, <3>4
  <2> QED BY <2>2, <2>3 DEF Next
<1>2. Spec => [][Ends]_vars
  BY <1>1, UndoInvariant, PTL DEF Spec
<1> QED BY <1>2 DEF StopRestores

-----------------------------------------------------------------------------
(* The program implements the undo log *)

\* The backup file changes only where it is written, dropped or lost.
LEMMA BackupChanges ==
  ASSUME [Next]_vars, backup' # backup
  PROVE  \/ Reboot
         \/ \E p \in Procs : TruncateBackup(p) \/ FillPart(p) \/ FillBackup(p) \/ Unlink(p)
<1>1. CASE Reboot
  BY <1>1
<1>2. CASE UNCHANGED vars
  BY <1>2 DEF vars, hostVars
<1>3. CASE \E p \in Procs : Start(p) \/ Stop(p) \/ RefuseNonRoot(p) \/ Crash(p)
  <2>1. PICK p \in Procs : Start(p) \/ Stop(p) \/ RefuseNonRoot(p) \/ Crash(p)
    BY <1>3
  <2>2. TruncateBackup(p) \/ FillPart(p) \/ FillBackup(p) \/ Unlink(p)
    BY <2>1
    DEF Start, Stop, RefuseNonRoot, Crash, StartProbe, SaveRules, SaveNotFound,
        WriteFails, AppendRule, AppendFails, AppendIgnored, Started, StopBegin,
        FlushNat, FlushNatFails, FlushPre, FlushPreIgnored, FlushFilter,
        FlushFilterIgnored, LookForBackup, NoBackup, RestoreRules, RestoreFails,
        RestoreMissing, hostVars
  <2> QED BY <2>2
<1> QED BY <1>1, <1>2, <1>3 DEF Next

\* The session's risk is taken by a stop, and ends with a boot.
LEMMA RiskChanges ==
  ASSUME [Next]_vars, risked' # risked
  PROVE  Reboot \/ \E p \in Procs : StopBegin(p)
<1>1. CASE \E p \in Procs : Start(p) \/ Stop(p) \/ RefuseNonRoot(p) \/ Crash(p)
  <2>1. PICK p \in Procs : Start(p) \/ Stop(p) \/ RefuseNonRoot(p) \/ Crash(p)
    BY <1>1
  <2>2. StopBegin(p)
    BY <2>1
    DEF Start, Stop, RefuseNonRoot, Crash, StartProbe, SaveRules, SaveNotFound,
        TruncateBackup, FillPart, FillBackup, WriteFails, AppendRule, AppendFails,
        AppendIgnored, Started, FlushNat, FlushNatFails, FlushPre, FlushPreIgnored,
        FlushFilter, FlushFilterIgnored, LookForBackup, NoBackup, RestoreRules,
        RestoreFails, RestoreMissing, Unlink
  <2> QED BY <2>2
<1> QED BY <1>1 DEF Next, vars

\* Until then the rules in force are the user's own whenever no backup is kept.
Kept == backup = {OwnFile}

\* Every step is one of the undo log, or stutters there.
LEMMA LogStep ==
  ASSUME DocumentedUse, UndoInv, UndoInv', [Next]_vars
  PROVE  [Log!Next]_(Log!vars)
<1> USE DEF Kept
<1>0. risked \in BOOLEAN /\ risked' \in BOOLEAN
  BY DEF UndoInv, TypeOK
<1>1. (~risked /\ ~Kept => rules = Own) /\ (~risked' /\ ~Kept' => rules' = Own)
  BY DEF UndoInv, OwnOutside, KeptInside
<1>2. CASE Reboot
  BY <1>2 DEF Reboot, Log!Next, Log!Restart
<1>3. CASE risked /\ ~Reboot
  <2>1. risked'
    BY <1>0, <1>3, RiskChanges DEF StopBegin
  <2> QED BY <1>0, <1>3, <2>1 DEF Log!Next, Log!Unpromised
<1>4. CASE ~risked /\ risked' /\ ~Reboot
  <2>1. PICK p \in Procs : StopBegin(p)
    BY <1>4, RiskChanges
  <2>2. ~Kept /\ UNCHANGED <<rules, backup>>
    BY <1>4, <2>1 DEF StopBegin, hostVars
  <2> QED BY <1>0, <1>1, <1>4, <2>2 DEF Log!Next, Log!Risk
<1>5. CASE ~risked /\ ~risked' /\ ~Reboot
  <2>0. risked = FALSE /\ risked' = FALSE
    BY <1>0, <1>5
  <2>1. CASE Kept /\ Kept'
    BY <2>0, <2>1 DEF Log!Next, Log!Change
  <2>2. CASE ~Kept /\ ~Kept'
    BY <1>1, <2>0, <2>2 DEF Log!vars
  <2>3. ASSUME backup' # backup PROVE rules = Own /\ rules' = rules
    <3>1. PICK p \in Procs : TruncateBackup(p) \/ FillPart(p) \/ FillBackup(p) \/ Unlink(p)
      BY <1>5, <2>3, BackupChanges
    <3> QED BY <2>0, <3>1 DEF TruncateBackup, FillPart, FillBackup, Unlink, UndoInv,
                              PlaceInSession, OwnOutside, Outside
  <2>4. CASE Kept /\ ~Kept'
    BY <2>0, <2>3, <2>4 DEF Log!Next, Log!Drop
  <2>5. CASE ~Kept /\ Kept'
    BY <2>0, <2>3, <2>5 DEF Log!Next, Log!Keep
  <2> QED BY <2>1, <2>2, <2>4, <2>5
<1> QED BY <1>0, <1>2, <1>3, <1>4, <1>5

\* Every behaviour of the commands is one of the undo log.
THEOREM ImplementsUndoLog == ASSUME DocumentedUse PROVE Spec => KeepsUserRules
<1>1. Init => Log!Init
  BY DEF Init, HostInit, Log!Init
<1>2. UndoInv /\ UndoInv' /\ [Next]_vars => [Log!Next]_(Log!vars)
  BY LogStep
<1>3. Spec => Log!Spec
  BY <1>1, <1>2, UndoInvariant, PTL DEF Spec, Log!Spec
<1> QED BY <1>3 DEF KeepsUserRules
=============================================================================
