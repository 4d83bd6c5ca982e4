----------------------------- MODULE Transparent -----------------------------
(***************************************************************************)
(* The commands transparent-start and transparent-stop of                  *)
(* src/src/transparent.rs.  Each runs as a process of its own that spawns  *)
(* one iptables program after another; every spawn may fail, the process   *)
(* may be killed between any two of them, and nothing stops a second       *)
(* command from running at the same time.                                  *)
(***************************************************************************)
EXTENDS Host

CONSTANTS
  Procs,      \* the commands that may run at the same time
  Sequential, \* TRUE: a command begins only when no other is running
  Careful,    \* TRUE: the operator follows the README and does not start on
              \* top of a session; a stop may be called at any time
  StartOptions, \* the options transparent-start is called with
  StopKill,   \* the kill_switch values stop_transparent is called with
  Faults,     \* what may fail
  MaxChain    \* bound: no start when a chain holds more rules than this

FaultKinds == {"spawn", "save", "write", "append", "flush", "restore", "unlink",
               "crash", "reboot"}

ASSUME ProcsAssumption    == Procs # {}
ASSUME OperatorAssumption == /\ {Sequential, Careful} \subseteq BOOLEAN
                             /\ Careful => Sequential
ASSUME FaultsAssumption   == Faults \subseteq FaultKinds
ASSUME MaxChainAssumption == MaxChain \in Nat

VARIABLES
  pc,       \* where each command is
  opt,      \* the options a command runs with, and whether DNSPort answered
  step,     \* the next rule of the plan that a start will append
  held,     \* what iptables-save has printed, before it is written
  ret,      \* how each command has ended
  session,  \* history: how far the operator's session has come
  promise,  \* history: the options of the session's completed start
  risked    \* history: since the machine came up, a careful operator has
            \* called a stop when no start had a backup ready for it

procVars == <<pc, opt, step, held, ret>>
vars     == <<hostVars, procVars, session, promise, risked>>

PCs     == {"idle", "save", "truncate", "fill", "append",
            "flushNat", "flushPre", "flushFilter", "look", "restore", "unlink"}
Options == [kill : BOOLEAN, lan : BOOLEAN, dns : BOOLEAN]
ASSUME OptionsAssumption == StartOptions \subseteq Options /\ StopKill \subseteq BOOLEAN

\* The one backup that brings the user's own rules back.
OwnFile == Saved(Own, InitLoaded)

NoOptions == [kill |-> FALSE, lan |-> FALSE, dns |-> FALSE]

Results  == {"none", "started", "stopped", "warned", "err"}
Sessions == {"off", "saved", "active", "stopping"}

(***************************************************************************)
(* The rules a start appends, in order.                                    *)
(***************************************************************************)
\* Mutant: the exclusions are appended after the redirection.
NatPlanRedirectFirst(o) ==
  <<"tcpRedirect", "torReturn", "loopReturn">>
  \o (IF o.lan THEN <<"lanReturn">> ELSE << >>)
  \o (IF o.dns THEN <<"udpDnsRedirect", "tcpDnsRedirect">> ELSE << >>)

NatPlan(o) ==
  <<"torReturn", "loopReturn">>
  \o (IF o.lan THEN <<"lanReturn">> ELSE << >>)
  \o <<"tcpRedirect">>
  \o (IF o.dns THEN <<"udpDnsRedirect", "tcpDnsRedirect">> ELSE << >>)

KillPlan(o) == IF o.kill THEN <<"torAccept", "loopAccept", "tcpReject">> ELSE << >>

Plan(o) == NatPlan(o) \o <<"dohReject">> \o KillPlan(o)

\* Mutant: the command that lays a nat rule does not name its table.
ChainOfNoTable(r) == "filterOutput"

ChainOf(r) == IF r \in NatRules THEN "natOutput" ELSE "filterOutput"

\* Mutants: one more run_iptables call whose error is dropped.
ToleratedKill     == {"dohReject", "tcpReject"}
ToleratedRedirect == {"dohReject", "tcpRedirect"}

\* The rules whose failure start_transparent ignores (let _ = run_iptables).
Tolerated == {"dohReject"}

\* Every rule stands in a chain of its own table, in force, in the backup and
\* in what a start has saved: appending, saving, writing a part of the file and
\* replaying it never take a rule to another table.
TypeOK ==
  /\ rules \in [Chains -> Seq(Rule)] /\ Placed(rules)
  /\ loaded \subseteq Tables
  /\ \A file \in backup : IsSnapshot(file)
  /\ pc \in [Procs -> PCs]
  /\ opt \in [Procs -> Options]
  /\ step \in [Procs -> Nat \ {0}]
  /\ DOMAIN held = Procs /\ \A p \in Procs : IsSnapshot(held[p])
  /\ ret \in [Procs -> Results]
  /\ session \in Sessions
  /\ promise \in Options
  /\ risked \in BOOLEAN

Init ==
  /\ HostInit
  /\ pc = [p \in Procs |-> "idle"]
  /\ opt = [p \in Procs |-> NoOptions]
  /\ step = [p \in Procs |-> 1]
  /\ held = [p \in Procs |-> EmptyFile]
  /\ ret = [p \in Procs |-> "none"]
  /\ session = "off"
  /\ promise = NoOptions
  /\ risked = FALSE

AllIdle == \A p \in Procs : pc[p] = "idle"

MayFail(kind) == kind \in Faults

Goto(p, l) == pc' = [pc EXCEPT ![p] = l]

\* A command ends and reports r; its locals die with it.
Return(p, r) ==
  /\ pc' = [pc EXCEPT ![p] = "idle"]
  /\ opt' = [opt EXCEPT ![p] = NoOptions]
  /\ step' = [step EXCEPT ![p] = 1]
  /\ held' = [held EXCEPT ![p] = EmptyFile]
  /\ ret' = [ret EXCEPT ![p] = r]

Begin(p, l, o) ==
  /\ pc[p] = "idle"
  /\ Sequential => AllIdle
  /\ pc' = [pc EXCEPT ![p] = l]
  /\ opt' = [opt EXCEPT ![p] = o]
  /\ ret' = [ret EXCEPT ![p] = "none"]
  /\ UNCHANGED <<step, held>>

-----------------------------------------------------------------------------
(* transparent-start *)

\* check_root, then the ports: only DNSPort's answer changes what follows.
StartProbe(p) ==
  /\ Careful => session = "off"
  /\ \A c \in Chains : Len(rules[c]) <= MaxChain
  /\ \E o \in StartOptions : Begin(p, "save", o)
  /\ UNCHANGED <<hostVars, session, promise, risked>>

\* Either command, run without root: check_root fails before anything else.
RefuseNonRoot(p) ==
  /\ pc[p] = "idle"
  /\ Return(p, "err")
  /\ UNCHANGED <<hostVars, session, promise, risked>>

\* iptables-save: its exit status is not looked at, so that a run that
\* failed is a run that printed nothing.
SaveRules(p) ==
  /\ pc[p] = "save"
  /\ \E out \in {Saved(rules, loaded)}
                \cup (IF MayFail("save") THEN {EmptyFile} ELSE {}) :
       held' = [held EXCEPT ![p] = out]
  /\ Goto(p, "truncate")
  /\ UNCHANGED <<hostVars, opt, step, ret, session, promise, risked>>

\* Mutant: let _ = backup_iptables(..), the start goes on without a backup.
SaveNotFoundIgnored(p) ==
  /\ pc[p] = "save" /\ MayFail("spawn")
  /\ Goto(p, "append")
  /\ session' = "saved"
  /\ UNCHANGED <<hostVars, opt, step, held, ret, promise, risked>>

SaveNotFound(p) ==
  /\ pc[p] = "save" /\ MayFail("spawn")
  /\ Return(p, "err")
  /\ UNCHANGED <<hostVars, session, promise, risked>>

\* fs::write creates the file, or truncates the one of an earlier start ...
TruncateBackup(p) ==
  /\ pc[p] = "truncate"
  /\ backup' = {EmptyFile}
  /\ Goto(p, "fill")
  /\ UNCHANGED <<rules, loaded, opt, step, held, ret, session, promise, risked>>

\* ... and then writes the rules into it.
FillBackup(p) ==
  /\ pc[p] = "fill"
  /\ backup' = {held[p]}
  /\ Goto(p, "append")
  /\ session' = "saved"
  /\ promise' = NoOptions
  /\ UNCHANGED <<rules, loaded, opt, step, held, ret, risked>>

\* The disk takes a part of the file: the tables written so far.
FillPart(p) ==
  /\ pc[p] = "fill" /\ MayFail("write")
  /\ \E ts \in SUBSET Tables : backup' = {Part(held[p], ts)}
  /\ UNCHANGED <<rules, loaded, procVars, session, promise, risked>>

WriteFails(p) ==
  /\ pc[p] \in {"truncate", "fill"} /\ MayFail("write")
  /\ Return(p, "err")
  /\ UNCHANGED <<hostVars, session, promise, risked>>

Planned(p)  == step[p] <= Len(Plan(opt[p]))
NextRule(p) == Plan(opt[p])[step[p]]

AppendRule(p) ==
  /\ pc[p] = "append" /\ Planned(p)
  /\ rules' = [rules EXCEPT ![ChainOf(NextRule(p))] = Append(@, NextRule(p))]
  /\ loaded' = loaded \cup {TableOf[ChainOf(NextRule(p))]}
  /\ step' = [step EXCEPT ![p] = @ + 1]
  /\ UNCHANGED <<backup, pc, opt, held, ret, session, promise, risked>>

\* run_iptables(..)? : the rules appended so far stay.
AppendFails(p) ==
  /\ pc[p] = "append" /\ Planned(p) /\ MayFail("append")
  /\ NextRule(p) \notin Tolerated
  /\ Return(p, "err")
  /\ UNCHANGED <<hostVars, session, promise, risked>>

AppendIgnored(p) ==
  /\ pc[p] = "append" /\ Planned(p) /\ MayFail("append")
  /\ NextRule(p) \in Tolerated
  /\ step' = [step EXCEPT ![p] = @ + 1]
  /\ UNCHANGED <<hostVars, pc, opt, held, ret, session, promise, risked>>

Started(p) ==
  /\ pc[p] = "append" /\ ~Planned(p)
  /\ Return(p, "started")
  /\ session' = "active"
  /\ promise' = opt[p]
  /\ UNCHANGED <<hostVars, risked>>

Start(p) ==
  \/ StartProbe(p) \/ SaveRules(p) \/ SaveNotFound(p)
  \/ TruncateBackup(p) \/ FillPart(p) \/ FillBackup(p) \/ WriteFails(p)
  \/ AppendRule(p) \/ AppendFails(p) \/ AppendIgnored(p) \/ Started(p)

-----------------------------------------------------------------------------
(* transparent-stop *)

\* The command line always passes the default configuration, whose
\* kill_switch is FALSE; a caller of the library may pass another.  Nothing
\* is asked of the session: the command also runs when nothing was started,
\* or when the start was cut short before it had written its backup.
StopBegin(p) ==
  /\ \E kill \in StopKill :
       Begin(p, "flushNat", [NoOptions EXCEPT !.kill = kill])
  /\ session' = "stopping"
  /\ risked' = (risked \/ (Careful /\ session = "off" /\ backup # {OwnFile}))
  /\ UNCHANGED <<hostVars, promise>>

FlushNat(p) ==
  /\ pc[p] = "flushNat"
  /\ rules' = [rules EXCEPT !["natOutput"] = << >>]
  /\ loaded' = loaded \cup {"nat"}
  /\ Goto(p, "flushPre")
  /\ UNCHANGED <<backup, opt, step, held, ret, session, promise, risked>>

FlushNatFails(p) ==
  /\ pc[p] = "flushNat" /\ MayFail("flush")
  /\ Return(p, "err")
  /\ UNCHANGED <<hostVars, session, promise, risked>>

\* Mutant: the filter table is flushed whatever config.kill_switch says.
FlushPreUnconditional(p) ==
  /\ pc[p] = "flushPre"
  /\ rules' = [rules EXCEPT !["natPrerouting"] = << >>]
  /\ Goto(p, "flushFilter")
  /\ UNCHANGED <<loaded, backup, opt, step, held, ret, session, promise, risked>>

\* let _ = run_iptables(-F PREROUTING)
FlushPre(p) ==
  /\ pc[p] = "flushPre"
  /\ rules' = [rules EXCEPT !["natPrerouting"] = << >>]
  /\ Goto(p, IF opt[p].kill THEN "flushFilter" ELSE "look")
  /\ UNCHANGED <<loaded, backup, opt, step, held, ret, session, promise, risked>>

FlushPreIgnored(p) ==
  /\ pc[p] = "flushPre" /\ MayFail("flush")
  /\ Goto(p, IF opt[p].kill THEN "flushFilter" ELSE "look")
  /\ UNCHANGED <<hostVars, opt, step, held, ret, session, promise, risked>>

\* let _ = run_iptables(-F OUTPUT), the filter table's: the kill switch is off.
FlushFilter(p) ==
  /\ pc[p] = "flushFilter"
  /\ rules' = [rules EXCEPT !["filterOutput"] = << >>]
  /\ loaded' = loaded \cup {"filter"}
  /\ Goto(p, "look")
  /\ promise' = [promise EXCEPT !.kill = FALSE]
  /\ UNCHANGED <<backup, opt, step, held, ret, session, risked>>

FlushFilterIgnored(p) ==
  /\ pc[p] = "flushFilter" /\ MayFail("flush")
  /\ Goto(p, "look")
  /\ UNCHANGED <<hostVars, opt, step, held, ret, session, promise, risked>>

\* backup_file.exists(): without a backup the command ends here, and says
\* that the network is back to normal.
LookForBackup(p) ==
  /\ pc[p] = "look" /\ backup # {}
  /\ Goto(p, "restore")
  /\ UNCHANGED <<hostVars, opt, step, held, ret, session, promise, risked>>

NoBackup(p) ==
  /\ pc[p] = "look" /\ backup = {}
  /\ Return(p, "stopped")
  /\ session' = "off"
  /\ promise' = NoOptions
  /\ UNCHANGED <<hostVars, risked>>

RestoreRules(p) ==
  /\ pc[p] = "restore"
  /\ \E file \in backup :
       /\ rules' = Replayed(rules, file, Tables)
       /\ loaded' = loaded \cup {TableOf[c] : c \in DOMAIN file}
  /\ Goto(p, "unlink")
  /\ session' = "off"
  /\ promise' = NoOptions
  /\ UNCHANGED <<backup, opt, step, held, ret, risked>>

\* Mutant: the exit status of iptables-restore is not looked at.
RestoreFailsUnnoticed(p) ==
  /\ pc[p] = "restore" /\ MayFail("restore")
  /\ \E ts \in SUBSET Tables, file \in backup :
       /\ ts # Tables
       /\ rules' = Replayed(rules, file, ts)
       /\ loaded' = loaded \cup (ts \cap {TableOf[c] : c \in DOMAIN file})
       /\ promise' = [promise EXCEPT !.kill = @ /\ "filter" \notin ts]
  /\ Return(p, "stopped")
  /\ UNCHANGED <<backup, session, risked>>

\* Mutant: the backup is removed whether it could be replayed or not.
RestoreFailsAndRemoves(p) ==
  /\ pc[p] = "restore" /\ MayFail("restore")
  /\ \E ts \in SUBSET Tables, file \in backup :
       /\ ts # Tables
       /\ rules' = Replayed(rules, file, ts)
       /\ loaded' = loaded \cup (ts \cap {TableOf[c] : c \in DOMAIN file})
       /\ promise' = [promise EXCEPT !.kill = @ /\ "filter" \notin ts]
  /\ Return(p, "warned")
  /\ backup' = {}
  /\ UNCHANGED <<session, risked>>

\* iptables-restore commits one table at a time and may fail after some of
\* them; the command warns, keeps the backup and still ends with Ok.
RestoreFails(p) ==
  /\ pc[p] = "restore" /\ MayFail("restore")
  /\ \E ts \in SUBSET Tables, file \in backup :
       /\ ts # Tables
       /\ rules' = Replayed(rules, file, ts)
       /\ loaded' = loaded \cup (ts \cap {TableOf[c] : c \in DOMAIN file})
       /\ promise' = [promise EXCEPT !.kill = @ /\ "filter" \notin ts]
  /\ Return(p, "warned")
  /\ UNCHANGED <<backup, session, risked>>

\* The file was there when it was looked for, and is not any more.
RestoreMissing(p) ==
  /\ pc[p] = "restore" /\ backup = {}
  /\ Return(p, "warned")
  /\ UNCHANGED <<hostVars, session, promise, risked>>

\* let _ = fs::remove_file(..)
Unlink(p) ==
  /\ pc[p] = "unlink"
  /\ backup' \in {{}} \cup (IF MayFail("unlink") THEN {backup} ELSE {})
  /\ Return(p, "stopped")
  /\ UNCHANGED <<rules, loaded, session, promise, risked>>

Stop(p) ==
  \/ StopBegin(p) \/ FlushNat(p) \/ FlushNatFails(p)
  \/ FlushPre(p) \/ FlushPreIgnored(p) \/ FlushFilter(p) \/ FlushFilterIgnored(p)
  \/ LookForBackup(p) \/ NoBackup(p)
  \/ RestoreRules(p) \/ RestoreFails(p) \/ RestoreMissing(p) \/ Unlink(p)

-----------------------------------------------------------------------------
\* The process is killed between two steps: the host keeps what was done.
Crash(p) ==
  /\ pc[p] # "idle" /\ MayFail("crash")
  /\ Return(p, "none")
  /\ UNCHANGED <<hostVars, session, promise, risked>>

\* The kernel forgets its rules and the boot scripts lay the user's own
\* again; the temp directory may or may not survive.
Reboot ==
  /\ MayFail("reboot")
  /\ rules' = Own
  /\ loaded' = InitLoaded
  /\ backup' \in {backup, {}}
  /\ pc' = [p \in Procs |-> "idle"]
  /\ opt' = [p \in Procs |-> NoOptions]
  /\ step' = [p \in Procs |-> 1]
  /\ held' = [p \in Procs |-> EmptyFile]
  /\ ret' = [p \in Procs |-> "none"]
  /\ session' = "off"
  /\ promise' = NoOptions
  /\ risked' = FALSE

Next ==
  \/ \E p \in Procs : Start(p) \/ Stop(p) \/ RefuseNonRoot(p) \/ Crash(p)
  \/ Reboot

Spec == Init /\ [][Next]_vars

-----------------------------------------------------------------------------
(* Properties *)

NatOut    == rules["natOutput"]
FilterOut == rules["filterOutput"]
RouteOf(p) == Route(NatOut, FilterOut, p)

\* Whatever has failed and wherever a command was killed, while the rules in
\* force are not the user's own the backup file holds exactly those.  There is
\* one way to lose them: a stop called when no start has got as far as a
\* complete backup, as after a start that was killed, or met a full disk, while
\* it wrote the file.  That stop flushes the user's nat rules all the same.
Recoverable == ~risked => rules = Own \/ backup = {OwnFile}

\* A stop that ends without a warning ("Network returned to normal") leaves
\* the user's own rules, all of them, and none of nofind's, if no stop was ever
\* called without a backup ready for it.
StopRestores ==
  [][\A p \in Procs : ret[p] = "none" /\ ret'[p] = "stopped"
                        => rules' = Own \/ risked]_vars

\* From the end of a start with --kill-switch to the moment a stop lifts it,
\* no TCP packet of the user's goes out by itself, whatever fails: not on a
\* connection opened before the start, and not while a stop has flushed the
\* nat rules and has not yet restored the filter rules.
KillSwitchHolds ==
  promise.kill =>
    \A p \in Packet \ UserAccepts :
      p.owner = "user" /\ Tcp(p) /\ p.dst # "loopback" => RouteOf(p) # "direct"

\* Tor's own traffic always leaves the machine: it is never handed back to
\* Tor and never rejected, however many starts were begun, failed or killed.
TorReachesNetwork ==
  \A p \in Packet :
    p.owner = "tor" /\ Tcp(p) /\ p.dst \in {"lan", "internet"} => RouteOf(p) = "direct"

\* Once a start has ended with Ok, every connection the user opens to the
\* internet goes to Tor, and so does a DNS query when DNSPort answered.
Anonymous ==
  session = "active" =>
    \A p \in Packet :
      p.owner = "user" /\ p.conn = "new" /\ p.dst \in {"internet", "doh"} =>
        /\ Tcp(p) => RouteOf(p) = "TransPort"
        /\ Udp(p) /\ p.port = "dns" /\ promise.dns => RouteOf(p) = "DNSPort"

\* With --local-network (and no kill switch) the local network is left alone.
LanExcluded ==
  session = "active" /\ promise.lan /\ ~promise.kill =>
    \A p \in Packet : p.dst = "lan" => RouteOf(p) = "direct"

\* The user's own filter rules stay at the head of their chain, in order,
\* whatever commands run at the same time: a stop that does not lift the kill
\* switch never flushes that table, and no backup it may replay, not even the
\* one another start is writing, leaves them out.
StartsWith(chain, own) ==
  Len(own) <= Len(chain) /\ \A i \in 1..Len(own) : chain[i] = own[i]

UserFilterKept == StartsWith(FilterOut, Own["filterOutput"])

\* The program keeps the user's rules the way an undo log does, up to the
\* first undo that is called when nothing is kept.
Log == INSTANCE UndoLog WITH
  live <- IF rules = Own THEN "own" ELSE "other",
  kept <- backup = {OwnFile}

KeepsUserRules == Log!Spec

\* transparent.rs:149 and 165: DNS-over-HTTPS providers are blocked.
DohBlocked ==
  session = "active" =>
    \A p \in Packet :
      p.owner = "user" /\ Tcp(p) /\ p.dst = "doh" /\ p.port = "https"
        => RouteOf(p) = "blocked"
=============================================================================
