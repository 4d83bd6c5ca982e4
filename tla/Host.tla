-------------------------------- MODULE Host --------------------------------
(***************************************************************************)
(* The machine nofind runs on, as transparent.rs and security.rs touch it: *)
(* the kernel's rule chains, the tables the kernel has loaded, and the     *)
(* backup file in the temp directory.                                      *)
(***************************************************************************)
EXTENDS Netfilter, FiniteSets

CONSTANTS
  UserRules,   \* names of the rules that are the user's own
  Own,         \* the user's own rules, before nofind first runs
  InitLoaded   \* the tables the kernel has loaded at that time

Tables  == {"nat", "filter"}
Chains  == {"natOutput", "natPrerouting", "filterOutput"}
TableOf == [natOutput |-> "nat", natPrerouting |-> "nat", filterOutput |-> "filter"]

ASSUME UserRulesAssumption == UserRules \cap NofindRules = {}
ASSUME OwnAssumption == Own \in [Chains -> Seq(UserRules)]
\* A table that is not loaded holds no rule.
ASSUME LoadedAssumption ==
  /\ InitLoaded \subseteq Tables
  /\ \A c \in Chains : TableOf[c] \notin InitLoaded => Own[c] = << >>

VARIABLES
  rules,    \* chain -> the rules it holds
  loaded,   \* the tables the kernel has loaded
  backup    \* {} when there is no backup file, else {what it holds}

hostVars == <<rules, loaded, backup>>

Rule      == UserRules \cup NofindRules
Held(ts)  == {c \in Chains : TableOf[c] \in ts}

\* The rules that may stand in a chain: the user's, and nofind's of its table.
RulesIn == [natOutput |-> UserRules \cup NatRules, natPrerouting |-> UserRules,
            filterOutput |-> UserRules \cup FilterRules]

Placed(f) == \A c \in DOMAIN f : f[c] \in Seq(RulesIn[c])

\* A snapshot maps the chains of some tables to their rules.
IsSnapshot(f) == /\ \E ts \in SUBSET Tables : DOMAIN f = Held(ts)
                 /\ f \in [DOMAIN f -> Seq(Rule)]
                 /\ Placed(f)

\* What iptables-save prints: the chains of the loaded tables, and no other.
Saved(rs, ts) == [c \in Held(ts) |-> rs[c]]
EmptyFile     == [c \in {} |-> << >>]

\* The part of a file that is about the tables ts.
Part(file, ts) == [c \in DOMAIN file \cap Held(ts) |-> file[c]]

\* What iptables-restore leaves when it replays the part of a file that is
\* about the tables ts: the chains named there are replaced, the others stay.
Replayed(rs, file, ts) ==
  [c \in Chains |-> IF c \in DOMAIN file \cap Held(ts) THEN file[c] ELSE rs[c]]

HostInit ==
  /\ rules = Own
  /\ loaded = InitLoaded
  /\ backup = {}
==============================================================================
