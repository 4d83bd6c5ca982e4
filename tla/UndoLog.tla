------------------------------- MODULE UndoLog -------------------------------
(***************************************************************************)
(* What the transparent proxy promises about the user's firewall: the      *)
(* user's own rules are in force, or a copy of them is kept, or both.      *)
(* They may be changed only while the copy is kept, and the copy may be    *)
(* dropped only while they are in force.  The promise ends with an undo    *)
(* that is called when nothing is kept, until the machine restarts.        *)
(***************************************************************************)
VARIABLES
  live,   \* "own": the user's rules are in force; "other": some others are
  kept,   \* TRUE: a faithful copy of the user's rules is kept
  risked  \* TRUE: an undo was called without a copy

vars == <<live, kept, risked>>

Init == live = "own" /\ kept = FALSE /\ risked = FALSE

Keep ==
  /\ live = "own" /\ kept = FALSE
  /\ kept' = TRUE
  /\ UNCHANGED <<live, risked>>

Change ==
  /\ kept = TRUE
  /\ live' \in {"own", "other"}
  /\ UNCHANGED <<kept, risked>>

Drop ==
  /\ live = "own" /\ kept = TRUE
  /\ kept' = FALSE
  /\ UNCHANGED <<live, risked>>

\* The undo that has nothing to go back to ...
Risk ==
  /\ live = "own" /\ kept = FALSE
  /\ risked' = TRUE
  /\ UNCHANGED <<live, kept>>

\* ... after which nothing is promised.
Unpromised ==
  /\ risked = TRUE
  /\ live' \in {"own", "other"}
  /\ kept' \in BOOLEAN
  /\ UNCHANGED risked

\* The machine restarts with the user's rules, with or without its temp files.
Restart ==
  /\ live' = "own"
  /\ kept' \in {kept, FALSE}
  /\ risked' = FALSE

Next == Keep \/ Change \/ Drop \/ Risk \/ Unpromised \/ Restart

Spec == Init /\ [][Next]_vars
==============================================================================
