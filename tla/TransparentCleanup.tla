-------------------------- MODULE TransparentCleanup --------------------------
(***************************************************************************)
(* The transparent-proxy commands and a session cleaning on one machine.   *)
(* They share the temp directory: the backup of the user's firewall rules  *)
(* is an entry the cleaning removes.                                       *)
(***************************************************************************)
EXTENDS Transparent, SessionCleanup

allVars == <<vars, cleanVars>>

CInit == Init /\ CleanInit

\* What a step of a command does to the history of the cleaning.
CommandStep ==
  /\ Next
  /\ UNCHANGED <<files, cpc, todo, errors, cret>>
  /\ doomed' = doomed \cap Present'

CleaningStep == CleanStep /\ UNCHANGED <<procVars, session, promise, risked>>

CNext == CommandStep \/ CleaningStep

CSpec == CInit /\ [][CNext]_allVars
===============================================================================
