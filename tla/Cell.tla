--------------------------------- MODULE Cell ---------------------------------
(***************************************************************************)
(* What the vault promises to whoever opens it: there is none, or there is *)
(* a whole one, sealed with one password.  It appears whole and in one     *)
(* step.  A vault is ruined before it goes away, and nothing else ruins    *)
(* one.                                                                    *)
(***************************************************************************)
CONSTANT Passwords

VARIABLE cell

Init == cell = "absent"

Create == cell = "absent" /\ cell' \in Passwords

Ruin == cell # "absent" /\ cell' = "ruined"

Remove == cell = "ruined" /\ cell' = "absent"

Next == Create \/ Ruin \/ Remove

Spec == Init /\ [][Next]_cell
===============================================================================
