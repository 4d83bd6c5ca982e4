------------------------------ MODULE ByteStream ------------------------------
(***************************************************************************)
(* What one direction of a tunnel promises: the receiver gets a prefix of  *)
(* what the sender has sent, in order and once, and is told of the end     *)
(* only when it has everything of a sender that closed, unless something   *)
(* has broken.                                                             *)
(***************************************************************************)
EXTENDS Naturals, Sequences

VARIABLES
  sent,    \* what the sender has sent
  got,     \* what the receiver has received
  closed,  \* the sender will send nothing more
  broken,  \* an end has left, or the tunnel was never established
  ended    \* the receiver has been told that nothing more comes

vars == <<sent, got, closed, broken, ended>>

Init == sent = << >> /\ got = << >> /\ ~closed /\ ~broken /\ ~ended

\* The last of it may come with the end.
Send ==
  /\ ~closed
  /\ Len(sent) < Len(sent') /\ SubSeq(sent', 1, Len(sent)) = sent
  /\ closed' \in BOOLEAN
  /\ UNCHANGED <<got, broken, ended>>

Deliver ==
  /\ ~ended /\ Len(got) < Len(sent)
  /\ got' = Append(got, sent[Len(got) + 1])
  /\ UNCHANGED <<sent, closed, broken, ended>>

Close ==
  /\ closed' = TRUE
  /\ UNCHANGED <<sent, got, broken, ended>>

Break ==
  /\ broken' = TRUE
  /\ closed' \in {closed, TRUE}
  /\ UNCHANGED <<sent, got, ended>>

End ==
  /\ broken \/ (closed /\ got = sent)
  /\ ended' = TRUE
  /\ UNCHANGED <<sent, got, closed, broken>>

Next == Send \/ Deliver \/ Close \/ Break \/ End

Spec == Init /\ [][Next]_vars
===============================================================================
