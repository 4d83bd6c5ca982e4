------------------------------ MODULE Connection ------------------------------
(***************************************************************************)
(* What becomes of one connection to the local HTTP proxy: it is read      *)
(* once, and is then a tunnel or one request.  A tunnel lasts until both   *)
(* of its directions have ended; before that a connection may be given up  *)
(* at any point, and the end of the program ends everything.               *)
(***************************************************************************)
CONSTANT Dirs  \* the directions of a tunnel

VARIABLES
  phase,  \* how far the connection has come
  open,   \* the directions that are being relayed
  cut     \* the program has exited

connectionVars == <<phase, open, cut>>

Phases == {"new", "dial", "shake", "relay", "fetch", "wait", "answer", "over"}

Init == phase = "new" /\ open = {} /\ ~cut

Move(from, to) == phase = from /\ phase' = to /\ UNCHANGED <<open, cut>>

Begin == Move("new", "dial") \/ Move("new", "fetch")

Reach == Move("dial", "shake") \/ Move("fetch", "wait")

Establish == phase = "shake" /\ phase' = "relay" /\ open' = Dirs /\ UNCHANGED cut

EndDirection ==
  /\ phase = "relay" /\ \E d \in open : open' = open \ {d}
  /\ UNCHANGED <<phase, cut>>

Close == open = {} /\ Move("relay", "over")

Answer == Move("wait", "answer") \/ Move("answer", "over")

GiveUp ==
  /\ phase \notin {"relay", "over"} /\ phase' = "over"
  /\ UNCHANGED <<open, cut>>

Cut == cut' = TRUE /\ phase' \in {phase, "over"} /\ open' = {}

Next ==
  \/ Begin \/ Reach \/ Establish \/ EndDirection \/ Close \/ Answer \/ GiveUp
  \/ ~cut /\ Cut

Spec == Init /\ [][Next]_connectionVars
===============================================================================
