----------------------------- MODULE MCLeakCheck -----------------------------
(***************************************************************************)
(* A small instance of LeakCheck: two domains, so that a result follows    *)
(* another, and two addresses, whose order a provider may change.          *)
(***************************************************************************)
EXTENDS LeakCheck

Address(x) == [type |-> "A", data |-> x]
Alias      == [type |-> "CNAME", data |-> "alias"]

MCAnswers ==
  {<< >>, <<Alias, Address("a1")>>, <<Address("a1"), Address("a2")>>,
   <<Address("a2"), Address("a1")>>}
===============================================================================
