------------------------------- MODULE MCTunnel -------------------------------
(***************************************************************************)
(* Small instances of Tunnel.                                              *)
(***************************************************************************)
EXTENDS Tunnel

\* A request that may arrive in several segments.
AnySegments == {1, 2, 3}
===============================================================================
