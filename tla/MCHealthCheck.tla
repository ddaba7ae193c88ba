--------------------------- MODULE MCHealthCheck ----------------------------
(***************************************************************************)
(* HealthCheck with two checkers that watch each other and a node in the   *)
(* second one's list.                                                      *)
(***************************************************************************)
EXTENDS HealthInv

MCOwner == [n \in Nodes |-> 2]
=============================================================================
