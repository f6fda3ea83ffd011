-------------------------------- MODULE MCGate --------------------------------
(* An instance of Gate for TLC. *)
EXTENDS Gate

CONSTANTS c1, c2, p1, p2
=============================================================================
