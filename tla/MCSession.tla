------------------------------ MODULE MCSession ------------------------------
(* An instance of SessionTable for TLC: two clients compete for one place, one
   of them sends enough messages for the arrays of its queue to be swapped. *)
EXTENDS SessionTable

CONSTANTS s1, s2

MCMsgsOf == [s \in Sids |-> IF s = s1 THEN MaxMsgs ELSE 1]
=============================================================================
