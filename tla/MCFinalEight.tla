----------------------------- MODULE MCFinalEight -----------------------------
(* An instance of FinalEight for TLC. *)
EXTENDS FinalEight

CONSTANTS a, b, c, d, e, f, g, h
MCF8 == <<a, b, c, d, e, f, g, h>>
=============================================================================
