------------------------------- MODULE MCLogin -------------------------------
(* Instances of Login for TLC: one player on three sessions of two processes, and
   on the first of them a player of another area with the same uuid and a player
   with a uuid of his own. *)
EXTENDS Login, TLC

CONSTANTS s1, s2, s3, s4, s5, c1, c2, p, q, r, u, v

MCConnOf == [s \in Sids |-> IF s = s2 THEN c2 ELSE c1]
MCPlayerOf == [s \in Sids |-> CASE s = s4 -> q [] s = s5 -> r [] OTHER -> p]
MCUuidOf == [x \in Players |-> IF x = r THEN v ELSE u]

\* s1 and s3 are alike: both on c1, both of p.
MCSymmetry == Permutations({s1, s3})

\* Bound: a state with three sessions destroyed is checked, but not continued.
MCFewLeave == Cardinality({s \in Sids : phase[s] = "gone"}) <= 2
=============================================================================
