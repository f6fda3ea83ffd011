------------------------------ MODULE FinalEight ------------------------------
(***************************************************************************)
(* The final rounds of the daily tournament: fightF8, fight4, fight3,      *)
(* fight2 and fight1 of pvp_imp.js.  The eight fight in four rounds.  A    *)
(* round takes the pairs from the ends of two arrays, collects winners and *)
(* losers in the order of the fights, and arranges them for the next one;  *)
(* the last arrangement is the head of finalSort.                          *)
(***************************************************************************)
EXTENDS Naturals, Sequences, SequencesExt

CONSTANT F8   \* the eight finalists, the one with the most points first

Finalist == {F8[i] : i \in 1..8}

VARIABLES
    userArea1, userArea2, \* who still has to fight in the round
    winUuid, failUuid,    \* who has won and who has lost in the round
    round,    \* 1 to 4: fight4, fight3, fight2, fight1; 5 when they are over
    wins,     \* history: the fights that each has won
    final8    \* what fightF8 calls back with

finalVars == <<userArea1, userArea2, winUuid, failUuid, round, wins, final8>>

FinalInit ==
    /\ userArea1 = <<F8[1], F8[3], F8[5], F8[7]>>
    /\ userArea2 = <<F8[2], F8[4], F8[6], F8[8]>>
    /\ winUuid = <<>> /\ failUuid = <<>> /\ round = 1
    /\ wins = [u \in Finalist |-> 0]
    /\ final8 = <<>>

\* calFightF8: one of the last pair wins.
FightPair ==
    /\ userArea1 # <<>> /\ userArea2 # <<>>
    /\ \E pair \in {<<Last(userArea1), Last(userArea2)>>, <<Last(userArea2), Last(userArea1)>>} :
          /\ winUuid' = Append(winUuid, pair[1])
          /\ failUuid' = Append(failUuid, pair[2])
          /\ wins' = [wins EXCEPT ![pair[1]] = @ + 1]
    /\ userArea1' = Front(userArea1) /\ userArea2' = Front(userArea2)
    /\ UNCHANGED <<round, final8>>

\* The arrangement for the round after the one that is over.
Arranged(w, l) ==
    CASE round = 1 -> <<w, Reverse(l)>>
      [] round = 2 -> << <<w[1], w[2], l[1], l[2]>>, <<w[3], w[4], l[3], l[4]>> >>
      [] round = 3 -> << <<w[1], l[1], w[3], l[3]>>, <<w[2], l[2], w[4], l[4]>> >>

NextRound ==
    /\ userArea1 = <<>> /\ round < 5
    /\ IF round < 4
       THEN /\ userArea1' = Arranged(winUuid, failUuid)[1]
            /\ userArea2' = Arranged(winUuid, failUuid)[2]
            /\ UNCHANGED final8
       ELSE /\ final8' = [i \in 1..8 |-> IF i % 2 = 1 THEN winUuid[(i + 1) \div 2] ELSE failUuid[i \div 2]]
            /\ UNCHANGED <<userArea1, userArea2>>
    /\ winUuid' = <<>> /\ failUuid' = <<>>
    /\ round' = round + 1
    /\ UNCHANGED wins

FinalNext == FightPair \/ NextRound
FinalSpec == FinalInit /\ [][FinalNext]_finalVars

-----------------------------------------------------------------------------
\* Who has won all his fights is first in the ranking (the comments at pvp_imp.js:398 and
\* 808; getPvpDayF8Result, line 357, tells the player his place in finalSort).
UndefeatedIsFirst ==
    final8 # <<>> => \A u \in Finalist : wins[u] = 4 => final8[1] = u
=============================================================================
