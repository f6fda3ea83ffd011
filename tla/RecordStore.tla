----------------------------- MODULE RecordStore -----------------------------
(***************************************************************************)
(* What the players' records promise the calls that change them, with no   *)
(* copies and no order of steps.  A record is the set of calls whose       *)
(* change it carries.  A call changes records while it is in work.  When   *)
(* nobody that was in work together with it has stored the same record, it *)
(* adds its own change and keeps all others; when somebody has, the record *)
(* may end up with any of the changes that were ever made.                 *)
(***************************************************************************)
EXTENDS Naturals

CONSTANTS Calls,    \* the calls that are ever made, each with an identity of its own
          Records   \* the keys of Redis

VARIABLES db,       \* db[r]: the calls whose change record r carries
          begun,    \* the calls that have begun
          over,     \* those of them that have ended
          met,      \* met[c]: the calls that were in work together with c
          stored    \* stored[c]: the records c has stored

vars == <<db, begun, over, met, stored>>

InWork == begun \ over

Init ==
    /\ db = [r \in Records |-> {}]
    /\ begun = {} /\ over = {}
    /\ met = [c \in Calls |-> {}]
    /\ stored = [c \in Calls |-> {}]

Begin(c) ==
    /\ c \notin begun
    /\ begun' = begun \cup {c}
    /\ met' = [d \in Calls |->
                  IF d = c THEN InWork
                  ELSE IF d \in InWork THEN met[d] \cup {c} ELSE met[d]]
    /\ UNCHANGED <<db, over, stored>>

Contended(c, r) == \E d \in met[c] : r \in stored[d]

Store(c, r) ==
    /\ c \in InWork
    /\ \E carried \in IF Contended(c, r) THEN SUBSET begun ELSE {db[r], db[r] \cup {c}} :
          db' = [db EXCEPT ![r] = carried]
    /\ stored' = [stored EXCEPT ![c] = @ \cup {r}]
    /\ UNCHANGED <<begun, met>>

End(c) ==
    /\ c \in InWork
    /\ over' = over \cup {c}
    /\ UNCHANGED <<begun, met>>

\* A call may end with the record it stores, its answer being lost or an error.
Next ==
    \E c \in Calls :
       \/ Begin(c)
       \/ \E r \in Records : Store(c, r) /\ (UNCHANGED over \/ End(c))
       \/ End(c) /\ UNCHANGED <<db, stored>>

Spec == Init /\ [][Next]_vars
=============================================================================
