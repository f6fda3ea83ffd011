-------------------------------- MODULE MCMail --------------------------------
(* An instance of Mail for TLC: a player on two sessions, who may be created by
   both, with a claim on each of them, and two fetchings of mails. *)
EXTENDS Mail, TLC

CONSTANTS login1, login2, claim1, claim2, receive1, receive2, s1, s2, base, m1

MCSessionOf == [c \in Calls |-> IF c \in {login1, claim1} THEN s1 ELSE s2]
MCReadsOf == [c \in Calls |->
    IF c \in Logins THEN <<base>> ELSE IF c \in Claims THEN <<Bag, base>> ELSE <<>>]
MCWritesOf == [c \in Calls |-> IF c \in Receives THEN <<>> ELSE <<base, Bag>>]
MCCreated == <<base, Bag>>

\* What no step and no property looks at any more: the copies of a call that has ended, but
\* for the records that one answered with success has changed, and how a login that has
\* stored nothing ended, and whom it met.
MCView ==
    LET idle == {c \in Logins : pc[c] \in Ended /\ stored[c] = {}}
        copy(c) == IF pc[c] \in Ended THEN {r \in Records : pc[c] = "ok" /\ c \in vals[c][r]}
                   ELSE <<pos[c], vals[c], have[c]>>
    IN  <<db, present, stored, mailbox, want, diff, idle,
          [c \in Calls \ idle |-> <<pc[c], met[c] \ idle, copy(c)>>]>>

MCSymmetry == Permutations({receive1, receive2})
=============================================================================
