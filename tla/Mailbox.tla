------------------------------- MODULE Mailbox -------------------------------
(***************************************************************************)
(* What a connection process promises the game about the messages of its   *)
(* clients: each client's messages are handed over in the order they came, *)
(* each of them once, the next one when the one before is done with.  There*)
(* are no queues here, only counts.                                        *)
(***************************************************************************)
EXTENDS Naturals, Sequences

CONSTANT Sids          \* sessions

VARIABLES arrived,     \* arrived[s]: how many messages came from s
          emitted,     \* emitted[s]: the numbers of those handed to the game
          busy         \* the sessions whose last message handed over is not done with

vars == <<arrived, emitted, busy>>

Init ==
    /\ arrived = [s \in Sids |-> 0]
    /\ emitted = [s \in Sids |-> <<>>]
    /\ busy = {}

NextOf(s) == Append(emitted[s], Len(emitted[s]) + 1)

\* A message comes: to an idle session it is handed over at once.
Arrive(s) ==
    /\ arrived' = [arrived EXCEPT ![s] = @ + 1]
    /\ emitted' = IF s \in busy THEN emitted ELSE [emitted EXCEPT ![s] = NextOf(s)]
    /\ busy' = busy \cup {s}

\* The message in hand is done with: the next one follows, if there is one.
Done(s) ==
    /\ s \in busy
    /\ IF Len(emitted[s]) < arrived[s]
       THEN emitted' = [emitted EXCEPT ![s] = NextOf(s)] /\ UNCHANGED busy
       ELSE busy' = busy \ {s} /\ UNCHANGED emitted
    /\ UNCHANGED arrived

Next == \E s \in Sids : Arrive(s) \/ Done(s)

Spec == Init /\ [][Next]_vars
=============================================================================
