------------------------------- MODULE MCPvpDay -------------------------------
(* An instance of PvpDay for TLC: a player who enrols from two clients, another
   player with a further call on his pvpInfo, and four robots played by two objects. *)
EXTENDS PvpDay

CONSTANTS enrol1, enrol2, enrol3, play, s0, s1, s2, s3, p, q, infoP, infoQ, r1, r2, r3, r4, o1, o2

MCSessionOf == [c \in Calls |->
    IF c = Job THEN s0 ELSE IF c = enrol1 THEN s1 ELSE IF c = enrol2 THEN s2 ELSE s3]
MCPlayerOf == [c \in Calls \ {Job} |-> IF c \in {enrol1, enrol2} THEN p ELSE q]
MCInfoOf == (p :> infoP) @@ (q :> infoQ)
MCReadsOf == [c \in Calls |->
    IF c = Job THEN <<Day>>
    ELSE IF c \in Enrols THEN <<MCInfoOf[MCPlayerOf[c]], Day, Global>> ELSE <<MCInfoOf[MCPlayerOf[c]]>>]
MCCreated == <<infoP>>
MCRobots == <<r1, r2, r3, r4>>
MCBodyOf == (r1 :> o1) @@ (r2 :> o2) @@ (r3 :> o2) @@ (r4 :> o1)
MCStartTickets == [u \in {p, q} \cup {r1, r2, r3, r4} |-> IF u = p THEN 1 ELSE IF u = q THEN 3 ELSE 2]
=============================================================================
