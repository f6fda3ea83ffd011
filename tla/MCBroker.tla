------------------------------ MODULE MCBroker ------------------------------
(* Instances of Broker for TLC. *)
EXTENDS Broker

CONSTANTS w1, w2, w3, r1, r2, r3, chat, conn

MCServers == {chat, conn}
MCClients == {"conn", "gate"}
MCClientOf == [r \in Rids |-> IF r = r2 THEN "gate" ELSE "conn"]

\* Two chat processes and one conn process serve two requests.
MCWorkers == {w1, w2, w3}
MCRids == {r1, r2}
MCTypeOf == [w \in Workers |-> IF w = w3 THEN conn ELSE chat]

\* Two chat processes serve three requests: the shortest way to a wrong choice.
LoadWorkers == {w1, w2}
LoadRids == {r1, r2, r3}
=============================================================================
