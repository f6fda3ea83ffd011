------------------------------ MODULE MCMdpNet ------------------------------
(* Instances of MdpNet for TLC: workers of one type, one caller. *)
EXTENDS MdpNet

CONSTANTS w1, w2, r1, chat

MCServers == {chat}
MCTypeOf == [w \in Workers |-> chat]
MCClients == {"conn"}
MCClientOf == [r \in Rids |-> "conn"]
=============================================================================
