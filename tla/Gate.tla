--------------------------------- MODULE Gate ---------------------------------
(***************************************************************************)
(* How clients get a conn process: getAvgConnServerLoadNums of gate_imp.js *)
(* and getConnServerLoadNums of conn_imp.js.  The gate keeps a table of    *)
(* loads.  Once a minute the next request empties it, puts the default     *)
(* host in it, and asks all conn processes for their loads by a broadcast; *)
(* it is answered, as are all, from the table as it is then.  The loads    *)
(* come in by the callback of the broadcast, and every host given away     *)
(* counts as one player more.                                              *)
(***************************************************************************)
EXTENDS Naturals, FiniteSets, Sequences

CONSTANTS Conns,        \* conn processes
          Default,      \* DEFAULT_CONN_SERVER
          Clients,
          ConnLimit,    \* CONNECT_SERVER_LIMIT
          TableLimit,   \* CONN_SERVER_NUMS_LIMIT
          CacheLimit,   \* the limit of callbackCache
          MaxAsks,      \* bound: broadcasts
          MaxLogins,    \* bound: logins
          None

VARIABLES
    table,       \* limitMap: [conn, load], the oldest first
    asks,        \* the broadcasts so far, by number
    toConn,      \* toConn[c]: the broadcasts on their way to c
    toGate,      \* toGate[c]: the answers of c on their way; players: history
    playerNums,  \* what a conn process calls its number of players
    players,     \* players[c]: who is logged in at c
    host,        \* host[p]: the conn process that client p was sent to
    logins       \* counted for the bound

gateVars == <<table, asks, toConn, toGate, playerNums, players, host, logins>>

InitConnServerCache == <<[conn |-> Default, load |-> ConnLimit]>>

GateInit ==
    /\ table = InitConnServerCache
    /\ asks = 0
    /\ toConn = [c \in Conns |-> <<>>] /\ toGate = [c \in Conns |-> <<>>]
    /\ playerNums = [c \in Conns |-> 0]
    /\ players = [c \in Conns |-> {}]
    /\ host = [p \in Clients |-> None]
    /\ logins = 0
-----------------------------------------------------------------------------
(* The gate *)

\* The first of those with the smallest load.
Least(t) == CHOOSE i \in 1..Len(t) : \A j \in 1..Len(t) :
               t[i].load <= t[j].load /\ (j < i => t[i].load < t[j].load)

\* Some are not reached: who is not registered with the broker is not asked.
Broadcast ==
    /\ asks' = asks + 1
    /\ \E known \in SUBSET Conns :
          toConn' = [c \in Conns |-> IF c \in known THEN Append(toConn[c], asks') ELSE toConn[c]]

\* The table is renewed when a minute has passed, at the first request in any case.
GetAvgConnServerLoadNums(p) ==
    /\ host[p] = None
    /\ \E t \in {table, InitConnServerCache} :
          LET best == Least(t)
          IN  /\ host' = [host EXCEPT ![p] = t[best].conn]
              /\ table' = [t EXCEPT ![best].load = @ + 1]
              /\ \/ t = table /\ asks > 0 /\ UNCHANGED <<asks, toConn>>
                 \/ t = InitConnServerCache /\ asks < MaxAsks /\ Broadcast
    /\ UNCHANGED <<toGate, playerNums, players, logins>>

\* set of LimitMap.
LimitMapSet(t, c, load) ==
    LET e == [conn |-> c, load |-> load]
    IN  IF \E i \in 1..Len(t) : t[i].conn = c
        THEN [i \in 1..Len(t) |-> IF t[i].conn = c THEN e ELSE t[i]]
        ELSE Append(IF Len(t) >= TableLimit THEN Tail(t) ELSE t, e)

\* An answer runs the callback of its broadcast, whichever that was, unless the
\* callback was driven out of the cache by later ones: then the gate answers with an
\* error that the broker waits for no more.
OnDispatch(c) ==
    /\ toGate[c] # <<>>
    /\ LET a == Head(toGate[c])
       IN  table' = IF a.ask + CacheLimit > asks THEN LimitMapSet(table, c, a.load) ELSE table
    /\ toGate' = [toGate EXCEPT ![c] = Tail(@)]
    /\ UNCHANGED <<asks, toConn, playerNums, players, host, logins>>
-----------------------------------------------------------------------------
(* The conn processes *)

GetConnServerLoadNums(c) ==
    /\ toConn[c] # <<>>
    /\ toConn' = [toConn EXCEPT ![c] = Tail(@)]
    /\ toGate' = [toGate EXCEPT ![c] = Append(@, [ask |-> Head(toConn[c]), load |-> playerNums[c],
                                                  players |-> Cardinality(players[c])])]
    /\ UNCHANGED <<table, asks, playerNums, players, host, logins>>

\* loginGame, of which Login models the rest; a client may log in again.
LoginGame(p) ==
    /\ host[p] # None /\ logins < MaxLogins
    /\ logins' = logins + 1
    /\ playerNums' = [playerNums EXCEPT ![host[p]] = @ + 1]
    /\ players' = [players EXCEPT ![host[p]] = @ \cup {p}]
    /\ UNCHANGED <<table, asks, toConn, toGate, host>>

\* The session of the client is destroyed: destroyHandle of conn.js logs it.
Leave(p) ==
    /\ host[p] # None
    /\ host' = [host EXCEPT ![p] = None]
    /\ players' = [players EXCEPT ![host[p]] = @ \ {p}]
    /\ UNCHANGED <<table, asks, toConn, toGate, playerNums, logins>>

\* The process is started again; what it was asked is lost with it.
RestartConn(c) ==
    /\ playerNums' = [playerNums EXCEPT ![c] = 0]
    /\ players' = [players EXCEPT ![c] = {}]
    /\ host' = [p \in Clients |-> IF host[p] = c THEN None ELSE host[p]]
    /\ toConn' = [toConn EXCEPT ![c] = <<>>]
    /\ UNCHANGED <<table, asks, toGate, logins>>

GateNext ==
    \/ \E p \in Clients : GetAvgConnServerLoadNums(p) \/ LoginGame(p) \/ Leave(p)
    \/ \E c \in Conns : GetConnServerLoadNums(c) \/ OnDispatch(c) \/ RestartConn(c)

GateSpec == GateInit /\ [][GateNext]_gateVars
-----------------------------------------------------------------------------
\* What a conn process answers is the number of its players (the comments at
\* gate_imp.js:28 and conn_imp.js:11, and the name of its counter).
LoadsArePlayers ==
    \A c \in Conns : \A i \in 1..Len(toGate[c]) : toGate[c][i].load = toGate[c][i].players
=============================================================================
