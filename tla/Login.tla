-------------------------------- MODULE Login --------------------------------
(***************************************************************************)
(* Who is online: loginGame and kickClientOffline of conn_imp.js, what     *)
(* destroy of session.js does to Redis, and the map that conn_imp.js pushes*)
(* messages by.  Between two calls of Redis or of another process anything *)
(* else may run; a call and its callback are one step, so that a login is  *)
(* five of them.  Redis keeps online[p], one entry per player, and         *)
(* record[s], one entry per session with a life of 12 hours.               *)
(***************************************************************************)
EXTENDS Naturals, FiniteSets, Sequences

CONSTANTS Sids,        \* sessions, created already: SessionTable creates them
          Conns,       \* conn processes
          ConnOf,      \* the process that holds a session
          Players,     \* area and uuid
          PlayerOf,    \* the player a session's client logs in as
          Uuids,       \* accounts: one may have a player in several areas
          UuidOf,      \* the uuid of a player
          MapLimit,    \* CONNECT_SERVER_LIMIT
          MaxLogins,   \* bound: logins of all sessions together
          Faults,      \* calls of Redis may fail, remote calls may be lost
          None

ASSUME LoginAssumption ==
    /\ IsFiniteSet(Sids) /\ ConnOf \in [Sids -> Conns]
    /\ PlayerOf \in [Sids -> Players] /\ UuidOf \in [Players -> Uuids]
    /\ MapLimit \in Nat \ {0} /\ MaxLogins \in Nat
    /\ Faults \in BOOLEAN
    /\ None \notin Sids

VARIABLES
    phase,       \* "open", "gone" once destroyed, "dead" with its process
    task,        \* task[s]: the call loginGame waits for, "idle" without a login
    logins,
    online,      \* Redis: the session that last logged in as a player
    record,      \* Redis: the sessions that have a record
    sessionMap,  \* sessionMap[c]: the LimitMap of c, oldest key first
    kicks,       \* kickClientOffline calls on the way, by the session they name
    cleanup,     \* cleanup[s]: the call destroy waits for, or "none"
    afk,         \* afk[s]: the call setProAfkTime waits for, "saved" when it stored
                 \* the leaving time, "lost" when it gave up, "none" without one
    member,      \* history: sessions whose login ended with SUCCESS
    late,        \* history: sessions whose record came or stayed too late, or went too early
    disturbed    \* history: players with overlapping logins or a failed call

histories == <<member, late, disturbed>>
loginVars == <<phase, task, logins, online, record, sessionMap, kicks, cleanup, afk, histories>>

SidsOf(p) == {s \in Sids : PlayerOf[s] = p}
Live(p) == {s \in SidsOf(p) \cap member : phase[s] = "open"}
Busy(s) == task[s] \notin {"idle", "stuck"}

LoginInit ==
    /\ phase = [s \in Sids |-> "open"]
    /\ task = [s \in Sids |-> "idle"]
    /\ logins = 0
    /\ online = [p \in Players |-> None]
    /\ record = {}
    /\ sessionMap = [c \in Conns |-> <<>>]
    /\ kicks = {}
    /\ cleanup = [s \in Sids |-> "none"]
    /\ afk = [s \in Sids |-> "none"]
    /\ member = {} /\ late = {} /\ disturbed = {}

Disturb(s) == disturbed' = disturbed \cup {PlayerOf[s]}
-----------------------------------------------------------------------------
(* destroy and its clean-up *)

\* Those of the sessions ss that are in the table leave it, and their records
\* are asked for.
Destroy(ss) ==
    LET hit == {s \in ss : phase[s] = "open"}
    IN  /\ phase' = [s \in Sids |-> IF s \in hit THEN "gone" ELSE phase[s]]
        /\ cleanup' = [s \in Sids |-> IF s \in hit THEN "get" ELSE cleanup[s]]

\* The client closes, falls silent or is kicked by an operator.
Leave(s) ==
    /\ phase[s] = "open"
    /\ Destroy({s})
    /\ UNCHANGED <<task, logins, online, record, sessionMap, kicks, afk, histories>>

CleanupGet_NoTime(s) ==   \* mutant: setProAfkTime is not called
    /\ cleanup[s] = "get"
    /\ cleanup' = [cleanup EXCEPT ![s] = "del"]
    /\ UNCHANGED <<phase, task, logins, online, record, sessionMap, kicks, afk, histories>>

\* getSession: for the player it names, if any, setProAfkTime begins; it goes on
\* while the record is deleted.
CleanupGet(s) ==
    /\ cleanup[s] = "get"
    /\ cleanup' = [cleanup EXCEPT ![s] = "del"]
    /\ \/ s \in record /\ afk' = [afk EXCEPT ![s] = "map"] /\ UNCHANGED late
       \/ s \notin record /\ UNCHANGED <<afk, late>>
       \/ Faults /\ s \in record /\ late' = late \cup {s} /\ UNCHANGED afk
    /\ UNCHANGED <<phase, task, logins, online, record, sessionMap, kicks, member, disturbed>>

\* delSession, whatever getSession found; nobody looks whether it succeeds.
CleanupDel(s) ==
    /\ cleanup[s] = "del"
    /\ cleanup' = [cleanup EXCEPT ![s] = "none"]
    /\ \/ record' = record \ {s} /\ UNCHANGED late
       \/ Faults /\ s \in record /\ late' = late \cup {s} /\ UNCHANGED record
    /\ UNCHANGED <<phase, task, logins, online, sessionMap, kicks, afk, member, disturbed>>

AfkCalls == {"map", "node", "save"}

\* setProAfkTime reads the map, then the node the player is at, and stores the node
\* with the leaving time.
ProAfkTime(s) ==
    /\ afk[s] \in AfkCalls
    /\ afk' = [afk EXCEPT ![s] = CASE @ = "map" -> "node" [] @ = "node" -> "save"
                                   [] @ = "save" -> "saved"]
    /\ UNCHANGED <<phase, task, logins, online, record, sessionMap, kicks, cleanup, histories>>

\* A player without a map (the callback throws) or without that node (it says
\* nothing) gets no leaving time, nor does anybody when a call fails.
LoseAfkTime(s) ==
    /\ afk[s] \in AfkCalls /\ (afk[s] = "save" => Faults)
    /\ afk' = [afk EXCEPT ![s] = "lost"]
    /\ UNCHANGED <<phase, task, logins, online, record, sessionMap, kicks, cleanup, histories>>

Expire(s) ==
    /\ s \in record
    /\ record' = record \ {s}
    /\ late' = late \cup {s}
    /\ UNCHANGED <<phase, task, logins, online, sessionMap, kicks, cleanup, afk, member, disturbed>>
-----------------------------------------------------------------------------
(* loginGame *)

\* A login message of s, which may come when s is destroyed already: its
\* listener is still there.
Login(s) ==
    /\ phase[s] # "dead" /\ task[s] = "idle" /\ logins < MaxLogins
    /\ task' = [task EXCEPT ![s] = "asked"]
    /\ logins' = logins + 1
    /\ IF \E t \in SidsOf(PlayerOf[s]) : Busy(t) THEN Disturb(s) ELSE UNCHANGED disturbed
    /\ UNCHANGED <<phase, online, record, sessionMap, kicks, cleanup, afk, member, late>>

KickOld_LocalOnly(s, old) ==   \* mutant: sessions of other processes are spared
    IF ConnOf[old] = ConnOf[s]
    THEN Destroy({old}) /\ UNCHANGED kicks
    ELSE UNCHANGED <<phase, cleanup, kicks>>

\* The session that is online as the same player, s itself included, is kicked
\* at once, or by a call of the process that holds it.
KickOld(s, old) ==
    IF ConnOf[old] = ConnOf[s]
    THEN Destroy({old}) /\ UNCHANGED kicks
    ELSE kicks' = kicks \cup {old} /\ UNCHANGED <<phase, cleanup>>

GetOnlineInfo_OnlyOnline(s) ==   \* mutant: the login goes on only after a kick
    LET old == online[PlayerOf[s]]
    IN  /\ task[s] = "asked" /\ old # None
        /\ task' = [task EXCEPT ![s] = "loading"]
        /\ KickOld(s, old)
        /\ UNCHANGED <<logins, online, record, sessionMap, afk, histories>>

\* getOnlineInfo: a failed call looks like a player who is not online.
GetOnlineInfo(s) ==
    LET old == online[PlayerOf[s]]
    IN  /\ task[s] = "asked"
        /\ task' = [task EXCEPT ![s] = "loading"]
        /\ \/ old = None /\ UNCHANGED <<phase, cleanup, kicks, disturbed>>
           \/ old # None /\ KickOld(s, old) /\ UNCHANGED disturbed
           \/ Faults /\ Disturb(s) /\ UNCHANGED <<phase, cleanup, kicks>>
        /\ UNCHANGED <<logins, online, record, sessionMap, afk, member, late>>

\* The reply to loadPlayerInfo, whatever it says, lets the login go on; without a
\* reply the login never ends.
LoadPlayerInfo(s) ==
    /\ task[s] = "loading"
    /\ \/ task' = [task EXCEPT ![s] = "loaded"]
       \/ Faults /\ task' = [task EXCEPT ![s] = "stuck"]
    /\ UNCHANGED <<phase, logins, online, record, sessionMap, kicks, cleanup, afk, histories>>

AddOnlineInfo(s) ==
    /\ task[s] = "loaded"
    /\ \/ /\ task' = [task EXCEPT ![s] = "added"]
          /\ online' = [online EXCEPT ![PlayerOf[s]] = s]
          /\ UNCHANGED disturbed
       \/ /\ Faults /\ Disturb(s)
          /\ task' = [task EXCEPT ![s] = "idle"]
          /\ UNCHANGED online
    /\ UNCHANGED <<phase, logins, record, sessionMap, kicks, cleanup, afk, member, late>>

\* LimitMap.set(u, s): a new key drives out the oldest one when the map is full.
LimitMapSet_NoUpdate(m, u, s) ==   \* mutant: the value of a known key stays
    IF \E i \in 1..Len(m) : m[i].uuid = u THEN m
    ELSE Append(IF Len(m) >= MapLimit THEN Tail(m) ELSE m, [uuid |-> u, sid |-> s])

LimitMapSet_Again(m, u, s) ==   \* mutant: a known key is entered a second time
    Append(IF Len(m) >= MapLimit THEN Tail(m) ELSE m, [uuid |-> u, sid |-> s])

LimitMapSet(m, u, s) ==
    IF \E i \in 1..Len(m) : m[i].uuid = u
    THEN [i \in 1..Len(m) |-> IF m[i].uuid = u THEN [uuid |-> u, sid |-> s] ELSE m[i]]
    ELSE Append(IF Len(m) >= MapLimit THEN Tail(m) ELSE m, [uuid |-> u, sid |-> s])

\* addSession and setSession, whose key is the uuid: a player of another area with
\* the same uuid loses the entry.  The client hears SUCCESS if Redis did.
AddSession(s) ==
    /\ task[s] = "added"
    /\ task' = [task EXCEPT ![s] = "idle"]
    /\ sessionMap' = [sessionMap EXCEPT ![ConnOf[s]] = LimitMapSet(@, UuidOf[PlayerOf[s]], s)]
    /\ \/ /\ record' = record \cup {s}
          /\ member' = member \cup {s}
          /\ late' = IF phase[s] = "open" THEN late ELSE late \cup {s}
          /\ UNCHANGED disturbed
       \/ /\ Faults /\ Disturb(s)
          /\ UNCHANGED <<record, member, late>>
    /\ UNCHANGED <<phase, logins, online, kicks, cleanup, afk>>
-----------------------------------------------------------------------------
(* kickClientOffline, and the processes *)

DeliverKick_NoClose(s) ==   \* mutant: the client is told, but not closed
    /\ s \in kicks
    /\ kicks' = kicks \ {s}
    /\ UNCHANGED <<phase, task, logins, online, record, sessionMap, cleanup, afk, histories>>

DeliverKick(s) ==
    /\ s \in kicks
    /\ kicks' = kicks \ {s}
    /\ Destroy({s})
    /\ UNCHANGED <<task, logins, online, record, sessionMap, afk, histories>>

LoseKick(s) ==
    /\ Faults /\ s \in kicks
    /\ kicks' = kicks \ {s}
    /\ Disturb(s)
    /\ UNCHANGED <<phase, task, logins, online, record, sessionMap, cleanup, afk, member, late>>

\* The process c ends without destroying its sessions, and their histories end.
CrashConn(c) ==
    LET on == {s \in Sids : ConnOf[s] = c}
    IN  /\ \E s \in on : phase[s] # "dead"
        /\ phase' = [s \in Sids |-> IF s \in on THEN "dead" ELSE phase[s]]
        /\ task' = [s \in Sids |-> IF s \in on THEN "idle" ELSE task[s]]
        /\ cleanup' = [s \in Sids |-> IF s \in on THEN "none" ELSE cleanup[s]]
        /\ afk' = [s \in Sids |-> IF s \in on THEN "none" ELSE afk[s]]
        /\ sessionMap' = [sessionMap EXCEPT ![c] = <<>>]
        /\ member' = member \ on /\ late' = late \ on
        /\ UNCHANGED <<logins, online, record, kicks, disturbed>>
-----------------------------------------------------------------------------
LoginStep(s) == GetOnlineInfo(s) \/ LoadPlayerInfo(s) \/ AddOnlineInfo(s) \/ AddSession(s)

CleanupStep(s) == CleanupGet(s) \/ CleanupDel(s) \/ ProAfkTime(s) \/ LoseAfkTime(s)

LoginNext ==
    \/ \E s \in Sids :
          \/ Login(s) \/ LoginStep(s)
          \/ DeliverKick(s) \/ LoseKick(s)
          \/ Leave(s) \/ CleanupStep(s) \/ Expire(s)
    \/ \E c \in Conns : CrashConn(c)

LoginSpec == LoginInit /\ [][LoginNext]_loginVars

\* The calls of a login are answered and its kicks arrive.  Nothing obliges a client
\* to log in or to leave, a record to expire, or a process to crash.
LoginFairness ==
    \A s \in Sids : WF_loginVars(LoginStep(s)) /\ WF_loginVars(DeliverKick(s))

LoginFairSpec == LoginSpec /\ LoginFairness
-----------------------------------------------------------------------------
\* Types of the login state; a map holds at most MapLimit uuids, each once.
LoginTypeOK ==
    /\ phase \in [Sids -> {"open", "gone", "dead"}]
    /\ task \in [Sids -> {"idle", "asked", "loading", "loaded", "added", "stuck"}]
    /\ logins \in 0..MaxLogins
    /\ online \in [Players -> Sids \cup {None}]
    /\ sessionMap \in [Conns -> Seq([uuid : Uuids, sid : Sids])]
    /\ \A c \in Conns :
          LET m == sessionMap[c]
          IN  /\ Len(m) <= MapLimit
              /\ \A i, j \in 1..Len(m) : m[i].uuid = m[j].uuid => i = j
    /\ cleanup \in [Sids -> {"none", "get", "del"}]
    /\ afk \in [Sids -> AfkCalls \cup {"none", "saved", "lost"}]
    /\ record \subseteq Sids /\ kicks \subseteq Sids
    /\ member \subseteq Sids /\ late \subseteq Sids
    /\ disturbed \subseteq Players

\* No login of p is in progress, and nobody is about to be kicked.
AtRest(p) == kicks \cap SidsOf(p) = {} /\ \A s \in SidsOf(p) : ~Busy(s)

\* "players who are there already are kicked off-line" (conn_imp.js:93): when all
\* logins of a player are over, one session at most is logged in.
AtMostOne(p) == AtRest(p) => \A s, t \in Live(p) : s = t
SingleSession == \A p \in Players : AtMostOne(p)

\* Logins that do not overlap keep that promise (conn_imp.js:91-140), also a second
\* login of the same session and with closing, expiring and crashing in between:
\* the session that is logged in is the one that online names, so that the next
\* login finds it.
LiveIsOnline ==
    \A p \in Players \ disturbed : AtRest(p) => \A s \in Live(p) : online[p] = s

UuidsOn(c) == {UuidOf[PlayerOf[t]] : t \in {t \in Sids : ConnOf[t] = c}}

\* The session that is logged in is the one its process pushes the player's
\* messages to (conn_imp.js:20-30), as long as the map has room for every uuid, and
\* unless the entry went to a player of another area with the same uuid.
PushReach ==
    \A p \in Players \ disturbed :
       AtRest(p) =>
          \A s \in Live(p) :
             LET m == sessionMap[ConnOf[s]]
             IN  \/ \E i \in 1..Len(m) : /\ m[i].uuid = UuidOf[p]
                                         /\ m[i].sid = s \/ PlayerOf[m[i].sid] # p
                 \/ Cardinality(UuidsOn(ConnOf[s])) > MapLimit

\* A destroyed session leaves no record, and if it was logged in, its player's
\* leaving time is stored (session.js:24-37), although the record is deleted while
\* setProAfkTime works.  Two things may go wrong: the record is written after the
\* session is destroyed, expires, or cannot be read or deleted ("late"), and
\* setProAfkTime fails or finds no map or node to write to ("lost").
CleanedUp ==
    \A s \in Sids \ late :
       phase[s] = "gone" /\ cleanup[s] = "none" /\ afk[s] \notin AfkCalls =>
          s \notin record /\ (s \in member => afk[s] \in {"saved", "lost"})

\* A kick that is on the way reaches its session (conn_imp.js:99-105, 185-196).
KicksLand == \A s \in Sids : (s \in kicks) ~> (phase[s] # "open")

\* A login ends, whoever else logs in, leaves or crashes (conn_imp.js:55-142).
LoginsEnd == \A s \in Sids : Busy(s) ~> ~Busy(s)

\* Two sessions of a player do not stay logged in together when his logins did not
\* overlap: one of them is closed, wherever it is (conn_imp.js:93-105).
OldSessionLeaves ==
    \A s, t \in Sids :
       s # t /\ PlayerOf[s] = PlayerOf[t] =>
          ({s, t} \subseteq Live(PlayerOf[s]) /\ PlayerOf[s] \notin disturbed)
             ~> ~({s, t} \subseteq Live(PlayerOf[s]))
=============================================================================
