----------------------------- MODULE LoginProofs -----------------------------
(***************************************************************************)
(* Proofs about Login: the maps that conn_imp.js pushes by keep within     *)
(* their limit, and logins that do not overlap leave one session, the one  *)
(* that the online information names.                                      *)
(***************************************************************************)
EXTENDS Login, SequenceTheorems, FiniteSetTheorems, TLAPS

Entry == [uuid : Uuids, sid : Sids]

\* A map of at most MapLimit entries in which every uuid comes once.
Maps == {m \in Seq(Entry) :
            /\ Len(m) <= MapLimit
            /\ \A i, j \in 1..Len(m) : m[i].uuid = m[j].uuid => i = j}

-----------------------------------------------------------------------------
(* LimitMap *)

\* set of LimitMap keeps the map within its limit and its keys apart (utils.js:27).
LEMMA LimitMapSetIsMap ==
    ASSUME NEW m \in Maps, NEW u \in Uuids, NEW s \in Sids
    PROVE  LimitMapSet(m, u, s) \in Maps
<1> DEFINE e == [uuid |-> u, sid |-> s]
           r == IF Len(m) >= MapLimit THEN Tail(m) ELSE m
<1>a. /\ m \in Seq(Entry) /\ Len(m) <= MapLimit
      /\ \A i, j \in 1..Len(m) : m[i].uuid = m[j].uuid => i = j
  BY DEF Maps
<1>b. e \in Entry
  BY DEF Entry
<1>0. /\ m \in Seq(Entry) /\ e \in Entry /\ Len(m) \in Nat /\ Len(m) <= MapLimit
      /\ \A i \in 1..Len(m) : m[i] \in Entry
      /\ \A i, j \in 1..Len(m) : m[i].uuid = m[j].uuid => i = j
      /\ MapLimit \in Nat /\ MapLimit > 0
  BY <1>a, <1>b, LoginAssumption
<1>1. CASE \E i \in 1..Len(m) : m[i].uuid = u
  <2> DEFINE n == [i \in 1..Len(m) |-> IF m[i].uuid = u THEN e ELSE m[i]]
  <2>1. n \in Seq(Entry) /\ Len(n) = Len(m)
    BY <1>0
  <2>2. \A i \in 1..Len(m) : n[i].uuid = m[i].uuid
    BY <1>0
  <2>3. n \in Maps
    BY <1>0, <2>1, <2>2 DEF Maps
  <2> QED
    BY <1>1, <2>3 DEF LimitMapSet
<1>2. CASE ~\E i \in 1..Len(m) : m[i].uuid = u
  <2>1. /\ r \in Seq(Entry) /\ Len(r) \in Nat /\ Len(r) < MapLimit
        /\ \E d \in {0, 1} : /\ Len(r) + d = Len(m)
                             /\ \A i \in 1..Len(r) : r[i] = m[i + d]
    <3>1. CASE Len(m) >= MapLimit
      <4>1. m # <<>> /\ Len(m) = MapLimit
        BY <1>0, <3>1
      <4>2. Tail(m) \in Seq(Entry) /\ Len(Tail(m)) + 1 = Len(m)
            /\ \A i \in 1..Len(Tail(m)) : Tail(m)[i] = m[i + 1]
        BY <1>0, <4>1
      <4> QED
        BY <1>0, <3>1, <4>1, <4>2
    <3>2. CASE ~(Len(m) >= MapLimit)
      <4>1. \A i \in 1..Len(m) : m[i] = m[i + 0]
        BY <1>0
      <4> QED
        BY <1>0, <3>2, <4>1
    <3> QED
      BY <3>1, <3>2
  <2>2. PICK d \in {0, 1} : /\ Len(r) + d = Len(m)
                            /\ \A i \in 1..Len(r) : r[i] = m[i + d]
    BY <2>1
  <2>3. \A i \in 1..Len(r) : i + d \in 1..Len(m) /\ r[i].uuid # u
    BY <1>0, <1>2, <2>1, <2>2
  <2>4. \A i, j \in 1..Len(r) : r[i].uuid = r[j].uuid => i = j
    BY <1>0, <2>1, <2>2, <2>3
  <2>5. /\ Append(r, e) \in Seq(Entry) /\ Len(Append(r, e)) = Len(r) + 1
        /\ \A i \in 1..Len(r) : Append(r, e)[i] = r[i]
        /\ Append(r, e)[Len(r) + 1] = e
    BY <1>0, <2>1
  <2>6. \A i \in 1..Len(Append(r, e)) : i \in 1..Len(r) \/ i = Len(r) + 1
    BY <2>1, <2>5
  <2> HIDE DEF r
  <2>7. ASSUME NEW i \in 1..Len(Append(r, e)), NEW j \in 1..Len(Append(r, e)),
               Append(r, e)[i].uuid = Append(r, e)[j].uuid
        PROVE  i = j
    <3>1. e.uuid = u
      OBVIOUS
    <3> QED
      BY <2>3, <2>4, <2>5, <2>6, <2>7, <3>1
  <2>8. Append(r, e) \in Maps
    <3>1. Len(Append(r, e)) <= MapLimit
      BY <1>0, <2>1, <2>5
    <3> HIDE DEF e
    <3> QED
      BY <2>5, <2>7, <3>1 DEF Maps
  <2> QED
    BY <1>2, <2>8 DEF LimitMapSet, r
<1> QED
  BY <1>1, <1>2

-----------------------------------------------------------------------------
(* Types *)

\* All of LoginTypeOK but the maps.
PlainTypes ==
    /\ phase \in [Sids -> {"open", "gone", "dead"}]
    /\ task \in [Sids -> {"idle", "asked", "loading", "loaded", "added", "stuck"}]
    /\ logins \in 0..MaxLogins
    /\ online \in [Players -> Sids \cup {None}]
    /\ cleanup \in [Sids -> {"none", "get", "del"}]
    /\ afk \in [Sids -> AfkCalls \cup {"none", "saved", "lost"}]
    /\ record \subseteq Sids /\ kicks \subseteq Sids
    /\ member \subseteq Sids /\ late \subseteq Sids
    /\ disturbed \subseteq Players

TypeInv == PlainTypes /\ sessionMap \in [Conns -> Maps]

LEMMA TypeInvIsTypeOK == TypeInv <=> LoginTypeOK
<1>1. (sessionMap \in [Conns -> Maps]) <=>
         /\ sessionMap \in [Conns -> Seq(Entry)]
         /\ \A c \in Conns : /\ Len(sessionMap[c]) <= MapLimit
                            /\ \A i, j \in 1..Len(sessionMap[c]) :
                                  sessionMap[c][i].uuid = sessionMap[c][j].uuid => i = j
  BY DEF Maps
<1> QED
  BY <1>1 DEF TypeInv, PlainTypes, LoginTypeOK, Entry

\* destroy moves sessions of the table only, and types are kept (session.js:16).
LEMMA DestroyTypes ==
    ASSUME TypeInv, NEW ss, Destroy(ss)
    PROVE  /\ phase' \in [Sids -> {"open", "gone", "dead"}]
           /\ cleanup' \in [Sids -> {"none", "get", "del"}]
           /\ \A s \in Sids : phase'[s] = "open" => phase[s] = "open" /\ s \notin ss
BY DEF TypeInv, PlainTypes, Destroy

LEMMA KickOldTypes ==
    ASSUME TypeInv, NEW s \in Sids, NEW old \in Sids, KickOld(s, old)
    PROVE  /\ phase' \in [Sids -> {"open", "gone", "dead"}]
           /\ cleanup' \in [Sids -> {"none", "get", "del"}]
           /\ kicks' \subseteq Sids /\ kicks \subseteq kicks'
           /\ \A t \in Sids : phase'[t] = "open" => phase[t] = "open"
           /\ phase'[old] = "open" => old \in kicks'
<1>1. CASE ConnOf[old] = ConnOf[s]
  BY <1>1, DestroyTypes DEF KickOld, TypeInv, PlainTypes
<1>2. CASE ConnOf[old] # ConnOf[s]
  BY <1>2 DEF KickOld, TypeInv, PlainTypes
<1> QED
  BY <1>1, <1>2

LEMMA TypeInit == LoginInit => TypeInv
<1>1. <<>> \in Maps
  BY LoginAssumption DEF Maps
<1> QED
  BY <1>1, LoginAssumption DEF LoginInit, TypeInv, PlainTypes

LEMMA TypeStep == TypeInv /\ [LoginNext]_loginVars => TypeInv'
<1> SUFFICES ASSUME TypeInv, [LoginNext]_loginVars PROVE TypeInv'
  OBVIOUS
<1> USE LoginAssumption
<1>1. ASSUME NEW s \in Sids, Login(s) PROVE TypeInv'
  BY <1>1 DEF Login, Disturb, TypeInv, PlainTypes
<1>2. ASSUME NEW s \in Sids, GetOnlineInfo(s) PROVE TypeInv'
  <2> DEFINE old == online[PlayerOf[s]]
  <2>1. /\ task' \in [Sids -> {"idle", "asked", "loading", "loaded", "added", "stuck"}]
        /\ UNCHANGED <<logins, online, record, sessionMap, afk, member, late>>
        /\ old \in Sids \cup {None}
    BY <1>2 DEF GetOnlineInfo, TypeInv, PlainTypes
  <2>2. CASE UNCHANGED <<phase, cleanup, kicks>> /\ disturbed' \subseteq Players
    BY <2>1, <2>2 DEF TypeInv, PlainTypes
  <2>3. CASE old # None /\ KickOld(s, old) /\ UNCHANGED disturbed
    BY <2>1, <2>3, KickOldTypes DEF TypeInv, PlainTypes
  <2> QED
    BY <1>2, <2>2, <2>3 DEF GetOnlineInfo, Disturb, TypeInv, PlainTypes
<1>3. ASSUME NEW s \in Sids, LoadPlayerInfo(s) PROVE TypeInv'
  BY <1>3 DEF LoadPlayerInfo, histories, TypeInv, PlainTypes
<1>4. ASSUME NEW s \in Sids, AddOnlineInfo(s) PROVE TypeInv'
  BY <1>4 DEF AddOnlineInfo, Disturb, TypeInv, PlainTypes
<1>5. ASSUME NEW s \in Sids, AddSession(s) PROVE TypeInv'
  <2>1. UuidOf[PlayerOf[s]] \in Uuids /\ ConnOf[s] \in Conns
    OBVIOUS
  <2>2. LimitMapSet(sessionMap[ConnOf[s]], UuidOf[PlayerOf[s]], s) \in Maps
    BY <2>1, LimitMapSetIsMap DEF TypeInv
  <2>3. sessionMap' \in [Conns -> Maps]
    BY <1>5, <2>1, <2>2 DEF AddSession, TypeInv
  <2>4. PlainTypes'
    BY <1>5 DEF AddSession, Disturb, TypeInv, PlainTypes
  <2> QED
    BY <2>3, <2>4 DEF TypeInv
<1>6. ASSUME NEW s \in Sids, DeliverKick(s) PROVE TypeInv'
  BY <1>6, DestroyTypes DEF DeliverKick, histories, TypeInv, PlainTypes
<1>7. ASSUME NEW s \in Sids, LoseKick(s) PROVE TypeInv'
  BY <1>7 DEF LoseKick, Disturb, TypeInv, PlainTypes
<1>8. ASSUME NEW s \in Sids, Leave(s) PROVE TypeInv'
  BY <1>8, DestroyTypes DEF Leave, histories, TypeInv, PlainTypes
<1>9. ASSUME NEW s \in Sids, CleanupGet(s) PROVE TypeInv'
  BY <1>9 DEF CleanupGet, AfkCalls, TypeInv, PlainTypes
<1>10. ASSUME NEW s \in Sids, CleanupDel(s) PROVE TypeInv'
  BY <1>10 DEF CleanupDel, TypeInv, PlainTypes
<1>14. ASSUME NEW s \in Sids, ProAfkTime(s) \/ LoseAfkTime(s) PROVE TypeInv'
  BY <1>14 DEF ProAfkTime, LoseAfkTime, histories, AfkCalls, TypeInv, PlainTypes
<1>11. ASSUME NEW s \in Sids, Expire(s) PROVE TypeInv'
  BY <1>11 DEF Expire, TypeInv, PlainTypes
<1>12. ASSUME NEW c \in Conns, CrashConn(c) PROVE TypeInv'
  <2>1. <<>> \in Maps
    BY DEF Maps
  <2> QED
    BY <1>12, <2>1 DEF CrashConn, histories, TypeInv, PlainTypes
<1>13. CASE UNCHANGED loginVars
  BY <1>13 DEF loginVars, histories, TypeInv, PlainTypes
<1> QED
  BY <1>1, <1>2, <1>3, <1>4, <1>5, <1>6, <1>7, <1>8, <1>9, <1>10, <1>11, <1>12, <1>13, <1>14
     DEF LoginNext, LoginStep, CleanupStep

\* The state of logins stays typed; in particular no map of pushes grows past its
\* limit or names a player twice (conn_imp.js:18-30, utils.js:27-37).
THEOREM LoginTypes == LoginSpec => []LoginTypeOK
<1>1. LoginSpec => []TypeInv
  BY TypeInit, TypeStep, PTL DEF LoginSpec
<1> QED
  BY <1>1, TypeInvIsTypeOK, PTL
-----------------------------------------------------------------------------
(* One session, the one that is online *)

\* No two logins of p are in progress.
OneLogin(p) == \A s, t \in SidsOf(p) : Busy(s) /\ Busy(t) => s = t

\* Whoever is logged in as p is the session that is online, or about to be kicked.
Known(p) == \A t \in Live(p) : t \in kicks \/ online[p] = t

\* Once a login has kicked, all who are logged in are about to be kicked; once it
\* has stored itself, it is the session that is online.
Progress(p) ==
    \A s \in SidsOf(p) :
       /\ task[s] \in {"loading", "loaded"} => Live(p) \subseteq kicks
       /\ task[s] = "added" => online[p] = s

Settled(p) == OneLogin(p) /\ Known(p) /\ Progress(p)

LoginInv == TypeInv /\ \A p \in Players \ disturbed : Settled(p)

LEMMA InvInit == LoginInit => LoginInv
BY TypeInit DEF LoginInit, LoginInv, Settled, OneLogin, Known, Progress, Live, SidsOf, Busy

\* A step that starts, ends or moves no login of p, and lets nobody in, keeps p
\* settled when it takes back no kick of a session that stays open.
LEMMA QuietStep ==
    ASSUME NEW p \in Players, Settled(p),
           \A s \in SidsOf(p) : task'[s] = task[s] \/ task'[s] \in {"idle", "stuck"},
           Live(p)' \subseteq Live(p),
           Live(p)' \cap kicks \subseteq kicks',
           online'[p] = online[p]
    PROVE  Settled(p)'
<1>1. \A s \in SidsOf(p) : Busy(s)' => Busy(s)
  BY DEF Busy
<1>2. OneLogin(p)'
  BY <1>1 DEF Settled, OneLogin, SidsOf
<1>3. Known(p)'
  BY DEF Settled, Known
<1>4. Progress(p)'
  BY DEF Settled, Progress, SidsOf
<1> QED
  BY <1>2, <1>3, <1>4 DEF Settled

\* So does a step that leaves the login of p alone.
LEMMA IdleStep ==
    ASSUME NEW p \in Players, Settled(p), UNCHANGED <<task, online, member>>,
           \A s \in Sids : phase'[s] = "open" => phase[s] = "open",
           \A s \in kicks : s \in kicks' \/ phase'[s] # "open"
    PROVE  Settled(p)'
<1>1. Live(p)' \subseteq Live(p) /\ Live(p)' \cap kicks \subseteq kicks'
  BY DEF Live, SidsOf
<1> QED
  BY <1>1, QuietStep

LEMMA LoginStepSettles ==
    ASSUME LoginInv, NEW s \in Sids, Login(s), NEW p \in Players \ disturbed'
    PROVE  Settled(p)'
<1>0. p \notin disturbed /\ Settled(p) /\ UNCHANGED <<phase, online, kicks, member>>
      /\ task' = [task EXCEPT ![s] = "asked"] /\ task \in [Sids -> {"idle", "asked", "loading", "loaded", "added", "stuck"}]
  BY DEF Login, Disturb, LoginInv, TypeInv, PlainTypes
<1>1. \A t \in SidsOf(p) : t # s => task'[t] = task[t]
  BY <1>0 DEF SidsOf
<1>2. task'[s] = "asked"
  BY <1>0
<1>3. s \in SidsOf(p) => \A t \in SidsOf(p) : ~Busy(t)
  BY <1>0 DEF Login, Disturb, SidsOf
<1>4. OneLogin(p)'
  BY <1>0, <1>1, <1>3 DEF Settled, OneLogin, Busy, SidsOf
<1>5. Known(p)'
  BY <1>0 DEF Settled, Known, Live, SidsOf
<1>6. Progress(p)'
  BY <1>0, <1>1, <1>2 DEF Settled, Progress, Live, SidsOf
<1> QED
  BY <1>4, <1>5, <1>6 DEF Settled

LEMMA GetOnlineInfoSettles ==
    ASSUME LoginInv, NEW s \in Sids, GetOnlineInfo(s), NEW p \in Players \ disturbed'
    PROVE  Settled(p)'
<1> DEFINE old == online[PlayerOf[s]]
<1>0. /\ p \notin disturbed /\ Settled(p) /\ UNCHANGED <<online, member>>
      /\ task' = [task EXCEPT ![s] = "loading"] /\ task[s] = "asked"
      /\ task \in [Sids -> {"idle", "asked", "loading", "loaded", "added", "stuck"}]
      /\ old \in Sids \cup {None} /\ PlayerOf[s] \in Players
  BY LoginAssumption DEF GetOnlineInfo, Disturb, LoginInv, TypeInv, PlainTypes
<1>1. /\ \A t \in Sids : phase'[t] = "open" => phase[t] = "open"
      /\ kicks \subseteq kicks'
      /\ p = PlayerOf[s] => old = None \/ old \in kicks' \/ phase'[old] # "open"
  <2>1. CASE old = None /\ UNCHANGED <<phase, cleanup, kicks, disturbed>>
    BY <2>1
  <2>2. CASE old # None /\ KickOld(s, old) /\ UNCHANGED disturbed
    BY <1>0, <2>2, KickOldTypes DEF LoginInv
  <2>3. CASE Faults /\ Disturb(s) /\ UNCHANGED <<phase, cleanup, kicks>>
    BY <2>3 DEF Disturb
  <2> QED
    BY <2>1, <2>2, <2>3 DEF GetOnlineInfo
<1>2. \A t \in SidsOf(p) : Busy(t)' => Busy(t)
  BY <1>0 DEF Busy, SidsOf
<1>3. OneLogin(p)'
  BY <1>0, <1>2 DEF Settled, OneLogin, SidsOf
<1>4. Live(p)' \subseteq Live(p)
  BY <1>0, <1>1 DEF Live, SidsOf
<1>5. Known(p)'
  BY <1>0, <1>1, <1>4 DEF Settled, Known
<1>6. CASE s \in SidsOf(p)
  <2>1. p = PlayerOf[s]
    BY <1>6 DEF SidsOf
  <2>2. \A t \in Live(p)' : t \in kicks'
    <3> SUFFICES ASSUME NEW t \in Live(p)' PROVE t \in kicks'
      OBVIOUS
    <3>1. t \in Sids /\ phase'[t] = "open" /\ t # None
      BY LoginAssumption DEF Live, SidsOf
    <3>2. t \in kicks \/ online[p] = t
      BY <1>0, <1>4 DEF Settled, Known
    <3> QED
      BY <1>1, <2>1, <3>1, <3>2
  <2>3. \A t \in SidsOf(p) : task[t] # "added"
    BY <1>0, <1>6 DEF Settled, OneLogin, Busy
  <2>4. \A t \in SidsOf(p) : task'[t] # "added"
    BY <1>0, <2>3 DEF SidsOf
  <2>5. Progress(p)'
    BY <2>2, <2>4 DEF Progress, SidsOf
  <2> QED
    BY <1>3, <1>5, <2>5 DEF Settled
<1>7. CASE s \notin SidsOf(p)
  <2>1. \A t \in SidsOf(p) : task'[t] = task[t]
    BY <1>0, <1>7 DEF SidsOf
  <2>2. Live(p)' \cap kicks \subseteq kicks' /\ online'[p] = online[p]
    BY <1>0, <1>1
  <2> QED
    BY <1>0, <1>4, <2>1, <2>2, QuietStep
<1> QED
  BY <1>6, <1>7

LEMMA AddOnlineInfoSettles ==
    ASSUME LoginInv, NEW s \in Sids, AddOnlineInfo(s), NEW p \in Players \ disturbed'
    PROVE  Settled(p)'
<1>0. /\ p \notin disturbed /\ Settled(p) /\ UNCHANGED <<phase, kicks, member>>
      /\ task[s] = "loaded" /\ PlayerOf[s] \in Players
      /\ task \in [Sids -> {"idle", "asked", "loading", "loaded", "added", "stuck"}]
      /\ online \in [Players -> Sids \cup {None}]
  BY LoginAssumption DEF AddOnlineInfo, Disturb, LoginInv, TypeInv, PlainTypes
<1>1. Live(p)' = Live(p)
  BY <1>0 DEF Live, SidsOf
<1>2. CASE p # PlayerOf[s]
  <2>1. online'[p] = online[p] /\ \A t \in SidsOf(p) : task'[t] = task[t]
    BY <1>0, <1>2 DEF AddOnlineInfo, SidsOf
  <2> QED
    BY <1>0, <1>1, <2>1, QuietStep
<1>3. CASE p = PlayerOf[s]
  <2>1. /\ task' = [task EXCEPT ![s] = "added"]
        /\ online' = [online EXCEPT ![p] = s]
        /\ s \in SidsOf(p)
    BY <1>3 DEF AddOnlineInfo, Disturb, SidsOf
  <2>2. Live(p) \subseteq kicks
    BY <1>0, <2>1 DEF Settled, Progress
  <2>3. \A t \in SidsOf(p) : Busy(t) => t = s
    BY <1>0, <2>1 DEF Settled, OneLogin, Busy
  <2>4. \A t \in SidsOf(p) : Busy(t)' => t = s
    BY <1>0, <2>1, <2>3 DEF Busy, SidsOf
  <2>5. OneLogin(p)'
    BY <2>4 DEF OneLogin, SidsOf
  <2>6. Known(p)'
    BY <1>0, <1>1, <2>2 DEF Known
  <2>7. Progress(p)'
    BY <1>0, <1>1, <2>1, <2>2, <2>4 DEF Progress, Busy, SidsOf
  <2> QED
    BY <2>5, <2>6, <2>7 DEF Settled
<1> QED
  BY <1>2, <1>3

LEMMA AddSessionSettles ==
    ASSUME LoginInv, NEW s \in Sids, AddSession(s), NEW p \in Players \ disturbed'
    PROVE  Settled(p)'
<1>0. /\ p \notin disturbed /\ Settled(p) /\ UNCHANGED <<phase, kicks, online>>
      /\ task[s] = "added" /\ task' = [task EXCEPT ![s] = "idle"]
      /\ task \in [Sids -> {"idle", "asked", "loading", "loaded", "added", "stuck"}]
      /\ member' \subseteq member \cup {s}
  BY DEF AddSession, Disturb, LoginInv, TypeInv, PlainTypes
<1>1. \A t \in SidsOf(p) : task'[t] = task[t] \/ task'[t] \in {"idle", "stuck"}
  BY <1>0 DEF SidsOf
<1>2. CASE s \notin SidsOf(p)
  <2>1. Live(p)' \subseteq Live(p)
    BY <1>0, <1>2 DEF Live, SidsOf
  <2> QED
    BY <1>0, <1>1, <2>1, QuietStep
<1>3. CASE s \in SidsOf(p)
  <2>1. online[p] = s /\ \A t \in SidsOf(p) : Busy(t) => t = s
    BY <1>0, <1>3 DEF Settled, Progress, OneLogin, Busy
  <2>2. \A t \in SidsOf(p) : ~Busy(t)'
    BY <1>0, <1>1, <2>1 DEF Busy, SidsOf
  <2>3. OneLogin(p)'
    BY <2>2 DEF OneLogin, SidsOf
  <2>4. Progress(p)'
    BY <2>2 DEF Progress, Busy, SidsOf
  <2>5. \A t \in Live(p)' : t \in Live(p) \/ t = s
    BY <1>0 DEF Live, SidsOf
  <2>6. Known(p)'
    BY <1>0, <2>1, <2>5 DEF Settled, Known
  <2> QED
    BY <2>3, <2>4, <2>6 DEF Settled
<1> QED
  BY <1>2, <1>3

LEMMA InvStep == LoginInv /\ [LoginNext]_loginVars => LoginInv'
<1> SUFFICES ASSUME LoginInv, [LoginNext]_loginVars, NEW p \in Players \ disturbed'
             PROVE  Settled(p)'
  BY TypeStep DEF LoginInv
<1>a. p \in Players /\ (p \notin disturbed => Settled(p)) /\ TypeInv
  BY DEF LoginInv
<1>1. ASSUME NEW s \in Sids, Login(s) PROVE Settled(p)'
  BY <1>1, LoginStepSettles
<1>2. ASSUME NEW s \in Sids, GetOnlineInfo(s) PROVE Settled(p)'
  BY <1>2, GetOnlineInfoSettles
<1>3. ASSUME NEW s \in Sids, LoadPlayerInfo(s) PROVE Settled(p)'
  <2>1. /\ p \notin disturbed /\ UNCHANGED <<phase, online, kicks, member>>
        /\ task[s] = "loading"
        /\ \A t \in Sids \ {s} : task'[t] = task[t]
        /\ task'[s] \in {"loaded", "stuck"}
    BY <1>3, <1>a DEF LoadPlayerInfo, histories, TypeInv, PlainTypes
  <2>2. Live(p)' = Live(p)
    BY <2>1 DEF Live, SidsOf
  <2>3. OneLogin(p)'
    BY <1>a, <2>1 DEF Settled, OneLogin, Busy, SidsOf
  <2>4. Known(p)'
    BY <1>a, <2>1, <2>2 DEF Settled, Known
  <2>5. Progress(p)'
    BY <1>a, <2>1, <2>2 DEF Settled, Progress, SidsOf
  <2> QED
    BY <2>3, <2>4, <2>5 DEF Settled
<1>4. ASSUME NEW s \in Sids, AddOnlineInfo(s) PROVE Settled(p)'
  BY <1>4, AddOnlineInfoSettles
<1>5. ASSUME NEW s \in Sids, AddSession(s) PROVE Settled(p)'
  BY <1>5, AddSessionSettles
<1>6. ASSUME NEW s \in Sids, DeliverKick(s) PROVE Settled(p)'
  <2>1. /\ p \notin disturbed /\ UNCHANGED <<task, online, member>>
        /\ \A t \in kicks : t \in kicks' \/ t \in {s}
    BY <1>6 DEF DeliverKick, histories
  <2> QED
    BY <1>6, <1>a, <2>1, DestroyTypes, IdleStep DEF DeliverKick
<1>7. ASSUME NEW s \in Sids, LoseKick(s) PROVE Settled(p)'
  <2>1. p \notin disturbed /\ s \notin SidsOf(p)
    BY <1>7 DEF LoseKick, Disturb, SidsOf
  <2>2. /\ UNCHANGED <<phase, task, online, member>>
        /\ kicks' = kicks \ {s}
    BY <1>7 DEF LoseKick
  <2>3. Live(p)' = Live(p) /\ Live(p)' \cap kicks \subseteq kicks'
    BY <2>1, <2>2 DEF Live, SidsOf
  <2> QED
    BY <1>a, <2>1, <2>2, <2>3, QuietStep
<1>8. ASSUME NEW s \in Sids, Leave(s) PROVE Settled(p)'
  BY <1>8, <1>a, DestroyTypes, IdleStep DEF Leave, histories
<1>9. ASSUME NEW s \in Sids, CleanupGet(s) PROVE Settled(p)'
  BY <1>9, <1>a, IdleStep DEF CleanupGet
<1>10. ASSUME NEW s \in Sids, CleanupDel(s) PROVE Settled(p)'
  BY <1>10, <1>a, IdleStep DEF CleanupDel
<1>14. ASSUME NEW s \in Sids, ProAfkTime(s) \/ LoseAfkTime(s) PROVE Settled(p)'
  BY <1>14, <1>a, IdleStep DEF ProAfkTime, LoseAfkTime, histories
<1>11. ASSUME NEW s \in Sids, Expire(s) PROVE Settled(p)'
  BY <1>11, <1>a, IdleStep DEF Expire
<1>12. ASSUME NEW c \in Conns, CrashConn(c) PROVE Settled(p)'
  <2>1. /\ p \notin disturbed /\ UNCHANGED <<online, kicks>> /\ member' \subseteq member
        /\ \A t \in Sids : phase'[t] = "open" => phase[t] = "open"
        /\ \A t \in Sids : task'[t] = task[t] \/ task'[t] = "idle"
    BY <1>12, <1>a DEF CrashConn, histories, TypeInv, PlainTypes
  <2>2. Live(p)' \subseteq Live(p)
    BY <2>1 DEF Live, SidsOf
  <2> QED
    BY <1>a, <2>1, <2>2, QuietStep DEF SidsOf
<1>13. CASE UNCHANGED loginVars
  BY <1>13, <1>a, IdleStep DEF loginVars, histories
<1> QED
  BY <1>1, <1>2, <1>3, <1>4, <1>5, <1>6, <1>7, <1>8, <1>9, <1>10, <1>11, <1>12, <1>13, <1>14
     DEF LoginNext, LoginStep, CleanupStep

LEMMA InvLive == LoginInv => LiveIsOnline
BY DEF LoginInv, LiveIsOnline, AtRest, Settled, Known, Live

\* A player whose logins did not overlap, and lost no call, is logged in with the
\* session that the online information names, if with any (conn_imp.js:91-140).
THEOREM LiveSessionIsOnline == LoginSpec => []LiveIsOnline
BY InvInit, InvStep, InvLive, PTL DEF LoginSpec

\* Such a player has one session at most: the promise that overlapping logins break
\* (conn_imp.js:93).
THEOREM OneSessionPerPlayer ==
    LoginSpec => [](\A p \in Players \ disturbed : AtMostOne(p))
<1>1. LiveIsOnline => \A p \in Players \ disturbed : AtMostOne(p)
  BY DEF LiveIsOnline, AtMostOne
<1> QED
  BY <1>1, LiveSessionIsOnline, PTL
-----------------------------------------------------------------------------
(* The clean-up of destroyed sessions *)

\* A session that is logged in has its record until the clean-up has read it, and
\* setProAfkTime has begun then; only destroyed sessions are cleaned up.
CleanOK(s) ==
    /\ cleanup[s] # "none" => phase[s] = "gone"
    /\ s \in member \ late =>
          /\ phase[s] = "open" \/ cleanup[s] = "get" => s \in record
          /\ phase[s] = "gone" /\ cleanup[s] # "get" => afk[s] # "none"
    /\ s \notin late /\ phase[s] = "gone" /\ cleanup[s] = "none" => s \notin record
CleanInv == TypeInv /\ \A s \in Sids : CleanOK(s)

LEMMA CleanInit == LoginInit => CleanInv
BY TypeInit DEF LoginInit, CleanInv, CleanOK

\* Steps that leave phases, clean-ups and records alone.
LEMMA SameClean ==
    ASSUME NEW s \in Sids, CleanOK(s), late \subseteq late',
           UNCHANGED <<phase, cleanup, record, member, afk>>
    PROVE  CleanOK(s)'
BY DEF CleanOK

LEMMA DestroyClean ==
    ASSUME CleanInv, NEW ss, Destroy(ss), UNCHANGED <<record, member, afk, late>>,
           NEW s \in Sids
    PROVE  CleanOK(s)'
<1>1. CASE s \in ss /\ phase[s] = "open"
  <2>1. phase'[s] = "gone" /\ cleanup'[s] = "get" /\ CleanOK(s)
    BY <1>1 DEF Destroy, CleanInv
  <2> QED BY <1>1, <2>1 DEF CleanOK
<1>2. CASE ~(s \in ss /\ phase[s] = "open")
  <2>1. phase'[s] = phase[s] /\ cleanup'[s] = cleanup[s] /\ CleanOK(s)
    BY <1>2 DEF Destroy, CleanInv
  <2> QED BY <2>1 DEF CleanOK
<1> QED BY <1>1, <1>2

LEMMA CleanStep == CleanInv /\ [LoginNext]_loginVars => CleanInv'
<1> SUFFICES ASSUME CleanInv, [LoginNext]_loginVars, NEW q \in Sids PROVE CleanOK(q)'
  BY TypeStep DEF CleanInv
<1>a. CleanOK(q) /\ TypeInv
  BY DEF CleanInv
<1>1. ASSUME NEW s \in Sids, Login(s) \/ LoadPlayerInfo(s) \/ AddOnlineInfo(s) \/ LoseKick(s)
      PROVE  CleanOK(q)'
  BY <1>1, <1>a, SameClean DEF Login, LoadPlayerInfo, AddOnlineInfo, LoseKick, histories
<1>2. ASSUME NEW s \in Sids, GetOnlineInfo(s) PROVE CleanOK(q)'
  <2> DEFINE old == online[PlayerOf[s]]
  <2>1. UNCHANGED <<record, member, afk, late>>
    BY <1>2 DEF GetOnlineInfo
  <2>2. CASE UNCHANGED <<phase, cleanup>>
    BY <1>a, <2>1, <2>2, SameClean
  <2>3. CASE old # None /\ KickOld(s, old)
    BY <1>a, <2>1, <2>2, <2>3, DestroyClean DEF KickOld
  <2> QED BY <1>2, <2>2, <2>3 DEF GetOnlineInfo
<1>3. ASSUME NEW s \in Sids, AddSession(s) PROVE CleanOK(q)'
  <2>1. UNCHANGED <<phase, cleanup, afk>> /\ late \subseteq late'
    BY <1>3 DEF AddSession
  <2>2. CASE UNCHANGED <<record, member>>
    BY <1>a, <2>1, <2>2, SameClean
  <2>3. CASE /\ record' = record \cup {s} /\ member' = member \cup {s}
             /\ late' = IF phase[s] = "open" THEN late ELSE late \cup {s}
    <3>1. CASE q # s
      BY <1>a, <2>1, <2>3, <3>1 DEF CleanOK
    <3>2. CASE q = s
      BY <1>a, <2>1, <2>3, <3>2 DEF CleanOK
    <3> QED BY <3>1, <3>2
  <2> QED BY <1>3, <2>2, <2>3 DEF AddSession
<1>4. ASSUME NEW s \in Sids, DeliverKick(s) \/ Leave(s) PROVE CleanOK(q)'
  BY <1>4, DestroyClean DEF DeliverKick, Leave, histories
<1>5. ASSUME NEW s \in Sids, CleanupGet(s) PROVE CleanOK(q)'
  <2>1. /\ cleanup[s] = "get" /\ cleanup' = [cleanup EXCEPT ![s] = "del"]
        /\ UNCHANGED <<phase, record, member>>
        /\ \/ s \in record /\ afk' = [afk EXCEPT ![s] = "map"] /\ late' = late
           \/ s \notin record /\ late' = late /\ afk' = afk
           \/ late' = late \cup {s} /\ afk' = afk
    BY <1>5 DEF CleanupGet
  <2>2. CASE q # s
    <3>1. /\ cleanup'[q] = cleanup[q] /\ afk'[q] = afk[q] /\ (q \in late <=> q \in late')
      BY <1>a, <2>1, <2>2 DEF TypeInv, PlainTypes
    <3> QED BY <1>a, <2>1, <3>1 DEF CleanOK
  <2>3. CASE q = s
    <3>1. cleanup'[q] = "del" /\ (afk' = [afk EXCEPT ![s] = "map"] => afk'[q] # "none")
      BY <1>a, <2>1, <2>3 DEF TypeInv, PlainTypes
    <3> QED BY <1>a, <2>1, <2>3, <3>1 DEF CleanOK
  <2> QED BY <2>2, <2>3
<1>6. ASSUME NEW s \in Sids, CleanupDel(s) PROVE CleanOK(q)'
  <2>1. /\ cleanup[s] = "del" /\ cleanup' = [cleanup EXCEPT ![s] = "none"]
        /\ UNCHANGED <<phase, afk, member>>
        /\ \/ record' = record \ {s} /\ late' = late
           \/ late' = late \cup {s} /\ record' = record
    BY <1>6 DEF CleanupDel
  <2>2. CASE q # s
    <3>1. /\ cleanup'[q] = cleanup[q] /\ (q \in record <=> q \in record') /\ (q \in late <=> q \in late')
      BY <1>a, <2>1, <2>2 DEF TypeInv, PlainTypes
    <3> QED BY <1>a, <2>1, <3>1 DEF CleanOK
  <2>3. CASE q = s
    <3>1. cleanup'[q] = "none"
      BY <1>a, <2>1, <2>3 DEF TypeInv, PlainTypes
    <3> QED BY <1>a, <2>1, <2>3, <3>1 DEF CleanOK
  <2> QED BY <2>2, <2>3
<1>10. ASSUME NEW s \in Sids, ProAfkTime(s) \/ LoseAfkTime(s) PROVE CleanOK(q)'
  <2>1. UNCHANGED <<phase, cleanup, record, member, late>>
    BY <1>10 DEF ProAfkTime, LoseAfkTime, histories
  <2>2. afk'[q] = afk[q] \/ afk'[q] # "none"
    BY <1>10, <1>a DEF ProAfkTime, LoseAfkTime, AfkCalls, TypeInv, PlainTypes
  <2> QED BY <1>a, <2>1, <2>2 DEF CleanOK
<1>7. ASSUME NEW s \in Sids, Expire(s) PROVE CleanOK(q)'
  BY <1>7, <1>a DEF Expire, CleanOK
<1>8. ASSUME NEW c \in Conns, CrashConn(c) PROVE CleanOK(q)'
  <2>1. \/ /\ phase'[q] = phase[q] /\ cleanup'[q] = cleanup[q] /\ afk'[q] = afk[q]
           /\ (q \in member <=> q \in member') /\ (q \in late <=> q \in late')
           /\ record' = record
        \/ phase'[q] = "dead" /\ cleanup'[q] = "none" /\ q \notin member'
    BY <1>8 DEF CrashConn
  <2> QED BY <1>a, <2>1 DEF CleanOK
<1>9. CASE UNCHANGED loginVars
  BY <1>9, <1>a, SameClean DEF loginVars, histories
<1> QED
  BY <1>1, <1>2, <1>3, <1>4, <1>5, <1>6, <1>7, <1>8, <1>9, <1>10
     DEF LoginNext, LoginStep, CleanupStep

\* A destroyed session leaves no record, and the leaving time of its player is stored
\* (session.js:24-37) unless a call of the clean-up fails, the record comes too late or
\* expires, or the player has no map or node: setProAfkTime (hangup_imp.js:180-213) is
\* three calls that go on while the record is deleted.
THEOREM DestroyedCleanedUp == LoginSpec => []CleanedUp
<1>1. CleanInv => CleanedUp
  BY DEF CleanInv, CleanOK, CleanedUp, TypeInv, PlainTypes
<1> QED BY CleanInit, CleanStep, <1>1, PTL DEF LoginSpec
-----------------------------------------------------------------------------
(* The maps that messages are pushed by *)

\* A map with room for all uuids whose sessions process c holds; an entry leads to the
\* session s of p, or has gone to a player of another area.
Roomy(c) == Cardinality(UuidsOn(c)) <= MapLimit
Names(m, U) == \A i \in 1..Len(m) : m[i].uuid \in U
Leads(m, p, s) ==
    \E i \in 1..Len(m) : m[i].uuid = UuidOf[p] /\ (m[i].sid = s \/ PlayerOf[m[i].sid] # p)

LEMMA UuidsFinite ==
    ASSUME NEW c \in Conns PROVE IsFiniteSet(UuidsOn(c))
<1> DEFINE S == {t \in Sids : ConnOf[t] = c}
           f == [t \in S |-> UuidOf[PlayerOf[t]]]
<1>1. IsFiniteSet(S)
  BY FS_Subset, LoginAssumption
<1>2. f \in Surjection(S, UuidsOn(c))
  BY DEF Surjection, UuidsOn
<1> QED BY <1>1, <1>2, FS_Surjection

\* A map that names uuids of U other than u has a place left for u.
LEMMA PlaceLeft ==
    ASSUME NEW m \in Maps, NEW U, IsFiniteSet(U), NEW u \in U, Cardinality(U) <= MapLimit,
           Names(m, U), \A i \in 1..Len(m) : m[i].uuid # u
    PROVE  Len(m) < MapLimit
<1> DEFINE f == [i \in 1..Len(m) |-> m[i].uuid]
<1>1. /\ Len(m) \in Nat /\ MapLimit \in Nat
      /\ \A i, j \in 1..Len(m) : m[i].uuid = m[j].uuid => i = j
  BY LoginAssumption DEF Maps
<1>2. f \in Injection(1..Len(m), U \ {u})
  BY <1>1 DEF Injection, IsInjective, Names
<1>3. IsFiniteSet(U \ {u}) /\ Cardinality(U \ {u}) = Cardinality(U) - 1 /\ Cardinality(U) \in Nat
  BY FS_RemoveElement, FS_CardinalityType
<1>4. Cardinality(1..Len(m)) <= Cardinality(U \ {u})
  BY <1>2, <1>3, FS_Injection
<1>5. Cardinality(1..Len(m)) = Len(m)
  <2>1. \A k \in Nat : Cardinality(1..k) = k
    <3> TAKE k \in Nat
    <3>1. 1 \in Int /\ k \in Int
      OBVIOUS
    <3>2. Cardinality(1..k) = IF 1 > k THEN 0 ELSE k - 1 + 1
      BY <3>1, FS_Interval
    <3> QED BY <3>2
  <2> QED BY <1>1, <2>1
<1> QED BY <1>1, <1>3, <1>4, <1>5

\* set of LimitMap enters the session, names nobody else, and with room for everybody
\* drives nobody out (utils.js:27).
LEMMA LimitMapSetLeads ==
    ASSUME NEW m \in Maps, NEW U, IsFiniteSet(U), NEW s \in Sids, NEW p, p = PlayerOf[s],
           NEW u \in U, u = UuidOf[p], u \in Uuids, Names(m, U)
    PROVE  /\ Names(LimitMapSet(m, u, s), U)
           /\ Leads(LimitMapSet(m, u, s), p, s)
           /\ Cardinality(U) <= MapLimit =>
                 \A q, t : q # p /\ Leads(m, q, t) => Leads(LimitMapSet(m, u, s), q, t)
<1> DEFINE e == [uuid |-> u, sid |-> s]
           n == LimitMapSet(m, u, s)
<1>0. m \in Seq(Entry) /\ Len(m) \in Nat /\ e \in Entry /\ e.uuid = u /\ e.sid = s
  BY DEF Maps, Entry
<1>1. CASE \E i \in 1..Len(m) : m[i].uuid = u
  <2>1. /\ n = [i \in 1..Len(m) |-> IF m[i].uuid = u THEN e ELSE m[i]]
    BY <1>1 DEF LimitMapSet
  <2>2. Len(n) = Len(m)
    BY <1>0, <2>1
  <2>3. \A i \in 1..Len(m) : n[i] = (IF m[i].uuid = u THEN e ELSE m[i])
    BY <2>1
  <2> HIDE DEF n
  <2>4. Leads(n, p, s)
    BY <1>1, <2>2, <2>3 DEF Leads
  <2>5. Names(n, U)
    BY <1>0, <2>2, <2>3 DEF Names
  <2>6. ASSUME NEW q, NEW t, q # p, Leads(m, q, t) PROVE Leads(n, q, t)
    <3>1. PICK i \in 1..Len(m) : m[i].uuid = UuidOf[q] /\ (m[i].sid = t \/ PlayerOf[m[i].sid] # q)
      BY <2>6 DEF Leads
    <3>2. n[i] = m[i] \/ (m[i].uuid = u /\ n[i] = e)
      BY <2>3
    <3>3. n[i].uuid = UuidOf[q] /\ (n[i].sid = t \/ PlayerOf[n[i].sid] # q)
      BY <1>0, <2>6, <3>1, <3>2
    <3> QED BY <2>2, <3>3 DEF Leads
  <2> QED BY <2>4, <2>5, <2>6 DEF n
<1>2. CASE \A i \in 1..Len(m) : m[i].uuid # u
  <2> DEFINE r == IF Len(m) >= MapLimit THEN Tail(m) ELSE m
  <2>1. n = Append(r, e)
    BY <1>2 DEF LimitMapSet
  <2>2. r \in Seq(Entry) /\ Len(r) \in Nat /\ Names(r, U)
    <3>1. CASE Len(m) >= MapLimit
      <4>1. MapLimit \in Nat /\ MapLimit > 0
        BY LoginAssumption
      <4>2. m # <<>>
        BY <1>0, <3>1, <4>1
      <4>3. /\ Tail(m) \in Seq(Entry) /\ Len(Tail(m)) = Len(m) - 1
            /\ \A i \in 1..Len(Tail(m)) : Tail(m)[i] = m[i + 1]
        BY <1>0, <4>2
      <4>4. \A i \in 1..Len(Tail(m)) : i + 1 \in 1..Len(m)
        BY <1>0, <4>3
      <4> QED BY <1>0, <3>1, <4>3, <4>4 DEF Names
    <3>2. CASE ~(Len(m) >= MapLimit)
      BY <1>0, <3>2
    <3> QED BY <3>1, <3>2
  <2>3. Cardinality(U) <= MapLimit => r = m
    <3>1. Cardinality(U) <= MapLimit => Len(m) < MapLimit
      BY <1>2, PlaceLeft
    <3> QED BY <1>0, <3>1, LoginAssumption
  <2> HIDE DEF r
  <2>4. /\ Len(n) = Len(r) + 1 /\ n[Len(r) + 1] = e
        /\ \A i \in 1..Len(r) : n[i] = r[i]
    <3> HIDE DEF e
    <3> QED BY <1>0, <2>1, <2>2
  <2> HIDE DEF n
  <2>5. Leads(n, p, s)
    BY <2>2, <2>4 DEF Leads
  <2>6. Names(n, U)
    <3>1. \A i \in 1..Len(n) : i \in 1..Len(r) \/ i = Len(r) + 1
      BY <2>2, <2>4
    <3> HIDE DEF e
    <3> QED BY <1>0, <2>2, <2>4, <3>1 DEF Names
  <2>7. ASSUME r = m, NEW q, NEW t, Leads(m, q, t) PROVE Leads(n, q, t)
    <3>1. \A i \in 1..Len(r) : i \in 1..Len(n)
      BY <2>2, <2>4
    <3> QED BY <2>4, <2>7, <3>1 DEF Leads
  <2> QED BY <2>3, <2>5, <2>6, <2>7 DEF n
<1> QED BY <1>1, <1>2

\* Whoever is logged in is pushed to, or about to be kicked.
PushOK(p) ==
    \A t \in Live(p) : t \in kicks \/ Leads(sessionMap[ConnOf[t]], p, t) \/ ~Roomy(ConnOf[t])
PushInv ==
    /\ LoginInv
    /\ \A c \in Conns : Names(sessionMap[c], UuidsOn(c))
    /\ \A p \in Players \ disturbed : PushOK(p)

LEMMA PushInit == LoginInit => PushInv
BY InvInit DEF LoginInit, PushInv, Names, PushOK, Live

\* Sessions that stay open stay pushed to while their map is left alone.
LEMMA SamePush ==
    ASSUME PushInv, NEW p \in Players \ disturbed, Live(p)' \subseteq Live(p),
           Live(p)' \cap kicks \subseteq kicks',
           \A t \in Live(p)' : sessionMap'[ConnOf[t]] = sessionMap[ConnOf[t]]
    PROVE  PushOK(p)'
BY DEF PushInv, PushOK, Roomy, UuidsOn

LEMMA AddSessionPush ==
    ASSUME PushInv, NEW s \in Sids, AddSession(s)
    PROVE  /\ \A c \in Conns : Names(sessionMap'[c], UuidsOn(c))
           /\ \A p \in Players \ disturbed' : PushOK(p)'
<1> DEFINE c == ConnOf[s]
           p == PlayerOf[s]
           u == UuidOf[p]
           n == LimitMapSet(sessionMap[c], u, s)
<1>1. /\ c \in Conns /\ p \in Players /\ u \in Uuids /\ u \in UuidsOn(c) /\ s \in SidsOf(p)
      /\ sessionMap \in [Conns -> Maps] /\ Names(sessionMap[c], UuidsOn(c))
      /\ ConnOf \in [Sids -> Conns]
  BY LoginAssumption DEF UuidsOn, PushInv, LoginInv, TypeInv, SidsOf
<1>2. /\ Names(n, UuidsOn(c)) /\ Leads(n, p, s)
      /\ Roomy(c) => \A q, t : q # p /\ Leads(sessionMap[c], q, t) => Leads(n, q, t)
  BY <1>1, LimitMapSetLeads, UuidsFinite DEF Roomy
<1> HIDE DEF n
<1>3. sessionMap' = [sessionMap EXCEPT ![c] = n] /\ UNCHANGED <<phase, online, kicks>>
      /\ task[s] = "added" /\ member' \subseteq member \cup {s} /\ disturbed \subseteq disturbed'
  BY <1>1 DEF AddSession, n, Disturb
<1>4. sessionMap'[c] = n /\ \A d \in Conns \ {c} : sessionMap'[d] = sessionMap[d]
  BY <1>1, <1>3
<1>5. \A d \in Conns : Names(sessionMap'[d], UuidsOn(d))
  BY <1>1, <1>2, <1>4 DEF PushInv
<1>6. ASSUME NEW q \in Players \ disturbed', NEW t \in Live(q)'
      PROVE  t \in kicks' \/ Leads(sessionMap'[ConnOf[t]], q, t) \/ ~Roomy(ConnOf[t])
  <2>1. /\ q \in Players \ disturbed /\ t \in Sids /\ PlayerOf[t] = q /\ phase[t] = "open"
        /\ t \in Live(q) \/ t = s
    BY <1>3, <1>6 DEF Live, SidsOf
  <2>2. CASE t = s
    BY <1>2, <1>4, <2>1, <2>2
  <2>3. CASE t # s /\ q = p
    <3>1. t \in Live(p) /\ Known(p) /\ Progress(p)
      BY <2>1, <2>3 DEF PushInv, LoginInv, Settled
    <3>2. online[p] = s
      BY <1>1, <1>3, <3>1 DEF Progress
    <3> QED BY <1>3, <2>3, <3>1, <3>2 DEF Known
  <2>4. CASE t # s /\ q # p
    <3>1. t \in kicks \/ Leads(sessionMap[ConnOf[t]], q, t) \/ ~Roomy(ConnOf[t])
      BY <2>1, <2>4 DEF PushInv, PushOK
    <3>2. CASE ConnOf[t] = c
      BY <1>2, <1>3, <1>4, <2>4, <3>1, <3>2
    <3>3. CASE ConnOf[t] # c
      BY <1>1, <1>3, <1>4, <2>1, <3>1, <3>3
    <3> QED BY <3>2, <3>3
  <2> QED BY <2>2, <2>3, <2>4
<1>7. \A q \in Players \ disturbed' : PushOK(q)'
  BY <1>6 DEF PushOK, Roomy, UuidsOn
<1> QED BY <1>5, <1>7

LEMMA PushStep == PushInv /\ [LoginNext]_loginVars => PushInv'
<1> SUFFICES ASSUME PushInv, [LoginNext]_loginVars
             PROVE  /\ \A c \in Conns : Names(sessionMap'[c], UuidsOn(c))
                    /\ \A p \in Players \ disturbed' : PushOK(p)'
  BY InvStep DEF PushInv, UuidsOn, Names
<1>a. LoginInv /\ TypeInv
  BY DEF PushInv, LoginInv
<1>b. ASSUME UNCHANGED <<sessionMap, member>>, disturbed \subseteq disturbed',
             \A s \in Sids : phase'[s] = "open" => phase[s] = "open",
             \A p \in Players \ disturbed' : Live(p)' \cap kicks \subseteq kicks'
      PROVE  /\ \A c \in Conns : Names(sessionMap'[c], UuidsOn(c))
             /\ \A p \in Players \ disturbed' : PushOK(p)'
  <2>1. \A p \in Players : Live(p)' \subseteq Live(p)
    BY <1>b DEF Live, SidsOf
  <2> QED BY <1>b, <2>1, SamePush DEF PushInv
<1>1. ASSUME NEW s \in Sids,
             \/ Login(s) \/ LoadPlayerInfo(s) \/ AddOnlineInfo(s) \/ CleanupGet(s) \/ CleanupDel(s)
             \/ Expire(s) \/ ProAfkTime(s) \/ LoseAfkTime(s)
      PROVE  UNCHANGED <<sessionMap, member, phase, kicks>> /\ disturbed \subseteq disturbed'
  BY <1>1 DEF Login, LoadPlayerInfo, AddOnlineInfo, CleanupGet, CleanupDel, Expire, ProAfkTime, LoseAfkTime,
            Disturb, histories
<1>2. ASSUME NEW s \in Sids, GetOnlineInfo(s)
      PROVE  /\ UNCHANGED <<sessionMap, member>> /\ disturbed \subseteq disturbed'
             /\ kicks \subseteq kicks' /\ \A t \in Sids : phase'[t] = "open" => phase[t] = "open"
  <2> DEFINE old == online[PlayerOf[s]]
  <2>1. UNCHANGED <<sessionMap, member>> /\ disturbed \subseteq disturbed'
    BY <1>2 DEF GetOnlineInfo, Disturb
  <2>2. old \in Sids \cup {None}
    BY <1>a, LoginAssumption DEF TypeInv, PlainTypes
  <2>3. CASE UNCHANGED <<phase, kicks>>
    BY <2>1, <2>3
  <2>4. CASE old # None /\ KickOld(s, old)
    BY <1>a, <2>1, <2>2, <2>4, KickOldTypes
  <2> QED BY <1>2, <2>3, <2>4 DEF GetOnlineInfo
<1>3. ASSUME NEW s \in Sids, DeliverKick(s)
      PROVE  /\ UNCHANGED <<sessionMap, member, disturbed>>
             /\ \A t \in Sids : phase'[t] = "open" => phase[t] = "open"
             /\ \A p \in Players : Live(p)' \cap kicks \subseteq kicks'
  <2>1. /\ UNCHANGED <<sessionMap, member, disturbed>> /\ kicks' = kicks \ {s}
        /\ \A t \in Sids : phase'[t] = "open" => phase[t] = "open" /\ t # s
    BY <1>3, <1>a, DestroyTypes DEF DeliverKick, histories
  <2> QED BY <2>1 DEF Live, SidsOf
<1>4. ASSUME NEW s \in Sids, LoseKick(s)
      PROVE  /\ UNCHANGED <<sessionMap, member, phase>> /\ disturbed \subseteq disturbed'
             /\ \A p \in Players \ disturbed' : Live(p)' \cap kicks \subseteq kicks'
  BY <1>4 DEF LoseKick, Disturb, Live, SidsOf
<1>5. ASSUME NEW s \in Sids, Leave(s)
      PROVE  /\ UNCHANGED <<sessionMap, member, kicks, disturbed>>
             /\ \A t \in Sids : phase'[t] = "open" => phase[t] = "open"
  BY <1>5, <1>a, DestroyTypes DEF Leave, histories
<1>6. ASSUME NEW c \in Conns, CrashConn(c)
      PROVE  /\ \A d \in Conns : Names(sessionMap'[d], UuidsOn(d))
             /\ \A p \in Players \ disturbed' : PushOK(p)'
  <2>1. /\ UNCHANGED <<kicks, disturbed>> /\ member' \subseteq member
        /\ sessionMap' = [sessionMap EXCEPT ![c] = <<>>]
        /\ \A t \in Sids : phase'[t] = "open" => phase[t] = "open" /\ ConnOf[t] # c
    BY <1>6, <1>a DEF CrashConn, histories, TypeInv, PlainTypes
  <2>2. \A d \in Conns : \/ sessionMap'[d] = <<>>
                         \/ d # c /\ sessionMap'[d] = sessionMap[d]
    BY <2>1, <1>a DEF TypeInv
  <2>3. \A d \in Conns : Names(sessionMap'[d], UuidsOn(d))
    BY <2>2 DEF PushInv, Names
  <2>4. ASSUME NEW p \in Players \ disturbed' PROVE PushOK(p)'
    <3>1. Live(p)' \subseteq Live(p) /\ \A t \in Live(p)' : ConnOf[t] # c /\ ConnOf[t] \in Conns
      BY <2>1, LoginAssumption DEF Live, SidsOf
    <3>2. \A d \in Conns \ {c} : sessionMap'[d] = sessionMap[d]
      BY <2>1, <1>a DEF TypeInv
    <3> QED BY <2>1, <3>1, <3>2, SamePush
  <2> QED BY <2>3, <2>4
<1>7. CASE UNCHANGED loginVars
  BY <1>7, <1>b DEF loginVars, histories
<1>8. ASSUME NEW s \in Sids,
             \/ Login(s) \/ LoadPlayerInfo(s) \/ AddOnlineInfo(s) \/ CleanupGet(s) \/ CleanupDel(s)
             \/ Expire(s) \/ ProAfkTime(s) \/ LoseAfkTime(s) \/ GetOnlineInfo(s) \/ DeliverKick(s) \/ LoseKick(s) \/ Leave(s)
      PROVE  /\ \A c \in Conns : Names(sessionMap'[c], UuidsOn(c))
             /\ \A p \in Players \ disturbed' : PushOK(p)'
  <2>1. CASE \/ Login(s) \/ LoadPlayerInfo(s) \/ AddOnlineInfo(s) \/ CleanupGet(s) \/ CleanupDel(s)
             \/ Expire(s) \/ ProAfkTime(s) \/ LoseAfkTime(s)
    BY <1>1, <1>b, <2>1
  <2>2. CASE GetOnlineInfo(s)
    BY <1>2, <1>b, <2>2
  <2>3. CASE DeliverKick(s)
    BY <1>3, <1>b, <2>3
  <2>4. CASE LoseKick(s)
    BY <1>4, <1>b, <2>4
  <2>5. CASE Leave(s)
    BY <1>5, <1>b, <2>5
  <2> QED BY <1>8, <2>1, <2>2, <2>3, <2>4, <2>5
<1> QED
  BY <1>6, <1>7, <1>8, AddSessionPush DEF LoginNext, LoginStep, CleanupStep

\* A player whose logins did not overlap, and lost no call, is logged in with the
\* session his messages are pushed to, where the map has room and no player of another
\* area took the entry of their common uuid (conn_imp.js:20-30).
THEOREM PushesReachPlayers == LoginSpec => []PushReach
<1>1. PushInv => PushReach
  <2> SUFFICES ASSUME PushInv, NEW p \in Players \ disturbed, AtRest(p), NEW s \in Live(p)
               PROVE  Leads(sessionMap[ConnOf[s]], p, s) \/ ~Roomy(ConnOf[s])
    <3>1. ASSUME NEW s \in Sids, ~Roomy(ConnOf[s])
          PROVE  Cardinality(UuidsOn(ConnOf[s])) > MapLimit
      <4>1. Cardinality(UuidsOn(ConnOf[s])) \in Nat /\ MapLimit \in Nat
        BY UuidsFinite, FS_CardinalityType, LoginAssumption
      <4>2. Cardinality(UuidsOn(ConnOf[s])) > MapLimit
        BY <3>1, <4>1 DEF Roomy
      <4> QED BY <4>2 DEF UuidsOn
    <3> QED BY <3>1 DEF PushReach, Leads, Live, SidsOf
  <2>1. s \notin kicks
    BY DEF AtRest, Live
  <2> QED BY <2>1 DEF PushInv, PushOK
<1> QED BY PushInit, PushStep, <1>1, PTL DEF LoginSpec
=============================================================================
