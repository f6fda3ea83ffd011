-------------------------------- MODULE PvpDay --------------------------------
(***************************************************************************)
(* The daily tournament: enrollPvpDay and _fightPvpDay of pvp_imp.js.      *)
(* Enrolments are calls of DataPipeline on three records: the player's     *)
(* pvpInfo carries the enrolments that marked him, the area's pvpDay those *)
(* that put him on the list, globalInfo those that were counted.  The      *)
(* tournament is a process of its own (server/pvp_day.js) that reads the   *)
(* list once, fills it up with robots, lets the players fight for their    *)
(* points, round by round, and writes the ranking back with the list.  It  *)
(* reads and writes the points of two players in every fight, next to the  *)
(* calls of the players; the points of robots are in its own memory.       *)
(***************************************************************************)
EXTENDS DataPipeline, FiniteSets, SequencesExt

CONSTANTS
    Enrols,        \* calls of enrollPvpDay
    Job,           \* the tournament
    PlayerOf,      \* the player a call is from
    InfoOf,        \* the pvpInfo of a player
    Day, Global,   \* the area's list, the count of all areas
    Robots,        \* the robots, in the order in which they fill up the list
    BodyOf,        \* the object of the robot configuration a robot is played by
    StartTickets,  \* the points at the start, those of a robot included
    Gains,         \* the points that another call may bring: chests, fights of the sng
    Limit,         \* PVP_ENROLL_DAY_NUMS_LIMIT, 5000
    MinTickets,    \* PVP_ENROLL_DAY_TICKET_LIMIT, 10
    MinSize,       \* robots are added up to this number, 100
    RoundEnd,      \* rounds end with this number of players left, 16
    MaxRounds,     \* and after this number of rounds, 10
    Finalists,     \* who play the final rounds, 8
    MaxCalls       \* bound: the number of calls that are made

Players == DOMAIN InfoOf
AllRobots == RangeOf(Robots)
Infos == {InfoOf[p] : p \in Players}

\* Players log in for the first time before they can enrol, so no call creates one.
ASSUME PvpAssumption ==
    /\ Enrols \subseteq Calls /\ IsFiniteSet(Enrols) /\ Job \in Calls \ Enrols /\ Logins = {}
    /\ PlayerOf \in [Calls \ {Job} -> Players]
    /\ \A e \in Enrols : /\ ReadsOf[e] = <<InfoOf[PlayerOf[e]], Day, Global>>
                         /\ WritesOf[e] = ReadsOf[e]
    /\ \A p \in Players : InfoOf[p] \in Records
    /\ ReadsOf[Job] = <<Day>> /\ WritesOf[Job] = <<Day>> /\ Job \in Quiet
    /\ StartTickets \in [Players \cup AllRobots -> Nat] /\ IsFiniteSet(Players)
    /\ \A r \in AllRobots : StartTickets[r] > 0
    /\ Gains \subseteq Nat
    /\ Robots \in Seq(AllRobots) /\ {Limit, MinSize, MaxRounds, Finalists} \subseteq Nat
    /\ MinTickets \in Nat \ {0}
    /\ RoundEnd = 2 * Finalists /\ RoundEnd < MinSize /\ MinSize <= Len(Robots)

VARIABLES
    ticket,     \* ticketDay: in Redis for players, in robotPvpInfoCache for robots
    tcopy,      \* tcopy[c]: the points in the copy that call c has of a pvpInfo
    stage,      \* what the tournament does next
    entries,    \* those who take part, as _fightPvpDay lists them
    before,     \* history: the points of all when it has listed them
    userArea,   \* those who are in the round; with [uuid, ticketDay]
    area1,      \* userArea1
    area2,      \* userArea2
    sOne,       \* who sits the round out
    remain,     \* remainUserArea: those who have points left after the round
    ranks,      \* sortResult.userArea: those who have lost all their points
    start,      \* sortResult.map: the points each had in his first fight
    count,      \* the round
    duel,       \* the two who fight, with the copies of their points
    mixed,      \* history: two robots played by one object have fought
    final       \* finalSort, in the tournament's copy of pvpDay

field == <<userArea, area1, area2, sOne>>
results == <<remain, ranks, start>>
match == <<stage, entries, before, field, results, count, duel, mixed, final>>
records == <<db, present, met, stored>>
pvpVars == <<pipeVars, ticket, tcopy, match>>

NoDuel == [ua1 |-> Job, ua2 |-> Job, t1 |-> 0, t2 |-> 0]

PvpInit ==
    /\ PipeInit
    /\ ticket = StartTickets /\ before = StartTickets
    /\ tcopy = [c \in Calls |-> 0]
    /\ stage = "list"
    /\ entries = <<>> /\ userArea = <<>> /\ area1 = <<>> /\ area2 = <<>> /\ sOne = <<>>
    /\ remain = <<>> /\ ranks = <<>> /\ start = [u \in {} |-> 0]
    /\ count = 0 /\ duel = NoDuel /\ mixed = FALSE /\ final = <<>>

-----------------------------------------------------------------------------
(* The calls of players. *)

BeginOne(c) == Begin(c) /\ Cardinality({d \in Calls : pc[d] # "new"}) < MaxCalls

Enrolled(c) == \E e \in vals[c][InfoOf[PlayerOf[c]]] \cap Enrols : PlayerOf[e] = PlayerOf[c]

MayEnrol_OffByOne(c) ==   \* mutant: the limit itself is still accepted
    /\ tcopy[c] >= MinTickets
    /\ Cardinality(vals[c][Global] \cap Enrols) <= Limit

MayEnrol(c) ==
    /\ tcopy[c] >= MinTickets
    /\ Cardinality(vals[c][Global] \cap Enrols) < Limit

EnrollPvpDay_NoMark(c) ==   \* mutant: the player is listed, but not marked
    /\ AllRead(c) /\ c \in Enrols
    /\ IF Enrolled(c) THEN Apply(c, {})
       ELSE IF MayEnrol(c) THEN Apply(c, {Day, Global})
       ELSE EndAs(c, Refused(c)) /\ UNCHANGED <<copies, records>>

\* A player who is marked gets the list again, and his records are written unchanged.
EnrollPvpDay(c) ==
    /\ AllRead(c) /\ c \in Enrols
    /\ IF Enrolled(c) THEN Apply(c, {})
       ELSE IF MayEnrol(c) THEN Apply(c, RangeOf(WritesOf[c]))
       ELSE EndAs(c, Refused(c)) /\ UNCHANGED <<copies, records>>

\* The points go with the pvpInfo that the call reads and writes, with what it has gained.
Follow(c, gain) ==
    LET who == PlayerOf[c]
    IN  /\ tcopy' = IF InfoOf[who] \in have'[c] \ have[c]
                    THEN [tcopy EXCEPT ![c] = ticket[who] + gain]
                    ELSE [tcopy EXCEPT ![c] = @ + gain]
        /\ ticket' = IF InfoOf[who] \in stored'[c] \ stored[c]
                     THEN [ticket EXCEPT ![who] = tcopy[c]] ELSE ticket

\* getSngBoxReward, getSngReward and exitPvpSng add to ticketDay, no call takes from it.
PlayerCall(c) ==
    /\ c # Job
    /\ \/ /\ \/ BeginOne(c) \/ ReadNext(c) \/ EnrollPvpDay(c) \/ WriteNext(c) \/ Answer(c) \/ Fail(c)
             \/ c \notin Enrols /\ Run(c)
          /\ Follow(c, 0)
       \/ /\ c \notin Enrols /\ Run(c) /\ c \in vals'[c][InfoOf[PlayerOf[c]]]
          /\ \E gain \in Gains : Follow(c, gain)
    /\ UNCHANGED match

-----------------------------------------------------------------------------
(* The tournament. *)

ListStep ==
    /\ \/ BeginOne(Job)
       \/ stage \in {"list", "done"} /\ (ReadNext(Job) \/ WriteNext(Job) \/ Answer(Job))
       \/ Fail(Job)
    /\ UNCHANGED <<ticket, tcopy, match>>

Playing(at) == AllRead(Job) /\ stage = at

AsEntry(u) == [uuid |-> u, ticketDay |-> 0]

\* The list, in the order of the enrolments, and robots.
FillUp ==
    /\ Playing("list")
    /\ \E order \in SetToSeqs(vals[Job][Day] \cap Enrols) :
          LET players == [i \in 1..Len(order) |-> PlayerOf[order[i]]]
          IN  entries' = players \o SubSeq(Robots, 1, MinSize - Len(players))
    /\ userArea' = [i \in 1..Len(entries') |-> AsEntry(entries'[i])]
    /\ before' = ticket
    /\ stage' = "round"
    /\ UNCHANGED <<pipeVars, ticket, tcopy, area1, area2, sOne, results, count, duel, mixed, final>>

Every2nd(s, from) == [i \in 1..((Len(s) + 2 - from) \div 2) |-> s[2 * i - 2 + from]]

RoundsOver_Late ==   \* mutant: rounds go on until there are no more than the finalists
    count >= MaxRounds \/ Len(userArea) <= Finalists

RoundsOver == count >= MaxRounds \/ Len(userArea) <= RoundEnd

\* A round begins, or the rounds are over.
FightOne ==
    /\ Playing("round")
    /\ IF RoundsOver
       THEN stage' = "rank" /\ UNCHANGED <<field, remain>>
       ELSE /\ stage' = "first"
            /\ LET odd == Len(userArea) % 2
                   even == SubSeq(userArea, 1 + odd, Len(userArea))
               IN  /\ sOne' = SubSeq(userArea, 1, odd)
                   /\ area1' = Every2nd(even, 1)
                   /\ area2' = Every2nd(even, 2)
            /\ userArea' = <<>> /\ remain' = <<>>
    /\ UNCHANGED <<pipeVars, ticket, tcopy, entries, before, ranks, start, count, duel, mixed, final>>

\* The pvpInfo of a player is read with all that it carries.
GetPvpInfo(u) ==
    IF u \in AllRobots THEN UNCHANGED <<vals, have>>
    ELSE /\ vals' = [vals EXCEPT ![Job][InfoOf[u]] = db[InfoOf[u]]]
         /\ have' = [have EXCEPT ![Job] = @ \cup {InfoOf[u]}]

FirstOfPair ==
    /\ Playing("first") /\ area1 # <<>> /\ area2 # <<>>
    /\ LET u == Last(area1).uuid
       IN  /\ GetPvpInfo(u)
           /\ duel' = [NoDuel EXCEPT !.ua1 = u, !.ua2 = Last(area2).uuid, !.t1 = ticket[u]]
    /\ area1' = Front(area1) /\ area2' = Front(area2)
    /\ stage' = "second"
    /\ UNCHANGED <<records, pc, pos, ticket, tcopy, entries, before, userArea, sOne, results, count, mixed, final>>

InsertElt_Low(s, u, points) ==   \* mutant: the ranking is built from the wrong end
    LET below == {i \in 1..Len(s) : points[u] <= points[s[i]]}
        at == IF below = {} THEN Len(s) + 1 ELSE Min(below)
    IN  InsertAt(s, at, u)

\* insertEltToSortResult: before the first who had no more points.
InsertElt(s, u, points) ==
    LET below == {i \in 1..Len(s) : points[u] >= points[s[i]]}
        at == IF below = {} THEN Len(s) + 1 ELSE Min(below)
    IN  InsertAt(s, at, u)

Prize_Win(win, lose) == win   \* mutant: the loser pays what the winner has, if he has it or not
Prize(win, lose) == IF win >= lose THEN lose ELSE win

\* Two robots played by one object have one uuid, that of the second.
NameOf1(u, v) == IF u \in AllRobots /\ v \in AllRobots /\ BodyOf[u] = BodyOf[v] THEN v ELSE u

AfterFight_All(u, v, t1, t2, winner) ==   \* mutant: the winner gains all of the loser's points
    IF u = v /\ u \in AllRobots THEN <<t1, t1>>
    ELSE IF winner = 1 THEN <<t1 + t2, t2 - Prize(t1, t2)>>
    ELSE <<t1 - Prize(t2, t1), t2 + t1>>

\* The points of the two after the fight; a robot against itself changes one object twice.
AfterFight(u, v, t1, t2, winner) ==
    IF u = v /\ u \in AllRobots THEN <<t1, t1>>
    ELSE IF winner = 1 THEN <<t1 + Prize(t1, t2), t2 - Prize(t1, t2)>>
    ELSE <<t1 - Prize(t2, t1), t2 + Prize(t2, t1)>>

\* One who has points left remains, the other is ranked.
Place(left, s, points, u, t) ==
    IF t # 0 THEN <<Append(left, [uuid |-> u, ticketDay |-> t]), s>>
    ELSE <<left, InsertElt(s, u, points)>>

\* The second pvpInfo is read, the two fight, calFightResult.
SecondOfPair ==
    /\ Playing("second")
    /\ LET u == duel.ua1
           v == duel.ua2
       IN  /\ GetPvpInfo(v)
           /\ start' = [w \in DOMAIN start \cup {u, v} |->
                          IF w \in DOMAIN start THEN start[w] ELSE IF w = u THEN duel.t1 ELSE ticket[v]]
           /\ \E winner \in 1..2 :
                 LET t == AfterFight(u, v, duel.t1, ticket[v], winner)
                     one == Place(remain, ranks, start', NameOf1(u, v), t[1])
                     two == Place(one[1], one[2], start', v, t[2])
                 IN  /\ duel' = [duel EXCEPT !.t1 = t[1], !.t2 = t[2]]
                     /\ remain' = two[1] /\ ranks' = two[2]
           /\ mixed' = (mixed \/ NameOf1(u, v) # u)
    /\ stage' = "set1"
    /\ UNCHANGED <<records, pc, pos, ticket, tcopy, entries, before, field, count, final>>

SetPvpInfo_New(u, t) ==   \* mutant: the pvpInfo is made new instead of changed
    /\ ticket' = [ticket EXCEPT ![u] = t]
    /\ IF u \in AllRobots THEN UNCHANGED <<db, stored>>
       ELSE /\ db' = [db EXCEPT ![InfoOf[u]] = {Job}]
            /\ stored' = [stored EXCEPT ![Job] = @ \cup {InfoOf[u]}]
    /\ UNCHANGED <<present, pc, copies, met, tcopy, entries, before, field, results, count, mixed, final>>

SetPvpInfo(u, t) ==
    /\ ticket' = [ticket EXCEPT ![u] = t]
    /\ IF u \in AllRobots THEN UNCHANGED <<db, stored>>
       ELSE /\ db' = [db EXCEPT ![InfoOf[u]] = vals[Job][InfoOf[u]] \cup {Job}]
            /\ stored' = [stored EXCEPT ![Job] = @ \cup {InfoOf[u]}]
    /\ UNCHANGED <<present, pc, copies, met, tcopy, entries, before, field, results, count, mixed, final>>

SetFirst ==
    /\ Playing("set1") /\ SetPvpInfo(duel.ua1, duel.t1)
    /\ stage' = "set2" /\ UNCHANGED duel

SetSecond ==
    /\ Playing("set2") /\ SetPvpInfo(duel.ua2, duel.t2)
    /\ stage' = "first" /\ duel' = NoDuel

EndRound_NoSitter ==   \* mutant: who has sat out is forgotten
    /\ Playing("first") /\ (area1 = <<>> \/ area2 = <<>>)
    /\ userArea' = remain
    /\ sOne' = <<>> /\ remain' = <<>>
    /\ count' = count + 1
    /\ stage' = "round"
    /\ UNCHANGED <<pipeVars, ticket, tcopy, entries, before, area1, area2, ranks, start, duel, mixed, final>>

EndRound ==
    /\ Playing("first") /\ (area1 = <<>> \/ area2 = <<>>)
    /\ userArea' = remain \o sOne
    /\ sOne' = <<>> /\ remain' = <<>>
    /\ count' = count + 1
    /\ stage' = "round"
    /\ UNCHANGED <<pipeVars, ticket, tcopy, entries, before, area1, area2, ranks, start, duel, mixed, final>>

Descending(s) == \A i, j \in 1..Len(s) : i < j => s[i].ticketDay >= s[j].ticketDay
Orders(s) == {[i \in 1..Len(s) |-> s[f[i]]] : f \in {g \in [1..Len(s) -> 1..Len(s)] :
                        \A i, j \in 1..Len(s) : g[i] = g[j] => i = j}}
Names(s) == [i \in 1..Len(s) |-> s[i].uuid]

\* The ranking: the finalists as the final rounds leave them (module FinalEight), the others
\* who have points left, the last first, and those who have none.  With no more left than
\* finalists the tournament has no final rounds and never ends.
Rank ==
    /\ Playing("rank")
    /\ IF Len(userArea) <= Finalists
       THEN /\ EndAs(Job, Refused(Job)) /\ stage' = "short"
            /\ UNCHANGED <<copies, records, userArea, ranks, final>>
       ELSE /\ \E sorted \in Orders(userArea) :
                  /\ Descending(sorted)
                  /\ ranks' = Reverse(Names(SubSeq(sorted, Finalists + 1, Len(sorted)))) \o ranks
                  /\ \E f8 \in Orders(Names(SubSeq(sorted, 1, Finalists))) :
                        final' = f8 \o ranks'
            /\ Apply(Job, {Day})
            /\ userArea' = <<>> /\ stage' = "done"
    /\ UNCHANGED <<ticket, tcopy, entries, before, area1, area2, sOne, remain, start, count, duel, mixed>>

Tournament ==
    ListStep \/ FillUp \/ FightOne \/ FirstOfPair \/ SecondOfPair \/ SetFirst \/ SetSecond
    \/ EndRound \/ Rank

PvpNext == Tournament \/ \E c \in Calls : PlayerCall(c)
PvpSpec == PvpInit /\ [][PvpNext]_pvpVars

-----------------------------------------------------------------------------
Uuids == Players \cup AllRobots
Entry == [uuid : Uuids, ticketDay : Nat]

PvpTypeOK ==
    /\ PipeTypeOK
    /\ ticket \in [Uuids -> Nat] /\ before \in [Uuids -> Nat] /\ tcopy \in [Calls -> Nat]
    /\ stage \in {"list", "round", "first", "second", "set1", "set2", "rank", "short", "done"}
    /\ {entries, ranks, final} \subseteq Seq(Uuids)
    /\ {userArea, area1, area2, sOne, remain} \subseteq Seq(Entry)
    /\ DOMAIN start \subseteq Uuids /\ \A u \in DOMAIN start : start[u] \in Nat
    /\ count \in 0..MaxRounds /\ mixed \in BOOLEAN
    /\ duel \in [ua1 : Uuids \cup {Job}, ua2 : Uuids \cup {Job}, t1 : Nat, t2 : Nat]

Places(s, u) == Cardinality({i \in 1..Len(s) : s[i] = u})
TwiceListed == \E u \in Uuids : Places(entries, u) > 1

\* Everybody who takes part has one place for each time he is listed: in the round, in the
\* fight, among those who remain, or in the ranking (pvp_imp.js:654-740, 769-787); until two
\* robots that are one object fight each other (robot.js:193-209).
EveryoneRanked ==
    mixed \/ \A u \in Uuids : Places(entries, u) =
       Places(Names(userArea \o area1 \o area2 \o sOne \o remain), u)
       + (IF stage = "done" THEN Places(final, u) ELSE Places(ranks, u))
       + (IF stage = "second" THEN Places(<<duel.ua1, duel.ua2>>, u) ELSE 0)

\* Those who have lost all their points are ranked by those they came with (pvp_imp.js:576-593).
RanksByStart ==
    stage # "done" => \A i, j \in 1..Len(ranks) : i < j => start[ranks[i]] >= start[ranks[j]]

\* Fights move points and neither make nor lose any (pvp_imp.js:611-637), unless a player is
\* listed twice, or a call has stored a pvpInfo meanwhile; between the fights, and to the end.
Sum(t) == Cardinality(UNION {{u} \X (1..t[u]) : u \in Uuids})
PointsConserved ==
    InWork(Job) /\ stage \notin {"list", "set2"} =>
       \/ TwiceListed
       \/ \E d \in met[Job] : stored[d] \cap Infos # {}
       \/ Sum(ticket) = Sum(before)

\* A player is on the list once (the comment at pvp_imp.js:316), unless a call met one of his
\* enrolments and wrote his pvpInfo.
ListedOnce ==
    \A e, f \in db[Day] \cap Enrols :
       e # f /\ PlayerOf[e] = PlayerOf[f] =>
          \E g \in {e, f} : \E d \in met[g] : InfoOf[PlayerOf[g]] \in stored[d]

\* Only enrolments that overlap, or that fail before they are counted, exceed the limit
\* (pvp_imp.js:314).
WithinLimit ==
    \/ \E e \in Enrols : met[e] # {} \/ (pc[e] \in {"error", "silent"} /\ stored[e] # {})
    \/ Cardinality(db[Day] \cap Enrols) <= Limit

\* A call that met an enrolment has put back the points its player had before.
PointsPutBack ==
    \E e \in Enrols : \E d \in met[e] \ {Job} : InfoOf[PlayerOf[e]] \in stored[d]

\* The rounds leave enough players for the final rounds (pvp_imp.js:769, 780), unless a player
\* is listed twice or without the points he enrolled with, or a robot has taken another's place.
NeverShort == stage = "short" => TwiceListed \/ mixed \/ PointsPutBack
=============================================================================
