----------------------------- MODULE PvpDayProofs -----------------------------
(***************************************************************************)
(* Theorems about PvpDay: the types of its state, that a player is on the  *)
(* list once and the list within its limit, that the ranking is in order,  *)
(* and that the records keep what RecordStore promises, for any number of  *)
(* players, calls and robots.                                              *)
(***************************************************************************)
EXTENDS PvpDay, SequenceTheorems, FiniteSetTheorems, WellFoundedInduction, TLAPS

-----------------------------------------------------------------------------
(* The invariant of the records. *)

Begun == {c \in Calls : pc[c] # "new"}
Contended(c, r) == \E d \in met[c] : r \in stored[d]
Inf(e) == InfoOf[PlayerOf[e]]

\* Meeting is mutual, and calls in work have met.
MetInv ==
    /\ \A c, d \in Calls : d \in met[c] => c \in met[d]
    /\ \A c, d \in Calls : c # d /\ InWork(c) /\ InWork(d) => d \in met[c]

\* Nothing is known of a call before it begins; a player's call makes its changes last.
FreshInv ==
    /\ \A c \in Calls : pc[c] = "new" => met[c] = {} /\ have[c] = {} /\ stored[c] = {} /\ pos[c] = 1
    /\ \A c \in Calls, r \in Records : vals[c][r] \subseteq Begun /\ db[r] \subseteq Begun
    /\ \A c \in Calls \ {Job} : pc[c] \in {"new", "read"} =>
          /\ stored[c] = {}
          /\ \A r \in Records : c \notin db[r] /\ \A d \in Calls : c \notin vals[d][r]

\* Every record exists, so a call has a copy of each that it has passed.
HaveInv ==
    /\ LoggedIn # {} => present = Records
    /\ \A c \in Calls : pc[c] # "new" => present = Records
    /\ \A c \in Calls : pc[c] = "read" =>
          \A i \in 1..Len(ReadsOf[c]) : i < pos[c] => ReadsOf[c][i] \in have[c]
    /\ \A c \in Calls : pc[c] = "write" => RangeOf(WritesOf[c]) \subseteq have[c]

\* A change that anybody else can see was stored by the call that made it.
OwnInv ==
    \A c \in Calls \ {Job}, r \in Records :
       c \in db[r] \/ (\E d \in Calls \ {c} : c \in vals[d][r]) => r \in stored[c] /\ c \in vals[c][r]

\* The copy of a record that nobody else has stored is up to date.
CopyInv ==
    /\ \A c \in Calls, r \in Records :
          InWork(c) /\ r \in have[c] /\ ~ Contended(c, r) => vals[c][r] \cup {c} = db[r] \cup {c}
    /\ pc[Job] = "write" => Job \in vals[Job][Day]

\* A change that was stored is in Redis and in every copy that was read after it.
SeenInv ==
    \A c \in Calls \ {Job}, r \in Records :
       r \in stored[c] /\ c \in vals[c][r] /\ ~ Contended(c, r) =>
          /\ c \in db[r]
          /\ \A d \in Calls : d # c /\ InWork(d) /\ d \notin met[c] /\ r \in have[d] => c \in vals[d][r]

\* An enrolment marks the player, and stores the mark first.
MarkInv ==
    \A e \in Enrols :
       /\ (pc[e] = "write" /\ pos[e] > 1) \/ stored[e] # {} => Inf(e) \in stored[e]
       /\ \A r \in Records : e \in vals[e][r] => e \in vals[e][Inf(e)]

Unseen(e) == Contended(e, Inf(e)) \/ (pc[e] \in Ended /\ Inf(e) \notin stored[e])

\* Of two enrolments that mark one player and did not meet, the second has not seen the first.
TwiceInv ==
    \A e, f \in Enrols :
       /\ e # f /\ PlayerOf[e] = PlayerOf[f] /\ f \notin met[e]
       /\ e \in vals[e][Inf(e)] /\ f \in vals[f][Inf(f)]
       => Unseen(e) \/ Unseen(f)

DataInv == /\ MetInv /\ FreshInv /\ HaveInv /\ OwnInv
           /\ CopyInv /\ SeenInv /\ MarkInv /\ TwiceInv

-----------------------------------------------------------------------------
(* The invariant of the limit. *)

\* No enrolment met a call, and none failed with its records half written.
Undisturbed ==
    \A e \in Enrols : met[e] = {} /\ ~ (pc[e] \in {"error", "silent"} /\ stored[e] # {})

\* The enrolments that mark the player and may have been stored.
Listed == {e \in Enrols : e \in vals[e][Inf(e)] /\ (pc[e] = "write" \/ stored[e] # {})}

\* An answered enrolment has stored all of its records, with its change or without it.
StoredInv ==
    \A e \in Enrols :
       /\ pc[e] = "write" => \A i \in 1..Len(WritesOf[e]) : i < pos[e] => WritesOf[e][i] \in stored[e]
       /\ pc[e] = "ok" => RangeOf(WritesOf[e]) \subseteq stored[e]
       /\ e \in vals[e][Inf(e)] => \A r \in RangeOf(WritesOf[e]) : e \in vals[e][r]

LimitInv == StoredInv /\ (Undisturbed => Cardinality(Listed) <= Limit)

-----------------------------------------------------------------------------
(* The invariant of the tournament. *)

Copied(u) == u \in AllRobots \/ InfoOf[u] \in have[Job]

\* The two who fight have been read before they are written; the rounds are counted.
StageInv ==
    /\ stage \in {"first", "second", "set1", "set2"} => count < MaxRounds
    /\ stage \in {"second", "set1", "set2"} => {duel.ua1, duel.ua2} \subseteq Uuids /\ Copied(duel.ua1)
    /\ stage \in {"set1", "set2"} => Copied(duel.ua2)

Sorted(s, points) == \A i, j \in 1..Len(s) : i < j => points[s[i]] >= points[s[j]]

\* Whoever is ranked has fought.
RankInv ==
    stage # "done" => ranks \in Seq(DOMAIN start) /\ Sorted(ranks, start)

IInv == PvpTypeOK /\ StageInv /\ RankInv /\ DataInv /\ LimitInv

-----------------------------------------------------------------------------
(* The steps, by what they do to the records and to the copies of a call. *)

Begins(c) == Enter(c, "read")

Reads(c, r) ==
    /\ pc[c] = "read" /\ r \in Records
    /\ vals' = [vals EXCEPT ![c][r] = db[r]]
    /\ have' = [have EXCEPT ![c] = @ \cup {r}]
    /\ \/ UNCHANGED pos
       \/ /\ pos[c] \in 1..Len(ReadsOf[c]) /\ r = ReadsOf[c][pos[c]]
          /\ pos' = [pos EXCEPT ![c] = @ + 1]
    /\ UNCHANGED <<db, present, pc, met, stored>>

Applies(c, touched) ==
    /\ AllRead(c) /\ Apply(c, touched)
    /\ touched \subseteq RangeOf(WritesOf[c])
    /\ c \in Enrols => touched = {} \/ (touched = RangeOf(WritesOf[c]) /\ ~ Enrolled(c) /\ MayEnrol(c))
    /\ c = Job => touched = {Day}

Writes(c, r, v) ==
    /\ InWork(c) /\ r \in have[c]
    /\ c # Job => pc[c] = "write"
    /\ pc[c] = "write" => pos[c] \in 1..Len(WritesOf[c]) /\ r = WritesOf[c][pos[c]]
    /\ \/ pc[c] = "write" /\ v = vals[c][r]
       \/ c = Job /\ v = vals[c][r] \cup {Job}
    /\ db' = [db EXCEPT ![r] = v]
    /\ stored' = [stored EXCEPT ![c] = @ \cup {r}]
    /\ \/ UNCHANGED <<pc, pos>>
       \/ pc[c] = "write" /\ UNCHANGED pc /\ pos' = [pos EXCEPT ![c] = @ + 1]
       \/ UNCHANGED pos /\ \E how \in {"error", "silent"} : EndAs(c, how)
    /\ UNCHANGED <<present, vals, have, met>>

Ends(c) ==
    /\ InWork(c)
    /\ \E how \in Ended : EndAs(c, how) /\ (how = "ok" => AllWritten(c))
    /\ UNCHANGED <<db, present, copies, met, stored>>

DataStep ==
    \/ UNCHANGED pipeVars
    \/ \E c \in Calls : Begins(c) \/ Ends(c)
    \/ \E c \in Calls, r \in Records : Reads(c, r) \/ \E v \in SUBSET Calls : Writes(c, r, v)
    \/ \E c \in Calls, touched \in SUBSET Records : Applies(c, touched)

LEMMA Facts ==
    /\ Enrols \subseteq Calls /\ Job \in Calls /\ Job \notin Enrols /\ Day \in Records
    /\ \A c \in Calls : /\ Len(ReadsOf[c]) \in Nat /\ Len(WritesOf[c]) \in Nat
                        /\ \A i \in 1..Len(ReadsOf[c]) : ReadsOf[c][i] \in Records
                        /\ \A i \in 1..Len(WritesOf[c]) : /\ WritesOf[c][i] \in Records
                                                         /\ WritesOf[c][i] \in RangeOf(WritesOf[c])
                        /\ RangeOf(WritesOf[c]) \subseteq RangeOf(ReadsOf[c])
                        /\ RangeOf(WritesOf[c]) \subseteq Records
    /\ \A e \in Enrols : /\ PlayerOf[e] \in Players /\ Inf(e) \in Records
                         /\ Inf(e) \in RangeOf(WritesOf[e]) /\ WritesOf[e][1] = Inf(e)
    /\ \A c \in Calls \ {Job} : PlayerOf[c] \in Players
    /\ Len(WritesOf[Job]) = 1 /\ WritesOf[Job][1] = Day /\ RangeOf(WritesOf[Job]) = {Day}
<1> USE PvpAssumption, PipelineAssumption DEF PvpAssumption, PipelineAssumption
<1>1. /\ Enrols \subseteq Calls /\ Job \in Calls /\ Job \notin Enrols
      /\ \A c \in Calls \ {Job} : PlayerOf[c] \in Players
  OBVIOUS
<1>2. ASSUME NEW c \in Calls
      PROVE  /\ Len(ReadsOf[c]) \in Nat /\ Len(WritesOf[c]) \in Nat
             /\ \A i \in 1..Len(ReadsOf[c]) : ReadsOf[c][i] \in Records
             /\ \A i \in 1..Len(WritesOf[c]) : WritesOf[c][i] \in Records
             /\ RangeOf(WritesOf[c]) \subseteq RangeOf(ReadsOf[c])
  <2>1. ReadsOf[c] \in Seq(Records) /\ WritesOf[c] \in Seq(Records) /\ c \in Calls \ Logins
    OBVIOUS
  <2>2. RangeOf(WritesOf[c]) \subseteq RangeOf(ReadsOf[c])
    OBVIOUS
  <2> HIDE PvpAssumption, PipelineAssumption
  <2> QED BY <2>1, <2>2
<1>3. ASSUME NEW e \in Enrols
      PROVE  /\ PlayerOf[e] \in Players /\ Inf(e) \in Records
             /\ Inf(e) \in RangeOf(WritesOf[e]) /\ WritesOf[e][1] = Inf(e)
  <2>1. PlayerOf[e] \in Players /\ Inf(e) \in Records
    BY <1>1 DEF Inf
  <2>2. WritesOf[e] = <<Inf(e), Day, Global>>
    BY DEF Inf
  <2> HIDE PvpAssumption, PipelineAssumption
  <2> QED BY <2>1, <2>2 DEF RangeOf
<1>4. Len(WritesOf[Job]) = 1 /\ WritesOf[Job][1] = Day /\ RangeOf(WritesOf[Job]) = {Day}
  <2>1. WritesOf[Job] = <<Day>>
    OBVIOUS
  <2> HIDE PvpAssumption, PipelineAssumption
  <2> QED BY <2>1 DEF RangeOf
<1> HIDE PvpAssumption, PipelineAssumption
<1>5. \A c \in Calls : RangeOf(WritesOf[c]) \subseteq Records
                       /\ \A i \in 1..Len(WritesOf[c]) : WritesOf[c][i] \in RangeOf(WritesOf[c])
  BY <1>2 DEF RangeOf
<1>6. Day \in Records
  BY <1>1, <1>4, <1>5
<1> QED BY <1>1, <1>2, <1>3, <1>4, <1>5, <1>6

LEMMA NextCopyExists ==
    ASSUME HaveInv, PipeTypeOK, NEW c \in Calls, ReadNext(c)
    PROVE  \E r \in Records : Reads(c, r)
<1> DEFINE r == ReadsOf[c][pos[c]]
<1>1. pc[c] = "read" /\ pos[c] \in 1..Len(ReadsOf[c]) /\ r \in Records
  BY Facts DEF ReadNext, PipeTypeOK, RecordsTypeOK
<1>2. present = Records
  BY <1>1 DEF HaveInv
<1> QED BY <1>1, <1>2 DEF ReadNext, Reads

LEMMA NextWriteHasValue ==
    ASSUME HaveInv, PipeTypeOK, NEW c \in Calls, WriteNext(c)
    PROVE  \E r \in Records, v \in SUBSET Calls : Writes(c, r, v)
<1> DEFINE r == WritesOf[c][pos[c]]
<1>1. pc[c] = "write" /\ pos[c] \in 1..Len(WritesOf[c]) /\ r \in Records /\ vals[c][r] \in SUBSET Calls
  BY Facts DEF WriteNext, PipeTypeOK, RecordsTypeOK
<1>2. present = Records /\ r \in have[c]
  BY <1>1, Facts DEF HaveInv
<1>3. Stored(c) /\ pos' = [pos EXCEPT ![c] = @ + 1] /\ UNCHANGED <<pc, vals, have, met>>
  BY <1>2 DEF WriteNext
<1>4. Writes(c, r, vals[c][r])
  BY <1>1, <1>2, <1>3 DEF Stored, Writes, InWork, Ended
<1> QED BY <1>1, <1>4

LEMMA FailIsStep ==
    ASSUME HaveInv, PipeTypeOK, NEW c \in Calls, Fail(c)
    PROVE  Ends(c) \/ \E r \in Records, v \in SUBSET Calls : Writes(c, r, v)
<1> DEFINE r == WritesOf[c][pos[c]]
<1>0. /\ InWork(c) /\ UNCHANGED <<copies, met>>
      /\ \E how \in {"error", "silent"} : EndAs(c, how)
  BY DEF Fail, Refused
<1>1. CASE UNCHANGED <<db, present, stored>>
  BY <1>0, <1>1 DEF Ends, Ended
<1>2. CASE pc[c] = "write" /\ pos[c] <= Len(WritesOf[c]) /\ Stored(c)
  <2>1. pos[c] \in 1..Len(WritesOf[c]) /\ r \in Records /\ vals[c][r] \in SUBSET Calls
    BY <1>2, Facts DEF PipeTypeOK, RecordsTypeOK
  <2>2. present = Records /\ r \in have[c]
    BY <1>2, <2>1, Facts DEF HaveInv
  <2>3. Writes(c, r, vals[c][r])
    BY <1>0, <1>2, <2>1, <2>2 DEF Stored, Writes, copies
  <2> QED BY <2>1, <2>3
<1> QED BY <1>1, <1>2 DEF Fail

LEMMA EndIsStep ==
    ASSUME NEW c \in Calls, pc[c] \in {"read", "write"},
           (EndAs(c, "ok") /\ AllWritten(c)) \/ EndAs(c, Refused(c)), UNCHANGED <<db, present, copies, met, stored>>
    PROVE  Ends(c)
BY DEF Ends, Refused, InWork, Ended

LEMMA PlayerStep ==
    ASSUME HaveInv, PipeTypeOK, NEW c \in Calls, PlayerCall(c)
    PROVE  DataStep
<1>0. c # Job /\ UNCHANGED match
  BY DEF PlayerCall
<1>1. CASE BeginOne(c)
  BY <1>1 DEF BeginOne, Begin, Begins, DataStep
<1>2. CASE ReadNext(c) \/ WriteNext(c) \/ Fail(c)
  BY <1>2, NextCopyExists, NextWriteHasValue, FailIsStep DEF DataStep
<1>3. CASE EnrollPvpDay(c)
  <2>1. AllRead(c) /\ c \in Enrols
    BY <1>3 DEF EnrollPvpDay
  <2>2. CASE Apply(c, {}) \/ (~ Enrolled(c) /\ MayEnrol(c) /\ Apply(c, RangeOf(WritesOf[c])))
    <3>1. PICK touched \in {{}, RangeOf(WritesOf[c])} :
             Apply(c, touched) /\ (touched = {} \/ (~ Enrolled(c) /\ MayEnrol(c)))
      BY <2>2
    <3>2. touched \in SUBSET Records
      BY Facts
    <3>3. Applies(c, touched)
      BY <3>1, <2>1, <1>0 DEF Applies
    <3> QED BY <3>2, <3>3 DEF DataStep
  <2>3. CASE EndAs(c, Refused(c)) /\ UNCHANGED <<copies, records>>
    BY <2>1, <2>3, EndIsStep DEF AllRead, records, DataStep
  <2> QED BY <1>3, <2>2, <2>3 DEF EnrollPvpDay
<1>4. CASE Answer(c)
  BY <1>4, EndIsStep DEF Answer, AllWritten, DataStep
<1>5. CASE c \notin Enrols /\ Run(c)
  <2>1. AllRead(c)
    BY <1>5 DEF Run
  <2>2. CASE \E touched \in SUBSET RangeOf(WritesOf[c]) : Apply(c, touched)
    <3>1. PICK touched \in SUBSET RangeOf(WritesOf[c]) : Apply(c, touched)
      BY <2>2
    <3>2. touched \in SUBSET Records
      BY Facts
    <3>3. Applies(c, touched)
      BY <3>1, <2>1, <1>0, <1>5 DEF Applies
    <3> QED BY <3>2, <3>3 DEF DataStep
  <2>3. CASE EndAs(c, Refused(c)) /\ UNCHANGED <<db, present, copies, met, stored>>
    BY <2>1, <2>3, EndIsStep DEF AllRead, DataStep
  <2> QED BY <1>5, <2>2, <2>3 DEF Run
<1> QED BY <1>1, <1>2, <1>3, <1>4, <1>5 DEF PlayerCall

LEMMA ReadsPvpInfo ==
    ASSUME PipeTypeOK, NEW u \in Uuids, AllRead(Job), GetPvpInfo(u), UNCHANGED <<records, pc, pos>>
    PROVE  UNCHANGED pipeVars \/ \E r \in Records : Reads(Job, r)
<1>1. CASE u \in AllRobots
  BY <1>1 DEF GetPvpInfo, pipeVars, copies, records
<1>2. CASE u \notin AllRobots
  <2>1. InfoOf[u] \in Records
    BY <1>2, PvpAssumption DEF Uuids, PvpAssumption
  <2>2. Reads(Job, InfoOf[u])
    BY <1>2, <2>1 DEF GetPvpInfo, AllRead, Reads, records
  <2> QED BY <2>1, <2>2
<1> QED BY <1>1, <1>2

LEMMA WritesPvpInfo ==
    ASSUME PipeTypeOK, NEW u \in Uuids, Copied(u), NEW t, AllRead(Job), SetPvpInfo(u, t)
    PROVE  UNCHANGED pipeVars \/ \E r \in Records, v \in SUBSET Calls : Writes(Job, r, v)
<1>0. UNCHANGED <<present, pc, copies, met>>
  BY DEF SetPvpInfo
<1>1. CASE u \in AllRobots
  BY <1>0, <1>1 DEF SetPvpInfo, pipeVars
<1>2. CASE u \notin AllRobots
  <2>1. InfoOf[u] \in Records /\ InfoOf[u] \in have[Job]
    BY <1>2, PvpAssumption DEF Uuids, PvpAssumption, Copied
  <2>2. vals[Job][InfoOf[u]] \cup {Job} \in SUBSET Calls
    BY <2>1, Facts DEF PipeTypeOK, RecordsTypeOK
  <2>3. pc[Job] = "read" /\ InWork(Job)
    BY DEF AllRead, InWork, Ended
  <2>4. Writes(Job, InfoOf[u], vals[Job][InfoOf[u]] \cup {Job})
    BY <1>0, <1>2, <2>1, <2>3 DEF SetPvpInfo, Writes, copies
  <2> QED BY <2>1, <2>2, <2>4
<1> QED BY <1>1, <1>2

LEMMA StepCases ==
    ASSUME IInv, [PvpNext]_pvpVars
    PROVE  DataStep
<1>0. HaveInv /\ PvpTypeOK /\ PipeTypeOK /\ StageInv /\ Job \in Calls
  BY Facts DEF IInv, PvpTypeOK, DataInv
<1>1. CASE UNCHANGED pvpVars
  BY <1>1 DEF pvpVars, DataStep
<1>2. CASE \E c \in Calls : PlayerCall(c)
  BY <1>0, <1>2, PlayerStep
<1>3. CASE ListStep
  <2>1. CASE BeginOne(Job)
    BY <1>0, <2>1 DEF BeginOne, Begin, Begins, DataStep
  <2>2. CASE ReadNext(Job) \/ WriteNext(Job) \/ Fail(Job)
    BY <1>0, <2>2, NextCopyExists, NextWriteHasValue, FailIsStep DEF DataStep
  <2>3. CASE Answer(Job)
    BY <1>0, <2>3, EndIsStep DEF Answer, AllWritten, DataStep
  <2> QED BY <1>3, <2>1, <2>2, <2>3 DEF ListStep
<1>4. CASE FillUp \/ FightOne \/ EndRound
  BY <1>4 DEF FillUp, FightOne, EndRound, DataStep
<1>5. CASE FirstOfPair
  <2>1. Last(area1).uuid \in Uuids
    <3>1. area1 \in Seq(Entry) /\ area1 # <<>>
      BY <1>0, <1>5 DEF PvpTypeOK, FirstOfPair
    <3>2. Last(area1) \in Entry
      BY <3>1 DEF Last
    <3> QED BY <3>2 DEF Entry
  <2>2. AllRead(Job) /\ GetPvpInfo(Last(area1).uuid) /\ UNCHANGED <<records, pc, pos>>
    BY <1>5 DEF FirstOfPair, Playing
  <2> QED BY <1>0, <2>1, <2>2, ReadsPvpInfo DEF DataStep
<1>6. CASE SecondOfPair
  <2>1. stage = "second" /\ duel.ua2 \in Uuids
    BY <1>0, <1>6 DEF SecondOfPair, Playing, StageInv
  <2>2. AllRead(Job) /\ GetPvpInfo(duel.ua2) /\ UNCHANGED <<records, pc, pos>>
    BY <1>6 DEF SecondOfPair, Playing
  <2> QED BY <1>0, <2>1, <2>2, ReadsPvpInfo DEF DataStep
<1>7. CASE SetFirst
  <2>1. duel.ua1 \in Uuids /\ Copied(duel.ua1) /\ AllRead(Job) /\ SetPvpInfo(duel.ua1, duel.t1)
    BY <1>0, <1>7 DEF SetFirst, Playing, StageInv
  <2> QED BY <1>0, <2>1, WritesPvpInfo DEF DataStep
<1>8. CASE SetSecond
  <2>1. duel.ua2 \in Uuids /\ Copied(duel.ua2) /\ AllRead(Job) /\ SetPvpInfo(duel.ua2, duel.t2)
    BY <1>0, <1>8 DEF SetSecond, Playing, StageInv
  <2> QED BY <1>0, <2>1, WritesPvpInfo DEF DataStep
<1>9. CASE Rank
  <2>1. AllRead(Job)
    BY <1>9 DEF Rank, Playing
  <2>2. CASE EndAs(Job, Refused(Job)) /\ UNCHANGED <<copies, records>>
    BY <1>0, <2>1, <2>2, EndIsStep DEF AllRead, records, DataStep
  <2>3. CASE Apply(Job, {Day})
    <3>1. Applies(Job, {Day})
      BY <2>1, <2>3, Facts DEF Applies
    <3>2. {Day} \in SUBSET Records
      BY Facts
    <3> QED BY <1>0, <3>1, <3>2 DEF DataStep
  <2> QED BY <1>9, <2>2, <2>3 DEF Rank
<1> QED BY <1>1, <1>2, <1>3, <1>4, <1>5, <1>6, <1>7, <1>8, <1>9 DEF PvpNext, Tournament

-----------------------------------------------------------------------------
(* Every step preserves the invariant of the records. *)

LEMMA BeginsKeeps ==
    ASSUME PipeTypeOK, DataInv, NEW c \in Calls, Begins(c)
    PROVE  PipeTypeOK' /\ DataInv'
<1> USE DEF PipeTypeOK, RecordsTypeOK
<1>a. MetInv /\ FreshInv /\ HaveInv /\ OwnInv /\ CopyInv /\ SeenInv /\ MarkInv /\ TwiceInv
  BY DEF DataInv
<1>0. /\ pc[c] = "new" /\ pc' = [pc EXCEPT ![c] = "read"]
      /\ met' = [d \in Calls |-> IF d = c THEN {e \in Calls : InWork(e)}
                               ELSE IF InWork(d) THEN met[d] \cup {c} ELSE met[d]]
      /\ UNCHANGED <<db, present, pos, vals, have, stored>>
      /\ SessionOf[c] \in LoggedIn
  <2>1. \A d \in Logins : FALSE
    BY PvpAssumption DEF PvpAssumption
  <2> QED BY <2>1 DEF Begins, Enter, copies
<1>1. PipeTypeOK'
  BY <1>0
<1>2. /\ \A d \in Calls : InWork(d)' <=> d = c \/ InWork(d)
      /\ ~ InWork(c) /\ met[c] = {} /\ have[c] = {} /\ stored[c] = {} /\ pos[c] = 1
      /\ \A d \in Calls : met[d] \subseteq met'[d] /\ met'[d] \subseteq Calls
      /\ \A d \in Calls : d # c => pc'[d] = pc[d]
      /\ pc'[c] = "read"
  BY <1>0, <1>a DEF InWork, Ended, FreshInv
<1>3. MetInv'
  <2>1. \A d, e \in Calls : e \in met'[d] <=> \/ e \in met[d]
                                              \/ d = c /\ InWork(e)
                                              \/ e = c /\ InWork(d)
    BY <1>0, <1>2, <1>a DEF MetInv
  <2> QED BY <1>2, <2>1, <1>a DEF MetInv
<1>4. FreshInv'
  <2>1. Begun' = Begun \cup {c}
    BY <1>0, <1>2 DEF Begun
  <2>2. \A d \in Calls : pc'[d] = "new" => d # c /\ met'[d] = met[d] /\ pc[d] = "new"
    BY <1>0, <1>2 DEF InWork
  <2>3. \A d \in Calls : pc'[d] \in {"new", "read"} => pc[d] \in {"new", "read"}
    BY <1>0, <1>2
  <2> QED BY <1>0, <2>1, <2>2, <2>3, <1>a DEF FreshInv
<1>5. HaveInv'
  BY <1>0, <1>2, <1>a DEF HaveInv
<1>6. OwnInv'
  BY <1>0, <1>a DEF OwnInv
<1>7. CopyInv'
  <2>1. \A d \in Calls, r \in Records : InWork(d)' /\ r \in have'[d] /\ ~ Contended(d, r)'
                                        => InWork(d) /\ r \in have[d] /\ ~ Contended(d, r)
    BY <1>0, <1>2 DEF Contended
  <2> QED BY <1>0, <1>2, <2>1, <1>a DEF CopyInv
<1>8. SeenInv'
  <2>1. \A d \in Calls, r \in Records : ~ Contended(d, r)' => ~ Contended(d, r)
    BY <1>0, <1>2 DEF Contended
  <2> QED BY <1>0, <1>2, <2>1, <1>a DEF SeenInv
<1>9. MarkInv'
  BY <1>0, <1>2, <1>a, Facts DEF MarkInv, Inf
<1>10. TwiceInv'
  <2> SUFFICES ASSUME NEW e \in Enrols, NEW f \in Enrols, e # f, PlayerOf[e] = PlayerOf[f],
                      f \notin met'[e], e \in vals[e][Inf(e)], f \in vals[f][Inf(f)]
               PROVE  Unseen(e)' \/ Unseen(f)'
    BY <1>0 DEF TwiceInv, Inf
  <2>1. e \in Calls /\ f \in Calls
    BY Facts
  <2>2. Unseen(e) \/ Unseen(f)
    BY <2>1, <1>2, <1>a DEF TwiceInv
  <2>3. \A g \in Calls : Unseen(g) => Unseen(g)'
    BY <1>0, <1>2 DEF Unseen, Contended, Inf, Ended
  <2> QED BY <2>1, <2>2, <2>3
<1> QED BY <1>1, <1>3, <1>4, <1>5, <1>6, <1>7, <1>8, <1>9, <1>10 DEF DataInv

LEMMA ReadsKeeps ==
    ASSUME PipeTypeOK, DataInv, NEW c \in Calls, NEW r \in Records, Reads(c, r)
    PROVE  PipeTypeOK' /\ DataInv'
<1> USE DEF PipeTypeOK, RecordsTypeOK
<1>a. MetInv /\ FreshInv /\ HaveInv /\ OwnInv /\ CopyInv /\ SeenInv /\ MarkInv /\ TwiceInv
  BY DEF DataInv
<1>0. /\ pc[c] = "read" /\ InWork(c)
      /\ vals' = [vals EXCEPT ![c][r] = db[r]]
      /\ have' = [have EXCEPT ![c] = @ \cup {r}]
      /\ \/ pos' = pos
         \/ /\ pos[c] \in 1..Len(ReadsOf[c]) /\ r = ReadsOf[c][pos[c]]
            /\ pos' = [pos EXCEPT ![c] = @ + 1]
      /\ UNCHANGED <<db, present, pc, met, stored>>
  BY DEF Reads, InWork, Ended
<1>1. PipeTypeOK'
  BY <1>0
<1>2. /\ \A d \in Calls, q \in Records : ~ (d = c /\ q = r) => vals'[d][q] = vals[d][q]
      /\ vals'[c][r] = db[r]
      /\ \A d \in Calls : d # c => have'[d] = have[d] /\ pos'[d] = pos[d]
      /\ have'[c] = have[c] \cup {r}
  BY <1>0
<1>b. c # Job => stored[c] = {} /\ \A q \in Records : c \notin db[q] /\ c \notin vals[c][q] /\ c \notin vals'[c][q]
  BY <1>0, <1>2, <1>a DEF FreshInv
<1>3. MetInv'
  BY <1>0, <1>a DEF MetInv, InWork
<1>4. FreshInv'
  <2>1. Begun' = Begun /\ c \in Begun
    BY <1>0 DEF Begun
  <2> QED BY <1>0, <1>2, <2>1, <1>a DEF FreshInv
<1>5. HaveInv'
  <2>1. \A i \in 1..Len(ReadsOf[c]) : i < pos'[c] => i < pos[c] \/ ReadsOf[c][i] = r
    <3>1. Len(ReadsOf[c]) \in Nat /\ pos[c] \in Nat
      BY Facts
    <3>2. CASE pos' = pos
      BY <3>2
    <3>3. CASE r = ReadsOf[c][pos[c]] /\ pos' = [pos EXCEPT ![c] = @ + 1]
      BY <3>1, <3>3
    <3> QED BY <3>2, <3>3, <1>0
  <2> QED BY <1>0, <1>2, <2>1, <1>a DEF HaveInv
<1>6. OwnInv'
  <2> SUFFICES ASSUME NEW e \in Calls \ {Job}, NEW q \in Records,
                      e \in db[q] \/ \E d \in Calls \ {e} : e \in vals'[d][q]
               PROVE  q \in stored[e] /\ e \in vals'[e][q]
    BY <1>0 DEF OwnInv
  <2>1. e \in db[q] \/ \E d \in Calls \ {e} : e \in vals[d][q]
    BY <1>2
  <2>2. q \in stored[e] /\ e \in vals[e][q]
    BY <2>1, <1>a DEF OwnInv
  <2>3. e # c
    BY <2>2, <1>b
  <2> QED BY <2>2, <2>3, <1>2
<1>7. CopyInv'
  <2> SUFFICES ASSUME NEW d \in Calls, NEW q \in Records, InWork(d), q \in have'[d], ~ Contended(d, q)
               PROVE  vals'[d][q] \cup {d} = db[q] \cup {d}
    <3>1. pc'[Job] = "write" => Job \in vals'[Job][Day]
      <4>1. pc'[Job] = "write" => pc[Job] = "write" /\ Job # c
        BY <1>0
      <4> QED BY <4>1, Facts, <1>2, <1>a DEF CopyInv
    <3>2. \A d \in Calls, q \in Records : InWork(d)' = InWork(d) /\ Contended(d, q)' = Contended(d, q)
      BY <1>0 DEF InWork, Contended
    <3>3. db' = db
      BY <1>0
    <3> QED BY <3>1, <3>2, <3>3 DEF CopyInv
  <2>1. CASE d = c /\ q = r
    BY <2>1, <1>2
  <2>2. CASE ~ (d = c /\ q = r)
    BY <2>2, <1>2, <1>a DEF CopyInv
  <2> QED BY <2>1, <2>2
<1>8. SeenInv'
  <2> SUFFICES ASSUME NEW e \in Calls \ {Job}, NEW q \in Records,
                      q \in stored[e], e \in vals'[e][q], ~ Contended(e, q)
               PROVE  /\ e \in db[q]
                      /\ \A d \in Calls : d # e /\ InWork(d) /\ d \notin met[e] /\ q \in have'[d] => e \in vals'[d][q]
    BY <1>0 DEF SeenInv, InWork, Contended
  <2>1. e # c
    BY <1>b
  <2>2. /\ e \in db[q]
        /\ \A d \in Calls : d # e /\ InWork(d) /\ d \notin met[e] /\ q \in have[d] => e \in vals[d][q]
    BY <2>1, <1>2, <1>a DEF SeenInv
  <2> QED BY <2>2, <1>2
<1>9. MarkInv'
  <2> SUFFICES ASSUME NEW e \in Enrols
               PROVE  /\ (pc[e] = "write" /\ pos'[e] > 1) \/ stored[e] # {} => Inf(e) \in stored[e]
                      /\ \A q \in Records : e \in vals'[e][q] => e \in vals'[e][Inf(e)]
    BY <1>0 DEF MarkInv, Inf
  <2>1. e \in Calls /\ e # Job /\ Inf(e) \in Records
    BY Facts
  <2>2. CASE e = c
    BY <2>1, <2>2, <1>0, <1>b
  <2>3. CASE e # c
    BY <2>1, <2>3, <1>2, <1>a DEF MarkInv
  <2> QED BY <2>2, <2>3
<1>10. TwiceInv'
  <2>1. \A e \in Enrols : e \in vals'[e][Inf(e)] => e \in vals[e][Inf(e)]
    BY <1>2, <1>b, Facts
  <2> QED BY <2>1, <1>0, <1>a DEF TwiceInv, Unseen, Contended, Inf
<1> QED BY <1>1, <1>3, <1>4, <1>5, <1>6, <1>7, <1>8, <1>9, <1>10 DEF DataInv

LEMMA AppliesKeeps ==
    ASSUME PipeTypeOK, DataInv, NEW c \in Calls, NEW touched \in SUBSET Records, Applies(c, touched)
    PROVE  PipeTypeOK' /\ DataInv'
<1> USE DEF PipeTypeOK, RecordsTypeOK
<1>a. MetInv /\ FreshInv /\ HaveInv /\ OwnInv /\ CopyInv /\ SeenInv /\ MarkInv /\ TwiceInv
  BY DEF DataInv
<1>0. /\ pc[c] = "read" /\ pos[c] > Len(ReadsOf[c]) /\ InWork(c)
      /\ pc' = [pc EXCEPT ![c] = "write"]
      /\ pos' = [pos EXCEPT ![c] = 1]
      /\ vals' = [vals EXCEPT ![c] = [r \in Records |-> IF r \in touched THEN @[r] \cup {c} ELSE @[r]]]
      /\ have' = [have EXCEPT ![c] = @ \cup touched]
      /\ UNCHANGED <<db, present, met, stored>>
      /\ touched \subseteq RangeOf(WritesOf[c])
      /\ c \in Enrols => touched = {} \/ (touched = RangeOf(WritesOf[c]) /\ ~ Enrolled(c))
      /\ c = Job => touched = {Day}
  BY DEF Applies, Apply, AllRead, InWork, Ended
<1>b. RangeOf(WritesOf[c]) \subseteq have[c]
  <2>1. \A i \in 1..Len(ReadsOf[c]) : i < pos[c]
    BY <1>0, Facts
  <2>2. RangeOf(ReadsOf[c]) \subseteq have[c]
    BY <1>0, <2>1, <1>a DEF HaveInv, RangeOf
  <2> QED BY <2>2, Facts
<1>1. PipeTypeOK'
  BY <1>0
<1>2. /\ \A d \in Calls : d # c => pc'[d] = pc[d] /\ pos'[d] = pos[d] /\ vals'[d] = vals[d]
      /\ \A r \in Records : vals'[c][r] = IF r \in touched THEN vals[c][r] \cup {c} ELSE vals[c][r]
      /\ have' = have /\ pc'[c] = "write" /\ pos'[c] = 1
      /\ \A d \in Calls : InWork(d)' <=> InWork(d)
  BY <1>0, <1>b DEF InWork, Ended
<1>c. c # Job => stored[c] = {} /\ \A r \in Records : c \notin db[r] /\ \A d \in Calls : c \notin vals[d][r]
  BY <1>0, <1>a DEF FreshInv
<1>3. MetInv'
  BY <1>0, <1>2, <1>a DEF MetInv
<1>4. FreshInv'
  <2>1. Begun' = Begun /\ c \in Begun
    BY <1>0, <1>2 DEF Begun
  <2>2. \A d \in Calls : pc'[d] \in {"new", "read"} => d # c /\ pc'[d] = pc[d]
    BY <1>2
  <2>3. \A d \in Calls, e \in Calls, r \in Records : e # c => (e \in vals'[d][r] <=> e \in vals[d][r])
    BY <1>2
  <2>4. \A d \in Calls, r \in Records : vals'[d][r] \subseteq Begun
    BY <1>2, <2>1, <1>a DEF FreshInv
  <2>5. \A d \in Calls \ {Job} : pc'[d] \in {"new", "read"} =>
           stored[d] = {} /\ \A r \in Records : d \notin db[r] /\ \A e \in Calls : d \notin vals'[e][r]
    BY <2>2, <2>3, <1>a DEF FreshInv
  <2>6. \A d \in Calls : pc'[d] = "new" => met[d] = {} /\ have[d] = {} /\ stored[d] = {} /\ pos'[d] = 1
    BY <2>2, <1>2, <1>a DEF FreshInv
  <2>7. \A r \in Records : db[r] \subseteq Begun
    BY <1>a, <1>0 DEF FreshInv
  <2> QED BY <1>0, <1>2, <2>1, <2>4, <2>5, <2>6, <2>7 DEF FreshInv
<1>5. HaveInv'
  BY <1>0, <1>2, <1>b, <1>a DEF HaveInv
<1>6. OwnInv'
  <2> SUFFICES ASSUME NEW e \in Calls \ {Job}, NEW q \in Records,
                      e \in db[q] \/ \E d \in Calls \ {e} : e \in vals'[d][q]
               PROVE  q \in stored[e] /\ e \in vals'[e][q]
    BY <1>0 DEF OwnInv
  <2>1. e \in db[q] \/ \E d \in Calls \ {e} : e \in vals[d][q]
    BY <1>2
  <2>2. q \in stored[e] /\ e \in vals[e][q]
    BY <2>1, <1>a DEF OwnInv
  <2>3. e # c
    BY <2>2, <1>c
  <2> QED BY <2>2, <2>3, <1>2
<1>7. CopyInv'
  <2>1. ASSUME NEW d \in Calls, NEW q \in Records, InWork(d), q \in have[d], ~ Contended(d, q)
        PROVE  vals'[d][q] \cup {d} = db[q] \cup {d}
    <3>1. vals[d][q] \cup {d} = db[q] \cup {d}
      BY <2>1, <1>a DEF CopyInv
    <3> QED BY <3>1, <1>2
  <2>2. c = Job => Job \in vals'[Job][Day]
    BY <1>0, <1>2, Facts
  <2>3. pc'[Job] = "write" => Job \in vals'[Job][Day]
    BY <2>2, <1>2, <1>a, Facts DEF CopyInv
  <2> QED BY <1>0, <1>2, <2>1, <2>3 DEF CopyInv, Contended
<1>8. SeenInv'
  <2> SUFFICES ASSUME NEW e \in Calls \ {Job}, NEW q \in Records,
                      q \in stored[e], e \in vals'[e][q], ~ Contended(e, q)
               PROVE  /\ e \in db[q]
                      /\ \A d \in Calls : d # e /\ InWork(d) /\ d \notin met[e] /\ q \in have[d] => e \in vals'[d][q]
    BY <1>0, <1>2 DEF SeenInv, Contended
  <2>1. e # c
    BY <1>c
  <2>2. /\ e \in db[q]
        /\ \A d \in Calls : d # e /\ InWork(d) /\ d \notin met[e] /\ q \in have[d] => e \in vals[d][q]
    BY <2>1, <1>2, <1>a DEF SeenInv
  <2> QED BY <2>2, <1>2
<1>9. MarkInv'
  <2> SUFFICES ASSUME NEW e \in Enrols
               PROVE  /\ (pc'[e] = "write" /\ pos'[e] > 1) \/ stored[e] # {} => Inf(e) \in stored[e]
                      /\ \A q \in Records : e \in vals'[e][q] => e \in vals'[e][Inf(e)]
    BY <1>0 DEF MarkInv, Inf
  <2>1. e \in Calls /\ e # Job /\ Inf(e) \in Records /\ Inf(e) \in RangeOf(WritesOf[e])
    BY Facts
  <2>2. CASE e = c
    BY <2>1, <2>2, <1>0, <1>2, <1>c
  <2>3. CASE e # c
    BY <2>1, <2>3, <1>2, <1>a DEF MarkInv
  <2> QED BY <2>2, <2>3
<1>10. TwiceInv'
  <2>1. ASSUME NEW e \in Enrols, e # c, c \in Enrols, PlayerOf[e] = PlayerOf[c], e \notin met[c],
               e \in vals'[e][Inf(e)], c \in vals'[c][Inf(c)]
        PROVE  Unseen(e)
    <3>1. e \in Calls /\ e # Job /\ c # Job /\ Inf(e) = Inf(c) /\ Inf(e) \in Records
      BY <2>1, Facts DEF Inf
    <3>2. e \in vals[e][Inf(e)] /\ c \notin met[e]
      BY <2>1, <3>1, <1>2, <1>a DEF MetInv
    <3>3. pc[e] \in Ended
      <4>1. pc[e] \notin {"new", "read"}
        BY <3>1, <3>2, <1>a DEF FreshInv
      <4>2. ~ InWork(e)
        BY <2>1, <3>1, <1>0, <1>a DEF MetInv
      <4> QED BY <4>1, <4>2, <3>1 DEF InWork
    <3>4. ~ Enrolled(c) /\ Inf(c) \in have[c]
      <4>1. c \notin vals[c][Inf(c)]
        BY <3>1, <1>c
      <4>2. touched # {}
        BY <4>1, <2>1, <3>1, <1>2
      <4> QED BY <4>2, <2>1, <1>0, <1>b, Facts
    <3>5. e \notin vals[c][Inf(c)]
      BY <3>4, <2>1 DEF Enrolled, Inf
    <3> QED BY <2>1, <3>1, <3>2, <3>3, <3>4, <3>5, <1>0, <1>a DEF Unseen, SeenInv
  <2> SUFFICES ASSUME NEW e \in Enrols, NEW f \in Enrols, e # f, PlayerOf[e] = PlayerOf[f], f \notin met[e],
                      e \in vals'[e][Inf(e)], f \in vals'[f][Inf(f)]
               PROVE  Unseen(e)' \/ Unseen(f)'
    BY <1>0 DEF TwiceInv, Inf
  <2>2. e \in Calls /\ f \in Calls
    BY Facts
  <2>3. Unseen(e) \/ Unseen(f)
    <3>1. CASE f = c
      BY <2>1, <2>2, <3>1, <1>a DEF MetInv
    <3>2. CASE e = c
      BY <2>1, <2>2, <3>2, <1>a DEF MetInv
    <3>3. CASE e # c /\ f # c
      BY <2>2, <3>3, <1>2, <1>a DEF TwiceInv
    <3> QED BY <3>1, <3>2, <3>3
  <2>4. \A g \in Calls : Unseen(g) => Unseen(g)'
    <3>1. \A g \in Calls : pc[g] \in Ended => pc'[g] = pc[g]
      BY <1>0, <1>2 DEF Ended
    <3> QED BY <3>1, <1>0 DEF Unseen, Contended, Inf
  <2> QED BY <2>2, <2>3, <2>4
<1> QED BY <1>1, <1>3, <1>4, <1>5, <1>6, <1>7, <1>8, <1>9, <1>10 DEF DataInv

LEMMA EndsKeeps ==
    ASSUME PipeTypeOK, DataInv, NEW c \in Calls, Ends(c)
    PROVE  PipeTypeOK' /\ DataInv'
<1> USE DEF PipeTypeOK, RecordsTypeOK
<1>a. MetInv /\ FreshInv /\ HaveInv /\ OwnInv /\ CopyInv /\ SeenInv /\ MarkInv /\ TwiceInv
  BY DEF DataInv
<1>0. /\ InWork(c) /\ UNCHANGED <<db, present, pos, vals, have, met, stored>>
      /\ \E how \in Ended : pc' = [pc EXCEPT ![c] = how]
  BY DEF Ends, EndAs, copies
<1>1. PipeTypeOK'
  BY <1>0
<1>2. /\ pc'[c] \in Ended /\ pc'[c] \notin {"new", "read", "write"} /\ pc[c] # "new"
      /\ \A d \in Calls : d # c => pc'[d] = pc[d]
      /\ \A d \in Calls : InWork(d)' => InWork(d)
  BY <1>0 DEF InWork, Ended
<1>3. MetInv' /\ CopyInv' /\ SeenInv'
  BY <1>0, <1>2, Facts, <1>a DEF MetInv, CopyInv, SeenInv, Contended
<1>4. FreshInv'
  <2>1. Begun' = Begun
    BY <1>0, <1>2 DEF Begun
  <2> QED BY <1>0, <1>2, <2>1, <1>a DEF FreshInv
<1>5. HaveInv' /\ OwnInv'
  BY <1>0, <1>2, <1>a DEF HaveInv, OwnInv
<1>6. MarkInv'
  BY <1>0, <1>2, Facts, <1>a DEF MarkInv, Inf
<1>7. TwiceInv'
  <2>1. \A g \in Calls : Unseen(g) => Unseen(g)'
    BY <1>0, <1>2 DEF Unseen, Contended, Inf, Ended
  <2> QED BY <2>1, <1>0, Facts, <1>a DEF TwiceInv, Inf
<1> QED BY <1>1, <1>3, <1>4, <1>5, <1>6, <1>7 DEF DataInv

LEMMA WritesKeeps ==
    ASSUME PipeTypeOK, DataInv, NEW c \in Calls, NEW r \in Records, NEW v \in SUBSET Calls, Writes(c, r, v)
    PROVE  PipeTypeOK' /\ DataInv'
<1> USE DEF PipeTypeOK, RecordsTypeOK
<1>a. MetInv /\ FreshInv /\ HaveInv /\ OwnInv /\ CopyInv /\ SeenInv /\ MarkInv /\ TwiceInv
  BY DEF DataInv
<1>0. /\ InWork(c) /\ r \in have[c]
      /\ c # Job => pc[c] = "write"
      /\ pc[c] = "write" => pos[c] \in 1..Len(WritesOf[c]) /\ r = WritesOf[c][pos[c]]
      /\ v = vals[c][r] \/ (c = Job /\ v = vals[c][r] \cup {Job})
      /\ db' = [db EXCEPT ![r] = v]
      /\ stored' = [stored EXCEPT ![c] = @ \cup {r}]
      /\ UNCHANGED <<present, vals, have, met>>
  BY DEF Writes
<1>b. \/ UNCHANGED <<pc, pos>>
      \/ pc[c] = "write" /\ UNCHANGED pc /\ pos' = [pos EXCEPT ![c] = @ + 1]
      \/ UNCHANGED pos /\ \E how \in {"error", "silent"} : pc' = [pc EXCEPT ![c] = how]
  BY DEF Writes, EndAs
<1>1. PipeTypeOK'
  <2>1. pc' \in [Calls -> {"new", "read", "write"} \cup Ended]
    BY <1>b DEF Ended
  <2>2. pos' \in [Calls -> Nat \ {0}]
    BY <1>b
  <2> QED BY <1>0, <2>1, <2>2
<1>2. /\ \A q \in Records : q # r => db'[q] = db[q]
      /\ db'[r] = v
      /\ \A d \in Calls : d # c => stored'[d] = stored[d]
      /\ stored'[c] = stored[c] \cup {r}
  BY <1>0
<1>3. /\ \A d \in Calls : d # c => pc'[d] = pc[d] /\ pos'[d] = pos[d]
      /\ pc'[c] = pc[c] \/ pc'[c] \in {"error", "silent"}
      /\ pc[c] # "new" /\ pc'[c] # "new"
      /\ \A d \in Calls : InWork(d)' => InWork(d)
      /\ \A d \in Calls : pc[d] \in Ended => pc'[d] = pc[d]
      /\ pc'[c] = "read" => pos' = pos
  BY <1>0, <1>b DEF InWork, Ended
<1>c. /\ \A e \in Calls, q \in Records : ~ Contended(e, q)' => ~ Contended(e, q)
      /\ \A e \in Calls : ~ Contended(e, r)' => c \notin met[e]
  BY <1>0, <1>2 DEF Contended
<1>d. \A e \in Calls \ {c} : e \in v => e \in vals[c][r]
  BY <1>0, Facts
<1>4. MetInv'
  BY <1>0, <1>3, <1>a DEF MetInv
<1>5. FreshInv'
  <2>1. Begun' = Begun /\ c \in Begun
    BY <1>3 DEF Begun
  <2>2. v \subseteq Begun
    BY <1>0, <2>1, <1>a DEF FreshInv
  <2>3. \A d \in Calls : pc'[d] = "new" => d # c /\ pc[d] = "new"
    BY <1>3
  <2>4. ASSUME NEW d \in Calls \ {Job}, pc'[d] \in {"new", "read"}
        PROVE  stored'[d] = {} /\ \A q \in Records : d \notin db'[q] /\ \A e \in Calls : d \notin vals[e][q]
    <3>1. d # c /\ pc[d] \in {"new", "read"}
      BY <2>4, <1>0, <1>3
    <3>2. stored[d] = {} /\ \A q \in Records : d \notin db[q] /\ \A e \in Calls : d \notin vals[e][q]
      BY <3>1, <1>a DEF FreshInv
    <3>3. d \notin v
      BY <3>1, <3>2, <1>d
    <3> QED BY <3>1, <3>2, <3>3, <1>2
  <2>5. \A d \in Calls, q \in Records : vals[d][q] \subseteq Begun /\ db'[q] \subseteq Begun
    BY <2>2, <1>2, <1>a DEF FreshInv
  <2>6. \A d \in Calls : pc'[d] = "new" => met[d] = {} /\ have[d] = {} /\ stored'[d] = {} /\ pos'[d] = 1
    BY <2>3, <1>2, <1>3, <1>a DEF FreshInv
  <2> QED BY <1>0, <2>1, <2>4, <2>5, <2>6 DEF FreshInv
<1>6. HaveInv'
  <2>1. \A d \in Calls : (pc'[d] = "write" => pc[d] = "write") /\ (pc'[d] # "new" => pc[d] # "new")
    BY <1>3
  <2>2. \A d \in Calls : pc'[d] = "read" => pc[d] = "read" /\ pos'[d] = pos[d]
    BY <1>3
  <2> QED BY <1>0, <2>1, <2>2, <1>a DEF HaveInv
<1>7. OwnInv'
  <2> SUFFICES ASSUME NEW e \in Calls \ {Job}, NEW q \in Records,
                      e \in db'[q] \/ \E d \in Calls \ {e} : e \in vals[d][q]
               PROVE  q \in stored'[e] /\ e \in vals[e][q]
    BY <1>0 DEF OwnInv
  <2>1. stored[e] \subseteq stored'[e]
    BY <1>2
  <2>2. CASE e \in db[q] \/ \E d \in Calls \ {e} : e \in vals[d][q]
    BY <2>1, <2>2, <1>a DEF OwnInv
  <2>3. CASE e \in db'[q] /\ q = r
    <3>1. CASE e = c
      BY <2>3, <3>1, <1>0, <1>2
    <3>2. CASE e # c
      BY <2>1, <2>3, <3>2, <1>2, <1>d, <1>a DEF OwnInv
    <3> QED BY <3>1, <3>2
  <2> QED BY <2>2, <2>3, <1>2
<1>8. CopyInv'
  <2>1. ASSUME NEW d \in Calls, NEW q \in Records, InWork(d)', q \in have[d], ~ Contended(d, q)'
        PROVE  vals[d][q] \cup {d} = db'[q] \cup {d}
    <3>1. CASE q = r /\ d = c
      BY <3>1, <1>0, <1>2
    <3>2. CASE q = r /\ d # c
      BY <3>2, <2>1, <1>0, <1>3, <1>c, <1>a DEF MetInv
    <3>3. CASE q # r
      BY <3>3, <2>1, <1>2, <1>3, <1>c, <1>a DEF CopyInv
    <3> QED BY <3>1, <3>2, <3>3
  <2>2. pc'[Job] = "write" => pc[Job] = "write"
    BY <1>3, Facts
  <2> QED BY <1>0, <2>1, <2>2, <1>a DEF CopyInv
<1>9. SeenInv'
  <2> SUFFICES ASSUME NEW e \in Calls \ {Job}, NEW q \in Records,
                      q \in stored'[e], e \in vals[e][q], ~ Contended(e, q)'
               PROVE  /\ e \in db'[q]
                      /\ \A d \in Calls : d # e /\ InWork(d) /\ d \notin met[e] /\ q \in have[d] => e \in vals[d][q]
    BY <1>0, <1>3 DEF SeenInv
  <2>1. CASE e = c /\ q = r
    BY <2>1, <1>0, <1>2, <1>a DEF MetInv
  <2>2. CASE ~ (e = c /\ q = r)
    <3>1. q \in stored[e] /\ ~ Contended(e, q)
      BY <2>2, <1>2, <1>c
    <3>2. /\ e \in db[q]
          /\ \A d \in Calls : d # e /\ InWork(d) /\ d \notin met[e] /\ q \in have[d] => e \in vals[d][q]
      BY <3>1, <1>a DEF SeenInv
    <3>3. q = r => e \in v
      BY <2>2, <3>2, <1>0, <1>c
    <3> QED BY <3>2, <3>3, <1>2
  <2> QED BY <2>1, <2>2
<1>10. MarkInv'
  <2> SUFFICES ASSUME NEW e \in Enrols
               PROVE  /\ (pc'[e] = "write" /\ pos'[e] > 1) \/ stored'[e] # {} => Inf(e) \in stored'[e]
                      /\ \A q \in Records : e \in vals[e][q] => e \in vals[e][Inf(e)]
    BY <1>0 DEF MarkInv, Inf
  <2>1. e \in Calls /\ e # Job /\ WritesOf[e][1] = Inf(e)
    BY Facts
  <2>2. CASE e = c
    <3>1. pos[c] \in Nat /\ pos[c] > 0 /\ (pos[c] = 1 => r = Inf(e))
      BY <2>1, <2>2, <1>0
    <3>2. Inf(e) \in stored'[e]
      BY <2>1, <2>2, <3>1, <1>0, <1>2, <1>a DEF MarkInv
    <3> QED BY <2>1, <3>2, <1>a DEF MarkInv
  <2>3. CASE e # c
    BY <2>1, <2>3, <1>2, <1>3, <1>a DEF MarkInv
  <2> QED BY <2>2, <2>3
<1>11. TwiceInv'
  <2>1. \A g \in Calls : Unseen(g) => Unseen(g)'
    <3>1. \A g \in Calls : pc[g] \in Ended => stored'[g] = stored[g]
      BY <1>0, <1>2 DEF InWork
    <3>2. \A g \in Calls : Contended(g, Inf(g)) => Contended(g, Inf(g))'
      BY <1>0, <1>2 DEF Contended, Inf
    <3> QED BY <3>1, <3>2, <1>3 DEF Unseen, Inf
  <2> QED BY <2>1, <1>0, Facts, <1>a DEF TwiceInv, Inf
<1> QED BY <1>1, <1>4, <1>5, <1>6, <1>7, <1>8, <1>9, <1>10, <1>11 DEF DataInv

-----------------------------------------------------------------------------
(* Every step preserves the invariant of the limit. *)

LEMMA StoredKeeps ==
    ASSUME PipeTypeOK, DataInv, StoredInv, DataStep
    PROVE  StoredInv'
<1> USE DEF PipeTypeOK, RecordsTypeOK
<1>1. CASE UNCHANGED pipeVars
  BY <1>1 DEF pipeVars, copies, StoredInv, Inf
<1>2. ASSUME NEW c \in Calls, Begins(c)
      PROVE  StoredInv'
  BY <1>2, Facts DEF Begins, Enter, copies, StoredInv, Inf
<1>3. ASSUME NEW c \in Calls, Ends(c)
      PROVE  StoredInv'
  <2>1. /\ UNCHANGED <<pos, vals, stored>>
        /\ \E how \in Ended : pc' = [pc EXCEPT ![c] = how] /\ (how = "ok" => AllWritten(c))
    BY <1>3 DEF Ends, EndAs, copies
  <2> SUFFICES ASSUME NEW e \in Enrols, e = c, pc'[e] = "ok"
               PROVE  RangeOf(WritesOf[e]) \subseteq stored[e]
    BY <2>1, Facts DEF StoredInv, Ended, Inf
  <2>2. pc[e] = "write" /\ pos[e] > Len(WritesOf[e])
    BY <2>1 DEF AllWritten
  <2>3. \A i \in 1..Len(WritesOf[e]) : i < pos[e]
    BY <2>2, Facts
  <2> QED BY <2>2, <2>3 DEF StoredInv, RangeOf
<1>4. ASSUME NEW c \in Calls, NEW r \in Records, Reads(c, r)
      PROVE  StoredInv'
  <2>1. /\ pc[c] = "read" /\ vals' = [vals EXCEPT ![c][r] = db[r]] /\ UNCHANGED <<pc, stored>>
        /\ \A e \in Calls : e # c => pos'[e] = pos[e]
    BY <1>4 DEF Reads
  <2> SUFFICES ASSUME NEW e \in Enrols
               PROVE  /\ pc[e] = "write" => \A i \in 1..Len(WritesOf[e]) :
                                               i < pos'[e] => WritesOf[e][i] \in stored[e]
                      /\ pc[e] = "ok" => RangeOf(WritesOf[e]) \subseteq stored[e]
                      /\ e \in vals'[e][Inf(e)] => \A q \in RangeOf(WritesOf[e]) : e \in vals'[e][q]
    BY <2>1 DEF StoredInv, Inf
  <2>2. CASE e = c
    <3>1. c # Job /\ \A q \in Records : c \notin db[q] /\ c \notin vals[c][q]
      BY <2>1, <2>2, Facts DEF DataInv, FreshInv
    <3>2. c \notin vals'[c][Inf(c)]
      BY <2>1, <2>2, <3>1, Facts
    <3> QED BY <2>1, <2>2, <3>2
  <2>3. CASE e # c
    BY <2>1, <2>3, Facts DEF StoredInv
  <2> QED BY <2>2, <2>3
<1>5. ASSUME NEW c \in Calls, NEW r \in Records, NEW v \in SUBSET Calls, Writes(c, r, v)
      PROVE  StoredInv'
  <2>1. /\ stored' = [stored EXCEPT ![c] = @ \cup {r}] /\ UNCHANGED vals
        /\ c # Job => pc[c] = "write" /\ r = WritesOf[c][pos[c]]
        /\ \/ UNCHANGED <<pc, pos>>
           \/ UNCHANGED pc /\ pos' = [pos EXCEPT ![c] = @ + 1]
           \/ UNCHANGED pos /\ \E how \in {"error", "silent"} : pc' = [pc EXCEPT ![c] = how]
    BY <1>5 DEF Writes, EndAs
  <2>2. \A e \in Calls : stored[e] \subseteq stored'[e]
    BY <2>1
  <2> SUFFICES ASSUME NEW e \in Enrols
               PROVE  /\ pc'[e] = "write" => \A i \in 1..Len(WritesOf[e]) :
                                                i < pos'[e] => WritesOf[e][i] \in stored'[e]
                      /\ pc'[e] = "ok" => RangeOf(WritesOf[e]) \subseteq stored'[e]
    BY <2>1 DEF StoredInv, Inf
  <2>3. e \in Calls /\ e # Job
    BY Facts
  <2>4. pc'[e] = "ok" => pc[e] = "ok"
    BY <2>1, <2>3
  <2>5. ASSUME pc'[e] = "write", NEW i \in 1..Len(WritesOf[e]), i < pos'[e]
        PROVE  WritesOf[e][i] \in stored'[e]
    <3>1. pc[e] = "write" /\ (i < pos[e] \/ (e = c /\ i = pos[e]))
      BY <2>1, <2>3, <2>5, Facts
    <3> QED BY <2>1, <2>2, <2>3, <3>1 DEF StoredInv
  <2> QED BY <2>2, <2>3, <2>4, <2>5 DEF StoredInv
<1>6. ASSUME NEW c \in Calls, NEW touched \in SUBSET Records, Applies(c, touched)
      PROVE  StoredInv'
  <2>1. /\ pc[c] = "read" /\ pc' = [pc EXCEPT ![c] = "write"] /\ pos' = [pos EXCEPT ![c] = 1]
        /\ vals' = [vals EXCEPT ![c] = [q \in Records |-> IF q \in touched THEN @[q] \cup {c} ELSE @[q]]]
        /\ UNCHANGED stored
        /\ c \in Enrols => touched = {} \/ touched = RangeOf(WritesOf[c])
    BY <1>6 DEF Applies, Apply, AllRead
  <2> SUFFICES ASSUME NEW e \in Enrols
               PROVE  /\ pc'[e] = "write" => \A i \in 1..Len(WritesOf[e]) :
                                                i < pos'[e] => WritesOf[e][i] \in stored[e]
                      /\ pc'[e] = "ok" => RangeOf(WritesOf[e]) \subseteq stored[e]
                      /\ e \in vals'[e][Inf(e)] => \A q \in RangeOf(WritesOf[e]) : e \in vals'[e][q]
    BY <2>1 DEF StoredInv, Inf
  <2>2. CASE e = c
    <3>1. c \in Calls \ {Job} /\ Inf(c) \in Records /\ RangeOf(WritesOf[c]) \subseteq Records
      BY <2>2, Facts
    <3>2. c \notin vals[c][Inf(c)]
      BY <2>1, <3>1 DEF DataInv, FreshInv
    <3>3. c \in vals'[c][Inf(c)] => touched = RangeOf(WritesOf[c])
      BY <2>1, <2>2, <3>1, <3>2
    <3>4. \A q \in Records : q \in touched => c \in vals'[c][q]
      BY <2>1
    <3>5. pos'[c] = 1 /\ pc'[c] = "write"
      BY <2>1
    <3> QED BY <2>2, <3>1, <3>3, <3>4, <3>5
  <2>3. CASE e # c
    BY <2>1, <2>3, Facts DEF StoredInv
  <2> QED BY <2>2, <2>3
<1> QED BY <1>1, <1>2, <1>3, <1>4, <1>5, <1>6 DEF DataStep

LEMMA Steady ==
    ASSUME PipeTypeOK, DataInv, DataStep, NEW c \in Calls
    PROVE  /\ met[c] \subseteq met'[c] /\ stored[c] \subseteq stored'[c]
           /\ pc[c] \in Ended => pc'[c] = pc[c]
<1>1. met[c] \subseteq met'[c]
  <2>1. pc[c] = "new" => met[c] = {}
    BY DEF DataInv, FreshInv
  <2>2. CASE \E d \in Calls : Begins(d)
    BY <2>1, <2>2 DEF Begins, Enter, PipeTypeOK, RecordsTypeOK
  <2>3. CASE UNCHANGED met
    BY <2>3
  <2> QED BY <2>2, <2>3 DEF DataStep, Ends, Reads, Writes, Applies, Apply, pipeVars
<1>2. stored[c] \subseteq stored'[c]
  BY DEF DataStep, Begins, Enter, Ends, Reads, Writes, Applies, Apply, pipeVars, PipeTypeOK, RecordsTypeOK
<1>3. pc[c] \in Ended => pc'[c] = pc[c]
  <2>1. UNCHANGED pc \/ \E d \in Calls, p \in {"read", "write"} \cup Ended :
                            pc' = [pc EXCEPT ![d] = p] /\ pc[d] \notin Ended
    BY DEF DataStep, Begins, Enter, Ends, InWork, EndAs, Reads, Writes, Applies, Apply, AllRead, pipeVars, Ended
  <2> QED BY <2>1 DEF PipeTypeOK
<1> QED BY <1>1, <1>2, <1>3

LEMMA CountedBefore ==
    ASSUME PipeTypeOK, DataInv, StoredInv, Undisturbed, NEW c \in Enrols, AllRead(c)
    PROVE  Listed \subseteq vals[c][Global] \cap Enrols
<1> SUFFICES ASSUME NEW e \in Enrols, e \in vals[e][Inf(e)], pc[e] = "write" \/ stored[e] # {}
             PROVE  e \in vals[c][Global]
  BY DEF Listed
<1>1. c \in Calls \ {Job} /\ e \in Calls \ {Job} /\ Inf(e) \in Records
  BY Facts
<1>2. /\ WritesOf[e] = <<Inf(e), Day, Global>> /\ ReadsOf[c] = <<Inf(c), Day, Global>>
      /\ WritesOf[c] = ReadsOf[c]
  BY PvpAssumption DEF PvpAssumption, Inf
<1>3. Global \in RangeOf(WritesOf[e]) /\ Global \in RangeOf(WritesOf[c])
  BY <1>2 DEF RangeOf
<1>4. Global \in Records
  BY <1>1, <1>3, Facts
<1>5. pc[c] = "read" /\ InWork(c) /\ e # c
  BY <1>1 DEF AllRead, InWork, Ended, DataInv, FreshInv
<1>6. pc[e] = "ok" /\ met[e] = {}
  <2>1. pc[e] \notin {"new", "read"}
    BY <1>1 DEF DataInv, FreshInv
  <2>2. ~ InWork(e)
    BY <1>1, <1>5 DEF DataInv, MetInv, Undisturbed
  <2> QED BY <2>1, <2>2 DEF InWork, Ended, Undisturbed
<1>7. Global \in stored[e] /\ e \in vals[e][Global]
  BY <1>3, <1>6 DEF StoredInv
<1>8. Global \in have[c]
  <2>1. pos[c] > 3 /\ ReadsOf[c][3] = Global /\ 3 \in 1..Len(ReadsOf[c])
    BY <1>2 DEF AllRead
  <2> QED BY <1>1, <1>5, <2>1 DEF DataInv, HaveInv, PipeTypeOK, RecordsTypeOK
<1> QED BY <1>1, <1>4, <1>5, <1>6, <1>7, <1>8 DEF DataInv, SeenInv, Contended

LEMMA LimitKeeps ==
    ASSUME PipeTypeOK, DataInv, LimitInv, DataStep
    PROVE  LimitInv'
<1> USE DEF PipeTypeOK, RecordsTypeOK
<1>1. StoredInv /\ StoredInv'
  BY StoredKeeps DEF LimitInv
<1> SUFFICES ASSUME Undisturbed' PROVE Cardinality(Listed') <= Limit
  BY <1>1 DEF LimitInv
<1>2. Undisturbed
  <2> SUFFICES ASSUME NEW e \in Enrols
               PROVE  met[e] = {} /\ ~ (pc[e] \in {"error", "silent"} /\ stored[e] # {})
    BY DEF Undisturbed
  <2>1. met'[e] = {} /\ ~ (pc'[e] \in {"error", "silent"} /\ stored'[e] # {})
    BY DEF Undisturbed
  <2> QED BY <2>1, Steady, Facts DEF Ended
<1>3. Cardinality(Listed) <= Limit
  BY <1>2 DEF LimitInv
<1>4. /\ IsFiniteSet(Listed) /\ Cardinality(Listed) \in Nat /\ Limit \in Nat
      /\ \A S : S \subseteq Listed => Cardinality(S) <= Limit
  <2>1. IsFiniteSet(Enrols) /\ Limit \in Nat
    BY PvpAssumption DEF PvpAssumption
  <2>2. IsFiniteSet(Listed) /\ Cardinality(Listed) \in Nat
    BY <2>1, FS_Subset, FS_CardinalityType DEF Listed
  <2>3. ASSUME NEW S, S \subseteq Listed
        PROVE  Cardinality(S) <= Limit
    <3>1. Cardinality(S) \in Nat /\ Cardinality(S) <= Cardinality(Listed)
      BY <2>2, <2>3, FS_Subset, FS_CardinalityType
    <3> QED BY <2>1, <2>2, <3>1, <1>3
  <2> QED BY <2>1, <2>2, <2>3
<1>5. CASE UNCHANGED pipeVars \/ \E c \in Calls : Begins(c) \/ Ends(c)
  <2>1. \A e \in Enrols : pc'[e] = "write" => pc[e] = "write"
    BY <1>5, Facts DEF pipeVars, Begins, Enter, Ends, EndAs, Ended
  <2>2. vals' = vals /\ stored' = stored
    BY <1>5 DEF pipeVars, copies, Begins, Enter, Ends
  <2>3. Listed' \subseteq Listed
    BY <2>1, <2>2 DEF Listed, Inf
  <2> QED BY <2>3, <1>4
<1>6. ASSUME NEW c \in Calls, NEW r \in Records, Reads(c, r)
      PROVE  Listed' \subseteq Listed
  <2>1. /\ pc[c] = "read" /\ vals' = [vals EXCEPT ![c][r] = db[r]] /\ UNCHANGED <<pc, stored>>
    BY <1>6 DEF Reads
  <2>2. c # Job => \A q \in Records : c \notin db[q] /\ c \notin vals[c][q]
    BY <2>1 DEF DataInv, FreshInv
  <2>3. \A e \in Enrols : e \in vals'[e][Inf(e)] => e \in vals[e][Inf(e)]
    BY <2>1, <2>2, Facts
  <2> QED BY <2>1, <2>3 DEF Listed, Inf
<1>7. ASSUME NEW c \in Calls, NEW r \in Records, NEW v \in SUBSET Calls, Writes(c, r, v)
      PROVE  Listed' \subseteq Listed
  <2>1. /\ stored' = [stored EXCEPT ![c] = @ \cup {r}] /\ UNCHANGED vals
        /\ c # Job => pc[c] = "write"
        /\ UNCHANGED pc \/ \E how \in {"error", "silent"} : pc' = [pc EXCEPT ![c] = how]
    BY <1>7 DEF Writes, EndAs
  <2>2. \A e \in Enrols : (pc'[e] = "write" => pc[e] = "write")
                          /\ (stored'[e] # {} => stored[e] # {} \/ pc[e] = "write")
    BY <2>1, Facts
  <2> QED BY <2>1, <2>2 DEF Listed, Inf
<1>8. ASSUME NEW c \in Calls, NEW touched \in SUBSET Records, Applies(c, touched)
      PROVE  Cardinality(Listed') <= Limit
  <2>1. /\ pc[c] = "read" /\ AllRead(c) /\ pc' = [pc EXCEPT ![c] = "write"]
        /\ vals' = [vals EXCEPT ![c] = [q \in Records |-> IF q \in touched THEN @[q] \cup {c} ELSE @[q]]]
        /\ UNCHANGED stored
        /\ c \in Enrols => touched = {} \/ MayEnrol(c)
    BY <1>8 DEF Applies, Apply, AllRead
  <2>2. \A e \in Enrols : e # c /\ e \in Listed' => e \in Listed
    BY <2>1, Facts DEF Listed, Inf
  <2>3. Listed' \subseteq Enrols
    BY DEF Listed
  <2>4. CASE c \notin Enrols
    BY <2>2, <2>3, <2>4, <1>4
  <2>5. CASE c \in Enrols /\ touched = {}
    <3>1. c \notin vals[c][Inf(c)]
      BY <2>1, <2>5, Facts DEF DataInv, FreshInv
    <3>2. c \notin Listed'
      BY <2>1, <2>5, <3>1, Facts DEF Listed, Inf
    <3> QED BY <2>2, <2>3, <3>2, <1>4
  <2>6. CASE c \in Enrols /\ MayEnrol(c)
    <3>1. Listed \subseteq vals[c][Global] \cap Enrols
      BY <2>1, <2>6, <1>1, <1>2, CountedBefore
    <3>2. IsFiniteSet(vals[c][Global] \cap Enrols)
      BY PvpAssumption, FS_Subset DEF PvpAssumption
    <3>3. Cardinality(Listed) <= Cardinality(vals[c][Global] \cap Enrols)
          /\ Cardinality(vals[c][Global] \cap Enrols) \in Nat
      BY <3>1, <3>2, FS_Subset, FS_CardinalityType
    <3>4. Cardinality(vals[c][Global] \cap Enrols) < Limit
      BY <2>6 DEF MayEnrol
    <3>5. /\ IsFiniteSet(Listed \cup {c}) /\ Cardinality(Listed \cup {c}) \in Nat
          /\ Cardinality(Listed \cup {c}) <= Cardinality(Listed) + 1
      <4>1. /\ IsFiniteSet(Listed \cup {c})
            /\ Cardinality(Listed \cup {c}) = IF c \in Listed THEN Cardinality(Listed) ELSE Cardinality(Listed) + 1
        BY <1>4, FS_AddElement
      <4> QED BY <4>1, <1>4
    <3>6. Listed' \subseteq Listed \cup {c}
      BY <2>2, <2>3
    <3>7. Cardinality(Listed') \in Nat /\ Cardinality(Listed') <= Cardinality(Listed \cup {c})
      BY <3>5, <3>6, FS_Subset, FS_CardinalityType
    <3> QED BY <3>3, <3>4, <3>5, <3>7, <1>4
  <2> QED BY <2>1, <2>4, <2>5, <2>6
<1> QED BY <1>4, <1>5, <1>6, <1>7, <1>8 DEF DataStep

LEMMA DataKeeps ==
    ASSUME IInv, [PvpNext]_pvpVars
    PROVE  PipeTypeOK' /\ DataInv' /\ LimitInv'
<1>0. PipeTypeOK /\ DataInv /\ LimitInv'
  <2>1. PipeTypeOK /\ DataInv /\ LimitInv
    BY DEF IInv, PvpTypeOK
  <2> QED BY <2>1, StepCases, LimitKeeps
<1>1. CASE UNCHANGED pipeVars
  <2>1. PipeTypeOK' /\ MetInv' /\ FreshInv' /\ HaveInv'
    BY <1>0, <1>1 DEF pipeVars, copies, PipeTypeOK, RecordsTypeOK, DataInv, MetInv, FreshInv, HaveInv, Begun, InWork
  <2>2. OwnInv' /\ CopyInv' /\ SeenInv'
    BY <1>0, <1>1 DEF pipeVars, copies, DataInv, OwnInv, CopyInv, SeenInv, InWork, Contended
  <2>3. MarkInv' /\ TwiceInv'
    BY <1>0, <1>1 DEF pipeVars, copies, DataInv, MarkInv, TwiceInv, Unseen, Contended, Inf
  <2> QED BY <1>0, <2>1, <2>2, <2>3 DEF DataInv
<1> QED BY <1>0, <1>1, StepCases, BeginsKeeps, EndsKeeps, ReadsKeeps, WritesKeeps, AppliesKeeps DEF DataStep

-----------------------------------------------------------------------------
(* What the operators of the tournament return. *)

LEMMA MinOf ==
    ASSUME NEW S \in SUBSET Nat, S # {}
    PROVE  Min(S) \in S /\ \A y \in S : Min(S) <= y
<1>1. PICK x \in S : \A y \in S : ~ (<<y, x>> \in OpToRel(<, Nat))
  BY NatLessThanWellFounded, WFMin
<1>2. \A y \in S : x <= y
  <2> SUFFICES ASSUME NEW y \in S PROVE x <= y
    OBVIOUS
  <2>1. <<y, x>> \in OpToRel(<, Nat) <=> y < x
    BY DEF OpToRel
  <2>2. ~ (y < x)
    BY <1>1, <2>1, Zenon
  <2> QED BY <2>2
<1> QED BY <1>2 DEF Min

LEMMA Inserted ==
    ASSUME NEW S, NEW s \in Seq(S), NEW u \in S, NEW at \in 1..Len(s) + 1
    PROVE  LET t == InsertAt(s, at, u)
           IN  /\ t \in Seq(S) /\ Len(t) = Len(s) + 1
               /\ \A i \in 1..Len(t) : t[i] = IF i < at THEN s[i] ELSE IF i = at THEN u ELSE s[i - 1]
<1> DEFINE a == SubSeq(s, 1, at - 1)
           b == SubSeq(s, at, Len(s))
           m == a \o <<u>>
<1>1. Len(s) \in Nat /\ \A i \in 1..Len(s) : s[i] \in S
  OBVIOUS
<1>2. /\ a \in Seq(S) /\ Len(a) = at - 1
      /\ \A i \in 1..at - 1 : a[i] = s[i]
  <2>1. \A i \in 1..at - 1 : s[i] \in S
    BY <1>1
  <2> QED BY <2>1, <1>1, SubSeqProperties
<1>3. /\ b \in Seq(S) /\ Len(b) = Len(s) - at + 1
      /\ \A i \in 1..Len(s) - at + 1 : b[i] = s[at + i - 1]
  <2>1. \A i \in at..Len(s) : s[i] \in S
    BY <1>1
  <2> QED BY <2>1, <1>1, SubSeqProperties
<1> HIDE DEF a, b
<1>4. /\ m \in Seq(S) /\ Len(m) = at
      /\ \A i \in 1..at : m[i] = IF i < at THEN s[i] ELSE u
  BY <1>1, <1>2
<1> HIDE DEF m
<1>5. /\ m \o b \in Seq(S) /\ Len(m \o b) = Len(s) + 1
      /\ \A i \in 1..Len(s) + 1 : (m \o b)[i] = IF i <= at THEN m[i] ELSE b[i - at]
  BY <1>1, <1>3, <1>4
<1>6. \A i \in 1..Len(s) + 1 : (m \o b)[i] = IF i < at THEN s[i] ELSE IF i = at THEN u ELSE s[i - 1]
  <2> SUFFICES ASSUME NEW i \in 1..Len(s) + 1
               PROVE  (m \o b)[i] = IF i < at THEN s[i] ELSE IF i = at THEN u ELSE s[i - 1]
    OBVIOUS
  <2>1. CASE i <= at
    BY <2>1, <1>1, <1>4, <1>5
  <2>2. CASE i > at
    <3>1. i - at \in 1..Len(s) - at + 1 /\ at + (i - at) - 1 = i - 1
      BY <2>2, <1>1
    <3> QED BY <3>1, <2>2, <1>1, <1>3, <1>5
  <2>3. i <= at \/ i > at
    BY <1>1
  <2> QED BY <2>1, <2>2, <2>3
<1> QED BY <1>5, <1>6 DEF InsertAt, m, a, b

LEMMA InsertKeepsOrder ==
    ASSUME NEW S, NEW points \in [S -> Nat], NEW s \in Seq(S), Sorted(s, points), NEW u \in S
    PROVE  InsertElt(s, u, points) \in Seq(S) /\ Sorted(InsertElt(s, u, points), points)
<1> DEFINE below == {i \in 1..Len(s) : points[u] >= points[s[i]]}
           at == IF below = {} THEN Len(s) + 1 ELSE Min(below)
           t == InsertAt(s, at, u)
<1>1. Len(s) \in Nat /\ \A i \in 1..Len(s) : s[i] \in S /\ points[s[i]] \in Nat
  OBVIOUS
<1>2. below \in SUBSET Nat
  OBVIOUS
<1>3. below # {} => Min(below) \in below /\ \A i \in below : Min(below) <= i
  BY <1>2, MinOf
<1>4. /\ at \in 1..Len(s) + 1
      /\ \A i \in 1..Len(s) : i < at => points[s[i]] > points[u]
      /\ at <= Len(s) => points[u] >= points[s[at]]
  <2>1. \A i \in 1..Len(s) : i \in below <=> points[u] >= points[s[i]]
    OBVIOUS
  <2>2. points[u] \in Nat
    OBVIOUS
  <2>3. CASE below = {}
    BY <2>1, <2>2, <2>3, <1>1
  <2>4. CASE below # {}
    <3>1. at \in below /\ \A i \in below : at <= i
      BY <2>4, <1>3
    <3>2. at \in 1..Len(s) /\ points[u] >= points[s[at]]
      BY <3>1
    <3> HIDE DEF at, below
    <3>3. ASSUME NEW i \in 1..Len(s), i < at PROVE points[s[i]] > points[u]
      <4>1. i \notin below
        BY <3>1, <3>2, <3>3, <1>1
      <4> QED BY <4>1, <2>1, <2>2, <1>1
    <3> QED BY <3>2, <3>3, <1>1
  <2> QED BY <2>3, <2>4
<1> HIDE DEF below, at
<1>5. /\ t \in Seq(S) /\ Len(t) = Len(s) + 1
      /\ \A i \in 1..Len(t) : t[i] = IF i < at THEN s[i] ELSE IF i = at THEN u ELSE s[i - 1]
  BY <1>4, Inserted
<1> HIDE DEF t
<1>6. Sorted(t, points)
  <2> SUFFICES ASSUME NEW i \in 1..Len(s) + 1, NEW j \in 1..Len(s) + 1, i < j
               PROVE  points[t[i]] >= points[t[j]]
    BY <1>5 DEF Sorted
  <2>0. points[u] \in Nat /\ i \in 1..Len(s) /\ j - 1 \in 1..Len(s)
    BY <1>1
  <2>1. CASE j < at
    <3>1. t[i] = s[i] /\ t[j] = s[j] /\ j \in 1..Len(s)
      BY <2>0, <2>1, <1>1, <1>4, <1>5
    <3> QED BY <3>1, <2>0 DEF Sorted
  <2>2. CASE j = at
    <3>1. t[i] = s[i] /\ t[j] = u
      BY <2>0, <2>2, <1>1, <1>4, <1>5
    <3> QED BY <3>1, <2>0, <2>2, <1>1, <1>4
  <2>3. CASE j > at /\ i < at
    <3>1. t[i] = s[i] /\ t[j] = s[j - 1] /\ (i < j - 1 \/ i = j - 1)
      BY <2>0, <2>3, <1>1, <1>4, <1>5
    <3> QED BY <3>1, <2>0, <1>1 DEF Sorted
  <2>4. CASE j > at /\ i = at
    <3>1. t[i] = u /\ t[j] = s[j - 1] /\ at <= Len(s) /\ (at < j - 1 \/ at = j - 1)
      BY <2>0, <2>4, <1>1, <1>4, <1>5
    <3>2. points[u] >= points[s[at]] /\ points[s[at]] >= points[s[j - 1]]
      BY <3>1, <2>0, <2>4, <1>1, <1>4 DEF Sorted
    <3> QED BY <3>1, <3>2, <2>0, <2>4, <1>1, <1>4
  <2>5. CASE j > at /\ i > at
    <3>1. t[i] = s[i - 1] /\ t[j] = s[j - 1] /\ i - 1 \in 1..Len(s) /\ i - 1 < j - 1
      BY <2>0, <2>5, <1>1, <1>4, <1>5
    <3> QED BY <3>1, <2>0 DEF Sorted
  <2> QED BY <2>1, <2>2, <2>3, <2>4, <2>5, <1>4
<1> QED BY <1>5, <1>6 DEF InsertElt, t, at, below
LEMMA PlaceKeeps ==
    ASSUME NEW left \in Seq(Entry), NEW D \in SUBSET Uuids, NEW points \in [D -> Nat],
           NEW s \in Seq(D), Sorted(s, points), NEW u \in D, NEW t \in Nat
    PROVE  LET placed == Place(left, s, points, u, t)
           IN  placed[1] \in Seq(Entry) /\ placed[2] \in Seq(D) /\ Sorted(placed[2], points)
<1>1. CASE t # 0
  <2>1. [uuid |-> u, ticketDay |-> t] \in Entry
    BY DEF Entry
  <2>2. Append(left, [uuid |-> u, ticketDay |-> t]) \in Seq(Entry)
    BY <2>1
  <2> QED BY <1>1, <2>2 DEF Place
<1>2. CASE t = 0
  BY <1>2, InsertKeepsOrder DEF Place
<1> QED BY <1>1, <1>2

LEMMA FightMovesPoints ==
    ASSUME NEW u, NEW v, NEW t1 \in Nat, NEW t2 \in Nat, NEW winner \in 1..2
    PROVE  LET t == AfterFight(u, v, t1, t2, winner) IN t[1] \in Nat /\ t[2] \in Nat
<1>1. CASE u = v /\ u \in AllRobots
  BY <1>1 DEF AfterFight
<1>2. CASE ~ (u = v /\ u \in AllRobots) /\ winner = 1
  BY <1>2 DEF AfterFight, Prize
<1>3. CASE ~ (u = v /\ u \in AllRobots) /\ winner # 1
  BY <1>3 DEF AfterFight, Prize
<1> QED BY <1>1, <1>2, <1>3

LEMMA OrdersType ==
    ASSUME NEW S, NEW s \in Seq(S), NEW o \in Orders(s)
    PROVE  o \in Seq(S) /\ Len(o) = Len(s)
<1>1. PICK f \in [1..Len(s) -> 1..Len(s)] : o = [i \in 1..Len(s) |-> s[f[i]]]
  BY DEF Orders
<1>2. \A i \in 1..Len(s) : s[f[i]] \in S
  OBVIOUS
<1> QED BY <1>1, <1>2

LEMMA NamesType ==
    ASSUME NEW s \in Seq(Entry)
    PROVE  Names(s) \in Seq(Uuids) /\ Len(Names(s)) = Len(s)
<1>1. \A i \in 1..Len(s) : s[i] \in Entry
  OBVIOUS
<1>2. \A i \in 1..Len(s) : s[i].uuid \in Uuids
  BY <1>1 DEF Entry
<1> QED BY <1>2 DEF Names

LEMMA ReverseType ==
    ASSUME NEW S, NEW s \in Seq(S)
    PROVE  Reverse(s) \in Seq(S)
<1>1. \A i \in 1..Len(s) : s[(Len(s) - i) + 1] \in S
  OBVIOUS
<1> QED BY <1>1 DEF Reverse

LEMMA Every2ndType ==
    ASSUME NEW S, NEW s \in Seq(S), NEW from \in 1..2
    PROVE  Every2nd(s, from) \in Seq(S)
<1> DEFINE n == (Len(s) + 2 - from) \div 2
<1>1. n \in Nat /\ 2 * n <= Len(s) + 2 - from
  OBVIOUS
<1>2. \A i \in 1..n : 2 * i - 2 + from \in 1..Len(s)
  BY <1>1
<1>3. \A i \in 1..n : s[2 * i - 2 + from] \in S
  BY <1>2
<1> HIDE DEF n
<1>4. [i \in 1..n |-> s[2 * i - 2 + from]] \in Seq(S)
  BY <1>1, <1>3
<1> QED BY <1>4 DEF Every2nd, n

LEMMA PartType ==
    ASSUME NEW S, NEW s \in Seq(S), NEW m \in Int, NEW n \in Int, m >= 1, n <= Len(s)
    PROVE  SubSeq(s, m, n) \in Seq(S)
<1>1. \A i \in m..n : s[i] \in S
  OBVIOUS
<1> QED BY <1>1, SubSeqProperties

-----------------------------------------------------------------------------
(* Every step preserves the invariant of the tournament. *)

PlayTypeOK ==
    /\ ticket \in [Uuids -> Nat] /\ before \in [Uuids -> Nat] /\ tcopy \in [Calls -> Nat]
    /\ stage \in {"list", "round", "first", "second", "set1", "set2", "rank", "short", "done"}
    /\ entries \in Seq(Uuids) /\ ranks \in Seq(Uuids) /\ final \in Seq(Uuids)
    /\ userArea \in Seq(Entry) /\ area1 \in Seq(Entry) /\ area2 \in Seq(Entry)
    /\ sOne \in Seq(Entry) /\ remain \in Seq(Entry)
    /\ DOMAIN start \subseteq Uuids /\ \A u \in DOMAIN start : start[u] \in Nat
    /\ count \in 0..MaxRounds /\ mixed \in BOOLEAN
    /\ duel \in [ua1 : Uuids \cup {Job}, ua2 : Uuids \cup {Job}, t1 : Nat, t2 : Nat]

LEMMA TypeParts == PvpTypeOK <=> PipeTypeOK /\ PlayTypeOK
BY DEF PvpTypeOK, PlayTypeOK

PlayInv == PlayTypeOK /\ StageInv /\ RankInv

LEMMA SizeFacts ==
    /\ MinSize \in Nat /\ MaxRounds \in Nat /\ Finalists \in Nat /\ RoundEnd = 2 * Finalists
    /\ RoundEnd < MinSize /\ MinSize <= Len(Robots)
    /\ Robots \in Seq(AllRobots) /\ AllRobots \subseteq Uuids /\ Players \subseteq Uuids
BY PvpAssumption DEF PvpAssumption, Uuids

LEMMA CopiesStay ==
    ASSUME PipeTypeOK, DataStep
    PROVE  \A u : Copied(u) => Copied(u)'
<1>1. have[Job] \subseteq have'[Job]
  BY Facts DEF DataStep, pipeVars, copies, Begins, Enter, Ends, Reads, Writes, Applies, Apply,
               PipeTypeOK, RecordsTypeOK
<1> QED BY <1>1 DEF Copied

LEMMA IdleKeeps ==
    ASSUME PlayInv, PipeTypeOK, DataStep, UNCHANGED match,
           ticket' \in [Uuids -> Nat], tcopy' \in [Calls -> Nat]
    PROVE  PlayInv'
<1>0. UNCHANGED <<stage, entries, before, userArea, area1, area2, sOne, remain, ranks, start, count, duel, mixed, final>>
  BY DEF match, field, results
<1>1. PlayTypeOK'
  BY <1>0 DEF PlayInv, PlayTypeOK
<1>2. StageInv'
  BY <1>0, CopiesStay DEF PlayInv, StageInv
<1>3. RankInv'
  BY <1>0 DEF PlayInv, RankInv, Sorted
<1> QED BY <1>1, <1>2, <1>3 DEF PlayInv

LEMMA PlayerKeeps ==
    ASSUME PlayInv, PipeTypeOK, DataStep, NEW c \in Calls, PlayerCall(c)
    PROVE  PlayInv'
<1>1. UNCHANGED match /\ c # Job /\ PlayerOf[c] \in Uuids
  BY Facts DEF PlayerCall, Uuids
<1>0. ticket \in [Uuids -> Nat] /\ tcopy \in [Calls -> Nat]
  BY DEF PlayInv, PlayTypeOK
<1>2. Follow(c, 0) \/ \E gain \in Gains : Follow(c, gain)
  BY DEF PlayerCall
<1>3. ticket' \in [Uuids -> Nat] /\ tcopy' \in [Calls -> Nat]
  <2>1. CASE Follow(c, 0)
    BY <1>0, <1>1, <2>1 DEF Follow
  <2>2. CASE \E gain \in Gains : Follow(c, gain)
    <3>1. PICK gain \in Gains : Follow(c, gain)
      BY <2>2
    <3>2. gain \in Nat
      BY PvpAssumption DEF PvpAssumption
    <3> QED BY <1>0, <1>1, <3>1, <3>2 DEF Follow
  <2> QED BY <1>2, <2>1, <2>2
<1> QED BY <1>1, <1>3, IdleKeeps

LEMMA FillUpKeeps ==
    ASSUME PlayInv, PipeTypeOK, FillUp
    PROVE  PlayInv'
<1>0. /\ stage' = "round" /\ stage = "list"
      /\ userArea' = [i \in 1..Len(entries') |-> AsEntry(entries'[i])]
      /\ before' = ticket
      /\ UNCHANGED <<have, ticket, tcopy, area1, area2, sOne, remain, ranks, start, count, duel, mixed, final>>
  BY DEF FillUp, Playing, results, pipeVars, copies
<1>1. entries' \in Seq(Uuids)
  <2> DEFINE L == vals[Job][Day] \cap Enrols
  <2>1. PICK order \in SetToSeqs(L) :
           LET players == [i \in 1..Len(order) |-> PlayerOf[order[i]]]
           IN  entries' = players \o SubSeq(Robots, 1, MinSize - Len(players))
    BY DEF FillUp
  <2> DEFINE players == [i \in 1..Len(order) |-> PlayerOf[order[i]]]
  <2>2. Cardinality(L) \in Nat
    BY PvpAssumption, FS_Subset, FS_CardinalityType DEF PvpAssumption
  <2>3. order \in Seq(L) /\ Len(order) \in Nat
    <3> HIDE DEF L
    <3>1. order \in [1..Cardinality(L) -> L]
      BY DEF SetToSeqs
    <3> QED BY <3>1, <2>2
  <2>4. \A i \in 1..Len(order) : PlayerOf[order[i]] \in Uuids
    BY <2>3, Facts, SizeFacts
  <2>5. players \in Seq(Uuids) /\ Len(players) \in Nat
    BY <2>3, <2>4
  <2>6. SubSeq(Robots, 1, MinSize - Len(players)) \in Seq(AllRobots)
    BY <2>5, SizeFacts, PartType
  <2>7. SubSeq(Robots, 1, MinSize - Len(players)) \in Seq(Uuids)
    BY <2>6, SizeFacts, SeqMonotonic
  <2> QED BY <2>1, <2>5, <2>7
<1>2. userArea' \in Seq(Entry)
  <2>1. \A i \in 1..Len(entries') : AsEntry(entries'[i]) \in Entry
    BY <1>1 DEF AsEntry, Entry
  <2> QED BY <2>1, <1>0, <1>1
<1>3. PlayTypeOK'
  BY <1>0, <1>1, <1>2 DEF PlayInv, PlayTypeOK
<1>4. StageInv' /\ RankInv'
  BY <1>0 DEF PlayInv, StageInv, RankInv, Sorted
<1> QED BY <1>3, <1>4 DEF PlayInv

LEMMA FightOneKeeps ==
    ASSUME PlayInv, PipeTypeOK, FightOne
    PROVE  PlayInv'
<1>0. /\ stage = "round" /\ UNCHANGED <<have, ticket, tcopy, entries, before, ranks, start, count, duel, mixed, final>>
      /\ userArea \in Seq(Entry)
  BY DEF FightOne, Playing, pipeVars, copies, PlayInv, PlayTypeOK
<1>1. CASE RoundsOver /\ stage' = "rank" /\ UNCHANGED <<field, remain>>
  <2>1. PlayTypeOK'
    BY <1>0, <1>1 DEF PlayInv, PlayTypeOK, field
  <2>2. StageInv' /\ RankInv'
    BY <1>0, <1>1 DEF PlayInv, StageInv, RankInv, Sorted
  <2> QED BY <2>1, <2>2 DEF PlayInv
<1>2. CASE ~ RoundsOver
  <2> DEFINE odd == Len(userArea) % 2
             even == SubSeq(userArea, 1 + odd, Len(userArea))
  <2>1. /\ stage' = "first" /\ sOne' = SubSeq(userArea, 1, odd)
        /\ area1' = Every2nd(even, 1) /\ area2' = Every2nd(even, 2)
        /\ userArea' = <<>> /\ remain' = <<>>
    BY <1>2 DEF FightOne
  <2>2. odd \in 0..1 /\ odd <= Len(userArea) /\ Len(userArea) \in Nat
    BY <1>0
  <2>3. SubSeq(userArea, 1, odd) \in Seq(Entry) /\ even \in Seq(Entry)
    BY <1>0, <2>2, PartType
  <2> HIDE DEF even, odd
  <2>4. sOne' \in Seq(Entry) /\ area1' \in Seq(Entry) /\ area2' \in Seq(Entry)
    BY <2>1, <2>3, Every2ndType
  <2>5. count < MaxRounds
    BY <1>2, SizeFacts DEF RoundsOver, PlayInv, PlayTypeOK
  <2>6. PlayTypeOK'
    <3>1. stage' = "first" /\ userArea' \in Seq(Entry) /\ remain' \in Seq(Entry)
      BY <2>1
    <3>2. PlayTypeOK
      BY DEF PlayInv
    <3> QED BY <1>0, <2>4, <3>1, <3>2 DEF PlayTypeOK
  <2>7. StageInv' /\ RankInv'
    BY <1>0, <2>1, <2>5 DEF PlayInv, StageInv, RankInv, Sorted
  <2> QED BY <2>6, <2>7 DEF PlayInv
<1> QED BY <1>1, <1>2 DEF FightOne

LEMMA PvpInfoIsCopied ==
    ASSUME PipeTypeOK, NEW u, GetPvpInfo(u)
    PROVE  Copied(u)' /\ \A w : Copied(w) => Copied(w)'
BY Facts DEF GetPvpInfo, Copied, PipeTypeOK, RecordsTypeOK

LEMMA FirstOfPairKeeps ==
    ASSUME PlayInv, PipeTypeOK, FirstOfPair
    PROVE  PlayInv'
<1> DEFINE u == Last(area1).uuid
           v == Last(area2).uuid
<1>0. /\ stage = "first" /\ stage' = "second" /\ GetPvpInfo(u)
      /\ duel' = [NoDuel EXCEPT !.ua1 = u, !.ua2 = v, !.t1 = ticket[u]]
      /\ area1' = Front(area1) /\ area2' = Front(area2) /\ area1 # <<>> /\ area2 # <<>>
      /\ UNCHANGED <<ticket, tcopy, entries, before, userArea, sOne, remain, ranks, start, count, mixed, final>>
  BY DEF FirstOfPair, Playing, results
<1>1. ASSUME NEW s \in Seq(Entry), s # <<>>
      PROVE  Last(s).uuid \in Uuids /\ Front(s) \in Seq(Entry)
  <2>1. Last(s) \in Entry /\ Len(s) \in Nat
    BY <1>1 DEF Last
  <2>2. Front(s) \in Seq(Entry)
    BY <2>1, PartType DEF Front
  <2> QED BY <2>1, <2>2 DEF Entry
<1>2. u \in Uuids /\ v \in Uuids /\ area1' \in Seq(Entry) /\ area2' \in Seq(Entry)
  BY <1>0, <1>1 DEF PlayInv, PlayTypeOK
<1>3. ticket[u] \in Nat
  BY <1>2 DEF PlayInv, PlayTypeOK
<1> HIDE DEF u, v
<1>4. /\ duel'.ua1 = u /\ duel'.ua2 = v
      /\ duel' \in [ua1 : Uuids \cup {Job}, ua2 : Uuids \cup {Job}, t1 : Nat, t2 : Nat]
  BY <1>0, <1>2, <1>3 DEF NoDuel
<1>5. PlayTypeOK'
  BY <1>0, <1>2, <1>4 DEF PlayInv, PlayTypeOK
<1>6. StageInv'
  BY <1>0, <1>2, <1>4, PvpInfoIsCopied DEF PlayInv, StageInv
<1>7. RankInv'
  BY <1>0 DEF PlayInv, RankInv, Sorted
<1> QED BY <1>5, <1>6, <1>7 DEF PlayInv

LEMMA SecondOfPairKeeps ==
    ASSUME PlayInv, PipeTypeOK, SecondOfPair
    PROVE  PlayInv'
<1> DEFINE u == duel.ua1
           v == duel.ua2
           D == DOMAIN start \cup {u, v}
<1>0. /\ stage = "second" /\ stage' = "set1" /\ GetPvpInfo(v)
      /\ start' = [w \in D |-> IF w \in DOMAIN start THEN start[w] ELSE IF w = u THEN duel.t1 ELSE ticket[v]]
      /\ mixed' = (mixed \/ NameOf1(u, v) # u)
      /\ UNCHANGED <<ticket, tcopy, entries, before, userArea, area1, area2, sOne, count, final>>
  BY DEF SecondOfPair, Playing, field
<1>1. PICK winner \in 1..2 :
         LET t == AfterFight(u, v, duel.t1, ticket[v], winner)
             one == Place(remain, ranks, start', NameOf1(u, v), t[1])
             two == Place(one[1], one[2], start', v, t[2])
         IN  /\ duel' = [duel EXCEPT !.t1 = t[1], !.t2 = t[2]]
             /\ remain' = two[1] /\ ranks' = two[2]
  BY DEF SecondOfPair
<1>2. /\ u \in Uuids /\ v \in Uuids /\ duel.t1 \in Nat /\ ticket[v] \in Nat
      /\ remain \in Seq(Entry) /\ DOMAIN start \subseteq Uuids
      /\ \A w \in DOMAIN start : start[w] \in Nat
      /\ count < MaxRounds /\ Copied(u)
  BY <1>0 DEF PlayInv, PlayTypeOK, StageInv
<1>3. start' \in [D -> Nat] /\ D \in SUBSET Uuids /\ DOMAIN start' = D
  BY <1>0, <1>2
<1>4. ranks \in Seq(D) /\ Sorted(ranks, start')
  <2>1. ranks \in Seq(DOMAIN start) /\ Sorted(ranks, start)
    BY <1>0 DEF PlayInv, RankInv
  <2>2. ranks \in Seq(D)
    BY <2>1, SeqMonotonic
  <2>3. \A i \in 1..Len(ranks) : start'[ranks[i]] = start[ranks[i]]
    BY <2>1, <1>0
  <2> QED BY <2>1, <2>2, <2>3 DEF Sorted
<1> DEFINE t == AfterFight(u, v, duel.t1, ticket[v], winner)
           one == Place(remain, ranks, start', NameOf1(u, v), t[1])
           two == Place(one[1], one[2], start', v, t[2])
<1>5. t[1] \in Nat /\ t[2] \in Nat
  BY <1>2, FightMovesPoints
<1>6. NameOf1(u, v) \in D /\ v \in D
  BY DEF NameOf1
<1>7. duel' = [duel EXCEPT !.t1 = t[1], !.t2 = t[2]] /\ remain' = two[1] /\ ranks' = two[2]
  BY <1>1
<1> HIDE DEF t, D
<1>8. one[1] \in Seq(Entry) /\ one[2] \in Seq(D) /\ Sorted(one[2], start')
  BY <1>2, <1>3, <1>4, <1>5, <1>6, PlaceKeeps
<1> HIDE DEF one
<1>9. two[1] \in Seq(Entry) /\ two[2] \in Seq(D) /\ Sorted(two[2], start')
  <2>1. /\ one[1] \in Seq(Entry) /\ one[2] \in Seq(D) /\ Sorted(one[2], start')
        /\ D \in SUBSET Uuids /\ start' \in [D -> Nat] /\ v \in D /\ t[2] \in Nat
    BY <1>3, <1>5, <1>6, <1>8
  <2> HIDE DEF v
  <2> QED BY <2>1, PlaceKeeps
<1> HIDE DEF two
<1>10. ranks' \in Seq(Uuids)
  BY <1>3, <1>7, <1>9, SeqMonotonic
<1>11. /\ duel' \in [ua1 : Uuids \cup {Job}, ua2 : Uuids \cup {Job}, t1 : Nat, t2 : Nat]
       /\ duel'.ua1 = u /\ duel'.ua2 = v
  BY <1>5, <1>7 DEF PlayInv, PlayTypeOK
<1>12. PlayTypeOK'
  <2>1. DOMAIN start' \subseteq Uuids /\ \A w \in DOMAIN start' : start'[w] \in Nat
    BY <1>3
  <2>2. mixed' \in BOOLEAN
    BY <1>0
  <2> HIDE DEF u, v
  <2> QED BY <1>0, <1>7, <1>9, <1>10, <1>11, <2>1, <2>2 DEF PlayInv, PlayTypeOK
<1>13. StageInv'
  BY <1>0, <1>2, <1>11, PvpInfoIsCopied DEF StageInv
<1>14. RankInv'
  BY <1>3, <1>7, <1>9 DEF RankInv
<1> QED BY <1>12, <1>13, <1>14 DEF PlayInv

LEMMA SetKeeps ==
    ASSUME PlayInv, PipeTypeOK, DataStep, SetFirst \/ SetSecond
    PROVE  PlayInv'
<1>0. /\ UNCHANGED <<tcopy, entries, before, userArea, area1, area2, sOne, remain, ranks, start, count, mixed, final>>
      /\ stage \in {"set1", "set2"} /\ stage' \in {"set2", "first"}
      /\ \/ stage = "set1" /\ stage' = "set2" /\ UNCHANGED duel
         \/ stage' = "first" /\ duel' = NoDuel
      /\ \E u \in Uuids, t \in Nat : ticket' = [ticket EXCEPT ![u] = t]
  BY DEF SetFirst, SetSecond, SetPvpInfo, Playing, field, results, PlayInv, StageInv, PlayTypeOK
<1>1. PlayTypeOK'
  <2>1. ticket' \in [Uuids -> Nat]
    BY <1>0 DEF PlayInv, PlayTypeOK
  <2>2. duel' \in [ua1 : Uuids \cup {Job}, ua2 : Uuids \cup {Job}, t1 : Nat, t2 : Nat]
    BY <1>0 DEF PlayInv, PlayTypeOK, NoDuel
  <2> QED BY <1>0, <2>1, <2>2 DEF PlayInv, PlayTypeOK
<1>2. StageInv'
  BY <1>0, CopiesStay DEF PlayInv, StageInv
<1>3. RankInv'
  BY <1>0 DEF PlayInv, RankInv, Sorted
<1> QED BY <1>1, <1>2, <1>3 DEF PlayInv

LEMMA EndRoundKeeps ==
    ASSUME PlayInv, EndRound
    PROVE  PlayInv'
<1>0. /\ stage = "first" /\ stage' = "round" /\ count' = count + 1 /\ count < MaxRounds
      /\ userArea' = remain \o sOne /\ sOne' = <<>> /\ remain' = <<>>
      /\ UNCHANGED <<ticket, tcopy, entries, before, area1, area2, ranks, start, duel, mixed, final>>
  BY DEF EndRound, Playing, PlayInv, StageInv
<1>1. userArea' \in Seq(Entry) /\ count' \in 0..MaxRounds
  BY <1>0, SizeFacts DEF PlayInv, PlayTypeOK
<1>2. PlayTypeOK'
  <2>1. PlayTypeOK
    BY DEF PlayInv
  <2>2. sOne' \in Seq(Entry) /\ remain' \in Seq(Entry)
    BY <1>0
  <2> QED BY <1>0, <1>1, <2>1, <2>2 DEF PlayTypeOK
<1>3. StageInv' /\ RankInv'
  BY <1>0 DEF PlayInv, StageInv, RankInv, Sorted
<1> QED BY <1>2, <1>3 DEF PlayInv

LEMMA RankKeeps ==
    ASSUME PlayInv, Rank
    PROVE  PlayInv'
<1>0. /\ stage = "rank" /\ userArea \in Seq(Entry) /\ ranks \in Seq(Uuids)
      /\ UNCHANGED <<ticket, tcopy, entries, before, area1, area2, sOne, remain, start, count, duel, mixed>>
  BY DEF Rank, Playing, PlayInv, PlayTypeOK
<1>1. CASE Len(userArea) <= Finalists
  <2>1. stage' = "short" /\ UNCHANGED <<userArea, ranks, final>>
    BY <1>1 DEF Rank
  <2>2. PlayTypeOK'
    BY <1>0, <2>1 DEF PlayInv, PlayTypeOK
  <2>3. StageInv' /\ RankInv'
    BY <1>0, <2>1 DEF PlayInv, StageInv, RankInv, Sorted
  <2> QED BY <2>2, <2>3 DEF PlayInv
<1>2. CASE ~ (Len(userArea) <= Finalists)
  <2>1. PICK sorted \in Orders(userArea) :
           /\ ranks' = Reverse(Names(SubSeq(sorted, Finalists + 1, Len(sorted)))) \o ranks
           /\ \E f8 \in Orders(Names(SubSeq(sorted, 1, Finalists))) : final' = f8 \o ranks'
    BY <1>2 DEF Rank
  <2>2. sorted \in Seq(Entry) /\ Len(sorted) = Len(userArea) /\ Len(sorted) \in Nat
    BY <1>0, <2>1, OrdersType
  <2>3. /\ SubSeq(sorted, Finalists + 1, Len(sorted)) \in Seq(Entry)
        /\ SubSeq(sorted, 1, Finalists) \in Seq(Entry)
    BY <1>2, <2>2, SizeFacts, PartType
  <2>4. /\ Reverse(Names(SubSeq(sorted, Finalists + 1, Len(sorted)))) \in Seq(Uuids)
        /\ Names(SubSeq(sorted, 1, Finalists)) \in Seq(Uuids)
    BY <2>3, NamesType, ReverseType
  <2>5. ranks' \in Seq(Uuids)
    BY <1>0, <2>1, <2>4
  <2>6. final' \in Seq(Uuids)
    BY <2>1, <2>4, <2>5, OrdersType
  <2>7. userArea' = <<>> /\ stage' = "done"
    BY <1>2 DEF Rank
  <2>8. PlayTypeOK'
    <3>1. PlayTypeOK
      BY DEF PlayInv
    <3>2. userArea' \in Seq(Entry)
      BY <2>7
    <3> QED BY <1>0, <2>5, <2>6, <2>7, <3>1, <3>2 DEF PlayTypeOK
  <2>9. StageInv' /\ RankInv'
    BY <2>7 DEF StageInv, RankInv
  <2> QED BY <2>8, <2>9 DEF PlayInv
<1> QED BY <1>1, <1>2

LEMMA PlayKeeps ==
    ASSUME IInv, [PvpNext]_pvpVars
    PROVE  PlayInv'
<1>0. PlayInv /\ PipeTypeOK /\ DataStep
  BY StepCases, TypeParts DEF IInv, PlayInv
<1>1. CASE UNCHANGED pvpVars \/ ListStep
  <2>1. UNCHANGED match /\ ticket' = ticket /\ tcopy' = tcopy
    BY <1>1 DEF pvpVars, ListStep
  <2> QED BY <1>0, <2>1, IdleKeeps DEF PlayInv, PlayTypeOK
<1>2. CASE \E c \in Calls : PlayerCall(c)
  BY <1>0, <1>2, PlayerKeeps
<1>3. CASE FillUp \/ FightOne
  BY <1>0, <1>3, FillUpKeeps, FightOneKeeps
<1>4. CASE FirstOfPair \/ SecondOfPair
  BY <1>0, <1>4, FirstOfPairKeeps, SecondOfPairKeeps
<1>5. CASE SetFirst \/ SetSecond
  BY <1>0, <1>5, SetKeeps
<1>6. CASE EndRound \/ Rank
  BY <1>0, <1>6, EndRoundKeeps, RankKeeps
<1> QED BY <1>1, <1>2, <1>3, <1>4, <1>5, <1>6 DEF PvpNext, Tournament

LEMMA InitHolds == PvpInit => IInv
<1> SUFFICES ASSUME PvpInit PROVE IInv
  OBVIOUS
<1>1. PipeTypeOK
  BY DEF PvpInit, PipeInit, PipeTypeOK, RecordsTypeOK, Ended
<1>2. PlayTypeOK
  <2>1. StartTickets \in [Uuids -> Nat] /\ 0 \in 0..MaxRounds
    BY SizeFacts, PvpAssumption DEF PvpAssumption, Uuids
  <2>2. duel \in [ua1 : Uuids \cup {Job}, ua2 : Uuids \cup {Job}, t1 : Nat, t2 : Nat]
    BY DEF PvpInit, NoDuel
  <2>3. DOMAIN start = {}
    BY DEF PvpInit
  <2>4. ticket \in [Uuids -> Nat] /\ before \in [Uuids -> Nat] /\ tcopy \in [Calls -> Nat]
    BY <2>1 DEF PvpInit
  <2>5. /\ entries \in Seq(Uuids) /\ ranks \in Seq(Uuids) /\ final \in Seq(Uuids)
        /\ userArea \in Seq(Entry) /\ area1 \in Seq(Entry) /\ area2 \in Seq(Entry)
        /\ sOne \in Seq(Entry) /\ remain \in Seq(Entry)
    BY DEF PvpInit
  <2>6. stage = "list" /\ count \in 0..MaxRounds /\ mixed \in BOOLEAN
    BY <2>1 DEF PvpInit
  <2> QED BY <2>2, <2>3, <2>4, <2>5, <2>6 DEF PlayTypeOK
<1>3. StageInv
  BY DEF PvpInit, StageInv
<1>4. RankInv
  BY DEF PvpInit, RankInv, Sorted
<1>5. MetInv /\ FreshInv /\ OwnInv /\ SeenInv /\ MarkInv
  BY Facts DEF PvpInit, PipeInit, MetInv, FreshInv, OwnInv, SeenInv, MarkInv, InWork
<1>6. HaveInv /\ CopyInv /\ TwiceInv
  BY Facts DEF PvpInit, PipeInit, HaveInv, CopyInv, TwiceInv, InWork
<1>7. LimitInv
  <2>1. Listed = {}
    BY Facts DEF PvpInit, PipeInit, Listed
  <2>2. Cardinality(Listed) <= Limit
    BY <2>1, FS_EmptySet, PvpAssumption DEF PvpAssumption
  <2> QED BY <2>2, Facts DEF PvpInit, PipeInit, LimitInv, StoredInv
<1> QED BY <1>1, <1>2, <1>3, <1>4, <1>5, <1>6, <1>7, TypeParts DEF IInv, DataInv

LEMMA Inductive == IInv /\ [PvpNext]_pvpVars => IInv'
<1> SUFFICES ASSUME IInv, [PvpNext]_pvpVars PROVE IInv'
  OBVIOUS
<1>1. PipeTypeOK' /\ DataInv' /\ LimitInv' /\ PlayInv'
  BY DataKeeps, PlayKeeps
<1>2. PvpTypeOK'
  BY <1>1 DEF PlayInv, PlayTypeOK, PvpTypeOK
<1> QED BY <1>1, <1>2 DEF IInv, PlayInv

LEMMA Invariant == PvpSpec => []IInv
BY InitHolds, Inductive, PTL DEF PvpSpec

-----------------------------------------------------------------------------
(* The theorems. *)

\* Records, copies, points and rankings have their types in every reachable state; no
\* player's points become negative (pvp_imp.js:611-637).
THEOREM PvpTypes == PvpSpec => []PvpTypeOK
<1>1. IInv => PvpTypeOK
  BY DEF IInv
<1> QED BY Invariant, <1>1, PTL

\* Those who have lost all their points are ranked by those they came with, however the
\* fights end and whoever else writes the points (pvp_imp.js:576-593).
THEOREM RankedByStart == PvpSpec => []RanksByStart
<1>1. IInv => RanksByStart
  BY DEF IInv, RankInv, Sorted, RanksByStart
<1> QED BY Invariant, <1>1, PTL

\* A player is on the list once, unless a call that one of his enrolments met has written
\* his pvpInfo (pvp_imp.js:309-316).
THEOREM PlayerListedOnce == PvpSpec => []ListedOnce
<1>1. IInv => ListedOnce
  <2> SUFFICES ASSUME IInv, NEW e \in db[Day] \cap Enrols, NEW f \in db[Day] \cap Enrols,
                      e # f, PlayerOf[e] = PlayerOf[f]
               PROVE  Contended(e, Inf(e)) \/ Contended(f, Inf(f))
    BY DEF ListedOnce, Contended, Inf
  <2>0. MetInv /\ OwnInv /\ MarkInv /\ TwiceInv
    BY DEF IInv, DataInv
  <2>1. ASSUME NEW g \in db[Day] \cap Enrols
        PROVE  Inf(g) \in stored[g] /\ g \in vals[g][Inf(g)]
    <3>1. g \in Calls \ {Job} /\ Day \in Records
      BY Facts
    <3>2. Day \in stored[g] /\ g \in vals[g][Day]
      BY <3>1, <2>0 DEF OwnInv
    <3> QED BY <3>1, <3>2, <2>0 DEF MarkInv
  <2>2. CASE f \in met[e]
    BY <2>1, <2>2 DEF Contended, Inf
  <2>3. CASE f \notin met[e]
    BY <2>0, <2>1, <2>3 DEF TwiceInv, Unseen
  <2> QED BY <2>2, <2>3
<1> QED BY Invariant, <1>1, PTL

\* Only enrolments that overlap with a call, or that fail before they are counted, exceed
\* the limit of the list (pvp_imp.js:312-314).
THEOREM ListWithinLimit == PvpSpec => []WithinLimit
<1>1. IInv => WithinLimit
  <2> SUFFICES ASSUME IInv, ~ \E e \in Enrols : met[e] # {} \/ (pc[e] \in {"error", "silent"} /\ stored[e] # {})
               PROVE  Cardinality(db[Day] \cap Enrols) <= Limit
    BY DEF WithinLimit
  <2>1. Cardinality(Listed) <= Limit
    BY DEF IInv, LimitInv, Undisturbed
  <2>2. db[Day] \cap Enrols \subseteq Listed
    <3> SUFFICES ASSUME NEW e \in db[Day] \cap Enrols PROVE e \in Listed
      OBVIOUS
    <3>1. e \in Calls \ {Job} /\ Day \in Records
      BY Facts
    <3>2. Day \in stored[e] /\ e \in vals[e][Day]
      BY <3>1 DEF IInv, DataInv, OwnInv
    <3> QED BY <3>1, <3>2 DEF IInv, DataInv, MarkInv, Listed
  <2>3. IsFiniteSet(Listed) /\ Limit \in Nat
    BY PvpAssumption, FS_Subset DEF PvpAssumption, Listed
  <2>4. /\ Cardinality(db[Day] \cap Enrols) \in Nat /\ Cardinality(Listed) \in Nat
        /\ Cardinality(db[Day] \cap Enrols) <= Cardinality(Listed)
    BY <2>2, <2>3, FS_Subset, FS_CardinalityType
  <2> QED BY <2>1, <2>3, <2>4
<1> QED BY Invariant, <1>1, PTL

-----------------------------------------------------------------------------
(* Refinement. *)

Over == {c \in Calls : pc[c] \in Ended}

LEMMA StoreStart == PvpInit => Store!Init
BY DEF PvpInit, PipeInit, Store!Init, Ended

LEMMA WritesIsStore ==
    ASSUME PipeTypeOK, DataInv, NEW c \in Calls, NEW r \in Records, NEW v \in SUBSET Calls, Writes(c, r, v)
    PROVE  Store!Store(c, r) /\ (UNCHANGED Over \/ Store!End(c))
<1>a. FreshInv /\ OwnInv /\ CopyInv
  BY DEF DataInv
<1>0. /\ InWork(c) /\ r \in have[c]
      /\ db' = [db EXCEPT ![r] = v]
      /\ stored' = [stored EXCEPT ![c] = @ \cup {r}] /\ UNCHANGED met
      /\ pc' = pc \/ \E how \in {"error", "silent"} : pc' = [pc EXCEPT ![c] = how]
      /\ v = vals[c][r] \/ (c = Job /\ v = vals[c][r] \cup {Job})
  BY DEF Writes, EndAs
<1>1. Begun' = Begun /\ (Over' = Over \/ Over' = Over \cup {c}) /\ c \in Begun \ Over
  BY <1>0 DEF Begun, Over, InWork, Ended, PipeTypeOK
<1>2. v \in IF Contended(c, r) THEN SUBSET Begun ELSE {db[r], db[r] \cup {c}}
  <2>1. v \subseteq Begun
    BY <1>0, <1>1, <1>a DEF FreshInv
  <2>2. CASE ~ Contended(c, r) /\ c # Job
    <3>1. vals[c][r] \cup {c} = db[r] \cup {c} /\ v = vals[c][r]
      BY <2>2, <1>0, <1>a DEF CopyInv
    <3>2. c \in db[r] => c \in vals[c][r]
      BY <2>2, <1>a DEF OwnInv
    <3> QED BY <2>2, <3>1, <3>2
  <2>3. CASE ~ Contended(c, r) /\ c = Job
    <3>1. vals[c][r] \cup {c} = db[r] \cup {c}
      BY <2>3, <1>0, <1>a DEF CopyInv
    <3>2. v = vals[c][r] => Job \in v
      BY <2>3, Facts, <1>a DEF Writes, CopyInv
    <3>3. v = vals[c][r] \cup {c}
      BY <2>3, <3>2, <1>0
    <3> QED BY <2>3, <3>1, <3>3
  <2> QED BY <2>1, <2>2, <2>3
<1>3. Store!Store(c, r)
  BY <1>0, <1>1, <1>2 DEF Store!Store, Store!InWork, Store!Contended, Contended, Begun, Over
<1>4. Over' = Over \/ Store!End(c)
  BY <1>0, <1>1 DEF Store!End, Store!InWork, Begun, Over
<1> QED BY <1>3, <1>4

\* With the tournament at work among the calls of the players the records still keep what
\* RecordStore promises (pvp_imp.js:654-740): it loses a change only where it met its call.
THEOREM PvpImplementsStore == PvpSpec => ImplementsStore
<1>1. IInv /\ [PvpNext]_pvpVars => [Store!Next]_(Store!vars)
  <2> SUFFICES ASSUME IInv, [PvpNext]_pvpVars
               PROVE  Store!Next \/ UNCHANGED Store!vars
    OBVIOUS
  <2>0. PipeTypeOK /\ DataInv /\ DataStep
    BY StepCases DEF IInv, PvpTypeOK
  <2>1. CASE UNCHANGED pipeVars
    BY <2>1 DEF pipeVars, Store!vars
  <2>2. ASSUME NEW c \in Calls, Begins(c)
        PROVE  Store!Begin(c)
    <3>0. /\ pc \in [Calls -> {"new", "read", "write"} \cup Ended]
          /\ pc[c] = "new" /\ pc' = [pc EXCEPT ![c] = "read"]
          /\ met' = [d \in Calls |-> IF d = c THEN {e \in Calls : InWork(e)}
                                   ELSE IF InWork(d) THEN met[d] \cup {c} ELSE met[d]]
          /\ UNCHANGED <<db, stored>>
      BY <2>0, <2>2 DEF PipeTypeOK, Begins, Enter
    <3>1. {e \in Calls : InWork(e)} = Begun \ Over
      BY DEF InWork, Begun, Over
    <3>2. \A d \in Calls : (InWork(d) <=> d \in Begun \ Over)
      BY <3>1
    <3>3. Begun' = Begun \cup {c} /\ Over' = Over /\ c \notin Begun
      BY <3>0 DEF Begun, Over, Ended
    <3> QED BY <3>0, <3>1, <3>2, <3>3 DEF Store!Begin, Store!InWork, Begun, Over
  <2>3. ASSUME NEW c \in Calls, Ends(c)
        PROVE  Store!End(c) /\ UNCHANGED <<db, stored>>
    <3>1. /\ InWork(c) /\ \E how \in Ended : pc' = [pc EXCEPT ![c] = how]
          /\ UNCHANGED <<db, met, stored>>
      BY <2>3 DEF Ends, EndAs
    <3>2. Begun' = Begun /\ Over' = Over \cup {c} /\ c \in Begun \ Over
      BY <2>0, <3>1 DEF PipeTypeOK, InWork, Begun, Over, Ended
    <3> QED BY <3>1, <3>2 DEF Store!End, Store!InWork, Begun, Over
  <2>4. ASSUME NEW c \in Calls, NEW touched \in SUBSET Records, Applies(c, touched)
        PROVE  UNCHANGED Store!vars
    <3>1. /\ pc[c] = "read" /\ pc' = [pc EXCEPT ![c] = "write"]
          /\ UNCHANGED <<db, met, stored>>
      BY <2>4 DEF Applies, Apply, AllRead
    <3>2. Begun' = Begun /\ Over' = Over
      BY <2>0, <3>1 DEF PipeTypeOK, Begun, Over, Ended
    <3> QED BY <3>1, <3>2 DEF Store!vars, Begun, Over
  <2>5. ASSUME NEW c \in Calls, NEW r \in Records, Reads(c, r)
        PROVE  UNCHANGED Store!vars
    BY <2>5 DEF Reads, Store!vars
  <2>6. ASSUME NEW c \in Calls, NEW r \in Records, NEW v \in SUBSET Calls, Writes(c, r, v)
        PROVE  Store!Next
    BY <2>0, <2>6, WritesIsStore DEF Store!Next, Over
  <2> QED BY <2>0, <2>1, <2>2, <2>3, <2>4, <2>5, <2>6 DEF DataStep, Store!Next
<1> QED BY StoreStart, <1>1, Invariant, PTL DEF PvpSpec, ImplementsStore, Store!Spec
=============================================================================
