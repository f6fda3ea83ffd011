-------------------------- MODULE DataPipelineProofs --------------------------
(***************************************************************************)
(* Theorems about DataPipeline: the pipeline keeps what RecordStore        *)
(* promises, an answered call's changes are there, and a player's base     *)
(* record comes first, for any number of sessions, calls and records.      *)
(***************************************************************************)
EXTENDS DataPipeline, TLAPS

-----------------------------------------------------------------------------
(* The invariant. *)

Begun == {c \in Calls : pc[c] # "new"}
Contended(c, r) == \E d \in met[c] : r \in stored[d]

\* Meeting is mutual, and calls in work have met.
MetInv ==
    /\ \A c, d \in Calls : d \in met[c] => c \in met[d]
    /\ \A c, d \in Calls : c # d /\ InWork(c) /\ InWork(d) => d \in met[c]

\* Nothing is known to a call before it begins, and a copy has been read or made.
FreshInv ==
    /\ \A c \in Calls : pc[c] = "new" => met[c] = {} /\ have[c] = {} /\ pos[c] = 1
    /\ \A c \in Calls : pc[c] \in {"new", "read"} =>
          /\ stored[c] = {}
          /\ \A r \in Records : c \notin db[r] /\ \A d \in Calls : c \notin vals[d][r]
    /\ \A c \in Calls, r \in Records : r \notin have[c] => vals[c][r] = {}
    /\ \A c \in Calls, r \in Records : vals[c][r] \subseteq Begun /\ db[r] \subseteq Begun

HasBase(c) ==
    \/ pc[c] = "ok"
    \/ pc[c] = "write" /\ pos[c] > 1
    \/ pc[c] = "read" /\ Base \in have[c]

\* A call that has read a record of the player that has to be there, and may write some.
Grounded(c) ==
    \/ pc[c] = "write" /\ RangeOf(WritesOf[c]) \cap RangeOf(Created) # {}
    \/ /\ pc[c] = "read"
       /\ \E i \in 1..Len(ReadsOf[c]) :
             i < pos[c] /\ ReadsOf[c][i] \in RangeOf(Created) \cap Required

\* A record exists once it is stored, and the base record before the others.
FirstInv ==
    /\ \A c \in Calls, r \in Records : r \in stored[c] => r \in present
    /\ \A r \in Records : (\A c \in Calls : r \notin stored[c]) => db[r] = {}
    /\ \A r \in RangeOf(Created) : r \in present => Base \in present
    /\ LoggedIn # {} => Base \in present
    /\ \A c \in Calls \ Logins : Grounded(c) => Base \in present
    /\ \A c \in Logins : HasBase(c) => Base \in present
    /\ \A c \in Logins : pc[c] = "write" => RangeOf(Created) \subseteq have[c]

\* A record that a call found missing has since been stored only by calls it met.
AbsentOK(c) ==
    /\ \A i \in 1..Len(ReadsOf[c]), d \in Calls :
          i < pos[c] /\ ReadsOf[c][i] \notin have[c] /\ ReadsOf[c][i] \in stored[d]
          => d \in met[c]
    /\ c \in Logins /\ pos[c] > 1 /\ Base \notin have[c] =>
          \A r \in RangeOf(Created), d \in Calls : r \in stored[d] => d \in met[c]
AbsentInv == \A c \in Calls : pc[c] = "read" => AbsentOK(c)

\* The copy of a record that nobody else has stored is up to date.
CopyOK(c, r) ==
    r \in have[c] /\ ~ Contended(c, r) => vals[c][r] \in {db[r], db[r] \cup {c}}
CopyInv == \A c \in Calls, r \in Records : InWork(c) => CopyOK(c, r)

\* The records behind a call's position are stored.
WriteOK(c) ==
    /\ \A i \in 1..Len(WritesOf[c]) :
          pc[c] = "write" /\ i < pos[c] /\ WritesOf[c][i] \in have[c] => WritesOf[c][i] \in stored[c]
    /\ \A r \in Records : c \in vals[c][r] => r \in RangeOf(WritesOf[c]) /\ r \in have[c]
    /\ \A r \in Records : pc[c] = "ok" /\ c \in vals[c][r] => r \in stored[c]
WriteInv == \A c \in Calls : pc[c] \in {"write", "ok"} => WriteOK(c)

\* A change that was stored is in Redis and in every copy that was read after it.
SeenOK(c, r) ==
    r \in stored[c] /\ c \in vals[c][r] /\ ~ Contended(c, r) =>
       /\ c \in db[r]
       /\ \A d \in Calls : d # c /\ InWork(d) /\ d \notin met[c] /\ r \in have[d] => c \in vals[d][r]
SeenInv == \A c \in Calls, r \in Records : SeenOK(c, r)

IInv == /\ PipeTypeOK /\ MetInv /\ FreshInv /\ FirstInv
        /\ AbsentInv /\ CopyInv /\ WriteInv /\ SeenInv

-----------------------------------------------------------------------------
(* The steps of a call, by what they do to its copies and to the records. *)

TakesCopy(c) ==
    /\ pc[c] = "read" /\ pos[c] \in 1..Len(ReadsOf[c])
    /\ LET r == ReadsOf[c][pos[c]]
       IN  /\ r \in present
           /\ vals' = [vals EXCEPT ![c][r] = db[r]]
           /\ have' = [have EXCEPT ![c] = @ \cup {r}]
    /\ pos' = [pos EXCEPT ![c] = @ + 1]
    /\ UNCHANGED <<pc, db, present, met, stored>>

FindsNone(c) ==
    /\ pc[c] = "read" /\ pos[c] \in 1..Len(ReadsOf[c])
    /\ ReadsOf[c][pos[c]] \notin present
    /\ c \in Logins \/ ReadsOf[c][pos[c]] \notin Required
    /\ pos' = [pos EXCEPT ![c] = @ + 1]
    /\ UNCHANGED <<pc, vals, have, db, present, met, stored>>

Applies(c, touched) ==
    /\ AllRead(c)
    /\ touched \subseteq RangeOf(WritesOf[c])
    /\ c \in Logins => Base \notin have[c] /\ touched = RangeOf(Created)
    /\ Apply(c, touched)

Stores(c) ==
    /\ pc[c] = "write" /\ pos[c] \in 1..Len(WritesOf[c])
    /\ Stored(c)
    /\ \/ UNCHANGED pc /\ pos' = [pos EXCEPT ![c] = @ + 1]
       \/ UNCHANGED pos /\ \E how \in {"error", "silent"} : EndAs(c, how)
    /\ UNCHANGED <<vals, have, met>>

PassesOver(c) ==
    /\ pc[c] = "write" /\ pos[c] \in 1..Len(WritesOf[c])
    /\ WritesOf[c][pos[c]] \notin have[c]
    /\ pos' = [pos EXCEPT ![c] = @ + 1]
    /\ UNCHANGED <<pc, vals, have, db, present, met, stored>>

Ends(c, how) ==
    /\ InWork(c)
    /\ how = "ok" => \/ AllWritten(c)
                     \/ c \in Logins /\ AllRead(c) /\ Base \in have[c]
    /\ EndAs(c, how)
    /\ UNCHANGED <<copies, db, present, met, stored>>

LEMMA Elements ==
    ASSUME NEW c \in Calls
    PROVE  /\ Len(ReadsOf[c]) \in Nat /\ Len(WritesOf[c]) \in Nat
           /\ \A i \in 1..Len(ReadsOf[c]) : ReadsOf[c][i] \in Records
           /\ \A i \in 1..Len(WritesOf[c]) : WritesOf[c][i] \in Records
                                           /\ WritesOf[c][i] \in RangeOf(WritesOf[c])
           /\ RangeOf(Created) \subseteq Records /\ Base \in RangeOf(Created)
BY PipelineAssumption DEF PipelineAssumption, RangeOf, Base

LEMMA StepCases ==
    ASSUME IInv, NEW c \in Calls, CallStep(c)
    PROVE  \/ Begin(c) \/ TakesCopy(c) \/ FindsNone(c)
           \/ \E touched \in SUBSET Records : Applies(c, touched)
           \/ Stores(c) \/ PassesOver(c) \/ \E how \in Ended : Ends(c, how)
<1> USE DEF IInv, PipeTypeOK, RecordsTypeOK, copies
<1>0. pos[c] \in Nat \ {0} /\ Refused(c) \in {"error", "silent"} /\ Refused(c) \in Ended
  BY DEF Refused, Ended
<1>1. CASE Begin(c)
  BY <1>1
<1>2. CASE ReadNext(c)
  <2>1. pos[c] \in 1..Len(ReadsOf[c]) /\ InWork(c)
    BY <1>2, <1>0, Elements DEF ReadNext, InWork, Ended
  <2>2. CASE ReadsOf[c][pos[c]] \in present
    BY <1>2, <2>1, <2>2 DEF ReadNext, TakesCopy
  <2>3. CASE /\ ReadsOf[c][pos[c]] \notin present
             /\ c \in Logins \/ ReadsOf[c][pos[c]] \notin Required
    BY <1>2, <2>1, <2>3, <1>0 DEF ReadNext, FindsNone, EndAs
  <2>4. CASE ReadsOf[c][pos[c]] \notin present /\ EndAs(c, Refused(c))
                /\ UNCHANGED <<copies, db, present, met, stored>>
    <3>1. Ends(c, Refused(c))
      BY <2>1, <2>4, <1>0 DEF Ends
    <3> QED BY <3>1, <1>0
  <2> QED BY <1>2, <2>2, <2>3, <2>4 DEF ReadNext
<1>3. CASE Run(c)
  <2>1. CASE \E touched \in SUBSET RangeOf(WritesOf[c]) : Apply(c, touched)
    <3>1. RangeOf(WritesOf[c]) \subseteq Records
      BY PipelineAssumption, Elements DEF RangeOf
    <3> QED BY <1>3, <2>1, <3>1 DEF Run, Applies
  <2>2. CASE EndAs(c, Refused(c)) /\ UNCHANGED <<db, present, copies, met, stored>>
    <3>1. Ends(c, Refused(c))
      BY <1>3, <2>2, <1>0 DEF Ends, Run, AllRead, InWork, Ended
    <3> QED BY <3>1, <1>0
  <2> QED BY <1>3, <2>1, <2>2 DEF Run
<1>4. CASE LoadOrCreate(c)
  <2>1. CASE Base \in have[c]
    <3>1. Ends(c, "ok")
      BY <1>4, <2>1 DEF Ends, LoadOrCreate, AllRead, InWork, Ended
    <3> QED BY <3>1 DEF Ended
  <2>2. CASE Base \notin have[c]
    <3>1. WritesOf[c] = Created /\ RangeOf(Created) \subseteq Records
      BY <1>4, PipelineAssumption, Elements DEF PipelineAssumption, LoadOrCreate
    <3> QED BY <1>4, <2>2, <3>1 DEF LoadOrCreate, Applies
  <2> QED BY <2>1, <2>2
<1>5. CASE WriteNext(c)
  <2>1. pos[c] \in 1..Len(WritesOf[c])
    BY <1>5, <1>0, Elements DEF WriteNext
  <2> QED BY <1>5, <2>1 DEF WriteNext, Stores, PassesOver
<1>6. CASE Answer(c)
  <2>1. Ends(c, "ok")
    BY <1>6 DEF Answer, Ends, AllWritten, InWork, Ended
  <2> QED BY <2>1 DEF Ended
<1>7. CASE Fail(c)
  <2>1. CASE pc[c] = "write" /\ pos[c] <= Len(WritesOf[c]) /\ Stored(c)
    <3>1. pos[c] \in 1..Len(WritesOf[c])
      BY <2>1, <1>0, Elements
    <3> QED BY <1>7, <2>1, <3>1, <1>0 DEF Fail, Stores
  <2>2. CASE UNCHANGED <<db, present, stored>>
    <3>1. Ends(c, Refused(c))
      BY <1>7, <2>2, <1>0 DEF Ends, Fail
    <3> QED BY <3>1, <1>0
  <2> QED BY <1>7, <2>1, <2>2 DEF Fail
<1> QED BY <1>1, <1>2, <1>3, <1>4, <1>5, <1>6, <1>7 DEF CallStep

-----------------------------------------------------------------------------
(* Each kind of step keeps the invariant. *)

LEMMA BeginKeeps ==
    ASSUME IInv, NEW c \in Calls, Begin(c)
    PROVE  IInv'
<1> USE DEF PipeTypeOK, RecordsTypeOK
<1>a. PipeTypeOK /\ MetInv /\ FreshInv /\ FirstInv /\ AbsentInv /\ CopyInv /\ WriteInv /\ SeenInv
  BY DEF IInv
<1>0. /\ pc[c] = "new" /\ ~ InWork(c) /\ pc' = [pc EXCEPT ![c] = "read"]
      /\ met' = [d \in Calls |-> IF d = c THEN {e \in Calls : InWork(e)}
                               ELSE IF InWork(d) THEN met[d] \cup {c} ELSE met[d]]
      /\ UNCHANGED <<db, present, pos, vals, have, stored>>
  BY DEF InWork, Begin, Enter, copies
<1>1. PipeTypeOK'
  BY <1>0, <1>a
<1>2. /\ pc'[c] = "read" /\ InWork(c)' /\ \A d \in Calls : d # c => pc'[d] = pc[d] /\ (InWork(d)' <=> InWork(d))
      /\ stored[c] = {} /\ have[c] = {} /\ met[c] = {} /\ pos[c] = 1
  BY <1>0, <1>a DEF InWork, FreshInv, Ended
<1>b. \A d \in Calls : met[d] \subseteq met'[d]
  BY <1>0, <1>2, <1>a
<1>3. \A d \in Calls, r \in Records : d # c => (Contended(d, r)' <=> Contended(d, r))
  BY <1>0, <1>2 DEF Contended
<1>4. MetInv'
  BY <1>0, <1>2, <1>a DEF MetInv
<1>5. FreshInv'
  <2>1. Begun' = Begun \cup {c}
    BY <1>0, <1>2, <1>a DEF Begun
  <2>2. \A d \in Calls : pc'[d] = "new" => d # c /\ met'[d] = {} /\ have'[d] = {} /\ pos'[d] = 1
    <3> SUFFICES ASSUME NEW d \in Calls, pc'[d] = "new"
                 PROVE  d # c /\ met'[d] = {} /\ have'[d] = {} /\ pos'[d] = 1
      OBVIOUS
    <3>1. d # c /\ pc[d] = "new" /\ ~ InWork(d)
      BY <1>2 DEF InWork
    <3> QED BY <3>1, <1>0, <1>a DEF FreshInv
  <2>3. \A d \in Calls : pc'[d] \in {"new", "read"} => pc[d] \in {"new", "read"}
    BY <1>0, <1>2
  <2> QED BY <1>0, <1>a, <2>1, <2>2, <2>3 DEF FreshInv
<1>6. FirstInv'
  <2>1. \A d \in Calls : Grounded(d)' => Grounded(d)
    <3>1. ~ Grounded(c)'
      BY <1>0, <1>2 DEF Grounded
    <3> QED BY <3>1, <1>0, <1>2 DEF Grounded
  <2>2. \A d \in Logins : pc'[d] # pc[d] => d = c
    BY <1>2, PipelineAssumption DEF PipelineAssumption
  <2> QED BY <1>0, <1>2, <2>1, <2>2, <1>a DEF FirstInv, HasBase
<1>7. AbsentInv'
  <2> SUFFICES ASSUME NEW d \in Calls, pc'[d] = "read"
               PROVE  AbsentOK(d)'
    BY DEF AbsentInv
  <2>1. CASE d = c
    BY <2>1, <1>0, <1>2 DEF AbsentOK
  <2>2. CASE d # c
    BY <2>2, <1>0, <1>2, <1>b, <1>a DEF AbsentInv, AbsentOK
  <2> QED BY <2>1, <2>2
<1>8. CopyInv'
  BY <1>0, <1>2, <1>3, <1>a DEF CopyInv, CopyOK
<1>9. WriteInv'
  BY <1>0, <1>2, <1>a DEF WriteInv, WriteOK
<1>10. SeenInv'
  BY <1>0, <1>2, <1>3, <1>a DEF SeenInv, SeenOK
<1> QED BY <1>1, <1>4, <1>5, <1>6, <1>7, <1>8, <1>9, <1>10 DEF IInv

LEMMA TakesCopyKeeps ==
    ASSUME IInv, NEW c \in Calls, TakesCopy(c)
    PROVE  IInv'
<1> DEFINE r == ReadsOf[c][pos[c]]
<1> USE DEF PipeTypeOK, RecordsTypeOK
<1>a. PipeTypeOK /\ MetInv /\ FreshInv /\ FirstInv /\ AbsentInv /\ CopyInv /\ WriteInv /\ SeenInv
  BY DEF IInv
<1>0. /\ r \in Records /\ r \in present /\ pc[c] = "read" /\ InWork(c) /\ pos[c] \in Nat \ {0}
      /\ vals' = [vals EXCEPT ![c][r] = db[r]] /\ have' = [have EXCEPT ![c] = @ \cup {r}]
      /\ pos' = [pos EXCEPT ![c] = @ + 1] /\ UNCHANGED <<pc, db, present, met, stored>>
  BY <1>a, Elements DEF TakesCopy, InWork, Ended
<1>b. /\ pos[c] \in 1..Len(ReadsOf[c]) /\ Len(ReadsOf[c]) \in Nat
      /\ c \in Logins => r = Base
  <2>1. pos[c] \in 1..Len(ReadsOf[c]) /\ Len(ReadsOf[c]) \in Nat
    BY Elements DEF TakesCopy
  <2>2. c \in Logins => ReadsOf[c] = <<Base>>
    BY PipelineAssumption DEF PipelineAssumption
  <2> QED BY <2>1, <2>2
<1>c. \A i \in 1..Len(ReadsOf[c]) : i < pos[c] + 1 => i < pos[c] \/ ReadsOf[c][i] = r
  BY <1>0, <1>b
<1> HIDE DEF r
<1>1. PipeTypeOK'
  BY <1>0, <1>a
<1>2. /\ \A d \in Calls : (InWork(d)' <=> InWork(d))
      /\ \A d \in Calls, q \in Records : (Contended(d, q)' <=> Contended(d, q))
      /\ \A d \in Calls, q \in Records : d # c \/ q # r => vals'[d][q] = vals[d][q]
      /\ vals'[c][r] = db[r] /\ have'[c] = have[c] \cup {r}
      /\ \A d \in Calls : d # c => have'[d] = have[d] /\ pos'[d] = pos[d]
      /\ pos'[c] = pos[c] + 1 /\ stored[c] = {}
  BY <1>0, <1>a DEF InWork, Contended, FreshInv
<1>3. MetInv'
  BY <1>0, <1>2, <1>a DEF MetInv
<1>4. FreshInv'
  <2>1. Begun' = Begun
    BY <1>0 DEF Begun
  <2>2. \A d \in Calls, q \in Records :
           /\ q \notin have'[d] => vals'[d][q] = {}
           /\ vals'[d][q] \subseteq Begun
           /\ \A e \in Calls : pc[e] \in {"new", "read"} => e \notin vals'[d][q]
    BY <1>0, <1>2, <1>a DEF FreshInv
  <2> QED BY <1>0, <1>2, <1>a, <2>1, <2>2 DEF FreshInv
<1>5. FirstInv'
  <2>1. \A d \in Logins : pc[d] = "read" /\ Base \in have'[d] => Base \in present
    <3> SUFFICES ASSUME NEW d \in Logins, pc[d] = "read", Base \in have'[d]
                 PROVE  Base \in present
      OBVIOUS
    <3>1. CASE Base \in have[d]
      BY <3>1, <1>a DEF FirstInv, HasBase
    <3>2. CASE Base \notin have[d]
      BY <3>2, <1>0, <1>2, PipelineAssumption DEF PipelineAssumption
    <3> QED BY <3>1, <3>2
  <2>2. \A d \in Logins : pc[d] = "write" => d # c /\ pos'[d] = pos[d] /\ have'[d] = have[d]
    BY <1>0, <1>2, PipelineAssumption DEF PipelineAssumption
  <2>3. \A d \in Calls \ Logins : Grounded(d)' => Base \in present
    <3> SUFFICES ASSUME NEW d \in Calls \ Logins, Grounded(d)'
                 PROVE  Base \in present
      OBVIOUS
    <3>1. CASE Grounded(d)
      BY <3>1, <1>a DEF FirstInv
    <3>2. CASE ~ Grounded(d)
      <4>1. d = c
        BY <3>2, <1>0, <1>2 DEF Grounded
      <4>2. r \in RangeOf(Created)
        BY <3>2, <4>1, <1>0, <1>2, <1>c DEF Grounded
      <4> QED BY <4>2, <1>0, <1>a DEF FirstInv
    <3> QED BY <3>1, <3>2
  <2> QED BY <1>0, <2>1, <2>2, <2>3, <1>a DEF FirstInv, HasBase
<1>6. AbsentInv'
  <2> SUFFICES ASSUME NEW d \in Calls, pc[d] = "read"
               PROVE  AbsentOK(d)'
    BY <1>0 DEF AbsentInv
  <2>1. AbsentOK(d)
    BY <1>a DEF AbsentInv
  <2>2. CASE d = c
    BY <2>1, <2>2, <1>0, <1>2, <1>b, <1>c DEF AbsentOK
  <2>3. CASE d # c
    BY <2>1, <2>3, <1>0, <1>2 DEF AbsentOK
  <2> QED BY <2>2, <2>3
<1>7. CopyInv'
  <2> SUFFICES ASSUME NEW d \in Calls, NEW q \in Records, InWork(d)
               PROVE  CopyOK(d, q)'
    BY <1>2 DEF CopyInv
  <2>1. CASE d = c /\ q = r
    BY <2>1, <1>0, <1>2 DEF CopyOK
  <2>2. CASE ~ (d = c /\ q = r)
    BY <2>2, <1>0, <1>2, <1>a DEF CopyInv, CopyOK
  <2> QED BY <2>1, <2>2
<1>8. WriteInv'
  BY <1>0, <1>2, <1>a DEF WriteInv, WriteOK
<1>9. SeenInv'
  <2> SUFFICES ASSUME NEW e \in Calls, NEW q \in Records
               PROVE  SeenOK(e, q)'
    BY DEF SeenInv
  <2>1. CASE e = c
    BY <2>1, <1>0, <1>2 DEF SeenOK
  <2>2. CASE e # c
    <3>1. SeenOK(e, q)
      BY <1>a DEF SeenInv
    <3> QED BY <3>1, <2>2, <1>0, <1>2 DEF SeenOK
  <2> QED BY <2>1, <2>2
<1> QED BY <1>1, <1>3, <1>4, <1>5, <1>6, <1>7, <1>8, <1>9 DEF IInv

LEMMA FindsNoneKeeps ==
    ASSUME IInv, NEW c \in Calls, FindsNone(c)
    PROVE  IInv'
<1> DEFINE r == ReadsOf[c][pos[c]]
<1> USE DEF PipeTypeOK, RecordsTypeOK
<1>a. PipeTypeOK /\ MetInv /\ FreshInv /\ FirstInv /\ AbsentInv /\ CopyInv /\ WriteInv /\ SeenInv
  BY DEF IInv
<1>0. /\ r \in Records /\ r \notin present /\ pc[c] = "read" /\ pos[c] \in Nat \ {0}
      /\ pos' = [pos EXCEPT ![c] = @ + 1] /\ UNCHANGED <<pc, vals, have, db, present, met, stored>>
  BY <1>a, Elements DEF FindsNone
<1>b. /\ Len(ReadsOf[c]) \in Nat
      /\ \A i \in 1..Len(ReadsOf[c]) : i < pos[c] + 1 => i < pos[c] \/ ReadsOf[c][i] = r
      /\ c \in Logins => r = Base
      /\ c \in Logins \/ r \notin Required
  <2>1. pos[c] \in 1..Len(ReadsOf[c]) /\ Len(ReadsOf[c]) \in Nat /\ (c \in Logins \/ r \notin Required)
    BY Elements DEF FindsNone
  <2>2. c \in Logins => ReadsOf[c] = <<Base>>
    BY PipelineAssumption DEF PipelineAssumption
  <2> QED BY <1>0, <2>1, <2>2
<1> HIDE DEF r
<1>1. PipeTypeOK' /\ pos'[c] = pos[c] + 1 /\ \A d \in Calls : d # c => pos'[d] = pos[d]
  BY <1>0, <1>a
<1>2. MetInv' /\ FreshInv' /\ CopyInv' /\ SeenInv'
  <2>1. /\ \A d \in Calls : (InWork(d)' <=> InWork(d)) /\ Begun' = Begun
        /\ \A d \in Calls, q \in Records : (Contended(d, q)' <=> Contended(d, q))
    BY <1>0 DEF InWork, Begun, Contended
  <2>2. MetInv' /\ CopyInv' /\ SeenInv'
    BY <1>0, <2>1, <1>a DEF MetInv, CopyInv, CopyOK, SeenInv, SeenOK
  <2>3. FreshInv'
    BY <1>0, <1>1, <2>1, <1>a DEF FreshInv
  <2> QED BY <2>2, <2>3
<1>3. FirstInv'
  <2>1. \A d \in Logins : pc[d] = "write" => pos'[d] = pos[d]
    BY <1>0, <1>1, PipelineAssumption DEF PipelineAssumption
  <2>2. \A d \in Calls \ Logins : Grounded(d)' => Grounded(d)
    BY <1>0, <1>1, <1>b DEF Grounded
  <2> QED BY <1>0, <2>1, <2>2, <1>a DEF FirstInv, HasBase
<1>4. AbsentInv'
  <2> SUFFICES ASSUME NEW d \in Calls, pc[d] = "read"
               PROVE  AbsentOK(d)'
    BY <1>0 DEF AbsentInv
  <2>1. AbsentOK(d)
    BY <1>a DEF AbsentInv
  <2>2. CASE d = c
    <3>1. \A e \in Calls : r \notin stored[e]
      BY <1>0, <1>a DEF FirstInv, HasBase
    <3>2. c \in Logins => \A q \in RangeOf(Created), e \in Calls : q \notin stored[e]
      BY <1>0, <1>b, <1>a, Elements DEF FirstInv, HasBase
    <3> QED BY <2>1, <2>2, <3>1, <3>2, <1>0, <1>1, <1>b DEF AbsentOK
  <2>3. CASE d # c
    BY <2>1, <2>3, <1>0, <1>1 DEF AbsentOK
  <2> QED BY <2>2, <2>3
<1>5. WriteInv'
  BY <1>0, <1>1, <1>a DEF WriteInv, WriteOK
<1> QED BY <1>1, <1>2, <1>3, <1>4, <1>5 DEF IInv

LEMMA AppliesKeeps ==
    ASSUME IInv, NEW c \in Calls, NEW touched \in SUBSET Records, Applies(c, touched)
    PROVE  IInv'
<1> USE DEF PipeTypeOK, RecordsTypeOK
<1>a. PipeTypeOK /\ MetInv /\ FreshInv /\ FirstInv /\ AbsentInv /\ CopyInv /\ WriteInv /\ SeenInv
  BY DEF IInv
<1>0. /\ pc[c] = "read" /\ InWork(c) /\ pos[c] > Len(ReadsOf[c])
      /\ touched \subseteq RangeOf(WritesOf[c])
      /\ c \in Logins => Base \notin have[c] /\ touched = RangeOf(Created)
      /\ pc' = [pc EXCEPT ![c] = "write"] /\ pos' = [pos EXCEPT ![c] = 1]
      /\ vals' = [vals EXCEPT ![c] = [r \in Records |-> IF r \in touched THEN vals[c][r] \cup {c} ELSE vals[c][r]]]
      /\ have' = [have EXCEPT ![c] = @ \cup touched]
      /\ UNCHANGED <<db, present, met, stored>>
  BY <1>a DEF Applies, Apply, AllRead, InWork, Ended
<1>1. PipeTypeOK'
  BY <1>0, <1>a
<1>2. /\ \A d \in Calls : (InWork(d)' <=> InWork(d))
      /\ \A d \in Calls, q \in Records : (Contended(d, q)' <=> Contended(d, q))
      /\ \A d \in Calls : d # c => vals'[d] = vals[d] /\ have'[d] = have[d] /\ pos'[d] = pos[d] /\ pc'[d] = pc[d]
      /\ \A q \in Records : vals'[c][q] = IF q \in touched THEN vals[c][q] \cup {c} ELSE vals[c][q]
      /\ have'[c] = have[c] \cup touched /\ pos'[c] = 1 /\ pc'[c] = "write"
      /\ stored[c] = {} /\ \A q \in Records : c \notin vals[c][q]
  <2>1. \A d \in Calls : d # c => pc'[d] = pc[d]
    BY <1>0, <1>a
  <2>2. pc'[c] = "write" /\ InWork(c)'
    BY <1>0, <1>a DEF InWork, Ended
  <2>3. \A d \in Calls : (InWork(d)' <=> InWork(d))
    BY <2>1, <2>2, <1>0 DEF InWork
  <2>4. \A d \in Calls, q \in Records : (Contended(d, q)' <=> Contended(d, q))
    BY <1>0 DEF Contended
  <2>5. /\ \A d \in Calls : d # c => vals'[d] = vals[d] /\ have'[d] = have[d] /\ pos'[d] = pos[d]
        /\ \A q \in Records : vals'[c][q] = IF q \in touched THEN vals[c][q] \cup {c} ELSE vals[c][q]
        /\ have'[c] = have[c] \cup touched /\ pos'[c] = 1
    BY <1>0, <1>a
  <2>6. stored[c] = {} /\ \A q \in Records : c \notin vals[c][q]
    BY <1>0, <1>a DEF FreshInv
  <2> QED BY <2>1, <2>2, <2>3, <2>4, <2>5, <2>6
\* What c makes without having read it has been stored only by calls it met.
<1>3. \A q \in touched : q \notin have[c] => \A d \in Calls : q \in stored[d] => d \in met[c]
  <2>1. AbsentOK(c)
    BY <1>0, <1>a DEF AbsentInv
  <2>2. CASE c \in Logins
    <3>1. ReadsOf[c] = <<Base>>
      BY <2>2, PipelineAssumption DEF PipelineAssumption
    <3>2. pos[c] > 1
      BY <3>1, <1>0
    <3> QED BY <2>1, <2>2, <3>2, <1>0 DEF AbsentOK
  <2>3. CASE c \notin Logins
    <3>1. touched \subseteq RangeOf(ReadsOf[c])
      BY <2>3, <1>0, PipelineAssumption DEF PipelineAssumption
    <3>2. \A q \in touched : \E i \in 1..Len(ReadsOf[c]) : q = ReadsOf[c][i] /\ i < pos[c]
      <4>1. Len(ReadsOf[c]) \in Nat /\ pos[c] \in Nat /\ pos[c] > Len(ReadsOf[c])
        BY <1>0, <1>a, Elements
      <4> QED BY <3>1, <4>1 DEF RangeOf
    <3> QED BY <2>1, <3>2, <1>0 DEF AbsentOK
  <2> QED BY <2>2, <2>3
<1>4. MetInv'
  BY <1>0, <1>2, <1>a DEF MetInv
<1>5. FreshInv'
  <2>1. Begun' = Begun /\ c \in Begun
    BY <1>0, <1>2 DEF Begun
  <2>2. \A d \in Calls, q \in Records :
           /\ q \notin have'[d] => vals'[d][q] = {}
           /\ vals'[d][q] \subseteq Begun
           /\ \A e \in Calls : e # c /\ pc[e] \in {"new", "read"} => e \notin vals'[d][q]
    BY <1>0, <1>2, <1>a, <2>1 DEF FreshInv
  <2> QED BY <1>0, <1>2, <1>a, <2>1, <2>2 DEF FreshInv
<1>6. FirstInv'
  <2>1. \A d \in Logins : d \in Calls
    BY PipelineAssumption DEF PipelineAssumption
  <2>2. \A d \in Logins : pc'[d] = "write" => RangeOf(Created) \subseteq have'[d]
    BY <1>0, <1>2, <2>1, <1>a DEF FirstInv, HasBase
  <2>3. \A d \in Calls \ Logins : Grounded(d)' => Base \in present'
    <3> SUFFICES ASSUME NEW d \in Calls \ Logins, Grounded(d)'
                 PROVE  Grounded(d)
      BY <1>0, <1>a DEF FirstInv
    <3>1. CASE d # c
      BY <3>1, <1>2 DEF Grounded
    <3>2. CASE d = c
      <4>1. RangeOf(ReadsOf[c]) \cap RangeOf(Created) \cap Required # {}
        BY <3>2, <1>2, PipelineAssumption DEF PipelineAssumption, Grounded
      <4>2. PICK i \in 1..Len(ReadsOf[c]) : ReadsOf[c][i] \in RangeOf(Created) \cap Required
        BY <4>1 DEF RangeOf
      <4>3. i < pos[c]
        BY <1>0, <1>a, Elements
      <4> QED BY <3>2, <4>2, <4>3, <1>0 DEF Grounded
    <3> QED BY <3>1, <3>2
  <2>4. \A d \in Logins : HasBase(d)' => Base \in present'
    <3> SUFFICES ASSUME NEW d \in Logins, HasBase(d)'
                 PROVE  Base \in present
      BY <1>0
    <3>1. d # c
      BY <1>2 DEF HasBase
    <3> QED BY <3>1, <2>1, <1>2, <1>a DEF FirstInv, HasBase
  <2>5. /\ \A d \in Calls, q \in Records : q \in stored'[d] => q \in present'
        /\ \A q \in Records : (\A d \in Calls : q \notin stored'[d]) => db'[q] = {}
        /\ \A q \in RangeOf(Created) : q \in present' => Base \in present'
        /\ LoggedIn # {} => Base \in present'
    BY <1>0, <1>a DEF FirstInv, HasBase
  <2> QED BY <2>2, <2>3, <2>4, <2>5 DEF FirstInv
<1>7. AbsentInv'
  BY <1>0, <1>2, <1>a DEF AbsentInv, AbsentOK
<1>8. CopyInv'
  <2> SUFFICES ASSUME NEW d \in Calls, NEW q \in Records, InWork(d), q \in have'[d], ~ Contended(d, q)
               PROVE  vals'[d][q] \in {db[q], db[q] \cup {d}}
    BY <1>0, <1>2 DEF CopyInv, CopyOK
  <2>1. CASE q \in have[d]
    <3>1. vals[d][q] \in {db[q], db[q] \cup {d}}
      BY <2>1, <1>a DEF CopyInv, CopyOK
    <3>2. vals'[d][q] \in {vals[d][q], vals[d][q] \cup {d}}
      BY <1>2
    <3> QED BY <3>1, <3>2
  <2>2. CASE q \notin have[d]
    <3>1. d = c /\ q \in touched
      BY <2>2, <1>2
    <3>2. \A e \in Calls : q \notin stored[e]
      BY <3>1, <2>2, <1>3 DEF Contended
    <3>3. db[q] = {} /\ vals[c][q] = {}
      BY <3>1, <3>2, <2>2, <1>a DEF FirstInv, HasBase, FreshInv
    <3> QED BY <3>1, <3>3, <1>2
  <2> QED BY <2>1, <2>2
<1>9. WriteInv'
  <2> SUFFICES ASSUME NEW d \in Calls, pc'[d] \in {"write", "ok"}
               PROVE  WriteOK(d)'
    BY DEF WriteInv
  <2>1. CASE d = c
    BY <2>1, <1>0, <1>2, Elements DEF WriteOK
  <2>2. CASE d # c
    BY <2>2, <1>0, <1>2, <1>a DEF WriteInv, WriteOK
  <2> QED BY <2>1, <2>2
<1>10. SeenInv'
  <2> SUFFICES ASSUME NEW e \in Calls, NEW q \in Records, q \in stored[e], e \in vals'[e][q], ~ Contended(e, q)
               PROVE  /\ e \in db[q]
                      /\ \A d \in Calls : d # e /\ InWork(d) /\ d \notin met[e] /\ q \in have'[d] => e \in vals'[d][q]
    BY <1>0, <1>2 DEF SeenInv, SeenOK
  <2>1. e # c /\ e \in vals[e][q]
    BY <1>2
  <2>2. /\ e \in db[q]
        /\ \A d \in Calls : d # e /\ InWork(d) /\ d \notin met[e] /\ q \in have[d] => e \in vals[d][q]
    BY <2>1, <1>a DEF SeenInv, SeenOK
  <2>3. ASSUME NEW d \in Calls, d # e, InWork(d), d \notin met[e], q \in have'[d]
        PROVE  q \in have[d]
    BY <2>3, <1>2, <1>3, <1>a DEF MetInv
  <2>4. \A d \in Calls : vals[d][q] \subseteq vals'[d][q]
    BY <1>2
  <2> QED BY <2>2, <2>3, <2>4
<1> QED BY <1>1, <1>4, <1>5, <1>6, <1>7, <1>8, <1>9, <1>10 DEF IInv

LEMMA StoresKeeps ==
    ASSUME IInv, NEW c \in Calls, Stores(c)
    PROVE  IInv'
<1> DEFINE r == WritesOf[c][pos[c]]
<1> USE DEF PipeTypeOK, RecordsTypeOK
<1>a. PipeTypeOK /\ MetInv /\ FreshInv /\ FirstInv /\ AbsentInv /\ CopyInv /\ WriteInv /\ SeenInv
  BY DEF IInv
<1>0. /\ r \in Records /\ r \in have[c] /\ pc[c] = "write" /\ InWork(c) /\ pos[c] \in Nat \ {0}
      /\ db' = [db EXCEPT ![r] = vals[c][r]] /\ present' = present \cup {r}
      /\ stored' = [stored EXCEPT ![c] = @ \cup {r}] /\ UNCHANGED <<vals, have, met>>
      /\ \/ pc' = pc /\ pos' = [pos EXCEPT ![c] = @ + 1]
         \/ pos' = pos /\ \E how \in {"error", "silent"} : pc' = [pc EXCEPT ![c] = how]
  BY <1>a, Elements DEF Stores, Stored, InWork, Ended, EndAs
<1>b. /\ Len(WritesOf[c]) \in Nat
      /\ \A i \in 1..Len(WritesOf[c]) : i < pos[c] + 1 => i < pos[c] \/ WritesOf[c][i] = r
      /\ c \in Logins => r \in RangeOf(Created) /\ (pos[c] = 1 => r = Base)
  <2>1. pos[c] \in 1..Len(WritesOf[c]) /\ Len(WritesOf[c]) \in Nat
    BY Elements DEF Stores
  <2>2. c \in Logins => WritesOf[c] = Created
    BY PipelineAssumption DEF PipelineAssumption
  <2> QED BY <1>0, <2>1, <2>2 DEF RangeOf, Base
<1>d. r \in RangeOf(WritesOf[c])
  BY Elements DEF Stores
<1> HIDE DEF r
<1>1. PipeTypeOK'
  <2>1. pc' \in [Calls -> {"new", "read", "write"} \cup Ended]
    BY <1>0, <1>a DEF Ended
  <2>2. pos' \in [Calls -> Nat \ {0}]
    <3>1. pos \in [Calls -> Nat \ {0}] /\ (pos' = pos \/ pos' = [pos EXCEPT ![c] = @ + 1])
      BY <1>0, <1>a
    <3> QED BY <3>1
  <2>3. db' \in [Records -> SUBSET Calls] /\ present' \subseteq Records /\ stored' \in [Calls -> SUBSET Records]
    BY <1>0, <1>a
  <2> QED BY <1>0, <1>a, <2>1, <2>2, <2>3
<1>2. /\ \A d \in Calls : InWork(d)' => InWork(d)
      /\ \A d \in Calls : d # c => pc'[d] = pc[d] /\ pos'[d] = pos[d] /\ stored'[d] = stored[d]
      /\ \/ pc'[c] = "write" /\ pos'[c] = pos[c] + 1
         \/ pc'[c] \in {"error", "silent"} /\ pos'[c] = pos[c]
      /\ stored'[c] = stored[c] \cup {r}
      /\ \A q \in Records : db'[q] = IF q = r THEN vals[c][r] ELSE db[q]
  <2>1. /\ \A d \in Calls : d # c => pc'[d] = pc[d] /\ pos'[d] = pos[d] /\ stored'[d] = stored[d]
        /\ \/ pc'[c] = "write" /\ pos'[c] = pos[c] + 1
           \/ pc'[c] \in {"error", "silent"} /\ pos'[c] = pos[c]
        /\ stored'[c] = stored[c] \cup {r}
        /\ \A q \in Records : db'[q] = IF q = r THEN vals[c][r] ELSE db[q]
    BY <1>0, <1>a
  <2>2. \A d \in Calls : InWork(d)' => InWork(d)
    BY <1>0, <2>1 DEF InWork
  <2> QED BY <2>1, <2>2
<1>3. /\ \A d \in Calls, q \in Records :
            (\A e \in met[d] : q \notin stored'[e]) => ~ Contended(d, q) /\ (c \in met[d] => q # r)
      /\ \A d \in Calls : d # c /\ InWork(d) => c \in met[d] /\ d \in met[c]
  <2>1. \A d \in Calls : met[d] \subseteq Calls /\ stored[d] \subseteq stored'[d]
    BY <1>0, <1>2, <1>a
  <2>2. \A d \in Calls, q \in Records : (\A e \in met[d] : q \notin stored'[e]) => ~ Contended(d, q)
    BY <2>1 DEF Contended
  <2>3. r \in stored'[c]
    BY <1>2
  <2> QED BY <2>2, <2>3, <1>0, <1>a DEF MetInv
<1>4. MetInv'
  <2>1. \A d, e \in Calls : d \in met'[e] => e \in met'[d]
    BY <1>0, <1>a DEF MetInv
  <2> QED BY <2>1, <1>0, <1>2, <1>a DEF MetInv
<1>5. FreshInv'
  <2>1. Begun' = Begun
    BY <1>0, <1>2 DEF Begun
  <2>2. \A d \in Calls : pc'[d] \in {"new", "read"} => d # c /\ pc[d] \in {"new", "read"}
    BY <1>2
  <2>3. \A d \in Calls, q \in Records : d \in db'[q] => d \in db[q] \/ d \in vals[c][r]
    BY <1>2
  <2> QED BY <1>0, <1>2, <1>a, <2>1, <2>2, <2>3 DEF FreshInv
<1>6. FirstInv'
  <2>1. \A d \in Calls, q \in Records : q \in stored'[d] => q \in present'
    BY <1>0, <1>2, <1>a DEF FirstInv, HasBase
  <2>2. \A q \in Records : (\A d \in Calls : q \notin stored'[d]) => db'[q] = {}
    <3> SUFFICES ASSUME NEW q \in Records, \A d \in Calls : q \notin stored'[d]
                 PROVE  db'[q] = {}
      OBVIOUS
    <3>1. q # r /\ \A d \in Calls : q \notin stored[d]
      BY <1>0, <1>2
    <3> QED BY <3>1, <1>2, <1>a DEF FirstInv, HasBase
  <2>3. r \in RangeOf(Created) \/ c \in Logins => Base \in present'
    <3>1. CASE c \notin Logins /\ r \in RangeOf(Created)
      <4>1. r \in RangeOf(WritesOf[c])
        BY <1>d
      <4> QED BY <3>1, <4>1, <1>0, <1>a DEF FirstInv, Grounded
    <3>2. CASE c \in Logins /\ pos[c] = 1
      BY <3>2, <1>0, <1>b
    <3>3. CASE c \in Logins /\ pos[c] > 1
      BY <3>3, <1>0, <1>a DEF FirstInv, HasBase
    <3> QED BY <3>1, <3>2, <3>3, <1>0
  <2>5. \A d \in Calls : Grounded(d)' => Grounded(d)
    <3>1. \A d \in Calls : d # c => (Grounded(d)' <=> Grounded(d))
      BY <1>2 DEF Grounded
    <3>2. Grounded(c)' => Grounded(c)
      BY <1>0, <1>2 DEF Grounded
    <3> QED BY <3>1, <3>2
  <2>6. \A d \in Logins : HasBase(d)' => d = c \/ HasBase(d)
    BY <1>0, <1>2, PipelineAssumption DEF PipelineAssumption, HasBase
  <2>7. \A q \in RangeOf(Created) : q \in present' => Base \in present'
    BY <2>3, <1>0, <1>a DEF FirstInv
  <2>8. /\ LoggedIn # {} => Base \in present'
        /\ \A d \in Calls \ Logins : Grounded(d)' => Base \in present'
        /\ \A d \in Logins : HasBase(d)' => Base \in present'
    BY <2>3, <2>5, <2>6, <1>0, <1>a DEF FirstInv
  <2>4. \A d \in Logins : pc'[d] = "write" => RangeOf(Created) \subseteq have'[d]
    <3>1. \A d \in Logins : pc'[d] = "write" => pc[d] = "write"
      BY <1>0, <1>2, PipelineAssumption DEF PipelineAssumption
    <3> QED BY <3>1, <1>0, <1>a DEF FirstInv, HasBase
  <2> QED BY <2>1, <2>2, <2>4, <2>7, <2>8 DEF FirstInv
<1>7. AbsentInv'
  <2> SUFFICES ASSUME NEW d \in Calls, pc'[d] = "read"
               PROVE  AbsentOK(d)'
    BY DEF AbsentInv
  <2>1. d # c /\ pc[d] = "read" /\ InWork(d) /\ c \in met[d] /\ AbsentOK(d)
    BY <1>0, <1>2, <1>3, <1>a DEF InWork, Ended, AbsentInv
  <2>2. \A e \in Calls, q \in Records : q \in stored'[e] => e = c \/ q \in stored[e]
    BY <1>2
  <2>3. /\ Len(ReadsOf[d]) \in Nat /\ \A i \in 1..Len(ReadsOf[d]) : ReadsOf[d][i] \in Records
        /\ RangeOf(Created) \subseteq Records
    BY Elements
  <2> QED BY <2>1, <2>2, <2>3, <1>0, <1>2 DEF AbsentOK
<1>8. CopyInv'
  <2> SUFFICES ASSUME NEW d \in Calls, NEW q \in Records, InWork(d), q \in have[d],
                      \A e \in met[d] : q \notin stored'[e]
               PROVE  vals[d][q] \in {db'[q], db'[q] \cup {d}}
    BY <1>0, <1>2 DEF CopyInv, CopyOK, Contended
  <2>1. CASE q = r /\ d = c
    BY <2>1, <1>2
  <2>2. CASE q = r /\ d # c
    BY <2>2, <1>2, <1>3
  <2>3. CASE q # r
    BY <2>3, <1>2, <1>3, <1>a DEF CopyInv, CopyOK
  <2> QED BY <2>1, <2>2, <2>3
<1>9. WriteInv'
  <2> SUFFICES ASSUME NEW d \in Calls, pc'[d] \in {"write", "ok"}
               PROVE  WriteOK(d)'
    BY DEF WriteInv
  <2>1. pc[d] = pc'[d] /\ WriteOK(d)
    BY <1>0, <1>2, <1>a DEF WriteInv
  <2>2. CASE d = c
    <3>1. pos'[c] = pos[c] + 1 /\ pc'[c] = "write"
      BY <2>2, <1>2
    <3> QED BY <2>1, <2>2, <3>1, <1>0, <1>2, <1>b DEF WriteOK
  <2>3. CASE d # c
    BY <2>1, <2>3, <1>0, <1>2 DEF WriteOK
  <2> QED BY <2>2, <2>3
<1>10. SeenInv'
  <2> SUFFICES ASSUME NEW e \in Calls, NEW q \in Records, q \in stored'[e], e \in vals[e][q],
                      \A d \in met[e] : q \notin stored'[d]
               PROVE  /\ e \in db'[q]
                      /\ \A d \in Calls : d # e /\ InWork(d) /\ d \notin met[e] /\ q \in have[d] => e \in vals[d][q]
    BY <1>0, <1>2 DEF SeenInv, SeenOK, Contended
  <2>1. ~ Contended(e, q)
    BY <1>3
  <2>2. CASE e = c /\ q = r
    BY <2>2, <1>2, <1>3
  <2>3. CASE ~ (e = c /\ q = r)
    <3>1. q \in stored[e]
      BY <2>3, <1>2
    <3>2. /\ e \in db[q]
          /\ \A d \in Calls : d # e /\ InWork(d) /\ d \notin met[e] /\ q \in have[d] => e \in vals[d][q]
      BY <2>1, <3>1, <1>a DEF SeenInv, SeenOK
    <3>3. q = r => e # c /\ c \notin met[e]
      BY <2>3, <1>3
    <3>4. e \in db'[q]
      BY <3>2, <3>3, <1>0, <1>2
    <3> QED BY <3>2, <3>4, <1>2
  <2> QED BY <2>2, <2>3
<1> QED BY <1>1, <1>4, <1>5, <1>6, <1>7, <1>8, <1>9, <1>10 DEF IInv

LEMMA PassesOverKeeps ==
    ASSUME IInv, NEW c \in Calls, PassesOver(c)
    PROVE  IInv'
<1> DEFINE r == WritesOf[c][pos[c]]
<1> USE DEF PipeTypeOK, RecordsTypeOK
<1>a. PipeTypeOK /\ MetInv /\ FreshInv /\ FirstInv /\ AbsentInv /\ CopyInv /\ WriteInv /\ SeenInv
  BY DEF IInv
<1>0. /\ r \notin have[c] /\ pc[c] = "write" /\ pos[c] \in 1..Len(WritesOf[c])
      /\ pos' = [pos EXCEPT ![c] = @ + 1] /\ UNCHANGED <<pc, vals, have, db, present, met, stored>>
  BY DEF PassesOver
<1>b. /\ Len(WritesOf[c]) \in Nat
      /\ \A i \in 1..Len(WritesOf[c]) : i < pos[c] + 1 => i < pos[c] \/ WritesOf[c][i] = r
      /\ c \notin Logins
  <2>1. Len(WritesOf[c]) \in Nat /\ r \in RangeOf(WritesOf[c])
    BY <1>0, Elements
  <2>2. c \in Logins => WritesOf[c] = Created
    BY PipelineAssumption DEF PipelineAssumption
  <2>3. c \notin Logins
    BY <2>1, <2>2, <1>0, <1>a DEF FirstInv
  <2> QED BY <2>1, <2>3, <1>0
<1> HIDE DEF r
<1>1. PipeTypeOK'
  BY <1>0, <1>a
<1>2. /\ \A d \in Calls : d # c => pos'[d] = pos[d]
      /\ pos'[c] = pos[c] + 1
  BY <1>0, <1>a
<1>3. MetInv' /\ CopyInv' /\ SeenInv'
  BY <1>0, <1>a DEF MetInv, InWork, CopyInv, CopyOK, SeenInv, SeenOK, Contended
<1>4. FreshInv'
  <2>1. Begun' = Begun
    BY <1>0 DEF Begun
  <2> QED BY <1>0, <1>2, <2>1, <1>a DEF FreshInv
<1>5. FirstInv'
  <2>1. \A d \in Logins : HasBase(d)' => HasBase(d)
    BY <1>0, <1>2, <1>b, PipelineAssumption DEF HasBase, PipelineAssumption
  <2>2. \A d \in Calls : Grounded(d)' => Grounded(d)
    BY <1>0, <1>2 DEF Grounded
  <2> QED BY <1>0, <2>1, <2>2, <1>a DEF FirstInv
<1>6. AbsentInv'
  BY <1>0, <1>2, <1>a DEF AbsentInv, AbsentOK
<1>7. WriteInv'
  <2> SUFFICES ASSUME NEW d \in Calls, pc[d] \in {"write", "ok"}
               PROVE  WriteOK(d)'
    BY <1>0 DEF WriteInv
  <2>1. WriteOK(d)
    BY <1>a DEF WriteInv
  <2>2. CASE d = c
    BY <2>1, <2>2, <1>0, <1>2, <1>b DEF WriteOK
  <2>3. CASE d # c
    BY <2>1, <2>3, <1>0, <1>2 DEF WriteOK
  <2> QED BY <2>2, <2>3
<1> QED BY <1>1, <1>3, <1>4, <1>5, <1>6, <1>7 DEF IInv

LEMMA EndsKeeps ==
    ASSUME IInv, NEW c \in Calls, NEW how \in Ended, Ends(c, how)
    PROVE  IInv'
<1> USE DEF PipeTypeOK, RecordsTypeOK
<1>a. PipeTypeOK /\ MetInv /\ FreshInv /\ FirstInv /\ AbsentInv /\ CopyInv /\ WriteInv /\ SeenInv
  BY DEF IInv
<1>0. /\ InWork(c) /\ pc' = [pc EXCEPT ![c] = how]
      /\ how = "ok" => \/ pc[c] = "write" /\ pos[c] > Len(WritesOf[c])
                       \/ c \in Logins /\ pc[c] = "read" /\ Base \in have[c]
      /\ UNCHANGED <<pos, vals, have, db, present, met, stored>>
  BY DEF Ends, EndAs, AllWritten, AllRead, copies
<1>1. PipeTypeOK'
  BY <1>0, <1>a
<1>2. /\ pc'[c] = how /\ how \notin {"new", "read", "write"}
      /\ \A d \in Calls : d # c => pc'[d] = pc[d]
      /\ \A d \in Calls : InWork(d)' => InWork(d)
  BY <1>0, <1>a DEF InWork, Ended
<1>3. MetInv' /\ CopyInv' /\ SeenInv'
  BY <1>0, <1>2, <1>a DEF MetInv, CopyInv, CopyOK, SeenInv, SeenOK, Contended
<1>4. FreshInv'
  <2>1. Begun' = Begun
    BY <1>0, <1>2 DEF Begun, InWork
  <2> QED BY <1>0, <1>2, <2>1, <1>a DEF FreshInv
<1>5. FirstInv'
  <2>1. c \in Logins => WritesOf[c] = Created /\ Len(Created) \in Nat /\ Len(Created) > 0
    BY PipelineAssumption DEF PipelineAssumption
  <2>2. \A d \in Logins : HasBase(d)' => HasBase(d)
    <3> SUFFICES ASSUME NEW d \in Logins, d \in Calls, HasBase(d)'
                 PROVE  HasBase(d)
      BY PipelineAssumption DEF PipelineAssumption
    <3>1. CASE d = c
      BY <3>1, <2>1, <1>0, <1>2, <1>a DEF HasBase
    <3>2. CASE d # c
      BY <3>2, <1>0, <1>2 DEF HasBase
    <3> QED BY <3>1, <3>2
  <2>3. \A d \in Calls : (pc'[d] # "new" => pc[d] # "new") /\ (pc'[d] = "write" => pc[d] = "write")
    BY <1>0, <1>2 DEF InWork
  <2>4. \A d \in Logins : d \in Calls
    BY PipelineAssumption DEF PipelineAssumption
  <2>5. \A d \in Calls : Grounded(d)' => Grounded(d)
    <3>1. ~ Grounded(c)'
      BY <1>2 DEF Grounded
    <3> QED BY <3>1, <1>0, <1>2 DEF Grounded
  <2> QED BY <1>0, <2>2, <2>3, <2>4, <2>5, <1>a DEF FirstInv
<1>6. AbsentInv'
  BY <1>0, <1>2, <1>a DEF AbsentInv, AbsentOK
<1>7. WriteInv'
  <2> SUFFICES ASSUME NEW d \in Calls, pc'[d] \in {"write", "ok"}
               PROVE  WriteOK(d)'
    BY DEF WriteInv
  <2>1. CASE d # c
    BY <2>1, <1>0, <1>2, <1>a DEF WriteInv, WriteOK
  <2>2. CASE d = c /\ pc[c] = "read"
    BY <2>2, <1>0, <1>2, <1>a DEF FreshInv, WriteOK
  <2>3. CASE d = c /\ pc[c] = "write"
    <3>1. pos[c] > Len(WritesOf[c]) /\ WriteOK(c) /\ how = "ok"
      BY <2>3, <1>0, <1>2, <1>a DEF WriteInv
    <3>2. \A q \in Records : c \in vals[c][q] => q \in stored[c]
      <4> SUFFICES ASSUME NEW q \in Records, c \in vals[c][q]
                   PROVE  q \in stored[c]
        OBVIOUS
      <4>1. PICK i \in 1..Len(WritesOf[c]) : q = WritesOf[c][i]
        BY <3>1 DEF WriteOK, RangeOf
      <4>2. i < pos[c]
        BY <3>1, <1>a, Elements
      <4> QED BY <4>1, <4>2, <3>1, <2>3 DEF WriteOK
    <3> QED BY <2>3, <3>1, <3>2, <1>0, <1>2 DEF WriteOK
  <2> QED BY <2>1, <2>2, <2>3, <1>0, <1>2
<1> QED BY <1>1, <1>3, <1>4, <1>5, <1>6, <1>7 DEF IInv

LEMMA InitHolds == PipeInit => IInv
<1> SUFFICES ASSUME PipeInit PROVE IInv
  OBVIOUS
<1>1. PipeTypeOK
  BY DEF PipeInit, PipeTypeOK, RecordsTypeOK, Ended
<1>2. MetInv /\ FreshInv /\ CopyInv /\ WriteInv /\ SeenInv
  BY DEF PipeInit, MetInv, FreshInv, CopyInv, WriteInv, SeenInv, SeenOK, InWork
<1>3. FirstInv
  BY Elements, PipelineAssumption DEF PipeInit, FirstInv, HasBase, Grounded, PipelineAssumption, RangeOf, Base
<1>4. AbsentInv
  BY DEF PipeInit, AbsentInv
<1> QED BY <1>1, <1>2, <1>3, <1>4 DEF IInv

LEMMA Inductive == IInv /\ [PipeNext]_pipeVars => IInv'
<1> SUFFICES ASSUME IInv, [PipeNext]_pipeVars
             PROVE  IInv'
  OBVIOUS
<1>1. CASE PipeNext
  <2> PICK c \in Calls : CallStep(c)
    BY <1>1 DEF PipeNext
  <2> QED BY StepCases, BeginKeeps, TakesCopyKeeps, FindsNoneKeeps, AppliesKeeps, StoresKeeps,
             PassesOverKeeps, EndsKeeps
<1>2. CASE UNCHANGED pipeVars
  <2>1. PipeTypeOK' /\ MetInv' /\ FreshInv'
    BY <1>2 DEF pipeVars, copies, IInv, PipeTypeOK, RecordsTypeOK, MetInv, FreshInv, Begun, InWork
  <2>2. FirstInv' /\ AbsentInv'
    BY <1>2 DEF pipeVars, copies, IInv, FirstInv, HasBase, Grounded, AbsentInv, AbsentOK
  <2>3. CopyInv' /\ SeenInv'
    BY <1>2 DEF pipeVars, copies, IInv, InWork, CopyInv, CopyOK, Contended, SeenInv, SeenOK
  <2>4. WriteInv'
    BY <1>2 DEF pipeVars, copies, IInv, WriteInv, WriteOK
  <2> QED BY <2>1, <2>2, <2>3, <2>4 DEF IInv
<1> QED BY <1>1, <1>2

LEMMA Invariant == PipeSpec => []IInv
BY InitHolds, Inductive, PTL DEF PipeSpec

-----------------------------------------------------------------------------
(* The theorems. *)

\* Copies, records and the history have their types in every reachable state.
THEOREM PipeTypes == PipeSpec => []PipeTypeOK
<1>1. IInv => PipeTypeOK
  BY DEF IInv
<1> QED BY Invariant, <1>1, PTL

\* An answered call's changes are in Redis, or a call it met has written the record
\* (agent_handle.js:253): the last write is done before the answer goes out.
THEOREM AnsweredStored == PipeSpec => []AnsweredIsStored
<1>1. IInv => AnsweredIsStored
  <2> SUFFICES ASSUME IInv, NEW c \in Calls, pc[c] = "ok", NEW r \in Records, c \in vals[c][r]
               PROVE  c \in db[r] \/ \E d \in met[c] : r \in stored[d]
    BY DEF AnsweredIsStored
  <2>1. r \in stored[c]
    BY DEF IInv, WriteInv, WriteOK
  <2> QED BY <2>1 DEF IInv, SeenInv, SeenOK, Contended
<1> QED BY Invariant, <1>1, PTL

\* However many logins create the same player, and whatever is called after a login that
\* has failed (conn_imp.js:108), the base record is the first to exist
\* (player_handle.js:324): game functions write no record of a player without one.
THEOREM BaseRecordFirst == PipeSpec => []BaseFirst
<1>1. IInv => BaseFirst
  <2> SUFFICES ASSUME IInv, Base \notin present, NEW r \in RangeOf(Created)
               PROVE  db[r] = {}
    BY DEF BaseFirst
  <2>1. r \in Records
    BY PipelineAssumption DEF PipelineAssumption, RangeOf
  <2>2. \A c \in Calls : r \notin stored[c]
    BY <2>1 DEF IInv, FirstInv
  <2> QED BY <2>1, <2>2 DEF IInv, FirstInv
<1> QED BY Invariant, <1>1, PTL

-----------------------------------------------------------------------------
(* Refinement. *)

Over == {c \in Calls : pc[c] \in Ended}

LEMMA StoreStart == PipeInit => Store!Init
BY DEF PipeInit, Store!Init, Ended

LEMMA BeginIsBegin ==
    ASSUME IInv, NEW c \in Calls, Begin(c)
    PROVE  Store!Begin(c)
<1>0. /\ pc \in [Calls -> {"new", "read", "write"} \cup Ended]
      /\ pc[c] = "new" /\ pc' = [pc EXCEPT ![c] = "read"]
      /\ met' = [d \in Calls |-> IF d = c THEN {e \in Calls : InWork(e)}
                               ELSE IF InWork(d) THEN met[d] \cup {c} ELSE met[d]]
      /\ UNCHANGED <<db, stored>>
  BY DEF IInv, PipeTypeOK, Begin, Enter
<1>1. {e \in Calls : InWork(e)} = Begun \ Over
  BY DEF InWork, Begun, Over
<1>2. \A d \in Calls : (InWork(d) <=> d \in Begun \ Over)
  BY <1>1
<1>3. Begun' = Begun \cup {c} /\ Over' = Over /\ c \notin Begun
  BY <1>0 DEF Begun, Over, Ended
<1> QED BY <1>0, <1>1, <1>2, <1>3 DEF Store!Begin, Store!InWork, Begun, Over

LEMMA StoresIsStore ==
    ASSUME IInv, NEW c \in Calls, Stores(c)
    PROVE  \E r \in Records : Store!Store(c, r) /\ (UNCHANGED Over \/ Store!End(c))
<1> DEFINE r == WritesOf[c][pos[c]]
<1>0. /\ PipeTypeOK /\ r \in Records /\ r \in have[c] /\ pc[c] = "write" /\ InWork(c)
      /\ db' = [db EXCEPT ![r] = vals[c][r]]
      /\ stored' = [stored EXCEPT ![c] = @ \cup {r}] /\ UNCHANGED met
      /\ pc' = pc \/ \E how \in {"error", "silent"} : pc' = [pc EXCEPT ![c] = how]
  BY Elements DEF IInv, Stores, Stored, InWork, Ended, EndAs
<1> HIDE DEF r
<1>1. Begun' = Begun /\ (Over' = Over \/ Over' = Over \cup {c}) /\ c \in Begun \ Over
  BY <1>0 DEF Begun, Over, Ended, PipeTypeOK
<1>2. vals[c][r] \in IF Contended(c, r) THEN SUBSET Begun ELSE {db[r], db[r] \cup {c}}
  <2>1. vals[c][r] \subseteq Begun
    BY <1>0 DEF IInv, FreshInv
  <2>2. ~ Contended(c, r) => vals[c][r] \in {db[r], db[r] \cup {c}}
    BY <1>0 DEF IInv, CopyInv, CopyOK
  <2> QED BY <2>1, <2>2
<1>3. Store!Store(c, r)
  BY <1>0, <1>1, <1>2 DEF Store!Store, Store!InWork, Store!Contended, Contended, Begun, Over
<1>4. Over' = Over \/ Store!End(c)
  BY <1>0, <1>1 DEF Store!End, Store!InWork, Begun, Over
<1> QED BY <1>0, <1>3, <1>4

\* The records keep what RecordStore promises (agent_handle.js:162-260): a call that no
\* other call's store of the same record overlaps adds its change and keeps all others.
THEOREM PipelineImplementsStore == PipeSpec => ImplementsStore
<1>1. PipeInit => Store!Init
  BY StoreStart
<1>2. IInv /\ [PipeNext]_pipeVars => [Store!Next]_(Store!vars)
  <2> SUFFICES ASSUME IInv, [PipeNext]_pipeVars
               PROVE  Store!Next \/ UNCHANGED Store!vars
    OBVIOUS
  <2>1. CASE UNCHANGED pipeVars
    BY <2>1 DEF pipeVars, Store!vars
  <2>2. CASE PipeNext
    <3> PICK c \in Calls : CallStep(c)
      BY <2>2 DEF PipeNext
    <3>1. CASE Begin(c)
      BY <3>1, BeginIsBegin DEF Store!Next
    <3>2. CASE TakesCopy(c) \/ FindsNone(c) \/ PassesOver(c)
      BY <3>2 DEF TakesCopy, FindsNone, PassesOver, Store!vars
    <3>3. CASE \E touched \in SUBSET Records : Applies(c, touched)
      <4>1. /\ pc[c] = "read" /\ pc' = [pc EXCEPT ![c] = "write"]
            /\ UNCHANGED <<db, met, stored>>
        BY <3>3 DEF Applies, Apply, AllRead
      <4>2. Begun' = Begun /\ Over' = Over
        BY <4>1 DEF IInv, PipeTypeOK, Begun, Over, Ended
      <4> QED BY <4>1, <4>2 DEF Store!vars, Begun, Over
    <3>4. CASE Stores(c)
      BY <3>4, StoresIsStore DEF Store!Next, Over
    <3>5. CASE \E how \in Ended : Ends(c, how)
      <4> PICK how \in Ended : Ends(c, how)
        BY <3>5
      <4>1. /\ InWork(c) /\ pc' = [pc EXCEPT ![c] = how]
            /\ UNCHANGED <<db, met, stored>>
        BY DEF Ends, EndAs
      <4>2. Begun' = Begun /\ Over' = Over \cup {c} /\ c \in Begun \ Over
        BY <4>1 DEF IInv, PipeTypeOK, InWork, Begun, Over, Ended
      <4>3. Store!End(c)
        BY <4>1, <4>2 DEF Store!End, Store!InWork, Begun, Over
      <4> QED BY <4>1, <4>3 DEF Store!Next
    <3> QED BY <3>1, <3>2, <3>3, <3>4, <3>5, StepCases
  <2> QED BY <2>1, <2>2
<1> QED BY <1>1, <1>2, Invariant, PTL DEF PipeSpec, ImplementsStore, Store!Spec
=============================================================================
