------------------------------ MODULE MailProofs ------------------------------
(***************************************************************************)
(* Theorems about Mail: its calls are calls of the pipeline, and what they *)
(* do around it pays each mail once, for any number of sessions, claims    *)
(* and mails.                                                              *)
(***************************************************************************)
EXTENDS Mail, TLAPS

\* The stages of calls as the pipeline knows them, and its theorems.
Stage == [c \in Calls |-> PipeStage(pc[c])]
PP == INSTANCE DataPipelineProofs WITH Faults <- Calls, pc <- Stage

-----------------------------------------------------------------------------
(* The stages. *)

\* A call has not begun to read while it is in a stage of its own.
StageInv ==
    /\ MailTypeOK
    /\ \A c \in Calls :
          /\ pc[c] \in {"test", "head"} => c \in Claims
          /\ pc[c] \in {"diff", "add", "list"} => c \in Receives
          /\ pc[c] \in {"new", "test", "head", "diff", "add", "list"} => pos[c] = 1

LEMMA Kinds ==
    /\ \A c \in Claims : /\ c \in Calls /\ c \in Quiet /\ c \notin Logins /\ c \notin Receives
                         /\ ReadsOf[c] = <<Bag, Base>> /\ WritesOf[c] = <<Base, Bag>>
    /\ \A c \in Receives : /\ c \in Calls /\ c \in Quiet /\ c \notin Logins
                           /\ ReadsOf[c] = <<>> /\ WritesOf[c] = <<>>
    /\ Base \in Records /\ Bag \in Records /\ Bag \in Required /\ Bag # Base
    /\ \A c \in Calls : Len(ReadsOf[c]) \in Nat /\ Len(WritesOf[c]) \in Nat
    /\ RangeOf(Created) \subseteq Records
BY MailAssumption, PipelineAssumption DEF MailAssumption, PipelineAssumption, RangeOf, Base

LEMMA Lengths ==
    /\ \A c \in Claims : /\ Len(ReadsOf[c]) = 2 /\ ReadsOf[c][1] = Bag /\ ReadsOf[c][2] = Base
                         /\ Len(WritesOf[c]) = 2 /\ WritesOf[c][1] = Base /\ WritesOf[c][2] = Bag
    /\ \A c \in Receives : Len(ReadsOf[c]) = 0 /\ Len(WritesOf[c]) = 0
<1>1. ASSUME NEW c \in Claims
      PROVE  /\ Len(ReadsOf[c]) = 2 /\ ReadsOf[c][1] = Bag /\ ReadsOf[c][2] = Base
             /\ Len(WritesOf[c]) = 2 /\ WritesOf[c][1] = Base /\ WritesOf[c][2] = Bag
  <2>1. ReadsOf[c] = <<Bag, Base>> /\ WritesOf[c] = <<Base, Bag>>
    BY Kinds
  <2> QED BY <2>1
<1>2. ASSUME NEW c \in Receives PROVE Len(ReadsOf[c]) = 0 /\ Len(WritesOf[c]) = 0
  <2>1. ReadsOf[c] = <<>> /\ WritesOf[c] = <<>>
    BY Kinds
  <2> QED BY <2>1
<1> QED BY <1>1, <1>2

\* A step that sets one call's stage.
LEMMA StageSet ==
    ASSUME pc \in [Calls -> Stages], NEW c \in Calls, NEW how, pc' = [pc EXCEPT ![c] = how]
    PROVE  Stage' = [Stage EXCEPT ![c] = PipeStage(how)]
BY DEF Stage

LEMMA StageKept == ASSUME pc' = pc PROVE Stage' = Stage
BY DEF Stage

LEMMA StageNames ==
    ASSUME NEW c \in Calls
    PROVE  /\ Stage[c] = PipeStage(pc[c])
           /\ pc[c] \in Stages =>
                 /\ Stage[c] = "new" <=> pc[c] = "new"
                 /\ Stage[c] = "ok" <=> pc[c] = "ok"
                 /\ Stage[c] = "error" <=> pc[c] = "error"
                 /\ Stage[c] = "silent" <=> pc[c] = "silent"
                 /\ pc[c] = "write" => Stage[c] = "write"
                 /\ pc[c] = "read" => Stage[c] = "read"
                 /\ pc[c] \in {"test", "head", "diff", "add"} => Stage[c] = "read"
                 /\ pc[c] = "list" => Stage[c] = "write"
                 /\ InWork(c) <=> PP!InWork(c)
BY DEF Stage, PipeStage, Stages, Ended, InWork, PP!InWork, PP!Ended

-----------------------------------------------------------------------------
(* Types. *)

\* What a step of one call may do: no other call's stage or position changes, and
\* its own position moves only while it reads or writes.
OnlyMoves(c) ==
    /\ \A d \in Calls : d # c => pc'[d] = pc[d] /\ pos'[d] = pos[d]
    /\ pos'[c] # pos[c] => pc[c] \in {"read", "write"}
    /\ pc[c] \in {"read", "write"} => pc'[c] \in {"read", "write"} \cup Ended

LEMMA EnterTypes ==
    ASSUME RecordsTypeOK, pc \in [Calls -> Stages], NEW c \in Calls, NEW stage \in Stages, Enter(c, stage)
    PROVE  /\ RecordsTypeOK' /\ pc' \in [Calls -> Stages]
           /\ pos' = pos /\ pc[c] = "new" /\ pc' = [pc EXCEPT ![c] = stage]
BY DEF RecordsTypeOK, Enter, copies

LEMMA ReadTypes ==
    ASSUME RecordsTypeOK, pc \in [Calls -> Stages], NEW c \in Calls, ReadNext(c)
    PROVE  RecordsTypeOK' /\ pc' \in [Calls -> Stages] /\ OnlyMoves(c) /\ pc[c] = "read"
<1> DEFINE r == ReadsOf[c][pos[c]]
<1>1. r \in Records
  <2>1. pos[c] \in 1..Len(ReadsOf[c])
    BY Kinds DEF ReadNext, RecordsTypeOK
  <2> QED BY <2>1, PipelineAssumption DEF PipelineAssumption
<1>2. db[r] \in SUBSET Calls
  BY <1>1 DEF RecordsTypeOK
<1>3. Refused(c) \in {"silent", "error"}
  BY DEF Refused
<1>4. CASE /\ vals' = [vals EXCEPT ![c][r] = db[r]]
           /\ have' = [have EXCEPT ![c] = @ \cup {r}]
           /\ pos' = [pos EXCEPT ![c] = @ + 1]
           /\ UNCHANGED <<pc, db, present, met, stored>>
           /\ pc[c] = "read"
  BY <1>1, <1>2, <1>4 DEF RecordsTypeOK, OnlyMoves
<1>5. CASE EndAs(c, Refused(c)) /\ UNCHANGED <<copies, db, present, met, stored>> /\ pc[c] = "read"
  BY <1>3, <1>5 DEF RecordsTypeOK, OnlyMoves, EndAs, copies, Stages, Ended
<1>6. CASE pos' = [pos EXCEPT ![c] = @ + 1] /\ UNCHANGED <<pc, vals, have, db, present, met, stored>> /\ pc[c] = "read"
  BY <1>6 DEF RecordsTypeOK, OnlyMoves
<1> QED BY <1>4, <1>5, <1>6 DEF ReadNext

LEMMA ApplyTypes ==
    ASSUME RecordsTypeOK, pc \in [Calls -> Stages], NEW c \in Calls, NEW touched \in SUBSET Records,
           Apply(c, touched), AllRead(c)
    PROVE  RecordsTypeOK' /\ pc' \in [Calls -> Stages] /\ OnlyMoves(c)
BY DEF RecordsTypeOK, Apply, AllRead, OnlyMoves, Stages, Ended

LEMMA EndTypes ==
    ASSUME RecordsTypeOK, pc \in [Calls -> Stages], NEW c \in Calls, NEW how \in Ended,
           EndAs(c, how), UNCHANGED <<db, present, copies, met, stored>>
    PROVE  RecordsTypeOK' /\ pc' \in [Calls -> Stages] /\ OnlyMoves(c)
BY DEF RecordsTypeOK, EndAs, OnlyMoves, Stages, Ended, copies

LEMMA StoredTypes ==
    ASSUME RecordsTypeOK, NEW c \in Calls, pc[c] = "write", pos[c] <= Len(WritesOf[c]), Stored(c)
    PROVE  /\ db' \in [Records -> SUBSET Calls] /\ present' \subseteq Records
           /\ stored' \in [Calls -> SUBSET Records]
<1> DEFINE r == WritesOf[c][pos[c]]
<1>1. r \in Records
  <2>1. pos[c] \in 1..Len(WritesOf[c])
    BY Kinds DEF RecordsTypeOK
  <2> QED BY <2>1, PipelineAssumption DEF PipelineAssumption
<1>2. /\ db' = [db EXCEPT ![r] = vals[c][r]]
      /\ present' = present \cup {r}
      /\ stored' = [stored EXCEPT ![c] = @ \cup {r}]
  BY DEF Stored
<1> QED BY <1>1, <1>2 DEF RecordsTypeOK

LEMMA WriteTypes ==
    ASSUME RecordsTypeOK, pc \in [Calls -> Stages], NEW c \in Calls, WriteNext(c)
    PROVE  RecordsTypeOK' /\ pc' \in [Calls -> Stages] /\ OnlyMoves(c) /\ pc[c] = "write"
<1>1. /\ pc[c] = "write" /\ pos[c] <= Len(WritesOf[c])
      /\ pos' = [pos EXCEPT ![c] = @ + 1] /\ UNCHANGED <<pc, vals, have, met>>
  BY DEF WriteNext
<1>2. CASE Stored(c)
  BY <1>1, <1>2, StoredTypes DEF RecordsTypeOK, OnlyMoves
<1>3. CASE UNCHANGED <<db, present, stored>>
  BY <1>1, <1>3 DEF RecordsTypeOK, OnlyMoves
<1> QED BY <1>2, <1>3 DEF WriteNext

LEMMA FailTypes ==
    ASSUME RecordsTypeOK, pc \in [Calls -> Stages], NEW c \in Calls, Fail(c)
    PROVE  RecordsTypeOK' /\ pc' \in [Calls -> Stages] /\ OnlyMoves(c)
<1>1. EndAs(c, Refused(c)) /\ UNCHANGED <<copies, met>> /\ Refused(c) \in Ended
  BY DEF Fail, Refused, Ended
<1>2. CASE pc[c] = "write" /\ pos[c] <= Len(WritesOf[c]) /\ Stored(c)
  BY <1>1, <1>2, StoredTypes DEF RecordsTypeOK, EndAs, OnlyMoves, Stages, Ended, copies
<1>3. CASE UNCHANGED <<db, present, stored>>
  BY <1>1, <1>3, EndTypes DEF copies
<1> QED BY <1>2, <1>3 DEF Fail

LEMMA CallTypes ==
    ASSUME StageInv, NEW c \in Calls \ (Claims \cup Receives), CallStep(c)
    PROVE  /\ RecordsTypeOK' /\ pc' \in [Calls -> Stages]
           /\ \/ pos' = pos /\ pc' = [pc EXCEPT ![c] = "read"]
              \/ OnlyMoves(c) /\ pc'[c] \in {"read", "write"} \cup Ended
<1> USE DEF StageInv, MailTypeOK
<1>1. CASE Begin(c)
  BY <1>1, EnterTypes, "read" \in Stages DEF Begin, Stages
<1>2. CASE ReadNext(c)
  BY <1>2, ReadTypes DEF OnlyMoves
<1>3. ASSUME NEW touched \in SUBSET RangeOf(WritesOf[c]), AllRead(c), Apply(c, touched)
      PROVE  RecordsTypeOK' /\ pc' \in [Calls -> Stages] /\ OnlyMoves(c) /\ pc'[c] \in {"read", "write"}
  <2>1. touched \in SUBSET Records
    <3>1. WritesOf[c] \in Seq(Records)
      BY PipelineAssumption DEF PipelineAssumption
    <3>2. RangeOf(WritesOf[c]) \subseteq Records
      BY <3>1 DEF RangeOf
    <3> QED BY <3>2
  <2>2. pc'[c] = "write"
    BY <1>3 DEF Apply
  <2> QED BY <1>3, <2>1, <2>2, ApplyTypes
<1>4. ASSUME NEW how \in Ended, EndAs(c, how), UNCHANGED <<db, present, copies, met, stored>>
      PROVE  RecordsTypeOK' /\ pc' \in [Calls -> Stages] /\ OnlyMoves(c) /\ pc'[c] \in Ended
  BY <1>4, EndTypes DEF OnlyMoves, EndAs
<1>5. Refused(c) \in Ended /\ "ok" \in Ended
  BY DEF Refused, Ended
<1>6. CASE Run(c)
  BY <1>3, <1>4, <1>5, <1>6 DEF Run
<1>7. CASE LoadOrCreate(c)
  <2>1. WritesOf[c] = Created
    BY <1>7, PipelineAssumption DEF PipelineAssumption, LoadOrCreate
  <2> QED BY <2>1, <1>3, <1>4, <1>5, <1>7 DEF LoadOrCreate
<1>8. CASE WriteNext(c)
  BY <1>8, WriteTypes DEF OnlyMoves
<1>9. CASE Answer(c)
  BY <1>4, <1>5, <1>9 DEF Answer
<1>10. CASE Fail(c)
  BY <1>5, <1>10, FailTypes DEF Fail, EndAs
<1> QED BY <1>1, <1>2, <1>6, <1>7, <1>8, <1>9, <1>10 DEF CallStep

\* A step that leaves the pipeline alone.
LEMMA SendTypes ==
    ASSUME StageInv, UNCHANGED <<pipeVars, toAll, want, diff>>,
           pool' \subseteq Mails, got' \subseteq Mails, globalPool' \subseteq toAll,
           DOMAIN sending' = Mails, DOMAIN head' = Mails
    PROVE  StageInv'
BY DEF StageInv, MailTypeOK, RecordsTypeOK, pipeVars, copies

\* A step of one call that keeps the mails.
LEMMA MailsTypes ==
    ASSUME StageInv, NEW c \in Calls, RecordsTypeOK', pc' \in [Calls -> Stages],
           \A d \in Calls \ {c} : pc'[d] = pc[d] /\ pos'[d] = pos[d],
           pc'[c] \in {"test", "head"} => c \in Claims,
           pc'[c] \in {"diff", "add", "list"} => c \in Receives,
           pc'[c] \in {"new", "test", "head", "diff", "add", "list"} => pos'[c] = 1,
           UNCHANGED <<toAll, sending, head, globalPool, want>>,
           pool' \subseteq Mails, got' \subseteq Mails, diff' \in [Receives -> SUBSET toAll]
    PROVE  StageInv'
<1>1. MailTypeOK'
  BY DEF StageInv, MailTypeOK
<1>2. ASSUME NEW d \in Calls
      PROVE  /\ pc'[d] \in {"test", "head"} => d \in Claims
             /\ pc'[d] \in {"diff", "add", "list"} => d \in Receives
             /\ pc'[d] \in {"new", "test", "head", "diff", "add", "list"} => pos'[d] = 1
  BY DEF StageInv
<1> QED BY <1>1, <1>2 DEF StageInv

LEMMA StageStart == MailInit => StageInv
<1> SUFFICES ASSUME MailInit PROVE StageInv
  OBVIOUS
<1>1. RecordsTypeOK /\ pc = [c \in Calls |-> "new"] /\ pos = [c \in Calls |-> 1]
  BY PipelineAssumption DEF MailInit, PipeInit, RecordsTypeOK, PipelineAssumption
<1>2. MailTypeOK
  BY <1>1, MailAssumption DEF MailInit, MailTypeOK, MailAssumption, Stages
<1> QED BY <1>1, <1>2 DEF StageInv

LEMMA StageStep == StageInv /\ [MailNext]_mailVars => StageInv'
<1> SUFFICES ASSUME StageInv, [MailNext]_mailVars PROVE StageInv'
  OBVIOUS
<1> USE Kinds
<1>1. ASSUME NEW m \in Mails, SendMail(m) \/ SendFails(m) \/ AddGlobalMail(m) \/ Expire(m)
      PROVE  StageInv'
  <2>1. /\ UNCHANGED <<pipeVars, toAll, want, diff>> /\ UNCHANGED got
        /\ pool' \in {pool, pool \cup {m}}
        /\ \/ globalPool' = globalPool
           \/ m \in toAll /\ globalPool' = globalPool \cup {m}
        /\ DOMAIN sending' = DOMAIN sending /\ DOMAIN head' = DOMAIN head
    BY <1>1 DEF SendMail, SendFails, AddGlobalMail, Expire, AddMailHead, AddMailText, AddNewMail,
                PushMail, Advance
  <2> QED BY <2>1, SendTypes DEF StageInv, MailTypeOK
<1>2. ASSUME NEW c \in Claims, ClaimStep(c) PROVE StageInv'
  <2> USE DEF StageInv, MailTypeOK
  <2>1. CASE Enter(c, "test") /\ UNCHANGED <<mailbox, want, diff>>
    <3>1. "test" \in Stages
      BY DEF Stages
    <3>2. /\ RecordsTypeOK' /\ pc' \in [Calls -> Stages]
          /\ pos' = pos /\ pc[c] = "new" /\ pc' = [pc EXCEPT ![c] = "test"]
      BY <2>1, <3>1, EnterTypes
    <3> QED BY <2>1, <3>2, MailsTypes DEF mailbox
  <2>2. CASE (ReadNext(c) \/ WriteNext(c) \/ Fail(c)) /\ UNCHANGED <<mailbox, want, diff>>
    <3>1. RecordsTypeOK' /\ pc' \in [Calls -> Stages] /\ OnlyMoves(c)
      BY <2>2, ReadTypes, WriteTypes, FailTypes
    <3>2. pc'[c] \in {"read", "write"} \cup Ended
      BY <2>2, <3>1, ReadTypes, WriteTypes DEF OnlyMoves, Fail, EndAs, Refused, Ended
    <3> QED BY <2>2, <3>1, <3>2, MailsTypes DEF mailbox, OnlyMoves, Ended
  <2>3. CASE TestPool(c) \/ GetMailHead(c)
    <3>1. PICK how \in {"head", "read", "silent"} :
             EndAs(c, how) /\ UNCHANGED <<records, mailbox, want, diff>> /\ pc[c] \in {"test", "head"}
      BY <2>3 DEF TestPool, GetMailHead, Continue
    <3>2. RecordsTypeOK' /\ pc' \in [Calls -> Stages] /\ pos' = pos
      BY <3>1 DEF EndAs, records, copies, RecordsTypeOK, Stages, Ended
    <3> QED BY <3>1, <3>2, MailsTypes DEF mailbox, EndAs
  <2>4. CASE TakeAttach(c)
    <3>1. PICK touched \in SUBSET Records : Apply(c, touched) /\ AllRead(c) /\ UNCHANGED <<mailbox, want, diff>>
      BY <2>4 DEF TakeAttach
    <3>2. RecordsTypeOK' /\ pc' \in [Calls -> Stages] /\ OnlyMoves(c) /\ pc'[c] = "write"
      BY <3>1, ApplyTypes DEF Apply
    <3> QED BY <3>1, <3>2, MailsTypes DEF mailbox, OnlyMoves
  <2>5. ASSUME NEW how \in {"ok", "silent"}, MoveMail(c, how) PROVE StageInv'
    <3>1. EndAs(c, how) /\ UNCHANGED records /\ how \in Ended
      BY <2>5 DEF MoveMail, Ended
    <3>2. RecordsTypeOK' /\ pc' \in [Calls -> Stages] /\ OnlyMoves(c) /\ pc'[c] = how
      BY <3>1, EndTypes DEF records, EndAs
    <3>3. want[c] \in Mails /\ pool' \subseteq pool /\ got' \subseteq got \cup {want[c]}
      BY <2>5 DEF MoveMail
    <3> QED BY <2>5, <3>2, <3>3, MailsTypes DEF MoveMail, OnlyMoves
  <2> QED BY <1>2, <2>1, <2>2, <2>3, <2>4, <2>5 DEF ClaimStep
<1>3. ASSUME NEW c \in Receives, ReceiveStep(c) PROVE StageInv'
  <2> USE DEF StageInv, MailTypeOK
  <2>1. CASE Enter(c, "diff") /\ UNCHANGED <<mailbox, want, diff>>
    <3>1. "diff" \in Stages
      BY DEF Stages
    <3>2. /\ RecordsTypeOK' /\ pc' \in [Calls -> Stages]
          /\ pos' = pos /\ pc[c] = "new" /\ pc' = [pc EXCEPT ![c] = "diff"]
      BY <2>1, <3>1, EnterTypes
    <3> QED BY <2>1, <3>2, MailsTypes DEF mailbox
  <2>2. CASE Fail(c) /\ UNCHANGED <<mailbox, want, diff>>
    <3>1. RecordsTypeOK' /\ pc' \in [Calls -> Stages] /\ OnlyMoves(c)
      BY <2>2, FailTypes
    <3>2. pc'[c] \in Ended
      BY <2>2 DEF Fail, EndAs, Refused, Ended
    <3> QED BY <2>2, <3>1, <3>2, MailsTypes DEF mailbox, OnlyMoves, Ended
  <2>3. CASE DiffGlobal(c)
    <3>1. PICK how \in {"add", "list"} : EndAs(c, how)
      BY <2>3 DEF DiffGlobal, Continue
    <3>2. UNCHANGED <<records, mailbox, want>> /\ pc[c] = "diff"
      BY <2>3 DEF DiffGlobal, Continue
    <3>3. RecordsTypeOK' /\ pc' \in [Calls -> Stages] /\ pos' = pos
      BY <3>1, <3>2 DEF EndAs, records, copies, RecordsTypeOK, Stages
    <3>4. diff' \in [Receives -> SUBSET toAll]
      BY <2>3 DEF DiffGlobal
    <3> QED BY <3>1, <3>2, <3>3, <3>4, MailsTypes DEF mailbox, EndAs
  <2>4. ASSUME NEW how \in {"list", "silent"}, AddToPool(c, how) PROVE StageInv'
    <3>1. EndAs(c, how) /\ UNCHANGED records /\ pc[c] = "add"
      BY <2>4 DEF AddToPool
    <3>2. RecordsTypeOK' /\ pc' \in [Calls -> Stages] /\ pos' = pos
      BY <3>1 DEF EndAs, records, copies, RecordsTypeOK, Stages, Ended
    <3>3. pool' \subseteq Mails
      BY <2>4 DEF AddToPool
    <3> QED BY <2>4, <3>1, <3>2, <3>3, MailsTypes DEF AddToPool, EndAs
  <2>5. CASE ListHeads(c)
    <3>1. EndAs(c, "ok") /\ UNCHANGED <<records, mailbox, want, diff>>
      BY <2>5 DEF ListHeads, Continue
    <3>2. RecordsTypeOK' /\ pc' \in [Calls -> Stages] /\ pos' = pos
      BY <3>1 DEF EndAs, records, copies, RecordsTypeOK, Stages, Ended
    <3> QED BY <3>1, <3>2, MailsTypes DEF mailbox, EndAs
  <2> QED BY <1>3, <2>1, <2>2, <2>3, <2>4, <2>5 DEF ReceiveStep
<1>4. ASSUME NEW c \in Calls \ (Claims \cup Receives), CallStep(c), UNCHANGED <<mailbox, want, diff>>
      PROVE  StageInv'
  <2>1. /\ RecordsTypeOK' /\ pc' \in [Calls -> Stages]
        /\ \A d \in Calls \ {c} : pc'[d] = pc[d] /\ pos'[d] = pos[d]
        /\ pc'[c] \in {"read", "write"} \cup Ended
    BY <1>4, CallTypes DEF OnlyMoves, StageInv, MailTypeOK
  <2> QED BY <1>4, <2>1, MailsTypes DEF mailbox, StageInv, MailTypeOK, Ended
<1>5. CASE UNCHANGED mailVars
  BY <1>5 DEF StageInv, MailTypeOK, RecordsTypeOK, mailVars, pipeVars, mailbox, copies
<1> QED BY <1>1, <1>2, <1>3, <1>4, <1>5 DEF MailNext

\* The mail pools hold mails, and only the mails that are sent to all are pushed there
\* by ReceiveMail; what the calls copy has its type (MailTypeOK).
THEOREM MailTypes == MailSpec => []MailTypeOK
<1>1. StageInv => MailTypeOK
  BY DEF StageInv
<1> QED BY StageStart, StageStep, <1>1, PTL DEF MailSpec

-----------------------------------------------------------------------------
(* The calls of the mail handlers are calls of the pipeline. *)

LEMMA PipeStart == MailInit => PP!PipeInit
<1> SUFFICES ASSUME MailInit PROVE PP!PipeInit
  OBVIOUS
<1>1. Stage = [c \in Calls |-> "new"]
  BY DEF MailInit, PipeInit, Stage, PipeStage
<1> QED BY <1>1 DEF MailInit, PipeInit, PP!PipeInit, PP!RangeOf, RangeOf

LEMMA Shared ==
    /\ pipeVars' = pipeVars => PP!pipeVars' = PP!pipeVars
    /\ PP!copies = copies
    /\ \A c \in Calls : PP!Refused(c) = Refused(c)
    /\ \A s : PP!RangeOf(s) = RangeOf(s)
    /\ PP!Base = Base
BY StageKept DEF pipeVars, PP!pipeVars, PP!copies, copies, PP!Refused, Refused, PP!RangeOf,
                 RangeOf, PP!Base, Base

LEMMA EnterMaps ==
    ASSUME StageInv, NEW c \in Calls, NEW stage \in {"read", "test", "diff"}, Enter(c, stage)
    PROVE  PP!Begin(c)
<1>0. pc \in [Calls -> Stages]
  BY DEF StageInv, MailTypeOK
<1>1. \A d \in Calls : /\ InWork(d) <=> PP!InWork(d)
                       /\ pc[d] \in {"new", "ok", "error"} <=> Stage[d] \in {"new", "ok", "error"}
                       /\ pc[d] = "ok" <=> Stage[d] = "ok"
                       /\ pc[d] = "new" <=> Stage[d] = "new"
  BY <1>0, StageNames
<1>2. Stage' = [Stage EXCEPT ![c] = "read"]
  <2>1. PipeStage(stage) = "read"
    BY DEF PipeStage
  <2>2. pc' = [pc EXCEPT ![c] = stage]
    BY DEF Enter
  <2>3. Stage' = [Stage EXCEPT ![c] = PipeStage(stage)]
    BY <2>2, <1>0, StageSet
  <2> QED BY <2>1, <2>3
<1>3. {e \in Calls : InWork(e)} = {e \in Calls : PP!InWork(e)}
  BY <1>1
<1>4. met' = [d \in Calls |-> IF d = c THEN {e \in Calls : PP!InWork(e)}
                              ELSE IF PP!InWork(d) THEN met[d] \cup {c} ELSE met[d]]
  BY <1>1, <1>3 DEF Enter
<1>5. \A d \in Logins : d \in Calls
  BY PipelineAssumption DEF PipelineAssumption
<1> QED BY <1>1, <1>2, <1>4, <1>5, Shared DEF Enter, PP!Begin, PP!Enter, copies, PP!copies

LEMMA ReadMaps ==
    ASSUME StageInv, NEW c \in Calls, ReadNext(c)
    PROVE  PP!ReadNext(c)
<1>0. pc \in [Calls -> Stages] /\ pc[c] = "read" /\ Stage[c] = "read"
  BY StageNames DEF StageInv, MailTypeOK, ReadNext
<1>1. EndAs(c, Refused(c)) => PP!EndAs(c, PP!Refused(c))
  <2>1. PipeStage(Refused(c)) = Refused(c)
    BY DEF PipeStage, Refused
  <2> QED BY <2>1, <1>0, StageSet, Shared DEF EndAs, PP!EndAs
<1>2. UNCHANGED pc => UNCHANGED Stage
  BY StageKept
<1> QED BY <1>0, <1>1, <1>2, Shared DEF ReadNext, PP!ReadNext, copies, PP!copies

LEMMA RunMaps ==
    ASSUME StageInv, NEW c \in Calls, AllRead(c), NEW touched, Apply(c, touched)
    PROVE  PP!AllRead(c) /\ PP!Apply(c, touched)
<1>0. pc \in [Calls -> Stages] /\ pc[c] = "read" /\ Stage[c] = "read"
  BY StageNames DEF StageInv, MailTypeOK, AllRead
<1>1. Stage' = [Stage EXCEPT ![c] = "write"]
  <2>1. PipeStage("write") = "write"
    BY DEF PipeStage
  <2> QED BY <2>1, <1>0, StageSet DEF Apply
<1> QED BY <1>0, <1>1 DEF AllRead, PP!AllRead, Apply, PP!Apply

LEMMA EndMaps ==
    ASSUME StageInv, NEW c \in Calls, NEW how \in Ended, EndAs(c, how)
    PROVE  PP!EndAs(c, how)
<1>1. PipeStage(how) = how
  BY DEF PipeStage, Ended
<1> QED BY <1>1, StageSet DEF EndAs, PP!EndAs, StageInv, MailTypeOK

LEMMA StoredMaps == \A c \in Calls : Stored(c) => PP!Stored(c)
BY DEF Stored, PP!Stored

LEMMA WriteMaps ==
    ASSUME StageInv, NEW c \in Calls, WriteNext(c)
    PROVE  PP!WriteNext(c)
<1>0. pc[c] = "write" /\ Stage[c] = "write" /\ UNCHANGED Stage
  BY StageNames, StageKept DEF StageInv, MailTypeOK, WriteNext
<1> QED BY <1>0, StoredMaps DEF WriteNext, PP!WriteNext

LEMMA AnswerMaps ==
    ASSUME StageInv, NEW c \in Calls, AllWritten(c), EndAs(c, "ok"), UNCHANGED records
    PROVE  PP!Answer(c)
<1>0. Stage[c] = "write"
  BY StageNames DEF StageInv, MailTypeOK, AllWritten
<1> QED BY <1>0, EndMaps, Shared DEF AllWritten, PP!AllWritten, PP!Answer, records, Ended, copies, PP!copies

\* Any call may fail in the pipeline that the mail handlers are mapped to.
LEMMA FailMaps ==
    ASSUME StageInv, NEW c \in Calls, InWork(c), EndAs(c, Refused(c)), UNCHANGED <<copies, met>>,
           \/ pc[c] = "write" /\ pos[c] <= Len(WritesOf[c]) /\ Stored(c)
           \/ UNCHANGED <<db, present, stored>>
    PROVE  PP!Fail(c)
<1>0. PP!InWork(c) /\ (pc[c] = "write" => Stage[c] = "write")
  BY StageNames DEF StageInv, MailTypeOK
<1>1. PP!EndAs(c, PP!Refused(c))
  BY EndMaps, Shared DEF Refused, Ended
<1> QED BY <1>0, <1>1, Shared, StoredMaps DEF PP!Fail, copies, PP!copies

LEMMA SilentMaps ==
    ASSUME StageInv, NEW c \in Claims \cup Receives, InWork(c), EndAs(c, "silent"), UNCHANGED records
    PROVE  PP!Fail(c)
<1>1. c \in Calls /\ Refused(c) = "silent"
  BY Kinds DEF Refused
<1> QED BY <1>1, FailMaps DEF records

LEMMA StutterMaps ==
    ASSUME StageInv, NEW c \in Calls, NEW how, EndAs(c, how), UNCHANGED records,
           PipeStage(how) = Stage[c]
    PROVE  UNCHANGED PP!pipeVars
<1>1. UNCHANGED Stage
  <2>1. Stage' = [Stage EXCEPT ![c] = Stage[c]]
    BY StageSet DEF StageInv, MailTypeOK, EndAs
  <2>2. Stage = [d \in Calls |-> Stage[d]]
    BY DEF Stage
  <2> QED BY <2>1, <2>2
<1> QED BY <1>1, Shared DEF PP!pipeVars, records, copies, PP!copies

LEMMA CallMaps ==
    ASSUME StageInv, NEW c \in Calls \ (Claims \cup Receives), CallStep(c)
    PROVE  PP!CallStep(c)
<1>1. CASE Begin(c)
  BY <1>1, EnterMaps DEF Begin, PP!CallStep
<1>2. CASE ReadNext(c)
  BY <1>2, ReadMaps DEF PP!CallStep
<1>3. ASSUME AllRead(c) PROVE PP!AllRead(c)
  BY <1>3, StageNames DEF AllRead, PP!AllRead, StageInv, MailTypeOK
<1>4. Refused(c) \in Ended /\ "ok" \in Ended
  BY DEF Refused, Ended
<1>5. CASE Run(c)
  <2>1. ASSUME NEW touched \in SUBSET RangeOf(WritesOf[c]), Apply(c, touched) PROVE PP!Run(c)
    BY <1>5, <2>1, RunMaps, Shared DEF Run, PP!Run
  <2>2. ASSUME EndAs(c, Refused(c)), UNCHANGED <<db, present, copies, met, stored>> PROVE PP!Run(c)
    BY <1>3, <1>4, <1>5, <2>2, EndMaps, Shared DEF Run, PP!Run, copies, PP!copies
  <2> QED BY <1>5, <2>1, <2>2 DEF Run, PP!CallStep
<1>6. CASE LoadOrCreate(c)
  <2>1. CASE Base \in have[c]
    BY <1>3, <1>4, <1>6, <2>1, EndMaps, Shared DEF LoadOrCreate, PP!LoadOrCreate, PP!CallStep, copies, PP!copies
  <2>2. CASE Base \notin have[c]
    BY <1>6, <2>2, RunMaps, Shared DEF LoadOrCreate, PP!LoadOrCreate, PP!CallStep
  <2> QED BY <2>1, <2>2
<1>7. CASE WriteNext(c)
  BY <1>7, WriteMaps DEF PP!CallStep
<1>8. CASE Answer(c)
  BY <1>8, AnswerMaps DEF Answer, records, PP!CallStep
<1>9. CASE Fail(c)
  BY <1>9, FailMaps DEF Fail, PP!CallStep
<1> QED BY <1>1, <1>2, <1>5, <1>6, <1>7, <1>8, <1>9 DEF CallStep

LEMMA PipeStep == StageInv /\ [MailNext]_mailVars => [PP!PipeNext]_(PP!pipeVars)
<1> SUFFICES ASSUME StageInv, [MailNext]_mailVars PROVE PP!PipeNext \/ UNCHANGED PP!pipeVars
  OBVIOUS
<1> USE Kinds
<1>1. ASSUME NEW m \in Mails, SendMail(m) \/ SendFails(m) \/ AddGlobalMail(m) \/ Expire(m)
      PROVE  UNCHANGED PP!pipeVars
  <2>1. UNCHANGED pipeVars
    BY <1>1 DEF SendMail, SendFails, AddGlobalMail, Expire, AddMailHead, AddMailText, AddNewMail,
                PushMail, Advance
  <2> QED BY <2>1, Shared
<1>2. ASSUME NEW c \in Claims, ClaimStep(c) PROVE PP!CallStep(c) \/ UNCHANGED PP!pipeVars
  <2>1. CASE Enter(c, "test")
    BY <2>1, EnterMaps DEF PP!CallStep
  <2>2. CASE ReadNext(c)
    BY <2>2, ReadMaps DEF PP!CallStep
  <2>3. CASE WriteNext(c)
    BY <2>3, WriteMaps DEF PP!CallStep
  <2>4. CASE Fail(c)
    BY <2>4, FailMaps DEF Fail, PP!CallStep
  <2>5. CASE TestPool(c) \/ GetMailHead(c)
    <3>1. PICK how \in {"head", "read", "silent"} :
             EndAs(c, how) /\ UNCHANGED records /\ pc[c] \in {"test", "head"}
      BY <2>5 DEF TestPool, GetMailHead, Continue
    <3>2. InWork(c) /\ Stage[c] = "read" /\ PipeStage("head") = "read" /\ PipeStage("read") = "read"
      BY <3>1, StageNames DEF InWork, Ended, PipeStage, StageInv, MailTypeOK
    <3> QED BY <3>1, <3>2, SilentMaps, StutterMaps DEF PP!CallStep
  <2>6. CASE TakeAttach(c)
    <3>1. {Base, Bag} = RangeOf(WritesOf[c])
      BY Lengths DEF RangeOf
    <3>2. PICK touched \in SUBSET RangeOf(WritesOf[c]) : Apply(c, touched) /\ AllRead(c)
      BY <2>6, <3>1 DEF TakeAttach
    <3>3. PP!Run(c)
      BY <3>2, RunMaps, Shared DEF PP!Run
    <3> QED BY <3>3 DEF PP!CallStep
  <2>7. CASE MoveMail(c, "ok")
    BY <2>7, AnswerMaps DEF MoveMail, PP!CallStep
  <2>8. CASE MoveMail(c, "silent")
    <3>1. InWork(c)
      BY <2>8 DEF MoveMail, AllWritten, InWork, Ended
    <3> QED BY <2>8, <3>1, SilentMaps DEF MoveMail, PP!CallStep
  <2> QED BY <1>2, <2>1, <2>2, <2>3, <2>4, <2>5, <2>6, <2>7, <2>8 DEF ClaimStep
<1>3. ASSUME NEW c \in Receives, ReceiveStep(c) PROVE PP!CallStep(c) \/ UNCHANGED PP!pipeVars
  <2>1. CASE Enter(c, "diff")
    BY <2>1, EnterMaps DEF PP!CallStep
  <2>2. CASE Fail(c)
    BY <2>2, FailMaps DEF Fail, PP!CallStep
  <2>3. ASSUME NEW how \in {"add", "list", "silent"}, EndAs(c, how), UNCHANGED records, pc[c] \in {"diff", "add"}
        PROVE  PP!CallStep(c) \/ UNCHANGED PP!pipeVars
    <3>1. InWork(c) /\ Stage[c] = "read" /\ PipeStage("add") = "read" /\ PipeStage("list") = "write"
      BY <2>3, StageNames DEF InWork, Ended, PipeStage, StageInv, MailTypeOK
    <3>2. CASE how = "add"
      BY <2>3, <3>1, <3>2, StutterMaps
    <3>3. CASE how = "silent"
      BY <2>3, <3>1, <3>3, SilentMaps DEF PP!CallStep
    <3>4. CASE how = "list"
      <4>1. PP!AllRead(c)
        BY <2>3, <3>1, Lengths DEF PP!AllRead, StageInv
      <4>2. PP!Apply(c, {})
        <5>1. Stage' = [Stage EXCEPT ![c] = "write"]
          <6>1. pc' = [pc EXCEPT ![c] = "list"] /\ pc \in [Calls -> Stages]
            BY <2>3, <3>4 DEF EndAs, StageInv, MailTypeOK
          <6>2. Stage' = [Stage EXCEPT ![c] = PipeStage("list")]
            BY <6>1, StageSet
          <6> QED BY <6>2, <3>1
        <5>2. pos' = [pos EXCEPT ![c] = 1]
          BY <2>3 DEF records, copies, StageInv, MailTypeOK, RecordsTypeOK
        <5>3. vals' = [vals EXCEPT ![c] = [r \in Records |-> IF r \in {} THEN @[r] \cup {c} ELSE @[r]]]
          BY <2>3 DEF records, copies, StageInv, MailTypeOK, RecordsTypeOK
        <5>4. have' = [have EXCEPT ![c] = @ \cup {}]
          BY <2>3 DEF records, copies, StageInv, MailTypeOK, RecordsTypeOK
        <5> QED BY <2>3, <5>1, <5>2, <5>3, <5>4 DEF PP!Apply, records
      <4>3. PP!Run(c)
        BY <4>1, <4>2 DEF PP!Run
      <4> QED BY <4>3 DEF PP!CallStep
    <3> QED BY <3>2, <3>3, <3>4
  <2>4. CASE DiffGlobal(c)
    BY <2>3, <2>4 DEF DiffGlobal, Continue
  <2>5. ASSUME NEW how \in {"list", "silent"}, AddToPool(c, how)
        PROVE  PP!CallStep(c) \/ UNCHANGED PP!pipeVars
    BY <2>3, <2>5 DEF AddToPool
  <2>6. CASE ListHeads(c)
    <3>1. Stage[c] = "write" /\ pos[c] > Len(WritesOf[c])
      BY <2>6, StageNames, Lengths DEF ListHeads, StageInv, MailTypeOK
    <3>2. PP!Answer(c)
      BY <2>6, <3>1, EndMaps, Shared DEF ListHeads, Continue, PP!Answer, PP!AllWritten, records, Ended, copies, PP!copies
    <3> QED BY <3>2 DEF PP!CallStep
  <2> QED BY <1>3, <2>1, <2>2, <2>4, <2>5, <2>6 DEF ReceiveStep
<1>4. ASSUME NEW c \in Calls \ (Claims \cup Receives), CallStep(c) PROVE PP!CallStep(c)
  BY <1>4, CallMaps
<1>5. CASE UNCHANGED mailVars
  BY <1>5, Shared DEF mailVars
<1> QED BY <1>1, <1>2, <1>3, <1>4, <1>5 DEF MailNext, PP!PipeNext

LEMMA SamePipe ==
    /\ PP!PipeInit <=> Pipe!PipeInit
    /\ [PP!PipeNext]_(PP!pipeVars) <=> [Pipe!PipeNext]_(Pipe!pipeVars)
BY DEF Stage, PP!PipeInit, Pipe!PipeInit, PP!PipeNext, Pipe!PipeNext, PP!pipeVars, Pipe!pipeVars,
       PP!copies, Pipe!copies, PP!CallStep, Pipe!CallStep, PP!Begin, Pipe!Begin, PP!Enter, Pipe!Enter,
       PP!InWork, Pipe!InWork, PP!Ended, Pipe!Ended, PP!ReadNext, Pipe!ReadNext, PP!Run, Pipe!Run,
       PP!AllRead, Pipe!AllRead, PP!Apply, Pipe!Apply, PP!EndAs, Pipe!EndAs, PP!Refused, Pipe!Refused,
       PP!LoadOrCreate, Pipe!LoadOrCreate, PP!WriteNext, Pipe!WriteNext, PP!Stored, Pipe!Stored,
       PP!Answer, Pipe!Answer, PP!AllWritten, Pipe!AllWritten, PP!Fail, Pipe!Fail, PP!RangeOf,
       Pipe!RangeOf, PP!Base, Pipe!Base

\* The handlers of mails are calls of the pipeline (mail_imp.js:358-480): they read, work
\* and write as the configured functions do, whatever they test and move around that.
THEOREM MailRunsPipeline == MailSpec => RunsPipeline
<1>1. MailInit => Pipe!PipeInit
  BY PipeStart, SamePipe
<1>2. StageInv /\ [MailNext]_mailVars => [Pipe!PipeNext]_(Pipe!pipeVars)
  BY PipeStep, SamePipe
<1> QED BY StageStart, StageStep, <1>1, <1>2, PTL DEF MailSpec, RunsPipeline, Pipe!PipeSpec
-----------------------------------------------------------------------------
(* What the pipeline's invariant says of the mail handlers. *)

LEMMA Assumed == PP!PipelineAssumption
BY PipelineAssumption DEF PipelineAssumption, PP!PipelineAssumption, PP!RangeOf, RangeOf, PP!Base, Base

LEMMA PipeHolds == MailSpec => [](StageInv /\ PP!IInv)
<1>1. MailSpec => PP!PipeSpec
  BY StageStart, StageStep, PipeStart, PipeStep, PTL DEF MailSpec, PP!PipeSpec
<1>2. PP!PipeSpec => []PP!IInv
  BY Assumed, PP!Invariant
<1> QED BY StageStart, StageStep, <1>1, <1>2, PTL DEF MailSpec

\* Calls in work have met; what a claim has behind it is stored; a change that was
\* stored stays unless a call that was met stores the record.
PipeFacts ==
    /\ \A c, d \in Calls : c # d /\ InWork(c) /\ InWork(d) => d \in met[c]
    /\ \A c, d \in Calls : d \in met[c] => c \in met[d]
    /\ \A c \in Calls : pc[c] \in {"new", "test", "head", "read", "diff", "add"} => stored[c] = {}
    /\ \A c \in Claims : pc[c] = "write" /\ pos[c] > 2 /\ {Base, Bag} \subseteq have[c] =>
          {Base, Bag} \subseteq stored[c]
    /\ \A c \in Calls : Base \in stored[c] /\ c \in vals[c][Base] =>
          c \in db[Base] \/ \E d \in met[c] : Base \in stored[d]

LEMMA Facts == ASSUME StageInv, PP!IInv PROVE PipeFacts
<1>0. pc \in [Calls -> Stages]
  BY DEF StageInv, MailTypeOK
<1>1. \A c, d \in Calls : /\ c # d /\ InWork(c) /\ InWork(d) => d \in met[c]
                          /\ d \in met[c] => c \in met[d]
  BY <1>0, StageNames DEF PP!IInv, PP!MetInv
<1>2. \A c \in Calls : pc[c] \in {"new", "test", "head", "read", "diff", "add"} => stored[c] = {}
  <2>1. \A c \in Calls : pc[c] \in {"new", "test", "head", "read", "diff", "add"} => Stage[c] \in {"new", "read"}
    BY <1>0, StageNames
  <2> QED BY <2>1 DEF PP!IInv, PP!FreshInv
<1>3. ASSUME NEW c \in Claims, pc[c] = "write", pos[c] > 2, {Base, Bag} \subseteq have[c]
      PROVE  {Base, Bag} \subseteq stored[c]
  <2>1. c \in Calls /\ Stage[c] = "write" /\ pos[c] \in Nat
    BY <1>0, <1>3, Kinds, StageNames DEF StageInv, MailTypeOK, RecordsTypeOK
  <2>2. PP!WriteOK(c)
    BY <2>1 DEF PP!IInv, PP!WriteInv
  <2>3. /\ 1 \in 1..Len(WritesOf[c]) /\ 2 \in 1..Len(WritesOf[c])
        /\ WritesOf[c][1] = Base /\ WritesOf[c][2] = Bag
    BY Lengths
  <2> QED BY <1>3, <2>1, <2>2, <2>3 DEF PP!WriteOK
<1>4. ASSUME NEW c \in Calls, Base \in stored[c], c \in vals[c][Base]
      PROVE  c \in db[Base] \/ \E d \in met[c] : Base \in stored[d]
  <2>1. PP!SeenOK(c, Base)
    BY Kinds DEF PP!IInv, PP!SeenInv
  <2> QED BY <1>4, <2>1 DEF PP!SeenOK, PP!Contended
<1> QED BY <1>1, <1>2, <1>3, <1>4 DEF PipeFacts

\* Calls only ever meet more calls and store more records; a copy is kept from the
\* first record on that its call has stored.
LEMMA Grows ==
    ASSUME StageInv, PP!IInv, [MailNext]_mailVars, NEW c \in Calls
    PROVE  /\ met[c] \subseteq met'[c] /\ stored[c] \subseteq stored'[c]
           /\ stored[c] # {} => vals'[c] = vals[c]
<1>0. RecordsTypeOK
  BY DEF StageInv, MailTypeOK
<1>1. CASE UNCHANGED PP!pipeVars
  BY <1>1 DEF PP!pipeVars, PP!copies
<1>2. CASE PP!PipeNext
  <2>1. PICK d \in Calls : PP!CallStep(d)
    BY <1>2 DEF PP!PipeNext
  <2>2. CASE PP!Begin(d)
    <3>1. Stage[d] = "new" /\ met[d] = {} /\ UNCHANGED <<stored, vals>>
      BY <2>2 DEF PP!Begin, PP!Enter, PP!IInv, PP!FreshInv, PP!copies
    <3>2. met' = [e \in Calls |-> IF e = d THEN {f \in Calls : PP!InWork(f)}
                                  ELSE IF PP!InWork(e) THEN met[e] \cup {d} ELSE met[e]]
      BY <2>2 DEF PP!Begin, PP!Enter
    <3> QED BY <3>1, <3>2
  <2>3. CASE PP!TakesCopy(d)
    <3>1. stored[d] = {}
      BY <2>3 DEF PP!TakesCopy, PP!IInv, PP!FreshInv
    <3>2. PICK r : vals' = [vals EXCEPT ![d][r] = db[r]]
      BY <2>3 DEF PP!TakesCopy
    <3>3. UNCHANGED <<met, stored>>
      BY <2>3 DEF PP!TakesCopy
    <3> QED BY <3>1, <3>2, <3>3, <1>0 DEF RecordsTypeOK
  <2>4. CASE \E touched \in SUBSET Records : PP!Applies(d, touched)
    <3>1. stored[d] = {}
      BY <2>4 DEF PP!Applies, PP!AllRead, PP!IInv, PP!FreshInv
    <3>2. \A e \in Calls : e # d => vals'[e] = vals[e]
      BY <2>4, <1>0 DEF PP!Applies, PP!Apply, RecordsTypeOK
    <3>3. UNCHANGED <<met, stored>>
      BY <2>4 DEF PP!Applies, PP!Apply
    <3> QED BY <3>1, <3>2, <3>3
  <2>5. CASE PP!Stores(d)
    BY <2>5, <1>0 DEF PP!Stores, PP!Stored, RecordsTypeOK
  <2>6. CASE PP!FindsNone(d) \/ PP!PassesOver(d) \/ \E how \in PP!Ended : PP!Ends(d, how)
    BY <2>6 DEF PP!FindsNone, PP!PassesOver, PP!Ends, PP!copies
  <2>7. \/ PP!Begin(d) \/ PP!TakesCopy(d) \/ PP!FindsNone(d)
        \/ \E touched \in SUBSET Records : PP!Applies(d, touched)
        \/ PP!Stores(d) \/ PP!PassesOver(d) \/ \E how \in PP!Ended : PP!Ends(d, how)
    BY Assumed, <2>1, PP!StepCases
  <2> QED BY <2>2, <2>3, <2>4, <2>5, <2>6, <2>7
<1> QED BY <1>1, <1>2, PipeStep

\* What a step does to the mails.
LEMMA MailSteps ==
    ASSUME StageInv, [MailNext]_mailVars
    PROVE  \/ UNCHANGED <<mailbox, want, diff>>
           \/ \E m \in Mails : SendMail(m) \/ SendFails(m) \/ AddGlobalMail(m) \/ Expire(m)
           \/ \E c \in Claims : \E how \in {"ok", "silent"} : MoveMail(c, how)
           \/ \E c \in Receives : DiffGlobal(c) \/ \E how \in {"list", "silent"} : AddToPool(c, how)
<1>1. ASSUME NEW c \in Claims, ClaimStep(c)
      PROVE  UNCHANGED <<mailbox, want, diff>> \/ \E how \in {"ok", "silent"} : MoveMail(c, how)
  BY <1>1 DEF ClaimStep, TestPool, GetMailHead, TakeAttach, Continue
<1>2. ASSUME NEW c \in Receives, ReceiveStep(c)
      PROVE  \/ UNCHANGED <<mailbox, want, diff>>
             \/ DiffGlobal(c) \/ \E how \in {"list", "silent"} : AddToPool(c, how)
  BY <1>2 DEF ReceiveStep, ListHeads, Continue
<1>3. CASE UNCHANGED mailVars
  BY <1>3 DEF mailVars
<1> QED BY <1>1, <1>2, <1>3 DEF MailNext

\* What a step does to one claim: it is a step of that claim or leaves it alone.
LEMMA ClaimSteps ==
    ASSUME StageInv, [MailNext]_mailVars, NEW c \in Claims
    PROVE  ClaimStep(c) \/ (pc'[c] = pc[c] /\ pos'[c] = pos[c] /\ have'[c] = have[c] /\ vals'[c] = vals[c])
<1> USE Kinds
<1>0. RecordsTypeOK /\ pc \in [Calls -> Stages]
  BY DEF StageInv, MailTypeOK
<1> DEFINE Same == pc'[c] = pc[c] /\ pos'[c] = pos[c] /\ have'[c] = have[c] /\ vals'[c] = vals[c]
<1>1. ASSUME NEW d \in Calls, d # c, NEW stage, Enter(d, stage) PROVE Same
  BY <1>0, <1>1 DEF Enter, copies
<1>2. ASSUME NEW d \in Calls, d # c, ReadNext(d) PROVE Same
  BY <1>0, <1>2 DEF ReadNext, EndAs, copies, RecordsTypeOK
<1>3. ASSUME NEW d \in Calls, d # c, NEW touched, Apply(d, touched) PROVE Same
  BY <1>0, <1>3 DEF Apply, RecordsTypeOK
<1>4. ASSUME NEW d \in Calls, d # c, NEW how, EndAs(d, how), UNCHANGED copies PROVE Same
  BY <1>0, <1>4 DEF EndAs, copies
<1>5. ASSUME NEW d \in Calls, d # c, WriteNext(d) PROVE Same
  BY <1>0, <1>5 DEF WriteNext, RecordsTypeOK
<1>6. ASSUME NEW d \in Calls, d # c, Fail(d) PROVE Same
  BY <1>4, <1>6 DEF Fail
<1>7. ASSUME UNCHANGED pipeVars PROVE Same
  BY <1>7 DEF pipeVars, copies
<1> HIDE DEF Same
<1>8. ASSUME NEW m \in Mails, SendMail(m) \/ SendFails(m) \/ AddGlobalMail(m) \/ Expire(m) PROVE Same
  BY <1>7, <1>8 DEF SendMail, SendFails, AddGlobalMail, Expire, AddMailHead, AddMailText, AddNewMail,
                    PushMail, Advance
<1>9. ASSUME NEW d \in Claims, d # c, ClaimStep(d) PROVE Same
  BY <1>1, <1>2, <1>3, <1>4, <1>5, <1>6, <1>9 DEF ClaimStep, TestPool, GetMailHead, TakeAttach,
     MoveMail, Continue, records
<1>10. ASSUME NEW d \in Receives, ReceiveStep(d) PROVE Same
  BY <1>1, <1>4, <1>6, <1>10 DEF ReceiveStep, DiffGlobal, AddToPool, ListHeads, Continue, records
<1>11. ASSUME NEW d \in Calls \ (Claims \cup Receives), CallStep(d) PROVE Same
  BY <1>1, <1>2, <1>3, <1>4, <1>5, <1>6, <1>11 DEF CallStep, Begin, Run, LoadOrCreate, Answer
<1>12. ASSUME UNCHANGED mailVars PROVE Same
  BY <1>7, <1>12 DEF mailVars
<1>13. ClaimStep(c) \/ Same
  BY <1>8, <1>9, <1>10, <1>11, <1>12 DEF MailNext
<1> QED BY <1>13 DEF Same
-----------------------------------------------------------------------------
(* The mails. *)

Past == {"head", "read", "write", "ok"}
Mixed(m) == \E c \in ClaimsOf(m) : Receives \cap met[c] # {}

\* The head is set before the mail can be seen, and stays until it expires.
HeadsInv ==
    /\ MailsHaveHeads
    /\ \A m \in Mails : /\ sending[m] \in {"head", "text", "pool", "done"} => head[m] # "none"
                        /\ sending[m] = "pool" => m \in pool \cup got
    /\ \A c \in Receives : diff[c] \subseteq globalPool

\* A mail that was claimed while ReceiveMail was about to add it was claimed by a
\* claim that this call met.
BothInv ==
    /\ \A m \in Mails \ toAll : sending[m] \in {"none", "head", "text"} => m \notin pool \cup got
    /\ PoolsDisjoint
    /\ \A c \in Receives : \A m \in diff[c] \cap got :
          pc[c] = "add" => \E d \in ClaimsOf(m) : c \in met[d]

\* A claim behind its test has its mail in a pool; before it writes it has both records.
ClaimInv ==
    \A c \in Claims :
       /\ pc[c] # "error"
       /\ pc[c] \in Past => want[c] \in pool \cup got
       /\ pc[c] = "ok" => want[c] \in got
       /\ pc[c] = "read" /\ pos[c] > 1 => Bag \in have[c]
       /\ pc[c] = "write" => {Base, Bag} \subseteq have[c] /\ c \in vals[c][Base]

\* Two claims behind the test have met, or the mail was put back in between.
TwiceInv ==
    \A m \in Mails : \A c, d \in ClaimsOf(m) :
       c # d /\ pc[c] \in Past /\ pc[d] \in Past => d \in met[c] \/ Mixed(m)

\* A claimed mail has a claim that stored both records with the gold in its copy.
PaysInv ==
    \A m \in got : \E c \in ClaimsOf(m) :
       {Base, Bag} \subseteq stored[c] /\ c \in vals[c][Base]

MailInv == HeadsInv /\ BothInv /\ ClaimInv /\ TwiceInv /\ PaysInv

\* No mail that a player has, or had, leaves both pools; what was claimed stays so.
LEMMA PoolsGrow ==
    ASSUME StageInv, [MailNext]_mailVars
    PROVE  /\ pool \cup got \subseteq pool' \cup got' /\ got \subseteq got'
           /\ want' = want /\ toAll' = toAll
<1>1. CASE UNCHANGED <<mailbox, want, diff>>
  BY <1>1 DEF mailbox
<1>2. ASSUME NEW m \in Mails, SendMail(m) \/ SendFails(m) \/ AddGlobalMail(m) \/ Expire(m)
      PROVE  pool \subseteq pool' /\ UNCHANGED <<got, want, toAll>>
  BY <1>2 DEF SendMail, SendFails, AddGlobalMail, Expire, AddMailHead, AddMailText, AddNewMail,
              PushMail, Advance
<1>3. ASSUME NEW c \in Claims, NEW how, MoveMail(c, how)
      PROVE  pool \cup got \subseteq pool' \cup got' /\ got \subseteq got' /\ UNCHANGED <<want, toAll>>
  BY <1>3 DEF MoveMail
<1>4. ASSUME NEW c \in Receives, DiffGlobal(c) \/ \E how \in {"list", "silent"} : AddToPool(c, how)
      PROVE  pool \subseteq pool' /\ UNCHANGED <<got, want, toAll>>
  BY <1>4 DEF DiffGlobal, AddToPool, Continue, mailbox
<1> QED BY <1>1, <1>2, <1>3, <1>4, MailSteps

LEMMA HeadsKept ==
    ASSUME StageInv, HeadsInv, [MailNext]_mailVars
    PROVE  HeadsInv'
<1> USE DEF HeadsInv, MailsHaveHeads
<1>0. /\ DOMAIN sending = Mails /\ DOMAIN head = Mails /\ diff \in [Receives -> SUBSET toAll]
      /\ pool \subseteq Mails /\ got \subseteq Mails /\ globalPool \subseteq Mails
  BY DEF StageInv, MailTypeOK
<1>1. CASE UNCHANGED <<mailbox, want, diff>>
  BY <1>1 DEF mailbox
<1>2. ASSUME NEW m \in Mails, SendMail(m) \/ SendFails(m) \/ AddGlobalMail(m) \/ Expire(m)
      PROVE  HeadsInv'
  <2>1. ASSUME NEW to \in {"head", "failed"}, AddMailHead(m, to) PROVE HeadsInv'
    BY <1>0, <2>1 DEF AddMailHead, Advance
  <2>2. ASSUME NEW to \in {"text", "failed"}, AddMailText(m, to) PROVE HeadsInv'
    BY <1>0, <2>2 DEF AddMailText, Advance
  <2>3. ASSUME NEW to \in {"pool", "failed"}, AddNewMail(m, to) PROVE HeadsInv'
    BY <1>0, <2>3 DEF AddNewMail, Advance
  <2>4. CASE PushMail(m)
    BY <1>0, <2>4 DEF PushMail, Advance
  <2>5. CASE /\ sending[m] \notin {"done", "failed"}
             /\ Advance(m, sending[m], "failed") /\ UNCHANGED <<head, pool, globalPool>>
    BY <1>0, <2>5 DEF Advance
  <2>6. CASE AddGlobalMail(m)
    BY <1>0, <2>6 DEF AddGlobalMail, Advance
  <2>7. CASE Expire(m)
    BY <1>0, <2>7 DEF Expire
  <2> QED BY <1>2, <2>1, <2>2, <2>3, <2>4, <2>5, <2>6, <2>7 DEF SendMail, SendFails
<1>3. ASSUME NEW c \in Claims, NEW how, MoveMail(c, how) PROVE HeadsInv'
  BY <1>3 DEF MoveMail
<1>4. ASSUME NEW c \in Receives, DiffGlobal(c) PROVE HeadsInv'
  BY <1>0, <1>4 DEF DiffGlobal, Continue, mailbox
<1>5. ASSUME NEW c \in Receives, NEW how, AddToPool(c, how) PROVE HeadsInv'
  BY <1>5 DEF AddToPool
<1> QED BY <1>1, <1>2, <1>3, <1>4, <1>5, MailSteps

\* A call of ReceiveMail that is about to add mails has found them before.
LEMMA ReceiveSteps ==
    ASSUME StageInv, [MailNext]_mailVars, NEW c \in Receives, pc'[c] = "add"
    PROVE  DiffGlobal(c) \/ (pc[c] = "add" /\ diff'[c] = diff[c])
<1> USE Kinds
<1>0. pc \in [Calls -> Stages] /\ diff \in [Receives -> SUBSET toAll]
  BY DEF StageInv, MailTypeOK
<1> DEFINE Kept == pc[c] = "add" /\ diff'[c] = diff[c]
<1>1. ASSUME NEW d \in Calls, d # c, NEW stage, Enter(d, stage), UNCHANGED diff PROVE Kept
  BY <1>0, <1>1 DEF Enter
<1>2. ASSUME NEW d \in Calls, d # c, NEW how, EndAs(d, how), UNCHANGED diff PROVE Kept
  BY <1>0, <1>2 DEF EndAs
<1>3. ASSUME NEW d \in Calls, d # c, NEW touched, Apply(d, touched), UNCHANGED diff PROVE Kept
  BY <1>0, <1>3 DEF Apply
<1>4. ASSUME UNCHANGED <<pc, diff>> PROVE Kept
  BY <1>4
<1>5. ASSUME NEW d \in Receives, d # c, DiffGlobal(d) PROVE Kept
  BY <1>0, <1>5 DEF DiffGlobal, Continue, EndAs
<1> HIDE DEF Kept
<1>6. ASSUME NEW m \in Mails, SendMail(m) \/ SendFails(m) \/ AddGlobalMail(m) \/ Expire(m) PROVE Kept
  BY <1>4, <1>6 DEF SendMail, SendFails, AddGlobalMail, Expire, AddMailHead, AddMailText, AddNewMail,
                    PushMail, Advance, pipeVars
<1>7. ASSUME NEW d \in Claims, ClaimStep(d) PROVE Kept
  BY <1>1, <1>2, <1>3, <1>4, <1>7 DEF ClaimStep, ReadNext, WriteNext, Fail, TestPool, GetMailHead,
     TakeAttach, MoveMail, Continue
<1>8. ASSUME NEW d \in Receives, d # c, ReceiveStep(d) PROVE Kept
  BY <1>1, <1>2, <1>5, <1>8 DEF ReceiveStep, Fail, AddToPool, ListHeads, Continue
<1>9. ASSUME ReceiveStep(c) PROVE DiffGlobal(c)
  BY <1>0, <1>9 DEF ReceiveStep, Enter, Fail, Refused, AddToPool, ListHeads, Continue, EndAs
<1>10. ASSUME NEW d \in Calls \ (Claims \cup Receives), CallStep(d), UNCHANGED diff PROVE Kept
  BY <1>1, <1>2, <1>3, <1>4, <1>10 DEF CallStep, Begin, ReadNext, Run, LoadOrCreate, WriteNext, Answer, Fail
<1>11. ASSUME UNCHANGED mailVars PROVE Kept
  BY <1>4, <1>11 DEF mailVars, pipeVars
<1>12. DiffGlobal(c) \/ Kept
  BY <1>6, <1>7, <1>8, <1>9, <1>10, <1>11 DEF MailNext
<1> QED BY <1>12 DEF Kept

\* What the calls have met only grows, and so do the mails that may be claimed again.
LEMMA MixedStays ==
    ASSUME StageInv, PP!IInv, [MailNext]_mailVars
    PROVE  /\ \A m : ClaimsOf(m)' = ClaimsOf(m)
           /\ \A c, d \in Calls : d \in met[c] => d \in met'[c]
           /\ \A m : Mixed(m) => Mixed(m)'
<1>1. want' = want
  BY PoolsGrow
<1>2. \A m : ClaimsOf(m)' = ClaimsOf(m)
  BY <1>1 DEF ClaimsOf
<1>3. \A c \in Calls : met[c] \subseteq met'[c]
  BY Grows
<1>4. \A m : Mixed(m) => Mixed(m)'
  BY <1>2, <1>3, Kinds DEF Mixed, ClaimsOf
<1> QED BY <1>2, <1>3, <1>4

LEMMA BothKept ==
    ASSUME StageInv, PP!IInv, BothInv, [MailNext]_mailVars
    PROVE  BothInv'
<1> USE Kinds
<1>0. /\ DOMAIN sending = Mails /\ toAll' = toAll /\ want' = want
      /\ diff \in [Receives -> SUBSET toAll] /\ pc \in [Calls -> Stages]
      /\ pool \subseteq Mails /\ got \subseteq Mails
  BY PoolsGrow DEF StageInv, MailTypeOK
<1>a. /\ \A m \in Mails \ toAll : sending[m] \in {"none", "head", "text"} => m \notin pool \cup got
      /\ \A m \in pool \cap got : m \in toAll /\ Mixed(m)
      /\ \A c \in Receives : \A m \in diff[c] \cap got :
            pc[c] = "add" => \E d \in ClaimsOf(m) : c \in met[d]
  BY DEF BothInv, PoolsDisjoint, Mixed
<1>b. /\ \A m : ClaimsOf(m)' = ClaimsOf(m)
      /\ \A c, d \in Calls : d \in met[c] => d \in met'[c]
      /\ \A m : Mixed(m) => Mixed(m)'
  BY MixedStays
<1>c. \A c, d \in Calls : c # d /\ InWork(c) /\ InWork(d) => d \in met[c]
  BY Facts DEF PipeFacts
<1>1. ASSUME NEW m \in Mails \ toAll, sending'[m] \in {"none", "head", "text"}
      PROVE  m \notin pool' \cup got'
  <2>1. CASE UNCHANGED <<mailbox, want, diff>>
    BY <1>1, <1>a, <2>1 DEF mailbox
  <2>2. ASSUME NEW n \in Mails, SendMail(n) \/ SendFails(n) \/ AddGlobalMail(n) \/ Expire(n)
        PROVE  m \notin pool' \cup got'
    <3>1. /\ got' = got /\ (pool' = pool \/ (pool' = pool \cup {n} /\ sending'[n] \in {"pool", "failed"}))
          /\ sending[m] \in {"none", "head", "text"}
      BY <1>0, <1>1, <2>2 DEF SendMail, SendFails, AddGlobalMail, Expire, AddMailHead, AddMailText,
         AddNewMail, PushMail, Advance
    <3> QED BY <1>1, <1>a, <3>1
  <2>3. ASSUME NEW c \in Claims, NEW how, MoveMail(c, how) PROVE m \notin pool' \cup got'
    BY <1>1, <1>a, <2>3 DEF MoveMail
  <2>4. ASSUME NEW c \in Receives, DiffGlobal(c) PROVE m \notin pool' \cup got'
    BY <1>1, <1>a, <2>4 DEF DiffGlobal, Continue, mailbox
  <2>5. ASSUME NEW c \in Receives, NEW how, AddToPool(c, how) PROVE m \notin pool' \cup got'
    BY <1>0, <1>1, <1>a, <2>5 DEF AddToPool
  <2> QED BY <2>1, <2>2, <2>3, <2>4, <2>5, MailSteps
<1>2. ASSUME NEW m \in pool' \cap got' PROVE m \in toAll /\ Mixed(m)'
  <2>1. CASE UNCHANGED <<mailbox, want, diff>>
    BY <1>2, <1>a, <1>b, <2>1 DEF mailbox
  <2>2. ASSUME NEW n \in Mails, SendMail(n) \/ SendFails(n) \/ AddGlobalMail(n) \/ Expire(n)
        PROVE  m \in toAll /\ Mixed(m)'
    <3>1. /\ got' = got
          /\ pool' = pool \/ (pool' = pool \cup {n} /\ n \notin toAll /\ sending[n] = "text")
      BY <2>2 DEF SendMail, SendFails, AddGlobalMail, Expire, AddMailHead, AddMailText,
         AddNewMail, PushMail, Advance
    <3> QED BY <1>2, <1>a, <1>b, <3>1
  <2>3. ASSUME NEW c \in Claims, NEW how, MoveMail(c, how) PROVE m \in toAll /\ Mixed(m)'
    BY <1>2, <1>a, <1>b, <2>3 DEF MoveMail
  <2>4. ASSUME NEW c \in Receives, DiffGlobal(c) PROVE m \in toAll /\ Mixed(m)'
    BY <1>2, <1>a, <1>b, <2>4 DEF DiffGlobal, Continue, mailbox
  <2>5. ASSUME NEW c \in Receives, NEW how, AddToPool(c, how) PROVE m \in toAll /\ Mixed(m)'
    <3>1. pc[c] = "add" /\ pool' = pool \cup diff[c] /\ got' = got
      BY <2>5 DEF AddToPool
    <3>2. CASE m \in pool
      BY <1>2, <1>a, <1>b, <3>1, <3>2
    <3>3. CASE m \in diff[c]
      <4>1. m \in toAll /\ Mixed(m)
        BY <1>0, <1>2, <1>a, <3>1, <3>3 DEF Mixed
      <4> QED BY <4>1, <1>b
    <3> QED BY <1>2, <3>1, <3>2, <3>3
  <2> QED BY <2>1, <2>2, <2>3, <2>4, <2>5, MailSteps
<1>3. ASSUME NEW c \in Receives, NEW m \in diff'[c] \cap got', pc'[c] = "add"
      PROVE  \E d \in ClaimsOf(m) : c \in met'[d]
  <2>1. CASE DiffGlobal(c)
    BY <1>0, <1>3, <2>1 DEF DiffGlobal, Continue, mailbox
  <2>2. CASE pc[c] = "add" /\ diff'[c] = diff[c] /\ m \in got
    <3>1. PICK d \in ClaimsOf(m) : c \in met[d]
      BY <1>3, <1>a, <2>2
    <3> QED BY <3>1, <1>b DEF ClaimsOf
  <2>3. CASE pc[c] = "add" /\ m \notin got
    <3>1. PICK d \in Claims : \E how : MoveMail(d, how) /\ m = want[d]
      <4>1. ASSUME NEW n \in Mails, SendMail(n) \/ SendFails(n) \/ AddGlobalMail(n) \/ Expire(n)
            PROVE  got' = got
        BY <4>1 DEF SendMail, SendFails, AddGlobalMail, Expire, AddMailHead, AddMailText,
           AddNewMail, PushMail, Advance
      <4>2. ASSUME NEW d \in Receives, DiffGlobal(d) \/ \E how \in {"list", "silent"} : AddToPool(d, how)
            PROVE  got' = got
        BY <4>2 DEF DiffGlobal, AddToPool, Continue, mailbox
      <4>3. PICK d \in Claims : \E how \in {"ok", "silent"} : MoveMail(d, how)
        BY <1>3, <2>3, <4>1, <4>2, MailSteps DEF mailbox
      <4> QED BY <1>3, <2>3, <4>3 DEF MoveMail
    <3>2. d \in ClaimsOf(m) /\ InWork(d) /\ InWork(c) /\ d # c
      BY <2>3, <3>1 DEF ClaimsOf, InWork, Ended, MoveMail, AllWritten
    <3> QED BY <3>2, <1>b, <1>c
  <2> QED BY <1>3, <2>1, <2>2, <2>3, ReceiveSteps
<1> QED BY <1>0, <1>1, <1>2, <1>3, <1>b DEF BothInv, PoolsDisjoint, Mixed

LEMMA ClaimKept ==
    ASSUME StageInv, ClaimInv, [MailNext]_mailVars
    PROVE  ClaimInv'
<1> SUFFICES ASSUME NEW c \in Claims
             PROVE  /\ pc'[c] # "error"
                    /\ pc'[c] \in Past => want'[c] \in pool' \cup got'
                    /\ pc'[c] = "ok" => want'[c] \in got'
                    /\ pc'[c] = "read" /\ pos'[c] > 1 => Bag \in have'[c]
                    /\ pc'[c] = "write" => {Base, Bag} \subseteq have'[c] /\ c \in vals'[c][Base]
  BY DEF ClaimInv
<1> USE Kinds
<1>0. /\ RecordsTypeOK /\ pc \in [Calls -> Stages]
      /\ pool \cup got \subseteq pool' \cup got' /\ got \subseteq got' /\ want' = want
  BY PoolsGrow DEF StageInv, MailTypeOK
<1>a. /\ pc[c] # "error"
      /\ pc[c] \in Past => want[c] \in pool \cup got
      /\ pc[c] = "ok" => want[c] \in got
      /\ pc[c] = "read" /\ pos[c] > 1 => Bag \in have[c]
      /\ pc[c] = "write" => {Base, Bag} \subseteq have[c] /\ c \in vals[c][Base]
  BY DEF ClaimInv
<1>1. CASE pc'[c] = pc[c] /\ pos'[c] = pos[c] /\ have'[c] = have[c] /\ vals'[c] = vals[c]
  BY <1>0, <1>1, <1>a
<1>2. CASE Enter(c, "test")
  BY <1>0, <1>2 DEF Enter, Past
<1>3. CASE ReadNext(c)
  <2>1. Refused(c) = "silent"
    BY DEF Refused
  <2>2. CASE EndAs(c, Refused(c))
    BY <1>0, <2>1, <2>2 DEF EndAs, Past
  <2>3. CASE UNCHANGED pc /\ pos' = [pos EXCEPT ![c] = @ + 1]
    <3>1. pc[c] = "read" /\ pos[c] \in Nat \ {0}
      BY <1>0, <1>3 DEF ReadNext, RecordsTypeOK
    <3>2. have[c] \subseteq have'[c]
      BY <1>0, <1>3 DEF ReadNext, RecordsTypeOK, EndAs, copies
    <3>3. pos[c] = 1 => Bag \in have'[c]
      BY <1>0, <1>3, <2>3, Lengths DEF ReadNext, RecordsTypeOK, EndAs, copies
    <3> QED BY <1>0, <1>a, <2>3, <3>1, <3>2, <3>3 DEF Past
  <2> QED BY <1>3, <2>2, <2>3 DEF ReadNext
<1>4. CASE WriteNext(c)
  BY <1>0, <1>4, <1>a DEF WriteNext, Past
<1>5. CASE Fail(c)
  BY <1>0, <1>5 DEF Fail, EndAs, Refused, Past
<1>6. CASE TestPool(c)
  BY <1>0, <1>6 DEF TestPool, Continue, EndAs, Past
<1>7. CASE GetMailHead(c)
  <2>1. pos[c] = 1 /\ pos'[c] = pos[c]
    BY <1>7 DEF GetMailHead, StageInv, Continue, records, copies
  <2> QED BY <1>0, <1>7, <1>a, <2>1 DEF GetMailHead, Continue, EndAs, Past
<1>8. CASE TakeAttach(c)
  <2>1. PICK touched \in SUBSET Records : Apply(c, touched) /\ Base \in touched
    BY <1>8 DEF TakeAttach
  <2>2. pc[c] = "read" /\ pos[c] > 1
    BY <1>0, <1>8, Lengths DEF TakeAttach, AllRead, RecordsTypeOK
  <2>3. pc'[c] = "write" /\ have'[c] = have[c] \cup touched /\ c \in vals'[c][Base]
    BY <1>0, <2>1 DEF Apply, RecordsTypeOK
  <2> QED BY <1>0, <1>a, <2>1, <2>2, <2>3 DEF Past
<1>9. ASSUME NEW how \in {"ok", "silent"}, MoveMail(c, how)
      PROVE  pc'[c] = how /\ want[c] \in got'
  <2>1. pc[c] = "write"
    BY <1>9 DEF MoveMail, AllWritten
  <2> QED BY <1>0, <1>9, <1>a, <2>1 DEF MoveMail, EndAs, Past
<1>10. CASE \E how \in {"ok", "silent"} : MoveMail(c, how)
  BY <1>0, <1>9, <1>10 DEF Past
<1> QED BY <1>1, <1>2, <1>3, <1>4, <1>5, <1>6, <1>7, <1>8, <1>10, ClaimSteps DEF ClaimStep

LEMMA TwiceKept ==
    ASSUME StageInv, PP!IInv, BothInv, ClaimInv, TwiceInv, [MailNext]_mailVars
    PROVE  TwiceInv'
<1> USE Kinds
<1>b. /\ \A m : ClaimsOf(m)' = ClaimsOf(m)
      /\ \A c, d \in Calls : d \in met[c] => d \in met'[c]
      /\ \A m : Mixed(m) => Mixed(m)'
  BY MixedStays
<1>c. \A c, d \in Calls : /\ c # d /\ InWork(c) /\ InWork(d) => d \in met[c]
                          /\ d \in met[c] => c \in met[d]
  BY Facts DEF PipeFacts
<1>0. pc \in [Calls -> Stages]
  BY DEF StageInv, MailTypeOK
<1>1. ASSUME NEW c \in Claims, pc'[c] \in Past, pc[c] \notin Past
      PROVE  TestPool(c) /\ want[c] \in pool /\ InWork(c)
  <2>1. ClaimStep(c)
    BY <1>1, ClaimSteps
  <2>2. ~ Enter(c, "test") /\ ~ Fail(c)
    BY <1>0, <1>1 DEF Enter, Fail, EndAs, Refused, Past
  <2>3. ~ ReadNext(c) /\ ~ WriteNext(c) /\ ~ GetMailHead(c) /\ ~ TakeAttach(c)
        /\ ~ \E how : MoveMail(c, how)
    BY <1>1 DEF ReadNext, WriteNext, GetMailHead, TakeAttach, AllRead, MoveMail, AllWritten, Past
  <2>4. TestPool(c)
    BY <2>1, <2>2, <2>3 DEF ClaimStep
  <2> QED BY <1>0, <1>1, <2>4 DEF TestPool, Continue, EndAs, Past, InWork, Ended
<1>2. ASSUME NEW m \in Mails, NEW c \in ClaimsOf(m), NEW d \in ClaimsOf(m), c # d,
             pc'[c] \in Past, pc[c] \notin Past, pc[d] \in Past
      PROVE  d \in met[c] \/ Mixed(m)
  <2>1. want[c] \in pool /\ InWork(c) /\ want[c] = m /\ want[d] = m
    BY <1>1, <1>2 DEF ClaimsOf
  <2>2. CASE InWork(d)
    BY <1>2, <1>c, <2>1, <2>2 DEF ClaimsOf
  <2>3. CASE ~ InWork(d)
    <3>1. pc[d] = "ok"
      BY <1>2, <2>3 DEF InWork, Ended, Past
    <3>2. m \in got
      BY <2>1, <3>1 DEF ClaimInv, ClaimsOf
    <3> QED BY <2>1, <3>2 DEF BothInv, PoolsDisjoint, Mixed
  <2> QED BY <2>2, <2>3
<1>3. ASSUME NEW m \in Mails, NEW c \in ClaimsOf(m), NEW d \in ClaimsOf(m), c # d,
             pc'[c] \in Past, pc'[d] \in Past
      PROVE  d \in met[c] \/ Mixed(m)
  <2>1. c \in Claims /\ d \in Claims
    BY DEF ClaimsOf
  <2>2. CASE pc[c] \in Past /\ pc[d] \in Past
    BY <1>3, <2>2 DEF TwiceInv
  <2>3. CASE pc[c] \notin Past /\ pc[d] \in Past
    BY <1>2, <1>3, <2>3
  <2>4. CASE pc[c] \in Past /\ pc[d] \notin Past
    BY <1>2, <1>3, <1>c, <2>1, <2>4
  <2>5. CASE pc[c] \notin Past /\ pc[d] \notin Past
    BY <1>1, <1>3, <1>c, <2>1, <2>5
  <2> QED BY <2>2, <2>3, <2>4, <2>5
<1> QED BY <1>3, <1>b DEF TwiceInv, ClaimsOf

LEMMA PaysKept ==
    ASSUME StageInv, PP!IInv, ClaimInv, PaysInv, [MailNext]_mailVars
    PROVE  PaysInv'
<1> USE Kinds
<1>0. \A m : ClaimsOf(m)' = ClaimsOf(m)
  BY MixedStays
<1>1. ASSUME NEW c \in Claims, {Base, Bag} \subseteq stored[c], c \in vals[c][Base]
      PROVE  {Base, Bag} \subseteq stored'[c] /\ c \in vals'[c][Base]
  BY <1>1, Grows
<1>2. ASSUME NEW c \in Claims, NEW how, MoveMail(c, how)
      PROVE  {Base, Bag} \subseteq stored[c] /\ c \in vals[c][Base]
  <2>1. pc[c] = "write" /\ pos[c] > 2
    BY <1>2, Lengths DEF MoveMail, AllWritten
  <2>2. {Base, Bag} \subseteq have[c] /\ c \in vals[c][Base]
    BY <2>1 DEF ClaimInv
  <2> QED BY <2>1, <2>2, Facts DEF PipeFacts
<1>3. ASSUME NEW m \in got', m \notin got
      PROVE  \E c \in ClaimsOf(m) : {Base, Bag} \subseteq stored[c] /\ c \in vals[c][Base]
  <2>1. ASSUME NEW n \in Mails, SendMail(n) \/ SendFails(n) \/ AddGlobalMail(n) \/ Expire(n)
        PROVE  got' = got
    BY <2>1 DEF SendMail, SendFails, AddGlobalMail, Expire, AddMailHead, AddMailText,
       AddNewMail, PushMail, Advance
  <2>2. ASSUME NEW d \in Receives, DiffGlobal(d) \/ \E how \in {"list", "silent"} : AddToPool(d, how)
        PROVE  got' = got
    BY <2>2 DEF DiffGlobal, AddToPool, Continue, mailbox
  <2>3. PICK c \in Claims : \E how \in {"ok", "silent"} : MoveMail(c, how)
    BY <1>3, <2>1, <2>2, MailSteps DEF mailbox
  <2>4. m = want[c]
    BY <1>3, <2>3 DEF MoveMail
  <2> QED BY <1>2, <2>3, <2>4 DEF ClaimsOf
<1>4. ASSUME NEW m \in got'
      PROVE  \E c \in ClaimsOf(m) : {Base, Bag} \subseteq stored[c] /\ c \in vals[c][Base]
  BY <1>3, <1>4 DEF PaysInv
<1>5. ASSUME NEW m \in got'
      PROVE  \E c \in ClaimsOf(m) : {Base, Bag} \subseteq stored'[c] /\ c \in vals'[c][Base]
  BY <1>1, <1>4, <1>5 DEF ClaimsOf
<1> QED BY <1>0, <1>5 DEF PaysInv

LEMMA MailStart == MailInit => MailInv
<1> SUFFICES ASSUME MailInit PROVE MailInv
  OBVIOUS
<1> USE Kinds
<1>1. HeadsInv /\ BothInv /\ PaysInv
  BY DEF MailInit, HeadsInv, MailsHaveHeads, BothInv, PoolsDisjoint, PaysInv
<1>2. \A c \in Claims : pc[c] = "new"
  BY DEF MailInit, PipeInit
<1>3. ClaimInv /\ TwiceInv
  BY <1>2 DEF ClaimInv, TwiceInv, ClaimsOf, Past
<1> QED BY <1>1, <1>3 DEF MailInv

LEMMA MailInvariant == MailSpec => [](StageInv /\ PP!IInv /\ MailInv)
<1>1. StageInv /\ PP!IInv /\ MailInv /\ [MailNext]_mailVars => MailInv'
  BY HeadsKept, BothKept, ClaimKept, TwiceKept, PaysKept DEF MailInv
<1> QED BY MailStart, PipeHolds, <1>1, PTL DEF MailSpec

-----------------------------------------------------------------------------
(* The theorems. *)

\* Only a mail that was sent to all, and only when one of its claims was in work with a
\* ReceiveMail, can be claimed again (mail_handle.js:86).
THEOREM MailsClaimedOnce == MailSpec => []PoolsDisjoint
<1>1. MailInv => PoolsDisjoint
  BY DEF MailInv, BothInv
<1> QED BY MailInvariant, <1>1, PTL

\* A mail that a player can see has a head until it expires, whatever step of sending
\* fails (mail_imp.js:102-158).
THEOREM SeenMailsHaveHeads == MailSpec => []MailsHaveHeads
<1>1. MailInv => MailsHaveHeads
  BY DEF MailInv, HeadsInv
<1> QED BY MailInvariant, <1>1, PTL

\* Two claims that pay the same mail were in work together, or one was never answered,
\* or ReceiveMail put the mail back (mail_imp.js:380, :455).
THEOREM MailPaidOnce == MailSpec => []PaidOnce
<1>1. StageInv /\ PP!IInv /\ MailInv => PaidOnce
  <2> SUFFICES ASSUME StageInv, PP!IInv, MailInv, NEW m \in Mails,
                      NEW c \in ClaimsOf(m), NEW d \in ClaimsOf(m), c # d,
                      Base \in stored[c], Base \in stored[d], "silent" \notin {pc[c], pc[d]}
               PROVE  d \in met[c] \/ Mixed(m)
    BY DEF PaidOnce, Paid, Mixed
  <2>1. ASSUME NEW e \in Claims, Base \in stored[e], pc[e] # "silent" PROVE pc[e] \in Past
    <3>1. pc[e] \in Stages /\ pc[e] # "error" /\ pc[e] \notin {"new", "test", "head", "read", "diff", "add"}
      BY <2>1, Facts, Kinds DEF PipeFacts, MailInv, ClaimInv, StageInv, MailTypeOK
    <3>2. pc[e] # "list"
      BY Kinds DEF StageInv
    <3> QED BY <2>1, <3>1, <3>2 DEF Stages, Ended, Past
  <2> QED BY <2>1 DEF MailInv, TwiceInv, ClaimsOf
<1> QED BY MailInvariant, <1>1, PTL

\* When a mail is among the claimed ones, the gold is in the base record, or a call in
\* work together with the claim has written that record (mail_imp.js:449-471).
THEOREM ClaimedMailsArrive == MailSpec => []ClaimedArrives
<1>1. StageInv /\ PP!IInv /\ MailInv => ClaimedArrives
  <2> SUFFICES ASSUME StageInv, PP!IInv, MailInv, NEW m \in got
               PROVE  \E c \in ClaimsOf(m) :
                         /\ {Base, Bag} \subseteq stored[c]
                         /\ c \in db[Base] \/ \E d \in met[c] : Base \in stored[d]
    BY DEF ClaimedArrives
  <2>1. PICK c \in ClaimsOf(m) : {Base, Bag} \subseteq stored[c] /\ c \in vals[c][Base]
    BY DEF MailInv, PaysInv
  <2>2. c \in Calls
    BY Kinds DEF ClaimsOf
  <2> QED BY <2>1, <2>2, Facts DEF PipeFacts
<1> QED BY MailInvariant, <1>1, PTL

-----------------------------------------------------------------------------
(* The promise of RecordStore. *)

\* A call has begun, and is over, in its stages of Mail when it is in those of the pipeline.
LEMMA SameStore ==
    ASSUME StageInv, StageInv', [PP!Store!Next]_(PP!Store!vars)
    PROVE  [Store!Next]_(Store!vars)
<1>1. /\ {c \in Calls : Stage[c] # "new"} = {c \in Calls : pc[c] # "new"}
      /\ {c \in Calls : Stage[c] \in PP!Ended} = {c \in Calls : pc[c] \in Ended}
  BY DEF Stage, PipeStage, PP!Ended, Ended
<1>2. /\ {c \in Calls : Stage'[c] # "new"} = {c \in Calls : pc'[c] # "new"}
      /\ {c \in Calls : Stage'[c] \in PP!Ended} = {c \in Calls : pc'[c] \in Ended}
  BY DEF Stage, PipeStage, PP!Ended, Ended
<1> QED BY <1>1, <1>2
           DEF PP!Store!Next, Store!Next, PP!Store!vars, Store!vars, PP!Store!Begin, Store!Begin,
               PP!Store!Store, Store!Store, PP!Store!End, Store!End, PP!Store!InWork, Store!InWork,
               PP!Store!Contended, Store!Contended

\* The records keep what RecordStore promises (agent_handle.js:162-260) also to claims and
\* fetchings of mails, which go through the pipeline (mail_imp.js:358-480).
THEOREM MailImplementsStore == MailSpec => ImplementsStore
<1>1. MailSpec => PP!PipeSpec
  BY StageStart, StageStep, PipeStart, PipeStep, PTL DEF MailSpec, PP!PipeSpec
<1>2. PP!PipeSpec => PP!Store!Init /\ [][PP!Store!Next]_(PP!Store!vars)
  BY Assumed, PP!PipelineImplementsStore DEF PP!ImplementsStore, PP!Store!Spec
<1>3. MailInit => Store!Init
  <2> SUFFICES ASSUME MailInit PROVE Store!Init
    OBVIOUS
  <2>1. \A c \in Calls : pc[c] = "new" /\ pc[c] \notin Ended
    BY DEF MailInit, PipeInit, Ended
  <2> QED BY <2>1 DEF MailInit, PipeInit, Store!Init
<1> QED BY <1>1, <1>2, <1>3, StageStart, StageStep, SameStore, PTL DEF MailSpec, ImplementsStore, Store!Spec

\* With mails among them, too, an answered call finds its change stored, or a call it met has
\* stored the record (agent_handle.js:253), and the base record of a player is the first of
\* his creation (player_handle.js:324).
THEOREM MailsKeepRecords == MailSpec => []AnsweredIsStored /\ []BaseFirst
<1>1. PP!AnsweredIsStored => AnsweredIsStored
  BY DEF Stage, PipeStage, PP!AnsweredIsStored, AnsweredIsStored
<1>2. PP!BaseFirst => BaseFirst
  BY DEF PP!BaseFirst, BaseFirst, PP!RangeOf, RangeOf, PP!Base, Base
<1>3. MailSpec => PP!PipeSpec
  BY StageStart, StageStep, PipeStart, PipeStep, PTL DEF MailSpec, PP!PipeSpec
<1>4. PP!PipeSpec => []PP!AnsweredIsStored
  BY Assumed, PP!AnsweredStored
<1>5. PP!PipeSpec => []PP!BaseFirst
  BY Assumed, PP!BaseRecordFirst
<1> QED BY <1>1, <1>2, <1>3, <1>4, <1>5, PTL
=============================================================================
