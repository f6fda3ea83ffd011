--------------------------------- MODULE Mail ---------------------------------
(***************************************************************************)
(* The mail of one player: mail_imp.js with mail_handle.js.  An operator   *)
(* sends mails, to the player or to all; the player's sessions fetch the   *)
(* mails sent to all (ReceiveMail) and claim what is attached to a mail    *)
(* (getMailAttach).  A claim is a call of the same kind as the game        *)
(* functions of DataPipeline, in work next to them: it reads the bag and   *)
(* the base record, pays into the copies and writes both back.  Around     *)
(* that it tests that the mail is in the player's pool and moves it to the *)
(* pool of claimed mails, in Redis commands of their own.  A mail handler  *)
(* answers only when it succeeds.                                          *)
(***************************************************************************)
EXTENDS DataPipeline

CONSTANTS
    Claims,     \* calls of getMailAttach
    Receives,   \* calls of ReceiveMail
    Mails,      \* ids of mails, as createNewMailID draws them
    LostMails,  \* mails for which Redis may answer with an error
    Bag         \* the record of the player's bag

ASSUME MailAssumption ==
    /\ Claims \subseteq Quiet \ Logins /\ Receives \subseteq Quiet \ (Logins \cup Claims)
    /\ \A c \in Claims : ReadsOf[c] = <<Bag, Base>> /\ WritesOf[c] = <<Base, Bag>>
    /\ \A c \in Receives : ReadsOf[c] = <<>> /\ WritesOf[c] = <<>>
    /\ Bag \in RangeOf(Created) \cap Required /\ Bag # Base

VARIABLES
    toAll,       \* the mails that are sent with sendGlobalMail, the others with sendPersonMail
    sending,     \* sending[m]: the last step of sending m that is done
    head,        \* head[m]: the head with the attachments, kept for ten days
    pool,        \* mailPool: the mails the player may claim
    got,         \* mailGetList: the mails the player has claimed
    globalPool,  \* globalMailPool: the mails every player is to fetch
    want,        \* want[c]: the mail that claim c is for
    diff         \* diff[c]: the mails that call c of ReceiveMail is to add

mailbox == <<toAll, sending, head, pool, got, globalPool>>
records == <<db, present, copies, met, stored>>
mailVars == <<pipeVars, mailbox, want, diff>>

Stages == {"new", "test", "head", "read", "write", "diff", "add", "list"} \cup Ended

MailInit ==
    /\ PipeInit
    /\ toAll \in SUBSET Mails
    /\ sending = [m \in Mails |-> "none"] /\ head = [m \in Mails |-> "none"]
    /\ pool = {} /\ got = {} /\ globalPool = {}
    /\ want \in [Claims -> Mails]
    /\ diff = [c \in Receives |-> {}]

-----------------------------------------------------------------------------
\* Sending: each step is one command, and an error ends it.
Advance(m, from, to) ==
    /\ sending[m] = from
    /\ sending' = [sending EXCEPT ![m] = to]
    /\ UNCHANGED <<pipeVars, toAll, got, want, diff>>

AddMailHead(m, to) ==
    /\ Advance(m, "none", to)
    /\ head' = [head EXCEPT ![m] = "stored"]
    /\ UNCHANGED <<pool, globalPool>>

AddMailText(m, to) ==
    /\ Advance(m, "head", to)
    /\ UNCHANGED <<head, pool, globalPool>>

AddNewMail_Early(m, to) ==   \* mutant: the mail is in the pool before its head is set
    /\ m \notin toAll
    /\ Advance(m, "none", to)
    /\ pool' = pool \cup {m}
    /\ UNCHANGED <<head, globalPool>>

AddNewMail(m, to) ==
    /\ m \notin toAll
    /\ Advance(m, "text", to)
    /\ pool' = pool \cup {m}
    /\ UNCHANGED <<head, globalPool>>

\* The client hears of the mail when the online information names its session.
PushMail(m) ==
    /\ Advance(m, "pool", "done")
    /\ UNCHANGED <<head, pool, globalPool>>

SendMail(m) ==
    AddMailHead(m, "head") \/ AddMailText(m, "text") \/ AddNewMail(m, "pool") \/ PushMail(m)

\* An error of Redis: the command has been executed or not.
SendFails(m) ==
    /\ m \in LostMails
    /\ \/ AddMailHead(m, "failed") \/ AddMailText(m, "failed") \/ AddNewMail(m, "failed")
       \/ /\ sending[m] \notin {"done", "failed"}
          /\ Advance(m, sending[m], "failed") /\ UNCHANGED <<head, pool, globalPool>>

AddGlobalMail_Any(m) ==   \* mutant: a mail to one player is put there, too
    /\ Advance(m, "text", "done")
    /\ globalPool' = globalPool \cup {m}
    /\ UNCHANGED <<head, pool>>

\* sendGlobalMail ends with the text; addGlobalMail is left to the operator's tools.
AddGlobalMail(m) ==
    /\ m \in toAll
    /\ Advance(m, "text", "done")
    /\ globalPool' = globalPool \cup {m}
    /\ UNCHANGED <<head, pool>>

\* Ten days after the head was set; no command of sending takes as long.
Expire(m) ==
    /\ head[m] = "stored" /\ sending[m] \in {"done", "failed"}
    /\ head' = [head EXCEPT ![m] = "expired"]
    /\ UNCHANGED <<pipeVars, toAll, sending, pool, got, globalPool, want, diff>>

-----------------------------------------------------------------------------
\* getMailAttach.
Continue(c, stage) == EndAs(c, stage) /\ UNCHANGED <<records, mailbox, want>>

TestPool_No(c) ==   \* mutant: a mail that is not in the pool is paid, too
    /\ pc[c] = "test"
    /\ Continue(c, "head") /\ UNCHANGED diff

TestPool(c) ==
    /\ pc[c] = "test"
    /\ Continue(c, IF want[c] \in pool THEN "head" ELSE "silent") /\ UNCHANGED diff

GetMailHead(c) ==
    /\ pc[c] = "head"
    /\ Continue(c, IF head[want[c]] = "stored" THEN "read" ELSE "silent") /\ UNCHANGED diff

TakeAttach_Early(c) ==   \* mutant: the records are paid into before they are read
    /\ pc[c] = "read"
    /\ Apply(c, {Base, Bag})
    /\ UNCHANGED <<mailbox, want, diff>>

\* Gold goes to the base record, an item to the bag, unless the bag is full: that is
\* logged and the claim goes on.
TakeAttach(c) ==
    /\ AllRead(c)
    /\ Apply(c, {Base, Bag}) \/ Apply(c, {Base})
    /\ UNCHANGED <<mailbox, want, diff>>

MoveMail_First(c, how) ==   \* mutant: the mail is moved before the records are set
    /\ pc[c] = "write"
    /\ EndAs(c, how)
    /\ pool' = pool \ {want[c]}
    /\ got' = IF want[c] \in pool THEN got \cup {want[c]} ELSE got
    /\ UNCHANGED <<records, toAll, sending, head, globalPool, want, diff>>

\* smove does nothing when the mail is not in the pool (any more); nobody asks.
MoveMail(c, how) ==
    /\ AllWritten(c)
    /\ EndAs(c, how)
    /\ pool' = pool \ {want[c]}
    /\ got' = IF want[c] \in pool THEN got \cup {want[c]} ELSE got
    /\ UNCHANGED <<records, toAll, sending, head, globalPool, want, diff>>

ClaimStep(c) ==
    \/ (Enter(c, "test") \/ ReadNext(c) \/ WriteNext(c) \/ Fail(c))
          /\ UNCHANGED <<mailbox, want, diff>>
    \/ TestPool(c) \/ GetMailHead(c) \/ TakeAttach(c)
    \/ MoveMail(c, "ok")
    \/ c \in Faults /\ MoveMail(c, "silent")

-----------------------------------------------------------------------------
\* ReceiveMail.
DiffGlobal_All(c) ==   \* mutant: mails that were claimed are added again
    /\ pc[c] = "diff"
    /\ diff' = [diff EXCEPT ![c] = globalPool]
    /\ Continue(c, IF diff'[c] = {} THEN "list" ELSE "add")

DiffGlobal(c) ==
    /\ pc[c] = "diff"
    /\ diff' = [diff EXCEPT ![c] = globalPool \ got]
    /\ Continue(c, IF diff'[c] = {} THEN "list" ELSE "add")

AddToPool(c, how) ==
    /\ pc[c] = "add"
    /\ EndAs(c, how)
    /\ pool' = pool \cup diff[c]
    /\ UNCHANGED <<records, toAll, sending, head, got, globalPool, want, diff>>

ListHeads(c) == pc[c] = "list" /\ Continue(c, "ok") /\ UNCHANGED diff

ReceiveStep(c) ==
    \/ (Enter(c, "diff") \/ Fail(c)) /\ UNCHANGED <<mailbox, want, diff>>
    \/ DiffGlobal(c) \/ AddToPool(c, "list") \/ ListHeads(c)
    \/ c \in Faults /\ AddToPool(c, "silent")

MailNext ==
    \/ \E m \in Mails : SendMail(m) \/ SendFails(m) \/ AddGlobalMail(m) \/ Expire(m)
    \/ \E c \in Claims : ClaimStep(c)
    \/ \E c \in Receives : ReceiveStep(c)
    \/ \E c \in Calls \ (Claims \cup Receives) : CallStep(c) /\ UNCHANGED <<mailbox, want, diff>>

MailSpec == MailInit /\ [][MailNext]_mailVars
-----------------------------------------------------------------------------
MailTypeOK ==
    /\ RecordsTypeOK
    /\ pc \in [Calls -> Stages]
    /\ DOMAIN sending = Mails /\ DOMAIN head = Mails
    /\ pool \subseteq Mails /\ got \subseteq Mails /\ globalPool \subseteq toAll
    /\ toAll \subseteq Mails
    /\ want \in [Claims -> Mails] /\ diff \in [Receives -> SUBSET toAll]

\* The calls of the mail handlers are calls of the pipeline (mail_imp.js:358-480):
\* before the first record they are in their first stage, whatever they test.
PipeStage(stage) ==
    IF stage \in {"test", "head", "diff", "add"} THEN "read"
    ELSE IF stage = "list" THEN "write" ELSE stage
Pipe == INSTANCE DataPipeline
           WITH Faults <- Calls, pc <- [c \in Calls |-> PipeStage(pc[c])]
RunsPipeline == Pipe!PipeSpec

Paid(c) == Base \in stored[c]
ClaimsOf(m) == {c \in Claims : want[c] = m}

\* A mail is paid once (mail_imp.js:380, :455), except to claims that were in work
\* together, after a claim that met an error and was never answered, and when a
\* ReceiveMail was in work together with a claim and puts the mail back.
PaidOnce ==
    \A m \in Mails : \A c, d \in ClaimsOf(m) :
       c # d /\ Paid(c) /\ Paid(d) =>
          \/ d \in met[c]
          \/ "silent" \in {pc[c], pc[d]}
          \/ \E e \in ClaimsOf(m) : Receives \cap met[e] # {}

\* When a mail has been claimed, the gold is in the base record, or a call that was
\* in work together with the claim has written that record (mail_imp.js:449-471).
ClaimedArrives ==
    \A m \in got : \E c \in ClaimsOf(m) :
       /\ {Base, Bag} \subseteq stored[c]
       /\ c \in db[Base] \/ \E d \in met[c] : Base \in stored[d]

\* A mail is to be claimed and claimed at once only if it was sent to all and a claim
\* was in work together with a ReceiveMail (mail_handle.js:86).
PoolsDisjoint ==
    \A m \in pool \cap got :
       m \in toAll /\ \E c \in ClaimsOf(m) : Receives \cap met[c] # {}

\* A mail that a player can see has a head, until it expires, and one that was pushed
\* to his client is or was in the pool, whatever step of sending fails (mail_imp.js:102-158).
MailsHaveHeads ==
    /\ \A m \in pool \cup got \cup globalPool : head[m] # "none"
    /\ \A m \in Mails \ toAll : sending[m] = "done" => m \in pool \cup got
=============================================================================
