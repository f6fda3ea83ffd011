---------------------------- MODULE DataPipeline ----------------------------
(***************************************************************************)
(* How game functions change the records of players: bindFunCallback of    *)
(* agent_handle.js with the handlers that handle_gen.js makes from the     *)
(* configuration.  A call reads the records its function is configured to  *)
(* read, one after the other, runs the function on the copies, and writes  *)
(* back the records it is configured to write, one after the other; only   *)
(* single Redis commands are atomic.  loadPlayerInfo is a call, too: it    *)
(* reads the base record and creates the player when there is none.        *)
(*                                                                         *)
(* What a function does to a record is abstracted to one fact: the record  *)
(* carries the change of that call from then on, as long as nobody writes  *)
(* a copy that was read without it.                                        *)
(***************************************************************************)
EXTENDS Naturals, Sequences

CONSTANTS
    Calls,      \* calls of handlers, by all sessions
    SessionOf,  \* the session a call arrives on
    Logins,     \* calls of loadPlayerInfo
    LoggedIn,   \* sessions that have logged in before
    Quiet,      \* calls whose handler does not reply when it meets an error
    Records,    \* keys of Redis: of the player, of the area, of all
    Required,   \* records read with get or hgetall: an absent one is an error
    ReadsOf,    \* the records a call reads, in the order of the handlers
    WritesOf,   \* the records a call writes, in the order of the handlers
    Created,    \* the records createPlayerInfo writes, in its order
    Faults      \* the calls that Redis may answer with an error

RangeOf(s) == {s[i] : i \in 1..Len(s)}
Base == Created[1]

\* The flags of DataConfig.js: functions write what they have read, but for setMaxPower
\* and rollHero, which are left out with the records they write unread; and who writes
\* a record of the player has read one that has to be there.  The functions that lack
\* the latter, adapterSkillSlot and createHero, write no hero when there is none.
ASSUME PipelineAssumption ==
    /\ Logins \subseteq Calls /\ Quiet \subseteq Calls /\ Required \subseteq Records
    /\ ReadsOf \in [Calls -> Seq(Records)] /\ WritesOf \in [Calls -> Seq(Records)]
    /\ Created \in Seq(Records) /\ Len(Created) > 0
    /\ \A c \in Calls \ Logins : RangeOf(WritesOf[c]) \subseteq RangeOf(ReadsOf[c])
    /\ \A c \in Calls \ Logins : RangeOf(WritesOf[c]) \cap RangeOf(Created) # {} =>
          RangeOf(ReadsOf[c]) \cap RangeOf(Created) \cap Required # {}
    /\ \A c \in Logins : ReadsOf[c] = <<Base>> /\ WritesOf[c] = Created
    /\ \A i \in 2..Len(Created) : Created[i] # Base

VARIABLES
    db,       \* Redis: the calls whose change a record carries
    present,  \* Redis: the records that exist
    pc,       \* pc[c]: how far call c is; "ok", "error", "silent" when it has ended
    pos,      \* pos[c]: the next of the records to read, or to write
    vals,     \* vals[c]: dataValue, the copies c works on
    have,     \* have[c]: the records dataValue has a value for
    met,      \* history: the calls that were in work together with c
    stored    \* history: the records c has written

copies == <<pos, vals, have>>
pipeVars == <<db, present, pc, copies, met, stored>>

Ended == {"ok", "error", "silent"}
InWork(c) == pc[c] # "new" /\ pc[c] \notin Ended

PipeInit ==
    /\ db = [r \in Records |-> {}]
    /\ \/ present = Records
       \/ LoggedIn = {} /\ present = Records \ RangeOf(Created)
    /\ pc = [c \in Calls |-> "new"]
    /\ pos = [c \in Calls |-> 1]
    /\ vals = [c \in Calls |-> [r \in Records |-> {}]]
    /\ have = [c \in Calls |-> {}]
    /\ met = [c \in Calls |-> {}]
    /\ stored = [c \in Calls |-> {}]

-----------------------------------------------------------------------------
\* The session hands over one message at a time (SessionTable), so a call begins
\* when the one before is answered; one that is never answered is the last.  Only
\* a session that has logged in has a record for getSession to find; the connector makes
\* it whatever loadPlayerInfo has answered.
Enter(c, stage) ==
    /\ pc[c] = "new"
    /\ \A d \in Calls : SessionOf[d] = SessionOf[c] => pc[d] \in {"new", "ok", "error"}
    /\ \/ c \in Logins \/ SessionOf[c] \in LoggedIn
       \/ \E d \in Logins : SessionOf[d] = SessionOf[c] /\ pc[d] \in {"ok", "error"}
    /\ pc' = [pc EXCEPT ![c] = stage]
    /\ met' = [d \in Calls |->
                  IF d = c THEN {e \in Calls : InWork(e)}
                  ELSE IF InWork(d) THEN met[d] \cup {c} ELSE met[d]]
    /\ UNCHANGED <<db, present, copies, stored>>

Begin(c) == Enter(c, "read")

\* The answer to the client, or the log line instead of it.
Refused(c) == IF c \in Quiet THEN "silent" ELSE "error"
EndAs(c, how) == pc' = [pc EXCEPT ![c] = how]

ReadNext(c) ==
    /\ pc[c] = "read" /\ pos[c] <= Len(ReadsOf[c])
    /\ LET r == ReadsOf[c][pos[c]]
       IN  IF r \in present
           THEN /\ vals' = [vals EXCEPT ![c][r] = db[r]]
                /\ have' = [have EXCEPT ![c] = @ \cup {r}]
                /\ pos' = [pos EXCEPT ![c] = @ + 1]
                /\ UNCHANGED pc
           ELSE IF r \in Required /\ c \notin Logins
           THEN EndAs(c, Refused(c)) /\ UNCHANGED copies
           ELSE pos' = [pos EXCEPT ![c] = @ + 1] /\ UNCHANGED <<pc, vals, have>>
    /\ UNCHANGED <<db, present, met, stored>>

\* The copies that the function changes, and those it makes.
Apply(c, touched) ==
    /\ pc' = [pc EXCEPT ![c] = "write"]
    /\ pos' = [pos EXCEPT ![c] = 1]
    /\ vals' = [vals EXCEPT ![c] =
                   [r \in Records |-> IF r \in touched THEN @[r] \cup {c} ELSE @[r]]]
    /\ have' = [have EXCEPT ![c] = @ \cup touched]
    /\ UNCHANGED <<db, present, met, stored>>

AllRead(c) == pc[c] = "read" /\ pos[c] > Len(ReadsOf[c])

\* The game function runs, on all or some of its records, or rejects the call.
Run(c) ==
    /\ AllRead(c) /\ c \notin Logins
    /\ \/ \E touched \in SUBSET RangeOf(WritesOf[c]) : Apply(c, touched)
       \/ EndAs(c, Refused(c)) /\ UNCHANGED <<db, present, copies, met, stored>>

\* loadPlayerInfo has found the player, or starts to create one.
LoadOrCreate(c) ==
    /\ AllRead(c) /\ c \in Logins
    /\ IF Base \in have[c]
       THEN EndAs(c, "ok") /\ UNCHANGED <<db, present, copies, met, stored>>
       ELSE Apply(c, RangeOf(Created))

Stored_Backwards(c) ==   \* mutant: the records are set in the reverse order
    LET r == WritesOf[c][Len(WritesOf[c]) + 1 - pos[c]]
    IN  /\ r \in have[c]
        /\ db' = [db EXCEPT ![r] = vals[c][r]]
        /\ present' = present \cup {r}
        /\ stored' = [stored EXCEPT ![c] = @ \cup {r}]

\* The next record is set in Redis; a record without a value is passed over.
Stored(c) ==
    LET r == WritesOf[c][pos[c]]
    IN  /\ r \in have[c]
        /\ db' = [db EXCEPT ![r] = vals[c][r]]
        /\ present' = present \cup {r}
        /\ stored' = [stored EXCEPT ![c] = @ \cup {r}]

WriteNext(c) ==
    /\ pc[c] = "write" /\ pos[c] <= Len(WritesOf[c])
    /\ \/ Stored(c)
       \/ WritesOf[c][pos[c]] \notin have[c] /\ UNCHANGED <<db, present, stored>>
    /\ pos' = [pos EXCEPT ![c] = @ + 1]
    /\ UNCHANGED <<pc, vals, have, met>>

AllWritten_Early(c) ==   \* mutant: the answer does not wait for the last record
    pc[c] = "write" /\ pos[c] >= Len(WritesOf[c])

AllWritten(c) == pc[c] = "write" /\ pos[c] > Len(WritesOf[c])

Answer(c) ==
    /\ AllWritten(c)
    /\ EndAs(c, "ok")
    /\ UNCHANGED <<db, present, copies, met, stored>>

\* Redis answers with an error, or the connection breaks: what was written stays,
\* the write in progress has been executed or not.
Fail(c) ==
    /\ c \in Faults /\ InWork(c)
    /\ EndAs(c, Refused(c))
    /\ \/ pc[c] = "write" /\ pos[c] <= Len(WritesOf[c]) /\ Stored(c)
       \/ UNCHANGED <<db, present, stored>>
    /\ UNCHANGED <<copies, met>>

CallStep(c) ==
    \/ Begin(c) \/ ReadNext(c) \/ Run(c) \/ LoadOrCreate(c)
    \/ WriteNext(c) \/ Answer(c) \/ Fail(c)

PipeNext == \E c \in Calls : CallStep(c)
PipeSpec == PipeInit /\ [][PipeNext]_pipeVars

-----------------------------------------------------------------------------
RecordsTypeOK ==
    /\ db \in [Records -> SUBSET Calls]
    /\ present \subseteq Records
    /\ pos \in [Calls -> Nat \ {0}]
    /\ vals \in [Calls -> [Records -> SUBSET Calls]]
    /\ have \in [Calls -> SUBSET Records]
    /\ met \in [Calls -> SUBSET Calls]
    /\ stored \in [Calls -> SUBSET Records]

PipeTypeOK == RecordsTypeOK /\ pc \in [Calls -> {"new", "read", "write"} \cup Ended]

\* The records keep what RecordStore promises (agent_handle.js:162-260): a call that
\* nobody else's store of the record overlaps adds its change and keeps all others,
\* also when players are created twice (player_handle.js:324) and writes fail half way.
Store == INSTANCE RecordStore
            WITH begun <- {c \in Calls : pc[c] # "new"},
                 over <- {c \in Calls : pc[c] \in Ended}
ImplementsStore == Store!Spec

\* A call that was answered with success (agent_handle.js:253) finds its change in
\* every record it touched, or a call it met has written that record.
AnsweredIsStored ==
    \A c \in Calls : pc[c] = "ok" =>
       \A r \in Records : c \in vals[c][r] =>
          c \in db[r] \/ \E d \in met[c] : r \in stored[d]

\* Nothing of a player exists before the base record does (player_handle.js:324), also
\* when his creation fails half way and he plays on (conn_imp.js:108): a login that finds
\* no base record may write the others without looking.
BaseFirst == Base \notin present => \A r \in RangeOf(Created) : db[r] = {}
=============================================================================
