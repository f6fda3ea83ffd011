---------------------------- MODULE SessionTable ----------------------------
(***************************************************************************)
(* The clients of one connection process: module/net/socket/session.js and *)
(* the part of websocket.js that feeds it.  A client's messages wait in    *)
(* the session's queue; the first one is with the game, which replies some *)
(* time later, from any process, once, several times or never.  Messages   *)
(* are numbered per session in the order they arrive.                      *)
(***************************************************************************)
EXTENDS TwoArrayQueue, FiniteSets

CONSTANTS Sids,             \* session ids: Redis INCR, never drawn twice
          maxConnections,
          MaxMsgs,          \* bound: messages of one client
          MsgsOf,           \* bound: messages of each client
          MaxReplies,       \* bound: replies to one message
          MaxLost           \* bound: messages of one client that are lost

ASSUME SessionAssumption ==
    /\ IsFiniteSet(Sids)
    /\ MsgsOf \in [Sids -> 0..MaxMsgs]
    /\ {maxConnections, MaxMsgs, MaxReplies, MaxLost} \subseteq Nat

VARIABLES
    phase,        \* "new", "asking" for an id, "open", "refused", "orphan" or "gone"
    socket,       \* socket[s]: the client's connection is up
    recent,       \* recent[s]: _lasthealth is within _HealthTime
    connectNum,   \* _connectNum
    running,      \* stop() was not called
    queue,        \* queue[s]: session._queue
    arrived,      \* history: the messages that came from s
    lost,         \* lost[s]: those the server will never answer
    emitted,      \* history: the numbers of the messages given to the game
    nreply,       \* history: nreply[s][n], calls of reply for message n
    answers       \* history: the messages the client got an answer to, in order

linkVars == <<phase, socket, recent, connectNum, running>>
mailVars == <<queue, arrived, lost, emitted, nreply, answers>>
sessionVars == <<linkVars, mailVars>>

Numbers == 1..MaxMsgs

\* The keys of _sessionHandler.
Open == {s \in Sids : phase[s] = "open"}

SessionInit ==
    /\ phase = [s \in Sids |-> "new"]
    /\ socket = [s \in Sids |-> FALSE]
    /\ recent = [s \in Sids |-> FALSE]
    /\ connectNum = 0
    /\ running = TRUE
    /\ queue = [s \in Sids |-> EmptyQueue]
    /\ arrived = [s \in Sids |-> 0]
    /\ lost = [s \in Sids |-> {}]
    /\ emitted = [s \in Sids |-> <<>>]
    /\ nreply = [s \in Sids |-> [n \in Numbers |-> 0]]
    /\ answers = [s \in Sids |-> <<>>]
-----------------------------------------------------------------------------
(* destroy *)

Destroy_Twice(ss) ==   \* mutant: counts sessions that are not in the table any more
    /\ phase' = [s \in Sids |-> IF s \in ss /\ phase[s] = "open" THEN "gone" ELSE phase[s]]
    /\ connectNum' = connectNum - Cardinality({s \in ss : phase[s] \in {"open", "gone"}})

\* Sessions leave the table; what they hold stays with their listeners.
Destroy(ss) ==
    /\ phase' = [s \in Sids |-> IF s \in ss \cap Open THEN "gone" ELSE phase[s]]
    /\ connectNum' = connectNum - Cardinality(ss \cap Open)

\* Whoever closes the socket, its close event comes once; a session created
\* after it is not told.
CloseEvent(s) ==
    /\ socket[s]
    /\ socket' = [socket EXCEPT ![s] = FALSE]
    /\ Destroy({s})
    /\ UNCHANGED <<recent, running, mailVars>>

Kick(s) ==
    /\ Destroy({s})
    /\ UNCHANGED <<socket, recent, running, mailVars>>

\* _lasthealth falls behind.
FallSilent(s) ==
    /\ recent[s]
    /\ recent' = [recent EXCEPT ![s] = FALSE]
    /\ UNCHANGED <<phase, socket, connectNum, running, mailVars>>

CheckHealth_Idle ==   \* mutant: a session with a message in work is left alone
    /\ running
    /\ Destroy({s \in Open : ~recent[s] /\ GetLength(queue[s]) = 0})
    /\ UNCHANGED <<socket, recent, running, mailVars>>

CheckHealth ==
    /\ running
    /\ Destroy({s \in Open : ~recent[s]})
    /\ UNCHANGED <<socket, recent, running, mailVars>>

Stop ==
    /\ running /\ running' = FALSE
    /\ Destroy(Open)
    /\ UNCHANGED <<socket, recent, mailVars>>
-----------------------------------------------------------------------------
(* createSession *)

\* The connection event: the session id is asked from Redis.
Connect(s) ==
    /\ running /\ phase[s] = "new"
    /\ phase' = [phase EXCEPT ![s] = "asking"]
    /\ socket' = [socket EXCEPT ![s] = TRUE]
    /\ UNCHANGED <<recent, connectNum, running, mailVars>>

\* Redis failed: the client stays connected to nobody.
SIdFails(s) ==
    /\ phase[s] = "asking"
    /\ phase' = [phase EXCEPT ![s] = "orphan"]
    /\ UNCHANGED <<socket, recent, connectNum, running, mailVars>>

\* The client may have gone, or sent messages nobody heard, in between.
CreateSession(s) ==
    /\ phase[s] = "asking"
    /\ \/ /\ connectNum >= maxConnections
          /\ phase' = [phase EXCEPT ![s] = "refused"]
          /\ UNCHANGED <<recent, connectNum>>
       \/ /\ connectNum < maxConnections
          /\ phase' = [phase EXCEPT ![s] = "open"]
          /\ recent' = [recent EXCEPT ![s] = TRUE]
          /\ connectNum' = connectNum + 1
    /\ UNCHANGED <<socket, running, mailVars>>
-----------------------------------------------------------------------------
(* the message listener and reply *)

EmitFirst(s, q) == emitted' = [emitted EXCEPT ![s] = Append(@, First(q))]

Message_Eager(s) ==   \* mutant: two messages may be in work
    /\ arrived[s] < MsgsOf[s]
    /\ arrived' = [arrived EXCEPT ![s] = @ + 1]
    /\ queue' = [queue EXCEPT ![s] = Push(@, arrived'[s])]
    /\ IF GetLength(queue'[s]) <= 2
       THEN emitted' = [emitted EXCEPT ![s] = Append(@, arrived'[s])] ELSE UNCHANGED emitted

\* The listener outlives the session: it was given the session object.
Message(s) ==
    /\ arrived[s] < MsgsOf[s]
    /\ arrived' = [arrived EXCEPT ![s] = @ + 1]
    /\ queue' = [queue EXCEPT ![s] = Push(@, arrived'[s])]
    /\ IF GetLength(queue'[s]) = 1 THEN EmitFirst(s, queue'[s]) ELSE UNCHANGED emitted

\* A message comes.  It is lost when unpack or pack rejects it or its reply
\* (websocket.js:50-58, 76-83), or when the process that worked on it is gone.
Receive(s) ==
    /\ socket[s] /\ phase[s] \in {"open", "gone"}
    /\ Message(s)
    /\ recent' = [recent EXCEPT ![s] = TRUE]
    /\ \/ UNCHANGED lost
       \/ /\ Cardinality(lost[s]) < MaxLost
          /\ lost' = [lost EXCEPT ![s] = @ \cup {arrived'[s]}]
    /\ UNCHANGED <<phase, socket, connectNum, running, nreply, answers>>

Advance_NoEmit(s) ==   \* mutant: nobody looks for the next message
    /\ queue' = [queue EXCEPT ![s] = Shift(@)]
    /\ UNCHANGED emitted

Advance_NoShift(s) ==   \* mutant: the message that was answered stays first
    /\ UNCHANGED queue
    /\ IF GetLength(queue[s]) > 0 THEN EmitFirst(s, queue[s]) ELSE UNCHANGED emitted

Advance(s) ==
    /\ queue' = [queue EXCEPT ![s] = Shift(@)]
    /\ IF GetLength(queue'[s]) > 0 THEN EmitFirst(s, queue'[s]) ELSE UNCHANGED emitted

\* The game replies to message n, through replyEx.  A reply to a session that is
\* gone is dropped.
Reply(s, n) ==
    /\ \E i \in 1..Len(emitted[s]) : emitted[s][i] = n
    /\ n \notin lost[s] /\ nreply[s][n] < MaxReplies
    /\ nreply' = [nreply EXCEPT ![s][n] = @ + 1]
    /\ \/ /\ phase[s] = "open"
          /\ answers' = [answers EXCEPT ![s] = Append(@, n)]
          /\ Advance(s)
       \/ /\ phase[s] # "open"
          /\ UNCHANGED <<answers, queue, emitted>>
    /\ UNCHANGED <<linkVars, arrived, lost>>

FirstReply(s, n) == nreply[s][n] = 0 /\ Reply(s, n)
-----------------------------------------------------------------------------
SessionNext ==
    \/ \E s \in Sids :
          \/ Connect(s) \/ SIdFails(s) \/ CreateSession(s)
          \/ Receive(s) \/ \E n \in Numbers : Reply(s, n)
          \/ CloseEvent(s) \/ Kick(s) \/ FallSilent(s)
    \/ CheckHealth
    \/ Stop

SessionSpec == SessionInit /\ [][SessionNext]_sessionVars

\* A client whose connection is gone sends nothing while the clock goes on.
Forsaken(s) == ~socket[s] /\ FallSilent(s)

\* The interval timer keeps running, and the game answers what it can answer.
\* Nothing obliges a client that is connected to speak, to close or to fall silent.
SessionFairness ==
    /\ WF_sessionVars(CheckHealth)
    /\ \A s \in Sids : WF_sessionVars(Forsaken(s))
    /\ \A s \in Sids, n \in Numbers : WF_sessionVars(FirstReply(s, n))

SessionFairSpec == SessionSpec /\ SessionFairness
-----------------------------------------------------------------------------
\* Types of the session table, its queues well formed.
SessionTypeOK ==
    /\ phase \in [Sids -> {"new", "asking", "open", "refused", "orphan", "gone"}]
    /\ socket \in [Sids -> BOOLEAN] /\ recent \in [Sids -> BOOLEAN]
    /\ connectNum \in Int /\ running \in BOOLEAN
    /\ queue \in [Sids -> Queues(Numbers)]
    /\ arrived \in [Sids -> Nat] /\ \A s \in Sids : arrived[s] <= MsgsOf[s]
    /\ lost \in [Sids -> SUBSET Numbers]
    /\ emitted \in [Sids -> Seq(Numbers)]
    /\ nreply \in [Sids -> [Numbers -> Nat]]
    /\ answers \in [Sids -> Seq(Numbers)]

\* _connectNum (session.js:75) counts the sessions in the table, whichever of the
\* timer, the close event, kick and stop removes a session, and in whatever order
\* they find out; so the limit of createSession (session.js:140) is the limit.
ConnectCount == connectNum = Cardinality(Open) /\ connectNum <= maxConnections

\* What the queue q and the history e of a session say about its a messages.
Ordered(a, q, e) ==
    LET n == GetLength(q)
    IN  /\ \A i \in 1..n : Item(q, i) = a - n + i
        /\ Len(e) = a - (IF n = 0 THEN 0 ELSE n - 1)
        /\ \A i \in 1..Len(e) : e[i] = i

\* Every message is given to the game once, in the order of arrival, and a queue
\* that is not empty has its first message with the game: nothing waits behind
\* nothing (session.js:108-114, 178-192), although replies come twice or late.
InOrder == \A s \in Sids : Ordered(arrived[s], queue[s], emitted[s])

\* The calls of reply for messages that had a reply already.
Superfluous(s) == {r \in Numbers \X (2..MaxReplies) : r[2] <= nreply[s][r[1]]}
ExtraReplies(s) == Cardinality(Superfluous(s))

\* The game works on one message of a client at a time (session.js:111-114): two
\* are in work together only when some message was answered twice, and at most
\* one more for each superfluous answer.
OneAtATime ==
    \A s \in Sids :
       Cardinality({n \in Numbers : n <= Len(emitted[s]) /\ nreply[s][n] = 0})
          <= 1 + ExtraReplies(s)

\* Without a superfluous answer the client hears the answers in the order of its
\* messages, none left out (session.js:178-192).
AnswersInOrder ==
    \A s \in Sids :
       ExtraReplies(s) = 0 => \A i \in 1..Len(answers[s]) : answers[s][i] = i

\* A session whose client was silent for _HealthTime, or was gone already when
\* createSession attached the listeners (websocket.js:33), leaves the table unless
\* the client is there and speaks up (session.js:53-64), even with messages of it
\* still in work: the timer stands in for the close event; stop() ends it.
SilentDropped ==
    \A s \in Sids :
       (s \in Open /\ ~(recent[s] /\ socket[s]))
          ~> (s \notin Open \/ (recent[s] /\ socket[s]) \/ ~running)

\* A message is answered unless its session ends or a message before it is lost
\* (session.js:178-192): the answer to each message lets the next one through.
AnsweredBehindAnswerable ==
    \A s \in Sids, n \in Numbers :
       (n <= arrived[s] /\ lost[s] \cap 1..n = {})
          ~> (nreply[s][n] > 0 \/ s \notin Open \/ ~running)

\* "the server answers every message of the client, heartbeats too, at once"
\* (session.js:48): every message the server can answer, it does answer.
EveryMessageAnswered ==
    \A s \in Sids, n \in Numbers :
       (n <= arrived[s] /\ n \notin lost[s])
          ~> (nreply[s][n] > 0 \/ s \notin Open \/ ~running)

\* The sessions keep the promise of Mailbox (session.js:101-130, 178-194).
Mail == INSTANCE Mailbox WITH busy <- {s \in Sids : GetLength(queue[s]) > 0}
ImplementsMailbox == Mail!Spec
=============================================================================
