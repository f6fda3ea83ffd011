# A verification development for the tinygame server

`src/pack` holds the server of a mobile game: a set of Node.js processes that
talk through a ZeroMQ router, Redis for everything that lasts, and game
functions that read and write a player's records. `src/pack/dependency` is
vendored code (Node.js, Lua, libraries); of it only the queues of ZeroMQ are
looked at, where the model of the network rests on them.

These modules model the parts whose correctness depends on the order of
events: the message router with its workers and callers, the table of client
connections, logging in, the pipeline in which game functions read and write
the records of players, and two users of it, mail and the daily tournament. TLC
checks them on small instances; TLAPS proves the most important results for any
number of workers, requests, clients, sessions, players, calls and records.

Paths below are relative to `src/pack`.

## 1. The system

### Processes and how they interact

    client --websocket--> conn --.                 .--> loc  (game functions)
    client --websocket--> gate --+--> route -------+--> chat
                                 |   (the broker)  +--> pvp, gm
                                 '---- conn <------'         |
                                        every process --> Redis

A client asks `gate` for a `conn` process, opens a websocket to it and sends
messages. `conn` hands each message to a handler of its own or, through the
broker, to a process of the type that serves it. A handler answers through
`onResponse`, which finds its way back to the client's session. Processes call
each other in the same way, and may broadcast to all processes of a type.

### Components

| component | files | state it keeps | operations | status |
|---|---|---|---|---|
| broker | `module/net/mdp/broker.js` | `workers` with liveness and load, `reqmap`, `castmsg`, `clientmap` | route a request to a type, to all of it, to one worker; take replies and heartbeats; kick silent workers | modelled |
| request sockets | `module/net/mdp/request.js` | `reqs`, one object with a liveness per open request | send, broadcast, hear answers, time requests out | modelled |
| worker sockets | `module/net/mdp/worker.js` | liveness of the broker, time of the last beat | connect, beat, receive, reply, reconnect | modelled |
| rpc dispatch | `module/net/mdp/remote_proxy.js` | `callbackCache`, the handle of each server type | call, dispatch, reply | partly |
| client sessions | `module/net/socket/session.js`, `queue.js` | `_sessionHandler`, `_connectNum`, one two-array queue per session | create, receive, reply, check health, kick, stop | modelled |
| websocket server | `module/net/socket/websocket.js`, `protocol.js` | none of its own | draw a session id, unpack, pack | partly |
| message encoding | `parse.js`, `proto.js`, `serialize/` | none | encode and decode | not modelled |
| conn handlers | `server/conn.js`, `server_imp/conn_imp.js` | `sessionMap`, `playerNums` | login, exit, kick, push | partly |
| gate | `server/gate.js`, `gate_imp.js` | the cached load of each `conn` | choose a process | modelled |
| chat | `server/chat.js`, `chat_imp.js` | none | relay | planned |
| data pipeline | `dataprocess/agent_handle.js`, `handle_gen.js` | none; works on Redis | read records, run a function, write them back | modelled |
| redis client | `dataprocess/redis/redis_client.js` | session and online tables, records | get, set, expire | partly |
| mail | `module/mail`, `mail_handle.js` | mail pools in Redis | send, fetch, list, claim | partly |
| players | `module/player`, `player_handle.js` | records in Redis | create, currencies | partly |
| bag and items | `module/bag`, `module/item` | stacks | add, take, use | planned |
| pvp | `server/pvp*.js`, `module/pvp` | enrolment lists, rankings | enrol, fight, reward | partly |
| robots | `module/robot` | robot objects shared by all robots | give a robot for an id | partly |
| map and idle rewards | `module/map`, `fight/hangup_imp.js`, `module/afk` | nodes, afk times | travel, collect | planned |
| heroes, equipment, skills | `module/hero`, `module/equip` | records in Redis | formulas over tables | not modelled |
| loc, gm, small services | `server/loc.js`, `module/cmd`, `lru.js`, `schedule`, `sdk`, `log` | little or none | bind, pass on | not modelled |

### What makes each hard, and what makes it correct

- **Broker.** Workers fall silent, are kicked and come back while their answers
  are on the way; the broker restarts with empty tables. Correct: nobody waits
  for a worker the broker has forgotten, every call ends once, the load counter
  is right.
- **Workers and callers.** Heartbeats are skipped after a reply; reconnecting
  loses messages; requests time out while their answer comes. Correct: a
  callback runs once, dead workers are given up, running ones found again.
- **Sessions.** Four paths destroy a session, some in the same tick; the next
  message of a client waits for the reply to the one before, and some handlers
  reply twice or never. Correct: connections are counted right, messages are
  handed over once and in order, answerable messages are answered.
- **Login.** Five calls of other processes with anything in between; a session
  may close, expire, or its process end during them. Correct: one session per
  player, the one that is online; nothing stays behind.
- **Gate.** A table of loads that is thrown away before the new loads have
  come, and is as good as what the conn processes count. Correct: what they
  count is their players.
- **Rpc dispatch, chat.** A cache of 100 callbacks that evicts the slow ones.
  Correct: an answer reaches the callback of its call. The handles that setServer
  changes are shared by all callers of a process; as each handle is either always
  or never used with setServer, and the call follows in the same tick, no call
  goes astray (chat_imp.js:44, conn_imp.js:100, mail_imp.js:157).
- **Data pipeline and the game functions on it.** Read, await, write back,
  record by record; only single Redis commands are atomic, and nothing locks.
  Correct: a function that no other overlaps adds its change to every record
  and loses none; a player whose creation failed can be told from one who
  exists. Mail, players, pvp and idle rewards all rest on it.
- **Mail.** A claim tests, reads, pays, writes twice and moves the mail, with
  fetching of mails and other claims in between, and an error that is never
  answered. Correct: an attachment is paid once and arrives.
- **Daily tournament.** A process of its own fights over the points in the
  players' records while they play on and gain points in other competitions; the
  list of those enrolled is shared by all. Correct: nobody who takes part gets
  lost, fights neither make nor lose points, who wins is first.
- **Bag and items.** Arithmetic with limits on stacks. Correct: nothing is
  created or lost by splitting.

`PROJECT.json` lists the places where each of these bites, under "hazards".

## 2. The modules

    RpcService      <--implements--  Broker        <--contains--  MdpNet
      what a caller is promised        broker.js                    + worker.js, request.js
    Mailbox         <--implements--  SessionTable  --uses-->      TwoArrayQueue
      what the game is promised        session.js, websocket.js     queue.js
    Login                              conn_imp.js, destroy of session.js, redis_client.js
    Gate                               gate_imp.js, getConnServerLoadNums of conn_imp.js
    RecordStore     <--implements--  DataPipeline  <--implements--  Mail
      what calls are promised          agent_handle.js,               mail_imp.js, mail_handle.js
                                       handle_gen.js, player_imp.js
                    <--implements------------------------------------  PvpDay
                                                                      pvp_imp.js, pvp_handle.js
    FinalEight                         the final rounds of pvp_imp.js

`MCBroker`, `MCMdpNet`, `MCSession`, `MCLogin`, `MCGate`, `MCMail`,
`MCPvpDay` and `MCFinalEight` give the instances for TLC; `BrokerProofs`,
`MdpNetProofs`, `SessionProofs`, `LoginProofs`, `DataPipelineProofs`, `MailProofs`,
`PvpDayProofs` and `PvpRoundsProofs` hold theorems.

**Broker** has one action per handler of the router socket and one for its
timer. `registered`, `liveness` and `load` are the entries of `workers`;
`reqmap`, `castmsg` and `clientmap` are the tables of the same names, with the
nested maps of castmsg as sets. `RouteToType`, `RouteToAll` and `RouteToWorker`
are the branches of routeReq, `ReplyCast`, `ReplyPoint` and `ReplyStale` those
of replyReq. `CheckWorkers` is one pass of the timer, with dispatchReqs for
every worker it kicks. The histories `kind`, `dispatched`, `nreply` and `sent`
record what was asked, given, answered and told. `RpcService` has none of the
tables: a call waits for a set of workers, each answers or is given up, and the
caller is told of the end once. The refinement maps `awaiting` to the workers
found in reqmap and castmsg, `told` to what was sent.

**MdpNet** takes the broker's actions over connections. `toWorker[w]` and
`toBroker[w]` are the two directions of one connection, in order; `asking`
holds requests on the way, unordered since callers have connections of their
own. Of ZeroMQ (`dependency/zeromq-3.2.5/src`) a ROUTER drops what it has no
connection or no room for (router.cpp:132), and a pipe that was full takes messages
again only when it has been drained far enough (pipe.cpp:149). `answering` holds
the requests whose handler answers: pushMailToClient (conn_imp.js:224) does not, as
its onResponse is commented out (238), and is called with a remote request
(mail_imp.js:157). A worker's beats, its receive handler, its replies (a second one too: when
a handler throws after its reply, onDispatch replies again), its health check
that reconnects, its crash and its start are actions, and so are a caller's
send, hear and check.

**SessionTable** has `phase` for a session's way from the connection through
the drawing of its id to the table and out; `queue` is the queue of queue.js
as it is, two arrays and an offset. `Receive` is the message listener,
`Reply` is replyEx with reply of session.js, `CheckHealth`, `CloseEvent`,
`Kick` and `Stop` destroy. `Mailbox` has counts instead of queues.

**Login** has the calls of loginGame as steps: `Login`, `GetOnlineInfo`,
`LoadPlayerInfo`, `AddOnlineInfo`, `AddSession`, each with the code of the
callback that runs when the call is answered. `KickOld` is either kickClient or
the remote call that `DeliverKick` carries out. `Destroy`, `CleanupGet` and
`CleanupDel` are destroy with getSession and delSession, between and after which
`ProAfkTime` goes through the awaits of setProAfkTime: it reads the map, then the
node, and stores the leaving time; `LoseAfkTime` is its errors, its exception when
there is no map and its silence when there is no node (hangup_imp.js:180-213).
`sessionMap[c]` is the LimitMap of process c as the sequence of its entries; its key
is the uuid, so players of two areas may share one (`UuidOf`). `member`, `disturbed`
and `late` are histories: sessions whose login was stored, players who had
overlapping logins or a failed call, and sessions whose record came too late, stayed
or expired.

**Gate** has the table as a sequence, since the first of the smallest loads is
taken and the oldest entry evicted. `GetAvgConnServerLoadNums` is the whole
handler, with or without the renewal that starts a `Broadcast`;
`GetConnServerLoadNums` is its handler in a conn process, `OnDispatch` the
callback of an answer, found as long as the cache has it. `LoginGame` and
`Leave` are what the counter and the players of a process have to do with each
other; the rest of a login is in Login.

**DataPipeline** has a call per message that bindFunCallback serves. `pc` and
`pos` are the position in its waterfall: reading the next of the records that
the configuration names (`ReadNext`: an absent record is an error or is passed
over, as its handler says), running the function on the copies (`Run`), writing
the next one (`WriteNext`), the answer. `Fail` is a Redis error anywhere, with
the command in progress executed or not. `vals` is dataValue. A record is
abstracted to the set of calls whose change it carries: what a function
computes is not modelled, what is lost when a copy is written over a newer
record is. A session may call when its login was answered, with success or not:
loginGame opens it whatever loadPlayerInfo said (conn_imp.js:108), so game functions
follow a creation that failed half-way, and it is their required records that stop
them. loadPlayerInfo is a call like the others (`LoadOrCreate`), that
writes the records of createPlayerInfo when it finds no base record.

**RecordStore** has neither copies nor steps: a call may change a record while
it is in work. If no call that was in work together with it has stored the
record, the change is added and every other kept; if one has, the record may
end up with any of the changes ever made. The last part is as strong as the
code allows: a copy that was read early and written late not only drops changes
but brings back changes that a third call's store had dropped, so "loses only
changes of calls that overlapped with this one" would be false.

**Mail** adds to the pipeline what getMailAttach and ReceiveMail do around
reading and writing the records: the test of the pool, the head, the move from
`pool` to `got`; the difference of the global pool and `got` that is computed
by one command (`DiffGlobal`) and added by another (`AddToPool`). `sending[m]`
is the position of sendPersonMail or sendGlobalMail, each of whose commands may
fail. The code puts no mail into the global pool (addGlobalMail has no caller
under `src/pack`); the model lets the operator's tools do it. Calls that are
neither claims nor fetchings are DataPipeline's own. `RunsPipeline` says that
all of this is still the pipeline, so its theorems hold of claims, too.

**PvpDay** has enrolments as calls of the pipeline on the player's pvpInfo, the
area's list and the global count, and the tournament as a call that reads the
list, plays, and writes it back. `stage` is its position: filling up with
robots, the rounds of fightOne, the fights of fight2Array with reading and
writing both pvpInfo one by one, the ranking. The points of players are in
Redis and travel with the pvpInfo that a call reads and writes (`Follow`); a call
that is no enrolment may add to them (`Gains`: chests, fights and the end of the
sit-and-go competition, pvp_imp.js:193, 231, 272). `before` keeps the points of all
when the list is filled up; those of robots are in the memory of the process. Robots of one object have the uuid
that was asked for last. Who wins a fight is not computed. Players have been
created before the day, so the module has no logins.

**FinalEight** is the arrangement of the final rounds alone: four rounds of four
fights on two arrays that are filled from the front and emptied from the end.

## 3. The runs

| run | instance | distinct states | question |
|---|---|---|---|
| `broker` | 2 + 1 workers, 2 requests, HEALTH_LIVENESS 1 | 1 079 843 | Do the tables agree, is the load bounded by the real work, does the broker keep the promise of RpcService? `BrokerTypeOK`, `Bookkeeping`, `LoadBound`, `ImplementsRpc` hold. |
| `broker_load` | 2 workers, 3 requests | violated | Does a request go to the worker with the least to do? `RoutesToLeastBusy` fails. |
| `mdp_live` | 1 worker, 1 request whose handler answers or not, 2 restarts | 153 800 | Are the queues bounded, does a callback run once per worker, are dead workers given up, running ones found again, requests in work ended if their handler answers? `NetTypeOK`, `DataOnce`, `DeadWorkersGivenUp`, `RunningWorkersKnown`, `TakenRequestsEnd` hold. |
| `session` | 2 clients, 1 place, 3 + 1 messages | 253 278 | Is the table counted right, are messages handed over once, in order, and answered? `SessionTypeOK`, `ConnectCount`, `InOrder`, `OneAtATime`, `AnswersInOrder`, `ImplementsMailbox`, `SilentDropped`, `AnsweredBehindAnswerable` hold. |
| `session_stall` | 1 client, 2 messages | violated | Is every message the server can answer answered? `EveryMessageAnswered` fails. |
| `login` | 3 sessions of a player, 1 of a player with the same uuid, 1 of another, 2 processes, 2 logins, faults | 567 706 | Does a login leave the session that is online and pushed to, and a destroyed session nothing? `LoginTypeOK`, `LiveIsOnline`, `PushReach`, `CleanedUp` hold. |
| `login_live` | 2 sessions, 3 logins, no faults | 163 512 | Do kicks land, do logins end, and is one of two sessions closed? `KicksLand`, `LoginsEnd`, `OldSessionLeaves` hold. |
| `login_twice` | 2 sessions, 2 logins | violated | Is there one session per player when all logins are over? `SingleSession` fails. |
| `mail` | 2 sessions, 2 logins that create the player, 2 claims, 2 fetchings, 1 mail, faults | 1 870 215 | Is an attachment paid once, does it arrive, are mails whole, are players created in order, and is all of it the pipeline? `MailTypeOK`, `BaseFirst`, `AnsweredIsStored`, `PaidOnce`, `ClaimedArrives`, `PoolsDisjoint`, `MailsHaveHeads`, `RunsPipeline` hold. |
| `pvp_day` | 2 enrolments of one player, 1 of another with a further call that may gain points, the tournament, 4 robots of 2 objects; 3 of the calls are made | 2 035 633 | Does the tournament lose nobody and no points, is nobody enrolled twice, does it implement RecordStore? `PvpTypeOK`, `EveryoneRanked`, `RanksByStart`, `PointsConserved`, `ListedOnce`, `WithinLimit`, `NeverShort`, `ImplementsStore` hold. |
| `gate_load` | 2 processes, 2 clients, 3 logins | violated | Does a conn process tell the gate how many players it has? `LoadsArePlayers` fails. |
| `final_eight` | the eight | violated | Is who wins all his fights first? `UndefeatedIsFirst` fails. |

`LiveIsOnline` and `PushReach` speak of players whose logins did not overlap and
lost no call; `login_twice` shows why, and `OldSessionLeaves` asks for the same. `CleanedUp`
leaves out sessions whose record was written after they were destroyed, expired,
or could not be read or deleted, and lets setProAfkTime end without a leaving time
where the code does. `PushReach` asks for a map with room for every uuid of the
process; with less, the oldest entry is evicted and its player not pushed to any
more. It lets a player of another area with the same uuid have the entry.
`OneAtATime` and `AnswersInOrder` count superfluous replies: each lets one more
message into work.

`PaidOnce`, `PoolsDisjoint`, `ClaimedArrives` and `ListedOnce` name the calls
that overlap or fail as exceptions, and each exception is needed: without it TLC
finds the attachment paid twice by two claims in flight or by one repeated after
an error (mail_imp.js:380, 455), a claimed mail put back by a ReceiveMail whose
difference is older than the claim (mail_handle.js:86), a player on the list
twice. Two calls of one player are in work together when he has two sessions,
which `login_twice` shows to happen, or when a session is closed and opened again
while a call is on its way. `EveryoneRanked` excepts tournaments in which two
robots of one object have fought each other: then both are entered under the name of the
second. `PointsConserved` excepts tournaments that list a player twice, and those
during which a call has stored a pvpInfo; `NeverShort` those for which such a call
has put back the points its player had before it enrolled. That
enrolments which fail after the player is marked leave him marked, but not
listed, for the day, is what ImplementsStore allows and nothing forbids.

`RunsPipeline` with the theorem `PipelineImplementsStore` gives ImplementsStore
for mail (`MailImplementsStore`); the tournament does not go through the steps of
the pipeline, so for it ImplementsStore is checked by the run `pvp_day` and proved
by a theorem of its own.

Every property of a passing run fails when the code is changed in one place:
`PROJECT.json` lists the changed definitions under "mutants", and they stand in
the modules next to the definition they change, marked "mutant".

### The bounds, and why they are enough

- *Workers, types, requests.* Three workers, two of one type, let a request
  have a choice, a broadcast have two shares, and a kicked worker hold point
  requests and shares at once, while a worker of another type stands by. Two
  requests are enough for a worker to have one of each kind.
- *HEALTH_LIVENESS, BROKER_LIVENESS, REQ_LIVENESS* are counters that only
  meet the boundary zero: 0, 1 and 2 give every order of decrement, reset and
  kick. The code's own values differ only in how long they wait, and the timers
  of the models may run at any moment.
- *One worker in `mdp_live`* is enough for the clocks of a worker and the broker
  to drift and for its connection to fill up. Two workers matter for broadcasts,
  which `broker` explores; that `NetTypeOK` and `DataOnce` hold with any number of
  workers is proved.
- *MaxReplies = 2*: a handler replies once, or twice when it throws afterwards.
- *HighWater, MaxBeats* are 2: full queues are met soon.
- *MaxRestarts = 2*: answers of the broker before the last one arrive.
- *Sessions:* two clients compete for one place; three messages of one client
  are what it takes for the queue's arrays to be swapped, drained and refilled.
- *Logins:* three sessions of a player, two of them on one process, are the two
  cases of the kick (here, elsewhere) in one run. With them on the first process are
  a player of another area with the same uuid and one with a uuid of his own, so that
  a map has an entry to share and one to keep, and is full. Two logins overlap or
  follow each other, of one session or of two; three logins are made in `login_live`.
  States in which three sessions have been destroyed are checked but not continued
  (the constraint `MCFewLeave`): two leave room for the old session and the new one.
  Sessions s1 and s3 are alike, which TLC uses as a symmetry in the run without
  liveness. That a full map evicts its oldest entry is met by the theorem
  `LoginTypes` only.
- *Mail:* two claims of one mail on two sessions, and two fetchings, of which
  one brings the mail and the other may put it back, give each pair of calls that
  share a record or a pool; the fetchings are alike, which TLC uses as a symmetry.
  Two logins create the player twice. Base record and bag are two of the
  five records of a creation: first and not first is all that the order tells
  apart. `LostMails` is the mail, `Faults` has calls of each kind. The view
  `MCView` leaves out of what tells states apart what no step and no property looks at
  any more: the copies of a call that has ended, save which records an answered one
  has changed, and of a login that has stored nothing how it ended and whom it met.
- *Tournament:* a call gains 0 or 1 points. `MaxCalls` is the number of calls made of the five that may be;
  every choice of three is explored. The numbers of the code (100 places, rounds
  to 16, 8 finalists, 10 rounds, limit 5000, 10 points) shrink to 4, 2, 1, 2, 1
  and 1 with the relations between them kept (`RoundEnd = 2 * Finalists`, fewer
  than `MinSize`). Robots r1 and r4, r2 and r3 share an object; the points are 1,
  2 and 3, so that a fight takes all of the loser's or a part. That too few are
  left for the final rounds does not occur here, and `NeverShort` says so; with
  the numbers of the code it is `EnoughForTheFinal` that says it.

Deadlock is checked where the system never stops (`broker`, `mdp_live`). The
session and login runs end when the clients have sent all their messages or
logins, those of mail and the tournament when every call has ended, so they say
`CHECK_DEADLOCK FALSE`.

### The fairness, and why the code justifies it

- `WF(BrokerCheck)`, `WF(CheckHealth)`: setInterval timers that are started
  with the socket and cleared only when it is closed (broker.js:287,
  worker.js:108, session.js:94).
- `WF(BrokerReceive)`, `WF(Receive)`: ZeroMQ delivers what a connection holds,
  and Node's event loop calls the handler.
- `WF(FirstReply)`: a handler answers. It is assumed only for requests in
  `answering` (MdpNet, a set the initial state chooses freely) and for messages that
  are not in `lost` (SessionTable); pushMailToClient, other handlers that never reply
  and messages that are rejected have no such fairness. Second replies are never
  assumed.
- `WF(Forsaken)`: a client whose connection is closed sends nothing, and the clock
  goes on. A client that is connected may speak for ever, or not.
- In Login: Redis and remote calls of a login are answered and kicks arrive. Runs
  with this fairness have `Faults = FALSE`, since a lost reply to loadPlayerInfo
  does leave a login unfinished for ever (`"stuck"`). Nothing is assumed of a
  clean-up or of the expiry of a record.
- Nothing obliges a client to connect, speak, log in or leave, or a process to
  start or crash.

## 4. What disagrees with its documentation

- `broker_load`: replyReq lowers the load of a registered worker for *every*
  reply (broker.js:146), also for requests the kick of that worker has given
  up. Load falls below the real work and routeReq does not find "a worker with
  the smallest load" (broker.js:48). Replies to requests that the broker no longer
  waits for are the only reason: without them the load is exact and the choice right (`LoadIsExact`,
  `RoutesToLeastBusyUnlessStale`).
- `session_stall`: session.js:48 says that every message is answered at once.
  A message that unpack or pack rejects (websocket.js:55) is not, and blocks
  the session behind it while heartbeats keep it alive.
- `login_twice`: conn_imp.js:93 says that a player who is there already is
  kicked. Two logins that overlap both read the online information before
  either writes it, and both stay.
- `gate_load`: gate_imp.js:28 and conn_imp.js:11 speak of the number of players
  of a conn process. `playerNums` goes up with each login (conn_imp.js:74) and
  never down. As all processes count in the same way the gate spreads clients
  evenly until one is started again: at 0, it is sent everybody.
- `final_eight`: pvp_imp.js:398 and 808 call it the ranking, and
  getPvpDayF8Result (359) tells a player his index in it as his place. The
  winner of all four final rounds is at index 2: rounds fill the arrays from
  the front and pop from the end, so the pair of the undefeated comes second in
  fight1, and `f8[0]` (412) is the winner of the fight for the third place. That
  the undefeated is *third* is the theorem `UndefeatedIsThird`.

Seen while reading, without a run: request.js:3 says that an answer after the
time-out is not processed, and the handler (line 119) does not look at reqs;
a full bag loses the item of a claimed mail and only logs it (mail_imp.js:436);
Robot.getPvpDayRward (pvp_imp.js:354) is spelt differently in robot.js:211;
pvp_day_reward.js calls a function that pvp_imp.js does not have; those who
survive the rounds are ranked behind each other, the best last (pvp_imp.js:785);
when set1V1PlayerInfo fails the tournament stops without a word (686).

## 5. The proofs

All proofs hold for arbitrary constants under the named assumptions of the
modules (`BrokerAssumption` and the like: types of the constants, the sets of
requests, workers and sessions finite, since they are counted, the number of
heartbeats positive, `None` not a member of what it stands beside). Those of the
tournament have a reason in the code each: robots start with points
(createRobotPvpInfo gives 100, pvp_handle.js:684), one must have points to enrol
(PVP_ENROLL_DAY_TICKET_LIMIT is 10, const.js:423), rounds end with twice as many
as play the final rounds, and there are robots enough to fill the list.

**Broker.** The inductive invariant is `IInv == BrokerTypeOK /\ Bookkeeping`.
Types alone are not inductive: that liveness stays in `0..HEALTH_LIVENESS`
needs that a worker at zero is kicked in the pass that finds it there.
Bookkeeping alone is not either: what a reply removes is typed only if the
tables are. `Bookkeeping` says that a request stands in the one table its
routing chose, that the client is remembered exactly as long as somebody is
waited for, and that nobody is waited for whom the broker has forgotten.
`NextIInv` has one lemma per handler. On top of it: `LoadStep` compares the
load with the cardinality of the outstanding requests before and after each
handler (`LoadIsBounded`), and `StepRefines` maps each handler to a step of
RpcService (`BrokerImplementsRpc`): a routing to Accept or Reject, a reply that
is waited for to Answer, one that is not to a stutter, a pass of the timer to
GiveUp, a restart to Forget. Two more results rest on these. `ExactStep` turns the bound of
`LoadStep` into an equation for every step that is not a `StaleReply`, a reply
credited to a worker the broker does not wait for; hence the conditional
theorems `LoadIsExact` and `RoutesToLeastBusyUnlessStale`, whose hypothesis
`[][~ StaleReply]_brokerVars` is what the code does not ensure. `ToldStep` reads
off the steps of RpcService that what a client is told stays `Lawful`: nothing
before the request, of a point request one message, of a cast one answer of each
worker and then one message more, and after the end nothing (`ClientToldOnce`).

**MdpNet.** `Wire` types the connections; under it every step of the network is
a step of Broker or leaves it alone (`NetworkRunsBroker`), so that the broker's
theorems hold in the network (`NetworkKeepsPromise`). Three more parts follow an
answer on its way, and need each other in this order:

- `AnswerInv`: of each worker a request was dispatched to, its client is told at
  most one answer, and only once the broker waits for that worker no longer. Its
  step goes through the refinement: `StepRefines` of the broker says what a step
  adds to the words of RpcService, and `AnswersOf` reads the answers in them.
- `HeardInv`: what a remoteProxy emitted is counted by the REPLYs it has heard.
  These map one-to-one into the workers the request was dispatched to, hence
  `CallbacksRunOnce`.
- `WayInv`: whatever is queued on a connection is a message its receiver knows,
  and the queues, counted message by message, stay in their bounds
  (`NetworkTypes`).

**SessionTable.** Three lemmas say that queue.js implements a queue: push
appends, first is the oldest, shift drops it, whichever array it is in.
`SessionInv == SessionTypeOK /\ InOrder /\ ConnectCount` is inductive. InOrder
needs the types for the queue's offset; the refinement needs InOrder, since a
reply hands over message `Len(emitted) + 1` only if the queue holds the numbers
in order. Two more parts speak of answers. `HandInv` bounds the messages that are
in hand and not answered by the superfluous answers so far, plus one if the
queue is not empty: a superfluous answer moves the queue on under the message
that is in work. `AnswerInv` says that as long as there was none, the answers
are those of the messages that left the queue. Results: `SessionTypes`,
`SessionsCounted`, `MessagesInOrder`, `SessionsImplementMailbox`,
`MessagesOneAtATime`, `AnswersComeInOrder`.

**Login.** `LimitMapSetIsMap` shows that set of LimitMap keeps a map within its
limit and its uuids apart; with it the types are inductive (`LoginTypes`). For
`LiveSessionIsOnline` the property says something at rest only, so `LoginInv`
adds what holds during a login of a player whose logins do not overlap: one
login at a time (`OneLogin`); whoever is logged in is online or about to be
kicked (`Known`); after the kick *all* who are logged in are about to be kicked,
and after addOnlineInfo the session that logs in is the one online
(`Progress`). `OneSessionPerPlayer` is the promise that `login_twice` breaks,
for the players it holds for. `CleanInv` follows the clean-up of a destroyed
session: its record stands until the clean-up has read it, from then on
setProAfkTime is at work or has ended, and no record is left
when the clean-up has ended (`DestroyedCleanedUp`).
`PushInv` says that whoever is logged in has its uuid in the map, with an entry that
leads to it or to a player of another area, or is about to be kicked. That no later
login takes the entry away is an argument by counting: in a map with room for all
uuids of its process (`Roomy`) a new uuid finds a place left (`PlaceLeft`), so set
never evicts (`PushesReachPlayers`).

**DataPipeline.** What RecordStore promises at a store depends on when the copy
was read, so the inductive invariant `IInv` speaks of every call in work:

- `MetInv`: calls in work together have met, both ways.
- `FreshInv`: nothing carries the change of a call that has not run its function.
- `CopyInv`: a copy is the record as it is, or with the call's own change, unless
  a call it met has stored the record. This is what a store needs; the next
  parts are what keeps it.
- `AbsentInv`: a record that a call found missing has since been stored only by
  calls it met. It makes CopyInv hold for records that createPlayerInfo makes
  without having read them.
- `FirstInv`: the base record exists before any other record of a creation, and
  once a call that is no login has read a record of the player that has to be there,
  or is to write one (`Grounded`). Before that it may run on a session whose creation
  failed, and is refused by the first such record it misses.
- `WriteInv`: the records behind a call's position are stored.
- `SeenInv`: a stored change is in Redis and in every copy read after it, unless
  a call that was met has stored the record since.

One lemma per action shows that they are kept (`BeginKeeps` to `EndsKeeps`).
Results: `PipeTypes`, `AnsweredStored`, `BaseRecordFirst`, and
`PipelineImplementsStore`, where beginning a call maps to Begin, a write to
Store, an answer or a failure to End (with or without a Store), and everything
else to a stutter.

**Mail.** `MailRunsPipeline` maps each step of a claim or a fetching to one of
the pipeline, so that DataPipelineProofs, instantiated with the pipeline Mail
contains, gives its invariant to the mails. `MailInv` adds:

- `HeadsInv`: a head is set before its mail can be seen, whichever command of
  the sending fails.
- `BothInv`: a mail that was claimed while a ReceiveMail held it in its
  difference was claimed by a claim which that call met; with it a mail in both
  pools has the exception that `PoolsDisjoint` names.
- `ClaimInv`: what a claim behind its test has seen and copied.
- `TwiceInv`: two claims of a mail that are both behind the test have met, or
  the mail was put back: the first to end has moved the mail before the second
  tests it.
- `PaysInv`: a claimed mail has a claim that stored both records.

Results: `MailTypes`, `SeenMailsHaveHeads`, `MailsClaimedOnce`, `MailPaidOnce`,
`ClaimedMailsArrive`, where FreshInv, CopyInv and SeenInv of the pipeline say that
the change of the claim is in the base record unless a call it met stored that
record; and, by the pipeline's theorems, `MailImplementsStore` and
`MailsKeepRecords`.

**PvpDay.** Its steps are not those of the pipeline, but `StepCases` maps every
one to one of five things a call can do to records and copies: begin, read a
record, run its function, write a record, end. `DataInv` is kept by each of the
five (`BeginsKeeps` to `EndsKeeps`). Besides parts like those of DataPipeline it
has:

- `OwnInv`: who sees the change of a call sees what that call has stored.
- `MarkInv`: an enrolment that has stored anything has stored the player's mark.
- `TwiceInv`: of two enrolments that mark one player and did not meet, one has
  lost its mark to a call it met, or never stored it. For the second had not seen
  the first when it marked him, and `SeenInv` says that it should have.

An enrolment on the list has stored its mark, which gives `PlayerListedOnce`.
`LimitInv` counts the enrolments that mark and may be stored: as long as none was
disturbed, an enrolment that passes the test of the limit has all of them in its
copy of the count (`CountedBefore`), hence `ListWithinLimit`. `StageInv` says
that the pvpInfo of both fighters has been read before it is written, which
the write needs, and that the rounds are counted; `RankInv` that the ranking is
in order and that whoever is in it has fought. `InsertKeepsOrder` proves that
insertEltToSortResult keeps a sorted ranking sorted. `CopyInv` is weaker than in
DataPipeline, since the tournament writes a pvpInfo in each fight and its own
change may be in Redis before it is in its copy; that is still enough for
`PvpImplementsStore`. Further results: `PvpTypes`, `RankedByStart`.

**The rounds of PvpDay** (`PvpRoundsProofs`) are about counting, in three layers,
each on top of the one before:

- `PlaceInv`: everybody is listed as often as he has places in the round, the
  fight and the ranking. Every list of a step is made of lists of the step before,
  by appending, splitting into pairs, inserting, sorting or reversing. `Merged`
  says what these have in common, that the places of a list can be told apart into
  those of two others, and `MergedPlaces` that nobody's places change in number.
  `AreaInv` says which lists are empty between the rounds. Hence `EveryonesPlace`.
  PlaceInv excepts only robots once robots of one object have fought, hence
  `PlayersKeepTheirPlaces`.
- `AliveInv`: who is not in the ranking has points, in Redis, in the copies of
  his calls and in those of the fight (`Living`). An enrolment marks only a player
  with enough points (`MarksWithPoints`), and nobody has less than at the start, so
  `StartInv` has it for the list; a call of the player stores points he had while he
  was alive, and gains only add to them. A copy that is older than the player's
  enrolment (`Stale`) may lack the points he enrolled with: it is met by the
  enrolment, and once it is stored `PointsPutBack` holds. Who loses his points in a
  fight goes to the ranking, and as he is listed once has no other place. So one of
  each pair remains, and `SizeInv` says that more than the finalists are left: a
  round begins with more than twice as many, and ends with half of them, rounded up,
  or more. Hence `EnoughForTheFinal`.
- `PointsInv`: while no call in work with the tournament has stored a pvpInfo, the
  points of the two who fight add up to what they were (`DuelInv`), and the sum is
  that of `before`, less what the second write will add or take (`TotalInv`). What
  a call has gained it has stored before the list was filled up, or else it has met
  the tournament. That the two are not one player follows from PlaceInv: he would
  have two places. `SumChanges` says how a sum changes with one of its terms. Hence
  `PointsAreMoved`.

The last part of the module is about FinalEight, for any eight finalists.
`PlacesKept` adds up the places of somebody in the two arrays, among winners and
losers and in the result: a fight moves two of them (`FightKeepsPlaces`), and an
arrangement lists the same eight again (`NextArranged`, `EightArranged`). Hence
`FinalRoundsRankEight`, and `FinalRoundsOrderEight` for eight different players,
which justifies the choice of any order in `Rank`. `WinsBySeat` bounds the fights
that those in each seat of a round have won; that only the winner's count changes
follows from PlacesKept again, as he sits nowhere else (`WinnerAlone`). Three
wins are possible in seat 3 of the last round alone, and that seat's winner is put
third; hence `UndefeatedIsThird`, the theorem behind the violated
`UndefeatedIsFirst`. These theorems assume of F8 that it lists eight, and the
last two that it lists nobody twice; Rank takes the finalists from the round,
where a player is twice only if he is listed twice.

Sum is written as the number of points, each a pair of its owner and a number,
instead of as a fold: a fold would take induction over data.

**Only model-checked.** Liveness (`DeadWorkersGivenUp`, `RunningWorkersKnown`,
`TakenRequestsEnd`, `SilentDropped`, `AnsweredBehindAnswerable`, `KicksLand`,
`LoginsEnd`, `OldSessionLeaves`), which the prover does not reach. All other
properties of the passing runs are proved. Gate has a violated property and no
theorem.

## 6. What the models leave out

- *Contents.* Messages, replies and records are numbers or model values;
  encoding is only the fact that it can reject a message.
- *The client end of a websocket*: it may send, close and fall silent.
- *Time* is not measured. Timers and expiry may happen at any moment, which
  covers every delay but says nothing about durations.
- *exitGame*: it arrives without area and uuid, and changes nothing in the
  tables of Login. The push handlers read `sessionMap` and keep no state; that
  pushMailToClient never answers is in MdpNet, which has it stay in the tables of
  the broker until its worker is kicked or either is started again.
- *Functions that do not write what they have read.* `PipelineAssumption` holds of
  DataConfig.js but for setMaxPower, whose sng record, and rollHero, whose hero is
  written unread; and adapterSkillSlot and createHero, which name no record that
  has to be there, but read the hero with hget and write none when there is none.
  What a function does to Redis on the side, by hget and hset of its own
  (pvp_handle.js:400-424) or without waiting for the result (hero_imp.js:268), is
  not part of the model.
- *Points that a call takes.* There are none: outside the tournament ticketDay is
  only added to.
- *One client as several players.* In Login a session logs in as one player.
- *Restart of a conn process* is a process of its own, since its sessions are
  new ones; the crash is an action.
- *The raw TCP server, compression, logging, configuration tables.*

## 7. The plan

Done: RpcService, Broker, MdpNet, TwoArrayQueue, Mailbox, SessionTable, Login,
RecordStore, DataPipeline, Mail and PvpDay, with their proofs; FinalEight, Gate.
Next, the most important first:

1. **RpcCallbacks** (`remote_proxy.js`): the cache of 100 callbacks over the
   answers of RpcService, with chat as its caller. To prove: a callback is there
   when its answer comes, unless 100 further calls were made meanwhile.
2. **Hangup** on DataPipeline: idle income between two visits is paid once.
3. **Bag**: stacks as a pure algorithm against a reference definition.
4. **Server**: Login over SessionTable, so that a login's messages come through
   the session's queue and its kick is the one of the session table.
5. The sit-and-go competition of pvp_imp.js and the weekly rewards.

Proofs to add: that the gate's table keeps one entry for each process.
