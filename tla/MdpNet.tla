------------------------------- MODULE MdpNet -------------------------------
(***************************************************************************)
(* The broker between its workers (module/net/mdp/worker.js) and the       *)
(* processes that send requests (module/net/mdp/request.js).  The sockets  *)
(* are ZeroMQ's DEALER and ROUTER: in order on one connection, silent      *)
(* about what they drop.  Timers are actions that may run at any moment,   *)
(* which covers every delay of a process or of the network.                *)
(***************************************************************************)
EXTENDS Broker

CONSTANTS
    BROKER_LIVENESS,   \* silent checks after which a worker reconnects
    REQ_LIVENESS,      \* checks after which a request is timed out
    HighWater,         \* messages a ROUTER queues for one worker (ZMQ_SNDHWM)
    MaxBeats,          \* bound: heartbeats on the way from one worker
    MaxRestarts,       \* bound: restarts of the broker
    HB                 \* a heartbeat, next to request ids in the queues

ASSUME NetAssumption ==
    /\ {BROKER_LIVENESS, REQ_LIVENESS, HighWater, MaxBeats, MaxRestarts} \subseteq Nat
    /\ MaxBeats > 0 /\ IsFiniteSet(Workers)
    /\ HB \notin Rids

VARIABLES
    asking,     \* requests on the way to the broker, each with its kind
    up,         \* up[w]: the worker process runs
    toWorker,   \* toWorker[w]: REQUESTs and HEARTBEATs on the way to w
    toBroker,   \* toBroker[w]: REPLYs and HEARTBEATs on the way from w
    wlive,      \* the worker's liveness: silent checks until it reconnects
    spoke,      \* the worker sent something at or after its last check
    task,       \* task[w]: the requests w's handlers were given
    restarts,
    reqs,       \* reqs[r]: liveness of the request object, None without one
    heard,      \* heard[r]: how many of sent[r] the client has received
    emitted,    \* history: the data events the client raised for r
    answering   \* fixed: requests whose handler calls onResponse in the end; that of
                \* pushMailToClient (conn_imp.js:224-245) never does

workerVars == <<up, toWorker, toBroker, wlive, spoke, task>>
clientVars == <<reqs, heard, emitted, answering>>
netVars == <<brokerVars, asking, workerVars, restarts, clientVars>>

MdpInit ==
    /\ BrokerInit
    /\ asking = {}
    /\ up = [w \in Workers |-> FALSE]
    /\ toWorker = [w \in Workers |-> <<>>]
    /\ toBroker = [w \in Workers |-> <<>>]
    /\ wlive = [w \in Workers |-> 0]
    /\ spoke = [w \in Workers |-> FALSE]
    /\ task = [w \in Workers |-> {}]
    /\ restarts = 0
    /\ reqs = [r \in Rids |-> None]
    /\ heard = [r \in Rids |-> 0]
    /\ emitted = [r \in Rids |-> 0]
    /\ answering \in SUBSET Rids
-----------------------------------------------------------------------------
(* request.js *)

Asked(r) == kind[r] # None \/ \E k \in Kinds : <<r, k>> \in asking

\* send, or broadcast, which enters nothing in reqs.
Send(r, k) ==
    /\ ~Asked(r)
    /\ asking' = asking \cup {<<r, k>>}
    /\ reqs' = IF k = "cast" THEN reqs ELSE [reqs EXCEPT ![r] = REQ_LIVENESS]
    /\ UNCHANGED <<brokerVars, workerVars, restarts, heard, emitted, answering>>

\* The message handler: REPLY raises data, whatever reqs says; every message
\* removes the request object.
Hear(r) ==
    /\ heard[r] < Len(sent[r])
    /\ heard' = [heard EXCEPT ![r] = @ + 1]
    /\ emitted' = IF sent[r][heard[r] + 1].type = "REPLY"
                  THEN [emitted EXCEPT ![r] = @ + 1] ELSE emitted
    /\ reqs' = [reqs EXCEPT ![r] = None]
    /\ UNCHANGED <<brokerVars, asking, workerVars, restarts, answering>>

\* checkReq: a request that ran out of time is deleted, and nobody is told.
CheckReq ==
    /\ \E r \in Rids : reqs[r] # None
    /\ reqs' = [r \in Rids |-> IF reqs[r] \in {None, 0} THEN None ELSE reqs[r] - 1]
    /\ UNCHANGED <<brokerVars, asking, workerVars, restarts, heard, emitted, answering>>
-----------------------------------------------------------------------------
(* worker.js *)

\* fuckHeartbeat: no heartbeat within HEARTBEAT_TIME of the last message.  The
\* check runs every HEARTBEAT_TIME, so it may or may not find a message sent
\* since the last check too recent.
Beat_Lazy(w, msgs) ==   \* mutant: only a worker that never spoke beats
    IF spoke[w] THEN toBroker' = [toBroker EXCEPT ![w] = msgs] /\ UNCHANGED spoke
    ELSE toBroker' = [toBroker EXCEPT ![w] = Append(msgs, HB)] /\ spoke' = [spoke EXCEPT ![w] = TRUE]

Beat(w, msgs) ==
    \/ /\ toBroker' = [toBroker EXCEPT ![w] = Append(msgs, HB)]
       /\ spoke' = [spoke EXCEPT ![w] = TRUE]
    \/ /\ spoke[w]
       /\ toBroker' = [toBroker EXCEPT ![w] = msgs]
       /\ spoke' = [spoke EXCEPT ![w] = FALSE]

\* The process starts: connectBroker, with _hbtime 0.
Start(w) ==
    /\ ~up[w] /\ toBroker[w] = <<>>
    /\ up' = [up EXCEPT ![w] = TRUE]
    /\ toBroker' = [toBroker EXCEPT ![w] = <<HB>>]
    /\ spoke' = [spoke EXCEPT ![w] = TRUE]
    /\ wlive' = [wlive EXCEPT ![w] = BROKER_LIVENESS]
    /\ UNCHANGED <<brokerVars, asking, toWorker, task, restarts, clientVars>>

\* The process ends: what it was given, and what was on the way to it, is lost.
Crash(w) ==
    /\ up[w]
    /\ up' = [up EXCEPT ![w] = FALSE]
    /\ toWorker' = [toWorker EXCEPT ![w] = <<>>]
    /\ task' = [task EXCEPT ![w] = {}]
    /\ wlive' = [wlive EXCEPT ![w] = 0]
    /\ spoke' = [spoke EXCEPT ![w] = FALSE]
    /\ UNCHANGED <<brokerVars, asking, toBroker, restarts, clientVars>>

\* onMsg: any message of the broker proves it alive, a REQUEST starts a handler.
Receive(w) ==
    /\ up[w] /\ toWorker[w] # <<>>
    /\ toWorker' = [toWorker EXCEPT ![w] = Tail(@)]
    /\ wlive' = [wlive EXCEPT ![w] = BROKER_LIVENESS]
    /\ task' = [task EXCEPT ![w] = @ \cup ({Head(toWorker[w])} \ {HB})]
    /\ UNCHANGED <<brokerVars, asking, up, toBroker, spoke, restarts, clientVars>>

InQueue(r, q) == Cardinality({i \in 1..Len(q) : q[i] = r})

\* reply: a handler answers, at its own pace; when it throws, also after having
\* answered, onDispatch (remote_proxy.js:90-105) answers for it once more.
Reply(w, r) ==
    /\ r \in task[w]
    /\ nreply[r][w] + InQueue(r, toBroker[w]) < MaxReplies
    /\ toBroker' = [toBroker EXCEPT ![w] = Append(@, r)]
    /\ spoke' = [spoke EXCEPT ![w] = TRUE]
    /\ UNCHANGED <<brokerVars, asking, up, toWorker, wlive, task, restarts, clientVars>>

\* The answer that a handler owes: only one that calls onResponse owes any.
FirstReply(w, r) ==
    r \in answering /\ nreply[r][w] + InQueue(r, toBroker[w]) = 0 /\ Reply(w, r)

CheckHealth_NoReconnect(w) ==   \* mutant: the broker is given up, and nobody reconnects
    /\ up[w] /\ InQueue(HB, toBroker[w]) < MaxBeats
    /\ wlive' = [wlive EXCEPT ![w] = @ - 1]
    /\ Beat(w, toBroker[w])
    /\ UNCHANGED <<brokerVars, asking, up, toWorker, task, restarts, clientVars>>

\* checkHealth: beat, or give the broker up and reconnect on a new socket,
\* which loses what the old one had not delivered.
CheckHealth(w) ==
    /\ up[w] /\ InQueue(HB, toBroker[w]) < MaxBeats
    /\ IF wlive[w] = 0
       THEN /\ wlive' = [wlive EXCEPT ![w] = BROKER_LIVENESS]
            /\ toWorker' = [toWorker EXCEPT ![w] = <<>>]
       ELSE /\ wlive' = [wlive EXCEPT ![w] = @ - 1]
            /\ UNCHANGED toWorker
    /\ Beat(w, toBroker[w])
    /\ UNCHANGED <<brokerVars, asking, up, task, restarts, clientVars>>
-----------------------------------------------------------------------------
(* The broker's handlers, and what they send to the workers *)

\* The broker sends m to the workers ws.  A ROUTER drops a message for a peer
\* that is gone or whose pipe is full; one that was full takes messages again at
\* its low water mark, so a pipe that is not empty may refuse (pipe.cpp:149-162).
Push(ws, m) ==
    \E refused \in SUBSET {w \in ws : toWorker[w] # <<>>} :
       toWorker' = [w \in Workers |->
                      IF w \in ws \ refused /\ up[w] /\ Len(toWorker[w]) < HighWater
                      THEN Append(toWorker[w], m) ELSE toWorker[w]]

BrokerRequest(r, k) ==
    /\ <<r, k>> \in asking
    /\ asking' = asking \ {<<r, k>>}
    /\ RouteReq(r) /\ kind'[r] = k
    /\ Push(dispatched'[r], r)
    /\ UNCHANGED <<up, toBroker, wlive, spoke, task, restarts, clientVars>>

BrokerReceive(w) ==
    /\ toBroker[w] # <<>>
    /\ toBroker' = [toBroker EXCEPT ![w] = Tail(@)]
    /\ IF Head(toBroker[w]) = HB THEN Heartbeat(w) ELSE ReplyReq(w, Head(toBroker[w]))
    /\ UNCHANGED <<asking, up, toWorker, wlive, spoke, task, restarts, clientVars>>

BrokerCheck ==
    /\ CheckWorkers
    /\ Push(registered', HB)
    /\ UNCHANGED <<asking, up, toBroker, wlive, spoke, task, restarts, clientVars>>

\* The broker is started again; what was on the way to or from a worker may be
\* lost.  A request on its way stays in the DEALER that sends it.
BrokerRestart ==
    /\ restarts < MaxRestarts
    /\ restarts' = restarts + 1
    /\ Restart
    /\ \E ws \in SUBSET Workers :
          /\ toWorker' = [w \in Workers |-> IF w \in ws THEN <<>> ELSE toWorker[w]]
          /\ toBroker' = [w \in Workers |-> IF w \in ws THEN <<>> ELSE toBroker[w]]
    /\ UNCHANGED <<asking, up, wlive, spoke, task, clientVars>>
-----------------------------------------------------------------------------
WorkerNext(w) ==
    \/ Start(w) \/ Crash(w) \/ Receive(w) \/ CheckHealth(w)
    \/ \E r \in Rids : Reply(w, r)
    \/ BrokerReceive(w)

MdpNext ==
    \/ \E r \in Rids : Hear(r) \/ \E k \in Kinds : Send(r, k) \/ BrokerRequest(r, k)
    \/ CheckReq
    \/ \E w \in Workers : WorkerNext(w)
    \/ BrokerCheck
    \/ BrokerRestart

MdpSpec == MdpInit /\ [][MdpNext]_netVars

\* setInterval keeps both checks running, connections deliver what they hold,
\* and a handler that was given an answering request answers it once.  Nothing
\* obliges a client to ask, a process to start or to crash, or a timeout to come.
MdpFairness ==
    /\ WF_netVars(BrokerCheck)
    /\ \A w \in Workers :
          /\ WF_netVars(BrokerReceive(w))
          /\ WF_netVars(Receive(w))
          /\ WF_netVars(CheckHealth(w))
          /\ \A r \in Rids : WF_netVars(FirstReply(w, r))

MdpFairSpec == MdpSpec /\ MdpFairness
-----------------------------------------------------------------------------
\* Types of the network's state, the broker's included, and what is on the way
\* from a worker is about a request the broker sent it.
NetTypeOK ==
    /\ BrokerTypeOK
    /\ asking \subseteq Rids \X Kinds
    /\ up \in [Workers -> BOOLEAN] /\ spoke \in [Workers -> BOOLEAN]
    /\ wlive \in [Workers -> 0..BROKER_LIVENESS]
    /\ reqs \in [Rids -> 0..REQ_LIVENESS \cup {None}]
    /\ restarts \in 0..MaxRestarts /\ answering \subseteq Rids
    /\ \A w \in Workers :
          LET given == {r \in Rids : w \in dispatched[r]}
          IN  /\ toWorker[w] \in Seq(given \cup {HB}) /\ Len(toWorker[w]) <= HighWater
              /\ toBroker[w] \in Seq(given \cup {HB}) /\ InQueue(HB, toBroker[w]) <= MaxBeats
              /\ task[w] \subseteq given
    /\ \A r \in Rids : heard[r] \in 0..Len(sent[r])

\* The callback of a request runs at most once for each worker the request was
\* given to (remote_proxy.js:113-114), although handlers answer twice, workers and
\* the broker restart, and request.js raises data for requests it has forgotten.
DataOnce == \A r \in Rids : emitted[r] <= Cardinality(dispatched[r])

\* A worker that is gone for good is given up in the end: no call waits for it
\* (broker.js:151-195), so that its callers learn of a DISCONNECT or DONE.
DeadWorkersGivenUp ==
    \A w \in Workers : (<>[]~up[w]) => <>[](w \notin registered /\ Outstanding(w) = {})

\* A worker that runs is known to the broker again and again, after kicks,
\* restarts of the broker and beats that fuckHeartbeat (worker.js:53-62) skips.
RunningWorkersKnown == \A w \in Workers : (<>[]up[w]) => []<>(w \in registered)

\* A request whose handler answers does not wait for that worker for ever: the
\* reply comes through, or the worker ends, however often either side reconnects.
\* One whose handler does not answer stays in reqmap and in the worker's load for
\* as long as the worker is not kicked, because request.js tells the broker nothing.
TakenRequestsEnd ==
    \A w \in Workers, r \in Rids :
       (r \in answering /\ r \in task[w]) ~> (w \notin Awaiting(r) \/ ~up[w])
=============================================================================
