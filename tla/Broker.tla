------------------------------- MODULE Broker -------------------------------
(***************************************************************************)
(* module/net/mdp/broker.js: the ROUTER that hands requests to the workers *)
(* of a server type and brings their replies back.  One action per message *)
(* handler and per timer; each runs to its end before the next one, as the *)
(* callbacks of one event loop do.  The processes around the broker are    *)
(* open here: a worker may beat, fall silent or reply late or twice at any *)
(* moment.  MdpNet closes them.                                            *)
(***************************************************************************)
EXTENDS Integers, FiniteSets, Sequences

CONSTANTS Workers,          \* identities of the worker sockets
          Servers,          \* server types: conn, loc, chat, ...
          TypeOf,           \* the type a worker announces in its heartbeats
          Clients,          \* identities of the request sockets
          Rids,             \* request ids
          ClientOf,         \* the socket that drew a request id
          HEALTH_LIVENESS,  \* silent checks a worker survives
          MaxReplies,       \* bound: replies a worker sends to one request
          None

ASSUME BrokerAssumption ==
    /\ TypeOf \in [Workers -> Servers]
    /\ ClientOf \in [Rids -> Clients]
    /\ IsFiniteSet(Rids)
    /\ HEALTH_LIVENESS \in Nat
    /\ MaxReplies \in Nat
    /\ None \notin Workers \cup Clients \cup {"point", "cast"}

VARIABLES
    registered,   \* the keys of workers[type], over all types
    liveness,     \* workers[type][w].liveness, 0 while w has no entry
    load,         \* workers[type][w].load, 0 while w has no entry
    reqmap,       \* reqmap[r]: the worker of a point request, or None
    castmsg,      \* castmsg[r]: the workers a broadcast still waits for
    clientmap,    \* clientmap[r]: the socket to answer, or None
    kind,         \* history: how r was routed, None before it was
    dispatched,   \* history: the workers r was sent to
    nreply,       \* history: the replies received from a worker for r
    sent          \* history: sent[r], the messages to clients about r

tables == <<registered, liveness, load, reqmap, castmsg, clientmap>>
brokerVars == <<tables, kind, dispatched, nreply, sent>>

Kinds == {"point", "cast"}
Msg(type, w, c) == [type |-> type, from |-> w, to |-> c]
Msgs == [type : {"REPLY", "DONE", "DISCONNECT", "NOEXISTS"},
         from : Workers \cup {None}, to : Clients]

\* The workers request r waits for, in whichever table it is.
Awaiting(r) == castmsg[r] \cup ({reqmap[r]} \ {None})
\* The requests that wait for worker w.
Outstanding(w) == {r \in Rids : w \in Awaiting(r)}

BrokerInit ==
    /\ registered = {}
    /\ liveness = [w \in Workers |-> 0]
    /\ load = [w \in Workers |-> 0]
    /\ reqmap = [r \in Rids |-> None]
    /\ castmsg = [r \in Rids |-> {}]
    /\ clientmap = [r \in Rids |-> None]
    /\ kind = [r \in Rids |-> None]
    /\ dispatched = [r \in Rids |-> {}]
    /\ nreply = [r \in Rids |-> [w \in Workers |-> 0]]
    /\ sent = [r \in Rids |-> <<>>]
-----------------------------------------------------------------------------
(* routeReq *)

\* A request id is drawn once: uuid.v4() in request.js.
Fresh(r, k) == kind[r] = None /\ kind' = [kind EXCEPT ![r] = k]

Live(w) == w \in registered /\ liveness[w] >= 0
LiveOf(s) == {w \in Workers : Live(w) /\ TypeOf[w] = s}

\* The point request r goes to worker w.
Assign(w, r) ==
    /\ load' = [load EXCEPT ![w] = @ + 1]
    /\ reqmap' = [reqmap EXCEPT ![r] = w]
    /\ clientmap' = [clientmap EXCEPT ![r] = ClientOf[r]]
    /\ dispatched' = [dispatched EXCEPT ![r] = {w}]
    /\ UNCHANGED <<registered, liveness, castmsg, nreply, sent>>

NoExists(r) ==
    /\ sent' = [sent EXCEPT ![r] = Append(@, Msg("NOEXISTS", None, ClientOf[r]))]
    /\ UNCHANGED <<tables, dispatched, nreply>>

\* The target names a type: a live worker of it with the smallest load.
RouteToType(s, r) ==
    /\ Fresh(r, "point")
    /\ \/ \E w \in LiveOf(s) :
             (\A v \in LiveOf(s) : load[w] <= load[v]) /\ Assign(w, r)
       \/ LiveOf(s) = {} /\ NoExists(r)

\* The target is all-<type>: every live worker of the type.
RouteToAll(s, r) ==
    /\ Fresh(r, "cast")
    /\ \/ /\ LiveOf(s) # {}
          /\ load' = [w \in Workers |-> IF w \in LiveOf(s) THEN load[w] + 1 ELSE load[w]]
          /\ castmsg' = [castmsg EXCEPT ![r] = LiveOf(s)]
          /\ clientmap' = [clientmap EXCEPT ![r] = ClientOf[r]]
          /\ dispatched' = [dispatched EXCEPT ![r] = LiveOf(s)]
          /\ UNCHANGED <<registered, liveness, reqmap, nreply, sent>>
       \/ LiveOf(s) = {} /\ NoExists(r)

\* The target names a worker.  A known worker that is not live swallows the
\* request; BrokerProofs shows that there is none, so that the missing
\* NOEXISTS of that path never bites.
RouteToWorker(w, r) ==
    /\ Fresh(r, "point")
    /\ IF w \in registered
       THEN IF Live(w) THEN Assign(w, r)
            ELSE UNCHANGED <<tables, dispatched, nreply, sent>>
       ELSE NoExists(r)
-----------------------------------------------------------------------------
(* replyReq *)

Credit_KeepLoad(w) ==   \* mutant: the load is not taken back
    /\ liveness' = IF w \in registered THEN [liveness EXCEPT ![w] = HEALTH_LIVENESS] ELSE liveness
    /\ UNCHANGED load

\* Whatever became of the request, the worker is alive and has one task less.
Credit(w) ==
    IF w \in registered
    THEN /\ liveness' = [liveness EXCEPT ![w] = HEALTH_LIVENESS]
         /\ load' = [load EXCEPT ![w] = @ - 1]
    ELSE UNCHANGED <<liveness, load>>

\* The REPLY to the client, when the broker still knows the client.
Forward(w, r) ==
    IF clientmap[r] # None THEN <<Msg("REPLY", w, clientmap[r])>> ELSE <<>>

ReplyCast_NoDelete(w, r) ==   \* mutant: the worker is not struck off the broadcast
    /\ w \in castmsg[r]
    /\ sent' = [sent EXCEPT ![r] = @ \o Forward(w, r)]
    /\ UNCHANGED <<reqmap, castmsg, clientmap>>

ReplyCast(w, r) ==
    LET last == castmsg[r] = {w}
    IN  /\ w \in castmsg[r]
        /\ castmsg' = [castmsg EXCEPT ![r] = @ \ {w}]
        /\ clientmap' = IF last THEN [clientmap EXCEPT ![r] = None] ELSE clientmap
        /\ sent' = [sent EXCEPT ![r] = @ \o Forward(w, r) \o
                      (IF last THEN <<Msg("DONE", None, clientmap[r])>> ELSE <<>>)]
        /\ UNCHANGED reqmap

ReplyPoint_NoDelete(w, r) ==   \* mutant: the request stays in reqmap and clientmap
    /\ castmsg[r] = {}
    /\ reqmap[r] = w
    /\ sent' = [sent EXCEPT ![r] = @ \o Forward(w, r)]
    /\ UNCHANGED <<reqmap, castmsg, clientmap>>

ReplyPoint(w, r) ==
    /\ castmsg[r] = {}
    /\ reqmap[r] = w
    /\ reqmap' = [reqmap EXCEPT ![r] = None]
    /\ clientmap' = [clientmap EXCEPT ![r] = None]
    /\ sent' = [sent EXCEPT ![r] = @ \o Forward(w, r)]
    /\ UNCHANGED castmsg

\* The request is over, or was given to somebody else.
ReplyStale(w, r) ==
    /\ w \notin castmsg[r]
    /\ castmsg[r] # {} \/ reqmap[r] # w
    /\ UNCHANGED <<reqmap, castmsg, clientmap, sent>>

ReplyReq(w, r) ==
    /\ w \in dispatched[r] /\ nreply[r][w] < MaxReplies
    /\ nreply' = [nreply EXCEPT ![r][w] = @ + 1]
    /\ ReplyCast(w, r) \/ ReplyPoint(w, r) \/ ReplyStale(w, r)
    /\ Credit(w)
    /\ UNCHANGED <<registered, kind, dispatched>>
-----------------------------------------------------------------------------
(* heartbeats *)

Heartbeat(w) ==
    /\ registered' = registered \cup {w}
    /\ load' = IF w \in registered THEN load ELSE [load EXCEPT ![w] = 0]
    /\ liveness' = [liveness EXCEPT ![w] = HEALTH_LIVENESS]
    /\ UNCHANGED <<reqmap, castmsg, clientmap, kind, dispatched, nreply, sent>>

Kicked_Late == {w \in registered : liveness[w] < 0}   \* mutant: tested before the decrement

Kicked == {w \in registered : liveness[w] - 1 < 0}

\* What the client of r is told when the workers ks are kicked out.
Farewell(r, ks) ==
    IF reqmap[r] \in ks
    THEN IF clientmap[r] # None
         THEN <<Msg("DISCONNECT", reqmap[r], clientmap[r])>> ELSE <<>>
    ELSE IF castmsg[r] # {} /\ castmsg[r] \subseteq ks
         THEN <<Msg("DONE", None, clientmap[r])>> ELSE <<>>

DispatchReqs_PointOnly(ks) ==   \* mutant: broadcasts keep waiting for the dead
    /\ reqmap' = [r \in Rids |-> IF reqmap[r] \in ks THEN None ELSE reqmap[r]]
    /\ clientmap' = [r \in Rids |-> IF reqmap[r] \in ks THEN None ELSE clientmap[r]]
    /\ sent' = [r \in Rids |-> IF reqmap[r] \in ks THEN sent[r] \o Farewell(r, ks) ELSE sent[r]]
    /\ UNCHANGED castmsg

\* dispatchReqs for each kicked worker: their requests are given up.
DispatchReqs(ks) ==
    /\ reqmap' = [r \in Rids |-> IF reqmap[r] \in ks THEN None ELSE reqmap[r]]
    /\ castmsg' = [r \in Rids |-> castmsg[r] \ ks]
    /\ clientmap' = [r \in Rids |-> IF Farewell(r, ks) # <<>> THEN None ELSE clientmap[r]]
    /\ sent' = [r \in Rids |-> sent[r] \o Farewell(r, ks)]

CheckWorkers ==
    /\ registered' = registered \ Kicked
    /\ liveness' = [w \in Workers |->
                      IF w \in registered \ Kicked THEN liveness[w] - 1 ELSE 0]
    /\ load' = [w \in Workers |-> IF w \in Kicked THEN 0 ELSE load[w]]
    /\ DispatchReqs(Kicked)
    /\ UNCHANGED <<kind, dispatched, nreply>>

\* The broker process ends and another one is started: the constructor.
Restart ==
    /\ registered' = {}
    /\ liveness' = [w \in Workers |-> 0]
    /\ load' = [w \in Workers |-> 0]
    /\ reqmap' = [r \in Rids |-> None]
    /\ castmsg' = [r \in Rids |-> {}]
    /\ clientmap' = [r \in Rids |-> None]
    /\ UNCHANGED <<kind, dispatched, nreply, sent>>
-----------------------------------------------------------------------------
RouteReq(r) ==
    \/ \E s \in Servers : RouteToType(s, r) \/ RouteToAll(s, r)
    \/ \E w \in Workers : RouteToWorker(w, r)

BrokerNext ==
    \/ \E r \in Rids : RouteReq(r)
    \/ \E w \in Workers, r \in Rids : ReplyReq(w, r)
    \/ \E w \in Workers : Heartbeat(w)
    \/ CheckWorkers
    \/ Restart

BrokerSpec == BrokerInit /\ [][BrokerNext]_brokerVars
-----------------------------------------------------------------------------
\* Types of the broker's tables and histories.
BrokerTypeOK ==
    /\ registered \subseteq Workers
    /\ liveness \in [Workers -> 0..HEALTH_LIVENESS]
    /\ load \in [Workers -> Int]
    /\ reqmap \in [Rids -> Workers \cup {None}]
    /\ castmsg \in [Rids -> SUBSET Workers]
    /\ clientmap \in [Rids -> Clients \cup {None}]
    /\ kind \in [Rids -> Kinds \cup {None}]
    /\ dispatched \in [Rids -> SUBSET Workers]
    /\ nreply \in [Rids -> [Workers -> Nat]]
    /\ sent \in [Rids -> Seq(Msgs)]

\* reqmap, castmsg and clientmap (broker.js:242-260) agree: a request stands in
\* the one table its routing chose, the client is remembered exactly as long as
\* somebody is waited for, and nobody is waited for whom the broker has
\* forgotten - such a request would never be answered nor given up.
Bookkeeping ==
    \A r \in Rids :
        /\ reqmap[r] # None => kind[r] = "point"
        /\ castmsg[r] # {} => kind[r] = "cast"
        /\ clientmap[r] = IF Awaiting(r) # {} THEN ClientOf[r] ELSE None
        /\ Awaiting(r) \subseteq registered \cap dispatched[r]

\* load, the counter that routeReq minimises (broker.js:48-61), never exceeds the
\* requests that wait for the worker, whatever late or repeated replies arrive:
\* a worker is never shunned for work it does not have.
LoadBound == \A w \in Workers : load[w] <= Cardinality(Outstanding(w))

\* "find a worker with the smallest load" (broker.js:48): the worker that a type
\* request goes to has no more requests waiting for it than any other live one.
RoutesToLeastBusy ==
    [][\A s \in Servers, r \in Rids :
         RouteToType(s, r) /\ reqmap'[r] # None =>
            \A v \in LiveOf(s) :
               Cardinality(Outstanding(reqmap'[r])) <= Cardinality(Outstanding(v))]_brokerVars

\* The broker keeps the promise of RpcService (broker.js as a whole).
Rpc == INSTANCE RpcService WITH awaiting <- [r \in Rids |-> Awaiting(r)], told <- sent
ImplementsRpc == Rpc!Spec
=============================================================================
