---------------------------- MODULE BrokerProofs ----------------------------
(***************************************************************************)
(* What holds of the broker for every set of workers, types, clients and   *)
(* requests and every HEALTH_LIVENESS.  IInv, the types and the agreement  *)
(* of the tables, is inductive; the rest follows from it.                  *)
(***************************************************************************)
EXTENDS Broker, FiniteSetTheorems, TLAPS

IInv == BrokerTypeOK /\ Bookkeeping

USE BrokerAssumption

LEMMA InitIInv == BrokerInit => IInv
  BY DEF BrokerInit, IInv, BrokerTypeOK, Bookkeeping, Awaiting

\* Appending well-formed messages keeps a log well-formed.
LEMMA MsgType ==
    ASSUME NEW t \in {"REPLY", "DONE", "DISCONNECT", "NOEXISTS"},
           NEW w \in Workers \cup {None}, NEW c \in Clients
    PROVE  Msg(t, w, c) \in Msgs
  BY DEF Msg, Msgs

LEMMA NoExistsStep ==
    ASSUME IInv, NEW r \in Rids, NEW k \in Kinds, Fresh(r, k), NoExists(r)
    PROVE  IInv'
  <1>1. sent' \in [Rids -> Seq(Msgs)]
    BY MsgType DEF NoExists, IInv, BrokerTypeOK
  <1>2. BrokerTypeOK'
    BY <1>1 DEF NoExists, Fresh, tables, IInv, BrokerTypeOK
  <1>3. Bookkeeping'
    BY DEF NoExists, Fresh, tables, IInv, BrokerTypeOK, Bookkeeping, Awaiting
  <1>4. QED BY <1>2, <1>3 DEF IInv

LEMMA AssignStep ==
    ASSUME IInv, NEW r \in Rids, NEW w \in Workers, w \in registered,
           Fresh(r, "point"), Assign(w, r)
    PROVE  IInv'
  <1>1. BrokerTypeOK'
    BY DEF Assign, Fresh, IInv, BrokerTypeOK, Kinds
  <1>2. Bookkeeping'
    BY DEF Assign, Fresh, IInv, BrokerTypeOK, Bookkeeping, Awaiting, Kinds
  <1>3. QED BY <1>1, <1>2 DEF IInv

LEMMA RouteReqStep ==
    ASSUME IInv, NEW r \in Rids, RouteReq(r)
    PROVE  IInv'
  <1>1. ASSUME NEW s \in Servers, RouteToType(s, r) PROVE IInv'
    BY <1>1, AssignStep, NoExistsStep DEF RouteToType, LiveOf, Live, Kinds
  <1>2. ASSUME NEW s \in Servers, RouteToAll(s, r) PROVE IInv'
    <2>1. CASE LiveOf(s) = {} /\ NoExists(r)
      BY <1>2, <2>1, NoExistsStep DEF RouteToAll, Kinds
    <2>2. CASE LiveOf(s) # {}
      <3>1. LiveOf(s) \subseteq registered /\ LiveOf(s) \in SUBSET Workers
        BY DEF LiveOf, Live
      <3>2. BrokerTypeOK'
        <4>1. load' \in [Workers -> Int]
          BY <1>2, <2>2 DEF RouteToAll, IInv, BrokerTypeOK
        <4>2. castmsg' \in [Rids -> SUBSET Workers] /\ dispatched' \in [Rids -> SUBSET Workers]
          <5> DEFINE ws == LiveOf(s)
          <5>1. ws \in SUBSET Workers
            BY <3>1
          <5>2. /\ castmsg' = [castmsg EXCEPT ![r] = ws]
                /\ dispatched' = [dispatched EXCEPT ![r] = ws]
            BY <1>2, <2>2 DEF RouteToAll
          <5> HIDE DEF ws
          <5>3. QED BY <5>1, <5>2 DEF IInv, BrokerTypeOK
        <4>3. kind' \in [Rids -> Kinds \cup {None}] /\ clientmap' \in [Rids -> Clients \cup {None}]
          BY <1>2, <2>2 DEF RouteToAll, Fresh, IInv, BrokerTypeOK, Kinds
        <4>4. QED
          BY <1>2, <2>2, <4>1, <4>2, <4>3 DEF RouteToAll, IInv, BrokerTypeOK
      <3>3. Bookkeeping'
        <4> DEFINE ws == LiveOf(s)
        <4>1. /\ castmsg' = [castmsg EXCEPT ![r] = ws]
              /\ dispatched' = [dispatched EXCEPT ![r] = ws]
              /\ clientmap' = [clientmap EXCEPT ![r] = ClientOf[r]]
              /\ kind[r] = None /\ kind' = [kind EXCEPT ![r] = "cast"]
              /\ UNCHANGED <<registered, reqmap>>
              /\ ws \subseteq registered /\ ws # {}
          BY <1>2, <2>2, <3>1 DEF RouteToAll, Fresh
        <4> HIDE DEF ws
        <4>2. reqmap[r] = None
          BY <4>1 DEF IInv, Bookkeeping
        <4>3. ASSUME NEW q \in Rids, q # r
              PROVE  /\ castmsg'[q] = castmsg[q] /\ dispatched'[q] = dispatched[q]
                     /\ clientmap'[q] = clientmap[q] /\ kind'[q] = kind[q]
          BY <4>1, <4>3 DEF IInv, BrokerTypeOK
        <4>4. /\ castmsg'[r] = ws /\ dispatched'[r] = ws
              /\ clientmap'[r] = ClientOf[r] /\ kind'[r] = "cast"
          BY <4>1 DEF IInv, BrokerTypeOK
        <4>5. ASSUME NEW q \in Rids
              PROVE  /\ reqmap'[q] # None => kind'[q] = "point"
                     /\ castmsg'[q] # {} => kind'[q] = "cast"
                     /\ clientmap'[q] = IF Awaiting(q)' # {} THEN ClientOf[q] ELSE None
                     /\ Awaiting(q)' \subseteq registered' \cap dispatched'[q]
          BY <4>1, <4>2, <4>3, <4>4 DEF IInv, Bookkeeping, Awaiting
        <4> QED
          BY <4>5 DEF Bookkeeping
      <3>4. QED BY <3>2, <3>3 DEF IInv
    <2>3. QED BY <1>2, <2>1, <2>2 DEF RouteToAll
  <1>3. ASSUME NEW w \in Workers, RouteToWorker(w, r) PROVE IInv'
    <2>1. w \in registered => Live(w)
      BY DEF Live, IInv, BrokerTypeOK
    <2>2. QED
      BY <1>3, <2>1, AssignStep, NoExistsStep DEF RouteToWorker, Kinds
  <1>4. QED BY <1>1, <1>2, <1>3 DEF RouteReq

LEMMA HeartbeatStep ==
    ASSUME IInv, NEW w \in Workers, Heartbeat(w)
    PROVE  IInv'
  BY DEF Heartbeat, IInv, BrokerTypeOK, Bookkeeping, Awaiting

LEMMA RestartStep == IInv /\ Restart => IInv'
  BY DEF Restart, IInv, BrokerTypeOK, Bookkeeping, Awaiting

LEMMA ReplyReqStep ==
    ASSUME IInv, NEW w \in Workers, NEW r \in Rids, ReplyReq(w, r)
    PROVE  IInv'
  <1>1. nreply' \in [Rids -> [Workers -> Nat]]
    <2> DEFINE f == [nreply[r] EXCEPT ![w] = @ + 1]
    <2>1. nreply[r] \in [Workers -> Nat]
      BY DEF IInv, BrokerTypeOK
    <2>2. f \in [Workers -> Nat]
      BY <2>1
    <2>3. nreply' = [nreply EXCEPT ![r] = f]
      BY DEF ReplyReq
    <2> HIDE DEF f
    <2>4. QED BY <2>2, <2>3 DEF IInv, BrokerTypeOK
  <1>2. load' \in [Workers -> Int] /\ liveness' \in [Workers -> 0..HEALTH_LIVENESS]
    <2>1. CASE w \in registered
      BY <2>1 DEF ReplyReq, Credit, IInv, BrokerTypeOK
    <2>2. CASE w \notin registered
      BY <2>2 DEF ReplyReq, Credit, IInv, BrokerTypeOK
    <2>3. QED BY <2>1, <2>2
  <1>3. CASE ReplyCast(w, r)
    <2>1. clientmap[r] = ClientOf[r] /\ ClientOf[r] \in Clients
      BY <1>3 DEF ReplyCast, IInv, Bookkeeping, Awaiting
    <2>2. sent' \in [Rids -> Seq(Msgs)]
      <3>1. Forward(w, r) \in Seq(Msgs)
        BY <2>1, MsgType DEF Forward
      <3>2. Msg("DONE", None, clientmap[r]) \in Msgs
        BY <2>1, MsgType
      <3>3. QED BY <1>3, <3>1, <3>2 DEF ReplyCast, IInv, BrokerTypeOK
    <2>3. BrokerTypeOK'
      BY <1>1, <1>2, <1>3, <2>2 DEF ReplyReq, ReplyCast, IInv, BrokerTypeOK
    <2>4. Bookkeeping'
      <3>1. ASSUME NEW q \in Rids, q # r
            PROVE  /\ castmsg'[q] = castmsg[q] /\ reqmap'[q] = reqmap[q]
                   /\ clientmap'[q] = clientmap[q]
        BY <1>3, <3>1 DEF ReplyCast, IInv, BrokerTypeOK
      <3>2. /\ castmsg[r] # {} /\ kind[r] = "cast" /\ reqmap[r] = None
            /\ castmsg'[r] = castmsg[r] \ {w} /\ reqmap'[r] = reqmap[r]
            /\ clientmap'[r] = IF castmsg[r] = {w} THEN None ELSE clientmap[r]
            /\ castmsg[r] \subseteq registered \cap dispatched[r]
        BY <1>3 DEF ReplyCast, IInv, BrokerTypeOK, Bookkeeping, Awaiting
      <3>3. UNCHANGED <<registered, kind, dispatched>>
        BY DEF ReplyReq
      <3>4. ASSUME NEW q \in Rids
            PROVE  /\ reqmap'[q] # None => kind'[q] = "point"
                   /\ castmsg'[q] # {} => kind'[q] = "cast"
                   /\ clientmap'[q] = IF Awaiting(q)' # {} THEN ClientOf[q] ELSE None
                   /\ Awaiting(q)' \subseteq registered' \cap dispatched'[q]
        <4>1. CASE q = r
          BY <2>1, <3>2, <3>3, <4>1 DEF IInv, Bookkeeping, Awaiting
        <4>2. CASE q # r
          BY <3>1, <3>3, <4>2 DEF IInv, Bookkeeping, Awaiting
        <4> QED
          BY <4>1, <4>2
      <3> QED
        BY <3>4 DEF Bookkeeping
    <2>5. QED BY <2>3, <2>4 DEF IInv
  <1>4. CASE ReplyPoint(w, r)
    <2>1. clientmap[r] = ClientOf[r] /\ ClientOf[r] \in Clients
      BY <1>4 DEF ReplyPoint, IInv, Bookkeeping, Awaiting
    <2>2. sent' \in [Rids -> Seq(Msgs)]
      <3>1. Forward(w, r) \in Seq(Msgs)
        BY <2>1, MsgType DEF Forward
      <3>2. QED BY <1>4, <3>1 DEF ReplyPoint, IInv, BrokerTypeOK
    <2>3. BrokerTypeOK'
      BY <1>1, <1>2, <1>4, <2>2 DEF ReplyReq, ReplyPoint, IInv, BrokerTypeOK
    <2>4. Bookkeeping'
      <3>1. ASSUME NEW q \in Rids, q # r
            PROVE  /\ castmsg'[q] = castmsg[q] /\ reqmap'[q] = reqmap[q]
                   /\ clientmap'[q] = clientmap[q]
        BY <1>4, <3>1 DEF ReplyPoint, IInv, BrokerTypeOK
      <3>2. /\ castmsg'[r] = {} /\ reqmap'[r] = None
            /\ clientmap'[r] = None
        BY <1>4 DEF ReplyPoint, IInv, BrokerTypeOK
      <3>3. UNCHANGED <<registered, kind, dispatched>>
        BY DEF ReplyReq
      <3>4. ASSUME NEW q \in Rids
            PROVE  /\ reqmap'[q] # None => kind'[q] = "point"
                   /\ castmsg'[q] # {} => kind'[q] = "cast"
                   /\ clientmap'[q] = IF Awaiting(q)' # {} THEN ClientOf[q] ELSE None
                   /\ Awaiting(q)' \subseteq registered' \cap dispatched'[q]
        <4>1. CASE q = r
          BY <2>1, <3>2, <3>3, <4>1 DEF IInv, Bookkeeping, Awaiting
        <4>2. CASE q # r
          BY <3>1, <3>3, <4>2 DEF IInv, Bookkeeping, Awaiting
        <4> QED
          BY <4>1, <4>2
      <3> QED
        BY <3>4 DEF Bookkeeping
    <2>5. QED BY <2>3, <2>4 DEF IInv
  <1>5. CASE ReplyStale(w, r)
    <2>1. BrokerTypeOK'
      BY <1>1, <1>2, <1>5 DEF ReplyReq, ReplyStale, IInv, BrokerTypeOK
    <2>2. Bookkeeping'
      BY <1>5 DEF ReplyReq, ReplyStale, IInv, BrokerTypeOK, Bookkeeping, Awaiting
    <2>3. QED BY <2>1, <2>2 DEF IInv
  <1>6. QED BY <1>3, <1>4, <1>5 DEF ReplyReq

\* The last words for a request are well formed, and there are some exactly
\* when nobody is left who could answer it.
LEMMA FarewellFacts ==
    ASSUME IInv, NEW r \in Rids, NEW ks \in SUBSET Workers
    PROVE  /\ Farewell(r, ks) \in Seq(Msgs)
           /\ Farewell(r, ks) # <<>> <=> Awaiting(r) # {} /\ Awaiting(r) \subseteq ks
           /\ Farewell(r, ks) # <<>> /\ castmsg[r] # {} =>
                 Farewell(r, ks) = <<Msg("DONE", None, ClientOf[r])>>
           /\ Farewell(r, ks) # <<>> /\ castmsg[r] = {} =>
                 Farewell(r, ks) = <<Msg("DISCONNECT", reqmap[r], ClientOf[r])>>
  <1>1. reqmap[r] # None => castmsg[r] = {}
    BY DEF IInv, Bookkeeping, BrokerTypeOK
  <1>2. Awaiting(r) # {} => clientmap[r] = ClientOf[r] /\ clientmap[r] # None
    BY DEF IInv, Bookkeeping
  <1>3. CASE reqmap[r] \in ks
    <2>1. reqmap[r] \in Workers /\ reqmap[r] # None /\ Awaiting(r) = {reqmap[r]}
      BY <1>1, <1>3 DEF Awaiting
    <2>2. Farewell(r, ks) = <<Msg("DISCONNECT", reqmap[r], ClientOf[r])>>
      BY <1>2, <1>3, <2>1 DEF Farewell
    <2>3. Msg("DISCONNECT", reqmap[r], ClientOf[r]) \in Msgs
      BY <2>1, MsgType
    <2>4. QED BY <1>1, <1>3, <2>1, <2>2, <2>3
  <1>4. CASE reqmap[r] \notin ks /\ castmsg[r] # {} /\ castmsg[r] \subseteq ks
    <2>1. reqmap[r] = None /\ Awaiting(r) = castmsg[r]
      BY <1>1, <1>4 DEF Awaiting
    <2>2. Farewell(r, ks) = <<Msg("DONE", None, ClientOf[r])>>
      BY <1>2, <1>4, <2>1 DEF Farewell
    <2>3. Msg("DONE", None, ClientOf[r]) \in Msgs
      BY MsgType
    <2>4. QED BY <1>4, <2>1, <2>2, <2>3
  <1>5. CASE reqmap[r] \notin ks /\ ~(castmsg[r] # {} /\ castmsg[r] \subseteq ks)
    <2>1. Farewell(r, ks) = <<>>
      BY <1>5 DEF Farewell
    <2>2. ~(Awaiting(r) # {} /\ Awaiting(r) \subseteq ks)
      BY <1>5 DEF Awaiting, IInv, BrokerTypeOK
    <2>3. QED BY <2>1, <2>2
  <1>6. QED BY <1>3, <1>4, <1>5

LEMMA CheckWorkersStep == IInv /\ CheckWorkers => IInv'
  <1> SUFFICES ASSUME IInv, CheckWorkers PROVE IInv'
    OBVIOUS
  <1>1. Kicked \in SUBSET Workers /\ Kicked \subseteq registered
    BY DEF Kicked, IInv, BrokerTypeOK
  <1>2. liveness' \in [Workers -> 0..HEALTH_LIVENESS]
    <2>1. \A w \in registered \ Kicked : liveness[w] - 1 \in 0..HEALTH_LIVENESS
      BY DEF Kicked, IInv, BrokerTypeOK
    <2>2. QED BY <2>1 DEF CheckWorkers, IInv, BrokerTypeOK
  <1>3. load' \in [Workers -> Int]
    BY DEF CheckWorkers, IInv, BrokerTypeOK
  <1>4. sent' \in [Rids -> Seq(Msgs)]
    <2>1. \A r \in Rids : sent[r] \o Farewell(r, Kicked) \in Seq(Msgs)
      BY <1>1, FarewellFacts DEF IInv, BrokerTypeOK
    <2>2. QED BY <2>1 DEF CheckWorkers, DispatchReqs
  <1>5. BrokerTypeOK'
    <2>1. /\ reqmap' \in [Rids -> Workers \cup {None}]
          /\ castmsg' \in [Rids -> SUBSET Workers]
          /\ clientmap' \in [Rids -> Clients \cup {None}]
      BY DEF CheckWorkers, DispatchReqs, IInv, BrokerTypeOK
    <2>2. QED
      BY <1>1, <1>2, <1>3, <1>4, <2>1 DEF CheckWorkers, IInv, BrokerTypeOK
  <1>6. Bookkeeping'
    <2> SUFFICES ASSUME NEW r \in Rids
                 PROVE  /\ reqmap'[r] # None => kind'[r] = "point"
                        /\ castmsg'[r] # {} => kind'[r] = "cast"
                        /\ clientmap'[r] = IF Awaiting(r)' # {} THEN ClientOf[r] ELSE None
                        /\ Awaiting(r)' \subseteq registered' \cap dispatched'[r]
      BY DEF Bookkeeping
    <2>1. Awaiting(r)' = Awaiting(r) \ Kicked
      BY <1>1 DEF Awaiting, CheckWorkers, DispatchReqs
    <2>2. clientmap'[r] = IF Farewell(r, Kicked) # <<>> THEN None ELSE clientmap[r]
      BY DEF CheckWorkers, DispatchReqs
    <2>3. clientmap'[r] = IF Awaiting(r)' # {} THEN ClientOf[r] ELSE None
      BY <1>1, <2>1, <2>2, FarewellFacts DEF IInv, Bookkeeping
    <2>4. Awaiting(r)' \subseteq registered' \cap dispatched'[r]
      BY <2>1 DEF CheckWorkers, IInv, Bookkeeping
    <2>5. /\ reqmap'[r] # None => kind'[r] = "point"
          /\ castmsg'[r] # {} => kind'[r] = "cast"
      BY DEF CheckWorkers, DispatchReqs, IInv, Bookkeeping
    <2>6. QED BY <2>3, <2>4, <2>5
  <1>7. QED BY <1>5, <1>6 DEF IInv

LEMMA NextIInv == IInv /\ [BrokerNext]_brokerVars => IInv'
  <1> SUFFICES ASSUME IInv, [BrokerNext]_brokerVars PROVE IInv'
    OBVIOUS
  <1>1. CASE UNCHANGED brokerVars
    BY <1>1 DEF brokerVars, tables, IInv, BrokerTypeOK, Bookkeeping, Awaiting
  <1>2. CASE BrokerNext
    BY <1>2, RouteReqStep, ReplyReqStep, HeartbeatStep, CheckWorkersStep, RestartStep
       DEF BrokerNext
  <1>3. QED BY <1>1, <1>2

\* The tables of the broker (broker.js:231-260) keep their types, and liveness
\* stays between 0 and HEALTH_LIVENESS: a worker below 0 is gone before the
\* next message is handled, so the liveness tests of routeReq never fail.
THEOREM TypeCorrect == BrokerSpec => []BrokerTypeOK
  BY InitIInv, NextIInv, PTL DEF BrokerSpec, IInv

\* reqmap, castmsg and clientmap agree after every handler and timer, and every
\* request the broker waits for waits for a registered worker.
THEOREM TablesAgree == BrokerSpec => []Bookkeeping
  BY InitIInv, NextIInv, PTL DEF BrokerSpec, IInv
-----------------------------------------------------------------------------
(* LoadBound *)

LEMMA OutstandingFinite ==
    ASSUME NEW w
    PROVE  /\ IsFiniteSet(Outstanding(w))
           /\ Cardinality(Outstanding(w)) \in Nat
  BY FS_Subset, FS_CardinalityType DEF Outstanding

LEMMA LoadStep == IInv /\ LoadBound /\ [BrokerNext]_brokerVars => LoadBound'
  <1> SUFFICES ASSUME IInv, LoadBound, [BrokerNext]_brokerVars, NEW v \in Workers
               PROVE  load'[v] <= Cardinality(Outstanding(v)')
    BY DEF LoadBound
  <1> DEFINE old == Outstanding(v)
             new == Outstanding(v)'
  <1>1. load[v] \in Int /\ load'[v] \in Int /\ load[v] <= Cardinality(old)
    BY NextIInv DEF LoadBound, IInv, BrokerTypeOK
  <1>2. new = {r \in Rids : v \in Awaiting(r)'}
    BY DEF Outstanding
  <1>3. /\ IsFiniteSet(old) /\ IsFiniteSet(new)
        /\ Cardinality(old) \in Nat /\ Cardinality(new) \in Nat
    BY <1>2, FS_Subset, FS_CardinalityType DEF Outstanding
  <1> HIDE DEF old, new
  \* A step that leaves the counter and the requests of v alone.
  <1>4. ASSUME load'[v] <= load[v], old \subseteq new
        PROVE  load'[v] <= Cardinality(new)
    <2>1. Cardinality(old) <= Cardinality(new)
      BY <1>3, <1>4, FS_Subset
    <2>2. QED BY <1>1, <1>3, <1>4, <2>1
  \* One request more, counted.
  <1>5. ASSUME NEW r \in Rids, r \notin old, new = old \cup {r}, load'[v] = load[v] + 1
        PROVE  load'[v] <= Cardinality(new)
    <2>1. Cardinality(new) = Cardinality(old) + 1
      BY <1>3, <1>5, FS_AddElement
    <2>2. QED BY <1>1, <1>3, <1>5, <2>1
  \* At most one request less, counted.
  <1>6. ASSUME NEW r \in Rids, old \ {r} \subseteq new, load'[v] = load[v] - 1
        PROVE  load'[v] <= Cardinality(new)
    <2>1. /\ IsFiniteSet(old \ {r}) /\ Cardinality(old \ {r}) \in Nat
          /\ Cardinality(old) <= Cardinality(old \ {r}) + 1
      <3>1. /\ IsFiniteSet(old \ {r})
            /\ Cardinality(old \ {r}) =
                 IF r \in old THEN Cardinality(old) - 1 ELSE Cardinality(old)
        BY <1>3, FS_RemoveElement
      <3>2. Cardinality(old \ {r}) \in Nat
        BY <3>1, FS_CardinalityType
      <3>3. QED BY <1>3, <3>1, <3>2
    <2>2. Cardinality(old \ {r}) <= Cardinality(new)
      BY <1>3, <1>6, FS_Subset
    <2>3. QED BY <1>1, <1>3, <1>6, <2>1, <2>2
  <1>7. ASSUME load'[v] = 0 PROVE load'[v] <= Cardinality(new)
    BY <1>3, <1>7
  <1>8. ASSUME NEW r \in Rids, RouteReq(r) PROVE load'[v] <= Cardinality(new)
    <2>1. ASSUME NEW w \in Workers, kind[r] = None, Assign(w, r)
          PROVE  load'[v] <= Cardinality(new)
      <3>1. CASE v = w
        <4>1. r \notin old /\ new = old \cup {r}
          BY <2>1, <3>1, <1>2
             DEF old, Outstanding, Assign, Awaiting, IInv, BrokerTypeOK, Bookkeeping, Kinds
        <4>2. load'[v] = load[v] + 1
          BY <2>1, <3>1 DEF Assign, IInv, BrokerTypeOK
        <4>3. QED BY <4>1, <4>2, <1>5
      <3>2. CASE v # w
        <4>1. old \subseteq new
          BY <2>1, <3>2, <1>2
             DEF old, Outstanding, Assign, Awaiting, IInv, BrokerTypeOK, Bookkeeping, Kinds
        <4>2. load'[v] = load[v]
          BY <2>1, <3>2 DEF Assign, IInv, BrokerTypeOK
        <4>3. QED BY <1>1, <4>1, <4>2, <1>4
      <3>3. QED BY <3>1, <3>2
    <2>2. ASSUME UNCHANGED tables PROVE load'[v] <= Cardinality(new)
      BY <2>2, <1>1, <1>2, <1>4 DEF old, tables, Outstanding, Awaiting
    <2>3. ASSUME NEW s \in Servers, RouteToAll(s, r), LiveOf(s) # {}
          PROVE  load'[v] <= Cardinality(new)
      <3>1. kind[r] = None
        BY <2>3 DEF RouteToAll, Fresh
      <3>2. Awaiting(r) = {}
        BY <3>1 DEF Awaiting, IInv, Bookkeeping, Kinds
      <3>3. Awaiting(r)' = LiveOf(s)
        BY <2>3, <3>2 DEF RouteToAll, Awaiting, IInv, BrokerTypeOK
      <3>4. \A q \in Rids : q # r => Awaiting(q)' = Awaiting(q)
        BY <2>3 DEF RouteToAll, Awaiting, IInv, BrokerTypeOK
      <3>5. load' = [u \in Workers |-> IF u \in LiveOf(s) THEN load[u] + 1 ELSE load[u]]
        BY <2>3 DEF RouteToAll
      <3>6. CASE v \in LiveOf(s)
        <4>1. r \notin old /\ new = old \cup {r}
          BY <1>2, <3>2, <3>3, <3>4, <3>6 DEF old, Outstanding
        <4>2. load'[v] = load[v] + 1
          BY <3>5, <3>6
        <4>3. QED BY <4>1, <4>2, <1>5
      <3>7. CASE v \notin LiveOf(s)
        <4>1. old \subseteq new
          BY <1>2, <3>2, <3>4 DEF old, Outstanding
        <4>2. load'[v] = load[v]
          BY <3>5, <3>7
        <4>3. QED BY <1>1, <4>1, <4>2, <1>4
      <3>8. QED BY <3>6, <3>7
    <2>4. QED
      BY <1>8, <2>1, <2>2, <2>3
         DEF RouteReq, RouteToType, RouteToAll, RouteToWorker, Fresh, NoExists, LiveOf, tables
  <1>9. ASSUME NEW w \in Workers, NEW r \in Rids, ReplyReq(w, r)
        PROVE  load'[v] <= Cardinality(new)
    <2>1. old \ {r} \subseteq new
      BY <1>9, <1>2 DEF old, Outstanding, ReplyReq, ReplyCast, ReplyPoint, ReplyStale,
                        Awaiting, IInv, BrokerTypeOK
    <2>2. w # v => old \subseteq new
      BY <1>9, <1>2 DEF old, Outstanding, ReplyReq, ReplyCast, ReplyPoint, ReplyStale,
                        Awaiting, IInv, BrokerTypeOK
    <2>3. v \notin registered => old \subseteq new
      BY <1>2 DEF old, Outstanding, IInv, Bookkeeping
    <2>4. load'[v] = IF v = w /\ v \in registered THEN load[v] - 1 ELSE load[v]
      BY <1>9 DEF ReplyReq, Credit, IInv, BrokerTypeOK
    <2>5. QED BY <1>1, <1>4, <1>6, <2>1, <2>2, <2>3, <2>4
  <1>10. ASSUME NEW w \in Workers, Heartbeat(w) PROVE load'[v] <= Cardinality(new)
    <2>1. old = new
      BY <1>10, <1>2 DEF old, Outstanding, Heartbeat, Awaiting
    <2>2. load'[v] = load[v] \/ load'[v] = 0
      BY <1>10 DEF Heartbeat, IInv, BrokerTypeOK
    <2>3. QED BY <1>1, <1>4, <1>7, <2>1, <2>2
  <1>11. CASE CheckWorkers
    <2>1. v \notin Kicked => old = new
      BY <1>11, <1>2 DEF old, Outstanding, CheckWorkers, DispatchReqs, Awaiting,
                         IInv, BrokerTypeOK
    <2>2. load'[v] = IF v \in Kicked THEN 0 ELSE load[v]
      BY <1>11 DEF CheckWorkers
    <2>3. CASE v \in Kicked
      BY <1>7, <2>2, <2>3 DEF new
    <2>4. CASE v \notin Kicked
      BY <1>1, <1>4, <2>1, <2>2, <2>4 DEF new
    <2>5. QED BY <2>3, <2>4
  <1>12. CASE Restart
    <2>1. load'[v] = 0
      BY <1>12 DEF Restart
    <2>2. QED BY <1>7, <2>1 DEF new
  <1>13. CASE UNCHANGED brokerVars
    BY <1>13, <1>1, <1>2, <1>4 DEF old, new, brokerVars, tables, Outstanding, Awaiting
  <1>14. QED
    BY <1>8, <1>9, <1>10, <1>11, <1>12, <1>13 DEF BrokerNext, new

\* The load routeReq minimises never exceeds the requests that wait for the
\* worker, for late and repeated replies and restarts too.
THEOREM LoadIsBounded == BrokerSpec => []LoadBound
  <1>1. BrokerInit => LoadBound
    <2>1. ASSUME BrokerInit, NEW w \in Workers PROVE load[w] <= Cardinality(Outstanding(w))
      BY <2>1, OutstandingFinite DEF BrokerInit
    <2>2. QED BY <2>1 DEF LoadBound
  <1>2. QED
    BY <1>1, InitIInv, NextIInv, LoadStep, PTL DEF BrokerSpec
-----------------------------------------------------------------------------
(* The broker implements RpcService *)

LEMMA MsgRefines ==
    ASSUME NEW t, NEW w, NEW r
    PROVE  Rpc!Msg(t, w, r) = Msg(t, w, ClientOf[r])
  BY DEF Rpc!Msg, Msg

LEMMA AssignRefines ==
    ASSUME IInv, NEW r \in Rids, NEW w \in Workers, Fresh(r, "point"), Assign(w, r)
    PROVE  Rpc!Accept(r, "point", {w})
  <1>1. Awaiting(r)' = {w} /\ \A q \in Rids \ {r} : Awaiting(q)' = Awaiting(q)
    BY DEF Assign, Fresh, Awaiting, IInv, BrokerTypeOK, Bookkeeping, Kinds
  <1>2. [q \in Rids |-> Awaiting(q)]' = [[q \in Rids |-> Awaiting(q)] EXCEPT ![r] = {w}]
    BY <1>1
  <1>3. QED BY <1>2 DEF Rpc!Accept, Assign, Fresh

LEMMA NoExistsRefines ==
    ASSUME IInv, NEW r \in Rids, NEW k \in Kinds, Fresh(r, k), NoExists(r)
    PROVE  Rpc!Reject(r, k)
  <1>1. \A q \in Rids : Awaiting(q)' = Awaiting(q)
    BY DEF NoExists, tables, Awaiting
  <1>2. QED BY <1>1, MsgRefines DEF Rpc!Reject, NoExists, Fresh

LEMMA RouteReqRefines ==
    ASSUME IInv, NEW r \in Rids, RouteReq(r)
    PROVE  Rpc!Next
  <1>1. ASSUME NEW w \in Workers, Fresh(r, "point"), Assign(w, r) PROVE Rpc!Next
    <2>1. Rpc!Accept(r, "point", {w})
      BY <1>1, AssignRefines
    <2>2. QED BY <2>1 DEF Rpc!Next, Rpc!Kinds
  <1>2. ASSUME NEW k \in Kinds, Fresh(r, k), NoExists(r) PROVE Rpc!Next
    <2>1. Rpc!Reject(r, k)
      BY <1>2, NoExistsRefines
    <2>2. QED BY <2>1 DEF Rpc!Next, Rpc!Kinds, Kinds
  <1>3. ASSUME NEW s \in Servers, RouteToAll(s, r), LiveOf(s) # {} PROVE Rpc!Next
    <2>1. LiveOf(s) \in SUBSET Workers
      BY DEF LiveOf
    <2>2. Awaiting(r)' = LiveOf(s) /\ \A q \in Rids \ {r} : Awaiting(q)' = Awaiting(q)
      BY <1>3 DEF RouteToAll, Fresh, Awaiting, IInv, BrokerTypeOK, Bookkeeping, Kinds
    <2>3. [q \in Rids |-> Awaiting(q)]' = [[q \in Rids |-> Awaiting(q)] EXCEPT ![r] = LiveOf(s)]
      BY <2>2
    <2>4. Rpc!Accept(r, "cast", LiveOf(s))
      BY <1>3, <2>3 DEF Rpc!Accept, RouteToAll, Fresh
    <2>5. QED BY <2>1, <2>4 DEF Rpc!Next, Rpc!Kinds
  <1>4. \A w \in registered : w \in Workers /\ Live(w)
    BY DEF Live, IInv, BrokerTypeOK
  <1>5. CASE \E s \in Servers : RouteToType(s, r)
    BY <1>1, <1>2, <1>5 DEF RouteToType, LiveOf, Kinds
  <1>6. CASE \E s \in Servers : RouteToAll(s, r)
    BY <1>2, <1>3, <1>6 DEF RouteToAll, Kinds
  <1>7. CASE \E w \in Workers : RouteToWorker(w, r)
    BY <1>1, <1>2, <1>4, <1>7 DEF RouteToWorker, Kinds
  <1>8. QED BY <1>5, <1>6, <1>7 DEF RouteReq

LEMMA ReplyReqRefines ==
    ASSUME IInv, NEW w \in Workers, NEW r \in Rids, ReplyReq(w, r)
    PROVE  Rpc!Answer(r, w) \/ UNCHANGED Rpc!vars
  <1>1. UNCHANGED kind
    BY DEF ReplyReq
  <1>2. CASE ReplyCast(w, r)
    <2>1. /\ kind[r] = "cast" /\ reqmap[r] = None /\ Awaiting(r) = castmsg[r]
          /\ clientmap[r] = ClientOf[r] /\ clientmap[r] # None
      <3>1. castmsg[r] # {} /\ kind[r] = "cast"
        BY <1>2 DEF ReplyCast, IInv, Bookkeeping
      <3>2. reqmap[r] = None
        BY <3>1 DEF IInv, Bookkeeping
      <3>3. Awaiting(r) = castmsg[r]
        BY <3>2 DEF Awaiting
      <3> QED BY <3>1, <3>2, <3>3 DEF IInv, Bookkeeping
    <2>2. /\ Awaiting(r)' = Awaiting(r) \ {w}
          /\ \A q \in Rids \ {r} : Awaiting(q)' = Awaiting(q)
      BY <1>2, <2>1 DEF ReplyCast, Awaiting, IInv, BrokerTypeOK
    <2>3. [q \in Rids |-> Awaiting(q)]' =
            [[q \in Rids |-> Awaiting(q)] EXCEPT ![r] = Awaiting(r) \ {w}]
      BY <2>2
    <2>4. sent' = [sent EXCEPT ![r] = @ \o <<Msg("REPLY", w, ClientOf[r])>> \o
                     (IF castmsg[r] = {w} THEN <<Msg("DONE", None, ClientOf[r])>> ELSE <<>>)]
      BY <1>2, <2>1 DEF ReplyCast, Forward
    <2>5. QED
      BY <1>1, <1>2, <2>1, <2>3, <2>4, MsgRefines DEF Rpc!Answer, ReplyCast
  <1>3. CASE ReplyPoint(w, r)
    <2>1. /\ kind[r] = "point" /\ Awaiting(r) = {w}
          /\ clientmap[r] = ClientOf[r] /\ clientmap[r] # None
      BY <1>3 DEF ReplyPoint, Awaiting, IInv, BrokerTypeOK, Bookkeeping
    <2>2. /\ Awaiting(r)' = Awaiting(r) \ {w}
          /\ \A q \in Rids \ {r} : Awaiting(q)' = Awaiting(q)
      BY <1>3, <2>1 DEF ReplyPoint, Awaiting, IInv, BrokerTypeOK
    <2>3. [q \in Rids |-> Awaiting(q)]' =
            [[q \in Rids |-> Awaiting(q)] EXCEPT ![r] = Awaiting(r) \ {w}]
      BY <2>2
    <2>4. sent' = [sent EXCEPT ![r] = @ \o <<Msg("REPLY", w, ClientOf[r])>> \o <<>>]
      <3>1. sent' = [sent EXCEPT ![r] = @ \o <<Msg("REPLY", w, ClientOf[r])>>]
        BY <1>3, <2>1 DEF ReplyPoint, Forward
      <3>2. /\ sent[r] \in Seq(Msgs)
            /\ <<Msg("REPLY", w, ClientOf[r])>> \in Seq(Msgs)
        BY MsgType DEF IInv, BrokerTypeOK
      <3>3. sent[r] \o <<Msg("REPLY", w, ClientOf[r])>> =
              sent[r] \o <<Msg("REPLY", w, ClientOf[r])>> \o <<>>
        BY <3>2
      <3>4. QED BY <3>1, <3>3
    <2>5. QED
      BY <1>1, <2>1, <2>3, <2>4, MsgRefines DEF Rpc!Answer
  <1>4. CASE ReplyStale(w, r)
    BY <1>1, <1>4 DEF ReplyStale, Awaiting, Rpc!vars
  <1>5. QED BY <1>2, <1>3, <1>4 DEF ReplyReq

LEMMA CheckWorkersRefines ==
    ASSUME IInv, CheckWorkers
    PROVE  Rpc!GiveUp(Kicked) /\ Kicked \in SUBSET Workers
  <1>1. Kicked \in SUBSET Workers
    BY DEF Kicked, IInv, BrokerTypeOK
  <1>2. \A r \in Rids : Awaiting(r)' = Awaiting(r) \ Kicked
    BY <1>1 DEF Awaiting, CheckWorkers, DispatchReqs, IInv, BrokerTypeOK
  <1>3. ASSUME NEW r \in Rids
        PROVE  sent[r] \o Farewell(r, Kicked) =
                 IF Awaiting(r) # {} /\ Awaiting(r) \subseteq Kicked
                 THEN sent[r] \o Rpc!Over(kind[r], r, Awaiting(r)) ELSE sent[r]
    <2>1. CASE ~(Awaiting(r) # {} /\ Awaiting(r) \subseteq Kicked)
      <3>1. Farewell(r, Kicked) = <<>> /\ sent[r] \in Seq(Msgs)
        BY <1>1, <2>1, FarewellFacts DEF IInv, BrokerTypeOK
      <3>2. QED BY <2>1, <3>1
    <2>2. CASE Awaiting(r) # {} /\ Awaiting(r) \subseteq Kicked /\ castmsg[r] # {}
      <3>1. kind[r] = "cast"
        BY <2>2 DEF IInv, Bookkeeping
      <3>2. Farewell(r, Kicked) = <<Msg("DONE", None, ClientOf[r])>>
        BY <1>1, <2>2, FarewellFacts
      <3>3. Rpc!Over(kind[r], r, Awaiting(r)) = <<Msg("DONE", None, ClientOf[r])>>
        BY <3>1, MsgRefines DEF Rpc!Over
      <3>4. QED BY <2>2, <3>2, <3>3
    <2>3. CASE Awaiting(r) # {} /\ Awaiting(r) \subseteq Kicked /\ castmsg[r] = {}
      <3>1. kind[r] = "point" /\ Awaiting(r) = {reqmap[r]}
        BY <2>3 DEF Awaiting, IInv, Bookkeeping
      <3>2. Farewell(r, Kicked) = <<Msg("DISCONNECT", reqmap[r], ClientOf[r])>>
        BY <1>1, <2>3, FarewellFacts
      <3>3. (CHOOSE w \in Awaiting(r) : TRUE) = reqmap[r]
        BY <3>1
      <3>4. Rpc!Over(kind[r], r, Awaiting(r)) = <<Msg("DISCONNECT", reqmap[r], ClientOf[r])>>
        BY <3>1, <3>3, MsgRefines DEF Rpc!Over
      <3>5. QED BY <2>3, <3>2, <3>4
    <2>4. QED BY <2>1, <2>2, <2>3
  <1>4. QED
    BY <1>1, <1>2, <1>3 DEF Rpc!GiveUp, CheckWorkers, DispatchReqs

LEMMA StepRefines == IInv /\ [BrokerNext]_brokerVars => [Rpc!Next]_(Rpc!vars)
  <1> SUFFICES ASSUME IInv, [BrokerNext]_brokerVars PROVE [Rpc!Next]_(Rpc!vars)
    OBVIOUS
  <1>1. ASSUME NEW r \in Rids, RouteReq(r) PROVE Rpc!Next
    BY <1>1, RouteReqRefines
  <1>2. ASSUME NEW w \in Workers, NEW r \in Rids, ReplyReq(w, r)
        PROVE  Rpc!Next \/ UNCHANGED Rpc!vars
    BY <1>2, ReplyReqRefines DEF Rpc!Next
  <1>3. ASSUME NEW w \in Workers, Heartbeat(w) PROVE UNCHANGED Rpc!vars
    BY <1>3 DEF Heartbeat, Awaiting, Rpc!vars
  <1>4. CASE CheckWorkers
    BY <1>4, CheckWorkersRefines DEF Rpc!Next
  <1>5. CASE Restart
    <2>1. \A r \in Rids : Awaiting(r)' = {}
      BY <1>5 DEF Restart, Awaiting
    <2>2. Rpc!Forget
      BY <1>5, <2>1 DEF Rpc!Forget, Restart
    <2>3. QED BY <2>2 DEF Rpc!Next
  <1>6. CASE UNCHANGED brokerVars
    BY <1>6 DEF brokerVars, tables, Awaiting, Rpc!vars
  <1>7. QED
    BY <1>1, <1>2, <1>3, <1>4, <1>5, <1>6 DEF BrokerNext

\* Whatever the workers do and whenever the broker restarts, a caller is told of
\* each call what RpcService allows: at most one answer of each worker, one end.
THEOREM BrokerImplementsRpc == BrokerSpec => ImplementsRpc
  <1>1. BrokerInit => Rpc!Init
    BY DEF BrokerInit, Rpc!Init, Awaiting
  <1>2. QED
    BY <1>1, InitIInv, NextIInv, StepRefines, PTL DEF BrokerSpec, ImplementsRpc, Rpc!Spec
-----------------------------------------------------------------------------
(* The load without stale replies *)

\* A reply is credited to a registered worker that the broker does not wait for: a second
\* one, or one to a request of the time before the worker was kicked or the broker restarted.
StaleReply == \E w \in registered, r \in Rids : ReplyReq(w, r) /\ ReplyStale(w, r)

\* The load of each worker is the number of requests it has in work.
LoadExact == \A w \in Workers : load[w] = Cardinality(Outstanding(w))

\* Every step but a stale reply moves the counter with the requests in work.
LEMMA ExactStep ==
    ASSUME IInv, LoadExact, [BrokerNext]_brokerVars, ~ StaleReply
    PROVE  LoadExact'
  <1> SUFFICES ASSUME NEW v \in Workers
               PROVE  load'[v] = Cardinality(Outstanding(v)')
    BY DEF LoadExact
  <1> DEFINE old == Outstanding(v)
             new == Outstanding(v)'
  <1>1. load[v] \in Int /\ load'[v] \in Int /\ load[v] = Cardinality(old)
    BY NextIInv DEF LoadExact, IInv, BrokerTypeOK
  <1>2. new = {r \in Rids : v \in Awaiting(r)'} /\ old = {r \in Rids : v \in Awaiting(r)}
    BY DEF Outstanding
  <1>3. /\ IsFiniteSet(old) /\ IsFiniteSet(new)
        /\ Cardinality(old) \in Nat /\ Cardinality(new) \in Nat
    <2>1. old \subseteq Rids /\ new \subseteq Rids /\ IsFiniteSet(Rids)
      BY <1>2
    <2> QED BY <2>1, FS_Subset, FS_CardinalityType
  <1>4. v \notin registered => old = {}
    BY <1>2 DEF IInv, Bookkeeping
  <1>5. v \notin registered' => new = {}
    <2>1. Bookkeeping'
      BY NextIInv DEF IInv
    <2> QED BY <1>2, <2>1 DEF Bookkeeping
  <1> HIDE DEF old, new
  \* A step that leaves the counter and the requests of v alone.
  <1>6. ASSUME load'[v] = load[v], old = new
        PROVE  load'[v] = Cardinality(new)
    BY <1>1, <1>6
  <1>7. ASSUME NEW r \in Rids, r \notin old, new = old \cup {r}, load'[v] = load[v] + 1
        PROVE  load'[v] = Cardinality(new)
    <2>1. Cardinality(new) = Cardinality(old) + 1
      BY <1>3, <1>7, FS_AddElement
    <2> QED BY <1>1, <1>7, <2>1
  <1>8. ASSUME NEW r \in Rids, r \in old, new = old \ {r}, load'[v] = load[v] - 1
        PROVE  load'[v] = Cardinality(new)
    <2>1. Cardinality(new) = Cardinality(old) - 1
      BY <1>3, <1>8, FS_RemoveElement
    <2> QED BY <1>1, <1>8, <2>1
  <1>9. ASSUME load'[v] = 0, new = {} PROVE load'[v] = Cardinality(new)
    BY <1>9, FS_EmptySet
  <1>10. ASSUME NEW r \in Rids, RouteReq(r) PROVE load'[v] = Cardinality(new)
    <2>1. ASSUME NEW w \in Workers, kind[r] = None, Assign(w, r)
          PROVE  load'[v] = Cardinality(new)
      <3>1. Awaiting(r) = {} /\ Awaiting(r)' = {w}
        BY <2>1 DEF Assign, Awaiting, IInv, BrokerTypeOK, Bookkeeping, Kinds
      <3>2. \A q \in Rids : q # r => Awaiting(q)' = Awaiting(q)
        BY <2>1 DEF Assign, Awaiting, IInv, BrokerTypeOK
      <3>3. load'[v] = IF v = w THEN load[v] + 1 ELSE load[v]
        BY <2>1 DEF Assign, IInv, BrokerTypeOK
      <3>4. CASE v = w
        <4>1. r \notin old /\ new = old \cup {r}
          BY <1>2, <3>1, <3>2, <3>4
        <4> QED BY <1>7, <3>3, <3>4, <4>1
      <3>5. CASE v # w
        <4>1. old = new
          BY <1>2, <3>1, <3>2, <3>5
        <4> QED BY <1>6, <3>3, <3>5, <4>1
      <3> QED BY <3>4, <3>5
    <2>2. ASSUME UNCHANGED tables PROVE load'[v] = Cardinality(new)
      <3>1. \A q \in Rids : Awaiting(q)' = Awaiting(q)
        BY <2>2 DEF tables, Awaiting
      <3>2. old = new
        BY <1>2, <3>1
      <3> QED BY <1>6, <2>2, <3>2 DEF tables
    <2>3. ASSUME NEW s \in Servers, RouteToAll(s, r), LiveOf(s) # {}
          PROVE  load'[v] = Cardinality(new)
      <3>1. kind[r] = None
        BY <2>3 DEF RouteToAll, Fresh
      <3>2. Awaiting(r) = {}
        BY <3>1 DEF Awaiting, IInv, Bookkeeping, Kinds
      <3>3. Awaiting(r)' = LiveOf(s)
        BY <2>3, <3>2 DEF RouteToAll, Awaiting, IInv, BrokerTypeOK
      <3>4. \A q \in Rids : q # r => Awaiting(q)' = Awaiting(q)
        BY <2>3 DEF RouteToAll, Awaiting, IInv, BrokerTypeOK
      <3>5. load'[v] = IF v \in LiveOf(s) THEN load[v] + 1 ELSE load[v]
        BY <2>3 DEF RouteToAll
      <3>6. CASE v \in LiveOf(s)
        <4>1. r \notin old /\ new = old \cup {r}
          BY <1>2, <3>2, <3>3, <3>4, <3>6
        <4> QED BY <1>7, <3>5, <3>6, <4>1
      <3>7. CASE v \notin LiveOf(s)
        <4>1. old = new
          BY <1>2, <3>2, <3>3, <3>4, <3>7
        <4> QED BY <1>6, <3>5, <3>7, <4>1
      <3> QED BY <3>6, <3>7
    <2> QED
      BY <1>10, <2>1, <2>2, <2>3
         DEF RouteReq, RouteToType, RouteToAll, RouteToWorker, Fresh, NoExists, LiveOf, tables
  <1>11. ASSUME NEW w \in Workers, NEW r \in Rids, ReplyReq(w, r)
         PROVE  load'[v] = Cardinality(new)
    <2>1. load'[v] = IF v = w /\ v \in registered THEN load[v] - 1 ELSE load[v]
      BY <1>11 DEF ReplyReq, Credit, IInv, BrokerTypeOK
    <2>2. CASE ReplyStale(w, r)
      <3>1. w \notin registered
        BY <1>11, <2>2 DEF StaleReply
      <3>2. \A q \in Rids : Awaiting(q)' = Awaiting(q)
        BY <2>2 DEF ReplyStale, Awaiting
      <3>3. old = new
        BY <1>2, <3>2
      <3> QED BY <1>6, <2>1, <3>1, <3>3
    <2>3. CASE ReplyCast(w, r) \/ ReplyPoint(w, r)
      <3>1. w \in Awaiting(r) /\ Awaiting(r)' = Awaiting(r) \ {w}
        <4>1. CASE ReplyCast(w, r)
          <5>1. castmsg[r] # {} /\ reqmap[r] = None
            BY <4>1 DEF ReplyCast, IInv, Bookkeeping, BrokerTypeOK
          <5> QED BY <4>1, <5>1 DEF ReplyCast, Awaiting, IInv, BrokerTypeOK
        <4>2. CASE ReplyPoint(w, r)
          BY <4>2 DEF ReplyPoint, Awaiting, IInv, BrokerTypeOK
        <4> QED BY <2>3, <4>1, <4>2
      <3>2. \A q \in Rids : q # r => Awaiting(q)' = Awaiting(q)
        BY <2>3 DEF ReplyCast, ReplyPoint, Awaiting, IInv, BrokerTypeOK
      <3>3. w \in registered
        BY <3>1 DEF IInv, Bookkeeping
      <3>4. CASE v = w
        <4>1. r \in old /\ new = old \ {r}
          BY <1>2, <3>1, <3>2, <3>4
        <4> QED BY <1>8, <2>1, <3>3, <3>4, <4>1
      <3>5. CASE v # w
        <4>1. old = new
          BY <1>2, <3>1, <3>2, <3>5
        <4> QED BY <1>6, <2>1, <3>5, <4>1
      <3> QED BY <3>4, <3>5
    <2> QED BY <1>11, <2>2, <2>3 DEF ReplyReq
  <1>12. ASSUME NEW w \in Workers, Heartbeat(w) PROVE load'[v] = Cardinality(new)
    <2>1. \A q \in Rids : Awaiting(q)' = Awaiting(q)
      BY <1>12 DEF Heartbeat, Awaiting
    <2>2. old = new
      BY <1>2, <2>1
    <2>3. load'[v] = IF v = w /\ w \notin registered THEN 0 ELSE load[v]
      BY <1>12 DEF Heartbeat, IInv, BrokerTypeOK
    <2>4. CASE v = w /\ w \notin registered
      BY <1>4, <1>9, <2>2, <2>3, <2>4
    <2>5. CASE ~ (v = w /\ w \notin registered)
      BY <1>6, <2>2, <2>3, <2>5
    <2> QED BY <2>4, <2>5
  <1>13. CASE CheckWorkers
    <2>1. load'[v] = IF v \in Kicked THEN 0 ELSE load[v]
      BY <1>13 DEF CheckWorkers
    <2>2. registered' = registered \ Kicked
      BY <1>13 DEF CheckWorkers
    <2>3. CASE v \in Kicked
      BY <1>5, <1>9, <2>1, <2>2, <2>3 DEF new
    <2>4. CASE v \notin Kicked
      <3>1. \A q \in Rids : Awaiting(q)' = Awaiting(q) \ Kicked
        <4>1. None \notin Kicked
          BY DEF Kicked, IInv, BrokerTypeOK
        <4> QED BY <1>13, <4>1 DEF CheckWorkers, DispatchReqs, Awaiting
      <3>2. old = new
        BY <1>2, <2>4, <3>1
      <3> QED BY <1>6, <2>1, <2>4, <3>2 DEF new
    <2> QED BY <2>3, <2>4
  <1>14. CASE Restart
    <2>1. registered' = {} /\ load'[v] = 0
      BY <1>14 DEF Restart
    <2> QED BY <1>5, <1>9, <2>1 DEF new
  <1>15. CASE UNCHANGED brokerVars
    <2>1. \A q \in Rids : Awaiting(q)' = Awaiting(q)
      BY <1>15 DEF brokerVars, tables, Awaiting
    <2>2. old = new
      BY <1>2, <2>1
    <2> QED BY <1>6, <1>15, <2>2 DEF brokerVars, tables, new
  <1> QED
    BY <1>10, <1>11, <1>12, <1>13, <1>14, <1>15 DEF BrokerNext, new

\* As long as every reply that is credited answers a request in work, the load of a worker
\* is the number of its requests in work (broker.js:48-61, 120-149).
THEOREM LoadIsExact == BrokerSpec /\ [][~ StaleReply]_brokerVars => []LoadExact
  <1>1. BrokerInit => LoadExact
    <2> SUFFICES ASSUME BrokerInit, NEW w \in Workers PROVE load[w] = Cardinality(Outstanding(w))
      BY DEF LoadExact
    <2>1. Outstanding(w) = {}
      BY DEF BrokerInit, Outstanding, Awaiting
    <2> QED BY <2>1, FS_EmptySet DEF BrokerInit
  <1>2. IInv /\ LoadExact /\ [BrokerNext]_brokerVars /\ [~ StaleReply]_brokerVars => LoadExact'
    <2> SUFFICES ASSUME IInv, LoadExact, [BrokerNext]_brokerVars, [~ StaleReply]_brokerVars
                 PROVE  LoadExact'
      OBVIOUS
    <2>1. CASE ~ StaleReply
      BY <2>1, ExactStep
    <2>2. CASE UNCHANGED brokerVars
      BY <2>2 DEF LoadExact, Outstanding, Awaiting, brokerVars, tables
    <2> QED BY <2>1, <2>2
  <1> QED
    BY <1>1, <1>2, InitIInv, NextIInv, PTL DEF BrokerSpec

\* So stale replies are the only reason why a request can go to a worker that has more to do
\* than another: without them "find a worker with the smallest load" (broker.js:48) does what
\* it says.
THEOREM RoutesToLeastBusyUnlessStale ==
    BrokerSpec /\ [][~ StaleReply]_brokerVars => RoutesToLeastBusy
  <1> DEFINE Chosen ==
        \A s \in Servers, r \in Rids :
           RouteToType(s, r) /\ reqmap'[r] # None =>
              \A v \in LiveOf(s) :
                 Cardinality(Outstanding(reqmap'[r])) <= Cardinality(Outstanding(v))
  <1>1. IInv /\ LoadExact => Chosen
    <2> SUFFICES ASSUME IInv, LoadExact, NEW s \in Servers, NEW r \in Rids,
                        RouteToType(s, r), reqmap'[r] # None, NEW v \in LiveOf(s)
                 PROVE  Cardinality(Outstanding(reqmap'[r])) <= Cardinality(Outstanding(v))
      OBVIOUS
    <2>1. kind[r] = None /\ reqmap[r] = None
      BY DEF RouteToType, Fresh, IInv, Bookkeeping, Kinds
    <2>2. PICK w \in LiveOf(s) : (\A u \in LiveOf(s) : load[w] <= load[u]) /\ Assign(w, r)
      BY <2>1 DEF RouteToType, NoExists, tables
    <2>3. reqmap'[r] = w /\ w \in Workers /\ v \in Workers
      BY <2>2 DEF Assign, IInv, BrokerTypeOK, LiveOf
    <2> QED BY <2>2, <2>3 DEF LoadExact
  <1>2. IInv /\ LoadExact => [Chosen]_brokerVars
    BY <1>1
  <1>3. BrokerSpec => []IInv
    BY InitIInv, NextIInv, PTL DEF BrokerSpec
  <1> HIDE DEF Chosen
  <1>4. BrokerSpec /\ [][~ StaleReply]_brokerVars => [][Chosen]_brokerVars
    BY <1>2, <1>3, LoadIsExact, PTL
  <1> QED BY <1>4 DEF RoutesToLeastBusy, Chosen
-----------------------------------------------------------------------------
(* What a client is told *)

\* Nothing before the request; of a point request one message, and then nobody is waited
\* for; of a cast one REPLY of each worker and, when nobody is waited for, one message more,
\* which is the last.
Lawful(k, waiting, told) ==
    /\ k = None => told = <<>> /\ waiting = {}
    /\ k = "point" => /\ Len(told) <= 1
                      /\ told # <<>> => waiting = {}
                      /\ \A v, w \in waiting : v = w
    /\ \A i \in 1..Len(told) :
          IF told[i].type = "REPLY"
          THEN /\ told[i].from \notin waiting
               /\ \A j \in 1..Len(told) :
                     told[j].type = "REPLY" /\ told[j].from = told[i].from => j = i
          ELSE i = Len(told) /\ waiting = {}

\* A client is told of each request once what became of it.
ToldOnce == \A r \in Rids : Lawful(kind[r], Awaiting(r), sent[r])

\* Fewer are waited for, a request is taken on, or no worker can serve it.
LEMMA LawfulSame ==
    ASSUME NEW k, NEW waiting, NEW fewer, NEW told,
           Lawful(k, waiting, told), fewer \subseteq waiting
    PROVE  Lawful(k, fewer, told)
  BY DEF Lawful

LEMMA LawfulAccept ==
    ASSUME NEW k, NEW waiting, NEW ws, NEW told, Lawful(None, waiting, told), k # None,
           k = "point" => \A v, w \in ws : v = w
    PROVE  Lawful(k, ws, told)
  BY DEF Lawful

LEMMA LawfulReject ==
    ASSUME NEW k, NEW waiting, NEW told, Lawful(None, waiting, told), k # None,
           NEW m, m.type # "REPLY"
    PROVE  Lawful(k, waiting, Append(told, m))
  <1>1. told = <<>> /\ waiting = {} /\ Append(told, m) = <<m>>
    BY DEF Lawful
  <1>2. Len(<<m>>) = 1 /\ <<m>>[1] = m
    OBVIOUS
  <1> QED BY <1>1, <1>2 DEF Lawful

\* What was told of a request that still waits are the answers of other workers.
LEMMA LawfulWaits ==
    ASSUME NEW k, NEW waiting, NEW told, Lawful(k, waiting, told), waiting # {}
    PROVE  /\ k # None
           /\ k = "point" => told = <<>>
           /\ \A i \in 1..Len(told) : told[i].type = "REPLY"
  BY DEF Lawful

\* One message more: the answer of a worker, or the last message.
LEMMA LawfulMore ==
    ASSUME NEW k, NEW waiting, NEW S, NEW told \in Seq(S), NEW m, NEW fewer,
           Lawful(k, waiting, told), fewer \subseteq waiting, k # None,
           k = "point" => told = <<>> /\ fewer = {},
           \A i \in 1..Len(told) : told[i].type = "REPLY",
           IF m.type = "REPLY" THEN m.from \in waiting \ fewer ELSE fewer = {}
    PROVE  Lawful(k, fewer, Append(told, m))
  <1> DEFINE more == Append(told, m)
  <1>1. /\ Len(told) \in Nat /\ Len(more) = Len(told) + 1
        /\ more[Len(told) + 1] = m
        /\ \A i \in 1..Len(told) : more[i] = told[i]
    OBVIOUS
  <1> HIDE DEF more
  <1>3. k = "point" => Len(more) <= 1 /\ fewer = {}
    BY <1>1
  <1>4. \A i \in 1..Len(told) : told[i].from \notin waiting
    BY DEF Lawful
  <1>5. ASSUME NEW i \in 1..Len(more)
        PROVE  IF more[i].type = "REPLY"
               THEN /\ more[i].from \notin fewer
                    /\ \A j \in 1..Len(more) :
                          more[j].type = "REPLY" /\ more[j].from = more[i].from => j = i
               ELSE i = Len(more) /\ fewer = {}
    <2>1. CASE i = Len(told) + 1
      <3>1. more[i] = m
        BY <1>1, <2>1
      <3>2. CASE m.type # "REPLY"
        BY <1>1, <2>1, <3>1, <3>2
      <3>3. CASE m.type = "REPLY"
        <4>1. ASSUME NEW j \in 1..Len(more), more[j].from = m.from PROVE j = i
          <5>1. CASE j \in 1..Len(told)
            BY <1>1, <1>4, <3>3, <4>1, <5>1
          <5> QED BY <1>1, <2>1, <5>1
        <4> QED BY <3>1, <3>3, <4>1
      <3> QED BY <3>2, <3>3
    <2>2. CASE i \in 1..Len(told)
      <3>1. more[i] = told[i] /\ told[i].type = "REPLY" /\ told[i].from \notin waiting
        BY <1>1, <1>4, <2>2
      <3>2. ASSUME NEW j \in 1..Len(more), more[j].type = "REPLY", more[j].from = more[i].from
            PROVE  j = i
        <4>1. CASE j \in 1..Len(told)
          <5>1. told[j].type = "REPLY" /\ told[j].from = told[i].from
            BY <1>1, <3>1, <3>2, <4>1
          <5> QED BY <2>2, <4>1, <5>1 DEF Lawful
        <4>2. CASE j = Len(told) + 1
          BY <1>1, <3>1, <3>2, <4>2
        <4> QED BY <1>1, <4>1, <4>2
      <3> QED BY <3>1, <3>2
    <2> QED BY <1>1, <2>1, <2>2
  <1>6. more # <<>>
    BY <1>1
  <1> QED BY <1>3, <1>5, <1>6 DEF Lawful, more

\* A worker that was waited for answers; the last answer to a cast is followed by the end.
LEMMA LawfulAnswer ==
    ASSUME NEW k, NEW waiting, NEW told \in Seq(Msgs), NEW w \in waiting, NEW c,
           Lawful(k, waiting, told), Msg("REPLY", w, c) \in Msgs
    PROVE  LET some == Append(told, Msg("REPLY", w, c))
           IN  /\ Lawful(k, waiting \ {w}, some)
               /\ k # "point" /\ waiting = {w} =>
                     Lawful(k, {}, Append(some, Msg("DONE", None, c)))
  <1> DEFINE m == Msg("REPLY", w, c)
             d == Msg("DONE", None, c)
             some == Append(told, m)
  <1>1. /\ m.type = "REPLY" /\ m.from = w /\ d.type = "DONE"
        /\ m \in Msgs
    BY DEF Msg
  <1>2. /\ k # None
        /\ k = "point" => told = <<>> /\ waiting \ {w} = {}
        /\ \A i \in 1..Len(told) : told[i].type = "REPLY"
    BY LawfulWaits DEF Lawful
  <1> HIDE DEF m, d
  <1>3. Lawful(k, waiting \ {w}, some)
    BY <1>1, <1>2, LawfulMore
  <1>4. ASSUME k # "point", waiting = {w} PROVE Lawful(k, {}, Append(some, d))
    <2>1. some \in Seq(Msgs) /\ \A i \in 1..Len(some) : some[i].type = "REPLY"
      <3>1. /\ Len(told) \in Nat /\ Len(some) = Len(told) + 1
            /\ some[Len(told) + 1] = m
            /\ \A i \in 1..Len(told) : some[i] = told[i]
        BY <1>1
      <3>2. some \in Seq(Msgs)
        BY <1>1
      <3> HIDE DEF some
      <3> QED BY <1>1, <1>2, <3>1, <3>2
    <2>2. Lawful(k, {}, some)
      BY <1>3, <1>4
    <2> HIDE DEF some
    <2> QED BY <1>1, <1>2, <1>4, <2>1, <2>2, LawfulMore
  <1> QED BY <1>3, <1>4 DEF m, d

\* Concatenation as the steps write it.
LEMMA AppendTwo ==
    ASSUME NEW s \in Seq(Msgs), NEW m \in Msgs, NEW d \in Msgs
    PROVE  s \o <<m>> \o <<d>> = Append(Append(s, m), d) /\ s \o <<m>> \o <<>> = Append(s, m)
  OBVIOUS

\* Every step of RpcService keeps what was told lawful, and so every step of the broker.
LEMMA ToldStep ==
    ASSUME IInv, ToldOnce, [Rpc!Next]_(Rpc!vars), IInv'
    PROVE  ToldOnce'
  <1> SUFFICES ASSUME NEW q \in Rids
               PROVE  Lawful(kind'[q], Awaiting(q)', sent'[q])
    BY DEF ToldOnce
  <1>1. /\ Lawful(kind[q], Awaiting(q), sent[q])
        /\ kind \in [Rids -> Kinds \cup {None}] /\ sent \in [Rids -> Seq(Msgs)]
        /\ None \notin Kinds
    BY DEF ToldOnce, IInv, BrokerTypeOK, Kinds
  <1> DEFINE aw == [r \in Rids |-> Awaiting(r)]
             bw == [r \in Rids |-> Awaiting(r)']
  <1>2. /\ aw[q] = Awaiting(q) /\ bw[q] = Awaiting(q)'
        /\ Awaiting(q) \subseteq Workers
    BY DEF IInv, BrokerTypeOK, Awaiting
  <1>3. ASSUME kind'[q] = kind[q], bw[q] \subseteq aw[q], sent'[q] = sent[q]
        PROVE  Lawful(kind'[q], Awaiting(q)', sent'[q])
    BY <1>1, <1>2, <1>3, LawfulSame
  <1>4. ASSUME NEW r \in Rids, NEW k \in Kinds, NEW ws \in SUBSET Workers,
               Rpc!Accept(r, k, ws)
        PROVE  Lawful(kind'[q], Awaiting(q)', sent'[q])
    <2>1. /\ kind[r] = None
          /\ k = "point" => \A v, w \in ws : v = w
          /\ kind' = [kind EXCEPT ![r] = k] /\ bw = [aw EXCEPT ![r] = ws] /\ sent' = sent
      BY <1>4 DEF Rpc!Accept
    <2>2. CASE q = r
      <3>1. kind'[q] = k /\ bw[q] = ws
        BY <1>1, <2>1, <2>2
      <3>2. sent'[q] = sent[q] /\ k # None /\ Awaiting(q)' = ws
        BY <1>1, <1>2, <2>1, <3>1
      <3>3. kind[q] = None
        BY <2>1, <2>2
      <3>4. Lawful(None, Awaiting(q), sent[q])
        BY <1>1, <3>3
      <3>5. Lawful(k, ws, sent[q])
        BY <2>1, <3>2, <3>4, LawfulAccept
      <3> QED BY <3>1, <3>2, <3>5
    <2>3. CASE q # r
      BY <1>1, <1>3, <2>1, <2>3
    <2> QED BY <2>2, <2>3
  <1>5. ASSUME NEW r \in Rids, NEW k \in Kinds, Rpc!Reject(r, k)
        PROVE  Lawful(kind'[q], Awaiting(q)', sent'[q])
    <2> DEFINE m == Msg("NOEXISTS", None, ClientOf[r])
    <2>1. /\ kind[r] = None
          /\ kind' = [kind EXCEPT ![r] = k] /\ bw = aw
          /\ sent' = [sent EXCEPT ![r] = Append(@, m)]
      BY <1>5, MsgRefines DEF Rpc!Reject
    <2>2. m.type # "REPLY"
      BY DEF Msg
    <2> HIDE DEF m
    <2>3. CASE q = r
      <3>1. kind'[q] = k /\ sent'[q] = Append(sent[q], m) /\ bw[q] = aw[q]
        BY <1>1, <2>1, <2>3
      <3> QED BY <1>1, <1>2, <2>1, <2>2, <2>3, <3>1, LawfulReject
    <2>4. CASE q # r
      BY <1>1, <1>3, <2>1, <2>4
    <2> QED BY <2>3, <2>4
  <1>6. ASSUME NEW r \in Rids, NEW w \in Workers, Rpc!Answer(r, w)
        PROVE  Lawful(kind'[q], Awaiting(q)', sent'[q])
    <2> DEFINE m == Msg("REPLY", w, ClientOf[r])
               d == Msg("DONE", None, ClientOf[r])
    <2>1. /\ w \in aw[r] /\ bw = [aw EXCEPT ![r] = @ \ {w}] /\ kind' = kind
          /\ sent' = [sent EXCEPT ![r] = @ \o <<m>> \o
                         (IF kind[r] = "cast" /\ aw[r] = {w} THEN <<d>> ELSE <<>>)]
      BY <1>6, MsgRefines DEF Rpc!Answer
    <2>2. m \in Msgs /\ d \in Msgs
      BY DEF Msg, Msgs
    <2>3. CASE q = r
      <3>1. /\ w \in Awaiting(q) /\ Awaiting(q)' = Awaiting(q) \ {w} /\ kind'[q] = kind[q]
            /\ sent'[q] = sent[q] \o <<m>> \o
                  (IF kind[q] = "cast" /\ Awaiting(q) = {w} THEN <<d>> ELSE <<>>)
        BY <1>1, <1>2, <2>1, <2>3
      <3>2. /\ Lawful(kind[q], Awaiting(q) \ {w}, Append(sent[q], m))
            /\ kind[q] # "point" /\ Awaiting(q) = {w} =>
                  Lawful(kind[q], {}, Append(Append(sent[q], m), d))
        BY <1>1, <2>2, <3>1, LawfulAnswer DEF m, d
      <3> HIDE DEF m, d
      <3>3. sent[q] \in Seq(Msgs)
        BY <1>1
      <3>4. CASE kind[q] = "cast" /\ Awaiting(q) = {w}
        <4>0. sent'[q] = sent[q] \o <<m>> \o <<d>>
          BY <3>1, <3>4
        <4>1. sent'[q] = Append(Append(sent[q], m), d)
          BY <2>2, <3>3, <4>0, AppendTwo
        <4>2. Awaiting(q)' = {} /\ kind[q] # "point"
          BY <3>1, <3>4
        <4> QED BY <3>1, <3>2, <3>4, <4>1, <4>2
      <3>5. CASE ~ (kind[q] = "cast" /\ Awaiting(q) = {w})
        <4>1. sent'[q] = Append(sent[q], m)
          BY <2>2, <3>1, <3>3, <3>5, AppendTwo
        <4> QED BY <3>1, <3>2, <4>1
      <3> QED BY <3>4, <3>5
    <2>4. CASE q # r
      BY <1>1, <1>3, <2>1, <2>4
    <2> QED BY <2>3, <2>4
  <1>7. ASSUME NEW ws \in SUBSET Workers, Rpc!GiveUp(ws)
        PROVE  Lawful(kind'[q], Awaiting(q)', sent'[q])
    <2>1. /\ bw[q] = aw[q] \ ws /\ kind' = kind
          /\ sent'[q] = IF aw[q] # {} /\ aw[q] \subseteq ws
                        THEN sent[q] \o Rpc!Over(kind[q], q, aw[q]) ELSE sent[q]
      BY <1>7 DEF Rpc!GiveUp
    <2>2. CASE aw[q] # {} /\ aw[q] \subseteq ws
      <3>1. PICK m \in Msgs : Rpc!Over(kind[q], q, aw[q]) = <<m>> /\ m.type # "REPLY"
        <4>1. (CHOOSE w \in aw[q] : TRUE) \in Workers
          BY <1>2, <2>2
        <4> DEFINE v == CHOOSE w \in aw[q] : TRUE
        <4>2. Rpc!Over(kind[q], q, aw[q]) =
                IF kind[q] = "cast" THEN <<Msg("DONE", None, ClientOf[q])>>
                ELSE <<Msg("DISCONNECT", v, ClientOf[q])>>
          BY MsgRefines DEF Rpc!Over
        <4> HIDE DEF v
        <4>3. \A t \in {"DONE", "DISCONNECT"}, w \in Workers \cup {None} :
                 Msg(t, w, ClientOf[q]) \in Msgs /\ Msg(t, w, ClientOf[q]).type # "REPLY"
          BY DEF Msg, Msgs
        <4>4. v \in Workers
          BY <4>1 DEF v
        <4> QED BY <4>2, <4>3, <4>4
      <3>2. Awaiting(q)' = {} /\ sent[q] \in Seq(Msgs) /\ sent'[q] = sent[q] \o <<m>>
        BY <1>1, <1>2, <2>1, <2>2, <3>1
      <3>3. sent'[q] = Append(sent[q], m)
        BY <3>2
      <3>4. /\ kind[q] # None
            /\ kind[q] = "point" => sent[q] = <<>>
            /\ \A i \in 1..Len(sent[q]) : sent[q][i].type = "REPLY"
        BY <1>1, <1>2, <2>2, LawfulWaits
      <3>5. Lawful(kind[q], {}, Append(sent[q], m))
        BY <1>1, <3>1, <3>2, <3>4, LawfulMore
      <3> QED BY <2>1, <3>2, <3>3, <3>5
    <2>3. CASE ~ (aw[q] # {} /\ aw[q] \subseteq ws)
      BY <1>3, <2>1, <2>3
    <2> QED BY <2>2, <2>3
  <1>8. CASE Rpc!Forget
    BY <1>3, <1>8 DEF Rpc!Forget
  <1>9. CASE UNCHANGED Rpc!vars
    BY <1>3, <1>9 DEF Rpc!vars
  <1> QED
    BY <1>4, <1>5, <1>6, <1>7, <1>8, <1>9 DEF Rpc!Next, Rpc!Kinds, Kinds

\* A client is told of each request once what became of it: a worker's answer at most once and
\* never from one that is still waited for, the end at most once and after it nothing more
\* (broker.js:44-175).
THEOREM ClientToldOnce == BrokerSpec => []ToldOnce
  <1>1. BrokerInit => ToldOnce
    BY DEF BrokerInit, ToldOnce, Lawful, Awaiting
  <1>2. IInv /\ ToldOnce /\ [BrokerNext]_brokerVars => ToldOnce'
    BY ToldStep, StepRefines, NextIInv
  <1> QED
    BY <1>1, <1>2, InitIInv, NextIInv, PTL DEF BrokerSpec
=============================================================================
