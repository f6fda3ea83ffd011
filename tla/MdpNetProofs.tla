---------------------------- MODULE MdpNetProofs ----------------------------
(***************************************************************************)
(* The broker between real workers and callers is the broker of the open   *)
(* environment: MdpNet adds no step to it, so what BrokerProofs shows of   *)
(* Broker holds in the network.                                            *)
(***************************************************************************)
EXTENDS MdpNet, BrokerProofs

\* What is on the way, and what handlers hold, are requests and heartbeats.
Wire == /\ toBroker \in [Workers -> Seq(Rids \cup {HB})]
        /\ toWorker \in [Workers -> Seq(Rids \cup {HB})]
        /\ task \in [Workers -> SUBSET Rids]

LEMMA WireStart == MdpInit => Wire
BY DEF MdpInit, Wire

LEMMA PushWire ==
    ASSUME Wire, NEW ws, NEW m \in Rids \cup {HB}, Push(ws, m)
    PROVE  toWorker' \in [Workers -> Seq(Rids \cup {HB})]
<1>1. ASSUME NEW w \in Workers
      PROVE  Append(toWorker[w], m) \in Seq(Rids \cup {HB}) /\ toWorker[w] \in Seq(Rids \cup {HB})
  BY DEF Wire
<1>. QED  BY <1>1 DEF Push

LEMMA WireStep ==
    ASSUME Wire, [MdpNext]_netVars
    PROVE  Wire'
<1> USE DEF Wire
<1>1. ASSUME UNCHANGED <<toBroker, toWorker, task>>
      PROVE  Wire'
  BY <1>1
<1>2. ASSUME NEW w \in Workers, Start(w)
      PROVE  Wire'
  <2>1. <<HB>> \in Seq(Rids \cup {HB})
    OBVIOUS
  <2>. QED  BY <1>2, <2>1 DEF Start
<1>3. ASSUME NEW w \in Workers, Crash(w)
      PROVE  Wire'
  <2>1. <<>> \in Seq(Rids \cup {HB})
    OBVIOUS
  <2>. QED  BY <1>3, <2>1 DEF Crash
<1>4. ASSUME NEW w \in Workers, Receive(w)
      PROVE  Wire'
  <2>1. Tail(toWorker[w]) \in Seq(Rids \cup {HB}) /\ Head(toWorker[w]) \in Rids \cup {HB}
    BY <1>4 DEF Receive
  <2>. QED  BY <1>4, <2>1 DEF Receive
<1>5. ASSUME NEW w \in Workers, NEW r \in Rids, Reply(w, r)
      PROVE  Wire'
  <2>1. Append(toBroker[w], r) \in Seq(Rids \cup {HB})
    OBVIOUS
  <2>. QED  BY <1>5, <2>1 DEF Reply
<1>6. ASSUME NEW w \in Workers, CheckHealth(w)
      PROVE  Wire'
  <2>1. Append(toBroker[w], HB) \in Seq(Rids \cup {HB}) /\ <<>> \in Seq(Rids \cup {HB})
    OBVIOUS
  <2>2. toBroker' \in [Workers -> Seq(Rids \cup {HB})]
    BY <1>6, <2>1 DEF CheckHealth, Beat
  <2>3. toWorker' \in [Workers -> Seq(Rids \cup {HB})]
    <3>1. CASE wlive[w] = 0
      BY <1>6, <2>1, <3>1 DEF CheckHealth
    <3>2. CASE wlive[w] # 0
      BY <1>6, <3>2 DEF CheckHealth
    <3>. QED  BY <3>1, <3>2
  <2>. QED  BY <1>6, <2>2, <2>3 DEF CheckHealth
<1>7. ASSUME NEW w \in Workers, BrokerReceive(w)
      PROVE  Wire'
  <2>1. Tail(toBroker[w]) \in Seq(Rids \cup {HB})
    BY <1>7 DEF BrokerReceive
  <2>. QED  BY <1>7, <2>1 DEF BrokerReceive
<1>8. ASSUME NEW r \in Rids, NEW k \in Kinds, BrokerRequest(r, k)
      PROVE  Wire'
  BY <1>8, PushWire DEF BrokerRequest
<1>9. CASE BrokerCheck
  BY <1>9, PushWire DEF BrokerCheck
<1>10. CASE BrokerRestart
  <2>1. \A w \in Workers : /\ toBroker[w] \in Seq(Rids \cup {HB})
                           /\ toWorker[w] \in Seq(Rids \cup {HB})
                           /\ <<>> \in Seq(Rids \cup {HB})
    OBVIOUS
  <2>2. PICK ws \in SUBSET Workers :
          /\ toWorker' = [w \in Workers |-> IF w \in ws THEN <<>> ELSE toWorker[w]]
          /\ toBroker' = [w \in Workers |-> IF w \in ws THEN <<>> ELSE toBroker[w]]
    BY <1>10 DEF BrokerRestart
  <2>. QED  BY <1>10, <2>1, <2>2 DEF BrokerRestart
<1>11. ASSUME NEW r \in Rids, NEW k \in Kinds, Hear(r) \/ Send(r, k)
       PROVE  Wire'
  BY <1>1, <1>11 DEF Hear, Send, workerVars
<1>12. CASE CheckReq
  BY <1>1, <1>12 DEF CheckReq, workerVars
<1>13. CASE UNCHANGED netVars
  BY <1>1, <1>13 DEF netVars, workerVars
<1>14. ASSUME NEW r \in Rids, Hear(r)
       PROVE  Wire'
  BY <1>1, <1>14 DEF Hear, workerVars
<1>. HIDE DEF Wire
<1>. QED  BY <1>2, <1>3, <1>4, <1>5, <1>6, <1>7, <1>8, <1>9, <1>10, <1>11, <1>12, <1>13,
             <1>14 DEF MdpNext, WorkerNext

\* Every step of the network is a step of the broker or leaves the broker alone.
LEMMA NetStepIsBrokerStep ==
    ASSUME Wire, [MdpNext]_netVars
    PROVE  [BrokerNext]_brokerVars
<1>1. ASSUME NEW w \in Workers, BrokerReceive(w)
      PROVE  BrokerNext
  <2>1. Head(toBroker[w]) \in Rids \cup {HB}
    BY <1>1 DEF BrokerReceive, Wire
  <2>2. CASE Head(toBroker[w]) = HB
    BY <1>1, <2>2 DEF BrokerReceive, BrokerNext
  <2>3. CASE Head(toBroker[w]) # HB
    BY <1>1, <2>1, <2>3 DEF BrokerReceive, BrokerNext
  <2>. QED  BY <2>2, <2>3
<1>2. ASSUME NEW r \in Rids, NEW k \in Kinds, BrokerRequest(r, k)
      PROVE  BrokerNext
  BY <1>2 DEF BrokerRequest, BrokerNext
<1>3. CASE BrokerCheck
  BY <1>3 DEF BrokerCheck, BrokerNext
<1>4. CASE BrokerRestart
  BY <1>4 DEF BrokerRestart, BrokerNext
<1>5. ASSUME NEW w \in Workers,
             Start(w) \/ Crash(w) \/ Receive(w) \/ CheckHealth(w) \/ \E r \in Rids : Reply(w, r)
      PROVE  UNCHANGED brokerVars
  BY <1>5 DEF Start, Crash, Receive, CheckHealth, Reply
<1>6. ASSUME NEW r \in Rids, Hear(r) \/ \E k \in Kinds : Send(r, k)
      PROVE  UNCHANGED brokerVars
  BY <1>6 DEF Hear, Send
<1>7. CASE CheckReq
  BY <1>7 DEF CheckReq
<1>8. CASE UNCHANGED netVars
  BY <1>8 DEF netVars
<1>. QED  BY <1>1, <1>2, <1>3, <1>4, <1>5, <1>6, <1>7, <1>8 DEF MdpNext, WorkerNext

\* The network's broker behaves as Broker says (broker.js between worker.js and
\* request.js).
THEOREM NetworkRunsBroker == MdpSpec => BrokerSpec
<1>1. MdpInit => Wire /\ BrokerInit
  BY WireStart DEF MdpInit
<1>2. Wire /\ [MdpNext]_netVars => Wire' /\ [BrokerNext]_brokerVars
  BY WireStep, NetStepIsBrokerStep
<1>. QED  BY <1>1, <1>2, PTL DEF MdpSpec, BrokerSpec

\* So the tables agree in the network, and the broker keeps its promise there.
THEOREM NetworkKeepsPromise == MdpSpec => []Bookkeeping /\ []LoadBound /\ ImplementsRpc
BY NetworkRunsBroker, TablesAgree, LoadIsBounded, BrokerImplementsRpc, PTL
-----------------------------------------------------------------------------
(* Answers *)

\* The answers in q are of workers of D that are not waited for any more, one of each.
AnswersOf(q, D, A) ==
    /\ \A i \in 1..Len(q) : q[i].type = "REPLY" => q[i].from \in D \ A
    /\ \A i, j \in 1..Len(q) :
          q[i].type = "REPLY" /\ q[j].type = "REPLY" /\ q[i].from = q[j].from => i = j

AnswerInv ==
    \A r \in Rids :
       /\ kind[r] = None => sent[r] = <<>> /\ dispatched[r] = {}
       /\ AnswersOf(sent[r], dispatched[r], Awaiting(r))

LEMMA Appended ==
    ASSUME NEW q \in Seq(Msgs), NEW e \in Seq(Msgs)
    PROVE  /\ q \o e \in Seq(Msgs) /\ Len(q \o e) = Len(q) + Len(e)
           /\ Len(q) \in Nat /\ Len(e) \in Nat
           /\ \A i \in 1..Len(q) : i \in 1..Len(q \o e) /\ (q \o e)[i] = q[i]
           /\ \A i \in 1..Len(q \o e) :
                 \/ i \in 1..Len(q)
                 \/ i - Len(q) \in 1..Len(e) /\ (q \o e)[i] = e[i - Len(q)]
OBVIOUS

LEMMA QuietWords ==
    ASSUME NEW q \in Seq(Msgs), NEW e \in Seq(Msgs), NEW D, NEW A, NEW E, NEW B,
           AnswersOf(q, D, A), D \subseteq E, B \subseteq A,
           \A i \in 1..Len(e) : e[i].type # "REPLY"
    PROVE  AnswersOf(q \o e, E, B)
BY Appended DEF AnswersOf

LEMMA AnswerWords ==
    ASSUME NEW q \in Seq(Msgs), NEW m \in Msgs, NEW e \in Seq(Msgs), NEW D, NEW A, NEW w,
           AnswersOf(q, D, A), w \in D \cap A, m.type = "REPLY", m.from = w,
           \A i \in 1..Len(e) : e[i].type # "REPLY"
    PROVE  AnswersOf(q \o <<m>> \o e, D, A \ {w})
<1> DEFINE p == q \o <<m>>
<1>1. /\ p \in Seq(Msgs) /\ Len(p) = Len(q) + 1 /\ p[Len(q) + 1] = m /\ Len(q) \in Nat
      /\ \A i \in 1..Len(q) : p[i] = q[i]
      /\ \A i \in 1..Len(p) : i \in 1..Len(q) \/ i = Len(q) + 1
  OBVIOUS
<1> HIDE DEF p
<1>2. AnswersOf(p, D, A \ {w})
  BY <1>1 DEF AnswersOf
<1>3. AnswersOf(p \o e, D, A \ {w})
  BY <1>1, <1>2, QuietWords
<1> QED BY <1>3 DEF p

\* A request is given to workers once.
LEMMA DispatchGrows ==
    ASSUME AnswerInv, BrokerTypeOK, [BrokerNext]_brokerVars, NEW r \in Rids
    PROVE  /\ dispatched[r] \subseteq dispatched'[r]
           /\ kind'[r] = None => kind[r] = None /\ dispatched'[r] = {}
<1>1. CASE UNCHANGED <<kind, dispatched>>
  BY <1>1 DEF AnswerInv
<1>2. ASSUME NEW q \in Rids, NEW k \in Kinds, NEW ws, Fresh(q, k),
             dispatched' = [dispatched EXCEPT ![q] = ws] \/ UNCHANGED dispatched
      PROVE  /\ dispatched[r] \subseteq dispatched'[r]
             /\ kind'[r] = None => kind[r] = None /\ dispatched'[r] = {}
  <2>1. k # None
    BY BrokerAssumption DEF Kinds
  <2>2. CASE r = q
    BY <1>2, <2>1, <2>2 DEF AnswerInv, Fresh, BrokerTypeOK
  <2>3. CASE r # q
    BY <1>2, <2>3 DEF AnswerInv, Fresh, BrokerTypeOK
  <2> QED BY <2>2, <2>3
<1>3. ASSUME NEW q \in Rids, RouteReq(q)
      PROVE  \E k \in Kinds, ws \in SUBSET Workers :
                /\ Fresh(q, k)
                /\ dispatched' = [dispatched EXCEPT ![q] = ws] \/ UNCHANGED dispatched
  <2>1. ASSUME NEW s \in Servers, RouteToAll(s, q)
        PROVE  /\ Fresh(q, "cast") /\ LiveOf(s) \in SUBSET Workers
               /\ dispatched' = [dispatched EXCEPT ![q] = LiveOf(s)] \/ UNCHANGED dispatched
    BY <2>1 DEF RouteToAll, NoExists, LiveOf
  <2>2. ASSUME NEW w \in Workers, Fresh(q, "point"), Assign(w, q) \/ NoExists(q) \/ UNCHANGED dispatched
        PROVE  /\ {w} \in SUBSET Workers
               /\ dispatched' = [dispatched EXCEPT ![q] = {w}] \/ UNCHANGED dispatched
    BY <2>2 DEF Assign, NoExists
  <2>3. ASSUME NEW s \in Servers, RouteToType(s, q)
        PROVE  /\ Fresh(q, "point")
               /\ \/ \E w \in Workers : Assign(w, q)
                  \/ NoExists(q)
    BY <2>3 DEF RouteToType, LiveOf
  <2>4. ASSUME NEW w \in Workers, RouteToWorker(w, q)
        PROVE  Fresh(q, "point") /\ (Assign(w, q) \/ NoExists(q) \/ UNCHANGED dispatched)
    BY <2>4 DEF RouteToWorker
  <2>5. NoExists(q) => UNCHANGED dispatched
    BY DEF NoExists
  <2>6. "point" \in Kinds /\ "cast" \in Kinds /\ {} \in SUBSET Workers
    BY DEF Kinds
  <2>7. CASE \E s \in Servers : RouteToType(s, q)
    BY <2>2, <2>3, <2>5, <2>6, <2>7
  <2>8. CASE \E s \in Servers : RouteToAll(s, q)
    BY <2>1, <2>6, <2>8
  <2>9. CASE \E w \in Workers : RouteToWorker(w, q)
    BY <2>2, <2>4, <2>6, <2>9
  <2> QED BY <1>3, <2>7, <2>8, <2>9 DEF RouteReq
<1>4. ASSUME NEW q \in Rids, RouteReq(q)
      PROVE  /\ dispatched[r] \subseteq dispatched'[r]
             /\ kind'[r] = None => kind[r] = None /\ dispatched'[r] = {}
  BY <1>2, <1>3, <1>4
<1>5. CASE \/ \E w \in Workers, q \in Rids : ReplyReq(w, q)
           \/ \E w \in Workers : Heartbeat(w)
           \/ CheckWorkers \/ Restart \/ UNCHANGED brokerVars
  BY <1>1, <1>5 DEF ReplyReq, Heartbeat, CheckWorkers, Restart, brokerVars
<1> QED BY <1>4, <1>5 DEF BrokerNext

\* What a client is told only grows, and an answer is told while it is waited for.
LEMMA WordsStep ==
    ASSUME IInv, AnswerInv, [BrokerNext]_brokerVars, NEW r \in Rids
    PROVE  /\ \E e \in Seq(Msgs) : sent'[r] = sent[r] \o e
           /\ kind'[r] = None => sent'[r] = <<>>
           /\ AnswersOf(sent'[r], dispatched'[r], Awaiting(r)')
<1> DEFINE q == sent[r]
           A == Awaiting(r)
           D == dispatched[r]
           OK == /\ \E e \in Seq(Msgs) : sent'[r] = q \o e
                 /\ kind'[r] = None => sent'[r] = <<>>
                 /\ AnswersOf(sent'[r], dispatched'[r], Awaiting(r)')
<1>a. /\ sent \in [Rids -> Seq(Msgs)] /\ q \in Seq(Msgs) /\ AnswersOf(q, D, A)
      /\ kind \in [Rids -> Kinds \cup {None}] /\ None \notin Kinds
      /\ kind[r] = None => q = <<>>
      /\ A \subseteq D /\ A \subseteq Workers
  BY BrokerAssumption DEF IInv, BrokerTypeOK, Bookkeeping, AnswerInv, Kinds
<1>b. /\ dispatched[r] \subseteq dispatched'[r]
      /\ kind'[r] = None => kind[r] = None
  BY DispatchGrows DEF IInv
<1>c. ASSUME NEW e \in Seq(Msgs), \A i \in 1..Len(e) : e[i].type # "REPLY",
             sent'[r] = q \o e, Awaiting(r)' \subseteq A, kind[r] = None => e = <<>>
      PROVE  OK
  <2>1. AnswersOf(sent'[r], dispatched'[r], Awaiting(r)')
    BY <1>a, <1>b, <1>c, QuietWords
  <2>2. <<>> \o <<>> = <<>>
    OBVIOUS
  <2> QED BY <1>a, <1>b, <1>c, <2>1, <2>2
<1>d. ASSUME sent'[r] = q, Awaiting(r)' \subseteq A
      PROVE  OK
  <2>1. <<>> \in Seq(Msgs) /\ q \o <<>> = q /\ \A i \in 1..Len(<<>>) : <<>>[i].type # "REPLY"
    BY <1>a
  <2> QED BY <1>c, <1>d, <2>1
<1> HIDE DEF OK
<1>1. ASSUME NEW s \in Rids, NEW k \in Rpc!Kinds, NEW ws \in SUBSET Workers, Rpc!Accept(s, k, ws)
      PROVE  OK
  <2>1. /\ kind[s] = None /\ UNCHANGED sent /\ kind' = [kind EXCEPT ![s] = k]
        /\ [x \in Rids |-> Awaiting(x)'] = [[x \in Rids |-> Awaiting(x)] EXCEPT ![s] = ws]
    BY <1>1 DEF Rpc!Accept
  <2>2. CASE s = r
    <3>1. q = <<>> /\ sent'[r] = <<>>
      BY <1>a, <2>1, <2>2
    <3>2. <<>> \in Seq(Msgs) /\ <<>> \o <<>> = <<>>
      OBVIOUS
    <3>3. AnswersOf(<<>>, dispatched'[r], Awaiting(r)')
      BY DEF AnswersOf
    <3> QED BY <3>1, <3>2, <3>3 DEF OK
  <2>3. CASE s # r
    <3>1. Awaiting(r)' = A
      BY <2>1, <2>3
    <3> QED BY <1>d, <2>1, <3>1
  <2> QED BY <2>2, <2>3
<1>2. ASSUME NEW s \in Rids, NEW k \in Rpc!Kinds, Rpc!Reject(s, k)
      PROVE  OK
  <2>1. /\ kind[s] = None /\ kind' = [kind EXCEPT ![s] = k]
        /\ sent' = [sent EXCEPT ![s] = Append(@, Rpc!Msg("NOEXISTS", None, s))]
        /\ [x \in Rids |-> Awaiting(x)'] = [x \in Rids |-> Awaiting(x)]
    BY <1>2 DEF Rpc!Reject
  <2>2. Awaiting(r)' = A
    BY <2>1
  <2>3. CASE s = r
    <3> DEFINE m == Rpc!Msg("NOEXISTS", None, s)
    <3>1. m \in Msgs /\ m.type = "NOEXISTS"
      <4>1. m = Msg("NOEXISTS", None, ClientOf[s])
        BY MsgRefines
      <4> QED BY <4>1, MsgType, BrokerAssumption DEF Msg
    <3> HIDE DEF m
    <3>2. q = <<>> /\ sent'[r] = <<m>> /\ <<m>> \in Seq(Msgs) /\ <<>> \o <<m>> = <<m>>
      BY <1>a, <2>1, <2>3, <3>1 DEF m
    <3>3. \A i \in 1..Len(<<m>>) : <<m>>[i].type # "REPLY"
      BY <3>1
    <3>4. AnswersOf(sent'[r], dispatched'[r], Awaiting(r)')
      <4>1. AnswersOf(<<>> \o <<m>>, dispatched'[r], Awaiting(r)')
        <5> HIDE DEF A, D, q
        <5> QED BY <1>a, <1>b, <2>2, <3>2, <3>3, QuietWords DEF D
      <4> QED BY <3>2, <4>1
    <3>5. kind'[r] # None
      BY <1>a, <2>1, <2>3 DEF Kinds, Rpc!Kinds
    <3> QED BY <3>2, <3>4, <3>5 DEF OK
  <2>4. CASE s # r
    BY <1>a, <1>d, <2>1, <2>2, <2>4
  <2> QED BY <2>3, <2>4
<1>3. ASSUME NEW s \in Rids, NEW w \in Workers, Rpc!Answer(s, w)
      PROVE  OK
  <2> DEFINE over == IF kind[s] = "cast" /\ Awaiting(s) = {w}
                     THEN <<Rpc!Msg("DONE", None, s)>> ELSE <<>>
             m == Rpc!Msg("REPLY", w, s)
  <2>1. /\ w \in Awaiting(s)
        /\ sent' = [sent EXCEPT ![s] = @ \o <<m>> \o over]
        /\ [x \in Rids |-> Awaiting(x)'] = [[x \in Rids |-> Awaiting(x)] EXCEPT ![s] = @ \ {w}]
        /\ UNCHANGED kind
    BY <1>3 DEF Rpc!Answer
  <2>2. CASE s = r
    <3>1. m \in Msgs /\ m.type = "REPLY" /\ m.from = w
      <4>1. m = Msg("REPLY", w, ClientOf[s])
        BY MsgRefines
      <4> QED BY <4>1, MsgType, BrokerAssumption DEF Msg
    <3>2. over \in Seq(Msgs) /\ \A i \in 1..Len(over) : over[i].type # "REPLY"
      <4>1. Rpc!Msg("DONE", None, s) \in Msgs /\ Rpc!Msg("DONE", None, s).type = "DONE"
        <5>1. Rpc!Msg("DONE", None, s) = Msg("DONE", None, ClientOf[s])
          BY MsgRefines
        <5> QED BY <5>1, MsgType, BrokerAssumption DEF Msg
      <4> QED BY <4>1
    <3>3. Awaiting(r)' = A \ {w} /\ w \in D \cap A
      BY <1>a, <2>1, <2>2
    <3> HIDE DEF over, m
    <3>4. sent'[r] = q \o <<m>> \o over
      BY <1>a, <2>1, <2>2
    <3>5. AnswersOf(sent'[r], D, A \ {w})
      <4> HIDE DEF A, D, q
      <4>1. AnswersOf(q, D, A) /\ q \in Seq(Msgs) /\ w \in D \cap A
        BY <1>a, <3>3
      <4>2. m \in Msgs /\ m.type = "REPLY" /\ m.from = w
        BY <3>1
      <4>3. over \in Seq(Msgs) /\ \A i \in 1..Len(over) : over[i].type # "REPLY"
        BY <3>2
      <4>4. AnswersOf(q \o <<m>> \o over, D, A \ {w})
        BY <4>1, <4>2, <4>3, AnswerWords
      <4> QED BY <3>4, <4>4
    <3>6. dispatched'[r] = D \/ D \subseteq dispatched'[r]
      BY <1>b
    <3>7. AnswersOf(sent'[r], dispatched'[r], Awaiting(r)')
      BY <3>3, <3>5, <3>6 DEF AnswersOf
    <3>8. <<m>> \o over \in Seq(Msgs) /\ sent'[r] = q \o (<<m>> \o over)
      BY <1>a, <3>1, <3>2, <3>4
    <3>9. kind[r] # None
      <4>1. A # {}
        BY <3>3
      <4>2. reqmap[r] # None \/ castmsg[r] # {}
        BY <4>1 DEF Awaiting
      <4> QED BY <1>a, <4>2 DEF IInv, Bookkeeping, Kinds
    <3>10. kind'[r] # None
      BY <2>1, <3>9
    <3> QED BY <3>7, <3>8, <3>10 DEF OK
  <2>3. CASE s # r
    <3>1. sent'[r] = q /\ Awaiting(r)' = A
      BY <1>a, <2>1, <2>3
    <3> QED BY <1>d, <3>1
  <2> QED BY <2>2, <2>3
<1>4. ASSUME NEW ws \in SUBSET Workers, Rpc!GiveUp(ws)
      PROVE  OK
  <2> DEFINE gone == A # {} /\ A \subseteq ws
             over == Rpc!Over(kind[r], r, A)
  <2>1. Awaiting(r)' = A \ ws /\ sent'[r] = (IF gone THEN q \o over ELSE q)
    BY <1>4 DEF Rpc!GiveUp
  <2>2. CASE gone
    <3>1. kind[r] # None
      <4>1. reqmap[r] # None \/ castmsg[r] # {}
        BY <2>2 DEF Awaiting
      <4> QED BY <1>a, <4>1 DEF IInv, Bookkeeping, Kinds
    <3>2. PICK t \in {"DONE", "DISCONNECT"}, w \in Workers \cup {None} :
            over = <<Rpc!Msg(t, w, r)>>
      <4>1. (CHOOSE w \in A : TRUE) \in Workers
        BY <1>a, <2>2
      <4> QED BY <4>1 DEF Rpc!Over
    <3>3. Rpc!Msg(t, w, r) \in Msgs /\ Rpc!Msg(t, w, r).type # "REPLY"
      <4>1. Rpc!Msg(t, w, r) = Msg(t, w, ClientOf[r])
        BY MsgRefines
      <4> QED BY <4>1, MsgType, BrokerAssumption DEF Msg
    <3> HIDE DEF over
    <3>4. over \in Seq(Msgs) /\ \A i \in 1..Len(over) : over[i].type # "REPLY"
      BY <3>2, <3>3
    <3>5. sent'[r] = q \o over
      BY <2>1, <2>2
    <3> QED BY <1>c, <2>1, <3>1, <3>4, <3>5
  <2>3. CASE ~gone
    BY <1>d, <2>1, <2>3
  <2> QED BY <2>2, <2>3
<1>5. ASSUME Rpc!Forget PROVE OK
  <2>1. sent'[r] = q /\ Awaiting(r)' = {}
    BY <1>5 DEF Rpc!Forget
  <2> QED BY <1>d, <2>1
<1>6. ASSUME UNCHANGED Rpc!vars PROVE OK
  <2>1. sent'[r] = q /\ Awaiting(r)' = A
    BY <1>6 DEF Rpc!vars
  <2> QED BY <1>d, <2>1
<1>7. OK
  BY <1>1, <1>2, <1>3, <1>4, <1>5, <1>6, StepRefines DEF Rpc!Next
<1> QED BY <1>7 DEF OK

LEMMA AnswerStep == IInv /\ AnswerInv /\ [BrokerNext]_brokerVars => AnswerInv'
BY WordsStep, DispatchGrows DEF AnswerInv, IInv
-----------------------------------------------------------------------------
(* What the callers hear *)

Replies(r) == {i \in 1..heard[r] : sent[r][i].type = "REPLY"}

HeardInv ==
    /\ heard \in [Rids -> Nat] /\ emitted \in [Rids -> Nat]
    /\ \A r \in Rids : heard[r] <= Len(sent[r]) /\ emitted[r] = Cardinality(Replies(r))

\* Hearing one message more adds one answer or none.
LEMMA OneMoreHeard ==
    ASSUME NEW q \in Seq(Msgs), NEW n \in Nat, n < Len(q)
    PROVE  LET T(k) == {i \in 1..k : q[i].type = "REPLY"}
           IN  Cardinality(T(n + 1)) = Cardinality(T(n)) + (IF q[n + 1].type = "REPLY" THEN 1 ELSE 0)
<1> DEFINE T(k) == {i \in 1..k : q[i].type = "REPLY"}
<1>1. IsFiniteSet(T(n)) /\ Cardinality(T(n)) \in Nat
  <2>1. 1 \in Int /\ n \in Int
    OBVIOUS
  <2>2. IsFiniteSet(1..n)
    BY <2>1, FS_Interval
  <2>3. T(n) \in SUBSET (1..n)
    OBVIOUS
  <2> QED BY <2>2, <2>3, FS_Subset, FS_CardinalityType
<1>2. CASE q[n + 1].type = "REPLY"
  <2>1. T(n + 1) = T(n) \cup {n + 1} /\ n + 1 \notin T(n)
    BY <1>2
  <2> HIDE DEF T
  <2>2. Cardinality(T(n) \cup {n + 1}) = Cardinality(T(n)) + 1
    BY <1>1, <2>1, FS_AddElement
  <2> QED BY <1>2, <2>1, <2>2 DEF T
<1>3. CASE q[n + 1].type # "REPLY"
  <2>1. T(n + 1) = T(n)
    BY <1>3
  <2>2. Cardinality(T(n + 1)) = Cardinality(T(n))
    BY <2>1
  <2> HIDE DEF T
  <2>3. Cardinality(T(n)) + (IF q[n + 1].type = "REPLY" THEN 1 ELSE 0) = Cardinality(T(n))
    BY <1>1, <1>3
  <2> QED BY <2>2, <2>3 DEF T
<1> QED BY <1>2, <1>3

LEMMA HeardStart == MdpInit => HeardInv
<1> SUFFICES ASSUME MdpInit PROVE HeardInv
  OBVIOUS
<1>1. \A r \in Rids : heard[r] = 0 /\ sent[r] = <<>> /\ emitted[r] = 0
  BY DEF MdpInit, BrokerInit
<1>2. \A r \in Rids : Replies(r) = {}
  BY <1>1 DEF Replies
<1>3. \A r \in Rids : heard[r] <= Len(sent[r]) /\ emitted[r] = Cardinality(Replies(r))
  <2>1. Cardinality({}) = 0
    BY FS_EmptySet
  <2>2. 0 <= Len(<<>>)
    OBVIOUS
  <2>3. ASSUME NEW r \in Rids PROVE heard[r] <= Len(sent[r]) /\ emitted[r] = Cardinality(Replies(r))
    <3>1. heard[r] <= Len(sent[r])
      BY <1>1, <2>2
    <3>2. emitted[r] = Cardinality(Replies(r))
      BY <1>1, <1>2, <2>1
    <3> QED BY <3>1, <3>2
  <2> QED BY <2>3
<1>4. heard \in [Rids -> Nat] /\ emitted \in [Rids -> Nat]
  BY DEF MdpInit
<1> QED BY <1>3, <1>4 DEF HeardInv

LEMMA HeardStep ==
    ASSUME Wire, IInv, AnswerInv, HeardInv, [MdpNext]_netVars
    PROVE  HeardInv'
<1>a. \A r \in Rids : sent[r] \in Seq(Msgs) /\ heard[r] \in Nat /\ heard[r] <= Len(sent[r])
  BY DEF IInv, BrokerTypeOK, HeardInv
<1>b. \A r \in Rids : \E e \in Seq(Msgs) : sent'[r] = sent[r] \o e
  BY NetStepIsBrokerStep, WordsStep
<1>1. ASSUME UNCHANGED <<heard, emitted>> PROVE HeardInv'
  <2>1. ASSUME NEW r \in Rids
        PROVE  /\ heard'[r] <= Len(sent'[r])
               /\ Replies(r)' = Replies(r)
    <3>1. PICK e \in Seq(Msgs) : sent'[r] = sent[r] \o e
      BY <1>b
    <3>2. /\ Len(sent'[r]) >= Len(sent[r]) /\ Len(sent[r]) \in Nat /\ Len(sent'[r]) \in Nat
          /\ \A i \in 1..Len(sent[r]) : sent'[r][i] = sent[r][i]
      BY <1>a, <3>1, Appended
    <3>3. \A i \in 1..heard[r] : i \in 1..Len(sent[r])
      BY <1>a, <3>2
    <3> QED BY <1>1, <1>a, <3>2, <3>3 DEF Replies
  <2> QED BY <1>1, <2>1 DEF HeardInv
<1>2. ASSUME NEW r \in Rids, Hear(r) PROVE HeardInv'
  <2>1. /\ heard[r] < Len(sent[r]) /\ UNCHANGED sent
        /\ heard' = [heard EXCEPT ![r] = @ + 1]
        /\ emitted' = IF sent[r][heard[r] + 1].type = "REPLY"
                      THEN [emitted EXCEPT ![r] = @ + 1] ELSE emitted
    BY <1>2 DEF Hear, brokerVars
  <2>2. heard' \in [Rids -> Nat] /\ emitted' \in [Rids -> Nat]
    BY <2>1 DEF HeardInv
  <2>3. \A q \in Rids \ {r} : heard'[q] = heard[q] /\ emitted'[q] = emitted[q]
    BY <2>1 DEF HeardInv
  <2>4. heard'[r] = heard[r] + 1 /\ heard'[r] <= Len(sent'[r])
    BY <2>1, <1>a DEF HeardInv
  <2>5. emitted'[r] = emitted[r] + (IF sent[r][heard[r] + 1].type = "REPLY" THEN 1 ELSE 0)
    BY <2>1 DEF HeardInv
  <2>6. Cardinality(Replies(r)') =
           Cardinality(Replies(r)) + (IF sent[r][heard[r] + 1].type = "REPLY" THEN 1 ELSE 0)
    <3>1. Replies(r)' = {i \in 1..(heard[r] + 1) : sent[r][i].type = "REPLY"}
      BY <2>1, <2>4 DEF Replies
    <3> QED BY <1>a, <2>1, <3>1, OneMoreHeard DEF Replies
  <2>7. emitted'[r] = Cardinality(Replies(r)')
    BY <2>5, <2>6 DEF HeardInv
  <2>8. \A q \in Rids \ {r} : Replies(q)' = Replies(q)
    BY <2>1, <2>3 DEF Replies
  <2>9. \A q \in Rids : heard'[q] <= Len(sent'[q]) /\ emitted'[q] = Cardinality(Replies(q)')
    BY <1>a, <2>1, <2>3, <2>4, <2>7, <2>8 DEF HeardInv
  <2> QED BY <2>2, <2>9 DEF HeardInv
<1>3. ASSUME NEW r \in Rids, NEW k \in Kinds, Send(r, k) \/ BrokerRequest(r, k) PROVE HeardInv'
  BY <1>1, <1>3 DEF Send, BrokerRequest, clientVars
<1>4. CASE CheckReq \/ BrokerCheck \/ BrokerRestart \/ UNCHANGED netVars
  BY <1>1, <1>4 DEF CheckReq, BrokerCheck, BrokerRestart, clientVars, netVars
<1>5. ASSUME NEW w \in Workers, WorkerNext(w) PROVE HeardInv'
  BY <1>1, <1>5 DEF WorkerNext, Start, Crash, Receive, CheckHealth, Reply, BrokerReceive, clientVars
<1> QED BY <1>2, <1>3, <1>4, <1>5 DEF MdpNext

NetInv == Wire /\ IInv /\ AnswerInv /\ HeardInv

LEMMA NetStart == MdpInit => NetInv
<1>1. MdpInit => AnswerInv
  BY DEF MdpInit, BrokerInit, AnswerInv, AnswersOf
<1> QED BY <1>1, WireStart, InitIInv, HeardStart DEF NetInv, MdpInit

LEMMA NetStep == NetInv /\ [MdpNext]_netVars => NetInv'
BY WireStep, NetStepIsBrokerStep, NextIInv, AnswerStep, HeardStep DEF NetInv

\* The callback of a request runs at most once for each worker it was given to
\* (remote_proxy.js:113-114), whatever is repeated, restarted or timed out.
THEOREM CallbacksRunOnce == MdpSpec => []DataOnce
<1>1. NetInv => DataOnce
  <2> SUFFICES ASSUME NetInv, NEW r \in Rids PROVE emitted[r] <= Cardinality(dispatched[r])
    BY DEF DataOnce
  <2> DEFINE f == [i \in Replies(r) |-> sent[r][i].from]
  <2>1. /\ heard[r] \in Nat /\ heard[r] <= Len(sent[r]) /\ Len(sent[r]) \in Nat
        /\ emitted[r] = Cardinality(Replies(r)) /\ AnswersOf(sent[r], dispatched[r], Awaiting(r))
    BY DEF NetInv, HeardInv, AnswerInv, IInv, BrokerTypeOK
  <2>2. \A i \in Replies(r) : i \in 1..Len(sent[r]) /\ sent[r][i].type = "REPLY"
    BY <2>1 DEF Replies
  <2>3. f \in Injection(Replies(r), dispatched[r])
    BY <2>1, <2>2 DEF AnswersOf, Injection, IsInjective
  <2>4. IsFiniteSet(dispatched[r])
    BY FS_Subset, NetAssumption DEF NetInv, IInv, BrokerTypeOK
  <2> QED BY <2>1, <2>3, <2>4, FS_Injection
<1> QED BY NetStart, NetStep, <1>1, PTL DEF MdpSpec
-----------------------------------------------------------------------------
(* What is on the way *)

LEMMA QueueCount ==
    ASSUME NEW q \in Seq(Rids \cup {HB})
    PROVE  IsFiniteSet({i \in 1..Len(q) : q[i] = HB}) /\ InQueue(HB, q) \in Nat
<1>1. 1 \in Int /\ Len(q) \in Int
  OBVIOUS
<1>2. IsFiniteSet(1..Len(q))
  BY <1>1, FS_Interval
<1>3. IsFiniteSet({i \in 1..Len(q) : q[i] = HB})
  BY <1>2, FS_Subset
<1> QED BY <1>3, FS_CardinalityType DEF InQueue

LEMMA QueueNone == InQueue(HB, <<>>) = 0
<1>1. {i \in 1..Len(<<>>) : <<>>[i] = HB} = {}
  OBVIOUS
<1> QED BY <1>1, FS_EmptySet DEF InQueue

LEMMA QueueAppend ==
    ASSUME NEW q \in Seq(Rids \cup {HB}), NEW m \in Rids \cup {HB}
    PROVE  /\ InQueue(HB, Append(q, m)) <= InQueue(HB, q) + 1
           /\ m # HB => InQueue(HB, Append(q, m)) = InQueue(HB, q)
<1> DEFINE S == {i \in 1..Len(q) : q[i] = HB}
           T == {i \in 1..Len(Append(q, m)) : Append(q, m)[i] = HB}
<1>1. IsFiniteSet(S) /\ Cardinality(S) \in Nat
  BY QueueCount DEF InQueue
<1>2. CASE m = HB
  <2>1. T = S \cup {Len(q) + 1} /\ Len(q) + 1 \notin S
    BY <1>2
  <2> HIDE DEF S, T
  <2>2. Cardinality(T) = Cardinality(S) + 1
    BY <1>1, <2>1, FS_AddElement
  <2>3. Cardinality(T) <= Cardinality(S) + 1
    BY <1>1, <2>2
  <2> QED BY <1>2, <2>3 DEF S, T, InQueue
<1>3. CASE m # HB
  <2>1. T = S
    BY <1>3
  <2> HIDE DEF S, T
  <2>2. Cardinality(T) = Cardinality(S) /\ Cardinality(T) <= Cardinality(S) + 1
    BY <1>1, <2>1
  <2> QED BY <2>2 DEF S, T, InQueue
<1> QED BY <1>2, <1>3

LEMMA QueueTail ==
    ASSUME NEW q \in Seq(Rids \cup {HB}), q # <<>>
    PROVE  InQueue(HB, Tail(q)) <= InQueue(HB, q)
<1> DEFINE S == {i \in 1..Len(q) : q[i] = HB}
           T == {i \in 1..Len(Tail(q)) : Tail(q)[i] = HB}
           f == [i \in T |-> i + 1]
<1>1. Len(Tail(q)) = Len(q) - 1 /\ Len(q) \in Nat /\ \A i \in 1..Len(Tail(q)) : Tail(q)[i] = q[i + 1]
  OBVIOUS
<1>2. f \in Injection(T, S)
  BY <1>1 DEF Injection, IsInjective
<1>3. IsFiniteSet(S)
  BY QueueCount
<1> QED BY <1>2, <1>3, FS_Injection DEF InQueue

\* The requests that worker w was given, and the queues from and to it.
Given(w) == {r \in Rids : w \in dispatched[r]}

QueueOK(q, w) == q \in Seq(Given(w) \cup {HB})

WayOK(w) ==
    /\ QueueOK(toWorker[w], w) /\ Len(toWorker[w]) <= HighWater
    /\ QueueOK(toBroker[w], w) /\ InQueue(HB, toBroker[w]) <= MaxBeats
    /\ task[w] \subseteq Given(w)

ProcessTypes ==
    /\ asking \subseteq Rids \X Kinds
    /\ up \in [Workers -> BOOLEAN] /\ spoke \in [Workers -> BOOLEAN]
    /\ wlive \in [Workers -> 0..BROKER_LIVENESS]
    /\ reqs \in [Rids -> 0..REQ_LIVENESS \cup {None}]
    /\ restarts \in 0..MaxRestarts /\ answering \subseteq Rids

WayInv == ProcessTypes /\ \A w \in Workers : WayOK(w)

LEMMA SeqGrows == ASSUME NEW S, NEW T, S \subseteq T, NEW q \in Seq(S) PROVE q \in Seq(T)
OBVIOUS

LEMMA GivenGrows ==
    ASSUME NetInv, [MdpNext]_netVars, NEW w \in Workers
    PROVE  Given(w) \subseteq Given(w)'
<1>1. \A r \in Rids : dispatched[r] \subseteq dispatched'[r]
  BY NetStepIsBrokerStep, DispatchGrows DEF NetInv, IInv
<1> QED BY <1>1 DEF Given

LEMMA SameWay ==
    ASSUME NEW w \in Workers, WayOK(w), Given(w) \subseteq Given(w)',
           toWorker'[w] = toWorker[w], toBroker'[w] = toBroker[w], task'[w] = task[w]
    PROVE  WayOK(w)'
<1>1. toWorker[w] \in Seq(Given(w)' \cup {HB}) /\ toBroker[w] \in Seq(Given(w)' \cup {HB})
  <2>1. Given(w) \cup {HB} \subseteq Given(w)' \cup {HB}
    OBVIOUS
  <2> QED BY <2>1, SeqGrows DEF WayOK, QueueOK
<1> QED BY <1>1 DEF WayOK, QueueOK

LEMMA PushWay ==
    ASSUME Wire, NEW ws, NEW m, Push(ws, m), NEW w \in Workers, WayOK(w),
           Given(w) \subseteq Given(w)', w \in ws => m \in Given(w)' \cup {HB}
    PROVE  toWorker'[w] \in Seq(Given(w)' \cup {HB}) /\ Len(toWorker'[w]) <= HighWater
<1> DEFINE q == toWorker[w]
           S == Given(w)' \cup {HB}
<1>1. Given(w) \cup {HB} \subseteq S
  OBVIOUS
<1>2. q \in Seq(S) /\ Len(q) <= HighWater /\ HighWater \in Nat
  BY <1>1, SeqGrows, NetAssumption DEF WayOK, QueueOK
<1>3. \/ toWorker'[w] = Append(q, m) /\ w \in ws /\ Len(q) < HighWater
      \/ toWorker'[w] = q
  BY DEF Push
<1> HIDE DEF q
<1>4. CASE toWorker'[w] = Append(q, m) /\ w \in ws /\ Len(q) < HighWater
  <2>1. m \in S
    BY <1>4
  <2> HIDE DEF S
  <2>2. Append(q, m) \in Seq(S) /\ Len(Append(q, m)) = Len(q) + 1 /\ Len(q) \in Nat
    BY <1>2, <2>1
  <2> QED BY <1>2, <1>4, <2>2 DEF S
<1>5. CASE toWorker'[w] = q
  BY <1>2, <1>5
<1> QED BY <1>3, <1>4, <1>5

LEMMA ProcessStep ==
    ASSUME NetInv, ProcessTypes, [MdpNext]_netVars
    PROVE  ProcessTypes'
<1> USE NetAssumption DEF ProcessTypes
<1>1. ASSUME NEW r \in Rids, NEW k \in Kinds, Send(r, k) PROVE ProcessTypes'
  <2>1. REQ_LIVENESS \in 0..REQ_LIVENESS
    OBVIOUS
  <2> QED BY <1>1, <2>1 DEF Send, workerVars
<1>2. ASSUME NEW r \in Rids, Hear(r) PROVE ProcessTypes'
  BY <1>2 DEF Hear, workerVars
<1>3. CASE CheckReq
  <2>1. \A r \in Rids : reqs[r] \notin {None, 0} => reqs[r] - 1 \in 0..REQ_LIVENESS
    OBVIOUS
  <2>2. reqs' \in [Rids -> 0..REQ_LIVENESS \cup {None}]
    BY <1>3, <2>1 DEF CheckReq
  <2> QED BY <1>3, <2>2 DEF CheckReq, workerVars
<1>4. ASSUME NEW r \in Rids, NEW k \in Kinds, BrokerRequest(r, k) PROVE ProcessTypes'
  BY <1>4 DEF BrokerRequest, clientVars
<1>5. CASE BrokerCheck \/ BrokerRestart
  BY <1>5 DEF BrokerCheck, BrokerRestart, clientVars
<1>6. ASSUME NEW w \in Workers, Start(w) \/ Crash(w) \/ Receive(w) PROVE ProcessTypes'
  <2>1. BROKER_LIVENESS \in 0..BROKER_LIVENESS /\ 0 \in 0..BROKER_LIVENESS
    OBVIOUS
  <2>2. CASE Start(w)
    BY <2>1, <2>2 DEF Start, clientVars
  <2>3. CASE Crash(w)
    BY <2>1, <2>3 DEF Crash, clientVars
  <2>4. CASE Receive(w)
    BY <2>1, <2>4 DEF Receive, clientVars
  <2> QED BY <1>6, <2>2, <2>3, <2>4
<1>7. ASSUME NEW w \in Workers, CheckHealth(w) PROVE ProcessTypes'
  <2>1. BROKER_LIVENESS \in 0..BROKER_LIVENESS
        /\ (wlive[w] # 0 => wlive[w] - 1 \in 0..BROKER_LIVENESS)
    OBVIOUS
  <2>2. wlive' \in [Workers -> 0..BROKER_LIVENESS]
    BY <1>7, <2>1 DEF CheckHealth
  <2>3. spoke' \in [Workers -> BOOLEAN]
    BY <1>7 DEF CheckHealth, Beat
  <2> QED BY <1>7, <2>2, <2>3 DEF CheckHealth, clientVars
<1>8. ASSUME NEW w \in Workers, BrokerReceive(w) PROVE ProcessTypes'
  BY <1>8 DEF BrokerReceive, clientVars
<1>9. ASSUME NEW w \in Workers, NEW r \in Rids, Reply(w, r) PROVE ProcessTypes'
  BY <1>9 DEF Reply, clientVars
<1>10. CASE UNCHANGED netVars
  BY <1>10 DEF netVars, workerVars, clientVars
<1> HIDE DEF ProcessTypes
<1> QED BY <1>1, <1>2, <1>3, <1>4, <1>5, <1>6, <1>7, <1>8, <1>9, <1>10 DEF MdpNext, WorkerNext

\* The steps of one worker and of its connection.
LEMMA WorkerWay ==
    ASSUME NetInv, WayInv, NEW w \in Workers, WorkerNext(w), Given(w) \subseteq Given(w)'
    PROVE  WayOK(w)'
<1> DEFINE S == Given(w)' \cup {HB}
           b == toBroker[w]
           q == toWorker[w]
<1>1. /\ q \in Seq(S) /\ b \in Seq(S) /\ Len(q) <= HighWater /\ InQueue(HB, b) <= MaxBeats
      /\ task[w] \subseteq Given(w)'
  <2>1. Given(w) \cup {HB} \subseteq S
    OBVIOUS
  <2> QED BY <2>1, SeqGrows DEF WayInv, WayOK, QueueOK
<1>2. /\ b \in Seq(Rids \cup {HB}) /\ q \in Seq(Rids \cup {HB}) /\ InQueue(HB, b) \in Nat
      /\ toBroker \in [Workers -> Seq(Rids \cup {HB})] /\ toWorker \in [Workers -> Seq(Rids \cup {HB})]
      /\ task \in [Workers -> SUBSET Rids] /\ HB \in S /\ <<>> \in Seq(S)
      /\ MaxBeats \in Nat /\ MaxBeats > 0 /\ HighWater \in Nat /\ HB \notin Rids
      /\ Len(<<>>) <= HighWater
  <2>1. b \in Seq(Rids \cup {HB}) /\ q \in Seq(Rids \cup {HB})
    BY DEF NetInv, Wire
  <2>2. InQueue(HB, b) \in Nat
    BY <2>1, QueueCount
  <2>3. /\ toBroker \in [Workers -> Seq(Rids \cup {HB})] /\ toWorker \in [Workers -> Seq(Rids \cup {HB})]
        /\ task \in [Workers -> SUBSET Rids]
    BY DEF NetInv, Wire
  <2>4. MaxBeats \in Nat /\ MaxBeats > 0 /\ HighWater \in Nat /\ HB \notin Rids
    BY NetAssumption
  <2>5. HB \in S /\ <<>> \in Seq(S) /\ Len(<<>>) = 0
    OBVIOUS
  <2> QED BY <2>1, <2>2, <2>3, <2>4, <2>5
<1>3. ASSUME toWorker'[w] \in Seq(S), Len(toWorker'[w]) <= HighWater,
             toBroker'[w] \in Seq(S), InQueue(HB, toBroker'[w]) <= MaxBeats,
             task'[w] \subseteq Given(w)'
      PROVE  WayOK(w)'
  BY <1>3 DEF WayOK, QueueOK
<1>4. /\ Append(b, HB) \in Seq(S) /\ InQueue(HB, Append(b, HB)) <= InQueue(HB, b) + 1
      /\ InQueue(HB, Append(b, HB)) \in Nat
  <2>1. Append(b, HB) \in Seq(Rids \cup {HB})
    BY <1>2
  <2>2. InQueue(HB, Append(b, HB)) \in Nat
    BY <2>1, QueueCount
  <2>3. InQueue(HB, Append(b, HB)) <= InQueue(HB, b) + 1
    BY <1>2, QueueAppend
  <2> HIDE DEF S
  <2> QED BY <1>1, <1>2, <2>2, <2>3
<1>5. CASE Start(w)
  <2>1. toWorker'[w] = q /\ toBroker'[w] = <<HB>> /\ task'[w] = task[w] /\ b = <<>>
    BY <1>2, <1>5 DEF Start
  <2>2. <<HB>> = Append(b, HB)
    BY <2>1
  <2>3. InQueue(HB, b) = 0
    BY <2>1, QueueNone
  <2>4. InQueue(HB, <<HB>>) <= MaxBeats /\ <<HB>> \in Seq(S)
    <3> HIDE DEF b, S
    <3>1. InQueue(HB, Append(b, HB)) <= MaxBeats /\ Append(b, HB) \in Seq(S)
      BY <1>2, <1>4, <2>3
    <3> QED BY <2>2, <3>1, Zenon
  <2> QED BY <1>1, <1>3, <2>1, <2>4
<1>6. CASE Crash(w)
  <2>1. toWorker'[w] = <<>> /\ toBroker'[w] = b /\ task'[w] = {}
    BY <1>2, <1>6 DEF Crash
  <2> QED BY <1>1, <1>2, <1>3, <2>1
<1>7. CASE Receive(w)
  <2>1. /\ q # <<>> /\ toWorker'[w] = Tail(q) /\ toBroker'[w] = b
        /\ task'[w] = task[w] \cup ({Head(q)} \ {HB})
    BY <1>2, <1>7 DEF Receive
  <2>2. /\ Tail(q) \in Seq(S) /\ Len(Tail(q)) = Len(q) - 1 /\ Len(q) \in Nat /\ Head(q) \in S
    <3> HIDE DEF S
    <3> QED BY <1>1, <2>1
  <2>3. Len(Tail(q)) <= HighWater
    BY <1>1, <1>2, <2>2
  <2> QED BY <1>1, <1>3, <2>1, <2>2, <2>3
<1>8. CASE CheckHealth(w)
  <2>1. InQueue(HB, b) < MaxBeats /\ task'[w] = task[w]
    BY <1>8 DEF CheckHealth
  <2>2. toWorker'[w] = q \/ toWorker'[w] = <<>>
    <3>1. CASE wlive[w] = 0
      BY <1>2, <1>8, <3>1 DEF CheckHealth
    <3>2. CASE wlive[w] # 0
      BY <1>8, <3>2 DEF CheckHealth
    <3> QED BY <3>1, <3>2
  <2>3. toBroker'[w] = Append(b, HB) \/ toBroker'[w] = b
    BY <1>2, <1>8 DEF CheckHealth, Beat
  <2>4. toBroker'[w] \in Seq(S) /\ InQueue(HB, toBroker'[w]) <= MaxBeats
    <3>1. CASE toBroker'[w] = Append(b, HB)
      <4> HIDE DEF b, S
      <4> QED BY <1>2, <1>4, <2>1, <3>1
    <3>2. CASE toBroker'[w] = b
      BY <1>1, <3>2
    <3> QED BY <2>3, <3>1, <3>2
  <2> QED BY <1>1, <1>2, <1>3, <2>1, <2>2, <2>4
<1>9. ASSUME NEW r \in Rids, Reply(w, r) PROVE WayOK(w)'
  <2>1. /\ toWorker'[w] = q /\ toBroker'[w] = Append(b, r) /\ task'[w] = task[w] /\ r \in task[w]
    BY <1>2, <1>9 DEF Reply
  <2>2. InQueue(HB, Append(b, r)) = InQueue(HB, b)
    BY <1>2, QueueAppend
  <2>3. r \in S
    BY <1>1, <2>1
  <2>4. Append(b, r) \in Seq(S)
    <3> HIDE DEF S
    <3> QED BY <1>1, <2>3
  <2> QED BY <1>1, <1>3, <2>1, <2>2, <2>4
<1>10. CASE BrokerReceive(w)
  <2>1. /\ b # <<>> /\ toBroker'[w] = Tail(b) /\ toWorker'[w] = q /\ task'[w] = task[w]
    BY <1>2, <1>10 DEF BrokerReceive
  <2>2. InQueue(HB, Tail(b)) <= InQueue(HB, b) /\ InQueue(HB, Tail(b)) \in Nat
    <3>1. Tail(b) \in Seq(Rids \cup {HB})
      BY <1>2, <2>1
    <3> QED BY <1>2, <2>1, <3>1, QueueTail, QueueCount
  <2>3. Tail(b) \in Seq(S)
    <3> HIDE DEF S
    <3> QED BY <1>1, <2>1
  <2>4. InQueue(HB, Tail(b)) <= MaxBeats
    BY <1>1, <1>2, <2>2
  <2> QED BY <1>1, <1>3, <2>1, <2>3, <2>4
<1> QED BY <1>5, <1>6, <1>7, <1>8, <1>9, <1>10 DEF WorkerNext

LEMMA WayStep ==
    ASSUME NetInv, WayInv, [MdpNext]_netVars, NEW v \in Workers
    PROVE  WayOK(v)'
<1>1. Given(v) \subseteq Given(v)' /\ WayOK(v) /\ Wire
  BY GivenGrows DEF WayInv, NetInv
<1>2. ASSUME UNCHANGED workerVars PROVE WayOK(v)'
  BY <1>1, <1>2, SameWay DEF workerVars
<1>3. ASSUME NEW r \in Rids, NEW k \in Kinds, Send(r, k) PROVE WayOK(v)'
  BY <1>2, <1>3 DEF Send
<1>4. CASE CheckReq \/ UNCHANGED netVars
  BY <1>2, <1>4 DEF CheckReq, netVars
<1>5. ASSUME NEW w \in Workers, WorkerNext(w) PROVE WayOK(v)'
  <2>1. CASE v = w
    BY <1>1, <1>5, <2>1, WorkerWay
  <2>2. CASE v # w
    <3>1. /\ toBroker \in [Workers -> Seq(Rids \cup {HB})]
          /\ toWorker \in [Workers -> Seq(Rids \cup {HB})] /\ task \in [Workers -> SUBSET Rids]
      BY <1>1 DEF Wire
    <3>2. toWorker'[v] = toWorker[v] /\ toBroker'[v] = toBroker[v] /\ task'[v] = task[v]
      BY <1>5, <2>2, <3>1 DEF WorkerNext, Start, Crash, Receive, CheckHealth, Beat, Reply, BrokerReceive
    <3> QED BY <1>1, <3>2, SameWay
  <2> QED BY <2>1, <2>2
<1>6. ASSUME NEW ws, NEW m, Push(ws, m), UNCHANGED <<toBroker, task>>,
             v \in ws => m \in Given(v)' \cup {HB}
      PROVE  WayOK(v)'
  <2>1. toWorker'[v] \in Seq(Given(v)' \cup {HB}) /\ Len(toWorker'[v]) <= HighWater
    BY <1>1, <1>6, PushWay
  <2>2. toBroker[v] \in Seq(Given(v)' \cup {HB})
    <3>1. Given(v) \cup {HB} \subseteq Given(v)' \cup {HB}
      BY <1>1
    <3> QED BY <1>1, <3>1, SeqGrows DEF WayOK, QueueOK
  <2> QED BY <1>1, <1>6, <2>1, <2>2 DEF WayOK, QueueOK
<1>7. ASSUME NEW r \in Rids, NEW k \in Kinds, BrokerRequest(r, k) PROVE WayOK(v)'
  <2>1. Push(dispatched'[r], r) /\ UNCHANGED <<toBroker, task>>
    BY <1>7 DEF BrokerRequest
  <2>2. v \in dispatched'[r] => r \in Given(v)'
    BY DEF Given
  <2> QED BY <1>6, <2>1, <2>2
<1>8. CASE BrokerCheck
  <2>1. Push(registered', HB) /\ UNCHANGED <<toBroker, task>>
    BY <1>8 DEF BrokerCheck
  <2> QED BY <1>6, <2>1
<1>9. CASE BrokerRestart
  <2>1. task' = task
    BY <1>9 DEF BrokerRestart
  <2>2. /\ toWorker'[v] = toWorker[v] \/ toWorker'[v] = <<>>
        /\ toBroker'[v] = toBroker[v] \/ toBroker'[v] = <<>>
    BY <1>9 DEF BrokerRestart
  <2>3. \A q \in {toWorker[v], toBroker[v], <<>>} : q \in Seq(Given(v)' \cup {HB})
    <3>1. Given(v) \cup {HB} \subseteq Given(v)' \cup {HB} /\ <<>> \in Seq(Given(v)' \cup {HB})
      BY <1>1
    <3> QED BY <1>1, <3>1, SeqGrows DEF WayOK, QueueOK
  <2>4. Len(<<>>) <= HighWater /\ InQueue(HB, <<>>) <= MaxBeats
    BY QueueNone, NetAssumption
  <2> QED BY <1>1, <2>1, <2>2, <2>3, <2>4 DEF WayOK, QueueOK
<1>10. ASSUME NEW r \in Rids, Hear(r) PROVE WayOK(v)'
  BY <1>2, <1>10 DEF Hear
<1> QED BY <1>3, <1>4, <1>5, <1>7, <1>8, <1>9, <1>10 DEF MdpNext

LEMMA WayStart == MdpInit => WayInv
<1> SUFFICES ASSUME MdpInit PROVE WayInv
  OBVIOUS
<1>1. ProcessTypes
  BY NetAssumption DEF MdpInit, ProcessTypes
<1>2. Len(<<>>) <= HighWater /\ InQueue(HB, <<>>) <= MaxBeats
  BY QueueNone, NetAssumption
<1>3. ASSUME NEW w \in Workers PROVE WayOK(w)
  <2>1. toWorker[w] = <<>> /\ toBroker[w] = <<>> /\ task[w] = {}
    BY DEF MdpInit
  <2> QED BY <1>2, <2>1 DEF WayOK, QueueOK
<1> QED BY <1>1, <1>3 DEF WayInv

\* What is on the way from and to a worker is about requests the broker gave it, and
\* no queue grows past its bound (worker.js, request.js).
THEOREM NetworkTypes == MdpSpec => []NetTypeOK
<1>1. NetInv /\ WayInv => NetTypeOK
  <2> SUFFICES ASSUME NetInv, WayInv PROVE NetTypeOK
    OBVIOUS
  <2>1. \A r \in Rids : heard[r] \in 0..Len(sent[r])
    BY DEF NetInv, HeardInv, IInv, BrokerTypeOK
  <2> QED BY <2>1 DEF NetTypeOK, NetInv, IInv, WayInv, ProcessTypes, WayOK, QueueOK, Given
<1>2. NetInv /\ WayInv /\ [MdpNext]_netVars => WayInv'
  BY WayStep, ProcessStep DEF WayInv
<1> QED BY NetStart, NetStep, WayStart, <1>1, <1>2, PTL DEF MdpSpec
=============================================================================
