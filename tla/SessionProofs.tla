---------------------------- MODULE SessionProofs ----------------------------
(***************************************************************************)
(* Proofs about SessionTable: the queue of queue.js is a queue, sessions   *)
(* are counted right, messages are handed over in order, and the table     *)
(* implements Mailbox.                                                     *)
(***************************************************************************)
EXTENDS SessionTable, FiniteSetTheorems, TLAPS

-----------------------------------------------------------------------------
(* queue.js *)

\* push puts its item behind the others and moves none of them.
LEMMA PushIsLast ==
    ASSUME NEW S, NEW q \in Queues(S), NEW x \in S
    PROVE  /\ Push(q, x) \in Queues(S)
           /\ GetLength(Push(q, x)) = GetLength(q) + 1
           /\ \A i \in 1..GetLength(q) : Item(Push(q, x), i) = Item(q, i)
           /\ Item(Push(q, x), GetLength(q) + 1) = x
<1> DEFINE p == Push(q, x)
<1>0. /\ q \in [head : Seq(S), tail : Seq(S), offset : Nat]
      /\ q.offset <= Len(q.head)
      /\ Append(q.tail, x) \in Seq(S)
  BY DEF Queues
<1>1. /\ p.head = q.head /\ p.offset = q.offset /\ p.tail = Append(q.tail, x)
      /\ q.head \in Seq(S) /\ q.tail \in Seq(S) /\ q.offset \in Nat
      /\ q.offset <= Len(q.head)
      /\ p \in [head : Seq(S), tail : Seq(S), offset : Nat]
  BY <1>0 DEF Push
<1>2. Len(p.tail) = Len(q.tail) + 1 /\ p.tail[Len(q.tail) + 1] = x
      /\ \A i \in 1..Len(q.tail) : p.tail[i] = q.tail[i]
  BY <1>1
<1>3. Len(q.head) \in Nat /\ Len(q.tail) \in Nat
  BY <1>1
<1>4. p \in Queues(S) /\ GetLength(p) = GetLength(q) + 1
  BY <1>1, <1>2, <1>3 DEF Queues, GetLength
<1>5. ASSUME NEW i \in 1..GetLength(q)
      PROVE  Item(p, i) = Item(q, i)
  BY <1>1, <1>2, <1>3, i - (Len(q.head) - q.offset) <= Len(q.tail) DEF Item, GetLength
<1>6. Item(p, GetLength(q) + 1) = x
  BY <1>1, <1>2, <1>3 DEF Item, GetLength
<1>. QED  BY <1>4, <1>5, <1>6

\* first is the first item of a queue that has one.
LEMMA FirstIsFirst ==
    ASSUME NEW S, NEW q \in Queues(S), GetLength(q) > 0
    PROVE  First(q) = Item(q, 1) /\ First(q) \in S
<1>1. /\ q.head \in Seq(S) /\ q.tail \in Seq(S) /\ q.offset \in Nat
      /\ q.offset <= Len(q.head) /\ Len(q.head) \in Nat /\ Len(q.tail) \in Nat
  BY DEF Queues
<1>2. CASE q.offset = Len(q.head)
  <2>1. Len(q.tail) > 0 /\ q.tail[1] \in S
    BY <1>1, <1>2 DEF GetLength
  <2>. QED  BY <1>1, <1>2, <2>1 DEF First, UsedUp, Item
<1>3. CASE q.offset # Len(q.head)
  <2>1. q.offset + 1 \in 1..Len(q.head)
    BY <1>1, <1>3
  <2>2. q.head[q.offset + 1] \in S
    BY <1>1, <2>1
  <2>. QED  BY <1>1, <1>3, <2>1, <2>2 DEF First, UsedUp, Item
<1>. QED  BY <1>2, <1>3

\* shift takes the first item away, or leaves an empty queue empty.
LEMMA ShiftTakesFirst ==
    ASSUME NEW S, NEW q \in Queues(S)
    PROVE  /\ Shift(q) \in Queues(S)
           /\ GetLength(q) \in Nat
           /\ GetLength(Shift(q)) = IF GetLength(q) = 0 THEN 0 ELSE GetLength(q) - 1
           /\ \A i \in 1..GetLength(q) - 1 : Item(Shift(q), i) = Item(q, i + 1)
<1> DEFINE p == Shift(q)
<1>1. /\ q = [head |-> q.head, tail |-> q.tail, offset |-> q.offset]
      /\ q.head \in Seq(S) /\ q.tail \in Seq(S) /\ q.offset \in Nat
      /\ q.offset <= Len(q.head) /\ Len(q.head) \in Nat /\ Len(q.tail) \in Nat
  BY DEF Queues
<1>2. CASE UsedUp(q)
  <2>1. /\ p.head = q.tail /\ p.tail = <<>> /\ p.offset = IF q.tail = <<>> THEN 0 ELSE 1
        /\ p \in [head : Seq(S), tail : Seq(S), offset : Nat]
    BY <1>1, <1>2 DEF Shift
  <2>2. q.tail = <<>> <=> Len(q.tail) = 0
    BY <1>1
  <2>3. p \in Queues(S)
    BY <1>1, <2>1, <2>2 DEF Queues
  <2>4. GetLength(q) = Len(q.tail)
    BY <1>1, <1>2 DEF GetLength, UsedUp
  <2>5. GetLength(p) = IF GetLength(q) = 0 THEN 0 ELSE GetLength(q) - 1
    BY <1>1, <2>1, <2>2, <2>4 DEF GetLength
  <2>6. ASSUME NEW i \in 1..GetLength(q) - 1
        PROVE  Item(p, i) = Item(q, i + 1)
    BY <1>1, <1>2, <2>1, <2>2, <2>4 DEF Item, UsedUp
  <2>. QED  BY <1>1, <2>3, <2>4, <2>5, <2>6
<1>3. CASE ~UsedUp(q)
  <2>1. /\ p.head = q.head /\ p.tail = q.tail /\ p.offset = q.offset + 1
        /\ p \in [head : Seq(S), tail : Seq(S), offset : Nat]
    BY <1>1, <1>3 DEF Shift
  <2>2. q.offset < Len(q.head)
    BY <1>1, <1>3 DEF UsedUp
  <2>3. p \in Queues(S)
    BY <1>1, <2>1, <2>2 DEF Queues
  <2>4. GetLength(q) \in Nat /\ GetLength(q) > 0 /\ GetLength(p) = GetLength(q) - 1
    <3>1. GetLength(p) = Len(q.head) - (q.offset + 1) + Len(q.tail)
      BY <2>1 DEF GetLength
    <3>. QED  BY <1>1, <2>2, <3>1 DEF GetLength
  <2>5. ASSUME NEW i \in 1..GetLength(q) - 1
        PROVE  Item(p, i) = Item(q, i + 1)
    BY <1>1, <2>1, <2>2, <2>4 DEF Item
  <2>. QED  BY <2>3, <2>4, <2>5
<1>. QED  BY <1>2, <1>3

-----------------------------------------------------------------------------
(* one session *)

\* The listener keeps a session's messages in order.
LEMMA MessageOrdered ==
    ASSUME NEW S, NEW a \in Nat, NEW q \in Queues(S), NEW e \in Seq(S),
           a + 1 \in S, Ordered(a, q, e),
           NEW f, f = IF GetLength(Push(q, a + 1)) = 1
                      THEN Append(e, First(Push(q, a + 1))) ELSE e
    PROVE  f \in Seq(S) /\ Ordered(a + 1, Push(q, a + 1), f)
<1> DEFINE p == Push(q, a + 1)
           n == GetLength(q)
<1>1. /\ p \in Queues(S) /\ GetLength(p) = n + 1 /\ n \in Nat
      /\ \A i \in 1..n : Item(p, i) = Item(q, i)
      /\ Item(p, n + 1) = a + 1
  <2>1. n \in Nat
    BY DEF GetLength, Queues
  <2> HIDE DEF p, n
  <2>2. p = Push(q, a + 1) /\ n = GetLength(q)
    BY DEF p, n
  <2> QED
    BY <2>1, <2>2, PushIsLast
<1>2. /\ \A i \in 1..n : Item(q, i) = a - n + i
      /\ Len(e) = a - (IF n = 0 THEN 0 ELSE n - 1)
      /\ \A i \in 1..Len(e) : e[i] = i
  BY DEF Ordered
<1>3. First(p) = Item(p, 1) /\ First(p) \in S
  BY <1>1, FirstIsFirst
<1> HIDE DEF p, n
<1>4. \A i \in 1..(n + 1) : Item(p, i) = (a + 1) - (n + 1) + i
  BY <1>1, <1>2
<1>5. CASE n = 0
  <2>1. f = Append(e, a + 1) /\ f \in Seq(S)
    BY <1>1, <1>3, <1>5 DEF p
  <2>2. Len(f) = a + 1 /\ \A i \in 1..Len(f) : f[i] = i
    BY <1>2, <1>5, <2>1
  <2>. QED  BY <1>1, <1>4, <1>5, <2>1, <2>2 DEF Ordered, p
<1>6. CASE n # 0
  <2>1. f = e
    BY <1>1, <1>6 DEF p
  <2>2. Len(f) = (a + 1) - ((n + 1) - 1)
    BY <1>1, <1>2, <1>6, <2>1
  <2>3. \A i \in 1..Len(f) : f[i] = i
    BY <1>2, <2>1
  <2>4. GetLength(p) = n + 1 /\ n + 1 # 0
    BY <1>1
  <2>5. Ordered(a + 1, p, f)
    BY <1>4, <2>2, <2>3, <2>4 DEF Ordered
  <2>. QED  BY <2>1, <2>5 DEF p
<1>. QED  BY <1>5, <1>6

\* A reply keeps a session's messages in order, a superfluous one too.
LEMMA AdvanceOrdered ==
    ASSUME NEW S, NEW a \in Nat, NEW q \in Queues(S), NEW e \in Seq(S),
           Ordered(a, q, e),
           NEW f, f = IF GetLength(Shift(q)) > 0 THEN Append(e, First(Shift(q))) ELSE e
    PROVE  f \in Seq(S) /\ Ordered(a, Shift(q), f)
<1> DEFINE p == Shift(q)
           n == GetLength(q)
<1>1. /\ p \in Queues(S) /\ n \in Nat
      /\ GetLength(p) = IF n = 0 THEN 0 ELSE n - 1
      /\ \A i \in 1..(n - 1) : Item(p, i) = Item(q, i + 1)
  BY ShiftTakesFirst
<1>2. /\ \A i \in 1..n : Item(q, i) = a - n + i
      /\ Len(e) = a - (IF n = 0 THEN 0 ELSE n - 1)
      /\ \A i \in 1..Len(e) : e[i] = i
  BY DEF Ordered
<1>3. GetLength(p) > 0 => First(p) = Item(p, 1) /\ First(p) \in S
  BY <1>1, FirstIsFirst
<1> HIDE DEF p, n
<1>4. CASE n = 0
  <2>1. f = e /\ GetLength(p) = 0
    BY <1>1, <1>4 DEF p
  <2>. QED  BY <1>1, <1>2, <1>4, <2>1 DEF Ordered, p
<1>5. CASE n # 0
  <2>1. GetLength(p) = n - 1 /\ \A i \in 1..(n - 1) : Item(p, i) = a - (n - 1) + i
    BY <1>1, <1>2, <1>5
  <2>2. CASE n = 1
    <3>1. f = e /\ GetLength(p) = 0
      BY <2>1, <2>2 DEF p
    <3>. QED  BY <1>2, <2>2, <3>1 DEF Ordered, p
  <2>3. CASE n # 1
    <3>1. f = Append(e, First(p)) /\ First(p) \in S /\ First(p) = a - (n - 1) + 1
      BY <1>1, <1>3, <1>5, <2>1, <2>3 DEF p
    <3>2. Len(e) = a - (n - 1) /\ f \in Seq(S)
      BY <1>2, <1>5, <3>1
    <3>3. /\ Len(f) = Len(e) + 1 /\ f[Len(e) + 1] = First(p)
          /\ \A i \in 1..Len(e) : f[i] = e[i]
      BY <3>1
    <3>4. Len(f) = a - ((n - 1) - 1)
      BY <1>1, <3>2, <3>3
    <3>5. \A i \in 1..Len(f) : f[i] = i
      <4> SUFFICES ASSUME NEW i \in 1..Len(f)
                   PROVE  f[i] = i
        OBVIOUS
      <4>1. CASE i = Len(e) + 1
        BY <1>1, <3>1, <3>2, <3>3, <4>1
      <4>2. CASE i # Len(e) + 1
        BY <1>2, <3>3, <4>2
      <4>. QED  BY <4>1, <4>2
    <3>. QED  BY <1>1, <1>5, <2>1, <2>3, <3>2, <3>4, <3>5 DEF Ordered, p
  <2>. QED  BY <2>2, <2>3
<1>. QED  BY <1>4, <1>5

-----------------------------------------------------------------------------
(* the table *)

\* The steps that change what a session holds; the others leave it alone.
MailStep == \E s \in Sids : Receive(s) \/ \E n \in Numbers : Reply(s, n)

LEMMA LinkStep ==
    ASSUME SessionNext
    PROVE  MailStep \/ UNCHANGED mailVars
BY DEF SessionNext, MailStep, Connect, SIdFails, CreateSession, CloseEvent, Kick,
       FallSilent, CheckHealth, Stop

\* What every step does to the messages of one session.
LEMMA MailStepShape ==
    ASSUME SessionTypeOK, InOrder, MailStep
    PROVE  \E s \in Sids :
              /\ arrived' = [arrived EXCEPT ![s] = arrived'[s]]
              /\ queue' = [queue EXCEPT ![s] = queue'[s]]
              /\ emitted' = [emitted EXCEPT ![s] = emitted'[s]]
              /\ arrived'[s] \in Nat /\ arrived'[s] <= MsgsOf[s]
              /\ queue'[s] \in Queues(Numbers)
              /\ emitted'[s] \in Seq(Numbers)
              /\ Ordered(arrived'[s], queue'[s], emitted'[s])
<1>1. ASSUME NEW s \in Sids, Receive(s)
      PROVE  /\ arrived' = [arrived EXCEPT ![s] = arrived'[s]]
             /\ queue' = [queue EXCEPT ![s] = queue'[s]]
             /\ emitted' = [emitted EXCEPT ![s] = emitted'[s]]
             /\ arrived'[s] \in Nat /\ arrived'[s] <= MsgsOf[s]
             /\ queue'[s] \in Queues(Numbers)
             /\ emitted'[s] \in Seq(Numbers)
             /\ Ordered(arrived'[s], queue'[s], emitted'[s])
  <2> DEFINE a == arrived[s]
             p == Push(queue[s], a + 1)
             f == IF GetLength(p) = 1 THEN Append(emitted[s], First(p)) ELSE emitted[s]
  <2>1. /\ a \in Nat /\ queue[s] \in Queues(Numbers) /\ emitted[s] \in Seq(Numbers)
        /\ Ordered(a, queue[s], emitted[s]) /\ MsgsOf[s] \in 0..MaxMsgs /\ MaxMsgs \in Nat
    BY <1>1, SessionAssumption DEF SessionTypeOK, InOrder
  <2>2. a < MsgsOf[s] /\ a + 1 \in Numbers
    BY <1>1, <2>1 DEF Receive, Message, Numbers
  <2>3. arrived' = [arrived EXCEPT ![s] = a + 1] /\ arrived'[s] = a + 1
    BY <1>1 DEF Receive, Message, SessionTypeOK
  <2>4. queue' = [queue EXCEPT ![s] = p] /\ queue'[s] = p
    BY <1>1, <2>3 DEF Receive, Message, SessionTypeOK
  <2>5. emitted' = [emitted EXCEPT ![s] = f] /\ emitted'[s] = f
    <3>1. CASE GetLength(p) = 1
      BY <1>1, <2>4, <3>1 DEF Receive, Message, EmitFirst, SessionTypeOK
    <3>2. CASE GetLength(p) # 1
      BY <1>1, <2>4, <3>2 DEF Receive, Message, SessionTypeOK
    <3>. QED  BY <3>1, <3>2
  <2>6. f \in Seq(Numbers) /\ Ordered(a + 1, p, f)
    BY <2>1, <2>2, MessageOrdered
  <2>7. p \in Queues(Numbers)
    BY <2>1, <2>2, PushIsLast
  <2> HIDE DEF p, f
  <2>8. arrived'[s] \in Nat /\ arrived'[s] <= MsgsOf[s]
    BY <2>1, <2>2, <2>3
  <2> HIDE DEF a
  <2>9. Ordered(arrived'[s], queue'[s], emitted'[s])
    BY <2>3, <2>4, <2>5, <2>6
  <2>. QED  BY <2>3, <2>4, <2>5, <2>6, <2>7, <2>8, <2>9
<1>2. ASSUME NEW s \in Sids, NEW n \in Numbers, Reply(s, n)
      PROVE  /\ arrived' = [arrived EXCEPT ![s] = arrived'[s]]
             /\ queue' = [queue EXCEPT ![s] = queue'[s]]
             /\ emitted' = [emitted EXCEPT ![s] = emitted'[s]]
             /\ arrived'[s] \in Nat /\ arrived'[s] <= MsgsOf[s]
             /\ queue'[s] \in Queues(Numbers)
             /\ emitted'[s] \in Seq(Numbers)
             /\ Ordered(arrived'[s], queue'[s], emitted'[s])
  <2> DEFINE p == Shift(queue[s])
             f == IF GetLength(p) > 0 THEN Append(emitted[s], First(p)) ELSE emitted[s]
  <2>1. /\ arrived[s] \in Nat /\ arrived[s] <= MsgsOf[s]
        /\ queue[s] \in Queues(Numbers) /\ emitted[s] \in Seq(Numbers)
        /\ Ordered(arrived[s], queue[s], emitted[s])
    BY DEF SessionTypeOK, InOrder
  <2>2. arrived' = arrived
    BY <1>2 DEF Reply
  <2>3. CASE phase[s] = "open"
    <3>1. queue' = [queue EXCEPT ![s] = p] /\ queue'[s] = p
      BY <1>2, <2>3 DEF Reply, Advance, SessionTypeOK
    <3>2. emitted' = [emitted EXCEPT ![s] = f] /\ emitted'[s] = f
      <4>1. CASE GetLength(p) > 0
        BY <1>2, <2>3, <3>1, <4>1 DEF Reply, Advance, EmitFirst, SessionTypeOK
      <4>2. CASE ~(GetLength(p) > 0)
        BY <1>2, <2>3, <3>1, <4>2 DEF Reply, Advance, SessionTypeOK
      <4>. QED  BY <4>1, <4>2
    <3>3. f \in Seq(Numbers) /\ Ordered(arrived[s], p, f)
      BY <2>1, AdvanceOrdered
    <3>4. p \in Queues(Numbers)
      BY <2>1, ShiftTakesFirst
    <3> HIDE DEF p, f
    <3>. QED  BY <2>1, <2>2, <3>1, <3>2, <3>3, <3>4 DEF SessionTypeOK
  <2>4. CASE phase[s] # "open"
    BY <1>2, <2>1, <2>2, <2>4 DEF Reply, SessionTypeOK
  <2>. QED  BY <2>3, <2>4
<1>. QED  BY <1>1, <1>2 DEF MailStep

\* Steps keep the messages of every session in order.
LEMMA OrderStep ==
    ASSUME SessionTypeOK, InOrder, [SessionNext]_sessionVars
    PROVE  /\ arrived' \in [Sids -> Nat] /\ \A s \in Sids : arrived'[s] <= MsgsOf[s]
           /\ queue' \in [Sids -> Queues(Numbers)]
           /\ emitted' \in [Sids -> Seq(Numbers)]
           /\ InOrder'
<1>1. CASE UNCHANGED mailVars
  BY <1>1 DEF mailVars, SessionTypeOK, InOrder
<1>2. CASE MailStep
  <2>1. PICK s \in Sids :
              /\ arrived' = [arrived EXCEPT ![s] = arrived'[s]]
              /\ queue' = [queue EXCEPT ![s] = queue'[s]]
              /\ emitted' = [emitted EXCEPT ![s] = emitted'[s]]
              /\ arrived'[s] \in Nat /\ arrived'[s] <= MsgsOf[s]
              /\ queue'[s] \in Queues(Numbers)
              /\ emitted'[s] \in Seq(Numbers)
              /\ Ordered(arrived'[s], queue'[s], emitted'[s])
    BY <1>2, MailStepShape
  <2>. QED  BY <2>1 DEF SessionTypeOK, InOrder
<1>. QED  BY <1>1, <1>2, LinkStep DEF sessionVars, mailVars

\* Steps keep the rest of the types.
LEMMA TypeStep ==
    ASSUME SessionTypeOK, InOrder, [SessionNext]_sessionVars
    PROVE  SessionTypeOK'
<1>1. /\ arrived' \in [Sids -> Nat] /\ \A s \in Sids : arrived'[s] <= MsgsOf[s]
      /\ queue' \in [Sids -> Queues(Numbers)]
      /\ emitted' \in [Sids -> Seq(Numbers)]
  BY OrderStep
<1>2. CASE UNCHANGED sessionVars
  BY <1>2 DEF sessionVars, linkVars, mailVars, SessionTypeOK
<1>3. ASSUME NEW s \in Sids, Receive(s)
      PROVE  SessionTypeOK'
  <2>1. arrived'[s] \in Numbers
    <3>1. arrived[s] \in Nat /\ arrived[s] < MsgsOf[s] /\ arrived'[s] = arrived[s] + 1
      BY <1>3 DEF SessionTypeOK, Receive, Message
    <3>. QED  BY <3>1, SessionAssumption DEF Numbers
  <2>2. recent' \in [Sids -> BOOLEAN] /\ UNCHANGED <<phase, socket, connectNum, running, nreply, answers>>
    BY <1>3 DEF SessionTypeOK, Receive
  <2>3. lost' \in [Sids -> SUBSET Numbers]
    <3>1. CASE UNCHANGED lost
      BY <3>1 DEF SessionTypeOK
    <3>2. CASE lost' = [lost EXCEPT ![s] = @ \cup {arrived'[s]}]
      BY <2>1, <3>2 DEF SessionTypeOK
    <3>. QED  BY <1>3, <3>1, <3>2 DEF Receive
  <2>. QED  BY <1>1, <2>2, <2>3 DEF SessionTypeOK
<1>4. ASSUME NEW s \in Sids, NEW n \in Numbers, Reply(s, n)
      PROVE  SessionTypeOK'
  <2>1. nreply' \in [Sids -> [Numbers -> Nat]]
    <3> DEFINE inner == [nreply[s] EXCEPT ![n] = @ + 1]
    <3>1. inner \in [Numbers -> Nat] /\ nreply' = [nreply EXCEPT ![s] = inner]
      BY <1>4 DEF SessionTypeOK, Reply
    <3> HIDE DEF inner
    <3>. QED  BY <3>1 DEF SessionTypeOK
  <2>2. answers' \in [Sids -> Seq(Numbers)]
    <3>1. CASE phase[s] = "open"
      <4>1. answers' = [answers EXCEPT ![s] = Append(answers[s], n)]
        BY <1>4, <3>1 DEF Reply
      <4>2. Append(answers[s], n) \in Seq(Numbers)
        BY DEF SessionTypeOK
      <4>. QED  BY <4>1, <4>2 DEF SessionTypeOK
    <3>2. CASE phase[s] # "open"
      BY <1>4, <3>2 DEF SessionTypeOK, Reply
    <3>. QED  BY <3>1, <3>2
  <2>3. UNCHANGED <<phase, socket, recent, connectNum, running, lost>>
    BY <1>4 DEF Reply, linkVars
  <2>. QED  BY <1>1, <2>1, <2>2, <2>3 DEF SessionTypeOK
<1>5. ASSUME NEW ss, Destroy(ss)
      PROVE  connectNum' \in Int /\ phase' \in [Sids ->
                {"new", "asking", "open", "refused", "orphan", "gone"}]
  <2>1. IsFiniteSet(ss \cap Open)
    BY SessionAssumption, FS_Subset DEF Open
  <2>2. Cardinality(ss \cap Open) \in Nat
    BY <2>1, FS_CardinalityType
  <2>. QED  BY <1>5, <2>2 DEF Destroy, SessionTypeOK
<1>6. ASSUME NEW s \in Sids, CloseEvent(s) \/ Kick(s)
      PROVE  SessionTypeOK'
  BY <1>1, <1>5, <1>6 DEF SessionTypeOK, CloseEvent, Kick, mailVars
<1>7. ASSUME CheckHealth \/ Stop
      PROVE  SessionTypeOK'
  BY <1>1, <1>5, <1>7 DEF SessionTypeOK, CheckHealth, Stop, mailVars
<1>8. ASSUME NEW s \in Sids, Connect(s) \/ SIdFails(s) \/ CreateSession(s) \/ FallSilent(s)
      PROVE  SessionTypeOK'
  <2>1. CASE Connect(s)
    BY <2>1 DEF SessionTypeOK, Connect, mailVars
  <2>2. CASE SIdFails(s)
    BY <2>2 DEF SessionTypeOK, SIdFails, mailVars
  <2>3. CASE CreateSession(s)
    <3>1. connectNum' \in Int
      BY <2>3 DEF SessionTypeOK, CreateSession
    <3>2. recent' \in [Sids -> BOOLEAN]
      BY <2>3 DEF SessionTypeOK, CreateSession
    <3>3. phase' \in [Sids -> {"new", "asking", "open", "refused", "orphan", "gone"}]
      BY <2>3 DEF SessionTypeOK, CreateSession
    <3>. QED  BY <2>3, <3>1, <3>2, <3>3 DEF SessionTypeOK, CreateSession, mailVars
  <2>4. CASE FallSilent(s)
    BY <2>4 DEF SessionTypeOK, FallSilent, mailVars
  <2>. QED  BY <1>8, <2>1, <2>2, <2>3, <2>4
<1>. QED  BY <1>2, <1>3, <1>4, <1>6, <1>7, <1>8 DEF SessionNext

\* Every way out of the table and into it is counted.
LEMMA CountStep ==
    ASSUME SessionTypeOK, ConnectCount, [SessionNext]_sessionVars
    PROVE  ConnectCount'
<1>1. IsFiniteSet(Open) /\ maxConnections \in Nat
  BY SessionAssumption, FS_Subset DEF Open
<1>2. ASSUME NEW ss, Destroy(ss)
      PROVE  ConnectCount'
  <2>1. Open' = Open \ ss
    BY <1>2 DEF Destroy, Open, SessionTypeOK
  <2>2. Cardinality(Open \ ss) = Cardinality(Open) - Cardinality(Open \cap ss)
    BY <1>1, FS_Difference
  <2>3. IsFiniteSet(ss \cap Open) /\ ss \cap Open = Open \cap ss
    BY <1>1, FS_Subset
  <2>4. Cardinality(ss \cap Open) \in Nat /\ Cardinality(Open) \in Nat
    BY <1>1, <2>3, FS_CardinalityType
  <2>5. connectNum' = connectNum - Cardinality(ss \cap Open)
    BY <1>2 DEF Destroy
  <2>. QED  BY <1>1, <2>1, <2>2, <2>3, <2>4, <2>5 DEF ConnectCount
<1>3. ASSUME NEW s \in Sids, CreateSession(s)
      PROVE  ConnectCount'
  <2>1. CASE phase' = [phase EXCEPT ![s] = "refused"] /\ UNCHANGED connectNum
    <3>1. Open' = Open
      BY <1>3, <2>1 DEF Open, SessionTypeOK, CreateSession
    <3>. QED  BY <2>1, <3>1 DEF ConnectCount
  <2>2. CASE /\ phase' = [phase EXCEPT ![s] = "open"]
             /\ connectNum < maxConnections /\ connectNum' = connectNum + 1
    <3>1. Open' = Open \cup {s} /\ s \notin Open
      BY <1>3, <2>2 DEF Open, SessionTypeOK, CreateSession
    <3>2. Cardinality(Open \cup {s}) = Cardinality(Open) + 1
      BY <1>1, <3>1, FS_AddElement
    <3>. QED  BY <1>1, <2>2, <3>1, <3>2 DEF ConnectCount, SessionTypeOK
  <2>. QED  BY <1>3, <2>1, <2>2 DEF CreateSession
<1>4. ASSUME NEW s \in Sids, Connect(s) \/ SIdFails(s)
      PROVE  ConnectCount'
  <2>1. Open' = Open /\ UNCHANGED connectNum
    BY <1>4 DEF Connect, SIdFails, Open, SessionTypeOK
  <2>. QED  BY <2>1 DEF ConnectCount
<1>5. ASSUME UNCHANGED <<phase, connectNum>>
      PROVE  ConnectCount'
  BY <1>5 DEF ConnectCount, Open
<1>6. ASSUME NEW s \in Sids,
             Receive(s) \/ FallSilent(s) \/ \E n \in Numbers : Reply(s, n)
      PROVE  ConnectCount'
  BY <1>5, <1>6 DEF Receive, Reply, FallSilent, linkVars
<1>7. ASSUME NEW s \in Sids, CloseEvent(s) \/ Kick(s)
      PROVE  ConnectCount'
  BY <1>2, <1>7 DEF CloseEvent, Kick
<1>8. ASSUME CheckHealth \/ Stop
      PROVE  ConnectCount'
  BY <1>2, <1>8 DEF CheckHealth, Stop
<1>. QED  BY <1>3, <1>4, <1>5, <1>6, <1>7, <1>8 DEF SessionNext, sessionVars, linkVars

-----------------------------------------------------------------------------
(* the theorems *)

SessionInv == SessionTypeOK /\ InOrder /\ ConnectCount

LEMMA SessionStart == SessionInit => SessionInv
<1> SUFFICES ASSUME SessionInit PROVE SessionInv
  OBVIOUS
<1>1. EmptyQueue \in Queues(Numbers) /\ GetLength(EmptyQueue) = 0
  BY DEF EmptyQueue, Queues, GetLength
<1>2. SessionTypeOK
  BY <1>1, SessionAssumption DEF SessionInit, SessionTypeOK
<1>3. InOrder
  <2> SUFFICES ASSUME NEW s \in Sids PROVE Ordered(0, EmptyQueue, <<>>)
    BY DEF InOrder, SessionInit
  <2>. QED  BY <1>1 DEF Ordered
<1>4. ConnectCount
  <2>1. Open = {}
    BY DEF SessionInit, Open
  <2>. QED  BY <2>1, FS_EmptySet, SessionAssumption DEF SessionInit, ConnectCount
<1>. QED  BY <1>2, <1>3, <1>4 DEF SessionInv

LEMMA SessionInvariant == SessionSpec => []SessionInv
<1>1. SessionInit => SessionInv
  BY SessionStart
<1>2. SessionInv /\ [SessionNext]_sessionVars => SessionInv'
  BY TypeStep, OrderStep, CountStep DEF SessionInv
<1>. QED  BY <1>1, <1>2, PTL DEF SessionSpec

\* The session table keeps its types (session.js, queue.js).
THEOREM SessionTypes == SessionSpec => []SessionTypeOK
<1>1. SessionInv => SessionTypeOK
  BY DEF SessionInv
<1>. QED  BY <1>1, SessionInvariant, PTL

\* connectNum counts the sessions and respects the limit (session.js:140-153).
THEOREM SessionsCounted == SessionSpec => []ConnectCount
<1>1. SessionInv => ConnectCount
  BY DEF SessionInv
<1>. QED  BY <1>1, SessionInvariant, PTL

\* Messages reach the game once and in order (session.js:108-114, 178-192).
THEOREM MessagesInOrder == SessionSpec => []InOrder
<1>1. SessionInv => InOrder
  BY DEF SessionInv
<1>. QED  BY <1>1, SessionInvariant, PTL

-----------------------------------------------------------------------------
(* refinement *)

\* busy, as the instance Mail reads it.
Busy == {s \in Sids : GetLength(queue[s]) > 0}

LEMMA MailStart == SessionInit => Mail!Init
BY DEF SessionInit, Mail!Init, EmptyQueue, GetLength

LEMMA ReceiveArrives ==
    ASSUME SessionTypeOK, InOrder, NEW s \in Sids, Receive(s)
    PROVE  Mail!Arrive(s)
<1> DEFINE q == queue[s]
           p == Push(q, arrived[s] + 1)
<1>1. /\ q \in Queues(Numbers) /\ Ordered(arrived[s], q, emitted[s])
      /\ arrived[s] \in Nat /\ emitted[s] \in Seq(Numbers)
  BY DEF SessionTypeOK, InOrder
<1>2. arrived[s] + 1 \in Numbers /\ arrived' = [arrived EXCEPT ![s] = @ + 1]
  <2>1. arrived[s] < MsgsOf[s] /\ arrived' = [arrived EXCEPT ![s] = @ + 1]
    BY DEF Receive, Message
  <2>. QED  BY <1>1, <2>1, SessionAssumption DEF Numbers
<1>3. /\ GetLength(p) = GetLength(q) + 1 /\ GetLength(q) \in Nat
      /\ Item(p, GetLength(q) + 1) = arrived[s] + 1 /\ p \in Queues(Numbers)
  BY <1>1, <1>2, PushIsLast, ShiftTakesFirst
<1>4. queue' = [queue EXCEPT ![s] = p]
  BY <1>2 DEF Receive, Message, SessionTypeOK
<1>5. Busy' = Busy \cup {s}
  <2>1. queue'[s] = p /\ \A t \in Sids \ {s} : queue'[t] = queue[t]
    BY <1>4 DEF SessionTypeOK
  <2>2. GetLength(queue'[s]) > 0
    BY <1>3, <2>1
  <2>3. \A t \in Sids : GetLength(queue'[t]) > 0 <=> IF t = s THEN TRUE ELSE GetLength(queue[t]) > 0
    BY <2>1, <2>2
  <2>. QED  BY <2>3 DEF Busy
<1>6. emitted' = IF s \in Busy THEN emitted ELSE [emitted EXCEPT ![s] = Append(@, Len(@) + 1)]
  <2>1. queue'[s] = p
    BY <1>4 DEF SessionTypeOK
  <2>2. CASE GetLength(q) = 0
    <3>1. First(p) = arrived[s] + 1 /\ GetLength(p) = 1
      BY <1>3, <2>2, FirstIsFirst
    <3>2. Len(emitted[s]) = arrived[s]
      BY <1>1, <2>2 DEF Ordered
    <3>3. emitted' = [emitted EXCEPT ![s] = Append(@, Len(@) + 1)]
      BY <2>1, <3>1, <3>2 DEF Receive, Message, EmitFirst
    <3>. QED  BY <2>2, <3>3 DEF Busy
  <2>3. CASE GetLength(q) # 0
    <3>1. emitted' = emitted /\ GetLength(q) > 0
      BY <1>3, <2>1, <2>3 DEF Receive, Message
    <3>. QED  BY <3>1 DEF Busy
  <2>. QED  BY <2>2, <2>3
<1>. QED  BY <1>2, <1>5, <1>6 DEF Mail!Arrive, Mail!NextOf, Busy

LEMMA ReplyIsDone ==
    ASSUME SessionTypeOK, InOrder, NEW s \in Sids, NEW n \in Numbers, Reply(s, n)
    PROVE  IF phase[s] = "open" /\ s \in Busy THEN Mail!Done(s) ELSE UNCHANGED Mail!vars
<1> DEFINE q == queue[s]
           p == Shift(q)
<1>1. /\ q \in Queues(Numbers) /\ Ordered(arrived[s], q, emitted[s])
      /\ arrived[s] \in Nat /\ emitted[s] \in Seq(Numbers)
  BY DEF SessionTypeOK, InOrder
<1>2. arrived' = arrived
  BY DEF Reply
<1>3. /\ p \in Queues(Numbers) /\ GetLength(q) \in Nat
      /\ GetLength(p) = IF GetLength(q) = 0 THEN 0 ELSE GetLength(q) - 1
      /\ \A i \in 1..GetLength(q) - 1 : Item(p, i) = Item(q, i + 1)
  BY <1>1, ShiftTakesFirst
<1>4. CASE phase[s] # "open"
  BY <1>2, <1>4 DEF Reply, Mail!vars
<1>5. CASE phase[s] = "open"
  <2>1. /\ queue' = [queue EXCEPT ![s] = p]
        /\ queue'[s] = p /\ \A t \in Sids \ {s} : queue'[t] = queue[t]
    BY <1>5 DEF Reply, Advance, SessionTypeOK
  <2>2. emitted' = IF GetLength(p) > 0 THEN [emitted EXCEPT ![s] = Append(@, First(p))] ELSE emitted
    BY <1>5, <2>1 DEF Reply, Advance, EmitFirst
  <2>3. Busy' = IF GetLength(p) > 0 THEN Busy \cup {s} ELSE Busy \ {s}
    <3>1. \A t \in Sids : GetLength(queue'[t]) > 0 <=> IF t = s THEN GetLength(p) > 0 ELSE GetLength(queue[t]) > 0
      BY <2>1
    <3>. QED  BY <3>1 DEF Busy
  <2>4. CASE GetLength(q) = 0
    <3>1. ~(GetLength(p) > 0) /\ ~(GetLength(q) > 0)
      BY <1>3, <2>4
    <3>2. Busy' = Busy
      BY <2>3, <3>1 DEF Busy
    <3>. QED  BY <1>2, <2>2, <3>1, <3>2 DEF Busy, Mail!vars
  <2>5. CASE GetLength(q) = 1
    <3>1. ~(GetLength(p) > 0) /\ GetLength(q) > 0 /\ emitted' = emitted
      BY <1>3, <2>2, <2>5
    <3>2. Len(emitted[s]) = arrived[s]
      BY <1>1, <2>5 DEF Ordered
    <3>3. Busy' = Busy \ {s} /\ s \in Busy
      BY <2>3, <3>1 DEF Busy
    <3>4. ~(Len(emitted[s]) < arrived[s])
      BY <1>1, <3>2
    <3>. QED  BY <1>2, <1>5, <3>1, <3>3, <3>4 DEF Busy, Mail!Done
  <2>6. CASE GetLength(q) > 1
    <3>1. GetLength(p) > 0 /\ GetLength(q) > 0 /\ First(p) = Item(q, 2)
      BY <1>3, <2>6, FirstIsFirst
    <3>2. /\ Len(emitted[s]) = arrived[s] - (GetLength(q) - 1)
          /\ Item(q, 2) = arrived[s] - GetLength(q) + 2
      BY <1>1, <1>3, <2>6 DEF Ordered
    <3>3. First(p) = Len(emitted[s]) + 1 /\ Len(emitted[s]) < arrived[s]
      BY <1>1, <1>3, <2>6, <3>1, <3>2
    <3>4. emitted' = [emitted EXCEPT ![s] = Append(@, Len(@) + 1)]
      BY <2>2, <3>1, <3>3
    <3>5. Busy' = Busy /\ s \in Busy
      <4>1. \A t \in Sids : GetLength(queue'[t]) > 0 <=> GetLength(queue[t]) > 0
        BY <2>1, <3>1
      <4>. QED  BY <3>1, <4>1 DEF Busy
    <3>. QED  BY <1>2, <1>5, <3>3, <3>4, <3>5 DEF Busy, Mail!Done, Mail!NextOf
  <2>. QED  BY <1>3, <2>4, <2>5, <2>6
<1>. QED  BY <1>4, <1>5

\* The queues of session.js are an implementation of Mailbox.
THEOREM SessionsImplementMailbox == SessionSpec => ImplementsMailbox
<1>1. SessionInit => Mail!Init
  BY MailStart
<1>2. SessionInv /\ [SessionNext]_sessionVars => [Mail!Next]_(Mail!vars)
  <2> SUFFICES ASSUME SessionInv, [SessionNext]_sessionVars
               PROVE  Mail!Next \/ UNCHANGED Mail!vars
    OBVIOUS
  <2>1. CASE UNCHANGED mailVars
    BY <2>1 DEF mailVars, Mail!vars
  <2>2. CASE MailStep
    BY <2>2, ReceiveArrives, ReplyIsDone DEF SessionInv, MailStep, Mail!Next
  <2>. QED  BY <2>1, <2>2, LinkStep DEF sessionVars
<1>. QED  BY <1>1, <1>2, SessionInvariant, PTL DEF SessionSpec, ImplementsMailbox, Mail!Spec

-----------------------------------------------------------------------------
(* answers *)

InHand(s) == {n \in Numbers : n <= Len(emitted[s]) /\ nreply[s][n] = 0}

\* A session whose queue is empty has one message in hand less.
HandInv ==
    \A s \in Sids :
       Cardinality(InHand(s)) <= (IF s \in Busy THEN 1 ELSE 0) + Cardinality(Superfluous(s))

\* While nothing was answered twice, the answers are those to the messages that left
\* the queue.
AnswerOK(s) ==
    /\ phase[s] \in {"new", "asking"} => emitted[s] = <<>> /\ s \notin Busy
    /\ Superfluous(s) = {} =>
          /\ \A i \in 1..Len(answers[s]) : answers[s][i] = i
          /\ phase[s] \in {"new", "asking", "open"} =>
                /\ s \in Busy => Len(emitted[s]) = Len(answers[s]) + 1
                /\ s \notin Busy => Len(emitted[s]) = Len(answers[s])
                /\ \A n \in Numbers : nreply[s][n] > 0 <=> n <= Len(answers[s])
AnswerInv == \A s \in Sids : AnswerOK(s)

RepliesBounded == \A s \in Sids, n \in Numbers : nreply[s][n] <= MaxReplies

LEMMA Counted ==
    ASSUME NEW s \in Sids
    PROVE  /\ IsFiniteSet(InHand(s)) /\ Cardinality(InHand(s)) \in Nat
           /\ IsFiniteSet(Superfluous(s)) /\ Cardinality(Superfluous(s)) \in Nat
           /\ Cardinality(InHand(s)') \in Nat /\ Cardinality(Superfluous(s)') \in Nat
<1>1. IsFiniteSet(Numbers) /\ IsFiniteSet(2..MaxReplies)
  <2>1. MaxMsgs \in Int /\ MaxReplies \in Int /\ 1 \in Int /\ 2 \in Int
    BY SessionAssumption
  <2>2. IsFiniteSet(1..MaxMsgs)
    BY <2>1, FS_Interval
  <2>3. IsFiniteSet(2..MaxReplies)
    BY <2>1, FS_Interval
  <2> QED BY <2>2, <2>3 DEF Numbers
<1>2. IsFiniteSet(Numbers \X (2..MaxReplies))
  BY <1>1, FS_Product
<1>3. /\ InHand(s) \subseteq Numbers /\ Superfluous(s) \subseteq Numbers \X (2..MaxReplies)
      /\ InHand(s)' \subseteq Numbers /\ Superfluous(s)' \subseteq Numbers \X (2..MaxReplies)
  BY DEF InHand, Superfluous
<1>4. /\ IsFiniteSet(InHand(s)) /\ IsFiniteSet(Superfluous(s))
      /\ IsFiniteSet(InHand(s)') /\ IsFiniteSet(Superfluous(s)')
  BY <1>1, <1>2, <1>3, FS_Subset
<1> QED BY <1>4, FS_CardinalityType

\* What the arrival of a message does to one session.
LEMMA ReceiveHands ==
    ASSUME SessionTypeOK, InOrder, NEW s \in Sids, Receive(s)
    PROVE  /\ Busy' = Busy \cup {s}
           /\ \A t \in Sids \ {s} : emitted'[t] = emitted[t]
           /\ emitted'[s] = IF s \in Busy THEN emitted[s] ELSE Append(emitted[s], Len(emitted[s]) + 1)
           /\ phase[s] \in {"open", "gone"} /\ UNCHANGED <<phase, nreply, answers>>
<1>1. Mail!Arrive(s)
  BY ReceiveArrives
<1>2. Busy' = Busy \cup {s} /\ emitted' = IF s \in Busy THEN emitted
                                        ELSE [emitted EXCEPT ![s] = Append(emitted[s], Len(emitted[s]) + 1)]
  BY <1>1 DEF Mail!Arrive, Mail!NextOf, Busy
<1>3. emitted \in [Sids -> Seq(Numbers)]
  BY DEF SessionTypeOK
<1> QED BY <1>2, <1>3 DEF Receive

\* What a reply does to one session: its message is counted as answered, and it lets
\* the next message through, or empties the queue, or does nothing to either.
LEMMA ReplyHands ==
    ASSUME SessionTypeOK, InOrder, NEW s \in Sids, NEW n \in Numbers, Reply(s, n)
    PROVE  /\ \A t \in Sids \ {s} : emitted'[t] = emitted[t] /\ (t \in Busy' <=> t \in Busy)
           /\ \/ emitted'[s] = Append(emitted[s], Len(emitted[s]) + 1) /\ s \in Busy /\ s \in Busy'
              \/ emitted'[s] = emitted[s] /\ s \in Busy /\ s \notin Busy'
              \/ emitted'[s] = emitted[s] /\ (s \in Busy' <=> s \in Busy) /\ ~ (phase[s] = "open" /\ s \in Busy)
           /\ n \in 1..Len(emitted[s]) /\ nreply[s][n] < MaxReplies
           /\ nreply' = [nreply EXCEPT ![s][n] = @ + 1] /\ UNCHANGED phase
           /\ answers' = IF phase[s] = "open" THEN [answers EXCEPT ![s] = Append(@, n)] ELSE answers
<1>0. emitted \in [Sids -> Seq(Numbers)]
  BY DEF SessionTypeOK
<1>1. IF phase[s] = "open" /\ s \in Busy THEN Mail!Done(s) ELSE UNCHANGED Mail!vars
  BY ReplyIsDone
<1>2. CASE phase[s] = "open" /\ s \in Busy
  <2>1. \/ emitted' = [emitted EXCEPT ![s] = Append(emitted[s], Len(emitted[s]) + 1)] /\ Busy' = Busy
        \/ emitted' = emitted /\ Busy' = Busy \ {s}
    BY <1>1, <1>2 DEF Mail!Done, Mail!NextOf, Busy
  <2>2. n \in 1..Len(emitted[s])
    BY DEF Reply, InOrder, Ordered
  <2> QED BY <1>0, <1>2, <2>1, <2>2 DEF Reply, linkVars
<1>3. CASE ~ (phase[s] = "open" /\ s \in Busy)
  <2>1. emitted' = emitted /\ Busy' = Busy
    BY <1>1, <1>3 DEF Mail!vars, Busy
  <2>2. n \in 1..Len(emitted[s])
    BY DEF Reply, InOrder, Ordered
  <2> QED BY <1>3, <2>1, <2>2 DEF Reply, linkVars
<1> QED BY <1>2, <1>3

LEMMA OneMore ==
    ASSUME NEW S, NEW x, IsFiniteSet(S), NEW T, T \subseteq S \cup {x}
    PROVE  Cardinality(T) \in Nat /\ Cardinality(T) <= Cardinality(S) + 1
<1>1. IsFiniteSet(S \cup {x}) /\ Cardinality(S \cup {x}) = IF x \in S THEN Cardinality(S) ELSE Cardinality(S) + 1
  BY FS_AddElement
<1>2. IsFiniteSet(T) /\ Cardinality(T) <= Cardinality(S \cup {x})
  BY <1>1, FS_Subset
<1>3. Cardinality(S) \in Nat /\ Cardinality(T) \in Nat
  BY <1>2, FS_CardinalityType
<1> QED BY <1>1, <1>2, <1>3

\* A message that is handed over adds one to those in hand at most.
LEMMA HandedOver ==
    ASSUME NEW s \in Sids, nreply' = nreply, SessionTypeOK,
           emitted'[s] = Append(emitted[s], Len(emitted[s]) + 1)
    PROVE  /\ Cardinality(InHand(s)') \in Nat
           /\ Cardinality(InHand(s)') <= Cardinality(InHand(s)) + 1 /\ Superfluous(s)' = Superfluous(s)
<1> DEFINE e == Len(emitted[s]) + 1
<1>1. Len(emitted'[s]) = e /\ Len(emitted[s]) \in Nat
  BY DEF SessionTypeOK
<1>2. InHand(s)' \subseteq InHand(s) \cup {e}
  BY <1>1 DEF InHand, Numbers
<1> HIDE DEF e
<1>3. Superfluous(s)' = Superfluous(s)
  BY DEF Superfluous
<1> QED BY <1>2, <1>3, Counted, OneMore

\* A reply takes its message out of hand, or is one too many; it may hand over another.
LEMMA RepliedTo ==
    ASSUME SessionTypeOK, NEW s \in Sids, NEW n \in Numbers, n \in 1..Len(emitted[s]),
           nreply[s][n] < MaxReplies, nreply' = [nreply EXCEPT ![s][n] = @ + 1],
           emitted'[s] = emitted[s] \/ emitted'[s] = Append(emitted[s], Len(emitted[s]) + 1)
    PROVE  Cardinality(InHand(s)') - Cardinality(Superfluous(s)') <=
              Cardinality(InHand(s)) - Cardinality(Superfluous(s)) - 1
                 + (IF emitted'[s] = emitted[s] THEN 0 ELSE 1)
<1> DEFINE e == Len(emitted[s]) + 1
           left == IF nreply[s][n] = 0 THEN InHand(s) \ {n} ELSE InHand(s)
<1>0. /\ nreply \in [Sids -> [Numbers -> Nat]] /\ Len(emitted[s]) \in Nat /\ MaxReplies \in Nat
      /\ emitted'[s] # emitted[s] => Len(emitted'[s]) = e
  BY SessionAssumption DEF SessionTypeOK
<1>1. /\ nreply'[s][n] = nreply[s][n] + 1
      /\ \A m \in Numbers : m # n => nreply'[s][m] = nreply[s][m]
  BY <1>0
<1>2. IsFiniteSet(left) /\ Cardinality(left) \in Nat
      /\ Cardinality(left) = IF nreply[s][n] = 0 THEN Cardinality(InHand(s)) - 1 ELSE Cardinality(InHand(s))
  <2>1. nreply[s][n] = 0 => n \in InHand(s)
    BY <1>0 DEF InHand
  <2>2. /\ IsFiniteSet(InHand(s) \ {n})
        /\ Cardinality(InHand(s) \ {n}) = IF n \in InHand(s) THEN Cardinality(InHand(s)) - 1
                                          ELSE Cardinality(InHand(s))
    BY Counted, FS_RemoveElement
  <2>3. Cardinality(InHand(s) \ {n}) \in Nat
    BY <2>2, FS_CardinalityType
  <2> QED BY <2>1, <2>2, <2>3, Counted
<1>3. /\ Cardinality(Superfluous(s)') \in Nat
      /\ Cardinality(Superfluous(s)') = Cardinality(Superfluous(s)) + (IF nreply[s][n] = 0 THEN 0 ELSE 1)
  <2>1. CASE nreply[s][n] = 0
    <3>1. Superfluous(s)' = Superfluous(s)
      BY <1>0, <1>1, <2>1 DEF Superfluous
    <3> QED BY <2>1, <3>1, Counted
  <2>2. CASE nreply[s][n] # 0
    <3>1. <<n, nreply[s][n] + 1>> \in Numbers \X (2..MaxReplies)
      BY <1>0, <2>2
    <3>2. /\ Superfluous(s)' = Superfluous(s) \cup {<<n, nreply[s][n] + 1>>}
          /\ <<n, nreply[s][n] + 1>> \notin Superfluous(s)
      <4>1. \A r \in Numbers \X (2..MaxReplies) :
               r[2] <= nreply'[s][r[1]] <=> (r[2] <= nreply[s][r[1]] \/ r = <<n, nreply[s][n] + 1>>)
        <5> SUFFICES ASSUME NEW m \in Numbers, NEW k \in 2..MaxReplies
                     PROVE  k <= nreply'[s][m] <=> (k <= nreply[s][m] \/ <<m, k>> = <<n, nreply[s][n] + 1>>)
          OBVIOUS
        <5>1. CASE m = n
          BY <1>0, <1>1, <5>1
        <5>2. CASE m # n
          BY <1>0, <1>1, <5>2
        <5> QED BY <5>1, <5>2
      <4> QED BY <1>0, <3>1, <4>1 DEF Superfluous
    <3>3. /\ IsFiniteSet(Superfluous(s) \cup {<<n, nreply[s][n] + 1>>})
          /\ Cardinality(Superfluous(s) \cup {<<n, nreply[s][n] + 1>>}) = Cardinality(Superfluous(s)) + 1
      BY <3>2, Counted, FS_AddElement
    <3> QED BY <2>2, <3>2, <3>3, Counted
  <2> QED BY <2>1, <2>2
<1>4. CASE emitted'[s] = emitted[s]
  <2>1. InHand(s)' \subseteq left
    BY <1>0, <1>1, <1>4 DEF InHand
  <2> HIDE DEF left
  <2>2. Cardinality(InHand(s)') <= Cardinality(left) /\ Cardinality(InHand(s)') \in Nat
    BY <2>1, <1>2, FS_Subset, FS_CardinalityType
  <2> QED BY <1>2, <1>3, <1>4, <2>2, Counted
<1>5. CASE emitted'[s] # emitted[s]
  <2>1. InHand(s)' \subseteq left \cup {e}
    BY <1>0, <1>1, <1>5 DEF InHand, Numbers
  <2> HIDE DEF left, e
  <2>2. Cardinality(InHand(s)') <= Cardinality(left) + 1 /\ Cardinality(InHand(s)') \in Nat
    BY <2>1, <1>2, OneMore
  <2> QED BY <1>2, <1>3, <1>5, <2>2, Counted
<1> QED BY <1>4, <1>5

LEMMA HandStep ==
    ASSUME SessionInv, HandInv, [SessionNext]_sessionVars
    PROVE  HandInv'
<1>0. SessionTypeOK /\ InOrder
  BY DEF SessionInv
<1>1. ASSUME NEW t \in Sids, emitted'[t] = emitted[t], nreply'[t] = nreply[t], t \in Busy => t \in Busy'
      PROVE  Cardinality(InHand(t)') <= (IF t \in Busy' THEN 1 ELSE 0) + Cardinality(Superfluous(t)')
  <2>1. InHand(t)' = InHand(t) /\ Superfluous(t)' = Superfluous(t)
    BY <1>1 DEF InHand, Superfluous
  <2> QED BY <1>1, <2>1, Counted DEF HandInv
<1>2. CASE UNCHANGED mailVars
  BY <1>1, <1>2 DEF mailVars, HandInv, Busy
<1>3. ASSUME NEW s \in Sids, Receive(s) PROVE HandInv'
  <2>1. /\ Busy' = Busy \cup {s} /\ nreply' = nreply
        /\ \A t \in Sids \ {s} : emitted'[t] = emitted[t]
        /\ emitted'[s] = IF s \in Busy THEN emitted[s] ELSE Append(emitted[s], Len(emitted[s]) + 1)
    BY <1>0, <1>3, ReceiveHands
  <2>2. CASE s \in Busy
    BY <1>1, <2>1, <2>2 DEF HandInv
  <2>3. CASE s \notin Busy
    <3>1. Cardinality(InHand(s)') <= Cardinality(InHand(s)) + 1 /\ Cardinality(InHand(s)') \in Nat
          /\ Superfluous(s)' = Superfluous(s)
      BY <1>0, <2>1, <2>3, HandedOver
    <3>2. Cardinality(InHand(s)) <= Cardinality(Superfluous(s))
      BY <2>3, Counted DEF HandInv
    <3>3. Cardinality(InHand(s)') <= 1 + Cardinality(Superfluous(s)')
      BY <3>1, <3>2, Counted
    <3> QED BY <1>1, <2>1, <3>3 DEF HandInv
  <2> QED BY <2>2, <2>3
<1>4. ASSUME NEW s \in Sids, NEW n \in Numbers, Reply(s, n) PROVE HandInv'
  <2>1. /\ \A t \in Sids \ {s} : emitted'[t] = emitted[t] /\ (t \in Busy' <=> t \in Busy)
        /\ \/ emitted'[s] = Append(emitted[s], Len(emitted[s]) + 1) /\ s \in Busy /\ s \in Busy'
           \/ emitted'[s] = emitted[s] /\ s \in Busy /\ s \notin Busy'
           \/ emitted'[s] = emitted[s] /\ (s \in Busy' <=> s \in Busy)
        /\ n \in 1..Len(emitted[s]) /\ nreply[s][n] < MaxReplies
        /\ nreply' = [nreply EXCEPT ![s][n] = @ + 1]
    BY <1>0, <1>4, ReplyHands
  <2>2. Cardinality(InHand(s)') - Cardinality(Superfluous(s)') <=
              Cardinality(InHand(s)) - Cardinality(Superfluous(s)) - 1
                 + (IF emitted'[s] = emitted[s] THEN 0 ELSE 1)
    BY <1>0, <2>1, RepliedTo
  <2>3. Cardinality(InHand(s)) <= (IF s \in Busy THEN 1 ELSE 0) + Cardinality(Superfluous(s))
    BY DEF HandInv
  <2>4. /\ Cardinality(InHand(s)) \in Nat /\ Cardinality(Superfluous(s)) \in Nat
        /\ Cardinality(InHand(s)') \in Nat /\ Cardinality(Superfluous(s)') \in Nat
    BY Counted
  <2>5. Cardinality(InHand(s)') <= (IF s \in Busy' THEN 1 ELSE 0) + Cardinality(Superfluous(s)')
    BY <2>1, <2>2, <2>3, <2>4
  <2>6. \A t \in Sids \ {s} : nreply'[t] = nreply[t]
    BY <1>0, <2>1 DEF SessionTypeOK
  <2> QED BY <1>1, <2>1, <2>5, <2>6 DEF HandInv
<1> QED BY <1>2, <1>3, <1>4, LinkStep DEF sessionVars, MailStep

\* A session never becomes younger.
LEMMA PhaseMoves ==
    ASSUME SessionTypeOK, [SessionNext]_sessionVars, NEW t \in Sids
    PROVE  /\ phase'[t] \in {"new", "asking"} => phase[t] \in {"new", "asking"}
           /\ phase'[t] \in {"new", "asking", "open"} => phase[t] \in {"new", "asking", "open"}
<1>0. phase \in [Sids -> {"new", "asking", "open", "refused", "orphan", "gone"}]
  BY DEF SessionTypeOK
<1>1. ASSUME NEW ss, Destroy(ss)
      PROVE  phase'[t] = phase[t] \/ (phase[t] = "open" /\ phase'[t] = "gone")
  BY <1>0, <1>1 DEF Destroy, Open
<1>2. CASE UNCHANGED phase
  BY <1>2
<1>3. ASSUME NEW s \in Sids, Connect(s) \/ SIdFails(s) \/ CreateSession(s)
      PROVE  /\ phase[s] \in {"new", "asking"}
             /\ phase' = [phase EXCEPT ![s] = phase'[s]]
  BY <1>0, <1>3 DEF Connect, SIdFails, CreateSession
<1>4. ASSUME NEW s \in Sids, Receive(s) \/ FallSilent(s) \/ \E n \in Numbers : Reply(s, n)
      PROVE  UNCHANGED phase
  BY <1>4 DEF Receive, FallSilent, Reply, linkVars
<1>5. ASSUME NEW s \in Sids, CloseEvent(s) \/ Kick(s)
      PROVE  \E ss : Destroy(ss)
  BY <1>5 DEF CloseEvent, Kick
<1>6. ASSUME CheckHealth \/ Stop PROVE \E ss : Destroy(ss)
  BY <1>6 DEF CheckHealth, Stop
<1> QED BY <1>0, <1>1, <1>2, <1>3, <1>4, <1>5, <1>6 DEF SessionNext, sessionVars, linkVars

LEMMA NoneOver ==
    ASSUME NEW f \in [Numbers -> Nat], \A n \in Numbers : f[n] <= MaxReplies
    PROVE  {r \in Numbers \X (2..MaxReplies) : r[2] <= f[r[1]]} = {} <=> \A n \in Numbers : f[n] <= 1
<1> DEFINE over == {r \in Numbers \X (2..MaxReplies) : r[2] <= f[r[1]]}
<1>0. MaxReplies \in Nat
  BY SessionAssumption
<1>1. ASSUME NEW n \in Numbers, ~ (f[n] <= 1) PROVE over # {}
  <2>1. <<n, f[n]>> \in Numbers \X (2..MaxReplies)
    BY <1>0, <1>1
  <2>2. <<n, f[n]>> \in over
    BY <1>0, <2>1
  <2> QED BY <2>2
<1>2. ASSUME NEW r \in over PROVE \E n \in Numbers : ~ (f[n] <= 1)
  <2>1. r[1] \in Numbers /\ r[2] \in 2..MaxReplies /\ r[2] <= f[r[1]]
    OBVIOUS
  <2> QED BY <1>0, <2>1
<1> QED BY <1>1, <1>2

LEMMA BoundedStep ==
    ASSUME SessionTypeOK, RepliesBounded, [SessionNext]_sessionVars
    PROVE  RepliesBounded'
<1>1. ASSUME NEW s \in Sids, NEW n \in Numbers, Reply(s, n) PROVE RepliesBounded'
  BY <1>1, SessionAssumption DEF Reply, RepliesBounded, SessionTypeOK
<1>2. ASSUME NEW s \in Sids, Receive(s) PROVE RepliesBounded'
  BY <1>2 DEF Receive, RepliesBounded
<1>3. CASE UNCHANGED mailVars
  BY <1>3 DEF mailVars, RepliesBounded
<1> QED BY <1>1, <1>2, <1>3, LinkStep DEF sessionVars, MailStep

LEMMA AnswerStep ==
    ASSUME SessionInv, RepliesBounded, AnswerInv, [SessionNext]_sessionVars, SessionInv'
    PROVE  AnswerInv'
<1>0. SessionTypeOK /\ InOrder /\ RepliesBounded /\ RepliesBounded' /\ SessionTypeOK'
  BY BoundedStep DEF SessionInv
<1>a. \A t \in Sids : AnswerOK(t)
  BY DEF AnswerInv, AnswerOK
<1> SUFFICES \A t \in Sids : AnswerOK(t)'
  BY DEF AnswerInv, AnswerOK
<1>b. \A t \in Sids : /\ phase'[t] \in {"new", "asking"} => phase[t] \in {"new", "asking"}
                      /\ phase'[t] \in {"new", "asking", "open"} => phase[t] \in {"new", "asking", "open"}
  BY <1>0, PhaseMoves
<1>1. ASSUME NEW t \in Sids, emitted'[t] = emitted[t], nreply'[t] = nreply[t], answers'[t] = answers[t],
             t \in Busy <=> t \in Busy'
      PROVE  AnswerOK(t)'
  <2>1. Superfluous(t)' = Superfluous(t)
    BY <1>1 DEF Superfluous
  <2> QED BY <1>1, <1>a, <1>b, <2>1 DEF AnswerOK
<1>2. CASE UNCHANGED mailVars
  BY <1>1, <1>2 DEF mailVars, Busy
<1>3. ASSUME NEW s \in Sids, Receive(s) PROVE \A t \in Sids : AnswerOK(t)'
  <2>1. /\ Busy' = Busy \cup {s}
        /\ \A t \in Sids \ {s} : emitted'[t] = emitted[t]
        /\ emitted'[s] = IF s \in Busy THEN emitted[s] ELSE Append(emitted[s], Len(emitted[s]) + 1)
        /\ phase[s] \in {"open", "gone"} /\ UNCHANGED <<phase, nreply, answers>>
    BY <1>0, <1>3, ReceiveHands
  <2>2. AnswerOK(s)'
    <3>1. Superfluous(s)' = Superfluous(s)
      BY <2>1 DEF Superfluous
    <3>2. Len(emitted'[s]) = IF s \in Busy THEN Len(emitted[s]) ELSE Len(emitted[s]) + 1
      BY <1>0, <2>1 DEF SessionTypeOK
    <3>3. Len(emitted[s]) \in Nat /\ Len(answers[s]) \in Nat
      BY <1>0 DEF SessionTypeOK
    <3>4. phase'[s] \notin {"new", "asking"} /\ phase' = phase /\ s \in Busy' /\ nreply' = nreply /\ answers' = answers
      BY <2>1
    <3>5. Superfluous(s) = {} =>
            /\ \A i \in 1..Len(answers[s]) : answers[s][i] = i
            /\ phase[s] = "open" => Len(emitted'[s]) = Len(answers[s]) + 1
            /\ phase[s] = "open" => \A n \in Numbers : nreply[s][n] > 0 <=> n <= Len(answers[s])
      BY <1>a, <3>2, <3>3 DEF AnswerOK, Numbers
    <3> QED BY <3>1, <3>4, <3>5 DEF AnswerOK
  <2> QED BY <1>1, <2>1, <2>2
<1>4. ASSUME NEW s \in Sids, NEW n \in Numbers, Reply(s, n) PROVE \A t \in Sids : AnswerOK(t)'
  <2>1. /\ \A t \in Sids \ {s} : emitted'[t] = emitted[t] /\ (t \in Busy' <=> t \in Busy)
        /\ \/ emitted'[s] = Append(emitted[s], Len(emitted[s]) + 1) /\ s \in Busy /\ s \in Busy'
           \/ emitted'[s] = emitted[s] /\ s \in Busy /\ s \notin Busy'
           \/ emitted'[s] = emitted[s] /\ (s \in Busy' <=> s \in Busy) /\ ~ (phase[s] = "open" /\ s \in Busy)
        /\ n \in 1..Len(emitted[s]) /\ nreply[s][n] < MaxReplies
        /\ nreply' = [nreply EXCEPT ![s][n] = @ + 1] /\ UNCHANGED phase
        /\ answers' = IF phase[s] = "open" THEN [answers EXCEPT ![s] = Append(@, n)] ELSE answers
    BY <1>0, <1>4, ReplyHands
  <2>2. /\ nreply'[s][n] = nreply[s][n] + 1
        /\ \A m \in Numbers : m # n => nreply'[s][m] = nreply[s][m]
        /\ \A t \in Sids \ {s} : nreply'[t] = nreply[t] /\ answers'[t] = answers[t]
        /\ nreply[s] \in [Numbers -> Nat] /\ Len(emitted[s]) \in Nat /\ Len(answers[s]) \in Nat
        /\ answers[s] \in Seq(Numbers) /\ emitted[s] \in Seq(Numbers)
    BY <1>0, <2>1 DEF SessionTypeOK
  <2>3. phase[s] \notin {"new", "asking"}
    <3>1. emitted[s] # <<>>
      BY <2>1
    <3> QED BY <1>a, <3>1 DEF AnswerOK
  <2>4. ASSUME Superfluous(s)' = {}
        PROVE  /\ Superfluous(s) = {} /\ nreply[s][n] = 0
    <3>0. /\ nreply[s] \in [Numbers -> Nat] /\ \A m \in Numbers : nreply[s][m] <= MaxReplies
          /\ nreply'[s] \in [Numbers -> Nat] /\ \A m \in Numbers : nreply'[s][m] <= MaxReplies
      BY <1>0 DEF SessionTypeOK, RepliesBounded
    <3>1. \A m \in Numbers : nreply'[s][m] <= 1
      BY <3>0, <2>4, NoneOver DEF Superfluous
    <3>2. \A m \in Numbers : nreply[s][m] <= 1
      BY <2>2, <3>1
    <3>3. nreply[s][n] = 0
      BY <2>2, <3>1
    <3> QED BY <3>0, <3>2, <3>3, NoneOver DEF Superfluous
  <2>5. AnswerOK(s)'
    <3>1. CASE Superfluous(s)' # {}
      BY <2>1, <2>3, <3>1 DEF AnswerOK
    <3>2. CASE Superfluous(s)' = {} /\ phase[s] # "open"
      BY <1>a, <2>1, <2>3, <2>4, <3>2 DEF AnswerOK
    <3>3. CASE Superfluous(s)' = {} /\ phase[s] = "open"
      <4>1. /\ \A i \in 1..Len(answers[s]) : answers[s][i] = i
            /\ s \in Busy => Len(emitted[s]) = Len(answers[s]) + 1
            /\ s \notin Busy => Len(emitted[s]) = Len(answers[s])
            /\ \A m \in Numbers : nreply[s][m] > 0 <=> m <= Len(answers[s])
            /\ nreply[s][n] = 0
        BY <1>a, <2>4, <3>3 DEF AnswerOK
      <4>2. n = Len(answers[s]) + 1 /\ s \in Busy /\ n = Len(emitted[s])
        <5>1. n \in Nat /\ n >= 1 /\ n <= Len(emitted[s]) /\ ~ (n <= Len(answers[s]))
          BY <2>1, <2>2, <4>1 DEF Numbers
        <5>2. s \in Busy
          BY <2>2, <4>1, <5>1
        <5> QED BY <2>2, <4>1, <5>1, <5>2
      <4>3. answers'[s] = Append(answers[s], n) /\ Len(answers'[s]) = n
            /\ \A i \in 1..Len(answers'[s]) : answers'[s][i] = i
        <5>1. answers'[s] = Append(answers[s], n)
          BY <1>0, <2>1, <3>3 DEF SessionTypeOK
        <5>2. /\ Len(answers'[s]) = Len(answers[s]) + 1 /\ answers'[s][Len(answers[s]) + 1] = n
              /\ \A i \in 1..Len(answers[s]) : answers'[s][i] = answers[s][i]
          BY <2>2, <5>1
        <5>3. ASSUME NEW i \in 1..Len(answers'[s]) PROVE answers'[s][i] = i
          BY <2>2, <4>1, <4>2, <5>2
        <5> QED BY <4>2, <5>1, <5>2, <5>3
      <4>4. Len(emitted'[s]) = IF s \in Busy' THEN n + 1 ELSE n
        BY <2>1, <2>2, <3>3, <4>2
      <4>5. \A m \in Numbers : nreply'[s][m] > 0 <=> m <= n
        <5> SUFFICES ASSUME NEW m \in Numbers PROVE nreply'[s][m] > 0 <=> m <= n
          OBVIOUS
        <5>0. m \in Nat /\ n \in Nat
          BY DEF Numbers
        <5>1. CASE m = n
          BY <2>2, <5>0, <5>1
        <5>2. CASE m # n
          BY <2>2, <4>1, <4>2, <5>0, <5>2
        <5> QED BY <5>1, <5>2
      <4>6. /\ s \in Busy' => Len(emitted'[s]) = Len(answers'[s]) + 1
            /\ s \notin Busy' => Len(emitted'[s]) = Len(answers'[s])
            /\ \A m \in Numbers : nreply'[s][m] > 0 <=> m <= Len(answers'[s])
        <5>1. n \in Nat
          BY DEF Numbers
        <5> QED BY <5>1, <4>3, <4>4, <4>5
      <4> QED BY <2>1, <2>3, <4>3, <4>6 DEF AnswerOK
    <3> QED BY <3>1, <3>2, <3>3
  <2> QED BY <1>1, <2>1, <2>2, <2>5
<1> QED BY <1>2, <1>3, <1>4, LinkStep DEF sessionVars, MailStep

LEMMA HandStart == SessionInit => HandInv /\ RepliesBounded /\ AnswerInv
<1> SUFFICES ASSUME SessionInit PROVE HandInv /\ RepliesBounded /\ AnswerInv
  OBVIOUS
<1>0. MaxReplies \in Nat
  BY SessionAssumption
<1>1. RepliesBounded
  BY <1>0 DEF SessionInit, RepliesBounded
<1>2. Busy = {}
  BY DEF SessionInit, Busy, EmptyQueue, GetLength
<1>3. ASSUME NEW s \in Sids
      PROVE  InHand(s) = {} /\ \A n \in Numbers : ~ (nreply[s][n] > 0) /\ n > 0
  BY DEF SessionInit, InHand, Numbers
<1>4. HandInv
  BY <1>2, <1>3, Counted, FS_EmptySet DEF HandInv
<1>5. AnswerInv
  BY <1>2, <1>3 DEF SessionInit, AnswerInv, AnswerOK, Numbers
<1> QED BY <1>1, <1>4, <1>5

LEMMA AnswersInvariant == SessionSpec => [](HandInv /\ RepliesBounded /\ AnswerInv)
<1>1. SessionInv /\ SessionInv' /\ HandInv /\ RepliesBounded /\ AnswerInv /\ [SessionNext]_sessionVars
         => (HandInv /\ RepliesBounded /\ AnswerInv)'
  BY HandStep, BoundedStep, AnswerStep DEF SessionInv
<1> QED BY HandStart, SessionInvariant, <1>1, PTL DEF SessionSpec

\* Two messages of a client are in work together only after a superfluous answer, one
\* more for each (session.js:111-114).
THEOREM MessagesOneAtATime == SessionSpec => []OneAtATime
<1>1. HandInv => OneAtATime
  <2> SUFFICES ASSUME HandInv, NEW s \in Sids
               PROVE  Cardinality(InHand(s)) <= 1 + Cardinality(Superfluous(s))
    BY DEF OneAtATime, InHand, ExtraReplies
  <2> QED BY Counted DEF HandInv
<1> QED BY AnswersInvariant, <1>1, PTL

\* Without a superfluous answer the client hears the answers in the order of its
\* messages, none left out (session.js:178-192).
THEOREM AnswersComeInOrder == SessionSpec => []AnswersInOrder
<1>1. AnswerInv => AnswersInOrder
  <2> SUFFICES ASSUME AnswerInv, NEW s \in Sids, ExtraReplies(s) = 0
               PROVE  \A i \in 1..Len(answers[s]) : answers[s][i] = i
    BY DEF AnswersInOrder
  <2>1. Superfluous(s) = {}
    BY Counted, FS_EmptySet DEF ExtraReplies
  <2> QED BY <2>1 DEF AnswerInv, AnswerOK
<1> QED BY AnswersInvariant, <1>1, PTL
=============================================================================
