---------------------------- MODULE TwoArrayQueue ----------------------------
(***************************************************************************)
(* module/net/socket/queue.js: a queue held in two arrays, so that shift   *)
(* moves an offset instead of the elements.  Items are pushed at the end   *)
(* of tail and shifted from head, which takes over tail when it is used up.*)
(***************************************************************************)
EXTENDS Integers, Sequences

Queues(S) == {q \in [head : Seq(S), tail : Seq(S), offset : Nat] : q.offset <= Len(q.head)}

EmptyQueue == [head |-> <<>>, tail |-> <<>>, offset |-> 0]

GetLength(q) == Len(q.head) - q.offset + Len(q.tail)

Push(q, x) == [q EXCEPT !.tail = Append(@, x)]

UsedUp(q) == q.offset = Len(q.head)

\* Of a queue that is not empty: first() is undefined for an empty one.
First(q) == IF UsedUp(q) THEN q.tail[1] ELSE q.head[q.offset + 1]

Shift_KeepOffset(q) ==   \* mutant: offset survives the swap of the arrays
    IF UsedUp(q) /\ q.tail # <<>>
    THEN [head |-> q.tail, tail |-> <<>>, offset |-> q.offset + 1]
    ELSE IF UsedUp(q) THEN EmptyQueue ELSE [q EXCEPT !.offset = @ + 1]

Shift(q) ==
    IF UsedUp(q)
    THEN [head |-> q.tail, tail |-> <<>>, offset |-> IF q.tail = <<>> THEN 0 ELSE 1]
    ELSE [q EXCEPT !.offset = @ + 1]

-----------------------------------------------------------------------------
\* The i-th item in the queue, and the queue as a sequence: what the arrays mean.
Item(q, i) ==
    LET left == Len(q.head) - q.offset
    IN  IF i <= left THEN q.head[q.offset + i] ELSE q.tail[i - left]

Contents(q) == [i \in 1..GetLength(q) |-> Item(q, i)]
=============================================================================
