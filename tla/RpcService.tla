----------------------------- MODULE RpcService -----------------------------
(***************************************************************************)
(* What the broker promises the process that sends a request, with none of *)
(* the tables it keeps the promise with.  A call waits for the answers of  *)
(* a fixed set of workers; each of them answers it or is given up once;    *)
(* when the last one has, the caller is told that the call is over.        *)
(* Only a restart of the broker lets a call disappear.                     *)
(***************************************************************************)
EXTENDS Sequences

CONSTANTS Workers,    \* ids of the processes that serve requests
          Rids,       \* request ids: uuid.v4() + the id of the sender
          ClientOf,   \* the process that drew a request id
          None

VARIABLES kind,       \* kind[r]: None before the call, then "point" or "cast"
          awaiting,   \* awaiting[r]: the workers whose answer r still waits for
          told        \* told[r]: what the caller was told of r, oldest first

vars == <<kind, awaiting, told>>

Kinds == {"point", "cast"}

\* One message about request r: its type, the worker it names, its addressee.
Msg(type, w, r) == [type |-> type, from |-> w, to |-> ClientOf[r]]

\* What ends a call when its last worker is gone or has answered.
Over(k, r, ws) ==
    IF k = "cast" THEN <<Msg("DONE", None, r)>>
    ELSE <<Msg("DISCONNECT", CHOOSE w \in ws : TRUE, r)>>

Init ==
    /\ kind = [r \in Rids |-> None]
    /\ awaiting = [r \in Rids |-> {}]
    /\ told = [r \in Rids |-> <<>>]

\* The call is taken on by the workers ws: one of them, or all of a kind.
Accept(r, k, ws) ==
    /\ kind[r] = None
    /\ ws # {}
    /\ k = "point" => \E w \in ws : ws = {w}
    /\ kind' = [kind EXCEPT ![r] = k]
    /\ awaiting' = [awaiting EXCEPT ![r] = ws]
    /\ UNCHANGED told

\* No worker can serve the call.
Reject(r, k) ==
    /\ kind[r] = None
    /\ kind' = [kind EXCEPT ![r] = k]
    /\ told' = [told EXCEPT ![r] = Append(@, Msg("NOEXISTS", None, r))]
    /\ UNCHANGED awaiting

\* A worker the call waits for answers; a cast ends after its last answer.
Answer(r, w) ==
    /\ w \in awaiting[r]
    /\ awaiting' = [awaiting EXCEPT ![r] = @ \ {w}]
    /\ told' = [told EXCEPT ![r] = @ \o <<Msg("REPLY", w, r)>> \o
                   (IF kind[r] = "cast" /\ awaiting[r] = {w}
                    THEN <<Msg("DONE", None, r)>> ELSE <<>>)]
    /\ UNCHANGED kind

\* Some workers are given up, in every call that waits for them.
GiveUp(ws) ==
    /\ awaiting' = [r \in Rids |-> awaiting[r] \ ws]
    /\ told' = [r \in Rids |->
                   IF awaiting[r] # {} /\ awaiting[r] \subseteq ws
                   THEN told[r] \o Over(kind[r], r, awaiting[r])
                   ELSE told[r]]
    /\ UNCHANGED kind

\* The broker restarts: nobody waits for anything any more.
Forget ==
    /\ awaiting' = [r \in Rids |-> {}]
    /\ UNCHANGED <<kind, told>>

Next ==
    \/ \E r \in Rids, k \in Kinds :
          Reject(r, k) \/ \E ws \in SUBSET Workers : Accept(r, k, ws)
    \/ \E r \in Rids, w \in Workers : Answer(r, w)
    \/ \E ws \in SUBSET Workers : GiveUp(ws)
    \/ Forget

Spec == Init /\ [][Next]_vars
=============================================================================
