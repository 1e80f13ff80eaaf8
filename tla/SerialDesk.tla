----------------------------- MODULE SerialDesk -----------------------------
(***************************************************************************)
(* What requests on one account may do to each other at most: each takes   *)
(* effect in one step, on the rows as they are at that step.               *)
(*                                                                         *)
(* Two exceptions, for requests that have looked before they serve.  A     *)
(* sweep and a cancellation act on the order they saw, whatever it has     *)
(* become.  A refresh and a square-off work on the balance they saw, and   *)
(* a square-off sells the shares it saw.  Everything else is read when it  *)
(* is used.                                                                *)
(***************************************************************************)
EXTENDS Integers

CONSTANTS Sessions, Keys, Buys, Requests, Price, Start, Held, Raise, None

VARIABLES
    cash,     \* the balance
    held,     \* the shares held
    status,   \* status[k]: the order of key k
    request,  \* request[s]: what s asks for
    answer,   \* answer[s]: "none", "looked", or how the request ended
    known     \* known[s]: the balance and the shares s looked at

vars == <<cash, held, status, request, answer, known>>

Open == {"PENDING", "WAITING"}
Kind(s) == request[s].kind
Key(s) == request[s].key
Nothing == [cash |-> None, held |-> 0]

\* Requests that look first, and those of them that keep the balance.
Lookers == {"sweep", "cancel", "refresh", "squareoff"}
Keepers == {"refresh", "squareoff"}

Ready(s) == answer[s] = IF Kind(s) \in Lookers THEN "looked" ELSE "none"

Balance(s) == IF Kind(s) \in Keepers THEN known[s].cash ELSE cash
Shares(s) == IF Kind(s) = "squareoff" THEN known[s].held ELSE held

WorthLooking(s) ==
    CASE Kind(s) = "sweep" -> status[Key(s)] = "WAITING"
      [] Kind(s) = "cancel" -> status[Key(s)] \in Open
      [] Kind(s) = "refresh" -> \E k \in Keys : status[k] \in Open
      [] Kind(s) = "squareoff" -> held > 0

Look(s) ==
    /\ answer[s] = "none" /\ Kind(s) \in Lookers
    /\ WorthLooking(s)
    /\ answer' = [answer EXCEPT ![s] = "looked"]
    /\ known' = IF Kind(s) \in Keepers
                THEN [known EXCEPT ![s] = [cash |-> cash, held |-> held]] ELSE known
    /\ UNCHANGED <<cash, held, status, request>>

Answer(s, outcome) ==
    /\ answer' = [answer EXCEPT ![s] = outcome]
    /\ known' = [known EXCEPT ![s] = Nothing]
    /\ UNCHANGED request

\* A request that is answered with an error, or finds nothing to do.
Decline(s) ==
    /\ answer[s] \in {"none", "looked"}
    /\ Answer(s, "gone")
    /\ UNCHANGED <<cash, held, status>>

\* The order that s serves.
Serves(s, k) ==
    /\ Ready(s)
    /\ \/ Kind(s) = "place" /\ k = Key(s) /\ status[k] = "NONE"
       \/ Kind(s) = "sweep" /\ k = Key(s)
       \/ Kind(s) = "refresh" /\ status[k] \in Open

Becomes(s, k, new) ==
    /\ status' = [status EXCEPT ![k] = new]
    /\ Answer(s, "committed")

Affords(s, k) == IF k \in Buys THEN Balance(s) >= Price ELSE held > 0

Wait(s, k) ==
    /\ Serves(s, k) /\ ~request[s].fires
    /\ \E new \in Open : Becomes(s, k, new)
    /\ UNCHANGED <<cash, held>>

Refuse(s, k) ==
    /\ Serves(s, k) /\ request[s].fires /\ ~Affords(s, k)
    /\ Becomes(s, k, "REJECTED")
    /\ UNCHANGED <<cash, held>>

Trade(s, k) ==
    /\ Serves(s, k) /\ request[s].fires /\ Affords(s, k)
    /\ Becomes(s, k, "FILLED")
    /\ cash' = IF k \in Buys THEN Balance(s) - Price ELSE Balance(s) + Price
    /\ held' = IF k \in Buys THEN held + 1 ELSE held - 1

\* A refresh whose orders are all settled by now.
NoneOpen(s) ==
    /\ Ready(s) /\ Kind(s) = "refresh"
    /\ \A k \in Keys : status[k] \notin Open
    /\ Answer(s, "committed")
    /\ UNCHANGED <<cash, held, status>>

\* An exit or a square-off: there is a position, and then there is none.
Close(s) ==
    /\ Ready(s) /\ Kind(s) \in {"exit", "squareoff"}
    /\ held > 0
    /\ held' = 0
    /\ cash' = Balance(s) + Price * Shares(s)
    /\ Answer(s, "committed")
    /\ UNCHANGED status

AddCapital(s) ==
    /\ Ready(s) /\ Kind(s) = "capital"
    /\ cash' = cash + Raise
    /\ Answer(s, "committed")
    /\ UNCHANGED <<held, status>>

Cancel(s) ==
    /\ Ready(s) /\ Kind(s) = "cancel"
    /\ Becomes(s, Key(s), "CANCELLED")
    /\ UNCHANGED <<cash, held>>

Init ==
    /\ cash = Start
    /\ held = Held
    /\ status \in [Keys -> {"NONE", "WAITING"}]
    /\ request \in [Sessions -> Requests]
    /\ answer = [s \in Sessions |-> "none"]
    /\ known = [s \in Sessions |-> Nothing]

Next ==
    \E s \in Sessions :
        \/ Look(s) \/ Decline(s) \/ NoneOpen(s) \/ Close(s) \/ AddCapital(s)
        \/ Cancel(s)
        \/ \E k \in Keys : Wait(s, k) \/ Refuse(s, k) \/ Trade(s, k)

SerialSpec == Init /\ [][Next]_vars

=============================================================================
