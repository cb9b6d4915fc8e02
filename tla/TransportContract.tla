------------------------- MODULE TransportContract -------------------------
(***************************************************************************)
(* What SipTransport promises to the code that awaits it, with no socket,  *)
(* no framing, no correlation table and no set of waiters.                 *)
(*                                                                         *)
(* A transport is connecting, then open, then closed, and may be closed    *)
(* from either state.  Every promise it hands out settles once: a promise  *)
(* of ready() in every case, a promise of request() at the latest when the *)
(* transport closes.  A request is only ever answered while the transport  *)
(* is open.                                                                *)
(***************************************************************************)
CONSTANTS Waiters,    \* the calls of ready(), one promise each
          Requests    \* the calls of request(), one promise each

VARIABLES status,     \* "connecting", "open" or "closed"
          ready,      \* the promise of each call of ready()
          request     \* the promise of each call of request()

vars == <<status, ready, request>>

Promises == {"unused", "outstanding", "resolved", "rejected"}

Settle(promise, outcome) ==
  [p \in DOMAIN promise |->
     IF promise[p] = "outstanding" THEN outcome ELSE promise[p]]

Init ==
  /\ status = "connecting"
  /\ ready = [w \in Waiters |-> "unused"]
  /\ request = [r \in Requests |-> "unused"]

AskReady(w) ==
  /\ ready[w] = "unused"
  /\ ready' = [ready EXCEPT ![w] = CASE status = "connecting" -> "outstanding"
                                     [] status = "open"       -> "resolved"
                                     [] status = "closed"     -> "rejected"]
  /\ UNCHANGED <<status, request>>

(* The caller's AbortSignal ends a wait, or refuses one that starts late.  *)
GiveUp(w) ==
  /\ status = "connecting"
  /\ ready[w] \in {"unused", "outstanding"}
  /\ ready' = [ready EXCEPT ![w] = "rejected"]
  /\ UNCHANGED <<status, request>>

Open ==
  /\ status = "connecting"
  /\ status' = "open"
  /\ ready' = Settle(ready, "resolved")
  /\ UNCHANGED request

Ask(r) ==
  /\ request[r] = "unused"
  /\ \E promise \in {"outstanding", "rejected"} :
       /\ promise = "outstanding" => status = "open"
       /\ request' = [request EXCEPT ![r] = promise]
  /\ UNCHANGED <<status, ready>>

Answer(r) ==
  /\ status = "open"
  /\ request[r] = "outstanding"
  /\ request' = [request EXCEPT ![r] = "resolved"]
  /\ UNCHANGED <<status, ready>>

Close ==
  /\ status # "closed"
  /\ status' = "closed"
  /\ ready' = Settle(ready, "rejected")
  /\ request' = Settle(request, "rejected")

Next ==
  \/ Open
  \/ Close
  \/ \E w \in Waiters : AskReady(w) \/ GiveUp(w)
  \/ \E r \in Requests : Ask(r) \/ Answer(r)

(* An outstanding wait is not left outstanding: the socket connects, the   *)
(* transport closes, or the caller's signal gives the wait up.             *)
Fairness ==
  \A w \in Waiters : WF_vars(ready[w] = "outstanding" /\ (Open \/ Close \/ GiveUp(w)))

Spec == Init /\ [][Next]_vars /\ Fairness
=============================================================================
