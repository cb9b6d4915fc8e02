----------------------------- MODULE Connection -----------------------------
(***************************************************************************)
(* What a softphone and its calls rely on from each other: how the         *)
(* signaling connection comes and goes, and what its loss, its replacement *)
(* and its end do to the calls.  No transports, requests, timers or        *)
(* promises.  Softphone implements it for all of its calls, OutboundCall   *)
(* for the one that it follows.                                            *)
(***************************************************************************)
CONSTANT Calls

VARIABLES
  link,        \* "unregistered", "up", "down", "adopting" (a replacement has
               \* registered in this turn), "stillborn" (and has failed in this
               \* turn) or "closed", for good
  served,      \* the calls in callSessions
  deadlines,   \* those that a loss has given five minutes
  reconciling  \* those whose reconciliation has not been settled

vars == <<link, served, deadlines, reconciling>>

Init ==
  /\ link \in {"unregistered", "up"}
  /\ served = {}
  /\ deadlines = {}
  /\ reconciling = {}

(* The connection may have failed in the turn of the 200 OK.               *)
Register ==
  /\ link = "unregistered"
  /\ link' \in {"up", "closed"}
  /\ UNCHANGED <<served, deadlines, reconciling>>

Lose ==
  /\ link = "up"
  /\ link' = "down"
  /\ deadlines' = served
  /\ UNCHANGED <<served, reconciling>>

Replace ==
  /\ \/ link = "down" /\ link' = "adopting"
     \/ link = "adopting" /\ link' = "stillborn"
  /\ UNCHANGED <<served, deadlines, reconciling>>

(* Whoever has a deadline, and nobody else, is reconciled.                 *)
Adopt ==
  /\ \/ link = "adopting" /\ link' = "up"
     \/ link = "stillborn" /\ link' = "closed"
  /\ reconciling' = reconciling \cup deadlines
  /\ deadlines' = {}
  /\ UNCHANGED served

Close ==
  /\ link # "closed"
  /\ link' = "closed"
  /\ deadlines' = {}
  /\ UNCHANGED <<served, reconciling>>

(* A call that joins while the link is down stays without a deadline.      *)
Join(c) ==
  /\ link # "unregistered"
  /\ c \notin served
  /\ served' = served \cup {c}
  /\ UNCHANGED <<link, deadlines, reconciling>>

(* However a call ends: by either side, its deadline, a reconciliation that*)
(* fails or is not answered.                                               *)
Leave(c) ==
  /\ c \in served
  /\ served' = served \ {c}
  /\ deadlines' = deadlines \ {c}
  /\ reconciling' = reconciling \ {c}
  /\ UNCHANGED link

(* A reconciliation succeeds on a connection only.                         *)
Settle(c) ==
  /\ link = "up"
  /\ c \in reconciling
  /\ reconciling' = reconciling \ {c}
  /\ UNCHANGED <<link, served, deadlines>>

Next ==
  \/ Register
  \/ Lose
  \/ Replace
  \/ Adopt
  \/ Close
  \/ \E c \in Calls : Join(c) \/ Leave(c) \/ Settle(c)

Spec == Init /\ [][Next]_vars
=============================================================================
