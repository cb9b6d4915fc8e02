---------------------------- MODULE CallSession ----------------------------
(***************************************************************************)
(* One call session, the abstract class of src/src/call-session/index.ts:  *)
(* the re-INVITEs of hold(), unhold() and of the reconciliation after an   *)
(* outage, transfer(), BYE, hangup() and dispose().  Module OutboundCall   *)
(* extends it as the class does, and adds how the session comes about.     *)
(*                                                                         *)
(* The softphone's connection is abstracted to what module Softphone says  *)
(* of it.  As there, the grain is the turn: a chunk of data is one turn    *)
(* (`receiving`) with several messages, and what awaits a response goes on *)
(* in a step of its own before the next turn.                              *)
(***************************************************************************)
EXTENDS Sequences

CONSTANTS
  Holds,           \* calls of hold() and unhold()
  Reconciliation,  \* stands for the re-INVITE of reconcileDialog()
  Transfers,       \* calls of transfer()
  NoTransfer

ASSUME ReconciliationAssumption == Reconciliation \notin Holds
ASSUME NoTransferAssumption == NoTransfer \notin Transfers

VARIABLES
  link,       \* the softphone's connection: "up", "down", "adopting" (a replacement
              \* has registered in this turn), "stillborn" (and has failed in this
              \* turn) or "closed", for good
  receiving,  \* a receive loop is running
  crashed,    \* an exception left it
  state,      \* "none", "ringing", "active" (in callSessions) or "disposed"
  socket,     \* the UDP socket of the call: "none", "bound" or "closed"
  outage,     \* in recoveringSessions, the five-minute deadline set
  sdp,        \* the direction in this.sdp
  agreed,     \* the direction of the last offer that the peer accepted; history
  stage,      \* by re-INVITE: "idle", "waiting", or how it ended
  offer,      \* by re-INVITE: the direction it offers
  answered,   \* the re-INVITEs whose response is to be taken up, in its order
  pendingTransfer,
  transfers,  \* by call of transfer(): the state of its promise
  events      \* the events emitted by the session; history

turn == <<link, receiving, crashed>>
life == <<state, socket, outage, pendingTransfer, transfers, events>>
dialog == <<sdp, agreed, stage, offer, answered>>
sessionVars == <<turn, life, dialog>>

ReInvites == Holds \cup {Reconciliation}
Directions == {"sendrecv", "sendonly"}

SessionInit ==
  /\ link = "up"
  /\ receiving = FALSE
  /\ crashed = FALSE
  /\ state = "none"
  /\ socket = "none"
  /\ outage = FALSE
  /\ sdp = "sendrecv"
  /\ agreed = "sendrecv"
  /\ stage = [o \in ReInvites |-> "idle"]
  /\ offer = [o \in ReInvites |-> "sendrecv"]
  /\ answered = <<>>
  /\ pendingTransfer = NoTransfer
  /\ transfers = [t \in Transfers |-> "idle"]
  /\ events = <<>>

Running == ~crashed
Resuming == Running /\ ~receiving
Quiet ==
  /\ Resuming
  /\ answered = <<>>
  /\ \A o \in ReInvites : stage[o] # "lost"
  /\ link \notin {"adopting", "stillborn"}
Receiving ==
  /\ link \in {"up", "adopting"}
  /\ Quiet \/ (Running /\ receiving)
  /\ receiving' = TRUE

-----------------------------------------------------------------------------
(* The end of a session *)

RejectTransfer ==
  /\ pendingTransfer' = NoTransfer
  /\ transfers' = [t \in Transfers |-> IF t = pendingTransfer THEN "rejected" ELSE transfers[t]]

KeepDeadline == UNCHANGED outage  \* mutation
CancelDeadline == outage' = FALSE

(* dispose() after the events `emitted`.  A second call of it does nothing.*)
Dispose(emitted) ==
  /\ state' = "disposed"
  /\ socket' = "closed"
  /\ CancelDeadline
  /\ events' = events \o Append(emitted, "disposed")
  /\ RejectTransfer

Alive == state \in {"ringing", "active"}

(* hangup() throws without a connection, and then disposes nothing.        *)
Hangup ==
  /\ Running
  /\ Alive
  /\ link = "up"
  /\ Dispose(<<>>)
  /\ UNCHANGED <<turn, dialog>>

ReceiveBye ==
  /\ Receiving
  /\ Alive
  /\ Dispose(<<>>)
  /\ UNCHANGED <<link, crashed, dialog>>

DeadlineFires ==
  /\ Quiet
  /\ outage
  /\ Dispose(<<>>)
  /\ UNCHANGED <<turn, dialog>>

-----------------------------------------------------------------------------
(* transfer() *)

EveryTransfer == link = "up"  \* mutation
MayTransfer == pendingTransfer = NoTransfer /\ link = "up"

(* One transfer at a time; REFER is written or send() throws.  Nothing     *)
(* keeps the application from calling it on a disposed session.            *)
Transfer(t) ==
  /\ Running
  /\ state \in {"active", "disposed"}
  /\ transfers[t] = "idle"
  /\ IF MayTransfer
       THEN /\ pendingTransfer' = t
            /\ transfers' = [transfers EXCEPT ![t] = "pending"]
       ELSE /\ transfers' = [transfers EXCEPT ![t] = "rejected"]
            /\ UNCHANGED pendingTransfer
  /\ UNCHANGED <<turn, dialog, state, socket, outage, events>>

(* NOTIFY is answered 200 OK on the softphone's connection, which throws if*)
(* that one has failed; the transfer is over if it was "SIP/2.0 200 OK".   *)
ReceiveNotify(complete) ==
  /\ Receiving
  /\ state = "active"
  /\ pendingTransfer # NoTransfer
  /\ crashed' = (link # "up")
  /\ IF complete /\ link = "up"
       THEN /\ pendingTransfer' = NoTransfer
            /\ transfers' = [transfers EXCEPT ![pendingTransfer] = "resolved"]
       ELSE UNCHANGED <<pendingTransfer, transfers>>
  /\ UNCHANGED <<link, dialog, state, socket, outage, events>>

-----------------------------------------------------------------------------
(* re-INVITEs *)

(* reInvite() up to its await; request() throws if the connection is not open. *)
ReInvite(o, direction, open) ==
  /\ offer' = [offer EXCEPT ![o] = direction]
  /\ stage' = [stage EXCEPT ![o] = IF open THEN "waiting" ELSE "lost"]

(* hold() and unhold() of a call, or of one that has just ended.           *)
Hold(o, direction) ==
  /\ Running
  /\ state \in {"active", "disposed"}
  /\ stage[o] = "idle"
  /\ ReInvite(o, direction, link = "up")
  /\ UNCHANGED <<turn, life, sdp, agreed, answered>>

ReceiveReInviteResponse(o, response) ==
  /\ Receiving
  /\ stage[o] = "waiting"
  /\ stage' = [stage EXCEPT ![o] = response]
  /\ answered' = Append(answered, o)
  /\ agreed' = IF response = "2xx" THEN offer[o] ELSE agreed
  /\ UNCHANGED <<link, crashed, life, sdp, offer>>

(* The response is taken up: its ACK is written on the connection of that  *)
(* moment.  reInvite() throws without one, and for every other response.   *)
Accepted(o) == stage[o] = "2xx" /\ link = "up"

KeepOffer(o) == sdp' = IF Accepted(o) /\ state # "disposed" THEN offer[o] ELSE sdp

LeaveFailed(o) ==  \* mutation
  /\ stage' = [stage EXCEPT ![o] = "idle"]
  /\ KeepOffer(o)
  /\ UNCHANGED life

(* reconcileDialog() disposes the call when reInvite() throws, unless it   *)
(* has done so after 32 s.                                                 *)
Conclude(o) ==
  /\ stage' = [stage EXCEPT ![o] = "idle"]
  /\ KeepOffer(o)
  /\ IF o = Reconciliation /\ ~Accepted(o) /\ Alive THEN Dispose(<<>>) ELSE UNCHANGED life

TakeUp ==
  /\ Resuming
  /\ answered # <<>>
  /\ Conclude(Head(answered))
  /\ answered' = Tail(answered)
  /\ UNCHANGED <<turn, agreed, offer>>

TakeUpLoss(o) ==
  /\ Resuming
  /\ stage[o] = "lost"
  /\ Conclude(o)
  /\ UNCHANGED <<turn, agreed, offer, answered>>

(* 32 s without a final response; the request goes on waiting.             *)
ReconcileTimeout ==
  /\ Quiet
  /\ stage[Reconciliation] = "waiting"
  /\ Alive
  /\ Dispose(<<>>)
  /\ UNCHANGED <<turn, dialog>>

-----------------------------------------------------------------------------
(* The softphone's connection *)

RejectNone == UNCHANGED stage  \* mutation
RejectPending ==
  stage' = [o \in ReInvites |-> IF stage[o] = "waiting" THEN "lost" ELSE stage[o]]

(* The connection fails, between turns or in the middle of a chunk.  What  *)
(* is pending is rejected; the peer may have accepted an offer unheard.    *)
LoseLink ==
  /\ link = "up"
  /\ Quiet \/ (Running /\ receiving)
  /\ link' = "down"
  /\ receiving' = FALSE
  /\ outage' = (state = "active")
  /\ RejectPending
  /\ agreed' \in {agreed} \cup {offer[o] : o \in {r \in ReInvites : stage[r] = "waiting"}}
  /\ UNCHANGED <<crashed, state, socket, pendingTransfer, transfers, events, sdp, offer, answered>>

(* The 200 OK to the REGISTER on a replacement.                            *)
ReplacementRegisters ==
  /\ Quiet
  /\ link = "down"
  /\ link' = "adopting"
  /\ receiving' = TRUE
  /\ UNCHANGED <<crashed, life, dialog>>

LoseReplacement ==
  /\ Running
  /\ link = "adopting"
  /\ receiving
  /\ link' = "stillborn"
  /\ receiving' = FALSE
  /\ UNCHANGED <<crashed, life, dialog>>

EndLoop ==
  /\ Running
  /\ receiving
  /\ receiving' = FALSE
  /\ UNCHANGED <<link, crashed, life, dialog>>

ReconcileNothing(open) == UNCHANGED <<offer, stage>>  \* mutation
Reconcile(open) == ReInvite(Reconciliation, sdp, open)

(* recover() adopts the replacement and reconciles the call with the SDP   *)
(* it has.  A replacement that has failed meanwhile is never replaced.     *)
Adopt ==
  /\ Resuming
  /\ link \in {"adopting", "stillborn"}
  /\ link' = IF link = "adopting" THEN "up" ELSE "closed"
  /\ CancelDeadline
  /\ IF outage THEN Reconcile(link = "adopting") ELSE UNCHANGED <<offer, stage>>
  /\ UNCHANGED <<receiving, crashed, state, socket, pendingTransfer, transfers, events, sdp,
                 agreed, answered>>

Revoke ==
  /\ Running
  /\ link # "closed"
  /\ link' = "closed"
  /\ receiving' = FALSE
  /\ CancelDeadline
  /\ RejectPending
  /\ UNCHANGED <<crashed, state, socket, pendingTransfer, transfers, events, sdp, agreed, offer,
                 answered>>

-----------------------------------------------------------------------------
SessionNext ==
  \/ Hangup
  \/ ReceiveBye
  \/ DeadlineFires
  \/ \E t \in Transfers : Transfer(t)
  \/ \E complete \in BOOLEAN : ReceiveNotify(complete)
  \/ \E o \in Holds, direction \in Directions : Hold(o, direction)
  \/ \E o \in ReInvites, response \in {"2xx", "non2xx"} : ReceiveReInviteResponse(o, response)
  \/ TakeUp
  \/ \E o \in ReInvites : TakeUpLoss(o)
  \/ ReconcileTimeout
  \/ ReplacementRegisters
  \/ LoseReplacement
  \/ EndLoop
  \/ Adopt

-----------------------------------------------------------------------------
(* Properties *)

SessionTypeOK ==
  /\ link \in {"up", "down", "adopting", "stillborn", "closed"}
  /\ receiving \in BOOLEAN
  /\ crashed \in BOOLEAN
  /\ state \in {"none", "ringing", "active", "disposed"}
  /\ socket \in {"none", "bound", "closed"}
  /\ outage \in BOOLEAN
  /\ sdp \in Directions
  /\ agreed \in Directions
  /\ stage \in [ReInvites -> {"idle", "waiting", "2xx", "non2xx", "lost"}]
  /\ offer \in [ReInvites -> Directions]
  /\ answered \in Seq(ReInvites)
  /\ pendingTransfer \in Transfers \cup {NoTransfer}
  /\ transfers \in [Transfers -> {"idle", "pending", "resolved", "rejected"}]
  /\ events \in Seq({"answered", "non2xxResponse", "disposed"})

(* However hold(), unhold() and reconciliations overlap, and whatever is   *)
(* lost with a connection: once none is pending, an active call on an open *)
(* connection has the SDP that its peer accepted last                      *)
(* (call-session/index.ts:151-197, 215-241).                               *)
SdpIsAgreed ==
  Quiet /\ link = "up" /\ state = "active" /\ (\A o \in ReInvites : stage[o] = "idle")
    => sdp = agreed

(* The promises of transfer() that are open are the one that the session   *)
(* will settle (call-session/index.ts:112-147, 251-258).                   *)
TransferTracked ==
  {t \in Transfers : transfers[t] = "pending"} = {pendingTransfer} \ {NoTransfer}

(* An active call that no connection serves has its deadline, whatever    *)
(* becomes of the replacement, and no other call has one; adoption and     *)
(* revoke() end it (call-session/index.ts:200-216, index.ts:157-191).      *)
OutageHasDeadline ==
  ~crashed => (outage <=> state = "active" /\ link \in {"down", "adopting", "stillborn"})

(* The end of a call leaves no transfer of it waiting                      *)
(* (call-session/index.ts:112; tests/call-session-lifecycle.test.ts:415).  *)
DisposalEndsTransfer ==
  [][Alive /\ state' = "disposed" => \A t \in Transfers : transfers'[t] # "pending"]_sessionVars

(* Without a connection nobody waits for a response to a re-INVITE.        *)
LossEndsReInvites ==
  \A o \in ReInvites : stage[o] # "idle" /\ link \in {"down", "closed"}
                         ~> stage[o] = "idle" \/ crashed
=============================================================================
