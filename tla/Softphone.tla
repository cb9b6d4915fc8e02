----------------------------- MODULE Softphone -----------------------------
(***************************************************************************)
(* One Softphone of src/src/index.ts with its signaling connections and    *)
(* its inbound calls: registration, registration refresh, recovery after a *)
(* loss of the connection, answering an invite, the five-minute deadline   *)
(* and the reconciliation of a call after recovery, and revoke().          *)
(*                                                                         *)
(* The grain is the JavaScript turn.  Timers and socket events run when    *)
(* the program is Quiet.  A chunk of inbound data is a turn during which   *)
(* several messages are handled (`loop`), and in which the connection may  *)
(* also fail.  A promise settled in a turn only marks its awaiting         *)
(* function as settled; the rest of that function is a step of its own,    *)
(* taken after the loop and before the next timer or socket event.  The    *)
(* application may call the API at any point of it.                        *)
(*                                                                         *)
(* A transport is abstracted to what TransportContract promises of it.     *)
(***************************************************************************)
EXTENDS Naturals

CONSTANTS Transports, NoTransport, Sessions

ASSUME NoTransportAssumption == NoTransport \notin Transports

VARIABLES
  status,             \* "free", "connecting", "open" or "closed", by transport
  contact,            \* the transports over which the server accepted a REGISTER
  loop,               \* the transport whose receive loop is running
  signaling, recoveryTransport, registered, revoked,
  refreshing,         \* the refresh interval is set (intervalHandle)
  recoveryAttempt,
  reconnectArmed,     \* the reconnect timer is set (reconnectHandle)
  reconnectDelay,     \* its last delay in seconds; history, 0 since the last success
  inviteHandler,      \* register() has installed its "message" listener
  pc, on, got,        \* by awaiting function: where it is, on which transport, and
                      \* how the promise it awaits has settled
  phase,              \* by call: how far it has come
  confirmed,          \* the calls whose ACK has arrived
  sockets,            \* the calls whose UDP socket is bound
  callSessions, recoveringSessions,
  deadlines,          \* the calls with a signalingRecoveryDeadline
  awaits, via, reply, \* by call: the response awaited, on which transport, and how
                      \* the promise has settled
  crashed             \* an exception left a socket's "data" handler

net == <<status, contact, loop>>
registration == <<signaling, recoveryTransport, registered, revoked, refreshing,
                  inviteHandler>>
backoff == <<recoveryAttempt, reconnectArmed, reconnectDelay>>
fibers == <<pc, on, got>>
calls == <<phase, confirmed, sockets>>
books == <<callSessions, recoveringSessions, deadlines>>
dialogs == <<awaits, via, reply>>
vars == <<status, contact, loop, signaling, recoveryTransport, registered, revoked,
          refreshing, recoveryAttempt, reconnectArmed, reconnectDelay, inviteHandler,
          pc, on, got, phase, confirmed, sockets, callSessions, recoveringSessions,
          deadlines, awaits, via, reply, crashed>>

(* The functions that await registerTransport().  One refresh is followed  *)
(* at a time: two that overlap share no state.                             *)
Fibers == {"register", "refresh", "recover"}

Init ==
  /\ signaling \in Transports
  /\ status = [t \in Transports |-> IF t = signaling THEN "connecting" ELSE "free"]
  /\ contact = {}
  /\ loop = NoTransport
  /\ recoveryTransport = NoTransport
  /\ registered = FALSE
  /\ revoked = FALSE
  /\ refreshing = FALSE
  /\ recoveryAttempt = 0
  /\ reconnectArmed = FALSE
  /\ reconnectDelay = 0
  /\ inviteHandler = FALSE
  /\ pc = [f \in Fibers |-> "idle"]
  /\ on = [f \in Fibers |-> NoTransport]
  /\ got = [f \in Fibers |-> "nothing"]
  /\ phase = [s \in Sessions |-> "idle"]
  /\ confirmed = {}
  /\ sockets = {}
  /\ callSessions = {}
  /\ recoveringSessions = {}
  /\ deadlines = {}
  /\ awaits = [s \in Sessions |-> "nothing"]
  /\ via = [s \in Sessions |-> NoTransport]
  /\ reply = [s \in Sessions |-> "nothing"]
  /\ crashed = FALSE

-----------------------------------------------------------------------------
(* Turns *)

Resumable == (\E f \in Fibers : got[f] # "nothing") \/ (\E s \in Sessions : reply[s] # "nothing")
Quiet == ~crashed /\ loop = NoTransport /\ ~Resumable
Resuming == ~crashed /\ loop = NoTransport
Running == ~crashed

(* A message is read from transport t, in the turn under way or a new one. *)
Receiving(t) ==
  /\ status[t] = "open"
  /\ Quiet \/ (Running /\ loop = t)
  /\ loop' = t

(* The transports that nothing refers to any more stand for new ones.      *)
Unreferenced(t) ==
  /\ t \notin {signaling, recoveryTransport, loop}
  /\ status[t] \in {"free", "closed"}
  /\ \A f \in Fibers : on[f] # t
  /\ \A s \in Sessions : via[s] # t

(* What fail() of the transports T does to them and to whoever awaits them.*)
FailedStatus(T) == [t \in Transports |-> IF t \in T THEN "closed" ELSE status[t]]
FailedGot(T) ==
  [f \in Fibers |-> IF on[f] \in T /\ got[f] = "nothing" THEN "rejected" ELSE got[f]]
FailedReply(T) ==
  [s \in Sessions |-> IF via[s] \in T /\ reply[s] = "nothing" THEN "lost" ELSE reply[s]]
Fail(T) ==
  /\ status' = FailedStatus(T)
  /\ got' = FailedGot(T)
  /\ reply' = FailedReply(T)

-----------------------------------------------------------------------------
(* registerTransport(): wait for the connection, REGISTER, authenticate.   *)

(* The state in which ready() leaves its caller at once.                   *)
ReadyNow(t) ==
  CASE status[t] = "open"   -> "resolved"
    [] status[t] = "closed" -> "rejected"
    [] OTHER                -> "nothing"

StartFiber(f, t) ==
  /\ pc' = [pc EXCEPT ![f] = "ready"]
  /\ on' = [on EXCEPT ![f] = t]
  /\ got' = [got EXCEPT ![f] = ReadyNow(t)]

EndFiber(f) ==
  /\ pc' = [pc EXCEPT ![f] = "idle"]
  /\ on' = [on EXCEPT ![f] = NoTransport]
  /\ got' = [got EXCEPT ![f] = "nothing"]

(* The next REGISTER is written, or request() throws on a closed transport.*)
SendRegister(f, from, outcome, to) ==
  /\ Resuming
  /\ pc[f] = from
  /\ got[f] = outcome
  /\ pc' = [pc EXCEPT ![f] = to]
  /\ got' = [got EXCEPT ![f] = IF status[on[f]] = "open" THEN "nothing" ELSE "rejected"]
  /\ UNCHANGED <<on, net, registration, backoff, calls, books, dialogs, crashed>>

Registers(f) == SendRegister(f, "ready", "resolved", "register")
Authenticates(f) == SendRegister(f, "register", "challenged", "authorize")

SecureConnect(t) ==
  /\ Quiet
  /\ status[t] = "connecting"
  /\ status' = [status EXCEPT ![t] = "open"]
  /\ got' = [f \in Fibers |-> IF on[f] = t THEN "resolved" ELSE got[f]]
  /\ UNCHANGED <<contact, loop, registration, backoff, pc, on, calls, books, dialogs, crashed>>

(* AbortSignal.timeout(10_000) ends the wait for the connection only.      *)
ConnectTimeout(f) ==
  /\ Quiet
  /\ pc[f] = "ready"
  /\ got' = [got EXCEPT ![f] = "rejected"]
  /\ UNCHANGED <<pc, on, net, registration, backoff, calls, books, dialogs, crashed>>

(* A second 401 and every status but 200 and 401 fail the registration, and*)
(* so does a 401 without a nonce.                                          *)
ReceiveRegisterResponse(t, f, answer) ==
  /\ Receiving(t)
  /\ on[f] = t
  /\ pc[f] \in {"register", "authorize"}
  /\ got[f] = "nothing"
  /\ got' = [got EXCEPT ![f] = CASE answer = "200" -> "resolved"
                                 [] answer = "401" /\ pc[f] = "register" -> "challenged"
                                 [] OTHER -> "rejected"]
  /\ contact' = IF answer = "200" THEN contact \cup {t} ELSE contact
  /\ UNCHANGED <<status, registration, backoff, pc, on, calls, books, dialogs, crashed>>

(* registerTransport() has returned to f, or thrown.                       *)
Succeeded(f) == Resuming /\ pc[f] \in {"register", "authorize"} /\ got[f] = "resolved"
Failed(f) == Resuming /\ got[f] = "rejected"

-----------------------------------------------------------------------------
(* register() and the refresh of the registration *)

(* The application calls register() again only if an earlier call failed.  *)
Register ==
  /\ Running
  /\ pc["register"] = "idle"
  /\ ~inviteHandler
  /\ StartFiber("register", signaling)
  /\ UNCHANGED <<net, registration, backoff, calls, books, dialogs, crashed>>

RegisterReturns ==
  /\ Succeeded("register")
  /\ EndFiber("register")
  /\ registered' = TRUE
  /\ refreshing' = TRUE
  /\ inviteHandler' = TRUE
  /\ UNCHANGED <<net, signaling, recoveryTransport, revoked, backoff, calls, books, dialogs,
                 crashed>>

RegisterThrows ==
  /\ Failed("register")
  /\ EndFiber("register")
  /\ UNCHANGED <<net, registration, backoff, calls, books, dialogs, crashed>>

RefreshTick ==
  /\ Quiet
  /\ refreshing
  /\ pc["refresh"] = "idle"
  /\ StartFiber("refresh", signaling)
  /\ UNCHANGED <<net, registration, backoff, calls, books, dialogs, crashed>>

(* A failed refresh is reported as signalingError and changes nothing.     *)
RefreshEnds ==
  /\ Succeeded("refresh") \/ Failed("refresh")
  /\ EndFiber("refresh")
  /\ UNCHANGED <<net, registration, backoff, calls, books, dialogs, crashed>>

-----------------------------------------------------------------------------
(* Loss of the connection and recovery *)

(* recover() up to its await, in a step that also fails the transports T.  *)
StartRecovery(T) ==
  \E t \in Transports :
    /\ Unreferenced(t)
    /\ recoveryTransport' = t
    /\ status' = [FailedStatus(T) EXCEPT ![t] = "connecting"]
    /\ contact' = contact \ {t}
    /\ pc' = [pc EXCEPT !["recover"] = "ready"]
    /\ on' = [on EXCEPT !["recover"] = t]
    /\ got' = [FailedGot(T) EXCEPT !["recover"] = "nothing"]
    /\ reply' = FailedReply(T)

StaysRegistered == registered' = registered /\ refreshing' = FALSE  \* mutation
Unregister == registered' = FALSE /\ refreshing' = FALSE

(* startSignalingRecoveryDeadline() of every call session.                 *)
NoDeadlines == deadlines' = deadlines  \* mutation
StartDeadlines == deadlines' = deadlines \cup callSessions

(* handleDisconnect() acts on the loss of the registered connection ...    *)
LoseSignaling ==
  /\ Unregister
  /\ recoveringSessions' = recoveringSessions \cup callSessions
  /\ StartDeadlines
  /\ StartRecovery({signaling})
  /\ UNCHANGED <<signaling, revoked, inviteHandler, callSessions, awaits, via>>

(* ... and on no other: before registration, on a replacement that has not *)
(* been adopted yet, after revoke().                                       *)
LoseOther(t) ==
  /\ Fail({t})
  /\ UNCHANGED <<contact, registration, pc, on, books, awaits, via>>

HandlesLossOf(t) == ~revoked /\ registered /\ t = signaling

(* The socket fails or closes, or the receive loop meets a message that it *)
(* cannot frame.                                                           *)
Drop(t) ==
  /\ status[t] \in {"connecting", "open"}
  /\ Quiet \/ (Running /\ loop = t)
  /\ loop' = NoTransport
  /\ IF HandlesLossOf(t) THEN LoseSignaling ELSE LoseOther(t)
  /\ UNCHANGED <<backoff, calls, crashed>>

RecoverDespiteRevoke == recoveryTransport # NoTransport  \* mutation
RecoverDeclines == revoked \/ recoveryTransport # NoTransport

ReconnectFires ==
  /\ Quiet
  /\ reconnectArmed
  /\ reconnectArmed' = FALSE
  /\ IF RecoverDeclines
       THEN UNCHANGED <<status, contact, recoveryTransport, fibers, reply>>
       ELSE StartRecovery({})
  /\ UNCHANGED <<loop, signaling, registered, revoked, refreshing, inviteHandler,
                 recoveryAttempt, reconnectDelay, calls, books, awaits, via, crashed>>

(* recover() goes on only if its transport is still the one in recovery.   *)
Superseded == revoked \/ recoveryTransport # on["recover"]

RecoverAbandons ==
  /\ Succeeded("recover") \/ Failed("recover")
  /\ Superseded
  /\ EndFiber("recover")
  /\ UNCHANGED <<net, registration, backoff, calls, books, dialogs, crashed>>

ReconcileNothing(S, t) == deadlines' = deadlines \ S /\ UNCHANGED dialogs  \* mutation

(* reconcileDialog() of every recovering call: its deadline is cancelled   *)
(* and its re-INVITE is written on the adopted transport, or throws there. *)
Reconcile(S, t) ==
  /\ deadlines' = deadlines \ S
  /\ awaits' = [s \in Sessions |-> IF s \in S THEN "final" ELSE awaits[s]]
  /\ via' = [s \in Sessions |-> IF s \in S THEN t ELSE via[s]]
  /\ reply' = [s \in Sessions |-> IF s \in S THEN IF status[t] = "open" THEN "nothing" ELSE "lost"
                                             ELSE reply[s]]

KeepAttempts == recoveryAttempt' = recoveryAttempt /\ reconnectDelay' = 0  \* mutation
ResetBackoff == recoveryAttempt' = 0 /\ reconnectDelay' = 0

RecoverAdopts ==
  /\ Succeeded("recover")
  /\ ~Superseded
  /\ EndFiber("recover")
  /\ signaling' = on["recover"]
  /\ recoveryTransport' = NoTransport
  /\ ResetBackoff
  /\ registered' = TRUE
  /\ refreshing' = TRUE
  /\ Reconcile(recoveringSessions, on["recover"])
  /\ recoveringSessions' = {}
  /\ UNCHANGED <<net, revoked, inviteHandler, reconnectArmed, calls, callSessions, crashed>>

Delays == <<1, 2, 4, 8, 16, 30>>
LastDelay == 5
LastDelaySeconds == 30
Delay(attempt) == Delays[attempt + 1]

UnlimitedDelay ==  \* mutation
  /\ reconnectArmed' = TRUE
  /\ reconnectDelay' = Delay(recoveryAttempt)
  /\ recoveryAttempt' = recoveryAttempt + 1
GiveUpAtLast ==  \* mutation
  /\ reconnectArmed' = (recoveryAttempt < LastDelay)
  /\ reconnectDelay' = Delay(recoveryAttempt)
  /\ recoveryAttempt' = IF recoveryAttempt < LastDelay THEN recoveryAttempt + 1 ELSE LastDelay

(* recoveryAttempt counts on in the code; past the last delay it makes no  *)
(* difference.                                                             *)
ArmReconnect ==
  /\ reconnectArmed' = TRUE
  /\ reconnectDelay' = Delay(recoveryAttempt)
  /\ recoveryAttempt' = IF recoveryAttempt < LastDelay THEN recoveryAttempt + 1 ELSE LastDelay

KeepReplacement == status' = status  \* mutation
DisposeReplacement == status' = FailedStatus({recoveryTransport})

(* A listener of the signalingError emitted here may call revoke().        *)
RecoverRetries(revokes) ==
  /\ Failed("recover")
  /\ ~Superseded
  /\ EndFiber("recover")
  /\ DisposeReplacement
  /\ recoveryTransport' = NoTransport
  /\ ArmReconnect
  /\ revoked' = revokes
  /\ inviteHandler' = (inviteHandler /\ ~revokes)
  /\ deadlines' = IF revokes THEN deadlines \ recoveringSessions ELSE deadlines
  /\ recoveringSessions' = IF revokes THEN {} ELSE recoveringSessions
  /\ UNCHANGED <<contact, loop, signaling, registered, refreshing, calls, callSessions, dialogs,
                 crashed>>

Revoke ==
  /\ Running
  /\ ~revoked
  /\ revoked' = TRUE
  /\ Unregister
  /\ inviteHandler' = FALSE
  /\ reconnectArmed' = FALSE
  /\ Fail({signaling, recoveryTransport} \ {NoTransport})
  /\ recoveryTransport' = NoTransport
  /\ deadlines' = deadlines \ recoveringSessions
  /\ recoveringSessions' = {}
  /\ UNCHANGED <<contact, loop, signaling, recoveryAttempt, reconnectDelay, pc, on, calls,
                 callSessions, awaits, via, crashed>>

-----------------------------------------------------------------------------
(* Inbound calls *)

KeepRecovering(s) ==  \* mutation
  callSessions' = callSessions \ {s} /\ recoveringSessions' = recoveringSessions
RemoveCallSession(s) ==
  callSessions' = callSessions \ {s} /\ recoveringSessions' = recoveringSessions \ {s}

(* CallSession.dispose(): the second call of it does nothing.              *)
Dispose(s) ==
  /\ phase' = [phase EXCEPT ![s] = "disposed"]
  /\ sockets' = sockets \ {s}
  /\ RemoveCallSession(s)
  /\ deadlines' = deadlines \ {s}

Settled(s) ==
  /\ awaits' = [awaits EXCEPT ![s] = "nothing"]
  /\ via' = [via EXCEPT ![s] = NoTransport]
  /\ reply' = [reply EXCEPT ![s] = "nothing"]

(* A new call.  The handler that register() installs answers 100 Trying on *)
(* the softphone's connection, which throws if that one is closed, and     *)
(* emits "invite"; without the handler nobody is told.                     *)
ReceiveInvite(t, s) ==
  /\ Receiving(t)
  /\ t \in contact
  /\ phase[s] \in {"idle", "missed", "disposed"}
  /\ awaits[s] = "nothing"
  /\ phase' = [phase EXCEPT ![s] = IF inviteHandler THEN "offered" ELSE "missed"]
  /\ crashed' = (inviteHandler /\ status[signaling] # "open")
  /\ confirmed' = confirmed \ {s}
  /\ UNCHANGED <<status, contact, registration, backoff, fibers, sockets, books, dialogs>>

Answer(s) ==
  /\ Running
  /\ phase[s] = "offered"
  /\ phase' = [phase EXCEPT ![s] = "binding"]
  /\ UNCHANGED <<net, registration, backoff, fibers, confirmed, sockets, books, dialogs, crashed>>

(* decline() sends 603, or throws without a connection.                    *)
Decline(s) ==
  /\ Running
  /\ phase[s] = "offered"
  /\ phase' = [phase EXCEPT ![s] = "disposed"]
  /\ UNCHANGED <<net, registration, backoff, fibers, confirmed, sockets, books, dialogs, crashed>>

(* The UDP socket is bound: 200 OK is written on the connection of that    *)
(* moment and its ACK awaited, or request() throws.                        *)
BindDone(s) ==
  /\ Quiet
  /\ phase[s] = "binding"
  /\ phase' = [phase EXCEPT ![s] = "answering"]
  /\ sockets' = sockets \cup {s}
  /\ awaits' = [awaits EXCEPT ![s] = "ack"]
  /\ via' = [via EXCEPT ![s] = signaling]
  /\ reply' = [reply EXCEPT ![s] = IF status[signaling] = "open" THEN "nothing" ELSE "lost"]
  /\ UNCHANGED <<net, registration, backoff, fibers, confirmed, books, crashed>>

BindFails(s) ==
  /\ Quiet
  /\ phase[s] = "binding"
  /\ phase' = [phase EXCEPT ![s] = "disposed"]
  /\ UNCHANGED <<net, registration, backoff, fibers, confirmed, sockets, books, dialogs, crashed>>

Resolve(t, s, awaited, outcome) ==
  reply' = [reply EXCEPT ![s] = IF awaits[s] = awaited /\ via[s] = t /\ @ = "nothing"
                                  THEN outcome ELSE @]

(* The wait goes on when BYE has disposed the call.                        *)
ReceiveAck(t, s) ==
  /\ Receiving(t)
  /\ t \in contact
  /\ awaits[s] = "ack" \/ phase[s] = "active"
  /\ s \notin confirmed
  /\ confirmed' = confirmed \cup {s}
  /\ Resolve(t, s, "ack", "ack")
  /\ UNCHANGED <<status, contact, registration, backoff, fibers, phase, sockets, books, awaits,
                 via, crashed>>

(* CANCEL carries the Call-ID and CSeq number of the INVITE, and so the key*)
(* under which the ACK is awaited.                                         *)
ReceiveCancel(t, s) ==
  /\ Receiving(t)
  /\ t \in contact
  /\ awaits[s] = "ack"
  /\ Resolve(t, s, "ack", "cancel")
  /\ UNCHANGED <<status, contact, registration, backoff, fibers, calls, books, awaits, via,
                 crashed>>

(* BYE is heard on every connection of the softphone.                      *)
ReceiveBye(t, s) ==
  /\ Receiving(t)
  /\ t \in contact
  /\ phase[s] \in {"answering", "active"}
  /\ Dispose(s)
  /\ UNCHANGED <<status, contact, registration, backoff, fibers, confirmed, dialogs, crashed>>

StartDisposedMedia(s) == phase[s] \in {"answering", "disposed"}  \* mutation
MediaUsable(s) == phase[s] = "answering"

(* The ACK wait has resolved.  Media starts unless the call was disposed   *)
(* meanwhile or neither body holds a usable SDP; either throws.            *)
AnswerReturns(s) ==
  /\ Resuming
  /\ awaits[s] = "ack"
  /\ reply[s] \in {"ack", "cancel"}
  /\ MediaUsable(s)
  /\ phase' = [phase EXCEPT ![s] = "active"]
  /\ callSessions' = callSessions \cup {s}
  /\ Settled(s)
  /\ UNCHANGED <<net, registration, backoff, fibers, confirmed, sockets, recoveringSessions,
                 deadlines, crashed>>

AnswerThrows(s) ==
  /\ Resuming
  /\ awaits[s] = "ack"
  /\ reply[s] # "nothing"
  /\ Dispose(s)
  /\ Settled(s)
  /\ UNCHANGED <<net, registration, backoff, fibers, confirmed, crashed>>

(* hangup() throws without a connection, and then disposes nothing.        *)
Hangup(s) ==
  /\ Running
  /\ phase[s] = "active"
  /\ status[signaling] = "open"
  /\ Dispose(s)
  /\ UNCHANGED <<net, registration, backoff, fibers, confirmed, dialogs, crashed>>

-----------------------------------------------------------------------------
(* The deadline of a call without signaling, and its reconciliation *)

DeadlineFires(s) ==
  /\ Quiet
  /\ s \in deadlines
  /\ Dispose(s)
  /\ UNCHANGED <<net, registration, backoff, fibers, confirmed, dialogs, crashed>>

ReceiveReinviteResponse(t, s, outcome) ==
  /\ Receiving(t)
  /\ via[s] = t
  /\ awaits[s] = "final"
  /\ Resolve(t, s, "final", outcome)
  /\ UNCHANGED <<status, contact, registration, backoff, fibers, calls, books, awaits, via,
                 crashed>>

(* The ACK of a 2xx is written on the connection of that moment.           *)
ReconcileSucceeds(s) ==
  /\ Resuming
  /\ awaits[s] = "final"
  /\ reply[s] = "2xx"
  /\ status[signaling] = "open"
  /\ Settled(s)
  /\ UNCHANGED <<net, registration, backoff, fibers, calls, books, crashed>>

ReconcileFails(s) ==
  /\ Resuming
  /\ awaits[s] = "final"
  /\ reply[s] \in {"non2xx", "lost"} \/ (reply[s] = "2xx" /\ status[signaling] # "open")
  /\ Dispose(s)
  /\ Settled(s)
  /\ UNCHANGED <<net, registration, backoff, fibers, confirmed, crashed>>

NoTimeout(s) == FALSE /\ UNCHANGED vars  \* mutation

(* 32 s without a final response.  The request stays in the transport's    *)
(* table, but a late response changes nothing any more.                    *)
ReconcileTimeout(s) ==
  /\ Quiet
  /\ awaits[s] = "final"
  /\ Dispose(s)
  /\ Settled(s)
  /\ UNCHANGED <<net, registration, backoff, fibers, confirmed, crashed>>

-----------------------------------------------------------------------------
EndLoop ==
  /\ Running
  /\ loop # NoTransport
  /\ loop' = NoTransport
  /\ UNCHANGED <<status, contact, registration, backoff, fibers, calls, books, dialogs, crashed>>

Resume ==
  \/ RegisterReturns
  \/ RegisterThrows
  \/ RefreshEnds
  \/ RecoverAbandons
  \/ RecoverAdopts
  \/ \E revokes \in BOOLEAN : RecoverRetries(revokes)
  \/ \E f \in Fibers : Registers(f) \/ Authenticates(f)
  \/ \E s \in Sessions : \/ AnswerReturns(s)
                         \/ AnswerThrows(s)
                         \/ ReconcileSucceeds(s)
                         \/ ReconcileFails(s)

Timer ==
  \/ RefreshTick
  \/ ReconnectFires
  \/ \E f \in Fibers : ConnectTimeout(f)
  \/ \E s \in Sessions : DeadlineFires(s) \/ ReconcileTimeout(s)

Receive ==
  \E t \in Transports :
    \/ \E f \in Fibers, answer \in {"200", "401", "403"} : ReceiveRegisterResponse(t, f, answer)
    \/ \E s \in Sessions : \/ ReceiveInvite(t, s)
                           \/ ReceiveAck(t, s)
                           \/ ReceiveCancel(t, s)
                           \/ ReceiveBye(t, s)
                           \/ \E outcome \in {"2xx", "non2xx"} :
                                ReceiveReinviteResponse(t, s, outcome)

Socket ==
  \/ \E t \in Transports : SecureConnect(t) \/ Drop(t)
  \/ \E s \in Sessions : BindDone(s) \/ BindFails(s)

Call ==
  \/ Register
  \/ Revoke
  \/ \E s \in Sessions : Answer(s) \/ Decline(s) \/ Hangup(s)

Next == Resume \/ Timer \/ Receive \/ EndLoop \/ Socket \/ Call

Spec == Init /\ [][Next]_vars

(* What Node.js provides: a turn ends, a settled promise resumes whoever   *)
(* awaits it, and a timer that is due fires in the timers phase of the     *)
(* event loop although other turns come between.                           *)
TurnsEnd ==
  /\ WF_vars(EndLoop)
  /\ WF_vars(RegisterReturns)
  /\ WF_vars(RegisterThrows)
  /\ WF_vars(RefreshEnds)
  /\ WF_vars(RecoverAbandons)
  /\ WF_vars(RecoverAdopts)
  /\ WF_vars(\E revokes \in BOOLEAN : RecoverRetries(revokes))
  /\ \A f \in Fibers : WF_vars(Registers(f) \/ Authenticates(f))
  /\ \A s \in Sessions : /\ WF_vars(AnswerReturns(s) \/ AnswerThrows(s))
                         /\ WF_vars(ReconcileSucceeds(s) \/ ReconcileFails(s))
TimersFire ==
  /\ SF_vars(ReconnectFires)
  /\ SF_vars(ConnectTimeout("recover"))
  /\ \A s \in Sessions : SF_vars(DeadlineFires(s)) /\ SF_vars(ReconcileTimeout(s))

(* What only the network can provide: it does not prevent every attempt.   *)
NetworkRecovers ==
  /\ SF_vars(\E t \in Transports : t = recoveryTransport /\ SecureConnect(t))
  /\ SF_vars(\E t \in Transports : ReceiveRegisterResponse(t, "recover", "200"))

FairSpec == Spec /\ TurnsEnd /\ TimersFire

-----------------------------------------------------------------------------
(* Properties *)

Statuses == {"free", "connecting", "open", "closed"}
Places == {"idle", "ready", "register", "authorize"}
Outcomes == {"nothing", "resolved", "challenged", "rejected"}
Phases == {"idle", "missed", "offered", "binding", "answering", "active", "disposed"}
Replies == {"nothing", "ack", "cancel", "2xx", "non2xx", "lost"}
MaybeTransport == Transports \cup {NoTransport}

(* The type invariant of the fields of Softphone (index.ts:36-52), of the  *)
(* functions that are suspended, and of the calls.                         *)
TypeOK ==
  /\ status \in [Transports -> Statuses]
  /\ contact \in SUBSET Transports
  /\ loop \in MaybeTransport
  /\ signaling \in Transports
  /\ recoveryTransport \in MaybeTransport
  /\ registered \in BOOLEAN
  /\ revoked \in BOOLEAN
  /\ refreshing \in BOOLEAN
  /\ recoveryAttempt \in 0 .. LastDelay
  /\ reconnectArmed \in BOOLEAN
  /\ reconnectDelay \in {0, 1, 2, 4, 8, 16, 30}
  /\ inviteHandler \in BOOLEAN
  /\ pc \in [Fibers -> Places]
  /\ on \in [Fibers -> MaybeTransport]
  /\ got \in [Fibers -> Outcomes]
  /\ phase \in [Sessions -> Phases]
  /\ confirmed \in SUBSET Sessions
  /\ sockets \in SUBSET Sessions
  /\ callSessions \in SUBSET Sessions
  /\ recoveringSessions \in SUBSET Sessions
  /\ deadlines \in SUBSET Sessions
  /\ awaits \in [Sessions -> {"nothing", "ack", "final"}]
  /\ via \in [Sessions -> MaybeTransport]
  /\ reply \in [Sessions -> Replies]
  /\ crashed \in BOOLEAN

Live(t) == status[t] \in {"connecting", "open"}

(* Every connection that is not closed is the softphone's own or the one   *)
(* being tried: no path through failed attempts, adoption and revoke()     *)
(* forgets a socket (index.ts:171-209, 227-240).                           *)
NoLeakedConnection ==
  \A t \in Transports : Live(t) => t \in {signaling, recoveryTransport}

(* At most one recovery is under way: while a replacement is being tried   *)
(* no timer will start another, the lost connection is closed, and nothing *)
(* is registered (index.ts:157-175).                                       *)
SingleRecovery ==
  recoveryTransport # NoTransport =>
    /\ recoveryTransport # signaling
    /\ ~reconnectArmed
    /\ ~registered
    /\ ~revoked
    /\ status[signaling] = "closed"
    /\ on["recover"] = recoveryTransport

(* What is waited for may still come: no function, and no call, waits for a*)
(* connection that has failed, or for one to open that is open.            *)
NobodyWaitsInVain ==
  /\ \A f \in Fibers : pc[f] # "idle" /\ got[f] = "nothing" =>
       status[on[f]] = IF pc[f] = "ready" THEN "connecting" ELSE "open"
  /\ \A s \in Sessions : awaits[s] # "nothing" /\ reply[s] = "nothing" =>
       status[via[s]] = "open"

(* A softphone that has registered is registered, or trying a replacement, *)
(* or waiting for the next attempt: recovery never just stops, neither by a*)
(* path that arms no timer nor in a wait that cannot end                   *)
(* (index.ts:77-107, 157-209; sip-transport.ts:240-266).                   *)
RecoveryIsDue ==
  inviteHandler => registered \/ recoveryTransport # NoTransport \/ reconnectArmed
OutageIsBeingRepaired == RecoveryIsDue /\ NobodyWaitsInVain

(* The five-minute deadlines run for exactly the calls to be reconciled,   *)
(* these are calls in progress, and they exist only during an outage, so   *)
(* that no deadline of an earlier outage can end a reconciled call         *)
(* (index.ts:157-166, 187-191; call-session/index.ts:200-216).             *)
DeadlineTracksOutage ==
  /\ deadlines = recoveringSessions
  /\ recoveringSessions \subseteq callSessions
  /\ deadlines # {} => ~registered /\ ~revoked /\ status[signaling] = "closed"

(* revoke() is final for the network: no connection is left or comes back, *)
(* whichever attempt or timer it overtakes (index.ts:227-240).             *)
RevokedIsOffline ==
  revoked => /\ \A t \in Transports : ~Live(t)
             /\ recoveryTransport = NoTransport
             /\ deadlines = {}

(* The set of call sessions holds the answered calls and no disposed one,  *)
(* and a call has its UDP socket from the answer to its end, however       *)
(* answer() ends (call-session/inbound.ts:11-41, index.ts:101-114).        *)
CallsHoldTheirSockets ==
  /\ callSessions = {s \in Sessions : phase[s] = "active"}
  /\ sockets = {s \in Sessions : phase[s] \in {"answering", "active"}}

(* The delay before the next attempt is 1 s after a success, then grows    *)
(* with every failure until it stays at 30 s (index.ts:202-207).           *)
BackoffGrows ==
  [][~reconnectArmed /\ reconnectArmed' =>
       IF reconnectDelay = 0 THEN reconnectDelay' = 1
       ELSE reconnectDelay' > reconnectDelay \/ reconnectDelay' = LastDelaySeconds]_vars

(* A call is taken out of an outage only by its own end, by revoke(), or   *)
(* by a reconciliation: the re-INVITE is outstanding on the adopted        *)
(* connection, or has already failed there.                                *)
OutageEndsInReconciliation ==
  [][\A s \in recoveringSessions \ recoveringSessions' :
       s \in callSessions' => revoked' \/ (awaits'[s] = "final" /\ via'[s] = signaling')]_vars

(* If the network does not prevent every attempt, a recovery ends in a     *)
(* registration, unless the application gives up.                          *)
RecoveryCompletes ==
  NetworkRecovers =>
    (recoveryTransport # NoTransport \/ reconnectArmed ~> registered \/ revoked \/ crashed)

(* A call that lost its signaling is not left in between: its deadline     *)
(* disposes it or a reconciliation takes it over, and the reconciliation   *)
(* ends.  The network may stay down for ever (call-session/index.ts:       *)
(* 200-233).                                                               *)
CallsLeaveOutage ==
  \A s \in Sessions :
    /\ s \in recoveringSessions ~> s \notin recoveringSessions \/ crashed
    /\ awaits[s] = "final" ~> awaits[s] = "nothing" \/ crashed

(* The connection as the calls see it.  A replacement is being adopted from*)
(* the 200 OK to its REGISTER to the continuation of recover().            *)
Replaced ==
  /\ recoveryTransport # NoTransport
  /\ pc["recover"] \in {"register", "authorize"}
  /\ got["recover"] = "resolved"
Link ==
  CASE revoked                         -> "closed"
    [] ~revoked /\ ~inviteHandler      -> "unregistered"
    [] ~revoked /\ inviteHandler /\ registered ->
         IF status[signaling] = "open" THEN "up" ELSE "closed"
    [] ~revoked /\ inviteHandler /\ ~registered ->
         IF ~Replaced THEN "down"
         ELSE IF status[recoveryTransport] = "open" THEN "adopting" ELSE "stillborn"
Reconciling == {s \in callSessions : awaits[s] = "final"}

(* A peer is heard, on whichever transport, only over a link.              *)
HeardOnLink ==
  \A t \in contact : status[t] = "open" => Link \in {"unregistered", "up", "adopting"}

(* What the calls rely on: through losses, attempts, adoptions and         *)
(* revoke() the connection and the calls behave as in Connection, and no   *)
(* message of a peer comes while the link is down (index.ts:157-240;       *)
(* call-session/index.ts:200-241).                                         *)
CallsConnection == INSTANCE Connection
  WITH Calls <- Sessions, link <- Link, served <- callSessions, reconciling <- Reconciling
ImplementsConnection == CallsConnection!Spec /\ []HeardOnLink

-----------------------------------------------------------------------------
(* What the documentation says and the code does not do *)

(* "After a successful registration, the SDK automatically reconnects"     *)
(* (README.md:168): a softphone that takes itself for registered between   *)
(* turns has a connection.                                                 *)
RegisteredMeansConnected ==
  Quiet /\ registered => status[signaling] = "open"

(* Recovery is automatic and failures are events (README.md:168-170): no   *)
(* message of the server ends the process.                                 *)
NoUncaughtException == ~crashed

(* "Active UDP/SRTP media continues during recovery for up to five         *)
(* minutes" (README.md:328): between turns a call without signaling has    *)
(* its deadline.                                                           *)
OutageHasDeadline ==
  Quiet /\ inviteHandler /\ ~registered => callSessions \subseteq deadlines

(* answer() resolves with a call whose ACK has come: the code takes the    *)
(* response for "ackMessage" (call-session/inbound.ts:30-33).              *)
AnsweredMeansAcknowledged ==
  \A s \in Sessions : phase[s] = "active" => s \in confirmed

(* "Attach the `invite` listener before registering so an inbound call     *)
(* cannot arrive between registration and listener setup" (README.md:137). *)
NoInviteMissed ==
  \A s \in Sessions : phase[s] # "missed"

-----------------------------------------------------------------------------
(* How far that goes *)

WithoutDeadline(s) ==
  s \in callSessions \ deadlines /\ Link \in {"down", "adopting", "stillborn"}

(* Of the messages of this module only INVITE makes the program throw, and *)
(* only in the turn of the 200 OK to a replacement (NOTIFY and the final   *)
(* response to call(), which OutboundCall models, do so, too); an invite is*)
(* missed only until register() has returned; the link closes without      *)
(* revoke() only if the connection fails in the turn of its 200 OK; and a  *)
(* call is in an outage without a deadline only if it was not yet active   *)
(* when the outage began (index.ts:53-75, 157-209).                        *)
FailuresAreConfined ==
  [][/\ crashed' # crashed => Link = "adopting"
     /\ \A s \in Sessions : phase'[s] = "missed" /\ phase[s] # "missed" => Link = "unregistered"
     /\ Link' = "closed" /\ Link # "closed" => revoked' \/ Link \in {"unregistered", "stillborn"}
     /\ \A s \in callSessions : WithoutDeadline(s)' => WithoutDeadline(s)]_vars
=============================================================================
