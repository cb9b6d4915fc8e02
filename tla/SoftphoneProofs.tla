-------------------------- MODULE SoftphoneProofs --------------------------
(***************************************************************************)
(* Theorems about Softphone for any set of transports and of calls.        *)
(*                                                                         *)
(* The safety properties of a recovery support each other: that a failed   *)
(* attempt leaks no connection needs that the lost one is closed, that a   *)
(* new registration finds no recovery under way needs that the first       *)
(* register() has returned, and so on.  Inv is their conjunction with the  *)
(* facts that close the circle.                                            *)
(***************************************************************************)
EXTENDS Softphone, TLAPS

(* A function is suspended on a transport exactly while it runs, and its   *)
(* promise settles only then.                                              *)
FibersAwait ==
  \A f \in Fibers : on[f] = NoTransport => pc[f] = "idle" /\ got[f] = "nothing"

(* The reconnect timer runs while nothing is registered or being tried.    *)
TimerMeansOutage ==
  reconnectArmed /\ ~revoked =>
    /\ ~registered
    /\ recoveryTransport = NoTransport
    /\ status[signaling] = "closed"

(* The first register() returns before anything can be lost, and never     *)
(* runs beside a recovery.                                                 *)
RegisterComesFirst ==
  /\ inviteHandler => pc["register"] = "idle"
  /\ registered /\ ~revoked => inviteHandler
  /\ recoveryTransport # NoTransport => inviteHandler
  /\ reconnectArmed /\ ~revoked => inviteHandler
  /\ deadlines # {} => inviteHandler

(* Only the continuation of a register() that revoke() overtook in the     *)
(* same turn sets the handler again; it sets `registered` as well.         *)
RevokedHandler == revoked /\ inviteHandler => registered

Inv ==
  /\ TypeOK
  /\ FibersAwait
  /\ NoLeakedConnection
  /\ SingleRecovery
  /\ TimerMeansOutage
  /\ RegisterComesFirst
  /\ RevokedIsOffline
  /\ RevokedHandler
  /\ RecoveryIsDue
  /\ DeadlineTracksOutage
  /\ CallsHoldTheirSockets

-----------------------------------------------------------------------------
(* The initial states satisfy the invariant. *)
LEMMA InitInv == Init => Inv
<1>. SUFFICES ASSUME Init PROVE Inv
  OBVIOUS
<1>. USE NoTransportAssumption DEF Init
<1>1. TypeOK
  <2>1. status \in [Transports -> Statuses] /\ signaling \in Transports
    BY DEF Statuses
  <2>2. /\ pc \in [Fibers -> Places]
        /\ on \in [Fibers -> MaybeTransport]
        /\ got \in [Fibers -> Outcomes]
    BY DEF MaybeTransport, Places, Outcomes
  <2>3. phase \in [Sessions -> Phases] /\ reply \in [Sessions -> Replies]
    BY DEF Phases, Replies
  <2>4. via \in [Sessions -> MaybeTransport] /\ awaits \in [Sessions -> {"nothing", "ack", "final"}]
    BY DEF MaybeTransport
  <2>5. recoveryAttempt \in 0 .. LastDelay /\ reconnectDelay \in {0, 1, 2, 4, 8, 16, 30}
    BY DEF LastDelay
  <2>. QED
    BY <2>1, <2>2, <2>3, <2>4, <2>5 DEF TypeOK, MaybeTransport
<1>2. FibersAwait /\ NoLeakedConnection /\ SingleRecovery
  BY DEF FibersAwait, NoLeakedConnection, Live, SingleRecovery
<1>3. TimerMeansOutage /\ RegisterComesFirst /\ RevokedIsOffline /\ RevokedHandler
  BY DEF TimerMeansOutage, RegisterComesFirst, RevokedIsOffline, RevokedHandler
<1>4. RecoveryIsDue /\ DeadlineTracksOutage /\ CallsHoldTheirSockets
  BY DEF RecoveryIsDue, DeadlineTracksOutage, CallsHoldTheirSockets
<1>. QED
  BY <1>1, <1>2, <1>3, <1>4 DEF Inv

-----------------------------------------------------------------------------
(* Types *)

(* A fiber starts, ends or goes on: its fields keep their types.           *)
LEMMA FiberTypes ==
  ASSUME TypeOK, NEW f \in Fibers, NEW t \in Transports, StartFiber(f, t) \/ EndFiber(f)
  PROVE  /\ pc' \in [Fibers -> Places]
         /\ on' \in [Fibers -> MaybeTransport]
         /\ got' \in [Fibers -> Outcomes]
<1>1. ReadyNow(t) \in Outcomes
  BY DEF TypeOK, ReadyNow, Outcomes, Statuses
<1>. QED
  BY <1>1 DEF TypeOK, StartFiber, EndFiber, Places, Outcomes, MaybeTransport

(* fail() changes a status, a promise and a reply within their types.      *)
LEMMA FailTypes ==
  ASSUME TypeOK, NEW T
  PROVE  /\ FailedStatus(T) \in [Transports -> Statuses]
         /\ FailedGot(T) \in [Fibers -> Outcomes]
         /\ FailedReply(T) \in [Sessions -> Replies]
BY DEF TypeOK, FailedStatus, FailedGot, FailedReply, Statuses, Outcomes, Replies

(* recover() keeps the types.                                              *)
LEMMA StartRecoveryTypes ==
  ASSUME TypeOK, NEW T, StartRecovery(T)
  PROVE  /\ recoveryTransport' \in MaybeTransport
         /\ status' \in [Transports -> Statuses]
         /\ contact' \in SUBSET Transports
         /\ pc' \in [Fibers -> Places]
         /\ on' \in [Fibers -> MaybeTransport]
         /\ got' \in [Fibers -> Outcomes]
         /\ reply' \in [Sessions -> Replies]
BY FailTypes DEF TypeOK, StartRecovery, Statuses, Places, Outcomes, MaybeTransport, Fibers

(* So does dispose().                                                      *)
LEMMA DisposeTypes ==
  ASSUME TypeOK, NEW s \in Sessions, Dispose(s)
  PROVE  /\ phase' \in [Sessions -> Phases]
         /\ sockets' \in SUBSET Sessions
         /\ callSessions' \in SUBSET Sessions
         /\ recoveringSessions' \in SUBSET Sessions
         /\ deadlines' \in SUBSET Sessions
BY DEF TypeOK, Dispose, RemoveCallSession, Phases

(* So does a wait of a call that is over.                                  *)
LEMMA SettledTypes ==
  ASSUME TypeOK, NEW s \in Sessions, Settled(s)
  PROVE  /\ awaits' \in [Sessions -> {"nothing", "ack", "final"}]
         /\ via' \in [Sessions -> MaybeTransport]
         /\ reply' \in [Sessions -> Replies]
BY DEF TypeOK, Settled, MaybeTransport, Replies

(* So does the count of the failures.                                      *)
LEMMA BackoffTypes ==
  ASSUME TypeOK, ArmReconnect
  PROVE  /\ recoveryAttempt' \in 0 .. LastDelay
         /\ reconnectArmed' \in BOOLEAN
         /\ reconnectDelay' \in {0, 1, 2, 4, 8, 16, 30}
<1>1. Delay(recoveryAttempt) \in {1, 2, 4, 8, 16, 30}
  <2>1. recoveryAttempt \in {0, 1, 2, 3, 4, 5}
    BY DEF TypeOK, LastDelay
  <2>. QED
    BY <2>1 DEF Delay, Delays
<1>2. recoveryAttempt' \in 0 .. LastDelay
  BY DEF TypeOK, ArmReconnect, LastDelay
<1>. QED
  BY <1>1, <1>2 DEF ArmReconnect

(* Every step preserves the types. *)
LEMMA NextTypeOK == TypeOK /\ FibersAwait /\ [Next]_vars => TypeOK'
<1>. SUFFICES ASSUME TypeOK, FibersAwait, [Next]_vars PROVE TypeOK'
  OBVIOUS
<1>. USE DEF net, registration, backoff, fibers, calls, books, dialogs
<1>1. RegisterReturns => TypeOK'
  BY FiberTypes DEF TypeOK, RegisterReturns, Fibers
<1>2. RegisterThrows => TypeOK'
  BY FiberTypes DEF TypeOK, RegisterThrows, Fibers
<1>3. RefreshEnds => TypeOK'
  BY FiberTypes DEF TypeOK, RefreshEnds, Fibers
<1>4. RecoverAbandons => TypeOK'
  BY FiberTypes DEF TypeOK, RecoverAbandons, Fibers
<1>5. RecoverAdopts => TypeOK'
  <2>. SUFFICES ASSUME RecoverAdopts PROVE TypeOK'
    OBVIOUS
  <2>1. /\ pc' \in [Fibers -> Places]
        /\ on' \in [Fibers -> MaybeTransport]
        /\ got' \in [Fibers -> Outcomes]
    BY FiberTypes DEF TypeOK, RecoverAdopts, Fibers
  <2>2. signaling' \in Transports
    BY DEF TypeOK, FibersAwait, RecoverAdopts, Succeeded, Fibers, MaybeTransport
  <2>3. /\ deadlines' \in SUBSET Sessions
        /\ awaits' \in [Sessions -> {"nothing", "ack", "final"}]
    BY DEF TypeOK, RecoverAdopts, Reconcile
  <2>5. reply' \in [Sessions -> Replies]
    BY DEF TypeOK, RecoverAdopts, Reconcile, Replies
  <2>4. via' \in [Sessions -> MaybeTransport]
    <3>1. on["recover"] \in MaybeTransport
      BY DEF TypeOK, Fibers
    <3>. QED
      BY <3>1 DEF TypeOK, RecoverAdopts, Reconcile
  <2>. QED
    BY <2>1, <2>2, <2>3, <2>4, <2>5 DEF TypeOK, RecoverAdopts, ResetBackoff, LastDelay, MaybeTransport
<1>6. ASSUME NEW revokes \in BOOLEAN PROVE RecoverRetries(revokes) => TypeOK'
  BY FiberTypes, FailTypes, BackoffTypes
     DEF TypeOK, RecoverRetries, DisposeReplacement, Fibers, MaybeTransport
<1>7. ASSUME NEW f \in Fibers
      PROVE  Registers(f) \/ Authenticates(f) \/ ConnectTimeout(f) => TypeOK'
  BY DEF TypeOK, Registers, Authenticates, SendRegister, ConnectTimeout, Places, Outcomes
<1>8. ASSUME NEW s \in Sessions PROVE AnswerReturns(s) \/ AnswerThrows(s) => TypeOK'
  <2>1. AnswerReturns(s) => TypeOK'
    BY SettledTypes DEF TypeOK, AnswerReturns, Phases
  <2>2. AnswerThrows(s) => TypeOK'
    BY SettledTypes, DisposeTypes DEF TypeOK, AnswerThrows
  <2>. QED
    BY <2>1, <2>2
<1>9. ASSUME NEW s \in Sessions PROVE ReconcileSucceeds(s) \/ ReconcileFails(s) => TypeOK'
  <2>1. ReconcileSucceeds(s) => TypeOK'
    BY SettledTypes DEF TypeOK, ReconcileSucceeds
  <2>2. ReconcileFails(s) => TypeOK'
    BY SettledTypes, DisposeTypes DEF TypeOK, ReconcileFails
  <2>. QED
    BY <2>1, <2>2
<1>10. RefreshTick => TypeOK'
  BY FiberTypes DEF TypeOK, RefreshTick, Fibers
<1>11. ReconnectFires => TypeOK'
  BY StartRecoveryTypes DEF TypeOK, ReconnectFires
<1>12. ASSUME NEW s \in Sessions PROVE DeadlineFires(s) \/ ReconcileTimeout(s) => TypeOK'
  <2>1. DeadlineFires(s) => TypeOK'
    BY DisposeTypes DEF TypeOK, DeadlineFires
  <2>2. ReconcileTimeout(s) => TypeOK'
    BY SettledTypes, DisposeTypes DEF TypeOK, ReconcileTimeout
  <2>. QED
    BY <2>1, <2>2
<1>13. ASSUME NEW t \in Transports, NEW f \in Fibers, NEW answer \in {"200", "401", "403"}
       PROVE  ReceiveRegisterResponse(t, f, answer) => TypeOK'
  BY DEF TypeOK, ReceiveRegisterResponse, Receiving, Outcomes, MaybeTransport
<1>14. ASSUME NEW t \in Transports, NEW s \in Sessions
       PROVE  ReceiveInvite(t, s) \/ ReceiveAck(t, s) \/ ReceiveCancel(t, s) \/ ReceiveBye(t, s)
              => TypeOK'
  <2>1. ReceiveInvite(t, s) => TypeOK'
    BY DEF TypeOK, ReceiveInvite, Receiving, Phases, MaybeTransport
  <2>2. ReceiveAck(t, s) \/ ReceiveCancel(t, s) => TypeOK'
    BY DEF TypeOK, ReceiveAck, ReceiveCancel, Resolve, Receiving, Replies, MaybeTransport
  <2>3. ReceiveBye(t, s) => TypeOK'
    BY DisposeTypes DEF TypeOK, ReceiveBye, Receiving, MaybeTransport
  <2>. QED
    BY <2>1, <2>2, <2>3
<1>15. ASSUME NEW t \in Transports, NEW s \in Sessions, NEW outcome \in {"2xx", "non2xx"}
       PROVE  ReceiveReinviteResponse(t, s, outcome) => TypeOK'
  BY DEF TypeOK, ReceiveReinviteResponse, Resolve, Receiving, Replies, MaybeTransport
<1>16. EndLoop => TypeOK'
  BY DEF TypeOK, EndLoop, MaybeTransport
<1>17. ASSUME NEW t \in Transports PROVE SecureConnect(t) \/ Drop(t) => TypeOK'
  <2>1. SecureConnect(t) => TypeOK'
    BY DEF TypeOK, SecureConnect, Statuses, Outcomes
  <2>2. Drop(t) /\ HandlesLossOf(t) => TypeOK'
    BY StartRecoveryTypes
       DEF TypeOK, Drop, LoseSignaling, Unregister, StartDeadlines, MaybeTransport
  <2>3. Drop(t) /\ ~HandlesLossOf(t) => TypeOK'
    BY FailTypes DEF TypeOK, Drop, LoseOther, Fail, MaybeTransport
  <2>. QED
    BY <2>1, <2>2, <2>3
<1>18. ASSUME NEW s \in Sessions PROVE BindDone(s) \/ BindFails(s) => TypeOK'
  BY DEF TypeOK, BindDone, BindFails, Phases, Replies, MaybeTransport
<1>19. Register => TypeOK'
  BY FiberTypes DEF TypeOK, Register, Fibers
<1>20. Revoke => TypeOK'
  <2>. DEFINE T == {signaling, recoveryTransport} \ {NoTransport}
  <2>1. /\ FailedStatus(T) \in [Transports -> Statuses]
        /\ FailedGot(T) \in [Fibers -> Outcomes]
        /\ FailedReply(T) \in [Sessions -> Replies]
    BY FailTypes
  <2>. QED
    BY <2>1 DEF TypeOK, Revoke, Unregister, Fail, MaybeTransport
<1>21. ASSUME NEW s \in Sessions PROVE Answer(s) \/ Decline(s) \/ Hangup(s) => TypeOK'
  <2>1. Answer(s) \/ Decline(s) => TypeOK'
    BY DEF TypeOK, Answer, Decline, Phases
  <2>2. Hangup(s) => TypeOK'
    BY DisposeTypes DEF TypeOK, Hangup
  <2>. QED
    BY <2>1, <2>2
<1>22. UNCHANGED vars => TypeOK'
  BY DEF TypeOK, vars
<1>23. CASE Resume
  <2>. USE <1>1, <1>2, <1>3, <1>4, <1>5
  <2>1. CASE \E revokes \in BOOLEAN : RecoverRetries(revokes)
    BY <2>1, <1>6
  <2>2. CASE \E f \in Fibers : Registers(f) \/ Authenticates(f)
    BY <2>2, <1>7
  <2>3. CASE \E s \in Sessions : \/ AnswerReturns(s) \/ AnswerThrows(s)
                                \/ ReconcileSucceeds(s) \/ ReconcileFails(s)
    BY <2>3, <1>8, <1>9
  <2>. QED
    BY <1>23, <2>1, <2>2, <2>3 DEF Resume
<1>24. CASE Timer
  BY <1>24, <1>7, <1>10, <1>11, <1>12 DEF Timer
<1>25. CASE Receive
  BY <1>25, <1>13, <1>14, <1>15 DEF Receive
<1>26. CASE Socket \/ Call
  BY <1>26, <1>17, <1>18, <1>19, <1>20, <1>21 DEF Socket, Call
<1>. QED
  BY <1>16, <1>22, <1>23, <1>24, <1>25, <1>26 DEF Next

-----------------------------------------------------------------------------
(* Suspended functions *)

(* Every step keeps the awaiting functions and their promises in step.     *)
LEMMA NextFibersAwait == TypeOK /\ FibersAwait /\ [Next]_vars => FibersAwait'
<1>. SUFFICES ASSUME TypeOK, FibersAwait, [Next]_vars PROVE FibersAwait'
  OBVIOUS
<1>. USE NoTransportAssumption DEF TypeOK, FibersAwait, fibers, Fibers
<1>1. RegisterReturns \/ RegisterThrows \/ RefreshEnds \/ RecoverAbandons \/ RecoverAdopts
      => FibersAwait'
  BY DEF RegisterReturns, RegisterThrows, RefreshEnds, RecoverAbandons, RecoverAdopts, EndFiber
<1>2. ASSUME NEW revokes \in BOOLEAN PROVE RecoverRetries(revokes) => FibersAwait'
  BY DEF RecoverRetries, EndFiber
<1>3. ASSUME NEW f \in Fibers
      PROVE  Registers(f) \/ Authenticates(f) \/ ConnectTimeout(f) => FibersAwait'
  BY DEF Registers, Authenticates, SendRegister, ConnectTimeout
<1>4. ASSUME NEW s \in Sessions
      PROVE  \/ AnswerReturns(s) \/ AnswerThrows(s) \/ ReconcileSucceeds(s) \/ ReconcileFails(s)
             \/ DeadlineFires(s) \/ ReconcileTimeout(s) \/ BindDone(s) \/ BindFails(s)
             \/ Answer(s) \/ Decline(s) \/ Hangup(s)
             => FibersAwait'
  BY DEF AnswerReturns, AnswerThrows, ReconcileSucceeds, ReconcileFails, DeadlineFires,
         ReconcileTimeout, BindDone, BindFails, Answer, Decline, Hangup
<1>5. RefreshTick \/ Register => FibersAwait'
  BY DEF RefreshTick, Register, StartFiber
<1>6. ReconnectFires => FibersAwait'
  BY DEF ReconnectFires, StartRecovery, FailedGot
<1>7. ASSUME NEW t \in Transports, NEW f \in Fibers, NEW answer \in {"200", "401", "403"}
      PROVE  ReceiveRegisterResponse(t, f, answer) => FibersAwait'
  BY DEF ReceiveRegisterResponse
<1>8. ASSUME NEW t \in Transports, NEW s \in Sessions
      PROVE  ReceiveInvite(t, s) \/ ReceiveAck(t, s) \/ ReceiveCancel(t, s) \/ ReceiveBye(t, s)
             => FibersAwait'
  BY DEF ReceiveInvite, ReceiveAck, ReceiveCancel, ReceiveBye
<1>9. ASSUME NEW t \in Transports, NEW s \in Sessions, NEW outcome \in {"2xx", "non2xx"}
      PROVE  ReceiveReinviteResponse(t, s, outcome) => FibersAwait'
  BY DEF ReceiveReinviteResponse
<1>10. ASSUME NEW t \in Transports PROVE SecureConnect(t) \/ Drop(t) => FibersAwait'
  <2>1. SecureConnect(t) => FibersAwait'
    BY DEF SecureConnect
  <2>2. Drop(t) /\ HandlesLossOf(t) => FibersAwait'
    <3>. SUFFICES ASSUME Drop(t), HandlesLossOf(t) PROVE FibersAwait'
      OBVIOUS
    <3>1. PICK u \in Transports : /\ pc' = [pc EXCEPT !["recover"] = "ready"]
                                  /\ on' = [on EXCEPT !["recover"] = u]
                                  /\ got' = [FailedGot({signaling}) EXCEPT !["recover"] = "nothing"]
      BY DEF Drop, LoseSignaling, StartRecovery
    <3>2. \A f \in Fibers : on[f] = NoTransport => FailedGot({signaling})[f] = "nothing"
      BY DEF FailedGot
    <3>. QED
      BY <3>1, <3>2 DEF FailedGot
  <2>3. Drop(t) /\ ~HandlesLossOf(t) => FibersAwait'
    BY DEF Drop, LoseOther, Fail, FailedGot
  <2>. QED
    BY <2>1, <2>2, <2>3
<1>11. Revoke => FibersAwait'
  BY DEF Revoke, Fail, FailedGot
<1>12. EndLoop \/ UNCHANGED vars => FibersAwait'
  BY DEF EndLoop, vars
<1>. HIDE DEF TypeOK, FibersAwait, fibers, Fibers
<1>13. CASE Resume
  <2>1. CASE \E revokes \in BOOLEAN : RecoverRetries(revokes)
    BY <2>1, <1>2
  <2>2. CASE \E f \in Fibers : Registers(f) \/ Authenticates(f)
    BY <2>2, <1>3
  <2>3. CASE \E s \in Sessions : \/ AnswerReturns(s) \/ AnswerThrows(s)
                                \/ ReconcileSucceeds(s) \/ ReconcileFails(s)
    BY <2>3, <1>4
  <2>. QED
    BY <1>13, <1>1, <2>1, <2>2, <2>3 DEF Resume
<1>14. CASE Timer \/ Receive
  BY <1>14, <1>3, <1>4, <1>5, <1>6, <1>7, <1>8, <1>9 DEF Timer, Receive
<1>15. CASE Socket \/ Call
  BY <1>15, <1>4, <1>5, <1>10, <1>11 DEF Socket, Call
<1>. QED
  BY <1>12, <1>13, <1>14, <1>15 DEF Next

-----------------------------------------------------------------------------
(* Calls and their sockets *)

(* A call that is disposed is taken out of the books with its socket.      *)
LEMMA DisposeReleasesSocket ==
  ASSUME TypeOK, CallsHoldTheirSockets, NEW s \in Sessions, Dispose(s)
  PROVE  CallsHoldTheirSockets'
BY DEF TypeOK, CallsHoldTheirSockets, Dispose, RemoveCallSession

(* Every step keeps the set of calls, their sockets and their phases in    *)
(* step.                                                                   *)
LEMMA NextCallsHoldTheirSockets ==
  TypeOK /\ CallsHoldTheirSockets /\ [Next]_vars => CallsHoldTheirSockets'
<1>. SUFFICES ASSUME TypeOK, CallsHoldTheirSockets, [Next]_vars PROVE CallsHoldTheirSockets'
  OBVIOUS
<1>. USE DEF calls, books
<1>1. \/ RegisterReturns \/ RegisterThrows \/ RefreshEnds \/ RecoverAbandons \/ RecoverAdopts
      \/ RefreshTick \/ Register \/ ReconnectFires \/ Revoke \/ EndLoop \/ UNCHANGED vars
      => CallsHoldTheirSockets'
  BY DEF CallsHoldTheirSockets, RegisterReturns, RegisterThrows, RefreshEnds, RecoverAbandons,
         RecoverAdopts, RefreshTick, Register, ReconnectFires, Revoke, EndLoop, vars
<1>2. ASSUME NEW revokes \in BOOLEAN PROVE RecoverRetries(revokes) => CallsHoldTheirSockets'
  BY DEF CallsHoldTheirSockets, RecoverRetries
<1>3. ASSUME NEW f \in Fibers
      PROVE  Registers(f) \/ Authenticates(f) \/ ConnectTimeout(f) => CallsHoldTheirSockets'
  BY DEF CallsHoldTheirSockets, Registers, Authenticates, SendRegister, ConnectTimeout
<1>4. ASSUME NEW s \in Sessions
      PROVE  \/ AnswerThrows(s) \/ ReconcileFails(s) \/ DeadlineFires(s) \/ ReconcileTimeout(s)
             \/ Hangup(s)
             => CallsHoldTheirSockets'
  BY DisposeReleasesSocket DEF AnswerThrows, ReconcileFails, DeadlineFires, ReconcileTimeout, Hangup
<1>5. ASSUME NEW s \in Sessions
      PROVE  AnswerReturns(s) \/ ReconcileSucceeds(s) \/ BindDone(s) => CallsHoldTheirSockets'
  BY DEF TypeOK, CallsHoldTheirSockets, AnswerReturns, MediaUsable, ReconcileSucceeds, BindDone
<1>6. ASSUME NEW s \in Sessions
      PROVE  BindFails(s) \/ Answer(s) \/ Decline(s) => CallsHoldTheirSockets'
  BY DEF TypeOK, CallsHoldTheirSockets, BindFails, Answer, Decline
<1>7. ASSUME NEW t \in Transports, NEW f \in Fibers, NEW answer \in {"200", "401", "403"}
      PROVE  ReceiveRegisterResponse(t, f, answer) => CallsHoldTheirSockets'
  BY DEF CallsHoldTheirSockets, ReceiveRegisterResponse
<1>8. ASSUME NEW t \in Transports, NEW s \in Sessions
      PROVE  ReceiveInvite(t, s) \/ ReceiveAck(t, s) \/ ReceiveCancel(t, s) \/ ReceiveBye(t, s)
             => CallsHoldTheirSockets'
  BY DisposeReleasesSocket
     DEF TypeOK, CallsHoldTheirSockets, ReceiveInvite, ReceiveAck, ReceiveCancel, ReceiveBye
<1>9. ASSUME NEW t \in Transports, NEW s \in Sessions, NEW outcome \in {"2xx", "non2xx"}
      PROVE  ReceiveReinviteResponse(t, s, outcome) => CallsHoldTheirSockets'
  BY DEF CallsHoldTheirSockets, ReceiveReinviteResponse
<1>10. ASSUME NEW t \in Transports PROVE SecureConnect(t) \/ Drop(t) => CallsHoldTheirSockets'
  BY DEF CallsHoldTheirSockets, SecureConnect, Drop, LoseSignaling, LoseOther
<1>. HIDE DEF calls, books
<1>11. CASE Resume
  <2>1. CASE \E revokes \in BOOLEAN : RecoverRetries(revokes)
    BY <2>1, <1>2
  <2>2. CASE \E f \in Fibers : Registers(f) \/ Authenticates(f)
    BY <2>2, <1>3
  <2>3. CASE \E s \in Sessions : \/ AnswerReturns(s) \/ AnswerThrows(s)
                                \/ ReconcileSucceeds(s) \/ ReconcileFails(s)
    BY <2>3, <1>4, <1>5
  <2>. QED
    BY <1>11, <1>1, <2>1, <2>2, <2>3 DEF Resume
<1>12. CASE Timer \/ Receive
  BY <1>12, <1>1, <1>3, <1>4, <1>7, <1>8, <1>9 DEF Timer, Receive
<1>13. CASE Socket \/ Call
  BY <1>13, <1>1, <1>4, <1>5, <1>6, <1>10 DEF Socket, Call
<1>. QED
  BY <1>1, <1>11, <1>12, <1>13 DEF Next

-----------------------------------------------------------------------------
(* Registration and recovery *)

RecoveryInv ==
  /\ NoLeakedConnection
  /\ SingleRecovery
  /\ TimerMeansOutage
  /\ RegisterComesFirst
  /\ RevokedIsOffline
  /\ RevokedHandler
  /\ RecoveryIsDue
  /\ DeadlineTracksOutage

(* A step of a call leaves the registration alone and at most takes the    *)
(* call out of the outage.                                                 *)
LEMMA CallStep ==
  ASSUME Inv, UNCHANGED <<status, registration, backoff, fibers>>,
         deadlines' \subseteq deadlines, deadlines' = recoveringSessions',
         recoveringSessions' \subseteq callSessions'
  PROVE  RecoveryInv'
<1>. USE DEF Inv, registration, backoff, fibers
<1>1. NoLeakedConnection' /\ SingleRecovery' /\ TimerMeansOutage'
  BY DEF NoLeakedConnection, Live, SingleRecovery, TimerMeansOutage
<1>2. RegisterComesFirst' /\ RevokedHandler' /\ RecoveryIsDue'
  BY DEF RegisterComesFirst, RevokedHandler, RecoveryIsDue
<1>3. RevokedIsOffline' /\ DeadlineTracksOutage'
  BY DEF RevokedIsOffline, Live, DeadlineTracksOutage
<1>. QED
  BY <1>1, <1>2, <1>3 DEF RecoveryInv

(* The end of a call leaves the recovery alone.                            *)
LEMMA DisposeStep ==
  ASSUME Inv, UNCHANGED <<status, registration, backoff, fibers>>, NEW s \in Sessions, Dispose(s)
  PROVE  RecoveryInv'
<1>1. /\ deadlines' \subseteq deadlines
      /\ deadlines' = recoveringSessions'
      /\ recoveringSessions' \subseteq callSessions'
  BY DEF Inv, DeadlineTracksOutage, Dispose, RemoveCallSession
<1>. QED
  BY <1>1, CallStep

(* A step of an awaiting function that changes no field of the softphone.  *)
LEMMA FiberStep ==
  ASSUME Inv, UNCHANGED <<status, registration, backoff, books>>,
         on'["recover"] = on["recover"] \/ recoveryTransport = NoTransport,
         pc'["register"] = pc["register"] \/ pc'["register"] = "idle" \/ ~inviteHandler
            \/ pc["register"] # "idle"
  PROVE  RecoveryInv'
<1>. USE DEF Inv, registration, backoff, books
<1>1. NoLeakedConnection' /\ SingleRecovery' /\ TimerMeansOutage'
  BY DEF NoLeakedConnection, Live, SingleRecovery, TimerMeansOutage
<1>2. RegisterComesFirst' /\ RevokedHandler' /\ RecoveryIsDue'
  BY DEF RegisterComesFirst, RevokedHandler, RecoveryIsDue
<1>3. RevokedIsOffline' /\ DeadlineTracksOutage'
  BY DEF RevokedIsOffline, Live, DeadlineTracksOutage
<1>. QED
  BY <1>1, <1>2, <1>3 DEF RecoveryInv

(* register() returns before any recovery.                                 *)
LEMMA RegisterReturnsStep == ASSUME Inv, RegisterReturns PROVE RecoveryInv'
<1>. USE DEF Inv, TypeOK, RegisterReturns, Succeeded, EndFiber, Fibers, net, backoff, books
<1>0. ~inviteHandler
  BY DEF RegisterComesFirst
<1>1. NoLeakedConnection' /\ SingleRecovery' /\ TimerMeansOutage'
  BY <1>0 DEF NoLeakedConnection, Live, SingleRecovery, TimerMeansOutage, RegisterComesFirst
<1>2. RegisterComesFirst' /\ RevokedHandler' /\ RecoveryIsDue'
  BY DEF RegisterComesFirst, RevokedHandler, RecoveryIsDue
<1>3. RevokedIsOffline' /\ DeadlineTracksOutage'
  BY <1>0 DEF RevokedIsOffline, Live, DeadlineTracksOutage, RegisterComesFirst
<1>. QED
  BY <1>1, <1>2, <1>3 DEF RecoveryInv

(* The loss of the registered connection starts the one recovery.          *)
LEMMA LoseSignalingStep ==
  ASSUME Inv, NEW t \in Transports, Drop(t), HandlesLossOf(t) PROVE RecoveryInv'
<1>. USE NoTransportAssumption
     DEF Inv, TypeOK, Drop, HandlesLossOf, LoseSignaling, Unregister, StartDeadlines, backoff
<1>1. PICK u \in Transports :
        /\ Unreferenced(u)
        /\ recoveryTransport' = u
        /\ status' = [FailedStatus({signaling}) EXCEPT ![u] = "connecting"]
        /\ pc' = [pc EXCEPT !["recover"] = "ready"]
        /\ on' = [on EXCEPT !["recover"] = u]
  BY DEF StartRecovery
<1>2. recoveryTransport = NoTransport
  BY DEF SingleRecovery
<1>3. u # signaling /\ status'[signaling] = "closed" /\ status'[u] = "connecting"
  BY <1>1 DEF Unreferenced, FailedStatus
<1>4. \A v \in Transports \ {u} : status'[v] \in {status[v], "closed"}
  BY <1>1 DEF FailedStatus
<1>5. NoLeakedConnection'
  BY <1>1, <1>2, <1>3, <1>4 DEF NoLeakedConnection, Live
<1>6. ~reconnectArmed /\ inviteHandler
  BY DEF TimerMeansOutage, RegisterComesFirst
<1>7. SingleRecovery' /\ TimerMeansOutage'
  BY <1>1, <1>3, <1>6 DEF SingleRecovery, TimerMeansOutage, Fibers
<1>8. RegisterComesFirst' /\ RevokedHandler' /\ RecoveryIsDue'
  BY <1>1, <1>6 DEF RegisterComesFirst, RevokedHandler, RecoveryIsDue, Fibers
<1>9. RevokedIsOffline' /\ DeadlineTracksOutage'
  BY <1>3 DEF RevokedIsOffline, DeadlineTracksOutage
<1>. QED
  BY <1>5, <1>7, <1>8, <1>9 DEF RecoveryInv

(* Another loss closes a connection that is not registered.                *)
LEMMA LoseOtherStep ==
  ASSUME Inv, NEW t \in Transports, Drop(t), ~HandlesLossOf(t) PROVE RecoveryInv'
<1>. USE DEF Inv, TypeOK, Drop, LoseOther, Fail, registration, backoff, books
<1>1. \A v \in Transports : status'[v] \in {status[v], "closed"}
  BY DEF FailedStatus
<1>2. NoLeakedConnection' /\ SingleRecovery' /\ TimerMeansOutage'
  BY <1>1 DEF NoLeakedConnection, Live, SingleRecovery, TimerMeansOutage
<1>3. RegisterComesFirst' /\ RevokedHandler' /\ RecoveryIsDue'
  BY DEF RegisterComesFirst, RevokedHandler, RecoveryIsDue
<1>4. RevokedIsOffline' /\ DeadlineTracksOutage'
  BY <1>1 DEF RevokedIsOffline, Live, DeadlineTracksOutage
<1>. QED
  BY <1>2, <1>3, <1>4 DEF RecoveryInv

(* A connection opens that is the softphone's own or the one being tried.  *)
LEMMA SecureConnectStep ==
  ASSUME Inv, NEW t \in Transports, SecureConnect(t) PROVE RecoveryInv'
<1>. USE DEF Inv, TypeOK, SecureConnect, registration, backoff, books
<1>1. \A v \in Transports : Live(v)' <=> Live(v)
  BY DEF Live
<1>2. \A v \in Transports : status[v] = "closed" => status'[v] = "closed"
  OBVIOUS
<1>3. NoLeakedConnection' /\ SingleRecovery' /\ TimerMeansOutage'
  BY <1>1, <1>2 DEF NoLeakedConnection, SingleRecovery, TimerMeansOutage
<1>4. RegisterComesFirst' /\ RevokedHandler' /\ RecoveryIsDue'
  BY DEF RegisterComesFirst, RevokedHandler, RecoveryIsDue
<1>5. RevokedIsOffline' /\ DeadlineTracksOutage'
  BY <1>1, <1>2 DEF RevokedIsOffline, DeadlineTracksOutage
<1>. QED
  BY <1>3, <1>4, <1>5 DEF RecoveryInv

(* The timer starts a recovery only in an outage.                          *)
LEMMA ReconnectFiresStep == ASSUME Inv, ReconnectFires PROVE RecoveryInv'
<1>. USE NoTransportAssumption DEF Inv, TypeOK, ReconnectFires, RecoverDeclines, books, fibers
<1>1. CASE revoked \/ recoveryTransport # NoTransport
  <2>1. revoked
    BY <1>1 DEF SingleRecovery
  <2>2. NoLeakedConnection' /\ SingleRecovery' /\ TimerMeansOutage'
    BY <1>1, <2>1 DEF NoLeakedConnection, Live, SingleRecovery, TimerMeansOutage
  <2>3. RegisterComesFirst' /\ RevokedHandler' /\ RecoveryIsDue'
    BY <1>1, <2>1 DEF RegisterComesFirst, RevokedHandler, RecoveryIsDue
  <2>4. RevokedIsOffline' /\ DeadlineTracksOutage'
    BY <1>1 DEF RevokedIsOffline, Live, DeadlineTracksOutage
  <2>. QED
    BY <2>2, <2>3, <2>4 DEF RecoveryInv
<1>2. CASE ~revoked /\ recoveryTransport = NoTransport
  <2>1. PICK u \in Transports :
          /\ Unreferenced(u)
          /\ recoveryTransport' = u
          /\ status' = [FailedStatus({}) EXCEPT ![u] = "connecting"]
          /\ pc' = [pc EXCEPT !["recover"] = "ready"]
          /\ on' = [on EXCEPT !["recover"] = u]
    BY <1>2 DEF StartRecovery
  <2>2. ~registered /\ status[signaling] = "closed" /\ inviteHandler
    BY <1>2 DEF TimerMeansOutage, RegisterComesFirst
  <2>3. u # signaling /\ status'[signaling] = "closed" /\ status'[u] = "connecting"
    BY <2>1, <2>2 DEF Unreferenced, FailedStatus
  <2>4. \A v \in Transports \ {u} : status'[v] = status[v]
    BY <2>1 DEF FailedStatus
  <2>5. NoLeakedConnection'
    BY <1>2, <2>1, <2>3, <2>4 DEF NoLeakedConnection, Live
  <2>6. SingleRecovery' /\ TimerMeansOutage'
    BY <1>2, <2>1, <2>2, <2>3 DEF SingleRecovery, TimerMeansOutage, Fibers
  <2>7. RegisterComesFirst' /\ RevokedHandler' /\ RecoveryIsDue'
    BY <1>2, <2>1, <2>2 DEF RegisterComesFirst, RevokedHandler, RecoveryIsDue, Fibers
  <2>8. RevokedIsOffline' /\ DeadlineTracksOutage'
    BY <1>2, <2>2, <2>3 DEF RevokedIsOffline, DeadlineTracksOutage
  <2>. QED
    BY <2>5, <2>6, <2>7, <2>8 DEF RecoveryInv
<1>. QED
  BY <1>1, <1>2

(* An adoption ends the outage.                                            *)
LEMMA RecoverAdoptsStep == ASSUME Inv, RecoverAdopts PROVE RecoveryInv'
<1>. USE NoTransportAssumption
     DEF Inv, TypeOK, RecoverAdopts, Succeeded, Superseded, EndFiber, ResetBackoff, Reconcile, net
<1>1. recoveryTransport = on["recover"] /\ recoveryTransport # NoTransport /\ ~revoked
  BY DEF FibersAwait, Fibers
<1>2. /\ signaling' = recoveryTransport
      /\ ~reconnectArmed
      /\ status[signaling] = "closed"
      /\ inviteHandler
  BY <1>1 DEF SingleRecovery, RegisterComesFirst
<1>3. deadlines' = {} /\ recoveringSessions' = {}
  BY DEF DeadlineTracksOutage
<1>4. NoLeakedConnection'
  BY <1>1, <1>2 DEF NoLeakedConnection, Live
<1>5. SingleRecovery' /\ TimerMeansOutage'
  BY <1>2 DEF SingleRecovery, TimerMeansOutage
<1>6. RegisterComesFirst' /\ RevokedHandler' /\ RecoveryIsDue'
  BY <1>1, <1>2, <1>3 DEF RegisterComesFirst, RevokedHandler, RecoveryIsDue, Fibers
<1>7. RevokedIsOffline' /\ DeadlineTracksOutage'
  BY <1>1, <1>3 DEF RevokedIsOffline, DeadlineTracksOutage
<1>. QED
  BY <1>4, <1>5, <1>6, <1>7 DEF RecoveryInv

(* A failed attempt closes its connection and arms the timer.              *)
LEMMA RecoverRetriesStep ==
  ASSUME Inv, NEW revokes \in BOOLEAN, RecoverRetries(revokes) PROVE RecoveryInv'
<1>. USE NoTransportAssumption
     DEF Inv, TypeOK, RecoverRetries, Failed, Superseded, EndFiber, ArmReconnect,
         DisposeReplacement
<1>1. recoveryTransport = on["recover"] /\ recoveryTransport # NoTransport /\ ~revoked
  BY DEF FibersAwait, Fibers
<1>2. /\ ~registered
      /\ status[signaling] = "closed"
      /\ inviteHandler
  BY <1>1 DEF SingleRecovery, RegisterComesFirst
<1>3. /\ recoveryTransport \in Transports
      /\ status' = [t \in Transports |-> IF t \in {recoveryTransport} THEN "closed" ELSE status[t]]
  BY <1>1 DEF MaybeTransport, FailedStatus
<1>4. \A v \in Transports : ~Live(v)'
  BY <1>1, <1>2, <1>3 DEF NoLeakedConnection, Live
<1>5. NoLeakedConnection' /\ SingleRecovery' /\ TimerMeansOutage'
  BY <1>2, <1>3, <1>4 DEF NoLeakedConnection, SingleRecovery, TimerMeansOutage
<1>6. RegisterComesFirst' /\ RevokedHandler' /\ RecoveryIsDue'
  BY <1>1, <1>2 DEF RegisterComesFirst, RevokedHandler, RecoveryIsDue, Fibers,
                    DeadlineTracksOutage
<1>7. RevokedIsOffline' /\ DeadlineTracksOutage'
  BY <1>2, <1>3, <1>4 DEF RevokedIsOffline, DeadlineTracksOutage
<1>. QED
  BY <1>5, <1>6, <1>7 DEF RecoveryInv

(* revoke() closes what there is.                                          *)
LEMMA RevokeStep == ASSUME Inv, Revoke PROVE RecoveryInv'
<1>. USE NoTransportAssumption DEF Inv, TypeOK, Revoke, Unregister, Fail
<1>1. \A v \in Transports : ~Live(v)'
  BY DEF NoLeakedConnection, Live, FailedStatus
<1>2. deadlines' = {} /\ recoveringSessions' = {}
  BY DEF DeadlineTracksOutage
<1>3. NoLeakedConnection' /\ SingleRecovery' /\ TimerMeansOutage'
  BY <1>1 DEF NoLeakedConnection, SingleRecovery, TimerMeansOutage
<1>4. RegisterComesFirst' /\ RevokedHandler' /\ RecoveryIsDue'
  BY <1>2 DEF RegisterComesFirst, RevokedHandler, RecoveryIsDue
<1>5. RevokedIsOffline' /\ DeadlineTracksOutage'
  BY <1>1, <1>2 DEF RevokedIsOffline, DeadlineTracksOutage
<1>. QED
  BY <1>3, <1>4, <1>5 DEF RecoveryInv

-----------------------------------------------------------------------------
(* Every step preserves the properties of registration and recovery.       *)
LEMMA NextRecoveryInv == Inv /\ [Next]_vars => RecoveryInv'
<1>. SUFFICES ASSUME Inv, [Next]_vars PROVE RecoveryInv'
  OBVIOUS
<1>0. /\ TypeOK
      /\ DeadlineTracksOutage
      /\ FibersAwait
  BY DEF Inv
(* the awaiting functions *)
<1>1. ASSUME NEW f \in Fibers
      PROVE  Registers(f) \/ Authenticates(f) \/ ConnectTimeout(f) => RecoveryInv'
  <2>. SUFFICES ASSUME Registers(f) \/ Authenticates(f) \/ ConnectTimeout(f) PROVE RecoveryInv'
    OBVIOUS
  <2>1. UNCHANGED <<status, registration, backoff, books, on>>
    BY DEF Registers, Authenticates, SendRegister, ConnectTimeout, net
  <2>2. pc'["register"] = pc["register"] \/ pc["register"] # "idle"
    BY <1>0 DEF Registers, Authenticates, SendRegister, ConnectTimeout, TypeOK, Fibers
  <2>. QED
    BY <2>1, <2>2, FiberStep
<1>2. ASSUME NEW t \in Transports, NEW f \in Fibers, NEW answer \in {"200", "401", "403"}
      PROVE  ReceiveRegisterResponse(t, f, answer) => RecoveryInv'
  BY FiberStep DEF ReceiveRegisterResponse
<1>3. Register \/ RegisterThrows \/ RefreshTick \/ RefreshEnds => RecoveryInv'
  <2>. SUFFICES ASSUME Register \/ RegisterThrows \/ RefreshTick \/ RefreshEnds PROVE RecoveryInv'
    OBVIOUS
  <2>1. UNCHANGED <<status, registration, backoff, books>>
    BY DEF Register, RegisterThrows, RefreshTick, RefreshEnds, net
  <2>2. on'["recover"] = on["recover"]
    BY <1>0 DEF Register, RegisterThrows, RefreshTick, RefreshEnds, StartFiber, EndFiber, TypeOK,
                Fibers
  <2>3. pc'["register"] = pc["register"] \/ pc'["register"] = "idle" \/ ~inviteHandler
    BY <1>0 DEF Register, RegisterThrows, RefreshTick, RefreshEnds, StartFiber, EndFiber, TypeOK,
                Fibers
  <2>. QED
    BY <2>1, <2>2, <2>3, FiberStep
<1>4. RecoverAbandons => RecoveryInv'
  <2>. SUFFICES ASSUME RecoverAbandons PROVE RecoveryInv'
    OBVIOUS
  <2>1. recoveryTransport = NoTransport
    BY DEF RecoverAbandons, Superseded, Inv, SingleRecovery
  <2>2. UNCHANGED <<status, registration, backoff, books>> /\ pc'["register"] = pc["register"]
    BY <1>0 DEF RecoverAbandons, net, EndFiber, TypeOK, Fibers
  <2>. QED
    BY <2>1, <2>2, FiberStep
<1>5. RegisterReturns => RecoveryInv'
  BY RegisterReturnsStep
(* loss and recovery of the connection *)
<1>6. ASSUME NEW t \in Transports PROVE SecureConnect(t) \/ Drop(t) => RecoveryInv'
  BY SecureConnectStep, LoseSignalingStep, LoseOtherStep
<1>7. ReconnectFires \/ RecoverAdopts \/ Revoke => RecoveryInv'
  BY ReconnectFiresStep, RecoverAdoptsStep, RevokeStep
<1>8. ASSUME NEW revokes \in BOOLEAN PROVE RecoverRetries(revokes) => RecoveryInv'
  BY RecoverRetriesStep
(* calls *)
<1>9. ASSUME NEW s \in Sessions
      PROVE  Answer(s) \/ Decline(s) \/ BindDone(s) \/ BindFails(s) \/ ReconcileSucceeds(s)
             => RecoveryInv'
  BY <1>0, CallStep
     DEF DeadlineTracksOutage, Answer, Decline, BindDone, BindFails, ReconcileSucceeds, net, books
<1>10. ASSUME NEW s \in Sessions PROVE AnswerReturns(s) => RecoveryInv'
  BY <1>0, CallStep DEF DeadlineTracksOutage, AnswerReturns, net, books
<1>11. ASSUME NEW s \in Sessions
       PROVE  \/ AnswerThrows(s) \/ ReconcileFails(s) \/ DeadlineFires(s)
              \/ ReconcileTimeout(s) \/ Hangup(s)
              => RecoveryInv'
  BY DisposeStep DEF AnswerThrows, ReconcileFails, DeadlineFires, ReconcileTimeout, Hangup, net
<1>12. ASSUME NEW t \in Transports, NEW s \in Sessions
       PROVE  ReceiveInvite(t, s) \/ ReceiveAck(t, s) \/ ReceiveCancel(t, s) => RecoveryInv'
  BY <1>0, CallStep DEF DeadlineTracksOutage, ReceiveInvite, ReceiveAck, ReceiveCancel, books
<1>13. ASSUME NEW t \in Transports, NEW s \in Sessions PROVE ReceiveBye(t, s) => RecoveryInv'
  BY DisposeStep DEF ReceiveBye
<1>14. ASSUME NEW t \in Transports, NEW s \in Sessions, NEW outcome \in {"2xx", "non2xx"}
       PROVE  ReceiveReinviteResponse(t, s, outcome) => RecoveryInv'
  BY <1>0, CallStep DEF DeadlineTracksOutage, ReceiveReinviteResponse, books
<1>15. EndLoop \/ UNCHANGED vars => RecoveryInv'
  BY <1>0, CallStep DEF DeadlineTracksOutage, EndLoop, vars, registration, backoff, fibers, books
<1>16. CASE Resume
  <2>1. CASE \E revokes \in BOOLEAN : RecoverRetries(revokes)
    BY <2>1, <1>8
  <2>2. CASE \E f \in Fibers : Registers(f) \/ Authenticates(f)
    BY <2>2, <1>1
  <2>3. CASE \E s \in Sessions : \/ AnswerReturns(s) \/ AnswerThrows(s)
                                \/ ReconcileSucceeds(s) \/ ReconcileFails(s)
    BY <2>3, <1>9, <1>10, <1>11
  <2>. QED
    BY <1>16, <1>3, <1>4, <1>5, <1>7, <2>1, <2>2, <2>3 DEF Resume
<1>17. CASE Timer
  BY <1>17, <1>1, <1>3, <1>7, <1>11 DEF Timer
<1>18. CASE Receive
  BY <1>18, <1>2, <1>12, <1>13, <1>14 DEF Receive
<1>19. CASE Socket \/ Call
  BY <1>19, <1>3, <1>6, <1>7, <1>9, <1>11 DEF Socket, Call
<1>. QED
  BY <1>15, <1>16, <1>17, <1>18, <1>19 DEF Next

-----------------------------------------------------------------------------
(* The theorems *)

(* In every behaviour the invariant holds: TLC's runs check it for three   *)
(* transports and two calls, this for any number of either.                *)
THEOREM Invariance == Spec => []Inv
<1>1. Inv /\ [Next]_vars => Inv'
  <2>. SUFFICES ASSUME Inv, [Next]_vars PROVE Inv'
    OBVIOUS
  <2>1. TypeOK' /\ FibersAwait' /\ CallsHoldTheirSockets'
    BY NextTypeOK, NextFibersAwait, NextCallsHoldTheirSockets DEF Inv
  <2>2. RecoveryInv'
    BY NextRecoveryInv
  <2>. QED
    BY <2>1, <2>2 DEF Inv, RecoveryInv
<1>. QED
  BY InitInv, <1>1, PTL DEF Spec

(* The fields of the softphone, its suspended functions and its calls keep *)
(* their types.                                                            *)
THEOREM TypeCorrect == Spec => []TypeOK
<1>1. Inv => TypeOK
  BY DEF Inv
<1>. QED
  BY Invariance, <1>1, PTL

(* No sequence of losses, attempts, adoptions and revoke() leaves a        *)
(* connection alive that the softphone no longer refers to.                *)
THEOREM NoConnectionLeaks == Spec => []NoLeakedConnection
<1>1. Inv => NoLeakedConnection
  BY DEF Inv
<1>. QED
  BY Invariance, <1>1, PTL

(* Recoveries do not overlap, whatever timers and losses come together.    *)
THEOREM RecoveriesDoNotOverlap == Spec => []SingleRecovery
<1>1. Inv => SingleRecovery
  BY DEF Inv
<1>. QED
  BY Invariance, <1>1, PTL

(* The five-minute deadlines are those of the calls in the outage.         *)
THEOREM DeadlinesMatchOutage == Spec => []DeadlineTracksOutage
<1>1. Inv => DeadlineTracksOutage
  BY DEF Inv
<1>. QED
  BY Invariance, <1>1, PTL

(* Nothing connects or recovers after revoke().                            *)
THEOREM RevokeIsFinal == Spec => []RevokedIsOffline
<1>1. Inv => RevokedIsOffline
  BY DEF Inv
<1>. QED
  BY Invariance, <1>1, PTL

(* A call releases its UDP socket whichever way it ends.                   *)
THEOREM CallsReleaseSockets == Spec => []CallsHoldTheirSockets
<1>1. Inv => CallsHoldTheirSockets
  BY DEF Inv
<1>. QED
  BY Invariance, <1>1, PTL

(* What one step may do to the calls in an outage.                         *)
LEMMA StepEndsOutage ==
  ASSUME TypeOK, [Next]_vars
  PROVE  \A s \in recoveringSessions \ recoveringSessions' :
           s \in callSessions' => revoked' \/ (awaits'[s] = "final" /\ via'[s] = signaling')
<1>. DEFINE Kept == recoveringSessions \subseteq recoveringSessions'
            Ended(s) == recoveringSessions \subseteq recoveringSessions' \cup {s} /\ s \notin callSessions'
<1>1. ASSUME NEW s \in Sessions
      PROVE  \/ AnswerThrows(s) \/ ReconcileFails(s) \/ DeadlineFires(s)
             \/ ReconcileTimeout(s) \/ Hangup(s)
             => Ended(s)
  BY DEF AnswerThrows, ReconcileFails, DeadlineFires, ReconcileTimeout, Hangup, Dispose,
         RemoveCallSession
<1>2. ASSUME NEW t \in Transports, NEW s \in Sessions PROVE ReceiveBye(t, s) => Ended(s)
  BY DEF ReceiveBye, Dispose, RemoveCallSession
<1>3. RecoverAdopts => \A s \in recoveringSessions : awaits'[s] = "final" /\ via'[s] = signaling'
  BY DEF TypeOK, RecoverAdopts, Reconcile
<1>4. RecoverAdopts \/ RegisterReturns \/ RegisterThrows \/ RefreshEnds \/ RecoverAbandons
      \/ RefreshTick \/ Register \/ ReconnectFires \/ EndLoop \/ UNCHANGED vars
      => RecoverAdopts \/ Kept
  BY DEF RegisterReturns, RegisterThrows, RefreshEnds, RecoverAbandons, RefreshTick, Register,
         ReconnectFires, EndLoop, vars, books
<1>5. ASSUME NEW revokes \in BOOLEAN PROVE RecoverRetries(revokes) => Kept \/ revoked'
  BY DEF RecoverRetries
<1>6. Revoke => revoked'
  BY DEF Revoke
<1>7. ASSUME NEW f \in Fibers PROVE Registers(f) \/ Authenticates(f) \/ ConnectTimeout(f) => Kept
  BY DEF Registers, Authenticates, SendRegister, ConnectTimeout, books
<1>8. ASSUME NEW s \in Sessions
      PROVE  \/ AnswerReturns(s) \/ ReconcileSucceeds(s) \/ BindDone(s) \/ BindFails(s)
             \/ Answer(s) \/ Decline(s)
             => Kept
  BY DEF AnswerReturns, ReconcileSucceeds, BindDone, BindFails, Answer, Decline, books
<1>9. ASSUME NEW t \in Transports, NEW f \in Fibers, NEW answer \in {"200", "401", "403"}
      PROVE  ReceiveRegisterResponse(t, f, answer) => Kept
  BY DEF ReceiveRegisterResponse, books
<1>10. ASSUME NEW t \in Transports, NEW s \in Sessions
       PROVE  ReceiveInvite(t, s) \/ ReceiveAck(t, s) \/ ReceiveCancel(t, s) => Kept
  BY DEF ReceiveInvite, ReceiveAck, ReceiveCancel, books
<1>11. ASSUME NEW t \in Transports, NEW s \in Sessions, NEW outcome \in {"2xx", "non2xx"}
       PROVE  ReceiveReinviteResponse(t, s, outcome) => Kept
  BY DEF ReceiveReinviteResponse, books
<1>12. ASSUME NEW t \in Transports PROVE SecureConnect(t) \/ Drop(t) => Kept
  BY DEF SecureConnect, Drop, LoseSignaling, LoseOther, books
<1>13. RecoverAdopts \/ Kept \/ revoked' \/ (\E s \in Sessions : Ended(s))
  <2>. HIDE DEF Kept, Ended
  <2>1. CASE Resume
    <3>1. CASE \E revokes \in BOOLEAN : RecoverRetries(revokes)
      BY <3>1, <1>5
    <3>2. CASE \E f \in Fibers : Registers(f) \/ Authenticates(f)
      BY <3>2, <1>7
    <3>3. CASE \E s \in Sessions : \/ AnswerReturns(s) \/ AnswerThrows(s)
                                  \/ ReconcileSucceeds(s) \/ ReconcileFails(s)
      BY <3>3, <1>1, <1>8
    <3>. QED
      BY <2>1, <1>4, <3>1, <3>2, <3>3 DEF Resume
  <2>2. CASE Timer
    BY <2>2, <1>1, <1>4, <1>7 DEF Timer
  <2>3. CASE Receive
    BY <2>3, <1>2, <1>9, <1>10, <1>11 DEF Receive
  <2>4. CASE Socket \/ Call
    BY <2>4, <1>1, <1>4, <1>6, <1>8, <1>12 DEF Socket, Call
  <2>. QED
    BY <1>4, <2>1, <2>2, <2>3, <2>4 DEF Next
<1>. QED
  BY <1>3, <1>13

(* A call leaves an outage through its end, revoke() or a reconciliation   *)
(* on the adopted connection, in every step of every behaviour.            *)
THEOREM OutagesReconcile == Spec => OutageEndsInReconciliation
<1>1. Inv /\ [Next]_vars
      => [\A s \in recoveringSessions \ recoveringSessions' :
            s \in callSessions' => revoked' \/ (awaits'[s] = "final" /\ via'[s] = signaling')]_vars
  BY StepEndsOutage DEF Inv
<1>. QED
  BY Invariance, <1>1, PTL DEF Spec, OutageEndsInReconciliation

-----------------------------------------------------------------------------
(* The backoff *)

(* The last delay is that of the attempt before the next, or the last one  *)
(* of the table.                                                           *)
BackoffInv ==
  \/ recoveryAttempt = 0 /\ reconnectDelay = 0
  \/ \E attempt \in 0 .. LastDelay - 1 :
       recoveryAttempt = attempt + 1 /\ reconnectDelay = Delay(attempt)
  \/ recoveryAttempt = LastDelay /\ reconnectDelay = LastDelaySeconds

BackoffGrew ==
  IF reconnectDelay = 0 THEN reconnectDelay' = 1
  ELSE reconnectDelay' > reconnectDelay \/ reconnectDelay' = LastDelaySeconds

(* A failure makes the delay grow.                                         *)
LEMMA ArmStep ==
  ASSUME BackoffInv, ArmReconnect
  PROVE  BackoffInv' /\ BackoffGrew
<1>. USE DEF LastDelay, LastDelaySeconds, Delay, Delays, ArmReconnect, BackoffGrew
<1>1. CASE recoveryAttempt = 0 /\ reconnectDelay = 0
  <2>1. recoveryAttempt' = 1 /\ reconnectDelay' = 1
    BY <1>1
  <2>2. BackoffInv'
    BY <2>1 DEF BackoffInv
  <2>. QED
    BY <1>1, <2>1, <2>2
<1>2. ASSUME NEW attempt \in 0 .. 4, recoveryAttempt = attempt + 1, reconnectDelay = Delay(attempt)
      PROVE  BackoffInv' /\ BackoffGrew
  <2>1. CASE attempt = 4
    <3>1. recoveryAttempt' = 5 /\ reconnectDelay' = 30 /\ reconnectDelay = 16
      BY <1>2, <2>1
    <3>. QED
      BY <3>1 DEF BackoffInv
  <2>2. CASE attempt # 4
    <3>1. /\ attempt \in 0 .. 3 /\ attempt + 1 \in 0 .. 4
          /\ recoveryAttempt' = (attempt + 1) + 1
          /\ reconnectDelay' = Delay(attempt + 1)
      BY <1>2, <2>2
    <3>2. Delay(attempt + 1) > Delay(attempt) /\ Delay(attempt) # 0
      BY <3>1
    <3>3. BackoffInv'
      BY <3>1 DEF BackoffInv
    <3>. QED
      BY <1>2, <3>1, <3>2, <3>3
  <2>. QED
    BY <2>1, <2>2
<1>3. CASE recoveryAttempt = 5 /\ reconnectDelay = 30
  <2>1. recoveryAttempt' = 5 /\ reconnectDelay' = 30
    BY <1>3
  <2>. QED
    BY <1>3, <2>1 DEF BackoffInv
<1>. QED
  BY <1>1, <1>2, <1>3 DEF BackoffInv

(* Only a failed attempt arms the timer, and only success resets it.       *)
LEMMA BackoffStep ==
  ASSUME BackoffInv, [Next]_vars
  PROVE  BackoffInv' /\ (~reconnectArmed /\ reconnectArmed' => BackoffGrew)
<1>. DEFINE Goal == BackoffInv' /\ (~reconnectArmed /\ reconnectArmed' => BackoffGrew)
            Kept == UNCHANGED <<recoveryAttempt, reconnectDelay>> /\ (reconnectArmed' => reconnectArmed)
<1>. SUFFICES Goal
  OBVIOUS
<1>1. ASSUME Kept PROVE Goal
  BY <1>1 DEF BackoffInv, Delay
<1>. HIDE DEF Goal
<1>2. RegisterReturns \/ RegisterThrows \/ RefreshEnds \/ RecoverAbandons \/ RefreshTick
      \/ Register \/ Revoke \/ ReconnectFires \/ EndLoop \/ UNCHANGED vars => Kept
  BY DEF RegisterReturns, RegisterThrows, RefreshEnds, RecoverAbandons, RefreshTick, Register,
         Revoke, ReconnectFires, EndLoop, backoff, vars
<1>3. ASSUME NEW revokes \in BOOLEAN, RecoverRetries(revokes) PROVE Goal
  BY <1>3, ArmStep DEF RecoverRetries, Goal
<1>4. ASSUME RecoverAdopts PROVE Goal
  <2>1. BackoffInv'
    BY <1>4 DEF RecoverAdopts, ResetBackoff, BackoffInv
  <2>2. reconnectArmed' = reconnectArmed
    BY <1>4 DEF RecoverAdopts
  <2>. QED
    BY <2>1, <2>2 DEF Goal
<1>5. ASSUME NEW f \in Fibers PROVE Registers(f) \/ Authenticates(f) \/ ConnectTimeout(f) => Kept
  BY DEF Registers, Authenticates, SendRegister, ConnectTimeout, backoff
<1>6. ASSUME NEW s \in Sessions
      PROVE  \/ AnswerReturns(s) \/ AnswerThrows(s) \/ ReconcileSucceeds(s) \/ ReconcileFails(s)
             \/ DeadlineFires(s) \/ ReconcileTimeout(s) \/ BindDone(s) \/ BindFails(s)
             \/ Answer(s) \/ Decline(s) \/ Hangup(s)
             => Kept
  BY DEF AnswerReturns, AnswerThrows, ReconcileSucceeds, ReconcileFails, DeadlineFires,
         ReconcileTimeout, BindDone, BindFails, Answer, Decline, Hangup, backoff
<1>7. ASSUME NEW t \in Transports, NEW f \in Fibers, NEW answer \in {"200", "401", "403"}
      PROVE  ReceiveRegisterResponse(t, f, answer) => Kept
  BY DEF ReceiveRegisterResponse, backoff
<1>8. ASSUME NEW t \in Transports, NEW s \in Sessions
      PROVE  ReceiveInvite(t, s) \/ ReceiveAck(t, s) \/ ReceiveCancel(t, s) \/ ReceiveBye(t, s) => Kept
  BY DEF ReceiveInvite, ReceiveAck, ReceiveCancel, ReceiveBye, backoff
<1>9. ASSUME NEW t \in Transports, NEW s \in Sessions, NEW outcome \in {"2xx", "non2xx"}
      PROVE  ReceiveReinviteResponse(t, s, outcome) => Kept
  BY DEF ReceiveReinviteResponse, backoff
<1>10. ASSUME NEW t \in Transports PROVE SecureConnect(t) \/ Drop(t) => Kept
  BY DEF SecureConnect, Drop, backoff
<1>. HIDE DEF Kept
<1>11. CASE Resume
  <2>1. CASE \E revokes \in BOOLEAN : RecoverRetries(revokes)
    BY <2>1, <1>3
  <2>2. CASE \E f \in Fibers : Registers(f) \/ Authenticates(f)
    BY <2>2, <1>1, <1>5
  <2>3. CASE \E s \in Sessions : \/ AnswerReturns(s) \/ AnswerThrows(s)
                                \/ ReconcileSucceeds(s) \/ ReconcileFails(s)
    BY <2>3, <1>1, <1>6
  <2>. QED
    BY <1>11, <1>1, <1>2, <1>4, <2>1, <2>2, <2>3 DEF Resume
<1>12. CASE Timer
  BY <1>12, <1>1, <1>2, <1>5, <1>6 DEF Timer
<1>13. CASE Receive
  BY <1>13, <1>1, <1>7, <1>8, <1>9 DEF Receive
<1>14. CASE Socket \/ Call
  BY <1>14, <1>1, <1>2, <1>6, <1>10 DEF Socket, Call
<1>. QED
  BY <1>1, <1>2, <1>11, <1>12, <1>13, <1>14 DEF Next

(* Through every sequence of losses, attempts and successes the delay      *)
(* before the next attempt starts at 1 s and grows to 30 s                 *)
(* (index.ts:202-207).                                                     *)
THEOREM BackoffAlwaysGrows == Spec => BackoffGrows
<1>1. Init => BackoffInv
  BY DEF Init, BackoffInv
<1>2. BackoffInv /\ [Next]_vars => BackoffInv'
  BY BackoffStep
<1>3. BackoffInv /\ [Next]_vars
      => [~reconnectArmed /\ reconnectArmed' =>
            IF reconnectDelay = 0 THEN reconnectDelay' = 1
            ELSE reconnectDelay' > reconnectDelay \/ reconnectDelay' = LastDelaySeconds]_vars
  BY BackoffStep DEF BackoffGrew
<1>. QED
  BY <1>1, <1>2, <1>3, PTL DEF Spec, BackoffGrows
=============================================================================
