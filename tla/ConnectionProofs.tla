-------------------------- MODULE ConnectionProofs --------------------------
(***************************************************************************)
(* What ties the connections of a softphone, its suspended functions and   *)
(* its calls, for any set of transports and of calls: Softphone implements *)
(* Connection, nobody waits for a connection that is gone, and the         *)
(* disagreements with the documentation are confined.                      *)
(*                                                                         *)
(* What the calls see of the connection is computed from seven variables   *)
(* of the softphone and of its suspended functions.  LinkInv says what     *)
(* these have to do with each other beside Inv: which sockets the          *)
(* suspended functions hold, and that the server hears of a replacement    *)
(* only through recover().  With it every step maps to one of Connection.  *)
(* WaitInv says the same of the calls, for NobodyWaitsInVain.              *)
(***************************************************************************)
EXTENDS SoftphoneProofs

(* A function that is past its wait for the connection has one that has    *)
(* been open.                                                              *)
RegistersOnSocket ==
  \A f \in Fibers :
    pc[f] \in {"register", "authorize"} \/ (pc[f] = "ready" /\ got[f] = "resolved")
      => status[on[f]] \in {"open", "closed"}

(* register() is suspended on the connection that it will report.          *)
RegistersSignaling == pc["register"] # "idle" => on["register"] = signaling

RegisteredOnSocket == registered => status[signaling] \in {"open", "closed"}

(* No call is offered before register() has returned.                      *)
NoEarlyCall ==
  ~inviteHandler /\ ~revoked =>
    \A s \in Sessions : phase[s] \in {"idle", "missed", "disposed"}

(* Only recover() registers over a replacement.                            *)
ReplacementIsRecovers ==
  /\ recoveryTransport \in contact => Replaced
  /\ recoveryTransport # NoTransport =>
       on["register"] # recoveryTransport /\ on["refresh"] # recoveryTransport

LinkInv ==
  /\ RegistersOnSocket
  /\ RegistersSignaling
  /\ RegisteredOnSocket
  /\ NoEarlyCall
  /\ ReplacementIsRecovers

(* Initially nothing is registered and nobody registers.                   *)
LEMMA InitLinkInv == Init => LinkInv
BY NoTransportAssumption
   DEF Init, LinkInv, RegistersOnSocket, RegistersSignaling, RegisteredOnSocket, NoEarlyCall,
       ReplacementIsRecovers, Fibers

-----------------------------------------------------------------------------
(* Steps of the calls *)

(* What a step of a call, and the end of the receive loop, leave alone.    *)
CallFrame == UNCHANGED <<status, contact, registration, fibers>>

(* A call is not offered before register() has returned, and not answered  *)
(* before it is offered.                                                   *)
PhasesMove ==
  \A s \in Sessions :
    \/ phase'[s] \in {phase[s], "disposed", "missed"}
    \/ inviteHandler \/ phase[s] \in {"offered", "binding", "answering"}

(* A step that leaves the connection and its functions alone keeps         *)
(* LinkInv.                                                                *)
LEMMA CallLinkInv == ASSUME TypeOK, LinkInv, CallFrame, PhasesMove PROVE LinkInv'
<1>. USE DEF CallFrame, registration, fibers
<1>1. RegistersOnSocket' /\ RegistersSignaling' /\ RegisteredOnSocket'
  BY DEF LinkInv, RegistersOnSocket, RegistersSignaling, RegisteredOnSocket
<1>2. NoEarlyCall'
  BY DEF LinkInv, NoEarlyCall, PhasesMove
<1>3. ReplacementIsRecovers'
  BY DEF LinkInv, ReplacementIsRecovers, Replaced
<1>. QED
  BY <1>1, <1>2, <1>3 DEF LinkInv

(* Whatever steps leave the connection and its functions alone.            *)
CallSteps ==
  \/ \E s \in Sessions :
       \/ AnswerReturns(s) \/ AnswerThrows(s) \/ ReconcileSucceeds(s) \/ ReconcileFails(s)
       \/ DeadlineFires(s) \/ ReconcileTimeout(s) \/ BindDone(s) \/ BindFails(s)
       \/ Answer(s) \/ Decline(s) \/ Hangup(s)
  \/ \E t \in Transports, s \in Sessions :
       \/ ReceiveInvite(t, s) \/ ReceiveAck(t, s) \/ ReceiveCancel(t, s) \/ ReceiveBye(t, s)
       \/ \E outcome \in {"2xx", "non2xx"} : ReceiveReinviteResponse(t, s, outcome)
  \/ EndLoop
  \/ UNCHANGED vars

(* The steps of the calls are such steps.                                  *)
LEMMA CallStepsFrame == ASSUME TypeOK, CallSteps PROVE CallFrame /\ PhasesMove
<1>. USE DEF CallFrame, net, PhasesMove
<1>1. ASSUME NEW s \in Sessions,
             \/ AnswerThrows(s) \/ ReconcileFails(s) \/ DeadlineFires(s)
             \/ ReconcileTimeout(s) \/ Hangup(s)
      PROVE  CallFrame /\ PhasesMove
  BY <1>1 DEF TypeOK, AnswerThrows, ReconcileFails, DeadlineFires, ReconcileTimeout, Hangup, Dispose
<1>2. ASSUME NEW s \in Sessions,
             \/ AnswerReturns(s) \/ ReconcileSucceeds(s) \/ BindDone(s) \/ BindFails(s)
             \/ Answer(s) \/ Decline(s)
      PROVE  CallFrame /\ PhasesMove
  BY <1>2 DEF TypeOK, AnswerReturns, MediaUsable, ReconcileSucceeds, BindDone, BindFails, Answer,
              Decline, calls
<1>3. ASSUME NEW t \in Transports, NEW s \in Sessions,
             ReceiveInvite(t, s) \/ ReceiveAck(t, s) \/ ReceiveCancel(t, s) \/ ReceiveBye(t, s)
      PROVE  CallFrame /\ PhasesMove
  BY <1>3 DEF TypeOK, ReceiveInvite, ReceiveAck, ReceiveCancel, ReceiveBye, Dispose, calls
<1>4. ASSUME NEW t \in Transports, NEW s \in Sessions, NEW outcome \in {"2xx", "non2xx"},
             ReceiveReinviteResponse(t, s, outcome)
      PROVE  CallFrame /\ PhasesMove
  BY <1>4 DEF ReceiveReinviteResponse, calls
<1>5. ASSUME EndLoop \/ UNCHANGED vars PROVE CallFrame /\ PhasesMove
  BY <1>5 DEF EndLoop, vars, calls, registration, fibers
<1>. HIDE DEF PhasesMove, CallFrame
<1>. QED
  BY <1>1, <1>2, <1>3, <1>4, <1>5 DEF CallSteps

(* So they keep LinkInv.                                                   *)
LEMMA CallStepsLinkInv == ASSUME TypeOK, LinkInv, CallSteps PROVE LinkInv'
BY CallStepsFrame, CallLinkInv

-----------------------------------------------------------------------------
(* Steps of the awaiting functions *)

(* What a step of an awaiting function leaves alone.                       *)
FiberFrame == UNCHANGED <<status, registration, calls>>

(* Whatever steps concern one awaiting function and no field of the        *)
(* softphone.                                                              *)
FiberSteps ==
  \/ Register \/ RegisterThrows \/ RefreshTick \/ RefreshEnds \/ RecoverAbandons
  \/ \E f \in Fibers : Registers(f) \/ Authenticates(f) \/ ConnectTimeout(f)
  \/ \E t \in Transports, f \in Fibers, answer \in {"200", "401", "403"} :
       ReceiveRegisterResponse(t, f, answer)

(* The steps of the awaiting functions leave the fields and the calls      *)
(* alone.                                                                  *)
LEMMA FiberStepsFrame == ASSUME FiberSteps PROVE FiberFrame
BY DEF FiberFrame, net, FiberSteps, Register, RegisterThrows, RefreshTick, RefreshEnds,
       RecoverAbandons, Registers, Authenticates, SendRegister, ConnectTimeout,
       ReceiveRegisterResponse

(* A function writes on the transport that it awaits; only recover() on    *)
(* the replacement.                                                        *)
LEMMA FiberStepsLinkInv == ASSUME Inv, LinkInv, FiberSteps PROVE LinkInv'
<1>. USE NoTransportAssumption DEF FiberFrame, net, registration, calls, Fibers
<1>0. TypeOK /\ FibersAwait /\ SingleRecovery
  BY DEF Inv
<1>1. FiberFrame
  BY FiberStepsFrame
<1>2. RegisteredOnSocket' /\ NoEarlyCall'
  BY <1>1 DEF LinkInv, RegisteredOnSocket, NoEarlyCall
<1>. DEFINE Goal == RegistersOnSocket' /\ RegistersSignaling' /\ ReplacementIsRecovers'
<1>. USE DEF LinkInv, RegistersOnSocket, RegistersSignaling, ReplacementIsRecovers, Replaced
<1>3. ASSUME Register \/ RefreshTick PROVE Goal
  <2>1. /\ contact' = contact
        /\ pc'["recover"] = pc["recover"] /\ got'["recover"] = got["recover"]
    BY <1>0, <1>3 DEF Register, RefreshTick, StartFiber, TypeOK
  <2>2. PICK f \in {"register", "refresh"} : StartFiber(f, signaling)
    BY <1>3 DEF Register, RefreshTick
  <2>3. ReadyNow(signaling) = "resolved" => status[signaling] = "open"
    BY <1>0 DEF ReadyNow, TypeOK, Statuses
  <2>4. RegistersOnSocket' /\ RegistersSignaling'
    BY <1>0, <1>1, <2>2, <2>3 DEF StartFiber, TypeOK
  <2>5. ReplacementIsRecovers'
    BY <1>0, <1>1, <2>1, <2>2 DEF StartFiber, TypeOK, SingleRecovery
  <2>. QED
    BY <2>4, <2>5
<1>4. ASSUME RegisterThrows \/ RefreshEnds PROVE Goal
  BY <1>0, <1>1, <1>4 DEF RegisterThrows, RefreshEnds, EndFiber, TypeOK
<1>5. ASSUME RecoverAbandons PROVE Goal
  <2>1. recoveryTransport = NoTransport
    BY <1>0, <1>5 DEF RecoverAbandons, Superseded, SingleRecovery
  <2>2. contact' = contact
    BY <1>5 DEF RecoverAbandons
  <2>. QED
    BY <1>0, <1>1, <1>5, <2>1, <2>2 DEF RecoverAbandons, EndFiber, TypeOK
<1>6. ASSUME NEW f \in Fibers, Registers(f) \/ Authenticates(f) \/ ConnectTimeout(f) PROVE Goal
  BY <1>0, <1>1, <1>6 DEF Registers, Authenticates, SendRegister, ConnectTimeout, TypeOK
<1>7. ASSUME NEW t \in Transports, NEW f \in Fibers, NEW answer \in {"200", "401", "403"},
             ReceiveRegisterResponse(t, f, answer)
      PROVE  Goal
  <2>1. /\ UNCHANGED <<pc, on>> /\ pc[f] \in {"register", "authorize"} /\ got[f] = "nothing"
        /\ on[f] = t
        /\ \A g \in Fibers \ {f} : got'[g] = got[g]
    BY <1>0, <1>7 DEF ReceiveRegisterResponse, TypeOK
  <2>2. RegistersOnSocket' /\ RegistersSignaling'
    BY <1>0, <1>1, <2>1
  <2>3. CASE answer = "200"
    <3>1. contact' = contact \cup {t} /\ got'[f] = "resolved"
      BY <1>0, <1>7, <2>3 DEF ReceiveRegisterResponse, TypeOK
    <3>. QED
      BY <1>0, <1>1, <2>1, <2>2, <3>1 DEF SingleRecovery
  <2>4. CASE answer # "200"
    <3>1. contact' = contact
      BY <1>7, <2>4 DEF ReceiveRegisterResponse
    <3>. QED
      BY <1>0, <1>1, <2>1, <2>2, <3>1 DEF SingleRecovery
  <2>. QED
    BY <2>3, <2>4
<1>8. Goal
  <2>. HIDE DEF Goal
  <2>. QED
    BY <1>3, <1>4, <1>5, <1>6, <1>7 DEF FiberSteps, Goal
<1>. QED
  BY <1>2, <1>8

-----------------------------------------------------------------------------
(* Steps of the connection *)

(* register() returns with a connection that has been open.                *)
LEMMA RegisterReturnsLinkInv == ASSUME Inv, LinkInv, RegisterReturns PROVE LinkInv'
<1>. USE DEF RegisterReturns, Succeeded, EndFiber, net, calls, Fibers
<1>0. TypeOK /\ ~inviteHandler
  BY DEF Inv, RegisterComesFirst
<1>1. recoveryTransport = NoTransport \/ on["register"] # recoveryTransport
  BY <1>0 DEF Inv, RegisterComesFirst
<1>2. RegistersOnSocket' /\ RegistersSignaling'
  BY <1>0 DEF TypeOK, LinkInv, RegistersOnSocket, RegistersSignaling
<1>3. RegisteredOnSocket' /\ NoEarlyCall'
  BY <1>0 DEF LinkInv, RegistersOnSocket, RegistersSignaling, RegisteredOnSocket, NoEarlyCall
<1>4. ReplacementIsRecovers'
  BY <1>0, NoTransportAssumption DEF TypeOK, Inv, RegisterComesFirst, LinkInv, ReplacementIsRecovers, Replaced
<1>. QED
  BY <1>2, <1>3, <1>4 DEF LinkInv

(* A connection that opens is awaited in the first place of                *)
(* registerTransport() only.                                               *)
LEMMA SecureConnectLinkInv ==
  ASSUME Inv, LinkInv, NEW t \in Transports, SecureConnect(t) PROVE LinkInv'
<1>. USE DEF SecureConnect, registration, calls
<1>0. TypeOK /\ \A v \in Transports : status'[v] \in {status[v], "open"}
  BY DEF Inv, TypeOK
<1>1. RegistersOnSocket'
  <2>. SUFFICES ASSUME NEW f \in Fibers,
                       \/ pc'[f] \in {"register", "authorize"}
                       \/ (pc'[f] = "ready" /\ got'[f] = "resolved")
                PROVE  status'[on'[f]] \in {"open", "closed"}
    BY DEF RegistersOnSocket
  <2>1. CASE on[f] = t
    BY <1>0, <2>1 DEF TypeOK
  <2>2. CASE on[f] # t
    <3>1. got'[f] = got[f] /\ status'[on[f]] = status[on[f]]
      BY <1>0, <2>2 DEF TypeOK
    <3>. QED
      BY <3>1 DEF LinkInv, RegistersOnSocket
  <2>. QED
    BY <2>1, <2>2
<1>2. RegistersSignaling' /\ RegisteredOnSocket' /\ NoEarlyCall'
  BY <1>0 DEF TypeOK, LinkInv, RegistersSignaling, RegisteredOnSocket, NoEarlyCall
<1>3. ReplacementIsRecovers'
  BY <1>0 DEF LinkInv, ReplacementIsRecovers, Replaced, Fibers
<1>. QED
  BY <1>1, <1>2, <1>3 DEF LinkInv

(* fail() closes sockets and settles no promise as resolved.               *)
LEMMA FailLinkInv ==
  ASSUME TypeOK, FibersAwait, LinkInv, NEW T, Fail(T), UNCHANGED <<contact, signaling, pc, on, phase>>,
         registered' => registered,
         inviteHandler' = inviteHandler \/ revoked', revoked => revoked',
         recoveryTransport' \in {recoveryTransport, NoTransport}
  PROVE  LinkInv'
<1>1. /\ \A v \in Transports : status'[v] \in {status[v], "closed"}
      /\ \A f \in Fibers : got'[f] = got[f] \/ (got[f] = "nothing" /\ got'[f] = "rejected")
  BY DEF Fail, FailedStatus, FailedGot
<1>2. RegistersOnSocket'
  <2>. SUFFICES ASSUME NEW f \in Fibers,
                       \/ pc'[f] \in {"register", "authorize"}
                       \/ (pc'[f] = "ready" /\ got'[f] = "resolved")
                PROVE  status'[on'[f]] \in {"open", "closed"}
    BY DEF RegistersOnSocket
  <2>1. status[on[f]] \in {"open", "closed"}
    BY <1>1 DEF LinkInv, RegistersOnSocket
  <2>2. on[f] \in Transports
    BY <1>1 DEF TypeOK, FibersAwait, MaybeTransport
  <2>. QED
    BY <1>1, <2>1, <2>2
<1>3. RegistersSignaling' /\ RegisteredOnSocket' /\ NoEarlyCall'
  BY <1>1 DEF TypeOK, LinkInv, RegistersSignaling, RegisteredOnSocket, NoEarlyCall
<1>4. ReplacementIsRecovers'
  BY <1>1, NoTransportAssumption DEF TypeOK, LinkInv, ReplacementIsRecovers, Replaced, Fibers
<1>. QED
  BY <1>2, <1>3, <1>4 DEF LinkInv

(* recover() takes a transport that nothing refers to.                     *)
LEMMA StartRecoveryLinkInv ==
  ASSUME TypeOK, FibersAwait, LinkInv, NEW T, StartRecovery(T),
         UNCHANGED <<signaling, phase, inviteHandler, revoked>>, ~registered'
  PROVE  LinkInv'
<1>1. PICK u \in Transports :
        /\ Unreferenced(u)
        /\ recoveryTransport' = u
        /\ status' = [FailedStatus(T) EXCEPT ![u] = "connecting"]
        /\ contact' = contact \ {u}
        /\ pc' = [pc EXCEPT !["recover"] = "ready"]
        /\ on' = [on EXCEPT !["recover"] = u]
        /\ got' = [FailedGot(T) EXCEPT !["recover"] = "nothing"]
  BY DEF StartRecovery
<1>2. /\ \A v \in Transports \ {u} : status'[v] \in {status[v], "closed"}
      /\ \A f \in Fibers \ {"recover"} :
           /\ pc'[f] = pc[f] /\ on'[f] = on[f] /\ on[f] # u
           /\ got'[f] = got[f] \/ (got[f] = "nothing" /\ got'[f] = "rejected")
      /\ pc'["recover"] = "ready" /\ got'["recover"] = "nothing"
  BY <1>1 DEF TypeOK, Unreferenced, FailedStatus, FailedGot, Fibers
<1>3. RegistersOnSocket'
  <2>. SUFFICES ASSUME NEW f \in Fibers,
                       \/ pc'[f] \in {"register", "authorize"}
                       \/ (pc'[f] = "ready" /\ got'[f] = "resolved")
                PROVE  status'[on'[f]] \in {"open", "closed"}
    BY DEF RegistersOnSocket
  <2>1. f # "recover"
    BY <1>2
  <2>2. status[on[f]] \in {"open", "closed"}
    BY <1>2, <2>1 DEF LinkInv, RegistersOnSocket
  <2>3. on[f] \in Transports \ {u}
    BY <1>2, <2>1 DEF TypeOK, FibersAwait, MaybeTransport
  <2>. QED
    BY <1>2, <2>1, <2>2, <2>3
<1>4. RegistersSignaling' /\ RegisteredOnSocket' /\ NoEarlyCall'
  BY <1>2 DEF LinkInv, RegistersSignaling, RegisteredOnSocket, NoEarlyCall, Fibers
<1>5. ReplacementIsRecovers'
  BY <1>1, <1>2 DEF ReplacementIsRecovers, Fibers
<1>. QED
  BY <1>3, <1>4, <1>5 DEF LinkInv

(* A loss keeps LinkInv, whether it starts a recovery or not.              *)
LEMMA DropLinkInv == ASSUME Inv, LinkInv, NEW t \in Transports, Drop(t) PROVE LinkInv'
<1>. USE DEF Drop, registration, calls
<1>0. TypeOK /\ FibersAwait
  BY DEF Inv
<1>1. CASE HandlesLossOf(t)
  BY <1>0, <1>1, StartRecoveryLinkInv DEF LoseSignaling, Unregister
<1>2. CASE ~HandlesLossOf(t)
  BY <1>0, <1>2, FailLinkInv DEF LoseOther
<1>. QED
  BY <1>1, <1>2

(* So does the timer, which starts a recovery or does nothing.             *)
LEMMA ReconnectFiresLinkInv == ASSUME Inv, LinkInv, ReconnectFires PROVE LinkInv'
<1>. USE DEF ReconnectFires, calls, fibers
<1>0. TypeOK /\ FibersAwait
  BY DEF Inv
<1>1. CASE RecoverDeclines
  BY <1>0, <1>1, CallLinkInv DEF CallFrame, PhasesMove, registration
<1>2. CASE ~RecoverDeclines
  <2>1. ~registered
    BY <1>2 DEF RecoverDeclines, Inv, TimerMeansOutage
  <2>. QED
    BY <1>0, <1>2, <2>1, StartRecoveryLinkInv
<1>. QED
  BY <1>1, <1>2

(* revoke() leaves no replacement and no fresh register() to speak of.     *)
LEMMA RevokeLinkInv == ASSUME Inv, LinkInv, Revoke PROVE LinkInv'
<1>1. TypeOK /\ FibersAwait
  BY DEF Inv
<1>. QED
  BY <1>1, FailLinkInv DEF Revoke, Unregister, calls

(* The transport on which recover() goes on.                               *)
LEMMA RecoverGoesOn ==
  ASSUME Inv, ~Superseded, got["recover"] # "nothing"
  PROVE  /\ recoveryTransport = on["recover"] /\ recoveryTransport \in Transports
         /\ ~revoked /\ ~registered /\ inviteHandler /\ pc["register"] = "idle"
         /\ status[signaling] = "closed"
<1>1. recoveryTransport = on["recover"] /\ recoveryTransport # NoTransport /\ ~revoked
  BY DEF Inv, FibersAwait, Fibers, Superseded
<1>. QED
  BY <1>1 DEF Inv, TypeOK, MaybeTransport, SingleRecovery, RegisterComesFirst

(* The adopted connection has been open, since its REGISTER was answered.  *)
LEMMA RecoverAdoptsLinkInv == ASSUME Inv, LinkInv, RecoverAdopts PROVE LinkInv'
<1>. USE DEF RecoverAdopts, EndFiber, net, calls, Fibers
<1>0. TypeOK /\ recoveryTransport = on["recover"] /\ recoveryTransport \in Transports
      /\ pc["register"] = "idle" /\ inviteHandler
  BY RecoverGoesOn DEF Inv, Succeeded
<1>1. RegistersOnSocket' /\ RegistersSignaling' /\ RegisteredOnSocket'
  BY <1>0 DEF TypeOK, LinkInv, RegistersOnSocket, RegistersSignaling, RegisteredOnSocket, Succeeded
<1>2. NoEarlyCall' /\ ReplacementIsRecovers'
  BY <1>0, NoTransportAssumption DEF TypeOK, LinkInv, NoEarlyCall, ReplacementIsRecovers
<1>. QED
  BY <1>1, <1>2 DEF LinkInv

(* A failed attempt ends recover() and forgets the replacement.            *)
LEMMA RecoverRetriesLinkInv ==
  ASSUME Inv, LinkInv, NEW revokes \in BOOLEAN, RecoverRetries(revokes) PROVE LinkInv'
<1>. USE DEF RecoverRetries, EndFiber, calls, Fibers
<1>0. TypeOK /\ FibersAwait /\ pc["register"] = "idle" /\ ~registered /\ inviteHandler
  BY RecoverGoesOn DEF Inv, Failed
<1>1. \A v \in Transports : status'[v] \in {status[v], "closed"}
  BY DEF DisposeReplacement, FailedStatus
<1>2. RegistersOnSocket'
  BY <1>0, <1>1 DEF TypeOK, FibersAwait, LinkInv, RegistersOnSocket, MaybeTransport
<1>3. RegistersSignaling' /\ RegisteredOnSocket' /\ NoEarlyCall'
  BY <1>0 DEF TypeOK, RegistersSignaling, RegisteredOnSocket, LinkInv, NoEarlyCall
<1>4. ReplacementIsRecovers'
  BY <1>0, NoTransportAssumption DEF TypeOK, ReplacementIsRecovers
<1>. QED
  BY <1>2, <1>3, <1>4 DEF LinkInv

-----------------------------------------------------------------------------
(* Every step preserves LinkInv. *)

(* The steps that concern the connection itself.                           *)
ConnectionSteps ==
  \/ RegisterReturns \/ RecoverAdopts \/ ReconnectFires \/ Revoke
  \/ \E revokes \in BOOLEAN : RecoverRetries(revokes)
  \/ \E t \in Transports : SecureConnect(t) \/ Drop(t)

(* Every step is one of the three kinds.                                   *)
LEMMA StepKinds == [Next]_vars => CallSteps \/ FiberSteps \/ ConnectionSteps
<1>. SUFFICES ASSUME [Next]_vars PROVE CallSteps \/ FiberSteps \/ ConnectionSteps
  OBVIOUS
<1>1. CASE Resume
  BY <1>1 DEF Resume, CallSteps, FiberSteps, ConnectionSteps
<1>2. CASE Timer
  BY <1>2 DEF Timer, CallSteps, FiberSteps, ConnectionSteps
<1>3. CASE Receive
  BY <1>3 DEF Receive, CallSteps, FiberSteps
<1>4. CASE Socket \/ Call
  BY <1>4 DEF Socket, Call, CallSteps, FiberSteps, ConnectionSteps
<1>. QED
  BY <1>1, <1>2, <1>3, <1>4 DEF Next, CallSteps

(* What the suspended functions, the connections and the server have to do *)
(* with each other holds in every behaviour (index.ts:61-107, 157-209).    *)
THEOREM LinkInvariance == Spec => [](Inv /\ LinkInv)
<1>1. Inv /\ LinkInv /\ [Next]_vars => LinkInv'
  <2>1. Inv => TypeOK
    BY DEF Inv
  <2>2. Inv /\ LinkInv /\ ConnectionSteps => LinkInv'
    BY RegisterReturnsLinkInv, RecoverAdoptsLinkInv, ReconnectFiresLinkInv, RevokeLinkInv,
       RecoverRetriesLinkInv, SecureConnectLinkInv, DropLinkInv
       DEF ConnectionSteps
  <2>. QED
    BY <2>1, <2>2, StepKinds, CallStepsLinkInv, FiberStepsLinkInv
<1>. QED
  BY Invariance, InitLinkInv, <1>1, PTL DEF Spec

-----------------------------------------------------------------------------
(* Nobody waits in vain *)

(* A call that waits holds a connection, and no call holds a replacement   *)
(* before it is adopted.                                                   *)
CallsAwait ==
  /\ \A s \in Sessions : via[s] = NoTransport => awaits[s] = "nothing"
  /\ recoveryTransport # NoTransport => \A s \in Sessions : via[s] # recoveryTransport

SignalingIsUsed == status[signaling] # "free"

WaitInv == NobodyWaitsInVain /\ CallsAwait /\ SignalingIsUsed

(* Initially nobody waits.                                                 *)
LEMMA InitWaitInv == Init => WaitInv
BY NoTransportAssumption DEF Init, WaitInv, NobodyWaitsInVain, CallsAwait, SignalingIsUsed, Fibers

(* A step of a call concerns its own wait, and starts one on the signaling *)
(* connection only.                                                        *)
LEMMA CallStepsWaitInv == ASSUME Inv, WaitInv, CallSteps PROVE WaitInv'
<1>0. TypeOK /\ SingleRecovery
  BY DEF Inv
<1>1. CallFrame
  BY <1>0, CallStepsFrame
<1>. USE DEF SignalingIsUsed
<1>2. ASSUME UNCHANGED <<awaits, via>>,
             \A s \in Sessions : reply'[s] = "nothing" => reply[s] = "nothing"
      PROVE  WaitInv'
  BY <1>1, <1>2 DEF CallFrame, registration, fibers, WaitInv, NobodyWaitsInVain, CallsAwait
<1>3. ASSUME NEW s \in Sessions, Settled(s) PROVE WaitInv'
  BY <1>0, <1>1, <1>3
     DEF CallFrame, registration, fibers, WaitInv, NobodyWaitsInVain, CallsAwait, Settled, TypeOK
<1>4. ASSUME NEW s \in Sessions, BindDone(s) PROVE WaitInv'
  BY <1>0, <1>1, <1>4, NoTransportAssumption
     DEF CallFrame, registration, fibers, WaitInv, NobodyWaitsInVain, CallsAwait, BindDone,
         SingleRecovery, TypeOK
<1>5. ASSUME NEW s \in Sessions,
             AnswerReturns(s) \/ AnswerThrows(s) \/ ReconcileSucceeds(s) \/ ReconcileFails(s)
             \/ ReconcileTimeout(s)
      PROVE  WaitInv'
  BY <1>3, <1>5 DEF AnswerReturns, AnswerThrows, ReconcileSucceeds, ReconcileFails, ReconcileTimeout
<1>6. ASSUME NEW s \in Sessions,
             DeadlineFires(s) \/ BindFails(s) \/ Answer(s) \/ Decline(s) \/ Hangup(s)
      PROVE  WaitInv'
  BY <1>2, <1>6 DEF DeadlineFires, BindFails, Answer, Decline, Hangup, dialogs
<1>7. ASSUME NEW t \in Transports, NEW s \in Sessions, ReceiveInvite(t, s) \/ ReceiveBye(t, s)
      PROVE  WaitInv'
  BY <1>2, <1>7 DEF ReceiveInvite, ReceiveBye, dialogs
<1>8. ASSUME NEW t \in Transports, NEW s \in Sessions,
             \/ ReceiveAck(t, s) \/ ReceiveCancel(t, s)
             \/ \E outcome \in {"2xx", "non2xx"} : ReceiveReinviteResponse(t, s, outcome)
      PROVE  WaitInv'
  BY <1>0, <1>2, <1>8
     DEF ReceiveAck, ReceiveCancel, ReceiveReinviteResponse, Resolve, TypeOK
<1>9. ASSUME EndLoop \/ UNCHANGED vars PROVE WaitInv'
  BY <1>2, <1>9 DEF EndLoop, vars, dialogs
<1>. QED
  BY <1>4, <1>5, <1>6, <1>7, <1>8, <1>9 DEF CallSteps

(* An awaiting function waits on for as long as its connection lives.      *)
LEMMA FiberStepsWaitInv == ASSUME Inv, WaitInv, FiberSteps PROVE WaitInv'
<1>. USE DEF Fibers
<1>0. TypeOK /\ FibersAwait
  BY DEF Inv
<1>1. UNCHANGED <<status, signaling, recoveryTransport, dialogs>>
  BY DEF FiberSteps, Register, RegisterThrows, RefreshTick, RefreshEnds, RecoverAbandons, Registers,
         Authenticates, SendRegister, ConnectTimeout, ReceiveRegisterResponse, net, registration
<1>2. CallsAwait' /\ SignalingIsUsed'
  BY <1>1 DEF WaitInv, CallsAwait, SignalingIsUsed, dialogs
<1>. DEFINE Waits(f) == pc[f] # "idle" /\ got[f] = "nothing" =>
                          status[on[f]] = IF pc[f] = "ready" THEN "connecting" ELSE "open"
<1>3. ASSUME \A f \in Fibers : Waits(f)' PROVE WaitInv'
  BY <1>1, <1>2, <1>3 DEF WaitInv, NobodyWaitsInVain, dialogs
<1>4. \A f \in Fibers : Waits(f)
  BY DEF WaitInv, NobodyWaitsInVain
<1>5. ASSUME NEW f \in Fibers, NEW t \in Transports, status[t] # "free", StartFiber(f, t)
      PROVE  \A g \in Fibers : Waits(g)'
  BY <1>0, <1>1, <1>4, <1>5 DEF StartFiber, ReadyNow, TypeOK, Statuses
<1>6. ASSUME NEW f \in Fibers, EndFiber(f) PROVE \A g \in Fibers : Waits(g)'
  BY <1>0, <1>1, <1>4, <1>6 DEF EndFiber, TypeOK
<1>. HIDE DEF Waits
<1>7. ASSUME Register \/ RefreshTick PROVE WaitInv'
  BY <1>0, <1>3, <1>5, <1>7 DEF Register, RefreshTick, WaitInv, SignalingIsUsed, TypeOK
<1>8. ASSUME RegisterThrows \/ RefreshEnds \/ RecoverAbandons PROVE WaitInv'
  BY <1>3, <1>6, <1>8 DEF RegisterThrows, RefreshEnds, RecoverAbandons
<1>9. ASSUME NEW f \in Fibers, Registers(f) \/ Authenticates(f) PROVE WaitInv'
  BY <1>0, <1>1, <1>3, <1>4, <1>9 DEF Registers, Authenticates, SendRegister, TypeOK, Waits
<1>10. ASSUME NEW f \in Fibers, ConnectTimeout(f) PROVE WaitInv'
  BY <1>0, <1>1, <1>3, <1>4, <1>10 DEF ConnectTimeout, TypeOK, Waits
<1>11. ASSUME NEW t \in Transports, NEW f \in Fibers, NEW answer \in {"200", "401", "403"},
              ReceiveRegisterResponse(t, f, answer)
       PROVE  WaitInv'
  <2>1. got' = [got EXCEPT ![f] = got'[f]] /\ got'[f] # "nothing" /\ UNCHANGED <<pc, on>>
    BY <1>0, <1>11 DEF ReceiveRegisterResponse, TypeOK
  <2>. QED
    BY <1>0, <1>1, <1>3, <1>4, <2>1 DEF TypeOK, Waits
<1>. QED
  BY <1>7, <1>8, <1>9, <1>10, <1>11 DEF FiberSteps

(* Whoever waits for the transports T is told of their failure.            *)
LEMMA FailWaitInv ==
  ASSUME TypeOK, FibersAwait, WaitInv, NEW T, Fail(T), UNCHANGED <<pc, on, awaits, via, signaling>>,
         recoveryTransport' \in {recoveryTransport, NoTransport}
  PROVE  WaitInv'
<1>. USE DEF Fail, FailedStatus, FailedGot, FailedReply
<1>1. \A f \in Fibers : pc'[f] # "idle" /\ got'[f] = "nothing" =>
        on[f] \in Transports \ T /\ pc[f] # "idle" /\ got[f] = "nothing"
  BY DEF FibersAwait, TypeOK, MaybeTransport
<1>2. \A s \in Sessions : awaits'[s] # "nothing" /\ reply'[s] = "nothing" =>
        via[s] \in Transports \ T /\ awaits[s] # "nothing" /\ reply[s] = "nothing"
  BY DEF WaitInv, CallsAwait, TypeOK, MaybeTransport
<1>3. NobodyWaitsInVain'
  BY <1>1, <1>2 DEF WaitInv, NobodyWaitsInVain
<1>4. CallsAwait' /\ SignalingIsUsed'
  BY DEF WaitInv, CallsAwait, SignalingIsUsed, TypeOK
<1>. QED
  BY <1>3, <1>4 DEF WaitInv

(* A transport is new for a recovery only if nobody holds it.              *)
LEMMA StartRecoveryWaitInv ==
  ASSUME TypeOK, FibersAwait, WaitInv, NEW T, StartRecovery(T), UNCHANGED <<awaits, via, signaling>>
  PROVE  WaitInv'
<1>. USE NoTransportAssumption DEF FailedStatus, FailedGot, FailedReply, Fibers
<1>1. PICK t \in Transports :
        /\ Unreferenced(t)
        /\ recoveryTransport' = t
        /\ status' = [FailedStatus(T) EXCEPT ![t] = "connecting"]
        /\ pc' = [pc EXCEPT !["recover"] = "ready"]
        /\ on' = [on EXCEPT !["recover"] = t]
        /\ got' = [FailedGot(T) EXCEPT !["recover"] = "nothing"]
        /\ reply' = FailedReply(T)
  BY DEF StartRecovery
<1>2. pc'["recover"] = "ready" /\ on'["recover"] = t /\ status'[t] = "connecting"
  BY <1>1 DEF TypeOK
<1>3. \A f \in Fibers \ {"recover"} :
        /\ pc'[f] = pc[f] /\ on'[f] = on[f] /\ on[f] # t
        /\ pc[f] # "idle" /\ got'[f] = "nothing" =>
             on[f] \in Transports \ T /\ got[f] = "nothing"
  BY <1>1 DEF Unreferenced, FibersAwait, TypeOK, MaybeTransport
<1>4. \A s \in Sessions :
        /\ via[s] # t
        /\ awaits[s] # "nothing" /\ reply'[s] = "nothing" =>
             via[s] \in Transports \ T /\ reply[s] = "nothing"
  BY <1>1 DEF Unreferenced, WaitInv, CallsAwait, TypeOK, MaybeTransport
<1>5. \A u \in Transports \ (T \cup {t}) : status'[u] = status[u]
  BY <1>1 DEF TypeOK
<1>6. NobodyWaitsInVain'
  BY <1>2, <1>3, <1>4, <1>5 DEF WaitInv, NobodyWaitsInVain
<1>7. CallsAwait' /\ SignalingIsUsed'
  BY <1>1, <1>4 DEF WaitInv, CallsAwait, SignalingIsUsed, TypeOK
<1>. QED
  BY <1>6, <1>7 DEF WaitInv

(* An adopted connection has been open, and every re-INVITE that it did not*)
(* take has been rejected at once.                                         *)
LEMMA RecoverAdoptsWaitInv ==
  ASSUME Inv, LinkInv, WaitInv, RecoverAdopts
  PROVE  WaitInv'
<1>. USE DEF RecoverAdopts, Succeeded, net, Fibers
<1>0. TypeOK
  BY DEF Inv
<1>1. recoveryTransport = on["recover"] /\ recoveryTransport \in Transports
  BY RecoverGoesOn
<1>2. status[on["recover"]] \in {"open", "closed"}
  BY DEF LinkInv, RegistersOnSocket
<1>3. \A f \in Fibers : pc'[f] # "idle" =>
        pc'[f] = pc[f] /\ on'[f] = on[f] /\ got'[f] = got[f]
  BY <1>0 DEF EndFiber, TypeOK
<1>4. \A s \in Sessions :
        \/ awaits'[s] = awaits[s] /\ via'[s] = via[s] /\ reply'[s] = reply[s]
        \/ /\ via'[s] = on["recover"]
           /\ reply'[s] = "nothing" => status[on["recover"]] = "open"
  BY <1>0 DEF Reconcile, TypeOK
<1>5. NobodyWaitsInVain'
  BY <1>3, <1>4 DEF WaitInv, NobodyWaitsInVain
<1>6. CallsAwait' /\ SignalingIsUsed'
  BY <1>1, <1>2, <1>4, NoTransportAssumption DEF WaitInv, CallsAwait, SignalingIsUsed
<1>. QED
  BY <1>5, <1>6 DEF WaitInv

(* Only recover() holds the replacement that it disposes.                  *)
LEMMA RecoverRetriesWaitInv ==
  ASSUME Inv, LinkInv, WaitInv, NEW revokes \in BOOLEAN, RecoverRetries(revokes)
  PROVE  WaitInv'
<1>. USE DEF RecoverRetries, Failed, dialogs, Fibers
<1>0. TypeOK
  BY DEF Inv
<1>1. recoveryTransport \in Transports
  BY RecoverGoesOn
<1>2. \A f \in Fibers : pc'[f] # "idle" =>
        /\ pc'[f] = pc[f] /\ on'[f] = on[f] /\ got'[f] = got[f]
        /\ on[f] # recoveryTransport
  BY <1>0, <1>1, NoTransportAssumption DEF EndFiber, LinkInv, ReplacementIsRecovers, TypeOK
<1>3. \A u \in Transports : status'[u] = IF u = recoveryTransport THEN "closed" ELSE status[u]
  BY <1>0 DEF DisposeReplacement, FailedStatus, TypeOK
<1>4. \A f \in Fibers : pc[f] # "idle" => on[f] \in Transports
  BY <1>0 DEF Inv, FibersAwait, TypeOK, MaybeTransport
<1>5. \A s \in Sessions : awaits[s] # "nothing" => via[s] \in Transports \ {recoveryTransport}
  BY <1>0, <1>1, NoTransportAssumption DEF WaitInv, CallsAwait, TypeOK, MaybeTransport
<1>6. NobodyWaitsInVain'
  BY <1>2, <1>3, <1>4, <1>5 DEF WaitInv, NobodyWaitsInVain
<1>7. CallsAwait' /\ SignalingIsUsed'
  BY <1>0, <1>3 DEF WaitInv, CallsAwait, SignalingIsUsed, TypeOK
<1>. QED
  BY <1>6, <1>7 DEF WaitInv

(* The remaining steps end waits, reject them, or start one that may end.  *)
LEMMA ConnectionStepsWaitInv == ASSUME Inv, LinkInv, WaitInv, ConnectionSteps PROVE WaitInv'
<1>. USE DEF Fibers
<1>0. TypeOK /\ FibersAwait
  BY DEF Inv
<1>1. ASSUME RegisterReturns PROVE WaitInv'
  BY <1>0, <1>1
     DEF RegisterReturns, EndFiber, net, dialogs, WaitInv, NobodyWaitsInVain, CallsAwait,
         SignalingIsUsed, TypeOK
<1>2. ASSUME ReconnectFires PROVE WaitInv'
  <2>1. CASE RecoverDeclines
    BY <1>2, <2>1 DEF ReconnectFires, fibers, WaitInv, NobodyWaitsInVain, CallsAwait, SignalingIsUsed
  <2>2. CASE ~RecoverDeclines
    BY <1>0, <1>2, <2>2, StartRecoveryWaitInv DEF ReconnectFires
  <2>. QED
    BY <2>1, <2>2
<1>3. ASSUME Revoke PROVE WaitInv'
  BY <1>0, <1>3, FailWaitInv DEF Revoke
<1>4. ASSUME NEW t \in Transports, Drop(t) PROVE WaitInv'
  <2>1. CASE HandlesLossOf(t)
    BY <1>0, <1>4, <2>1, StartRecoveryWaitInv DEF Drop, LoseSignaling
  <2>2. CASE ~HandlesLossOf(t)
    BY <1>0, <1>4, <2>2, FailWaitInv DEF Drop, LoseOther, registration
  <2>. QED
    BY <2>1, <2>2
<1>5. ASSUME NEW t \in Transports, SecureConnect(t) PROVE WaitInv'
  <2>1. \A f \in Fibers : got'[f] = "nothing" => on[f] # t /\ got[f] = "nothing"
    BY <1>5 DEF SecureConnect
  <2>2. \A u \in Transports : status'[u] = IF u = t THEN "open" ELSE status[u]
    BY <1>0, <1>5 DEF SecureConnect, TypeOK
  <2>3. \A f \in Fibers : pc[f] # "idle" => on[f] \in Transports
    BY <1>0 DEF FibersAwait, TypeOK, MaybeTransport
  <2>4. \A s \in Sessions : awaits[s] # "nothing" => via[s] \in Transports
    BY <1>0 DEF WaitInv, CallsAwait, TypeOK, MaybeTransport
  <2>. QED
    BY <1>0, <1>5, <2>1, <2>2, <2>3, <2>4
       DEF SecureConnect, registration, dialogs, WaitInv, NobodyWaitsInVain, CallsAwait,
           SignalingIsUsed, TypeOK
<1>. QED
  BY <1>1, <1>2, <1>3, <1>4, <1>5, RecoverAdoptsWaitInv, RecoverRetriesWaitInv DEF ConnectionSteps

(* In no behaviour does anybody wait for a connection that is gone         *)
(* (index.ts:77-107, 171-209; sip-transport.ts:240-266).                   *)
THEOREM WaitInvariance == Spec => []WaitInv
<1>1. Inv /\ LinkInv /\ WaitInv /\ [Next]_vars => WaitInv'
  BY StepKinds, CallStepsWaitInv, FiberStepsWaitInv, ConnectionStepsWaitInv
<1>. QED
  BY LinkInvariance, InitWaitInv, <1>1, PTL DEF Spec

(* There is always something that will repair an outage, and it does not   *)
(* wait for what can no longer come.                                       *)
THEOREM OutagesAreRepaired == Spec => []OutageIsBeingRepaired
<1>1. Inv /\ WaitInv => OutageIsBeingRepaired
  BY DEF Inv, WaitInv, OutageIsBeingRepaired
<1>. QED
  BY LinkInvariance, WaitInvariance, <1>1, PTL

-----------------------------------------------------------------------------
(* What the calls see of the connection *)

Usable(t) == status[t] = "open"

(* The value of Link, case by case.                                        *)
LEMMA LinkValue ==
  /\ revoked => Link = "closed"
  /\ ~revoked /\ ~inviteHandler => Link = "unregistered"
  /\ ~revoked /\ inviteHandler /\ registered =>
       Link = IF Usable(signaling) THEN "up" ELSE "closed"
  /\ ~revoked /\ inviteHandler /\ ~registered /\ ~Replaced => Link = "down"
  /\ ~revoked /\ inviteHandler /\ ~registered /\ Replaced =>
       Link = IF Usable(recoveryTransport) THEN "adopting" ELSE "stillborn"
BY DEF Link, Usable

(* And after a step.                                                       *)
LEMMA LinkValuePrimed ==
  /\ revoked' => Link' = "closed"
  /\ ~revoked' /\ ~inviteHandler' => Link' = "unregistered"
  /\ ~revoked' /\ inviteHandler' /\ registered' =>
       Link' = IF Usable(signaling)' THEN "up" ELSE "closed"
  /\ ~revoked' /\ inviteHandler' /\ ~registered' /\ ~Replaced' => Link' = "down"
  /\ ~revoked' /\ inviteHandler' /\ ~registered' /\ Replaced' =>
       Link' = IF Usable(recoveryTransport)' THEN "adopting" ELSE "stillborn"
BY DEF Link, Usable

(* A step that changes nothing of this keeps the link.                     *)
LEMMA LinkKept ==
  ASSUME UNCHANGED <<signaling, registered, revoked, inviteHandler, recoveryTransport>>,
         Usable(signaling)' = Usable(signaling), Replaced' = Replaced,
         Replaced => Usable(recoveryTransport)' = Usable(recoveryTransport)
  PROVE  Link' = Link
BY DEF Link, Usable

(* While a replacement is tried, or the timer runs, the signaling          *)
(* connection is closed.                                                   *)
LEMMA OutageIsClosed ==
  ASSUME Inv, ~revoked, inviteHandler, ~registered
  PROVE  status[signaling] = "closed"
BY DEF Inv, RecoveryIsDue, SingleRecovery, TimerMeansOutage

(* A peer is heard only on a connection that the server knows and that is  *)
(* open, so on the signaling one while it is registered, and otherwise on  *)
(* a replacement that recover() is about to adopt.                         *)
LEMMA HeardOnlyOnLink == Inv /\ LinkInv => HeardOnLink
<1>. SUFFICES ASSUME Inv, LinkInv, NEW t \in contact, status[t] = "open"
              PROVE  Link \in {"unregistered", "up", "adopting"}
  BY DEF HeardOnLink
<1>1. t \in {signaling, recoveryTransport} /\ ~revoked
  BY DEF Inv, TypeOK, NoLeakedConnection, RevokedIsOffline, Live
<1>2. CASE ~inviteHandler
  BY <1>1, <1>2, LinkValue
<1>3. CASE inviteHandler /\ registered
  <2>1. t = signaling
    BY <1>1, <1>3, NoTransportAssumption DEF Inv, TypeOK, SingleRecovery
  <2>. QED
    BY <1>1, <1>3, <2>1, LinkValue DEF Usable
<1>4. CASE inviteHandler /\ ~registered
  <2>1. t = recoveryTransport
    BY <1>1, <1>4, OutageIsClosed
  <2>2. Replaced
    BY <2>1 DEF LinkInv, ReplacementIsRecovers
  <2>. QED
    BY <1>1, <1>4, <2>1, <2>2, LinkValue DEF Usable
<1>. QED
  BY <1>2, <1>3, <1>4

-----------------------------------------------------------------------------
(* Every step maps to a step of Connection *)

(* The initial states map to initial states.                               *)
LEMMA InitRefines == Init => CallsConnection!Init
<1>. SUFFICES ASSUME Init PROVE CallsConnection!Init
  OBVIOUS
<1>1. Link = "unregistered"
  BY LinkValue DEF Init
<1>. QED
  BY <1>1 DEF Init, CallsConnection!Init, Reconciling

(* A step that is not seen.                                                *)
LEMMA StutterRefines ==
  ASSUME Link' = Link, UNCHANGED <<callSessions, deadlines>>, Reconciling' = Reconciling
  PROVE  UNCHANGED CallsConnection!vars
BY DEF CallsConnection!vars

(* A call that ends leaves, whatever it still waits for.                   *)
LEMMA DisposeRefines ==
  ASSUME Inv, Link' = Link, NEW s \in Sessions, Dispose(s),
         \A r \in Sessions \ {s} : awaits'[r] = awaits[r]
  PROVE  CallsConnection!Leave(s) \/ UNCHANGED CallsConnection!vars
<1>0. callSessions \subseteq Sessions /\ deadlines \subseteq callSessions
  BY DEF Inv, TypeOK, DeadlineTracksOutage
<1>1. callSessions' = callSessions \ {s} /\ deadlines' = deadlines \ {s}
  BY DEF Dispose, RemoveCallSession
<1>2. Reconciling' = Reconciling \ {s}
  BY <1>0, <1>1 DEF Reconciling
<1>3. CASE s \in callSessions
  BY <1>1, <1>2, <1>3 DEF CallsConnection!Leave
<1>4. CASE s \notin callSessions
  <2>1. s \notin Reconciling
    BY <1>4 DEF Reconciling
  <2>2. callSessions' = callSessions /\ deadlines' = deadlines /\ Reconciling' = Reconciling
    BY <1>0, <1>1, <1>2, <1>4, <2>1
  <2>. QED
    BY <2>2, StutterRefines
<1>. QED
  BY <1>3, <1>4

(* A call joins when answer() returns, leaves when it is disposed, and     *)
(* settles when its re-INVITE has been accepted; the rest is not seen.     *)
LEMMA CallStepsRefine ==
  ASSUME Inv, LinkInv, CallSteps
  PROVE  CallsConnection!Next \/ UNCHANGED CallsConnection!vars
<1>. DEFINE Goal == CallsConnection!Next \/ UNCHANGED CallsConnection!vars
<1>. SUFFICES Goal
  OBVIOUS
<1>0. TypeOK /\ callSessions = {s \in Sessions : phase[s] = "active"}
  BY DEF Inv, CallsHoldTheirSockets
<1>1. ASSUME UNCHANGED <<status, registration, fibers>> PROVE Link' = Link
  BY <1>1, LinkKept DEF Usable, Replaced, registration, fibers
<1>2. ASSUME UNCHANGED <<status, registration, fibers, callSessions, deadlines>>,
             \A s \in callSessions : awaits'[s] = "final" <=> awaits[s] = "final"
      PROVE  Goal
  <2>1. Reconciling' = Reconciling
    BY <1>2 DEF Reconciling
  <2>. QED
    BY <1>1, <1>2, <2>1, StutterRefines
<1>3. ASSUME NEW s \in Sessions, UNCHANGED <<status, registration, fibers>>, Dispose(s),
             UNCHANGED awaits \/ Settled(s)
      PROVE  Goal
  <2>1. \A r \in Sessions \ {s} : awaits'[r] = awaits[r]
    BY <1>0, <1>3 DEF TypeOK, Settled
  <2>. QED
    BY <1>1, <1>3, <2>1, DisposeRefines DEF CallsConnection!Next
<1>. USE DEF net
<1>4. ASSUME NEW s \in Sessions,
             \/ AnswerThrows(s) \/ ReconcileFails(s) \/ DeadlineFires(s)
             \/ ReconcileTimeout(s) \/ Hangup(s)
      PROVE  Goal
  BY <1>3, <1>4 DEF AnswerThrows, ReconcileFails, DeadlineFires, ReconcileTimeout, Hangup, dialogs
<1>5. ASSUME NEW s \in Sessions, AnswerReturns(s)
      PROVE  Goal
  <2>1. Link' = Link /\ phase[s] = "answering" /\ awaits[s] = "ack"
    BY <1>1, <1>5 DEF AnswerReturns, MediaUsable
  <2>2. revoked \/ inviteHandler
    BY <2>1 DEF LinkInv, NoEarlyCall
  <2>3. Link # "unregistered"
    BY <2>2 DEF Link
  <2>4. s \notin callSessions /\ callSessions' = callSessions \cup {s} /\ deadlines' = deadlines
    BY <1>0, <1>5, <2>1 DEF AnswerReturns
  <2>5. Reconciling' = Reconciling
    BY <1>0, <1>5, <2>1, <2>4 DEF TypeOK, AnswerReturns, Settled, Reconciling
  <2>6. CallsConnection!Join(s)
    BY <2>1, <2>3, <2>4, <2>5 DEF CallsConnection!Join
  <2>. QED
    BY <2>6 DEF CallsConnection!Next
<1>6. ASSUME NEW s \in Sessions, ReconcileSucceeds(s)
      PROVE  Goal
  <2>1. Link' = Link /\ status[signaling] = "open" /\ awaits[s] = "final"
        /\ callSessions' = callSessions /\ deadlines' = deadlines
    BY <1>1, <1>6 DEF ReconcileSucceeds, books
  <2>2. Reconciling' = Reconciling \ {s}
    BY <1>0, <1>6, <2>1 DEF TypeOK, ReconcileSucceeds, Settled, Reconciling
  <2>3. CASE s \notin callSessions
    <3>1. Reconciling' = Reconciling
      BY <2>2, <2>3 DEF Reconciling
    <3>. QED
      BY <2>1, <3>1, StutterRefines
  <2>4. CASE s \in callSessions
    <3>1. ~revoked
      BY <1>0, <2>1 DEF Inv, RevokedIsOffline, Live, TypeOK
    <3>2. inviteHandler
      BY <1>0, <2>4, <3>1 DEF LinkInv, NoEarlyCall
    <3>3. registered
      BY <2>1, <3>1, <3>2, OutageIsClosed
    <3>4. Link = "up"
      BY <2>1, <3>1, <3>2, <3>3, LinkValue DEF Usable
    <3>5. CallsConnection!Settle(s)
      BY <2>1, <2>2, <2>4, <3>4 DEF CallsConnection!Settle, Reconciling
    <3>. QED
      BY <3>5 DEF CallsConnection!Next
  <2>. QED
    BY <2>3, <2>4
<1>7. ASSUME NEW s \in Sessions, BindDone(s)
      PROVE  Goal
  <2>1. s \notin callSessions
    BY <1>0, <1>7 DEF BindDone
  <2>2. \A r \in callSessions : awaits'[r] = awaits[r]
    BY <1>0, <1>7, <2>1 DEF TypeOK, BindDone
  <2>. QED
    BY <1>2, <1>7, <2>2 DEF BindDone, books
<1>8. ASSUME NEW s \in Sessions, BindFails(s) \/ Answer(s) \/ Decline(s)
      PROVE  Goal
  BY <1>2, <1>8 DEF BindFails, Answer, Decline, books, dialogs
<1>9. ASSUME NEW t \in Transports, NEW s \in Sessions,
             ReceiveInvite(t, s) \/ ReceiveAck(t, s) \/ ReceiveCancel(t, s)
      PROVE  Goal
  BY <1>2, <1>9 DEF ReceiveInvite, ReceiveAck, ReceiveCancel, books, dialogs
<1>10. ASSUME NEW t \in Transports, NEW s \in Sessions, ReceiveBye(t, s)
       PROVE  Goal
  BY <1>3, <1>10 DEF ReceiveBye, dialogs
<1>11. ASSUME NEW t \in Transports, NEW s \in Sessions, NEW outcome \in {"2xx", "non2xx"},
              ReceiveReinviteResponse(t, s, outcome)
       PROVE  Goal
  BY <1>2, <1>11 DEF ReceiveReinviteResponse, books
<1>12. ASSUME EndLoop \/ UNCHANGED vars PROVE Goal
  BY <1>2, <1>12 DEF EndLoop, vars, books, dialogs, registration, fibers
<1>. HIDE DEF Goal
<1>. QED
  BY <1>4, <1>5, <1>6, <1>7, <1>8, <1>9, <1>10, <1>11, <1>12 DEF CallSteps

(* Of the awaiting functions only recover() is seen, when its REGISTER has *)
(* been accepted.                                                          *)
LEMMA FiberStepsRefine ==
  ASSUME Inv, LinkInv, FiberSteps
  PROVE  CallsConnection!Next \/ UNCHANGED CallsConnection!vars
<1>. DEFINE Goal == CallsConnection!Next \/ UNCHANGED CallsConnection!vars
<1>. SUFFICES Goal
  OBVIOUS
<1>. USE DEF net, registration, dialogs, books, Fibers
<1>0. TypeOK /\ FibersAwait /\ SingleRecovery
  BY DEF Inv
<1>1. UNCHANGED <<status, registration, books>> /\ Reconciling' = Reconciling
  BY DEF Reconciling, FiberSteps, Register, RegisterThrows, RefreshTick, RefreshEnds,
         RecoverAbandons, Registers, Authenticates, SendRegister, ConnectTimeout,
         ReceiveRegisterResponse
<1>2. ASSUME Replaced' = Replaced PROVE Goal
  <2>1. Link' = Link
    BY <1>1, <1>2, LinkKept DEF Usable
  <2>. QED
    BY <1>1, <2>1, StutterRefines
<1>3. ASSUME Register \/ RegisterThrows \/ RefreshTick \/ RefreshEnds PROVE Replaced' = Replaced
  BY <1>0, <1>1, <1>3 DEF Replaced, Register, RegisterThrows, RefreshTick, RefreshEnds,
                          StartFiber, EndFiber, TypeOK
<1>4. ASSUME RecoverAbandons PROVE Replaced' = Replaced
  <2>1. recoveryTransport = NoTransport
    BY <1>0, <1>4 DEF RecoverAbandons, Superseded, SingleRecovery
  <2>. QED
    BY <1>1, <2>1 DEF Replaced
<1>5. ASSUME NEW f \in Fibers, Registers(f) \/ Authenticates(f) \/ ConnectTimeout(f)
      PROVE  Replaced' = Replaced
  BY <1>0, <1>1, <1>5 DEF Replaced, Registers, Authenticates, SendRegister, ConnectTimeout, TypeOK
<1>6. ASSUME NEW t \in Transports, NEW f \in Fibers, NEW answer \in {"200", "401", "403"},
             ReceiveRegisterResponse(t, f, answer)
      PROVE  Goal
  <2>1. CASE recoveryTransport # NoTransport /\ f = "recover" /\ answer = "200"
    <3>1. t = recoveryTransport /\ status[t] = "open" /\ ~Replaced
      BY <1>0, <1>6, <2>1
         DEF ReceiveRegisterResponse, Receiving, Replaced, SingleRecovery
    <3>2. Replaced'
      BY <1>0, <1>1, <1>6, <2>1 DEF ReceiveRegisterResponse, Replaced, TypeOK
    <3>3. ~revoked /\ ~registered /\ inviteHandler
      BY <2>1 DEF Inv, SingleRecovery, RegisterComesFirst
    <3>4. Link = "down"
      BY <3>1, <3>3, LinkValue
    <3>5. Link' = "adopting"
      BY <1>1, <3>1, <3>2, <3>3, LinkValuePrimed DEF Usable
    <3>6. CallsConnection!Replace
      BY <1>1, <3>4, <3>5 DEF CallsConnection!Replace
    <3>. QED
      BY <3>6 DEF CallsConnection!Next
  <2>2. CASE ~(recoveryTransport # NoTransport /\ f = "recover" /\ answer = "200")
    <3>1. Replaced' = Replaced
      BY <1>0, <1>1, <1>6, <2>2 DEF ReceiveRegisterResponse, Replaced, TypeOK
    <3>. QED
      BY <1>2, <3>1
  <2>. QED
    BY <2>1, <2>2
<1>. HIDE DEF Goal
<1>. QED
  BY <1>2, <1>3, <1>4, <1>5, <1>6 DEF FiberSteps

-----------------------------------------------------------------------------

(* register() makes the link, unless revoke() was quicker.                 *)
LEMMA RegisterReturnsRefines ==
  ASSUME Inv, LinkInv, RegisterReturns
  PROVE  CallsConnection!Next \/ UNCHANGED CallsConnection!vars
<1>. USE DEF RegisterReturns, books, dialogs, net
<1>1. ~inviteHandler /\ registered' /\ inviteHandler' /\ revoked' = revoked
  BY DEF Inv, RegisterComesFirst, Succeeded
<1>2. UNCHANGED <<callSessions, deadlines>> /\ Reconciling' = Reconciling
  BY DEF Reconciling
<1>3. CASE revoked
  <2>1. Link' = Link
    BY <1>1, <1>3, LinkValue, LinkValuePrimed
  <2>. QED
    BY <1>2, <2>1, StutterRefines
<1>4. CASE ~revoked
  <2>1. Link = "unregistered" /\ Link' \in {"up", "closed"}
    BY <1>1, <1>4, LinkValue, LinkValuePrimed
  <2>2. CallsConnection!Register
    BY <1>2, <2>1 DEF CallsConnection!Register
  <2>. QED
    BY <2>2 DEF CallsConnection!Next
<1>. QED
  BY <1>3, <1>4

(* That a connection opens is not seen before its REGISTER.                *)
LEMMA SecureConnectRefines ==
  ASSUME Inv, LinkInv, NEW t \in Transports, SecureConnect(t)
  PROVE  CallsConnection!Next \/ UNCHANGED CallsConnection!vars
<1>. USE DEF SecureConnect, registration, books, dialogs, Fibers
<1>0. TypeOK /\ FibersAwait
  BY DEF Inv
<1>1. UNCHANGED <<callSessions, deadlines>> /\ Reconciling' = Reconciling
  BY DEF Reconciling
<1>2. registered => Usable(signaling)' = Usable(signaling)
  BY <1>0 DEF LinkInv, RegisteredOnSocket, TypeOK, Usable
<1>3. CASE recoveryTransport # NoTransport
  <2>1. on["recover"] = recoveryTransport /\ status[signaling] = "closed"
    BY <1>3 DEF Inv, SingleRecovery
  <2>2. recoveryTransport \in Transports /\ signaling \in Transports
    BY <1>0, <1>3 DEF TypeOK, MaybeTransport
  <2>3. Replaced => status[recoveryTransport] \in {"open", "closed"}
    BY <2>1 DEF LinkInv, RegistersOnSocket, Replaced
  <2>4. pc["recover"] \in {"register", "authorize"} => status[recoveryTransport] \in {"open", "closed"}
    BY <2>1 DEF LinkInv, RegistersOnSocket
  <2>5. Replaced' = Replaced
    BY <1>0, <2>1, <2>4 DEF Replaced, TypeOK
  <2>6. Link' = Link
    BY <1>0, <1>3, <2>1, <2>2, <2>3, <2>5, LinkKept DEF Usable, TypeOK
  <2>. QED
    BY <1>1, <2>6, StutterRefines
<1>4. CASE recoveryTransport = NoTransport
  <2>1. ~Replaced /\ ~Replaced'
    BY <1>4 DEF Replaced
  <2>2. Link' = Link
    BY <1>2, <2>1 DEF Link, Usable
  <2>. QED
    BY <1>1, <2>2, StutterRefines
<1>. QED
  BY <1>3, <1>4

(* The loss of the signaling connection gives every call its deadline.     *)
LEMMA LoseSignalingRefines ==
  ASSUME Inv, LinkInv, NEW t \in Transports, Drop(t), HandlesLossOf(t)
  PROVE  CallsConnection!Lose
<1>. USE DEF Drop, HandlesLossOf, LoseSignaling, Unregister, StartDeadlines
<1>0. inviteHandler /\ deadlines \subseteq callSessions /\ TypeOK
  BY DEF Inv, RegisterComesFirst, DeadlineTracksOutage
<1>1. Link = "up"
  BY <1>0, LinkValue DEF LinkInv, RegisteredOnSocket, Usable
<1>2. ~Replaced'
  BY <1>0 DEF StartRecovery, TypeOK, Fibers, Replaced
<1>3. Link' = "down"
  BY <1>0, <1>2, LinkValuePrimed
<1>4. deadlines' = callSessions /\ callSessions' = callSessions /\ Reconciling' = Reconciling
  BY <1>0 DEF Reconciling
<1>. QED
  BY <1>1, <1>3, <1>4 DEF CallsConnection!Lose

(* Any other loss is seen only if the replacement has just registered.     *)
LEMMA LoseOtherRefines ==
  ASSUME Inv, LinkInv, NEW t \in Transports, Drop(t), ~HandlesLossOf(t)
  PROVE  CallsConnection!Next \/ UNCHANGED CallsConnection!vars
<1>. USE DEF Drop, LoseOther, registration, books
<1>0. TypeOK
  BY DEF Inv
<1>1. /\ UNCHANGED <<callSessions, deadlines>> /\ Reconciling' = Reconciling
      /\ status' = [v \in Transports |-> IF v \in {t} THEN "closed" ELSE status[v]]
  BY DEF Reconciling, Fail, FailedStatus
<1>2. Replaced' = Replaced
  BY <1>0 DEF Fail, FailedGot, Replaced, TypeOK, Fibers
<1>3. CASE revoked \/ ~inviteHandler
  <2>1. Link' = Link
    BY <1>3 DEF Link
  <2>. QED
    BY <1>1, <2>1, StutterRefines
<1>4. CASE ~revoked /\ inviteHandler /\ registered
  <2>1. t # signaling
    BY <1>4 DEF HandlesLossOf
  <2>2. Usable(signaling)' = Usable(signaling)
    BY <1>0, <1>1, <2>1 DEF TypeOK, Usable
  <2>3. Link' = Link
    BY <1>2, <1>4, <2>2 DEF Link, Usable
  <2>. QED
    BY <1>1, <2>3, StutterRefines
<1>5. CASE ~revoked /\ inviteHandler /\ ~registered
  <2>1. CASE ~Replaced
    <3>1. Link' = Link
      BY <1>2, <1>5, <2>1, LinkValue, LinkValuePrimed
    <3>. QED
      BY <1>1, <3>1, StutterRefines
  <2>2. CASE Replaced
    <3>1. t = recoveryTransport /\ status[t] = "open"
      <4>1. t \in {signaling, recoveryTransport} /\ status[signaling] = "closed"
        BY <1>5, OutageIsClosed DEF Inv, NoLeakedConnection, Live
      <4>2. status[recoveryTransport] \in {"open", "closed"}
        BY <2>2 DEF LinkInv, RegistersOnSocket, Replaced, Inv, SingleRecovery, Fibers
      <4>. QED
        BY <4>1, <4>2
    <3>2. ~Usable(recoveryTransport)'
      BY <1>1, <3>1 DEF Usable
    <3>3. Link = "adopting" /\ Link' = "stillborn"
      BY <1>2, <1>5, <2>2, <3>1, <3>2, LinkValue, LinkValuePrimed DEF Usable
    <3>4. CallsConnection!Replace
      BY <1>1, <3>3 DEF CallsConnection!Replace
    <3>. QED
      BY <3>4 DEF CallsConnection!Next
  <2>. QED
    BY <2>1, <2>2
<1>. QED
  BY <1>3, <1>4, <1>5

(* Nor is it seen that another attempt begins.                             *)
LEMMA ReconnectFiresRefines ==
  ASSUME Inv, LinkInv, ReconnectFires
  PROVE  UNCHANGED CallsConnection!vars
<1>. USE DEF ReconnectFires, books
<1>0. TypeOK
  BY DEF Inv
<1>1. UNCHANGED <<callSessions, deadlines>> /\ Reconciling' = Reconciling
  BY DEF Reconciling
<1>2. CASE RecoverDeclines
  <2>1. Link' = Link
    BY <1>2, LinkKept DEF Usable, Replaced, fibers
  <2>. QED
    BY <1>1, <2>1, StutterRefines
<1>3. CASE ~RecoverDeclines
  <2>1. ~revoked /\ recoveryTransport = NoTransport
    BY <1>3 DEF RecoverDeclines
  <2>2. ~registered /\ inviteHandler
    BY <2>1 DEF Inv, TimerMeansOutage, RegisterComesFirst
  <2>3. ~Replaced /\ ~Replaced'
    BY <1>0, <1>3, <2>1 DEF StartRecovery, Replaced, TypeOK, Fibers
  <2>4. Link' = Link
    BY <2>1, <2>2, <2>3, LinkValue, LinkValuePrimed
  <2>. QED
    BY <1>1, <2>4, StutterRefines
<1>. QED
  BY <1>2, <1>3

(* recover() adopts a replacement that lives, or one that is stillborn.    *)
LEMMA RecoverAdoptsRefines ==
  ASSUME Inv, LinkInv, RecoverAdopts
  PROVE  CallsConnection!Adopt
<1>. USE DEF RecoverAdopts, Succeeded, net
<1>0. /\ TypeOK
      /\ deadlines = recoveringSessions /\ deadlines \subseteq callSessions
      /\ callSessions \subseteq Sessions
  BY DEF Inv, DeadlineTracksOutage, TypeOK
<1>1. /\ recoveryTransport = on["recover"] /\ recoveryTransport \in Transports
      /\ ~revoked /\ ~registered /\ inviteHandler
  BY RecoverGoesOn
<1>2. Replaced
  BY <1>1, NoTransportAssumption DEF Replaced
<1>3. Usable(signaling)' = Usable(recoveryTransport)
  BY <1>1 DEF Usable
<1>4. \/ Link = "adopting" /\ Link' = "up"
      \/ Link = "stillborn" /\ Link' = "closed"
  BY <1>1, <1>2, <1>3, LinkValue, LinkValuePrimed
<1>5. deadlines' = {} /\ callSessions' = callSessions
  BY <1>0 DEF Reconcile
<1>6. Reconciling' = Reconciling \cup deadlines
  BY <1>0 DEF Reconcile, Reconciling
<1>. QED
  BY <1>4, <1>5, <1>6 DEF CallsConnection!Adopt

(* A failed attempt is not seen, unless a listener revokes.                *)
LEMMA RecoverRetriesRefines ==
  ASSUME Inv, LinkInv, NEW revokes \in BOOLEAN, RecoverRetries(revokes)
  PROVE  CallsConnection!Next \/ UNCHANGED CallsConnection!vars
<1>. USE DEF RecoverRetries, Failed, dialogs
<1>1. ~revoked /\ ~registered /\ inviteHandler /\ ~Replaced /\ ~Replaced'
  BY RecoverGoesOn DEF Replaced
<1>2. Link = "down" /\ UNCHANGED callSessions /\ Reconciling' = Reconciling
  BY <1>1, LinkValue DEF Reconciling
<1>3. CASE revokes
  <2>1. Link' = "closed" /\ deadlines' = {}
    BY <1>3, LinkValuePrimed DEF Inv, DeadlineTracksOutage
  <2>2. CallsConnection!Close
    BY <1>2, <2>1 DEF CallsConnection!Close
  <2>. QED
    BY <2>2 DEF CallsConnection!Next
<1>4. CASE ~revokes
  <2>1. Link' = "down" /\ deadlines' = deadlines
    BY <1>1, <1>4, LinkValuePrimed
  <2>. QED
    BY <1>2, <2>1, StutterRefines
<1>. QED
  BY <1>3, <1>4

(* revoke() closes the link unless a connection that died in the turn of   *)
(* its adoption has left it closed already.                                *)
LEMMA RevokeRefines ==
  ASSUME Inv, LinkInv, Revoke
  PROVE  CallsConnection!Next \/ UNCHANGED CallsConnection!vars
<1>. USE DEF Revoke
<1>1. Link' = "closed" /\ UNCHANGED callSessions /\ Reconciling' = Reconciling
  BY LinkValuePrimed DEF Reconciling
<1>2. deadlines' = {}
  BY DEF Inv, DeadlineTracksOutage
<1>3. CASE Link # "closed"
  <2>1. CallsConnection!Close
    BY <1>1, <1>2, <1>3 DEF CallsConnection!Close
  <2>. QED
    BY <2>1 DEF CallsConnection!Next
<1>4. CASE Link = "closed"
  <2>1. ~revoked /\ inviteHandler /\ registered
    <3>1. CASE ~inviteHandler
      BY <1>4, <3>1, LinkValue
    <3>2. CASE inviteHandler /\ ~registered
      BY <1>4, <3>2, LinkValue
    <3>. QED
      BY <3>1, <3>2
  <2>2. deadlines = {}
    BY <2>1 DEF Inv, DeadlineTracksOutage
  <2>. QED
    BY <1>1, <1>2, <1>4, <2>2, StutterRefines
<1>. QED
  BY <1>3, <1>4

(* Every step is a step of Connection or a stutter.                        *)
LEMMA StepRefines ==
  ASSUME Inv, LinkInv, [Next]_vars
  PROVE  [CallsConnection!Next]_CallsConnection!vars
<1>. DEFINE Goal == CallsConnection!Next \/ UNCHANGED CallsConnection!vars
<1>. SUFFICES Goal
  OBVIOUS
<1>1. ASSUME NEW t \in Transports, Drop(t) PROVE Goal
  BY <1>1, LoseSignalingRefines, LoseOtherRefines DEF CallsConnection!Next
<1>2. ASSUME NEW t \in Transports, SecureConnect(t) PROVE Goal
  BY <1>2, SecureConnectRefines
<1>3. ASSUME RecoverAdopts PROVE Goal
  BY <1>3, RecoverAdoptsRefines DEF CallsConnection!Next
<1>4. ASSUME RegisterReturns \/ ReconnectFires \/ Revoke PROVE Goal
  BY <1>4, RegisterReturnsRefines, ReconnectFiresRefines, RevokeRefines
<1>5. ASSUME NEW revokes \in BOOLEAN, RecoverRetries(revokes) PROVE Goal
  BY <1>5, RecoverRetriesRefines
<1>6. ASSUME CallSteps \/ FiberSteps PROVE Goal
  BY <1>6, CallStepsRefine, FiberStepsRefine
<1>. HIDE DEF Goal
<1>. QED
  BY StepKinds, <1>1, <1>2, <1>3, <1>4, <1>5, <1>6 DEF ConnectionSteps

(* Through every interleaving of losses, attempts, adoptions, revoke() and *)
(* the turns of the calls, the connection and the calls behave as in       *)
(* Connection, and no message of a peer comes while the link is down.      *)
THEOREM SoftphoneImplementsConnection == Spec => ImplementsConnection
<1>1. Inv /\ LinkInv /\ [Next]_vars => [CallsConnection!Next]_CallsConnection!vars
  BY StepRefines
<1>2. Inv /\ LinkInv => HeardOnLink
  BY HeardOnlyOnLink
<1>. QED
  BY LinkInvariance, InitRefines, <1>1, <1>2, PTL
     DEF Spec, ImplementsConnection, CallsConnection!Spec

-----------------------------------------------------------------------------
(* How far the disagreements with the documentation go *)

(* Only an INVITE is missed, or makes the program throw.                   *)
LEMMA OnlyInvitesFail ==
  ASSUME TypeOK, [Next]_vars
  PROVE  \/ \E t \in Transports, s \in Sessions : ReceiveInvite(t, s)
         \/ /\ crashed' = crashed
            /\ \A s \in Sessions : phase'[s] = "missed" => phase[s] = "missed"
<1>. DEFINE Harmless == /\ crashed' = crashed
                       /\ \A s \in Sessions : phase'[s] = "missed" => phase[s] = "missed"
<1>1. ASSUME UNCHANGED <<crashed, phase>> PROVE Harmless
  BY <1>1
<1>2. ASSUME NEW s \in Sessions, Dispose(s), UNCHANGED crashed PROVE Harmless
  BY <1>2 DEF TypeOK, Dispose
<1>3. ASSUME NEW s \in Sessions,
             \/ AnswerThrows(s) \/ ReconcileFails(s) \/ DeadlineFires(s)
             \/ ReconcileTimeout(s) \/ Hangup(s)
      PROVE  Harmless
  BY <1>2, <1>3 DEF AnswerThrows, ReconcileFails, DeadlineFires, ReconcileTimeout, Hangup
<1>4. ASSUME NEW s \in Sessions,
             AnswerReturns(s) \/ BindDone(s) \/ BindFails(s) \/ Answer(s) \/ Decline(s)
      PROVE  Harmless
  BY <1>4 DEF TypeOK, AnswerReturns, BindDone, BindFails, Answer, Decline
<1>5. ASSUME NEW s \in Sessions, ReconcileSucceeds(s) PROVE Harmless
  BY <1>1, <1>5 DEF ReconcileSucceeds, calls
<1>6. ASSUME NEW t \in Transports, NEW s \in Sessions,
             \/ ReceiveAck(t, s) \/ ReceiveCancel(t, s)
             \/ \E outcome \in {"2xx", "non2xx"} : ReceiveReinviteResponse(t, s, outcome)
      PROVE  Harmless
  BY <1>1, <1>6 DEF ReceiveAck, ReceiveCancel, ReceiveReinviteResponse, calls
<1>7. ASSUME NEW t \in Transports, NEW s \in Sessions, ReceiveBye(t, s) PROVE Harmless
  BY <1>2, <1>7 DEF ReceiveBye
<1>8. ASSUME EndLoop \/ UNCHANGED vars PROVE Harmless
  BY <1>1, <1>8 DEF EndLoop, vars, calls
<1>9. ASSUME FiberSteps PROVE Harmless
  BY <1>1, <1>9 DEF FiberSteps, Register, RegisterThrows, RefreshTick, RefreshEnds,
       RecoverAbandons, Registers, Authenticates, SendRegister, ConnectTimeout,
       ReceiveRegisterResponse, calls
<1>10. ASSUME ConnectionSteps PROVE Harmless
  BY <1>1, <1>10 DEF ConnectionSteps, RegisterReturns, RecoverAdopts, ReconnectFires, Revoke,
       RecoverRetries, SecureConnect, Drop, calls
<1>11. CallSteps => Harmless \/ \E t \in Transports, s \in Sessions : ReceiveInvite(t, s)
  <2>. HIDE DEF Harmless
  <2>. QED
    BY <1>3, <1>4, <1>5, <1>6, <1>7, <1>8 DEF CallSteps
<1>. QED
  BY StepKinds, <1>9, <1>10, <1>11

(* An INVITE comes over a link: where it does harm, register() has not     *)
(* returned yet, or recover() is about to adopt its replacement.           *)
LEMMA InviteHarm ==
  ASSUME Inv, LinkInv, NEW t \in Transports, NEW s \in Sessions, ReceiveInvite(t, s)
  PROVE  /\ crashed' # crashed => Link = "adopting"
         /\ \A r \in Sessions : phase'[r] = "missed" /\ phase[r] # "missed" => Link = "unregistered"
<1>. USE DEF ReceiveInvite
<1>0. TypeOK
  BY DEF Inv
<1>1. Link \in {"unregistered", "up", "adopting"}
  BY HeardOnlyOnLink DEF HeardOnLink, Receiving
<1>2. ~revoked
  BY <1>1, LinkValue
<1>3. crashed' # crashed => inviteHandler /\ ~Usable(signaling)
  BY <1>0 DEF Receiving, Quiet, Running, TypeOK, Usable
<1>4. \A r \in Sessions : phase'[r] = "missed" /\ phase[r] # "missed" => ~inviteHandler
  BY <1>0 DEF TypeOK
<1>5. inviteHandler /\ ~Usable(signaling) => Link = "adopting"
  BY <1>1, <1>2, LinkValue
<1>. QED
  BY <1>2, <1>3, <1>4, <1>5, LinkValue

(* The link closes by revoke(), or when a connection is taken for          *)
(* registered that has failed in the turn of its 200 OK.                   *)
LEMMA OnlyStillbornClose ==
  ASSUME Inv, LinkInv, [Next]_vars, Link' = "closed", Link # "closed", ~revoked'
  PROVE  Link \in {"unregistered", "stillborn"}
<1>. DEFINE Goal == Link \in {"unregistered", "stillborn"}
<1>. SUFFICES Goal
  OBVIOUS
<1>0. TypeOK
  BY DEF Inv
<1>1. inviteHandler' /\ registered' /\ ~Usable(signaling)'
  BY LinkValuePrimed
<1>2. ASSUME UNCHANGED registration, registered => Usable(signaling)' = Usable(signaling) PROVE FALSE
  BY <1>1, <1>2, LinkValue DEF registration
<1>3. ASSUME CallSteps PROVE Goal
  BY <1>0, <1>2, <1>3, CallStepsFrame DEF CallFrame, registration, Usable
<1>4. ASSUME FiberSteps PROVE Goal
  BY <1>2, <1>4, FiberStepsFrame DEF FiberFrame, registration, Usable
<1>5. ASSUME RegisterReturns PROVE Goal
  BY <1>5, LinkValue DEF Inv, RegisterComesFirst, RegisterReturns, Succeeded
<1>6. ASSUME RecoverAdopts PROVE Goal
  BY <1>6, RecoverAdoptsRefines DEF CallsConnection!Adopt
<1>7. ASSUME ReconnectFires PROVE Goal
  BY <1>7, ReconnectFiresRefines DEF CallsConnection!vars
<1>8. ASSUME NEW revokes \in BOOLEAN, Revoke \/ RecoverRetries(revokes) PROVE FALSE
  <2>1. CASE Revoke
    BY <2>1 DEF Revoke
  <2>2. CASE RecoverRetries(revokes)
    BY <1>1, <2>2, RecoverGoesOn DEF RecoverRetries, Failed
  <2>. QED
    BY <1>8, <2>1, <2>2
<1>9. ASSUME NEW t \in Transports, SecureConnect(t) PROVE Goal
  BY <1>0, <1>2, <1>9
     DEF SecureConnect, LinkInv, RegisteredOnSocket, TypeOK, Usable, registration
<1>10. ASSUME NEW t \in Transports, Drop(t) PROVE Goal
  <2>1. CASE HandlesLossOf(t)
    BY <1>10, <2>1, LoseSignalingRefines DEF CallsConnection!Lose
  <2>2. CASE ~HandlesLossOf(t)
    <3>1. UNCHANGED registration /\ status' = FailedStatus({t})
      BY <1>10, <2>2 DEF Drop, LoseOther, Fail
    <3>2. registered => t # signaling
      BY <1>1, <2>2, <3>1 DEF HandlesLossOf, registration
    <3>. QED
      BY <1>0, <1>2, <3>1, <3>2 DEF FailedStatus, TypeOK, Usable, registration
  <2>. QED
    BY <2>1, <2>2
<1>. HIDE DEF Goal
<1>. QED
  BY StepKinds, <1>3, <1>4, <1>5, <1>6, <1>7, <1>8, <1>9, <1>10 DEF ConnectionSteps

(* A loss gives every call its deadline, and no call loses it before the   *)
(* outage or the call is over: Connection alone says so.                   *)
LEMMA OnlyLateHaveNone ==
  ASSUME Inv, LinkInv, [Next]_vars, NEW s \in callSessions, WithoutDeadline(s)'
  PROVE  WithoutDeadline(s)
<1>1. Link' \in {"down", "adopting", "stillborn"} /\ s \in callSessions' /\ s \notin deadlines'
  BY DEF WithoutDeadline
<1>2. Link \in {"down", "adopting", "stillborn"} /\ s \notin deadlines
  BY <1>1, StepRefines
     DEF CallsConnection!Next, CallsConnection!vars, CallsConnection!Register,
         CallsConnection!Lose, CallsConnection!Replace, CallsConnection!Adopt,
         CallsConnection!Close, CallsConnection!Join, CallsConnection!Leave,
         CallsConnection!Settle
<1>. QED
  BY <1>2 DEF WithoutDeadline

(* What the code does not do of what its documentation says, it fails to do*)
(* only where FailuresAreConfined says: a softphone that has registered and*)
(* whose connections live longer than the turn of their 200 OK misses no   *)
(* invite and is offline only between a loss and the next adoption.  As for*)
(* exceptions, it speaks of INVITE, the one message of Softphone that is   *)
(* answered where it is received.                                          *)
THEOREM DisagreementsAreConfined == Spec => FailuresAreConfined
<1>1. ASSUME Inv, LinkInv, [Next]_vars
      PROVE  /\ crashed' # crashed => Link = "adopting"
             /\ \A s \in Sessions :
                  phase'[s] = "missed" /\ phase[s] # "missed" => Link = "unregistered"
             /\ Link' = "closed" /\ Link # "closed" =>
                  revoked' \/ Link \in {"unregistered", "stillborn"}
             /\ \A s \in callSessions : WithoutDeadline(s)' => WithoutDeadline(s)
  <2>1. TypeOK
    BY <1>1 DEF Inv
  <2>2. /\ crashed' # crashed => Link = "adopting"
        /\ \A s \in Sessions :
             phase'[s] = "missed" /\ phase[s] # "missed" => Link = "unregistered"
    BY <1>1, <2>1, OnlyInvitesFail, InviteHarm
  <2>3. Link' = "closed" /\ Link # "closed" => revoked' \/ Link \in {"unregistered", "stillborn"}
    BY <1>1, OnlyStillbornClose
  <2>4. \A s \in callSessions : WithoutDeadline(s)' => WithoutDeadline(s)
    BY <1>1, OnlyLateHaveNone
  <2>. QED
    BY <2>2, <2>3, <2>4
<1>. QED
  BY LinkInvariance, <1>1, PTL DEF Spec, FailuresAreConfined
=============================================================================
