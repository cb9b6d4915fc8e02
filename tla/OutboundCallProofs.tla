------------------------- MODULE OutboundCallProofs -------------------------
(***************************************************************************)
(* Theorems about OutboundCall, and with it CallSession, for any number of *)
(* hold() and transfer() calls: the inductive invariant, what it implies,  *)
(* and the refinement of CallContract.                                     *)
(***************************************************************************)
EXTENDS OutboundCall, Naturals, SequenceTheorems, TLAPS

(* The session exists from the return of call() on.                        *)
SessionIsReturned == state = "none" <=> fiber # "returned"

(* Only a call() that awaits a response has a continuation to run.         *)
ResponseIsDue == got # "nothing" => fiber \in {"inviting", "authorizing"}

(* Before it is answered nobody has sent a re-INVITE.                      *)
FreshDialog ==
  state \in {"none", "ringing"} =>
    answered = <<>> /\ sdp = agreed /\ \A o \in ReInvites : stage[o] = "idle"

(* Only an open connection keeps a request waiting, and what was answered  *)
(* on the last one is taken up before the next is adopted.                 *)
NoneWaitsInVain ==
  /\ link # "up" => \A o \in ReInvites : stage[o] # "waiting"
  /\ link \in {"adopting", "stillborn"} => answered = <<>>

(* The responses that are to be taken up are those of different re-INVITEs.*)
AnswersQueue ==
  /\ \A i \in 1 .. Len(answered) : stage[answered[i]] \in {"2xx", "non2xx"}
  /\ \A i, j \in 1 .. Len(answered) : i # j => answered[i] # answered[j]

(* Taking up what is queued leads to what the peer accepted last.          *)
Synchronized ==
  /\ (\A i \in 1 .. Len(answered) : stage[answered[i]] # "2xx") => sdp = agreed
  /\ \A i \in 1 .. Len(answered) :
       stage[answered[i]] = "2xx" /\ (\A j \in i + 1 .. Len(answered) : stage[answered[j]] # "2xx")
         => offer[answered[i]] = agreed

(* After an outage a reconciliation is under way until this holds again.   *)
Reconciled ==
  link = "up" /\ state = "active" =>
    Synchronized \/ stage[Reconciliation] \in {"waiting", "non2xx"}

DialogInv == FreshDialog /\ NoneWaitsInVain /\ AnswersQueue /\ Reconciled

LifeInv ==
  SessionIsReturned /\ ResponseIsDue /\ TransferTracked /\ OutageHasDeadline /\ SocketFollowsCall

Inv == TypeOK /\ LifeInv /\ DialogInv

-----------------------------------------------------------------------------
(* The types, part by part. *)
SessionEvents == {"answered", "non2xxResponse", "disposed"}
Settlements == {"idle", "pending", "resolved", "rejected"}
Stages == {"idle", "waiting", "2xx", "non2xx", "lost"}

TurnTypes ==
  /\ link \in {"up", "down", "adopting", "stillborn", "closed"}
  /\ receiving \in BOOLEAN
  /\ crashed \in BOOLEAN

LifeTypes ==
  /\ state \in {"none", "ringing", "active", "disposed"}
  /\ socket \in {"none", "bound", "closed"}
  /\ outage \in BOOLEAN
  /\ pendingTransfer \in Transfers \cup {NoTransfer}
  /\ transfers \in [Transfers -> Settlements]
  /\ events \in Seq(SessionEvents)

DialogTypes ==
  /\ sdp \in Directions
  /\ agreed \in Directions
  /\ stage \in [ReInvites -> Stages]
  /\ offer \in [ReInvites -> Directions]
  /\ answered \in Seq(ReInvites)

EstablishmentTypes ==
  /\ fiber \in {"idle", "binding", "inviting", "authorizing", "returned", "rejected"}
  /\ got \in {"nothing", "407", "183", "183 port 0", "other", "lost"}
  /\ waitingForAnswer \in BOOLEAN
  /\ progress \in {"183", "183 port 0"}
  /\ final \in BOOLEAN

(* The type invariant in four parts.                                       *)
LEMMA TypeParts == TypeOK <=> TurnTypes /\ LifeTypes /\ DialogTypes /\ EstablishmentTypes
BY DEF TypeOK, SessionTypeOK, TurnTypes, LifeTypes, DialogTypes, EstablishmentTypes, SessionEvents,
       Settlements, Stages

(* And after a step.                                                       *)
LEMMA TypePartsPrimed ==
  TypeOK' <=> TurnTypes' /\ LifeTypes' /\ DialogTypes' /\ EstablishmentTypes'
BY DEF TypeOK, SessionTypeOK, TurnTypes, LifeTypes, DialogTypes, EstablishmentTypes, SessionEvents,
       Settlements, Stages

(* What is left alone keeps its type.                                      *)
LEMMA TypesKept ==
  /\ TurnTypes /\ UNCHANGED turn => TurnTypes'
  /\ LifeTypes /\ UNCHANGED life => LifeTypes'
  /\ DialogTypes /\ UNCHANGED dialog => DialogTypes'
  /\ EstablishmentTypes /\ UNCHANGED establishment => EstablishmentTypes'
BY DEF TurnTypes, LifeTypes, DialogTypes, EstablishmentTypes, turn, life, dialog, establishment

-----------------------------------------------------------------------------
(* The initial states satisfy the invariant. *)
LEMMA InitInv == Init => Inv
<1>. SUFFICES ASSUME Init PROVE Inv
  OBVIOUS
<1>. USE DEF Init, SessionInit
<1>1. TypeOK
  <2>1. TurnTypes /\ EstablishmentTypes
    BY DEF TurnTypes, EstablishmentTypes
  <2>2. LifeTypes
    <3>1. transfers \in [Transfers -> Settlements]
      BY DEF Settlements
    <3>2. events \in Seq(SessionEvents)
      OBVIOUS
    <3>. QED
      BY <3>1, <3>2 DEF LifeTypes
  <2>3. DialogTypes
    BY DEF DialogTypes, Directions, Stages
  <2>. QED
    BY <2>1, <2>2, <2>3, TypeParts
<1>2. TransferTracked
  BY DEF TransferTracked
<1>3. SessionIsReturned /\ ResponseIsDue /\ OutageHasDeadline /\ SocketFollowsCall
  BY DEF SessionIsReturned, ResponseIsDue, OutageHasDeadline, SocketFollowsCall, Alive
<1>4. FreshDialog /\ NoneWaitsInVain /\ AnswersQueue /\ Reconciled
  BY DEF FreshDialog, NoneWaitsInVain, AnswersQueue, Reconciled
<1>. QED
  BY <1>1, <1>2, <1>3, <1>4 DEF Inv, LifeInv, DialogInv

-----------------------------------------------------------------------------
(* The end of a session *)

(* Each of the three lists of events that can precede "disposed".          *)
Preludes == {<<>>, <<"answered">>, <<"non2xxResponse">>}

(* dispose() closes the socket, ends the outage and settles the transfer.  *)
LEMMA DisposeStep ==
  ASSUME LifeTypes, TransferTracked, NEW emitted \in Preludes, Dispose(emitted)
  PROVE  /\ LifeTypes'
         /\ TransferTracked'
         /\ state' = "disposed" /\ socket' = "closed" /\ outage' = FALSE
         /\ \A t \in Transfers : transfers'[t] # "pending"
<1>1. events' \in Seq(SessionEvents)
  <2>1. emitted \in Seq(SessionEvents)
    <3>1. CASE emitted = <<>>
      BY <3>1
    <3>2. CASE emitted = <<"answered">>
      BY <3>2 DEF SessionEvents
    <3>3. CASE emitted = <<"non2xxResponse">>
      BY <3>3 DEF SessionEvents
    <3>. QED
      BY <3>1, <3>2, <3>3 DEF Preludes
  <2>2. Append(emitted, "disposed") \in Seq(SessionEvents)
    BY <2>1 DEF SessionEvents
  <2>. QED
    BY <2>2 DEF Dispose, LifeTypes
<1>2. /\ pendingTransfer' = NoTransfer
      /\ transfers' = [t \in Transfers |-> IF t = pendingTransfer THEN "rejected" ELSE transfers[t]]
  BY DEF Dispose, RejectTransfer
<1>3. \A t \in Transfers : transfers'[t] # "pending"
  BY <1>2 DEF TransferTracked
<1>4. transfers' \in [Transfers -> Settlements]
  BY <1>2 DEF LifeTypes, Settlements
<1>5. TransferTracked'
  BY <1>2, <1>3 DEF TransferTracked
<1>6. state' = "disposed" /\ socket' = "closed" /\ outage' = FALSE
  BY DEF Dispose, CancelDeadline
<1>. QED
  BY <1>1, <1>2, <1>3, <1>4, <1>5, <1>6 DEF LifeTypes

-----------------------------------------------------------------------------
(* Every step keeps the types. *)
LEMMA SessionTypeStep ==
  ASSUME TypeOK, TransferTracked, SessionNext, UNCHANGED establishment
  PROVE  TypeOK'
<1>. USE TypeParts, TypesKept
<1>. <<>> \in Preludes
  BY DEF Preludes
<1>1. EstablishmentTypes'
  OBVIOUS
<1>2. TurnTypes' /\ LifeTypes' /\ DialogTypes'
  <2>1. CASE Hangup \/ DeadlineFires \/ ReconcileTimeout
    <3>1. LifeTypes'
      BY <2>1, DisposeStep DEF Hangup, DeadlineFires, ReconcileTimeout
    <3>. QED
      BY <2>1, <3>1 DEF Hangup, DeadlineFires, ReconcileTimeout
  <2>2. CASE ReceiveBye
    <3>1. LifeTypes'
      BY <2>2, DisposeStep DEF ReceiveBye
    <3>2. TurnTypes'
      BY <2>2 DEF ReceiveBye, Receiving, TurnTypes
    <3>. QED
      BY <2>2, <3>1, <3>2 DEF ReceiveBye
  <2>3. ASSUME NEW t \in Transfers, Transfer(t)
        PROVE  TurnTypes' /\ LifeTypes' /\ DialogTypes'
    <3>1. LifeTypes'
      BY <2>3 DEF Transfer, LifeTypes, Settlements
    <3>. QED
      BY <2>3, <3>1 DEF Transfer
  <2>4. ASSUME NEW complete \in BOOLEAN, ReceiveNotify(complete)
        PROVE  TurnTypes' /\ LifeTypes' /\ DialogTypes'
    <3>1. LifeTypes'
      BY <2>4 DEF ReceiveNotify, LifeTypes, Settlements
    <3>2. TurnTypes'
      BY <2>4 DEF ReceiveNotify, Receiving, TurnTypes
    <3>. QED
      BY <2>4, <3>1, <3>2 DEF ReceiveNotify
  <2>5. ASSUME NEW o \in Holds, NEW direction \in Directions, Hold(o, direction)
        PROVE  TurnTypes' /\ LifeTypes' /\ DialogTypes'
    <3>1. DialogTypes'
      BY <2>5 DEF Hold, ReInvite, DialogTypes, Stages, ReInvites
    <3>. QED
      BY <2>5, <3>1 DEF Hold
  <2>6. ASSUME NEW o \in ReInvites, NEW response \in {"2xx", "non2xx"},
               ReceiveReInviteResponse(o, response)
        PROVE  TurnTypes' /\ LifeTypes' /\ DialogTypes'
    <3>1. DialogTypes'
      BY <2>6 DEF ReceiveReInviteResponse, DialogTypes, Stages
    <3>2. TurnTypes'
      BY <2>6 DEF ReceiveReInviteResponse, Receiving, TurnTypes
    <3>. QED
      BY <2>6, <3>1, <3>2 DEF ReceiveReInviteResponse
  <2>7. ASSUME NEW o \in ReInvites, Conclude(o), UNCHANGED <<turn, agreed, offer>>,
               answered' \in Seq(ReInvites)
        PROVE  TurnTypes' /\ LifeTypes' /\ DialogTypes'
    <3>1. LifeTypes'
      BY <2>7, DisposeStep DEF Conclude
    <3>2. DialogTypes'
      BY <2>7 DEF Conclude, KeepOffer, DialogTypes, Stages
    <3>. QED
      BY <2>7, <3>1, <3>2
  <2>8. CASE TakeUp
    <3>1. Head(answered) \in ReInvites /\ Tail(answered) \in Seq(ReInvites)
      BY <2>8 DEF TakeUp, DialogTypes
    <3>. QED
      BY <2>7, <2>8, <3>1 DEF TakeUp
  <2>9. ASSUME NEW o \in ReInvites, TakeUpLoss(o)
        PROVE  TurnTypes' /\ LifeTypes' /\ DialogTypes'
    <3>1. answered' \in Seq(ReInvites)
      BY <2>9 DEF TakeUpLoss, DialogTypes
    <3>. QED
      BY <2>7, <2>9, <3>1 DEF TakeUpLoss
  <2>10. CASE ReplacementRegisters \/ LoseReplacement \/ EndLoop
    <3>1. TurnTypes'
      BY <2>10 DEF ReplacementRegisters, LoseReplacement, EndLoop, TurnTypes
    <3>. QED
      BY <2>10, <3>1 DEF ReplacementRegisters, LoseReplacement, EndLoop
  <2>11. CASE Adopt
    <3>1. TurnTypes' /\ LifeTypes'
      BY <2>11 DEF Adopt, CancelDeadline, TurnTypes, LifeTypes
    <3>2. DialogTypes'
      BY <2>11 DEF Adopt, Reconcile, ReInvite, DialogTypes, Stages, ReInvites
    <3>. QED
      BY <3>1, <3>2
  <2>. QED
    BY <2>1, <2>2, <2>3, <2>4, <2>5, <2>6, <2>8, <2>9, <2>10, <2>11 DEF SessionNext
<1>. QED
  BY <1>1, <1>2, TypePartsPrimed

(* Every step keeps the types.                                             *)
LEMMA TypeStep == ASSUME TypeOK, TransferTracked, [Next]_vars PROVE TypeOK'
<1>. DEFINE Goal == TurnTypes' /\ LifeTypes' /\ DialogTypes' /\ EstablishmentTypes'
<1>. SUFFICES Goal
  BY TypePartsPrimed
<1>. USE TypeParts, TypesKept
<1>1. CASE Dial \/ Authorize
  <2>1. EstablishmentTypes'
    BY <1>1 DEF Dial, Authorize, EstablishmentTypes
  <2>. QED
    BY <1>1, <2>1 DEF Dial, Authorize, sessionVars
<1>2. CASE BindFails \/ BindCompletes \/ CallThrows
  <2>1. EstablishmentTypes'
    BY <1>2 DEF BindFails, BindCompletes, CallThrows, Throw, EstablishmentTypes
  <2>2. LifeTypes'
    BY <1>2 DEF BindFails, BindCompletes, CallThrows, Throw, CloseSocket, LifeTypes
  <2>. QED
    BY <1>2, <2>1, <2>2 DEF BindFails, BindCompletes, CallThrows, Throw
<1>3. ASSUME NEW response \in {"407", "183", "183 port 0", "other"}, ReceiveResponse(response)
      PROVE  Goal
  <2>1. EstablishmentTypes' /\ TurnTypes'
    BY <1>3 DEF ReceiveResponse, Receiving, EstablishmentTypes, TurnTypes
  <2>. QED
    BY <1>3, <2>1 DEF ReceiveResponse
<1>4. CASE MakeSession
  <2>1. EstablishmentTypes' /\ LifeTypes'
    BY <1>4 DEF MakeSession, IsProgress, EstablishmentTypes, LifeTypes
  <2>. QED
    BY <1>4, <2>1 DEF MakeSession
<1>5. CASE MissFinal
  <2>1. EstablishmentTypes' /\ TurnTypes'
    BY <1>5 DEF MissFinal, Receiving, EstablishmentTypes, TurnTypes
  <2>. QED
    BY <1>5, <2>1 DEF MissFinal
<1>6. ASSUME ReceiveFinal
      PROVE  EstablishmentTypes' /\ DialogTypes' /\ receiving' \in BOOLEAN
  BY <1>6 DEF ReceiveFinal, Receiving, EstablishmentTypes
<1>7. CASE Refused
  <2>1. LifeTypes'
    BY <1>7, DisposeStep DEF Refused, Preludes
  <2>2. TurnTypes'
    BY <1>6, <1>7 DEF Refused, TurnTypes
  <2>. QED
    BY <1>6, <1>7, <2>1, <2>2 DEF Refused
<1>8. CASE MediaFails
  <2>1. LifeTypes' /\ TurnTypes'
    BY <1>6, <1>8 DEF MediaFails, LifeTypes, TurnTypes
  <2>. QED
    BY <1>6, <1>8, <2>1 DEF MediaFails
<1>9. CASE Answered
  <2>1. events' \in Seq(SessionEvents)
    BY <1>9 DEF Answered, LifeTypes, SessionEvents
  <2>2. LifeTypes' /\ TurnTypes'
    BY <1>6, <1>9, <2>1 DEF Answered, LifeTypes, TurnTypes
  <2>. QED
    BY <1>6, <1>9, <2>2 DEF Answered
<1>10. ASSUME NEW revokes \in BOOLEAN, AnsweredAndHungUp(revokes)
       PROVE  Goal
  <2>1. LifeTypes'
    BY <1>10, DisposeStep DEF AnsweredAndHungUp, Preludes
  <2>2. TurnTypes'
    BY <1>6, <1>10 DEF AnsweredAndHungUp, TurnTypes
  <2>. QED
    BY <1>6, <1>10, <2>1, <2>2 DEF AnsweredAndHungUp
<1>11. CASE Lose
  <2>1. EstablishmentTypes'
    BY <1>11 DEF Lose, RejectRequest, EstablishmentTypes
  <2>4. outage' \in BOOLEAN
    BY <1>11 DEF Lose, LoseLink
  <2>5. TurnTypes' /\ LifeTypes'
    BY <1>11, <2>4 DEF Lose, LoseLink, TurnTypes, LifeTypes
  <2>2. stage' \in [ReInvites -> Stages]
    BY <1>11 DEF Lose, LoseLink, RejectPending, DialogTypes, Stages
  <2>3. agreed' \in Directions
    BY <1>11 DEF Lose, LoseLink, DialogTypes
  <2>. QED
    BY <1>11, <2>1, <2>2, <2>3, <2>5 DEF Lose, LoseLink, DialogTypes
<1>12. CASE RevokeSoftphone
  <2>1. EstablishmentTypes'
    BY <1>12 DEF RevokeSoftphone, RejectRequest, EstablishmentTypes
  <2>3. TurnTypes' /\ LifeTypes'
    BY <1>12 DEF RevokeSoftphone, Revoke, CancelDeadline, TurnTypes, LifeTypes
  <2>2. stage' \in [ReInvites -> Stages]
    BY <1>12 DEF RevokeSoftphone, Revoke, RejectPending, DialogTypes, Stages
  <2>. QED
    BY <1>12, <2>1, <2>2, <2>3 DEF RevokeSoftphone, Revoke, DialogTypes
<1>13. CASE SessionNext /\ UNCHANGED establishment
  BY <1>13, SessionTypeStep, TypePartsPrimed
<1>14. CASE UNCHANGED vars
  BY <1>14 DEF vars, sessionVars
<1>. HIDE DEF Goal
<1>. QED
  BY <1>1, <1>2, <1>3, <1>4, <1>5, <1>7, <1>8, <1>9, <1>10, <1>11, <1>12, <1>13, <1>14 DEF Next

-----------------------------------------------------------------------------
(* Every step keeps track of the transfer, and none is left when a session *)
(* ends.                                                                   *)
LEMMA TransferStep ==
  ASSUME LifeTypes, TransferTracked, OutageHasDeadline, [Next]_vars
  PROVE  /\ TransferTracked'
         /\ Alive /\ state' = "disposed" => \A t \in Transfers : transfers'[t] # "pending"
<1>. DEFINE Goal == /\ TransferTracked'
                    /\ Alive /\ state' = "disposed" => \A t \in Transfers : transfers'[t] # "pending"
<1>. SUFFICES Goal
  OBVIOUS
<1>1. ASSUME UNCHANGED <<pendingTransfer, transfers>>, Alive => state' # "disposed"
      PROVE  Goal
  BY <1>1 DEF TransferTracked
<1>2. ASSUME NEW emitted \in Preludes, Dispose(emitted)
      PROVE  Goal
  BY <1>2, DisposeStep
<1>. HIDE DEF Goal
<1>3. CASE Dial \/ Authorize \/ BindFails \/ BindCompletes \/ CallThrows \/ MakeSession \/ MissFinal
  <2>1. UNCHANGED <<pendingTransfer, transfers>> /\ (state' = state \/ state' = "ringing")
    BY <1>3 DEF Dial, Authorize, BindFails, BindCompletes, CallThrows, Throw, MakeSession, MissFinal,
                sessionVars, life
  <2>. QED
    BY <1>1, <2>1 DEF Alive
<1>4. ASSUME NEW response \in {"407", "183", "183 port 0", "other"}, ReceiveResponse(response)
      PROVE  Goal
  BY <1>1, <1>4 DEF ReceiveResponse, life, Alive
<1>5. CASE Refused
  BY <1>2, <1>5 DEF Refused, Preludes
<1>6. CASE MediaFails \/ Answered
  BY <1>1, <1>6 DEF MediaFails, Answered, Alive
<1>7. ASSUME NEW revokes \in BOOLEAN, AnsweredAndHungUp(revokes)
      PROVE  Goal
  BY <1>2, <1>7 DEF AnsweredAndHungUp, Preludes
<1>8. CASE Lose \/ RevokeSoftphone
  BY <1>1, <1>8 DEF Lose, LoseLink, RevokeSoftphone, Revoke, Alive
<1>9. CASE SessionNext
  <2>. <<>> \in Preludes
    BY DEF Preludes
  <2>1. CASE Hangup \/ ReceiveBye \/ DeadlineFires \/ ReconcileTimeout
    BY <1>2, <2>1 DEF Hangup, ReceiveBye, DeadlineFires, ReconcileTimeout
  <2>2. ASSUME NEW t \in Transfers, Transfer(t)
        PROVE  Goal
    <3>1. TransferTracked'
      BY <2>2, NoTransferAssumption DEF Transfer, MayTransfer, TransferTracked, LifeTypes
    <3>2. state' = state
      BY <2>2 DEF Transfer
    <3>. QED
      BY <3>1, <3>2 DEF Alive, Goal
  <2>3. ASSUME NEW complete \in BOOLEAN, ReceiveNotify(complete)
        PROVE  Goal
    <3>1. TransferTracked'
      BY <2>3, NoTransferAssumption DEF ReceiveNotify, TransferTracked, LifeTypes
    <3>2. state' = state
      BY <2>3 DEF ReceiveNotify
    <3>. QED
      BY <3>1, <3>2 DEF Alive, Goal
  <2>4. CASE \E o \in Holds, direction \in Directions : Hold(o, direction)
    BY <1>1, <2>4 DEF Hold, life, Alive
  <2>5. CASE \E o \in ReInvites, response \in {"2xx", "non2xx"} : ReceiveReInviteResponse(o, response)
    BY <1>1, <2>5 DEF ReceiveReInviteResponse, life, Alive
  <2>6. ASSUME NEW o, Conclude(o)
        PROVE  Goal
    BY <1>1, <1>2, <2>6 DEF Conclude, life, Alive
  <2>7. CASE TakeUp \/ \E o \in ReInvites : TakeUpLoss(o)
    BY <2>6, <2>7 DEF TakeUp, TakeUpLoss
  <2>8. CASE ReplacementRegisters \/ LoseReplacement \/ EndLoop \/ Adopt
    BY <1>1, <2>8 DEF ReplacementRegisters, LoseReplacement, EndLoop, Adopt, life, Alive
  <2>. QED
    BY <1>9, <2>1, <2>2, <2>3, <2>4, <2>5, <2>7, <2>8 DEF SessionNext
<1>10. CASE UNCHANGED vars
  BY <1>1, <1>10 DEF vars, sessionVars, life, Alive
<1>. QED
  BY <1>3, <1>4, <1>5, <1>6, <1>7, <1>8, <1>9, <1>10 DEF Next

-----------------------------------------------------------------------------
(* Every step keeps the session, its deadline and its socket in step.      *)
LEMMA LifeStep ==
  ASSUME TypeOK, LifeInv, [Next]_vars
  PROVE  LifeInv'
<1>. DEFINE Goal == SessionIsReturned' /\ ResponseIsDue' /\ OutageHasDeadline' /\ SocketFollowsCall'
<1>. USE TypeParts DEF LifeInv, SessionIsReturned, ResponseIsDue, OutageHasDeadline, SocketFollowsCall, Alive
<1>. SUFFICES Goal
  BY TransferStep
<1>1. ASSUME Dispose(<<>>), Alive, UNCHANGED <<fiber, got>>
      PROVE  Goal
  BY <1>1, DisposeStep DEF Preludes
<1>2. CASE Dial \/ Authorize
  BY <1>2 DEF Dial, Authorize, sessionVars, turn, life
<1>3. CASE BindFails \/ BindCompletes \/ CallThrows
  BY <1>3 DEF BindFails, BindCompletes, CallThrows, Throw, CloseSocket, turn, LifeTypes
<1>4. ASSUME NEW response \in {"407", "183", "183 port 0", "other"}, ReceiveResponse(response)
      PROVE  Goal
  BY <1>4 DEF ReceiveResponse, life
<1>5. CASE MakeSession \/ MissFinal
  BY <1>5 DEF MakeSession, MissFinal, turn, life
<1>6. CASE Refused
  BY <1>6, DisposeStep DEF Refused, ReceiveFinal, FirstFinal, Preludes
<1>7. CASE MediaFails
  BY <1>7 DEF MediaFails, ReceiveFinal, FirstFinal
<1>8. CASE Answered
  BY <1>8 DEF Answered, ReceiveFinal, FirstFinal, Receiving, Quiet, Resuming, Running, TurnTypes
<1>9. ASSUME NEW revokes \in BOOLEAN, AnsweredAndHungUp(revokes)
      PROVE  Goal
  BY <1>9, DisposeStep DEF AnsweredAndHungUp, ReceiveFinal, FirstFinal, Preludes
<1>10. CASE Lose \/ RevokeSoftphone
  BY <1>10 DEF Lose, LoseLink, RevokeSoftphone, Revoke, CancelDeadline, RejectRequest
<1>11. CASE SessionNext /\ UNCHANGED establishment
  <2>1. UNCHANGED <<fiber, got>>
    BY <1>11 DEF establishment
  <2>2. CASE Hangup \/ ReceiveBye \/ ReconcileTimeout
    BY <1>1, <2>1, <2>2 DEF Hangup, ReceiveBye, ReconcileTimeout
  <2>3. CASE DeadlineFires
    BY <1>1, <2>1, <2>3 DEF DeadlineFires, Quiet, Resuming, Running
  <2>4. CASE \E t \in Transfers : Transfer(t)
    BY <2>1, <2>4 DEF Transfer, turn
  <2>5. CASE \E complete \in BOOLEAN : ReceiveNotify(complete)
    BY <2>1, <2>5 DEF ReceiveNotify, Receiving, Quiet, Resuming, Running
  <2>6. CASE \E o \in Holds, direction \in Directions : Hold(o, direction)
    BY <2>1, <2>6 DEF Hold, turn, life
  <2>7. CASE \E o \in ReInvites, response \in {"2xx", "non2xx"} : ReceiveReInviteResponse(o, response)
    BY <2>1, <2>7 DEF ReceiveReInviteResponse, life
  <2>8. ASSUME NEW o, Conclude(o), UNCHANGED turn
        PROVE  Goal
    BY <1>1, <2>1, <2>8 DEF Conclude, turn, life
  <2>9. CASE TakeUp \/ \E o \in ReInvites : TakeUpLoss(o)
    BY <2>8, <2>9 DEF TakeUp, TakeUpLoss
  <2>10. CASE ReplacementRegisters \/ LoseReplacement \/ EndLoop
    BY <2>1, <2>10 DEF ReplacementRegisters, LoseReplacement, EndLoop, life
  <2>11. CASE Adopt
    BY <2>1, <2>11 DEF Adopt, CancelDeadline
  <2>. QED
    BY <1>11, <2>2, <2>3, <2>4, <2>5, <2>6, <2>7, <2>9, <2>10, <2>11 DEF SessionNext
<1>12. CASE UNCHANGED vars
  BY <1>12 DEF vars, sessionVars, turn, life, establishment
<1>. HIDE DEF Goal
<1>. QED
  BY <1>2, <1>3, <1>4, <1>5, <1>6, <1>7, <1>8, <1>9, <1>10, <1>11, <1>12 DEF Next

-----------------------------------------------------------------------------
(* Every step keeps the dialog on its way to what the peer accepted. *)

(* Steps that touch neither the SDP nor a re-INVITE. *)
LEMMA DialogKept ==
  ASSUME DialogTypes, DialogInv, UNCHANGED dialog,
         link' = "up" => link = "up",
         link' # "up" => link # "up" \/ state = "ringing",
         link' \in {"adopting", "stillborn"} => answered = <<>>,
         state' \in {"none", "ringing"} => state \in {"none", "ringing"},
         state' = "active" => state \in {"active", "ringing"}
  PROVE  DialogInv'
<1>. USE DEF DialogInv, dialog
<1>1. FreshDialog' /\ NoneWaitsInVain'
  BY DEF FreshDialog, NoneWaitsInVain
<1>2. AnswersQueue' /\ (Synchronized => Synchronized')
  BY DEF AnswersQueue, Synchronized
<1>3. state = "ringing" => Synchronized
  BY DEF FreshDialog, Synchronized
<1>4. Reconciled'
  BY <1>2, <1>3 DEF Reconciled
<1>. QED
  BY <1>1, <1>2, <1>4

(* A re-INVITE of hold() or unhold() is none of those queued. *)
LEMMA HoldStep ==
  ASSUME DialogTypes, DialogInv, NEW o \in Holds, NEW direction \in Directions, Hold(o, direction)
  PROVE  DialogInv'
<1>. USE DEF DialogInv
<1>1. /\ UNCHANGED <<link, state, sdp, agreed, answered>>
      /\ state \in {"active", "disposed"}
      /\ stage[o] = "idle"
      /\ \A r \in ReInvites \ {o} : stage'[r] = stage[r] /\ offer'[r] = offer[r]
      /\ stage'[o] = IF link = "up" THEN "waiting" ELSE "lost"
  BY DEF Hold, ReInvite, turn, life, DialogTypes, ReInvites
<1>2. \A i \in 1 .. Len(answered) : answered[i] \in ReInvites \ {o}
  BY <1>1 DEF AnswersQueue, DialogTypes
<1>3. \A i \in 1 .. Len(answered) :
        stage'[answered[i]] = stage[answered[i]] /\ offer'[answered[i]] = offer[answered[i]]
  BY <1>1, <1>2
<1>4. AnswersQueue'
  BY <1>1, <1>3 DEF AnswersQueue
<1>5. Synchronized => Synchronized'
  BY <1>1, <1>3 DEF Synchronized
<1>6. stage'[Reconciliation] = stage[Reconciliation]
  BY <1>1, ReconciliationAssumption DEF ReInvites
<1>7. FreshDialog' /\ NoneWaitsInVain'
  BY <1>1 DEF FreshDialog, NoneWaitsInVain
<1>8. Reconciled'
  BY <1>1, <1>5, <1>6 DEF Reconciled
<1>. QED
  BY <1>4, <1>7, <1>8

(* What the peer accepts last is queued last.                              *)
LEMMA ResponseStep ==
  ASSUME DialogTypes, DialogInv, NEW o \in ReInvites, NEW response \in {"2xx", "non2xx"},
         ReceiveReInviteResponse(o, response)
  PROVE  DialogInv'
<1>. USE DEF DialogInv
<1>. DEFINE n == Len(answered)
<1>1. /\ UNCHANGED <<link, state, sdp, offer>>
      /\ stage[o] = "waiting" /\ stage'[o] = response
      /\ \A r \in ReInvites \ {o} : stage'[r] = stage[r]
      /\ agreed' = IF response = "2xx" THEN offer[o] ELSE agreed
  BY DEF ReceiveReInviteResponse, life, DialogTypes
<1>2. link = "up" /\ state \notin {"none", "ringing"}
  BY <1>1 DEF NoneWaitsInVain, FreshDialog
<1>3. /\ answered' \in Seq(ReInvites) /\ n \in Nat /\ Len(answered') = n + 1
      /\ answered'[n + 1] = o
      /\ \A i \in 1 .. n : answered'[i] = answered[i]
  BY DEF ReceiveReInviteResponse, DialogTypes
<1>4. \A i \in 1 .. n : answered[i] \in ReInvites \ {o}
  BY <1>1 DEF AnswersQueue, DialogTypes
<1>5. \A i \in 1 .. n : answered'[i] # o /\ stage'[answered'[i]] = stage[answered[i]]
  BY <1>1, <1>3, <1>4
<1>. HIDE DEF n
<1>6. AnswersQueue'
  <2>1. \A i \in 1 .. n + 1 : stage'[answered'[i]] \in {"2xx", "non2xx"}
    BY <1>1, <1>3, <1>5 DEF AnswersQueue, n
  <2>2. \A i, j \in 1 .. n + 1 : i # j => answered'[i] # answered'[j]
    BY <1>3, <1>5 DEF AnswersQueue, n
  <2>. QED
    BY <1>3, <2>1, <2>2 DEF AnswersQueue
<1>7. response = "2xx" => Synchronized'
  <2>. SUFFICES ASSUME response = "2xx"
                PROVE  Synchronized'
    OBVIOUS
  <2>1. stage'[answered'[n + 1]] = "2xx" /\ offer'[answered'[n + 1]] = agreed'
    BY <1>1, <1>3
  <2>2. \A i \in 1 .. n : n + 1 \in i + 1 .. n + 1
    BY <1>3
  <2>. QED
    BY <1>3, <2>1, <2>2 DEF Synchronized
<1>8. response # "2xx" /\ Synchronized => Synchronized'
  <2>. SUFFICES ASSUME response # "2xx", Synchronized
                PROVE  Synchronized'
    OBVIOUS
  <2>1. stage'[answered'[n + 1]] # "2xx" /\ agreed' = agreed
    BY <1>1, <1>3
  <2>2. (\A i \in 1 .. n + 1 : stage'[answered'[i]] # "2xx") => sdp' = agreed'
    BY <1>1, <1>3, <1>5, <2>1 DEF Synchronized, n
  <2>3. ASSUME NEW i \in 1 .. n, stage'[answered'[i]] = "2xx",
               \A j \in i + 1 .. n + 1 : stage'[answered'[j]] # "2xx"
        PROVE  offer'[answered'[i]] = agreed'
    <3>1. \A j \in i + 1 .. n : stage[answered[j]] # "2xx"
      BY <1>3, <1>5, <2>3
    <3>. QED
      BY <1>1, <1>3, <1>5, <2>1, <2>3, <3>1 DEF Synchronized, n
  <2>. QED
    BY <1>3, <2>1, <2>2, <2>3 DEF Synchronized
<1>9. Reconciled'
  <2>1. response # "2xx" /\ stage[Reconciliation] \in {"waiting", "non2xx"}
          => stage'[Reconciliation] \in {"waiting", "non2xx"}
    BY <1>1 DEF ReInvites
  <2>. QED
    BY <1>1, <1>7, <1>8, <2>1 DEF Reconciled
<1>10. FreshDialog' /\ NoneWaitsInVain'
  BY <1>1, <1>2 DEF FreshDialog, NoneWaitsInVain
<1>. QED
  BY <1>6, <1>9, <1>10

(* A response is taken up in the order of the queue: the SDP follows.      *)
LEMMA TakeUpStep ==
  ASSUME DialogTypes, DialogInv, TakeUp
  PROVE  DialogInv'
<1>. USE DEF DialogInv
<1>. DEFINE o == Head(answered)
            n == Len(answered)
<1>1. /\ n \in Nat \ {0}
      /\ o = answered[1] /\ o \in ReInvites
      /\ answered' \in Seq(ReInvites) /\ Len(answered') = n - 1
      /\ \A i \in 1 .. n - 1 : answered'[i] = answered[i + 1]
  BY DEF TakeUp, DialogTypes
<1>2. /\ UNCHANGED <<link, agreed, offer>>
      /\ stage'[o] = "idle"
      /\ \A r \in ReInvites \ {o} : stage'[r] = stage[r]
  BY <1>1 DEF TakeUp, Conclude, turn, DialogTypes
<1>3. /\ sdp' = IF Accepted(o) /\ state # "disposed" THEN offer[o] ELSE sdp
      /\ state' = state \/ state' = "disposed"
      /\ o = Reconciliation /\ ~Accepted(o) /\ Alive => state' = "disposed"
  BY DEF TakeUp, Conclude, KeepOffer, Dispose, life
<1>4. stage[o] \in {"2xx", "non2xx"}
  BY <1>1 DEF AnswersQueue
<1>. HIDE DEF o, n
<1>5. \A i \in 1 .. n - 1 : /\ i + 1 \in 1 .. n
                            /\ answered'[i] \in ReInvites \ {o}
                            /\ stage'[answered'[i]] = stage[answered[i + 1]]
  <2>. SUFFICES ASSUME NEW i \in 1 .. n - 1
                PROVE  /\ i + 1 \in 1 .. n
                       /\ answered'[i] \in ReInvites \ {o}
                       /\ stage'[answered'[i]] = stage[answered[i + 1]]
    OBVIOUS
  <2>1. i + 1 \in 1 .. n /\ 1 \in 1 .. n /\ i + 1 # 1
    BY <1>1
  <2>2. answered[i + 1] # answered[1]
    BY <2>1 DEF AnswersQueue, n
  <2>3. answered[i + 1] \in ReInvites
    BY <2>1 DEF DialogTypes, n
  <2>. QED
    BY <1>1, <1>2, <2>1, <2>2, <2>3
<1>6. AnswersQueue'
  <2>1. \A i \in 1 .. n - 1 : stage'[answered'[i]] \in {"2xx", "non2xx"}
    BY <1>5 DEF AnswersQueue, n
  <2>2. \A i, j \in 1 .. n - 1 : i # j => answered'[i] # answered'[j]
    <3>. SUFFICES ASSUME NEW i \in 1 .. n - 1, NEW j \in 1 .. n - 1, i # j
                  PROVE  answered'[i] # answered'[j]
      OBVIOUS
    <3>1. i + 1 \in 1 .. n /\ j + 1 \in 1 .. n /\ i + 1 # j + 1
      BY <1>1
    <3>. QED
      BY <1>1, <3>1 DEF AnswersQueue, n
  <2>. QED
    BY <1>1, <2>1, <2>2 DEF AnswersQueue
<1>7. FreshDialog' /\ NoneWaitsInVain'
  <2>1. state \notin {"none", "ringing"} /\ link \notin {"adopting", "stillborn"}
    BY <1>1 DEF FreshDialog, NoneWaitsInVain, n
  <2>. QED
    BY <1>2, <1>3, <2>1 DEF FreshDialog, NoneWaitsInVain
<1>8. ASSUME link = "up", state = "active", state' = "active", Synchronized
      PROVE  Synchronized'
  <2>1. (\A i \in 1 .. n - 1 : stage'[answered'[i]] # "2xx") => sdp' = agreed'
    <3>. SUFFICES ASSUME \A i \in 1 .. n - 1 : stage'[answered'[i]] # "2xx"
                  PROVE  sdp' = agreed
      BY <1>2
    <3>1. \A j \in 2 .. n : stage[answered[j]] # "2xx"
      <4>. SUFFICES ASSUME NEW j \in 2 .. n
                    PROVE  stage[answered[j]] # "2xx"
        OBVIOUS
      <4>1. j - 1 \in 1 .. n - 1 /\ (j - 1) + 1 = j
        BY <1>1
      <4>. QED
        BY <1>5, <4>1
    <3>2. CASE stage[o] = "2xx"
      <4>1. sdp' = offer[o]
        BY <1>3, <1>8, <3>2 DEF Accepted
      <4>2. 1 \in 1 .. n /\ 1 + 1 = 2
        BY <1>1
      <4>. QED
        BY <1>1, <1>8, <3>1, <3>2, <4>1, <4>2 DEF Synchronized, n
    <3>3. CASE stage[o] = "non2xx"
      <4>1. sdp' = sdp
        BY <1>3, <3>3 DEF Accepted
      <4>2. \A j \in 1 .. n : j = 1 \/ j \in 2 .. n
        BY <1>1
      <4>. QED
        BY <1>1, <1>8, <3>1, <3>3, <4>1, <4>2 DEF Synchronized, n
    <3>. QED
      BY <1>4, <3>2, <3>3
  <2>2. ASSUME NEW i \in 1 .. n - 1, stage'[answered'[i]] = "2xx",
               \A j \in i + 1 .. n - 1 : stage'[answered'[j]] # "2xx"
        PROVE  offer'[answered'[i]] = agreed'
    <3>1. \A j \in (i + 1) + 1 .. n : stage[answered[j]] # "2xx"
      <4>. SUFFICES ASSUME NEW j \in (i + 1) + 1 .. n
                    PROVE  stage[answered[j]] # "2xx"
        OBVIOUS
      <4>1. j - 1 \in i + 1 .. n - 1 /\ j - 1 \in 1 .. n - 1 /\ (j - 1) + 1 = j
        BY <1>1
      <4>. QED
        BY <1>5, <2>2, <4>1
    <3>2. i + 1 \in 1 .. n /\ stage[answered[i + 1]] = "2xx"
      BY <1>5, <2>2
    <3>. QED
      BY <1>1, <1>2, <1>8, <3>1, <3>2 DEF Synchronized, n
  <2>. QED
    BY <1>1, <2>1, <2>2 DEF Synchronized
<1>9. ASSUME link = "up", state = "active", state' = "active", ~Synchronized
      PROVE  stage'[Reconciliation] \in {"waiting", "non2xx"}
  <2>1. stage[Reconciliation] \in {"waiting", "non2xx"}
    BY <1>9 DEF Reconciled
  <2>2. o # Reconciliation
    BY <1>3, <1>4, <1>9, <2>1 DEF Accepted, Alive
  <2>. QED
    BY <1>2, <2>1, <2>2 DEF ReInvites
<1>10. Reconciled'
  <2>. SUFFICES ASSUME link' = "up", state' = "active"
                PROVE  Synchronized' \/ stage'[Reconciliation] \in {"waiting", "non2xx"}
    BY DEF Reconciled
  <2>. QED
    BY <1>2, <1>3, <1>8, <1>9
<1>. QED
  BY <1>6, <1>7, <1>10

(* A re-INVITE that was rejected is not in the queue.                      *)
LEMMA LossStep ==
  ASSUME DialogTypes, DialogInv, NEW o \in ReInvites, TakeUpLoss(o)
  PROVE  DialogInv'
<1>. USE DEF DialogInv
<1>1. /\ UNCHANGED <<link, sdp, agreed, offer, answered>>
      /\ stage[o] = "lost" /\ stage'[o] = "idle"
      /\ \A r \in ReInvites \ {o} : stage'[r] = stage[r]
      /\ state' = state \/ state' = "disposed"
      /\ o = Reconciliation /\ state \in {"ringing", "active"} => state' = "disposed"
  BY DEF TakeUpLoss, Conclude, KeepOffer, Accepted, Alive, Dispose, turn, life, DialogTypes
<1>2. \A i \in 1 .. Len(answered) : stage'[answered[i]] = stage[answered[i]]
  BY <1>1 DEF AnswersQueue, DialogTypes
<1>3. AnswersQueue' /\ (Synchronized => Synchronized')
  BY <1>1, <1>2 DEF AnswersQueue, Synchronized
<1>4. state \notin {"none", "ringing"}
  BY <1>1 DEF FreshDialog
<1>5. FreshDialog' /\ NoneWaitsInVain'
  BY <1>1, <1>4 DEF FreshDialog, NoneWaitsInVain
<1>6. Reconciled'
  BY <1>1, <1>3 DEF Reconciled, ReInvites
<1>. QED
  BY <1>3, <1>5, <1>6

(* A connection that ends rejects what waits.                              *)
LEMMA LinkEndsStep ==
  ASSUME DialogTypes, DialogInv, RejectPending, UNCHANGED <<state, sdp, offer, answered>>,
         link' \in {"down", "closed"},
         agreed' = agreed \/ \E r \in ReInvites : stage[r] = "waiting"
  PROVE  DialogInv'
<1>. USE DEF DialogInv
<1>1. \A r \in ReInvites : stage'[r] = IF stage[r] = "waiting" THEN "lost" ELSE stage[r]
  BY DEF RejectPending
<1>2. \A i \in 1 .. Len(answered) : answered[i] \in ReInvites /\ stage'[answered[i]] = stage[answered[i]]
  BY <1>1 DEF AnswersQueue, DialogTypes
<1>3. AnswersQueue'
  BY <1>2 DEF AnswersQueue
<1>4. FreshDialog' /\ NoneWaitsInVain' /\ Reconciled'
  BY <1>1 DEF FreshDialog, NoneWaitsInVain, Reconciled
<1>. QED
  BY <1>3, <1>4

(* Adoption starts the reconciliation of a call in an outage.              *)
LEMMA AdoptStep ==
  ASSUME DialogTypes, DialogInv, OutageHasDeadline, Adopt
  PROVE  DialogInv'
<1>. USE DEF DialogInv
<1>1. /\ UNCHANGED <<state, sdp, agreed, answered>>
      /\ link \in {"adopting", "stillborn"}
      /\ link' = IF link = "adopting" THEN "up" ELSE "closed"
      /\ answered = <<>>
  BY DEF Adopt, NoneWaitsInVain
<1>2. AnswersQueue'
  BY <1>1 DEF AnswersQueue
<1>3. /\ \A r \in ReInvites \ {Reconciliation} : stage'[r] = stage[r]
      /\ outage => stage'[Reconciliation] = IF link = "adopting" THEN "waiting" ELSE "lost"
      /\ ~outage => stage' = stage
  BY DEF Adopt, Reconcile, ReInvite, DialogTypes, ReInvites
<1>4. outage <=> state = "active"
  BY <1>1 DEF Adopt, Resuming, Running, OutageHasDeadline
<1>5. FreshDialog' /\ NoneWaitsInVain' /\ Reconciled'
  BY <1>1, <1>3, <1>4 DEF FreshDialog, NoneWaitsInVain, Reconciled
<1>. QED
  BY <1>2, <1>5

(* Every step of a re-INVITE keeps what is said of the SDP.                *)
LEMMA DialogStep ==
  ASSUME TypeOK, LifeInv, DialogInv, [Next]_vars
  PROVE  DialogInv'
<1>. USE TypeParts
<1>1. CASE Dial \/ Authorize
  BY <1>1, DialogKept DEF Dial, Authorize, sessionVars, turn, life, DialogInv, NoneWaitsInVain
<1>2. CASE BindFails \/ BindCompletes \/ CallThrows \/ MakeSession
  BY <1>2, DialogKept DEF BindFails, BindCompletes, CallThrows, Throw, MakeSession, turn, LifeInv,
                          SessionIsReturned, DialogInv, NoneWaitsInVain
<1>3. ASSUME NEW response \in {"407", "183", "183 port 0", "other"}, ReceiveResponse(response)
      PROVE  DialogInv'
  BY <1>3, DialogKept DEF ReceiveResponse, life, DialogInv, NoneWaitsInVain
<1>4. CASE MissFinal
  BY <1>4, DialogKept DEF MissFinal, life, DialogInv, NoneWaitsInVain
<1>5. CASE Refused \/ MediaFails \/ Answered
  BY <1>5, DialogKept DEF Refused, MediaFails, Answered, ReceiveFinal, FirstFinal, Dispose,
                          DialogInv, NoneWaitsInVain
<1>6. ASSUME NEW revokes \in BOOLEAN, AnsweredAndHungUp(revokes)
      PROVE  DialogInv'
  BY <1>6, DialogKept DEF AnsweredAndHungUp, ReceiveFinal, FirstFinal, Dispose, DialogInv,
                          NoneWaitsInVain
<1>7. CASE Lose \/ RevokeSoftphone
  <2>1. CASE Lose
    BY <2>1, LinkEndsStep DEF Lose, LoseLink
  <2>2. CASE RevokeSoftphone
    BY <2>2, LinkEndsStep DEF RevokeSoftphone, Revoke
  <2>. QED
    BY <1>7, <2>1, <2>2
<1>8. CASE SessionNext
  <2>1. CASE Hangup \/ ReceiveBye \/ DeadlineFires \/ ReconcileTimeout
    BY <2>1, DialogKept DEF Hangup, ReceiveBye, DeadlineFires, ReconcileTimeout, Dispose, turn,
                            DialogInv, NoneWaitsInVain
  <2>2. ASSUME NEW t \in Transfers, Transfer(t)
        PROVE  DialogInv'
    BY <2>2, DialogKept DEF Transfer, turn, DialogInv, NoneWaitsInVain
  <2>3. ASSUME NEW complete \in BOOLEAN, ReceiveNotify(complete)
        PROVE  DialogInv'
    BY <2>3, DialogKept DEF ReceiveNotify, DialogInv, NoneWaitsInVain
  <2>4. CASE \E o \in Holds, direction \in Directions : Hold(o, direction)
    BY <2>4, HoldStep
  <2>5. CASE \E o \in ReInvites, response \in {"2xx", "non2xx"} : ReceiveReInviteResponse(o, response)
    BY <2>5, ResponseStep
  <2>6. CASE TakeUp
    BY <2>6, TakeUpStep
  <2>7. CASE \E o \in ReInvites : TakeUpLoss(o)
    BY <2>7, LossStep
  <2>8. CASE ReplacementRegisters \/ LoseReplacement \/ EndLoop
    BY <2>8, DialogKept DEF ReplacementRegisters, LoseReplacement, EndLoop, Quiet, life, DialogInv,
                            NoneWaitsInVain
  <2>9. CASE Adopt
    BY <2>9, AdoptStep DEF LifeInv
  <2>. QED
    BY <1>8, <2>1, <2>2, <2>3, <2>4, <2>5, <2>6, <2>7, <2>8, <2>9 DEF SessionNext
<1>9. CASE UNCHANGED vars
  BY <1>9, DialogKept DEF vars, sessionVars, turn, life, DialogInv, NoneWaitsInVain
<1>. QED
  BY <1>1, <1>2, <1>3, <1>4, <1>5, <1>6, <1>7, <1>8, <1>9 DEF Next

(* Every step keeps the invariant.                                         *)
LEMMA NextInv == ASSUME Inv, [Next]_vars PROVE Inv'
BY TypeStep, LifeStep, DialogStep DEF Inv, LifeInv

-----------------------------------------------------------------------------
(* The theorems *)

(* A call's variables keep their types, whatever the interleaving.         *)
THEOREM TypeCorrect == Spec => []TypeOK
<1>1. Inv => TypeOK
  BY DEF Inv
<1>. QED
  BY InitInv, NextInv, <1>1, PTL DEF Spec

(* In every behaviour the invariant holds.                                 *)
LEMMA Invariance == Spec => []Inv
BY InitInv, NextInv, PTL DEF Spec

(* For any number of hold() and unhold() calls, in whatever order they and *)
(* the reconciliations of outages overlap: once none is pending, the SDP   *)
(* of the call is the one its peer accepted last                           *)
(* (call-session/index.ts:151-197, 215-241).                               *)
THEOREM SdpAgrees == Spec => []SdpIsAgreed
<1>1. Inv => SdpIsAgreed
  BY DEF Inv, DialogInv, SdpIsAgreed, Reconciled, Synchronized, Quiet, ReInvites
<1>. QED
  BY Invariance, <1>1, PTL

(* For any number of transfer() calls, the one whose promise is open is    *)
(* the one that NOTIFY or the end of the call will settle                  *)
(* (call-session/index.ts:112-147, 251-258).                               *)
THEOREM TransfersAreTracked == Spec => []TransferTracked
<1>1. Inv => TransferTracked
  BY DEF Inv, LifeInv
<1>. QED
  BY Invariance, <1>1, PTL

(* An active call without a connection has its five-minute deadline        *)
(* (call-session/index.ts:199-216, index.ts:157-191).                      *)
THEOREM OutagesHaveDeadlines == Spec => []OutageHasDeadline
<1>1. Inv => OutageHasDeadline
  BY DEF Inv, LifeInv
<1>. QED
  BY Invariance, <1>1, PTL

(* The UDP socket of a call is open exactly while the call needs it        *)
(* (call-session/outbound.ts:43-86, index.ts:101-114).                     *)
THEOREM SocketsFollowCalls == Spec => []SocketFollowsCall
<1>1. Inv => SocketFollowsCall
  BY DEF Inv, LifeInv
<1>. QED
  BY Invariance, <1>1, PTL

(* However a call ends, no transfer() of it is left waiting                *)
(* (call-session/index.ts:112).                                            *)
THEOREM DisposalSettlesTransfers == Spec => DisposalEndsTransfer
<1>1. Inv /\ [Next]_vars
        => [Alive /\ state' = "disposed" => \A t \in Transfers : transfers'[t] # "pending"]_sessionVars
  BY TransferStep, TypeParts DEF Inv, LifeInv
<1>. QED
  BY Invariance, <1>1, PTL DEF Spec, DisposalEndsTransfer

-----------------------------------------------------------------------------
(* The refinement *)

(* A sequence of one element and another one.                              *)
LEMMA AppendToOne == ASSUME NEW a, NEW b PROVE Append(<<a>>, b) = <<a, b>>
<1>. DEFINE S == {a, b}
<1>1. <<a>> \in Seq(S) /\ <<a, b>> \in Seq(S) /\ Len(<<a>>) = 1
  OBVIOUS
<1>2. /\ Append(<<a>>, b) \in Seq(S) /\ Len(Append(<<a>>, b)) = 2
      /\ Append(<<a>>, b)[1] = a /\ Append(<<a>>, b)[2] = b
  BY <1>1
<1>3. Len(<<a, b>>) = 2
  OBVIOUS
<1>4. \A i \in 1 .. Len(Append(<<a>>, b)) : Append(<<a>>, b)[i] = <<a, b>>[i]
  BY <1>2
<1>. HIDE DEF S
<1>. QED
  BY <1>1, <1>2, <1>3, <1>4, SeqEqual

(* dispose() of a live session is the end that the contract knows.         *)
LEMMA EndRefines ==
  ASSUME Alive, Dispose(<<>>), LifeTypes
  PROVE  Contract!End
<1>1. events' = Append(events, "disposed")
  <2>1. events' = events \o Append(<<>>, "disposed")
    BY DEF Dispose
  <2>2. Append(<<>>, "disposed") = <<"disposed">>
    OBVIOUS
  <2>3. events \o <<"disposed">> = Append(events, "disposed")
    BY DEF LifeTypes
  <2>. QED
    BY <2>1, <2>2, <2>3
<1>. QED
  BY <1>1 DEF Contract!End, CallView, Dispose, Alive

(* A step that keeps the session, its events and what is heard of call().  *)
LEMMA StutterRefines ==
  ASSUME UNCHANGED <<state, events>>,
         \/ UNCHANGED fiber
         \/ fiber # "idle" /\ fiber # "rejected" /\ fiber' # "idle" /\ fiber' # "rejected"
         \/ state # "none"
  PROVE  UNCHANGED Contract!vars
BY DEF Contract!vars, CallView

(* Every step of the session is its end, or is not seen by the application.*)
LEMMA SessionRefines ==
  ASSUME Inv, SessionNext, UNCHANGED establishment
  PROVE  Contract!End \/ UNCHANGED Contract!vars
<1>. DEFINE Goal == Contract!End \/ UNCHANGED Contract!vars
<1>. SUFFICES Goal
  OBVIOUS
<1>1. ASSUME UNCHANGED <<state, events>>
      PROVE  Goal
  BY <1>1, StutterRefines DEF establishment
<1>2. ASSUME Alive, Dispose(<<>>)
      PROVE  Goal
  BY <1>2, EndRefines, TypeParts DEF Inv
<1>. HIDE DEF Goal
<1>3. CASE Hangup \/ ReceiveBye \/ ReconcileTimeout
  BY <1>2, <1>3 DEF Hangup, ReceiveBye, ReconcileTimeout
<1>4. CASE DeadlineFires
  BY <1>2, <1>4 DEF DeadlineFires, Quiet, Resuming, Running, Inv, LifeInv, OutageHasDeadline, Alive
<1>5. CASE \E t \in Transfers : Transfer(t)
  BY <1>1, <1>5 DEF Transfer
<1>6. CASE \E complete \in BOOLEAN : ReceiveNotify(complete)
  BY <1>1, <1>6 DEF ReceiveNotify
<1>7. CASE \E o \in Holds, direction \in Directions : Hold(o, direction)
  BY <1>1, <1>7 DEF Hold, life
<1>8. CASE \E o \in ReInvites, response \in {"2xx", "non2xx"} : ReceiveReInviteResponse(o, response)
  BY <1>1, <1>8 DEF ReceiveReInviteResponse, life
<1>9. ASSUME NEW o, Conclude(o)
      PROVE  Goal
  BY <1>1, <1>2, <1>9 DEF Conclude, life
<1>10. CASE TakeUp \/ \E o \in ReInvites : TakeUpLoss(o)
  BY <1>9, <1>10 DEF TakeUp, TakeUpLoss
<1>11. CASE ReplacementRegisters \/ LoseReplacement \/ EndLoop \/ Adopt
  BY <1>1, <1>11 DEF ReplacementRegisters, LoseReplacement, EndLoop, Adopt, life
<1>. QED
  BY <1>3, <1>4, <1>5, <1>6, <1>7, <1>8, <1>10, <1>11 DEF SessionNext

(* Every step of a call is one of its contract, or is not seen there.      *)
LEMMA StepRefines ==
  ASSUME Inv, [Next]_vars
  PROVE  [Contract!Next]_Contract!vars
<1>. DEFINE Goal == Contract!Next \/ UNCHANGED Contract!vars
<1>. SUFFICES Goal
  OBVIOUS
<1>. USE DEF Inv, LifeInv, SessionIsReturned, ResponseIsDue
<1>1. ASSUME UNCHANGED <<state, events, fiber>>
      PROVE  Goal
  BY <1>1, StutterRefines
<1>2. CASE Dial
  <2>1. Contract!Dial
    BY <1>2 DEF Dial, Contract!Dial, CallView, sessionVars, life
  <2>. QED
    BY <2>1 DEF Contract!Next
<1>3. ASSUME state = "none", fiber # "idle", fiber # "rejected", fiber' = "rejected",
             UNCHANGED <<state, events>>
      PROVE  Goal
  <2>1. Contract!Fail
    BY <1>3 DEF Contract!Fail, CallView
  <2>. QED
    BY <2>1 DEF Contract!Next
<1>4. CASE MakeSession
  <2>1. Contract!Ring
    BY <1>4 DEF MakeSession, Contract!Ring, CallView
  <2>. QED
    BY <2>1 DEF Contract!Next
<1>5. CASE Refused
  <2>1. Append(<<"non2xxResponse">>, "disposed") = <<"non2xxResponse", "disposed">>
    BY AppendToOne
  <2>2. Contract!Refuse
    BY <1>5, <2>1 DEF Refused, ReceiveFinal, FirstFinal, Dispose, Contract!Refuse, CallView
  <2>. QED
    BY <2>2 DEF Contract!Next
<1>6. CASE Answered
  <2>1. Contract!Answer
    BY <1>6 DEF Answered, ReceiveFinal, FirstFinal, Contract!Answer, CallView
  <2>. QED
    BY <2>1 DEF Contract!Next
<1>7. ASSUME NEW revokes \in BOOLEAN, AnsweredAndHungUp(revokes)
      PROVE  Goal
  <2>1. Append(<<"answered">>, "disposed") = <<"answered", "disposed">>
    BY AppendToOne
  <2>2. Contract!AnswerAndEnd
    BY <1>7, <2>1
       DEF AnsweredAndHungUp, ReceiveFinal, FirstFinal, Dispose, Contract!AnswerAndEnd, CallView
  <2>. QED
    BY <2>2 DEF Contract!Next
<1>8. CASE Authorize
  BY <1>8, StutterRefines DEF Authorize, sessionVars, life
<1>9. CASE SessionNext /\ UNCHANGED establishment
  BY <1>9, SessionRefines DEF Contract!Next
<1>10. ASSUME NEW response \in {"407", "183", "183 port 0", "other"}, ReceiveResponse(response)
       PROVE  Goal
  BY <1>1, <1>10 DEF ReceiveResponse, life
<1>. HIDE DEF Goal
<1>11. CASE MissFinal \/ MediaFails
  BY <1>1, <1>11 DEF MissFinal, MediaFails, ReceiveFinal, life
<1>12. CASE Lose \/ RevokeSoftphone
  BY <1>1, <1>12 DEF Lose, LoseLink, RevokeSoftphone, Revoke
<1>13. CASE BindFails \/ CallThrows
  BY <1>3, <1>13 DEF BindFails, CallThrows, Throw
<1>14. CASE BindCompletes
  <2>1. CASE fiber' = "rejected"
    BY <1>3, <1>14, <2>1 DEF BindCompletes
  <2>2. CASE fiber' = "inviting"
    BY <1>14, <2>2, StutterRefines DEF BindCompletes, Goal
  <2>. QED
    BY <1>14, <2>1, <2>2 DEF BindCompletes
<1>15. CASE UNCHANGED vars
  BY <1>1, <1>15 DEF vars, sessionVars, life, establishment
<1>. QED
  BY <1>2, <1>4, <1>5, <1>6, <1>7, <1>8, <1>9, <1>10, <1>11, <1>12, <1>13, <1>14, <1>15 DEF Next

(* However it comes about, a call keeps the contract of CallContract.      *)
THEOREM RefinesContract == Spec => ImplementsContract
<1>1. Init => Contract!Init
  BY DEF Init, SessionInit, CallView, Contract!Init
<1>2. Inv /\ [Next]_vars => [Contract!Next]_Contract!vars
  BY StepRefines
<1>. QED
  BY Invariance, <1>1, <1>2, PTL DEF Spec, ImplementsContract, Contract!Spec

-----------------------------------------------------------------------------
(* The connection of the call *)

(* A step is not seen there if it keeps the link, the membership in        *)
(* callSessions, the deadline and whether a reconciliation is under way.   *)
LEMMA StutterOnConnection ==
  ASSUME UNCHANGED <<link, outage>>, state' = "active" <=> state = "active",
         state = "active" => (stage'[Reconciliation] = "idle" <=> stage[Reconciliation] = "idle")
  PROVE  UNCHANGED CallsConnection!vars
BY DEF CallsConnection!vars, Only

(* The end of an answered call is its leave; the end of any other one is   *)
(* not seen.                                                               *)
LEMMA EndOnConnection ==
  ASSUME TypeOK, OutageHasDeadline, Running, link' = link, NEW emitted, Dispose(emitted)
  PROVE  CallsConnection!Next \/ UNCHANGED CallsConnection!vars
<1>1. state' = "disposed" /\ outage' = FALSE
  BY DEF Dispose, CancelDeadline
<1>2. CASE state = "active"
  <2>1. CallsConnection!Leave(Me)
    BY <1>1, <1>2 DEF CallsConnection!Leave, Only
  <2>. QED
    BY <2>1 DEF CallsConnection!Next
<1>3. CASE state # "active"
  <2>1. outage = FALSE
    BY <1>3, TypeParts DEF OutageHasDeadline, Running, LifeTypes
  <2>. QED
    BY <1>1, <1>3, <2>1, StutterOnConnection
<1>. QED
  BY <1>2, <1>3

(* A reconciliation that succeeds does so on a connection; one that fails  *)
(* ends the call.                                                          *)
LEMMA ConcludeOnConnection ==
  ASSUME TypeOK, OutageHasDeadline, Running, link' = link,
         NEW o \in ReInvites, Conclude(o), stage[o] # "idle"
  PROVE  CallsConnection!Next \/ UNCHANGED CallsConnection!vars
<1>0. stage' = [stage EXCEPT ![o] = "idle"] /\ Reconciliation \in DOMAIN stage
  BY TypeParts DEF Conclude, DialogTypes, ReInvites
<1>1. CASE o # Reconciliation
  <2>1. stage'[Reconciliation] = stage[Reconciliation]
    BY <1>0, <1>1
  <2>. QED
    BY <1>1, <2>1, StutterOnConnection DEF Conclude, life
<1>2. CASE o = Reconciliation /\ ~Accepted(o) /\ Alive
  BY <1>2, EndOnConnection DEF Conclude
<1>3. CASE o = Reconciliation /\ ~(~Accepted(o) /\ Alive) /\ state # "active"
  BY <1>3, StutterOnConnection DEF Conclude, life
<1>4. CASE o = Reconciliation /\ ~(~Accepted(o) /\ Alive) /\ state = "active"
  <2>1. link = "up" /\ UNCHANGED life
    BY <1>4 DEF Conclude, Accepted, Alive
  <2>2. stage'[Reconciliation] = "idle" /\ stage[Reconciliation] # "idle"
    BY <1>0, <1>4
  <2>3. CallsConnection!Settle(Me)
    BY <1>4, <2>1, <2>2 DEF CallsConnection!Settle, Only, life
  <2>. QED
    BY <2>3 DEF CallsConnection!Next
<1>. QED
  BY <1>1, <1>2, <1>3, <1>4

(* The steps of the session, on the connection.                            *)
LEMMA SessionOnConnection ==
  ASSUME Inv, SessionNext
  PROVE  CallsConnection!Next \/ UNCHANGED CallsConnection!vars
<1>. DEFINE Goal == CallsConnection!Next \/ UNCHANGED CallsConnection!vars
<1>. SUFFICES Goal
  OBVIOUS
<1>0. /\ TypeOK /\ OutageHasDeadline /\ FreshDialog /\ AnswersQueue
      /\ TurnTypes /\ LifeTypes /\ DialogTypes
  BY TypeParts DEF Inv, LifeInv, DialogInv
<1>1. ASSUME UNCHANGED <<link, outage, state, stage>> PROVE Goal
  BY <1>1, StutterOnConnection
<1>2. ASSUME Running, link' = link, Dispose(<<>>) PROVE Goal
  BY <1>0, <1>2, EndOnConnection
<1>3. CASE Hangup \/ ReceiveBye \/ DeadlineFires \/ ReconcileTimeout
  <2>1. Running /\ link' = link /\ Dispose(<<>>)
    BY <1>3 DEF Hangup, ReceiveBye, Receiving, DeadlineFires, ReconcileTimeout, Quiet, Resuming,
                turn
  <2>. QED
    BY <1>2, <2>1
<1>4. CASE (\E t \in Transfers : Transfer(t)) \/ (\E complete \in BOOLEAN : ReceiveNotify(complete))
  BY <1>1, <1>4 DEF Transfer, ReceiveNotify, turn, dialog
<1>5. ASSUME NEW o \in Holds, NEW direction \in Directions, Hold(o, direction) PROVE Goal
  <2>1. stage'[Reconciliation] = stage[Reconciliation]
    BY <1>0, <1>5, ReconciliationAssumption DEF Hold, ReInvite, DialogTypes, ReInvites
  <2>. QED
    BY <1>5, <2>1, StutterOnConnection DEF Hold, turn, life
<1>6. ASSUME NEW o \in ReInvites, NEW response \in {"2xx", "non2xx"},
             ReceiveReInviteResponse(o, response)
      PROVE  Goal
  <2>1. stage'[Reconciliation] = "idle" <=> stage[Reconciliation] = "idle"
    BY <1>0, <1>6 DEF ReceiveReInviteResponse, DialogTypes, ReInvites
  <2>. QED
    BY <1>6, <2>1, StutterOnConnection DEF ReceiveReInviteResponse, life
<1>7. CASE TakeUp
  <2>1. answered[1] = Head(answered) /\ Head(answered) \in ReInvites /\ 1 \in 1 .. Len(answered)
    BY <1>0, <1>7 DEF TakeUp, DialogTypes
  <2>2. stage[Head(answered)] # "idle"
    BY <1>0, <2>1 DEF AnswersQueue
  <2>. QED
    BY <1>0, <1>7, <2>1, <2>2, ConcludeOnConnection DEF TakeUp, Resuming, turn
<1>8. ASSUME NEW o \in ReInvites, TakeUpLoss(o) PROVE Goal
  BY <1>0, <1>8, ConcludeOnConnection DEF TakeUpLoss, Resuming, turn
<1>9. CASE ReplacementRegisters
  <2>1. CallsConnection!Replace
    BY <1>9 DEF ReplacementRegisters, CallsConnection!Replace, life, dialog
  <2>. QED
    BY <2>1 DEF CallsConnection!Next
<1>10. CASE LoseReplacement
  <2>1. CallsConnection!Replace
    BY <1>10 DEF LoseReplacement, CallsConnection!Replace, life, dialog
  <2>. QED
    BY <2>1 DEF CallsConnection!Next
<1>11. CASE EndLoop
  BY <1>1, <1>11 DEF EndLoop, life, dialog
<1>12. CASE Adopt
  <2>1. /\ outage <=> state = "active"
        /\ \/ link = "adopting" /\ link' = "up"
           \/ link = "stillborn" /\ link' = "closed"
        /\ state' = state /\ outage' = FALSE
    BY <1>0, <1>12 DEF Adopt, Resuming, Running, OutageHasDeadline, CancelDeadline
  <2>2. CASE state = "active"
    <3>1. stage'[Reconciliation] # "idle"
      BY <1>0, <1>12, <2>1, <2>2 DEF Adopt, Reconcile, ReInvite, DialogTypes, ReInvites
    <3>2. CallsConnection!Adopt
      BY <2>1, <2>2, <3>1 DEF CallsConnection!Adopt, Only
    <3>. QED
      BY <3>2 DEF CallsConnection!Next
  <2>3. CASE state # "active"
    <3>1. CallsConnection!Adopt
      BY <2>1, <2>3 DEF CallsConnection!Adopt, Only
    <3>. QED
      BY <3>1 DEF CallsConnection!Next
  <2>. QED
    BY <2>2, <2>3
<1>. HIDE DEF Goal
<1>. QED
  BY <1>3, <1>4, <1>5, <1>6, <1>7, <1>8, <1>9, <1>10, <1>11, <1>12 DEF SessionNext

(* Every step is a step of Connection or a stutter.                        *)
LEMMA StepOnConnection ==
  ASSUME Inv, [Next]_vars
  PROVE  [CallsConnection!Next]_CallsConnection!vars
<1>. DEFINE Goal == CallsConnection!Next \/ UNCHANGED CallsConnection!vars
<1>. SUFFICES Goal
  OBVIOUS
<1>0. /\ TypeOK /\ OutageHasDeadline /\ FreshDialog /\ LifeTypes /\ DialogTypes
  BY TypeParts DEF Inv, LifeInv, DialogInv
<1>1. ASSUME UNCHANGED <<link, outage, stage>>, state' = "active" <=> state = "active" PROVE Goal
  BY <1>1, StutterOnConnection
<1>2. CASE Dial \/ Authorize \/ UNCHANGED vars
  BY <1>1, <1>2 DEF Dial, Authorize, vars, sessionVars, turn, life, dialog
<1>3. CASE BindFails \/ BindCompletes \/ CallThrows
  BY <1>1, <1>3 DEF BindFails, BindCompletes, CallThrows, Throw, turn, dialog
<1>4. CASE (\E response \in {"407", "183", "183 port 0", "other"} : ReceiveResponse(response))
           \/ MissFinal
  BY <1>1, <1>4 DEF ReceiveResponse, MissFinal, life, dialog
<1>5. CASE MakeSession
  <2>1. state # "active" /\ state' # "active"
    BY <1>5 DEF MakeSession, Inv, LifeInv, SessionIsReturned
  <2>. QED
    BY <1>1, <1>5, <2>1 DEF MakeSession, turn, dialog
<1>6. ASSUME ReceiveFinal
      PROVE  Running /\ link \in {"up", "adopting"} /\ state = "ringing" /\ UNCHANGED stage
             /\ outage = FALSE /\ stage[Reconciliation] = "idle"
  BY <1>0, <1>6 DEF ReceiveFinal, FirstFinal, Receiving, Quiet, Resuming, Running, dialog,
                    OutageHasDeadline, LifeTypes, FreshDialog, ReInvites
<1>7. CASE Refused
  BY <1>0, <1>6, <1>7, EndOnConnection DEF Refused
<1>8. CASE MediaFails
  BY <1>1, <1>6, <1>8 DEF MediaFails
<1>9. CASE Answered
  <2>1. CallsConnection!Join(Me)
    BY <1>6, <1>9 DEF Answered, CallsConnection!Join, Only
  <2>. QED
    BY <2>1 DEF CallsConnection!Next
<1>10. ASSUME NEW revokes \in BOOLEAN, AnsweredAndHungUp(revokes) PROVE Goal
  <2>1. /\ ReceiveFinal /\ link = "up" /\ Dispose(<<"answered">>)
        /\ link' = IF revokes THEN "closed" ELSE link
    BY <1>10 DEF AnsweredAndHungUp
  <2>2. state' = "disposed" /\ outage' = FALSE
    BY <2>1 DEF Dispose, CancelDeadline
  <2>3. CASE revokes
    <3>1. CallsConnection!Close
      BY <1>6, <2>1, <2>2, <2>3 DEF CallsConnection!Close, Only
    <3>. QED
      BY <3>1 DEF CallsConnection!Next
  <2>4. CASE ~revokes
    BY <1>1, <1>6, <2>1, <2>2, <2>4
  <2>. QED
    BY <2>3, <2>4
<1>11. ASSUME RejectPending
       PROVE  stage'[Reconciliation] = "idle" <=> stage[Reconciliation] = "idle"
  BY <1>0, <1>11 DEF RejectPending, DialogTypes, ReInvites
<1>12. CASE Lose
  <2>1. /\ link = "up" /\ link' = "down" /\ state' = state /\ outage' = (state = "active")
        /\ RejectPending
    BY <1>12 DEF Lose, LoseLink
  <2>2. CallsConnection!Lose
    BY <1>11, <2>1 DEF CallsConnection!Lose, Only
  <2>. QED
    BY <2>2 DEF CallsConnection!Next
<1>13. CASE RevokeSoftphone
  <2>1. link # "closed" /\ link' = "closed" /\ state' = state /\ outage' = FALSE /\ RejectPending
    BY <1>13 DEF RevokeSoftphone, Revoke, CancelDeadline
  <2>2. CallsConnection!Close
    BY <1>11, <2>1 DEF CallsConnection!Close, Only
  <2>. QED
    BY <2>2 DEF CallsConnection!Next
<1>14. CASE SessionNext
  BY <1>14, SessionOnConnection
<1>. HIDE DEF Goal
<1>. QED
  BY <1>2, <1>3, <1>4, <1>5, <1>7, <1>8, <1>9, <1>10, <1>12, <1>13, <1>14 DEF Next

(* What is taken for granted here about losses, replacements and their     *)
(* effect on the call is within what Connection allows; ConnectionProofs   *)
(* proves the same of the softphone that provides it.                      *)
THEOREM CallImplementsConnection == Spec => ImplementsConnection
<1>1. Init => CallsConnection!Init
  BY DEF Init, SessionInit, CallsConnection!Init, Only
<1>2. Inv /\ [Next]_vars => [CallsConnection!Next]_CallsConnection!vars
  BY StepOnConnection
<1>. QED
  BY Invariance, <1>1, <1>2, PTL DEF Spec, ImplementsConnection, CallsConnection!Spec
=============================================================================
