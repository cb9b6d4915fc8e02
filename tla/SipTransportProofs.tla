------------------------- MODULE SipTransportProofs -------------------------
(***************************************************************************)
(* Theorems about SipTransport for any number of waiters, requests and     *)
(* keys: the inductive invariant, what it implies, and the safety part of  *)
(* the refinement of TransportContract.                                    *)
(***************************************************************************)
EXTENDS SipTransport, TLAPS

(* What the invariants need to be preserved: the transport has a reason    *)
(* for being closed exactly when it is, it never closes half-way, and the  *)
(* receive loop only runs over a connection.                               *)
ClosedHasReason == closed <=> terminalError # "none"
LoopNeedsConnection == receiving /\ ~closed => connected
WaitingMeansConnecting == readyWaiters # {} => ~connected /\ ~closed

Inv ==
  /\ TypeOK
  /\ PromisesTracked
  /\ NothingHangsAfterClose
  /\ ClosedReleasesSocket
  /\ NotifiedOnce
  /\ ClosedHasReason
  /\ LoopNeedsConnection
  /\ WaitingMeansConnecting

-----------------------------------------------------------------------------
(* The initial states satisfy the invariant. *)
LEMMA InitInv == Init => Inv
<1>. SUFFICES ASSUME Init PROVE Inv
  OBVIOUS
<1>1. TypeOK
  <2>1. NoAnswer \in Answers
    BY DEF NoAnswer, Answers, Kinds
  <2>2. answer \in [Requests -> Answers]
    BY <2>1 DEF Init
  <2>3. emitted \in 0 .. MaxMessages /\ written \in 0 .. MaxWrites /\ disconnects \in Nat
    BY BoundsAssumption DEF Init
  <2>. QED
    BY <2>2, <2>3 DEF Init, TypeOK, PromiseStates, Errors, Predicates
<1>2. PromisesTracked
  BY DEF Init, PromisesTracked, RequestsTracked, WaitersTracked
<1>3. NothingHangsAfterClose /\ ClosedReleasesSocket /\ NotifiedOnce
  BY DEF Init, NothingHangsAfterClose, ClosedReleasesSocket, NotifiedOnce
<1>4. ClosedHasReason /\ LoopNeedsConnection /\ WaitingMeansConnecting
  BY DEF Init, ClosedHasReason, LoopNeedsConnection, WaitingMeansConnecting
<1>. QED
  BY <1>1, <1>2, <1>3, <1>4 DEF Inv

(* fail() leaves every field and every promise in its type.                *)
LEMMA FailTypes ==
  ASSUME TypeOK, NEW error \in Errors, NEW notify \in BOOLEAN, Fail(error, notify)
  PROVE  /\ closed' \in BOOLEAN /\ connected' \in BOOLEAN /\ terminalError' \in Errors
         /\ pending' \in [Keys -> Requests \cup {NoRequest}]
         /\ readyWaiters' \in SUBSET Waiters
         /\ ready' \in [Waiters -> PromiseStates]
         /\ request' \in [Requests -> PromiseStates]
         /\ disconnects' \in Nat
         /\ UNCHANGED <<aborted, key, predicate, answer, emitted, written>>
<1>1. request' \in [Requests -> PromiseStates]
  BY DEF TypeOK, Fail, FailBody, RejectPending, PromiseStates
<1>2. ready' \in [Waiters -> PromiseStates]
  BY DEF TypeOK, Fail, FailBody, RejectPending, PromiseStates
<1>3. closed' \in BOOLEAN /\ connected' \in BOOLEAN /\ terminalError' \in Errors
  BY DEF Fail, FailBody, RejectPending
<1>4. pending' \in [Keys -> Requests \cup {NoRequest}] /\ readyWaiters' \in SUBSET Waiters
  BY DEF Fail, FailBody, RejectPending
<1>5. disconnects' \in Nat
  BY DEF TypeOK, Fail, FailBody
<1>. QED
  BY <1>1, <1>2, <1>3, <1>4, <1>5 DEF Fail, FailBody, calls

(* Every step preserves the types. *)
LEMMA NextTypeOK == TypeOK /\ [Next]_vars => TypeOK'
<1>. SUFFICES ASSUME TypeOK, [Next]_vars PROVE TypeOK'
  OBVIOUS
<1>. USE DEF TypeOK, PromiseStates, Errors
<1>1. CASE Send
  BY <1>1, BoundsAssumption DEF Send, lifecycle, promises, calls
<1>2. CASE Dispose
  BY <1>2, FailTypes DEF Dispose, DestroySocket
<1>3. CASE SocketError
  BY <1>3, FailTypes DEF SocketError, DestroySocket
<1>4. CASE SocketClose
  BY <1>4, FailTypes DEF SocketClose
<1>5. CASE SecureConnect
  BY <1>5 DEF SecureConnect, calls
<1>6. CASE Data
  BY <1>6 DEF Data, lifecycle, promises, calls
<1>7. CASE ReadMalformed
  BY <1>7, FailTypes DEF ReadMalformed, DestroySocket
<1>8. CASE ReceiveReturns
  BY <1>8 DEF ReceiveReturns, lifecycle, promises, calls
<1>9. ASSUME NEW w \in Waiters, Ready(w) PROVE TypeOK'
  BY <1>9 DEF Ready, ReadyAtOnce, ReadyTooLate, ReadyWaits, lifecycle, calls
<1>10. ASSUME NEW w \in Waiters, AbortFires(w) PROVE TypeOK'
  BY <1>10 DEF AbortFires, RejectWaiter, lifecycle, calls
<1>11. ASSUME NEW r \in Requests, NEW k \in Keys, NEW p \in Predicates, Request(r, k, p)
       PROVE  TypeOK'
  BY <1>11, BoundsAssumption
     DEF Request, RequestRefused, RequestWritten, RequestWriteThrows, lifecycle
<1>12. ASSUME NEW k \in Keys \cup {NoKey}, NEW kind \in Kinds, ReadMessage(k, kind)
       PROVE  TypeOK'
  <2>1. [key |-> k, kind |-> kind] \in Answers
    BY DEF Answers
  <2>2. answer' \in [Requests -> Answers]
    BY <1>12, <2>1 DEF ReadMessage, Deliver
  <2>. QED
    BY <1>12, <2>2, BoundsAssumption DEF ReadMessage, Deliver, lifecycle, calls
<1>13. CASE UNCHANGED vars
  BY <1>13 DEF vars
<1>. QED
  BY <1>1, <1>2, <1>3, <1>4, <1>5, <1>6, <1>7, <1>8, <1>9, <1>10, <1>11, <1>12, <1>13
     DEF Next

(* Every step keeps the table of requests and their promises in step.      *)
LEMMA NextRequestsTracked == Inv /\ [Next]_vars => RequestsTracked'
<1>. SUFFICES ASSUME Inv, [Next]_vars PROVE RequestsTracked'
  OBVIOUS
<1>. USE NoRequestAssumption, NoKeyAssumption DEF Inv, TypeOK, PromisesTracked, RequestsTracked
<1>1. CASE Send \/ Data \/ ReceiveReturns \/ SecureConnect
  BY <1>1 DEF Send, Data, ReceiveReturns, SecureConnect, promises, calls
<1>2. CASE Dispose \/ SocketError \/ SocketClose \/ ReadMalformed
  BY <1>2 DEF Dispose, SocketError, SocketClose, ReadMalformed, Fail, FailBody, RejectPending, DestroySocket
<1>3. ASSUME NEW w \in Waiters, Ready(w) \/ AbortFires(w) PROVE RequestsTracked'
  BY <1>3 DEF Ready, AbortFires, RejectWaiter, calls
<1>4. ASSUME NEW r \in Requests, NEW k \in Keys, NEW p \in Predicates, Request(r, k, p)
      PROVE  RequestsTracked'
  BY <1>4 DEF Request, RequestRefused, RequestWritten, RequestWriteThrows, PromiseStates
<1>5. ASSUME NEW k \in Keys \cup {NoKey}, NEW kind \in Kinds, ReadMessage(k, kind)
      PROVE  RequestsTracked'
  BY <1>5 DEF ReadMessage, Deliver, Matches, calls
<1>6. CASE UNCHANGED vars
  BY <1>6 DEF vars
<1>. QED
  BY <1>1, <1>2, <1>3, <1>4, <1>5, <1>6 DEF Next

(* Every step keeps the set of waiters and their promises in step.         *)
LEMMA NextWaitersTracked == Inv /\ [Next]_vars => WaitersTracked'
<1>. SUFFICES ASSUME Inv, [Next]_vars PROVE WaitersTracked'
  OBVIOUS
<1>. USE DEF Inv, TypeOK, PromisesTracked, WaitersTracked
<1>1. CASE Send \/ Data \/ ReceiveReturns
  BY <1>1 DEF Send, Data, ReceiveReturns, promises
<1>2. CASE Dispose \/ SocketError \/ SocketClose \/ ReadMalformed
  BY <1>2 DEF Dispose, SocketError, SocketClose, ReadMalformed, Fail, FailBody, RejectPending, DestroySocket
<1>3. CASE SecureConnect
  BY <1>3 DEF SecureConnect
<1>4. ASSUME NEW w \in Waiters, Ready(w) PROVE WaitersTracked'
  BY <1>4 DEF Ready, ReadyAtOnce, ReadyTooLate, ReadyWaits
<1>5. ASSUME NEW w \in Waiters, AbortFires(w) PROVE WaitersTracked'
  BY <1>5 DEF AbortFires, RejectWaiter
<1>6. ASSUME NEW r \in Requests, NEW k \in Keys, NEW p \in Predicates, Request(r, k, p)
      PROVE  WaitersTracked'
  BY <1>6 DEF Request
<1>7. ASSUME NEW k \in Keys \cup {NoKey}, NEW kind \in Kinds, ReadMessage(k, kind)
      PROVE  WaitersTracked'
  BY <1>7 DEF ReadMessage, Deliver
<1>8. CASE UNCHANGED vars
  BY <1>8 DEF vars
<1>. QED
  BY <1>1, <1>2, <1>3, <1>4, <1>5, <1>6, <1>7, <1>8 DEF Next

(* The life cycle of the transport: what closing sets, and that nothing    *)
(* undoes it.                                                              *)
Lifecycle ==
  /\ ClosedReleasesSocket
  /\ NotifiedOnce
  /\ ClosedHasReason
  /\ LoopNeedsConnection
  /\ WaitingMeansConnecting

(* Every step keeps the lifecycle.                                         *)
LEMMA NextLifecycle == Inv /\ [Next]_vars => Lifecycle'
<1>. SUFFICES ASSUME Inv, [Next]_vars PROVE Lifecycle'
  OBVIOUS
<1>. USE DEF Inv, TypeOK, Lifecycle, ClosedReleasesSocket, NotifiedOnce, ClosedHasReason,
             LoopNeedsConnection, WaitingMeansConnecting, NothingHangsAfterClose
<1>1. CASE Send \/ Data \/ ReceiveReturns
  BY <1>1 DEF Send, Data, ReceiveReturns, lifecycle
<1>2. CASE Dispose \/ SocketError \/ SocketClose \/ ReadMalformed
  BY <1>2 DEF Dispose, SocketError, SocketClose, ReadMalformed, Fail, FailBody, RejectPending, DestroySocket
<1>3. CASE SecureConnect
  BY <1>3 DEF SecureConnect
<1>4. ASSUME NEW w \in Waiters, Ready(w) \/ AbortFires(w) PROVE Lifecycle'
  BY <1>4 DEF Ready, ReadyAtOnce, ReadyTooLate, ReadyWaits, AbortFires, RejectWaiter, lifecycle
<1>5. ASSUME NEW r \in Requests, NEW k \in Keys, NEW p \in Predicates, Request(r, k, p)
      PROVE  Lifecycle'
  BY <1>5 DEF Request, lifecycle
<1>6. ASSUME NEW k \in Keys \cup {NoKey}, NEW kind \in Kinds, ReadMessage(k, kind)
      PROVE  Lifecycle'
  BY <1>6 DEF ReadMessage, Deliver, lifecycle
<1>7. CASE UNCHANGED vars
  BY <1>7 DEF vars
<1>. QED
  BY <1>1, <1>2, <1>3, <1>4, <1>5, <1>6, <1>7 DEF Next

(* Nothing that is outstanding appears on a closed transport.              *)
LEMMA NextNothingHangs == Inv /\ [Next]_vars => NothingHangsAfterClose'
<1>. SUFFICES ASSUME Inv, [Next]_vars PROVE NothingHangsAfterClose'
  OBVIOUS
<1>. USE NoRequestAssumption
     DEF Inv, TypeOK, NothingHangsAfterClose, ClosedReleasesSocket, ClosedHasReason
<1>1. CASE Send \/ Data \/ ReceiveReturns
  BY <1>1 DEF Send, Data, ReceiveReturns, lifecycle, promises
<1>2. CASE Dispose \/ SocketError \/ SocketClose \/ ReadMalformed
  BY <1>2 DEF Dispose, SocketError, SocketClose, ReadMalformed, Fail, FailBody, RejectPending, DestroySocket,
              PromisesTracked, RequestsTracked, WaitersTracked
<1>3. CASE SecureConnect
  BY <1>3 DEF SecureConnect
<1>4. ASSUME NEW w \in Waiters, Ready(w) PROVE NothingHangsAfterClose'
  BY <1>4 DEF Ready, ReadyAtOnce, ReadyTooLate, ReadyWaits, lifecycle
<1>5. ASSUME NEW w \in Waiters, AbortFires(w) PROVE NothingHangsAfterClose'
  BY <1>5 DEF AbortFires, RejectWaiter, lifecycle
<1>6. ASSUME NEW r \in Requests, NEW k \in Keys, NEW p \in Predicates, Request(r, k, p)
      PROVE  NothingHangsAfterClose'
  BY <1>6 DEF Request, RequestRefused, RequestWritten, RequestWriteThrows, AssertReady, lifecycle
<1>7. ASSUME NEW k \in Keys \cup {NoKey}, NEW kind \in Kinds, ReadMessage(k, kind)
      PROVE  NothingHangsAfterClose'
  BY <1>7 DEF ReadMessage, Deliver, lifecycle
<1>8. CASE UNCHANGED vars
  BY <1>8 DEF vars
<1>. QED
  BY <1>1, <1>2, <1>3, <1>4, <1>5, <1>6, <1>7, <1>8 DEF Next

(* The invariant is inductive, hence holds throughout every behaviour.     *)
THEOREM Invariance == Spec => []Inv
<1>1. Inv /\ [Next]_vars => Inv'
  BY NextTypeOK, NextRequestsTracked, NextWaitersTracked, NextLifecycle, NextNothingHangs
     DEF Inv, PromisesTracked, Lifecycle
<1>. QED
  BY InitInv, <1>1, PTL DEF Spec

(* Whatever the number of requests and waiters, no promise is lost and no  *)
(* entry of the tables outlives its promise (sip-transport.ts:44-45).      *)
THEOREM PromisesAlwaysTracked == Spec => []PromisesTracked
<1>1. Inv => PromisesTracked
  BY DEF Inv
<1>. QED
  BY Invariance, <1>1, PTL

(* The variables of a transport keep their types, for any set of requests  *)
(* and waiters.                                                            *)
THEOREM TypeCorrect == Spec => []TypeOK
<1>1. Inv => TypeOK
  BY DEF Inv
<1>. QED
  BY Invariance, <1>1, PTL

(* However the connection ends, it ends once and as a whole: nothing is    *)
(* outstanding, the socket is destroyed, a failure is notified once and a  *)
(* dispose() never (sip-transport.ts:240-269).                             *)
THEOREM EndsCompletely == Spec => []EndIsComplete
<1>1. Inv => EndIsComplete
  BY DEF Inv, EndIsComplete
<1>. QED
  BY Invariance, <1>1, PTL

(* A request is resolved only by a message with its own transaction key    *)
(* that its predicate accepts (sip-transport.ts:185-189).                  *)
THEOREM AnswersAlwaysMatch == Spec => []AnswerMatches
<1>1. Init => AnswerMatches
  BY DEF Init, AnswerMatches
<1>2. Inv /\ AnswerMatches /\ [Next]_vars => AnswerMatches'
  <2>. SUFFICES ASSUME Inv, AnswerMatches, [Next]_vars PROVE AnswerMatches'
    OBVIOUS
  <2>. USE DEF Inv, TypeOK, AnswerMatches
  <2>1. CASE Send \/ Data \/ ReceiveReturns \/ SecureConnect
    BY <2>1 DEF Send, Data, ReceiveReturns, SecureConnect, promises, calls
  <2>2. CASE Dispose \/ SocketError \/ SocketClose \/ ReadMalformed
    BY <2>2 DEF Dispose, SocketError, SocketClose, ReadMalformed, Fail, FailBody, RejectPending, DestroySocket, calls
  <2>3. ASSUME NEW w \in Waiters, Ready(w) \/ AbortFires(w) PROVE AnswerMatches'
    BY <2>3 DEF Ready, AbortFires, RejectWaiter, calls
  <2>4. ASSUME NEW r \in Requests, NEW k \in Keys, NEW p \in Predicates, Request(r, k, p)
        PROVE  AnswerMatches'
    BY <2>4 DEF Request, RequestRefused, RequestWritten, RequestWriteThrows
  <2>5. ASSUME NEW k \in Keys \cup {NoKey}, NEW kind \in Kinds, ReadMessage(k, kind)
        PROVE  AnswerMatches'
    <3>1. \A r \in Matches(k, kind) : key[r] = k /\ Accepts(predicate[r], kind)
      BY NoRequestAssumption DEF Matches, PromisesTracked, RequestsTracked
    <3>. QED
      BY <2>5, <3>1 DEF ReadMessage, Deliver, calls
  <2>6. CASE UNCHANGED vars
    BY <2>6 DEF vars
  <2>. QED
    BY <2>1, <2>2, <2>3, <2>4, <2>5, <2>6 DEF Next
<1>. QED
  BY <1>1, <1>2, Invariance, PTL DEF Spec

(* A closed transport is inert: no event, no write and no second error     *)
(* follows, whichever listener closed it and wherever in the loop.         *)
THEOREM ClosedStaysInert == Spec => ClosedIsFinal
<1>1. Inv /\ [Next]_vars => [closed => UNCHANGED <<lifecycle, emitted, written>>]_vars
  <2>. SUFFICES ASSUME Inv, [Next]_vars, closed
                PROVE  UNCHANGED <<lifecycle, emitted, written>>
    OBVIOUS
  <2>. USE DEF Inv, TypeOK, ClosedReleasesSocket, ClosedHasReason, NothingHangsAfterClose,
               lifecycle, AssertReady
  <2>1. CASE Data \/ ReceiveReturns \/ Send \/ SecureConnect
    BY <2>1 DEF Data, ReceiveReturns, Send, SecureConnect
  <2>2. CASE Dispose \/ SocketError \/ SocketClose \/ ReadMalformed
    BY <2>2 DEF Dispose, SocketError, SocketClose, ReadMalformed, Fail, FailBody, RejectPending, DestroySocket
  <2>3. ASSUME NEW w \in Waiters, Ready(w) \/ AbortFires(w)
        PROVE  UNCHANGED <<lifecycle, emitted, written>>
    BY <2>3 DEF Ready, AbortFires, RejectWaiter
  <2>4. ASSUME NEW r \in Requests, NEW k \in Keys, NEW p \in Predicates, Request(r, k, p)
        PROVE  UNCHANGED <<lifecycle, emitted, written>>
    BY <2>4 DEF Request, RequestRefused, RequestWritten, RequestWriteThrows
  <2>5. ASSUME NEW k \in Keys \cup {NoKey}, NEW kind \in Kinds, ReadMessage(k, kind)
        PROVE  UNCHANGED <<lifecycle, emitted, written>>
    BY <2>5 DEF ReadMessage, Deliver
  <2>6. CASE UNCHANGED vars
    BY <2>6 DEF vars
  <2>. QED
    BY <2>1, <2>2, <2>3, <2>4, <2>5, <2>6 DEF Next
<1>. QED
  BY <1>1, Invariance, PTL DEF Spec, ClosedIsFinal

-----------------------------------------------------------------------------
(* The refinement of TransportContract, its fairness apart. *)

ContractSafety == Contract!Init /\ [][Contract!Next]_(Contract!vars)

(* fail() is the contract's Close.                                         *)
LEMMA FailCloses ==
  ASSUME Inv, NEW error \in Errors, NEW notify \in BOOLEAN, Fail(error, notify)
  PROVE  Contract!Close
<1>. USE DEF Inv, TypeOK, Fail, FailBody, RejectPending
<1>1. ready' = Contract!Settle(ready, "rejected")
  BY DEF Contract!Settle, PromisesTracked, WaitersTracked
<1>2. request' = Contract!Settle(request, "rejected")
  BY NoRequestAssumption DEF Contract!Settle, PromisesTracked, RequestsTracked
<1>3. Status # "closed" /\ Status' = "closed"
  BY DEF Status
<1>. QED
  BY <1>1, <1>2, <1>3 DEF Contract!Close

(* Every step of the transport is a step of the contract or a stutter.     *)
LEMMA StepRefines == Inv /\ [Next]_vars => [Contract!Next]_(Contract!vars)
<1>. SUFFICES ASSUME Inv, [Next]_vars PROVE [Contract!Next]_(Contract!vars)
  OBVIOUS
<1>. USE DEF Inv, TypeOK
<1>1. CASE Send \/ Data \/ ReceiveReturns
  BY <1>1 DEF Send, Data, ReceiveReturns, lifecycle, promises, Status, Contract!vars
<1>2. CASE Dispose \/ SocketError \/ SocketClose \/ ReadMalformed
  BY <1>2, FailCloses DEF Dispose, SocketError, SocketClose, ReadMalformed, Errors, Contract!Next
<1>3. CASE SecureConnect
  <2>1. Status = "connecting" /\ Status' = "open"
    BY <1>3 DEF SecureConnect, Status, ClosedReleasesSocket
  <2>2. ready' = Contract!Settle(ready, "resolved")
    BY <1>3 DEF SecureConnect, Contract!Settle, PromisesTracked, WaitersTracked
  <2>. QED
    BY <1>3, <2>1, <2>2 DEF SecureConnect, Contract!Open, Contract!Next
<1>4. ASSUME NEW w \in Waiters, Ready(w) PROVE [Contract!Next]_(Contract!vars)
  <2>1. Status' = Status /\ request' = request
    BY <1>4 DEF Ready, lifecycle, Status
  <2>2. CASE ReadyAtOnce(w)
    BY <1>4, <2>1, <2>2
       DEF Ready, ReadyAtOnce, Status, NothingHangsAfterClose, Contract!AskReady, Contract!Next
  <2>3. CASE ReadyTooLate(w)
    BY <1>4, <2>1, <2>3
       DEF Ready, ReadyTooLate, Status, ClosedHasReason, Contract!AskReady, Contract!GiveUp,
           Contract!Next
  <2>4. CASE ReadyWaits(w)
    BY <1>4, <2>1, <2>4
       DEF Ready, ReadyWaits, Status, ClosedHasReason, Contract!AskReady, Contract!Next
  <2>. QED
    BY <1>4, <2>2, <2>3, <2>4 DEF Ready
<1>5. ASSUME NEW w \in Waiters, AbortFires(w) PROVE [Contract!Next]_(Contract!vars)
  <2>1. Status' = Status /\ request' = request
    BY <1>5 DEF AbortFires, RejectWaiter, lifecycle, Status
  <2>2. CASE w \in readyWaiters
    <3>1. ready[w] = "outstanding" /\ Status = "connecting"
      BY <2>2 DEF PromisesTracked, WaitersTracked, NothingHangsAfterClose, Status, WaitingMeansConnecting
    <3>. QED
      BY <1>5, <2>1, <2>2, <3>1 DEF AbortFires, RejectWaiter, Contract!GiveUp, Contract!Next
  <2>3. CASE w \notin readyWaiters
    BY <1>5, <2>1, <2>3 DEF AbortFires, RejectWaiter, Contract!vars
  <2>. QED
    BY <2>2, <2>3
<1>6. ASSUME NEW r \in Requests, NEW k \in Keys, NEW p \in Predicates, Request(r, k, p)
      PROVE  [Contract!Next]_(Contract!vars)
  <2>1. Status' = Status /\ ready' = ready
    BY <1>6 DEF Request, lifecycle, Status
  <2>. QED
    BY <1>6, <2>1
       DEF Request, RequestRefused, RequestWritten, RequestWriteThrows, AssertReady, Status,
           ClosedHasReason, Contract!Ask, Contract!Next
<1>7. ASSUME NEW k \in Keys \cup {NoKey}, NEW kind \in Kinds, ReadMessage(k, kind)
      PROVE  [Contract!Next]_(Contract!vars)
  <2>1. Status' = Status /\ ready' = ready /\ Status = "open"
    BY <1>7 DEF ReadMessage, Deliver, lifecycle, Status, LoopNeedsConnection
  <2>2. CASE Matches(k, kind) = {}
    BY <1>7, <2>1, <2>2 DEF ReadMessage, Deliver, Contract!vars
  <2>3. ASSUME NEW r \in Matches(k, kind) PROVE Contract!Answer(r)
    <3>1. Matches(k, kind) = {r} /\ request[r] = "outstanding"
      BY <2>3, NoRequestAssumption DEF Matches, PromisesTracked, RequestsTracked
    <3>. QED
      BY <1>7, <2>1, <3>1 DEF ReadMessage, Deliver, Contract!Answer
  <2>4. Matches(k, kind) \subseteq Requests
    BY DEF Matches
  <2>. QED
    BY <2>2, <2>3, <2>4 DEF Contract!Next
<1>8. CASE UNCHANGED vars
  BY <1>8 DEF vars, Status, Contract!vars
<1>. QED
  BY <1>1, <1>2, <1>3, <1>4, <1>5, <1>6, <1>7, <1>8 DEF Next

(* SipTransport implements TransportContract: whatever code is correct     *)
(* over the contract is correct over the transport.                        *)
THEOREM RefinesContract == Spec => ContractSafety
<1>1. Init => Contract!Init
  BY DEF Init, Status, Contract!Init
<1>. QED
  BY <1>1, StepRefines, Invariance, PTL DEF Spec, ContractSafety
=============================================================================
