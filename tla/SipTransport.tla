---------------------------- MODULE SipTransport ----------------------------
(***************************************************************************)
(* One SipTransport of src/src/sip-transport.ts: a TLS socket, the waiters *)
(* of ready(), and the table that correlates an inbound message with the   *)
(* request() it answers.                                                   *)
(*                                                                         *)
(* JavaScript runs one turn at a time.  A socket event is one turn; the    *)
(* only turn in which other code runs in the middle is a data event, whose *)
(* receive loop emits "message" for every framed message and so runs       *)
(* listeners that call send(), request(), ready() or dispose() before the  *)
(* loop looks at `closed` again.  Hence `receiving`: socket events happen  *)
(* only between turns, calls happen between turns or inside the loop.      *)
(***************************************************************************)
EXTENDS Naturals

CONSTANTS Waiters,      \* calls of ready(), one promise each
          Requests,     \* calls of request(), one promise each
          Keys,         \* transaction keys: a Call-ID with a CSeq number
          NoRequest,    \* a key that no request holds
          NoKey,        \* an inbound message without Call-ID or CSeq
          MaxMessages,  \* bound on framed inbound messages
          MaxWrites     \* bound on messages written to the socket

ASSUME NoRequestAssumption == NoRequest \notin Requests
ASSUME NoKeyAssumption == NoKey \notin Keys
ASSUME BoundsAssumption == MaxMessages \in Nat /\ MaxWrites \in Nat

VARIABLES connected, closed, terminalError,
          pending,        \* key -> the request that waits for it
          readyWaiters,
          socketLive,     \* the TLS socket has not been destroyed or closed
          receiving,      \* inside the loop of receive()
          aborted,        \* the AbortSignals that have fired
          ready, request, \* the promises handed out
          key, predicate, \* what each request waits for
          answer,         \* the message that resolved each request
          disconnects,    \* how often "disconnected" was emitted
          emitted,        \* how many "message" events were emitted
          written         \* how many messages were written to the socket

promises == <<ready, request>>
lifecycle == <<connected, closed, terminalError, socketLive, disconnects>>
calls == <<key, predicate>>
vars == <<connected, closed, terminalError, pending, readyWaiters, socketLive,
          receiving, aborted, ready, request, key, predicate, answer,
          disconnects, emitted, written>>

(* What a status code (or its absence, in a request) means to a predicate. *)
Kinds == {"trying", "provisional", "final", "request"}
Predicates == {"notTrying", "final"}

(* The default predicate of request() is `statusCode !== 100`, which an    *)
(* inbound request satisfies as well; a re-INVITE waits for >= 200.        *)
Accepts(p, kind) == IF p = "notTrying" THEN kind # "trying" ELSE kind = "final"

NoAnswer == [key |-> NoKey, kind |-> "trying"]
Answers == [key : Keys \cup {NoKey}, kind : Kinds]

Init ==
  /\ connected = FALSE
  /\ closed = FALSE
  /\ terminalError = "none"
  /\ pending = [k \in Keys |-> NoRequest]
  /\ readyWaiters = {}
  /\ socketLive = TRUE
  /\ receiving = FALSE
  /\ aborted = {}
  /\ ready = [w \in Waiters |-> "unused"]
  /\ request = [r \in Requests |-> "unused"]
  /\ key = [r \in Requests |-> NoKey]
  /\ predicate = [r \in Requests |-> "notTrying"]
  /\ answer = [r \in Requests |-> NoAnswer]
  /\ disconnects = 0
  /\ emitted = 0
  /\ written = 0

-----------------------------------------------------------------------------
(* ready() *)

ReadyAtOnce(w) ==
  /\ connected
  /\ ready' = [ready EXCEPT ![w] = "resolved"]
  /\ UNCHANGED readyWaiters

ReadyTooLate(w) ==
  /\ ~connected
  /\ terminalError # "none" \/ w \in aborted
  /\ ready' = [ready EXCEPT ![w] = "rejected"]
  /\ UNCHANGED readyWaiters

ReadyWaits(w) ==
  /\ ~connected
  /\ terminalError = "none"
  /\ w \notin aborted
  /\ ready' = [ready EXCEPT ![w] = "outstanding"]
  /\ readyWaiters' = readyWaiters \cup {w}

Ready(w) ==
  /\ ready[w] = "unused"
  /\ ReadyAtOnce(w) \/ ReadyTooLate(w) \/ ReadyWaits(w)
  /\ UNCHANGED <<lifecycle, pending, receiving, aborted, request, calls,
                 answer, emitted, written>>

RejectWaiter(w) ==
  /\ readyWaiters' = readyWaiters \ {w}
  /\ ready' = [ready EXCEPT ![w] = IF w \in readyWaiters THEN "rejected" ELSE @]

(* The signal fires.  Only a waiter still in the set listens to it.        *)
AbortFires(w) ==
  /\ ~receiving
  /\ w \notin aborted
  /\ aborted' = aborted \cup {w}
  /\ RejectWaiter(w)
  /\ UNCHANGED <<lifecycle, pending, receiving, request, calls, answer,
                 emitted, written>>

-----------------------------------------------------------------------------
(* send() and request() *)

AssertNotFailed == terminalError = "none"  \* mutation
AssertReady == terminalError = "none" /\ connected

Send ==
  /\ AssertReady
  /\ written < MaxWrites
  /\ written' = written + 1
  /\ UNCHANGED <<lifecycle, pending, readyWaiters, receiving, aborted,
                 promises, calls, answer, emitted>>

(* Not ready, or the key is taken: the async function throws.              *)
RequestRefused(r, k) ==
  /\ ~AssertReady \/ pending[k] # NoRequest
  /\ request' = [request EXCEPT ![r] = "rejected"]
  /\ UNCHANGED <<pending, written>>

RequestOverwrites(r, k) ==  \* mutation
  /\ AssertReady
  /\ written < MaxWrites
  /\ request' = [request EXCEPT ![r] = "outstanding"]
  /\ pending' = [pending EXCEPT ![k] = r]
  /\ written' = written + 1

RequestWritten(r, k) ==
  /\ AssertReady
  /\ pending[k] = NoRequest
  /\ written < MaxWrites
  /\ request' = [request EXCEPT ![r] = "outstanding"]
  /\ pending' = [pending EXCEPT ![k] = r]
  /\ written' = written + 1

(* write() throws (a listener of "outboundMessage" may): the entry goes.   *)
RequestWriteThrows(r, k) ==
  /\ AssertReady
  /\ pending[k] = NoRequest
  /\ request' = [request EXCEPT ![r] = "rejected"]
  /\ UNCHANGED <<pending, written>>

Request(r, k, p) ==
  /\ request[r] = "unused"
  /\ key' = [key EXCEPT ![r] = k]
  /\ predicate' = [predicate EXCEPT ![r] = p]
  /\ RequestRefused(r, k) \/ RequestWritten(r, k) \/ RequestWriteThrows(r, k)
  /\ UNCHANGED <<lifecycle, readyWaiters, receiving, aborted, ready, answer,
                 emitted>>

-----------------------------------------------------------------------------
(* fail(): the one way a transport ends. *)

ForgetPending == request' = request /\ pending' = [k \in Keys |-> NoRequest]  \* mutation
RejectPending ==
  /\ request' = [r \in Requests |-> IF \E k \in Keys : pending[k] = r
                                      THEN "rejected" ELSE request[r]]
  /\ pending' = [k \in Keys |-> NoRequest]

FailBody(error, notify) ==
  /\ closed' = TRUE
  /\ connected' = FALSE
  /\ terminalError' = error
  /\ ready' = [w \in Waiters |-> IF w \in readyWaiters THEN "rejected" ELSE ready[w]]
  /\ readyWaiters' = {}
  /\ RejectPending
  /\ disconnects' = IF notify THEN disconnects + 1 ELSE disconnects
  /\ UNCHANGED <<aborted, calls, answer, emitted, written>>

(* Every fail() after the first one returns at once.                       *)
Fail(error, notify) == ~closed /\ FailBody(error, notify)

(* The socket is destroyed unless its own "close" is what brought us here. *)
DestroySocket == socketLive' = FALSE

Dispose ==
  /\ Fail("disposed", FALSE)
  /\ DestroySocket
  /\ UNCHANGED receiving

SocketError ==
  /\ ~receiving
  /\ socketLive
  /\ Fail("socket", TRUE)
  /\ DestroySocket
  /\ UNCHANGED receiving

SocketClose ==
  /\ ~receiving
  /\ socketLive
  /\ socketLive' = FALSE
  /\ Fail("closed", TRUE)
  /\ UNCHANGED receiving

SecureConnect ==
  /\ ~receiving
  /\ socketLive
  /\ ~connected
  /\ connected' = TRUE
  /\ ready' = [w \in Waiters |-> IF w \in readyWaiters THEN "resolved" ELSE ready[w]]
  /\ readyWaiters' = {}
  /\ UNCHANGED <<closed, terminalError, pending, socketLive, receiving, aborted,
                 request, calls, answer, disconnects, emitted, written>>

-----------------------------------------------------------------------------
(* receive() *)

Data ==
  /\ ~receiving
  /\ socketLive
  /\ connected
  /\ receiving' = TRUE
  /\ UNCHANGED <<lifecycle, pending, readyWaiters, aborted, promises, calls,
                 answer, emitted, written>>

MatchesKey(k, kind) == {r \in Requests : k \in Keys /\ pending[k] = r}  \* mutation
Matches(k, kind) ==
  {r \in Requests : k \in Keys /\ pending[k] = r /\ Accepts(predicate[r], kind)}

DeliverLeavesKey(k, kind) ==  \* mutation
  /\ request' = [r \in Requests |-> IF r \in Matches(k, kind) THEN "resolved" ELSE request[r]]
  /\ pending' = [j \in Keys |-> IF pending[j] \in Matches(k, kind) THEN NoKey ELSE pending[j]]
  /\ answer' = answer

(* Settle the request that the message answers.                            *)
Deliver(k, kind) ==
  /\ request' = [r \in Requests |-> IF r \in Matches(k, kind) THEN "resolved" ELSE request[r]]
  /\ answer' = [r \in Requests |-> IF r \in Matches(k, kind)
                                     THEN [key |-> k, kind |-> kind] ELSE answer[r]]
  /\ pending' = [j \in Keys |-> IF pending[j] \in Matches(k, kind) THEN NoRequest ELSE pending[j]]

(* readMessage() returns a message: settle what it answers, then emit it.  *)
ReadMessage(k, kind) ==
  /\ receiving
  /\ ~closed
  /\ emitted < MaxMessages
  /\ emitted' = emitted + 1
  /\ Deliver(k, kind)
  /\ UNCHANGED <<lifecycle, readyWaiters, receiving, aborted, ready, calls,
                 written>>

(* readMessage() throws on a bad Content-Length or an unparsable message.  *)
ReadMalformed ==
  /\ receiving
  /\ Fail("framing", TRUE)
  /\ DestroySocket
  /\ receiving' = FALSE

(* No complete message is left, or a listener closed the transport.        *)
ReceiveReturns ==
  /\ receiving
  /\ receiving' = FALSE
  /\ UNCHANGED <<lifecycle, pending, readyWaiters, aborted, promises, calls,
                 answer, emitted, written>>

-----------------------------------------------------------------------------
Next ==
  \/ Send
  \/ Dispose
  \/ SocketError
  \/ SocketClose
  \/ SecureConnect
  \/ Data
  \/ ReadMalformed
  \/ ReceiveReturns
  \/ \E w \in Waiters : Ready(w) \/ AbortFires(w)
  \/ \E r \in Requests, k \in Keys, p \in Predicates : Request(r, k, p)
  \/ \E k \in Keys \cup {NoKey}, kind \in Kinds : ReadMessage(k, kind)

(* A turn ends and an AbortSignal.timeout fires; nothing else is promised: *)
(* neither that the server answers nor that the socket ever connects.      *)
Fairness ==
  /\ WF_vars(ReceiveReturns)
  /\ \A w \in Waiters : WF_vars(AbortFires(w))

Spec == Init /\ [][Next]_vars /\ Fairness

-----------------------------------------------------------------------------
(* Properties *)

PromiseStates == {"unused", "outstanding", "resolved", "rejected"}
Errors == {"none", "framing", "socket", "closed", "disposed"}

(* The type invariant of the transport's fields (sip-transport.ts:39-45)   *)
(* and of the promises it hands out.                                       *)
TypeOK ==
  /\ connected \in BOOLEAN
  /\ closed \in BOOLEAN
  /\ terminalError \in Errors
  /\ pending \in [Keys -> Requests \cup {NoRequest}]
  /\ readyWaiters \in SUBSET Waiters
  /\ socketLive \in BOOLEAN
  /\ receiving \in BOOLEAN
  /\ aborted \in SUBSET Waiters
  /\ ready \in [Waiters -> PromiseStates]
  /\ request \in [Requests -> PromiseStates]
  /\ key \in [Requests -> Keys \cup {NoKey}]
  /\ predicate \in [Requests -> Predicates]
  /\ answer \in [Requests -> Answers]
  /\ disconnects \in Nat
  /\ emitted \in 0 .. MaxMessages
  /\ written \in 0 .. MaxWrites

(* A promise of request() is outstanding exactly while the correlation     *)
(* table holds it under its own key, and a promise of ready() exactly      *)
(* while the set of waiters holds it: whatever calls, answers, aborts and  *)
(* failures interleave, no promise is lost and no entry outlives its       *)
(* promise.                                                                *)
RequestsTracked ==
  /\ \A r \in Requests :
       request[r] = "outstanding" => key[r] \in Keys /\ pending[key[r]] = r
  /\ \A k \in Keys : pending[k] # NoRequest =>
       request[pending[k]] = "outstanding" /\ key[pending[k]] = k
WaitersTracked ==
  \A w \in Waiters : ready[w] = "outstanding" <=> w \in readyWaiters
PromisesTracked == RequestsTracked /\ WaitersTracked

(* A closed transport leaves nothing behind: no promise still outstanding, *)
(* no connection flag, no live socket, and a stated reason (fail, 240-266).*)
NothingHangsAfterClose ==
  closed =>
    /\ ~connected
    /\ terminalError # "none"
    /\ \A r \in Requests : request[r] # "outstanding"
    /\ \A w \in Waiters : ready[w] # "outstanding"
ClosedReleasesSocket == closed <=> ~socketLive

(* "disconnected" is reported once for a failure, however many socket      *)
(* events and framing errors report it, and never for a dispose().         *)
NotifiedOnce ==
  disconnects = IF terminalError \in {"none", "disposed"} THEN 0 ELSE 1

(* Whichever ways a connection ends in, and whoever interleaves, it ends   *)
(* once and as a whole: promises, socket and notification                  *)
(* (sip-transport.ts:240-269).                                             *)
EndIsComplete == NothingHangsAfterClose /\ ClosedReleasesSocket /\ NotifiedOnce

(* A request is resolved only by a message with its own transaction key    *)
(* that its predicate accepts; "100 Trying" never resolves one.            *)
AnswerMatches ==
  \A r \in Requests : request[r] = "resolved" =>
    answer[r].key = key[r] /\ Accepts(predicate[r], answer[r].kind)

(* Once closed, a transport is inert: a listener that disposes it in the   *)
(* middle of the receive loop sees no further message of the same chunk,   *)
(* nothing more is written, and the first error stays the reported one.    *)
ClosedIsFinal ==
  [][closed => UNCHANGED <<lifecycle, emitted, written>>]_vars

(* The transport implements the contract the rest of the SDK relies on;    *)
(* with it, every wait for the connection ends, although the socket may    *)
(* never connect and never fail (sip-transport.ts:95-112, 240-269).        *)
Status == IF closed THEN "closed" ELSE IF connected THEN "open" ELSE "connecting"
Contract == INSTANCE TransportContract WITH status <- Status
ImplementsContract == Contract!Spec
=============================================================================
