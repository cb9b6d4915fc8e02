---------------------------- MODULE OutboundCall ----------------------------
(***************************************************************************)
(* One outbound call of src/src/call-session/outbound.ts, from call() to   *)
(* the end of its session: the UDP socket is bound, INVITE is challenged   *)
(* and sent again, 183 makes the session, a final response settles it.     *)
(***************************************************************************)
EXTENDS CallSession

VARIABLES
  fiber,       \* where call() is: "idle", "binding" (the socket), "inviting",
               \* "authorizing" (with credentials), "returned" or "rejected"
  got,         \* the response for which its continuation is due, or "lost"
  waitingForAnswer,
  progress,    \* the response with the session's SDP: "183", or one with "port 0"
  final        \* a final response has been read since the 183; history

establishment == <<fiber, got, waitingForAnswer, progress, final>>
vars == <<sessionVars, establishment>>

Init ==
  /\ SessionInit
  /\ fiber = "idle"
  /\ got = "nothing"
  /\ waitingForAnswer = TRUE
  /\ progress = "183"
  /\ final = FALSE

(* A turn begins when the continuation of call() has run, too.             *)
Turn == receiving \/ got = "nothing"

-----------------------------------------------------------------------------
(* call() *)

Dial ==
  /\ Running
  /\ fiber = "idle"
  /\ fiber' = "binding"
  /\ UNCHANGED <<sessionVars, got, waitingForAnswer, progress, final>>

KeepSocket == UNCHANGED socket  \* mutation
CloseSocket == socket' = IF socket = "bound" THEN "closed" ELSE socket

Throw ==
  /\ fiber' = "rejected"
  /\ got' = "nothing"
  /\ CloseSocket
  /\ UNCHANGED <<turn, state, outage, pendingTransfer, transfers, events, dialog,
                 waitingForAnswer, progress, final>>

BindFails == Quiet /\ fiber = "binding" /\ Throw

(* INVITE is written, or request() throws. *)
BindCompletes ==
  /\ Quiet
  /\ fiber = "binding"
  /\ IF link = "up"
       THEN fiber' = "inviting" /\ socket' = "bound"
       ELSE fiber' = "rejected" /\ socket' = "closed"
  /\ UNCHANGED <<turn, state, outage, pendingTransfer, transfers, events, dialog, got,
                 waitingForAnswer, progress, final>>

(* request() takes the first response that is not 100 Trying. *)
ReceiveResponse(response) ==
  /\ Receiving
  /\ Turn
  /\ fiber \in {"inviting", "authorizing"}
  /\ got = "nothing"
  /\ got' = response
  /\ UNCHANGED <<link, crashed, life, dialog, fiber, waitingForAnswer, progress, final>>

Authorize ==
  /\ Resuming
  /\ fiber = "inviting"
  /\ got = "407"
  /\ link = "up"
  /\ fiber' = "authorizing"
  /\ got' = "nothing"
  /\ UNCHANGED <<sessionVars, waitingForAnswer, progress, final>>

IsResponse(response) == response # "lost"  \* mutation
IsProgress(response) == response \in {"183", "183 port 0"}

(* requireProgressMessage() looks at the form of the SDP; the session that *)
(* is made here listens to the messages of the softphone from now on.      *)
MakeSession ==
  /\ Resuming
  /\ fiber = "authorizing"
  /\ IsProgress(got)
  /\ fiber' = "returned"
  /\ got' = "nothing"
  /\ progress' = got
  /\ state' = "ringing"
  /\ UNCHANGED <<turn, socket, outage, pendingTransfer, transfers, events, dialog,
                 waitingForAnswer, final>>

CallThrows ==
  /\ Resuming
  /\ got # "nothing"
  /\ ~(fiber = "inviting" /\ got = "407" /\ link = "up")
  /\ ~(fiber = "authorizing" /\ IsProgress(got))
  /\ Throw

-----------------------------------------------------------------------------
(* The final response *)

(* Read in the chunk of the 183, before the session listens. *)
MissFinal ==
  /\ Receiving
  /\ fiber = "authorizing"
  /\ IsProgress(got)
  /\ final' = TRUE
  /\ UNCHANGED <<link, crashed, life, dialog, fiber, got, waitingForAnswer, progress>>

EveryFinal == state # "none"  \* mutation
FirstFinal == state = "ringing" /\ waitingForAnswer
ReceiveFinal ==
  /\ Receiving
  /\ FirstFinal
  /\ final' = TRUE
  /\ waitingForAnswer' = FALSE
  /\ UNCHANGED <<dialog, fiber, got, progress>>

Refused ==
  /\ ReceiveFinal
  /\ Dispose(<<"non2xxResponse">>)
  /\ UNCHANGED <<link, crashed>>

(* requireProgressMessage() lets the SDP of a 183 with port 0 pass, and     *)
(* parseSdp() does not: start() closes the socket and throws.              *)
MediaFails ==
  /\ ReceiveFinal
  /\ progress = "183 port 0"
  /\ socket' = "closed"
  /\ crashed' = TRUE
  /\ UNCHANGED <<link, state, outage, pendingTransfer, transfers, events>>

(* Media runs, the session joins callSessions, "answered" is emitted, and  *)
(* ACK is written: to a connection that has failed, it throws.             *)
Answered ==
  /\ ReceiveFinal
  /\ progress = "183"
  /\ state' = "active"
  /\ events' = Append(events, "answered")
  /\ crashed' = (link # "up")
  /\ UNCHANGED <<link, socket, outage, pendingTransfer, transfers>>

(* A listener of "answered" hangs up, and ACK follows BYE.  A listener of  *)
(* "disposed" may revoke() the softphone, as the README has it; then ACK   *)
(* throws.                                                                 *)
AnsweredAndHungUp(revokes) ==
  /\ ReceiveFinal
  /\ progress = "183"
  /\ link = "up"
  /\ Dispose(<<"answered">>)
  /\ link' = IF revokes THEN "closed" ELSE link
  /\ crashed' = revokes

-----------------------------------------------------------------------------
(* The connection, as call() sees it *)

RejectRequest ==
  got' = IF fiber \in {"inviting", "authorizing"} /\ got = "nothing" THEN "lost" ELSE got

Lose ==
  /\ Turn
  /\ LoseLink
  /\ RejectRequest
  /\ UNCHANGED <<fiber, waitingForAnswer, progress, final>>

RevokeSoftphone ==
  /\ Revoke
  /\ RejectRequest
  /\ UNCHANGED <<fiber, waitingForAnswer, progress, final>>

-----------------------------------------------------------------------------
Next ==
  \/ Dial
  \/ BindFails
  \/ BindCompletes
  \/ \E response \in {"407", "183", "183 port 0", "other"} : ReceiveResponse(response)
  \/ Authorize
  \/ MakeSession
  \/ CallThrows
  \/ MissFinal
  \/ Refused
  \/ MediaFails
  \/ Answered
  \/ \E revokes \in BOOLEAN : AnsweredAndHungUp(revokes)
  \/ Lose
  \/ RevokeSoftphone
  \/ SessionNext /\ Turn /\ UNCHANGED establishment

(* What is due is done before the next turn, and the receive loop ends. *)
MicrotasksRun ==
  /\ WF_vars(Authorize \/ MakeSession \/ CallThrows)
  /\ WF_vars((TakeUp \/ Adopt \/ EndLoop) /\ UNCHANGED establishment)
  /\ \A o \in ReInvites : WF_vars(TakeUpLoss(o) /\ UNCHANGED establishment)

Spec == Init /\ [][Next]_vars /\ MicrotasksRun

-----------------------------------------------------------------------------
(* Properties *)

TypeOK ==
  /\ SessionTypeOK
  /\ fiber \in {"idle", "binding", "inviting", "authorizing", "returned", "rejected"}
  /\ got \in {"nothing", "407", "183", "183 port 0", "other", "lost"}
  /\ waitingForAnswer \in BOOLEAN
  /\ progress \in {"183", "183 port 0"}
  /\ final \in BOOLEAN

(* The UDP socket of a call is open while call() negotiates and while its  *)
(* session lives, and is closed however either ends                        *)
(* (call-session/outbound.ts:43-86, index.ts:101-114).                     *)
SocketFollowsCall ==
  ~crashed => (socket = "bound" <=> fiber \in {"inviting", "authorizing"} \/ Alive)

CallView ==
  IF state # "none"
    THEN IF state = "disposed" THEN "over" ELSE IF state = "active" THEN "answered" ELSE state
    ELSE IF fiber = "idle" THEN "none" ELSE IF fiber = "rejected" THEN "failed" ELSE "dialing"

(* However it comes about, a call keeps the contract of CallContract.      *)
Contract == INSTANCE CallContract WITH call <- CallView, heard <- events
ImplementsContract == Contract!Spec

(* The call and its connection behave as in Connection, which Softphone    *)
(* implements: what is taken for granted here about losses, replacements   *)
(* and their effect on the call is what the softphone provides             *)
(* (index.ts:157-240; call-session/index.ts:200-241).                      *)
Me == "this call"
Only(condition) == IF condition THEN {Me} ELSE {}
CallsConnection == INSTANCE Connection
  WITH Calls <- {Me}, served <- Only(state = "active"), deadlines <- Only(outage),
       reconciling <- Only(state = "active" /\ stage[Reconciliation] # "idle")
ImplementsConnection == CallsConnection!Spec

(* A call() that negotiates on a connection that is lost settles           *)
(* (call-session/outbound.ts:65-85).                                       *)
LossEndsCall ==
  fiber \in {"inviting", "authorizing"} /\ link \in {"down", "closed"}
    ~> fiber \in {"returned", "rejected"} \/ crashed

(* Whatever waits for a response when its connection is lost gives up: the *)
(* call() that negotiates and every re-INVITE (sip-transport.ts:250-260).  *)
LossEndsWaits == LossEndsCall /\ LossEndsReInvites

(* "for every final non-2xx INVITE response" (docs/adr/0001): a session    *)
(* still ringing has read no final response (outbound.ts:129-163).         *)
FinalIsReported == state = "ringing" /\ link = "up" /\ ~crashed => ~final

(* hangup() from a listener of "answered" and revoke() from one of         *)
(* "disposed" leave the program running (README.md:211, 224).              *)
HangupIsSafe == state = "disposed" => ~crashed
=============================================================================
