---------------------------- MODULE CallContract ----------------------------
(***************************************************************************)
(* What call() of src/src/index.ts promises the application: the promise   *)
(* settles once, and the session it returns is answered at most once, or   *)
(* refused, before it ends, once.                                          *)
(***************************************************************************)
EXTENDS Sequences

VARIABLES
  call,   \* "none", "dialing", "failed" (call() threw), "ringing", "answered" or "over"
  heard   \* the events of the session, in their order

vars == <<call, heard>>

Init == call = "none" /\ heard = <<>>

Dial == call = "none" /\ call' = "dialing" /\ UNCHANGED heard

Fail == call = "dialing" /\ call' = "failed" /\ UNCHANGED heard

Ring == call = "dialing" /\ call' = "ringing" /\ UNCHANGED heard

Answer ==
  /\ call = "ringing"
  /\ call' = "answered"
  /\ heard' = Append(heard, "answered")

(* A listener of "answered" hangs up. *)
AnswerAndEnd ==
  /\ call = "ringing"
  /\ call' = "over"
  /\ heard' = heard \o <<"answered", "disposed">>

Refuse ==
  /\ call = "ringing"
  /\ call' = "over"
  /\ heard' = heard \o <<"non2xxResponse", "disposed">>

End ==
  /\ call \in {"ringing", "answered"}
  /\ call' = "over"
  /\ heard' = Append(heard, "disposed")

Next == Dial \/ Fail \/ Ring \/ Answer \/ AnswerAndEnd \/ Refuse \/ End

Spec == Init /\ [][Next]_vars
=============================================================================
