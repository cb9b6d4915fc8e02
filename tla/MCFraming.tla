----------------------------- MODULE MCFraming -----------------------------
(* The smallest messages that differ in what frames them: as the SDK       *)
(* writes them, with no body and one of two lines; with a body that looks  *)
(* like a keep-alive; with one that holds a separator; with two Content-   *)
(* Length lines that agree.  And one malformed head of each kind.          *)
EXTENDS Framing, TLC

CONSTANTS start, zero, two, five, six, none

SmallLengthLines == {zero, two, five, six, none}
SmallOctets == SmallLengthLines \cup {start, CR, LF}
SmallValue == zero :> 0 @@ two :> 2 @@ five :> 5 @@ six :> 6 @@ none :> NotANumber

Bodies == { <<>>, << <<start>>, <<>>, <<start>> >> }
HeadOf(lines) == <<start, CR, LF>> \o lines \o Separator
SmallMessages ==
  {OutboundMessage(start, lines) : lines \in Bodies} \cup
  { HeadOf(<<two>>) \o KeepAlive,
    HeadOf(<<five>>) \o Separator \o <<start>>,
    HeadOf(<<two, CR, LF, two>>) \o <<start, start>> }
SmallMalformed == { <<start>> \o Separator, HeadOf(<<none>>), HeadOf(<<zero, CR, LF, two>>) }

(* What the SDK writes, it reads.                                          *)
ASSUME RoundTrip ==
  \A lines \in Bodies : InboundBody(OutboundMessage(start, lines)) = OutboundBody(lines)
=============================================================================
