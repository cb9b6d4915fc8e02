----------------------------- MODULE SipMessage -----------------------------
(***************************************************************************)
(* What src/src/sip-message.ts and readMessage() of src/src/sip-transport. *)
(* ts take a SIP message for: a head of lines, a separator and a body.  An *)
(* octet stands for a start line or a header line; line ends are two.      *)
(***************************************************************************)
EXTENDS Naturals, Sequences

CONSTANTS
  Octets, CR, LF,
  LengthLines,  \* the Content-Length header lines among the octets
  Value,        \* by Content-Length line: its value (without leading zeros, which
                \* the code tells apart), or NotANumber
  NotANumber

ASSUME OctetsAssumption == CR \in Octets /\ LF \in Octets /\ LengthLines \subseteq Octets
ASSUME ValueAssumption == NotANumber \notin Nat /\ Value \in [LengthLines -> Nat \cup {NotANumber}]

KeepAlive == <<CR, LF>>
Separator == <<CR, LF, CR, LF>>

LineEndAt(octets, i) == i + 1 <= Len(octets) /\ octets[i] = CR /\ octets[i + 1] = LF
SeparatorAt(octets, i) == LineEndAt(octets, i) /\ LineEndAt(octets, i + 2)

(* The head ends at the first separator.                                   *)
HeaderEnd(octets, i) == SeparatorAt(octets, i) /\ \A j \in 1 .. i - 1 : ~SeparatorAt(octets, j)

(* The values of the Content-Length lines between the start line and the   *)
(* separator.                                                              *)
Lengths(octets, end) ==
  {Value[octets[i]] : i \in {j \in 2 .. end - 1 : octets[j] \in LengthLines}}

SaysLength(octets, end) ==
  \E n \in Lengths(octets, end) : Lengths(octets, end) = {n} /\ n # NotANumber
ContentLength(octets, end) == CHOOSE n \in Lengths(octets, end) : TRUE

-----------------------------------------------------------------------------
(* OutboundMessage: of a body trim() and replace() leave the lines that    *)
(* are not empty, each with a line end.                                    *)
OutboundBody(lines) ==
  LET Body[i \in 0 .. Len(lines)] ==
        IF i = 0 THEN <<>>
        ELSE Body[i - 1] \o IF lines[i] = <<>> THEN <<>> ELSE lines[i] \o <<CR, LF>>
  IN  Body[Len(lines)]

(* Content-Length counts UTF-16 units: octets, as long as the body is the  *)
(* ASCII of an SDP.                                                        *)
OutboundMessage(startLine, lines) ==
  LET body == OutboundBody(lines)
      line == CHOOSE l \in LengthLines : Value[l] = Len(body)
  IN  <<startLine, CR, LF, line>> \o Separator \o body

(* fromString(): the body is all that follows the first separator.         *)
InboundBody(octets) ==
  LET end == CHOOSE i \in 1 .. Len(octets) : HeaderEnd(octets, i)
  IN  SubSeq(octets, end + 4, Len(octets))
=============================================================================
