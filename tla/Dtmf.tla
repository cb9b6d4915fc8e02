-------------------------------- MODULE Dtmf --------------------------------
(***************************************************************************)
(* The payloads of src/src/dtmf.ts, and what start() of src/src/call-      *)
(* session/media.ts makes of each packet it has decrypted.  A character is *)
(* its index in phoneChars, a payload its octets.                          *)
(***************************************************************************)
EXTENDS Integers, Sequences

PhoneChars == 0 .. 11
Octet == 0 .. 255
DtmfType == 101
Codecs == {0, 109, 111}

(* Volume with the end bit, and duration, of the packets of one tone.      *)
Payloads ==
  << <<6, 0, 0>>, <<6, 0, 160>>, <<6, 1, 64>>, <<134, 3, 32>>, <<134, 3, 32>>, <<134, 3, 32>> >>

CharToPayloads(char) ==
  [i \in 1 .. Len(Payloads) |-> <<char, Payloads[i][1], Payloads[i][2], Payloads[i][3]>>]

BigEndian(a, b, c, d) == ((a * 256 + b) * 256 + c) * 256 + d

(* Of the first four octets, with a sign; throws when there are fewer.     *)
ReadIntBE(payload) ==
  BigEndian(IF payload[1] < 128 THEN payload[1] ELSE payload[1] - 256,
            payload[2], payload[3], payload[4])

(* A quotient that is no index of phoneChars gives no character.           *)
PayloadToChar(payload) ==
  {char \in PhoneChars :
     ReadIntBE(payload) - BigEndian(0, 6, 0, 0) = BigEndian(char, 0, 0, 0)}

IsAudioDtmfPayload(payload) ==
  /\ Len(payload) = 4 /\ payload[1] \in PhoneChars
  /\ payload[2] = 138 /\ payload[3] = 3 /\ payload[4] = 192

(* The events of one packet, whose payload may be no audio of the codec.   *)
Events(type, payload, codec, decodes) ==
  CASE type = DtmfType /\ PayloadToChar(payload) # {} -> <<"rtpPacket", "dtmfPacket", "dtmf">>
    [] type = DtmfType /\ PayloadToChar(payload) = {} -> <<"rtpPacket", "dtmfPacket">>
    [] type = codec /\ type # DtmfType /\ ~IsAudioDtmfPayload(payload) /\ decodes ->
         <<"rtpPacket", "audioPacket", "audio">>
    [] OTHER -> <<"rtpPacket">>

-----------------------------------------------------------------------------
(* Properties *)

(* Of the six packets of a tone the first one is reported, as the character*)
(* that was sent, and no other: however they are reordered and whichever   *)
(* of the others are lost, it is reported once (dtmf.ts:17-36).            *)
ToneIsHeardOnce ==
  \A char \in PhoneChars : \A i \in 1 .. Len(Payloads) :
    PayloadToChar(CharToPayloads(char)[i]) = IF i = 1 THEN {char} ELSE {}

(* A character is reported for the start of its tone at the SDK's own      *)
(* volume and for nothing else: neither the sign nor the division lets     *)
(* another payload pass for it (dtmf.ts:32-36).                            *)
OnlyStartsAreHeard(payloads) ==
  \A payload \in payloads : \A char \in PhoneChars :
    char \in PayloadToChar(payload) <=>
      payload[1] = char /\ payload[2] = 6 /\ payload[3] = 0 /\ payload[4] = 0

(* A tone within the audio is known as a raw packet only, neither decoded  *)
(* nor reported, whatever its type; and no tone of the SDK is taken for one*)
(* (media.ts:14-17, 105-124).                                              *)
AudioTonesAreSilent(payloads) ==
  /\ \A payload \in payloads, codec \in Codecs, decodes \in BOOLEAN :
       IsAudioDtmfPayload(payload) =>
         /\ Events(codec, payload, codec, decodes) = <<"rtpPacket">>
         /\ Events(DtmfType, payload, codec, decodes) = <<"rtpPacket", "dtmfPacket">>
  /\ \A char \in PhoneChars : \A i \in 1 .. Len(Payloads) :
       ~IsAudioDtmfPayload(CharToPayloads(char)[i])
=============================================================================
