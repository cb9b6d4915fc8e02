----------------------------- MODULE DtmfProofs -----------------------------
(* The properties of Dtmf, for every payload that has the four octets.     *)
EXTENDS Dtmf, TLAPS

Complete == {payload \in Seq(Octet) : Len(payload) >= 4}

(* The payload of a tone as its four octets.                               *)
LEMMA TonePayload ==
  ASSUME NEW char \in PhoneChars, NEW i \in 1 .. Len(Payloads)
  PROVE  /\ Len(Payloads) = 6
         /\ Payloads[i][1] = (IF i < 4 THEN 6 ELSE 134)
         /\ (i = 1) <=> (Payloads[i][1] = 6 /\ Payloads[i][2] = 0 /\ Payloads[i][3] = 0)
         /\ \A k \in 1 .. 3 : Payloads[i][k] \in Octet
         /\ Len(CharToPayloads(char)[i]) = 4
         /\ CharToPayloads(char)[i][1] = char
         /\ CharToPayloads(char)[i][2] = Payloads[i][1]
         /\ CharToPayloads(char)[i][3] = Payloads[i][2]
         /\ CharToPayloads(char)[i][4] = Payloads[i][3]
<1>1. Len(Payloads) = 6 /\ i \in 1 .. 6
  BY DEF Payloads
<1>2. /\ Payloads[1] = <<6, 0, 0>> /\ Payloads[2] = <<6, 0, 160>> /\ Payloads[3] = <<6, 1, 64>>
      /\ Payloads[4] = <<134, 3, 32>> /\ Payloads[5] = <<134, 3, 32>>
      /\ Payloads[6] = <<134, 3, 32>>
  BY DEF Payloads
<1>3. /\ Payloads[i][1] = (IF i < 4 THEN 6 ELSE 134)
      /\ (i = 1) <=> (Payloads[i][1] = 6 /\ Payloads[i][2] = 0 /\ Payloads[i][3] = 0)
      /\ \A k \in 1 .. 3 : Payloads[i][k] \in Octet
  BY <1>1, <1>2 DEF Octet
<1>4. CharToPayloads(char)[i] = <<char, Payloads[i][1], Payloads[i][2], Payloads[i][3]>>
  BY DEF CharToPayloads
<1>. QED
  BY <1>1, <1>3, <1>4

(* Four octets are a number in one way.                                    *)
LEMMA OneNumber ==
  ASSUME NEW p \in Octet, NEW q \in Octet, NEW r \in Octet, NEW s \in Octet, NEW char \in PhoneChars
  PROVE  BigEndian(IF p < 128 THEN p ELSE p - 256, q, r, s) - BigEndian(0, 6, 0, 0)
           = BigEndian(char, 0, 0, 0)
         <=> p = char /\ q = 6 /\ r = 0 /\ s = 0
BY SMT DEF Octet, PhoneChars, BigEndian

(* No payload but the start of a tone is reported (dtmf.ts:32-36).         *)
THEOREM StartsOnly == OnlyStartsAreHeard(Complete)
<1>. SUFFICES ASSUME NEW payload \in Complete, NEW char \in PhoneChars
              PROVE  char \in PayloadToChar(payload) <=>
                       payload[1] = char /\ payload[2] = 6 /\ payload[3] = 0 /\ payload[4] = 0
  BY DEF OnlyStartsAreHeard
<1>1. /\ payload[1] \in Octet /\ payload[2] \in Octet /\ payload[3] \in Octet
      /\ payload[4] \in Octet
  BY DEF Complete
<1>2. ASSUME char \in PayloadToChar(payload)
      PROVE  payload[1] = char /\ payload[2] = 6 /\ payload[3] = 0 /\ payload[4] = 0
  BY <1>1, <1>2, OneNumber DEF PayloadToChar, ReadIntBE
<1>3. ASSUME payload[1] = char, payload[2] = 6, payload[3] = 0, payload[4] = 0
      PROVE  char \in PayloadToChar(payload)
  BY <1>1, <1>3, OneNumber DEF PayloadToChar, ReadIntBE
<1>. QED
  BY <1>2, <1>3

(* A tone is reported once, however its packets arrive (dtmf.ts:17-36).    *)
THEOREM HeardOnce == ToneIsHeardOnce
<1>. SUFFICES ASSUME NEW char \in PhoneChars, NEW i \in 1 .. Len(Payloads)
              PROVE  PayloadToChar(CharToPayloads(char)[i]) = IF i = 1 THEN {char} ELSE {}
  BY DEF ToneIsHeardOnce
<1>. DEFINE payload == CharToPayloads(char)[i]
<1>1. payload[1] \in Octet /\ payload[2] \in Octet /\ payload[3] \in Octet /\ payload[4] \in Octet
  <2>1. char \in Octet
    BY DEF Octet, PhoneChars
  <2>2. \A k \in 1 .. 3 : Payloads[i][k] \in Octet
    BY TonePayload
  <2>3. Payloads[i][1] \in Octet /\ Payloads[i][2] \in Octet /\ Payloads[i][3] \in Octet
    BY <2>2
  <2>. QED
    BY <2>1, <2>3, TonePayload
<1>2. /\ payload[1] = char
      /\ (i = 1) <=> (payload[2] = 6 /\ payload[3] = 0 /\ payload[4] = 0)
  BY TonePayload
<1>. HIDE DEF payload
<1>3. ASSUME NEW other \in PayloadToChar(payload)
      PROVE  other = char /\ i = 1
  BY <1>1, <1>2, OneNumber DEF PayloadToChar, ReadIntBE
<1>4. ASSUME i = 1
      PROVE  char \in PayloadToChar(payload)
  BY <1>1, <1>2, <1>4, OneNumber DEF PayloadToChar, ReadIntBE
<1>5. PayloadToChar(payload) = IF i = 1 THEN {char} ELSE {}
  BY <1>3, <1>4
<1>. QED
  BY <1>5 DEF payload

(* Tones within the audio stay apart from tones (media.ts:14-17, 107-117). *)
THEOREM AudioTones == AudioTonesAreSilent(Complete)
<1>1. ASSUME NEW payload \in Complete, NEW codec \in Codecs, NEW decodes \in BOOLEAN,
             IsAudioDtmfPayload(payload)
      PROVE  /\ Events(codec, payload, codec, decodes) = <<"rtpPacket">>
             /\ Events(DtmfType, payload, codec, decodes) = <<"rtpPacket", "dtmfPacket">>
  <2>1. payload[2] = 138
    BY <1>1 DEF IsAudioDtmfPayload
  <2>2. PayloadToChar(payload) = {}
    BY <2>1, StartsOnly DEF OnlyStartsAreHeard, PayloadToChar
  <2>3. codec # DtmfType
    BY DEF Codecs, DtmfType
  <2>. QED
    BY <1>1, <2>2, <2>3 DEF Events
<1>2. ASSUME NEW char \in PhoneChars, NEW i \in 1 .. Len(Payloads)
      PROVE  ~IsAudioDtmfPayload(CharToPayloads(char)[i])
  <2>1. CharToPayloads(char)[i][2] \in {6, 134}
    BY TonePayload
  <2>. QED
    BY <2>1 DEF IsAudioDtmfPayload
<1>. QED
  BY <1>1, <1>2 DEF AudioTonesAreSilent
=============================================================================
