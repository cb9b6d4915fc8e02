----------------------------- MODULE SrtpProofs -----------------------------
(***************************************************************************)
(* Theorems about Srtp, for any space of sequence numbers, any window      *)
(* within half of it and any number of streams and packets.                *)
(***************************************************************************)
EXTENDS Srtp, TLAPS

-----------------------------------------------------------------------------
(* Arithmetic *)

(* There are sequence numbers.                                             *)
LEMMA SpaceFacts == Space \in Nat /\ Space > 0
BY HalfAssumption DEF Space

(* A multiple of Space grows with its factor.                              *)
LEMMA Multiples ==
  ASSUME NEW c \in Int, NEW d \in Int, c < d
  PROVE  c * Space + Space <= d * Space
<1>1. Space \in Nat
  BY SpaceFacts
<1>2. d - c - 1 \in Nat
  OBVIOUS
<1>3. (d - c - 1) * Space \in Nat
  BY <1>1, <1>2
<1>4. (d - c - 1) * Space = d * Space - c * Space - Space
  BY <1>1
<1>. QED
  BY <1>1, <1>3, <1>4

(* Counter and sequence number make up an index.                           *)
LEMMA IndexParts ==
  ASSUME NEW i \in Nat
  PROVE  /\ i \div Space \in Nat
         /\ i % Space \in SequenceNumbers
         /\ i = (i \div Space) * Space + (i % Space)
<1>. DEFINE S == Space
<1>1. S \in Nat /\ S > 0
  BY SpaceFacts
<1>. HIDE DEF S
<1>2. i \div S \in Int /\ i % S \in 0 .. S - 1
  BY <1>1
<1>3. i = S * (i \div S) + (i % S)
  BY <1>1
<1>4. i \div S \in Nat
  BY <1>1
<1>. QED
  BY <1>1, <1>2, <1>3, <1>4 DEF SequenceNumbers, S

(* ... in one way only. *)
LEMMA PartsUnique ==
  ASSUME NEW c \in Nat, NEW number \in SequenceNumbers, NEW i \in Nat, i = c * Space + number
  PROVE  i \div Space = c /\ i % Space = number
<1>. DEFINE d == i \div Space
            r == i % Space
<1>1. Space \in Nat /\ Space > 0
  BY SpaceFacts
<1>2. d \in Nat /\ r \in 0 .. Space - 1 /\ i = d * Space + r /\ number \in 0 .. Space - 1
  BY IndexParts DEF SequenceNumbers
<1>3. c * Space \in Int /\ d * Space \in Int
  BY <1>1, <1>2
<1>. HIDE DEF d, r
<1>4. ~(c < d)
  BY <1>1, <1>2, <1>3, Multiples
<1>5. ~(d < c)
  BY <1>1, <1>2, <1>3, Multiples
<1>6. c = d
  BY <1>2, <1>4, <1>5
<1>7. r = number
  BY <1>1, <1>2, <1>3, <1>6
<1>. QED
  BY <1>6, <1>7 DEF d, r

(* estimateIndex() finds the index of any packet that is less than half of *)
(* the sequence numbers away from the highest one, on either side of a     *)
(* wrap (index.ts:141-155).                                                *)
THEOREM EstimateIsExact ==
  ASSUME NEW highest \in Nat, NEW i \in Nat, i - highest < Half, highest - i < Half
  PROVE  EstimateIndex(i % Space, highest) = i
<1>. DEFINE c == highest \div Space
            q == highest % Space
            d == i \div Space
            r == i % Space
<1>1. Space \in Nat /\ Half \in Nat /\ Space = Half + Half /\ Half > 1
  BY HalfAssumption DEF Space
<1>2. /\ c \in Nat /\ q \in 0 .. Space - 1 /\ highest = c * Space + q
      /\ d \in Nat /\ r \in 0 .. Space - 1 /\ i = d * Space + r
  BY IndexParts DEF SequenceNumbers
<1>3. c * Space \in Int /\ d * Space \in Int
  BY <1>1, <1>2
<1>4. RolloverCounter(r, highest) = CASE q < Half /\ r - q > Half  -> c - 1
                                      [] q >= Half /\ q - r > Half -> c + 1
                                      [] OTHER                     -> c
  BY DEF RolloverCounter
<1>. HIDE DEF c, q, d, r
<1>5. d <= c + 1
  <2>1. (c + 1) * Space = c * Space + Space
    BY <1>1, <1>2
  <2>2. ~(c + 1 < d)
    BY <1>1, <1>2, <1>3, <2>1, Multiples
  <2>. QED
    BY <1>2, <2>2
<1>6. c <= d + 1
  <2>1. (d + 1) * Space = d * Space + Space
    BY <1>1, <1>2
  <2>2. ~(d + 1 < c)
    BY <1>1, <1>2, <1>3, <2>1, Multiples
  <2>. QED
    BY <1>2, <2>2
<1>7. RolloverCounter(r, highest) = d
  <2>1. CASE d = c
    BY <1>1, <1>2, <1>3, <1>4, <2>1
  <2>2. CASE d = c + 1
    <3>1. d * Space = c * Space + Space
      BY <1>1, <1>2, <2>2
    <3>2. q >= Half /\ q - r > Half
      BY <1>1, <1>2, <1>3, <3>1
    <3>. QED
      BY <1>1, <1>2, <1>4, <2>2, <3>2
  <2>3. CASE d = c - 1
    <3>1. d * Space = c * Space - Space
      BY <1>1, <1>2, <2>3
    <3>2. q < Half /\ r - q > Half
      BY <1>1, <1>2, <1>3, <3>1
    <3>. QED
      BY <1>1, <1>2, <1>4, <2>3, <3>2
  <2>. QED
    BY <1>2, <1>5, <1>6, <2>1, <2>2, <2>3
<1>8. EstimateIndex(r, highest) = d * Space + r
  BY <1>2, <1>7 DEF EstimateIndex
<1>. QED
  BY <1>2, <1>8 DEF r

(* An estimate is an index, or there is none.                              *)
LEMMA PacketIndexType ==
  ASSUME NEW number \in SequenceNumbers, NEW highest \in Nat \cup {NoIndex}
  PROVE  PacketIndex(number, highest) \in Nat \cup {NoIndex}
<1>1. number \in Nat /\ Space \in Nat
  BY SpaceFacts DEF SequenceNumbers
<1>2. CASE highest = NoIndex
  BY <1>1, <1>2 DEF PacketIndex
<1>3. CASE highest # NoIndex
  <2>1. highest \in Nat /\ highest \div Space \in Nat
    BY <1>3, IndexParts
  <2>. DEFINE counter == RolloverCounter(number, highest)
  <2>2. counter \in Int
    BY <2>1 DEF RolloverCounter
  <2>. HIDE DEF counter
  <2>3. counter >= 0 => counter * Space + number \in Nat
    BY <1>1, <2>2
  <2>. QED
    BY <1>3, <2>2, <2>3 DEF PacketIndex, EstimateIndex, counter
<1>. QED
  BY <1>2, <1>3

(* The low part of an estimate is the sequence number of the packet.       *)
LEMMA PacketIndexParts ==
  ASSUME NEW number \in SequenceNumbers, NEW highest \in Nat \cup {NoIndex},
         PacketIndex(number, highest) # NoIndex
  PROVE  PacketIndex(number, highest) % Space = number
<1>1. number \in Nat /\ Space \in Nat
  BY SpaceFacts DEF SequenceNumbers
<1>2. CASE highest = NoIndex
  <2>1. PacketIndex(number, highest) = 0 * Space + number
    BY <1>1, <1>2 DEF PacketIndex
  <2>. QED
    BY <1>1, <2>1, PartsUnique
<1>3. CASE highest # NoIndex
  <2>1. highest \in Nat /\ highest \div Space \in Nat
    BY <1>3, IndexParts
  <2>. DEFINE counter == RolloverCounter(number, highest)
              index == counter * Space + number
  <2>2. counter \in Int
    BY <2>1 DEF RolloverCounter
  <2>3. PacketIndex(number, highest) = index /\ ~(counter < 0)
    BY <1>3 DEF PacketIndex, EstimateIndex
  <2>. HIDE DEF counter
  <2>4. counter \in Nat
    BY <2>2, <2>3
  <2>5. index \in Nat
    BY <1>1, <2>4
  <2>6. index % Space = number
    <3>. HIDE DEF index
    <3>1. index = counter * Space + number
      BY DEF index
    <3>. QED
      BY <2>4, <2>5, <3>1, PartsUnique
  <2>. QED
    BY <2>3, <2>6
<1>. QED
  BY <1>2, <1>3

(* A tag that matches proves the estimate right, even if the header was    *)
(* corrupted on the way.                                                   *)
LEMMA AuthenticIndex ==
  ASSUME NEW number \in SequenceNumbers, NEW highest \in Nat \cup {NoIndex}, NEW i \in Nat,
         PacketIndex(number, highest) # NoIndex,
         Authentic(number, PacketIndex(number, highest) \div Space, TagOf(i))
  PROVE  PacketIndex(number, highest) = i
<1>. DEFINE index == PacketIndex(number, highest)
<1>1. index \in Nat
  BY PacketIndexType
<1>2. index % Space = number
  BY PacketIndexParts
<1>3. number = i % Space /\ index \div Space = i \div Space
  BY DEF Authentic, TagOf, Tag
<1>. HIDE DEF index
<1>4. index = (index \div Space) * Space + (index % Space) /\ i = (i \div Space) * Space + (i % Space)
  BY <1>1, IndexParts
<1>. QED
  BY <1>2, <1>3, <1>4 DEF index

-----------------------------------------------------------------------------
(* The sender *)

(* The media transport's next sequence number follows the highest index.   *)
SenderInv ==
  \A s \in Streams :
    /\ \A i \in sent[s] : i <= outboundIndexes[s]
    /\ s \notin AppStreams /\ outboundIndexes[s] # NoIndex =>
         sequenceNumber[s] = (outboundIndexes[s] + 1) % Space

(* What encrypt() does to the highest index and to the history.            *)
LEMMA EncryptStep ==
  ASSUME TypeOK, NEW s \in Streams, NEW number \in SequenceNumbers, Encrypt(s, number)
  PROVE  /\ outboundIndexes' \in [Streams -> MaybeIndex]
         /\ sent' \in [Streams -> SUBSET Indexes]
         /\ \A r \in Streams : sent[r] \subseteq sent'[r]
<1>. DEFINE index == PacketIndex(number, outboundIndexes[s])
<1>1. outboundIndexes[s] \in Nat \cup {NoIndex}
  BY MaxIndexAssumption DEF TypeOK, MaybeIndex, Indexes
<1>2. index \in Nat \cup {NoIndex}
  BY <1>1, PacketIndexType
<1>3. /\ index # NoIndex
      /\ index <= MaxIndex
      /\ outboundIndexes' = [outboundIndexes EXCEPT ![s] = IF index > @ THEN index ELSE @]
      /\ sent' = [sent EXCEPT ![s] = @ \cup {index}]
  BY DEF Encrypt, TakeIndex
<1>. HIDE DEF index
<1>4. index \in Indexes
  BY <1>2, <1>3, MaxIndexAssumption DEF Indexes
<1>5. outboundIndexes' \in [Streams -> MaybeIndex]
  BY <1>3, <1>4 DEF TypeOK, MaybeIndex
<1>6. sent' \in [Streams -> SUBSET Indexes] /\ \A r \in Streams : sent[r] \subseteq sent'[r]
  BY <1>3, <1>4 DEF TypeOK
<1>. QED
  BY <1>5, <1>6

(* The media transport's next packet gets the next index.                  *)
LEMMA NextIndex ==
  ASSUME TypeOK, SenderInv, NEW s \in Streams \ AppStreams, SendAudio(s)
  PROVE  LET index == PacketIndex(sequenceNumber[s], outboundIndexes[s])
         IN  /\ index \in Indexes
             /\ outboundIndexes[s] # NoIndex => index = outboundIndexes[s] + 1
             /\ outboundIndexes[s] < index
             /\ index % Space = sequenceNumber[s]
             /\ outboundIndexes' = [outboundIndexes EXCEPT ![s] = index]
             /\ sent' = [sent EXCEPT ![s] = @ \cup {index}]
<1>. DEFINE highest == outboundIndexes[s]
            number == sequenceNumber[s]
            index == PacketIndex(number, highest)
<1>1. highest \in Nat \cup {NoIndex} /\ number \in SequenceNumbers
  BY MaxIndexAssumption DEF TypeOK, MaybeIndex, Indexes
<1>2. index \in Nat \cup {NoIndex}
  BY <1>1, PacketIndexType
<1>3. /\ index # NoIndex
      /\ index <= MaxIndex
      /\ outboundIndexes' = [outboundIndexes EXCEPT ![s] = IF index > @ THEN index ELSE @]
      /\ sent' = [sent EXCEPT ![s] = @ \cup {index}]
  BY DEF SendAudio, Encrypt, TakeIndex
<1>4. index % Space = number
  BY <1>1, <1>3, PacketIndexParts
<1>5. ASSUME highest # NoIndex PROVE index = highest + 1
  <2>. HIDE DEF highest, number
  <2>1. highest \in Nat /\ number = (highest + 1) % Space
    BY <1>1, <1>5 DEF SenderInv, highest, number
  <2>2. EstimateIndex((highest + 1) % Space, highest) = highest + 1
    BY <2>1, EstimateIsExact, HalfAssumption
  <2>. QED
    BY <1>5, <2>1, <2>2 DEF PacketIndex
<1>. HIDE DEF index
<1>6. highest < index /\ index \in Indexes
  BY <1>1, <1>2, <1>3, <1>5, MaxIndexAssumption DEF Indexes, NoIndex
<1>7. outboundIndexes' = [outboundIndexes EXCEPT ![s] = index]
  BY <1>3, <1>6
<1>. QED
  BY <1>3, <1>4, <1>5, <1>6, <1>7 DEF index

(* The sequence number after an index is the one of the next index.        *)
LEMMA NextNumber ==
  ASSUME NEW i \in Nat
  PROVE  ((i % Space) + 1) % Space = (i + 1) % Space
<1>. DEFINE c == i \div Space
            r == i % Space
<1>1. Space \in Nat /\ Space > 1
  BY HalfAssumption DEF Space
<1>2. c \in Nat /\ r \in 0 .. Space - 1 /\ i = c * Space + r /\ c * Space \in Int
  BY <1>1, IndexParts DEF SequenceNumbers
<1>. HIDE DEF c, r
<1>3. CASE r + 1 < Space
  <2>1. r + 1 \in SequenceNumbers /\ i + 1 = c * Space + (r + 1) /\ r + 1 = 0 * Space + (r + 1)
    BY <1>1, <1>2, <1>3 DEF SequenceNumbers
  <2>2. (i + 1) % Space = r + 1
    BY <1>2, <2>1, PartsUnique
  <2>3. (r + 1) % Space = r + 1
    BY <1>2, <2>1, PartsUnique
  <2>. QED
    BY <2>2, <2>3 DEF r
<1>4. CASE r + 1 = Space
  <2>1. 0 \in SequenceNumbers /\ (c + 1) * Space = c * Space + Space
    BY <1>1, <1>2 DEF SequenceNumbers
  <2>2. i + 1 = (c + 1) * Space + 0 /\ r + 1 = 1 * Space + 0
    BY <1>1, <1>2, <1>4, <2>1
  <2>3. (i + 1) % Space = 0
    BY <1>2, <2>1, <2>2, PartsUnique
  <2>4. (r + 1) % Space = 0
    BY <1>2, <2>1, <2>2, PartsUnique
  <2>. QED
    BY <2>3, <2>4 DEF r
<1>. QED
  BY <1>1, <1>2, <1>3, <1>4

-----------------------------------------------------------------------------
(* The receiver *)

(* A packet is recorded under the index it was sent under.                 *)
LEMMA ReceivedIndex ==
  ASSUME TypeOK, NEW s \in Streams, NEW number \in SequenceNumbers, NEW i \in Indexes,
         Receive(s, number, i)
  PROVE  PacketIndex(number, highestIndex[s]) = i
<1>1. highestIndex[s] \in Nat \cup {NoIndex} /\ i \in Nat
  BY MaxIndexAssumption DEF TypeOK, MaybeIndex, Indexes
<1>. QED
  BY <1>1, AuthenticIndex DEF Receive, Decrypts

(* The receiver's state after packet i.                                    *)
LEMMA ReceiveStep ==
  ASSUME TypeOK, WindowMatchesHistory, NEW s \in Streams, NEW number \in SequenceNumbers,
         NEW i \in Indexes, Receive(s, number, i)
  PROVE  /\ i \in sent[s]
         /\ i \notin accepted[s]
         /\ accepted' = [accepted EXCEPT ![s] = @ \cup {i}]
         /\ Record(s, i)
         /\ repeated' = repeated
         /\ UNCHANGED sender
         /\ i > highestIndex[s] \/ highestIndex[s] - i \in (0 .. Window - 1) \ replayWindow[s]
<1>1. PacketIndex(number, highestIndex[s]) = i
  BY ReceivedIndex
<1>2. ~Replayed(s, i)
  BY <1>1 DEF Receive, Decrypts
<1>3. highestIndex[s] \in Int /\ i \in Int /\ Window \in Int
  BY MaxIndexAssumption, WindowAssumption, HalfAssumption DEF TypeOK, MaybeIndex, Indexes, NoIndex
<1>4. i > highestIndex[s] \/ highestIndex[s] - i \in (0 .. Window - 1) \ replayWindow[s]
  BY <1>2, <1>3 DEF Replayed
<1>5. i \notin accepted[s]
  <2>1. CASE i > highestIndex[s]
    BY <1>3, <2>1 DEF WindowMatchesHistory
  <2>2. CASE highestIndex[s] - i \in (0 .. Window - 1) \ replayWindow[s]
    <3>1. highestIndex[s] - (highestIndex[s] - i) = i
      BY <1>3
    <3>. QED
      BY <2>2, <3>1 DEF WindowMatchesHistory
  <2>. QED
    BY <1>4, <2>1, <2>2
<1>. QED
  BY <1>1, <1>4, <1>5 DEF Receive

(* Recording a packet keeps the window the recent part of the history.     *)
LEMMA ReceiveKeepsWindow ==
  ASSUME TypeOK, WindowMatchesHistory, NEW s \in Streams, NEW number \in SequenceNumbers,
         NEW i \in Indexes, Receive(s, number, i)
  PROVE  WindowMatchesHistory'
<1>. DEFINE h == highestIndex[s]
<1>1. /\ i \in Nat /\ h \in Nat \cup {NoIndex} /\ Window \in Nat /\ Window > 0
      /\ NoIndex = -1
  BY MaxIndexAssumption, WindowAssumption, HalfAssumption DEF TypeOK, MaybeIndex, Indexes, NoIndex
<1>2. /\ accepted' = [accepted EXCEPT ![s] = @ \cup {i}]
      /\ Record(s, i)
      /\ i > h \/ h - i \in (0 .. Window - 1) \ replayWindow[s]
  BY ReceiveStep
<1>3. /\ accepted'[s] = accepted[s] \cup {i}
      /\ highestIndex'[s] = IF i > h THEN i ELSE h
      /\ replayWindow'[s] = IF i > h THEN Shift(replayWindow[s], i - h)
                                       ELSE replayWindow[s] \cup {h - i}
  BY <1>2 DEF TypeOK, Record
<1>4. /\ h = NoIndex => accepted[s] = {} /\ replayWindow[s] = {}
      /\ h # NoIndex => h \in accepted[s]
      /\ \A j \in accepted[s] : j <= h
      /\ \A age \in 0 .. Window - 1 : age \in replayWindow[s] <=> h - age \in accepted[s]
      /\ \A j \in accepted[s] : j \in Nat
      /\ \A age \in replayWindow[s] : age \in 0 .. Window - 1
  BY MaxIndexAssumption DEF WindowMatchesHistory, TypeOK, Indexes
<1>. HIDE DEF h
<1>5. highestIndex'[s] # NoIndex /\ highestIndex'[s] \in accepted'[s]
  BY <1>1, <1>2, <1>3, <1>4
<1>6. \A j \in accepted'[s] : j <= highestIndex'[s]
  BY <1>1, <1>3, <1>4
<1>7. ASSUME NEW age \in 0 .. Window - 1
      PROVE  age \in replayWindow'[s] <=> highestIndex'[s] - age \in accepted'[s]
  <2>1. CASE h = NoIndex
    <3>1. i > h
      BY <1>1, <2>1
    <3>2. highestIndex'[s] = i /\ accepted'[s] = {i} /\ replayWindow'[s] = {0}
      <4>1. highestIndex'[s] = i
        BY <1>3, <3>1
      <4>2. accepted'[s] = {i}
        BY <1>3, <1>4, <2>1
      <4>3. replayWindow'[s] = {0}
        BY <1>3, <1>4, <2>1, <3>1 DEF Shift
      <4>. QED
        BY <4>1, <4>2, <4>3
    <3>3. i - age = i <=> age = 0
      BY <1>1
    <3>. QED
      BY <3>2, <3>3
  <2>2. CASE h # NoIndex /\ i > h
    <3>1. /\ highestIndex'[s] = i
          /\ replayWindow'[s] = Shift(replayWindow[s], i - h)
      BY <1>3, <2>2
    <3>2. CASE age = 0
      BY <1>1, <1>3, <3>1, <3>2 DEF Shift
    <3>3. CASE age # 0 /\ age >= i - h
      <4>1. age - (i - h) \in 0 .. Window - 1 /\ h - (age - (i - h)) = i - age
        BY <1>1, <2>2, <3>3
      <4>2. age - (i - h) \in replayWindow[s] <=> i - age \in accepted[s]
        BY <1>4, <4>1
      <4>3. age \in Shift(replayWindow[s], i - h) <=> age - (i - h) \in replayWindow[s]
        BY <1>1, <1>4, <2>2, <3>3 DEF Shift
      <4>. QED
        BY <1>1, <1>3, <3>1, <3>3, <4>2, <4>3
    <3>4. CASE age # 0 /\ age < i - h
      <4>1. age \notin Shift(replayWindow[s], i - h)
        BY <1>1, <1>4, <2>2, <3>4 DEF Shift
      <4>2. i - age > h /\ i - age # i
        BY <1>1, <2>2, <3>4
      <4>. QED
        BY <1>1, <1>3, <1>4, <2>2, <3>1, <4>1, <4>2
    <3>. QED
      BY <1>1, <2>2, <3>2, <3>3, <3>4
  <2>3. CASE h # NoIndex /\ ~(i > h)
    <3>1. highestIndex'[s] = h /\ replayWindow'[s] = replayWindow[s] \cup {h - i}
      BY <1>3, <2>3
    <3>2. h - age = i <=> age = h - i
      BY <1>1, <2>3
    <3>. QED
      BY <1>3, <1>4, <3>1, <3>2
  <2>. QED
    BY <2>1, <2>2, <2>3
<1>8. \A r \in Streams \ {s} : /\ accepted'[r] = accepted[r]
                             /\ highestIndex'[r] = highestIndex[r]
                             /\ replayWindow'[r] = replayWindow[r]
  BY <1>2 DEF TypeOK, Record
<1>. QED
  BY <1>5, <1>6, <1>7, <1>8 DEF WindowMatchesHistory

-----------------------------------------------------------------------------
(* The theorems *)

Inv ==
  /\ TypeOK
  /\ SenderInv
  /\ WindowMatchesHistory
  /\ AcceptedWasSent
  /\ AcceptedOnce

(* The initial states satisfy the invariant.                               *)
LEMMA InitInv == Init => Inv
<1>. SUFFICES ASSUME Init PROVE Inv
  OBVIOUS
<1>1. TypeOK
  BY DEF Init, TypeOK, MaybeIndex
<1>. QED
  BY <1>1, WindowAssumption
     DEF Init, Inv, SenderInv, WindowMatchesHistory, AcceptedWasSent, AcceptedOnce, NoIndex

(* The sender's steps.                                                     *)
LEMMA SendInv ==
  ASSUME Inv, NEW s \in Streams,
         SendAudio(s) \/ \E number \in SequenceNumbers : SendPacket(s, number)
  PROVE  Inv'
<1>. USE DEF Inv
<1>1. UNCHANGED receiver
  BY DEF SendAudio, SendPacket
<1>2. PICK number \in SequenceNumbers : Encrypt(s, number)
  BY DEF SendAudio, SendPacket, TypeOK
<1>3. /\ outboundIndexes' \in [Streams -> MaybeIndex]
      /\ sent' \in [Streams -> SUBSET Indexes]
      /\ \A r \in Streams : sent[r] \subseteq sent'[r]
  BY <1>2, EncryptStep
<1>4. sequenceNumber' \in [Streams -> SequenceNumbers]
  <2>1. ((sequenceNumber[s] + 1) % Space) \in SequenceNumbers
    <3>1. sequenceNumber[s] + 1 \in Nat
      BY SpaceFacts DEF TypeOK, SequenceNumbers
    <3>. QED
      BY <3>1, IndexParts
  <2>. QED
    BY <2>1 DEF SendAudio, SendPacket, TypeOK
<1>5. TypeOK'
  BY <1>1, <1>3, <1>4 DEF TypeOK, receiver
<1>6. SenderInv'
  <2>1. CASE SendAudio(s)
    <3>. DEFINE index == PacketIndex(sequenceNumber[s], outboundIndexes[s])
    <3>0. s \in Streams \ AppStreams
      BY <2>1 DEF SendAudio
    <3>1. /\ index \in Indexes
          /\ outboundIndexes[s] < index
          /\ index % Space = sequenceNumber[s]
          /\ outboundIndexes' = [outboundIndexes EXCEPT ![s] = index]
          /\ sent' = [sent EXCEPT ![s] = @ \cup {index}]
      BY <2>1, <3>0, NextIndex
    <3>. HIDE DEF index
    <3>2. index \in Nat
      BY <3>1, MaxIndexAssumption DEF Indexes
    <3>3. sequenceNumber' = [sequenceNumber EXCEPT ![s] = (index + 1) % Space]
      BY <2>1, <3>1, <3>2, NextNumber DEF SendAudio
    <3>4. \A j \in sent'[s] : j <= index
      <4>1. \A j \in sent[s] : j \in Nat /\ j <= outboundIndexes[s]
        BY MaxIndexAssumption DEF SenderInv, TypeOK, Indexes
      <4>2. outboundIndexes[s] \in Int
        BY MaxIndexAssumption DEF TypeOK, MaybeIndex, Indexes, NoIndex
      <4>. QED
        BY <3>1, <3>2, <4>1, <4>2 DEF TypeOK
    <3>. QED
      BY <3>1, <3>3, <3>4 DEF SenderInv, TypeOK
  <2>2. CASE s \in AppStreams
    <3>. DEFINE index == PacketIndex(number, outboundIndexes[s])
    <3>1. /\ outboundIndexes' = [outboundIndexes EXCEPT ![s] = IF index > @ THEN index ELSE @]
          /\ sent' = [sent EXCEPT ![s] = @ \cup {index}]
      BY <1>2 DEF Encrypt, TakeIndex
    <3>2. index \in Int /\ outboundIndexes[s] \in Nat \cup {NoIndex}
      BY PacketIndexType, MaxIndexAssumption DEF TypeOK, MaybeIndex, Indexes, NoIndex
    <3>3. \A j \in sent[s] : j \in Nat /\ j <= outboundIndexes[s]
      BY MaxIndexAssumption DEF SenderInv, TypeOK, Indexes
    <3>4. UNCHANGED sequenceNumber
      BY <2>2 DEF SendAudio, SendPacket
    <3>. HIDE DEF index
    <3>5. \A j \in sent'[s] : j <= outboundIndexes'[s]
      BY <3>1, <3>2, <3>3 DEF TypeOK, NoIndex
    <3>. QED
      BY <2>2, <3>1, <3>4, <3>5 DEF SenderInv, TypeOK
  <2>. QED
    BY <2>1, <2>2 DEF SendPacket
<1>7. WindowMatchesHistory' /\ AcceptedOnce'
  BY <1>1 DEF WindowMatchesHistory, AcceptedOnce, receiver
<1>8. AcceptedWasSent'
  BY <1>1, <1>3 DEF AcceptedWasSent, receiver
<1>. QED
  BY <1>5, <1>6, <1>7, <1>8

(* A packet that is not sent moves only the sender's highest index.        *)
LEMMA ThrowInv ==
  ASSUME Inv, NEW s \in Streams, NEW number \in SequenceNumbers, SendPacketThrows(s, number)
  PROVE  Inv'
<1>. USE DEF Inv
<1>. DEFINE index == PacketIndex(number, outboundIndexes[s])
<1>1. s \in AppStreams /\ UNCHANGED <<sequenceNumber, sent, receiver>>
  BY DEF SendPacketThrows
<1>2. /\ index # NoIndex
      /\ index <= MaxIndex
      /\ outboundIndexes' = [outboundIndexes EXCEPT ![s] = IF index > @ THEN index ELSE @]
  BY DEF SendPacketThrows, TakeIndex
<1>3. index \in Nat \cup {NoIndex} /\ outboundIndexes[s] \in Nat \cup {NoIndex}
  <2>1. outboundIndexes[s] \in Nat \cup {NoIndex}
    BY MaxIndexAssumption DEF TypeOK, MaybeIndex, Indexes
  <2>. QED
    BY <2>1, PacketIndexType
<1>. HIDE DEF index
<1>4. TypeOK'
  <2>1. index \in Indexes
    BY <1>2, <1>3, MaxIndexAssumption DEF Indexes
  <2>. QED
    BY <1>1, <1>2, <2>1 DEF TypeOK, MaybeIndex, receiver
<1>5. SenderInv'
  <2>1. \A j \in sent[s] : j \in Nat /\ j <= outboundIndexes[s]
    BY MaxIndexAssumption DEF SenderInv, TypeOK, Indexes
  <2>2. \A j \in sent[s] : j <= outboundIndexes'[s]
    BY <1>2, <1>3, <2>1 DEF TypeOK, NoIndex
  <2>. QED
    BY <1>1, <1>2, <2>2 DEF SenderInv, TypeOK
<1>6. WindowMatchesHistory' /\ AcceptedOnce' /\ AcceptedWasSent'
  BY <1>1 DEF WindowMatchesHistory, AcceptedOnce, AcceptedWasSent, receiver
<1>. QED
  BY <1>4, <1>5, <1>6

(* The receiver's steps.                                                   *)
LEMMA ReceiveInv ==
  ASSUME Inv, NEW s \in Streams, NEW number \in SequenceNumbers, NEW i \in Indexes,
         Receive(s, number, i)
  PROVE  Inv'
<1>. USE DEF Inv
<1>1. /\ i \in sent[s]
      /\ accepted' = [accepted EXCEPT ![s] = @ \cup {i}]
      /\ Record(s, i)
      /\ repeated' = repeated
      /\ UNCHANGED sender
      /\ i > highestIndex[s] \/ highestIndex[s] - i \in (0 .. Window - 1) \ replayWindow[s]
  BY ReceiveStep
<1>2. TypeOK'
  <2>1. accepted' \in [Streams -> SUBSET Indexes] /\ highestIndex' \in [Streams -> MaybeIndex]
    BY <1>1 DEF TypeOK, MaybeIndex, Record
  <2>2. replayWindow' \in [Streams -> SUBSET (0 .. Window - 1)]
    <3>1. 0 \in 0 .. Window - 1
      BY WindowAssumption, HalfAssumption
    <3>2. i \in Nat /\ highestIndex[s] \in Nat \cup {NoIndex}
      BY MaxIndexAssumption DEF TypeOK, MaybeIndex, Indexes
    <3>3. i > highestIndex[s] =>
            Shift(replayWindow[s], i - highestIndex[s]) \subseteq 0 .. Window - 1
      BY <3>1, <3>2, WindowAssumption, HalfAssumption DEF Shift, TypeOK, NoIndex
    <3>4. highestIndex[s] # NoIndex /\ ~(i > highestIndex[s]) =>
            highestIndex[s] - i \in 0 .. Window - 1
      BY <1>1
    <3>. QED
      BY <1>1, <3>1, <3>3, <3>4 DEF TypeOK, Record
  <2>. QED
    BY <1>1, <2>1, <2>2 DEF TypeOK, sender
<1>3. WindowMatchesHistory'
  BY ReceiveKeepsWindow
<1>4. SenderInv' /\ AcceptedWasSent' /\ AcceptedOnce'
  BY <1>1 DEF SenderInv, AcceptedWasSent, AcceptedOnce, sender, TypeOK
<1>. QED
  BY <1>2, <1>3, <1>4

(* In every behaviour the invariant holds.                                 *)
THEOREM Invariance == Spec => []Inv
<1>1. Inv /\ [Next]_vars => Inv'
  <2>1. ASSUME Inv, Next PROVE Inv'
    BY <2>1, SendInv, ThrowInv, ReceiveInv DEF Next, Indexes
  <2>2. ASSUME Inv, UNCHANGED vars PROVE Inv'
    BY <2>2 DEF vars, Inv, TypeOK, SenderInv, WindowMatchesHistory, AcceptedWasSent, AcceptedOnce
  <2>. QED
    BY <2>1, <2>2
<1>. QED
  BY InitInv, <1>1, PTL DEF Spec

(* The Maps of the sessions keep their types.                              *)
THEOREM TypeCorrect == Spec => []TypeOK
<1>1. Inv => TypeOK
  BY DEF Inv
<1>. QED
  BY Invariance, <1>1, PTL

(* A packet is decrypted under the index it was encrypted under.           *)
THEOREM IndexesAgree == Spec => []AcceptedWasSent
<1>1. Inv => AcceptedWasSent
  BY DEF Inv
<1>. QED
  BY Invariance, <1>1, PTL

(* No packet is decrypted twice, for any window.                           *)
THEOREM ReplaysAreRejected == Spec => []AcceptedOnce
<1>1. Inv => AcceptedOnce
  BY DEF Inv
<1>. QED
  BY Invariance, <1>1, PTL

(* The replay window and the history of a stream correspond.               *)
THEOREM WindowIsHistory == Spec => []WindowMatchesHistory
<1>1. Inv => WindowMatchesHistory
  BY DEF Inv
<1>. QED
  BY Invariance, <1>1, PTL

(* No packet whose index the receiver can tell is lost there.  For the     *)
(* first that arrives the counter is 0 on both sides; for a later one the  *)
(* two halves of the argument are that the estimate is exact and that the  *)
(* window holds no packet that was not decrypted.                          *)
THEOREM PacketsInReachAreDecrypted == Spec => []NothingDueIsDiscarded
<1>1. Inv => NothingDueIsDiscarded
  <2>. SUFFICES ASSUME Inv, NEW s \in Streams, NEW i \in sent[s] \ accepted[s], Due(s, i)
                PROVE  Decrypts(s, i % Space, TagOf(i))
    BY DEF NothingDueIsDiscarded
  <2>1. /\ i \in Nat /\ i # NoIndex
        /\ highestIndex[s] \in Nat \cup {NoIndex}
        /\ Window \in Nat /\ Half \in Nat /\ Window <= Half
    BY MaxIndexAssumption, WindowAssumption, HalfAssumption
       DEF Inv, TypeOK, MaybeIndex, Indexes, NoIndex
  <2>2. PacketIndex(i % Space, highestIndex[s]) = i
    <3>1. CASE highestIndex[s] = NoIndex
      <4>1. i < Space
        BY <3>1 DEF Due
      <4>2. i % Space = i
        BY <2>1, <4>1, SpaceFacts
      <4>. QED
        BY <3>1, <4>2 DEF PacketIndex
    <3>2. CASE highestIndex[s] # NoIndex
      <4>1. i - highestIndex[s] < Half /\ highestIndex[s] - i < Half
        BY <2>1, <3>2 DEF Due, InReach
      <4>. QED
        BY <2>1, <3>2, <4>1, EstimateIsExact DEF PacketIndex
    <3>. QED
      BY <3>1, <3>2
  <2>3. ~Replayed(s, i)
    <3>1. CASE highestIndex[s] = NoIndex
      BY <2>1, <3>1 DEF Replayed, NoIndex
    <3>2. ASSUME highestIndex[s] # NoIndex, i <= highestIndex[s]
          PROVE  LET age == highestIndex[s] - i
                 IN  age < Window /\ age \notin replayWindow[s]
      <4>1. highestIndex[s] - i \in 0 .. Window - 1 /\ highestIndex[s] - (highestIndex[s] - i) = i
        BY <2>1, <3>2 DEF Due, InReach
      <4>. QED
        BY <2>1, <4>1 DEF Inv, WindowMatchesHistory
    <3>. QED
      BY <2>1, <3>1, <3>2 DEF Replayed
  <2>. QED
    BY <2>1, <2>2, <2>3 DEF Decrypts, Authentic, TagOf
<1>. QED
  BY Invariance, <1>1, PTL

(* The media transport never uses an index for two packets.                *)
THEOREM KeystreamIsUsedOnce == Spec => KeystreamAdvances
<1>. DEFINE Advance(s) == sequenceNumber'[s] # sequenceNumber[s] =>
              /\ outboundIndexes'[s] \notin sent[s]
              /\ outboundIndexes[s] # NoIndex => outboundIndexes'[s] = outboundIndexes[s] + 1
<1>1. ASSUME Inv, [Next]_vars PROVE \A s \in Streams \ AppStreams : Advance(s)
  <2>. SUFFICES ASSUME NEW s \in Streams \ AppStreams, sequenceNumber'[s] # sequenceNumber[s]
                PROVE  Advance(s)
    OBVIOUS
  <2>1. SendAudio(s)
    BY <1>1 DEF Next, vars, SendAudio, SendPacket, SendPacketThrows, Receive, sender, Inv, TypeOK
  <2>2. LET index == PacketIndex(sequenceNumber[s], outboundIndexes[s])
        IN  /\ index \in Indexes
            /\ outboundIndexes[s] # NoIndex => index = outboundIndexes[s] + 1
            /\ outboundIndexes[s] < index
            /\ outboundIndexes' = [outboundIndexes EXCEPT ![s] = index]
    BY <1>1, <2>1, NextIndex DEF Inv
  <2>3. /\ outboundIndexes[s] # NoIndex => outboundIndexes'[s] = outboundIndexes[s] + 1
        /\ outboundIndexes[s] < outboundIndexes'[s]
        /\ outboundIndexes'[s] \in Indexes
    BY <1>1, <2>2 DEF Inv, TypeOK
  <2>4. outboundIndexes'[s] \notin sent[s]
    <3>1. \A j \in sent[s] : j \in Nat /\ j <= outboundIndexes[s]
      BY <1>1, MaxIndexAssumption DEF Inv, SenderInv, TypeOK, Indexes
    <3>2. outboundIndexes[s] \in Int /\ outboundIndexes'[s] \in Int
      BY <1>1, <2>3, MaxIndexAssumption DEF Inv, TypeOK, MaybeIndex, Indexes, NoIndex
    <3>. QED
      BY <2>3, <3>1, <3>2
  <2>. QED
    BY <2>3, <2>4
<1>2. Inv /\ [Next]_vars => [\A s \in Streams \ AppStreams : Advance(s)]_vars
  BY <1>1
<1>. QED
  BY Invariance, <1>2, PTL DEF Spec, KeystreamAdvances
=============================================================================
