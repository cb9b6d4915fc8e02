-------------------------------- MODULE Srtp --------------------------------
(***************************************************************************)
(* The packet indexes of src/src/rtp/index.ts: a sender and a receiver,    *)
(* each an SrtpSession, and the network between them, which loses, repeats,*)
(* reorders and corrupts packets.                                          *)
(*                                                                         *)
(* A packet carries the low part of its index, the sequence number; both   *)
(* ends estimate the rest, the rollover counter, from the highest index    *)
(* they know.  The counter is part of what the authentication tag covers,  *)
(* so that a wrong estimate shows as a tag that does not match.  Ciphers   *)
(* and keys are left out: a tag is what it was computed from.              *)
(***************************************************************************)
EXTENDS Integers

CONSTANTS Streams,     \* SSRCs
          AppStreams,  \* those whose headers the application writes itself
          Half,        \* half of the sequence numbers: 32768
          Window,      \* REPLAY_WINDOW: 64
          MaxIndex     \* bound on packet indexes

ASSUME HalfAssumption == Half \in Nat /\ Half > 1
ASSUME WindowAssumption == Window \in 1 .. Half
ASSUME MaxIndexAssumption == MaxIndex \in Nat
ASSUME StreamsAssumption == AppStreams \subseteq Streams

Space == 2 * Half
SequenceNumbers == 0 .. Space - 1
NoIndex == -1  \* not in the Map, or `undefined`

VARIABLES
  sequenceNumber,   \* by stream: the media transport's next sequence number
  outboundIndexes,  \* by stream: the highest index taken
  sent,             \* by stream: the indexes of all packets encrypted; history
  highestIndex,     \* by stream: the receiver's highest index
  replayWindow,     \* by stream: the ages, counted from it, of the packets received
  accepted,         \* by stream: the indexes of all packets decrypted; history
  repeated          \* the streams on which an index was decrypted twice; history

sender == <<sequenceNumber, outboundIndexes, sent>>
receiver == <<highestIndex, replayWindow, accepted, repeated>>
vars == <<sequenceNumber, outboundIndexes, sent, highestIndex, replayWindow, accepted, repeated>>

(* The first sequence number is random.                                    *)
Init ==
  /\ sequenceNumber \in [Streams -> SequenceNumbers]
  /\ outboundIndexes = [s \in Streams |-> NoIndex]
  /\ sent = [s \in Streams |-> {}]
  /\ highestIndex = [s \in Streams |-> NoIndex]
  /\ replayWindow = [s \in Streams |-> {}]
  /\ accepted = [s \in Streams |-> {}]
  /\ repeated = {}

-----------------------------------------------------------------------------
(* estimateIndex() *)

NeverAhead(number, highest) ==  \* mutation
  IF (highest % Space) < Half /\ number - (highest % Space) > Half
    THEN (highest \div Space) - 1 ELSE highest \div Space

RolloverCounter(number, highest) ==
  LET highestSequence == highest % Space
      counter == highest \div Space
  IN  CASE highestSequence < Half /\ number - highestSequence > Half   -> counter - 1
        [] highestSequence >= Half /\ highestSequence - number > Half -> counter + 1
        [] OTHER                                                      -> counter

EstimateIndex(number, highest) ==
  LET counter == RolloverCounter(number, highest)
  IN  IF counter < 0 THEN NoIndex ELSE counter * Space + number

PacketIndex(number, highest) ==
  IF highest = NoIndex THEN number ELSE EstimateIndex(number, highest)

-----------------------------------------------------------------------------
(* The sender *)

(* encrypt() takes the index first, and throws before that for a packet    *)
(* from before the stream began.                                           *)
TakeIndex(s, index) ==
  /\ index # NoIndex
  /\ index <= MaxIndex
  /\ outboundIndexes' = [outboundIndexes EXCEPT ![s] = IF index > @ THEN index ELSE @]

Encrypt(s, number) ==
  LET index == PacketIndex(number, outboundIndexes[s])
  IN  /\ TakeIndex(s, index)
      /\ sent' = [sent EXCEPT ![s] = @ \cup {index}]

(* A packet of sendAudio() or sendDTMF().                                  *)
SendAudio(s) ==
  /\ s \notin AppStreams
  /\ Encrypt(s, sequenceNumber[s])
  /\ sequenceNumber' = [sequenceNumber EXCEPT ![s] = (@ + 1) % Space]
  /\ UNCHANGED receiver

(* A packet of sendPacket(), with any header.                              *)
SendPacket(s, number) ==
  /\ s \in AppStreams
  /\ Encrypt(s, number)
  /\ UNCHANGED <<sequenceNumber, receiver>>

(* Its timestamp does not fit into 32 bits: serializeRtp() throws when the *)
(* index has been taken, and nothing is sent.  (The timestamp of the media *)
(* transport only grows: a stream of its own would end here.)              *)
SendPacketThrows(s, number) ==
  /\ s \in AppStreams
  /\ TakeIndex(s, PacketIndex(number, outboundIndexes[s]))
  /\ UNCHANGED <<sequenceNumber, sent, receiver>>

-----------------------------------------------------------------------------
(* The receiver *)

Tag(number, counter) == [number |-> number, counter |-> counter]
TagOf(index) == Tag(index % Space, index \div Space)

TagOfPacketOnly(number, counter, tag) == number = tag.number  \* mutation
Authentic(number, counter, tag) == tag = Tag(number, counter)

WindowOnly(s, index) ==  \* mutation
  index <= highestIndex[s] /\ highestIndex[s] - index \in replayWindow[s]
WindowTooShort(s, index) ==  \* mutation
  /\ index <= highestIndex[s]
  /\ LET age == highestIndex[s] - index IN age >= Window - 1 \/ age \in replayWindow[s]

Replayed(s, index) ==
  /\ index <= highestIndex[s]
  /\ LET age == highestIndex[s] - index IN age >= Window \/ age \in replayWindow[s]

(* The packet with this sequence number and this tag is decrypted; any     *)
(* other is discarded and changes nothing.                                 *)
Decrypts(s, number, tag) ==
  LET index == PacketIndex(number, highestIndex[s])
  IN  /\ index # NoIndex
      /\ Authentic(number, index \div Space, tag)
      /\ ~Replayed(s, index)

ShiftOnly(ages, shift) == {age + shift : age \in ages} \cup {0}  \* mutation
Shift(ages, shift) == {age \in {a + shift : a \in ages} : age < Window} \cup {0}

ForgetLate(s, index) ==  \* mutation
  /\ highestIndex' = [highestIndex EXCEPT ![s] = IF index > @ THEN index ELSE @]
  /\ replayWindow' = [replayWindow EXCEPT ![s] =
                        IF index > highestIndex[s] THEN Shift(@, index - highestIndex[s]) ELSE @]

(* The first packet of a stream is newer than the highest index, NoIndex.  *)
Record(s, index) ==
  /\ highestIndex' = [highestIndex EXCEPT ![s] = IF index > @ THEN index ELSE @]
  /\ replayWindow' = [replayWindow EXCEPT ![s] =
                        IF index > highestIndex[s] THEN Shift(@, index - highestIndex[s])
                                                   ELSE @ \cup {highestIndex[s] - index}]

(* A packet arrives: any that was sent, with any sequence number in its    *)
(* header if the network has corrupted it.                                 *)
Receive(s, number, i) ==
  /\ i \in sent[s]
  /\ Decrypts(s, number, TagOf(i))
  /\ LET index == PacketIndex(number, highestIndex[s])
     IN  /\ Record(s, index)
         /\ accepted' = [accepted EXCEPT ![s] = @ \cup {index}]
         /\ repeated' = IF index \in accepted[s] THEN repeated \cup {s} ELSE repeated
  /\ UNCHANGED sender

Next ==
  \E s \in Streams :
    \/ SendAudio(s)
    \/ \E number \in SequenceNumbers : SendPacket(s, number) \/ SendPacketThrows(s, number)
    \/ \E number \in SequenceNumbers, i \in 0 .. MaxIndex : Receive(s, number, i)

Spec == Init /\ [][Next]_vars

-----------------------------------------------------------------------------
(* Properties *)

Indexes == 0 .. MaxIndex
MaybeIndex == Indexes \cup {NoIndex}

(* The types of the two Maps of an SrtpSession and of the histories.       *)
TypeOK ==
  /\ sequenceNumber \in [Streams -> SequenceNumbers]
  /\ outboundIndexes \in [Streams -> MaybeIndex]
  /\ sent \in [Streams -> SUBSET Indexes]
  /\ highestIndex \in [Streams -> MaybeIndex]
  /\ replayWindow \in [Streams -> SUBSET (0 .. Window - 1)]
  /\ accepted \in [Streams -> SUBSET Indexes]
  /\ repeated \in SUBSET Streams

(* A packet is decrypted under the index it was encrypted under, whatever  *)
(* becomes of it on the way (index.ts:249-265).                            *)
AcceptedWasSent == \A s \in Streams : accepted[s] \subseteq sent[s]

(* No index is decrypted twice, however late or often its packet comes     *)
(* (index.ts:267-275, 291-303; rtp.test.ts:221 "rejects replayed packets").*)
AcceptedOnce == repeated = {}

(* The replay window is the recent part of the history: bit `age` is set   *)
(* exactly if the packet that much older than the highest was decrypted    *)
(* (index.ts:291-303).                                                     *)
WindowMatchesHistory ==
  \A s \in Streams :
    /\ highestIndex[s] = NoIndex => accepted[s] = {} /\ replayWindow[s] = {}
    /\ highestIndex[s] # NoIndex => highestIndex[s] \in accepted[s]
    /\ \A i \in accepted[s] : i <= highestIndex[s]
    /\ \A age \in 0 .. Window - 1 :
         age \in replayWindow[s] <=> highestIndex[s] - age \in accepted[s]

(* The receiver is close enough to packet i to know its index: less than   *)
(* half of the sequence numbers away, and not older than the window.       *)
InReach(s, i) ==
  /\ i - highestIndex[s] < Half
  /\ highestIndex[s] - i < Window

(* The receiver can tell its index: that of the first packet to arrive, if *)
(* the sequence number had not wrapped before it, then that of any packet  *)
(* in reach.                                                               *)
Due(s, i) ==
  \/ highestIndex[s] = NoIndex /\ i < Space
  \/ highestIndex[s] # NoIndex /\ InReach(s, i)

(* No packet whose index the receiver can tell is discarded unless it has  *)
(* been decrypted before: reordering and loss, across any number of wraps  *)
(* of the sequence number, cost no packet that arrives (index.ts:141-155,  *)
(* 249-275).                                                               *)
NothingDueIsDiscarded ==
  \A s \in Streams : \A i \in sent[s] \ accepted[s] :
    Due(s, i) => Decrypts(s, i % Space, TagOf(i))

(* The media transport's packets get one index after the other: no index,  *)
(* and with it no part of the keystream, is used for two of them, although *)
(* the sequence number wraps and starts anywhere (index.ts:205-215,        *)
(* call-session/media.ts:138-149, 173-181).                                *)
KeystreamAdvances ==
  [][\A s \in Streams \ AppStreams :
       sequenceNumber'[s] # sequenceNumber[s] =>
         /\ outboundIndexes'[s] \notin sent[s]
         /\ outboundIndexes[s] # NoIndex => outboundIndexes'[s] = outboundIndexes[s] + 1]_vars

-----------------------------------------------------------------------------
(* What the tests say and the code does not do *)

(* "accepts out-of-order packets once" (tests/rtp.test.ts:221): the first  *)
(* packet to arrive, too, is decrypted.                                    *)
OutOfOrderIsAccepted ==
  \A s \in Streams : \A i \in sent[s] \ accepted[s] :
    highestIndex[s] = NoIndex \/ InReach(s, i) => Decrypts(s, i % Space, TagOf(i))
=============================================================================
