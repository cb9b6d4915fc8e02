------------------------------ MODULE Framing ------------------------------
(***************************************************************************)
(* How receive() and readMessage() of src/src/sip-transport.ts find the    *)
(* messages in the stream of octets that the peer writes and TCP cuts into *)
(* chunks anywhere.  What becomes of each message is the business of       *)
(* SipTransport; here it is whether what is read is what was written.      *)
(*                                                                         *)
(* One octet stands for a start line, one for a header line; the line ends,*)
(* which frame the message, are two octets as on the wire.                 *)
(***************************************************************************)
EXTENDS SipMessage

CONSTANTS
  Messages,   \* what the peer may write: messages that say their length ...
  Malformed,  \* ... and heads of messages that do not
  MaxItems    \* bound on what the peer writes

Items == Messages \cup Malformed \cup {KeepAlive}

(* A message is no keep-alive, and ends where the Content-Length lines of  *)
(* its head, which agree, say that it does.                                *)
ASSUME MessagesAssumption ==
  \A m \in Messages :
    /\ m \in Seq(Octets) /\ ~LineEndAt(m, 1)
    /\ \E end \in 1 .. Len(m) : HeaderEnd(m, end) /\ Lengths(m, end) = {Len(m) - end - 3}

(* A malformed head has no Content-Length, or one that is no number, or    *)
(* several that differ.                                                    *)
ASSUME MalformedAssumption ==
  \A m \in Malformed :
    /\ m \in Seq(Octets) /\ ~LineEndAt(m, 1)
    /\ Len(m) > 3 /\ HeaderEnd(m, Len(m) - 3) /\ ~SaysLength(m, Len(m) - 3)

ASSUME MaxItemsAssumption == MaxItems \in Nat

VARIABLES
  wire,       \* octets that have not arrived yet
  buffer,
  receiving,  \* in the loop of receive()
  state,      \* "open", "failed" (the stream cannot be framed) or "disposed"
  messages,   \* the messages that were read
  written     \* what the peer wrote, item by item, with the octets and the
              \* messages up to the end of each; history

vars == <<wire, buffer, receiving, state, messages, written>>

Init ==
  /\ wire = <<>>
  /\ buffer = <<>>
  /\ receiving = FALSE
  /\ state = "open"
  /\ messages = <<>>
  /\ written = <<>>

-----------------------------------------------------------------------------
(* The peer and TCP *)

EndOf(log, k) == IF k = 0 THEN 0 ELSE log[k].end
MessagesUpTo(log, k) == IF k = 0 THEN <<>> ELSE log[k].messages

Write(item) ==
  LET last == Len(written)
  IN  /\ last < MaxItems
      /\ wire' = wire \o item
      /\ written' = Append(written,
           [item     |-> item,
            end      |-> EndOf(written, last) + Len(item),
            messages |-> IF item \in Messages THEN Append(MessagesUpTo(written, last), item)
                                              ELSE MessagesUpTo(written, last)])
      /\ UNCHANGED <<buffer, receiving, state, messages>>

ReplaceBuffer(chunk) == buffer' = chunk  \* mutation
Concat(chunk) == buffer' = buffer \o chunk

(* A chunk of any size starts the loop of receive().                       *)
Receive(size) ==
  /\ ~receiving
  /\ state = "open"
  /\ receiving' = TRUE
  /\ Concat(SubSeq(wire, 1, size))
  /\ wire' = SubSeq(wire, size + 1, Len(wire))
  /\ UNCHANGED <<state, messages, written>>

-----------------------------------------------------------------------------
(* readMessage() *)

Skips == LineEndAt(buffer, 1)

SkipKeepAlive ==
  /\ receiving
  /\ Skips
  /\ buffer' = SubSeq(buffer, 3, Len(buffer))
  /\ UNCHANGED <<wire, receiving, state, messages, written>>

WithoutSeparator(end) == end + ContentLength(buffer, end)  \* mutation
MessageEnd(end) == end + 3 + ContentLength(buffer, end)
Complete(end) == Len(buffer) >= MessageEnd(end)

DropTheRest(end) == buffer' = <<>>  \* mutation
KeepTheRest(end) == buffer' = SubSeq(buffer, MessageEnd(end) + 1, Len(buffer))

ReadMessage(end) ==
  /\ receiving
  /\ ~Skips
  /\ HeaderEnd(buffer, end)
  /\ SaysLength(buffer, end)
  /\ Complete(end)
  /\ messages' = Append(messages, SubSeq(buffer, 1, MessageEnd(end)))
  /\ KeepTheRest(end)
  /\ UNCHANGED <<wire, receiving, state, written>>

(* The connection fails: what is left in the buffer is never read.         *)
RejectMalformed(end) ==
  /\ receiving
  /\ ~Skips
  /\ HeaderEnd(buffer, end)
  /\ ~SaysLength(buffer, end)
  /\ state' = "failed"
  /\ receiving' = FALSE
  /\ UNCHANGED <<wire, buffer, messages, written>>

(* No complete message is left.                                            *)
Return ==
  /\ receiving
  /\ ~Skips
  /\ \A end \in 1 .. Len(buffer) :
       HeaderEnd(buffer, end) => SaysLength(buffer, end) /\ ~Complete(end)
  /\ receiving' = FALSE
  /\ UNCHANGED <<wire, buffer, state, messages, written>>

(* By the application, between turns or in a listener of "message".        *)
Dispose ==
  /\ state = "open"
  /\ state' = "disposed"
  /\ receiving' = FALSE
  /\ UNCHANGED <<wire, buffer, messages, written>>

Next ==
  \/ \E item \in Items : Write(item)
  \/ \E size \in 1 .. Len(wire) : Receive(size)
  \/ SkipKeepAlive
  \/ \E end \in 1 .. Len(buffer) : ReadMessage(end) \/ RejectMalformed(end)
  \/ Return
  \/ Dispose

Spec == Init /\ [][Next]_vars

-----------------------------------------------------------------------------
(* Properties *)

TypeOK ==
  /\ wire \in Seq(Octets)
  /\ buffer \in Seq(Octets)
  /\ receiving \in BOOLEAN
  /\ state \in {"open", "failed", "disposed"}
  /\ messages \in Seq(Messages)
  /\ written \in Seq([item : Items, end : Nat, messages : Seq(Messages)])

(* The items whose last octet has arrived.                                 *)
Arrived == {k \in 1 .. Len(written) : written[k].end <= EndOf(written, Len(written)) - Len(wire)}

(* Wherever TCP cuts the stream, and whatever shares a chunk: when a chunk *)
(* has been worked off, exactly the messages whose last octet has arrived  *)
(* have been read, in their order                                          *)
(* (sip-transport.ts:165-177, 194-238; tests/sip-transport.test.ts:138).   *)
CompleteIsRead ==
  state = "open" /\ ~receiving =>
    \E k \in 0 .. Len(written) :
      /\ Arrived = 1 .. k
      /\ messages = MessagesUpTo(written, k)
      /\ \A j \in 1 .. k : written[j].item \notin Malformed

(* Only a malformed head makes the connection fail, and nothing else but   *)
(* what was written before it has been read then                           *)
(* (sip-transport.ts:170-174; tests/sip-transport.test.ts:171).            *)
OnlyMalformedFails ==
  state = "failed" =>
    \E k \in Arrived : written[k].item \in Malformed /\ messages = MessagesUpTo(written, k)

(* Whatever is read was written, in this order and without a gap, in the   *)
(* middle of a chunk and after dispose(), too.                             *)
ReadInOrder == \E k \in 0 .. Len(written) : messages = MessagesUpTo(written, k)
=============================================================================
