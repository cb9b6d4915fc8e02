--------------------------- MODULE FramingProofs ---------------------------
(***************************************************************************)
(* Theorems about Framing, for any set of messages, however long, and any  *)
(* way to cut the stream.  The argument: what has been read ends at the    *)
(* end of an item, and what is in the buffer and on the wire are the items *)
(* behind it, octet by octet.                                              *)
(***************************************************************************)
EXTENDS Framing, SequenceTheorems, TLAPS

Log == Seq([item : Items, end : Nat, messages : Seq(Messages)])

(* The ends and the messages that the log names are those of its items.    *)
AddsUp(log) ==
  /\ \A k \in 1 .. Len(log) :
       /\ log[k].end = EndOf(log, k - 1) + Len(log[k].item)
       /\ log[k].messages =
            IF log[k].item \in Messages THEN Append(MessagesUpTo(log, k - 1), log[k].item)
                                        ELSE MessagesUpTo(log, k - 1)
  /\ \A j, k \in 0 .. Len(log) : j <= k => EndOf(log, j) <= EndOf(log, k)

PendingAt(b, w, j) == IF j <= Len(b) THEN b[j] ELSE w[j - Len(b)]

(* Behind the first c items of the log, the others are in b and w.         *)
Aligned(log, b, w, c) ==
  /\ EndOf(log, c) + Len(b) + Len(w) = EndOf(log, Len(log))
  /\ \A k \in c + 1 .. Len(log) : \A i \in 1 .. Len(log[k].item) :
       PendingAt(b, w, EndOf(log, k - 1) - EndOf(log, c) + i) = log[k].item[i]

(* The first c items have been read.                                       *)
Read(c) ==
  /\ messages = MessagesUpTo(written, c)
  /\ Aligned(written, buffer, wire, c)
  /\ \A k \in 1 .. c : written[k].item \notin Malformed

(* Between two chunks the next item is not complete.                       *)
WorkedOff(c) ==
  state = "open" /\ ~receiving /\ c < Len(written) => Len(buffer) < Len(written[c + 1].item)

Broken(c) ==
  state = "failed" =>
    c < Len(written) /\ written[c + 1].item \in Malformed /\ Len(written[c + 1].item) <= Len(buffer)

Reached(c) == Read(c) /\ WorkedOff(c) /\ Broken(c)

Inv ==
  /\ TypeOK
  /\ receiving => state = "open"
  /\ AddsUp(written)
  /\ \E c \in 0 .. Len(written) : Reached(c)

-----------------------------------------------------------------------------
(* Heads *)

(* A sequence that continues a message or stops within it has the same     *)
(* head, once its separator is there.                                      *)
LEMMA SameHead ==
  ASSUME NEW a \in Seq(Octets), NEW b \in Seq(Octets),
         \A i \in 1 .. Len(a) : i <= Len(b) => b[i] = a[i],
         NEW e \in 1 .. Len(a), HeaderEnd(a, e), e + 3 <= Len(b)
  PROVE  HeaderEnd(b, e) /\ Lengths(b, e) = Lengths(a, e)
<1>1. e + 3 <= Len(a)
  BY DEF HeaderEnd, SeparatorAt, LineEndAt
<1>2. SeparatorAt(b, e)
  BY <1>1 DEF HeaderEnd, SeparatorAt, LineEndAt
<1>3. \A j \in 1 .. e - 1 : ~SeparatorAt(b, j)
  <2>. SUFFICES ASSUME NEW j \in 1 .. e - 1, SeparatorAt(b, j) PROVE FALSE
    OBVIOUS
  <2>0. \A i \in {j, j + 1, j + 2, j + 2 + 1} : i \in 1 .. Len(a) /\ i <= Len(b)
    BY <1>1
  <2>1. /\ j + 2 + 1 <= Len(a)
        /\ a[j] = b[j] /\ a[j + 1] = b[j + 1]
        /\ a[j + 2] = b[j + 2] /\ a[j + 2 + 1] = b[j + 2 + 1]
    BY <2>0
  <2>2. SeparatorAt(a, j)
    BY <2>1 DEF SeparatorAt, LineEndAt
  <2>. QED
    BY <2>2 DEF HeaderEnd
<1>4. \A j \in 1 .. e - 1 : a[j] = b[j]
  BY <1>1
<1>5. Lengths(b, e) = Lengths(a, e)
  BY <1>4 DEF Lengths
<1>. QED
  BY <1>2, <1>3, <1>5 DEF HeaderEnd

(* A head has one end. *)
LEMMA OneHeaderEnd ==
  ASSUME NEW a \in Seq(Octets), NEW e \in 1 .. Len(a), NEW f \in 1 .. Len(a),
         HeaderEnd(a, e), HeaderEnd(a, f)
  PROVE  e = f
BY DEF HeaderEnd

(* A message has one length.                                               *)
LEMMA OneLength ==
  ASSUME NEW a, NEW e, NEW n \in Nat, Lengths(a, e) = {n}
  PROVE  SaysLength(a, e) /\ ContentLength(a, e) = n
BY ValueAssumption DEF SaysLength, ContentLength

(* What the peer writes is a sequence of octets.                           *)
LEMMA ItemTypes ==
  ASSUME NEW m \in Items
  PROVE  /\ m \in Seq(Octets)
         /\ m \in Messages \cup Malformed => Len(m) > 3 /\ ~LineEndAt(m, 1)
         /\ Len(m) > 1
<1>1. ASSUME m \in Messages
      PROVE  m \in Seq(Octets) /\ Len(m) > 3 /\ ~LineEndAt(m, 1)
  <2>1. PICK end \in 1 .. Len(m) : HeaderEnd(m, end)
    BY <1>1, MessagesAssumption
  <2>. QED
    BY <1>1, <2>1, MessagesAssumption DEF HeaderEnd, SeparatorAt, LineEndAt
<1>2. ASSUME m \in Malformed
      PROVE  m \in Seq(Octets) /\ Len(m) > 3 /\ ~LineEndAt(m, 1)
  BY <1>2, MalformedAssumption
<1>3. ASSUME m = KeepAlive
      PROVE  m \in Seq(Octets) /\ Len(m) = 2
  BY <1>3, OctetsAssumption DEF KeepAlive
<1>4. KeepAlive \notin Messages \cup Malformed
  <2>. SUFFICES ASSUME KeepAlive \in Messages \cup Malformed PROVE FALSE
    OBVIOUS
  <2>1. Len(KeepAlive) = 2 /\ KeepAlive[1] = CR /\ KeepAlive[2] = LF
    BY DEF KeepAlive
  <2>2. ~LineEndAt(KeepAlive, 1)
    BY MessagesAssumption, MalformedAssumption
  <2>. QED
    BY <2>1, <2>2 DEF LineEndAt
<1>5. CASE m \in Messages \cup Malformed
  BY <1>1, <1>2, <1>5
<1>6. CASE m = KeepAlive
  <2>1. m \notin Messages /\ m \notin Malformed
    BY <1>4, <1>6
  <2>2. m \in Seq(Octets) /\ Len(m) = 2
    BY <1>3, <1>6
  <2>. QED
    BY <2>1, <2>2
<1>. QED
  BY <1>5, <1>6 DEF Items

(* So the log of the peer is made of positions, items and messages.        *)
LEMMA LogTypes ==
  ASSUME NEW log \in Log
  PROVE  /\ Len(log) \in Nat
         /\ \A k \in 1 .. Len(log) :
              /\ log[k].item \in Items
              /\ log[k].end \in Nat
              /\ log[k].messages \in Seq(Messages)
         /\ \A k \in 0 .. Len(log) :
              EndOf(log, k) \in Nat /\ MessagesUpTo(log, k) \in Seq(Messages)
<1>1. Len(log) \in Nat
  BY DEF Log
<1>2. \A k \in 1 .. Len(log) : log[k] \in [item : Items, end : Nat, messages : Seq(Messages)]
  BY ElementOfSeq DEF Log
<1>3. \A k \in 1 .. Len(log) :
        /\ log[k].item \in Items
        /\ log[k].end \in Nat
        /\ log[k].messages \in Seq(Messages)
  BY <1>2
<1>4. \A k \in 0 .. Len(log) :
        EndOf(log, k) \in Nat /\ MessagesUpTo(log, k) \in Seq(Messages)
  <2>. TAKE k \in 0 .. Len(log)
  <2>1. CASE k = 0
    BY <2>1 DEF EndOf, MessagesUpTo
  <2>2. CASE k \in 1 .. Len(log)
    BY <1>3, <2>2 DEF EndOf, MessagesUpTo
  <2>. QED
    BY <1>1, <2>1, <2>2
<1>. QED
  BY <1>1, <1>3, <1>4

(* How far the next item reaches.                                          *)
LEMMA NextEnd ==
  ASSUME NEW log \in Log, AddsUp(log), NEW c \in 0 .. Len(log) - 1
  PROVE  /\ c + 1 \in 1 .. Len(log)
         /\ EndOf(log, c + 1) = EndOf(log, c) + Len(log[c + 1].item)
         /\ MessagesUpTo(log, c + 1) =
              IF log[c + 1].item \in Messages THEN Append(MessagesUpTo(log, c), log[c + 1].item)
                                              ELSE MessagesUpTo(log, c)
<1>1. c + 1 \in 1 .. Len(log) /\ c + 1 - 1 = c /\ c + 1 # 0
  BY LogTypes
<1>2. EndOf(log, c + 1) = log[c + 1].end /\ MessagesUpTo(log, c + 1) = log[c + 1].messages
  BY <1>1 DEF EndOf, MessagesUpTo
<1>. QED
  BY <1>1, <1>2 DEF AddsUp

-----------------------------------------------------------------------------
(* What the buffer holds *)

(* The buffer starts with the next item, or with its beginning.            *)
LEMMA NextItem ==
  ASSUME NEW log \in Log, NEW b \in Seq(Octets), NEW w \in Seq(Octets),
         NEW c \in 0 .. Len(log) - 1, Aligned(log, b, w, c)
  PROVE  /\ log[c + 1].item \in Items
         /\ \A i \in 1 .. Len(log[c + 1].item) : i <= Len(b) => b[i] = log[c + 1].item[i]
<1>1. c + 1 \in 1 .. Len(log) /\ Len(log) \in Nat /\ c + 1 \in c + 1 .. Len(log)
  BY LogTypes
<1>2. log[c + 1].item \in Items /\ EndOf(log, c) \in Nat
  BY <1>1, LogTypes
<1>3. c + 1 - 1 = c
  BY <1>1
<1>4. \A i \in 1 .. Len(log[c + 1].item) :
        PendingAt(b, w, EndOf(log, c) - EndOf(log, c) + i) = log[c + 1].item[i]
  BY <1>1, <1>3 DEF Aligned
<1>5. \A i \in 1 .. Len(log[c + 1].item) : EndOf(log, c) - EndOf(log, c) + i = i
  BY <1>2, ItemTypes
<1>. QED
  BY <1>2, <1>4, <1>5 DEF PendingAt

(* While octets are pending, so is an item.                                *)
LEMMA SomethingIsPending ==
  ASSUME NEW log \in Log, NEW b \in Seq(Octets), NEW w \in Seq(Octets),
         NEW c \in 0 .. Len(log), Aligned(log, b, w, c), Len(b) > 0
  PROVE  c \in 0 .. Len(log) - 1
<1>1. Len(w) \in Nat /\ Len(b) \in Nat /\ Len(log) \in Nat /\ EndOf(log, c) \in Nat
  BY LogTypes
<1>. QED
  BY <1>1 DEF Aligned

(* Once the whole item has arrived, readMessage() sees its kind.           *)
LEMMA ItemIsSeen ==
  ASSUME NEW m \in Items, buffer \in Seq(Octets), Len(m) <= Len(buffer),
         \A i \in 1 .. Len(m) : buffer[i] = m[i]
  PROVE  /\ m = KeepAlive => LineEndAt(buffer, 1)
         /\ m \in Messages =>
              /\ ~LineEndAt(buffer, 1)
              /\ \E end \in 1 .. Len(buffer) :
                   HeaderEnd(buffer, end) /\ SaysLength(buffer, end) /\ MessageEnd(end) = Len(m)
         /\ m \in Malformed =>
              /\ ~LineEndAt(buffer, 1)
              /\ \E end \in 1 .. Len(buffer) : HeaderEnd(buffer, end) /\ ~SaysLength(buffer, end)
<1>. USE ItemTypes
<1>1. m = KeepAlive => LineEndAt(buffer, 1)
  BY DEF KeepAlive, LineEndAt
<1>2. ASSUME m \in Messages \cup Malformed
      PROVE  ~LineEndAt(buffer, 1)
  BY <1>2 DEF LineEndAt
<1>3. ASSUME m \in Messages
      PROVE  \E end \in 1 .. Len(buffer) :
               HeaderEnd(buffer, end) /\ SaysLength(buffer, end) /\ MessageEnd(end) = Len(m)
  <2>1. PICK end \in 1 .. Len(m) : HeaderEnd(m, end) /\ Lengths(m, end) = {Len(m) - end - 3}
    BY <1>3, MessagesAssumption
  <2>2. end + 3 <= Len(m)
    BY <2>1 DEF HeaderEnd, SeparatorAt, LineEndAt
  <2>3. HeaderEnd(buffer, end) /\ Lengths(buffer, end) = {Len(m) - end - 3}
    BY <2>1, <2>2, SameHead
  <2>4. Len(m) - end - 3 \in Nat
    BY <2>2
  <2>5. SaysLength(buffer, end) /\ ContentLength(buffer, end) = Len(m) - end - 3
    BY <2>3, <2>4, OneLength
  <2>6. end \in 1 .. Len(buffer) /\ MessageEnd(end) = Len(m)
    BY <2>2, <2>5 DEF MessageEnd
  <2>. QED
    BY <2>3, <2>5, <2>6
<1>4. ASSUME m \in Malformed
      PROVE  \E end \in 1 .. Len(buffer) : HeaderEnd(buffer, end) /\ ~SaysLength(buffer, end)
  <2>. DEFINE end == Len(m) - 3
  <2>1. end \in 1 .. Len(m) /\ HeaderEnd(m, end) /\ ~SaysLength(m, end)
    BY <1>4, MalformedAssumption
  <2>2. HeaderEnd(buffer, end) /\ Lengths(buffer, end) = Lengths(m, end)
    BY <2>1, SameHead
  <2>. QED
    BY <2>1, <2>2 DEF SaysLength
<1>. QED
  BY <1>1, <1>2, <1>3, <1>4

(* A head that readMessage() sees is that of an item whose head is there.  *)
LEMMA HeadIsThere ==
  ASSUME NEW m \in Messages \cup Malformed, buffer \in Seq(Octets),
         \A i \in 1 .. Len(m) : i <= Len(buffer) => buffer[i] = m[i],
         NEW end \in 1 .. Len(buffer), HeaderEnd(buffer, end)
  PROVE  /\ m \in Messages => SaysLength(buffer, end) /\ MessageEnd(end) = Len(m)
         /\ m \in Malformed => ~SaysLength(buffer, end) /\ Len(m) <= Len(buffer)
<1>. m \in Seq(Octets)
  BY ItemTypes DEF Items
<1>1. ASSUME NEW e \in 1 .. Len(m), HeaderEnd(m, e)
      PROVE  end = e /\ Lengths(buffer, end) = Lengths(m, e)
  <2>1. e + 3 <= Len(m) /\ end + 3 <= Len(buffer)
    BY <1>1 DEF HeaderEnd, SeparatorAt, LineEndAt
  <2>2. ~(end < e)
    <3>. SUFFICES ASSUME end < e PROVE FALSE
      OBVIOUS
    <3>. Len(m) \in Nat /\ Len(buffer) \in Nat
      OBVIOUS
    <3>1. end + 3 <= Len(m)
      BY <2>1
    <3>2. \A j \in {end, end + 1, end + 2, end + 3} : j \in 1 .. Len(m) /\ j <= Len(buffer)
      BY <2>1, <3>1
    <3>3. /\ end + 2 + 1 <= Len(m) /\ end + 2 + 1 = end + 3
          /\ m[end] = buffer[end] /\ m[end + 1] = buffer[end + 1]
          /\ m[end + 2] = buffer[end + 2] /\ m[end + 3] = buffer[end + 3]
      BY <3>1, <3>2
    <3>4. SeparatorAt(m, end)
      BY <3>3 DEF HeaderEnd, SeparatorAt, LineEndAt
    <3>. QED
      BY <1>1, <3>4 DEF HeaderEnd
  <2>3. e + 3 <= Len(buffer)
    BY <2>1, <2>2
  <2>4. HeaderEnd(buffer, e) /\ Lengths(buffer, e) = Lengths(m, e)
    BY <1>1, <2>3, SameHead
  <2>5. e \in 1 .. Len(buffer)
    BY <2>3
  <2>. QED
    BY <2>4, <2>5, OneHeaderEnd
<1>2. ASSUME m \in Messages
      PROVE  SaysLength(buffer, end) /\ MessageEnd(end) = Len(m)
  <2>1. PICK e \in 1 .. Len(m) : HeaderEnd(m, e) /\ Lengths(m, e) = {Len(m) - e - 3}
    BY <1>2, MessagesAssumption
  <2>2. end = e /\ Lengths(buffer, end) = {Len(m) - end - 3}
    BY <1>1, <2>1
  <2>3. Len(m) - end - 3 \in Nat
    BY <2>1, <2>2 DEF HeaderEnd, SeparatorAt, LineEndAt
  <2>4. SaysLength(buffer, end) /\ ContentLength(buffer, end) = Len(m) - end - 3
    BY <2>2, <2>3, OneLength
  <2>. QED
    BY <2>4 DEF MessageEnd
<1>3. ASSUME m \in Malformed
      PROVE  ~SaysLength(buffer, end) /\ Len(m) <= Len(buffer)
  <2>. DEFINE e == Len(m) - 3
  <2>1. e \in 1 .. Len(m) /\ HeaderEnd(m, e) /\ ~SaysLength(m, e)
    BY <1>3, MalformedAssumption
  <2>2. end = e /\ Lengths(buffer, end) = Lengths(m, e)
    BY <1>1, <2>1
  <2>. QED
    BY <2>1, <2>2 DEF SaysLength, HeaderEnd, SeparatorAt, LineEndAt
<1>. QED
  BY <1>2, <1>3

-----------------------------------------------------------------------------
(* How the log, the buffer and the wire change together *)

(* What is left of a sequence of octets is one.                            *)
LEMMA RestOfSeq ==
  ASSUME NEW s \in Seq(Octets), NEW n \in 0 .. Len(s)
  PROVE  /\ SubSeq(s, n + 1, Len(s)) \in Seq(Octets)
         /\ Len(SubSeq(s, n + 1, Len(s))) = Len(s) - n
         /\ \A j \in 1 .. Len(SubSeq(s, n + 1, Len(s))) : SubSeq(s, n + 1, Len(s))[j] = s[j + n]
<1>1. /\ Len(s) \in Nat /\ n \in Nat /\ n + 1 \in Int /\ Len(s) \in Int
      /\ \A i \in n + 1 .. Len(s) : s[i] \in Octets
  BY ElementOfSeq
<1>. DEFINE m == n + 1
<1>2. m \in Int /\ \A i \in m .. Len(s) : s[i] \in Octets
  BY <1>1
<1>. HIDE DEF m
<1>3. /\ SubSeq(s, m, Len(s)) \in Seq(Octets)
      /\ Len(SubSeq(s, m, Len(s))) = IF m <= Len(s) THEN Len(s) - m + 1 ELSE 0
      /\ \A i \in 1 .. Len(s) - m + 1 : SubSeq(s, m, Len(s))[i] = s[m + i - 1]
  BY <1>1, <1>2, SubSeqProperties
<1>4. m = n + 1
  BY DEF m
<1>5. Len(SubSeq(s, m, Len(s))) = Len(s) - n
  BY <1>1, <1>3, <1>4
<1>6. \A j \in 1 .. Len(s) - n : j \in 1 .. Len(s) - m + 1 /\ m + j - 1 = j + n
  BY <1>1, <1>4
<1>7. \A j \in 1 .. Len(s) - n : SubSeq(s, m, Len(s))[j] = s[j + n]
  BY <1>3, <1>6
<1>. QED
  BY <1>3, <1>4, <1>5, <1>7

(* The next item is taken off the buffer.                                  *)
LEMMA Advance ==
  ASSUME NEW log \in Log, AddsUp(log), NEW b \in Seq(Octets), NEW w \in Seq(Octets),
         NEW c \in 0 .. Len(log) - 1, Aligned(log, b, w, c),
         NEW m, m = log[c + 1].item, Len(m) <= Len(b)
  PROVE  /\ SubSeq(b, Len(m) + 1, Len(b)) \in Seq(Octets)
         /\ Aligned(log, SubSeq(b, Len(m) + 1, Len(b)), w, c + 1)
<1>1. /\ c \in Nat /\ c + 1 \in 1 .. Len(log) /\ Len(log) \in Nat
      /\ m \in Seq(Octets) /\ Len(m) \in Nat /\ Len(b) \in Nat /\ Len(w) \in Nat
      /\ EndOf(log, c) \in Nat /\ EndOf(log, c + 1) \in Nat
  BY LogTypes, ItemTypes
<1>2. EndOf(log, c + 1) = EndOf(log, c) + Len(m)
  BY NextEnd
<1>. DEFINE rest == SubSeq(b, Len(m) + 1, Len(b))
<1>3. /\ rest \in Seq(Octets) /\ Len(rest) = Len(b) - Len(m)
      /\ \A j \in 1 .. Len(rest) : rest[j] = b[j + Len(m)]
  <2>1. Len(m) \in 0 .. Len(b)
    BY <1>1
  <2>. QED
    BY <2>1, RestOfSeq
<1>. HIDE DEF rest
<1>4. ASSUME NEW j \in Nat, j > 0
      PROVE  PendingAt(rest, w, j) = PendingAt(b, w, j + Len(m))
  <2>1. CASE j <= Len(rest)
    <3>1. j \in 1 .. Len(rest) /\ j + Len(m) <= Len(b)
      BY <1>1, <1>3, <1>4, <2>1
    <3>. QED
      BY <1>3, <2>1, <3>1 DEF PendingAt
  <2>2. CASE ~(j <= Len(rest))
    <3>1. j - Len(rest) = j + Len(m) - Len(b) /\ ~(j + Len(m) <= Len(b))
      BY <1>1, <1>3, <2>2
    <3>. QED
      BY <1>1, <1>3, <2>2, <3>1 DEF PendingAt
  <2>. QED
    BY <2>1, <2>2
<1>5. EndOf(log, c + 1) + Len(rest) + Len(w) = EndOf(log, Len(log))
  BY <1>1, <1>2, <1>3 DEF Aligned
<1>6. ASSUME NEW k \in c + 2 .. Len(log), NEW i \in 1 .. Len(log[k].item)
      PROVE  PendingAt(rest, w, EndOf(log, k - 1) - EndOf(log, c + 1) + i) = log[k].item[i]
  <2>1. /\ k - 1 \in 0 .. Len(log) /\ c + 1 \in 0 .. Len(log) /\ c + 1 <= k - 1
        /\ k \in c + 1 .. Len(log) /\ k \in 1 .. Len(log)
    BY <1>1
  <2>2. EndOf(log, k - 1) \in Nat /\ EndOf(log, c + 1) <= EndOf(log, k - 1)
    BY <2>1, LogTypes DEF AddsUp
  <2>3. i \in Nat /\ i > 0
    BY <2>1, LogTypes, ItemTypes
  <2>. DEFINE j == EndOf(log, k - 1) - EndOf(log, c + 1) + i
  <2>4. j \in Nat /\ j > 0 /\ j + Len(m) = EndOf(log, k - 1) - EndOf(log, c) + i
    <3>. DEFINE from == EndOf(log, c)
                next == EndOf(log, c + 1)
                to   == EndOf(log, k - 1)
                length == Len(m)
    <3>1. from \in Nat /\ next \in Nat /\ to \in Nat /\ length \in Nat /\ next <= to
          /\ next = from + length /\ i \in Nat /\ i > 0
      BY <1>1, <1>2, <2>2, <2>3
    <3>. HIDE DEF from, next, to, length
    <3>2. to - next + i \in Nat /\ to - next + i > 0 /\ to - next + i + length = to - from + i
      BY <3>1
    <3>. QED
      BY <3>2 DEF from, next, to, length
  <2>5. PendingAt(b, w, EndOf(log, k - 1) - EndOf(log, c) + i) = log[k].item[i]
    BY <2>1 DEF Aligned
  <2>. HIDE DEF j
  <2>6. PendingAt(rest, w, j) = log[k].item[i]
    BY <1>4, <2>4, <2>5
  <2>. QED
    BY <2>6 DEF j
<1>7. \A k \in c + 1 + 1 .. Len(log) : k \in c + 2 .. Len(log)
  BY <1>1
<1>8. Aligned(log, rest, w, c + 1)
  BY <1>5, <1>6, <1>7 DEF Aligned
<1>. QED
  BY <1>3, <1>8 DEF rest

(* Where the octets of the items that have not been read are.              *)
LEMMA PositionIsPending ==
  ASSUME NEW log \in Log, AddsUp(log), NEW b \in Seq(Octets), NEW w \in Seq(Octets),
         NEW c \in 0 .. Len(log), Aligned(log, b, w, c),
         NEW k \in c + 1 .. Len(log), NEW i \in 1 .. Len(log[k].item)
  PROVE  EndOf(log, k - 1) - EndOf(log, c) + i \in 1 .. Len(b) + Len(w)
<1>0. c \in Nat /\ Len(log) \in Nat /\ Len(b) \in Nat /\ Len(w) \in Nat /\ k \in Nat
  BY LogTypes
<1>1. /\ k \in 1 .. Len(log) /\ k - 1 \in 0 .. Len(log) - 1 /\ k - 1 \in 0 .. Len(log)
      /\ k \in 0 .. Len(log) /\ c <= k - 1 /\ Len(log) \in 0 .. Len(log) /\ k <= Len(log)
      /\ k - 1 + 1 = k
  BY <1>0
<1>2. /\ EndOf(log, c) \in Nat /\ EndOf(log, k - 1) \in Nat /\ EndOf(log, k) \in Nat
      /\ EndOf(log, Len(log)) \in Nat /\ Len(log[k].item) \in Nat
  <2>1. log[k].item \in Items
    BY <1>1, LogTypes
  <2>2. log[k].item \in Seq(Octets)
    BY <2>1, ItemTypes
  <2>. QED
    BY <1>1, <2>2, LogTypes
<1>3. EndOf(log, c) <= EndOf(log, k - 1) /\ EndOf(log, k) <= EndOf(log, Len(log))
  BY <1>1 DEF AddsUp
<1>4. EndOf(log, k) = EndOf(log, k - 1) + Len(log[k].item)
  BY <1>1, NextEnd
<1>5. EndOf(log, c) + Len(b) + Len(w) = EndOf(log, Len(log))
  BY DEF Aligned
<1>6. i \in Nat /\ i > 0 /\ i <= Len(log[k].item)
  BY <1>2
<1>7. \A from, to, next, last, length, rest, j \in Nat :
        from <= to /\ next = to + length /\ next <= last /\ from + rest = last /\ 0 < j /\ j <= length
          => to - from + j \in 1 .. rest
  OBVIOUS
<1>8. Len(b) + Len(w) \in Nat /\ EndOf(log, c) + (Len(b) + Len(w)) = EndOf(log, Len(log))
  BY <1>0, <1>2, <1>5
<1>. QED
  BY <1>2, <1>3, <1>4, <1>6, <1>7, <1>8

(* Octets move from the wire to the buffer.                                *)
LEMMA Arrive ==
  ASSUME NEW log \in Log, AddsUp(log), NEW b \in Seq(Octets), NEW w \in Seq(Octets),
         NEW c \in 0 .. Len(log), Aligned(log, b, w, c), NEW size \in 1 .. Len(w)
  PROVE  /\ b \o SubSeq(w, 1, size) \in Seq(Octets)
         /\ SubSeq(w, size + 1, Len(w)) \in Seq(Octets)
         /\ Aligned(log, b \o SubSeq(w, 1, size), SubSeq(w, size + 1, Len(w)), c)
<1>. DEFINE chunk == SubSeq(w, 1, size)
            more  == b \o chunk
            rest  == SubSeq(w, size + 1, Len(w))
<1>1. /\ Len(w) \in Nat /\ Len(b) \in Nat /\ Len(log) \in Nat /\ size \in Nat /\ c \in Nat
      /\ EndOf(log, c) \in Nat
  BY LogTypes
<1>2. /\ chunk \in Seq(Octets) /\ Len(chunk) = size
      /\ \A j \in 1 .. size : chunk[j] = w[j]
  <2>1. 1 \in 1 .. Len(w) + 1 /\ size \in 1 - 1 .. Len(w) /\ \A j \in 1 .. size : 1 + j - 1 = j
    BY <1>1
  <2>2. chunk \in Seq(Octets) /\ Len(chunk) = size
    BY <1>1, <2>1, SubSeqProperties
  <2>. QED
    BY <1>1, <2>1, <2>2, SubSeqProperties
<1>3. /\ rest \in Seq(Octets) /\ Len(rest) = Len(w) - size
      /\ \A j \in 1 .. Len(rest) : rest[j] = w[j + size]
  <2>1. size \in 0 .. Len(w)
    BY <1>1
  <2>. QED
    BY <2>1, RestOfSeq
<1>. HIDE DEF chunk, rest
<1>4. /\ more \in Seq(Octets) /\ Len(more) = Len(b) + size
      /\ \A j \in 1 .. Len(b) : more[j] = b[j]
      /\ \A j \in Len(b) + 1 .. Len(b) + size : more[j] = w[j - Len(b)]
  <2>1. more \in Seq(Octets) /\ Len(more) = Len(b) + size
    BY <1>1, <1>2, ConcatProperties
  <2>2. \A j \in 1 .. Len(more) : more[j] = IF j <= Len(b) THEN b[j] ELSE chunk[j - Len(b)]
    BY <1>1, <1>2, ConcatProperties
  <2>3. \A j \in Len(b) + 1 .. Len(b) + size : j - Len(b) \in 1 .. size
    BY <1>1
  <2>. QED
    BY <1>1, <1>2, <2>1, <2>2, <2>3
<1>. HIDE DEF more
<1>5. ASSUME NEW j \in Int, 0 < j
      PROVE  PendingAt(more, rest, j) = PendingAt(b, w, j) \/ j > Len(b) + Len(w)
  <2>1. CASE j <= Len(b)
    BY <1>1, <1>4, <1>5, <2>1 DEF PendingAt
  <2>2. CASE Len(b) < j /\ j <= Len(b) + size
    BY <1>1, <1>4, <1>5, <2>2 DEF PendingAt
  <2>3. CASE Len(b) + size < j /\ j <= Len(b) + Len(w)
    <3>1. j - Len(more) \in 1 .. Len(rest) /\ j - Len(more) + size = j - Len(b)
      BY <1>1, <1>3, <1>4, <2>3
    <3>2. PendingAt(more, rest, j) = rest[j - Len(more)]
      BY <1>1, <1>4, <2>3 DEF PendingAt
    <3>3. PendingAt(b, w, j) = w[j - Len(b)]
      BY <1>1, <2>3 DEF PendingAt
    <3>. QED
      BY <1>3, <3>1, <3>2, <3>3
  <2>. QED
    BY <1>1, <2>1, <2>2, <2>3
<1>6. EndOf(log, c) + Len(more) + Len(rest) = EndOf(log, Len(log))
  BY <1>1, <1>3, <1>4 DEF Aligned
<1>7. ASSUME NEW k \in c + 1 .. Len(log), NEW i \in 1 .. Len(log[k].item)
      PROVE  PendingAt(more, rest, EndOf(log, k - 1) - EndOf(log, c) + i) = log[k].item[i]
  <2>1. /\ EndOf(log, k - 1) - EndOf(log, c) + i \in 1 .. Len(b) + Len(w)
    BY PositionIsPending
  <2>2. PendingAt(b, w, EndOf(log, k - 1) - EndOf(log, c) + i) = log[k].item[i]
    BY DEF Aligned
  <2>. DEFINE j == EndOf(log, k - 1) - EndOf(log, c) + i
  <2>. HIDE DEF j
  <2>3. j \in 1 .. Len(b) + Len(w) /\ PendingAt(b, w, j) = log[k].item[i]
    BY <2>1, <2>2 DEF j
  <2>4. PendingAt(more, rest, j) = log[k].item[i]
    BY <1>1, <1>5, <2>3
  <2>. QED
    BY <2>4 DEF j
<1>8. Aligned(log, more, rest, c)
  BY <1>6, <1>7 DEF Aligned
<1>. QED
  BY <1>3, <1>4, <1>8 DEF more, rest, chunk

(* The peer writes one more item.                                          *)
Entry(log, item) ==
  [item     |-> item,
   end      |-> EndOf(log, Len(log)) + Len(item),
   messages |-> IF item \in Messages THEN Append(MessagesUpTo(log, Len(log)), item)
                                     ELSE MessagesUpTo(log, Len(log))]
Extended(log, item) == Append(log, Entry(log, item))

(* One more item at the end of the log leaves the entries before it alone, and
   the longer log adds up again. *)
LEMMA Extend ==
  ASSUME NEW log \in Log, AddsUp(log), NEW item \in Items
  PROVE  LET more == Extended(log, item)
         IN  /\ more \in Log /\ Len(more) = Len(log) + 1
             /\ \A k \in 1 .. Len(log) : more[k] = log[k]
             /\ more[Len(log) + 1].item = item
             /\ \A k \in 0 .. Len(log) :
                  EndOf(more, k) = EndOf(log, k) /\ MessagesUpTo(more, k) = MessagesUpTo(log, k)
             /\ EndOf(more, Len(log) + 1) = EndOf(log, Len(log)) + Len(item)
             /\ AddsUp(more)
<1>. DEFINE n     == Len(log)
            entry == Entry(log, item)
            more  == Extended(log, item)
<1>1. /\ n \in Nat /\ item \in Seq(Octets) /\ Len(item) \in Nat
      /\ EndOf(log, n) \in Nat /\ MessagesUpTo(log, n) \in Seq(Messages)
      /\ \A k \in 0 .. n : EndOf(log, k) \in Nat
  BY LogTypes, ItemTypes
<1>2. /\ entry \in [item : Items, end : Nat, messages : Seq(Messages)]
      /\ entry.item = item /\ entry.end = EndOf(log, n) + Len(item)
      /\ entry.messages = IF item \in Messages THEN Append(MessagesUpTo(log, n), item)
                                               ELSE MessagesUpTo(log, n)
  BY <1>1 DEF Entry
<1>. HIDE DEF entry
<1>3. /\ more \in Log /\ Len(more) = n + 1
      /\ \A k \in 1 .. n : more[k] = log[k]
      /\ more[n + 1] = entry
  <2>1. more = Append(log, entry)
    BY DEF Extended, entry
  <2>. QED
    BY <1>1, <1>2, <2>1, AppendProperties DEF Log
<1>. HIDE DEF more
<1>4. \A k \in 0 .. n :
        EndOf(more, k) = EndOf(log, k) /\ MessagesUpTo(more, k) = MessagesUpTo(log, k)
  BY <1>1, <1>3 DEF EndOf, MessagesUpTo
<1>5. n + 1 # 0 /\ EndOf(more, n + 1) = EndOf(log, n) + Len(item)
  BY <1>1, <1>2, <1>3 DEF EndOf
<1>6. ASSUME NEW k \in 1 .. n + 1
      PROVE  /\ more[k].end = EndOf(more, k - 1) + Len(more[k].item)
             /\ more[k].messages =
                  IF more[k].item \in Messages THEN Append(MessagesUpTo(more, k - 1), more[k].item)
                                               ELSE MessagesUpTo(more, k - 1)
  <2>1. CASE k \in 1 .. n
    <3>1. k - 1 \in 0 .. n
      BY <1>1, <2>1
    <3>2. more[k] = log[k] /\ EndOf(more, k - 1) = EndOf(log, k - 1)
          /\ MessagesUpTo(more, k - 1) = MessagesUpTo(log, k - 1)
      BY <1>3, <1>4, <2>1, <3>1
    <3>. QED
      BY <2>1, <3>2 DEF AddsUp
  <2>2. CASE k = n + 1
    <3>1. k - 1 = n /\ n \in 0 .. n
      BY <1>1, <2>2
    <3>2. more[k] = entry /\ EndOf(more, k - 1) = EndOf(log, n)
          /\ MessagesUpTo(more, k - 1) = MessagesUpTo(log, n)
      BY <1>3, <1>4, <2>2, <3>1
    <3>. QED
      BY <1>2, <3>2
  <2>. QED
    BY <1>1, <2>1, <2>2
<1>7. ASSUME NEW j \in 0 .. n + 1, NEW k \in 0 .. n + 1, j <= k
      PROVE  EndOf(more, j) <= EndOf(more, k)
  <2>1. CASE k \in 0 .. n
    <3>1. j \in 0 .. n
      BY <1>1, <1>7, <2>1
    <3>. QED
      BY <1>4, <1>7, <2>1, <3>1 DEF AddsUp
  <2>2. CASE k = n + 1 /\ j \in 0 .. n
    <3>0. n \in 0 .. n /\ j <= n
      BY <1>1, <2>2
    <3>1. EndOf(log, j) <= EndOf(log, n) /\ EndOf(more, j) = EndOf(log, j) /\ EndOf(log, j) \in Nat
      BY <1>1, <1>4, <2>2, <3>0 DEF AddsUp
    <3>. QED
      BY <1>1, <1>5, <2>2, <3>1
  <2>3. CASE k = n + 1 /\ j = n + 1
    BY <1>1, <1>5, <2>3
  <2>. QED
    BY <1>1, <1>7, <2>1, <2>2, <2>3
<1>8. AddsUp(more)
  <2>1. Len(more) = n + 1
    BY <1>3
  <2>. QED
    BY <1>6, <1>7, <2>1 DEF AddsUp
<1>. QED
  BY <1>2, <1>3, <1>4, <1>5, <1>8 DEF more

(* Another item at the end of the log leaves buffer and wire aligned.      *)
LEMMA StillAligned ==
  ASSUME NEW log \in Log, AddsUp(log), NEW item \in Items, NEW more \in Log,
         Len(more) = Len(log) + 1, \A k \in 1 .. Len(log) : more[k] = log[k],
         more[Len(log) + 1].item = item,
         \A k \in 0 .. Len(log) : EndOf(more, k) = EndOf(log, k),
         EndOf(more, Len(log) + 1) = EndOf(log, Len(log)) + Len(item),
         NEW b \in Seq(Octets), NEW w \in Seq(Octets),
         NEW c \in 0 .. Len(log), Aligned(log, b, w, c)
  PROVE  w \o item \in Seq(Octets) /\ Aligned(more, b, w \o item, c)
<1>. DEFINE n == Len(log)
            longer == w \o item
<1>1. /\ n \in Nat /\ item \in Seq(Octets) /\ Len(item) \in Nat /\ c \in Nat
      /\ Len(b) \in Nat /\ Len(w) \in Nat /\ EndOf(log, n) \in Nat /\ EndOf(log, c) \in Nat
  BY LogTypes, ItemTypes
<1>2. /\ longer \in Seq(Octets) /\ Len(longer) = Len(w) + Len(item)
      /\ \A j \in 1 .. Len(longer) : longer[j] = IF j <= Len(w) THEN w[j] ELSE item[j - Len(w)]
  BY <1>1, ConcatProperties
<1>. HIDE DEF longer
<1>3. EndOf(log, c) + Len(b) + Len(w) = EndOf(log, n)
  BY DEF Aligned
<1>4. EndOf(more, c) + Len(b) + Len(longer) = EndOf(more, n + 1)
  BY <1>1, <1>2, <1>3
<1>5. ASSUME NEW j \in 1 .. Len(b) + Len(w)
      PROVE  PendingAt(b, longer, j) = PendingAt(b, w, j)
  <2>1. CASE j <= Len(b)
    BY <1>1, <2>1 DEF PendingAt
  <2>2. CASE ~(j <= Len(b))
    <3>1. j - Len(b) \in 1 .. Len(longer) /\ j - Len(b) <= Len(w)
      BY <1>1, <1>2, <2>2
    <3>2. longer[j - Len(b)] = w[j - Len(b)]
      BY <1>2, <3>1
    <3>. QED
      BY <2>2, <3>2 DEF PendingAt
  <2>. QED
    BY <2>1, <2>2
<1>6. ASSUME NEW k \in c + 1 .. n + 1, NEW i \in 1 .. Len(more[k].item)
      PROVE  PendingAt(b, longer, EndOf(more, k - 1) - EndOf(more, c) + i) = more[k].item[i]
  <2>1. CASE k \in c + 1 .. n
    <3>1. k \in 1 .. n /\ k - 1 \in 0 .. n
      BY <1>1, <2>1
    <3>2. more[k] = log[k] /\ EndOf(more, k - 1) = EndOf(log, k - 1) /\ EndOf(more, c) = EndOf(log, c)
      BY <3>1
    <3>3. i \in 1 .. Len(log[k].item)
      BY <3>2
    <3>4. EndOf(log, k - 1) - EndOf(log, c) + i \in 1 .. Len(b) + Len(w)
      BY <2>1, <3>3, PositionIsPending
    <3>5. PendingAt(b, w, EndOf(log, k - 1) - EndOf(log, c) + i) = log[k].item[i]
      BY <2>1, <3>3 DEF Aligned
    <3>. QED
      BY <1>5, <3>2, <3>4, <3>5
  <2>2. CASE k = n + 1
    <3>1. k - 1 = n /\ n \in 0 .. n
      BY <1>1, <2>2
    <3>2. more[k].item = item /\ EndOf(more, k - 1) = EndOf(log, n) /\ EndOf(more, c) = EndOf(log, c)
      BY <2>2, <3>1
    <3>3. i \in 1 .. Len(item)
      BY <3>2
    <3>. DEFINE j == EndOf(log, n) - EndOf(log, c) + i
    <3>4. ~(j <= Len(b)) /\ j - Len(b) = Len(w) + i
      <4>. DEFINE from == EndOf(log, c)
                  to   == EndOf(log, n)
      <4>1. /\ from \in Nat /\ to \in Nat /\ from + Len(b) + Len(w) = to
            /\ i \in Nat /\ i > 0 /\ Len(b) \in Nat /\ Len(w) \in Nat
        BY <1>1, <1>3, <3>3
      <4>. HIDE DEF from, to
      <4>2. to - from = Len(b) + Len(w) /\ from <= to
        BY <4>1
      <4>3. ~(to - from + i <= Len(b)) /\ to - from + i - Len(b) = Len(w) + i
        BY <4>1, <4>2
      <4>4. j = to - from + i
        BY DEF from, to
      <4>. HIDE DEF j
      <4>. QED
        BY <4>1, <4>3, <4>4
    <3>5. Len(w) + i \in 1 .. Len(longer) /\ ~(Len(w) + i <= Len(w)) /\ Len(w) + i - Len(w) = i
      BY <1>1, <1>2, <3>3
    <3>6. longer[Len(w) + i] = item[i]
      BY <1>2, <3>5
    <3>. HIDE DEF j
    <3>7. PendingAt(b, longer, j) = item[i]
      BY <3>4, <3>6 DEF PendingAt
    <3>. QED
      BY <3>2, <3>7 DEF j
  <2>3. k \in c + 1 .. n \/ k = n + 1
    BY <1>1
  <2>. QED
    BY <2>1, <2>2, <2>3
<1>7. Aligned(more, b, longer, c)
  BY <1>4, <1>6 DEF Aligned
<1>. QED
  BY <1>2, <1>7 DEF longer

-----------------------------------------------------------------------------
(* The invariant *)

(* The types that follow from the invariant.                               *)
LEMMA Types ==
  ASSUME TypeOK
  PROVE  written \in Log /\ buffer \in Seq(Octets) /\ wire \in Seq(Octets)
BY DEF TypeOK, Log

(* The initial states satisfy the invariant.                               *)
LEMMA InitInv ==
  ASSUME Init
  PROVE  Inv
<1>1. wire = <<>> /\ buffer = <<>> /\ written = <<>> /\ messages = <<>>
      /\ receiving = FALSE /\ state = "open"
  BY DEF Init
<1>2. /\ wire \in Seq(Octets) /\ buffer \in Seq(Octets) /\ messages \in Seq(Messages)
      /\ written \in Seq([item : Items, end : Nat, messages : Seq(Messages)])
  BY <1>1
<1>3. Len(written) = 0 /\ Len(buffer) = 0 /\ Len(wire) = 0
  BY <1>1
<1>4. AddsUp(written)
  <2>1. 1 .. Len(written) = {} /\ 0 .. Len(written) = {0} /\ EndOf(written, 0) = 0
    BY <1>3 DEF EndOf
  <2>. QED
    BY <2>1 DEF AddsUp
<1>5. Reached(0)
  BY <1>1, <1>3 DEF Reached, Read, WorkedOff, Broken, Aligned, EndOf, MessagesUpTo
<1>. QED
  <2>1. TypeOK
    BY <1>1, <1>2 DEF TypeOK
  <2>2. 0 \in 0 .. Len(written)
    BY <1>3
  <2>. QED
    BY <1>1, <1>4, <1>5, <2>1, <2>2 DEF Inv

(* The peer writes an item: it goes to the end of the wire and of the log. *)
LEMMA WriteStep ==
  ASSUME Inv, NEW item \in Items, Write(item)
  PROVE  Inv'
<1>1. TypeOK /\ AddsUp(written) /\ (receiving => state = "open")
  BY DEF Inv
<1>2. PICK c \in 0 .. Len(written) : Reached(c)
  BY DEF Inv
<1>3. /\ wire' = wire \o item
      /\ buffer' = buffer /\ receiving' = receiving /\ state' = state /\ messages' = messages
  BY DEF Write
<1>4. written \in Log /\ buffer \in Seq(Octets) /\ wire \in Seq(Octets)
  BY <1>1, Types
<1>. DEFINE more == Extended(written, item)
<1>5. written' = more
  BY DEF Write, Extended, Entry
<1>7. /\ more \in Log /\ Len(more) = Len(written) + 1
      /\ \A k \in 1 .. Len(written) : more[k] = written[k]
      /\ more[Len(written) + 1].item = item
      /\ \A k \in 0 .. Len(written) :
           /\ EndOf(more, k) = EndOf(written, k)
           /\ MessagesUpTo(more, k) = MessagesUpTo(written, k)
      /\ EndOf(more, Len(written) + 1) = EndOf(written, Len(written)) + Len(item)
      /\ AddsUp(more)
  BY <1>1, <1>4, Extend
<1>. HIDE DEF more
<1>8. Aligned(written, buffer, wire, c)
  BY <1>2 DEF Reached, Read
<1>9. wire \o item \in Seq(Octets) /\ Aligned(more, buffer, wire \o item, c)
  BY <1>1, <1>4, <1>7, <1>8, StillAligned
<1>10. c \in Nat /\ Len(written) \in Nat /\ c <= Len(written)
  BY <1>4, LogTypes
<1>11. TypeOK'
  BY <1>1, <1>3, <1>5, <1>7, <1>9 DEF TypeOK, Log
<1>12. /\ messages' = MessagesUpTo(more, c)
       /\ \A k \in 1 .. c : more[k].item \notin Malformed
  <2>1. \A k \in 1 .. c : k \in 1 .. Len(written)
    BY <1>10
  <2>. QED
    BY <1>2, <1>3, <1>7, <1>10, <2>1 DEF Reached, Read
<1>13. Read(c)'
  BY <1>3, <1>5, <1>9, <1>12 DEF Read
<1>14. WorkedOff(c)'
  <2>1. CASE c < Len(written)
    <3>1. c + 1 \in 1 .. Len(written)
      BY <1>10, <2>1
    <3>2. more[c + 1] = written[c + 1]
      BY <1>7, <3>1
    <3>. QED
      BY <1>2, <1>3, <1>5, <2>1, <3>2 DEF Reached, WorkedOff
  <2>2. CASE c = Len(written)
    <3>1. EndOf(written, c) \in Nat /\ Len(buffer) \in Nat /\ Len(wire) \in Nat
      BY <1>4, LogTypes
    <3>2. EndOf(written, c) + Len(buffer) + Len(wire) = EndOf(written, c)
      BY <1>8, <2>2 DEF Aligned
    <3>3. Len(buffer) = 0
      BY <3>1, <3>2
    <3>4. Len(item) \in Nat /\ Len(item) > 1
      BY ItemTypes
    <3>. QED
      BY <1>3, <1>5, <1>7, <2>2, <3>3, <3>4 DEF WorkedOff
  <2>. QED
    BY <1>10, <2>1, <2>2
<1>15. Broken(c)'
  <2>1. CASE c < Len(written)
    <3>1. c + 1 \in 1 .. Len(written) /\ c < Len(written) + 1
      BY <1>10, <2>1
    <3>2. more[c + 1] = written[c + 1]
      BY <1>7, <3>1
    <3>. QED
      BY <1>2, <1>3, <1>5, <1>7, <3>1, <3>2 DEF Reached, Broken
  <2>2. CASE ~(c < Len(written))
    BY <1>2, <1>3, <2>2 DEF Reached, Broken
  <2>. QED
    BY <2>1, <2>2
<1>16. c \in 0 .. Len(written')
  BY <1>5, <1>7, <1>10
<1>. QED
  BY <1>1, <1>3, <1>5, <1>7, <1>11, <1>13, <1>14, <1>15, <1>16 DEF Inv, Reached

(* A chunk moves octets from the wire to the buffer.                       *)
LEMMA ReceiveStep ==
  ASSUME Inv, NEW size \in 1 .. Len(wire), Receive(size)
  PROVE  Inv'
<1>1. TypeOK /\ AddsUp(written)
  BY DEF Inv
<1>2. PICK c \in 0 .. Len(written) : Reached(c)
  BY DEF Inv
<1>3. /\ state = "open" /\ receiving' = TRUE
      /\ buffer' = buffer \o SubSeq(wire, 1, size) /\ wire' = SubSeq(wire, size + 1, Len(wire))
      /\ state' = state /\ messages' = messages /\ written' = written
  BY DEF Receive, Concat
<1>4. written \in Log /\ buffer \in Seq(Octets) /\ wire \in Seq(Octets)
  BY <1>1, Types
<1>5. Aligned(written, buffer, wire, c)
  BY <1>2 DEF Reached, Read
<1>6. /\ buffer' \in Seq(Octets) /\ wire' \in Seq(Octets)
      /\ Aligned(written, buffer', wire', c)
  BY <1>1, <1>3, <1>4, <1>5, Arrive
<1>7. TypeOK'
  BY <1>1, <1>3, <1>6 DEF TypeOK
<1>8. Read(c)'
  BY <1>2, <1>3, <1>6 DEF Reached, Read
<1>9. WorkedOff(c)' /\ Broken(c)'
  BY <1>3 DEF WorkedOff, Broken
<1>. QED
  BY <1>1, <1>3, <1>7, <1>8, <1>9 DEF Inv, Reached

(* readMessage() took the next item off the buffer.                        *)
LEMMA TakeStep ==
  ASSUME Inv, NEW c \in 0 .. Len(written) - 1, Reached(c), receiving,
         written[c + 1].item \notin Malformed,
         Len(written[c + 1].item) <= Len(buffer),
         buffer' = SubSeq(buffer, Len(written[c + 1].item) + 1, Len(buffer)),
         messages' = IF written[c + 1].item \in Messages
                       THEN Append(messages, written[c + 1].item) ELSE messages,
         UNCHANGED <<wire, receiving, state, written>>
  PROVE  Inv'
<1>1. TypeOK /\ AddsUp(written) /\ state = "open"
  BY DEF Inv
<1>2. written \in Log /\ buffer \in Seq(Octets) /\ wire \in Seq(Octets)
  BY <1>1, Types
<1>3. c \in Nat /\ Len(written) \in Nat /\ c + 1 \in 0 .. Len(written)
  BY <1>2, LogTypes
<1>4. Read(c)
  BY DEF Reached
<1>5. messages' = MessagesUpTo(written, c + 1) /\ messages' \in Seq(Messages)
  <2>1. messages' = MessagesUpTo(written, c + 1)
    BY <1>1, <1>2, <1>4, NextEnd DEF Read
  <2>. QED
    BY <1>2, <1>3, <2>1, LogTypes
<1>6. buffer' \in Seq(Octets) /\ Aligned(written, buffer', wire, c + 1)
  BY <1>1, <1>2, <1>4, Advance DEF Read
<1>7. \A k \in 1 .. c + 1 : written[k].item \notin Malformed
  <2>1. \A k \in 1 .. c + 1 : k \in 1 .. c \/ k = c + 1
    BY <1>3
  <2>. QED
    BY <1>4, <2>1 DEF Read
<1>8. TypeOK'
  BY <1>1, <1>5, <1>6 DEF TypeOK
<1>9. Read(c + 1)'
  BY <1>5, <1>6, <1>7 DEF Read
<1>10. WorkedOff(c + 1)' /\ Broken(c + 1)'
  BY <1>1 DEF WorkedOff, Broken
<1>. QED
  BY <1>1, <1>3, <1>8, <1>9, <1>10 DEF Inv, Reached

(* What readMessage() looks at is the next item.                           *)
LEMMA Looks ==
  ASSUME Inv, Len(buffer) > 0
  PROVE  \E c \in 0 .. Len(written) - 1 :
           /\ Reached(c) /\ written[c + 1].item \in Items
           /\ \A i \in 1 .. Len(written[c + 1].item) :
                i <= Len(buffer) => buffer[i] = written[c + 1].item[i]
<1>1. TypeOK /\ AddsUp(written)
  BY DEF Inv
<1>2. PICK c \in 0 .. Len(written) : Reached(c)
  BY DEF Inv
<1>3. written \in Log /\ buffer \in Seq(Octets) /\ wire \in Seq(Octets)
  BY <1>1, Types
<1>4. Aligned(written, buffer, wire, c)
  BY <1>2 DEF Reached, Read
<1>5. c \in 0 .. Len(written) - 1
  BY <1>3, <1>4, SomethingIsPending
<1>. QED
  BY <1>2, <1>3, <1>4, <1>5, NextItem

(* A keep-alive is skipped where one was written.                          *)
LEMMA SkipStep ==
  ASSUME Inv, SkipKeepAlive
  PROVE  Inv'
<1>1. /\ receiving /\ LineEndAt(buffer, 1) /\ buffer' = SubSeq(buffer, 3, Len(buffer))
      /\ UNCHANGED <<wire, receiving, state, messages, written>>
  BY DEF SkipKeepAlive, Skips
<1>2. buffer \in Seq(Octets) /\ Len(buffer) \in Nat /\ 2 <= Len(buffer) /\ Len(buffer) > 0
  BY <1>1 DEF LineEndAt, Inv, TypeOK
<1>3. PICK c \in 0 .. Len(written) - 1 :
        /\ Reached(c) /\ written[c + 1].item \in Items
        /\ \A i \in 1 .. Len(written[c + 1].item) :
             i <= Len(buffer) => buffer[i] = written[c + 1].item[i]
  BY <1>2, Looks
<1>. DEFINE m == written[c + 1].item
<1>4. m \notin Messages \cup Malformed
  <2>. SUFFICES ASSUME m \in Messages \cup Malformed PROVE FALSE
    OBVIOUS
  <2>1. m \in Items /\ Len(m) > 3 /\ ~LineEndAt(m, 1) /\ Len(m) \in Nat
    BY <1>3, ItemTypes
  <2>2. m[1] = buffer[1] /\ m[1 + 1] = buffer[1 + 1]
    BY <1>2, <1>3, <2>1
  <2>. QED
    BY <1>1, <2>1, <2>2 DEF LineEndAt
<1>5. m = KeepAlive
  BY <1>3, <1>4 DEF Items
<1>6. Len(m) = 2
  BY <1>5 DEF KeepAlive
<1>7. m \notin Messages /\ m \notin Malformed /\ Len(m) <= Len(buffer)
      /\ buffer' = SubSeq(buffer, Len(m) + 1, Len(buffer))
  BY <1>1, <1>2, <1>4, <1>6
<1>. HIDE DEF m
<1>. QED
  BY <1>1, <1>3, <1>7, TakeStep DEF m

(* The message or the malformed head that a separator in the buffer ends.  *)
LEMMA HeadStep ==
  ASSUME Inv, NEW end \in 1 .. Len(buffer), HeaderEnd(buffer, end), ~LineEndAt(buffer, 1)
  PROVE  \E c \in 0 .. Len(written) - 1 :
           /\ Reached(c)
           /\ written[c + 1].item \in Messages \cup Malformed
           /\ \A i \in 1 .. Len(written[c + 1].item) :
                i <= Len(buffer) => buffer[i] = written[c + 1].item[i]
           /\ written[c + 1].item \in Messages =>
                SaysLength(buffer, end) /\ MessageEnd(end) = Len(written[c + 1].item)
           /\ written[c + 1].item \in Malformed =>
                ~SaysLength(buffer, end) /\ Len(written[c + 1].item) <= Len(buffer)
<1>1. buffer \in Seq(Octets) /\ Len(buffer) \in Nat /\ Len(buffer) > 3
  BY DEF HeaderEnd, SeparatorAt, LineEndAt, Inv, TypeOK
<1>2. PICK c \in 0 .. Len(written) - 1 :
        /\ Reached(c) /\ written[c + 1].item \in Items
        /\ \A i \in 1 .. Len(written[c + 1].item) :
             i <= Len(buffer) => buffer[i] = written[c + 1].item[i]
  BY <1>1, Looks
<1>. DEFINE m == written[c + 1].item
<1>3. m # KeepAlive
  <2>. SUFFICES ASSUME m = KeepAlive PROVE FALSE
    OBVIOUS
  <2>1. Len(KeepAlive) = 2 /\ KeepAlive[1] = CR /\ KeepAlive[2] = LF
    BY DEF KeepAlive
  <2>2. buffer[1] = CR /\ buffer[2] = LF
    BY <1>1, <1>2, <2>1
  <2>. QED
    BY <1>1, <2>2 DEF LineEndAt
<1>4. m \in Messages \cup Malformed
  BY <1>2, <1>3 DEF Items
<1>. HIDE DEF m
<1>5. \A i \in 1 .. Len(m) : i <= Len(buffer) => buffer[i] = m[i]
  BY <1>2 DEF m
<1>6. /\ m \in Messages => SaysLength(buffer, end) /\ MessageEnd(end) = Len(m)
      /\ m \in Malformed => ~SaysLength(buffer, end) /\ Len(m) <= Len(buffer)
  BY <1>1, <1>4, <1>5, HeadIsThere
<1>. QED
  BY <1>2, <1>4, <1>6 DEF m

(* A message is read where one was written, to its end.                    *)
LEMMA ReadStep ==
  ASSUME Inv, NEW end \in 1 .. Len(buffer), ReadMessage(end)
  PROVE  Inv'
<1>1. /\ receiving /\ ~LineEndAt(buffer, 1) /\ HeaderEnd(buffer, end) /\ SaysLength(buffer, end)
      /\ Len(buffer) >= MessageEnd(end)
      /\ messages' = Append(messages, SubSeq(buffer, 1, MessageEnd(end)))
      /\ buffer' = SubSeq(buffer, MessageEnd(end) + 1, Len(buffer))
      /\ UNCHANGED <<wire, receiving, state, written>>
  BY DEF ReadMessage, Skips, KeepTheRest, Complete
<1>2. PICK c \in 0 .. Len(written) - 1 :
        /\ Reached(c)
        /\ written[c + 1].item \in Messages \cup Malformed
        /\ \A i \in 1 .. Len(written[c + 1].item) :
             i <= Len(buffer) => buffer[i] = written[c + 1].item[i]
        /\ written[c + 1].item \in Messages =>
             SaysLength(buffer, end) /\ MessageEnd(end) = Len(written[c + 1].item)
        /\ written[c + 1].item \in Malformed =>
             ~SaysLength(buffer, end) /\ Len(written[c + 1].item) <= Len(buffer)
  BY <1>1, HeadStep
<1>. DEFINE m == written[c + 1].item
<1>3. m \in Messages /\ m \notin Malformed /\ MessageEnd(end) = Len(m)
  BY <1>1, <1>2
<1>4. /\ m \in Seq(Octets) /\ Len(m) \in Nat /\ buffer \in Seq(Octets) /\ Len(buffer) \in Nat
      /\ Len(m) <= Len(buffer)
  <2>1. m \in Seq(Octets)
    BY <1>3, MessagesAssumption
  <2>2. buffer \in Seq(Octets)
    BY DEF Inv, TypeOK
  <2>3. Len(m) <= Len(buffer)
    <3>. HIDE DEF m
    <3>1. Len(buffer) >= Len(m) /\ Len(m) \in Nat /\ Len(buffer) \in Nat
      BY <1>1, <1>3, <2>1, <2>2
    <3>. QED
      BY <3>1
  <2>. QED
    BY <2>1, <2>2, <2>3
<1>5. \A i \in 1 .. Len(m) : buffer[i] = m[i]
  BY <1>2, <1>4
<1>. HIDE DEF m
<1>6. SubSeq(buffer, 1, Len(m)) = m
  <2>1. \A i \in 1 .. Len(m) : buffer[i] \in Octets
    BY <1>4
  <2>2. /\ SubSeq(buffer, 1, Len(m)) \in Seq(Octets)
        /\ Len(SubSeq(buffer, 1, Len(m))) = IF 1 <= Len(m) THEN Len(m) - 1 + 1 ELSE 0
        /\ \A i \in 1 .. Len(m) - 1 + 1 : SubSeq(buffer, 1, Len(m))[i] = buffer[1 + i - 1]
    BY <1>4, <2>1, SubSeqProperties
  <2>3. Len(SubSeq(buffer, 1, Len(m))) = Len(m)
    BY <1>4, <2>2
  <2>4. \A i \in 1 .. Len(m) : i \in 1 .. Len(m) - 1 + 1 /\ 1 + i - 1 = i
    BY <1>4
  <2>5. \A i \in 1 .. Len(m) : SubSeq(buffer, 1, Len(m))[i] = m[i]
    BY <1>5, <2>2, <2>4
  <2>. QED
    BY <1>4, <2>2, <2>3, <2>5, SeqEqual
<1>7. messages' = Append(messages, m) /\ buffer' = SubSeq(buffer, Len(m) + 1, Len(buffer))
  BY <1>1, <1>3, <1>6
<1>. QED
  BY <1>1, <1>2, <1>3, <1>4, <1>7, TakeStep DEF m

(* Only a malformed head is rejected.                                      *)
LEMMA RejectStep ==
  ASSUME Inv, NEW end \in 1 .. Len(buffer), RejectMalformed(end)
  PROVE  Inv'
<1>1. /\ ~LineEndAt(buffer, 1) /\ HeaderEnd(buffer, end) /\ ~SaysLength(buffer, end)
      /\ state' = "failed" /\ receiving' = FALSE
      /\ UNCHANGED <<wire, buffer, messages, written>>
  BY DEF RejectMalformed, Skips
<1>2. PICK c \in 0 .. Len(written) - 1 :
        /\ Reached(c)
        /\ written[c + 1].item \in Malformed
        /\ Len(written[c + 1].item) <= Len(buffer)
  BY <1>1, HeadStep
<1>3. TypeOK /\ AddsUp(written) /\ written \in Log
  BY Types DEF Inv
<1>4. c \in 0 .. Len(written) /\ c < Len(written)
  BY <1>3, LogTypes
<1>5. TypeOK'
  BY <1>1, <1>3 DEF TypeOK
<1>6. Read(c)'
  BY <1>1, <1>2 DEF Reached, Read
<1>7. WorkedOff(c)' /\ Broken(c)'
  BY <1>1, <1>2, <1>4 DEF WorkedOff, Broken
<1>. QED
  BY <1>1, <1>3, <1>4, <1>5, <1>6, <1>7 DEF Inv, Reached

(* The loop returns when the buffer holds no complete item.                *)
LEMMA ReturnStep ==
  ASSUME Inv, Return
  PROVE  Inv'
<1>1. /\ ~LineEndAt(buffer, 1) /\ receiving' = FALSE
      /\ \A end \in 1 .. Len(buffer) :
           HeaderEnd(buffer, end) => SaysLength(buffer, end) /\ ~(Len(buffer) >= MessageEnd(end))
      /\ UNCHANGED <<wire, buffer, state, messages, written>>
  BY DEF Return, Skips, Complete
<1>2. TypeOK /\ AddsUp(written)
  BY DEF Inv
<1>3. PICK c \in 0 .. Len(written) : Reached(c)
  BY DEF Inv
<1>4. written \in Log /\ buffer \in Seq(Octets) /\ wire \in Seq(Octets)
  BY <1>2, Types
<1>5. c < Len(written) => Len(buffer) < Len(written[c + 1].item)
  <2>. SUFFICES ASSUME c < Len(written), ~(Len(buffer) < Len(written[c + 1].item))
                PROVE  FALSE
    OBVIOUS
  <2>. DEFINE m == written[c + 1].item
  <2>1. c \in 0 .. Len(written) - 1
    BY <1>4, LogTypes
  <2>2. /\ m \in Items
        /\ \A i \in 1 .. Len(m) : i <= Len(buffer) => buffer[i] = m[i]
    BY <1>3, <1>4, <2>1, NextItem DEF Reached, Read
  <2>3. Len(m) \in Nat /\ Len(buffer) \in Nat /\ Len(m) <= Len(buffer)
    BY <1>4, <2>2, ItemTypes
  <2>. HIDE DEF m
  <2>4. \A i \in 1 .. Len(m) : buffer[i] = m[i]
    BY <2>2, <2>3
  <2>5. CASE m = KeepAlive
    BY <1>1, <1>4, <2>2, <2>3, <2>4, <2>5, ItemIsSeen
  <2>6. CASE m \in Messages
    <3>1. PICK end \in 1 .. Len(buffer) :
            HeaderEnd(buffer, end) /\ SaysLength(buffer, end) /\ MessageEnd(end) = Len(m)
      BY <1>4, <2>2, <2>3, <2>4, <2>6, ItemIsSeen
    <3>. QED
      BY <1>1, <2>3, <3>1
  <2>7. CASE m \in Malformed
    <3>1. PICK end \in 1 .. Len(buffer) : HeaderEnd(buffer, end) /\ ~SaysLength(buffer, end)
      BY <1>4, <2>2, <2>3, <2>4, <2>7, ItemIsSeen
    <3>. QED
      BY <1>1, <3>1
  <2>. QED
    BY <2>2, <2>5, <2>6, <2>7 DEF Items
<1>6. TypeOK'
  BY <1>1, <1>2 DEF TypeOK
<1>7. Read(c)' /\ Broken(c)'
  BY <1>1, <1>3 DEF Reached, Read, Broken
<1>8. WorkedOff(c)'
  BY <1>1, <1>5 DEF WorkedOff
<1>. QED
  BY <1>1, <1>2, <1>6, <1>7, <1>8 DEF Inv, Reached

(* dispose() ends the reading and changes nothing that has been read.      *)
LEMMA DisposeStep ==
  ASSUME Inv, Dispose
  PROVE  Inv'
<1>1. /\ state' = "disposed" /\ receiving' = FALSE
      /\ UNCHANGED <<wire, buffer, messages, written>>
  BY DEF Dispose
<1>2. TypeOK /\ AddsUp(written)
  BY DEF Inv
<1>3. PICK c \in 0 .. Len(written) : Reached(c)
  BY DEF Inv
<1>4. TypeOK'
  BY <1>1, <1>2 DEF TypeOK
<1>5. Read(c)'
  BY <1>1, <1>3 DEF Reached, Read
<1>6. WorkedOff(c)' /\ Broken(c)'
  BY <1>1 DEF WorkedOff, Broken
<1>. QED
  BY <1>1, <1>2, <1>4, <1>5, <1>6 DEF Inv, Reached

(* Every step keeps the invariant.                                         *)
LEMMA NextInv ==
  ASSUME Inv, [Next]_vars
  PROVE  Inv'
<1>1. CASE \E item \in Items : Write(item)
  BY <1>1, WriteStep
<1>2. CASE \E size \in 1 .. Len(wire) : Receive(size)
  BY <1>2, ReceiveStep
<1>3. CASE SkipKeepAlive
  BY <1>3, SkipStep
<1>4. CASE \E end \in 1 .. Len(buffer) : ReadMessage(end) \/ RejectMalformed(end)
  BY <1>4, ReadStep, RejectStep
<1>5. CASE Return
  BY <1>5, ReturnStep
<1>6. CASE Dispose
  BY <1>6, DisposeStep
<1>7. CASE UNCHANGED vars
  BY <1>7 DEF vars, Inv, TypeOK, Reached, Read, WorkedOff, Broken
<1>. QED
  BY <1>1, <1>2, <1>3, <1>4, <1>5, <1>6, <1>7 DEF Next

(* What the other theorems rest on: what has been read ends at the end of  *)
(* an item, and the rest is in the buffer and on the wire.                 *)
THEOREM Invariant == Spec => []Inv
<1>1. Init => Inv
  BY InitInv
<1>2. Inv /\ [Next]_vars => Inv'
  BY NextInv
<1>. QED
  BY <1>1, <1>2, PTL DEF Spec

-----------------------------------------------------------------------------
(* The theorems *)

(* No message is a malformed head.                                         *)
LEMMA NoMalformedMessage == Messages \cap Malformed = {}
<1>. SUFFICES ASSUME NEW m \in Messages, m \in Malformed PROVE FALSE
  OBVIOUS
<1>1. m \in Seq(Octets) /\ Len(m) \in Nat /\ Len(m) > 3
  BY MalformedAssumption
<1>2. PICK end \in 1 .. Len(m) : HeaderEnd(m, end) /\ Lengths(m, end) = {Len(m) - end - 3}
  BY MessagesAssumption
<1>3. end = Len(m) - 3
  <2>1. Len(m) - 3 \in 1 .. Len(m) /\ HeaderEnd(m, Len(m) - 3)
    BY <1>1, MalformedAssumption
  <2>. QED
    BY <1>1, <1>2, <2>1, OneHeaderEnd
<1>4. Len(m) - end - 3 \in Nat
  BY <1>1, <1>3
<1>5. SaysLength(m, Len(m) - 3)
  BY <1>2, <1>3, <1>4, OneLength
<1>. QED
  BY <1>5, MalformedAssumption

(* What is read, what is buffered and the log of the peer keep their types *)
(* (sip-transport.ts:165-177).                                             *)
THEOREM TypeCorrect == Spec => []TypeOK
<1>1. Inv => TypeOK
  BY DEF Inv
<1>. QED
  BY <1>1, Invariant, PTL

(* Whatever is read was written, in this order and without a gap           *)
(* (sip-transport.ts:227-238).                                             *)
THEOREM NothingIsLostOrInvented == Spec => []ReadInOrder
<1>1. Inv => ReadInOrder
  BY DEF Inv, Reached, Read, ReadInOrder
<1>. QED
  BY <1>1, Invariant, PTL

(* Between two chunks exactly the messages that have arrived have been     *)
(* read, wherever the stream was cut (sip-transport.ts:165-177, 194-238).  *)
THEOREM ChunksDoNotMatter == Spec => []CompleteIsRead
<1>1. Inv => CompleteIsRead
  <2>. SUFFICES ASSUME Inv, state = "open", ~receiving
                PROVE  \E k \in 0 .. Len(written) :
                         /\ Arrived = 1 .. k
                         /\ messages = MessagesUpTo(written, k)
                         /\ \A j \in 1 .. k : written[j].item \notin Malformed
    BY DEF CompleteIsRead
  <2>1. PICK c \in 0 .. Len(written) : Reached(c)
    BY DEF Inv
  <2>2. TypeOK /\ AddsUp(written) /\ written \in Log /\ buffer \in Seq(Octets) /\ wire \in Seq(Octets)
    BY Types DEF Inv
  <2>. DEFINE arrived == EndOf(written, Len(written)) - Len(wire)
  <2>3. /\ Len(written) \in Nat /\ Len(buffer) \in Nat /\ Len(wire) \in Nat /\ c \in Nat
        /\ \A k \in 0 .. Len(written) : EndOf(written, k) \in Nat
    BY <2>2, LogTypes
  <2>4. arrived = EndOf(written, c) + Len(buffer)
    <3>1. EndOf(written, c) + Len(buffer) + Len(wire) = EndOf(written, Len(written))
      BY <2>1 DEF Reached, Read, Aligned
    <3>. QED
      BY <2>3, <3>1
  <2>. HIDE DEF arrived
  <2>5. ASSUME NEW k \in 1 .. Len(written)
        PROVE  written[k].end <= arrived <=> k <= c
    <3>1. written[k].end = EndOf(written, k) /\ k \in 0 .. Len(written) /\ EndOf(written, k) \in Nat
      BY <2>3 DEF EndOf
    <3>2. CASE k <= c
      <4>1. EndOf(written, k) <= EndOf(written, c)
        BY <2>2, <3>1, <3>2 DEF AddsUp
      <4>. QED
        BY <2>3, <2>4, <3>1, <3>2, <4>1
    <3>3. CASE ~(k <= c)
      <4>1. c \in 0 .. Len(written) - 1 /\ c < Len(written) /\ c + 1 <= k /\ c + 1 \in 0 .. Len(written)
        BY <2>3, <3>3
      <4>2. Len(buffer) < Len(written[c + 1].item)
        BY <2>1, <4>1 DEF Reached, WorkedOff
      <4>3. EndOf(written, c + 1) = EndOf(written, c) + Len(written[c + 1].item)
        BY <2>2, <4>1, NextEnd
      <4>4. EndOf(written, c + 1) <= EndOf(written, k)
        BY <2>2, <3>1, <4>1 DEF AddsUp
      <4>5. written[c + 1].item \in Seq(Octets)
        BY <2>2, <4>1, NextEnd, LogTypes, ItemTypes
      <4>. QED
        BY <2>3, <2>4, <3>1, <3>3, <4>1, <4>2, <4>3, <4>4, <4>5
    <3>. QED
      BY <3>2, <3>3
  <2>6. Arrived = {k \in 1 .. Len(written) : written[k].end <= arrived}
    BY DEF Arrived, arrived
  <2>7. Arrived = 1 .. c
    BY <2>3, <2>5, <2>6
  <2>. QED
    BY <2>1, <2>7 DEF Reached, Read
<1>. QED
  BY <1>1, Invariant, PTL

(* Only a malformed head makes the connection fail, after what came before *)
(* it (sip-transport.ts:170-174).                                          *)
THEOREM OnlyMalformedHeadsFail == Spec => []OnlyMalformedFails
<1>1. Inv => OnlyMalformedFails
  <2>. SUFFICES ASSUME Inv, state = "failed"
                PROVE  \E k \in Arrived :
                         written[k].item \in Malformed /\ messages = MessagesUpTo(written, k)
    BY DEF OnlyMalformedFails
  <2>1. PICK c \in 0 .. Len(written) : Reached(c)
    BY DEF Inv
  <2>2. TypeOK /\ AddsUp(written) /\ written \in Log /\ buffer \in Seq(Octets) /\ wire \in Seq(Octets)
    BY Types DEF Inv
  <2>3. c < Len(written) /\ written[c + 1].item \in Malformed /\ Len(written[c + 1].item) <= Len(buffer)
    BY <2>1 DEF Reached, Broken
  <2>4. /\ Len(written) \in Nat /\ Len(buffer) \in Nat /\ Len(wire) \in Nat /\ c \in Nat
        /\ EndOf(written, c) \in Nat /\ c \in 0 .. Len(written) - 1 /\ c + 1 # 0
        /\ c + 1 \in 1 .. Len(written)
    BY <2>2, <2>3, LogTypes
  <2>5. /\ EndOf(written, c + 1) = EndOf(written, c) + Len(written[c + 1].item)
        /\ MessagesUpTo(written, c + 1) = MessagesUpTo(written, c)
    BY <2>2, <2>3, <2>4, NextEnd, NoMalformedMessage
  <2>6. written[c + 1].end = EndOf(written, c + 1)
    BY <2>4 DEF EndOf
  <2>7. EndOf(written, c) + Len(buffer) + Len(wire) = EndOf(written, Len(written))
    BY <2>1 DEF Reached, Read, Aligned
  <2>8. written[c + 1].item \in Seq(Octets)
    BY <2>2, <2>4, LogTypes, ItemTypes
  <2>9. written[c + 1].end <= EndOf(written, Len(written)) - Len(wire)
    <3>. DEFINE from == EndOf(written, c)
                last == EndOf(written, Len(written))
    <3>1. /\ written[c + 1].end = from + Len(written[c + 1].item) /\ from + Len(buffer) + Len(wire) = last
          /\ from \in Nat /\ last \in Nat
      BY <2>4, <2>5, <2>6, <2>7
    <3>2. Len(written[c + 1].item) \in Nat
      BY <2>8
    <3>. HIDE DEF from, last
    <3>3. written[c + 1].end <= last - Len(wire)
      BY <2>3, <2>4, <3>1, <3>2
    <3>. QED
      BY <3>3 DEF last
  <2>. QED
    BY <2>1, <2>3, <2>4, <2>5, <2>9 DEF Arrived, Reached, Read
<1>. QED
  BY <1>1, Invariant, PTL
=============================================================================
