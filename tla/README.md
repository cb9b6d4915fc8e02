# Verification of ringcentral-softphone-ts

TLA+ models of the SDK in `src/` (paths below are relative to it), the TLC runs
that check them, and the theorems that TLAPS proves about them.

## The system

The SDK is a SIP softphone: it registers over one TLS connection, answers and
places calls, and exchanges audio as SRTP over one UDP socket per call. It runs on
one JavaScript thread. Nothing is preempted, and yet nearly every operation is
split by an `await`; between its halves the connection may fail, the peer may hang
up, another attempt may replace the connection, and the application may call
anything.

| component | code | state | operations | speaks to |
|---|---|---|---|---|
| SIP transport | `src/sip-transport.ts` | `connected`, `closed`, `terminalError`, `pending`, `readyWaiters`, the input buffer | `ready`, `send`, `request`, `dispose`; socket events | emits `message` and `disconnected` to the softphone, settles promises |
| registration and recovery | `src/index.ts` | `signaling`, `recoveryTransport`, `registered`, `revoked`, `recoveryAttempt`, two timers, `callSessions`, `recoveringSessions` | `register`, refresh, `handleDisconnect`, `recover`, `revoke`, the INVITE handler | owns transports, reconciles call sessions |
| inbound calls | `src/call-session/inbound.ts`, `index.ts` | the session's disposal, its deadline, its SDP | `answer`, `decline`, `hangup`, BYE, `reconcileDialog` | transport, softphone, media |
| call controls | `src/call-session/index.ts` | `sdp`, `pendingTransfer` | `hold`, `unhold`, `transfer` | transport |
| outbound calls | `src/call-session/outbound.ts` | `waitingForAnswer` | `call`, the final response, `cancel` | transport, softphone, media |
| media transport | `src/call-session/media.ts` | UDP socket, `sequenceNumber`, `timestamp`, `started`, disposal | `bind`, `start`, `sendAudio`, `sendDTMF`, `sendPacket`, `dispose` | SRTP session; emits to the call |
| streamer | `src/call-session/media.ts` | `buffer`, `paused`, `timeout` | `start`, `stop`, `pause`, `resume`, the packet timer | media transport |
| SRTP session | `src/rtp/index.ts` | `outboundIndexes`, `inboundStates` (highest index, replay window) | `encrypt`, `decrypt` | the peer |
| framing of messages | `src/sip-transport.ts`, `src/sip-message.ts` | the input buffer | `receive`, `readMessage` | hands messages to the transport's loop |
| DTMF payloads | `src/dtmf.ts` | none | `charToPayloads`, `payloadToChar` | media transport |
| codecs, header formatting, options, utilities | the other files | none | pure functions | |

What makes it hard, and what correct means, component by component:

- *SIP transport.* Five ways to fail, some of which are reported twice; listeners
  that call back in the middle of the receive loop. Every promise must settle
  once, the table must hold exactly the open ones, a closed transport must be inert.
- *Registration and recovery.* A recovery awaits the connection, REGISTER and its
  challenge; a loss, the timer, `revoke()` and a slow earlier attempt overtake one
  another. No connection may be leaked, one recovery at a time, never none while
  there is an outage, nothing after `revoke()`.
- *Inbound calls.* The ACK, BYE, CANCEL, the bind of the socket, the loss of the
  connection, the deadline and the re-INVITE come in any order. A call must hold its
  socket until it ends, and must leave an outage.
- *Call controls.* Each call of `hold()` awaits a response to a re-INVITE; two may
  overlap each other and the reconciliation, be lost with a connection or outlive the
  call. The session's SDP must be what its peer agreed to, since the next
  reconciliation offers it; every transfer must be settled.
- *Outbound calls.* `call()` awaits three things in a row before there is a session,
  and a response may be handled between its arrival and the continuation that
  expects it. One outcome, one socket, events in order.
- *Framing.* TCP cuts the stream anywhere. What is read must be what was written.
- *Streamer.* Calls race with a timer that dispose() does not cancel. One timer,
  each run finishes once, silence after the call.
- *SRTP session.* Sixteen bits of a longer index over a network that loses,
  repeats and reorders. Both ends must agree on the index, once per packet.

`PROJECT.json` lists the hazards at their lines with the properties that cover them.

## Modules

| module | models | kind |
|---|---|---|
| `TransportContract` | what a transport promises to code that awaits it | abstract specification |
| `SipTransport` | `src/sip-transport.ts` | detailed; implements `TransportContract` |
| `Connection` | what a softphone and its calls rely on from each other | abstract specification |
| `Softphone` | `src/index.ts`, `call-session/inbound.ts`, recovery part of `call-session/index.ts` | composition of transports, registration and calls; implements `Connection` |
| `CallContract` | what `call()` promises the application | abstract specification |
| `CallSession` | `call-session/index.ts`: re-INVITEs, transfer, the end of a call | detailed, part of `OutboundCall` |
| `OutboundCall` | `call-session/outbound.ts` | detailed; EXTENDS `CallSession`, implements `CallContract` and `Connection` |
| `SipMessage` | the lengths and bodies of `sip-message.ts` and `readMessage()` | operators |
| `Framing` | `receive()` and `readMessage()` of `src/sip-transport.ts` over octets | detailed |
| `Playback` | what a streamer promises | abstract specification |
| `Media` | sending side of `call-session/media.ts` | detailed; implements `Playback` |
| `Srtp` | packet indexes of `rtp/index.ts`: sender, network, receiver | detailed |
| `Dtmf` | `dtmf.ts` and the dispatch of received packets in `call-session/media.ts` | operators |
| `MC*` | constants of the instances for TLC | |
| `SipTransportProofs`, `SoftphoneProofs`, `ConnectionProofs`, `OutboundCallProofs`, `FramingProofs`, `SrtpProofs`, `MediaProofs`, `DtmfProofs` | theorems | proofs |

Definitions whose line ends in `\* mutation` are plausible errors of the code, each
standing beside the definition it replaces. No specification uses them; they are
there to show that the properties notice. Variables commented as history record
what has happened for the properties and are read by no action's guard.

### SipTransport

Variables have the names of the fields. `ready` and `request` are the states of the
promises handed out, `pending` the table keyed by Call-ID and CSeq number. A socket
event is one step. `receiving` says that the receive loop is running: then only
messages are read, and calls are made, which is how listeners that call back are
represented. Framing is abstracted to "the next message" or "one that cannot be
framed", which is what `Framing` shows of the octets. A message is its key and what a predicate can tell of it: 100, another
provisional response, a final one, a request.

### Softphone

The grain is the JavaScript turn. `Quiet` is the moment between two turns, when
timers and socket events run. A chunk of data is a turn (`loop`) in which several
messages are handled and the connection may also fail, which inside the loop is a
framing error. A promise settled in a turn marks its awaiting function (`got`,
`reply`); the continuation is a step of its own, before the next timer or socket
event. That gap, of a few microtasks, is where most of the disagreements below are.
`pc` and `on` say where `register()`, the refresh and `recover()` are suspended and
on which transport. A transport is what `TransportContract` promises: it opens,
closes, and rejects whoever awaits it when it closes.

A call goes through `phase`: offered, binding (of the UDP socket), answering (the
ACK is awaited), active, disposed. `awaits`, `via`, `reply` are the request it waits
for, on which connection and how it ended.

### Connection

Two modules look at the connection between a softphone and its calls from its two ends:
`Softphone` has transports, attempts and timers, and of a call only what recovery does to
it; `OutboundCall` has a call in full, and of the softphone only `link`. `Connection` is
what they have in common, and both implement it: how the link comes and goes, which calls
are served, which have a deadline, which are being reconciled. What `OutboundCall` takes
for granted, that every loss reaches the call, that an adoption reconciles it and that a
link once closed stays so, is thereby what `Softphone` provides. In `Softphone` the link
is computed (`Link`) from the fields and from where `recover()` is suspended: a replacement
is being adopted from the 200 OK to its REGISTER to the continuation that takes it up. That
messages reach the calls only over a link (`HeardOnLink`) is part of the property, since
`OutboundCall` receives nothing while the link is down.

The call of `Connection` differs in one respect on the two sides: an inbound call may
join `callSessions` during an outage, and is then without a deadline (`unbounded_outage`).

### CallSession and OutboundCall

`CallSession` is the abstract class, `OutboundCall` extends it as the subclass does;
the specification is that of `OutboundCall`. The softphone is reduced to `link`, what
a call can tell of it: the connection is up, down, being replaced, or closed for good.
`Lose` and `Adopt` do to the call what `handleDisconnect()` and `recover()` do;
`Softphone` has the details. The grain is the turn again, with `receiving` for a chunk
and `Quiet` for the moment between turns; `got`, `answered` and `stage = "lost"` are
what has settled and is to be taken up before the next turn.

Each call of `hold()`, `unhold()` and `transfer()` is an element of a set, and goes
through `stage` or `transfers`, the state of its promise. `reconcileDialog()` is the
re-INVITE `Reconciliation`; one at a time suffices, since a second outage finds the
first one rejected. `agreed` is what the peer has accepted, which may be an offer whose
response was lost. `fiber` says where `call()` is suspended. `crashed` is an exception
that leaves the receive loop: nothing follows it. `cancel()` writes CANCEL and changes
no state, so that it has no action; the 487 that follows is a final response. A call
that is held while it rings, which the SDK does not prevent and the peer refuses, is
left out.

### Framing, SipMessage and Dtmf

A stream is a sequence of octets. A start line or a header line is one octet, since
only its kind matters; the line ends and the separator, which frame the message, are
two and four octets as on the wire, and a body may hold anything, line ends and
separators included. The peer writes messages, keep-alives and malformed heads in any
order; a chunk is any number of octets that are on the wire. Each keep-alive that
`readMessage()` skips is a step of its own. `written` is the log of the peer, with
the position and the messages up to each item, against which the properties compare.
`MCFraming` checks that what `OutboundMessage` writes is read back.

`Dtmf` has no state: the packets of a tone, the character of a payload, the events of
a packet. `MCMedia` evaluates its properties over payloads about every boundary.

### Media

One media transport and its streamers, a turn per step. A streamer's buffer is the
number of complete packets left in it. `timers` are the timers that Node.js has set
for a streamer, `timeout` the handle it remembers, and the difference between the
two is a timer that it can no longer cancel. The range of the timestamp is a
constant, and a packet whose timestamp is out of it makes `writeUInt32BE` throw.

### Srtp

Sender and receiver each keep what the code's Maps keep per SSRC. The network is
the set of all that was sent: a packet may arrive never, late or often, and with
another sequence number in its header. The authentication tag stands for what it is
computed from, the header and the rollover counter, so that a wrong estimate of the
counter shows exactly as in the code: the tag does not match. A packet of the
application whose timestamp does not fit into 32 bits makes `serializeRtp()` throw when
`encrypt()` has taken its index: the sender's index moves on and nothing is sent
(`SendPacketThrows`). Arithmetic is that of
the code with 65536, 32768 and 64 as constants.

## Runs

All sizes are distinct states.

| run | instance | shows |
|---|---|---|
| `transport` | 2 waiters, 2 requests, 2 keys; 160,070 | promises tracked, nothing hangs, inert once closed; `TransportContract` is implemented, with its fairness, so that waits for the connection end |
| `softphone_safety` | 3 transports, 2 calls; 137,705 | no leaked connection, one recovery and always one that is due, nobody waits for a connection that is gone, deadlines only in an outage, `revoke()` final, sockets released, backoff; `Connection` is implemented; where the disagreements below end |
| `softphone_liveness` | 3 transports, 1 call; 88,737 | a call leaves its outage and a reconciliation ends, whatever the network does; a recovery ends if the network lets it |
| `outbound_call` | 2 holds, 2 transfers; 388,633 | a call keeps `CallContract`; its SDP is what its peer accepted last, its socket, deadline and transfers end with it, and nothing waits for a connection that is gone; `Connection` is implemented |
| `framing` | 4 messages, 3 malformed heads, 3 items; 95,108 | after each chunk exactly what has arrived has been read; only a malformed head fails the connection |
| `media` | 2 streamers, inputs of 0, 1 and 3 packets, 3 starts, 2 timer handles; 44,218 | one timer, no forgotten run, silence after disposal; `Playback` is implemented, with its fairness |
| `srtp` | 6 sequence numbers, window 2, indexes to 9, an own stream and an application's; 240,525 | both ends agree across wraps, the keystream is used once, a packet is decrypted under its own index and once, none is discarded whose index can be told, the window is the history |

Runs that show where the code and what is said of it disagree (each is a finding in
`PROJECT.json` with the quoted line):

| run | what happens |
|---|---|
| `dead_adoption` | the connection fails in the turn of its 200 OK to REGISTER, and is adopted: registered, and never recovered |
| `unbounded_outage` | the connection fails in the turn of the ACK: the call gets neither deadline nor re-INVITE |
| `missed_invite` | an INVITE in the chunk of the first 200 OK precedes the installation of the handler |
| `lost_final` | the final response is in the chunk of the 183: it is dispatched before the session listens, which rings for ever |
| `media_clock` | the timestamp passes 2^32 and the streamer's timer throws |

`FailuresAreConfined` (`Softphone`) says how far the first three go, and the exception of
`NoUncaughtException` below: they need a connection that fails, or a message that arrives,
in the turn of a 200 OK or of an ACK; otherwise no softphone is offline for good without
`revoke()`, misses an invite once `register()` has returned, or leaves a call without its
deadline that was active when the outage began. Of exceptions it speaks as far as
`Softphone` goes, which receives no NOTIFY and no final response to `call()`: these are
answered in `OutboundCall`, where the same turn makes them throw (`crashed`).

Four more definitions state what one might expect of the code and it does not keep;
no run of the project checks them. `NoUncaughtException` (`Softphone`): an INVITE follows
the 200 OK of a recovery in one chunk, and 100 Trying is written to the old, closed
connection and throws. `AnsweredMeansAcknowledged` (`Softphone`): a CANCEL that crosses
the 200 OK is taken for the ACK. `OutOfOrderIsAccepted` (`Srtp`): packets before the
sender's first wrap are lost, and the receiver discards the rest of the stream.
`HangupIsSafe` (`OutboundCall`): a listener of "answered" hangs up, one of "disposed"
revokes, and the ACK that follows throws.

### Bounds, and why they are enough

- Two waiters, requests and keys show a wait that ends while another goes on, and
  two requests with one key. `MaxMessages` and `MaxWrites` bound counters that only
  the properties read.
- Three transports: the softphone's own, the one in recovery, and one that a
  suspended function still holds. A closed transport that nothing refers to stands
  for a new one. `Room` in `MCSoftphone` states that one is always there; it holds,
  so the bound hides no behaviour.
- `recoveryAttempt` stays at 5, past which the code's delay is constant.
- One refresh is followed at a time (two share no state), and the application calls
  `register()` again only after a failure.
- Two holds and a reconciliation overlap in every order, and responses come in every
  order; two transfers show one that is refused because another is pending. A hold or
  a transfer that has ended may not be called again, except by another element.
- Three items let a message follow and precede any other; the messages differ in
  everything that frames them (no body, a body that looks like a keep-alive or holds a
  separator, two lengths that agree), the malformed heads in what is wrong with them.
- `MaxStarts` bounds `start()`. Two timer handles are one more than a streamer
  should have, so that a second timer would be seen.
- Six sequence numbers and a window of two keep the order 1 < window < half, and
  `MaxIndex` lets the stream wrap from any first number and run on; the proofs have
  no such bound. The two streams share no state and are not interleaved (`MCSpec`).
- `CHECK_DEADLOCK FALSE` throughout: after `revoke()` or disposal nothing need happen.

### Fairness

`SipTransport`: a turn ends (`ReceiveReturns`) and an `AbortSignal.timeout` fires.
Neither that the socket connects nor that the server answers is assumed.
`Softphone`: `TurnsEnd` is what the microtask queue guarantees. `TimersFire` is
strong fairness of each timer, because a timer is enabled between turns only, and
other turns keep coming; Node.js runs the timers phase in every iteration of its
event loop. `NetworkRecovers` is not assumed by the specification: it is the premise
of `RecoveryCompletes` alone, and says that the network does not prevent every
attempt. Without it no recovery can be promised; in particular REGISTER has no
timeout, and a server that accepts TLS and never answers holds an attempt for ever.
`Media`: a timer that is due fires. `OutboundCall`: `MicrotasksRun`, that what has
settled is taken up and the receive loop ends; neither that the server answers nor
that a timer fires, so that `LossEndsWaits` is about losses only.

## Proofs

All theorems hold for any values of the constants that satisfy the `ASSUME`s
(distinct null values, `Window` at most half of the sequence numbers, positive
intervals).

- `SipTransportProofs`. `Inv` adds to the properties of the run: closed iff there is a
  reason, the loop runs over a connection, waiters only while connecting. `fail()`
  is a lemma, since five actions share it. From `Inv`: `PromisesTracked`,
  `EndIsComplete`, `AnswerMatches`; `ClosedIsFinal` as an action
  property; and that every step is a step of `TransportContract` or a stutter.
- `SoftphoneProofs`. The properties are not inductive one by one. That a failed
  attempt leaks nothing needs that the lost connection is closed; that no second
  recovery starts needs that the timer runs only in an outage; that an outage starts
  with no recovery under way needs that `register()` has returned before. `Inv` is
  the conjunction with these facts (`FibersAwait`, `TimerMeansOutage`,
  `RegisterComesFirst`, `RevokedHandler`). Actions that touch only calls, only one
  suspended function or nothing of the recovery are dealt with by three frame lemmas.
- `ConnectionProofs`: what ties the connections, the suspended functions and the calls, for
  any number of transports and calls. First that `Softphone` implements `Connection`. `Link` is computed from seven variables, and `LinkInv` says what `Inv` does not
  say of them: who is past its wait for a connection holds one that has been open, `register()`
  holds the softphone's own, only `recover()` registers over a replacement, and no call is
  offered before `register()` has returned. It was checked by TLC as an invariant of
  `softphone_safety` before it was proved. Each action is then one step of `Connection` or a
  stutter: a timer that opens a new attempt, a failed attempt, a refresh and a late attempt
  that gives up are stutters; `revoke()` closes the link, except one that a stillborn
  adoption has left closed. `DisagreementsAreConfined` follows from the refinement and from
  `HeardOnLink`: that every call has its deadline from `Connection` alone.
  Then that nobody waits in vain (`OutageIsBeingRepaired`), the safety half of the liveness
  that the prover cannot reach and of what `TransportContract` promises: that a failed
  attempt may dispose its replacement without a word to anybody needs that only `recover()`
  and no call holds it, that a transport may stand for a new one needs that nobody waits for
  it, and that a wait for a connection ends needs that `signaling` is always one in use.
- `SrtpProofs`. `EstimateIsExact`: a receiver less than half of the space away
  estimates the index exactly. `PartsUnique`: counter and number make up an index
  in one way, so that a matching tag means the same index. `ReceiveKeepsWindow`: the
  shift keeps the window equal to the recent history. From these: `AcceptedWasSent`,
  `AcceptedOnce`, `WindowMatchesHistory`, `NothingDueIsDiscarded`, `KeystreamAdvances`.
- `MediaProofs`. That no run finishes twice (`TypeOK`) needs that a finished one is idle
  (`FinishedIsIdle`: the handle is forgotten, so that `pause()` does nothing and
  `resume()` has nothing to resume), and that a streamer that does not exist has none either
  (`UnknownIsIdle`). Every action that ends in the loss of the only timer shares one
  lemma. From `Inv`: `OneTimer`, `UnsentIsPending`; `SilentAfterDisposal` as an action
  property; and that every step is a step of `Playback` or a stutter: that needs
  `OneTimer`, since a timer that fires while the streamer is paused would be neither.

- `OutboundCallProofs`. `SdpIsAgreed` is about the end of an arbitrary overlap, and needs
  what is true in the middle of one: an accepted offer that has not been taken up is in
  `answered`, the last of these is what the peer agreed to, and an offer whose response
  was lost is followed by a reconciliation, before which the session has no agreement to
  keep. `OutageHasDeadline` says when that is due. The rest of `Inv` ties `state`,
  `fiber`, `socket` and `events` to each other, from which each step is a step of
  `CallContract` or a stutter. That it is one of `Connection`, too, needs `OutageHasDeadline`
  (a loss gives a deadline to an active call only, an adoption takes it) and that a
  reconciliation that fails ends the call.
- `FramingProofs`. The invariant is that after some number of items, all read, the
  octets of the others lie in the buffer and on the wire, one by one. `SameHead`: a
  buffer that begins like a message, or stops within it, has the message's separator and
  lengths as soon as its separator has arrived; so that `readMessage()` cuts where the
  message ends. Stated over plain sequences first (`Advance`, `Arrive`, `StillAligned`), then
  for the actions. Holds for any messages that say their length and any malformed heads. `ReadInOrder`, that
  in the middle of a chunk and after `dispose()`, too, what has been read is a prefix, is proved
  only; so are `DisposalEndsTransfer` of `CallSession` in `OutboundCallProofs` and
  `OutageEndsInReconciliation` of `Softphone`, which says of the re-INVITE on which transport
  it is written.
- `DtmfProofs`. Four octets are a number in one way, so that only the start of a tone at
  the SDK's volume decodes to a character.
- `BackoffGrows` is an action property over the delay of the last attempt; `BackoffInv` ties
  that delay to the number of failures.

Only model-checked: everything under fairness (`RecoveryCompletes`, `CallsLeaveOutage`,
`LossEndsWaits`, the fairness of the contracts), which is out of the prover's reach; and that
what `OutboundMessage` writes is read back, whose body is computed by recursion.

## Not modelled

- Key derivation, AES-CM, HMAC, RTP header layout, the text of SIP headers, digest
  authorization, codecs: pure functions. In `Framing` octets are not decoded as UTF-8:
  lengths count octets in `readMessage()`, as the code's do.
- In `Srtp`, a decrypted packet is well-formed: `encrypt()` sets no padding, so that
  `parseRtp()` does not reject what it decrypts.
- `hold()`, `unhold()` and `transfer()` before the call is active; REFER's own response,
  which nothing awaits.
- A second softphone, and several calls at once in `OutboundCall`: calls share the
  connection only, and `Softphone` has two.
- Exceptions thrown by the application's own listeners, except where the code
  handles them (`request()`).

## Plan

Done: `SipTransport` with its contract, `Softphone`, `Connection`, `OutboundCall` with
`CallSession` and `CallContract`, `Framing`, `Srtp`, `Media` with `Playback`, `Dtmf`, and
their proofs. In the order of importance there remain:

1. `Softphone` against the contract: `NobodyWaitsInVain` says of its transports what matters
   of `TransportContract`. That they implement it step by step needs a contract in which a
   promise that has been taken up is given out again, and in which one turn asks for several
   answers, as `recover()` does for all calls.
2. The headers that are read: `getHeader`, tags and `CSeq` in `SipMessage`.
