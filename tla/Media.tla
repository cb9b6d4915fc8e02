------------------------------- MODULE Media -------------------------------
(***************************************************************************)
(* The sending side of src/src/call-session/media.ts: one MediaTransport   *)
(* with its RTP clock, and the Streamers that share it, each with a packet *)
(* timer.  Every action is one turn: a call of the application, or a timer *)
(* that fires.                                                             *)
(*                                                                         *)
(* A buffer is the number of complete packets in it.  The sequence numbers *)
(* of the packets are the business of module Srtp.                         *)
(***************************************************************************)
EXTENDS Naturals

CONSTANTS Streamers,
          Lengths,         \* numbers of complete packets that an input may have
          Timers, NoTimer, \* timer handles
          TimestampLimit,  \* 2^32: what writeUInt32BE() accepts is below it
          Interval,        \* codec.timestampInterval
          Tone,            \* what a DTMF character adds to the timestamp: 800
          MaxStarts        \* bound on the calls of start()

ASSUME LengthsAssumption == Lengths \subseteq Nat
ASSUME NoTimerAssumption == NoTimer \notin Timers
ASSUME ClockAssumption ==
  TimestampLimit \in Nat \ {0} /\ Interval \in Nat \ {0} /\ Tone \in Nat \ {0}
ASSUME MaxStartsAssumption == MaxStarts \in Nat

VARIABLES
  started, disposed, timestamp,  \* of the MediaTransport
  originalBuffer, buffer, paused, timeout,  \* of each Streamer
  timers,                        \* by streamer: the timers that are set
  known,                         \* the streamers that streamAudio() has made
  starts,                        \* how often start() was called; bounded
  finishes,                      \* by streamer: "finished" events of the run; history
  crashed                        \* an exception left a timer's callback

transport == <<started, disposed, timestamp>>
streamers == <<originalBuffer, buffer, paused, timeout, timers, known, starts, finishes>>
vars == <<started, disposed, timestamp, originalBuffer, buffer, paused, timeout, timers,
          known, starts, finishes, crashed>>

Init ==
  /\ started = FALSE
  /\ disposed = FALSE
  /\ timestamp \in 0 .. TimestampLimit - 1
  /\ originalBuffer \in [Streamers -> Lengths]
  /\ buffer = originalBuffer
  /\ paused = [s \in Streamers |-> FALSE]
  /\ timeout = [s \in Streamers |-> NoTimer]
  /\ timers = [s \in Streamers |-> {}]
  /\ known = {}
  /\ starts = 0
  /\ finishes = [s \in Streamers |-> 0]
  /\ crashed = FALSE

-----------------------------------------------------------------------------
(* MediaTransport *)

(* start() with the negotiated SDP; one that is unusable disposes.         *)
Start(usable) ==
  /\ ~crashed
  /\ ~started
  /\ ~disposed
  /\ started' = usable
  /\ disposed' = ~usable
  /\ UNCHANGED <<timestamp, streamers, crashed>>

(* dispose() closes the socket and leaves the streamers' timers set.       *)
Dispose ==
  /\ ~crashed
  /\ ~disposed
  /\ disposed' = TRUE
  /\ UNCHANGED <<started, timestamp, streamers, crashed>>

Ready == started /\ ~disposed

(* serializeRtp() writes the timestamp, or throws.                         *)
Serializes == timestamp < TimestampLimit

(* A character is six packets with one timestamp.                          *)
SendDTMF ==
  /\ ~crashed
  /\ Ready
  /\ Serializes
  /\ timestamp' = timestamp + Tone
  /\ UNCHANGED <<started, disposed, streamers, crashed>>

-----------------------------------------------------------------------------
(* Streamer *)

LeaveTimer(s) == timers' = timers /\ timeout' = [timeout EXCEPT ![s] = NoTimer]  \* mutation
CancelTimeout(s) ==
  /\ timers' = [timers EXCEPT ![s] = @ \ {timeout[s]}]
  /\ timeout' = [timeout EXCEPT ![s] = NoTimer]

(* setTimeout() after the timers T have gone.                              *)
Schedule(s, T) ==
  \E timer \in Timers \ T :
    /\ timers' = [timers EXCEPT ![s] = T \cup {timer}]
    /\ timeout' = [timeout EXCEPT ![s] = timer]

(* start() cancels the packet timer, rewinds and sets the timer anew.      *)
Rewind(s) ==
  /\ starts < MaxStarts
  /\ starts' = starts + 1
  /\ buffer' = [buffer EXCEPT ![s] = originalBuffer[s]]
  /\ paused' = [paused EXCEPT ![s] = FALSE]
  /\ Schedule(s, timers[s] \ {timeout[s]})
  /\ finishes' = [finishes EXCEPT ![s] = 0]

(* streamAudio() makes a streamer that holds its input and starts it; it   *)
(* throws before the media has started.                                    *)
StreamAudio(s) ==
  /\ ~crashed
  /\ s \notin known
  /\ Ready
  /\ known' = known \cup {s}
  /\ Rewind(s)
  /\ UNCHANGED <<transport, originalBuffer, crashed>>

(* On a disposed call the streamer's start() does nothing.                 *)
StreamAudioDisposed(s) ==
  /\ ~crashed
  /\ s \notin known
  /\ disposed
  /\ known' = known \cup {s}
  /\ UNCHANGED <<transport, originalBuffer, buffer, paused, timeout, timers, starts, finishes,
                 crashed>>

StartStreamer(s) ==
  /\ ~crashed
  /\ s \in known
  /\ ~disposed
  /\ Rewind(s)
  /\ UNCHANGED <<transport, originalBuffer, known, crashed>>

(* start() of a disposed call still cancels the timer.                     *)
StartDisposed(s) ==
  /\ ~crashed
  /\ s \in known
  /\ disposed
  /\ CancelTimeout(s)
  /\ UNCHANGED <<transport, originalBuffer, buffer, paused, known, starts, finishes, crashed>>

StayPaused(s) == UNCHANGED paused  \* mutation
Unpause(s) == paused' = [paused EXCEPT ![s] = FALSE]

Stop(s) ==
  /\ ~crashed
  /\ s \in known
  /\ CancelTimeout(s)
  /\ Unpause(s)
  /\ buffer' = [buffer EXCEPT ![s] = 0]
  /\ UNCHANGED <<transport, originalBuffer, known, starts, finishes, crashed>>

Pause(s) ==
  /\ ~crashed
  /\ timeout[s] # NoTimer
  /\ paused' = [paused EXCEPT ![s] = TRUE]
  /\ CancelTimeout(s)
  /\ UNCHANGED <<transport, originalBuffer, buffer, known, starts, finishes, crashed>>

AlwaysResumes(s) == s \in known /\ ~disposed  \* mutation
Resumes(s) == paused[s] /\ ~disposed

Resume(s) ==
  /\ ~crashed
  /\ Resumes(s)
  /\ paused' = [paused EXCEPT ![s] = FALSE]
  /\ Schedule(s, timers[s])
  /\ UNCHANGED <<transport, originalBuffer, buffer, known, starts, finishes, crashed>>

(* A timer's callback clears `timeout` and then does one of the following. *)
Fires(s, timer) ==
  /\ ~crashed
  /\ timer \in timers[s]

Gone(s, timer) ==
  /\ timers' = [timers EXCEPT ![s] = @ \ {timer}]
  /\ timeout' = [timeout EXCEPT ![s] = NoTimer]

FiresInVain(s, timer) ==
  /\ Fires(s, timer)
  /\ paused[s] \/ disposed
  /\ Gone(s, timer)
  /\ UNCHANGED <<transport, originalBuffer, buffer, paused, known, starts, finishes, crashed>>

SendsAnyway(s) == ~paused[s] /\ buffer[s] > 0  \* mutation
SendsPacket(s) == ~paused[s] /\ ~disposed /\ buffer[s] > 0

FinishesEmpty(s, timer) ==
  /\ Fires(s, timer)
  /\ ~paused[s] /\ ~disposed /\ buffer[s] = 0
  /\ Gone(s, timer)
  /\ finishes' = [finishes EXCEPT ![s] = @ + 1]
  /\ UNCHANGED <<transport, originalBuffer, buffer, paused, known, starts, crashed>>

FinishEarly(s) == buffer[s] <= 2  \* mutation
LastPacket(s) == buffer[s] = 1

(* sendPacket(): a packet, and then "finished" or the next timer.          *)
SendPacket(s, timer) ==
  /\ Fires(s, timer)
  /\ SendsPacket(s)
  /\ Serializes
  /\ timestamp' = timestamp + Interval
  /\ buffer' = [buffer EXCEPT ![s] = @ - 1]
  /\ IF LastPacket(s)
       THEN /\ Gone(s, timer)
            /\ finishes' = [finishes EXCEPT ![s] = @ + 1]
       ELSE /\ Schedule(s, timers[s] \ {timer})
            /\ UNCHANGED finishes
  /\ UNCHANGED <<started, disposed, originalBuffer, paused, known, starts, crashed>>

(* sendAudio() throws, and nothing catches it.                             *)
SendPacketThrows(s, timer) ==
  /\ Fires(s, timer)
  /\ SendsPacket(s)
  /\ ~Serializes
  /\ Gone(s, timer)
  /\ crashed' = TRUE
  /\ UNCHANGED <<transport, originalBuffer, buffer, paused, known, starts, finishes>>

TimerFires(s) ==
  \E timer \in Timers : \/ FiresInVain(s, timer)
                        \/ FinishesEmpty(s, timer)
                        \/ SendPacket(s, timer)
                        \/ SendPacketThrows(s, timer)

Next ==
  \/ \E usable \in BOOLEAN : Start(usable)
  \/ Dispose
  \/ SendDTMF
  \/ \E s \in Streamers : \/ StreamAudio(s)
                          \/ StreamAudioDisposed(s)
                          \/ StartStreamer(s)
                          \/ StartDisposed(s)
                          \/ Stop(s)
                          \/ Pause(s)
                          \/ Resume(s)
                          \/ TimerFires(s)

(* A timer that is due fires.                                              *)
Spec == Init /\ [][Next]_vars /\ \A s \in Streamers : WF_vars(TimerFires(s))

-----------------------------------------------------------------------------
(* Properties *)

(* The types of the fields of MediaTransport and Streamer.                 *)
TypeOK ==
  /\ started \in BOOLEAN
  /\ disposed \in BOOLEAN
  /\ timestamp \in Nat
  /\ originalBuffer \in [Streamers -> Lengths]
  /\ buffer \in [Streamers -> Nat]
  /\ \A s \in Streamers : buffer[s] <= originalBuffer[s]
  /\ paused \in [Streamers -> BOOLEAN]
  /\ timeout \in [Streamers -> Timers \cup {NoTimer}]
  /\ timers \in [Streamers -> SUBSET Timers]
  /\ known \in SUBSET Streamers
  /\ starts \in 0 .. MaxStarts
  /\ finishes \in [Streamers -> 0 .. 1]
  /\ crashed \in BOOLEAN

(* A streamer has at most one timer set, it can cancel it, and it has none *)
(* while it is paused: no sequence of calls makes two timers send its      *)
(* packets, at twice the pace (media.ts:228-274).                          *)
OneTimer ==
  \A s \in Streamers :
    /\ timers[s] = {timeout[s]} \ {NoTimer}
    /\ paused[s] => timers[s] = {}

(* The packet clock of a call that can still send never stands still for a *)
(* streamer in the middle of its input: it has a timer or is paused.       *)
UnsentIsPending ==
  \A s \in Streamers :
    s \in known /\ buffer[s] > 0 /\ ~disposed /\ ~crashed => timers[s] # {} \/ paused[s]

(* Once the media is disposed no packet is sent and no "finished" emitted, *)
(* although timers still fire (media.ts:276-295; tests/media.test.ts:447). *)
SilentAfterDisposal ==
  [][disposed => UNCHANGED <<timestamp, finishes>>]_vars

(* What the application sees of its streamers is a Playback.               *)
Mode == [s \in Streamers |->
           CASE disposed \/ crashed                    -> "over"
             [] ~(disposed \/ crashed) /\ s \notin known -> "new"
             [] OTHER -> IF paused[s] THEN "paused"
                         ELSE IF timeout[s] # NoTimer THEN "playing" ELSE "ended"]

Contract == INSTANCE Playback WITH mode <- Mode, input <- originalBuffer, left <- buffer

(* ... fairness included: every run that is not paused or stopped sends    *)
(* its input and finishes, while the call lasts.                           *)
ImplementsPlayback == Contract!Spec

-----------------------------------------------------------------------------
(* What the tests say and the code does not do *)

(* "encodes, encrypts, and sends audio while rolling RTP counters"         *)
(* (tests/media.test.ts:190): no packet that a streamer sends throws.      *)
CountersRoll == ~crashed
=============================================================================
