---------------------------- MODULE MediaProofs ----------------------------
(***************************************************************************)
(* Theorems about Media, for any number of streamers, any inputs and any   *)
(* range of the timestamp: the inductive invariant, what it implies, and   *)
(* the safety part of the refinement of Playback.                          *)
(***************************************************************************)
EXTENDS Media, TLAPS

(* A run that has emitted "finished" is over: neither a timer nor resume() *)
(* can take it up again.                                                   *)
FinishedIsIdle ==
  \A s \in Streamers : finishes[s] = 1 => timers[s] = {} /\ ~paused[s]

(* A streamer that does not exist yet has no timer and is not paused.      *)
UnknownIsIdle ==
  \A s \in Streamers \ known : timers[s] = {} /\ ~paused[s] /\ finishes[s] = 0

Inv ==
  /\ TypeOK
  /\ OneTimer
  /\ UnsentIsPending
  /\ FinishedIsIdle
  /\ UnknownIsIdle

-----------------------------------------------------------------------------
(* An input has a number of packets.                                       *)
LEMMA InputTypes ==
  ASSUME originalBuffer \in [Streamers -> Lengths]
  PROVE  originalBuffer \in [Streamers -> Nat]
<1>1. \A s \in Streamers : originalBuffer[s] \in Nat
  BY LengthsAssumption
<1>. QED
  BY <1>1

(* The initial states satisfy the invariant. *)
LEMMA InitInv == Init => Inv
<1>. SUFFICES ASSUME Init PROVE Inv
  OBVIOUS
<1>1. TypeOK
  <2>1. buffer \in [Streamers -> Nat] /\ \A s \in Streamers : buffer[s] <= originalBuffer[s]
    BY InputTypes DEF Init
  <2>2. timestamp \in Nat /\ starts \in 0 .. MaxStarts
    BY ClockAssumption, MaxStartsAssumption DEF Init
  <2>3. timeout \in [Streamers -> Timers \cup {NoTimer}] /\ finishes \in [Streamers -> 0 .. 1]
    BY DEF Init
  <2>4. timers \in [Streamers -> SUBSET Timers] /\ paused \in [Streamers -> BOOLEAN]
    BY DEF Init
  <2>. QED
    BY <2>1, <2>2, <2>3, <2>4 DEF Init, TypeOK
<1>2. OneTimer /\ UnsentIsPending /\ FinishedIsIdle /\ UnknownIsIdle
  BY DEF Init, OneTimer, UnsentIsPending, FinishedIsIdle, UnknownIsIdle
<1>. QED
  BY <1>1, <1>2 DEF Inv

-----------------------------------------------------------------------------
(* Timers *)

(* Set after all timers of a streamer have gone, a timer is its only one.  *)
LEMMA ScheduleStep ==
  ASSUME TypeOK, NEW s \in Streamers, NEW T, T = {}, Schedule(s, T)
  PROVE  /\ timers' \in [Streamers -> SUBSET Timers]
         /\ timeout' \in [Streamers -> Timers \cup {NoTimer}]
         /\ timeout'[s] \in Timers
         /\ timers'[s] = {timeout'[s]}
         /\ \A u \in Streamers \ {s} : timers'[u] = timers[u] /\ timeout'[u] = timeout[u]
<1>1. PICK timer \in Timers : /\ timers' = [timers EXCEPT ![s] = {timer}]
                              /\ timeout' = [timeout EXCEPT ![s] = timer]
  BY DEF Schedule
<1>. QED
  BY <1>1 DEF TypeOK

(* Cancelled, or fired, the timer was the only one.                        *)
LEMMA TimerGone ==
  ASSUME TypeOK, OneTimer, NEW s \in Streamers,
         CancelTimeout(s) \/ \E timer \in timers[s] : Gone(s, timer)
  PROVE  /\ timers' \in [Streamers -> SUBSET Timers]
         /\ timeout' \in [Streamers -> Timers \cup {NoTimer}]
         /\ timeout'[s] = NoTimer
         /\ timers'[s] = {}
         /\ \A u \in Streamers \ {s} : timers'[u] = timers[u] /\ timeout'[u] = timeout[u]
<1>1. timers[s] = {timeout[s]} \ {NoTimer}
  BY DEF OneTimer
<1>2. CASE CancelTimeout(s)
  BY <1>1, <1>2, NoTimerAssumption DEF CancelTimeout, TypeOK
<1>3. ASSUME NEW timer \in timers[s], Gone(s, timer)
      PROVE  /\ timers' = [timers EXCEPT ![s] = {}]
             /\ timeout' = [timeout EXCEPT ![s] = NoTimer]
  BY <1>1, <1>3 DEF Gone, TypeOK
<1>. QED
  BY <1>2, <1>3 DEF TypeOK

-----------------------------------------------------------------------------
(* Every step preserves the invariant. *)

(* start(): buffer, timer and count of the streamer are set anew.          *)
LEMMA RewindStep ==
  ASSUME Inv, NEW s \in Streamers, Rewind(s), ~disposed, known' = known \cup {s},
         UNCHANGED <<transport, originalBuffer, crashed>>
  PROVE  Inv'
<1>. USE DEF Inv
<1>1. timers[s] \ {timeout[s]} = {}
  BY DEF OneTimer
<1>2. /\ timers' \in [Streamers -> SUBSET Timers]
      /\ timeout' \in [Streamers -> Timers \cup {NoTimer}]
      /\ timeout'[s] \in Timers
      /\ timers'[s] = {timeout'[s]}
      /\ \A u \in Streamers \ {s} : timers'[u] = timers[u] /\ timeout'[u] = timeout[u]
  BY <1>1, ScheduleStep DEF Rewind
<1>3. /\ buffer' = [buffer EXCEPT ![s] = originalBuffer[s]]
      /\ paused' = [paused EXCEPT ![s] = FALSE]
      /\ finishes' = [finishes EXCEPT ![s] = 0]
      /\ starts < MaxStarts /\ starts' = starts + 1
  BY DEF Rewind
<1>4. TypeOK'
  <2>1. /\ buffer' \in [Streamers -> Nat]
        /\ \A u \in Streamers : buffer'[u] <= originalBuffer'[u]
    BY <1>3, InputTypes DEF TypeOK
  <2>2. starts' \in 0 .. MaxStarts
    BY <1>3, MaxStartsAssumption DEF TypeOK
  <2>3. paused' \in [Streamers -> BOOLEAN] /\ finishes' \in [Streamers -> 0 .. 1]
    BY <1>3 DEF TypeOK
  <2>. QED
    BY <1>2, <2>1, <2>2, <2>3 DEF TypeOK, transport
<1>5. OneTimer'
  BY <1>2, <1>3, NoTimerAssumption DEF OneTimer, TypeOK
<1>6. UnsentIsPending' /\ FinishedIsIdle' /\ UnknownIsIdle'
  BY <1>2, <1>3 DEF UnsentIsPending, FinishedIsIdle, UnknownIsIdle, TypeOK, transport
<1>. QED
  BY <1>4, <1>5, <1>6

(* The media starts, ends or sends a character: no streamer is touched.    *)
LEMMA TransportStep ==
  ASSUME Inv, (\E usable \in BOOLEAN : Start(usable)) \/ Dispose \/ SendDTMF
  PROVE  Inv'
<1>. USE DEF Inv
<1>1. /\ UNCHANGED streamers /\ UNCHANGED crashed
      /\ disposed => disposed'
      /\ started' \in BOOLEAN /\ disposed' \in BOOLEAN /\ timestamp' \in Nat
  <2>1. CASE \E usable \in BOOLEAN : Start(usable)
    BY <2>1 DEF Start, TypeOK
  <2>2. CASE Dispose
    BY <2>2 DEF Dispose, TypeOK
  <2>3. CASE SendDTMF
    BY <2>3, ClockAssumption DEF SendDTMF, TypeOK
  <2>. QED
    BY <2>1, <2>2, <2>3
<1>2. TypeOK'
  BY <1>1 DEF TypeOK, streamers
<1>3. OneTimer' /\ UnsentIsPending' /\ FinishedIsIdle' /\ UnknownIsIdle'
  BY <1>1 DEF OneTimer, UnsentIsPending, FinishedIsIdle, UnknownIsIdle, TypeOK, streamers
<1>. QED
  BY <1>2, <1>3

(* streamAudio() after dispose() makes a streamer that is idle.            *)
LEMMA StreamAudioDisposedStep ==
  ASSUME Inv, NEW s \in Streamers, StreamAudioDisposed(s)
  PROVE  Inv'
<1>. USE DEF Inv, StreamAudioDisposed, transport
<1>1. TypeOK'
  BY DEF TypeOK
<1>2. OneTimer' /\ UnsentIsPending' /\ FinishedIsIdle' /\ UnknownIsIdle'
  BY DEF OneTimer, UnsentIsPending, FinishedIsIdle, UnknownIsIdle
<1>. QED
  BY <1>1, <1>2

(* The only timer of a streamer goes, and with it the right to send: the   *)
(* call is over, or the buffer empty, or the streamer paused.              *)
LEMMA TimerGoneStep ==
  ASSUME Inv, NEW s \in Streamers,
         CancelTimeout(s) \/ \E timer \in timers[s] : Gone(s, timer),
         UNCHANGED <<started, disposed, originalBuffer, known, starts>>,
         timestamp' \in Nat,
         crashed' \in BOOLEAN, crashed => crashed',
         \A u \in Streamers \ {s} :
           buffer'[u] = buffer[u] /\ paused'[u] = paused[u] /\ finishes'[u] = finishes[u],
         buffer' \in [Streamers -> Nat], buffer'[s] <= buffer[s],
         paused' \in [Streamers -> BOOLEAN],
         finishes' \in [Streamers -> 0 .. 1],
         finishes'[s] = 1 => ~paused'[s],
         s \notin known => ~paused'[s] /\ finishes'[s] = 0,
         disposed \/ crashed' \/ buffer'[s] = 0 \/ paused'[s]
  PROVE  Inv'
<1>. USE DEF Inv
<1>1. /\ timers' \in [Streamers -> SUBSET Timers]
      /\ timeout' \in [Streamers -> Timers \cup {NoTimer}]
      /\ timeout'[s] = NoTimer
      /\ timers'[s] = {}
      /\ \A u \in Streamers \ {s} : timers'[u] = timers[u] /\ timeout'[u] = timeout[u]
  BY TimerGone
<1>2. \A u \in Streamers : buffer'[u] <= originalBuffer'[u]
  <2>1. ASSUME NEW u \in Streamers PROVE buffer'[u] <= originalBuffer'[u]
    <3>1. originalBuffer'[u] = originalBuffer[u] /\ originalBuffer[u] \in Nat
      BY LengthsAssumption DEF TypeOK
    <3>2. buffer[u] <= originalBuffer[u] /\ buffer[u] \in Nat /\ buffer'[u] \in Nat
      BY DEF TypeOK
    <3>3. buffer'[u] <= buffer[u]
      BY <3>2
    <3>. QED
      BY <3>1, <3>2, <3>3
  <2>. QED
    BY <2>1
<1>3. TypeOK'
  BY <1>1, <1>2 DEF TypeOK
<1>4. OneTimer'
  BY <1>1 DEF OneTimer
<1>5. UnsentIsPending'
  BY <1>1 DEF UnsentIsPending
<1>6. FinishedIsIdle' /\ UnknownIsIdle'
  BY <1>1 DEF FinishedIsIdle, UnknownIsIdle
<1>. QED
  BY <1>3, <1>4, <1>5, <1>6

(* The calls on one streamer keep the invariant of all.                    *)
LEMMA StreamerCallStep ==
  ASSUME Inv, NEW s \in Streamers, StartDisposed(s) \/ Stop(s) \/ Pause(s)
  PROVE  Inv'
<1>. USE DEF Inv, transport
<1>1. /\ buffer \in [Streamers -> Nat] /\ timestamp \in Nat /\ crashed \in BOOLEAN
      /\ paused \in [Streamers -> BOOLEAN] /\ finishes \in [Streamers -> 0 .. 1]
  BY DEF TypeOK
<1>2. CASE StartDisposed(s)
  BY <1>1, <1>2, TimerGoneStep DEF StartDisposed, FinishedIsIdle, UnknownIsIdle
<1>3. CASE Stop(s)
  <2>1. buffer' = [buffer EXCEPT ![s] = 0] /\ paused' = [paused EXCEPT ![s] = FALSE]
    BY <1>3 DEF Stop, Unpause
  <2>2. buffer' \in [Streamers -> Nat] /\ buffer'[s] = 0 /\ buffer'[s] <= buffer[s]
    BY <1>1, <2>1
  <2>3. paused' \in [Streamers -> BOOLEAN] /\ ~paused'[s]
    BY <1>1, <2>1
  <2>. QED
    BY <1>1, <1>3, <2>1, <2>2, <2>3, TimerGoneStep DEF Stop
<1>4. CASE Pause(s)
  <2>1. paused' = [paused EXCEPT ![s] = TRUE] /\ timers[s] # {}
    BY <1>4 DEF Pause, OneTimer
  <2>2. s \in known /\ finishes[s] # 1
    BY <2>1 DEF FinishedIsIdle, UnknownIsIdle
  <2>3. paused' \in [Streamers -> BOOLEAN] /\ paused'[s]
    BY <1>1, <2>1
  <2>4. CancelTimeout(s) /\ UNCHANGED <<buffer, finishes, known, starts, originalBuffer, crashed>>
    BY <1>4 DEF Pause
  <2>5. \A u \in Streamers \ {s} : paused'[u] = paused[u]
    BY <1>1, <2>1
  <2>6. UNCHANGED <<started, disposed, timestamp>>
    BY <1>4 DEF Pause
  <2>. QED
    BY <1>1, <2>2, <2>3, <2>4, <2>5, <2>6, TimerGoneStep
<1>. QED
  BY <1>2, <1>3, <1>4

(* resume() sets a timer only if the streamer has none and is not          *)
(* finished.                                                               *)
LEMMA ResumeStep ==
  ASSUME Inv, NEW s \in Streamers, Resume(s)
  PROVE  Inv'
<1>. USE DEF Inv, transport
<1>1. timers[s] = {} /\ s \in known /\ finishes[s] # 1
  BY DEF Resume, Resumes, OneTimer, FinishedIsIdle, UnknownIsIdle
<1>2. /\ timers' \in [Streamers -> SUBSET Timers]
      /\ timeout' \in [Streamers -> Timers \cup {NoTimer}]
      /\ timeout'[s] \in Timers
      /\ timers'[s] = {timeout'[s]}
      /\ \A u \in Streamers \ {s} : timers'[u] = timers[u] /\ timeout'[u] = timeout[u]
  BY <1>1, ScheduleStep DEF Resume
<1>3. paused' = [paused EXCEPT ![s] = FALSE]
  BY DEF Resume
<1>4. TypeOK'
  BY <1>2, <1>3 DEF TypeOK, Resume
<1>5. OneTimer'
  BY <1>2, <1>3, NoTimerAssumption DEF OneTimer, TypeOK
<1>6. UnsentIsPending'
  BY <1>1, <1>2, <1>3 DEF UnsentIsPending, TypeOK, Resume
<1>7. FinishedIsIdle'
  BY <1>1, <1>2, <1>3 DEF FinishedIsIdle, TypeOK, Resume
<1>8. UnknownIsIdle'
  BY <1>1, <1>2, <1>3 DEF UnknownIsIdle, TypeOK, Resume
<1>. QED
  BY <1>4, <1>5, <1>6, <1>7, <1>8

(* A timer fires.                                                          *)
LEMMA TimerStep ==
  ASSUME Inv, NEW s \in Streamers, TimerFires(s)
  PROVE  Inv'
<1>. USE DEF Inv, transport
<1>1. PICK timer \in Timers : \/ FiresInVain(s, timer)
                              \/ FinishesEmpty(s, timer)
                              \/ SendPacket(s, timer)
                              \/ SendPacketThrows(s, timer)
  BY DEF TimerFires
<1>2. timer \in timers[s] /\ timers[s] = {timer}
  <2>1. timer \in timers[s]
    BY <1>1 DEF FiresInVain, FinishesEmpty, SendPacket, SendPacketThrows, Fires
  <2>. QED
    BY <2>1 DEF OneTimer
<1>3. ~paused[s] /\ s \in known /\ finishes[s] = 0
  <2>1. finishes[s] \in 0 .. 1
    BY DEF TypeOK
  <2>. QED
    BY <1>2, <2>1 DEF OneTimer, FinishedIsIdle, UnknownIsIdle
<1>4. /\ buffer \in [Streamers -> Nat] /\ timestamp \in Nat /\ crashed \in BOOLEAN
      /\ paused \in [Streamers -> BOOLEAN] /\ finishes \in [Streamers -> 0 .. 1]
  BY DEF TypeOK
<1>5. CASE FiresInVain(s, timer)
  BY <1>2, <1>3, <1>4, <1>5, TimerGoneStep DEF FiresInVain
<1>6. CASE FinishesEmpty(s, timer)
  <2>1. finishes' = [finishes EXCEPT ![s] = 1]
    BY <1>3, <1>6 DEF FinishesEmpty
  <2>2. finishes' \in [Streamers -> 0 .. 1]
    BY <1>4, <2>1
  <2>. QED
    BY <1>2, <1>3, <1>4, <1>6, <2>1, <2>2, TimerGoneStep DEF FinishesEmpty
<1>7. CASE SendPacket(s, timer)
  <2>1. /\ buffer[s] > 0 /\ ~disposed
        /\ buffer' = [buffer EXCEPT ![s] = @ - 1]
        /\ timestamp' = timestamp + Interval
        /\ UNCHANGED <<started, disposed, originalBuffer, paused, known, starts, crashed>>
    BY <1>7 DEF SendPacket, SendsPacket
  <2>2. /\ buffer' \in [Streamers -> Nat] /\ buffer'[s] <= buffer[s] /\ timestamp' \in Nat
        /\ \A u \in Streamers \ {s} : buffer'[u] = buffer[u]
    BY <1>4, <2>1, ClockAssumption
  <2>3. CASE LastPacket(s)
    <3>1. Gone(s, timer) /\ finishes' = [finishes EXCEPT ![s] = 1]
      BY <1>3, <1>7, <2>3 DEF SendPacket
    <3>2. finishes' \in [Streamers -> 0 .. 1] /\ buffer'[s] = 0
      BY <1>4, <2>1, <2>3, <3>1 DEF LastPacket
    <3>. QED
      BY <1>2, <1>3, <1>4, <2>1, <2>2, <3>1, <3>2, TimerGoneStep
  <2>4. CASE ~LastPacket(s)
    <3>1. Schedule(s, timers[s] \ {timer}) /\ UNCHANGED finishes
      BY <1>7, <2>4 DEF SendPacket
    <3>2. /\ timers' \in [Streamers -> SUBSET Timers]
          /\ timeout' \in [Streamers -> Timers \cup {NoTimer}]
          /\ timeout'[s] \in Timers
          /\ timers'[s] = {timeout'[s]}
          /\ \A u \in Streamers \ {s} : timers'[u] = timers[u] /\ timeout'[u] = timeout[u]
      BY <1>2, <3>1, ScheduleStep
    <3>3. TypeOK'
      <4>1. \A u \in Streamers : buffer'[u] <= originalBuffer'[u]
        BY <1>4, <2>1, <2>2, InputTypes DEF TypeOK
      <4>. QED
        BY <2>1, <2>2, <3>1, <3>2, <4>1 DEF TypeOK
    <3>4. OneTimer'
      BY <1>3, <2>1, <3>2, NoTimerAssumption DEF OneTimer
    <3>5. UnsentIsPending' /\ FinishedIsIdle' /\ UnknownIsIdle'
      BY <1>3, <2>1, <2>2, <3>1, <3>2 DEF UnsentIsPending, FinishedIsIdle, UnknownIsIdle
    <3>. QED
      BY <3>3, <3>4, <3>5
  <2>. QED
    BY <2>3, <2>4
<1>8. CASE SendPacketThrows(s, timer)
  BY <1>2, <1>3, <1>4, <1>8, TimerGoneStep DEF SendPacketThrows
<1>. QED
  BY <1>1, <1>5, <1>6, <1>7, <1>8

(* The streamer's and the timer's state follow the calls and the clock.    *)
THEOREM Invariance == Spec => []Inv
<1>1. Inv /\ [Next]_vars => Inv'
  <2>. SUFFICES ASSUME Inv, [Next]_vars PROVE Inv'
    OBVIOUS
  <2>1. CASE (\E usable \in BOOLEAN : Start(usable)) \/ Dispose \/ SendDTMF
    BY <2>1, TransportStep
  <2>2. ASSUME NEW s \in Streamers, StreamAudio(s) PROVE Inv'
    BY <2>2, RewindStep DEF StreamAudio, Ready
  <2>3. ASSUME NEW s \in Streamers, StartStreamer(s) PROVE Inv'
    <3>1. known' = known \cup {s}
      BY <2>3 DEF StartStreamer
    <3>. QED
      BY <2>3, <3>1, RewindStep DEF StartStreamer
  <2>4. ASSUME NEW s \in Streamers, StreamAudioDisposed(s) PROVE Inv'
    BY <2>4, StreamAudioDisposedStep
  <2>5. ASSUME NEW s \in Streamers, StartDisposed(s) \/ Stop(s) \/ Pause(s) PROVE Inv'
    BY <2>5, StreamerCallStep
  <2>6. ASSUME NEW s \in Streamers, Resume(s) PROVE Inv'
    BY <2>6, ResumeStep
  <2>7. ASSUME NEW s \in Streamers, TimerFires(s) PROVE Inv'
    BY <2>7, TimerStep
  <2>8. CASE UNCHANGED vars
    BY <2>8 DEF vars, Inv, TypeOK, OneTimer, UnsentIsPending, FinishedIsIdle, UnknownIsIdle
  <2>. QED
    BY <2>1, <2>2, <2>3, <2>4, <2>5, <2>6, <2>7, <2>8 DEF Next
<1>. QED
  BY <1>1, InitInv, PTL DEF Spec

(* The fields of the media transport and its streamers keep their types,   *)
(* and no run finishes twice (media.ts:228-295).                           *)
THEOREM TypeCorrect == Spec => []TypeOK
<1>1. Inv => TypeOK
  BY DEF Inv
<1>. QED
  BY <1>1, Invariance, PTL

(* No sequence of start(), stop(), pause() and resume() sets two timers of *)
(* a streamer, or one that it cannot cancel (media.ts:228-274).            *)
THEOREM StreamersHaveOneTimer == Spec => []OneTimer
<1>1. Inv => OneTimer
  BY DEF Inv
<1>. QED
  BY <1>1, Invariance, PTL

(* A streamer in the middle of its input has a timer, is paused, or will   *)
(* never send again because the call is over (media.ts:228-295).           *)
THEOREM RunsAreNotForgotten == Spec => []UnsentIsPending
<1>1. Inv => UnsentIsPending
  BY DEF Inv
<1>. QED
  BY <1>1, Invariance, PTL

(* A timer that outlives dispose() sends and reports nothing               *)
(* (media.ts:276-283).                                                     *)
THEOREM DisposalSilences == Spec => SilentAfterDisposal
<1>1. [Next]_vars => [disposed => UNCHANGED <<timestamp, finishes>>]_vars
  <2>. SUFFICES ASSUME Next, disposed PROVE UNCHANGED <<timestamp, finishes>>
    BY DEF vars
  <2>. USE DEF transport, streamers
  <2>1. CASE (\E usable \in BOOLEAN : Start(usable)) \/ Dispose \/ SendDTMF
    BY <2>1 DEF Start, Dispose, SendDTMF, Ready
  <2>2. ASSUME NEW s \in Streamers,
               \/ StreamAudio(s) \/ StartStreamer(s) \/ StreamAudioDisposed(s)
               \/ StartDisposed(s) \/ Stop(s) \/ Pause(s) \/ Resume(s)
        PROVE  UNCHANGED <<timestamp, finishes>>
    BY <2>2 DEF StreamAudio, StartStreamer, StreamAudioDisposed, StartDisposed, Stop, Pause,
                Resume, Ready
  <2>3. ASSUME NEW s \in Streamers, TimerFires(s) PROVE UNCHANGED <<timestamp, finishes>>
    BY <2>3 DEF TimerFires, FiresInVain, FinishesEmpty, SendPacket, SendsPacket, SendPacketThrows
  <2>. QED
    BY <2>1, <2>2, <2>3 DEF Next
<1>. QED
  BY <1>1, PTL DEF Spec, SilentAfterDisposal

-----------------------------------------------------------------------------
(* The refinement of Playback. *)

Over == disposed \/ crashed

(* The end of the call is the end of every streamer.                       *)
LEMMA OverEnds ==
  ASSUME Over', UNCHANGED <<originalBuffer, buffer, finishes>>
  PROVE  Contract!End
<1>1. Mode' = [s \in Streamers |-> "over"]
  BY DEF Mode, Over
<1>. QED
  BY <1>1 DEF Contract!End

(* A step of one streamer changes the mode of that one.                    *)
LEMMA OneMode ==
  ASSUME NEW s \in Streamers, UNCHANGED <<disposed, crashed>>, ~Over,
         known' \in {known, known \cup {s}}, s \in known',
         \A u \in Streamers \ {s} : paused'[u] = paused[u] /\ timeout'[u] = timeout[u]
  PROVE  Mode' = [Mode EXCEPT ![s] = IF paused'[s] THEN "paused"
                                     ELSE IF timeout'[s] # NoTimer THEN "playing" ELSE "ended"]
<1>. DEFINE now == IF paused'[s] THEN "paused"
                   ELSE IF timeout'[s] # NoTimer THEN "playing" ELSE "ended"
<1>1. Mode'[s] = now
  BY DEF Mode, Over
<1>2. ASSUME NEW u \in Streamers \ {s} PROVE Mode'[u] = Mode[u]
  BY <1>2 DEF Mode, Over
<1>3. /\ Mode' = [u \in Streamers |-> Mode'[u]]
      /\ Mode = [u \in Streamers |-> Mode[u]]
  BY DEF Mode
<1>. QED
  BY <1>1, <1>2, <1>3

(* A run that starts anew is one of Playback.                              *)
LEMMA RewindRefines ==
  ASSUME Inv, NEW s \in Streamers, Rewind(s), ~Over, known' = known \cup {s},
         UNCHANGED <<transport, originalBuffer, crashed>>
  PROVE  Contract!Start(s)
<1>. USE DEF Inv
<1>1. timers[s] \ {timeout[s]} = {}
  BY DEF OneTimer
<1>2. /\ timeout'[s] \in Timers
      /\ \A u \in Streamers \ {s} : timers'[u] = timers[u] /\ timeout'[u] = timeout[u]
  BY <1>1, ScheduleStep DEF Rewind
<1>3. paused' = [paused EXCEPT ![s] = FALSE]
  BY DEF Rewind
<1>4. Mode' = [Mode EXCEPT ![s] = "playing"]
  <2>1. ~paused'[s] /\ timeout'[s] # NoTimer
    BY <1>2, <1>3, NoTimerAssumption DEF TypeOK
  <2>2. \A u \in Streamers \ {s} : paused'[u] = paused[u] /\ timeout'[u] = timeout[u]
    BY <1>2, <1>3 DEF TypeOK
  <2>. QED
    BY <2>1, <2>2, OneMode DEF transport
<1>5. Mode[s] # "over"
  BY DEF Mode, Over
<1>. QED
  BY <1>4, <1>5 DEF Contract!Start, Rewind

(* stop() ends the run there, too.                                         *)
LEMMA StopRefines ==
  ASSUME Inv, NEW s \in Streamers, Stop(s)
  PROVE  Contract!Stop(s) \/ Contract!Forget(s)
<1>. USE DEF Inv
<1>1. /\ timeout'[s] = NoTimer
      /\ \A u \in Streamers \ {s} : timeout'[u] = timeout[u]
      /\ ~paused'[s]
      /\ \A u \in Streamers \ {s} : paused'[u] = paused[u]
  BY TimerGone DEF Stop, Unpause, TypeOK
<1>2. /\ buffer' = [buffer EXCEPT ![s] = 0]
      /\ UNCHANGED <<disposed, crashed, known, originalBuffer, finishes>>
      /\ s \in known
  BY DEF Stop, transport
<1>3. CASE Over
  <2>1. Mode' = [u \in Streamers |-> "over"] /\ Mode = [u \in Streamers |-> "over"]
    BY <1>2, <1>3 DEF Mode, Over
  <2>2. Mode[s] = "over" /\ Mode' = Mode
    BY <2>1
  <2>. QED
    BY <1>2, <2>2 DEF Contract!Forget
<1>4. CASE ~Over
  <2>1. Mode' = [Mode EXCEPT ![s] = "ended"]
    BY <1>1, <1>2, <1>4, OneMode
  <2>2. Mode[s] \in {"playing", "paused", "ended"}
    BY <1>2, <1>4 DEF Mode, Over
  <2>. QED
    BY <1>2, <2>1, <2>2 DEF Contract!Stop
<1>. QED
  BY <1>3, <1>4

(* pause() keeps the position there, too.                                  *)
LEMMA PauseRefines ==
  ASSUME Inv, NEW s \in Streamers, Pause(s)
  PROVE  Contract!Pause(s) \/ UNCHANGED Contract!vars
<1>. USE DEF Inv
<1>1. /\ timeout'[s] = NoTimer
      /\ \A u \in Streamers \ {s} : timeout'[u] = timeout[u]
      /\ paused'[s]
      /\ \A u \in Streamers \ {s} : paused'[u] = paused[u]
  BY TimerGone DEF Pause, TypeOK
<1>2. /\ UNCHANGED <<disposed, crashed, known, originalBuffer, buffer, finishes>>
      /\ timeout[s] # NoTimer /\ timers[s] # {}
  BY DEF Pause, transport, OneTimer
<1>3. s \in known /\ ~paused[s]
  BY <1>2 DEF UnknownIsIdle, OneTimer
<1>4. CASE Over
  <2>1. Mode' = Mode
    BY <1>2, <1>4 DEF Mode, Over
  <2>. QED
    BY <1>2, <2>1 DEF Contract!vars
<1>5. CASE ~Over
  <2>1. Mode' = [Mode EXCEPT ![s] = "paused"]
    BY <1>1, <1>2, <1>3, <1>5, OneMode
  <2>2. Mode[s] = "playing"
    BY <1>2, <1>3, <1>5 DEF Mode, Over
  <2>. QED
    BY <1>2, <2>1, <2>2 DEF Contract!Pause
<1>. QED
  BY <1>4, <1>5

(* resume() continues there, too, or is not seen.                          *)
LEMMA ResumeRefines ==
  ASSUME Inv, NEW s \in Streamers, Resume(s)
  PROVE  Contract!Resume(s)
<1>. USE DEF Inv
<1>1. timers[s] = {} /\ s \in known /\ ~Over /\ paused[s]
  BY DEF Resume, Resumes, OneTimer, UnknownIsIdle, Over
<1>2. /\ timeout'[s] \in Timers
      /\ \A u \in Streamers \ {s} : timeout'[u] = timeout[u]
  BY <1>1, ScheduleStep DEF Resume
<1>3. /\ ~paused'[s]
      /\ \A u \in Streamers \ {s} : paused'[u] = paused[u]
      /\ UNCHANGED <<disposed, crashed, known, originalBuffer, buffer, finishes>>
  BY DEF Resume, TypeOK, transport
<1>4. Mode' = [Mode EXCEPT ![s] = "playing"]
  BY <1>1, <1>2, <1>3, OneMode, NoTimerAssumption
<1>5. Mode[s] = "paused"
  BY <1>1 DEF Mode, Over
<1>. QED
  BY <1>3, <1>4, <1>5 DEF Contract!Resume

(* A timer that fires sends, finishes, or finds the call over; the run of  *)
(* a paused streamer has no timer that could fire.                         *)
LEMMA TimerRefines ==
  ASSUME Inv, NEW s \in Streamers, TimerFires(s)
  PROVE  \/ Contract!SendPacket(s) \/ Contract!Finish(s) \/ Contract!End
         \/ UNCHANGED Contract!vars
<1>. USE DEF Inv
<1>1. PICK timer \in Timers : \/ FiresInVain(s, timer)
                              \/ FinishesEmpty(s, timer)
                              \/ SendPacket(s, timer)
                              \/ SendPacketThrows(s, timer)
  BY DEF TimerFires
<1>2. timer \in timers[s] /\ ~crashed
  BY <1>1 DEF FiresInVain, FinishesEmpty, SendPacket, SendPacketThrows, Fires
<1>3. /\ timers[s] = {timer} /\ timeout[s] # NoTimer
      /\ ~paused[s] /\ s \in known
  BY <1>2 DEF OneTimer, UnknownIsIdle
<1>4. buffer \in [Streamers -> Nat] /\ finishes \in [Streamers -> 0 .. 1]
  BY DEF TypeOK
<1>5. ASSUME Gone(s, timer), ~Over, UNCHANGED <<disposed, crashed, known, paused>>
      PROVE  Mode' = [Mode EXCEPT ![s] = "ended"]
  <2>1. timeout'[s] = NoTimer /\ \A u \in Streamers \ {s} : timeout'[u] = timeout[u]
    BY <1>2, <1>5, TimerGone
  <2>. QED
    BY <1>3, <1>5, <2>1, OneMode
<1>6. ~Over => Mode[s] = "playing"
  BY <1>3 DEF Mode, Over
<1>7. CASE FiresInVain(s, timer)
  <2>1. disposed /\ UNCHANGED <<disposed, crashed, originalBuffer, buffer, finishes>>
    BY <1>3, <1>7 DEF FiresInVain, transport
  <2>. QED
    BY <2>1, OverEnds DEF Over
<1>8. CASE FinishesEmpty(s, timer)
  <2>1. /\ Gone(s, timer) /\ ~Over /\ buffer[s] = 0
        /\ finishes' = [finishes EXCEPT ![s] = @ + 1]
        /\ UNCHANGED <<disposed, crashed, known, paused, originalBuffer, buffer>>
    BY <1>2, <1>8 DEF FinishesEmpty, transport, Over
  <2>2. Mode' = [Mode EXCEPT ![s] = "ended"]
    BY <1>5, <2>1
  <2>3. buffer' = [buffer EXCEPT ![s] = 0]
    BY <1>4, <2>1
  <2>4. Mode[s] = "playing" /\ buffer[s] <= 1
    BY <1>6, <2>1
  <2>. QED
    BY <2>1, <2>2, <2>3, <2>4 DEF Contract!Finish
<1>9. CASE SendPacket(s, timer)
  <2>1. /\ ~Over /\ buffer[s] > 0
        /\ buffer' = [buffer EXCEPT ![s] = @ - 1]
        /\ UNCHANGED <<disposed, crashed, known, paused, originalBuffer>>
    BY <1>2, <1>9 DEF SendPacket, SendsPacket, Over
  <2>2. CASE LastPacket(s)
    <3>1. Gone(s, timer) /\ finishes' = [finishes EXCEPT ![s] = @ + 1]
      BY <1>9, <2>2 DEF SendPacket
    <3>2. Mode' = [Mode EXCEPT ![s] = "ended"]
      BY <1>5, <2>1, <3>1
    <3>3. buffer[s] = 1 /\ buffer' = [buffer EXCEPT ![s] = 0]
      BY <1>4, <2>1, <2>2 DEF LastPacket
    <3>. QED
      BY <1>6, <2>1, <3>1, <3>2, <3>3 DEF Contract!Finish
  <2>3. CASE ~LastPacket(s)
    <3>1. Schedule(s, timers[s] \ {timer}) /\ UNCHANGED finishes
      BY <1>9, <2>3 DEF SendPacket
    <3>2. /\ timeout'[s] \in Timers
          /\ \A u \in Streamers \ {s} : timeout'[u] = timeout[u]
      BY <1>3, <3>1, ScheduleStep
    <3>3. ~paused'[s] /\ timeout'[s] # NoTimer
      BY <1>3, <2>1, <3>2, NoTimerAssumption
    <3>4. Mode' = [Mode EXCEPT ![s] = "playing"]
      BY <1>3, <2>1, <3>2, <3>3, OneMode
    <3>5. Mode' = Mode
      BY <1>6, <2>1, <3>4 DEF Mode
    <3>6. buffer[s] > 1
      BY <1>4, <2>1, <2>3 DEF LastPacket
    <3>. QED
      BY <1>6, <2>1, <3>1, <3>5, <3>6 DEF Contract!SendPacket
  <2>. QED
    BY <2>2, <2>3
<1>10. CASE SendPacketThrows(s, timer)
  <2>1. Over' /\ UNCHANGED <<originalBuffer, buffer, finishes>>
    BY <1>10 DEF SendPacketThrows, Over
  <2>. QED
    BY <2>1, OverEnds
<1>. QED
  BY <1>1, <1>7, <1>8, <1>9, <1>10

(* Every step of Media is a step of Playback or leaves what it shows.      *)
LEMMA StepRefines == Inv /\ [Next]_vars => [Contract!Next]_(Contract!vars)
<1>. SUFFICES ASSUME Inv, [Next]_vars PROVE [Contract!Next]_(Contract!vars)
  OBVIOUS
<1>1. ASSUME UNCHANGED <<disposed, crashed, known, originalBuffer, buffer, paused, timeout,
                         finishes>>
      PROVE  UNCHANGED Contract!vars
  BY <1>1 DEF Mode, Contract!vars
<1>2. ASSUME NEW usable \in BOOLEAN, Start(usable) PROVE [Contract!Next]_(Contract!vars)
  <2>1. CASE usable
    <3>1. disposed \in BOOLEAN /\ ~disposed /\ ~disposed' /\ disposed' \in BOOLEAN
      BY <1>2, <2>1 DEF Start, Inv, TypeOK
    <3>2. UNCHANGED <<disposed, crashed, known, originalBuffer, buffer, paused, timeout, finishes>>
      BY <1>2, <3>1 DEF Start, streamers
    <3>. QED
      BY <1>1, <3>2
  <2>2. CASE ~usable
    <3>1. Over' /\ UNCHANGED <<originalBuffer, buffer, finishes>>
      BY <1>2, <2>2 DEF Start, streamers, Over
    <3>. QED
      BY <3>1, OverEnds DEF Contract!Next
  <2>. QED
    BY <2>1, <2>2
<1>3. CASE Dispose
  <2>1. Over' /\ UNCHANGED <<originalBuffer, buffer, finishes>>
    BY <1>3 DEF Dispose, streamers, Over
  <2>. QED
    BY <2>1, OverEnds DEF Contract!Next
<1>4. CASE SendDTMF
  BY <1>1, <1>4 DEF SendDTMF, streamers
<1>5. ASSUME NEW s \in Streamers, StreamAudio(s) \/ StartStreamer(s)
      PROVE  [Contract!Next]_(Contract!vars)
  <2>1. /\ Rewind(s) /\ ~Over /\ known' = known \cup {s}
        /\ UNCHANGED <<transport, originalBuffer, crashed>>
    BY <1>5 DEF StreamAudio, StartStreamer, Ready, Over
  <2>. QED
    BY <2>1, RewindRefines DEF Contract!Next
<1>6. ASSUME NEW s \in Streamers, StreamAudioDisposed(s) \/ StartDisposed(s)
      PROVE  [Contract!Next]_(Contract!vars)
  <2>1. Over' /\ UNCHANGED <<originalBuffer, buffer, finishes>>
    BY <1>6 DEF StreamAudioDisposed, StartDisposed, transport, Over
  <2>. QED
    BY <2>1, OverEnds DEF Contract!Next
<1>7. ASSUME NEW s \in Streamers, Stop(s) \/ Pause(s) \/ Resume(s) \/ TimerFires(s)
      PROVE  [Contract!Next]_(Contract!vars)
  BY <1>7, StopRefines, PauseRefines, ResumeRefines, TimerRefines DEF Contract!Next
<1>8. CASE UNCHANGED vars
  BY <1>1, <1>8 DEF vars
<1>. QED
  BY <1>2, <1>3, <1>4, <1>5, <1>6, <1>7, <1>8 DEF Next

PlaybackSafety == Contract!Init /\ [][Contract!Next]_(Contract!vars)

(* Streamers play as Playback says, whatever the application calls and     *)
(* whenever the call ends (README.md:265-268).                             *)
THEOREM RefinesPlayback == Spec => PlaybackSafety
<1>1. Init => Contract!Init
  BY DEF Init, Mode, Contract!Init
<1>. QED
  BY <1>1, StepRefines, Invariance, PTL DEF Spec, PlaybackSafety
=============================================================================
