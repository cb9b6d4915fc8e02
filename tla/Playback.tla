------------------------------ MODULE Playback ------------------------------
(***************************************************************************)
(* What a Streamer promises (README.md:265-268): a run sends the packets   *)
(* of the input one after the other and ends in one "finished"; pause()    *)
(* keeps the position, resume() continues a paused run, stop() ends it     *)
(* without "finished", start() restarts the input, and nothing happens     *)
(* once the call is over.  There are no timers here.                       *)
(***************************************************************************)
EXTENDS Naturals

CONSTANTS Streamers,
          Lengths   \* numbers of complete packets that an input may have

VARIABLES mode,     \* by streamer: "new", "playing", "paused", "ended" or "over"
          input,    \* by streamer: the packets of its input
          left,     \* by streamer: packets of the input not sent yet
          finishes  \* by streamer: how often "finished" was emitted in the run

vars == <<mode, input, left, finishes>>

Init ==
  /\ mode = [s \in Streamers |-> "new"]
  /\ input \in [Streamers -> Lengths]
  /\ left = input
  /\ finishes = [s \in Streamers |-> 0]

Start(s) ==
  /\ mode[s] # "over"
  /\ mode' = [mode EXCEPT ![s] = "playing"]
  /\ left' = [left EXCEPT ![s] = input[s]]
  /\ finishes' = [finishes EXCEPT ![s] = 0]
  /\ UNCHANGED input

SendPacket(s) ==
  /\ mode[s] = "playing"
  /\ left[s] > 1
  /\ left' = [left EXCEPT ![s] = @ - 1]
  /\ UNCHANGED <<mode, input, finishes>>

Finish(s) ==
  /\ mode[s] = "playing"
  /\ left[s] <= 1
  /\ mode' = [mode EXCEPT ![s] = "ended"]
  /\ left' = [left EXCEPT ![s] = 0]
  /\ finishes' = [finishes EXCEPT ![s] = @ + 1]
  /\ UNCHANGED input

Pause(s) ==
  /\ mode[s] = "playing"
  /\ mode' = [mode EXCEPT ![s] = "paused"]
  /\ UNCHANGED <<input, left, finishes>>

Resume(s) ==
  /\ mode[s] = "paused"
  /\ mode' = [mode EXCEPT ![s] = "playing"]
  /\ UNCHANGED <<input, left, finishes>>

Stop(s) ==
  /\ mode[s] \in {"playing", "paused", "ended"}
  /\ mode' = [mode EXCEPT ![s] = "ended"]
  /\ left' = [left EXCEPT ![s] = 0]
  /\ UNCHANGED <<input, finishes>>

End ==
  /\ mode' = [s \in Streamers |-> "over"]
  /\ UNCHANGED <<input, left, finishes>>

(* After the end a streamer may still forget its input.                    *)
Forget(s) ==
  /\ mode[s] = "over"
  /\ left' = [left EXCEPT ![s] = 0]
  /\ UNCHANGED <<mode, input, finishes>>

Next ==
  \/ End
  \/ \E s \in Streamers : \/ Start(s) \/ SendPacket(s) \/ Finish(s)
                          \/ Pause(s) \/ Resume(s) \/ Stop(s) \/ Forget(s)

Spec == Init /\ [][Next]_vars /\ \A s \in Streamers : WF_vars(SendPacket(s) \/ Finish(s))
=============================================================================
