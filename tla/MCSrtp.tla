------------------------------- MODULE MCSrtp -------------------------------
(* Six sequence numbers and a window of two keep the proportions of the    *)
(* code: a window within the half, and indexes that wrap more than once.   *)
(* Streams share no state, so that they need not be interleaved.           *)
EXTENDS Srtp

OneStreamAtATime ==
  \A s, other \in Streams :
    outboundIndexes'[s] # NoIndex /\ outboundIndexes'[other] # NoIndex => s = other

(* sendPacket() reads no sequence number of the media transport.           *)
MCInit == Init /\ \A s \in AppStreams : sequenceNumber[s] = 0
MCSpec == MCInit /\ [][Next /\ OneStreamAtATime]_vars
=============================================================================
