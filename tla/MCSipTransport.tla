--------------------------- MODULE MCSipTransport ---------------------------
(* Two calls of ready(), two requests and two transaction keys: enough for *)
(* two waits that end differently and for two requests that share a key.   *)
EXTENDS SipTransport

CONSTANTS w1, w2, r1, r2, k1, k2

MCWaiters == {w1, w2}
MCRequests == {r1, r2}
MCKeys == {k1, k2}
=============================================================================
