------------------------------ MODULE MCMedia ------------------------------
(* Two streamers on one media transport, with two timer handles each: one  *)
(* more than a streamer should ever have set.                              *)
EXTENDS Media, Dtmf, TLC

CONSTANTS a, b

TwoStreamers == {a, b}
Symmetry == Permutations(TwoStreamers)

(* The tones, on payloads about the boundaries of each octet.              *)
SomePayloads ==
  {<<n, v, d, e>> : n \in {0, 5, 11, 12, 127, 200, 255}, v \in {5, 6, 7, 134, 138},
                    d \in {0, 1, 3, 255}, e \in {0, 1, 160, 192, 255}}

ASSUME Tones ==
  ToneIsHeardOnce /\ OnlyStartsAreHeard(SomePayloads) /\ AudioTonesAreSilent(SomePayloads)
=============================================================================
