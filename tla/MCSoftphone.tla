---------------------------- MODULE MCSoftphone ----------------------------
(* Three transports: the softphone's own, the one being tried, and one     *)
(* that a suspended function may still hold.  A recovery then always finds *)
(* a fresh one, as Room says, so that the bound excludes no behaviour.     *)
EXTENDS Softphone, TLC

CONSTANTS t1, t2, t3, s1, s2

ThreeTransports == {t1, t2, t3}
OneSession == {s1}
TwoSessions == {s1, s2}
SymmetryOne == Permutations(ThreeTransports)
SymmetryTwo == Permutations(ThreeTransports) \cup Permutations(TwoSessions)

Room ==
  Running /\ ~revoked /\ recoveryTransport = NoTransport =>
    \E t \in Transports : Unreferenced(t)
=============================================================================
