SPECIFICATION Spec
CONSTANTS
  t1 = t1
  t2 = t2
  t3 = t3
  s1 = s1
  s2 = s2
  Transports <- ThreeTransports
  NoTransport = NoTransport
  Sessions <- TwoSessions
SYMMETRY SymmetryTwo
INVARIANTS
  TypeOK
  NoLeakedConnection
  SingleRecovery
  OutageIsBeingRepaired
  DeadlineTracksOutage
  RevokedIsOffline
  CallsHoldTheirSockets
PROPERTIES
  BackoffGrows
  ImplementsConnection
  FailuresAreConfined
CHECK_DEADLOCK FALSE
