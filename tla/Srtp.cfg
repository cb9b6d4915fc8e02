SPECIFICATION MCSpec
CONSTANTS
  Streams = {audio, app}
  AppStreams = {app}
  Half = 3
  Window = 2
  MaxIndex = 9
INVARIANTS
  TypeOK
  AcceptedWasSent
  AcceptedOnce
  WindowMatchesHistory
  NothingDueIsDiscarded
PROPERTIES
  KeystreamAdvances
CHECK_DEADLOCK FALSE
