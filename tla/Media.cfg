SPECIFICATION Spec
CONSTANTS
  a = a
  b = b
  Streamers <- TwoStreamers
  Lengths = {0, 1, 3}
  Timers = {t1, t2}
  NoTimer = NoTimer
  TimestampLimit = 12
  Interval = 2
  Tone = 3
  MaxStarts = 3
INVARIANTS
  TypeOK
  OneTimer
  UnsentIsPending
PROPERTIES
  SilentAfterDisposal
  ImplementsPlayback
CHECK_DEADLOCK FALSE
