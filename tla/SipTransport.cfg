SPECIFICATION Spec
CONSTANTS
  w1 = w1
  w2 = w2
  r1 = r1
  r2 = r2
  k1 = k1
  k2 = k2
  Waiters <- MCWaiters
  Requests <- MCRequests
  Keys <- MCKeys
  NoRequest = NoRequest
  NoKey = NoKey
  MaxMessages = 2
  MaxWrites = 2
INVARIANTS
  TypeOK
  PromisesTracked
  EndIsComplete
  AnswerMatches
PROPERTIES
  ClosedIsFinal
  ImplementsContract
CHECK_DEADLOCK FALSE
