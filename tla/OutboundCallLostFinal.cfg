SPECIFICATION Spec
CONSTANTS
  h1 = h1
  h2 = h2
  r = r
  x1 = x1
  x2 = x2
  Holds <- TwoHolds
  Reconciliation = r
  Transfers <- TwoTransfers
  NoTransfer = NoTransfer
INVARIANTS
  FinalIsReported
CHECK_DEADLOCK FALSE
