CONSTANTS
  Workers = {w1, w2, w3}
  Interval = 2
  MaxTime = 6
  MaxAttempts = 4
SPECIFICATION Spec
CHECK_DEADLOCK FALSE
SYMMETRY Interchangeable
INVARIANTS LatchTells ReviewPossible
PROPERTY ImplementsLedger
