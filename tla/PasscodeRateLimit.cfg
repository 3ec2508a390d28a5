SPECIFICATION Spec
CONSTANTS
  Calls = {c1, c2, c3}
  MaxAttempts = 2
  Window = 1
  MaxRetries = 2
  MaxTime = 2
  MaxWindows = 2
SYMMETRY Interchangeable
INVARIANT Budget
PROPERTY WindowStands
CHECK_DEADLOCK FALSE
