\* One tick, and a brief that is published again after it has stopped.
SPECIFICATION Spec
CONSTANTS
  None = None
  Keys = {k1}
  Runs = {r1}
  Batches = {1, 2}
  MaxTime = 2
  MaxAge = 1
INVARIANT DeterministicDossier
CHECK_DEADLOCK FALSE
