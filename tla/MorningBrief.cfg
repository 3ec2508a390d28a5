\* Two ticks, a replay of either, one brief of two batches.
SPECIFICATION Spec
CONSTANTS
  None = None
  Keys = {k1, k2}
  Runs = {r1}
  Batches = {1, 2}
  MaxTime = 2
  MaxAge = 1
SYMMETRY Interchangeable
INVARIANTS NoPhantom ReceiptTrue OnePackage
PROPERTIES ServedGrows LatestGrows
CHECK_DEADLOCK FALSE
