\* Two overlapping calls, two devices of one source, six batches.
SPECIFICATION Spec
CONSTANTS
  d1 = d1 d2 = d2 k1 = k1 k2 = k2 k3 = k3 x = x y = y n1 = n1 n2 = n2 n3 = n3
  Devices = {d1, d2}
  Keys = {k1, k2, k3}
  Contents = {x, y}
  Names = {n1, n2, n3}
  Calls = {c1, c2}
  Batches <- Posted
  Unscoped = {k3}
SYMMETRY Interchangeable
INVARIANTS TypeOK Accounted Acknowledged NeverCollides
PROPERTIES RevocationHolds SessionHolds ImplementsObservationLedger
