\* Chains of merges, undone undos, refreshed models, one device more than an entity may have.
SPECIFICATION Spec
CONSTANTS
  None = None
  Entities = {e1, e2, e3}
  Devices = {d1, d2, d3}
  Versions = {v1, v2}
  Limit = 2
  MaxAssertions = 3
  MaxHypotheses = 2
SYMMETRY Interchangeable
INVARIANTS TypeOK HistoryTells UndoExact AliasesResolve LimitHeld
PROPERTIES DevicesConserved RejectionsKept
CHECK_DEADLOCK FALSE
