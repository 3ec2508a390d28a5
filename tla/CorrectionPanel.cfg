\* Two corrections, a confirmation repeated, an entity that changes under the preview.
SPECIFICATION Spec
CONSTANTS
  None = None
  Elsewhere = Elsewhere
  Entities = {e1, e2}
  Keys = {k1, k2}
  Sends = {s1, s2}
  MaxRevision = 2
SYMMETRY Interchangeable
INVARIANTS AppliedAsShown AnswersTrue
