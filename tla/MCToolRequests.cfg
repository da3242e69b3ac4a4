\* One row, there already or not, two texts, three calls that overlap.
SPECIFICATION Spec
CONSTANTS
  Row = {q1}
  Call = {c1, c2, c3}
  Value = {v1, v2}
  None = None
SYMMETRY MCSymmetry
INVARIANTS TypeOK OnlyTheGranted
PROPERTIES LiveIsReadOnly StatusAndTextAreApart
CHECK_DEADLOCK FALSE
