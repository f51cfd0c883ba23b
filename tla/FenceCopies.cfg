SPECIFICATION Spec
CONSTANTS
  p1 = p1
  p2 = p2
  d1 = d1
  d2 = d2
  d3 = d3
  a1 = a1
  a2 = a2
  Process = {p1, p2}
  Directory = {d1, d2, d3}
  Anchor = {a1, a2}
  MaxCommit = 3
  None = None
SYMMETRY Symmetry
INVARIANTS
  CutsAreRecoverable
  WitnessNamesContents
PROPERTIES
  PublishesOneHistory
CHECK_DEADLOCK FALSE
