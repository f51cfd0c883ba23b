SPECIFICATION Spec
CONSTANTS
  p1 = p1
  p2 = p2
  k1 = k1
  k2 = k2
  o1 = o1
  o2 = o2
  x1 = x1
  x2 = x2
  Caller = {p1, p2}
  Submitter = {p1, p2}
  Chain = {x1, x2}
  Candidate <- MCCandidate
  MaxAttempt = 2
  Free = Free
  Elsewhere = Elsewhere
  None = None
SYMMETRY Symmetry
INVARIANTS
  JournalIsWhole
PROPERTIES
  AcceptsOnce
