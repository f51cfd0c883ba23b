SPECIFICATION Spec
CONSTANTS
  p1 = p1
  p2 = p2
  k1 = k1
  k2 = k2
  k3 = k3
  k4 = k4
  k5 = k5
  fast = fast
  good = good
  Caller = {p1, p2}
  Family = {fast, good}
  Command <- MCCommand
  Maximum = 3
  Spent = 1
  Ceiling = 2
  BaseNet = 1
  AcceptedBy <- MCAcceptedBy
  CorrectedBy <- MCCorrectedBy
  Horizon = 1
  Shared = {k2}
  Free = Free
  Elsewhere = Elsewhere
  None = None
SYMMETRY Symmetry
INVARIANTS
  HistoryReplays
PROPERTIES
  SettlesOnce
