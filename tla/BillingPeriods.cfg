SPECIFICATION Spec
CONSTANTS
  c1 = c1
  c2 = c2
  Caller = {c1, c2}
  Change <- MCChange
  Schedule <- MCSchedule
  Rate = 1
  Numerator = 1
  Denominator = 2
  Maximum = 2
  Quantity = {1}
  Delta <- MCDelta
  Horizon = 5
  MaxEntry = 3
  MaxStatement = 1
  NoChange = NoChange
SYMMETRY Symmetry
INVARIANTS
  PeriodsMeet
  EntriesFallInTheirPeriod
  BilledOnce
  BookedIsExact
CHECK_DEADLOCK FALSE
