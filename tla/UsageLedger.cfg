SPECIFICATION Spec
CONSTANTS
  None = None
  Entries = {e1, e2}
  Instances = {i1, i2}
  Workers = {w1}
  MaxHours = 2
  Failures = 1
SYMMETRY Symmetry
INVARIANTS
  TypeOK
  RecordedHoursWereRun
  NoHourLost
PROPERTIES
  TotalsOnlyLag
