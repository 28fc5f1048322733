SPECIFICATION Spec
CONSTANTS
  u1 = u1
  u2 = u2
  i1 = i1
  i2 = i2
  i3 = i3
  w1 = w1
  w2 = w2
  None = None
  All = All
  Users <- MCUsers
  Ids <- MCIds
  Workers <- MCWorkers
  Revision = 8
  MaxRequests = 4
  MaxFiles = 1
  MaxRestarts = 1
SYMMETRY MCSymmetry
INVARIANTS
  TypeOK
  SeedIsWholeOrNothing
  ExportHasWhatStayed
PROPERTIES
  FailedSeedsTakeNothing
