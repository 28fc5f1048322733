SPECIFICATION Spec
CONSTANTS
  e1 = e1
  e2 = e2
  i1 = i1
  i2 = i2
  None = None
  Entries = {e1, e2}
  Instances = {i1, i2}
  Proposals = {p1}
  Workers = {w1, w2}
  Matches <- EveryPairMatches
SYMMETRY FullSymmetry
INVARIANTS
  InstallOnce
PROPERTIES
  ImplementsPlacement
