SPECIFICATION Spec
CONSTANTS
  e1 = e1
  e2 = e2
  i1 = i1
  i2 = i2
  None = None
  Entries = {e1, e2}
  Instances = {i1, i2}
  Numbers = {n1, n2}
  Sets = {s1}
  Matches <- OneMeasured
  Distinct = TRUE
SYMMETRY Symmetry
INVARIANTS
  TypeOK
  ReadyMeansRightTools
  RejectedStaysRejected
  SnapshotIsAuthoritative
  ClaimsAreProposed
