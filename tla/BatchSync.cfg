SPECIFICATION Spec
CONSTANTS
  None = None
  r1 = r1
  r2 = r2
  i1 = i1
  d1 = d1
  d2 = d2
  link = link
  name = name
  usage = usage
  colour = colour
  v1 = v1
  v2 = v2
  k1 = k1
  m1 = m1
  Records = {r1, r2}
  Workers = {w1}
  ItemIds = {i1}
  Data = {d1, d2}
  Paths = {link, name}
  LinkPath = link
  Observable = {name}
  Derived = {usage}
  Unknown = {colour}
  Values = {v1, v2}
  Keys = {k1}
  Marks = {m1}
  Blobs = {b1}
  Batches <- SomeBatches
  MaxVersion = 2
  Failures = 1
INVARIANTS
  TypeOK
  AuditedCanon
  MediaHasBytes
  OneRecordPerItem
  FinishedMeansApplied
