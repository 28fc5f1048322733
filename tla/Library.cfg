SPECIFICATION Spec
CONSTANTS
  None = None
  a = a
  a2 = a2
  keyA = keyA
  keyB = keyB
  b = b
  vendor = vendor
  d1 = d1
  d2 = d2
  t1 = t1
  t2 = t2
  i1 = i1
  i2 = i2
  l1 = l1
  l2 = l2
  w1 = w1
  w2 = w2
  Types = {t1, t2}
  Instances = {i1, i2}
  Labels = {l1, l2}
  Collections = {c1}
  Workers = {w1, w2}
  Spellings = {a, a2, b}
  Keys = {keyA, keyB}
  Norm <- KeyOfSpelling
  Names = {vendor, own}
  Data = {d1, d2}
  Files <- SomeFiles
  Batches <- SomeBatches
  MaxRequests = 4
  Failures = 1
SYMMETRY Symmetry
INVARIANTS
  TypeOK
  OneRecordPerKey
  FinishedMeansThere
  OnlyLateTiesDangle
