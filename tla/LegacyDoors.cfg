SPECIFICATION Spec
CONSTANTS
  None = None
  u1 = u1
  k1 = k1
  t1 = t1
  t2 = t2
  i1 = i1
  i2 = i2
  n1 = n1
  a1 = a1
  Items = {i1, i2}
  Assemblies = {a1}
  Instances = {n1}
  Users = {u1}
  Keys = {k1}
  KeyUser <- OneAccount
  KeyTags <- OneTag
  Tags = {t1, t2}
  Drafts <- SomeDrafts
  Changes <- SomeChanges
  Doomed <- SomeDoomed
  MaxVersion = 2
INVARIANTS
  TypeOK
  VersionCountsUpdates
  ListedCanBeRead
PROPERTIES
  EveryRequestEnds
