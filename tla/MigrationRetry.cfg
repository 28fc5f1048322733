SPECIFICATION MigrationsSpec
CONSTANTS
  m1 = m1
  m2 = m2
  NoMachine = NoMachine
  Owner <- OwnerOf
  NumSets = 1
  Machines = {m1, m2}
  MaxCrashes = 1
INVARIANTS
  RecordedMeansDone
