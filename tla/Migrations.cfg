SPECIFICATION MigrationsSpec
CONSTANTS
  m1 = m1
  m2 = m2
  NoMachine = NoMachine
  Owner <- OwnerOf
  NumSets = 3
  Machines = {m1, m2}
  MaxCrashes = 2
INVARIANTS
  ServesHeadSchema
  LinksBecomeSetups
  BackupPrecedesChange
PROPERTIES
  EveryStartServes
