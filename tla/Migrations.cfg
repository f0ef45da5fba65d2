SPECIFICATION FairSpec
CONSTANTS
  m1 = m1
  m2 = m2
  m3 = m3
  Migrations <- MCMigrationSet
  LoadOrder <- MCLoadOrder
  NoUpgrade = {m2}
  MaxFailures = 2
CHECK_DEADLOCK FALSE
INVARIANTS
  InDependencyOrder
  RecordsMatchSchema
  UpIsComplete
  NothingIfUnresolvable
PROPERTY ResolutionEnds
