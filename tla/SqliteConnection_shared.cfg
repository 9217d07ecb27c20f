SPECIFICATION FairSpec
CONSTANTS
  m1 = m1
  m2 = m2
  Plain = {p}
  Transactors = {t1}
  Migrators = {m1, m2}
  Known <- TwoVersions
  Nobody = Nobody
INVARIANTS
  PermitGuardsTransaction
  RecordedIffRan
  RolledBackLeavesNothing
PROPERTIES
  NeverBackwards
  FibersEnd
CHECK_DEADLOCK FALSE
