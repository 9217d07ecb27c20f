SPECIFICATION MCSpec
CONSTANTS
  b1 = b1
  b2 = b2
  b3 = b3
  Builds = {b1, b2, b3}
  Rebuilders = {b2}
  Mortal = {b1}
  Prunes = {p}
  Nobody = Nobody
  Locks = {l1}
  NoLock = NoLock
INVARIANTS
  EvidenceIsTrue
  PodsComplete
PROPERTY BuildsEnd
CHECK_DEADLOCK FALSE
