SPECIFICATION FairSpec
CONSTANTS
  Builders = {b1, b2}
  Mortal = {b1, b2}
  Stalls = FALSE
  Nobody = Nobody
INVARIANTS
  MutualExclusion
  NoLockLeft
PROPERTIES
  LiveLockKept
  WaitersServed
CHECK_DEADLOCK FALSE
