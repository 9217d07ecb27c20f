SPECIFICATION FairSpec
CONSTANTS
  Builders = {b1, b2, b3}
  Mortal = {}
  Stalls = FALSE
  Nobody = Nobody
INVARIANT MutualExclusion
CHECK_DEADLOCK FALSE
