SPECIFICATION MCSpec
CONSTANTS
  b1 = b1
  b2 = b2
  b3 = b3
  p = p
  w1 = w1
  w2 = w2
  Builds = {b1, b2, b3}
  Web = {b2}
  Pruners = {p}
  Cleaners = {k}
  Workspaces = {w1, w2}
  WorkspaceOf <- OwnWorkspaces
  Caches = {c}
  Faulty = {b1}
  Nobody = Nobody
INVARIANTS
  HeldBuildsSpared
  ScopeRecordedWhenCalm
CHECK_DEADLOCK FALSE
