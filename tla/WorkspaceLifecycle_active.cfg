SPECIFICATION Spec
CONSTANTS
  b1 = b1
  b2 = b2
  b3 = b3
  w1 = w1
  w2 = w2
  Builds = {b1}
  Web = {}
  Pruners = {p}
  Cleaners = {}
  Workspaces = {w1}
  WorkspaceOf <- SameWorkspace
  Caches = {c}
  Faulty = {}
  Nobody = Nobody
PROPERTY ActiveLocksProtect
CHECK_DEADLOCK FALSE
