SPECIFICATION Spec
CONSTANTS
  upstream = upstream
  candidate = candidate
  u1 = u1
  u2 = u2
  a = a
  b = b
  c = c
  Runs = {upstream}
  Plans <- Single
  Units <- TwoUnits
  BuildsOf <- Imports
  Sizes = {1, 2}
  Devices = {"android"}
  Faults = FALSE
  MaxExecutions = 1
  MaxLaunches = 2
  None = None
INVARIANT NoStaleEvidence
CHECK_DEADLOCK FALSE
