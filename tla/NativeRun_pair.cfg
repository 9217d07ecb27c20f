SPECIFICATION Spec
CONSTANTS
  upstream = upstream
  candidate = candidate
  u1 = u1
  u2 = u2
  a = a
  b = b
  c = c
  Runs = {upstream, candidate}
  Plans <- Pairs
  Units <- TwoUnits
  BuildsOf <- Imports
  Sizes = {1, 2}
  Devices = {"android", "simulator", "physical"}
  Faults = TRUE
  MaxExecutions = 2
  MaxLaunches = 3
  None = None
INVARIANTS
  OneObservation
  EvidenceOfAccepted
  SuccessIsComparable
PROPERTIES
  CommandEnds
  ImmutableEvidence
CHECK_DEADLOCK FALSE
