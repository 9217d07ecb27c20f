SPECIFICATION ContextSpec
CONSTANTS
  Trigger = 12
  Keep = 8
  Target = 9
  CallSizes = {1, 6}
  ResultSizes = {1, 5, 12}
  CheckpointSizes = {1, 4, 8}
  TurnLimit = 4
CHECK_DEADLOCK FALSE
INVARIANT RecentWholeTurns
PROPERTY CompactedFits
