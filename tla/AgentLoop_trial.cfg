SPECIFICATION FairLoop
CONSTANTS
  Seed = Seed
  Draft = Draft
  Better = Better
  Contents = {Seed, Draft}
  CallLists <- SomeCalls
  MaxTurns = 3
  MaxPerTurn = 2
  MaxOutput = 3
  MaxTotal = 6
  MaxSummary = 1
  CostStop = 2
  Inputs = {1}
  ResponseCosts = {0, 2}
  Estimates = {1, 4}
  Original = Seed
  Statuses = {"passed", "failed"}
INVARIANTS
  SubmitsWhatPassed
  LastRequestAnnounced
PROPERTIES
  LimitsHold
  Ends
  ImplementsPromise
CHECK_DEADLOCK FALSE
