SPECIFICATION SupervisorSpec
CONSTANTS
  Callers = {"run", "maestro", "serve"}
  Sizes = {1, 3}
  MaxChunks = 2
  MaxHelpers = 1
  ByteLimit = 3
  LineLimit = 2
  NoticeSize = 1
INVARIANTS
  OutputAccounted
  NothingLeftRunning
PROPERTY CallEnds
