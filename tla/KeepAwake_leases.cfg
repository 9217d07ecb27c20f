SPECIFICATION FairSpec
CONSTANTS
  Scopes = {s1, s2, s3}
  ExplicitTags = {video, shared}
  ManualTags = {shared}
  MaxGenerated = 1
  NoScope = NoScope
  NoTag = NoTag
INVARIANTS
  HeldStaysAwake
  ReleasedSleeps
PROPERTIES
  ImplementsPromise
  RequestsSettle
