SPECIFICATION FairSpec
CONSTANTS
  MaxHeight = 4
  DataSources = {"a", "b", "c"}
  FirstSources = {"a"}
  Wants <- MCWants
  QueueSize = 2
  MaxCrashes = 2
INVARIANTS
  TypeOK
  QueueComplete
PROPERTIES
  ImplementsChain
  EventuallyIndexed
CHECK_DEADLOCK FALSE
