SPECIFICATION FairSpec
CONSTANTS
  Endpoints = {"good", "foreign", "broken"}
  Serves <- MCServes
  ChainId = "chain"
  Dictionaries = {"d1", "d2"}
  Workers = {"w1", "w2"}
  Inputs <- MCInputs
  MaxCount = 2
  MaxFiltered = 2
INVARIANTS
  TypeOK
  FetchingReady
  DependenciesFound
  NothingLost
  FilteringAccounted
PROPERTY StartUpEnds
CHECK_DEADLOCK FALSE
