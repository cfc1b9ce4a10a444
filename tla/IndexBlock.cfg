SPECIFICATION Spec
CONSTANTS
  MaxTransactions = 2
  MaxEvents = 3
  MaxSpecialEvents = 2
  MaxDataSources = 3
INVARIANTS TypeOK EveryItemOnce
PROPERTY ImplementsOrder
CHECK_DEADLOCK FALSE
