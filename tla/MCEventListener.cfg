CONSTANTS
  Kinds = {"Liquidate", "MarketDataUpdated"}
  MaxBlock = 2
  MaxEvents = 2
  MaxEffects = 2
SPECIFICATION Spec
CHECK_DEADLOCK FALSE
INVARIANTS
  TypeOK
  PostedOnce
PROPERTIES
  OnlyLiveRunLogs
  LoggingCatchesUp
