CONSTANTS
  Chains = {"local", "optimism", "mainnet"}
  MaxActions = 2
  MaxSwitches = 2
SPECIFICATION SessionFromRest
CHECK_DEADLOCK FALSE
INVARIANTS
  SessionTypeOK
  LocksAreServed
PROPERTIES
  ControlsReturn
  PageUnlocks
