CONSTANTS
  o1 = o1
  d1 = d1
  d2 = d2
  d3 = d3
  weth = weth
  usdc = usdc
  Owners = {o1}
  Delegates = {d1, d2, d3}
  Contracts = {d1}
  Tokens = {weth}
  StakingToken = weth
  Amounts = {1}
  Types = {"MULTISIG", "INDIVIDUAL", "CONTRACT"}
  Caps = {10}
  Thresholds = {0, 1, 2}
  Expiries = {1}
  REQUIRED_STAKE_PERCENTAGE = 1000
  BASIS_POINTS = 10000
  MAX_DELEGATES_PER_OWNER = 2
  MaxTime = 1
  MaxBalance = 3
SPECIFICATION Spec
INVARIANTS
  TypeOK
  DelegatesListed
  StakesCovered
  ExecutedOnce
PROPERTIES
  QuorumBeforeExecution
