CONSTANTS
  u1 = u1
  u2 = u2
  weth = weth
  usdc = usdc
  SCALE = 4
  INITIAL_INTEREST_INDEX = 4
  SECONDS_PER_INTERVAL = 2
  SECONDS_PER_YEAR = 4
  Users = {u1, u2}
  Tokens = {weth}
  WETH = weth
  Amounts = {0, 1, 2}
  Prices = {1}
  Configs <- Deployed
  MAX_UINT256 = 1000000
  MaxDeposits = 4
  MaxTime = 4
SPECIFICATION Spec
PROPERTIES
  LoanIsCollateralised
