CONSTANTS
  u1 = u1
  u2 = u2
  weth = weth
  usdc = usdc
  SCALE = 4
  INITIAL_INTEREST_INDEX = 4
  SECONDS_PER_INTERVAL = 2
  SECONDS_PER_YEAR = 4
  Users = {u1}
  Tokens = {weth, usdc}
  WETH = weth
  Amounts = {1, 2}
  Prices = {1}
  Configs <- Reconfigured
  MAX_UINT256 = 1000000
  MaxDeposits = 2
  MaxTime = 2
SPECIFICATION Spec
INVARIANTS
  BooksBalance
  TotalsCoverPositions
  SolventButForSeizures
