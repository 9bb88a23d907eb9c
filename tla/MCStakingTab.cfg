CONSTANTS
  u1 = u1
  Users = {u1}
  Account = u1
  Amounts = {1}
  Grants = {2}
  REWARD_RATE = 1
  BASIS_POINTS = 1
  REWARD_INTERVAL = 1
  USDC_UNIT = 1
  MaxTime = 2
  MaxStaked = 1
  MaxRewards = 2
  MaxHandlers = 3
SPECIFICATION TabSpec
INVARIANTS
  TabTypeOK
  DisabledByHandler
PROPERTIES
  TabKeepsReward
  ShownStakeSettles
CHECK_DEADLOCK FALSE
