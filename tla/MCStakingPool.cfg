CONSTANTS
  u1 = u1
  u2 = u2
  Users = {u1, u2}
  Amounts = {0, 1, 2}
  Grants = {1, 2}
  REWARD_RATE = 2
  BASIS_POINTS = 3
  REWARD_INTERVAL = 1
  USDC_UNIT = 2
  MaxTime = 5
  MaxStaked = 3
  MaxRewards = 3
SYMMETRY Symmetric
SPECIFICATION Spec
INVARIANTS
  NeverOverpaid
  PrincipalCovered
PROPERTIES
  RewardNeverLost
