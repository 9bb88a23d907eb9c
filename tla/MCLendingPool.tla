--------------------------- MODULE MCLendingPool ---------------------------
(***************************************************************************)
(* Small instances of LendingPool.  The close factor and the divisors of   *)
(* the contract are kept; its 1e18 unit, its interval and its year shrink  *)
(* so that one interval adds half of a debt.                               *)
(***************************************************************************)
EXTENDS LendingPoolClaims

CONSTANTS u1, u2, weth, usdc

(* scripts/deploy/deploy-l1.ts, with another rate                          *)
WethConfig ==
  [isSupported |-> TRUE, collateralFactor |-> 7500,
   liquidationThreshold |-> 8000, liquidationPenalty |-> 1000,
   interestRate |-> 100]

DearConfig == [WethConfig EXCEPT !.interestRate = 200]

Deployed   == {WethConfig}
Reconfigured == {WethConfig, DearConfig}
=============================================================================
