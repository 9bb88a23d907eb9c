------------------------- MODULE LendingPoolClaims -------------------------
(***************************************************************************)
(* What a revert message of EnhancedLendingProtocol.sol says of it, stated *)
(* about LendingPool and refuted by a run: the contract does something     *)
(* else.                                                                   *)
(***************************************************************************)
EXTENDS LendingPool

(* "Insufficient collateral" (EnhancedLendingProtocol.sol:287): a loan is  *)
(* granted only against sufficient collateral.  borrow checks the health   *)
(* factor of the position before the loan is added to it.                  *)
LoanIsCollateralised ==
  [][now' = now /\ config' = config =>
       \A u \in Users :
         Debt(WETH, u)' > Debt(WETH, u) => IsHealthy(WETH, u)']_vars
=============================================================================
