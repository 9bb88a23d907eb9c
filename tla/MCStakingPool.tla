--------------------------- MODULE MCStakingPool ---------------------------
(***************************************************************************)
(* A small instance of StakingPool: a WETH earns two thirds of a reward    *)
(* unit per second, and two of those units make one USDC, so that every    *)
(* period is truncated.                                                    *)
(***************************************************************************)
EXTENDS StakingPool, TLC

CONSTANTS u1, u2

Symmetric == Permutations(Users)
=============================================================================
