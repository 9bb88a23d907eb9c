---------------------------- MODULE MCStakingTab ---------------------------
(* One user; a unit of WETH earns a unit of reward per second.             *)
EXTENDS StakingTab

CONSTANT u1
=============================================================================
