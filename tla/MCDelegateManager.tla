------------------------- MODULE MCDelegateManager -------------------------
(***************************************************************************)
(* A small instance of DelegateManager: a cap of 10 requires a stake of 1. *)
(***************************************************************************)
EXTENDS DelegateManager

CONSTANTS o1, d1, d2, d3, weth, usdc
=============================================================================
