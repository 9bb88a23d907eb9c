---------------------------- MODULE MCDeployment ----------------------------
(***************************************************************************)
(* A small instance of Deployment: three scripts in a row, of any kind.    *)
(***************************************************************************)
EXTENDS Deployment
=============================================================================
