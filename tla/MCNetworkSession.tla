-------------------------- MODULE MCNetworkSession --------------------------
(***************************************************************************)
(* A small instance of NetworkSession.                                     *)
(***************************************************************************)
EXTENDS NetworkSession

(* The session of a page that has come to rest on the local network; by a  *)
(* reload on mainnet it still reaches the unconnected page.                *)
RestInit == SessionInit /\ connected = TRUE /\ wallet = "local"

SessionFromRest ==
  RestInit /\ [][SessionNext]_sessionVars /\ SessionFairness
=============================================================================
