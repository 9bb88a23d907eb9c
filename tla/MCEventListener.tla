-------------------------- MODULE MCEventListener --------------------------
(***************************************************************************)
(* A small instance of EventListener.  Liquidate arms a timer like every   *)
(* user event and has two participants; the other four have one.           *)
(***************************************************************************)
EXTENDS EventListener
=============================================================================
