--------------------------- MODULE MCLendingTabs ---------------------------
(***************************************************************************)
(* Two clicks on any buttons, beside two initialisations of the shell.     *)
(***************************************************************************)
EXTENDS LendingTabs
=============================================================================
