--------------------------- MODULE MCActivityApi ---------------------------
(***************************************************************************)
(* Small instances of ActivityApi.                                         *)
(***************************************************************************)
EXTENDS ActivityApi, TLC

CONSTANTS r1, r2, r3, u1, u2, t1, t2, p1
=============================================================================
