----------------------------- MODULE MCGlthread -----------------------------
(***************************************************************************)
(* Two lists, between which nodes move, and nodes of which two weigh the   *)
(* same.                                                                   *)
(***************************************************************************)
EXTENDS Glthread, TLC

CONSTANTS n1, n2, n3

MCWeight == (n1 :> 1) @@ (n2 :> 1) @@ (n3 :> 2)
=============================================================================
