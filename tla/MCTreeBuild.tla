---------------------------- MODULE MCTreeBuild -----------------------------
(***************************************************************************)
(* A program with two words and a value, or with two values, and with few  *)
(* enough slots for them to run out.                                       *)
(***************************************************************************)
EXTENDS TreeBuild
=============================================================================
