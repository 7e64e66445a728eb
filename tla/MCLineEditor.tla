---------------------------- MODULE MCLineEditor ----------------------------
(***************************************************************************)
(* Two letters and a prompt of one character.  A row of the terminal holds  *)
(* the longest line and not the cursor behind it.                          *)
(***************************************************************************)
EXTENDS LineEditor

MCPrompt == <<">">>
=============================================================================
