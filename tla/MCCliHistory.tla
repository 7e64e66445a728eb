----------------------------- MODULE MCCliHistory -----------------------------
(***************************************************************************)
(* CliHistory with three commands, of which show history is not recorded,  *)
(* one abbreviation and a history of two entries.                          *)
(***************************************************************************)
EXTENDS CliHistory, TLC

MCCommands == {"config host-name", "show ip", "show history"}
MCTexts == MCCommands \cup {"", "sh ip"}
MCRuns == [t \in MCTexts |-> CASE t = "" -> NULL
                               [] t = "sh ip" -> "show ip"
                               [] OTHER -> t]

\* The cells are only told apart by where they are in the list.
Symmetry == Permutations(Cell)
=============================================================================
