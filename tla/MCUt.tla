-------------------------------- MODULE MCUt --------------------------------
(***************************************************************************)
(* UtParser with two lines, a pattern for each and three chains of filters.*)
(***************************************************************************)
EXTENDS UtParser

MCTexts   == {"up", "down"}
MCMatches == [p \in {"u", "d"} |-> IF p = "u" THEN {"up"} ELSE {"down"}]

Include(p) == [leaf_id |-> "incl-pattern", value |-> p]
Save(f)    == [leaf_id |-> "sfile-name", value |-> f]
Count      == [leaf_id |-> "none", value |-> "count"]

MCChains == {<< >>, <<Include("u"), Count>>, <<Save("log")>>}
=============================================================================
