------------------------------- MODULE MCOutput -------------------------------
(***************************************************************************)
(* Filters with two lines, a pattern for each, one for none and a regular  *)
(* expression that does not compile.                                       *)
(***************************************************************************)
EXTENDS Filters

MCTexts == {"up", "down"}
MCMatches == [p \in {"u", "d", "x", "["} |-> CASE p = "u" -> {"up"}
                                               [] p = "d" -> {"down"}
                                               [] OTHER -> {}]

Include(p) == [leaf_id |-> "incl-pattern", value |-> p]
Exclude(p) == [leaf_id |-> "excl-pattern", value |-> p]
Grep(p)    == [leaf_id |-> "grep-pattern", value |-> p]
Save(f)    == [leaf_id |-> "sfile-name", value |-> f]
Count      == [leaf_id |-> "none", value |-> "count"]

\* A chain is patterns and, at its end, a count or a file.
MCPatterns == {<< >>, <<Include("u")>>, <<Exclude("u")>>, <<Grep("[")>>,
               <<Exclude("x"), Grep("d")>>}
MCEnds(f) == {<< >>, <<Count>>, <<Save(f)>>}
MCChains == {p \o e : p \in MCPatterns, e \in MCEnds("log")}

\* The user saves to a file of the name of the filter.
MCSaveCount == {<< >>, <<Save("count")>>}
=============================================================================
