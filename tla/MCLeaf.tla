------------------------------- MODULE MCLeaf ------------------------------
(***************************************************************************)
(* The shape of "show node <name>" in main4.c: two keywords that start     *)
(* alike (loopback and looppack) beside a leaf (the table name).           *)
(***************************************************************************)
EXTENDS CmdTreeCursor

MCParam == {"root", "show", "config", "loopback", "looppack", "table"}
MCKey == {"s", "c", "l", "b", "p"}
MCKind == [p \in MCParam |-> IF p = "table" THEN "LEAF" ELSE "CMD"]
MCName ==
  [p \in MCParam |->
     CASE p = "show" -> <<"s">>
       [] p = "config" -> <<"c">>
       [] p = "loopback" -> <<"l", "b">>
       [] p = "looppack" -> <<"l", "p">>
       [] OTHER -> <<>>]
MCChildren ==
  [p \in MCParam |->
     CASE p = "root" -> <<"show", "config">>
       [] p = "show" -> <<"loopback", "table", "looppack">>
       [] OTHER -> <<>>]
MCHasCallback == {"loopback", "looppack", "table"}
MCHooks == {"show", "config"}
MCLeafValid(p, v) == TRUE
MCHdr == <<">", " ">>
=============================================================================
