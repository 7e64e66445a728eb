----------------------------- MODULE MCFilters -----------------------------
(***************************************************************************)
(* A tree of show commands and the filters behind them:                    *)
(*                                                                         *)
(*   show (s) -- arp (a) -- pipe (|) -- include (i) -- <pattern> -- pipe   *)
(*                                   -- count (n)                          *)
(*                                   -- refresh (r) -- <interval> -- pipe  *)
(*                                                                -- cls (k)*)
(*                       -- all (l)                                        *)
(*   config (c)                                                            *)
(*                                                                         *)
(* The filters lead back to the pipe, as in the shipped tree, so that a    *)
(* command has as many of them as the line has room for.                   *)
(***************************************************************************)
EXTENDS CmdTreeCursor

MCParam == {"root", "show", "config", "arp", "all", "pipe", "include", "pattern",
            "count", "refresh", "interval", "cls"}
MCKey == {"s", "c", "a", "l", "|", "i", "n", "r", "k", "1"}
MCKind == [p \in MCParam |-> IF p \in {"pattern", "interval"} THEN "LEAF" ELSE "CMD"]
MCName ==
  [p \in MCParam |->
     CASE p = "show" -> <<"s">>
       [] p = "config" -> <<"c">>
       [] p = "arp" -> <<"a">>
       [] p = "all" -> <<"l">>
       [] p = "pipe" -> <<"|">>
       [] p = "include" -> <<"i">>
       [] p = "count" -> <<"n">>
       [] p = "refresh" -> <<"r">>
       [] p = "cls" -> <<"k">>
       [] OTHER -> <<>>]
MCChildren ==
  [p \in MCParam |->
     CASE p = "root" -> <<"show", "config">>
       [] p = "show" -> <<"arp">>
       [] p = "arp" -> <<"pipe", "all">>
       [] p = "pipe" -> <<"include", "count", "refresh">>
       [] p = "include" -> <<"pattern">>
       [] p = "pattern" -> <<"pipe">>
       [] p = "refresh" -> <<"interval">>
       [] p = "interval" -> <<"pipe", "cls">>
       [] OTHER -> <<>>]
MCHasCallback == {"arp", "all"}
MCHooks == {"show", "config"}
MCFilterParams == {"pipe", "include", "pattern", "count"}
MCLeafValid(p, v) == v = <<"1">>
MCHdr == <<">", " ">>
=============================================================================
