------------------------------ MODULE MCNested -----------------------------
(***************************************************************************)
(* Filters in modes and in commands nested in modes:                       *)
(*                                                                         *)
(*   debug (d) -- trace (t) -- pipe                                        *)
(*   show (s)  -- arp (a)   -- pipe (|) -- include (i) -- <pattern> -- pipe*)
(*                                      -- refresh (r) -- <interval> -- pipe*)
(*   config (c)                                                            *)
(***************************************************************************)
EXTENDS CmdTreeCursor

MCParam == {"root", "debug", "show", "config", "trace", "arp", "pipe", "include",
            "pattern", "refresh", "interval"}
MCKey == {"d", "s", "c", "t", "a", "|", "i", "r", "1"}
MCKind == [p \in MCParam |-> IF p \in {"pattern", "interval"} THEN "LEAF" ELSE "CMD"]
MCName ==
  [p \in MCParam |->
     CASE p = "debug" -> <<"d">>
       [] p = "show" -> <<"s">>
       [] p = "config" -> <<"c">>
       [] p = "trace" -> <<"t">>
       [] p = "arp" -> <<"a">>
       [] p = "pipe" -> <<"|">>
       [] p = "include" -> <<"i">>
       [] p = "refresh" -> <<"r">>
       [] OTHER -> <<>>]
MCChildren ==
  [p \in MCParam |->
     CASE p = "root" -> <<"show", "config", "debug">>
       [] p = "debug" -> <<"trace">>
       [] p = "show" -> <<"arp">>
       [] p \in {"trace", "arp", "pattern", "interval"} -> <<"pipe">>
       [] p = "pipe" -> <<"include", "refresh">>
       [] p = "include" -> <<"pattern">>
       [] p = "refresh" -> <<"interval">>
       [] OTHER -> <<>>]
MCHasCallback == {"trace", "arp"}
MCHooks == {"debug", "show", "config"}
MCFilterParams == {"pipe", "include", "pattern"}
MCLeafValid(p, v) == v = <<"1">>
MCHdr == <<">", " ">>
=============================================================================
