----------------------------- MODULE MCLineMode -----------------------------
(***************************************************************************)
(* A tree for char mode and line mode together:                            *)
(*                                                                         *)
(*   show (s)   -- version (va)                                            *)
(*   config (c) -- node (nd) -- <name> -- mtu (m)                          *)
(*                           -- off (no) -- <name>                         *)
(*              -- no        -- node                                       *)
(*                                                                         *)
(* "n" is two keywords of config, "no" comes twice in some commands, and a *)
(* name may look like the keyword that follows it.                         *)
(***************************************************************************)
EXTENDS LineMode

MCParam == {"root", "show", "config", "no", "node", "off", "name", "mtu", "version"}
MCKey == {"s", "c", "n", "o", "d", "m", "v", "a"}
MCKind == [p \in MCParam |->
             CASE p \in {"no", "off"} -> "NO_CMD" [] p = "name" -> "LEAF" [] OTHER -> "CMD"]
MCName ==
  [p \in MCParam |->
     CASE p = "show" -> <<"s">>
       [] p = "config" -> <<"c">>
       [] p \in {"no", "off"} -> <<"n", "o">>
       [] p = "node" -> <<"n", "d">>
       [] p = "mtu" -> <<"m">>
       [] p = "version" -> <<"v", "a">>
       [] OTHER -> <<>>]
MCChildren ==
  [p \in MCParam |->
     CASE p = "root" -> <<"show", "config">>
       [] p = "show" -> <<"version">>
       [] p = "config" -> <<"node", "no">>
       [] p = "no" -> <<"node">>
       [] p = "node" -> <<"name", "off">>
       [] p = "off" -> <<"name">>
       [] p = "name" -> <<"mtu">>
       [] OTHER -> <<>>]
MCHasCallback == {"name", "mtu", "version"}
MCBatch == {"name", "mtu"}
MCHooks == {"show", "config"}
MCLeafValid(p, v) == v \in {<<"a">>, <<"m">>}
\* A name may also begin a hook.
MCLeafOfHook(p, v) == v \in {<<"c">>, <<"m">>}
MCHdr == <<">", " ">>
MCWord == {<<"s">>, <<"v">>, <<"c">>, <<"n">>, <<"n", "o">>, <<"a">>, <<"m">>}
=============================================================================
