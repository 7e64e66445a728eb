------------------------------ MODULE MCModes ------------------------------
(***************************************************************************)
(* A tree with every kind of config command, for modes and nested modes:   *)
(*                                                                         *)
(*   show (s)   -- version (va), vlan (vb)                                 *)
(*   config (c) -- node (nd) -- all (ab), <name> -- mtu (m)                *)
(*              -- no            (the same children as config)             *)
(*                                                                         *)
(* A word typed after "node" may be the keyword "ab" or a name that starts *)
(* like it; the options of config and those of show share their first key. *)
(***************************************************************************)
EXTENDS CmdTreeCursor

MCParam == {"root", "show", "config", "no", "node", "all", "name", "mtu", "version", "vlan"}
MCKey == {"s", "c", "n", "o", "d", "m", "v", "a", "b"}
MCKind == [p \in MCParam |-> CASE p = "no" -> "NO_CMD" [] p = "name" -> "LEAF" [] OTHER -> "CMD"]
MCName ==
  [p \in MCParam |->
     CASE p = "show" -> <<"s">>
       [] p = "config" -> <<"c">>
       [] p = "no" -> <<"n", "o">>
       [] p = "node" -> <<"n", "d">>
       [] p = "all" -> <<"a", "b">>
       [] p = "mtu" -> <<"m">>
       [] p = "version" -> <<"v", "a">>
       [] p = "vlan" -> <<"v", "b">>
       [] OTHER -> <<>>]
MCChildren ==
  [p \in MCParam |->
     CASE p = "root" -> <<"show", "config">>
       [] p = "show" -> <<"version", "vlan">>
       [] p = "config" -> <<"node", "no">>
       [] p = "no" -> <<"node">>
       [] p = "node" -> <<"all", "name">>
       [] p = "name" -> <<"mtu">>
       [] OTHER -> <<>>]
\* The same tree with vlan at the root, as testapp.c registers cmsh.
VlanAtRoot ==
  [MCChildren EXCEPT !["root"] = <<"show", "config", "vlan">>, !["show"] = <<"version">>]
MCHasCallback == {"all", "name", "mtu", "version", "vlan"}
MCBatch == {"name", "mtu"}
MCHooks == {"show", "config"}
MCLeafValid(p, v) == v \in {<<"a">>, <<"m">>}
MCHdr == <<">", " ">>
=============================================================================
