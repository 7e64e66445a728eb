------------------------------ MODULE MCBatch ------------------------------
(***************************************************************************)
(* Batch and recursive config commands, and the host name:                 *)
(*                                                                         *)
(*   show (s)                                                              *)
(*   config (c) -- host (h) -- <hostname>                                  *)
(*              -- vlan (v) -- <id>, as often as one likes -- mtu (mt)     *)
(***************************************************************************)
EXTENDS CmdTreeCursor

MCParam == {"root", "show", "config", "host", "hostname", "vlan", "id", "mtu"}
MCKey == {"s", "c", "h", "v", "m", "t", "1"}
MCKind == [p \in MCParam |-> IF p \in {"hostname", "id"} THEN "LEAF" ELSE "CMD"]
MCName ==
  [p \in MCParam |->
     CASE p = "show" -> <<"s">>
       [] p = "config" -> <<"c">>
       [] p = "host" -> <<"h">>
       [] p = "vlan" -> <<"v">>
       [] p = "mtu" -> <<"m", "t">>
       [] OTHER -> <<>>]
MCChildren ==
  [p \in MCParam |->
     CASE p = "root" -> <<"show", "config">>
       [] p = "config" -> <<"host", "vlan">>
       [] p = "host" -> <<"hostname">>
       [] p = "vlan" -> <<"id">>
       [] p = "id" -> <<"id", "mtu">>
       [] OTHER -> <<>>]
MCHasCallback == {"hostname", "vlan", "id", "mtu"}
MCBatch == {"vlan", "id", "mtu"}
MCRecursive == {"id"}
MCHooks == {"show", "config"}
MCLeafValid(p, v) == v = <<"1">>
MCHdr == <<">", " ">>
=============================================================================
