------------------------------ MODULE CmdTree ------------------------------
(***************************************************************************)
(* The command tree the shell walks (CmdTree.h, CmdTree.cpp): params with  *)
(* a kind, a keyword and an array of option slots, and the pure operations *)
(* on it that the cursor uses.  The tree itself is built once, before the  *)
(* shell starts, so it is a constant here; what changes while the shell    *)
(* runs is the options[] array, in which enter-mode installs the universal *)
(* params (the show and config hooks).                                     *)
(***************************************************************************)
EXTENDS Integers, Sequences, FiniteSets

CONSTANTS
  Param,            \* the param_t objects of the tree
  NoParam,          \* the NULL pointer
  Key,              \* the printable keys a keyword or a value is made of
  Kind,             \* param_type of every param: "CMD", "LEAF" or "NO_CMD"
  Name,             \* cmd_name of every CMD and NO_CMD param
  Children,         \* the registered options of every param, in slot order
  HasCallback,      \* the params with callback[0] set
  Batch,            \* the params flagged PARAM_F_CONFIG_BATCH_CMD
  Recursive,        \* the params flagged PARAM_F_RECURSIVE
  RootHook, ShowHook, ConfigHook,
  Hooks,            \* param_is_hook: config, clear, show, run, debug
  Pipe,             \* the "|" filter param
  FilterParams,     \* cmd_tree_is_filter_param: | and the words after it
  RefreshHook, RefreshValHook, ClrscrHook,
  HostNameLeaf,     \* the leaf of "config host-name <name>"
  MAX_OPTION_SIZE,  \* slots of options[]
  LeafValid(_, _)   \* clistd_validate_leaf and the user's callback accept

Slot == 0 .. MAX_OPTION_SIZE - 1
ParamOrNull == Param \cup {NoParam}

ASSUME NullAssumption ==
  /\ NoParam \notin Param
  /\ {RootHook, ShowHook, ConfigHook} \subseteq Param
  /\ ShowHook # ConfigHook
  /\ {ShowHook, ConfigHook} \subseteq Hooks
  /\ Hooks \subseteq Param \ {RootHook}
  /\ {Pipe, RefreshHook, RefreshValHook, ClrscrHook, HostNameLeaf}
        \subseteq ParamOrNull
  /\ MAX_OPTION_SIZE \in Nat

ASSUME KindAssumption ==
  /\ Kind \in [Param -> {"CMD", "LEAF", "NO_CMD"}]
  /\ Name \in [Param -> Seq(Key)]
  /\ {" ", "NUL"} \cap Key = {}
  /\ Kind[RootHook] = "CMD"
  /\ \A h \in Hooks : Kind[h] = "CMD"

\* The options of a param fit into its slots.  The universal params are options
\* of the root and of no other param; what else is registered at the root, and
\* how many slots stay free for the universal params, is up to the application.
ASSUME ChildrenAssumption ==
  /\ Children \in [Param -> Seq(Param)]
  /\ \A p \in Param : Len(Children[p]) <= MAX_OPTION_SIZE
  /\ \A h \in {ShowHook, ConfigHook} :
        \E i \in DOMAIN Children[RootHook] : Children[RootHook][i] = h
  /\ \A p \in Param : \A i \in DOMAIN Children[p] :
        /\ Children[p][i] # RootHook
        /\ Children[p][i] \in {ShowHook, ConfigHook} => p = RootHook

\* A node has at most one leaf among its options, so that a value can only
\* be meant for that leaf (collect asserts it).
ASSUME OneLeafAssumption ==
  \A p \in Param : \A i, j \in DOMAIN Children[p] :
     Kind[Children[p][i]] = "LEAF" /\ Kind[Children[p][j]] = "LEAF" => i = j

\* cmd_tree_construct_filter_subtree: a refresh comes behind a pipe only, and
\* has its interval as its one option; the interval comes nowhere else.
ASSUME FilterAssumption ==
  /\ {Pipe, RefreshHook} \cap (Hooks \cup {RootHook}) = {}
  /\ \A p \in {Pipe, RefreshHook} : p # NoParam => Kind[p] = "CMD"
  /\ \A p \in Param : \A i \in DOMAIN Children[p] :
        /\ Children[p][i] = RefreshHook => p = Pipe
        /\ Children[p][i] = RefreshValHook <=> p = RefreshHook

\* libcli_param_recursive: only a leaf is an option of its own.
ASSUME RepeatAssumption ==
  \A p \in Param : \A i \in DOMAIN Children[p] : Children[p][i] = p => Kind[p] = "LEAF"

\* libcli_build_default_cmdtree: the root has no callback.
ASSUME CallbackAssumption == RootHook \notin HasCallback

-----------------------------------------------------------------------------
IsNo(p) == Kind[p] = "NO_CMD"
IsLeaf(p) == Kind[p] = "LEAF"
Universal == {ShowHook, ConfigHook}

\* options[] as the tree builder leaves it: registered children first.
InitOptions ==
  [p \in Param |-> [i \in Slot |->
     IF i < Len(Children[p]) THEN Children[p][i + 1] ELSE NoParam]]

\* The NUL that ends a keyword never equals a typed key.
NUL == "NUL"
KeyAt(p, i) == IF i < Len(Name[p]) THEN Name[p][i + 1] ELSE NUL

\* The params an options array holds.
OptionsIn(o) == {o[i] : i \in Slot} \ {NoParam}

\* cmd_tree_install_universal_params: the hooks other than the one whose
\* branch the user is in go to the first free slots, show before config.
\* Without room for them it asserts; in the config branch it looks for a second
\* slot although it fills one only.
HasRoom(o, branch) ==
  Cardinality({i \in Slot : o[i] = NoParam}) >= IF branch = ShowHook THEN 1 ELSE 2
FirstFree(o) == CHOOSE i \in Slot : o[i] = NoParam /\ \A j \in 0 .. i - 1 : o[j] # NoParam
Put(o, p) == [o EXCEPT ![FirstFree(o)] = p]
Install(o, branch) ==
  IF branch = ShowHook THEN Put(o, ConfigHook)
  ELSE IF branch = ConfigHook THEN Put(o, ShowHook)
  ELSE Put(Put(o, ShowHook), ConfigHook)

\* cmd_tree_uninstall_universal_params
UninstallShow(o) == [i \in Slot |-> IF o[i] = ShowHook THEN NoParam ELSE o[i]]
Uninstall(o) == [i \in Slot |-> IF o[i] \in Universal THEN NoParam ELSE o[i]]

=============================================================================
