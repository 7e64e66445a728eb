------------------------------ MODULE TreeBuild ------------------------------
(***************************************************************************)
(* Building the tree of commands, before the shell starts (CmdTree.cpp):   *)
(* the library's own commands, the calls by which a program adds its own,   *)
(* and libcli_init_done, which adds the filters and a negation.  Nothing is *)
(* removed from options[] meanwhile, so that its slots in use are a        *)
(* sequence.                                                               *)
(***************************************************************************)
EXTENDS Integers, SequencesExt, FiniteSetsExt

CONSTANTS
  Own,               \* the params of the program, as init_param leaves them:
  Leaf,              \* the leaves of them,
  Handled,           \* and those with a handler
  Negation,          \* the params support_cmd_negation allocates
  NULL,
  MAX_OPTION_SIZE,
  CALLBACKS_N,
  Branches,          \* the hooks the program adds commands to
  MaxCalls           \* bound: the calls of the program

\* libcli_build_default_cmdtree
DefaultTree ==
  [root |-> <<"show", "config", "debug", "clear", "run">>,
   show |-> <<"help", "history">>,
   config |-> <<"host_name">>, host_name |-> <<"name">>,
   run |-> <<"ut", "term">>, ut |-> <<"file">>, file |-> <<"tc_no">>,
   debug |-> <<"debug_ut">>, debug_ut |-> <<"enable">>]
\* cmd_tree_construct_filter_subtree
FilterTree ==
  [pipe |-> <<"count", "save", "include", "exclude", "grep", "refresh">>,
   save |-> <<"save_file">>,
   include |-> <<"incl">>, incl |-> <<"pipe">>,
   exclude |-> <<"excl">>, excl |-> <<"pipe">>,
   grep |-> <<"pattern">>, pattern |-> <<"pipe">>,
   refresh |-> <<"refresh_val">>, refresh_val |-> <<"pipe", "cls">>]

InTree(tree) == DOMAIN tree \cup UNION {ToSet(tree[p]) : p \in DOMAIN tree}
Param == InTree(DefaultTree) \cup InTree(FilterTree) \cup Own \cup Negation
Hooks == {"show", "config", "debug", "clear", "run"}

\* Every param is an object of its own.
ASSUME TreeBuildAssumption ==
  /\ Branches \subseteq Hooks /\ Leaf \subseteq Own /\ Handled \subseteq Own
  /\ (InTree(DefaultTree) \cup InTree(FilterTree)) \cap (Own \cup Negation) = {}
  /\ Own \cap Negation = {} /\ IsFiniteSet(Own \cup Negation)
  /\ Negation # {} /\ NULL \notin Param
  /\ MAX_OPTION_SIZE >= 6 /\ CALLBACKS_N >= 1

VARIABLES
  options,     \* the slots in use
  parent,
  handlers,    \* how many of callback[] are set, of the program's params
  batch,       \* PARAM_F_CONFIG_BATCH_CMD
  recursive,   \* PARAM_F_RECURSIVE
  stage,       \* "building", "built", or how it ended: "aborted", "crashed"
  calls        \* how many the program made
vars == <<options, parent, handlers, batch, recursive, stage, calls>>

-----------------------------------------------------------------------------
NoExpand == Negation \cup {"pipe"}
Has(p, q) == q \in ToSet(options[p])
Uses(c) == {p \in Param \ {c} : Has(p, c)}
IsFull(p) == Len(options[p]) >= MAX_OPTION_SIZE
NegationOf(p) == ToSet(options[p]) \cap Negation
Unused == {n \in Negation : Uses(n) = {}}
Allocated == CHOOSE n \in Unused : TRUE

\* What is reached from a param through those given.
OneFurther(o, r, through) == r \cup UNION {ToSet(o[p]) : p \in r \cap through}
Reached(o, from, through) ==
  LET reach[r \in SUBSET Param] ==
        LET further == OneFurther(o, r, through)
        IN  IF further = r THEN r ELSE reach[further]
  IN  reach[{from}]
Below(p) == Reached(options, p, Param)

\* The params from p up, as the parents lead.
Ancestry(p) ==
  LET up[q \in Param \cup {NULL}] == IF q = NULL THEN << >> ELSE <<q>> \o up[parent[q]]
  IN  up[p]

Stop(how) ==
  /\ stage' = how
  /\ UNCHANGED <<options, parent, handlers, batch, recursive, calls>>

-----------------------------------------------------------------------------
(* The calls of the program.  It does not make a command part of itself,    *)
(* other than by libcli_param_recursive, nor an option of a param twice.   *)

MayCall == stage = "building" /\ calls < MaxCalls

libcli_register_param(p, c) ==
  /\ MayCall
  /\ c \notin Hooks /\ ~Has(p, c) /\ p \notin Below(c)
  /\ IF (p \in recursive /\ c \in Leaf) \/ IsFull(p)
     THEN Stop("aborted")
     ELSE /\ options' = [options EXCEPT ![p] = Append(@, c)]
          /\ parent' = [parent EXCEPT ![c] = p]
          /\ calls' = calls + 1
          /\ UNCHANGED <<handlers, batch, recursive, stage>>

\* The param keeps its parent and becomes an option of its own.
libcli_param_recursive(p) ==
  /\ MayCall /\ p \in Leaf \ recursive
  /\ IF IsFull(p)
     THEN Stop("aborted")
     ELSE /\ options' = [options EXCEPT ![p] = Append(@, p)]
          /\ recursive' = recursive \cup {p}
          /\ calls' = calls + 1
          /\ UNCHANGED <<parent, handlers, batch, stage>>

libcli_register_cmd_handler(p) ==
  /\ MayCall
  /\ IF handlers[p] = CALLBACKS_N
     THEN Stop("aborted")
     ELSE /\ handlers' = [handlers EXCEPT ![p] = @ + 1]
          /\ calls' = calls + 1
          /\ UNCHANGED <<options, parent, batch, recursive, stage>>

\* The options of a param so far become those of its negation, and the negation
\* its last one.  CopiedButFirst starts at the wrong slot.
CopiedButFirst(o, p) == IF o[p] = << >> THEN << >> ELSE Tail(o[p])
Copied(o, p) == o[p]
Negated(o, p, n) == [o EXCEPT ![p] = Append(@, n), ![n] = Copied(o, p)]
libcli_support_cmd_negation(p) ==
  /\ MayCall /\ Cardinality(Unused) > 1
  /\ IF NegationOf(p) # {} \/ IsFull(p)
     THEN Stop("aborted")
     ELSE /\ options' = Negated(options, p, Allocated)
          /\ calls' = calls + 1
          /\ UNCHANGED <<parent, handlers, batch, recursive, stage>>

\* Up from the param to config every param is flagged, until one that is.  The
\* callback array is never NULL, so that it does not matter which have a
\* handler.  Where the parents do not lead to config it follows a NULL.
\* StopsAtPlain gives up at the first param without a handler.
StopsAtPlain(q) == q = "config" \/ q \in batch \/ (q \in Own /\ handlers[q] = 0)
Stops(q) == q = "config" \/ q \in batch
libcli_set_tail_config_batch_processing(p) ==
  LET up == Ancestry(p)
      last == {i \in DOMAIN up : Stops(up[i])}
  IN  /\ MayCall
      /\ p \in Below("config")
      /\ IF last = {}
         THEN Stop("crashed")
         ELSE /\ batch' = batch \cup {up[i] : i \in 1 .. Min(last) - 1}
              /\ calls' = calls + 1
              /\ UNCHANGED <<options, parent, handlers, recursive, stage>>

-----------------------------------------------------------------------------
(* libcli_init_done.                                                       *)

\* libcli_augment_cmd_tree_with_filters comes by a param once for every way to
\* it, but not through those marked not to expand, and gives it the pipe every
\* time: here too the callback array is never NULL.  ExpandsAll lacks the mark.
ExpandsAll(q) == q # "pipe"
Expands(q) == q \notin NoExpand
Expanded == {q \in Param : Expands(q)}
Filtered == {"show", "debug"}
Augmented(o) == (UNION {Reached(o, h, Expanded) : h \in Filtered}) \cap Expanded
Total(f, s) == MapThenSumSet(LAMBDA p : f[p], s)
Ways(o) ==
  LET augmented == Augmented(o)
      ways[q \in augmented] ==
        IF q \in Filtered THEN 1
        ELSE Total(ways, {p \in augmented : q \in ToSet(o[p])})
  IN  ways
WithPipes(o) ==
  LET ways == Ways(o)
  IN  [q \in Param |-> IF q \in DOMAIN ways
                       THEN o[q] \o [i \in 1 .. ways[q] |-> "pipe"] ELSE o[q]]

\* libcli_cleanup_parent_pointers: what is recursive is not looked into.
CleanedUp(o) == LET kept == recursive \cup {"pipe"}
                IN  Reached(o, "root", Param \ kept) \ kept

libcli_init_done ==
  /\ stage = "building"
  /\ LET piped == WithPipes(options)
         full == {q \in Param : Len(piped[q]) > MAX_OPTION_SIZE}
     IN  IF Augmented(options) \cap recursive # {}
         THEN Stop("crashed")   \* it comes by the param for ever
         ELSE IF full # {} \/ NegationOf("config") # {} \/ IsFull("config")
         THEN Stop("aborted")
         ELSE /\ options' = Negated(piped, "config", Allocated)
              /\ LET cleaned == CleanedUp(options')
                 IN  parent' = [q \in Param |-> IF q \in cleaned THEN NULL ELSE parent[q]]
              /\ stage' = "built"
              /\ UNCHANGED <<handlers, batch, recursive, calls>>

-----------------------------------------------------------------------------
Parents(tree, p) == {q \in DOMAIN tree : p \in ToSet(tree[q])}

\* The filters are in options from the start: nothing leads to them before
\* libcli_init_done.  Of the pipe, which has many, no parent is kept.
Init ==
  /\ options = [p \in Param |-> IF p \in DOMAIN DefaultTree THEN DefaultTree[p]
                                ELSE IF p \in DOMAIN FilterTree THEN FilterTree[p] ELSE << >>]
  /\ parent = [p \in Param |-> IF Parents(DefaultTree, p) = {} THEN NULL
                               ELSE CHOOSE q \in Parents(DefaultTree, p) : TRUE]
  /\ handlers = [p \in Own |-> IF p \in Handled THEN 1 ELSE 0]
  /\ batch = {} /\ recursive = {}
  /\ stage = "building" /\ calls = 0

Next ==
  \/ \E p \in Own \cup Branches :
       \/ \E c \in Own : libcli_register_param(p, c)
       \/ libcli_support_cmd_negation(p)
  \/ \E p \in Own :
       \/ libcli_param_recursive(p)
       \/ libcli_register_cmd_handler(p)
       \/ libcli_set_tail_config_batch_processing(p)
  \/ libcli_init_done

Spec == Init /\ [][Next]_vars

-----------------------------------------------------------------------------
(* Properties.                                                             *)

\* A param that the program uses in one place only, or there and in the negation
\* of it, below others it uses in one place only.
InOnePlace(p) ==
  \A q \in {r \in Own : p \in Below(r)} : Cardinality(Uses(q) \ Negation) <= 1

Pipes(p) == Cardinality({i \in DOMAIN options[p] : options[p][i] = "pipe"})

\* The output of every show or debug command can be filtered, whatever the order
\* in which its words were registered, and the pipe is one option there: of two
\* the second would be queued twice.
PipeEverywhereOnce ==
  stage = "built" =>
    \A p \in Own \cap Augmented(options) :
      InOnePlace(p) => Pipes(p) = 1

\* The negation of a param leads where the param led when it was negated, and
\* of config it leads everywhere.
NegationMirrors ==
  \A p \in Param : \A n \in NegationOf(p) :
    LET i == CHOOSE j \in DOMAIN options[p] : options[p][j] = n IN
    /\ options[n] = SubSeq(options[p], 1, i - 1)
    /\ stage = "built" /\ p = "config" => i = Len(options[p])

\* A batch ends at the last param of a line: with a param every one above it that
\* has a handler and may end a line itself is in the batch.
BatchGoesUp ==
  stage = "building" =>
    \A p \in batch : InOnePlace(p) =>
      \A a \in Own : p \in Below(a) /\ handlers[a] > 0 => a \in batch

\* "You cannot add a LEAF param as child of Recursive param" (CmdTree.cpp:129).
OneLeaf == \A p \in recursive : ToSet(options[p]) \cap Leaf = {p}

\* "param->parent is suppose to be null during normal opn" (CmdTree.cpp:622).
ParentsAreNull == stage = "built" => \A p \in Below("root") \ {"pipe"} : parent[p] = NULL

\* The filters have one pipe where the program copied a subtree too, and
\* building the tree always ends.
PipeOnce ==
  \A p \in Param : Pipes(p) <= 1
BuildEnds == stage # "crashed"
=============================================================================
