------------------------------ MODULE Glthread ------------------------------
(***************************************************************************)
(* The intrusive lists (gluethread/glthread.c) and the two functions of    *)
(* the cursor that take a list apart while they walk it.  A glthread_t is   *)
(* the head of a list or is embedded in what the list is of; the right of  *)
(* a head is the first node, whose left is the head.  A walk is one step   *)
(* of the model per round of its loop.                                     *)
(***************************************************************************)
EXTENDS Integers, FiniteSets, Sequences

CONSTANTS
  Heads, Node, NULL,
  temp_list,   \* the list on the stack of a function
  Weight       \* what comp_fn compares

Thread == Heads \cup Node \cup {temp_list}

ASSUME GlthreadAssumption ==
  /\ IsFiniteSet(Node)
  /\ Heads \cap Node = {} /\ temp_list \notin Heads \cup Node
  /\ NULL \notin Thread
  /\ Weight \in [Node -> Int]

VARIABLES
  glue,     \* left and right of every glthread_t
  call,     \* the call under way and its arguments
  phase,    \* the loop it is in
  prev, curr, count,   \* its variables
  result,   \* what the last call returned
  before    \* glue when the call was made, for the refinement
vars == <<glue, call, phase, prev, curr, count, result, before>>

-----------------------------------------------------------------------------
(* The pointers.                                                           *)

Detached == [left |-> NULL, right |-> NULL]
IS_QUEUED_UP_IN_THREAD(n) == glue[n] # Detached

\* glthread_add_next and glthread_add_before; AddNextHalf leaves the left of the
\* node that follows.
AddNextHalf(g, c, new) ==
  [t \in Thread |->
     [left |-> IF t = new THEN c ELSE g[t].left,
      right |-> IF t = new /\ g[c].right # NULL THEN g[c].right
                ELSE IF t = c THEN new ELSE g[t].right]]
AddNext(g, c, new) ==
  [t \in Thread |->
     [left |-> IF t = g[c].right THEN new ELSE IF t = new THEN c ELSE g[t].left,
      right |-> IF t = new /\ g[c].right # NULL THEN g[c].right
                ELSE IF t = c THEN new ELSE g[t].right]]
AddBefore(g, c, new) ==
  [t \in Thread |->
     [left |-> IF t = c THEN new ELSE IF t = new THEN g[c].left ELSE g[t].left,
      right |-> IF t = new THEN c ELSE IF t = g[c].left THEN new ELSE g[t].right]]
\* remove_glthread: its four cases are the neighbours there are.
RemoveThread(g, c) ==
  [t \in Thread |-> IF t = c THEN Detached
                    ELSE [left |-> IF t = g[c].right THEN g[c].left ELSE g[t].left,
                          right |-> IF t = g[c].left THEN g[c].right ELSE g[t].right]]

\* comp_fn(new, c) == -1; NotAfter is != 1.
NotAfter(new, c) == Weight[new] <= Weight[c]
ComesBefore(new, c) == Weight[new] < Weight[c]

-----------------------------------------------------------------------------
(* The calls.                                                              *)

\* The nodes in list h, in their order.
Walk(g, h) ==
  LET at[k \in 1 .. Cardinality(Node) + 1] ==
        IF k = 1 THEN g[h].right ELSE IF at[k - 1] = NULL THEN NULL ELSE g[at[k - 1]].right
  IN  at
Follow(g, h) ==
  [k \in 1 .. Cardinality({i \in DOMAIN Walk(g, h) : Walk(g, h)[i] # NULL}) |-> Walk(g, h)[k]]

\* What a list is to those who call: while a call is under way, what it was.
ListsNow == [h \in Heads |-> Follow(IF call.op = "none" THEN glue ELSE before, h)]
Promise == INSTANCE Lists WITH lists <- ListsNow
NoCall == Promise!NoCall

\* Where a walk over the list begins: ITERATE_GLTHREAD_BEGIN
First(h) == glue[h].right

Begin ==
  /\ call = NoCall
  /\ call' \in Promise!Calls({n \in Node : ~IS_QUEUED_UP_IN_THREAD(n)})
  /\ phase' = "walk"
  /\ curr' = IF call'.at \in Heads THEN First(call'.at) ELSE NULL
  /\ prev' = NULL /\ count' = 0
  /\ before' = glue
  /\ UNCHANGED <<glue, result>>

\* The call returns r, with g what it made of the pointers.
Returns(g, r) ==
  /\ glue' = g /\ result' = r
  /\ call' = NoCall
  /\ UNCHANGED <<phase, prev, curr, count, before>>

\* The functions without a loop.
Straight ==
  \/ call.op = "add_next" /\ Returns(AddNext(glue, call.at, call.node), NULL)
  \/ call.op = "add_before" /\ Returns(AddBefore(glue, call.at, call.node), NULL)
  \/ call.op = "remove" /\ Returns(RemoveThread(glue, call.at), NULL)
  \/ /\ call.op = "dequeue"
     /\ Returns(IF curr = NULL THEN glue ELSE RemoveThread(glue, curr), curr)

\* A round of a walk that goes on: the next node was read before the round
\* changed anything.
Round(g, p, n) ==
  /\ glue' = g /\ prev' = p /\ count' = n
  /\ curr' = glue[curr].right
  /\ UNCHANGED <<call, phase, result, before>>

\* glthread_add_last, get_glthread_list_count, glthread_get_last
Last == IF prev = NULL THEN call.at ELSE prev
WalkToEnd ==
  /\ call.op \in {"add_last", "count", "get_last"}
  /\ IF curr # NULL THEN Round(glue, curr, count + 1)
     ELSE \/ call.op = "add_last" /\ Returns(AddNext(glue, Last, call.node), NULL)
          \/ call.op = "count" /\ Returns(glue, count)
          \/ call.op = "get_last" /\ Returns(glue, prev)

\* glthread_priority_insert; the cases of no node and of one come to the same.
WalkToPlace ==
  /\ call.op = "priority_insert"
  /\ IF curr # NULL /\ ~ComesBefore(call.node, curr) THEN Round(glue, curr, count)
     ELSE Returns(AddNext(glue, Last, call.node), NULL)

\* delete_glthread_list
WalkAndRemove ==
  /\ call.op = "delete"
  /\ IF curr # NULL THEN Round(RemoveThread(glue, curr), prev, count) ELSE Returns(glue, NULL)

\* cmdtc_collect_all_matching_params, with a list to refine, and
\* cmdtc_filter_word_by_word_size: what is not selected goes to temp_list, and
\* comes back from it when none is selected, or not exactly one.
Moved(g, c, h) == AddNext(RemoveThread(g, c), h, c)
NotSelected(c) == c \notin call.keep
Restores == IF call.op = "collect" THEN count = 0 ELSE count # 1
WalkAndSelect ==
  /\ call.op \in {"collect", "exact"} /\ phase = "walk"
  /\ \/ /\ curr # NULL
        /\ IF NotSelected(curr) THEN Round(Moved(glue, curr, temp_list), prev, count)
           ELSE Round(glue, prev, count + 1)
     \/ /\ curr = NULL
        /\ phase' = IF Restores THEN "restore" ELSE "drain"
        /\ UNCHANGED <<glue, call, prev, curr, count, result, before>>
\* WalkBackLeaving does not drain; WalkBackPeeking looks at the first and leaves it.
Dequeued == First(temp_list)
WalkBackLeaving ==
  /\ call.op \in {"collect", "exact"} /\ phase \in {"drain", "restore"}
  /\ \/ /\ Dequeued # NULL /\ phase = "restore"
        /\ glue' = Moved(glue, Dequeued, call.at)
        /\ UNCHANGED <<call, phase, prev, curr, count, result, before>>
     \/ /\ Dequeued = NULL \/ phase = "drain"
        /\ Returns(glue, IF call.op = "collect" THEN count
                         ELSE IF phase = "drain" THEN First(call.at) ELSE NULL)
WalkBackPeeking ==
  /\ call.op \in {"collect", "exact"} /\ phase \in {"drain", "restore"}
  /\ \/ /\ Dequeued # NULL
        /\ glue' = IF phase = "drain" THEN glue ELSE Moved(glue, Dequeued, call.at)
        /\ UNCHANGED <<call, phase, prev, curr, count, result, before>>
     \/ /\ Dequeued = NULL
        /\ Returns(glue, IF call.op = "collect" THEN count
                         ELSE IF phase = "drain" THEN First(call.at) ELSE NULL)
WalkBack ==
  /\ call.op \in {"collect", "exact"} /\ phase \in {"drain", "restore"}
  /\ \/ /\ Dequeued # NULL
        /\ glue' = IF phase = "drain" THEN RemoveThread(glue, Dequeued)
                   ELSE Moved(glue, Dequeued, call.at)
        /\ UNCHANGED <<call, phase, prev, curr, count, result, before>>
     \/ /\ Dequeued = NULL
        /\ Returns(glue, IF call.op = "collect" THEN count
                         ELSE IF phase = "drain" THEN First(call.at) ELSE NULL)

Step == Straight \/ WalkToEnd \/ WalkToPlace \/ WalkAndRemove \/ WalkAndSelect \/ WalkBack

Init ==
  /\ glue = [t \in Thread |-> Detached]
  /\ call = NoCall
  /\ phase = "walk" /\ prev = NULL /\ curr = NULL /\ count = 0
  /\ result = NULL
  /\ before = glue

Next == Begin \/ Step
Spec == Init /\ [][Next]_vars /\ WF_vars(Step)

-----------------------------------------------------------------------------
(* Properties.                                                             *)

Pointers == [Thread -> [left : Thread \cup {NULL}, right : Thread \cup {NULL}]]
TypeOK ==
  /\ glue \in Pointers
  /\ {prev, curr} \subseteq Node \cup {NULL}
  /\ phase \in {"walk", "drain", "restore"}
  /\ count \in Nat

\* At every step of every function, also in the middle of a walk that takes the
\* list apart, each pointer is answered by one that points back, and no list is
\* on another one.
AnswersBack(g) ==
  /\ \A t \in Thread : g[t].right # NULL => g[g[t].right].left = t
  /\ \A t \in Thread : g[t].left # NULL => g[g[t].left].right = t
  /\ \A h \in Heads \cup {temp_list} : g[h].left = NULL
PointersAgree == AnswersBack(glue)

\* No option is left on a list that was on the stack of a function that has
\* returned: the next keystroke asserts that it is on none.
StackListIsEmpty == call = NoCall => glue[temp_list] = Detached

\* The lists of pointers implement lists.
IsLists == Promise!Spec

\* Every call returns.
CallsReturn == call # NoCall ~> call = NoCall
=============================================================================
