-------------------------------- MODULE Lists --------------------------------
(***************************************************************************)
(* What the functions on intrusive lists promise, without the pointers: a   *)
(* list is a sequence of nodes, a node is on at most one of them, a call is *)
(* made, and it returns.                                                   *)
(***************************************************************************)
EXTENDS Integers, SequencesExt, FiniteSetsExt

CONSTANTS
  Heads,     \* the lists that live longer than a call
  Node,     \* what they are lists of
  NULL,
  Weight    \* what comp_fn compares

VARIABLES
  lists,    \* the nodes of each list
  call,     \* the call that is under way, or NoCall
  result    \* what the last call returned

Call(op, at, node, keep) == [op |-> op, at |-> at, node |-> node, keep |-> keep]
NoCall == Call("none", NULL, NULL, {})

\* What the callers pass: a new node is on no list, and at most one of the
\* options of a param has the name that was typed.
Calls(free) ==
  {Call(op, h, n, {}) : op \in {"add_next", "add_last", "priority_insert"}, h \in Heads, n \in free}
  \cup {Call("add_before", m, n, {}) : m \in Node \ free, n \in free}
  \cup {Call("remove", n, NULL, {}) : n \in Node}
  \cup {Call(op, h, NULL, {}) : op \in {"dequeue", "delete", "count", "get_last"}, h \in Heads}
  \cup {Call("collect", h, NULL, s) : h \in Heads, s \in SUBSET Node}
  \cup {Call("exact", h, NULL, {n}) : h \in Heads, n \in Node \cup {NULL}}

Free == {n \in Node : \A h \in Heads : ~Contains(lists[h], n)}
\* Those of the first i nodes of s that are kept.
Kept(s, keep) ==
  LET kept[i \in 0 .. Len(s)] ==
        IF i = 0 THEN << >>
        ELSE IF s[i] \in keep THEN Append(kept[i - 1], s[i]) ELSE kept[i - 1]
  IN  kept
Selected == Kept(lists[call.at], call.keep)[Len(lists[call.at])]
IndexIn(s, n) == CHOOSE i \in DOMAIN s : s[i] = n
NullOr(s, i) == IF s = << >> THEN NULL ELSE s[i]
\* The place of a node with that weight: before the first that weighs more.
Place(s, n) ==
  LET heavier == {i \in 1 .. Len(s) : Weight[n] < Weight[s[i]]}
  IN  IF heavier = {} THEN Len(s) + 1 ELSE Min(heavier)

Init == lists = [h \in Heads |-> << >>] /\ call = NoCall /\ result = NULL

Begin ==
  /\ call = NoCall
  /\ call' \in Calls(Free)
  /\ UNCHANGED <<lists, result>>

\* A call returns: this becomes of its list, and this is returned.
Answers(op, list, r) ==
  /\ call.op = op
  /\ lists' = [lists EXCEPT ![call.at] = list]
  /\ result' = r
Inserts ==
  LET s == lists[call.at] IN
  \/ Answers("add_next", InsertAt(s, 1, call.node), NULL)
  \/ Answers("add_last", InsertAt(s, Len(s) + 1, call.node), NULL)
  \/ Answers("priority_insert", InsertAt(s, Place(s, call.node), call.node), NULL)
InsertsBefore ==
  /\ call.op = "add_before"
  /\ lists' = [h \in Heads |->
               IF Contains(lists[h], call.at)
               THEN InsertAt(lists[h], IndexIn(lists[h], call.at), call.node)
               ELSE lists[h]]
  /\ result' = NULL
Removes ==
  /\ call.op = "remove"
  /\ lists' = [h \in Heads |->
               IF Contains(lists[h], call.at) THEN RemoveAt(lists[h], IndexIn(lists[h], call.at))
               ELSE lists[h]]
  /\ result' = NULL
Takes ==
  LET s == lists[call.at] IN
  \/ Answers("dequeue", IF s = << >> THEN s ELSE RemoveAt(s, 1), NullOr(s, 1))
  \/ Answers("delete", << >>, NULL)
Reads ==
  LET s == lists[call.at] IN
  \/ Answers("count", s, Len(s))
  \/ Answers("get_last", s, NullOr(s, Len(s)))
\* The list becomes those selected; but a letter no node matches, and a name
\* that is not exactly one node's, leave it alone.
Selects ==
  LET s == lists[call.at] IN
  \/ Answers("collect", IF Selected = << >> THEN s ELSE Selected, Len(Selected))
  \/ Answers("exact", IF Len(Selected) = 1 THEN Selected ELSE s,
             IF Len(Selected) = 1 THEN Selected[1] ELSE NULL)

Return ==
  /\ call # NoCall
  /\ call' = NoCall
  /\ Inserts \/ InsertsBefore \/ Removes \/ Takes \/ Reads \/ Selects

Next == Begin \/ Return

Spec == Init /\ [][Next]_<<lists, call, result>>
=============================================================================
