--------------------------- MODULE Glthread_proofs ---------------------------
(***************************************************************************)
(* What holds of the lists for any number of heads and nodes, whatever is  *)
(* called in whatever order.  The first part is about the pointers: no     *)
(* recursion over a list is needed, since every function changes pointers  *)
(* only where it stands.  The second is the refinement of Lists: the       *)
(* sequences the pointers hold, what each operation makes of them, and an  *)
(* invariant that says of every walk what it has made of its list so far.  *)
(***************************************************************************)
EXTENDS Glthread, SequenceTheorems, NaturalsInduction, WellFoundedInduction, FiniteSetTheorems,
        TLAPS

\* Only a head has a first node: a node with nothing before it has nothing behind
\* it, and is on no list.
Anchored(g) == \A n \in Node : g[n].left = NULL => g[n] = Detached

\* No walk to the right comes back: the nodes can be numbered along it.
Acyclic(g) == \E rank \in [Thread -> Nat] :
                \A t \in Thread : g[t].right # NULL => rank[t] < rank[g[t].right]

Sound(g) == g \in Pointers /\ AnswersBack(g) /\ Anchored(g) /\ Acyclic(g)

\* What may follow t: t is a list, or is on one.
OnList(g, t) == t \in Heads \cup {temp_list} \/ g[t].left # NULL

\* What a call was made with.
Selecting == call.op \in {"collect", "exact"}
NewNode == call.node \in Node /\ glue[call.node] = Detached
CallOK ==
  \/ call = NoCall
  \/ call.op \in {"add_next", "add_last", "priority_insert"} /\ call.at \in Heads /\ NewNode
  \/ call.op = "add_before" /\ call.at \in Node /\ glue[call.at].left # NULL /\ NewNode
  \/ call.op = "remove" /\ call.at \in Node
  \/ call.op \in {"dequeue", "delete", "count", "get_last"} /\ call.at \in Heads
  \/ Selecting /\ call.at \in Heads

\* Where the walk stands: on the list, and at its end when temp_list is emptied.
WalkOK ==
  call # NoCall =>
    /\ curr # NULL => glue[curr].left # NULL
    /\ prev # NULL => glue[prev].left # NULL
    /\ call.op \in {"delete", "collect", "exact"} => prev = NULL
    /\ phase # "walk" => curr = NULL

\* temp_list is in use only by the functions that have it.
TempOK == ~Selecting => glue[temp_list].right = NULL

\* The inductive invariant.
Inv ==
  /\ TypeOK /\ PointersAgree /\ Anchored(glue) /\ Acyclic(glue)
  /\ CallOK /\ WalkOK /\ TempOK

-----------------------------------------------------------------------------
(* The operations on pointers.                                             *)

\* A new node is put behind a head or a node on a list.  Nothing comes off a
\* list by it, and only the list it is put on changes.
LEMMA AddNextSound ==
  ASSUME GlthreadAssumption, NEW g, Sound(g), NEW c \in Thread, OnList(g, c),
         NEW new \in Node, g[new] = Detached
  PROVE  /\ Sound(AddNext(g, c, new))
         /\ \A t \in Thread : g[t].left # NULL => AddNext(g, c, new)[t].left # NULL
         /\ c # temp_list => AddNext(g, c, new)[temp_list].right = g[temp_list].right
         /\ AddNext(g, c, new)[new].left # NULL
<1> DEFINE temp == g[c].right
           g2 == AddNext(g, c, new)
<1>n. new \in Thread /\ NULL \notin Thread /\ new # c /\ new \notin Heads \cup {temp_list}
      /\ temp_list \in Thread /\ Heads \subseteq Thread
  BY DEF GlthreadAssumption, Thread, OnList, Detached
<1>g. g \in Pointers /\ AnswersBack(g) /\ Anchored(g) /\ Acyclic(g)
  BY DEF Sound
<1>v. g[new].left = NULL /\ g[new].right = NULL
  BY DEF Detached
<1>t. temp # NULL => temp \in Thread /\ temp # new /\ g[temp].left = c
  <2>1. temp \in Thread \cup {NULL}
    BY <1>g DEF Pointers
  <2> QED BY <2>1, <1>g, <1>v, <1>n DEF AnswersBack
<1>2. \A t \in Thread :
        /\ g2[t].left = IF t = temp THEN new ELSE IF t = new THEN c ELSE g[t].left
        /\ g2[t].right = IF t = new THEN temp ELSE IF t = c THEN new ELSE g[t].right
  BY <1>v, <1>n DEF AddNext
<1>3. g2 \in Pointers
  <2>1. \A t \in Thread : g[t] \in [left : Thread \cup {NULL}, right : Thread \cup {NULL}]
    BY <1>g DEF Pointers
  <2>2. \A t \in Thread : g2[t] \in [left : Thread \cup {NULL}, right : Thread \cup {NULL}]
    BY <2>1, <1>n DEF AddNext
  <2> QED BY <2>2 DEF Pointers, AddNext
<1> HIDE DEF g2, temp
<1>4. AnswersBack(g2)
  <2>1. ASSUME NEW t \in Thread, g2[t].right # NULL PROVE g2[g2[t].right].left = t
    <3>1. CASE t = new
      BY <3>1, <2>1, <1>2, <1>t
    <3>2. CASE t = c
      BY <3>2, <1>2, <1>n, <1>t
    <3>3. CASE t # new /\ t # c
      <4>1. g2[t].right = g[t].right /\ g[t].right \in Thread
        BY <3>3, <2>1, <1>2, <1>g DEF Pointers
      <4>2. g[g[t].right].left = t
        BY <4>1, <2>1, <1>g DEF AnswersBack
      <4>3. g[t].right # new /\ g[t].right # temp
        BY <4>1, <4>2, <3>3, <1>t, <1>v, <1>n
      <4> QED BY <4>1, <4>2, <4>3, <1>2
    <3> QED BY <3>1, <3>2, <3>3
  <2>2. ASSUME NEW t \in Thread, g2[t].left # NULL PROVE g2[g2[t].left].right = t
    <3>1. CASE t = temp
      BY <3>1, <1>2, <1>n
    <3>2. CASE t = new /\ t # temp
      BY <3>2, <1>2, <1>n
    <3>3. CASE t # new /\ t # temp
      <4>1. g2[t].left = g[t].left /\ g[t].left \in Thread
        BY <3>3, <2>2, <1>2, <1>g DEF Pointers
      <4>2. g[g[t].left].right = t
        BY <4>1, <2>2, <1>g DEF AnswersBack
      <4>3. g[t].left # new /\ g[t].left # c
        BY <4>1, <4>2, <3>3, <1>v, <1>n DEF temp
      <4> QED BY <4>1, <4>2, <4>3, <1>2
    <3> QED BY <3>1, <3>2, <3>3
  <2>3. ASSUME NEW h \in Heads \cup {temp_list} PROVE g2[h].left = NULL
    <3>1. g[h].left = NULL /\ h \in Thread /\ h # new
      BY <1>g, <1>n DEF AnswersBack
    <3>2. h # temp
      BY <3>1, <1>t, <1>n
    <3> QED BY <3>1, <3>2, <1>2
  <2> QED BY <2>1, <2>2, <2>3 DEF AnswersBack
<1>5. \A t \in Thread : g[t].left # NULL => g2[t].left # NULL
  BY <1>2, <1>n
<1>6. g2[new].left # NULL
  BY <1>2, <1>n
<1>7. Anchored(g2)
  <2>1. ASSUME NEW n \in Node, g2[n].left = NULL PROVE g2[n] = Detached
    <3>1. n \in Thread /\ n # new /\ g[n].left = NULL
      BY <2>1, <1>5, <1>6 DEF Thread
    <3>2. g[n] = Detached
      BY <3>1, <1>g DEF Anchored
    <3>3. n # c
      BY <3>1, <1>g DEF OnList, GlthreadAssumption
    <3>4. g2[n].right = NULL
      BY <3>1, <3>2, <3>3, <1>2 DEF Detached
    <3>5. g2[n] = [left |-> g2[n].left, right |-> g2[n].right]
      BY <3>1, <1>3 DEF Pointers
    <3> QED BY <3>4, <3>5, <2>1 DEF Detached
  <2> QED BY <2>1 DEF Anchored
<1>8. c # temp_list => g2[temp_list].right = g[temp_list].right
  BY <1>2, <1>n
<1>9. Acyclic(g2)
  <2>1. PICK rank \in [Thread -> Nat] :
          \A t \in Thread : g[t].right # NULL => rank[t] < rank[g[t].right]
    BY <1>g DEF Acyclic
  <2> DEFINE moved == [t \in Thread |-> IF t = new THEN rank[c] + 1
                                        ELSE IF rank[c] < rank[t] THEN rank[t] + 1 ELSE rank[t]]
  <2>2. moved \in [Thread -> Nat]
    BY <1>n
  <2>3. ASSUME NEW t \in Thread, g2[t].right # NULL PROVE moved[t] < moved[g2[t].right]
    <3>1. CASE t = new
      <4>1. g2[t].right = temp /\ temp \in Thread /\ temp # new /\ rank[c] < rank[temp]
        BY <3>1, <2>1, <2>3, <1>2, <1>t DEF temp
      <4> QED BY <4>1, <3>1, <1>n
    <3>2. CASE t = c
      <4>1. g2[t].right = new
        BY <3>2, <1>2, <1>n
      <4> QED BY <4>1, <3>2, <1>n
    <3>3. CASE t # new /\ t # c
      <4>1. g2[t].right = g[t].right /\ g[t].right \in Thread
        BY <3>3, <2>3, <1>2, <1>g DEF Pointers
      <4>2. g[t].right # new
        BY <4>1, <1>g, <1>v, <1>n DEF AnswersBack
      <4>3. rank[t] < rank[g[t].right]
        BY <2>1, <4>1, <2>3
      <4> QED BY <4>1, <4>2, <4>3, <3>3, <1>n
    <3> QED BY <3>1, <3>2, <3>3
  <2> QED BY <2>2, <2>3 DEF Acyclic
<1> QED
  BY <1>3, <1>4, <1>5, <1>6, <1>7, <1>8, <1>9 DEF Sound, g2

\* The same in front of a node on a list.
LEMMA AddBeforeSound ==
  ASSUME GlthreadAssumption, NEW g, Sound(g), NEW c \in Node, g[c].left # NULL,
         NEW new \in Node, g[new] = Detached, g[temp_list].right = NULL
  PROVE  Sound(AddBefore(g, c, new)) /\ AddBefore(g, c, new)[temp_list].right = NULL
<1> DEFINE temp == g[c].left
           g2 == AddBefore(g, c, new)
<1>n. /\ {c, new, temp_list} \subseteq Thread /\ Heads \subseteq Thread /\ NULL \notin Thread
      /\ new # c /\ {new, c} \cap (Heads \cup {temp_list}) = {}
  BY DEF GlthreadAssumption, Thread, Detached
<1>g. g \in Pointers /\ AnswersBack(g) /\ Anchored(g) /\ Acyclic(g)
  BY DEF Sound
<1>v. g[new].left = NULL /\ g[new].right = NULL
  BY DEF Detached
<1>t. temp \in Thread /\ temp # new /\ g[temp].right = c /\ temp # temp_list
  <2>1. temp \in Thread \cup {NULL}
    BY <1>g, <1>n DEF Pointers
  <2>2. g[temp].right = c
    BY <1>g, <1>n DEF AnswersBack
  <2> QED BY <2>1, <2>2, <1>v, <1>n
<1>2. \A t \in Thread :
        /\ g2[t].left = IF t = c THEN new ELSE IF t = new THEN temp ELSE g[t].left
        /\ g2[t].right = IF t = new THEN c ELSE IF t = temp THEN new ELSE g[t].right
  BY <1>n DEF AddBefore
<1>3. g2 \in Pointers
  <2>1. \A t \in Thread : g[t] \in [left : Thread \cup {NULL}, right : Thread \cup {NULL}]
    BY <1>g DEF Pointers
  <2>2. \A t \in Thread : g2[t] \in [left : Thread \cup {NULL}, right : Thread \cup {NULL}]
    BY <2>1, <1>n, <1>t DEF AddBefore
  <2> QED BY <2>2 DEF Pointers, AddBefore
<1> HIDE DEF g2, temp
<1>4. AnswersBack(g2)
  <2>1. ASSUME NEW t \in Thread, g2[t].right # NULL PROVE g2[g2[t].right].left = t
    <3>1. CASE t = new \/ t = temp
      BY <3>1, <1>2, <1>n, <1>t
    <3>2. CASE t # new /\ t # temp
      <4>1. g2[t].right = g[t].right /\ g[t].right \in Thread
        BY <3>2, <2>1, <1>2, <1>g DEF Pointers
      <4>2. g[g[t].right].left = t
        BY <4>1, <2>1, <1>g DEF AnswersBack
      <4>3. g[t].right # new /\ g[t].right # c
        BY <4>1, <4>2, <3>2, <1>v, <1>n DEF temp
      <4> QED BY <4>1, <4>2, <4>3, <1>2
    <3> QED BY <3>1, <3>2
  <2>2. ASSUME NEW t \in Thread, g2[t].left # NULL PROVE g2[g2[t].left].right = t
    <3>1. CASE t = c \/ t = new
      BY <3>1, <1>2, <1>n, <1>t
    <3>2. CASE t # new /\ t # c
      <4>1. g2[t].left = g[t].left /\ g[t].left \in Thread
        BY <3>2, <2>2, <1>2, <1>g DEF Pointers
      <4>2. g[g[t].left].right = t
        BY <4>1, <2>2, <1>g DEF AnswersBack
      <4>3. g[t].left # new /\ g[t].left # temp
        BY <4>1, <4>2, <3>2, <1>v, <1>n, <1>t
      <4> QED BY <4>1, <4>2, <4>3, <1>2
    <3> QED BY <3>1, <3>2
  <2>3. \A h \in Heads \cup {temp_list} : g2[h].left = NULL
    BY <1>g, <1>n, <1>2 DEF AnswersBack
  <2> QED BY <2>1, <2>2, <2>3 DEF AnswersBack
<1>5. Anchored(g2)
  <2>1. ASSUME NEW n \in Node, g2[n].left = NULL PROVE g2[n] = Detached
    <3>1. n \in Thread /\ n # new /\ n # c /\ g[n].left = NULL
      BY <2>1, <1>2, <1>n, <1>t DEF Thread
    <3>2. g[n] = Detached
      BY <3>1, <1>g DEF Anchored
    <3>3. n # temp
      BY <3>2, <1>t, <1>n DEF Detached
    <3>4. g2[n].right = NULL
      BY <3>1, <3>2, <3>3, <1>2 DEF Detached
    <3>5. g2[n] = [left |-> g2[n].left, right |-> g2[n].right]
      BY <3>1, <1>3 DEF Pointers
    <3> QED BY <3>4, <3>5, <2>1 DEF Detached
  <2> QED BY <2>1 DEF Anchored
<1>6. g2[temp_list].right = NULL
  BY <1>2, <1>n, <1>t
<1>9. Acyclic(g2)
  <2>1. PICK rank \in [Thread -> Nat] :
          \A t \in Thread : g[t].right # NULL => rank[t] < rank[g[t].right]
    BY <1>g DEF Acyclic
  <2> DEFINE moved == [t \in Thread |-> IF t = new THEN rank[temp] + 1
                                        ELSE IF rank[temp] < rank[t] THEN rank[t] + 1 ELSE rank[t]]
  <2>2. moved \in [Thread -> Nat]
    BY <1>n, <1>t
  <2>3. ASSUME NEW t \in Thread, g2[t].right # NULL PROVE moved[t] < moved[g2[t].right]
    <3>1. CASE t = new
      <4>1. g2[t].right = c /\ c \in Thread /\ c # new /\ rank[temp] < rank[c]
        BY <3>1, <2>1, <2>3, <1>2, <1>t, <1>n
      <4> QED BY <4>1, <3>1, <1>n, <1>t
    <3>2. CASE t = temp
      <4>1. g2[t].right = new
        BY <3>2, <1>2, <1>n, <1>t
      <4> QED BY <4>1, <3>2, <1>n, <1>t
    <3>3. CASE t # new /\ t # temp
      <4>1. g2[t].right = g[t].right /\ g[t].right \in Thread
        BY <3>3, <2>3, <1>2, <1>g DEF Pointers
      <4>2. g[t].right # new
        BY <4>1, <1>g, <1>v, <1>n DEF AnswersBack
      <4>3. rank[t] < rank[g[t].right]
        BY <2>1, <4>1, <2>3
      <4> QED BY <4>1, <4>2, <4>3, <3>3, <1>n, <1>t
    <3> QED BY <3>1, <3>2, <3>3
  <2> QED BY <2>2, <2>3 DEF Acyclic
<1> QED
  BY <1>3, <1>4, <1>5, <1>6, <1>9 DEF Sound, g2

\* A node is taken off its list, or was on none.  Every other node stays on the
\* one it is on, and what follows the node is what its list goes on with.
LEMMA RemoveSound ==
  ASSUME GlthreadAssumption, NEW g, Sound(g), NEW c \in Node
  PROVE  /\ Sound(RemoveThread(g, c))
         /\ RemoveThread(g, c)[c] = Detached
         /\ \A t \in Thread \ {c} : g[t].left # NULL => RemoveThread(g, c)[t].left # NULL
         /\ g[temp_list].right = NULL => RemoveThread(g, c)[temp_list].right = NULL
<1> DEFINE l == g[c].left
           r == g[c].right
           g2 == RemoveThread(g, c)
<1>n. /\ {c, temp_list} \subseteq Thread /\ Heads \subseteq Thread /\ NULL \notin Thread
      /\ c \notin Heads \cup {temp_list}
  BY DEF GlthreadAssumption, Thread
<1>g. g \in Pointers /\ AnswersBack(g) /\ Anchored(g) /\ Acyclic(g)
  BY DEF Sound
<1>l. l # NULL => l \in Thread /\ g[l].right = c
  BY <1>g, <1>n DEF Pointers, AnswersBack
<1>r. r # NULL => r \in Thread /\ g[r].left = c /\ l # NULL
  BY <1>g, <1>n DEF Pointers, AnswersBack, Anchored, Detached
<1>2. \A t \in Thread \ {c} :
        /\ g2[t].left = IF t = r THEN l ELSE g[t].left
        /\ g2[t].right = IF t = l THEN r ELSE g[t].right
  BY DEF RemoveThread
<1>c. g2[c] = Detached
  BY <1>n DEF RemoveThread
<1>3. g2 \in Pointers
  <2>1. \A t \in Thread : g[t] \in [left : Thread \cup {NULL}, right : Thread \cup {NULL}]
    BY <1>g DEF Pointers
  <2>2. \A t \in Thread : g2[t] \in [left : Thread \cup {NULL}, right : Thread \cup {NULL}]
    BY <2>1, <1>n DEF RemoveThread, Detached
  <2> QED BY <2>2 DEF Pointers, RemoveThread
<1> HIDE DEF g2, l, r
<1>4. AnswersBack(g2)
  <2>1. ASSUME NEW t \in Thread, g2[t].right # NULL PROVE g2[g2[t].right].left = t
    <3>1. t # c
      BY <2>1, <1>c DEF Detached
    <3>2. CASE t = l
      <4>1. g2[t].right = r /\ r # NULL
        BY <3>1, <3>2, <2>1, <1>2
      <4>2. r # c
        BY <4>1, <1>r, <3>1, <3>2 DEF l
      <4> QED BY <4>1, <4>2, <3>2, <1>r, <1>2
    <3>3. CASE t # l
      <4>1. g2[t].right = g[t].right /\ g[t].right \in Thread
        BY <3>1, <3>3, <2>1, <1>2, <1>g DEF Pointers
      <4>2. g[g[t].right].left = t
        BY <4>1, <2>1, <1>g DEF AnswersBack
      <4>3. g[t].right # c
        BY <4>2, <3>3 DEF l
      <4>4. g[t].right # r
        BY <4>1, <4>2, <3>1, <1>r, <1>n
      <4> QED BY <4>1, <4>2, <4>3, <4>4, <1>2
    <3> QED BY <3>2, <3>3
  <2>2. ASSUME NEW t \in Thread, g2[t].left # NULL PROVE g2[g2[t].left].right = t
    <3>1. t # c
      BY <2>2, <1>c DEF Detached
    <3>2. CASE t = r
      <4>1. g2[t].left = l /\ l # NULL /\ l \in Thread
        BY <3>1, <3>2, <2>2, <1>2, <1>l
      <4>2. l # c
        BY <4>1, <1>l, <3>1, <3>2 DEF r
      <4> QED BY <4>1, <4>2, <3>2, <1>2
    <3>3. CASE t # r
      <4>1. g2[t].left = g[t].left /\ g[t].left \in Thread
        BY <3>1, <3>3, <2>2, <1>2, <1>g DEF Pointers
      <4>2. g[g[t].left].right = t
        BY <4>1, <2>2, <1>g DEF AnswersBack
      <4>3. g[t].left # c
        BY <4>2, <3>3 DEF r
      <4>4. g[t].left # l
        BY <4>1, <4>2, <3>1, <1>l, <1>n
      <4> QED BY <4>1, <4>2, <4>3, <4>4, <1>2
    <3> QED BY <3>2, <3>3
  <2>3. ASSUME NEW h \in Heads \cup {temp_list} PROVE g2[h].left = NULL
    <3>1. g[h].left = NULL /\ h \in Thread /\ h # c
      BY <1>g, <1>n DEF AnswersBack
    <3>2. h # r
      BY <3>1, <1>r, <1>n
    <3> QED BY <3>1, <3>2, <1>2
  <2> QED BY <2>1, <2>2, <2>3 DEF AnswersBack
<1>5. ASSUME NEW t \in Thread \ {c}, g[t].left # NULL PROVE g2[t].left # NULL
  BY <1>5, <1>2, <1>r, <1>n
<1>6. Anchored(g2)
  <2>1. ASSUME NEW n \in Node, g2[n].left = NULL, n # c PROVE g2[n] = Detached
    <3>1. n \in Thread /\ g[n].left = NULL
      BY <2>1, <1>5 DEF Thread
    <3>2. g[n] = Detached
      BY <3>1, <1>g DEF Anchored
    <3>3. n # l
      BY <3>1, <3>2, <1>l, <1>n DEF Detached
    <3>4. g2[n].right = NULL
      BY <3>1, <3>2, <3>3, <2>1, <1>2 DEF Detached
    <3>5. g2[n] = [left |-> g2[n].left, right |-> g2[n].right]
      BY <3>1, <1>3 DEF Pointers
    <3> QED BY <3>4, <3>5, <2>1 DEF Detached
  <2> QED BY <2>1, <1>c DEF Anchored
<1>7. g[temp_list].right = NULL => g2[temp_list].right = NULL
  BY <1>2, <1>l, <1>n
<1>9. Acyclic(g2)
  <2>1. PICK rank \in [Thread -> Nat] :
          \A t \in Thread : g[t].right # NULL => rank[t] < rank[g[t].right]
    BY <1>g DEF Acyclic
  <2>2. ASSUME NEW t \in Thread, g2[t].right # NULL PROVE rank[t] < rank[g2[t].right]
    <3>1. t # c
      BY <2>2, <1>c DEF Detached
    <3>2. CASE t # l
      BY <3>1, <3>2, <2>1, <2>2, <1>2
    <3>3. CASE t = l
      <4>1. g2[t].right = r /\ r # NULL /\ r \in Thread
        BY <3>1, <3>3, <2>2, <1>2, <1>r
      <4>2. rank[l] < rank[c] /\ rank[c] < rank[r]
        BY <2>1, <4>1, <3>3, <1>l, <1>n DEF r
      <4> QED BY <4>1, <4>2, <3>3, <1>n
    <3> QED BY <3>2, <3>3
  <2> QED BY <2>1, <2>2 DEF Acyclic
<1> QED
  BY <1>c, <1>3, <1>4, <1>5, <1>6, <1>7, <1>9 DEF Sound, g2

-----------------------------------------------------------------------------
(* The invariant.                                                          *)

LEMMA InvSound == Inv <=> /\ Sound(glue) /\ CallOK /\ WalkOK /\ TempOK
                          /\ {prev, curr} \subseteq Node \cup {NULL}
                          /\ phase \in {"walk", "drain", "restore"}
                          /\ count \in Nat
BY DEF Inv, TypeOK, Sound, PointersAgree

\* The node behind a node on a list, or behind a head, is a node on a list.
LEMMA NextOnList ==
  ASSUME GlthreadAssumption, NEW g, Sound(g), NEW t \in Thread, g[t].right # NULL
  PROVE  g[t].right \in Node /\ g[g[t].right].left = t /\ g[t].right # t
<1>1. g[t].right \in Thread /\ g[g[t].right].left = t /\ t # NULL
  BY DEF Sound, Pointers, AnswersBack, GlthreadAssumption
<1>2. g[t].right \notin Heads \cup {temp_list}
  BY <1>1 DEF Sound, AnswersBack
<1>3. g[t].right # t
  <2>1. PICK rank \in [Thread -> Nat] :
          \A s \in Thread : g[s].right # NULL => rank[s] < rank[g[s].right]
    BY DEF Sound, Acyclic
  <2> QED BY <2>1
<1> QED BY <1>1, <1>2, <1>3 DEF Thread

LEMMA InitInv == ASSUME GlthreadAssumption, Init PROVE Inv
<1>1. glue \in Pointers
  BY DEF Init, Pointers, Detached
<1>2. AnswersBack(glue) /\ Anchored(glue)
  BY DEF Init, AnswersBack, Anchored, Detached, Thread
<1>4. Acyclic(glue)
  <2>1. [t \in Thread |-> 0] \in [Thread -> Nat]
    OBVIOUS
  <2> QED BY <2>1 DEF Init, Acyclic, Detached
<1>3. CallOK /\ WalkOK /\ TempOK
  BY DEF Init, CallOK, WalkOK, TempOK, Detached, Thread
<1> QED
  BY <1>1, <1>2, <1>3, <1>4, InvSound DEF Init, Sound

LEMMA BeginKeepsInv == ASSUME GlthreadAssumption, Inv, Begin PROVE Inv'
<1>1. Sound(glue) /\ TempOK
  BY InvSound
<1>2. Sound(glue)' /\ TempOK'
  <2>1. ~Selecting
    BY DEF Begin, NoCall, Promise!NoCall, Promise!Call, Selecting
  <2>2. glue' = glue
    BY DEF Begin
  <2> QED BY <1>1, <2>1, <2>2 DEF Sound, Anchored, AnswersBack, Acyclic, TempOK
<1>3. CallOK'
  <2> DEFINE free == {n \in Node : ~IS_QUEUED_UP_IN_THREAD(n)}
  <2>1. call' \in Promise!Calls(free) /\ glue' = glue
    BY DEF Begin
  <2>2. \A n \in free : n \in Node /\ glue[n] = Detached
    BY DEF IS_QUEUED_UP_IN_THREAD
  <2>3. \A n \in Node \ free : glue[n].left # NULL
    BY <1>1 DEF IS_QUEUED_UP_IN_THREAD, Sound, Anchored
  <2> HIDE DEF free
  <2> QED BY <2>1, <2>2, <2>3 DEF Promise!Calls, Promise!Call, CallOK, NewNode, Selecting
<1>4. curr' \in Node \cup {NULL} /\ (curr' # NULL => glue'[curr'].left # NULL)
  <2>1. CASE call'.at \in Heads
    <3>1. call'.at \in Thread /\ NULL \notin Thread
      BY <2>1 DEF Thread, GlthreadAssumption
    <3>2. curr' = glue[call'.at].right /\ glue' = glue
      BY <2>1 DEF Begin, First
    <3> QED BY <1>1, <3>1, <3>2, NextOnList
  <2>2. CASE call'.at \notin Heads
    BY <2>2 DEF Begin
  <2> QED BY <2>1, <2>2
<1> QED
  BY <1>2, <1>3, <1>4, InvSound DEF Begin, WalkOK, Inv, TypeOK, Sound, PointersAgree, NoCall

\* A call that returns leaves sound pointers and temp_list empty.
LEMMA ReturnKeepsInv ==
  ASSUME GlthreadAssumption, Inv, NEW g, NEW r, Returns(g, r), Sound(g),
         g[temp_list].right = NULL
  PROVE  Inv'
<1>1. glue' = g /\ call' = NoCall /\ UNCHANGED <<phase, prev, curr, count>>
  BY DEF Returns
<1>2. Sound(glue)'
  BY <1>1 DEF Sound, Anchored, AnswersBack, Acyclic
<1>3. (CallOK /\ WalkOK /\ TempOK)'
  BY <1>1 DEF CallOK, WalkOK, TempOK
<1> QED
  BY <1>1, <1>2, <1>3, InvSound DEF Inv, TypeOK, Sound, PointersAgree

LEMMA StraightKeepsInv == ASSUME GlthreadAssumption, Inv, Straight PROVE Inv'
<1>1. Sound(glue) /\ CallOK /\ WalkOK /\ TempOK /\ curr \in Node \cup {NULL}
  BY InvSound
<1>t. temp_list \notin Heads \cup Node /\ Heads \subseteq Thread /\ NULL \notin Node
  BY DEF GlthreadAssumption, Thread
<1>2. CASE call.op = "add_next"
  <2>1. call.at \in Heads /\ call.node \in Node /\ glue[call.node] = Detached
        /\ glue[temp_list].right = NULL /\ Returns(AddNext(glue, call.at, call.node), NULL)
    BY <1>1, <1>2 DEF Straight, CallOK, TempOK, Selecting, NewNode, NoCall, Promise!NoCall,
                      Promise!Call
  <2>2. OnList(glue, call.at)
    BY <2>1 DEF OnList
  <2> QED BY <1>1, <1>t, <2>1, <2>2, AddNextSound, ReturnKeepsInv
<1>3. CASE call.op = "add_before"
  <2>1. call.at \in Node /\ glue[call.at].left # NULL
        /\ call.node \in Node /\ glue[call.node] = Detached
        /\ glue[temp_list].right = NULL /\ Returns(AddBefore(glue, call.at, call.node), NULL)
    BY <1>1, <1>3 DEF Straight, CallOK, TempOK, Selecting, NewNode, NoCall, Promise!NoCall,
                      Promise!Call
  <2> QED BY <1>1, <2>1, AddBeforeSound, ReturnKeepsInv
<1>4. CASE call.op = "remove"
  <2>1. call.at \in Node /\ glue[temp_list].right = NULL
        /\ Returns(RemoveThread(glue, call.at), NULL)
    BY <1>1, <1>4 DEF Straight, CallOK, TempOK, Selecting, NoCall, Promise!NoCall, Promise!Call
  <2> QED BY <1>1, <2>1, RemoveSound, ReturnKeepsInv
<1>5. CASE call.op = "dequeue"
  <2>1. glue[temp_list].right = NULL
        /\ Returns(IF curr = NULL THEN glue ELSE RemoveThread(glue, curr), curr)
    BY <1>1, <1>5 DEF Straight, TempOK, Selecting
  <2>2. CASE curr = NULL
    BY <1>1, <2>1, <2>2, ReturnKeepsInv
  <2>3. CASE curr # NULL
    BY <1>1, <2>1, <2>3, RemoveSound, ReturnKeepsInv
  <2> QED BY <2>2, <2>3
<1> QED BY <1>2, <1>3, <1>4, <1>5 DEF Straight

\* A round of a walk after which the node it was at may be gone from the list, but
\* neither the one behind it nor the one remembered.
LEMMA RoundKeepsInv ==
  ASSUME GlthreadAssumption, Inv, call # NoCall, phase = "walk", curr # NULL,
         NEW g, NEW p \in Node \cup {NULL}, NEW n \in Nat, Round(g, p, n),
         Sound(g), CallOK',
         \A t \in Thread \ {curr} : glue[t].left # NULL => g[t].left # NULL,
         p # NULL => g[p].left # NULL,
         call.op \in {"delete", "collect", "exact"} => p = NULL,
         ~Selecting => g[temp_list].right = NULL
  PROVE  Inv'
<1>1. glue' = g /\ prev' = p /\ count' = n /\ curr' = glue[curr].right
      /\ UNCHANGED <<call, phase>>
  BY DEF Round
<1>2. curr \in Node /\ Sound(glue)
  BY InvSound
<1>3. curr' \in Node \cup {NULL} /\ (curr' # NULL => g[curr'].left # NULL)
  <2>1. CASE glue[curr].right = NULL
    BY <2>1, <1>1
  <2>2. CASE glue[curr].right # NULL
    <3>1. curr \in Thread /\ curr # NULL
      BY <1>2 DEF Thread
    <3>2. glue[curr].right \in Node /\ glue[glue[curr].right].left = curr
          /\ glue[curr].right # curr
      BY <2>2, <1>2, <3>1, NextOnList
    <3> QED BY <3>1, <3>2, <1>1 DEF Thread
  <2> QED BY <2>1, <2>2
<1>4. Sound(glue)'
  BY <1>1 DEF Sound, Anchored, AnswersBack, Acyclic
<1>5. WalkOK' /\ TempOK'
  BY <1>1, <1>3 DEF WalkOK, TempOK, Selecting
<1> QED
  BY <1>1, <1>3, <1>4, <1>5, InvSound DEF Inv, TypeOK, Sound, PointersAgree

\* glthread_add_last, get_glthread_list_count, glthread_get_last and
\* glthread_priority_insert change nothing while they walk; what they put behind
\* is the last node they were at, or the head.
LEMMA WalkToKeepsInv == ASSUME GlthreadAssumption, Inv, WalkToEnd \/ WalkToPlace PROVE Inv'
<1>1. /\ Sound(glue) /\ CallOK /\ WalkOK /\ TempOK /\ count \in Nat
      /\ {prev, curr} \subseteq Node \cup {NULL}
      /\ phase \in {"walk", "drain", "restore"}
  BY InvSound
<1>t. temp_list \notin Heads \cup Node /\ Heads \cup Node \subseteq Thread /\ NULL \notin Thread
  BY DEF GlthreadAssumption, Thread
<1>2. /\ call # NoCall /\ ~Selecting /\ glue[temp_list].right = NULL /\ call.at \in Heads
      /\ call.op \in {"add_last", "priority_insert"} => NewNode
      /\ call.op \in {"add_last", "priority_insert", "count", "get_last"}
  BY <1>1
     DEF WalkToEnd, WalkToPlace, NoCall, Promise!NoCall, Promise!Call, Selecting, TempOK, CallOK
<1>3. ASSUME NEW p \in {curr}, NEW n \in {count, count + 1}, curr # NULL, Round(glue, p, n)
      PROVE  Inv'
  <2>1. phase = "walk" /\ p \in Node \cup {NULL} /\ n \in Nat /\ glue[p].left # NULL
    BY <1>1, <1>2, <1>3 DEF WalkOK
  <2>2. CallOK'
    BY <1>1, <1>3 DEF Round, CallOK, NewNode, Selecting
  <2> QED BY <1>1, <1>2, <1>3, <2>1, <2>2, RoundKeepsInv
<1>4. ASSUME Returns(AddNext(glue, Last, call.node), NULL), NewNode PROVE Inv'
  <2>1. Last \in Thread /\ Last # temp_list /\ OnList(glue, Last)
    BY <1>1, <1>2, <1>t DEF Last, OnList, WalkOK
  <2>2. /\ Sound(AddNext(glue, Last, call.node))
        /\ AddNext(glue, Last, call.node)[temp_list].right = NULL
    BY <1>1, <1>2, <1>4, <2>1, AddNextSound DEF NewNode
  <2> QED BY <1>4, <2>2, ReturnKeepsInv
<1>5. ASSUME NEW r, Returns(glue, r) PROVE Inv'
  BY <1>1, <1>2, <1>5, ReturnKeepsInv
<1>6. CASE WalkToEnd
  <2>1. CASE curr # NULL
    BY <1>3, <1>6, <2>1 DEF WalkToEnd
  <2>2. CASE curr = NULL
    BY <1>2, <1>4, <1>5, <1>6, <2>2 DEF WalkToEnd
  <2> QED BY <2>1, <2>2
<1>7. CASE WalkToPlace
  <2>1. CASE curr # NULL /\ ~ComesBefore(call.node, curr)
    BY <1>3, <1>7, <2>1 DEF WalkToPlace
  <2>2. CASE ~(curr # NULL /\ ~ComesBefore(call.node, curr))
    BY <1>2, <1>4, <1>7, <2>2 DEF WalkToPlace
  <2> QED BY <2>1, <2>2
<1> QED BY <1>6, <1>7

\* delete_glthread_list
LEMMA RemovingKeepsInv == ASSUME GlthreadAssumption, Inv, WalkAndRemove PROVE Inv'
<1>1. /\ Sound(glue) /\ CallOK /\ WalkOK /\ TempOK /\ count \in Nat
      /\ {prev, curr} \subseteq Node \cup {NULL}
      /\ phase \in {"walk", "drain", "restore"}
  BY InvSound
<1>2. call.op = "delete" /\ call # NoCall /\ ~Selecting /\ glue[temp_list].right = NULL
      /\ call.at \in Heads
  BY <1>1 DEF WalkAndRemove, NoCall, Promise!NoCall, Promise!Call, Selecting, TempOK, CallOK
<1>3. CASE curr # NULL
  <2> DEFINE g == RemoveThread(glue, curr)
  <2>1. Round(g, prev, count) /\ phase = "walk" /\ prev = NULL /\ curr \in Node
    BY <1>1, <1>2, <1>3 DEF WalkAndRemove, WalkOK
  <2>2. /\ Sound(g) /\ g[temp_list].right = NULL
        /\ \A t \in Thread \ {curr} : glue[t].left # NULL => g[t].left # NULL
    BY <1>1, <1>2, <2>1, RemoveSound
  <2>3. CallOK'
    BY <1>2, <2>1 DEF Round, CallOK
  <2> HIDE DEF g
  <2> QED BY <1>1, <1>2, <1>3, <2>1, <2>2, <2>3, RoundKeepsInv
<1>4. CASE curr = NULL
  BY <1>1, <1>2, <1>4, ReturnKeepsInv DEF WalkAndRemove
<1> QED BY <1>3, <1>4

\* A node is taken from the list it is on and put on another.
LEMMA MovedSound ==
  ASSUME GlthreadAssumption, NEW g, Sound(g), NEW c \in Node, NEW h \in Heads \cup {temp_list}
  PROVE  /\ Sound(Moved(g, c, h))
         /\ \A t \in Thread \ {c} : g[t].left # NULL => Moved(g, c, h)[t].left # NULL
<1>1. /\ Sound(RemoveThread(g, c)) /\ RemoveThread(g, c)[c] = Detached
      /\ \A t \in Thread \ {c} : g[t].left # NULL => RemoveThread(g, c)[t].left # NULL
  BY RemoveSound
<1>2. h \in Thread /\ OnList(RemoveThread(g, c), h)
  BY DEF Thread, OnList
<1> QED BY <1>1, <1>2, AddNextSound DEF Moved

\* The two functions of the cursor.
LEMMA SelectingKeepsInv == ASSUME GlthreadAssumption, Inv, WalkAndSelect PROVE Inv'
<1>1. /\ Sound(glue) /\ CallOK /\ WalkOK /\ TempOK /\ count \in Nat
      /\ {prev, curr} \subseteq Node \cup {NULL}
      /\ phase \in {"walk", "drain", "restore"}
  BY InvSound
<1>2. Selecting /\ call # NoCall /\ call.at \in Heads /\ phase = "walk" /\ prev = NULL
  BY <1>1 DEF WalkAndSelect, NoCall, Promise!NoCall, Promise!Call, Selecting, CallOK, WalkOK
<1>3. ASSUME NEW g, NEW n \in Nat, curr # NULL, Round(g, prev, n), Sound(g),
             \A t \in Thread \ {curr} : glue[t].left # NULL => g[t].left # NULL
      PROVE  Inv'
  <2>1. CallOK'
    BY <1>2, <1>3 DEF Round, CallOK, Selecting
  <2> QED BY <1>1, <1>2, <1>3, <2>1, RoundKeepsInv
<1>4. CASE curr # NULL /\ NotSelected(curr)
  <2>1. Round(Moved(glue, curr, temp_list), prev, count) /\ curr \in Node
    BY <1>1, <1>4 DEF WalkAndSelect
  <2> QED BY <1>1, <1>3, <1>4, <2>1, MovedSound
<1>5. CASE curr # NULL /\ ~NotSelected(curr)
  <2>1. Round(glue, prev, count + 1) /\ count + 1 \in Nat
    BY <1>1, <1>5 DEF WalkAndSelect
  <2> QED BY <1>1, <1>3, <1>5, <2>1
<1>6. CASE curr = NULL
  <2>1. phase' \in {"restore", "drain"} /\ UNCHANGED <<glue, call, prev, curr, count>>
    BY <1>6 DEF WalkAndSelect
  <2> QED BY <1>1, <1>2, <1>6, <2>1
          DEF Inv, TypeOK, PointersAgree, AnswersBack, Anchored, Acyclic, Sound, CallOK, NewNode,
              WalkOK, TempOK, Selecting
<1> QED BY <1>4, <1>5, <1>6

LEMMA WalkBackKeepsInv == ASSUME GlthreadAssumption, Inv, WalkBack PROVE Inv'
<1>1. /\ Sound(glue) /\ CallOK /\ WalkOK /\ TempOK /\ count \in Nat
      /\ {prev, curr} \subseteq Node \cup {NULL}
      /\ phase \in {"walk", "drain", "restore"}
  BY InvSound
<1>2. Selecting /\ call # NoCall /\ call.at \in Heads /\ curr = NULL /\ prev = NULL
  BY <1>1 DEF WalkBack, NoCall, Promise!NoCall, Promise!Call, Selecting, CallOK, WalkOK
<1>3. CASE Dequeued # NULL
  <2>1. Dequeued \in Node
    BY <1>1, <1>3, NextOnList DEF Dequeued, First, Thread
  <2>2. glue' \in {RemoveThread(glue, Dequeued), Moved(glue, Dequeued, call.at)}
        /\ UNCHANGED <<call, phase, prev, curr, count>>
    BY <1>3 DEF WalkBack
  <2>3. Sound(RemoveThread(glue, Dequeued)) /\ Sound(Moved(glue, Dequeued, call.at))
    BY <1>1, <1>2, <2>1, RemoveSound, MovedSound
  <2>4. Sound(glue)'
    BY <2>2, <2>3 DEF Sound, Anchored, AnswersBack, Acyclic
  <2>5. CallOK' /\ WalkOK' /\ TempOK'
    BY <1>1, <1>2, <2>2 DEF CallOK, WalkOK, TempOK, Selecting
  <2> QED BY <1>1, <2>2, <2>4, <2>5 DEF Inv, TypeOK, Sound, PointersAgree
<1>4. CASE Dequeued = NULL
  <2>1. PICK r : Returns(glue, r)
    BY <1>4 DEF WalkBack
  <2> QED BY <1>1, <1>4, <2>1, ReturnKeepsInv DEF Dequeued, First
<1> QED BY <1>3, <1>4

LEMMA NextKeepsInv == ASSUME GlthreadAssumption, Inv, [Next]_vars PROVE Inv'
<1>1. CASE UNCHANGED vars
  BY <1>1 DEF vars, Inv, TypeOK, PointersAgree, AnswersBack, Anchored, Acyclic, CallOK, NewNode,
              WalkOK, TempOK, Selecting
<1>2. CASE Step
  BY <1>2, StraightKeepsInv, WalkToKeepsInv, RemovingKeepsInv, SelectingKeepsInv, WalkBackKeepsInv
     DEF Step
<1> QED BY <1>1, <1>2, BeginKeepsInv DEF Next

THEOREM InvHolds == ASSUME GlthreadAssumption PROVE Spec => []Inv
<1>1. Init => Inv
  BY InitInv
<1>2. Inv /\ [Next]_vars => Inv'
  BY NextKeepsInv
<1> QED BY <1>1, <1>2, PTL DEF Spec

\* At every step of every function each pointer is answered by one that points
\* back, in the middle of a walk that removes what it is at as well
\* (ITERATE_GLTHREAD_BEGIN).
THEOREM PointersAgreeHolds == ASSUME GlthreadAssumption PROVE Spec => []PointersAgree
<1>1. Inv => PointersAgree
  BY DEF Inv
<1> QED BY <1>1, InvHolds, PTL

\* And no list is closed to a ring, in which a walk over it would not end.
THEOREM ListsEnd == ASSUME GlthreadAssumption PROVE Spec => []Acyclic(glue)
<1>1. Inv => Acyclic(glue)
  BY DEF Inv
<1> QED BY <1>1, InvHolds, PTL

\* The functions of the cursor leave nothing on the list they had on the stack.
THEOREM StackListIsEmptyHolds == ASSUME GlthreadAssumption PROVE Spec => []StackListIsEmpty
<1>1. ASSUME Inv PROVE StackListIsEmpty
  <2>1. ASSUME call = NoCall PROVE glue[temp_list] = Detached
    <3>1. glue[temp_list].right = NULL
      BY <1>1, <2>1 DEF Inv, TempOK, Selecting, NoCall, Promise!NoCall, Promise!Call
    <3>2. glue[temp_list].left = NULL
      BY <1>1 DEF Inv, PointersAgree, AnswersBack
    <3>3. glue[temp_list] \in [left : Thread \cup {NULL}, right : Thread \cup {NULL}]
      BY <1>1 DEF Inv, TypeOK, Pointers, Thread
    <3> QED BY <3>1, <3>2, <3>3 DEF Detached
  <2> QED BY <2>1 DEF StackListIsEmpty
<1> QED BY <1>1, InvHolds, PTL

-----------------------------------------------------------------------------
(* The pointers as sequences.  A list L[h] is the sequence of its nodes;   *)
(* these are what the operations and the walks make of it.                 *)

Ins(s, p, e) ==
  [i \in 1 .. Len(s) + 1 |-> IF i <= p THEN s[i] ELSE IF i = p + 1 THEN e ELSE s[i - 1]]
Del(s, p) == [i \in 1 .. Len(s) - 1 |-> IF i < p THEN s[i] ELSE s[i + 1]]
\* Those of k, and then those of s from the one after p on.
Joined(k, s, p) ==
  [i \in 1 .. Len(k) + (Len(s) - p) |-> IF i <= Len(k) THEN k[i] ELSE s[(i - Len(k)) + p]]
\* The first p of s, the last first.
Back(s, p) == [i \in 1 .. p |-> s[(p + 1) - i]]

\* A sequence is known by its length and its elements.
LEMMA SameSeq ==
  ASSUME NEW S, NEW s \in Seq(S), NEW n \in Nat, NEW t, t = [i \in 1 .. n |-> t[i]],
         Len(s) = n, \A i \in 1 .. n : s[i] = t[i]
  PROVE  s = t
<1>1. s = [i \in 1 .. n |-> s[i]]
  OBVIOUS
<1> QED BY <1>1

\* t is a function on 1 .. n into S.
IsSeqOf(t, n, S) == n \in Nat /\ t \in [1 .. n -> S]

LEMMA SeqOf ==
  ASSUME NEW S, NEW n, NEW t, IsSeqOf(t, n, S) PROVE t \in Seq(S) /\ Len(t) = n
<1>1. t \in [1 .. n -> S] /\ n \in Nat
  BY DEF IsSeqOf
<1> QED BY <1>1

LEMMA InsIs ==
  ASSUME NEW S, NEW s \in Seq(S), NEW p \in 0 .. Len(s), NEW e \in S
  PROVE  Ins(s, p, e) \in Seq(S) /\ Len(Ins(s, p, e)) = Len(s) + 1
<1>1. Len(s) + 1 \in Nat /\ \A i \in 1 .. Len(s) : s[i] \in S
  OBVIOUS
<1>2. ASSUME NEW i \in 1 .. Len(s) + 1
      PROVE  (IF i <= p THEN s[i] ELSE IF i = p + 1 THEN e ELSE s[i - 1]) \in S
  BY <1>1
<1>3. IsSeqOf(Ins(s, p, e), Len(s) + 1, S)
  BY <1>1, <1>2 DEF IsSeqOf, Ins
<1> QED BY <1>3, SeqOf

LEMMA DelIs ==
  ASSUME NEW S, NEW s \in Seq(S), NEW p \in 1 .. Len(s)
  PROVE  Del(s, p) \in Seq(S) /\ Len(Del(s, p)) = Len(s) - 1
<1>1. Len(s) - 1 \in Nat /\ \A i \in 1 .. Len(s) : s[i] \in S
  OBVIOUS
<1>2. ASSUME NEW i \in 1 .. Len(s) - 1
      PROVE  (IF i < p THEN s[i] ELSE s[i + 1]) \in S
  BY <1>1
<1>3. IsSeqOf(Del(s, p), Len(s) - 1, S)
  BY <1>1, <1>2 DEF IsSeqOf, Del
<1> QED BY <1>3, SeqOf

LEMMA JoinedIs ==
  ASSUME NEW S, NEW k \in Seq(S), NEW s \in Seq(S), NEW p \in 0 .. Len(s)
  PROVE  Joined(k, s, p) \in Seq(S) /\ Len(Joined(k, s, p)) = Len(k) + (Len(s) - p)
<1>1. /\ Len(s) \in Nat /\ Len(k) \in Nat /\ p \in Nat /\ p <= Len(s)
      /\ \A i \in 1 .. Len(s) : s[i] \in S
      /\ \A i \in 1 .. Len(k) : k[i] \in S
  OBVIOUS
<1>2. ASSUME NEW i \in 1 .. Len(k) + (Len(s) - p)
      PROVE  (IF i <= Len(k) THEN k[i] ELSE s[(i - Len(k)) + p]) \in S
  <2>1. CASE i <= Len(k)
    BY <1>1, <2>1
  <2>2. CASE ~ (i <= Len(k))
    <3>1. (i - Len(k)) + p \in 1 .. Len(s)
      BY <1>1, <2>2
    <3> QED BY <1>1, <2>2, <3>1
  <2> QED BY <2>1, <2>2
<1>3. Len(k) + (Len(s) - p) \in Nat
  BY <1>1
<1>4. IsSeqOf(Joined(k, s, p), Len(k) + (Len(s) - p), S)
  BY <1>2, <1>3 DEF IsSeqOf, Joined
<1> QED BY <1>4, SeqOf

LEMMA BackIs ==
  ASSUME NEW S, NEW s \in Seq(S), NEW p \in 0 .. Len(s)
  PROVE  Back(s, p) \in Seq(S) /\ Len(Back(s, p)) = p
<1>1. p \in Nat /\ \A i \in 1 .. Len(s) : s[i] \in S
  OBVIOUS
<1>2. ASSUME NEW i \in 1 .. p PROVE s[(p + 1) - i] \in S
  <2>1. (p + 1) - i \in 1 .. Len(s)
    OBVIOUS
  <2> QED BY <1>1, <2>1
<1>3. IsSeqOf(Back(s, p), p, S)
  BY <1>1, <1>2 DEF IsSeqOf, Back
<1> QED BY <1>3, SeqOf

\* The elements of s from the a-th to the b-th.
LEMMA SubIs ==
  ASSUME NEW S, NEW s \in Seq(S), NEW a \in 1 .. Len(s) + 1, NEW b \in (a - 1) .. Len(s),
         NEW u, u = SubSeq(s, a, b)
  PROVE  /\ u \in Seq(S) /\ Len(u) = (b - a) + 1
         /\ \A i \in 1 .. (b - a) + 1 : u[i] = s[(a - 1) + i]
<1>1. a \in Int /\ b \in Int /\ Len(s) \in Nat /\ a <= b + 1
  OBVIOUS
<1>2. u = [i \in 1 .. (1 + b) - a |-> s[(i + a) - 1]]
  BY <1>1
<1>3. (1 + b) - a = (b - a) + 1 /\ (b - a) + 1 \in Nat
  BY <1>1
<1>4. ASSUME NEW i \in 1 .. (b - a) + 1
      PROVE  (i + a) - 1 \in 1 .. Len(s) /\ (i + a) - 1 = (a - 1) + i
  BY <1>1
<1>5. \A i \in 1 .. (b - a) + 1 : u[i] = s[(a - 1) + i] /\ u[i] \in S
  BY <1>2, <1>3, <1>4
<1>6. u = [i \in 1 .. (b - a) + 1 |-> u[i]]
  BY <1>2, <1>3
<1>7. IsSeqOf(u, (b - a) + 1, S)
  BY <1>3, <1>5, <1>6 DEF IsSeqOf
<1> QED BY <1>5, <1>7, SeqOf

\* t is u, which is n long, and then v.
IsCat(t, u, n, v, S) ==
  /\ t \in Seq(S) /\ Len(t) = n + Len(v)
  /\ \A i \in 1 .. n + Len(v) : t[i] = IF i <= n THEN u[i] ELSE v[i - n]

LEMMA CatIs ==
  ASSUME NEW S, NEW u \in Seq(S), NEW v \in Seq(S), NEW n, Len(u) = n, NEW t, t = u \o v
  PROVE  IsCat(t, u, n, v, S)
<1>1. n \in Nat /\ Len(v) \in Nat /\ t \in Seq(S)
  OBVIOUS
<1>2. Len(t) = n + Len(v)
  BY ConcatProperties
<1>3. ASSUME NEW i \in 1 .. n + Len(v) PROVE t[i] = IF i <= n THEN u[i] ELSE v[i - n]
  BY <1>1
<1> QED BY <1>1, <1>2, <1>3 DEF IsCat

LEMMA InsertAtIs ==
  ASSUME NEW S, NEW s \in Seq(S), NEW p \in 0 .. Len(s), NEW e \in S
  PROVE  Promise!InsertAt(s, p + 1, e) = Ins(s, p, e)
<1>1. PICK u, v, w, q :
        u = SubSeq(s, 1, p) /\ v = SubSeq(s, p + 1, Len(s)) /\ w = <<e>> /\ q = p + 1
  OBVIOUS
<1>2. Len(s) \in Nat /\ p \in Nat /\ p <= Len(s) /\ 1 \in 1 .. Len(s) + 1 /\ q \in 1 .. Len(s) + 1
      /\ p \in (1 - 1) .. Len(s) /\ Len(s) \in (q - 1) .. Len(s)
  BY <1>1
<1>3. u \in Seq(S) /\ Len(u) = (p - 1) + 1 /\ \A i \in 1 .. (p - 1) + 1 : u[i] = s[(1 - 1) + i]
  BY <1>1, <1>2, SubIs
<1>4. v \in Seq(S) /\ Len(v) = (Len(s) - q) + 1
      /\ \A i \in 1 .. (Len(s) - q) + 1 : v[i] = s[(q - 1) + i]
  BY <1>1, <1>2, SubIs
<1>5. w \in Seq(S) /\ Len(w) = 1 /\ w[1] = e
  BY <1>1
<1>6. PICK x, t : x = u \o w /\ t = x \o v
  OBVIOUS
<1>7. /\ x \in Seq(S) /\ Len(x) = p + 1
      /\ \A i \in 1 .. p + 1 : x[i] = IF i <= p THEN s[i] ELSE e
  <2>2. Len(u) = p
    <3>1. Len(u) = (p - 1) + 1
      BY <1>3
    <3> QED BY <1>2, <3>1
  <2>1. x \in Seq(S) /\ Len(x) = p + 1
        /\ \A i \in 1 .. p + 1 : x[i] = IF i <= p THEN u[i] ELSE w[i - p]
    <3>1. u \in Seq(S) /\ w \in Seq(S) /\ Len(w) = 1 /\ x = u \o w
      BY <1>3, <1>5, <1>6
    <3>2. PICK n : n = p
      OBVIOUS
    <3>3. IsCat(x, u, n, w, S)
      BY <2>2, <3>1, <3>2, CatIs
    <3> QED BY <3>1, <3>2, <3>3 DEF IsCat
  <2>3. ASSUME NEW i \in 1 .. p + 1 PROVE x[i] = IF i <= p THEN s[i] ELSE e
    <3>1. x[i] = IF i <= p THEN u[i] ELSE w[i - p]
      BY <2>1
    <3>2. CASE i <= p
      BY <1>2, <1>3, <3>1, <3>2
    <3>3. CASE ~ (i <= p)
      <4>1. i - p = 1
        BY <1>2, <3>3
      <4> QED BY <1>5, <3>1, <3>3, <4>1
    <3> QED BY <3>2, <3>3
  <2> QED BY <2>1, <2>3
<1>8. /\ t \in Seq(S) /\ Len(t) = Len(s) + 1
      /\ \A i \in 1 .. Len(s) + 1 : t[i] = Ins(s, p, e)[i]
  <2>2. Len(v) = Len(s) - p /\ (p + 1) + (Len(s) - p) = Len(s) + 1
    <3>1. Len(v) = (Len(s) - q) + 1 /\ q = p + 1
      BY <1>1, <1>4
    <3> QED BY <1>2, <3>1
  <2>1. t \in Seq(S) /\ Len(t) = (p + 1) + (Len(s) - p)
        /\ \A i \in 1 .. (p + 1) + (Len(s) - p) :
              t[i] = IF i <= p + 1 THEN x[i] ELSE v[i - (p + 1)]
    <3>2. PICK n : n = p + 1
      OBVIOUS
    <3>1. x \in Seq(S) /\ v \in Seq(S) /\ Len(x) = p + 1 /\ Len(v) = Len(s) - p /\ t = x \o v
      BY <1>4, <1>6, <1>7, <2>2
    <3>3. IsCat(t, x, n, v, S)
      BY <3>1, <3>2, CatIs
    <3> QED BY <3>1, <3>2, <3>3 DEF IsCat
  <2>3. ASSUME NEW i \in 1 .. Len(s) + 1 PROVE t[i] = Ins(s, p, e)[i]
    <3>1. t[i] = IF i <= p + 1 THEN x[i] ELSE v[i - (p + 1)]
      BY <2>1, <2>2
    <3>2. CASE i <= p + 1
      BY <1>2, <1>7, <3>1, <3>2 DEF Ins
    <3>3. CASE ~ (i <= p + 1)
      <4>1. i - (p + 1) \in 1 .. (Len(s) - q) + 1 /\ (q - 1) + (i - (p + 1)) = i - 1
        BY <1>1, <1>2, <3>3
      <4>2. v[i - (p + 1)] = s[i - 1]
        BY <1>4, <4>1
      <4> QED BY <1>2, <3>1, <3>3, <4>2 DEF Ins
    <3> QED BY <3>2, <3>3
  <2> QED BY <2>1, <2>2, <2>3
<1>9. Promise!InsertAt(s, p + 1, e) = t
  <2>1. (p + 1) - 1 = p
    BY <1>2
  <2> QED BY <1>1, <1>6, <2>1 DEF Promise!InsertAt
<1>10. Ins(s, p, e) = [i \in 1 .. Len(s) + 1 |-> Ins(s, p, e)[i]]
  BY DEF Ins
<1>11. PICK z : z = Ins(s, p, e)
  OBVIOUS
<1>12. t = z
  <2>1. Len(s) + 1 \in Nat /\ z = [i \in 1 .. Len(s) + 1 |-> z[i]]
    BY <1>2, <1>10, <1>11
  <2> QED BY <1>8, <1>11, <2>1, SameSeq
<1> QED BY <1>9, <1>11, <1>12

LEMMA RemoveAtIs ==
  ASSUME NEW S, NEW s \in Seq(S), NEW p \in 1 .. Len(s)
  PROVE  Promise!RemoveAt(s, p) = Del(s, p)
<1>1. PICK u, v, q, a :
        u = SubSeq(s, 1, a) /\ v = SubSeq(s, q, Len(s)) /\ q = p + 1 /\ a = p - 1
  OBVIOUS
<1>2. Len(s) \in Nat /\ p \in Nat /\ 1 <= p /\ p <= Len(s) /\ 1 \in 1 .. Len(s) + 1
      /\ q \in 1 .. Len(s) + 1 /\ a \in (1 - 1) .. Len(s) /\ Len(s) \in (q - 1) .. Len(s)
  BY <1>1
<1>3. u \in Seq(S) /\ Len(u) = (a - 1) + 1 /\ \A i \in 1 .. (a - 1) + 1 : u[i] = s[(1 - 1) + i]
  BY <1>1, <1>2, SubIs
<1>4. v \in Seq(S) /\ Len(v) = (Len(s) - q) + 1
      /\ \A i \in 1 .. (Len(s) - q) + 1 : v[i] = s[(q - 1) + i]
  BY <1>1, <1>2, SubIs
<1>6. PICK t : t = u \o v
  OBVIOUS
<1>8. /\ t \in Seq(S) /\ Len(t) = Len(s) - 1
      /\ \A i \in 1 .. Len(s) - 1 : t[i] = Del(s, p)[i]
  <2>2. Len(u) = p - 1 /\ Len(v) = Len(s) - p /\ (p - 1) + (Len(s) - p) = Len(s) - 1
    <3>1. Len(u) = (a - 1) + 1 /\ Len(v) = (Len(s) - q) + 1 /\ q = p + 1 /\ a = p - 1
      BY <1>1, <1>3, <1>4
    <3> QED BY <1>2, <3>1
  <2>1. t \in Seq(S) /\ Len(t) = (p - 1) + (Len(s) - p)
        /\ \A i \in 1 .. (p - 1) + (Len(s) - p) :
              t[i] = IF i <= p - 1 THEN u[i] ELSE v[i - (p - 1)]
    <3>2. PICK n : n = p - 1
      OBVIOUS
    <3>1. u \in Seq(S) /\ v \in Seq(S) /\ Len(u) = p - 1 /\ Len(v) = Len(s) - p /\ t = u \o v
      BY <1>3, <1>4, <1>6, <2>2
    <3>3. IsCat(t, u, n, v, S)
      BY <3>1, <3>2, CatIs
    <3> QED BY <3>1, <3>2, <3>3 DEF IsCat
  <2>3. ASSUME NEW i \in 1 .. Len(s) - 1 PROVE t[i] = Del(s, p)[i]
    <3>1. t[i] = IF i <= p - 1 THEN u[i] ELSE v[i - (p - 1)]
      BY <2>1, <2>2
    <3>2. CASE i < p
      <4>1. i <= p - 1 /\ i \in 1 .. (a - 1) + 1 /\ (1 - 1) + i = i
        BY <1>1, <1>2, <3>2
      <4> QED BY <1>3, <3>1, <3>2, <4>1 DEF Del
    <3>3. CASE ~ (i < p)
      <4>1. i - (p - 1) \in 1 .. (Len(s) - q) + 1 /\ (q - 1) + (i - (p - 1)) = i + 1
            /\ ~ (i <= p - 1)
        BY <1>1, <1>2, <3>3
      <4>2. v[i - (p - 1)] = s[i + 1]
        BY <1>4, <4>1
      <4> QED BY <1>2, <3>1, <3>3, <4>1, <4>2 DEF Del
    <3> QED BY <3>2, <3>3
  <2> QED BY <2>1, <2>2, <2>3
<1>9. Promise!RemoveAt(s, p) = t
  BY <1>1, <1>6 DEF Promise!RemoveAt
<1>11. PICK z : z = Del(s, p)
  OBVIOUS
<1>12. t = z
  <2>1. Len(s) - 1 \in Nat /\ z = [i \in 1 .. Len(s) - 1 |-> z[i]]
    BY <1>2, <1>11 DEF Del
  <2> QED BY <1>8, <1>11, <2>1, SameSeq
<1> QED BY <1>9, <1>11, <1>12

LEMMA SeqEq ==
  ASSUME NEW S, NEW s \in Seq(S), NEW t \in Seq(S), Len(s) = Len(t),
         \A i \in 1 .. Len(s) : s[i] = t[i]
  PROVE  s = t
<1>1. PICK n : n = Len(s)
  OBVIOUS
<1>2. s = [i \in 1 .. n |-> s[i]]
  BY <1>1
<1>3. t = [i \in 1 .. n |-> t[i]]
  BY <1>1
<1>4. \A i \in 1 .. n : s[i] = t[i]
  BY <1>1
<1> QED BY <1>2, <1>3, <1>4

\* The same with names for what is said of each.
IsIns(t, s, p, e, S) ==
  /\ t \in Seq(S) /\ Len(t) = Len(s) + 1
  /\ \A i \in 1 .. Len(s) + 1 : t[i] = IF i <= p THEN s[i] ELSE IF i = p + 1 THEN e ELSE s[i - 1]
IsDel(t, s, p, S) ==
  /\ t \in Seq(S) /\ Len(t) = Len(s) - 1
  /\ \A i \in 1 .. Len(s) - 1 : t[i] = IF i < p THEN s[i] ELSE s[i + 1]
IsJoined(t, k, s, p, S) ==
  /\ t \in Seq(S) /\ Len(t) = Len(k) + (Len(s) - p)
  /\ \A i \in 1 .. Len(k) + (Len(s) - p) :
        t[i] = IF i <= Len(k) THEN k[i] ELSE s[(i - Len(k)) + p]
IsBack(t, s, p, S) ==
  /\ t \in Seq(S) /\ Len(t) = p
  /\ \A i \in 1 .. p : t[i] = s[(p + 1) - i]

LEMMA InsDef ==
  ASSUME NEW S, NEW s \in Seq(S), NEW p \in 0 .. Len(s), NEW e \in S, NEW t, t = Ins(s, p, e)
  PROVE  IsIns(t, s, p, e, S)
<1>1. t \in Seq(S) /\ Len(t) = Len(s) + 1
  BY InsIs
<1> QED BY <1>1 DEF IsIns, Ins

LEMMA DelDef ==
  ASSUME NEW S, NEW s \in Seq(S), NEW p \in 1 .. Len(s), NEW t, t = Del(s, p)
  PROVE  IsDel(t, s, p, S)
<1>1. t \in Seq(S) /\ Len(t) = Len(s) - 1
  BY DelIs
<1> QED BY <1>1 DEF IsDel, Del

LEMMA JoinedDef ==
  ASSUME NEW S, NEW k \in Seq(S), NEW s \in Seq(S), NEW p \in 0 .. Len(s),
         NEW t, t = Joined(k, s, p)
  PROVE  IsJoined(t, k, s, p, S)
<1>1. t \in Seq(S) /\ Len(t) = Len(k) + (Len(s) - p)
  BY JoinedIs
<1> QED BY <1>1 DEF IsJoined, Joined

LEMMA BackDef ==
  ASSUME NEW S, NEW s \in Seq(S), NEW p \in 0 .. Len(s), NEW t, t = Back(s, p)
  PROVE  IsBack(t, s, p, S)
<1>1. t \in Seq(S) /\ Len(t) = p
  BY BackIs
<1> QED BY <1>1 DEF IsBack, Back

\* The walk goes from the p-th of s to the q-th; and names for what would be
\* arithmetic to the prover.
Stands(s, p, q) == s \in Seq(Node) /\ p \in 0 .. Len(s) /\ q \in 1 .. Len(s) /\ q = p + 1
Nodes(k) == k \in Seq(Node)
Behind(k, o) == o = Len(k) + 1
Zero(z) == z = 0
One(o) == o = 1
Empty(k) == k \in Seq(Node) /\ Len(k) = 0

LEMMA StandsIs ==
  ASSUME NEW s, NEW p, NEW q, Stands(s, p, q)
  PROVE  /\ s \in Seq(Node) /\ p \in 0 .. Len(s) - 1 /\ p \in 0 .. Len(s) /\ q \in 0 .. Len(s)
         /\ q \in 1 .. Len(s) /\ q = p + 1 /\ s[q] \in Node
<1>1. s \in Seq(Node) /\ p \in 0 .. Len(s) /\ q \in 1 .. Len(s) /\ q = p + 1
  BY DEF Stands
<1>2. Len(s) \in Nat
  BY <1>1
<1>3. p \in 0 .. Len(s) - 1 /\ q \in 0 .. Len(s)
  BY <1>1, <1>2
<1>4. s[q] \in Node
  BY <1>1
<1> QED BY <1>1, <1>3, <1>4

\* Walking over what is left of s behind k: the next is removed, or it is kept.
LEMMA NextRemoved ==
  ASSUME NEW S, NEW k \in Seq(S), NEW s \in Seq(S), NEW p \in 0 .. Len(s) - 1,
         NEW t, t = Joined(k, s, p)
  PROVE  /\ Len(k) + 1 \in 1 .. Len(t) /\ t[Len(k) + 1] = s[p + 1]
         /\ Del(t, Len(k) + 1) = Joined(k, s, p + 1)
<1>1. /\ Len(s) \in Nat /\ Len(k) \in Nat /\ p \in Nat /\ p + 1 <= Len(s)
      /\ p \in 0 .. Len(s) /\ p + 1 \in 0 .. Len(s)
  OBVIOUS
<1>2. t \in Seq(S) /\ Len(t) = Len(k) + (Len(s) - p)
  BY <1>1, JoinedIs
<1>3. Len(k) + 1 \in 1 .. Len(t)
  BY <1>1, <1>2
<1>4. PICK q, u, v : q = Len(k) + 1 /\ u = Del(t, q) /\ v = Joined(k, s, p + 1)
  OBVIOUS
<1>5. v \in Seq(S) /\ Len(v) = Len(k) + (Len(s) - (p + 1))
  BY <1>1, <1>4, JoinedIs
<1>6. u \in Seq(S) /\ Len(u) = Len(t) - 1
  BY <1>2, <1>3, <1>4, DelIs
<1>7. Len(u) = Len(v)
  BY <1>1, <1>2, <1>5, <1>6
<1>8. \A i \in 1 .. Len(k) + (Len(s) - p) : t[i] = IF i <= Len(k) THEN k[i] ELSE s[(i - Len(k)) + p]
  BY DEF Joined
<1>9. \A i \in 1 .. Len(k) + (Len(s) - (p + 1)) :
          v[i] = IF i <= Len(k) THEN k[i] ELSE s[(i - Len(k)) + (p + 1)]
  BY <1>4 DEF Joined
<1>10. \A i \in 1 .. Len(t) - 1 : u[i] = IF i < q THEN t[i] ELSE t[i + 1]
  BY <1>4 DEF Del
<1>11. ASSUME NEW i \in 1 .. Len(u) PROVE u[i] = v[i]
  <2>1. i \in 1 .. Len(t) - 1 /\ i \in 1 .. Len(k) + (Len(s) - (p + 1))
    BY <1>5, <1>6, <1>7
  <2>2. CASE i <= Len(k)
    <3>1. i < q /\ i \in 1 .. Len(k) + (Len(s) - p)
      BY <1>1, <1>4, <2>1, <2>2
    <3> QED BY <1>8, <1>9, <1>10, <2>1, <2>2, <3>1
  <2>3. CASE ~ (i <= Len(k))
    <3>4. i \in Nat /\ q = Len(k) + 1
      BY <1>4
    <3>5. ~ (i < q) /\ ~ (i + 1 <= Len(k)) /\ ((i + 1) - Len(k)) + p = (i - Len(k)) + (p + 1)
      BY <1>1, <2>3, <3>4
    <3>1. /\ ~ (i < q) /\ ~ (i + 1 <= Len(k)) /\ ((i + 1) - Len(k)) + p = (i - Len(k)) + (p + 1)
          /\ i + 1 \in 1 .. Len(k) + (Len(s) - p)
      <4>1. i <= Len(k) + (Len(s) - (p + 1)) /\ 1 <= i
        BY <2>1
      <4> QED BY <1>1, <3>4, <3>5, <4>1
    <3>2. u[i] = t[i + 1]
      BY <1>10, <2>1, <3>1
    <3>3. t[i + 1] = s[((i + 1) - Len(k)) + p]
      BY <1>8, <3>1
    <3> QED BY <1>9, <2>1, <2>3, <3>1, <3>2, <3>3
  <2> QED BY <2>2, <2>3
<1>12. u = v
  BY <1>5, <1>6, <1>7, <1>11, SeqEq
<1>13. t[Len(k) + 1] = s[p + 1]
  <2>1. Len(k) + 1 \in 1 .. Len(k) + (Len(s) - p) /\ ~ (Len(k) + 1 <= Len(k))
        /\ ((Len(k) + 1) - Len(k)) + p = p + 1
    BY <1>1
  <2> QED BY <1>8, <2>1
<1> QED BY <1>3, <1>4, <1>12, <1>13

KeptMore(k, j, s, q, t) == j \in Seq(Node) /\ Len(j) = Len(k) + 1 /\ t = Joined(j, s, q)

\* One more of s is kept.
LEMMA KeptOne ==
  ASSUME NEW k, Nodes(k), NEW s, NEW p, NEW q, Stands(s, p, q), NEW x, x = s[q],
         NEW j, j = Append(k, x), NEW t, t = Joined(k, s, p)
  PROVE  KeptMore(k, j, s, q, t)
<1>0. k \in Seq(Node) /\ s \in Seq(Node) /\ p \in 0 .. Len(s) - 1 /\ q = p + 1 /\ x = s[p + 1]
  BY StandsIs DEF Nodes
<1>1. /\ Len(s) \in Nat /\ Len(k) \in Nat /\ p \in Nat /\ p + 1 <= Len(s)
      /\ p \in 0 .. Len(s) /\ p + 1 \in 0 .. Len(s) /\ s[p + 1] \in Node
  BY <1>0
<1>2. /\ j \in Seq(Node) /\ Len(j) = Len(k) + 1 /\ j[Len(k) + 1] = s[p + 1]
      /\ \A i \in 1 .. Len(k) : j[i] = k[i]
  BY <1>0, <1>1
<1>3. PICK u, v : u = Joined(k, s, p) /\ v = Joined(j, s, p + 1)
  OBVIOUS
<1>4. u \in Seq(Node) /\ Len(u) = Len(k) + (Len(s) - p)
  BY <1>0, <1>1, <1>3, JoinedIs
<1>5. v \in Seq(Node) /\ Len(v) = Len(j) + (Len(s) - (p + 1))
  BY <1>0, <1>1, <1>2, <1>3, JoinedIs
<1>6. Len(u) = Len(v)
  BY <1>1, <1>2, <1>4, <1>5
<1>7. \A i \in 1 .. Len(k) + (Len(s) - p) : u[i] = IF i <= Len(k) THEN k[i] ELSE s[(i - Len(k)) + p]
  BY <1>3 DEF Joined
<1>8. \A i \in 1 .. Len(j) + (Len(s) - (p + 1)) :
          v[i] = IF i <= Len(j) THEN j[i] ELSE s[(i - Len(j)) + (p + 1)]
  BY <1>3 DEF Joined
<1>9. ASSUME NEW i \in 1 .. Len(v) PROVE v[i] = u[i]
  <2>1. i \in 1 .. Len(k) + (Len(s) - p) /\ i \in 1 .. Len(j) + (Len(s) - (p + 1))
    BY <1>4, <1>5, <1>6
  <2>2. CASE i <= Len(k)
    <3>1. i <= Len(j) /\ i \in 1 .. Len(k)
      BY <1>1, <1>2, <2>1, <2>2
    <3> QED BY <1>2, <1>7, <1>8, <2>1, <2>2, <3>1
  <2>3. CASE i = Len(k) + 1
    <3>1. i <= Len(j) /\ ~ (i <= Len(k)) /\ (i - Len(k)) + p = p + 1
      BY <1>1, <1>2, <2>3
    <3>2. v[i] = j[i]
      BY <1>8, <2>1, <3>1
    <3>3. u[i] = s[(i - Len(k)) + p]
      BY <1>7, <2>1, <3>1
    <3> QED BY <1>2, <2>3, <3>1, <3>2, <3>3
  <2>4. CASE i > Len(k) + 1
    <3>1. ~ (i <= Len(j)) /\ ~ (i <= Len(k)) /\ (i - Len(j)) + (p + 1) = (i - Len(k)) + p
      BY <1>1, <1>2, <2>1, <2>4
    <3>2. v[i] = s[(i - Len(j)) + (p + 1)]
      BY <1>8, <2>1, <3>1
    <3>3. u[i] = s[(i - Len(k)) + p]
      BY <1>7, <2>1, <3>1
    <3> QED BY <3>1, <3>2, <3>3
  <2>5. i \in Int /\ Len(k) \in Int
    BY <1>1
  <2>6. i <= Len(k) \/ i = Len(k) + 1 \/ i > Len(k) + 1
    BY <2>5
  <2> QED BY <2>2, <2>3, <2>4, <2>6
<1>10. v = u
  BY <1>4, <1>5, <1>6, <1>9, SeqEq
<1> QED BY <1>0, <1>2, <1>3, <1>10 DEF KeptMore

LEMMA NoneJoined ==
  ASSUME NEW S, NEW k \in Seq(S), NEW s \in Seq(S), NEW p, p = Len(s), NEW u, u = Joined(k, s, p)
  PROVE  u = k
<1>1. p \in 0 .. Len(s) /\ Len(k) \in Nat /\ Len(s) \in Nat
  OBVIOUS
<1>2. IsJoined(u, k, s, p, S)
  BY <1>1, JoinedDef
<1>3. u \in Seq(S) /\ Len(u) = Len(k) + (Len(s) - p)
  BY <1>2 DEF IsJoined
<1>4. Len(u) = Len(k)
  BY <1>1, <1>3
<1>5. \A i \in 1 .. Len(u) : u[i] = k[i]
  BY <1>1, <1>2, <1>4 DEF IsJoined
<1> QED BY <1>3, <1>4, <1>5, SeqEq

LEMMA AllJoined ==
  ASSUME NEW S, NEW s \in Seq(S), NEW k \in Seq(S), Len(k) = 0, NEW p, p = 0,
         NEW u, u = Joined(k, s, p)
  PROVE  u = s
<1>1. p \in 0 .. Len(s) /\ Len(s) \in Nat
  OBVIOUS
<1>2. IsJoined(u, k, s, p, S)
  BY <1>1, JoinedDef
<1>3. u \in Seq(S) /\ Len(u) = 0 + (Len(s) - 0)
  BY <1>2 DEF IsJoined
<1>4. Len(u) = Len(s)
  BY <1>1, <1>3
<1>5. ASSUME NEW i \in 1 .. Len(u) PROVE u[i] = s[i]
  <2>1. (i - 0) + 0 = i /\ ~ (i <= 0) /\ i \in 1 .. 0 + (Len(s) - 0)
    BY <1>1, <1>4
  <2> QED BY <1>2, <2>1 DEF IsJoined
<1> QED BY <1>3, <1>4, <1>5, SeqEq

\* Back at the head of the list, the first p of s are taken from the other list,
\* from the last to the first.
LEMMA NextBack ==
  ASSUME NEW s, NEW p, NEW q, Stands(s, p, q), NEW z, Zero(z), NEW o, One(o), NEW x, x = s[q],
         NEW b, b = Back(s, q), NEW c, c = Back(s, p), NEW d, d = Ins(c, z, x),
         NEW e, e = Del(b, o)
  PROVE  d = b /\ o \in 1 .. Len(b) /\ b[o] = x /\ e = c
<1>0. /\ s \in Seq(Node) /\ p \in 0 .. Len(s) /\ q \in 0 .. Len(s) /\ q = p + 1
      /\ z = 0 /\ o = 1 /\ x \in Node
  BY StandsIs DEF Zero, One
<1> USE <1>0
<1>1. Len(s) \in Nat /\ p \in Nat /\ q = p + 1
  OBVIOUS
<1>2. IsBack(b, s, q, Node) /\ IsBack(c, s, p, Node)
  BY BackDef
<1>3. b \in Seq(Node) /\ Len(b) = q /\ c \in Seq(Node) /\ Len(c) = p
  BY <1>2 DEF IsBack
<1>4. o \in 1 .. Len(b) /\ z \in 0 .. Len(c)
  BY <1>1, <1>3
<1>5. IsIns(d, c, z, x, Node) /\ IsDel(e, b, o, Node)
  BY <1>3, <1>4, InsDef, DelDef
<1>6. d \in Seq(Node) /\ Len(d) = p + 1 /\ e \in Seq(Node) /\ Len(e) = q - 1
  BY <1>3, <1>5 DEF IsIns, IsDel
<1>7. /\ \A i \in 1 .. q : b[i] = s[(q + 1) - i]
      /\ \A i \in 1 .. p : c[i] = s[(p + 1) - i]
  BY <1>2 DEF IsBack
<1>8. b[o] = x
  <2>1. o \in 1 .. q /\ (q + 1) - o = q
    BY <1>1
  <2> QED BY <1>7, <2>1
<1>9. ASSUME NEW i \in 1 .. Len(d) PROVE d[i] = b[i]
  <2>1. i \in 1 .. q /\ ~ (i <= 0) /\ i \in 1 .. Len(c) + 1
    BY <1>1, <1>3, <1>6
  <2>2. d[i] = IF i = 0 + 1 THEN x ELSE c[i - 1]
    BY <1>5, <2>1 DEF IsIns
  <2>3. CASE i = 1
    BY <1>8, <2>2, <2>3
  <2>4. CASE i # 1
    <3>1. i - 1 \in 1 .. p /\ (p + 1) - (i - 1) = (q + 1) - i
      BY <1>1, <2>1, <2>4
    <3> QED BY <1>7, <2>1, <2>2, <2>4, <3>1
  <2> QED BY <2>3, <2>4
<1>10. d = b
  BY <1>3, <1>6, <1>9, SeqEq
<1>11. ASSUME NEW i \in 1 .. Len(e) PROVE e[i] = c[i]
  <2>1. i \in 1 .. p /\ ~ (i < 1) /\ i + 1 \in 1 .. q /\ (q + 1) - (i + 1) = (p + 1) - i
        /\ i \in 1 .. Len(b) - 1
    BY <1>1, <1>3, <1>6
  <2>2. e[i] = b[i + 1]
    BY <1>5, <2>1 DEF IsDel
  <2> QED BY <1>7, <2>1, <2>2
<1>12. e = c
  <2>1. Len(e) = Len(c)
    BY <1>1, <1>3, <1>6
  <2> QED BY <1>3, <1>6, <1>11, <2>1, SeqEq
<1> QED BY <1>4, <1>8, <1>10, <1>12

LEMMA NextFront ==
  ASSUME NEW s, NEW p, NEW q, Stands(s, p, q), NEW z, Zero(z), NEW x, x = s[q],
         NEW k, Empty(k), NEW t, t = Joined(k, s, q), NEW u, u = Joined(k, s, p),
         NEW v, v = Ins(t, z, x)
  PROVE  v = u
<1>0. /\ s \in Seq(Node) /\ p \in 0 .. Len(s) /\ q \in 0 .. Len(s) /\ q = p + 1
      /\ z = 0 /\ x \in Node /\ k \in Seq(Node) /\ Len(k) = 0
  BY StandsIs DEF Zero, Empty
<1> USE <1>0
<1>1. Len(s) \in Nat /\ p \in Nat /\ q = p + 1 /\ q <= Len(s)
  OBVIOUS
<1>2. IsJoined(t, k, s, q, Node) /\ IsJoined(u, k, s, p, Node)
  BY JoinedDef
<1>3. t \in Seq(Node) /\ Len(t) = 0 + (Len(s) - q) /\ u \in Seq(Node) /\ Len(u) = 0 + (Len(s) - p)
  BY <1>2 DEF IsJoined
<1>4. Len(t) = Len(s) - q /\ Len(u) = Len(s) - p /\ z \in 0 .. Len(t)
  BY <1>1, <1>3
<1>5. IsIns(v, t, z, x, Node)
  BY <1>3, <1>4, InsDef
<1>6. v \in Seq(Node) /\ Len(v) = Len(t) + 1
  BY <1>5 DEF IsIns
<1>7. Len(v) = Len(u)
  <2>1. (Len(s) - q) + 1 = Len(s) - p
    BY <1>1
  <2> QED BY <1>4, <1>6, <2>1
<1>8. ASSUME NEW i \in 1 .. Len(v) PROVE v[i] = u[i]
  <2>1. i \in 1 .. 0 + (Len(s) - p) /\ i \in 1 .. Len(t) + 1 /\ ~ (i <= 0) /\ (i - 0) + p = i + p
    BY <1>1, <1>4, <1>6
  <2>2. u[i] = s[i + p]
    BY <1>2, <2>1 DEF IsJoined
  <2>3. v[i] = IF i = 0 + 1 THEN x ELSE t[i - 1]
    BY <1>5, <2>1 DEF IsIns
  <2>4. CASE i = 1
    BY <1>1, <2>2, <2>3, <2>4
  <2>5. CASE i # 1
    <3>1. i - 1 \in 1 .. 0 + (Len(s) - q) /\ ~ (i - 1 <= 0) /\ ((i - 1) - 0) + q = i + p
      BY <1>1, <2>1, <2>5
    <3>2. t[i - 1] = s[((i - 1) - 0) + q]
      BY <1>2, <3>1 DEF IsJoined
    <3> QED BY <2>2, <2>3, <2>5, <3>1, <3>2
  <2> QED BY <2>4, <2>5
<1> QED BY <1>3, <1>6, <1>7, <1>8, SeqEq

-----------------------------------------------------------------------------
(* The pointers g hold the lists L.                                        *)

AllHeads == Heads \cup {temp_list}
\* The i-th of the list s, whose head h is the 0-th.
At(s, h, i) == IF i = 0 THEN h ELSE IF i <= Len(s) THEN s[i] ELSE NULL
On(L, n) == \E h \in AllHeads : \E i \in 1 .. Len(L[h]) : L[h][i] = n

Apart(L) ==
  \A h, k \in AllHeads : \A i \in 1 .. Len(L[h]), j \in 1 .. Len(L[k]) :
     L[h][i] = L[k][j] => h = k /\ i = j
GoesOn(g, L) ==
  \A h \in AllHeads : \A i \in 0 .. Len(L[h]) : g[At(L[h], h, i)].right = At(L[h], h, i + 1)
GoesBack(g, L) ==
  \A h \in AllHeads : \A i \in 1 .. Len(L[h]) : g[L[h][i]].left = At(L[h], h, i - 1)
OnLists(g, L) ==
  /\ g \in Pointers /\ L \in [AllHeads -> Seq(Node)]
  /\ \A h \in AllHeads : g[h].left = NULL
  /\ Apart(L) /\ GoesOn(g, L) /\ GoesBack(g, L)
  /\ \A n \in Node : On(L, n) \/ g[n] = Detached
\* The list h becomes s.
Put(L, h, s) == [k \in AllHeads |-> IF k = h THEN s ELSE L[k]]

LEMMA HeadsAreThreads ==
  ASSUME GlthreadAssumption
  PROVE  /\ AllHeads \subseteq Thread /\ Node \subseteq Thread /\ NULL \notin Thread
         /\ AllHeads \cap Node = {} /\ temp_list \in AllHeads /\ temp_list \notin Heads
         /\ Heads \subseteq AllHeads
BY DEF GlthreadAssumption, AllHeads, Thread

\* Where a glthread_t can be is where only one is.
Spot(L, t, h, i) == h \in AllHeads /\ i \in 0 .. Len(L[h]) /\ t = At(L[h], h, i)

LEMMA SpotIs ==
  ASSUME GlthreadAssumption, NEW g, NEW L, OnLists(g, L), NEW t, NEW h, NEW i, Spot(L, t, h, i)
  PROVE  /\ L[h] \in Seq(Node) /\ Len(L[h]) \in Nat /\ i \in Nat /\ i <= Len(L[h])
         /\ t \in Thread /\ t # NULL
         /\ i = 0 => t = h
         /\ i # 0 => i \in 1 .. Len(L[h]) /\ t = L[h][i] /\ t \in Node
         /\ g[t].right = At(L[h], h, i + 1)
<1>1. L[h] \in Seq(Node) /\ h \in AllHeads
  BY DEF OnLists, Spot
<1>2. Len(L[h]) \in Nat /\ i \in 0 .. Len(L[h]) /\ \A j \in 1 .. Len(L[h]) : L[h][j] \in Node
  BY <1>1 DEF Spot
<1>3. i \in Nat /\ i <= Len(L[h])
  BY <1>2
<1>4. i = 0 => t = h
  BY DEF Spot, At
<1>5. i # 0 => i \in 1 .. Len(L[h]) /\ t = L[h][i] /\ t \in Node
  BY <1>2, <1>3 DEF Spot, At
<1>6. t \in Thread /\ t # NULL
  BY <1>1, <1>4, <1>5, HeadsAreThreads
<1>7. g[t].right = At(L[h], h, i + 1)
  BY <1>1, <1>2 DEF OnLists, GoesOn, Spot
<1> QED BY <1>1, <1>2, <1>3, <1>4, <1>5, <1>6, <1>7

LEMMA OneSpot ==
  ASSUME GlthreadAssumption, NEW g, NEW L, OnLists(g, L), NEW t, NEW h, NEW i, Spot(L, t, h, i),
         NEW k, NEW j, Spot(L, t, k, j)
  PROVE  h = k /\ i = j
<1>1. /\ i = 0 => t = h
      /\ i # 0 => i \in 1 .. Len(L[h]) /\ t = L[h][i] /\ t \in Node
  BY SpotIs
<1>2. /\ j = 0 => t = k
      /\ j # 0 => j \in 1 .. Len(L[k]) /\ t = L[k][j] /\ t \in Node
  BY SpotIs
<1>3. h \in AllHeads /\ k \in AllHeads /\ AllHeads \cap Node = {}
  BY HeadsAreThreads DEF Spot
<1> QED BY <1>1, <1>2, <1>3 DEF OnLists, Apart

LEMMA NoSpot ==
  ASSUME GlthreadAssumption, NEW g, NEW L, OnLists(g, L), NEW n \in Node, g[n] = Detached,
         NEW h, NEW i
  PROVE  ~ Spot(L, n, h, i)
<1>1. SUFFICES ASSUME Spot(L, n, h, i) PROVE FALSE
  OBVIOUS
<1>2. L[h] \in Seq(Node) /\ Len(L[h]) \in Nat /\ i \in Nat /\ i <= Len(L[h]) /\ h \in AllHeads
      /\ (i = 0 => n = h) /\ (i # 0 => i \in 1 .. Len(L[h]) /\ n = L[h][i])
  BY <1>1, SpotIs DEF Spot
<1>3. i # 0
  BY <1>2, HeadsAreThreads
<1>4. i - 1 \in 0 .. Len(L[h])
  BY <1>2, <1>3
<1>5. PICK l, j : l = At(L[h], h, i - 1) /\ j = i - 1
  OBVIOUS
<1>6. Spot(L, l, h, j)
  BY <1>2, <1>4, <1>5 DEF Spot
<1>7. l # NULL
  BY <1>6, SpotIs
<1>8. g[n].left = l
  BY <1>2, <1>3, <1>5 DEF OnLists, GoesBack
<1> QED BY <1>7, <1>8 DEF Detached

\* What follows is a place of the same list, unless it is the end of it.
LEMMA NextSpot ==
  ASSUME GlthreadAssumption, NEW g, NEW L, OnLists(g, L), NEW t, NEW h, NEW i, Spot(L, t, h, i)
  PROVE  IF i = Len(L[h]) THEN g[t].right = NULL
         ELSE i + 1 \in 1 .. Len(L[h]) /\ g[t].right = L[h][i + 1] /\ g[t].right # NULL
<1>1. Len(L[h]) \in Nat /\ i \in Nat /\ i <= Len(L[h]) /\ g[t].right = At(L[h], h, i + 1)
      /\ L[h] \in Seq(Node)
  BY SpotIs
<1>2. CASE i = Len(L[h])
  BY <1>1, <1>2 DEF At
<1>3. CASE i # Len(L[h])
  <2>1. i + 1 \in 1 .. Len(L[h]) /\ i + 1 # 0 /\ i + 1 <= Len(L[h])
    BY <1>1, <1>3
  <2>2. L[h][i + 1] \in Node
    BY <1>1, <2>1
  <2>3. g[t].right = L[h][i + 1]
    BY <1>1, <2>1 DEF At
  <2> QED BY <1>3, <2>1, <2>2, <2>3, HeadsAreThreads
<1> QED BY <1>2, <1>3

LEMMA PutIs ==
  ASSUME NEW L \in [AllHeads -> Seq(Node)], NEW h \in AllHeads, NEW t \in Seq(Node),
         NEW M, M = Put(L, h, t)
  PROVE  /\ M \in [AllHeads -> Seq(Node)] /\ M[h] = t
         /\ \A k \in AllHeads : k # h => M[k] = L[k]
BY DEF Put

\* Behind the p-th of a list a new node is put.
LEMMA AddNextOnLists ==
  ASSUME GlthreadAssumption, NEW g, NEW L, OnLists(g, L), NEW c, NEW h, NEW p, Spot(L, c, h, p),
         NEW new \in Node, g[new] = Detached, NEW s, s = L[h], NEW t, IsIns(t, s, p, new, Node),
         NEW M, M = Put(L, h, t), NEW g2, g2 = AddNext(g, c, new)
  PROVE  OnLists(g2, M)
<1> DEFINE r == g[c].right
<1>n. h \in AllHeads /\ AllHeads \subseteq Thread /\ NULL \notin Thread /\ new \in Thread
      /\ new \notin AllHeads
  BY HeadsAreThreads DEF Spot
<1>g. /\ g \in Pointers /\ L \in [AllHeads -> Seq(Node)]
      /\ \A k \in AllHeads : g[k].left = NULL
      /\ Apart(L) /\ GoesOn(g, L) /\ GoesBack(g, L)
      /\ \A n \in Node : On(L, n) \/ g[n] = Detached
  BY DEF OnLists
<1>v. g[new].left = NULL /\ g[new].right = NULL
  BY DEF Detached
<1>c. /\ s \in Seq(Node) /\ Len(s) \in Nat /\ p \in Nat /\ p <= Len(s) /\ c \in Thread
      /\ r = At(s, h, p + 1)
  BY SpotIs
<1>t. /\ t \in Seq(Node) /\ Len(t) = Len(s) + 1
      /\ \A i \in 1 .. Len(s) + 1 :
            t[i] = IF i <= p THEN s[i] ELSE IF i = p + 1 THEN new ELSE s[i - 1]
  BY DEF IsIns
<1>l. Len(s) \in Nat /\ Len(t) = Len(s) + 1 /\ p \in Nat /\ p <= Len(s)
  BY <1>c, <1>t
<1>M. M \in [AllHeads -> Seq(Node)] /\ M[h] = t /\ \A k \in AllHeads : k # h => M[k] = L[k]
  BY <1>g, <1>n, <1>t, PutIs
<1>1. new # c
  BY NoSpot
<1>2. \A x \in Thread :
        /\ g2[x].left = IF x = r THEN new ELSE IF x = new THEN c ELSE g[x].left
        /\ g2[x].right = IF x = new THEN r ELSE IF x = c THEN new ELSE g[x].right
  BY <1>v, <1>1 DEF AddNext
<1>3. g2 \in Pointers
  <2>1. \A x \in Thread : g[x] \in [left : Thread \cup {NULL}, right : Thread \cup {NULL}]
    BY <1>g DEF Pointers
  <2>2. \A x \in Thread : g2[x] \in [left : Thread \cup {NULL}, right : Thread \cup {NULL}]
    BY <2>1, <1>n, <1>c DEF AddNext
  <2> QED BY <2>2 DEF Pointers, AddNext
<1>4. ASSUME NEW x, NEW k, NEW i, Spot(L, x, k, i)
      PROVE  /\ x \in Thread /\ x # new
             /\ x = c <=> k = h /\ i = p
             /\ x = r <=> k = h /\ i = p + 1
             /\ g[x].right = At(L[k], k, i + 1)
  <2>1. x \in Thread /\ x # NULL /\ k \in AllHeads /\ i \in Nat /\ i <= Len(L[k])
        /\ g[x].right = At(L[k], k, i + 1) /\ x = At(L[k], k, i)
    BY <1>4, SpotIs DEF Spot
  <2>2. x # new
    BY <1>4, NoSpot
  <2>3. x = c => k = h /\ i = p
    BY <1>4, OneSpot
  <2>4. k = h /\ i = p => x = c
    BY <1>4 DEF Spot
  <2>5. ASSUME x = r PROVE k = h /\ i = p + 1
    <3>1. r # NULL
      BY <2>1, <2>5
    <3>2. p + 1 <= Len(s) /\ p + 1 \in 0 .. Len(s)
      BY <1>c, <3>1 DEF At
    <3>3. PICK q : q = p + 1
      OBVIOUS
    <3>4. Spot(L, x, h, q)
      BY <1>c, <1>n, <2>5, <3>2, <3>3 DEF Spot
    <3> QED BY <1>4, <3>3, <3>4, OneSpot
  <2>6. k = h /\ i = p + 1 => x = r
    BY <1>c, <2>1
  <2> QED BY <2>1, <2>2, <2>3, <2>4, <2>5, <2>6
<1> HIDE DEF r
<1>5. ASSUME NEW i \in 0 .. Len(s) + 2
      PROVE  At(t, h, i) = IF i <= p THEN At(s, h, i) ELSE IF i = p + 1 THEN new
                           ELSE At(s, h, i - 1)
  <2>1. i \in Nat /\ (i # 0 /\ i <= Len(s) + 1 => i \in 1 .. Len(s) + 1)
    BY <1>c
  <2>2. CASE i <= p
    BY <1>c, <1>t, <2>1, <2>2 DEF At
  <2>3. CASE i = p + 1
    <3>1. i # 0 /\ i <= Len(t) /\ ~ (i <= p) /\ i \in 1 .. Len(s) + 1
      BY <1>c, <1>t, <2>1, <2>3
    <3> QED BY <1>t, <2>3, <3>1 DEF At
  <2>4. CASE i > p + 1
    <3>1. i # 0 /\ ~ (i <= p) /\ i # p + 1 /\ i - 1 # 0 /\ (i <= Len(s) + 1 <=> i - 1 <= Len(s))
      BY <1>c, <2>1, <2>4
    <3> QED BY <1>t, <2>1, <3>1 DEF At
  <2>5. i <= p \/ i = p + 1 \/ i > p + 1
    BY <1>c, <2>1
  <2> QED BY <2>2, <2>3, <2>4, <2>5
<1>6. ASSUME NEW k \in AllHeads, k # h, NEW i \in 0 .. Len(L[k])
      PROVE  /\ g2[At(L[k], k, i)].right = At(L[k], k, i + 1)
             /\ g2[At(L[k], k, i)].left = g[At(L[k], k, i)].left
  <2>1. PICK x : x = At(L[k], k, i)
    OBVIOUS
  <2>2. Spot(L, x, k, i)
    BY <2>1 DEF Spot
  <2>3. x \in Thread /\ x # new /\ x # c /\ x # r /\ g[x].right = At(L[k], k, i + 1)
    BY <1>4, <1>6, <2>2
  <2> QED BY <1>2, <2>1, <2>3
<1>7. ASSUME NEW i \in 0 .. Len(s)
      PROVE  /\ i # p => g2[At(s, h, i)].right = At(s, h, i + 1)
             /\ i # p + 1 => g2[At(s, h, i)].left = g[At(s, h, i)].left
             /\ i = p + 1 => g2[At(s, h, i)].left = new
  <2>1. PICK x : x = At(s, h, i)
    OBVIOUS
  <2>2. Spot(L, x, h, i)
    BY <1>n, <2>1 DEF Spot
  <2>3. x \in Thread /\ x # new /\ (x = c <=> i = p) /\ (x = r <=> i = p + 1)
        /\ g[x].right = At(s, h, i + 1)
    BY <1>4, <2>2
  <2> QED BY <1>2, <2>1, <2>3
<1>8. GoesOn(g2, M)
  <2>1. ASSUME NEW k \in AllHeads, k # h, NEW i \in 0 .. Len(M[k])
        PROVE  g2[At(M[k], k, i)].right = At(M[k], k, i + 1)
    BY <1>6, <1>M, <2>1
  <2>2. ASSUME NEW i \in 0 .. Len(t) PROVE g2[At(t, h, i)].right = At(t, h, i + 1)
    <3>0. i \in 0 .. Len(s) + 1
      BY <1>l
    <3>1. i \in Nat /\ i <= Len(s) + 1 /\ i \in 0 .. Len(s) + 2 /\ i + 1 \in 0 .. Len(s) + 2
      BY <1>l, <3>0
    <3>2. CASE i < p
      <4>1. i <= p /\ i + 1 <= p /\ i # p /\ i \in 0 .. Len(s)
        BY <1>c, <3>1, <3>2
      <4>2. At(t, h, i) = At(s, h, i) /\ At(t, h, i + 1) = At(s, h, i + 1)
        BY <1>5, <3>1, <4>1
      <4> QED BY <1>7, <4>1, <4>2
    <3>3. CASE i = p
      <4>1. ~ (i + 1 <= p) /\ i + 1 = p + 1 /\ i <= p
        BY <1>c, <3>1, <3>3
      <4>2. At(t, h, i) = At(s, h, i) /\ At(t, h, i + 1) = new /\ At(s, h, i) = c
        BY <1>5, <3>1, <3>3, <4>1 DEF Spot
      <4> QED BY <1>1, <1>2, <1>c, <4>2
    <3>4. CASE i = p + 1
      <4>1. ~ (i <= p) /\ ~ (i + 1 <= p) /\ i + 1 # p + 1 /\ (i + 1) - 1 = p + 1
        BY <1>c, <3>1, <3>4
      <4>2. At(t, h, i) = new /\ At(t, h, i + 1) = At(s, h, p + 1)
        BY <1>5, <3>1, <3>4, <4>1
      <4> QED BY <1>2, <1>c, <1>n, <4>2
    <3>5. CASE i > p + 1
      <4>1. /\ ~ (i <= p) /\ i # p + 1 /\ ~ (i + 1 <= p) /\ i + 1 # p + 1 /\ (i + 1) - 1 = i
            /\ i - 1 \in 0 .. Len(s) /\ i - 1 # p /\ (i - 1) + 1 = i
        BY <1>c, <3>1, <3>5
      <4>2. At(t, h, i) = At(s, h, i - 1) /\ At(t, h, i + 1) = At(s, h, i)
        BY <1>5, <3>1, <4>1
      <4>3. g2[At(s, h, i - 1)].right = At(s, h, (i - 1) + 1)
        BY <1>7, <4>1
      <4> QED BY <4>1, <4>2, <4>3
    <3>6. i < p \/ i = p \/ i = p + 1 \/ i > p + 1
      BY <1>c, <3>1
    <3> QED BY <3>2, <3>3, <3>4, <3>5, <3>6
  <2> QED BY <1>M, <2>1, <2>2 DEF GoesOn
<1>9. GoesBack(g2, M)
  <2>1. ASSUME NEW k \in AllHeads, k # h, NEW i \in 1 .. Len(M[k])
        PROVE  g2[M[k][i]].left = At(M[k], k, i - 1)
    <3>1. M[k] = L[k] /\ Len(L[k]) \in Nat
      BY <1>M, <1>g, <2>1
    <3>2. i \in 0 .. Len(L[k]) /\ i # 0 /\ i <= Len(L[k]) /\ i \in 1 .. Len(L[k])
      BY <3>1
    <3>3. At(L[k], k, i) = L[k][i]
      BY <3>2 DEF At
    <3>4. g2[At(L[k], k, i)].left = g[At(L[k], k, i)].left
      BY <1>6, <2>1, <3>2
    <3>5. g[L[k][i]].left = At(L[k], k, i - 1)
      BY <1>g, <3>2 DEF GoesBack
    <3> QED BY <3>1, <3>3, <3>4, <3>5
  <2>2. ASSUME NEW i \in 1 .. Len(t) PROVE g2[t[i]].left = At(t, h, i - 1)
    <3>0. i \in 1 .. Len(s) + 1
      BY <1>l
    <3>1. /\ i \in Nat /\ i # 0 /\ i <= Len(s) + 1 /\ i \in 0 .. Len(s) + 2
          /\ i - 1 \in 0 .. Len(s) + 2 /\ i <= Len(t)
      BY <1>l, <3>0
    <3>2. t[i] = At(t, h, i)
      BY <3>1 DEF At
    <3>3. ASSUME NEW j \in 1 .. Len(s) PROVE g[At(s, h, j)].left = At(s, h, j - 1)
      <4>1. j # 0 /\ j <= Len(s)
        BY <1>c
      <4>2. At(s, h, j) = s[j]
        BY <4>1 DEF At
      <4> QED BY <1>g, <1>n, <4>2 DEF GoesBack
    <3>4. CASE i <= p
      <4>1. i - 1 <= p /\ i # p + 1 /\ i \in 1 .. Len(s) /\ i \in 0 .. Len(s)
        BY <1>c, <3>1, <3>4
      <4>2. At(t, h, i) = At(s, h, i) /\ At(t, h, i - 1) = At(s, h, i - 1)
        BY <1>5, <3>1, <3>4, <4>1
      <4>3. g2[At(s, h, i)].left = g[At(s, h, i)].left /\ g[At(s, h, i)].left = At(s, h, i - 1)
        BY <1>7, <3>3, <4>1
      <4> QED BY <3>2, <4>2, <4>3
    <3>5. CASE i = p + 1
      <4>1. ~ (i <= p) /\ i - 1 = p /\ p <= p
        BY <1>c, <3>1, <3>5
      <4>2. At(t, h, i) = new /\ At(t, h, i - 1) = At(s, h, p) /\ At(s, h, p) = c
        BY <1>5, <3>1, <3>5, <4>1 DEF Spot
      <4>3. new # r
        <5>1. CASE p = Len(s)
          <6>1. r = NULL
            BY <1>c, <5>1, NextSpot DEF r
          <6> QED BY <6>1, <1>n
        <5>2. CASE p # Len(s)
          <6>1. p + 1 \in 0 .. Len(s)
            BY <1>c, <5>2
          <6>2. PICK q : q = p + 1
            OBVIOUS
          <6>3. Spot(L, r, h, q)
            BY <1>c, <1>n, <6>1, <6>2 DEF Spot
          <6> QED BY <6>3, NoSpot
        <5> QED BY <5>1, <5>2
      <4> QED BY <1>2, <1>n, <3>2, <4>2, <4>3
    <3>6. CASE i = p + 2
      <4>1. /\ ~ (i <= p) /\ i # p + 1 /\ i - 1 = p + 1 /\ ~ (i - 1 <= p) /\ p + 1 \in 0 .. Len(s)
        BY <1>c, <3>1, <3>6
      <4>2. At(t, h, i) = At(s, h, p + 1) /\ At(t, h, i - 1) = new
        BY <1>5, <3>1, <4>1
      <4>3. g2[At(s, h, p + 1)].left = new
        BY <1>7, <4>1
      <4> QED BY <3>2, <4>2, <4>3
    <3>7. CASE i > p + 2
      <4>1. /\ ~ (i <= p) /\ i # p + 1 /\ ~ (i - 1 <= p) /\ i - 1 # p + 1
            /\ i - 1 \in 1 .. Len(s) /\ i - 1 \in 0 .. Len(s)
        BY <1>c, <3>1, <3>7
      <4>2. At(t, h, i) = At(s, h, i - 1) /\ At(t, h, i - 1) = At(s, h, (i - 1) - 1)
        BY <1>5, <3>1, <4>1
      <4>3. /\ g2[At(s, h, i - 1)].left = g[At(s, h, i - 1)].left
            /\ g[At(s, h, i - 1)].left = At(s, h, (i - 1) - 1)
        BY <1>7, <3>3, <4>1
      <4> QED BY <3>2, <4>2, <4>3
    <3>8. i <= p \/ i = p + 1 \/ i = p + 2 \/ i > p + 2
      BY <1>c, <3>1
    <3> QED BY <3>4, <3>5, <3>6, <3>7, <3>8
  <2> QED BY <1>M, <2>1, <2>2 DEF GoesBack
<1>10. \A k \in AllHeads : g2[k].left = NULL
  <2>1. ASSUME NEW k \in AllHeads PROVE g2[k].left = NULL
    <3>1. PICK i : i = 0
      OBVIOUS
    <3>2. Len(L[k]) \in Nat
      BY <1>g
    <3>3. Spot(L, k, k, i)
      BY <3>1, <3>2 DEF Spot, At
    <3>4. k \in Thread /\ k # new /\ (k = r => i = p + 1)
      BY <1>4, <3>3
    <3>5. k # r
      BY <1>c, <3>1, <3>4
    <3> QED BY <1>2, <1>g, <3>4, <3>5
  <2> QED BY <2>1
\* What was of a list is of the same one, or is new.
<1>11. ASSUME NEW k \in AllHeads, NEW i \in 1 .. Len(M[k])
       PROVE  \/ M[k][i] = new /\ k = h /\ i = p + 1
              \/ /\ \E j : Spot(L, M[k][i], k, j) /\ j = IF k = h /\ i > p + 1 THEN i - 1 ELSE i
                 /\ ~ (k = h /\ i = p + 1)
  <2>1. CASE k # h
    <3>1. M[k] = L[k] /\ Len(L[k]) \in Nat
      BY <1>M, <1>g, <2>1
    <3>2. i \in 0 .. Len(L[k]) /\ i # 0 /\ i <= Len(L[k])
      BY <3>1
    <3>3. Spot(L, M[k][i], k, i)
      BY <3>1, <3>2 DEF Spot, At
    <3> QED BY <2>1, <3>3
  <2>2. CASE k = h
    <3>1. M[k] = t /\ i \in 1 .. Len(s) + 1 /\ i \in Nat
      BY <1>M, <1>t, <2>2
    <3>2. CASE i <= p
      <4>1. i \in 0 .. Len(s) /\ i # 0 /\ i <= Len(s) /\ ~ (i > p + 1) /\ i # p + 1
        BY <1>c, <3>1, <3>2
      <4>2. t[i] = s[i]
        BY <1>t, <3>1, <3>2
      <4>3. Spot(L, M[k][i], k, i)
        BY <1>n, <2>2, <3>1, <4>1, <4>2 DEF Spot, At
      <4> QED BY <4>1, <4>3
    <3>3. CASE i = p + 1
      <4>1. ~ (i <= p)
        BY <1>c, <3>3
      <4> QED BY <1>t, <2>2, <3>1, <3>3, <4>1
    <3>4. CASE i > p + 1
      <4>1. i - 1 \in 0 .. Len(s) /\ i - 1 # 0 /\ i - 1 <= Len(s) /\ ~ (i <= p) /\ i # p + 1
        BY <1>c, <3>1, <3>4
      <4>2. t[i] = s[i - 1]
        BY <1>t, <3>1, <4>1
      <4>3. Spot(L, M[k][i], k, i - 1)
        BY <1>n, <2>2, <3>1, <4>1, <4>2 DEF Spot, At
      <4> QED BY <2>2, <3>4, <4>1, <4>3
    <3>5. i <= p \/ i = p + 1 \/ i > p + 1
      BY <1>c, <3>1
    <3> QED BY <3>2, <3>3, <3>4, <3>5
  <2> QED BY <2>1, <2>2
<1>12. Apart(M)
  <2>1. ASSUME NEW k \in AllHeads, NEW l \in AllHeads, NEW i \in 1 .. Len(M[k]),
               NEW j \in 1 .. Len(M[l]), M[k][i] = M[l][j]
        PROVE  k = l /\ i = j
    <3>1. i \in Nat /\ j \in Nat
      BY <1>M
    <3>2. CASE M[k][i] = new
      <4>1. \A q : ~ Spot(L, new, k, q)
        BY NoSpot
      <4>2. \A q : ~ Spot(L, new, l, q)
        BY NoSpot
      <4>3. k = h /\ i = p + 1
        BY <1>11, <3>2, <4>1
      <4>4. l = h /\ j = p + 1
        BY <1>11, <2>1, <3>2, <4>2
      <4> QED BY <4>3, <4>4
    <3>3. CASE M[k][i] # new
      <4>1. PICK a : Spot(L, M[k][i], k, a) /\ a = IF k = h /\ i > p + 1 THEN i - 1 ELSE i
        BY <1>11, <3>3
      <4>2. PICK b : Spot(L, M[l][j], l, b) /\ b = IF l = h /\ j > p + 1 THEN j - 1 ELSE j
        BY <1>11, <2>1, <3>3
      <4>3. k = l /\ a = b
        BY <2>1, <4>1, <4>2, OneSpot
      <4>4. ~ (k = h /\ i = p + 1) /\ ~ (l = h /\ j = p + 1)
        BY <1>11, <2>1, <3>3
      <4>5. a = (IF k = h /\ i > p + 1 THEN i - 1 ELSE i)
            /\ a = (IF k = h /\ j > p + 1 THEN j - 1 ELSE j)
        BY <4>1, <4>2, <4>3
      <4>6. ~ (k = h /\ i = p + 1) /\ ~ (k = h /\ j = p + 1) /\ p \in Nat
        BY <1>c, <4>3, <4>4
      <4>7. i = j
        BY <3>1, <4>5, <4>6
      <4> QED BY <4>3, <4>7
    <3> QED BY <3>2, <3>3
  <2> QED BY <2>1 DEF Apart
<1>13. \A n \in Node : On(M, n) \/ g2[n] = Detached
  <2>1. ASSUME NEW k \in AllHeads, NEW i \in 1 .. Len(L[k]) PROVE On(M, L[k][i])
    <3>1. CASE k # h
      BY <1>M, <3>1 DEF On
    <3>2. CASE k = h /\ i <= p
      <4>0. i \in 1 .. Len(s) + 1 /\ i \in 1 .. Len(t)
        BY <1>l, <3>2
      <4>1. i \in 1 .. Len(t) /\ t[i] = s[i]
        BY <1>t, <3>2, <4>0
      <4> QED BY <1>M, <3>2, <4>1 DEF On
    <3>3. CASE k = h /\ ~ (i <= p)
      <4>1. i + 1 \in 1 .. Len(s) + 1 /\ ~ (i + 1 <= p) /\ i + 1 # p + 1 /\ (i + 1) - 1 = i
        BY <1>c, <3>3
      <4>2. i + 1 \in 1 .. Len(t) /\ t[i + 1] = s[i]
        BY <1>t, <4>1
      <4> QED BY <1>M, <3>3, <4>2 DEF On
    <3> QED BY <3>1, <3>2, <3>3
  <2>2. On(M, new)
    <3>1. p + 1 \in 1 .. Len(s) + 1 /\ ~ (p + 1 <= p)
      BY <1>c
    <3>2. p + 1 \in 1 .. Len(t) /\ t[p + 1] = new
      BY <1>t, <3>1
    <3> QED BY <1>M, <1>n, <3>2 DEF On
  <2>3. ASSUME NEW n \in Node, ~ On(L, n), n # new PROVE g2[n] = Detached
    <3>1. n \in Thread /\ n \notin AllHeads /\ n # NULL /\ g[n] = Detached
      BY <1>g, <2>3, HeadsAreThreads
    <3>2. n # c
      <4>1. ~ Spot(L, n, h, p)
        BY <3>1, NoSpot
      <4> QED BY <4>1
    <3>3. n # r
      <4>1. CASE p + 1 <= Len(s)
        <5>1. p + 1 \in 1 .. Len(s) /\ r = s[p + 1]
          BY <1>c, <4>1 DEF At
        <5> QED BY <2>3, <5>1, <1>n DEF On
      <4>2. CASE ~ (p + 1 <= Len(s))
        BY <1>c, <3>1, <4>2 DEF At
      <4> QED BY <4>1, <4>2
    <3>4. g2[n].left = NULL /\ g2[n].right = NULL
      BY <1>2, <2>3, <3>1, <3>2, <3>3 DEF Detached
    <3>5. g2[n] = [left |-> g2[n].left, right |-> g2[n].right]
      BY <1>3, <3>1 DEF Pointers
    <3> QED BY <3>4, <3>5 DEF Detached
  <2>4. ASSUME NEW n \in Node, On(L, n) PROVE On(M, n)
    <3>1. PICK k \in AllHeads : \E i \in 1 .. Len(L[k]) : L[k][i] = n
      BY <2>4 DEF On
    <3> QED BY <2>1, <3>1
  <2> QED BY <2>2, <2>3, <2>4
<1> QED BY <1>3, <1>8, <1>9, <1>10, <1>12, <1>13, <1>M DEF OnLists

\* The p-th of a list is taken off it.
LEMMA RemoveOnLists ==
  ASSUME GlthreadAssumption, NEW g, NEW L, OnLists(g, L), NEW c, NEW h, NEW p, Spot(L, c, h, p),
         p # 0, NEW s, s = L[h], NEW t, IsDel(t, s, p, Node),
         NEW M, M = Put(L, h, t), NEW g2, g2 = RemoveThread(g, c)
  PROVE  OnLists(g2, M) /\ g2[c] = Detached
<1> DEFINE l == g[c].left
           r == g[c].right
<1>n. h \in AllHeads /\ AllHeads \subseteq Thread /\ NULL \notin Thread
  BY HeadsAreThreads DEF Spot
<1>g. /\ g \in Pointers /\ L \in [AllHeads -> Seq(Node)]
      /\ \A k \in AllHeads : g[k].left = NULL
      /\ Apart(L) /\ GoesOn(g, L) /\ GoesBack(g, L)
      /\ \A n \in Node : On(L, n) \/ g[n] = Detached
  BY DEF OnLists
<1>c. /\ s \in Seq(Node) /\ Len(s) \in Nat /\ p \in Nat /\ p <= Len(s) /\ c \in Thread
      /\ p \in 1 .. Len(s) /\ c = s[p] /\ c \in Node
      /\ r = At(s, h, p + 1)
  BY SpotIs
<1>d. l = At(s, h, p - 1)
  BY <1>c, <1>g, <1>n DEF GoesBack
<1>t. /\ t \in Seq(Node) /\ Len(t) = Len(s) - 1
      /\ \A i \in 1 .. Len(s) - 1 : t[i] = IF i < p THEN s[i] ELSE s[i + 1]
  BY DEF IsDel
<1>l. Len(s) \in Nat /\ Len(t) = Len(s) - 1 /\ p \in Nat /\ p <= Len(s) /\ p >= 1
  BY <1>c, <1>t
<1>M. M \in [AllHeads -> Seq(Node)] /\ M[h] = t /\ \A k \in AllHeads : k # h => M[k] = L[k]
  <2>1. t \in Seq(Node) /\ L \in [AllHeads -> Seq(Node)]
    BY <1>g, <1>t
  <2> QED BY <1>n, <2>1 DEF Put
<1>p. PICK q, o : q = p + 1 /\ o = p - 1
  OBVIOUS
<1>o. Spot(L, l, h, o)
  BY <1>d, <1>l, <1>n, <1>p DEF Spot
<1>e. l \in Thread /\ l # NULL
  BY <1>o, SpotIs
<1>2. \A x \in Thread : x # c =>
        /\ g2[x].left = IF x = r THEN l ELSE g[x].left
        /\ g2[x].right = IF x = l THEN r ELSE g[x].right
  BY DEF RemoveThread
<1>3. g2[c] = Detached
  BY <1>c DEF RemoveThread
<1>4. g2 \in Pointers
  <2>1. \A x \in Thread : g[x] \in [left : Thread \cup {NULL}, right : Thread \cup {NULL}]
    BY <1>g DEF Pointers
  <2>2. \A x \in Thread : g2[x] \in [left : Thread \cup {NULL}, right : Thread \cup {NULL}]
    BY <2>1, <1>c DEF RemoveThread, Detached
  <2> QED BY <2>2 DEF Pointers, RemoveThread
<1>5. ASSUME NEW x, NEW k, NEW i, Spot(L, x, k, i)
      PROVE  /\ x \in Thread
             /\ x = c <=> k = h /\ i = p
             /\ x = l <=> k = h /\ i = p - 1
             /\ x = r <=> k = h /\ i = p + 1
             /\ g[x].right = At(L[k], k, i + 1)
  <2>1. x \in Thread /\ x # NULL /\ k \in AllHeads /\ i \in Nat /\ i <= Len(L[k])
        /\ g[x].right = At(L[k], k, i + 1) /\ x = At(L[k], k, i)
    BY <1>5, SpotIs DEF Spot
  <2>2. x = c => k = h /\ i = p
    BY <1>5, OneSpot
  <2>3. k = h /\ i = p => x = c
    BY <1>5 DEF Spot
  <2>4. x = l => k = h /\ i = o
    BY <1>5, <1>o, OneSpot
  <2>5. k = h /\ i = p - 1 => x = l
    BY <1>d, <2>1
  <2>6. ASSUME x = r PROVE k = h /\ i = p + 1
    <3>1. r # NULL
      BY <2>1, <2>6
    <3>2. p + 1 <= Len(s) /\ p + 1 \in 0 .. Len(s)
      BY <1>c, <3>1 DEF At
    <3>3. Spot(L, x, h, q)
      BY <1>c, <1>n, <1>p, <2>6, <3>2 DEF Spot
    <3> QED BY <1>5, <1>p, <3>3, OneSpot
  <2>7. k = h /\ i = p + 1 => x = r
    BY <1>c, <2>1
  <2> QED BY <1>p, <2>1, <2>2, <2>3, <2>4, <2>5, <2>6, <2>7
<1> HIDE DEF l, r
<1>6. ASSUME NEW i \in 0 .. Len(s)
      PROVE  At(t, h, i) = IF i < p THEN At(s, h, i) ELSE At(s, h, i + 1)
  <2>1. i \in Nat /\ (i # 0 /\ i <= Len(s) - 1 => i \in 1 .. Len(s) - 1)
    BY <1>l
  <2>2. CASE i < p
    <3>1. i <= Len(s) - 1 /\ i <= Len(s)
      BY <1>l, <2>1, <2>2
    <3> QED BY <1>l, <1>t, <2>1, <2>2, <3>1 DEF At
  <2>3. CASE ~ (i < p)
    <3>1. i # 0 /\ i + 1 # 0 /\ (i <= Len(s) - 1 <=> i + 1 <= Len(s))
      BY <1>l, <2>1, <2>3
    <3> QED BY <1>l, <1>t, <2>1, <2>3, <3>1 DEF At
  <2> QED BY <2>2, <2>3
<1>7. ASSUME NEW k \in AllHeads, k # h, NEW i \in 0 .. Len(L[k])
      PROVE  /\ g2[At(L[k], k, i)].right = At(L[k], k, i + 1)
             /\ g2[At(L[k], k, i)].left = g[At(L[k], k, i)].left
  <2>1. PICK x : x = At(L[k], k, i)
    OBVIOUS
  <2>2. Spot(L, x, k, i)
    BY <2>1 DEF Spot
  <2>3. x \in Thread /\ x # l /\ x # c /\ x # r /\ g[x].right = At(L[k], k, i + 1)
    BY <1>5, <1>7, <2>2
  <2> QED BY <1>2, <2>1, <2>3
<1>8. ASSUME NEW i \in 0 .. Len(s), i # p
      PROVE  /\ i # p - 1 => g2[At(s, h, i)].right = At(s, h, i + 1)
             /\ i = p - 1 => g2[At(s, h, i)].right = r
             /\ i # p + 1 => g2[At(s, h, i)].left = g[At(s, h, i)].left
             /\ i = p + 1 => g2[At(s, h, i)].left = l
  <2>1. PICK x : x = At(s, h, i)
    OBVIOUS
  <2>2. Spot(L, x, h, i)
    BY <1>n, <2>1 DEF Spot
  <2>3. x \in Thread /\ x # c /\ (x = l <=> i = p - 1) /\ (x = r <=> i = p + 1)
        /\ g[x].right = At(s, h, i + 1)
    BY <1>5, <1>8, <2>2
  <2> QED BY <1>2, <2>1, <2>3
<1>9. GoesOn(g2, M)
  <2>1. ASSUME NEW k \in AllHeads, k # h, NEW i \in 0 .. Len(M[k])
        PROVE  g2[At(M[k], k, i)].right = At(M[k], k, i + 1)
    BY <1>7, <1>M, <2>1
  <2>2. ASSUME NEW i \in 0 .. Len(t) PROVE g2[At(t, h, i)].right = At(t, h, i + 1)
    <3>0. i \in 0 .. Len(s) - 1
      BY <1>l
    <3>1. i \in Nat /\ i \in 0 .. Len(s) /\ i + 1 \in 0 .. Len(s)
      BY <1>l, <3>0
    <3>2. CASE i + 1 < p
      <4>1. i < p /\ i # p /\ i # p - 1
        BY <1>l, <3>1, <3>2
      <4>2. At(t, h, i) = At(s, h, i) /\ At(t, h, i + 1) = At(s, h, i + 1)
        BY <1>6, <3>1, <3>2, <4>1
      <4> QED BY <1>8, <3>1, <4>1, <4>2
    <3>3. CASE i + 1 = p
      <4>1. i < p /\ ~ (i + 1 < p) /\ i # p /\ i = p - 1 /\ (i + 1) + 1 = p + 1
        BY <1>l, <3>1, <3>3
      <4>2. At(t, h, i) = At(s, h, i) /\ At(t, h, i + 1) = At(s, h, p + 1)
        BY <1>6, <3>1, <4>1
      <4> QED BY <1>8, <1>c, <3>1, <4>1, <4>2
    <3>4. CASE i + 1 > p
      <4>1. ~ (i < p) /\ ~ (i + 1 < p) /\ i + 1 # p /\ i + 1 # p - 1
        BY <1>l, <3>1, <3>4
      <4>2. At(t, h, i) = At(s, h, i + 1) /\ At(t, h, i + 1) = At(s, h, (i + 1) + 1)
        BY <1>6, <3>1, <4>1
      <4> QED BY <1>8, <3>1, <4>1, <4>2
    <3>5. i + 1 < p \/ i + 1 = p \/ i + 1 > p
      BY <1>l, <3>1
    <3> QED BY <3>2, <3>3, <3>4, <3>5
  <2> QED BY <1>M, <2>1, <2>2 DEF GoesOn
<1>10. GoesBack(g2, M)
  <2>1. ASSUME NEW k \in AllHeads, k # h, NEW i \in 1 .. Len(M[k])
        PROVE  g2[M[k][i]].left = At(M[k], k, i - 1)
    <3>1. M[k] = L[k] /\ Len(L[k]) \in Nat
      BY <1>M, <1>g, <2>1
    <3>2. i \in 0 .. Len(L[k]) /\ i # 0 /\ i <= Len(L[k]) /\ i \in 1 .. Len(L[k])
      BY <3>1
    <3>3. At(L[k], k, i) = L[k][i]
      BY <3>2 DEF At
    <3>4. g2[At(L[k], k, i)].left = g[At(L[k], k, i)].left
      BY <1>7, <2>1, <3>2
    <3>5. g[L[k][i]].left = At(L[k], k, i - 1)
      BY <1>g, <3>2 DEF GoesBack
    <3> QED BY <3>1, <3>3, <3>4, <3>5
  <2>2. ASSUME NEW i \in 1 .. Len(t) PROVE g2[t[i]].left = At(t, h, i - 1)
    <3>0. i \in 1 .. Len(s) - 1 /\ i \in Nat /\ i <= Len(t)
      BY <1>l
    <3>1. /\ i # 0 /\ i \in 0 .. Len(s) /\ i - 1 \in 0 .. Len(s) /\ i + 1 \in 0 .. Len(s)
          /\ i \in 1 .. Len(s) /\ i + 1 \in 1 .. Len(s) /\ (i - 1) + 1 = i /\ (i + 1) - 1 = i
      BY <1>l, <3>0
    <3>2. t[i] = At(t, h, i)
      BY <3>0, <3>1 DEF At
    <3>3. ASSUME NEW j \in 1 .. Len(s) PROVE g[At(s, h, j)].left = At(s, h, j - 1)
      <4>1. j # 0 /\ j <= Len(s)
        BY <1>l
      <4>2. At(s, h, j) = s[j]
        BY <4>1 DEF At
      <4> QED BY <1>g, <1>n, <4>2 DEF GoesBack
    <3>4. CASE i < p
      <4>1. i # p /\ i # p + 1 /\ i - 1 < p
        BY <1>l, <3>0, <3>4
      <4>2. At(t, h, i) = At(s, h, i) /\ At(t, h, i - 1) = At(s, h, i - 1)
        BY <1>6, <3>1, <3>4, <4>1
      <4>3. g2[At(s, h, i)].left = g[At(s, h, i)].left /\ g[At(s, h, i)].left = At(s, h, i - 1)
        BY <1>8, <3>1, <3>3, <4>1
      <4> QED BY <3>2, <4>2, <4>3
    <3>5. CASE i = p
      <4>1. ~ (i < p) /\ i - 1 < p /\ i + 1 # p /\ i + 1 = p + 1 /\ i - 1 = p - 1
        BY <1>l, <3>0, <3>5
      <4>2. At(t, h, i) = At(s, h, i + 1) /\ At(t, h, i - 1) = At(s, h, i - 1)
        BY <1>6, <3>1, <4>1
      <4>3. g2[At(s, h, i + 1)].left = l /\ l = At(s, h, i - 1)
        BY <1>8, <1>d, <3>1, <4>1
      <4> QED BY <3>2, <4>2, <4>3
    <3>6. CASE i > p
      <4>1. ~ (i < p) /\ ~ (i - 1 < p) /\ i + 1 # p /\ i + 1 # p + 1
        BY <1>l, <3>0, <3>6
      <4>2. At(t, h, i) = At(s, h, i + 1) /\ At(t, h, i - 1) = At(s, h, i)
        BY <1>6, <3>1, <4>1
      <4>3. /\ g2[At(s, h, i + 1)].left = g[At(s, h, i + 1)].left
            /\ g[At(s, h, i + 1)].left = At(s, h, i)
        BY <1>8, <3>1, <3>3, <4>1
      <4> QED BY <3>2, <4>2, <4>3
    <3>7. i < p \/ i = p \/ i > p
      BY <1>l, <3>0
    <3> QED BY <3>4, <3>5, <3>6, <3>7
  <2> QED BY <1>M, <2>1, <2>2 DEF GoesBack
<1>11. \A k \in AllHeads : g2[k].left = NULL
  <2>1. ASSUME NEW k \in AllHeads PROVE g2[k].left = NULL
    <3>1. PICK i : i = 0
      OBVIOUS
    <3>2. Len(L[k]) \in Nat
      BY <1>g
    <3>3. Spot(L, k, k, i)
      BY <3>1, <3>2 DEF Spot, At
    <3>4. k \in Thread /\ (k = c => i = p) /\ (k = r => i = p + 1)
      BY <1>5, <3>3
    <3>5. k # r /\ k # c
      BY <1>l, <3>1, <3>4
    <3> QED BY <1>2, <1>g, <3>4, <3>5
  <2> QED BY <2>1
<1>12. ASSUME NEW k \in AllHeads, NEW i \in 1 .. Len(M[k])
       PROVE  \E j : Spot(L, M[k][i], k, j) /\ j = IF k = h /\ ~ (i < p) THEN i + 1 ELSE i
  <2>1. CASE k # h
    <3>1. M[k] = L[k] /\ Len(L[k]) \in Nat
      BY <1>M, <1>g, <2>1
    <3>2. i \in 0 .. Len(L[k]) /\ i # 0 /\ i <= Len(L[k])
      BY <3>1
    <3>3. Spot(L, M[k][i], k, i)
      BY <3>1, <3>2 DEF Spot, At
    <3> QED BY <2>1, <3>3
  <2>2. CASE k = h
    <3>1. M[k] = t /\ i \in 1 .. Len(s) - 1 /\ i \in Nat
      BY <1>M, <1>l, <2>2
    <3>2. CASE i < p
      <4>1. i \in 0 .. Len(s) /\ i # 0 /\ i <= Len(s)
        BY <1>l, <3>1, <3>2
      <4>2. t[i] = s[i]
        BY <1>t, <3>1, <3>2
      <4>3. Spot(L, M[k][i], k, i)
        BY <1>n, <2>2, <3>1, <4>1, <4>2 DEF Spot, At
      <4> QED BY <3>2, <4>3
    <3>3. CASE ~ (i < p)
      <4>1. i + 1 \in 0 .. Len(s) /\ i + 1 # 0 /\ i + 1 <= Len(s)
        BY <1>l, <3>1, <3>3
      <4>2. t[i] = s[i + 1]
        BY <1>t, <3>1, <3>3
      <4>3. Spot(L, M[k][i], k, i + 1)
        BY <1>n, <2>2, <3>1, <4>1, <4>2 DEF Spot, At
      <4> QED BY <2>2, <3>3, <4>3
    <3> QED BY <3>2, <3>3
  <2> QED BY <2>1, <2>2
<1>13. Apart(M)
  <2>1. ASSUME NEW k \in AllHeads, NEW m \in AllHeads, NEW i \in 1 .. Len(M[k]),
               NEW j \in 1 .. Len(M[m]), M[k][i] = M[m][j]
        PROVE  k = m /\ i = j
    <3>1. i \in Nat /\ j \in Nat
      BY <1>M
    <3>2. PICK a : Spot(L, M[k][i], k, a) /\ a = IF k = h /\ ~ (i < p) THEN i + 1 ELSE i
      BY <1>12
    <3>3. PICK b : Spot(L, M[m][j], m, b) /\ b = IF m = h /\ ~ (j < p) THEN j + 1 ELSE j
      BY <1>12
    <3>4. k = m /\ a = b
      BY <2>1, <3>2, <3>3, OneSpot
    <3>5. a = (IF k = h /\ ~ (i < p) THEN i + 1 ELSE i)
          /\ a = (IF k = h /\ ~ (j < p) THEN j + 1 ELSE j)
      BY <3>2, <3>3, <3>4
    <3>6. p \in Nat
      BY <1>l
    <3>7. i = j
      BY <3>1, <3>5, <3>6
    <3> QED BY <3>4, <3>7
  <2> QED BY <2>1 DEF Apart
<1>14. \A n \in Node : On(M, n) \/ g2[n] = Detached
  <2>1. ASSUME NEW k \in AllHeads, NEW i \in 1 .. Len(L[k]), L[k][i] # c PROVE On(M, L[k][i])
    <3>1. CASE k # h
      BY <1>M, <3>1 DEF On
    <3>2. CASE k = h /\ i < p
      <4>0. i \in 1 .. Len(s) - 1 /\ i \in 1 .. Len(t)
        BY <1>l, <3>2
      <4>1. i \in 1 .. Len(t) /\ t[i] = s[i]
        BY <1>t, <3>2, <4>0
      <4> QED BY <1>M, <3>2, <4>1 DEF On
    <3>3. CASE k = h /\ ~ (i < p)
      <4>1. i # p
        BY <1>c, <2>1, <3>3
      <4>2. i - 1 \in 1 .. Len(s) - 1 /\ ~ (i - 1 < p) /\ (i - 1) + 1 = i
        BY <1>l, <3>3, <4>1
      <4>3. i - 1 \in 1 .. Len(t) /\ t[i - 1] = s[i]
        BY <1>t, <4>2
      <4> QED BY <1>M, <3>3, <4>3 DEF On
    <3> QED BY <3>1, <3>2, <3>3
  <2>2. ASSUME NEW n \in Node, On(L, n), n # c PROVE On(M, n)
    <3>1. PICK k \in AllHeads : \E i \in 1 .. Len(L[k]) : L[k][i] = n
      BY <2>2 DEF On
    <3> QED BY <2>1, <2>2, <3>1
  <2>3. ASSUME NEW n \in Node, ~ On(L, n), n # c PROVE g2[n] = Detached
    <3>1. n \in Thread /\ n \notin AllHeads /\ n # NULL /\ g[n] = Detached
      BY <1>g, <2>3, HeadsAreThreads
    <3>2. n # l
      BY <3>1, <1>o, NoSpot
    <3>3. n # r
      <4>1. CASE p + 1 <= Len(s)
        <5>1. p + 1 \in 1 .. Len(s) /\ r = s[p + 1]
          BY <1>c, <4>1 DEF At
        <5> QED BY <2>3, <5>1, <1>n DEF On
      <4>2. CASE ~ (p + 1 <= Len(s))
        BY <1>c, <3>1, <4>2 DEF At
      <4> QED BY <4>1, <4>2
    <3>4. g2[n].left = NULL /\ g2[n].right = NULL
      BY <1>2, <2>3, <3>1, <3>2, <3>3 DEF Detached
    <3>5. g2[n] = [left |-> g2[n].left, right |-> g2[n].right]
      BY <1>4, <3>1 DEF Pointers
    <3> QED BY <3>4, <3>5 DEF Detached
  <2> QED BY <1>3, <2>2, <2>3
<1> QED BY <1>3, <1>4, <1>9, <1>10, <1>11, <1>13, <1>14, <1>M DEF OnLists

\* In front of the p-th is behind the one before it.
LEMMA AddBeforeIs ==
  ASSUME GlthreadAssumption, NEW g, NEW L, OnLists(g, L), NEW c, NEW h, NEW p, Spot(L, c, h, p),
         p # 0, NEW new \in Node
  PROVE  /\ Spot(L, g[c].left, h, p - 1)
         /\ AddBefore(g, c, new) = AddNext(g, g[c].left, new)
<1>1. /\ L[h] \in Seq(Node) /\ Len(L[h]) \in Nat /\ p \in Nat /\ p <= Len(L[h])
      /\ p \in 1 .. Len(L[h]) /\ c = L[h][p] /\ h \in AllHeads /\ c # NULL
  BY SpotIs DEF Spot
<1>2. PICK l, o : l = g[c].left /\ o = p - 1
  OBVIOUS
<1>3. l = At(L[h], h, o)
  BY <1>1, <1>2 DEF OnLists, GoesBack
<1>4. o \in 0 .. Len(L[h]) /\ o + 1 = p
  BY <1>1, <1>2
<1>5. Spot(L, l, h, o)
  BY <1>1, <1>3, <1>4 DEF Spot
<1>6. g[l].right = c
  <2>1. g[l].right = At(L[h], h, o + 1)
    BY <1>5, SpotIs
  <2> QED BY <1>1, <1>4, <2>1 DEF Spot
<1>7. AddBefore(g, c, new) = AddNext(g, l, new)
  BY <1>1, <1>2, <1>6 DEF AddBefore, AddNext
<1> QED BY <1>2, <1>5, <1>7

LEMMA RemoveDetached ==
  ASSUME GlthreadAssumption, NEW g \in Pointers, NEW c \in Node, g[c] = Detached
  PROVE  RemoveThread(g, c) = g
<1>1. g[c].left = NULL /\ g[c].right = NULL
  BY DEF Detached
<1>2. \A t \in Thread : g[t] = [left |-> g[t].left, right |-> g[t].right]
  BY DEF Pointers
<1>3. \A t \in Thread : t # NULL
  BY HeadsAreThreads
<1>4. \A t \in Thread : RemoveThread(g, c)[t] = g[t]
  BY <1>1, <1>2, <1>3 DEF RemoveThread
<1>5. RemoveThread(g, c) = [t \in Thread |-> RemoveThread(g, c)[t]]
  BY DEF RemoveThread
<1>6. g = [t \in Thread |-> g[t]]
  BY DEF Pointers
<1> QED BY <1>4, <1>5, <1>6

\* From the p-th of the list k to the front of the list h.
LEMMA MovedOnLists ==
  ASSUME GlthreadAssumption, NEW g, NEW L, OnLists(g, L), NEW c, NEW k, NEW p, Spot(L, c, k, p),
         ~ Zero(p), NEW h \in AllHeads, h # k, NEW s, s = L[k], NEW t, IsDel(t, s, p, Node),
         NEW u, u = L[h], NEW z, Zero(z), NEW v, IsIns(v, u, z, c, Node),
         NEW M, M = Put(L, k, t), NEW N, N = Put(M, h, v), NEW g2, g2 = Moved(g, c, h)
  PROVE  OnLists(g2, N)
<1>1. PICK f : f = RemoveThread(g, c)
  OBVIOUS
<1>2. OnLists(f, M) /\ f[c] = Detached
  BY <1>1, RemoveOnLists DEF Zero
<1>3. c \in Node /\ k \in AllHeads
  BY SpotIs DEF Spot, Zero
<1>4. M[h] = u /\ Len(M[h]) \in Nat
  BY <1>2 DEF Put, OnLists
<1>5. Spot(M, h, h, z)
  BY <1>4 DEF Spot, At, Zero
<1>6. g2 = AddNext(f, h, c)
  BY <1>1 DEF Moved
<1> QED BY <1>2, <1>3, <1>4, <1>5, <1>6, AddNextOnLists

-----------------------------------------------------------------------------
(* What a walk along the pointers reads.                                   *)

IsWalk(f, g, h) ==
  f = [k \in 1 .. Cardinality(Node) + 1 |->
         IF k = 1 THEN g[h].right ELSE IF f[k - 1] = NULL THEN NULL ELSE g[f[k - 1]].right]

LEMMA WalkExists ==
  ASSUME NEW g, NEW h, NEW f, IsWalk(f, g, h) PROVE IsWalk(Walk(g, h), g, h)
BY Zenon DEF Walk, IsWalk

Less == {ss \in Nat \X Nat : ss[1] < ss[2]}

LEMMA LeastNat == ASSUME NEW T \in SUBSET Nat, T # {} PROVE \E m \in T : \A n \in T : m <= n
<1>1. IsWellFoundedOn(Less, Nat)
  BY NatLessThanWellFounded DEF OpToRel, Less
<1>2. PICK m \in T : \A n \in T : ~ (<<n, m>> \in Less)
  BY <1>1, WFMin
<1>3. ASSUME NEW n \in T PROVE m <= n
  <2>1. n < m => <<n, m>> \in Less
    BY DEF Less
  <2> QED
    BY <1>2, <2>1
<1> QED
  BY <1>3

LEMMA WalkUnique ==
  ASSUME Cardinality(Node) \in Nat, NEW g, NEW h, NEW f, NEW e, IsWalk(f, g, h), IsWalk(e, g, h)
  PROVE  f = e
<1> DEFINE D == 1 .. Cardinality(Node) + 1
           differ == {k \in D : f[k] # e[k]}
<1>1. ASSUME NEW m \in differ, \A n \in differ : m <= n PROVE FALSE
  <2>1. m # 1
    BY <1>1 DEF IsWalk
  <2>2. m - 1 \in D /\ m - 1 \notin differ
    BY <1>1, <2>1
  <2>3. /\ f[m] = (IF f[m - 1] = NULL THEN NULL ELSE g[f[m - 1]].right)
        /\ e[m] = (IF e[m - 1] = NULL THEN NULL ELSE g[e[m - 1]].right)
    BY <1>1, <2>1 DEF IsWalk
  <2> QED
    BY <1>1, <2>2, <2>3
<1>2. differ \in SUBSET Nat
  OBVIOUS
<1>3. differ = {}
  <2> HIDE DEF differ
  <2> QED
    BY <1>1, <1>2, LeastNat
<1>4. f = [k \in D |-> f[k]] /\ e = [k \in D |-> e[k]]
  BY DEF IsWalk
<1>5. \A k \in D : f[k] = e[k]
  BY <1>3
<1> QED
  BY <1>4, <1>5

\* A list is no longer than there are nodes.
LEMMA NodesAreFinite ==
  ASSUME GlthreadAssumption PROVE IsFiniteSet(Node) /\ Cardinality(Node) \in Nat
BY FS_CardinalityType DEF GlthreadAssumption

LEMMA ListFits ==
  ASSUME GlthreadAssumption, NEW s \in Seq(Node),
         \A i, j \in 1 .. Len(s) : s[i] = s[j] => i = j
  PROVE  Len(s) \in Nat /\ Len(s) <= Cardinality(Node)
<1>1. PICK n, R : n = Len(s) /\ R = {s[i] : i \in 1 .. n}
  OBVIOUS
<1>2. n \in Nat /\ s \in [1 .. n -> Node]
  BY <1>1
<1>3. R \in SUBSET Node /\ s \in [1 .. n -> R] /\ \A c \in R : \E i \in 1 .. n : s[i] = c
  BY <1>1, <1>2
<1>4. IsFiniteSet(R) /\ Cardinality(R) <= Cardinality(Node)
  BY <1>3, NodesAreFinite, FS_Subset
<1>5. IsFiniteSet(1 .. n) /\ Cardinality(1 .. n) = n
  BY <1>2, FS_Interval
<1>6. s \in Bijection(1 .. n, R)
  BY <1>1, <1>3 DEF Bijection, Injection, Surjection, IsInjective
<1>7. ExistsBijection(1 .. n, R)
  BY <1>6 DEF ExistsBijection
<1> QED
  BY <1>1, <1>2, <1>4, <1>5, <1>7, FS_Bijection

\* The walk reads the list.
LEMMA FollowIs ==
  ASSUME GlthreadAssumption, NEW g, NEW L, OnLists(g, L), NEW h \in AllHeads, NEW s, s = L[h]
  PROVE  Follow(g, h) = s
<1> DEFINE D == 1 .. Cardinality(Node) + 1
           f == [k \in D |-> IF k <= Len(s) THEN s[k] ELSE NULL]
<1>1. s \in Seq(Node) /\ Len(s) \in Nat /\ \A i, j \in 1 .. Len(s) : s[i] = s[j] => i = j
  BY DEF OnLists, Apart
<1>2. Len(s) <= Cardinality(Node) /\ Cardinality(Node) \in Nat
  BY <1>1, ListFits, NodesAreFinite
<1>3. \A k \in 1 .. Len(s) : s[k] \in Node /\ s[k] # NULL
  BY <1>1, HeadsAreThreads
<1>4. \A k \in D : f[k] = At(s, h, k)
  BY <1>2 DEF At
<1>5. ASSUME NEW k \in D
      PROVE  f[k] = IF k = 1 THEN g[h].right ELSE IF f[k - 1] = NULL THEN NULL ELSE g[f[k - 1]].right
  <2>1. ASSUME NEW i \in 0 .. Len(s) PROVE g[At(s, h, i)].right = At(s, h, i + 1)
    BY DEF OnLists, GoesOn
  <2>2. CASE k = 1
    <3>1. 0 \in 0 .. Len(s) /\ At(s, h, 0) = h /\ 0 + 1 = 1
      BY <1>1 DEF At
    <3>2. g[h].right = At(s, h, 1)
      BY <2>1, <3>1
    <3> QED BY <1>4, <2>2, <3>2
  <2>3. CASE k # 1
    <3>1. k - 1 \in D /\ k - 1 \in Nat /\ (k - 1) + 1 = k /\ k \in Nat /\ k - 1 # 0
      BY <1>2, <2>3
    <3>2. f[k] = At(s, h, k) /\ f[k - 1] = At(s, h, k - 1)
      BY <1>4, <3>1
    <3>3. CASE k - 1 <= Len(s)
      <4>1. k - 1 \in 1 .. Len(s) /\ k - 1 \in 0 .. Len(s)
        BY <1>1, <3>1, <3>3
      <4>2. At(s, h, k - 1) # NULL
        BY <1>3, <3>1, <3>3, <4>1 DEF At
      <4>3. g[At(s, h, k - 1)].right = At(s, h, k)
        BY <2>1, <3>1, <4>1
      <4> QED BY <2>3, <3>2, <4>2, <4>3
    <3>4. CASE ~ (k - 1 <= Len(s))
      <4>1. At(s, h, k - 1) = NULL
        BY <3>1, <3>4 DEF At
      <4>2. k # 0 /\ ~ (k <= Len(s))
        BY <1>1, <3>1, <3>4
      <4>3. At(s, h, k) = NULL
        BY <4>2 DEF At
      <4> QED BY <2>3, <3>2, <4>1, <4>3
    <3> QED BY <3>3, <3>4
  <2> QED BY <2>2, <2>3
<1>6. IsWalk(f, g, h)
  BY <1>5 DEF IsWalk
<1>7. DOMAIN f = D /\ \A k \in D : f[k] = IF k <= Len(s) THEN s[k] ELSE NULL
  OBVIOUS
<1> HIDE DEF f
<1>8. Walk(g, h) = f
  BY <1>2, <1>6, WalkExists, WalkUnique
<1>9. {k \in DOMAIN f : f[k] # NULL} = 1 .. Len(s)
  BY <1>1, <1>2, <1>3, <1>7
<1>10. Cardinality(1 .. Len(s)) = Len(s)
  BY <1>1, FS_Interval
<1>11. Follow(g, h) = [k \in 1 .. Len(s) |-> f[k]]
  BY <1>8, <1>9, <1>10 DEF Follow
<1>12. \A k \in 1 .. Len(s) : f[k] = s[k]
  BY <1>1, <1>2, <1>7
<1>13. s = [k \in 1 .. Len(s) |-> s[k]]
  BY <1>1
<1> QED BY <1>11, <1>12, <1>13

-----------------------------------------------------------------------------
(* What is kept of the first nodes of a list.                              *)

KeepsTo(f, s, keep, n) ==
  f = [i \in 0 .. n |-> IF i = 0 THEN << >>
                        ELSE IF s[i] \in keep THEN Append(f[i - 1], s[i]) ELSE f[i - 1]]

LEMMA KeptIfAny ==
  ASSUME NEW s, NEW keep, NEW f, KeepsTo(f, s, keep, Len(s))
  PROVE  KeepsTo(Promise!Kept(s, keep), s, keep, Len(s))
BY Zenon DEF Promise!Kept, KeepsTo

LEMMA KeepsFurther ==
  ASSUME NEW s, NEW keep, NEW n \in Nat, NEW f, KeepsTo(f, s, keep, n), NEW m, m = n + 1
  PROVE  \E e : KeepsTo(e, s, keep, m)
<1>1. PICK x : x = IF s[m] \in keep THEN Append(f[n], s[m]) ELSE f[n]
  OBVIOUS
<1>2. PICK e : e = [i \in 0 .. m |-> IF i = m THEN x ELSE f[i]]
  OBVIOUS
<1>3. DOMAIN f = 0 .. n
      /\ \A i \in 0 .. n : f[i] = IF i = 0 THEN << >>
                             ELSE IF s[i] \in keep THEN Append(f[i - 1], s[i]) ELSE f[i - 1]
  BY DEF KeepsTo
<1>4. ASSUME NEW i \in 0 .. m
      PROVE  e[i] = IF i = 0 THEN << >>
                    ELSE IF s[i] \in keep THEN Append(e[i - 1], s[i]) ELSE e[i - 1]
  <2>1. CASE i = m
    <3>1. i # 0 /\ i - 1 = n /\ n \in 0 .. m /\ n # m
      BY <2>1
    <3>2. e[i] = x /\ e[i - 1] = f[n]
      BY <1>2, <2>1, <3>1
    <3> QED BY <1>1, <2>1, <3>1, <3>2
  <2>2. CASE i # m
    <3>1. i \in 0 .. n /\ i \in Nat
      BY <2>2
    <3>2. e[i] = f[i]
      BY <1>2, <2>2
    <3>3. CASE i = 0
      BY <1>3, <3>1, <3>2, <3>3
    <3>4. CASE i # 0
      <4>1. i - 1 \in 0 .. m /\ i - 1 # m
        BY <3>1, <3>4
      <4>2. e[i - 1] = f[i - 1]
        BY <1>2, <4>1
      <4> QED BY <1>3, <3>1, <3>2, <3>4, <4>2
    <3> QED BY <3>3, <3>4
  <2> QED BY <2>1, <2>2
<1>5. e = [i \in 0 .. m |-> e[i]]
  BY <1>2
<1>6. KeepsTo(e, s, keep, m)
  BY <1>4, <1>5 DEF KeepsTo
<1> QED BY <1>6

LEMMA SomeKeeps == ASSUME NEW s, NEW keep, NEW n \in Nat PROVE \E f : KeepsTo(f, s, keep, n)
<1> DEFINE T == {m \in Nat : ~ \E f : KeepsTo(f, s, keep, m)}
<1>1. ASSUME NEW m \in T, \A j \in T : m <= j PROVE FALSE
  <2>1. m \in Nat /\ ~ \E f : KeepsTo(f, s, keep, m)
    OBVIOUS
  <2>2. CASE m = 0
    <3>1. PICK f : f = [i \in 0 .. 0 |-> << >>]
      OBVIOUS
    <3>2. \A i \in 0 .. 0 : i = 0
      OBVIOUS
    <3>3. f = [i \in 0 .. m |-> IF i = 0 THEN << >>
                  ELSE IF s[i] \in keep THEN Append(f[i - 1], s[i]) ELSE f[i - 1]]
      BY <2>2, <3>1, <3>2
    <3>4. KeepsTo(f, s, keep, m)
      BY <3>3 DEF KeepsTo
    <3> QED BY <2>1, <3>4
  <2>3. CASE m # 0
    <3>1. PICK j : j = m - 1
      OBVIOUS
    <3>2. j \in Nat /\ ~ (m <= j) /\ m = j + 1
      BY <2>1, <2>3, <3>1
    <3>3. j \notin T
      BY <1>1, <3>2
    <3>4. PICK f : KeepsTo(f, s, keep, j)
      BY <3>2, <3>3
    <3>5. \E e : KeepsTo(e, s, keep, m)
      BY <3>2, <3>4, KeepsFurther
    <3> QED BY <2>1, <3>5
  <2> QED BY <2>2, <2>3
<1>2. T \in SUBSET Nat
  OBVIOUS
<1>3. T = {}
  <2> HIDE DEF T
  <2> QED BY <1>1, <1>2, LeastNat
<1> QED BY <1>3

\* None of none; and the next one, when it is to be kept.
LEMMA KeptIs ==
  ASSUME NEW s \in Seq(Node), NEW keep, NEW f, f = Promise!Kept(s, keep)
  PROVE  /\ f[0] = << >>
         /\ \A i \in 0 .. Len(s) - 1 :
               f[i + 1] = IF s[i + 1] \in keep THEN Append(f[i], s[i + 1]) ELSE f[i]
<1>1. PICK n : n = Len(s)
  OBVIOUS
<1>2. n \in Nat
  BY <1>1
<1>3. \E e : KeepsTo(e, s, keep, n)
  BY <1>2, SomeKeeps
<1>4. KeepsTo(f, s, keep, n)
  BY <1>1, <1>3, KeptIfAny
<1>5. \A i \in 0 .. n : f[i] = IF i = 0 THEN << >>
                          ELSE IF s[i] \in keep THEN Append(f[i - 1], s[i]) ELSE f[i - 1]
  BY <1>4 DEF KeepsTo
<1>6. f[0] = << >>
  BY <1>2, <1>5
<1>7. ASSUME NEW i \in 0 .. n - 1
      PROVE  f[i + 1] = IF s[i + 1] \in keep THEN Append(f[i], s[i + 1]) ELSE f[i]
  <2>1. i + 1 \in 0 .. n /\ i + 1 # 0 /\ (i + 1) - 1 = i
    BY <1>2
  <2> QED BY <1>5, <2>1
<1> QED BY <1>1, <1>6, <1>7

-----------------------------------------------------------------------------
(* The invariant of the refinement: between two calls the pointers hold    *)
(* lists, of which the one on the stack is empty; and while a call is under *)
(* way they held lists when it was made, of which the walk has made, up to *)
(* where it stands, what is said here.                                     *)

Same(L, L0, h) == \A k \in Heads : k # h => L[k] = L0[k]
Shown(L) == [h \in Heads |-> L[h]]

\* What the call was made with.
Given(L0) ==
  \/ /\ call.op \in {"add_next", "add_last", "priority_insert"} /\ call.at \in Heads
     /\ call.node \in Node /\ before[call.node] = Detached
  \/ /\ call.op = "add_before" /\ call.at \in Node /\ On(L0, call.at)
     /\ call.node \in Node /\ before[call.node] = Detached
  \/ call.op = "remove" /\ call.at \in Node
  \/ call.op \in {"dequeue", "delete", "count", "get_last", "collect"} /\ call.at \in Heads
  \/ call.op = "exact" /\ call.at \in Heads /\ \E n : call.keep = {n}

\* Nothing has been done.
StraightAt(L0) ==
  /\ call.op \in {"add_next", "add_before", "remove", "dequeue"} /\ glue = before
  /\ call.op = "dequeue" => curr = At(L0[call.at], call.at, 1)
\* p nodes have been walked over, and none of them weighs more.
EndAt(s, p) ==
  /\ call.op \in {"add_last", "count", "get_last", "priority_insert"} /\ glue = before
  /\ p \in 0 .. Len(s) /\ curr = At(s, call.at, p + 1)
  /\ prev = IF p = 0 THEN NULL ELSE s[p]
  /\ call.op # "priority_insert" => count = p
  /\ call.op = "priority_insert" => \A i \in 1 .. p : ~ComesBefore(call.node, s[i])
\* p nodes have been taken off.
DeleteAt(s, L, p, k) ==
  /\ call.op = "delete" /\ Len(L[temp_list]) = 0
  /\ p \in 0 .. Len(s) /\ curr = At(s, call.at, p + 1)
  /\ k \in Seq(Node) /\ Len(k) = 0 /\ L[call.at] = Joined(k, s, p)
\* Of p nodes k is kept; when that is none, the others are in reverse on temp_list.
SelectAt(s, L, p, k) ==
  /\ call.op \in {"collect", "exact"} /\ phase = "walk"
  /\ p \in 0 .. Len(s) /\ curr = At(s, call.at, p + 1)
  /\ k = Promise!Kept(s, call.keep)[p] /\ k \in Seq(Node) /\ count = Len(k)
  /\ L[call.at] = Joined(k, s, p)
  /\ count = 0 => L[temp_list] = Back(s, p)
  /\ call.op = "exact" => count = 0 \/ (count = 1 /\ \E i \in 1 .. p : s[i] \in call.keep)
\* The walk is over, and temp_list is emptied.
DrainAt(s, L, k) ==
  /\ call.op \in {"collect", "exact"} /\ phase = "drain" /\ ~Restores
  /\ k = Promise!Kept(s, call.keep)[Len(s)] /\ k \in Seq(Node) /\ count = Len(k)
  /\ L[call.at] = k
\* Nothing was kept, and p nodes are still to be put back.
RestoreAt(s, L, p, k) ==
  /\ call.op \in {"collect", "exact"} /\ phase = "restore"
  /\ k = Promise!Kept(s, call.keep)[Len(s)] /\ k \in Seq(Node) /\ Len(k) = 0 /\ count = 0
  /\ p \in 0 .. Len(s) /\ L[call.at] = Joined(k, s, p) /\ L[temp_list] = Back(s, p)

Changing(s, L) ==
  \E p, k : DeleteAt(s, L, p, k) \/ SelectAt(s, L, p, k) \/ DrainAt(s, L, k) \/ RestoreAt(s, L, p, k)
Began(L0) ==
  call # NoCall /\ OnLists(before, L0) /\ Len(L0[temp_list]) = 0 /\ Given(L0)

Idle == call = NoCall /\ \E L : OnLists(glue, L) /\ Len(L[temp_list]) = 0
Busy ==
  \E L0 : /\ Began(L0)
          /\ \/ StraightAt(L0)
             \/ \E p : EndAt(L0[call.at], p)
             \/ \E L : OnLists(glue, L) /\ Same(L, L0, call.at) /\ Changing(L0[call.at], L)
Impl == Idle \/ Busy

LEMMA NoCallIs ==
  NoCall = Promise!NoCall /\ NoCall.op = "none" /\ NoCall' = NoCall
BY DEF NoCall, Promise!NoCall, Promise!Call

LEMMA GivenIsACall ==
  ASSUME NEW L0, Given(L0) PROVE call.op # "none"
BY DEF Given

\* What those who call are shown of the lists.
LEMMA ShownIdle ==
  ASSUME GlthreadAssumption, call.op = "none", NEW L, OnLists(glue, L) PROVE ListsNow = Shown(L)
<1>1. \A h \in Heads : Follow(glue, h) = L[h]
  BY FollowIs, HeadsAreThreads
<1> QED BY <1>1 DEF ListsNow, Shown

LEMMA ShownBusy ==
  ASSUME GlthreadAssumption, call.op # "none", NEW L, OnLists(before, L) PROVE ListsNow = Shown(L)
<1>1. \A h \in Heads : Follow(before, h) = L[h]
  BY FollowIs, HeadsAreThreads
<1> QED BY <1>1 DEF ListsNow, Shown

LEMMA ShownIdleNext ==
  ASSUME GlthreadAssumption, call'.op = "none", NEW L, OnLists(glue', L) PROVE ListsNow' = Shown(L)
<1>1. \A h \in Heads : Follow(glue', h) = L[h]
  BY FollowIs, HeadsAreThreads
<1> QED BY <1>1 DEF ListsNow, Shown

LEMMA ShownBusyNext ==
  ASSUME GlthreadAssumption, call'.op # "none", NEW L, OnLists(before', L)
  PROVE  ListsNow' = Shown(L)
<1>1. \A h \in Heads : Follow(before', h) = L[h]
  BY FollowIs, HeadsAreThreads
<1> QED BY <1>1 DEF ListsNow, Shown

\* A call that returns.
LEMMA Returned ==
  ASSUME GlthreadAssumption, NEW L0, Began(L0), NEW g, NEW r, Returns(g, r),
         NEW M, OnLists(g, M), Len(M[temp_list]) = 0
  PROVE  /\ Impl' /\ ListsNow = Shown(L0) /\ ListsNow' = Shown(M)
         /\ result' = r /\ call # Promise!NoCall /\ call' = Promise!NoCall
<1>1. glue' = g /\ result' = r /\ call' = NoCall
  BY DEF Returns
<1>2. call # NoCall /\ OnLists(before, L0) /\ call.op # "none"
  BY GivenIsACall DEF Began
<1>3. Idle'
  BY <1>1, NoCallIs DEF Idle, OnLists, GoesOn, GoesBack
<1>4. ListsNow = Shown(L0)
  BY <1>2, ShownBusy
<1>5. ListsNow' = Shown(M)
  BY <1>1, NoCallIs, ShownIdleNext
<1> QED BY <1>1, <1>2, <1>3, <1>4, <1>5, NoCallIs DEF Impl

\* It changes the list it was made for.
LEMMA Answered ==
  ASSUME GlthreadAssumption, NEW L0, NEW M, ListsNow = Shown(L0), ListsNow' = Shown(M),
         call.at \in Heads, Same(M, L0, call.at), NEW t, M[call.at] = t
  PROVE  ListsNow' = [ListsNow EXCEPT ![call.at] = t] /\ ListsNow[call.at] = L0[call.at]
BY DEF Shown, Same

-----------------------------------------------------------------------------
(* The steps.                                                              *)

\* What is to be shown of a step after which a call is under way.
LEMMA BusyEnd ==
  ASSUME NEW L0, Began(L0)', NEW s, s = L0[call'.at], NEW p, EndAt(s, p)' PROVE Busy'
<1>1. (\E q : EndAt(L0[call.at], q))'
  <2>1. EndAt(L0[call.at], p)'
    BY DEF EndAt
  <2> QED BY <2>1
<1> QED BY <1>1 DEF Busy

LEMMA BusyChanging ==
  ASSUME NEW L0, Began(L0)', NEW s, s = L0[call'.at], NEW L, OnLists(glue', L),
         Same(L, L0, call'.at), NEW p, NEW k,
         \/ DeleteAt(s, L, p, k)'
         \/ SelectAt(s, L, p, k)'
         \/ DrainAt(s, L, k)'
         \/ RestoreAt(s, L, p, k)'
  PROVE  Busy'
<1>1. \/ DeleteAt(L0[call.at], L, p, k)'
      \/ SelectAt(L0[call.at], L, p, k)'
      \/ DrainAt(L0[call.at], L, k)'
      \/ RestoreAt(L0[call.at], L, p, k)'
  BY DEF DeleteAt, SelectAt, DrainAt, RestoreAt
<1>2. Changing(L0[call.at], L)'
  BY <1>1 DEF Changing
<1>3. OnLists(glue, L)' /\ Same(L, L0, call.at)'
  BY DEF OnLists, GoesOn, GoesBack, Same
<1>4. (\E M : OnLists(glue, M) /\ Same(M, L0, call.at) /\ Changing(L0[call.at], M))'
  BY <1>2, <1>3
<1> QED BY <1>4 DEF Busy

LEMMA NoLists ==
  ASSUME GlthreadAssumption, NEW g, g = [t \in Thread |-> Detached]
  PROVE  \E L : OnLists(g, L) /\ Len(L[temp_list]) = 0 /\ \A h \in AllHeads : L[h] = << >>
<1>1. PICK L : L = [h \in AllHeads |-> << >>]
  OBVIOUS
<1>2. \A h \in AllHeads : L[h] = << >> /\ L[h] \in Seq(Node) /\ Len(L[h]) = 0
  BY <1>1
<1>3. L \in [AllHeads -> Seq(Node)]
  BY <1>1, <1>2
<1>4. g \in Pointers
  BY DEF Pointers, Detached
<1>5. \A t \in Thread : g[t].left = NULL /\ g[t].right = NULL /\ g[t] = Detached
  BY DEF Detached
<1>6. AllHeads \subseteq Thread /\ Node \subseteq Thread /\ temp_list \in AllHeads
  BY HeadsAreThreads
<1>7. Apart(L)
  BY <1>2 DEF Apart
<1>8. GoesOn(g, L)
  <2>1. ASSUME NEW h \in AllHeads, NEW i \in 0 .. Len(L[h])
        PROVE  g[At(L[h], h, i)].right = At(L[h], h, i + 1)
    <3>1. i = 0 /\ i + 1 # 0 /\ ~ (i + 1 <= 0)
      BY <1>2
    <3>2. At(L[h], h, i) = h /\ At(L[h], h, i + 1) = NULL
      BY <1>2, <3>1 DEF At
    <3> QED BY <1>5, <1>6, <3>2
  <2> QED BY <2>1 DEF GoesOn
<1>9. GoesBack(g, L)
  BY <1>2 DEF GoesBack
<1>10. OnLists(g, L)
  BY <1>3, <1>4, <1>5, <1>6, <1>7, <1>8, <1>9 DEF OnLists
<1> QED BY <1>2, <1>6, <1>10

LEMMA InitImplements == ASSUME GlthreadAssumption, Init PROVE Impl /\ Promise!Init
<1>1. glue = [t \in Thread |-> Detached] /\ call = NoCall /\ result = NULL
  BY DEF Init
<1>2. PICK L : OnLists(glue, L) /\ Len(L[temp_list]) = 0 /\ \A h \in AllHeads : L[h] = << >>
  BY <1>1, NoLists
<1>3. Impl
  BY <1>1, <1>2 DEF Impl, Idle
<1>4. ListsNow = Shown(L)
  BY <1>1, <1>2, NoCallIs, ShownIdle
<1>5. ListsNow = [h \in Heads |-> << >>]
  BY <1>2, <1>4, HeadsAreThreads DEF Shown
<1> QED BY <1>1, <1>3, <1>5, NoCallIs DEF Promise!Init

\* The nodes on no list are those whose pointers are NULL.
LEMMA FreeIs ==
  ASSUME GlthreadAssumption, NEW L, OnLists(glue, L), Len(L[temp_list]) = 0, ListsNow = Shown(L)
  PROVE  /\ Promise!Free = {n \in Node : ~IS_QUEUED_UP_IN_THREAD(n)}
         /\ \A n \in Node : n \in Promise!Free <=> glue[n] = Detached
         /\ \A n \in Node : n \notin Promise!Free => On(L, n)
<1>1. \A n \in Node : On(L, n) \/ glue[n] = Detached
  BY DEF OnLists
<1>2. ASSUME NEW n \in Node, On(L, n)
      PROVE  glue[n] # Detached /\ \E h \in Heads : \E i \in 1 .. Len(L[h]) : L[h][i] = n
  <2>0. PICK h \in AllHeads : \E i \in 1 .. Len(L[h]) : L[h][i] = n
    BY <1>2 DEF On
  <2>1. PICK i \in 1 .. Len(L[h]) : L[h][i] = n
    BY <2>0
  <2>2. Len(L[h]) \in Nat
    BY DEF OnLists
  <2>3. i \in 0 .. Len(L[h]) /\ i # 0 /\ i <= Len(L[h])
    BY <2>2
  <2>4. Spot(L, n, h, i)
    BY <2>1, <2>3 DEF Spot, At
  <2>5. h # temp_list
    BY <2>3
  <2>6. h \in Heads
    BY <2>5 DEF AllHeads
  <2> QED BY <2>1, <2>4, <2>6, NoSpot
<1>3. ASSUME NEW n \in Node
      PROVE  (\E h \in Heads : Promise!Contains(ListsNow[h], n)) <=> On(L, n)
  <2>1. \A h \in Heads : ListsNow[h] = L[h]
    BY DEF Shown
  <2>2. (\E h \in Heads : Promise!Contains(ListsNow[h], n)) <=>
        \E h \in Heads : \E i \in 1 .. Len(L[h]) : L[h][i] = n
    BY <2>1 DEF Promise!Contains
  <2> QED BY <1>2, <2>2, HeadsAreThreads DEF On
<1>4. \A n \in Node : n \in Promise!Free <=> ~ On(L, n)
  BY <1>3 DEF Promise!Free
<1>5. \A n \in Node : n \in Promise!Free <=> glue[n] = Detached
  BY <1>1, <1>2, <1>4
<1>6. Promise!Free \subseteq Node
  BY DEF Promise!Free
<1> QED BY <1>4, <1>5, <1>6 DEF IS_QUEUED_UP_IN_THREAD

LEMMA BeginImplements == ASSUME GlthreadAssumption, Idle, Begin PROVE Impl' /\ Promise!Begin
<1>1. PICK L : OnLists(glue, L) /\ Len(L[temp_list]) = 0
  BY DEF Idle
<1>2. ListsNow = Shown(L)
  BY <1>1, NoCallIs, ShownIdle DEF Idle
<1> DEFINE free == {n \in Node : ~IS_QUEUED_UP_IN_THREAD(n)}
<1>3. /\ call = NoCall /\ call' \in Promise!Calls(free)
      /\ phase' = "walk" /\ curr' = (IF call'.at \in Heads THEN First(call'.at) ELSE NULL)
      /\ prev' = NULL /\ count' = 0 /\ before' = glue /\ glue' = glue /\ result' = result
  BY DEF Begin
<1>4. /\ Promise!Free = free
      /\ \A n \in Node : n \in free <=> glue[n] = Detached
      /\ \A n \in Node : n \notin free => On(L, n)
  BY <1>1, <1>2, FreeIs
<1>5. free \subseteq Node
  OBVIOUS
<1> HIDE DEF free
<1>6. Given(L)'
  BY <1>3, <1>4, <1>5 DEF Promise!Calls, Promise!Call, Given
<1>7. call'.op # "none"
  BY <1>6, GivenIsACall DEF Given
<1>8. ListsNow' = Shown(L)
  BY <1>1, <1>3, <1>7, ShownBusyNext
<1>9. Promise!Begin
  BY <1>2, <1>3, <1>4, <1>8, NoCallIs DEF Promise!Begin
<1>10. Began(L)'
  BY <1>1, <1>3, <1>6, <1>7, NoCallIs DEF Began, OnLists, GoesOn, GoesBack
<1>11. ASSUME call'.at \in Heads
       PROVE  /\ curr' = At(L[call'.at], call'.at, 1) /\ L[call'.at] \in Seq(Node)
              /\ Len(L[call'.at]) \in Nat
  <2>1. PICK h, i : h = call'.at /\ i = 0
    OBVIOUS
  <2>2. L[h] \in Seq(Node) /\ h \in AllHeads
    BY <1>1, <1>11, <2>1, HeadsAreThreads DEF OnLists
  <2>3. Spot(L, h, h, i)
    BY <2>1, <2>2 DEF Spot, At
  <2>4. glue[h].right = At(L[h], h, i + 1)
    BY <1>1, <2>3, SpotIs
  <2> QED BY <1>3, <1>11, <2>1, <2>2, <2>4 DEF First
<1>12. CASE call'.op \in {"add_next", "add_before", "remove", "dequeue"}
  <2>1. StraightAt(L)'
    BY <1>3, <1>6, <1>11, <1>12 DEF StraightAt, Given
  <2> QED BY <1>9, <1>10, <2>1 DEF Impl, Busy
<1>13. CASE call'.op \in {"add_last", "count", "get_last", "priority_insert"}
  <2>1. call'.at \in Heads
    BY <1>6, <1>13 DEF Given
  <2>2. PICK s, p : s = L[call'.at] /\ p = 0
    OBVIOUS
  <2>3. p \in 0 .. Len(s) /\ curr' = At(s, call'.at, p + 1) /\ \A i \in 1 .. p : FALSE
    BY <1>11, <2>1, <2>2
  <2>4. EndAt(s, p)'
    BY <1>3, <1>13, <2>2, <2>3 DEF EndAt
  <2>5. Busy'
    BY <1>10, <2>2, <2>4, BusyEnd
  <2> QED BY <1>9, <2>5 DEF Impl
<1>14. CASE call'.op \in {"delete", "collect", "exact"}
  <2>1. call'.at \in Heads
    BY <1>6, <1>14 DEF Given
  <2>2. PICK s, k, p, f : s = L[call'.at] /\ k = << >> /\ p = 0 /\ f = Promise!Kept(s, call'.keep)
    OBVIOUS
  <2>3. s \in Seq(Node) /\ Len(s) \in Nat /\ k \in Seq(Node) /\ Len(k) = 0 /\ p \in 0 .. Len(s)
    BY <1>11, <2>1, <2>2
  <2>4. s = Joined(k, s, p)
    <3>1. PICK u : u = Joined(k, s, p)
      OBVIOUS
    <3>2. u = s
      BY <2>2, <2>3, <3>1, AllJoined
    <3> QED BY <3>1, <3>2
  <2>5. f[p] = k
    BY <2>2, <2>3, KeptIs
  <2>6. L[temp_list] = Back(s, p)
    <3>1. PICK b : b = Back(s, p)
      OBVIOUS
    <3>2. IsBack(b, s, p, Node)
      BY <2>3, <3>1, BackDef
    <3>3. b \in Seq(Node) /\ Len(b) = 0
      BY <2>2, <3>2 DEF IsBack
    <3>4. L[temp_list] \in Seq(Node)
      BY <1>1, HeadsAreThreads DEF OnLists
    <3>5. \A i \in 1 .. Len(b) : b[i] = L[temp_list][i]
      BY <3>3
    <3> QED BY <1>1, <3>1, <3>3, <3>4, <3>5, SeqEq
  <2>7. curr' = At(s, call'.at, p + 1)
    BY <1>11, <2>1, <2>2
  <2>8. DeleteAt(s, L, p, k)' \/ SelectAt(s, L, p, k)'
    BY <1>1, <1>3, <1>14, <2>2, <2>3, <2>4, <2>5, <2>6, <2>7 DEF DeleteAt, SelectAt
  <2>9. OnLists(glue', L) /\ Same(L, L, call'.at)
    BY <1>1, <1>3 DEF Same
  <2>11. Busy'
    BY <1>10, <2>2, <2>8, <2>9, BusyChanging
  <2> QED BY <1>9, <2>11 DEF Impl
<1> QED BY <1>6, <1>12, <1>13, <1>14 DEF Given

LEMMA InsertAtPlace ==
  ASSUME NEW s \in Seq(Node), NEW p \in 0 .. Len(s), NEW e \in Node, NEW q, q = p + 1,
         NEW t, t = Ins(s, p, e)
  PROVE  Promise!InsertAt(s, q, e) = t
BY InsertAtIs

\* A new node is put behind the p-th of the list the call was made for.
LEMMA InsertReturns ==
  ASSUME GlthreadAssumption, NEW L0, Began(L0), glue = before, call.at \in Heads,
         NEW c, NEW p, Spot(L0, c, call.at, p), call.node \in Node, before[call.node] = Detached,
         Returns(AddNext(glue, c, call.node), NULL), NEW q, q = p + 1
  PROVE  /\ Impl' /\ result' = NULL /\ call # Promise!NoCall /\ call' = Promise!NoCall
         /\ ListsNow[call.at] = L0[call.at]
         /\ ListsNow' = [ListsNow EXCEPT
                           ![call.at] = Promise!InsertAt(ListsNow[call.at], q, call.node)]
<1>1. OnLists(glue, L0) /\ OnLists(before, L0) /\ Len(L0[temp_list]) = 0
  BY DEF Began
<1>2. PICK h, new, s, t, M, g :
        /\ h = call.at /\ new = call.node /\ s = L0[h] /\ t = Ins(s, p, new)
        /\ M = Put(L0, h, t) /\ g = AddNext(glue, c, new)
  OBVIOUS
<1>3. h \in Heads /\ h \in AllHeads /\ h # temp_list /\ new \in Node /\ glue[new] = Detached
      /\ Spot(L0, c, h, p)
  BY <1>2, HeadsAreThreads
<1>4. s \in Seq(Node) /\ p \in 0 .. Len(s)
  BY <1>1, <1>2, <1>3 DEF Spot, OnLists
<1>5. IsIns(t, s, p, new, Node) /\ Promise!InsertAt(s, q, new) = t
  BY <1>2, <1>3, <1>4, InsDef, InsertAtPlace
<1>6. OnLists(g, M)
  BY <1>1, <1>2, <1>3, <1>5, AddNextOnLists
<1>7. M[h] = t /\ Len(M[temp_list]) = 0 /\ Same(M, L0, h)
  BY <1>1, <1>2, <1>3, HeadsAreThreads DEF Put, Same
<1>8. Returns(g, NULL)
  BY <1>2
<1>9. /\ Impl' /\ ListsNow = Shown(L0) /\ ListsNow' = Shown(M)
      /\ result' = NULL /\ call # Promise!NoCall /\ call' = Promise!NoCall
  BY <1>6, <1>7, <1>8, Returned
<1>10. ListsNow' = [ListsNow EXCEPT ![call.at] = t] /\ ListsNow[call.at] = L0[call.at]
  BY <1>2, <1>3, <1>7, <1>9, Answered
<1> QED BY <1>2, <1>5, <1>9, <1>10

LEMMA AddNextImplements ==
  ASSUME GlthreadAssumption, NEW L0, Began(L0), StraightAt(L0), Straight, call.op = "add_next"
  PROVE  Impl' /\ Promise!Return
<1>1. glue = before /\ call.at \in Heads /\ call.node \in Node /\ before[call.node] = Detached
      /\ Returns(AddNext(glue, call.at, call.node), NULL)
  BY DEF StraightAt, Straight, Began, Given
<1>2. PICK h, p, q : h = call.at /\ p = 0 /\ q = 1
  OBVIOUS
<1>3. Spot(L0, h, h, p)
  <2>1. L0[h] \in Seq(Node) /\ h \in AllHeads
    BY <1>1, <1>2, HeadsAreThreads DEF Began, OnLists
  <2> QED BY <1>2, <2>1 DEF Spot, At
<1>4. /\ Impl' /\ result' = NULL /\ call # Promise!NoCall /\ call' = Promise!NoCall
      /\ ListsNow' = [ListsNow EXCEPT
                        ![call.at] = Promise!InsertAt(ListsNow[call.at], q, call.node)]
  <2>1. q = p + 1 /\ Spot(L0, h, call.at, p) /\ Returns(AddNext(glue, h, call.node), NULL)
    BY <1>1, <1>2, <1>3
  <2> QED BY <1>1, <2>1, InsertReturns
<1>5. Promise!Inserts
  BY <1>2, <1>4 DEF Promise!Inserts, Promise!Answers
<1> QED BY <1>4, <1>5 DEF Promise!Return

LEMMA ContainsIs ==
  ASSUME GlthreadAssumption, NEW L0, OnLists(before, L0), NEW n, NEW k, NEW p, Spot(L0, n, k, p),
         p # 0, k \in Heads, ListsNow = Shown(L0)
  PROVE  /\ Promise!Contains(ListsNow[k], n) /\ Promise!IndexIn(ListsNow[k], n) = p
         /\ \A h \in Heads : h # k => ~ Promise!Contains(ListsNow[h], n)
         /\ \A h \in Heads : ListsNow[h] = L0[h]
<1>1. \A h \in Heads : ListsNow[h] = L0[h]
  BY DEF Shown
<1>2. /\ L0[k] \in Seq(Node) /\ Len(L0[k]) \in Nat /\ p \in 1 .. Len(L0[k]) /\ n = L0[k][p]
  BY SpotIs
<1>3. Promise!Contains(L0[k], n)
  BY <1>2 DEF Promise!Contains
<1>4. ASSUME NEW h \in Heads, NEW i \in 1 .. Len(L0[h]), L0[h][i] = n PROVE h = k /\ i = p
  <2>1. h \in AllHeads /\ Len(L0[h]) \in Nat
    BY HeadsAreThreads DEF OnLists
  <2>2. i \in 0 .. Len(L0[h]) /\ i # 0 /\ i <= Len(L0[h])
    BY <2>1
  <2>3. Spot(L0, n, h, i)
    BY <1>4, <2>1, <2>2 DEF Spot, At
  <2> QED BY <2>3, OneSpot
<1>5. \A h \in Heads : h # k => ~ Promise!Contains(L0[h], n)
  BY <1>4 DEF Promise!Contains
<1>6. \A i \in DOMAIN L0[k] : L0[k][i] = n <=> i = p
  BY <1>2, <1>4
<1>7. p \in DOMAIN L0[k]
  BY <1>2
<1>8. Promise!IndexIn(L0[k], n) = p
  BY <1>6, <1>7 DEF Promise!IndexIn
<1> QED BY <1>1, <1>3, <1>5, <1>8

\* A node on a list is on one of those that live longer than the call.
LEMMA OnAHead ==
  ASSUME GlthreadAssumption, NEW L0, NEW g, OnLists(g, L0), Len(L0[temp_list]) = 0, NEW n,
         On(L0, n)
  PROVE  \E k, p : k \in Heads /\ Spot(L0, n, k, p) /\ p # 0
<1>1. PICK k \in AllHeads : \E p \in 1 .. Len(L0[k]) : L0[k][p] = n
  BY DEF On
<1>2. PICK p \in 1 .. Len(L0[k]) : L0[k][p] = n
  BY <1>1
<1>3. Len(L0[k]) \in Nat
  BY DEF OnLists
<1>4. p \in 0 .. Len(L0[k]) /\ p # 0 /\ p <= Len(L0[k])
  BY <1>3
<1>5. Spot(L0, n, k, p)
  BY <1>2, <1>4 DEF Spot, At
<1>6. k \in Heads
  BY <1>4 DEF AllHeads
<1> QED BY <1>4, <1>5, <1>6

LEMMA AddBeforeImplements ==
  ASSUME GlthreadAssumption, NEW L0, Began(L0), StraightAt(L0), Straight, call.op = "add_before"
  PROVE  Impl' /\ Promise!Return
<1>1. glue = before /\ call.at \in Node /\ On(L0, call.at) /\ call.node \in Node
      /\ before[call.node] = Detached /\ Returns(AddBefore(glue, call.at, call.node), NULL)
  BY DEF StraightAt, Straight, Began, Given
<1>2. OnLists(glue, L0) /\ OnLists(before, L0) /\ Len(L0[temp_list]) = 0
  BY <1>1 DEF Began
<1>3. PICK k, p : k \in Heads /\ Spot(L0, call.at, k, p) /\ p # 0
  BY <1>1, <1>2, OnAHead
<1>4. PICK n, new, l, o, s, t, M, g :
        /\ n = call.at /\ new = call.node /\ l = glue[n].left /\ o = p - 1 /\ s = L0[k]
        /\ t = Ins(s, o, new) /\ M = Put(L0, k, t) /\ g = AddNext(glue, l, new)
  OBVIOUS
<1>5. Spot(L0, n, k, p) /\ new \in Node /\ glue[new] = Detached /\ k \in AllHeads /\ k # temp_list
  BY <1>1, <1>3, <1>4, HeadsAreThreads
<1>6. Spot(L0, l, k, o) /\ AddBefore(glue, n, new) = g
  BY <1>2, <1>3, <1>4, <1>5, AddBeforeIs
<1>7. s \in Seq(Node) /\ o \in 0 .. Len(s) /\ p \in Nat
  BY <1>2, <1>4, <1>5, <1>6 DEF Spot, OnLists
<1>8. p = o + 1
  BY <1>4, <1>7
<1>9. IsIns(t, s, o, new, Node) /\ Promise!InsertAt(s, p, new) = t
  BY <1>4, <1>5, <1>7, <1>8, InsDef, InsertAtPlace
<1>10. OnLists(g, M)
  BY <1>2, <1>4, <1>5, <1>6, <1>9, AddNextOnLists
<1>11. Len(M[temp_list]) = 0 /\ \A h \in Heads : M[h] = IF h = k THEN t ELSE L0[h]
  BY <1>2, <1>4, <1>5, HeadsAreThreads DEF Put
<1>12. Returns(g, NULL)
  BY <1>1, <1>4, <1>6
<1>13. /\ Impl' /\ ListsNow = Shown(L0) /\ ListsNow' = Shown(M)
       /\ result' = NULL /\ call # Promise!NoCall /\ call' = Promise!NoCall
  BY <1>10, <1>11, <1>12, Returned
<1>14. /\ Promise!Contains(ListsNow[k], n) /\ Promise!IndexIn(ListsNow[k], n) = p
       /\ \A h \in Heads : h # k => ~ Promise!Contains(ListsNow[h], n)
       /\ \A h \in Heads : ListsNow[h] = L0[h]
  BY <1>2, <1>3, <1>5, <1>13, ContainsIs
<1>15. ListsNow' = [h \in Heads |->
                      IF Promise!Contains(ListsNow[h], n)
                      THEN Promise!InsertAt(ListsNow[h], Promise!IndexIn(ListsNow[h], n), new)
                      ELSE ListsNow[h]]
  BY <1>3, <1>4, <1>9, <1>11, <1>13, <1>14 DEF Shown
<1>16. Promise!InsertsBefore
  BY <1>4, <1>13, <1>15 DEF Promise!InsertsBefore
<1> QED BY <1>13, <1>16 DEF Promise!Return

LEMMA RemoveImplements ==
  ASSUME GlthreadAssumption, NEW L0, Began(L0), StraightAt(L0), Straight, call.op = "remove"
  PROVE  Impl' /\ Promise!Return
<1>1. glue = before /\ call.at \in Node /\ Returns(RemoveThread(glue, call.at), NULL)
  BY DEF StraightAt, Straight, Began, Given
<1>2. OnLists(glue, L0) /\ OnLists(before, L0) /\ Len(L0[temp_list]) = 0
  BY <1>1 DEF Began
<1>3. PICK n, g : n = call.at /\ g = RemoveThread(glue, n)
  OBVIOUS
<1>4. n \in Node /\ Returns(g, NULL)
  BY <1>1, <1>3
<1>5. CASE On(L0, n)
  <2>1. PICK k, p : k \in Heads /\ Spot(L0, n, k, p) /\ p # 0
    BY <1>2, <1>5, OnAHead
  <2>2. PICK s, t, M : s = L0[k] /\ t = Del(s, p) /\ M = Put(L0, k, t)
    OBVIOUS
  <2>3. s \in Seq(Node) /\ p \in 1 .. Len(s) /\ k \in AllHeads /\ k # temp_list
    BY <1>2, <2>1, <2>2, SpotIs, HeadsAreThreads
  <2>4. IsDel(t, s, p, Node) /\ Promise!RemoveAt(s, p) = t
    BY <2>2, <2>3, DelDef, RemoveAtIs
  <2>5. OnLists(g, M)
    BY <1>2, <1>3, <2>1, <2>2, <2>4, RemoveOnLists
  <2>6. Len(M[temp_list]) = 0 /\ \A h \in Heads : M[h] = IF h = k THEN t ELSE L0[h]
    BY <1>2, <2>2, <2>3, HeadsAreThreads DEF Put
  <2>7. /\ Impl' /\ ListsNow = Shown(L0) /\ ListsNow' = Shown(M)
        /\ result' = NULL /\ call # Promise!NoCall /\ call' = Promise!NoCall
    BY <1>4, <2>5, <2>6, Returned
  <2>8. /\ Promise!Contains(ListsNow[k], n) /\ Promise!IndexIn(ListsNow[k], n) = p
        /\ \A h \in Heads : h # k => ~ Promise!Contains(ListsNow[h], n)
        /\ \A h \in Heads : ListsNow[h] = L0[h]
    BY <1>2, <2>1, <2>7, ContainsIs
  <2>9. ListsNow' = [h \in Heads |->
                       IF Promise!Contains(ListsNow[h], n)
                       THEN Promise!RemoveAt(ListsNow[h], Promise!IndexIn(ListsNow[h], n))
                       ELSE ListsNow[h]]
    BY <2>1, <2>2, <2>4, <2>6, <2>7, <2>8 DEF Shown
  <2>10. Promise!Removes
    BY <1>3, <2>7, <2>9 DEF Promise!Removes
  <2> QED BY <2>7, <2>10 DEF Promise!Return
<1>6. CASE ~ On(L0, n)
  <2>1. glue[n] = Detached /\ glue \in Pointers
    BY <1>2, <1>4, <1>6 DEF OnLists
  <2>2. g = glue
    BY <1>3, <1>4, <2>1, RemoveDetached
  <2>3. OnLists(g, L0)
    BY <1>2, <2>2
  <2>7. /\ Impl' /\ ListsNow = Shown(L0) /\ ListsNow' = Shown(L0)
        /\ result' = NULL /\ call # Promise!NoCall /\ call' = Promise!NoCall
    BY <1>2, <1>4, <2>3, Returned
  <2>8. \A h \in Heads : ~ Promise!Contains(ListsNow[h], n) /\ ListsNow[h] = L0[h]
    BY <1>6, <2>7, HeadsAreThreads DEF Shown, Promise!Contains, On
  <2>9. ListsNow' = [h \in Heads |->
                       IF Promise!Contains(ListsNow[h], n)
                       THEN Promise!RemoveAt(ListsNow[h], Promise!IndexIn(ListsNow[h], n))
                       ELSE ListsNow[h]]
    BY <2>7, <2>8 DEF Shown
  <2>10. Promise!Removes
    BY <1>3, <2>7, <2>9 DEF Promise!Removes
  <2> QED BY <2>7, <2>10 DEF Promise!Return
<1> QED BY <1>5, <1>6

\* The p-th is taken off the list the call was made for.
LEMMA DequeueImplements ==
  ASSUME GlthreadAssumption, NEW L0, Began(L0), StraightAt(L0), Straight, call.op = "dequeue"
  PROVE  Impl' /\ Promise!Return
<1>1. /\ glue = before /\ call.at \in Heads /\ curr = At(L0[call.at], call.at, 1)
      /\ Returns(IF curr = NULL THEN glue ELSE RemoveThread(glue, curr), curr)
  BY DEF StraightAt, Straight, Began, Given
<1>2. OnLists(glue, L0) /\ OnLists(before, L0) /\ Len(L0[temp_list]) = 0
  BY <1>1 DEF Began
<1>3. PICK h, s, p : h = call.at /\ s = L0[h] /\ p = 1
  OBVIOUS
<1>4. s \in Seq(Node) /\ Len(s) \in Nat /\ h \in AllHeads /\ h \in Heads /\ h # temp_list
  BY <1>1, <1>2, <1>3, HeadsAreThreads DEF OnLists
<1>5. CASE Len(s) = 0
  <2>1. curr = NULL /\ s = << >>
    BY <1>1, <1>3, <1>4, <1>5 DEF At
  <2>2. Returns(glue, NULL)
    BY <1>1, <2>1
  <2>3. /\ Impl' /\ ListsNow = Shown(L0) /\ ListsNow' = Shown(L0)
        /\ result' = NULL /\ call # Promise!NoCall /\ call' = Promise!NoCall
    BY <1>2, <2>2, Returned
  <2>4. ListsNow' = [ListsNow EXCEPT ![call.at] = s] /\ ListsNow[call.at] = s
    BY <1>1, <1>3, <2>3, Answered DEF Same
  <2>5. Promise!Takes
    BY <2>1, <2>3, <2>4 DEF Promise!Takes, Promise!Answers, Promise!NullOr
  <2> QED BY <2>3, <2>5 DEF Promise!Return
<1>6. CASE Len(s) # 0
  <2>1. PICK c, t, M, g : c = s[p] /\ t = Del(s, p) /\ M = Put(L0, h, t) /\ g = RemoveThread(glue, c)
    OBVIOUS
  <2>2. p \in 1 .. Len(s) /\ p \in 0 .. Len(s) /\ p # 0 /\ p <= Len(s)
    BY <1>3, <1>4, <1>6
  <2>3. curr = c /\ c \in Node /\ c # NULL /\ Spot(L0, c, h, p)
    <3>1. curr = c /\ c \in Node
      BY <1>1, <1>3, <1>4, <2>1, <2>2 DEF At
    <3>2. Spot(L0, c, h, p)
      BY <1>3, <1>4, <2>1, <2>2 DEF Spot, At
    <3> QED BY <3>1, <3>2, HeadsAreThreads
  <2>4. IsDel(t, s, p, Node) /\ Promise!RemoveAt(s, p) = t
    BY <1>4, <2>1, <2>2, DelDef, RemoveAtIs
  <2>5. OnLists(g, M)
    BY <1>2, <1>3, <2>1, <2>2, <2>3, <2>4, RemoveOnLists
  <2>6. Len(M[temp_list]) = 0 /\ M[h] = t /\ Same(M, L0, h)
    BY <1>2, <1>4, <2>1, HeadsAreThreads DEF Put, Same
  <2>7. Returns(g, c)
    BY <1>1, <2>1, <2>3
  <2>8. /\ Impl' /\ ListsNow = Shown(L0) /\ ListsNow' = Shown(M)
        /\ result' = c /\ call # Promise!NoCall /\ call' = Promise!NoCall
    BY <2>5, <2>6, <2>7, Returned
  <2>9. ListsNow' = [ListsNow EXCEPT ![call.at] = t] /\ ListsNow[call.at] = s
    BY <1>1, <1>3, <2>6, <2>8, Answered
  <2>10. s # << >>
    BY <1>6
  <2>11. Promise!Takes
    BY <1>3, <2>1, <2>4, <2>8, <2>9, <2>10 DEF Promise!Takes, Promise!Answers, Promise!NullOr
  <2> QED BY <2>8, <2>11 DEF Promise!Return
<1> QED BY <1>5, <1>6

LEMMA StraightImplements ==
  ASSUME GlthreadAssumption, NEW L0, Began(L0), StraightAt(L0), Straight
  PROVE  Impl' /\ Promise!Return
BY AddNextImplements, AddBeforeImplements, RemoveImplements, DequeueImplements DEF StraightAt

\* A step of a walk, after which the call is still under way.
LEMMA StillUnderWay ==
  ASSUME GlthreadAssumption, NEW L0, Began(L0), UNCHANGED <<call, before, result>>
  PROVE  Began(L0)' /\ UNCHANGED <<ListsNow, call, result>>
<1>1. OnLists(before, L0) /\ call # NoCall /\ call.op # "none"
  BY GivenIsACall DEF Began
<1>2. ListsNow = Shown(L0)
  BY <1>1, ShownBusy
<1>3. ListsNow' = Shown(L0)
  BY <1>1, ShownBusyNext
<1>4. Began(L0)'
  BY NoCallIs DEF Began, Given, OnLists, GoesOn, GoesBack
<1> QED BY <1>2, <1>3, <1>4

\* What is behind the p-th of s, and where the walk is.
LEMMA CurrIs ==
  ASSUME NEW s \in Seq(Node), NEW h, NEW p \in 0 .. Len(s), NEW c, c = At(s, h, p + 1),
         GlthreadAssumption
  PROVE  /\ c = NULL <=> p = Len(s)
         /\ c # NULL => p + 1 \in 1 .. Len(s) /\ c = s[p + 1] /\ c \in Node
<1>1. Len(s) \in Nat /\ p \in Nat /\ p <= Len(s)
  OBVIOUS
<1>2. CASE p = Len(s)
  <2>1. p + 1 # 0 /\ ~ (p + 1 <= Len(s))
    BY <1>1, <1>2
  <2> QED BY <1>2, <2>1 DEF At
<1>3. CASE p # Len(s)
  <2>1. p + 1 # 0 /\ p + 1 <= Len(s) /\ p + 1 \in 1 .. Len(s)
    BY <1>1, <1>3
  <2>2. c = s[p + 1] /\ c \in Node
    BY <2>1 DEF At
  <2> QED BY <1>3, <2>1, <2>2, HeadsAreThreads
<1> QED BY <1>2, <1>3

\* The last node walked over, or the head.
LEMMA LastIs ==
  ASSUME GlthreadAssumption, NEW L0, OnLists(before, L0), call.at \in Heads, NEW s, s = L0[call.at],
         NEW p, EndAt(s, p)
  PROVE  Spot(L0, Last, call.at, p)
<1>1. s \in Seq(Node) /\ call.at \in AllHeads /\ p \in 0 .. Len(s)
  BY HeadsAreThreads DEF OnLists, EndAt
<1>2. CASE p = 0
  BY <1>1, <1>2 DEF EndAt, Last, Spot, At
<1>3. CASE p # 0
  <2>1. p <= Len(s) /\ s[p] \in Node
    BY <1>1, <1>3
  <2>2. prev = s[p] /\ s[p] # NULL
    BY <1>3, <2>1, HeadsAreThreads DEF EndAt
  <2> QED BY <1>1, <1>3, <2>1, <2>2 DEF Last, Spot, At
<1> QED BY <1>2, <1>3

\* One more node is walked over.
LEMMA RoundToEnd ==
  ASSUME GlthreadAssumption, NEW L0, Began(L0), call.at \in Heads, NEW s, s = L0[call.at],
         NEW p, EndAt(s, p), curr # NULL, NEW n, Round(glue, curr, n),
         call.op # "priority_insert" => n = count + 1,
         call.op = "priority_insert" => ~ComesBefore(call.node, curr)
  PROVE  Impl' /\ UNCHANGED <<ListsNow, call, result>>
<1>1. /\ glue' = glue /\ prev' = curr /\ count' = n /\ curr' = glue[curr].right
      /\ UNCHANGED <<call, phase, result, before>>
  BY DEF Round
<1>2. Began(L0)' /\ UNCHANGED <<ListsNow, call, result>>
  BY <1>1, StillUnderWay
<1>3. /\ glue = before /\ OnLists(glue, L0) /\ s \in Seq(Node) /\ Len(s) \in Nat
      /\ call.at \in AllHeads /\ p \in 0 .. Len(s) /\ curr = At(s, call.at, p + 1)
  BY HeadsAreThreads DEF Began, EndAt, OnLists
<1>4. p + 1 \in 1 .. Len(s) /\ curr = s[p + 1]
  BY <1>3, CurrIs
<1>5. PICK q, c : q = p + 1 /\ c = curr
  OBVIOUS
<1>6. q \in 0 .. Len(s) /\ q # 0 /\ q <= Len(s)
  BY <1>3, <1>4, <1>5
<1>7. Spot(L0, c, call.at, q)
  BY <1>3, <1>5, <1>6 DEF Spot
<1>8. curr' = At(s, call.at, q + 1)
  BY <1>1, <1>3, <1>5, <1>7, SpotIs
<1>9. \A i \in 1 .. q : i \in 1 .. p \/ i = q
  BY <1>3, <1>5
<1>10. call.op = "priority_insert" => \A i \in 1 .. q : ~ComesBefore(call.node, s[i])
  BY <1>4, <1>5, <1>9 DEF EndAt
<1>11. call.op # "priority_insert" => count' = q
  BY <1>1, <1>5 DEF EndAt
<1>12. EndAt(s, q)'
  <2>1. call'.op \in {"add_last", "count", "get_last", "priority_insert"} /\ glue' = before'
    BY <1>1, <1>3 DEF EndAt
  <2>2. prev' = (IF q = 0 THEN NULL ELSE s[q])
    BY <1>1, <1>4, <1>5, <1>6
  <2>3. curr' = At(s, call'.at, q + 1)
    BY <1>1, <1>8
  <2>4. /\ call'.op # "priority_insert" => count' = q
        /\ call'.op = "priority_insert" => \A i \in 1 .. q : ~ComesBefore(call'.node, s[i])
    BY <1>1, <1>10, <1>11
  <2> QED BY <1>6, <2>1, <2>2, <2>3, <2>4 DEF EndAt, ComesBefore
<1>13. Busy'
  BY <1>1, <1>2, <1>12, BusyEnd
<1> QED BY <1>2, <1>13 DEF Impl

LEMMA GivenAtAHead ==
  ASSUME NEW L0, Given(L0), call.op \notin {"add_before", "remove"}
  PROVE  /\ call.at \in Heads
         /\ call.op \in {"add_last", "priority_insert"} =>
              call.node \in Node /\ before[call.node] = Detached
         /\ call.op = "exact" => \E n : call.keep = {n}
BY DEF Given

\* A call that returns and has changed nothing.
LEMMA ReadReturns ==
  ASSUME GlthreadAssumption, NEW L0, Began(L0), glue = before, call.at \in Heads,
         NEW r, Returns(glue, r)
  PROVE  /\ Impl' /\ result' = r /\ call # Promise!NoCall /\ call' = Promise!NoCall
         /\ ListsNow[call.at] = L0[call.at]
         /\ ListsNow' = [ListsNow EXCEPT ![call.at] = ListsNow[call.at]]
<1>1. OnLists(glue, L0) /\ Len(L0[temp_list]) = 0
  BY DEF Began
<1>2. /\ Impl' /\ ListsNow = Shown(L0) /\ ListsNow' = Shown(L0)
      /\ result' = r /\ call # Promise!NoCall /\ call' = Promise!NoCall
  BY <1>1, Returned
<1>3. PICK s : s = L0[call.at]
  OBVIOUS
<1>4. ListsNow' = [ListsNow EXCEPT ![call.at] = s] /\ ListsNow[call.at] = s
  BY <1>2, <1>3, Answered DEF Same
<1> QED BY <1>2, <1>3, <1>4

LEMMA WalkToEndImplements ==
  ASSUME GlthreadAssumption, NEW L0, Began(L0), NEW s, s = L0[call.at], NEW p, EndAt(s, p),
         WalkToEnd
  PROVE  Impl' /\ (Promise!Return \/ UNCHANGED <<ListsNow, call, result>>)
<1>1. /\ glue = before /\ OnLists(before, L0) /\ p \in 0 .. Len(s) /\ curr = At(s, call.at, p + 1)
      /\ prev = (IF p = 0 THEN NULL ELSE s[p])
      /\ call.op # "priority_insert" => count = p
      /\ call.op \in {"add_last", "count", "get_last"}
  BY DEF Began, EndAt, WalkToEnd
<1>2. call.at \in Heads /\ (call.op = "add_last" => call.node \in Node /\ before[call.node] = Detached)
  BY <1>1, GivenAtAHead DEF Began
<1>3. s \in Seq(Node) /\ Len(s) \in Nat
  BY <1>1, <1>2, HeadsAreThreads DEF OnLists
<1>4. CASE curr # NULL
  <2>1. PICK n : n = count + 1
    OBVIOUS
  <2>2. Round(glue, curr, n)
    BY <1>4, <2>1 DEF WalkToEnd
  <2> QED BY <1>1, <1>2, <1>4, <2>1, <2>2, RoundToEnd
<1>5. CASE curr = NULL
  <2>1. p = Len(s)
    BY <1>1, <1>3, <1>5, CurrIs
  <2>2. CASE call.op = "add_last" /\ Returns(AddNext(glue, Last, call.node), NULL)
    <3>1. PICK c, q : c = Last /\ q = p + 1
      OBVIOUS
    <3>2. Spot(L0, c, call.at, p)
      BY <1>1, <1>2, <3>1, LastIs
    <3>3. Returns(AddNext(glue, c, call.node), NULL)
      BY <2>2, <3>1
    <3>4. /\ Impl' /\ result' = NULL /\ call # Promise!NoCall /\ call' = Promise!NoCall
          /\ ListsNow[call.at] = s
          /\ ListsNow' = [ListsNow EXCEPT
                            ![call.at] = Promise!InsertAt(ListsNow[call.at], q, call.node)]
      BY <1>1, <1>2, <2>2, <3>1, <3>2, <3>3, InsertReturns
    <3>5. Len(ListsNow[call.at]) + 1 = q
      BY <2>1, <3>1, <3>4
    <3>6. Promise!Inserts
      BY <2>2, <3>4, <3>5 DEF Promise!Inserts, Promise!Answers
    <3> QED BY <3>4, <3>6 DEF Promise!Return
  <2>3. CASE call.op = "count" /\ Returns(glue, count)
    <3>1. /\ Impl' /\ result' = count /\ call # Promise!NoCall /\ call' = Promise!NoCall
          /\ ListsNow[call.at] = s
          /\ ListsNow' = [ListsNow EXCEPT ![call.at] = ListsNow[call.at]]
      BY <1>1, <1>2, <2>3, ReadReturns
    <3>2. Promise!Reads
      BY <1>1, <2>1, <2>3, <3>1 DEF Promise!Reads, Promise!Answers
    <3> QED BY <3>1, <3>2 DEF Promise!Return
  <2>4. CASE call.op = "get_last" /\ Returns(glue, prev)
    <3>1. /\ Impl' /\ result' = prev /\ call # Promise!NoCall /\ call' = Promise!NoCall
          /\ ListsNow[call.at] = s
          /\ ListsNow' = [ListsNow EXCEPT ![call.at] = ListsNow[call.at]]
      BY <1>1, <1>2, <2>4, ReadReturns
    <3>2. s = << >> <=> p = 0
      BY <1>3, <2>1
    <3>3. prev = Promise!NullOr(s, Len(s))
      BY <1>1, <2>1, <3>2 DEF Promise!NullOr
    <3>4. Promise!Reads
      BY <2>4, <3>1, <3>3 DEF Promise!Reads, Promise!Answers
    <3> QED BY <3>1, <3>4 DEF Promise!Return
  <2> QED BY <1>5, <2>2, <2>3, <2>4 DEF WalkToEnd
<1> QED BY <1>4, <1>5

\* The place of a node is behind the first p of s when none of them weighs
\* more, and the next, if there is one, does.
LEMMA PlaceIs ==
  ASSUME GlthreadAssumption, NEW s \in Seq(Node), NEW n \in Node, NEW p \in 0 .. Len(s),
         NEW q, q = p + 1, \A i \in 1 .. p : ~ComesBefore(n, s[i]),
         q \in 1 .. Len(s) => ComesBefore(n, s[q])
  PROVE  Promise!Place(s, n) = q
<1>1. Len(s) \in Nat /\ p \in Nat /\ p <= Len(s) /\ q = p + 1 /\ q \in Nat
  OBVIOUS
<1>2. PICK H : H = {i \in 1 .. Len(s) : Weight[n] < Weight[s[i]]}
  OBVIOUS
<1>3. \A i \in H : i \in 1 .. Len(s) /\ ~ (i \in 1 .. p)
  BY <1>1, <1>2 DEF ComesBefore
<1>4. \A i \in H : i \in Nat /\ q <= i
  BY <1>1, <1>3
<1>5. Promise!Place(s, n) = IF H = {} THEN Len(s) + 1 ELSE Promise!Min(H)
  BY <1>2 DEF Promise!Place
<1>6. CASE p = Len(s)
  <2>1. \A i \in H : FALSE
    BY <1>1, <1>3, <1>6
  <2> QED BY <1>1, <1>5, <1>6, <2>1
<1>7. CASE p # Len(s)
  <2>1. q \in 1 .. Len(s)
    BY <1>1, <1>7
  <2>2. q \in H
    BY <1>2, <2>1 DEF ComesBefore
  <2>3. \A i \in H : (\A j \in H : i <= j) <=> i = q
    BY <1>1, <1>4, <2>2
  <2>4. Promise!Min(H) = q
    BY <2>2, <2>3 DEF Promise!Min
  <2> QED BY <1>5, <2>2, <2>4
<1> QED BY <1>6, <1>7

LEMMA WalkToPlaceImplements ==
  ASSUME GlthreadAssumption, NEW L0, Began(L0), NEW s, s = L0[call.at], NEW p, EndAt(s, p),
         WalkToPlace
  PROVE  Impl' /\ (Promise!Return \/ UNCHANGED <<ListsNow, call, result>>)
<1>1. /\ glue = before /\ OnLists(before, L0) /\ p \in 0 .. Len(s) /\ curr = At(s, call.at, p + 1)
      /\ call.op = "priority_insert" /\ \A i \in 1 .. p : ~ComesBefore(call.node, s[i])
  BY DEF Began, EndAt, WalkToPlace
<1>2. call.at \in Heads /\ call.node \in Node /\ before[call.node] = Detached
  BY <1>1, GivenAtAHead DEF Began
<1>3. s \in Seq(Node) /\ Len(s) \in Nat
  BY <1>1, <1>2, HeadsAreThreads DEF OnLists
<1>4. CASE curr # NULL /\ ~ComesBefore(call.node, curr)
  <2>1. PICK n : n = count
    OBVIOUS
  <2>2. Round(glue, curr, n)
    BY <1>4, <2>1 DEF WalkToPlace
  <2> QED BY <1>1, <1>2, <1>4, <2>1, <2>2, RoundToEnd
<1>5. CASE ~ (curr # NULL /\ ~ComesBefore(call.node, curr))
  <2>1. PICK c, q, n : c = Last /\ q = p + 1 /\ n = call.node
    OBVIOUS
  <2>2. Spot(L0, c, call.at, p)
    BY <1>1, <1>2, <2>1, LastIs
  <2>3. Returns(AddNext(glue, c, call.node), NULL)
    BY <1>5, <2>1 DEF WalkToPlace
  <2>4. /\ Impl' /\ result' = NULL /\ call # Promise!NoCall /\ call' = Promise!NoCall
        /\ ListsNow[call.at] = s
        /\ ListsNow' = [ListsNow EXCEPT
                          ![call.at] = Promise!InsertAt(ListsNow[call.at], q, call.node)]
    BY <1>1, <1>2, <2>1, <2>2, <2>3, InsertReturns
  <2>5. q \in 1 .. Len(s) => ComesBefore(n, s[q])
    <3>1. /\ curr = NULL <=> p = Len(s)
          /\ curr # NULL => curr = s[p + 1]
      BY <1>1, <1>3, CurrIs
    <3>2. q \in 1 .. Len(s) => p # Len(s)
      BY <1>1, <1>3, <2>1
    <3> QED BY <1>5, <2>1, <3>1, <3>2
  <2>6. Promise!Place(s, n) = q
    BY <1>1, <1>2, <1>3, <2>1, <2>5, PlaceIs
  <2>7. Promise!Inserts
    BY <1>1, <2>1, <2>4, <2>6 DEF Promise!Inserts, Promise!Answers
  <2> QED BY <2>4, <2>7 DEF Promise!Return
<1> QED BY <1>4, <1>5

FollowedBy(g, c, t, o) == IF o = Len(t) THEN g[c].right = NULL ELSE g[c].right = t[o + 1]

LEMMA FollowsIt ==
  ASSUME GlthreadAssumption, NEW g, NEW L, OnLists(g, L), NEW c, NEW h, NEW o, Spot(L, c, h, o),
         NEW t, t = L[h]
  PROVE  FollowedBy(g, c, t, o)
BY NextSpot DEF FollowedBy

IsNext(g, L, h, s, q, t, o, c) ==
  /\ q \in 1 .. Len(s) /\ c = s[q] /\ c \in Node /\ Spot(L, c, h, o) /\ o # 0
  /\ t \in Seq(Node) /\ o \in 1 .. Len(t) /\ g[c].right = At(s, h, q + 1)
\* Where the walk stands is the next of the list as it is now, behind k.
LEMMA NextOfJoined ==
  ASSUME GlthreadAssumption, NEW g, NEW L, OnLists(g, L), NEW h \in AllHeads, NEW s \in Seq(Node),
         NEW k \in Seq(Node), NEW p \in 0 .. Len(s), NEW t, t = L[h], t = Joined(k, s, p),
         NEW q, q = p + 1, NEW c, c = At(s, h, q), c # NULL, NEW o, o = Len(k) + 1
  PROVE  IsNext(g, L, h, s, q, t, o, c)
<1>1. Len(s) \in Nat /\ Len(k) \in Nat /\ p \in Nat /\ p <= Len(s)
  OBVIOUS
<1>2. p + 1 \in 1 .. Len(s) /\ c = s[p + 1] /\ c \in Node
  BY CurrIs
<1>3. t = L[h]
  OBVIOUS
<1>4. IsJoined(t, k, s, p, Node)
  BY JoinedDef
<1>5. t \in Seq(Node) /\ Len(t) = Len(k) + (Len(s) - p)
  BY <1>4 DEF IsJoined
<1>6. q \in 1 .. Len(s) /\ o \in 1 .. Len(t) /\ o \in 0 .. Len(t) /\ o # 0 /\ o <= Len(t)
      /\ o \in 1 .. Len(k) + (Len(s) - p) /\ ~ (o <= Len(k)) /\ (o - Len(k)) + p = q
  BY <1>1, <1>2, <1>5
<1>7. t[o] = s[q]
  <2>1. t[o] = s[(o - Len(k)) + p]
    BY <1>4, <1>6 DEF IsJoined
  <2> QED BY <1>6, <2>1
<1>8. Spot(L, c, h, o)
  BY <1>2, <1>3, <1>6, <1>7 DEF Spot, At
<1>f. IF o = Len(t) THEN g[c].right = NULL ELSE g[c].right = t[o + 1]
  <2>1. FollowedBy(g, c, t, o)
    BY <1>8, FollowsIt
  <2> QED BY <2>1 DEF FollowedBy
<1>9. g[c].right = At(s, h, q + 1)
  <2>1. CASE q = Len(s)
    <3>1. q + 1 # 0 /\ ~ (q + 1 <= Len(s))
      BY <1>1, <2>1
    <3>3. Len(s) = p + 1
      BY <2>1
    <3>4. Len(k) + (Len(s) - p) = Len(k) + 1
      BY <1>1, <3>3
    <3>5. o = Len(t)
      BY <1>5, <3>4
    <3>2. g[c].right = NULL
      BY <1>f, <3>5
    <3> QED BY <3>1, <3>2 DEF At
  <2>2. CASE q # Len(s)
    <3>1. /\ o # Len(t) /\ q + 1 # 0 /\ q + 1 <= Len(s)
          /\ o + 1 \in 1 .. Len(k) + (Len(s) - p) /\ ~ (o + 1 <= Len(k))
          /\ ((o + 1) - Len(k)) + p = q + 1
      BY <1>1, <1>5, <1>6, <2>2
    <3>2. g[c].right = t[o + 1]
      BY <1>f, <3>1
    <3>3. t[o + 1] = s[((o + 1) - Len(k)) + p]
      BY <1>4, <3>1 DEF IsJoined
    <3>4. t[o + 1] = s[q + 1]
      BY <3>1, <3>3
    <3> QED BY <3>1, <3>2, <3>4 DEF At
  <2> QED BY <2>1, <2>2
<1> QED BY <1>2, <1>5, <1>6, <1>7, <1>8, <1>9 DEF IsNext

\* What the algebra says of lists of nodes.
LEMMA RemovedNext ==
  ASSUME NEW k \in Seq(Node), NEW s \in Seq(Node), NEW p \in 0 .. Len(s), NEW q, q = p + 1,
         q \in 1 .. Len(s), NEW o, o = Len(k) + 1, NEW t, t = Joined(k, s, p), NEW u, u = Del(t, o)
  PROVE  u = Joined(k, s, q)
<1>1. p \in 0 .. Len(s) - 1
  OBVIOUS
<1>2. Del(t, Len(k) + 1) = Joined(k, s, p + 1)
  BY <1>1, NextRemoved
<1> QED BY <1>2

LEMMA WalkedOver ==
  ASSUME NEW k \in Seq(Node), NEW s \in Seq(Node), NEW p, p = Len(s), NEW u, u = Joined(k, s, p)
  PROVE  u = k
BY NoneJoined

LEMMA WalkAndRemoveImplements ==
  ASSUME GlthreadAssumption, NEW L0, Began(L0), NEW s, s = L0[call.at],
         NEW L, OnLists(glue, L), Same(L, L0, call.at), NEW p, NEW k, DeleteAt(s, L, p, k),
         WalkAndRemove
  PROVE  Impl' /\ (Promise!Return \/ UNCHANGED <<ListsNow, call, result>>)
<1>1. /\ call.op = "delete" /\ Len(L[temp_list]) = 0 /\ OnLists(before, L0)
      /\ p \in 0 .. Len(s) /\ curr = At(s, call.at, p + 1)
      /\ k \in Seq(Node) /\ Len(k) = 0 /\ L[call.at] = Joined(k, s, p)
  BY DEF Began, DeleteAt
<1>k. p \in 0 .. Len(s) /\ k \in Seq(Node)
  BY <1>1
<1>2. call.at \in Heads
  BY <1>1, GivenAtAHead DEF Began
<1>3. PICK h : h = call.at
  OBVIOUS
<1>4. h \in AllHeads /\ h # temp_list /\ s \in Seq(Node) /\ Len(s) \in Nat
  BY <1>1, <1>2, <1>3, HeadsAreThreads DEF OnLists
<1>s. s \in Seq(Node) /\ h \in AllHeads
  BY <1>4
<1>5. CASE curr # NULL
  <2>1. PICK c, q, o, t, u, M, g :
          /\ c = curr /\ q = p + 1 /\ o = Len(k) + 1 /\ t = L[h] /\ u = Del(t, o)
          /\ M = Put(L, h, u) /\ g = RemoveThread(glue, c)
    OBVIOUS
  <2>3. t = Joined(k, s, p) /\ c = At(s, h, q) /\ c # NULL
    BY <1>1, <1>3, <1>5, <2>1
  <2>2. /\ q \in 1 .. Len(s) /\ Spot(L, c, h, o) /\ o # 0 /\ o \in 1 .. Len(t)
        /\ t \in Seq(Node) /\ glue[c].right = At(s, h, q + 1)
    <3>1. q = p + 1 /\ o = Len(k) + 1 /\ t = L[h]
      BY <2>1
    <3>2. IsNext(glue, L, h, s, q, t, o, c)
      BY <1>k, <1>s, <2>3, <3>1, NextOfJoined
    <3> QED BY <3>2 DEF IsNext
  <2>4. IsDel(u, t, o, Node)
    BY <2>1, <2>2, DelDef
  <2>5. OnLists(g, M)
    BY <2>1, <2>2, <2>4, RemoveOnLists
  <2>6. u = Joined(k, s, q)
    <3>1. q = p + 1 /\ o = Len(k) + 1 /\ u = Del(t, o)
      BY <2>1
    <3>2. q \in 1 .. Len(s) /\ t = Joined(k, s, p)
      BY <2>2, <2>3
    <3> QED BY <1>k, <1>s, <3>1, <3>2, RemovedNext
  <2>7. M[h] = u /\ Len(M[temp_list]) = 0 /\ Same(M, L0, h)
    BY <1>1, <1>3, <1>4, <2>1, HeadsAreThreads DEF Put, Same
  <2>8. /\ glue' = g /\ curr' = glue[c].right /\ UNCHANGED <<call, phase, result, before>>
    BY <1>5, <2>1 DEF WalkAndRemove, Round
  <2>9. Began(L0)' /\ UNCHANGED <<ListsNow, call, result>>
    BY <2>8, StillUnderWay
  <2>10. DeleteAt(s, M, q, k)'
    <3>1. q \in 0 .. Len(s)
      BY <1>4, <2>2
    <3>2. call'.op = "delete" /\ call'.at = h /\ curr' = At(s, call'.at, q + 1)
      BY <1>1, <1>3, <2>2, <2>8
    <3> QED BY <1>1, <2>6, <2>7, <3>1, <3>2 DEF DeleteAt
  <2>11. OnLists(glue', M) /\ Same(M, L0, call'.at) /\ s = L0[call'.at]
    BY <1>3, <2>5, <2>7, <2>8
  <2>12. Busy'
    BY <2>9, <2>10, <2>11, BusyChanging
  <2> QED BY <2>9, <2>12 DEF Impl
<1>6. CASE curr = NULL
  <2>1. p = Len(s)
    BY <1>1, <1>4, <1>6, CurrIs
  <2>2. PICK t : t = L[h]
    OBVIOUS
  <2>3. t = k
    <3>1. t = Joined(k, s, p)
      BY <1>1, <1>3, <2>2
    <3> QED BY <1>k, <1>s, <2>1, <3>1, WalkedOver
  <2>4. L[call.at] = << >>
    BY <1>1, <1>3, <2>2, <2>3
  <2>5. Returns(glue, NULL)
    BY <1>6 DEF WalkAndRemove
  <2>6. /\ Impl' /\ ListsNow = Shown(L0) /\ ListsNow' = Shown(L)
        /\ result' = NULL /\ call # Promise!NoCall /\ call' = Promise!NoCall
    BY <1>1, <2>5, Returned
  <2>7. PICK e : e = L[call.at]
    OBVIOUS
  <2>8. ListsNow' = [ListsNow EXCEPT ![call.at] = e]
    BY <1>2, <2>6, <2>7, Answered
  <2>9. Promise!Takes
    BY <1>1, <2>4, <2>6, <2>7, <2>8 DEF Promise!Takes, Promise!Answers
  <2> QED BY <2>6, <2>9 DEF Promise!Return
<1> QED BY <1>5, <1>6

LEMMA DelNext ==
  ASSUME NEW k, Nodes(k), NEW s, NEW p, NEW q, Stands(s, p, q), NEW o, Behind(k, o),
         NEW t, t = Joined(k, s, p), NEW u, u = Del(t, o)
  PROVE  u = Joined(k, s, q)
<1>1. k \in Seq(Node) /\ s \in Seq(Node) /\ p \in 0 .. Len(s) /\ q = p + 1 /\ q \in 1 .. Len(s)
      /\ o = Len(k) + 1
  BY StandsIs DEF Nodes, Behind
<1> QED BY <1>1, RemovedNext

LEMMA LongerBack ==
  ASSUME NEW s, NEW p, NEW q, Stands(s, p, q),
         NEW x, x = s[q], NEW w, w = Back(s, p), NEW z, Zero(z), NEW v, v = Ins(w, z, x)
  PROVE  v = Back(s, q)
<1>1. PICK b, o, e : b = Back(s, q) /\ o = 1 /\ e = Del(b, o)
  OBVIOUS
<1>2. One(o)
  BY <1>1 DEF One
<1>3. b = Back(s, q) /\ e = Del(b, o)
  BY <1>1
<1>4. v = b
  BY <1>2, <1>3, NextBack
<1> QED BY <1>1, <1>4

NextOfKept(k, j, x, keep) == j = IF x \in keep THEN Append(k, x) ELSE k

LEMMA KeptNext ==
  ASSUME NEW s, NEW keep, NEW p, NEW q, Stands(s, p, q),
         NEW k, k = Promise!Kept(s, keep)[p], NEW j, j = Promise!Kept(s, keep)[q],
         NEW x, x = s[q]
  PROVE  NextOfKept(k, j, x, keep)
<1>1. s \in Seq(Node) /\ p \in 0 .. Len(s) - 1 /\ q = p + 1
  BY StandsIs
<1>2. PICK f : f = Promise!Kept(s, keep)
  OBVIOUS
<1>3. \A i \in 0 .. Len(s) - 1 :
        f[i + 1] = IF s[i + 1] \in keep THEN Append(f[i], s[i + 1]) ELSE f[i]
  BY <1>1, <1>2, KeptIs
<1>4. f[p + 1] = IF s[p + 1] \in keep THEN Append(f[p], s[p + 1]) ELSE f[p]
  BY <1>1, <1>3
<1> QED BY <1>1, <1>2, <1>4 DEF NextOfKept

Aside(g, L, N, h, u, v) ==
  /\ OnLists(g, N) /\ N[h] = u /\ N[temp_list] = v
  /\ \A m \in Heads : m # h => N[m] = L[m]

\* A node that is not kept goes to the front of temp_list.
LEMMA MovedAside ==
  ASSUME GlthreadAssumption, NEW g, NEW L, OnLists(g, L), NEW h, h \in Heads,
         NEW k, Nodes(k), NEW s, NEW p, NEW q, Stands(s, p, q), NEW t, t = L[h], t = Joined(k, s, p),
         NEW c, c = s[q], NEW o, Behind(k, o), Spot(L, c, h, o),
         NEW u, u = Joined(k, s, q), NEW w, w = L[temp_list], NEW z, Zero(z), NEW v, v = Ins(w, z, c),
         NEW M, M = Put(L, h, u), NEW N, N = Put(M, temp_list, v),
         NEW g2, g2 = Moved(g, c, temp_list)
  PROVE  Aside(g2, L, N, h, u, v)
<1>1. PICK d, a : d = Del(t, o) /\ a = temp_list
  OBVIOUS
<1>2. h \in AllHeads /\ a \in AllHeads /\ a # h /\ Heads \subseteq AllHeads /\ a \notin Heads
  BY <1>1, HeadsAreThreads
<1>3. d = Joined(k, s, q)
  BY <1>1, DelNext
<1>4. c \in Node /\ t \in Seq(Node) /\ o \in Nat /\ o # 0 /\ o \in 1 .. Len(t)
  <2>1. c \in Node
    BY StandsIs
  <2>2. o # 0
    <3>1. Len(k) \in Nat
      BY DEF Nodes
    <3> QED BY <3>1 DEF Behind
  <2>3. L[h] \in Seq(Node) /\ o \in 1 .. Len(L[h])
    BY <2>2, SpotIs
  <2> QED BY <2>1, <2>2, <2>3
<1>6. IsDel(u, t, o, Node)
  <2>1. u = Del(t, o)
    BY <1>1, <1>3
  <2> QED BY <1>4, <2>1, DelDef
<1>7. w \in Seq(Node)
  BY <1>1, <1>2 DEF OnLists
<1>8. IsIns(v, w, z, c, Node)
  <2>1. z \in 0 .. Len(w)
    BY <1>7 DEF Zero
  <2> QED BY <1>4, <1>7, <2>1, InsDef
<1>9. w = L[a] /\ N = Put(M, a, v) /\ g2 = Moved(g, c, a)
  BY <1>1
<1>10. OnLists(g2, N)
  <2>1. ~ Zero(o) /\ a \in AllHeads /\ a # h
    BY <1>2, <1>4 DEF Zero
  <2> QED BY <1>6, <1>8, <1>9, <2>1, MovedOnLists, Zenon
<1>11. N[h] = u /\ N[a] = v /\ \A m \in Heads : m # h => N[m] = L[m]
  BY <1>2, <1>9 DEF Put
<1> QED BY <1>1, <1>10, <1>11 DEF Aside

\* What the walk knows.
LEMMA SelectIs ==
  ASSUME GlthreadAssumption, NEW L0, Began(L0), NEW s, s = L0[call.at], NEW h, h = call.at,
         call.op \in {"collect", "exact"}
  PROVE  /\ h \in Heads /\ h \in AllHeads /\ s \in Seq(Node)
         /\ call.op = "exact" => \E n : call.keep = {n}
<1>1. OnLists(before, L0) /\ Given(L0) /\ call.op \notin {"add_before", "remove"}
  BY DEF Began
<1>2. call.at \in Heads /\ (call.op = "exact" => \E n : call.keep = {n})
  BY <1>1, GivenAtAHead
<1>3. h \in AllHeads
  BY <1>2, HeadsAreThreads
<1>4. s \in Seq(Node)
  BY <1>1, <1>3 DEF OnLists
<1> QED BY <1>2, <1>3, <1>4

\* What holds of the walk after a round.
LEMMA SelectAgain ==
  ASSUME GlthreadAssumption, NEW L0, Began(L0), NEW s, s = L0[call.at],
         UNCHANGED <<call, before, result>>, NEW q, NEW j,
         NEW N, OnLists(glue', N), Same(N, L0, call.at), SelectAt(s, N, q, j)'
  PROVE  Impl' /\ UNCHANGED <<ListsNow, call, result>>
<1>1. Began(L0)' /\ UNCHANGED <<ListsNow, call, result>>
  BY StillUnderWay
<1>2. s = L0[call'.at] /\ Same(N, L0, call'.at)
  OBVIOUS
<1>3. Busy'
  BY <1>1, <1>2, BusyChanging
<1> QED BY <1>1, <1>3 DEF Impl

\* Of the options of a param at most one has the name that was typed.
LEMMA OneOfTheName ==
  ASSUME GlthreadAssumption, NEW L0, OnLists(before, L0), NEW h \in AllHeads, NEW s, s = L0[h],
         NEW p, NEW q, Stands(s, p, q), NEW n, NEW i, i \in 1 .. p, s[i] \in {n}, s[q] \in {n}
  PROVE  FALSE
<1>1. s[i] = s[q] /\ Apart(L0)
  BY DEF OnLists
<1>2. s \in Seq(Node) /\ p \in 0 .. Len(s) /\ q \in 1 .. Len(s) /\ q = p + 1
  BY StandsIs
<1>3. Len(s) \in Nat /\ p \in Nat
  BY <1>2
<1>4. i \in 1 .. Len(s) /\ i # q
  BY <1>2, <1>3
<1> QED BY <1>1, <1>2, <1>4 DEF Apart

LEMMA WalkAsideImplements ==
  ASSUME GlthreadAssumption, NEW L0, Began(L0), NEW s, s = L0[call.at],
         NEW L, OnLists(glue, L), Same(L, L0, call.at), NEW p, NEW k, SelectAt(s, L, p, k),
         NEW h, h = call.at, h \in Heads, Nodes(k), NEW q, Stands(s, p, q), NEW o, Behind(k, o),
         NEW c, c = curr, c = s[q], Spot(L, c, h, o), glue[c].right = At(s, h, q + 1),
         NotSelected(c), Round(Moved(glue, c, temp_list), prev, count)
  PROVE  Impl' /\ UNCHANGED <<ListsNow, call, result>>
<1>1. /\ call.op \in {"collect", "exact"} /\ phase = "walk"
      /\ k = Promise!Kept(s, call.keep)[p] /\ k \in Seq(Node) /\ count = Len(k)
      /\ L[call.at] = Joined(k, s, p)
      /\ count = 0 => L[temp_list] = Back(s, p)
      /\ call.op = "exact" => count = 0 \/ (count = 1 /\ \E i \in 1 .. p : s[i] \in call.keep)
  BY DEF SelectAt
<1>2. PICK t, u, w, z, v, M, N, g :
        /\ t = L[h] /\ u = Joined(k, s, q) /\ w = L[temp_list] /\ z = 0 /\ v = Ins(w, z, c)
        /\ M = Put(L, h, u) /\ N = Put(M, temp_list, v) /\ g = Moved(glue, c, temp_list)
  OBVIOUS
<1>3. Zero(z)
  BY <1>2 DEF Zero
<1>4. /\ OnLists(g, N) /\ N[h] = u /\ N[temp_list] = v
      /\ \A m \in Heads : m # h => N[m] = L[m]
  <2>1. t = L[h] /\ t = Joined(k, s, p) /\ u = Joined(k, s, q) /\ w = L[temp_list] /\ v = Ins(w, z, c)
    BY <1>1, <1>2
  <2>2. M = Put(L, h, u) /\ N = Put(M, temp_list, v) /\ g = Moved(glue, c, temp_list)
    BY <1>2
  <2>3. Aside(g, L, N, h, u, v)
    BY <1>3, <2>1, <2>2, MovedAside
  <2> QED BY <2>3 DEF Aside
<1>5. /\ glue' = g /\ prev' = prev /\ count' = count /\ curr' = glue[c].right
      /\ UNCHANGED <<call, phase, before, result>>
  BY <1>2 DEF Round
<1>6. PICK j : j = Promise!Kept(s, call.keep)[q]
  OBVIOUS
<1>7. j = k
  <2>1. PICK keep : keep = call.keep
    OBVIOUS
  <2>2. k = Promise!Kept(s, keep)[p] /\ j = Promise!Kept(s, keep)[q]
    BY <1>1, <1>6, <2>1
  <2>3. NextOfKept(k, j, c, keep)
    BY <2>2, KeptNext
  <2> QED BY <2>1, <2>3 DEF NotSelected, NextOfKept
<1>8. count' = 0 => N[temp_list] = Back(s, q)
  <2>1. SUFFICES ASSUME count = 0 PROVE v = Back(s, q)
    BY <1>4, <1>5
  <2>2. w = Back(s, p) /\ v = Ins(w, z, c)
    BY <1>1, <1>2, <2>1
  <2> QED BY <1>3, <2>2, LongerBack
<1>9. q \in 0 .. Len(s) /\ q = p + 1 /\ p \in 0 .. Len(s)
  BY StandsIs
<1>10. call.op = "exact" => count' = 0 \/ (count' = 1 /\ \E i \in 1 .. q : s[i] \in call.keep)
  <2>1. \A i \in 1 .. p : i \in 1 .. q
    BY <1>9
  <2> QED BY <1>1, <1>5, <2>1
<1>11. Same(N, L0, h)
  BY <1>4 DEF Same
<1>12. /\ q \in 0 .. Len(s) /\ curr' = At(s, h, q + 1) /\ j \in Seq(Node) /\ count' = Len(j)
       /\ OnLists(glue', N) /\ N[h] = Joined(j, s, q)
  BY <1>1, <1>2, <1>4, <1>5, <1>7, <1>9
<1>13. SelectAt(s, N, q, j)'
  BY <1>1, <1>5, <1>6, <1>8, <1>10, <1>12 DEF SelectAt
<1>14. OnLists(glue', N) /\ Same(N, L0, call.at) /\ UNCHANGED <<call, before, result>>
  BY <1>5, <1>11, <1>12
<1> QED BY <1>13, <1>14, SelectAgain

LEMMA WalkKeepsImplements ==
  ASSUME GlthreadAssumption, NEW L0, Began(L0), NEW s, s = L0[call.at],
         NEW L, OnLists(glue, L), Same(L, L0, call.at), NEW p, NEW k, SelectAt(s, L, p, k),
         NEW h, h = call.at, h \in Heads, Nodes(k), NEW q, Stands(s, p, q),
         call.op = "exact" => \E n : call.keep = {n},
         NEW c, c = curr, c = s[q], glue[c].right = At(s, h, q + 1),
         ~ NotSelected(c), Round(glue, prev, count + 1)
  PROVE  Impl' /\ UNCHANGED <<ListsNow, call, result>>
<1>1. /\ call.op \in {"collect", "exact"} /\ phase = "walk"
      /\ k = Promise!Kept(s, call.keep)[p] /\ k \in Seq(Node) /\ count = Len(k)
      /\ L[call.at] = Joined(k, s, p)
      /\ call.op = "exact" => count = 0 \/ (count = 1 /\ \E i \in 1 .. p : s[i] \in call.keep)
  BY DEF SelectAt
<1>2. PICK j, t : j = Append(k, c) /\ t = L[h]
  OBVIOUS
<1>3. j \in Seq(Node) /\ Len(j) = Len(k) + 1 /\ t = Joined(j, s, q)
  <2>1. j = Append(k, c) /\ t = Joined(k, s, p)
    BY <1>1, <1>2
  <2>2. KeptMore(k, j, s, q, t)
    BY <2>1, KeptOne
  <2> QED BY <2>2 DEF KeptMore
<1>4. j = Promise!Kept(s, call.keep)[q]
  <2>1. PICK i : i = Promise!Kept(s, call.keep)[q]
    OBVIOUS
  <2>2. PICK keep : keep = call.keep
    OBVIOUS
  <2>3. k = Promise!Kept(s, keep)[p] /\ i = Promise!Kept(s, keep)[q]
    BY <1>1, <2>1, <2>2
  <2>4. NextOfKept(k, i, c, keep)
    BY <2>3, KeptNext
  <2> QED BY <1>2, <2>1, <2>2, <2>4 DEF NotSelected, NextOfKept
<1>5. /\ glue' = glue /\ count' = count + 1 /\ curr' = glue[c].right
      /\ UNCHANGED <<call, phase, before, result>>
  BY DEF Round
<1>6. count' = Len(j) /\ count' # 0
  <2>1. Len(k) \in Nat
    BY <1>1
  <2> QED BY <1>1, <1>3, <1>5, <2>1
<1>9. q \in 0 .. Len(s) /\ q = p + 1 /\ p \in 0 .. Len(s) /\ q \in 1 .. q
  BY StandsIs
<1>10. call.op = "exact" => count' = 0 \/ (count' = 1 /\ \E i \in 1 .. q : s[i] \in call.keep)
  <2>1. SUFFICES ASSUME call.op = "exact"
                 PROVE  count' = 1 /\ \E i \in 1 .. q : s[i] \in call.keep
    OBVIOUS
  <2>2. s[q] \in call.keep
    BY DEF NotSelected
  <2>3. PICK n : call.keep = {n}
    BY <2>1
  <2>4. count = 0
    <3>1. SUFFICES ASSUME count # 0 PROVE FALSE
      OBVIOUS
    <3>2. PICK i \in 1 .. p : s[i] \in call.keep
      BY <1>1, <2>1, <3>1
    <3>3. OnLists(before, L0) /\ h \in AllHeads /\ s = L0[h] /\ s[i] \in {n} /\ s[q] \in {n}
      BY <2>2, <2>3, <3>2, HeadsAreThreads DEF Began
    <3>4. i \in 1 .. p
      OBVIOUS
    <3> QED BY <3>3, <3>4, OneOfTheName
  <2>5. count' = 1
    BY <1>5, <2>4
  <2> QED BY <1>9, <2>2, <2>5
<1>12. /\ q \in 0 .. Len(s) /\ curr' = At(s, h, q + 1)
       /\ OnLists(glue', L) /\ L[h] = Joined(j, s, q)
  BY <1>2, <1>3, <1>5, <1>9
<1>13. SelectAt(s, L, q, j)'
  BY <1>1, <1>3, <1>4, <1>5, <1>6, <1>10, <1>12 DEF SelectAt
<1>14. OnLists(glue', L) /\ Same(L, L0, call.at) /\ UNCHANGED <<call, before, result>>
  BY <1>5, <1>12
<1> QED BY <1>13, <1>14, SelectAgain

LEMMA WalkIsOverImplements ==
  ASSUME GlthreadAssumption, NEW L0, Began(L0), NEW s, s = L0[call.at], s \in Seq(Node),
         NEW L, OnLists(glue, L), Same(L, L0, call.at), NEW p, NEW k, SelectAt(s, L, p, k),
         NEW h, h = call.at, curr = NULL,
         phase' = (IF Restores THEN "restore" ELSE "drain"),
         UNCHANGED <<glue, call, prev, curr, count, result, before>>
  PROVE  Impl' /\ UNCHANGED <<ListsNow, call, result>>
<1>1. /\ call.op \in {"collect", "exact"} /\ p \in 0 .. Len(s)
      /\ k = Promise!Kept(s, call.keep)[p] /\ k \in Seq(Node) /\ count = Len(k)
      /\ L[call.at] = Joined(k, s, p)
      /\ count = 0 => L[temp_list] = Back(s, p)
      /\ call.op = "exact" => count = 0 \/ count = 1
      /\ curr = At(s, h, p + 1)
  BY DEF SelectAt
<1>2. p = Len(s)
  <2>1. p \in 0 .. Len(s) /\ curr = At(s, h, p + 1)
    BY <1>1
  <2> QED BY <2>1, CurrIs
<1>3. Began(L0)' /\ UNCHANGED <<ListsNow, call, result>>
  BY StillUnderWay
<1>4. OnLists(glue', L) /\ Same(L, L0, call'.at) /\ s = L0[call'.at]
  BY DEF OnLists, GoesOn, GoesBack
<1>5. CASE Restores
  <2>1. count = 0
    BY <1>1, <1>5 DEF Restores
  <2>2. RestoreAt(s, L, p, k)'
    BY <1>1, <1>2, <1>5, <2>1 DEF RestoreAt
  <2>3. Busy'
    BY <1>3, <1>4, <2>2, BusyChanging
  <2> QED BY <1>3, <2>3 DEF Impl
<1>6. CASE ~ Restores
  <2>1. PICK t : t = Joined(k, s, p)
    OBVIOUS
  <2>2. k \in Seq(Node)
    BY <1>1
  <2>3. t = k
    BY <1>2, <2>1, <2>2, WalkedOver
  <2>4. Restores' = Restores
    BY DEF Restores
  <2>5. DrainAt(s, L, k)'
    BY <1>1, <1>2, <1>6, <2>1, <2>3, <2>4 DEF DrainAt
  <2>6. Busy'
    BY <1>3, <1>4, <2>5, BusyChanging
  <2> QED BY <1>3, <2>6 DEF Impl
<1> QED BY <1>5, <1>6

LEMMA WalkAndSelectImplements ==
  ASSUME GlthreadAssumption, NEW L0, Began(L0), NEW s, s = L0[call.at],
         NEW L, OnLists(glue, L), Same(L, L0, call.at), NEW p, NEW k, SelectAt(s, L, p, k),
         WalkAndSelect
  PROVE  Impl' /\ UNCHANGED <<ListsNow, call, result>>
<1>1. /\ call.op \in {"collect", "exact"} /\ p \in 0 .. Len(s) /\ k \in Seq(Node)
      /\ L[call.at] = Joined(k, s, p) /\ curr = At(s, call.at, p + 1)
  BY DEF SelectAt
<1>2. PICK h : h = call.at
  OBVIOUS
<1>3. h \in Heads /\ h \in AllHeads /\ s \in Seq(Node) /\ (call.op = "exact" => \E n : call.keep = {n})
  BY <1>1, <1>2, SelectIs
<1>4. CASE curr # NULL
  <2>1. PICK c, q, o, t : c = curr /\ q = p + 1 /\ o = Len(k) + 1 /\ t = L[h]
    OBVIOUS
  <2>2. IsNext(glue, L, h, s, q, t, o, c)
    <3>1. p \in 0 .. Len(s) /\ k \in Seq(Node)
      BY <1>1
    <3>2. t = Joined(k, s, p) /\ c = At(s, h, q) /\ c # NULL
      BY <1>1, <1>2, <1>4, <2>1
    <3>3. q = p + 1 /\ o = Len(k) + 1 /\ t = L[h] /\ h \in AllHeads /\ s \in Seq(Node)
      BY <1>3, <2>1
    <3> QED BY <3>1, <3>2, <3>3, NextOfJoined
  <2>3. q \in 1 .. Len(s) /\ c = s[q] /\ Spot(L, c, h, o) /\ glue[c].right = At(s, h, q + 1)
    BY <2>2 DEF IsNext
  <2>4. Stands(s, p, q) /\ Behind(k, o) /\ Nodes(k)
    BY <1>1, <1>3, <2>1, <2>3 DEF Stands, Behind, Nodes
  <2>5. c = s[q] /\ Spot(L, c, h, o) /\ glue[c].right = At(s, h, q + 1) /\ c = curr /\ h \in Heads
    BY <1>3, <2>1, <2>3
  <2>6. CASE NotSelected(c)
    <3>1. Round(Moved(glue, c, temp_list), prev, count)
      BY <1>4, <2>1, <2>6 DEF WalkAndSelect
    <3> QED BY <1>2, <2>4, <2>5, <2>6, <3>1, WalkAsideImplements
  <2>7. CASE ~ NotSelected(c)
    <3>1. Round(glue, prev, count + 1)
      BY <1>4, <2>1, <2>7 DEF WalkAndSelect
    <3>2. call.op = "exact" => \E n : call.keep = {n}
      BY <1>3
    <3> QED BY <1>2, <2>4, <2>5, <2>7, <3>1, <3>2, WalkKeepsImplements
  <2> QED BY <2>6, <2>7
<1>5. CASE curr = NULL
  <2>1. phase' = (IF Restores THEN "restore" ELSE "drain")
        /\ UNCHANGED <<glue, call, prev, curr, count, result, before>>
    BY <1>5 DEF WalkAndSelect
  <2>2. s \in Seq(Node)
    BY <1>3
  <2> QED BY <1>2, <1>5, <2>1, <2>2, WalkIsOverImplements
<1> QED BY <1>4, <1>5

\* What is read at the head of a list.
FirstOf(L, h, w, d, o) ==
  /\ w \in Seq(Node) /\ (d = NULL <=> Len(w) = 0)
  /\ d # NULL => d \in Node /\ o \in 1 .. Len(w) /\ d = w[o] /\ Spot(L, d, h, o)

LEMMA FirstIs ==
  ASSUME GlthreadAssumption, NEW g, NEW L, OnLists(g, L), NEW h \in AllHeads, NEW w, w = L[h],
         NEW d, d = g[h].right, NEW o, One(o)
  PROVE  FirstOf(L, h, w, d, o)
<1>1. w \in Seq(Node) /\ Len(w) \in Nat
  BY DEF OnLists
<1>2. PICK z : z = 0
  OBVIOUS
<1>3. Spot(L, h, h, z)
  BY <1>1, <1>2 DEF Spot, At
<1>4. FollowedBy(g, h, w, z)
  BY <1>3, FollowsIt
<1>5. CASE Len(w) = 0
  BY <1>1, <1>2, <1>4, <1>5 DEF FirstOf, FollowedBy
<1>6. CASE Len(w) # 0
  <2>1. o \in 1 .. Len(w) /\ o = z + 1 /\ z # Len(w) /\ o \in 0 .. Len(w) /\ o # 0 /\ o <= Len(w)
    BY <1>1, <1>2, <1>6 DEF One
  <2>2. d = w[o]
    BY <1>4, <2>1 DEF FollowedBy
  <2>3. d \in Node /\ d # NULL
    BY <1>1, <2>1, <2>2, HeadsAreThreads
  <2>4. Spot(L, d, h, o)
    BY <2>1, <2>2 DEF Spot, At
  <2> QED BY <1>1, <1>6, <2>1, <2>2, <2>3, <2>4 DEF FirstOf
<1> QED BY <1>5, <1>6

\* The next of temp_list goes back to the head of the list.
LEMMA MovedBack ==
  ASSUME GlthreadAssumption, NEW g, NEW L, OnLists(g, L), NEW h, h \in Heads,
         NEW a, a = temp_list, NEW s, NEW p, NEW q, Stands(s, p, q), NEW k, Empty(k),
         NEW t, t = L[h], t = Joined(k, s, q), NEW w, w = L[a], w = Back(s, q),
         NEW c, NEW o, One(o), Spot(L, c, a, o),
         NEW u, u = Joined(k, s, p), NEW e, e = Back(s, p),
         NEW M, M = Put(L, a, e), NEW N, N = Put(M, h, u), NEW g2, g2 = Moved(g, c, h)
  PROVE  Aside(g2, L, N, h, u, e)
<1>1. PICK z, x, d, f, v : z = 0 /\ x = s[q] /\ d = Ins(e, z, x) /\ f = Del(w, o) /\ v = Ins(t, z, x)
  OBVIOUS
<1>2. Zero(z)
  BY <1>1 DEF Zero
<1>3. x = s[q] /\ d = Ins(e, z, x) /\ f = Del(w, o) /\ v = Ins(t, z, x)
  BY <1>1
<1>4. d = w /\ o \in 1 .. Len(w) /\ w[o] = x /\ f = e
  BY <1>2, <1>3, NextBack
<1>5. v = u
  BY <1>2, <1>3, NextFront
<1>6. h \in AllHeads /\ a \in AllHeads /\ h # a /\ a \notin Heads /\ Heads \subseteq AllHeads
  BY HeadsAreThreads
<1>7. t \in Seq(Node) /\ w \in Seq(Node) /\ x \in Node
  <2>1. s[q] \in Node
    BY StandsIs
  <2>2. L[h] \in Seq(Node) /\ L[a] \in Seq(Node)
    BY <1>6 DEF OnLists
  <2> QED BY <1>1, <2>1, <2>2
<1>8. c = x /\ ~ Zero(o)
  <2>1. o # 0 /\ o <= Len(w)
    BY <1>4, <1>7 DEF One
  <2>2. c = w[o]
    BY <2>1 DEF Spot, At
  <2> QED BY <1>4, <2>1, <2>2 DEF Zero
<1>9. IsDel(e, w, o, Node)
  <2>1. e = Del(w, o)
    BY <1>3, <1>4
  <2> QED BY <1>4, <1>7, <2>1, DelDef
<1>10. IsIns(u, t, z, c, Node)
  <2>1. z \in 0 .. Len(t) /\ u = Ins(t, z, c) /\ c \in Node
    BY <1>1, <1>5, <1>7, <1>8
  <2> QED BY <1>7, <2>1, InsDef
<1>11. OnLists(g2, N)
  <2>1. h \in AllHeads /\ h # a /\ ~ Zero(o) /\ Zero(z)
    BY <1>2, <1>6, <1>8
  <2> QED BY <1>9, <1>10, <2>1, MovedOnLists, Zenon
<1>12. N[h] = u /\ N[a] = e /\ \A m \in Heads : m # h => N[m] = L[m]
  BY <1>6 DEF Put
<1> QED BY <1>11, <1>12 DEF Aside

\* What is selected of a list.
LEMMA SelectedIs ==
  ASSUME NEW L0, ListsNow[call.at] = L0[call.at], NEW s, s = L0[call.at],
         NEW k, k = Promise!Kept(s, call.keep)[Len(s)]
  PROVE  Promise!Selected = k
BY DEF Promise!Selected

LEMMA DrainImplements ==
  ASSUME GlthreadAssumption, NEW L0, Began(L0), NEW s, s = L0[call.at], s \in Seq(Node),
         NEW L, OnLists(glue, L), Same(L, L0, call.at), NEW k, DrainAt(s, L, k),
         NEW h, h = call.at, h \in Heads, WalkBack
  PROVE  Impl' /\ (Promise!Return \/ UNCHANGED <<ListsNow, call, result>>)
<1>1. /\ call.op \in {"collect", "exact"} /\ phase = "drain" /\ ~ Restores
      /\ k = Promise!Kept(s, call.keep)[Len(s)] /\ k \in Seq(Node) /\ count = Len(k)
      /\ L[h] = k
  BY DEF DrainAt
<1>2. PICK a, d, w, o : a = temp_list /\ d = Dequeued /\ w = L[a] /\ o = 1
  OBVIOUS
<1>3. a \in AllHeads /\ h \in AllHeads /\ a # h /\ a \notin Heads /\ Heads \subseteq AllHeads
  BY <1>2, HeadsAreThreads
<1>4. FirstOf(L, a, w, d, o)
  <2>1. One(o)
    BY <1>2 DEF One
  <2>2. d = glue[a].right /\ w = L[a]
    BY <1>2 DEF Dequeued, First
  <2> QED BY <1>3, <2>1, <2>2, FirstIs
<1>5. w \in Seq(Node) /\ (d = NULL <=> Len(w) = 0)
      /\ (d # NULL => d \in Node /\ o \in 1 .. Len(w) /\ d = w[o] /\ Spot(L, d, a, o))
  BY <1>4 DEF FirstOf
<1>6. CASE d # NULL
  <2>1. PICK e, N, g : e = Del(w, o) /\ N = Put(L, a, e) /\ g = RemoveThread(glue, d)
    OBVIOUS
  <2>2. IsDel(e, w, o, Node) /\ w = L[a] /\ Spot(L, d, a, o)
    BY <1>2, <1>5, <1>6, <2>1, DelDef
  <2>3. o # 0 /\ N = Put(L, a, e) /\ g = RemoveThread(glue, d)
    BY <1>2, <2>1
  <2>4. OnLists(g, N)
    BY <2>2, <2>3, RemoveOnLists
  <2>5. N[h] = k /\ Same(N, L0, h)
    BY <1>1, <1>3, <2>1 DEF Put, Same
  <2>6. glue' = g /\ UNCHANGED <<call, phase, prev, curr, count, result, before>>
    BY <1>1, <1>2, <1>6, <2>1 DEF WalkBack
  <2>7. Began(L0)' /\ UNCHANGED <<ListsNow, call, result>>
    BY <2>6, StillUnderWay
  <2>8. Restores' = Restores
    BY <2>6 DEF Restores
  <2>9. DrainAt(s, N, k)'
    BY <1>1, <2>5, <2>6, <2>8 DEF DrainAt
  <2>10. OnLists(glue', N) /\ Same(N, L0, call'.at) /\ s = L0[call'.at]
    BY <2>4, <2>5, <2>6
  <2>11. Busy'
    BY <2>7, <2>9, <2>10, BusyChanging
  <2> QED BY <2>7, <2>11 DEF Impl
<1>7. CASE d = NULL
  <2>1. PICK r : r = IF call.op = "collect" THEN count ELSE First(call.at)
    OBVIOUS
  <2>2. Returns(glue, r)
    BY <1>1, <1>2, <1>7, <2>1 DEF WalkBack
  <2>3. Len(L[temp_list]) = 0
    BY <1>2, <1>5, <1>7
  <2>4. /\ Impl' /\ ListsNow = Shown(L0) /\ ListsNow' = Shown(L)
        /\ result' = r /\ call # Promise!NoCall /\ call' = Promise!NoCall
    BY <2>2, <2>3, Returned
  <2>5. ListsNow' = [ListsNow EXCEPT ![call.at] = k] /\ ListsNow[call.at] = s
    BY <1>1, <2>4, Answered
  <2>6. Promise!Selected = k
    BY <1>1, <2>5, SelectedIs
  <2>7. CASE call.op = "collect"
    <3>1. Len(k) # 0
      BY <1>1, <2>7 DEF Restores
    <3>2. k # << >>
      BY <3>1
    <3>3. Promise!Selects
      BY <1>1, <2>1, <2>4, <2>5, <2>6, <2>7, <3>2 DEF Promise!Selects, Promise!Answers
    <3> QED BY <2>4, <3>3 DEF Promise!Return
  <2>8. CASE call.op = "exact"
    <3>1. Len(k) = 1
      BY <1>1, <2>8 DEF Restores
    <3>2. PICK b : b = First(call.at)
      OBVIOUS
    <3>3. FirstOf(L, h, k, b, o)
      <4>1. One(o)
        BY <1>2 DEF One
      <4>2. b = glue[h].right /\ k = L[h]
        BY <1>1, <3>2 DEF First
      <4> QED BY <1>3, <4>1, <4>2, FirstIs
    <3>4. b = k[1]
      BY <1>2, <3>1, <3>3 DEF FirstOf
    <3>5. r = k[1]
      BY <2>1, <2>8, <3>2, <3>4
    <3>6. Promise!Selects
      BY <2>4, <2>5, <2>6, <2>8, <3>1, <3>5 DEF Promise!Selects, Promise!Answers
    <3> QED BY <2>4, <3>6 DEF Promise!Return
  <2> QED BY <1>1, <2>7, <2>8
<1> QED BY <1>6, <1>7

LEMMA PutBack ==
  ASSUME NEW s \in Seq(Node), NEW k, Empty(k), NEW p, Zero(p), NEW t, t = Joined(k, s, p)
  PROVE  t = s
BY AllJoined DEF Empty, Zero

LEMMA RestoreImplements ==
  ASSUME GlthreadAssumption, NEW L0, Began(L0), NEW s, s = L0[call.at], s \in Seq(Node),
         NEW L, OnLists(glue, L), Same(L, L0, call.at), NEW p, NEW k, RestoreAt(s, L, p, k),
         NEW h, h = call.at, h \in Heads, WalkBack
  PROVE  Impl' /\ (Promise!Return \/ UNCHANGED <<ListsNow, call, result>>)
<1>1. /\ call.op \in {"collect", "exact"} /\ phase = "restore"
      /\ k = Promise!Kept(s, call.keep)[Len(s)] /\ k \in Seq(Node) /\ Len(k) = 0 /\ count = 0
      /\ p \in 0 .. Len(s) /\ L[h] = Joined(k, s, p) /\ L[temp_list] = Back(s, p)
  BY DEF RestoreAt
<1>2. PICK a, d, w, o : a = temp_list /\ d = Dequeued /\ w = L[a] /\ o = 1
  OBVIOUS
<1>3. a \in AllHeads /\ h \in AllHeads /\ a # h /\ a \notin Heads /\ Heads \subseteq AllHeads
  BY <1>2, HeadsAreThreads
<1>4. One(o)
  BY <1>2 DEF One
<1>5. FirstOf(L, a, w, d, o)
  <2>1. d = glue[a].right /\ w = L[a]
    BY <1>2 DEF Dequeued, First
  <2> QED BY <1>3, <1>4, <2>1, FirstIs
<1>6. w = Back(s, p) /\ Len(w) = p
  <2>1. w = Back(s, p) /\ s \in Seq(Node) /\ p \in 0 .. Len(s)
    BY <1>1, <1>2
  <2>2. IsBack(w, s, p, Node)
    BY <2>1, BackDef
  <2> QED BY <2>1, <2>2 DEF IsBack
<1>7. CASE d # NULL
  <2>1. Spot(L, d, a, o) /\ p # 0
    BY <1>5, <1>6, <1>7 DEF FirstOf
  <2>2. PICK q : q = p - 1
    OBVIOUS
  <2>3. Stands(s, q, p)
    <3>1. Len(s) \in Nat /\ p \in 0 .. Len(s)
      BY <1>1
    <3>2. q \in 0 .. Len(s) /\ p \in 1 .. Len(s) /\ p = q + 1
      BY <2>1, <2>2, <3>1
    <3> QED BY <3>2 DEF Stands
  <2>4. PICK t, u, e, M, N, g :
          /\ t = L[h] /\ u = Joined(k, s, q) /\ e = Back(s, q) /\ M = Put(L, a, e)
          /\ N = Put(M, h, u) /\ g = Moved(glue, d, h)
    OBVIOUS
  <2>5. Aside(g, L, N, h, u, e)
    <3>1. t = L[h] /\ t = Joined(k, s, p) /\ w = L[a] /\ w = Back(s, p) /\ a = temp_list
      BY <1>1, <1>2, <1>6, <2>4
    <3>2. /\ u = Joined(k, s, q) /\ e = Back(s, q) /\ M = Put(L, a, e)
          /\ N = Put(M, h, u) /\ g = Moved(glue, d, h)
      BY <2>4
    <3>3. Empty(k) /\ Spot(L, d, a, o)
      BY <1>1, <2>1 DEF Empty
    <3> QED BY <1>4, <2>3, <3>1, <3>2, <3>3, MovedBack
  <2>6. OnLists(g, N) /\ N[h] = u /\ N[temp_list] = e /\ Same(N, L0, h)
    BY <2>5 DEF Aside, Same
  <2>7. glue' = g /\ UNCHANGED <<call, phase, prev, curr, count, result, before>>
    BY <1>1, <1>2, <1>7, <2>4 DEF WalkBack
  <2>8. Began(L0)' /\ UNCHANGED <<ListsNow, call, result>>
    BY <2>7, StillUnderWay
  <2>9. q \in 0 .. Len(s)
    BY <2>3, StandsIs
  <2>10. RestoreAt(s, N, q, k)'
    BY <1>1, <2>4, <2>6, <2>7, <2>9 DEF RestoreAt
  <2>11. OnLists(glue', N) /\ Same(N, L0, call'.at) /\ s = L0[call'.at]
    BY <2>6, <2>7
  <2>12. Busy'
    BY <2>8, <2>10, <2>11, BusyChanging
  <2> QED BY <2>8, <2>12 DEF Impl
<1>8. CASE d = NULL
  <2>1. Len(w) = 0
    BY <1>5, <1>8 DEF FirstOf
  <2>2. p = 0
    BY <1>6, <2>1
  <2>3. L[h] = s
    <3>1. PICK t : t = Joined(k, s, p)
      OBVIOUS
    <3>2. Empty(k) /\ Zero(p)
      BY <1>1, <2>2 DEF Empty, Zero
    <3>3. t = s
      BY <3>1, <3>2, PutBack
    <3> QED BY <1>1, <3>1, <3>3
  <2>4. PICK r : r = IF call.op = "collect" THEN count ELSE NULL
    OBVIOUS
  <2>5. Returns(glue, r)
    BY <1>1, <1>2, <1>8, <2>4 DEF WalkBack
  <2>6. Len(L[temp_list]) = 0
    BY <1>2, <2>1
  <2>7. /\ Impl' /\ ListsNow = Shown(L0) /\ ListsNow' = Shown(L)
        /\ result' = r /\ call # Promise!NoCall /\ call' = Promise!NoCall
    BY <2>5, <2>6, Returned
  <2>8. ListsNow' = [ListsNow EXCEPT ![call.at] = s] /\ ListsNow[call.at] = s
    BY <2>3, <2>7, Answered
  <2>9. Promise!Selected = k
    BY <1>1, <2>8, SelectedIs
  <2>10. CASE call.op = "collect"
    <3>1. k = << >>
      BY <1>1
    <3>2. r = Len(k)
      BY <1>1, <2>4, <2>10
    <3>3. Promise!Selects
      BY <2>7, <2>8, <2>9, <2>10, <3>1, <3>2 DEF Promise!Selects, Promise!Answers
    <3> QED BY <2>7, <3>3 DEF Promise!Return
  <2>11. CASE call.op = "exact"
    <3>1. Len(k) # 1
      BY <1>1
    <3>2. Promise!Selects
      BY <2>4, <2>7, <2>8, <2>9, <2>11, <3>1 DEF Promise!Selects, Promise!Answers
    <3> QED BY <2>7, <3>2 DEF Promise!Return
  <2> QED BY <1>1, <2>10, <2>11
<1> QED BY <1>7, <1>8

LEMMA StepImplements ==
  ASSUME GlthreadAssumption, Busy, Step
  PROVE  Impl' /\ (Promise!Return \/ UNCHANGED <<ListsNow, call, result>>)
<1>1. PICK L0 : /\ Began(L0)
                /\ \/ StraightAt(L0)
                   \/ \E p : EndAt(L0[call.at], p)
                   \/ \E L : OnLists(glue, L) /\ Same(L, L0, call.at) /\ Changing(L0[call.at], L)
  BY DEF Busy
<1>2. PICK s, h : s = L0[call.at] /\ h = call.at
  OBVIOUS
<1>3. call.op \in {"collect", "exact"} => h \in Heads /\ s \in Seq(Node)
  BY <1>1, <1>2, SelectIs
<1>4. CASE StraightAt(L0)
  <2>1. Straight
    BY <1>4 DEF StraightAt, Step, WalkToEnd, WalkToPlace, WalkAndRemove, WalkAndSelect, WalkBack
  <2> QED BY <1>1, <1>4, <2>1, StraightImplements
<1>5. CASE \E p : EndAt(L0[call.at], p)
  <2>1. PICK p : EndAt(s, p)
    BY <1>2, <1>5
  <2>2. WalkToEnd \/ WalkToPlace
    BY <2>1 DEF EndAt, Step, Straight, WalkAndRemove, WalkAndSelect, WalkBack
  <2> QED BY <1>1, <1>2, <2>1, <2>2, WalkToEndImplements, WalkToPlaceImplements
<1>6. CASE \E L : OnLists(glue, L) /\ Same(L, L0, call.at) /\ Changing(L0[call.at], L)
  <2>1. PICK L : OnLists(glue, L) /\ Same(L, L0, call.at) /\ Changing(s, L)
    BY <1>2, <1>6
  <2>2. PICK p, k : DeleteAt(s, L, p, k) \/ SelectAt(s, L, p, k) \/ DrainAt(s, L, k) \/ RestoreAt(s, L, p, k)
    BY <2>1 DEF Changing
  <2>3. CASE DeleteAt(s, L, p, k)
    <3>1. WalkAndRemove
      BY <2>3 DEF DeleteAt, Step, Straight, WalkToEnd, WalkToPlace, WalkAndSelect, WalkBack
    <3> QED BY <1>1, <1>2, <2>1, <2>3, <3>1, WalkAndRemoveImplements
  <2>4. CASE SelectAt(s, L, p, k)
    <3>1. WalkAndSelect
      BY <2>4 DEF SelectAt, Step, Straight, WalkToEnd, WalkToPlace, WalkAndRemove, WalkBack
    <3> QED BY <1>1, <1>2, <2>1, <2>4, <3>1, WalkAndSelectImplements
  <2>5. CASE DrainAt(s, L, k)
    <3>1. WalkBack /\ call.op \in {"collect", "exact"}
      BY <2>5 DEF DrainAt, Step, Straight, WalkToEnd, WalkToPlace, WalkAndRemove, WalkAndSelect
    <3> QED BY <1>1, <1>2, <1>3, <2>1, <2>5, <3>1, DrainImplements
  <2>6. CASE RestoreAt(s, L, p, k)
    <3>1. WalkBack /\ call.op \in {"collect", "exact"}
      BY <2>6 DEF RestoreAt, Step, Straight, WalkToEnd, WalkToPlace, WalkAndRemove, WalkAndSelect
    <3> QED BY <1>1, <1>2, <1>3, <2>1, <2>6, <3>1, RestoreImplements
  <2> QED BY <2>2, <2>3, <2>4, <2>5, <2>6
<1> QED BY <1>1, <1>4, <1>5, <1>6

LEMMA NothingStepped ==
  ASSUME GlthreadAssumption, Impl, UNCHANGED vars
  PROVE  Impl' /\ UNCHANGED <<ListsNow, call, result>>
<1>1. UNCHANGED <<glue, call, phase, prev, curr, count, result, before>>
  BY DEF vars
<1>2. UNCHANGED ListsNow
  BY <1>1 DEF ListsNow
<1>3. Idle => Idle'
  BY <1>1, NoCallIs DEF Idle, OnLists, GoesOn, GoesBack
<1>4. Busy => Busy'
  <2>1. SUFFICES ASSUME NEW L0, Began(L0),
                        \/ StraightAt(L0)
                        \/ \E p : EndAt(L0[call.at], p)
                        \/ \E L : OnLists(glue, L) /\ Same(L, L0, call.at) /\ Changing(L0[call.at], L)
                 PROVE  Busy'
    BY DEF Busy
  <2>2. Began(L0)'
    <3>1. UNCHANGED <<call, before, result>>
      BY <1>1
    <3> QED BY <2>1, <3>1, StillUnderWay
  <2>3. CASE StraightAt(L0)
    <3>1. StraightAt(L0)'
      BY <1>1, <2>3 DEF StraightAt
    <3> QED BY <2>2, <3>1 DEF Busy
  <2>4. CASE \E p : EndAt(L0[call.at], p)
    <3>1. PICK s, p : s = L0[call.at] /\ EndAt(s, p)
      BY <2>4
    <3>2. EndAt(s, p)'
      BY <1>1, <3>1 DEF EndAt, ComesBefore
    <3>3. s = L0[call'.at]
      BY <1>1, <3>1
    <3> QED BY <2>2, <3>2, <3>3, BusyEnd
  <2>5. CASE \E L : OnLists(glue, L) /\ Same(L, L0, call.at) /\ Changing(L0[call.at], L)
    <3>1. PICK s, L : s = L0[call.at] /\ OnLists(glue, L) /\ Same(L, L0, call.at) /\ Changing(s, L)
      BY <2>5
    <3>2. PICK p, k : DeleteAt(s, L, p, k) \/ SelectAt(s, L, p, k) \/ DrainAt(s, L, k) \/ RestoreAt(s, L, p, k)
      BY <3>1 DEF Changing
    <3>3. \/ DeleteAt(s, L, p, k)'
          \/ SelectAt(s, L, p, k)'
          \/ DrainAt(s, L, k)'
          \/ RestoreAt(s, L, p, k)'
      BY <1>1, <3>2 DEF DeleteAt, SelectAt, DrainAt, RestoreAt, Restores
    <3>4. OnLists(glue', L) /\ Same(L, L0, call'.at) /\ s = L0[call'.at]
      BY <1>1, <3>1
    <3> QED BY <2>2, <3>3, <3>4, BusyChanging
  <2> QED BY <2>1, <2>3, <2>4, <2>5
<1> QED BY <1>1, <1>2, <1>3, <1>4 DEF Impl

LEMMA NextImplements ==
  ASSUME GlthreadAssumption, Impl, [Next]_vars
  PROVE  Impl' /\ [Promise!Next]_<<ListsNow, call, result>>
<1>1. CASE Begin
  <2>1. Idle
    BY <1>1 DEF Impl, Busy, Began, Begin
  <2> QED BY <1>1, <2>1, BeginImplements DEF Promise!Next
<1>2. CASE Step
  <2>1. Busy
    <3>1. call.op # "none"
      BY <1>2 DEF Step, Straight, WalkToEnd, WalkToPlace, WalkAndRemove, WalkAndSelect, WalkBack
    <3> QED BY <3>1, NoCallIs DEF Impl, Idle
  <2> QED BY <1>2, <2>1, StepImplements DEF Promise!Next
<1>3. CASE UNCHANGED vars
  BY <1>3, NothingStepped
<1> QED BY <1>1, <1>2, <1>3 DEF Next

\* The lists of pointers are lists: a walk of any length, over any of any number
\* of lists, that adds, removes and puts back as it goes, comes to what its
\* function promises, and until it returns those who call see what was there.
THEOREM ImplementsLists == Spec => IsLists
<1>1. Init => Impl /\ Promise!Init
  BY GlthreadAssumption, InitImplements
<1>2. Impl /\ [Next]_vars => Impl' /\ [Promise!Next]_<<ListsNow, call, result>>
  BY GlthreadAssumption, NextImplements
<1> QED BY <1>1, <1>2, PTL DEF Spec, IsLists, Promise!Spec
=============================================================================
