-------------------------- MODULE CliHistory_proofs --------------------------
(***************************************************************************)
(* What holds of the history for any number of cells, any limit from two   *)
(* on and any commands.                                                    *)
(***************************************************************************)
EXTENDS CliHistory, Functions, SequenceTheorems, WellFoundedInduction, FiniteSetTheorems, TLAPS

\* The pointers of the entries are answered, and only the ends have none.
Answered(heap, cells, fst, lst) ==
    /\ \A c \in cells :
         /\ heap[c].next = NULL => c = lst
         /\ heap[c].next # NULL => heap[c].next \in cells /\ heap[heap[c].next].prev = c
         /\ heap[c].prev = NULL => c = fst
         /\ heap[c].prev # NULL => heap[c].prev \in cells /\ heap[heap[c].prev].next = c
    /\ IF cells = {}
       THEN fst = NULL /\ lst = NULL
       ELSE /\ fst \in cells /\ heap[fst].prev = NULL
            /\ lst \in cells /\ heap[lst].next = NULL

\* The limit is at least two, so that the entry that is evicted has one before
\* it: as long as the count can meet the limit, two entries have two ends.
Ends == /\ live = {} => count = 0
        /\ count >= 2 => first # last

\* The inductive invariant.
Inv == /\ TypeOK
       /\ Answered(cli, live, first, last)
       /\ Ends
       /\ BrowsingIsSound

-----------------------------------------------------------------------------

LEMMA NullIsNoCell == NULL \notin Cell /\ Main \notin Cell /\ Main # NULL
BY HistoryAssumption DEF HistoryAssumption

LEMMA FreshIsCli == ASSUME NEW t \in Texts PROVE Fresh(t) \in Cli
BY DEF Fresh, Cli

LEMMA InitInv == ASSUME Init PROVE Inv
<1>1. TypeOK
  BY HistoryAssumption, FreshIsCli DEF Init, TypeOK, HistoryAssumption
<1>2. Answered(cli, live, first, last) /\ Ends
  BY DEF Init, Answered, Ends
<1>3. BrowsingIsSound
  BY DEF Init, BrowsingIsSound
<1> QED
  BY <1>1, <1>2, <1>3 DEF Inv

\* Headers and texts do not matter to the list.
SameLinks(heap, other) ==
    \A c \in Cell : heap[c].next = other[c].next /\ heap[c].prev = other[c].prev

LEMMA LinksAreEnough ==
    ASSUME NEW heap, NEW other, NEW cells \in SUBSET Cell, NEW fst, NEW lst,
           SameLinks(heap, other), Answered(heap, cells, fst, lst)
    PROVE  Answered(other, cells, fst, lst)
BY NullIsNoCell DEF SameLinks, Answered

LEMMA EditKeepsInv == ASSUME Inv, NEW t \in Texts, Edit(t) PROVE Inv'
<1> USE NullIsNoCell DEF Inv, Edit, history
<1>1. TypeOK'
  BY ZenonT(30) DEF TypeOK, Cli
<1>2. SameLinks(cli, cli')
  BY DEF SameLinks, TypeOK
<1>3. Answered(cli, live, first, last)'
  BY <1>2, LinksAreEnough DEF TypeOK
<1>4. Ends'
  BY DEF Ends
<1>5. ~keyp_char_mode => ~keyp_char_mode'
  BY Zenon
<1>6. BrowsingIsSound'
  BY <1>5 DEF BrowsingIsSound
<1> QED
  BY <1>1, <1>3, <1>4, <1>6

LEMMA KeyUpKeepsInv == ASSUME Inv, KeyUp PROVE Inv'
<1> USE NullIsNoCell DEF Inv, KeyUp, history
<1>1. Older = NULL \/ Older \in live
  BY DEF Older, Answered, BrowsingIsSound
<1>2. TypeOK'
  BY <1>1 DEF TypeOK, BrowsingIsSound
<1>3. Answered(cli, live, first, last)' /\ Ends'
  BY DEF Answered, Ends
<1>4. BrowsingIsSound'
  BY <1>1 DEF BrowsingIsSound, TypeOK
<1> QED
  BY <1>2, <1>3, <1>4

LEMMA KeyDownKeepsInv == ASSUME Inv, KeyDown PROVE Inv'
<1> USE NullIsNoCell DEF Inv, KeyDown, history
<1>1. curr_ptr # NULL => cli[curr_ptr].prev = NULL \/ cli[curr_ptr].prev \in live
  BY DEF Answered, BrowsingIsSound
<1>2. TypeOK'
  BY <1>1 DEF TypeOK, BrowsingIsSound
<1>3. Answered(cli, live, first, last)' /\ Ends'
  BY DEF Answered, Ends
<1>4. BrowsingIsSound'
  BY <1>1 DEF BrowsingIsSound, TypeOK
<1> QED
  BY <1>2, <1>3, <1>4

LEMMA CtrlTKeepsInv == ASSUME Inv, CtrlT PROVE Inv'
<1> USE NullIsNoCell DEF Inv, CtrlT, history
<1>1. default_cli' = Main /\ curr_ptr' = NULL /\ cli_store' = NULL
  BY DEF BrowsingIsSound
<1>2. Empty \in Texts
  BY HistoryAssumption DEF HistoryAssumption
<1>3. TypeOK'
  BY <1>1, <1>2 DEF TypeOK, Cli
<1>4. SameLinks(cli, cli')
  BY <1>1 DEF SameLinks, TypeOK
<1>5. Answered(cli, live, first, last)'
  BY <1>4, LinksAreEnough DEF TypeOK
<1>6. Ends' /\ BrowsingIsSound'
  BY <1>1 DEF Ends, BrowsingIsSound
<1> QED
  BY <1>3, <1>5, <1>6

-----------------------------------------------------------------------------
(* Return.                                                                 *)

\* Behind a command the line at hand is the one with the cursor, also when the
\* command came from the history.
LEMMA BackToMain ==
    ASSUME BrowsingIsSound, ToMain
    PROVE  default_cli' = Main /\ cli_store' = NULL /\ curr_ptr' = NULL /\ keyp_char_mode' = TRUE
BY NullIsNoCell DEF BrowsingIsSound, ToMain

\* What the handler and the reset do to the lines leaves the list alone.
LEMMA EmptiedHeap ==
    ASSUME TypeOK, BrowsingIsSound, ToMain, NEW heap \in [Cell \cup {Main} -> Cli]
    PROVE  /\ Emptied(heap) \in [Cell \cup {Main} -> Cli]
           /\ SameLinks(heap, Emptied(heap))
<1>1. default_cli' = Main
  BY BackToMain
<1>2. Empty \in Texts
  BY HistoryAssumption DEF HistoryAssumption
<1> QED
  BY <1>1, <1>2, NullIsNoCell DEF Emptied, SameLinks, Cli

LEMMA HandlerHeap ==
    ASSUME TypeOK, NEW c
    PROVE  /\ AfterHandler(c) \in [Cell \cup {Main} -> Cli]
           /\ SameLinks(cli, AfterHandler(c))
<1>1. Empty \in Texts
  BY HistoryAssumption DEF HistoryAssumption
<1> QED
  BY <1>1, NullIsNoCell DEF AfterHandler, SameLinks, Cli, TypeOK

LEMMA ReturnFailsKeepsInv == ASSUME Inv, ReturnFails PROVE Inv'
<1> USE DEF Inv
<1>1. ToMain /\ cli' = Emptied(cli)
  BY DEF ReturnFails
<1>2. default_cli' = Main /\ cli_store' = NULL /\ curr_ptr' = NULL /\ keyp_char_mode' = TRUE
  BY <1>1, BackToMain
<1>3. cli' \in [Cell \cup {Main} -> Cli] /\ SameLinks(cli, cli')
  BY <1>1, EmptiedHeap DEF TypeOK
<1>4. TypeOK'
  BY <1>2, <1>3 DEF ReturnFails, TypeOK, history
<1>5. Answered(cli, live, first, last)'
  BY <1>3, LinksAreEnough DEF ReturnFails, TypeOK, history
<1>6. Ends' /\ BrowsingIsSound'
  BY <1>2 DEF ReturnFails, Ends, BrowsingIsSound, history
<1> QED
  BY <1>4, <1>5, <1>6

\* Without its last entry the list is one still.
LEMMA Evicted ==
    ASSUME NEW heap \in [Cell \cup {Main} -> Cli], live \in SUBSET Cell,
           Answered(heap, live, first, last), live # {}, first # last,
           NEW kept, kept = [heap EXCEPT ![heap[last].prev].next = NULL, ![last] = Fresh(Empty)]
    PROVE  /\ kept \in [Cell \cup {Main} -> Cli]
           /\ heap[last].prev \in live \ {last}
           /\ Answered(kept, live \ {last}, first, heap[last].prev)
<1> USE NullIsNoCell
<1> DEFINE new_last == heap[last].prev
<1>1. new_last \in live /\ heap[new_last].next = last /\ last \in live /\ first \in live
  BY DEF Answered
<1>2. new_last # last
  BY <1>1 DEF Answered
<1>3. Fresh(Empty) \in Cli
  BY FreshIsCli, HistoryAssumption DEF HistoryAssumption
<1>4. kept \in [Cell \cup {Main} -> Cli]
  BY <1>1, <1>3 DEF Cli
<1>5. \A c \in live \ {last} : /\ kept[c].prev = heap[c].prev
                               /\ kept[c].next = IF c = new_last THEN NULL ELSE heap[c].next
  BY <1>1, <1>2 DEF Cli
<1>6. \A c \in live \ {last} : heap[c].prev # last /\ (heap[c].next = last => c = new_last)
  BY DEF Answered
<1>7. Answered(kept, live \ {last}, first, new_last)
  <2>1. ASSUME NEW c \in live \ {last}
        PROVE  /\ kept[c].next = NULL => c = new_last
               /\ kept[c].next # NULL => /\ kept[c].next \in live \ {last}
                                        /\ kept[kept[c].next].prev = c
    BY <1>1, <1>5, <1>6 DEF Answered
  <2>2. ASSUME NEW c \in live \ {last}
        PROVE  /\ kept[c].prev = NULL => c = first
               /\ kept[c].prev # NULL => /\ kept[c].prev \in live \ {last}
                                        /\ kept[kept[c].prev].next = c
    BY <1>1, <1>5, <1>6 DEF Answered
  <2>3. /\ first \in live \ {last} /\ kept[first].prev = NULL
        /\ new_last \in live \ {last} /\ kept[new_last].next = NULL
    BY <1>1, <1>2, <1>5 DEF Answered
  <2> QED
    BY <2>1, <2>2, <2>3 DEF Answered
<1> QED
  BY <1>1, <1>2, <1>4, <1>7

\* A new entry before the first one.
LEMMA LinkedKeepsAnswered ==
    ASSUME NEW heap \in [Cell \cup {Main} -> Cli], NEW cells \in SUBSET Cell, cells # {},
           NEW lst, Answered(heap, cells, first, lst),
           NEW c \in Texts, NEW new \in Cell \ cells
    PROVE  /\ Linked(heap, c, new) \in [Cell \cup {Main} -> Cli]
           /\ Answered(Linked(heap, c, new), cells \cup {new}, new, lst)
<1> USE NullIsNoCell
<1>1. first \in cells /\ first # new /\ lst \in cells
  BY DEF Answered
<1>2. Linked(heap, c, new) \in [Cell \cup {Main} -> Cli]
  BY <1>1 DEF Linked, Fresh, Cli
<1>3. /\ Linked(heap, c, new)[new].next = first /\ Linked(heap, c, new)[new].prev = NULL
      /\ \A d \in cells : /\ Linked(heap, c, new)[d].next = heap[d].next
                          /\ Linked(heap, c, new)[d].prev = IF d = first THEN new ELSE heap[d].prev
  BY <1>1 DEF Linked, Fresh, Cli
<1>4. \A d \in cells : /\ heap[d].next # first
                       /\ heap[d].next # NULL => heap[d].next \in cells
                       /\ heap[d].prev # NULL => heap[d].prev \in cells
  BY <1>1 DEF Answered
<1>5. Answered(Linked(heap, c, new), cells \cup {new}, new, lst)
  BY <1>1, <1>3, <1>4 DEF Answered
<1> QED
  BY <1>2, <1>5

LEMMA RecordKeepsList ==
    ASSUME Inv, NEW heap \in [Cell \cup {Main} -> Cli], SameLinks(cli, heap),
           NEW c \in Commands, NEW new \in Cell \ live, Record(heap, c, new)
    PROVE  /\ cli' \in [Cell \cup {Main} -> Cli] /\ live' \subseteq Cell
           /\ {first', last'} \subseteq Cell \cup {NULL} /\ count' \in Nat
           /\ Answered(cli, live, first, last)'
           /\ Ends'
<1> USE NullIsNoCell DEF Inv
<1>1. Answered(heap, live, first, last)
  BY LinksAreEnough DEF TypeOK
<1>2. c \in Texts
  BY HistoryAssumption DEF HistoryAssumption
<1>3. CASE cli' = heap /\ UNCHANGED <<live, history>>
  BY <1>1, <1>3 DEF history, TypeOK, Ends
<1>4. CASE /\ first = NULL
           /\ cli' = [heap EXCEPT ![new] = Fresh(c)]
           /\ live' = live \cup {new}
           /\ first' = new /\ last' = new
           /\ count' = count + 1
  <2>1. live = {} /\ count = 0
    BY <1>1, <1>4 DEF Answered, TypeOK, Ends
  <2>2. cli' \in [Cell \cup {Main} -> Cli]
    BY <1>2, <1>4, FreshIsCli
  <2>3. cli'[new].next = NULL /\ cli'[new].prev = NULL
    BY <1>4 DEF Fresh
  <2>4. Answered(cli, live, first, last)'
    BY <1>4, <2>1, <2>3 DEF Answered
  <2> QED
    BY <1>4, <2>1, <2>2, <2>4 DEF Ends, TypeOK
<1>5. ASSUME NEW kept \in [Cell \cup {Main} -> Cli], NEW cells \in SUBSET live, NEW lst \in cells,
             Answered(kept, cells, first, lst),
             cli' = Linked(kept, c, new), live' = cells \cup {new},
             first' = new, last' = lst, count' = count + 1
      PROVE  /\ cli' \in [Cell \cup {Main} -> Cli] /\ live' \subseteq Cell
             /\ {first', last'} \subseteq Cell \cup {NULL} /\ count' \in Nat
             /\ Answered(cli, live, first, last)'
             /\ Ends'
  <2>1. cells \in SUBSET Cell /\ cells # {} /\ new \in Cell \ cells
    BY <1>5 DEF TypeOK
  <2>2. /\ Linked(kept, c, new) \in [Cell \cup {Main} -> Cli]
        /\ Answered(Linked(kept, c, new), cells \cup {new}, new, lst)
    BY <1>2, <1>5, <2>1, LinkedKeepsAnswered
  <2>3. Answered(cli, live, first, last)'
    BY <1>5, <2>2 DEF Answered
  <2>4. Ends'
    BY <1>5, <2>1 DEF Ends
  <2> QED
    BY <1>5, <2>1, <2>2, <2>3, <2>4 DEF TypeOK
<1>6. CASE /\ first # NULL
           /\ cli' = Linked(IF count = LIMIT
                            THEN [heap EXCEPT ![heap[last].prev].next = NULL,
                                              ![last] = Fresh(Empty)]
                            ELSE heap, c, new)
           /\ live' = (IF count = LIMIT THEN live \ {last} ELSE live) \cup {new}
           /\ last' = IF count = LIMIT THEN heap[last].prev ELSE last
           /\ first' = new
           /\ count' = count + 1
  <2>1. live # {} /\ last \in live
    BY <1>1, <1>6 DEF Answered
  <2>2. CASE count = LIMIT
    <3>1. first # last
      BY <2>2, HistoryAssumption DEF HistoryAssumption, Ends, TypeOK
    <3> DEFINE kept == [heap EXCEPT ![heap[last].prev].next = NULL, ![last] = Fresh(Empty)]
    <3>2. /\ kept \in [Cell \cup {Main} -> Cli]
          /\ heap[last].prev \in live \ {last}
          /\ Answered(kept, live \ {last}, first, heap[last].prev)
      BY <1>1, <2>1, <3>1, Evicted DEF TypeOK
    <3>3. cli' = Linked(kept, c, new) /\ live' = (live \ {last}) \cup {new}
          /\ last' = heap[last].prev
      BY <1>6, <2>2
    <3> HIDE DEF kept
    <3> QED
      BY <1>5, <1>6, <3>2, <3>3
  <2>3. CASE count # LIMIT
    <3>1. cli' = Linked(heap, c, new) /\ live' = live \cup {new} /\ last' = last
      BY <1>6, <2>3
    <3> QED
      BY <1>1, <1>5, <1>6, <2>1, <3>1
  <2> QED
    BY <2>2, <2>3
<1> QED
  BY <1>3, <1>4, <1>6 DEF Record

LEMMA ReturnRunsKeepsInv == ASSUME Inv, ReturnRuns PROVE Inv'
<1> USE DEF Inv
<1> DEFINE c == Runs[cli[default_cli].text]
           heap == Emptied(AfterHandler(c))
<1>1. c \in Commands
  BY HistoryAssumption, NullIsNoCell DEF HistoryAssumption, ReturnRuns, TypeOK, Cli
<1>2. ToMain /\ ran' = c
  BY DEF ReturnRuns
<1>3. PICK new \in Cell \ live : Record(heap, c, new)
  BY DEF ReturnRuns
<1>4. heap \in [Cell \cup {Main} -> Cli] /\ SameLinks(cli, heap)
  <2>1. /\ AfterHandler(c) \in [Cell \cup {Main} -> Cli]
        /\ SameLinks(cli, AfterHandler(c))
    BY HandlerHeap
  <2>2. /\ heap \in [Cell \cup {Main} -> Cli]
        /\ SameLinks(AfterHandler(c), heap)
    BY <1>2, <2>1, EmptiedHeap
  <2> QED
    BY <2>1, <2>2 DEF SameLinks
<1>5. /\ cli' \in [Cell \cup {Main} -> Cli] /\ live' \subseteq Cell
      /\ {first', last'} \subseteq Cell \cup {NULL} /\ count' \in Nat
      /\ Answered(cli, live, first, last)'
      /\ Ends'
  <2> HIDE DEF c, heap
  <2> QED
    BY <1>1, <1>3, <1>4, RecordKeepsList
<1>6. default_cli' = Main /\ cli_store' = NULL /\ curr_ptr' = NULL /\ keyp_char_mode' = TRUE
  BY <1>2, BackToMain
<1>7. TypeOK'
  BY <1>1, <1>2, <1>5, <1>6 DEF TypeOK
<1>8. BrowsingIsSound'
  BY <1>6 DEF BrowsingIsSound
<1> QED
  BY <1>5, <1>7, <1>8

-----------------------------------------------------------------------------

LEMMA NextKeepsInv == ASSUME Inv, [Next]_vars PROVE Inv'
<1>1. CASE Next
  BY <1>1, EditKeepsInv, KeyUpKeepsInv, KeyDownKeepsInv, CtrlTKeepsInv, ReturnFailsKeepsInv,
     ReturnRunsKeepsInv DEF Next
<1>2. CASE UNCHANGED vars
  BY <1>2 DEF vars, history, Inv, TypeOK, Answered, Ends, BrowsingIsSound
<1> QED
  BY <1>1, <1>2

\* The types hold.
THEOREM TypeCorrect == Spec => []TypeOK
<1>1. Inv => TypeOK
  BY DEF Inv
<1> QED
  BY <1>1, InitInv, NextKeepsInv, PTL DEF Spec

\* For any limit and any number of cells, keys find the line they need: an entry
\* that is browsed was never freed, and the line typed before waits in cli_store.
THEOREM BrowsingIsSoundHolds == Spec => []BrowsingIsSound
<1>1. Inv => BrowsingIsSound
  BY DEF Inv
<1> QED
  BY <1>1, InitInv, NextKeepsInv, PTL DEF Spec

-----------------------------------------------------------------------------
(* The entries as a sequence.                                              *)

\* The entries in the order of next, each answered by its prev.
Chain(heap, cells, fst, lst, s) ==
    /\ s \in Seq(cells)
    /\ \A c \in cells : \E k \in 1 .. Len(s) : s[k] = c
    /\ \A j, k \in 1 .. Len(s) : s[j] = s[k] => j = k
    /\ \A k \in 1 .. Len(s) :
         /\ heap[s[k]].next = IF k = Len(s) THEN NULL ELSE s[k + 1]
         /\ heap[s[k]].prev = IF k = 1 THEN NULL ELSE s[k - 1]
    /\ fst = IF s = << >> THEN NULL ELSE s[1]
    /\ lst = IF s = << >> THEN NULL ELSE s[Len(s)]

\* The command that ran is the newest entry.
NewestRan(heap, fst, c) == c # NULL /\ c \notin Exceptional => fst # NULL /\ heap[fst].text = c

ListInv ==
    /\ Inv
    /\ \E s : Chain(cli, live, first, last, s)
    /\ NewestRan(cli, first, ran)

-----------------------------------------------------------------------------
\* The walk over the cells of a heap from fst on, of which Nth is one.
Walk(heap, fst) ==
    LET nth[k \in 1 .. Cardinality(Cell) + 1] ==
          IF k = 1 THEN fst
          ELSE IF nth[k - 1] = NULL THEN NULL ELSE heap[nth[k - 1]].next
    IN  nth

IsWalk(f, heap, fst) ==
    f = [k \in 1 .. Cardinality(Cell) + 1 |->
           IF k = 1 THEN fst
           ELSE IF f[k - 1] = NULL THEN NULL ELSE heap[f[k - 1]].next]

LEMMA NthIsWalk == Nth = Walk(cli, first) /\ Nth' = Walk(cli', first')
BY DEF Nth, Walk

LEMMA WalkExists ==
    ASSUME NEW heap, NEW fst, NEW f, IsWalk(f, heap, fst)
    PROVE  IsWalk(Walk(heap, fst), heap, fst)
BY Zenon DEF Walk, IsWalk

Less == {ss \in Nat \X Nat : ss[1] < ss[2]}

LEMMA LeastNat == ASSUME NEW T \in SUBSET Nat, T # {} PROVE \E m \in T : \A n \in T : m <= n
<1>1. IsWellFoundedOn(Less, Nat)
  BY NatLessThanWellFounded DEF OpToRel, Less
<1>2. PICK m \in T : \A n \in T : ~ (<<n, m>> \in Less)
  BY <1>1, WFMin
<1>3. ASSUME NEW n \in T PROVE m <= n
  <2>1. n < m => <<n, m>> \in Less
    BY DEF Less
  <2> QED
    BY <1>2, <2>1
<1> QED
  BY <1>3

\* Two walks from one cell are the same.
LEMMA WalkUnique ==
    ASSUME Cardinality(Cell) \in Nat, NEW heap, NEW fst, NEW f, NEW g,
           IsWalk(f, heap, fst), IsWalk(g, heap, fst)
    PROVE  f = g
<1> DEFINE D == 1 .. Cardinality(Cell) + 1
           differ == {k \in D : f[k] # g[k]}
<1>1. ASSUME NEW m \in differ, \A n \in differ : m <= n PROVE FALSE
  <2>1. m # 1
    BY <1>1 DEF IsWalk
  <2>2. m - 1 \in D /\ m - 1 \notin differ
    BY <1>1, <2>1
  <2>3. /\ f[m] = (IF f[m - 1] = NULL THEN NULL ELSE heap[f[m - 1]].next)
        /\ g[m] = (IF g[m - 1] = NULL THEN NULL ELSE heap[g[m - 1]].next)
    BY <1>1, <2>1 DEF IsWalk
  <2> QED
    BY <1>1, <2>2, <2>3
<1>2. differ \in SUBSET Nat
  OBVIOUS
<1>3. differ = {}
  <2> HIDE DEF differ
  <2> QED
    BY <1>1, <1>2, LeastNat
<1>4. f = [k \in D |-> f[k]] /\ g = [k \in D |-> g[k]]
  BY DEF IsWalk
<1>5. \A k \in D : f[k] = g[k]
  BY <1>3
<1> QED
  BY <1>4, <1>5

LEMMA CellsAreFinite == IsFiniteSet(Cell) /\ Cardinality(Cell) \in Nat
BY HistoryAssumption, FS_CardinalityType DEF HistoryAssumption

LEMMA IntervalSize == ASSUME NEW n \in Nat PROVE IsFiniteSet(1 .. n) /\ Cardinality(1 .. n) = n
BY FS_Interval

\* A chain has as many entries as there are cells in the list.
LEMMA ChainLength ==
    ASSUME NEW heap, NEW cells \in SUBSET Cell, NEW fst, NEW lst, NEW s,
           Chain(heap, cells, fst, lst, s)
    PROVE  Len(s) \in Nat /\ Len(s) = Cardinality(cells) /\ Len(s) <= Cardinality(Cell)
<1>1. s \in Seq(cells) /\ Len(s) \in Nat
  BY DEF Chain
<1>2. IsFiniteSet(cells) /\ Cardinality(cells) <= Cardinality(Cell)
  BY CellsAreFinite, FS_Subset
<1>3. IsFiniteSet(1 .. Len(s)) /\ Cardinality(1 .. Len(s)) = Len(s)
  BY <1>1, IntervalSize
<1>4. s \in Bijection(1 .. Len(s), cells)
  <2>1. /\ s \in [1 .. Len(s) -> cells]
        /\ \A j, k \in 1 .. Len(s) : s[j] = s[k] => j = k
        /\ \A c \in cells : \E k \in 1 .. Len(s) : s[k] = c
    BY <1>1 DEF Chain
  <2> QED
    BY <2>1 DEF Bijection, Injection, Surjection, IsInjective
<1>5. ExistsBijection(1 .. Len(s), cells)
  BY <1>4 DEF ExistsBijection
<1> QED
  BY <1>1, <1>2, <1>3, <1>5, FS_Bijection

\* The walk from first on is the chain.
LEMMA WalkIsChain ==
    ASSUME NEW heap, NEW cells \in SUBSET Cell, NEW fst, NEW lst, NEW s,
           Chain(heap, cells, fst, lst, s)
    PROVE  Walk(heap, fst) =
             [k \in 1 .. Cardinality(Cell) + 1 |-> IF k <= Len(s) THEN s[k] ELSE NULL]
<1> DEFINE f == [k \in 1 .. Cardinality(Cell) + 1 |-> IF k <= Len(s) THEN s[k] ELSE NULL]
<1>1. Len(s) \in Nat /\ Len(s) <= Cardinality(Cell) /\ Cardinality(Cell) \in Nat
  BY ChainLength, CellsAreFinite
<1>2. s \in Seq(cells) /\ \A k \in 1 .. Len(s) : s[k] \in Cell /\ s[k] # NULL
  BY NullIsNoCell DEF Chain
<1>3. ASSUME NEW k \in 1 .. Cardinality(Cell) + 1
      PROVE  f[k] = IF k = 1 THEN fst
                    ELSE IF f[k - 1] = NULL THEN NULL ELSE heap[f[k - 1]].next
  <2>1. CASE k = 1
    BY <1>1, <1>2, <2>1 DEF Chain
  <2>2. CASE k # 1
    <3>1. k - 1 \in 1 .. Cardinality(Cell) + 1 /\ f[k - 1] = IF k - 1 <= Len(s) THEN s[k - 1] ELSE NULL
      BY <1>1, <2>2
    <3>2. CASE k - 1 <= Len(s)
      <4>1. k - 1 \in 1 .. Len(s) /\ s[k - 1] # NULL
        BY <1>1, <1>2, <2>2, <3>2
      <4>2. heap[s[k - 1]].next = IF k - 1 = Len(s) THEN NULL ELSE s[k - 1 + 1]
        BY <4>1 DEF Chain
      <4>3. k - 1 + 1 = k /\ (k - 1 = Len(s) <=> ~ (k <= Len(s)))
        BY <1>1, <2>2, <3>2
      <4> QED
        BY <2>2, <3>1, <3>2, <4>1, <4>2, <4>3
    <3>3. CASE ~ (k - 1 <= Len(s))
      BY <1>1, <2>2, <3>1, <3>3
    <3> QED
      BY <3>2, <3>3
  <2> QED
    BY <2>1, <2>2
<1>4. IsWalk(f, heap, fst)
  BY <1>3 DEF IsWalk
<1> HIDE DEF f
<1> QED
  BY <1>1, <1>4, WalkExists, WalkUnique DEF f

\* What the walk is used for: the number of entries, their texts and the place of one.
LengthOf(heap, fst) ==
    Cardinality({k \in DOMAIN Walk(heap, fst) : Walk(heap, fst)[k] # NULL})
EntriesOf(heap, fst) ==
    [k \in 1 .. LengthOf(heap, fst) |-> heap[Walk(heap, fst)[k]].text]
PlaceOf(heap, fst, c) ==
    IF c = NULL THEN 0 ELSE CHOOSE k \in 1 .. LengthOf(heap, fst) : Walk(heap, fst)[k] = c

TextsOf(heap, s) == [k \in 1 .. Len(s) |-> heap[s[k]].text]

LEMMA AbstractIs ==
    /\ Length = LengthOf(cli, first) /\ Length' = LengthOf(cli', first')
    /\ Entries = EntriesOf(cli, first) /\ Entries' = EntriesOf(cli', first')
    /\ Place = PlaceOf(cli, first, curr_ptr) /\ Place' = PlaceOf(cli', first', curr_ptr')
<1>1. Length = LengthOf(cli, first) /\ Length' = LengthOf(cli', first')
  BY NthIsWalk DEF Length, LengthOf
<1>2. Entries = EntriesOf(cli, first) /\ Entries' = EntriesOf(cli', first')
  BY <1>1, NthIsWalk DEF Entries, EntriesOf
<1>3. Place = PlaceOf(cli, first, curr_ptr) /\ Place' = PlaceOf(cli', first', curr_ptr')
  BY <1>1, NthIsWalk DEF Place, PlaceOf
<1> QED
  BY <1>1, <1>2, <1>3

IsAt(s, p, c) == p \in 1 .. Len(s) /\ s[p] = c

LEMMA ChainIsRead ==
    ASSUME NEW heap, NEW cells \in SUBSET Cell, NEW fst, NEW lst, NEW s,
           Chain(heap, cells, fst, lst, s)
    PROVE  /\ LengthOf(heap, fst) = Len(s)
           /\ EntriesOf(heap, fst) = TextsOf(heap, s)
           /\ \A c \in cells : IsAt(s, PlaceOf(heap, fst, c), c)
<1> DEFINE w == Walk(heap, fst)
<1>1. Len(s) \in Nat /\ Len(s) <= Cardinality(Cell) /\ Cardinality(Cell) \in Nat
  BY ChainLength, CellsAreFinite
<1>2. w = [k \in 1 .. Cardinality(Cell) + 1 |-> IF k <= Len(s) THEN s[k] ELSE NULL]
  BY WalkIsChain
<1>3. \A k \in 1 .. Len(s) : s[k] \in cells /\ s[k] # NULL
  BY NullIsNoCell DEF Chain
<1> HIDE DEF w
<1>4. /\ DOMAIN w = 1 .. Cardinality(Cell) + 1
      /\ \A k \in 1 .. Len(s) : w[k] = s[k]
      /\ \A k \in 1 .. Cardinality(Cell) + 1 : w[k] # NULL <=> k <= Len(s)
  BY <1>1, <1>2, <1>3
<1>5. {k \in DOMAIN w : w[k] # NULL} = 1 .. Len(s)
  BY <1>1, <1>4
<1>6. LengthOf(heap, fst) = Len(s)
  <2>1. LengthOf(heap, fst) = Cardinality(1 .. Len(s))
    BY <1>5 DEF LengthOf, w
  <2> QED
    BY <1>1, <2>1, IntervalSize
<1>7. EntriesOf(heap, fst) = TextsOf(heap, s)
  BY <1>4, <1>6 DEF EntriesOf, TextsOf, w
<1>8. ASSUME NEW c \in cells
      PROVE  IsAt(s, PlaceOf(heap, fst, c), c)
  <2>1. \E k \in 1 .. Len(s) : w[k] = c
    BY <1>4 DEF Chain
  <2>2. PlaceOf(heap, fst, c) = CHOOSE k \in 1 .. Len(s) : w[k] = c
    BY <1>6, NullIsNoCell DEF PlaceOf, w
  <2> QED
    BY <1>4, <2>1, <2>2 DEF IsAt
<1> QED
  BY <1>6, <1>7, <1>8

LEMMA PlaceIsRead ==
    ASSUME NEW heap, NEW cells \in SUBSET Cell, NEW fst, NEW lst, NEW s,
           Chain(heap, cells, fst, lst, s), NEW c \in cells, NEW p, p = PlaceOf(heap, fst, c)
    PROVE  p \in 1 .. Len(s) /\ s[p] = c
<1>1. IsAt(s, p, c)
  BY ChainIsRead
<1> QED
  BY <1>1 DEF IsAt

-----------------------------------------------------------------------------
(* The chain through the operations on the list.                           *)

LEMMA LinksKeepChain ==
    ASSUME NEW heap, NEW other, NEW cells \in SUBSET Cell, NEW fst, NEW lst, NEW s,
           SameLinks(heap, other), Chain(heap, cells, fst, lst, s)
    PROVE  Chain(other, cells, fst, lst, s)
<1>1. \A k \in 1 .. Len(s) : s[k] \in Cell
  BY DEF Chain
<1> QED
  BY <1>1 DEF SameLinks, Chain

LEMMA ChainOfOne ==
    ASSUME NEW heap \in [Cell \cup {Main} -> Cli], NEW c, NEW new \in Cell
    PROVE  Chain([heap EXCEPT ![new] = Fresh(c)], {new}, new, new, <<new>>)
<1>1. [heap EXCEPT ![new] = Fresh(c)][new] = Fresh(c)
  OBVIOUS
<1>2. <<new>> \in Seq({new}) /\ Len(<<new>>) = 1 /\ <<new>>[1] = new /\ <<new>> # << >>
  OBVIOUS
<1> HIDE <1>2
<1> DEFINE one == <<new>>
<1>3. one \in Seq({new}) /\ Len(one) = 1 /\ one[1] = new /\ one # << >>
  BY <1>2
<1> HIDE DEF one
<1>4. Chain([heap EXCEPT ![new] = Fresh(c)], {new}, new, new, one)
  BY <1>1, <1>3 DEF Chain, Fresh
<1> QED
  BY <1>4 DEF one

LEMMA ChainLonger ==
    ASSUME NEW heap \in [Cell \cup {Main} -> Cli], NEW cells \in SUBSET Cell, NEW lst, NEW s,
           Chain(heap, cells, first, lst, s), s # << >>,
           NEW c, NEW new \in Cell \ cells
    PROVE  Chain(Linked(heap, c, new), cells \cup {new}, new, lst, <<new>> \o s)
<1> DEFINE t == <<new>> \o s
           h == Linked(heap, c, new)
<1>1. s \in Seq(cells) /\ Len(s) \in Nat \ {0} /\ first = s[1] /\ first \in cells /\ lst = s[Len(s)]
  BY DEF Chain
<1>2. /\ t \in Seq(cells \cup {new}) /\ Len(t) = Len(s) + 1 /\ t # << >>
      /\ t[1] = new /\ \A k \in 1 .. Len(s) : t[k + 1] = s[k]
  BY <1>1
<1>3. \A k \in 2 .. Len(t) : k - 1 \in 1 .. Len(s) /\ t[k] = s[k - 1]
  BY <1>1, <1>2
<1>4. /\ h[new].next = first /\ h[new].prev = NULL
      /\ \A d \in cells : /\ h[d].next = heap[d].next
                          /\ h[d].prev = IF d = first THEN new ELSE heap[d].prev
  BY <1>1, NullIsNoCell DEF Linked, Fresh, Cli
<1>5. \A d \in cells \cup {new} : \E k \in 1 .. Len(t) : t[k] = d
  <2>1. ASSUME NEW d \in cells PROVE \E k \in 1 .. Len(t) : t[k] = d
    <3>1. PICK k \in 1 .. Len(s) : s[k] = d
      BY DEF Chain
    <3>2. k + 1 \in 1 .. Len(t) /\ t[k + 1] = d
      BY <1>1, <1>2, <3>1
    <3> QED
      BY <3>2
  <2>2. 1 \in 1 .. Len(t)
    BY <1>1, <1>2
  <2> QED
    BY <1>2, <2>1, <2>2
<1>6. \A j, k \in 1 .. Len(t) : t[j] = t[k] => j = k
  <2>1. \A j, k \in 1 .. Len(s) : s[j] = s[k] => j = k
    BY DEF Chain
  <2>2. \A k \in 2 .. Len(t) : t[k] # new
    BY <1>1, <1>3
  <2> HIDE DEF t
  <2> TAKE j, k \in 1 .. Len(t)
  <2>3. CASE j = 1 \/ k = 1
    BY <1>1, <1>2, <2>2, <2>3
  <2>4. CASE j # 1 /\ k # 1
    <3>1. j \in 2 .. Len(t) /\ k \in 2 .. Len(t)
      BY <1>1, <1>2, <2>4
    <3>2. t[j] = s[j - 1] /\ t[k] = s[k - 1] /\ j - 1 \in 1 .. Len(s) /\ k - 1 \in 1 .. Len(s)
      BY <1>3, <3>1
    <3>3. t[j] = t[k] => j - 1 = k - 1
      BY <2>1, <3>2
    <3> QED
      BY <3>1, <3>3
  <2> QED
    BY <2>3, <2>4
<1>7. ASSUME NEW k \in 1 .. Len(t)
      PROVE  /\ h[t[k]].next = IF k = Len(t) THEN NULL ELSE t[k + 1]
             /\ h[t[k]].prev = IF k = 1 THEN NULL ELSE t[k - 1]
  <2>1. CASE k = 1
    BY <1>1, <1>2, <1>4, <2>1
  <2>2. CASE k # 1
    <3>1. k \in 2 .. Len(t) /\ k - 1 \in 1 .. Len(s) /\ t[k] = s[k - 1]
      BY <1>1, <1>2, <1>3, <2>2
    <3>2. /\ heap[s[k - 1]].next = IF k - 1 = Len(s) THEN NULL ELSE s[k - 1 + 1]
          /\ heap[s[k - 1]].prev = IF k - 1 = 1 THEN NULL ELSE s[k - 1 - 1]
          /\ s[k - 1] \in cells /\ (s[k - 1] = s[1] <=> k - 1 = 1)
      <4>1. 1 \in 1 .. Len(s)
        BY <1>1
      <4>2. s[k - 1] = s[1] <=> k - 1 = 1
        BY <3>1, <4>1 DEF Chain
      <4>3. s[k - 1] \in cells
        BY <1>1, <3>1
      <4> QED
        BY <3>1, <4>2, <4>3 DEF Chain
    <3>3. h[t[k]].next = IF k = Len(t) THEN NULL ELSE t[k + 1]
      <4>1. k - 1 = Len(s) <=> k = Len(t)
        BY <1>1, <1>2, <3>1
      <4>2. k # Len(t) => k + 1 \in 2 .. Len(t) /\ t[k + 1] = s[k + 1 - 1]
        BY <1>1, <1>2, <1>3, <3>1
      <4>3. k - 1 + 1 = k + 1 - 1
        BY <3>1
      <4> QED
        BY <1>4, <3>1, <3>2, <4>1, <4>2, <4>3
    <3>4. h[t[k]].prev = IF k = 1 THEN NULL ELSE t[k - 1]
      <4>1. CASE k = 2
        BY <1>1, <1>2, <1>4, <3>1, <3>2, <4>1
      <4>2. CASE k # 2
        <5>1. k - 1 \in 2 .. Len(t) /\ t[k - 1] = s[k - 1 - 1]
          BY <1>1, <1>2, <1>3, <3>1, <4>2
        <5>2. k - 1 # 1
          BY <3>1, <4>2
        <5> QED
          BY <1>1, <1>4, <2>2, <3>1, <3>2, <5>1, <5>2
      <4> QED
        BY <4>1, <4>2
    <3> QED
      BY <3>3, <3>4
  <2> QED
    BY <2>1, <2>2
<1>8. lst = t[Len(t)]
  BY <1>1, <1>2
<1> HIDE DEF t, h
<1>9. Chain(h, cells \cup {new}, new, lst, t)
  BY <1>2, <1>5, <1>6, <1>7, <1>8 DEF Chain
<1> QED
  BY <1>9 DEF t, h

AllButLast(s) == SubSeq(s, 1, Len(s) - 1)

\* cli_record_cli_history before it links the new entry: the last one is freed.
WithoutLast(heap, lst) == [heap EXCEPT ![heap[lst].prev].next = NULL, ![lst] = Fresh(Empty)]

Shorter(heap, cells, fst, lst, s, kept, t) ==
    /\ s \in Seq(cells) /\ Len(s) \in Nat /\ Len(s) >= 2
    /\ fst = s[1] /\ lst = s[Len(s)] /\ heap[lst].prev = s[Len(s) - 1]
    /\ t \in Seq(cells \ {lst}) /\ Len(t) = Len(s) - 1
    /\ \A k \in 1 .. Len(s) - 1 : t[k] = s[k] /\ s[k] \in cells \ {lst}
    /\ \A d \in cells \ {lst} :
         /\ kept[d].text = heap[d].text
         /\ kept[d].prev = heap[d].prev
         /\ kept[d].next = IF d = s[Len(s) - 1] THEN NULL ELSE heap[d].next

LEMMA ShorterFacts ==
    ASSUME NEW heap \in [Cell \cup {Main} -> Cli], NEW cells \in SUBSET Cell, NEW fst, NEW lst, NEW s,
           Chain(heap, cells, fst, lst, s), fst # lst
    PROVE  Shorter(heap, cells, fst, lst, s, WithoutLast(heap, lst), AllButLast(s))
<1>1. s \in Seq(cells) /\ Len(s) \in Nat \ {0} /\ fst = s[1] /\ lst = s[Len(s)] /\ Len(s) >= 2
  <2>1. s \in Seq(cells) /\ s # << >> /\ fst = s[1] /\ lst = s[Len(s)]
    BY DEF Chain
  <2>2. Len(s) \in Nat /\ Len(s) # 0 /\ Len(s) # 1
    BY <2>1
  <2> QED
    BY <2>1, <2>2
<1>2. /\ \A k \in 1 .. Len(s) : s[k] \in cells
      /\ \A j, k \in 1 .. Len(s) : s[j] = s[k] => j = k
      /\ \A k \in 1 .. Len(s) : heap[s[k]].prev = IF k = 1 THEN NULL ELSE s[k - 1]
  BY DEF Chain
<1>3. heap[lst].prev = s[Len(s) - 1] /\ Len(s) - 1 \in 1 .. Len(s) /\ Len(s) \in 1 .. Len(s)
  BY <1>1, <1>2
<1>4. \A k \in 1 .. Len(s) - 1 : k \in 1 .. Len(s) /\ s[k] \in cells \ {lst}
  BY <1>1, <1>2
<1>5. /\ AllButLast(s) \in Seq(cells \ {lst}) /\ Len(AllButLast(s)) = Len(s) - 1
      /\ \A k \in 1 .. Len(s) - 1 : AllButLast(s)[k] = s[k]
  BY <1>1, <1>4 DEF AllButLast
<1>6. s[Len(s) - 1] \in cells \ {lst} /\ lst \in cells
  BY <1>1, <1>2, <1>3, <1>4
<1>7. ASSUME NEW d \in cells \ {lst}
      PROVE  /\ WithoutLast(heap, lst)[d].text = heap[d].text
             /\ WithoutLast(heap, lst)[d].prev = heap[d].prev
             /\ WithoutLast(heap, lst)[d].next = IF d = s[Len(s) - 1] THEN NULL ELSE heap[d].next
  BY <1>3, <1>6 DEF Cli, WithoutLast
<1> QED
  BY <1>1, <1>3, <1>4, <1>5, <1>7 DEF Shorter

LEMMA ChainShorter ==
    ASSUME NEW heap \in [Cell \cup {Main} -> Cli], NEW cells \in SUBSET Cell, NEW fst, NEW lst, NEW s,
           Chain(heap, cells, fst, lst, s), fst # lst
    PROVE  Chain(WithoutLast(heap, lst), cells \ {lst}, fst, heap[lst].prev, AllButLast(s))
<1>1. PICK kept, t : /\ kept = WithoutLast(heap, lst) /\ t = AllButLast(s)
                     /\ Shorter(heap, cells, fst, lst, s, kept, t)
  BY ShorterFacts
<1>2. /\ s \in Seq(cells) /\ Len(s) \in Nat /\ Len(s) >= 2
      /\ fst = s[1] /\ lst = s[Len(s)] /\ heap[lst].prev = s[Len(s) - 1]
      /\ t \in Seq(cells \ {lst}) /\ Len(t) = Len(s) - 1
      /\ \A k \in 1 .. Len(s) - 1 : t[k] = s[k] /\ s[k] \in cells \ {lst}
      /\ \A d \in cells \ {lst} :
           /\ kept[d].prev = heap[d].prev
           /\ kept[d].next = IF d = s[Len(s) - 1] THEN NULL ELSE heap[d].next
  BY <1>1 DEF Shorter
<1>3. /\ \A d \in cells : \E k \in 1 .. Len(s) : s[k] = d
      /\ \A j, k \in 1 .. Len(s) : s[j] = s[k] => j = k
      /\ \A k \in 1 .. Len(s) :
           /\ heap[s[k]].next = IF k = Len(s) THEN NULL ELSE s[k + 1]
           /\ heap[s[k]].prev = IF k = 1 THEN NULL ELSE s[k - 1]
  BY DEF Chain
<1>4. t # << >>
  <2>1. Len(t) # 0
    BY <1>2
  <2> QED
    BY <2>1
<1>5. \A d \in cells \ {lst} : \E k \in 1 .. Len(t) : t[k] = d
  <2> TAKE d \in cells \ {lst}
  <2>1. PICK k \in 1 .. Len(s) : s[k] = d
    BY <1>3
  <2>2. k # Len(s)
    BY <1>2, <2>1
  <2>3. k \in 1 .. Len(t) /\ t[k] = d
    BY <1>2, <2>1, <2>2, SMTT(30)
  <2> QED
    BY <2>3
<1>6. \A j, k \in 1 .. Len(t) : t[j] = t[k] => j = k
  <2> TAKE j, k \in 1 .. Len(t)
  <2>1. j \in 1 .. Len(s) /\ k \in 1 .. Len(s) /\ t[j] = s[j] /\ t[k] = s[k]
    BY <1>2
  <2> QED
    BY <1>3, <2>1, ZenonT(30)
<1>7. ASSUME NEW k \in 1 .. Len(t)
      PROVE  /\ kept[t[k]].next = IF k = Len(t) THEN NULL ELSE t[k + 1]
             /\ kept[t[k]].prev = IF k = 1 THEN NULL ELSE t[k - 1]
  <2>1. /\ k \in 1 .. Len(s) /\ Len(s) - 1 \in 1 .. Len(s) /\ k # Len(s)
        /\ t[k] = s[k] /\ s[k] \in cells \ {lst}
    BY <1>2, SMTT(30)
  <2>2. kept[t[k]].next = IF s[k] = s[Len(s) - 1] THEN NULL ELSE s[k + 1]
    BY <1>2, <1>3, <2>1, ZenonT(30)
  <2>3. s[k] = s[Len(s) - 1] <=> k = Len(t)
    BY <1>2, <1>3, <2>1
  <2>4. k # Len(t) => t[k + 1] = s[k + 1]
    <3>1. k # Len(t) => k + 1 \in 1 .. Len(s) - 1
      BY <1>2
    <3> QED
      BY <1>2, <3>1
  <2>5. k # 1 => t[k - 1] = s[k - 1]
    <3>1. k # 1 => k - 1 \in 1 .. Len(s) - 1
      BY <1>2
    <3> QED
      BY <1>2, <3>1
  <2>6. kept[t[k]].prev = heap[s[k]].prev
    BY <1>2, <2>1
  <2> QED
    BY <1>3, <2>1, <2>2, <2>3, <2>4, <2>5, <2>6
<1>8. heap[lst].prev = t[Len(t)] /\ fst = t[1]
  BY <1>2
<1>9. Chain(kept, cells \ {lst}, fst, heap[lst].prev, t)
  BY <1>2, <1>4, <1>5, <1>6, <1>7, <1>8 DEF Chain
<1> QED
  BY <1>1, <1>9

LEMMA ShorterTexts ==
    ASSUME NEW heap \in [Cell \cup {Main} -> Cli], NEW cells \in SUBSET Cell, NEW fst, NEW lst, NEW s,
           Chain(heap, cells, fst, lst, s), fst # lst
    PROVE  TextsOf(WithoutLast(heap, lst), AllButLast(s)) = AllButLast(TextsOf(heap, s))
<1>1. PICK kept, t : /\ kept = WithoutLast(heap, lst) /\ t = AllButLast(s)
                     /\ Shorter(heap, cells, fst, lst, s, kept, t)
  BY ShorterFacts
<1>2. /\ s \in Seq(cells) /\ Len(s) \in Nat /\ Len(s) >= 2 /\ Len(t) = Len(s) - 1
      /\ \A k \in 1 .. Len(s) - 1 : t[k] = s[k] /\ s[k] \in cells \ {lst}
      /\ \A d \in cells \ {lst} : kept[d].text = heap[d].text
  BY <1>1 DEF Shorter
<1>3. TextsOf(heap, s) \in Seq({heap[d].text : d \in cells}) /\ Len(TextsOf(heap, s)) = Len(s)
  BY <1>2 DEF TextsOf
<1>4. AllButLast(TextsOf(heap, s)) = [k \in 1 .. Len(s) - 1 |-> heap[s[k]].text]
  <2>1. \A k \in 1 .. Len(s) - 1 : k \in 1 .. Len(s)
    BY <1>2
  <2> QED
    BY <1>2, <1>3, <2>1 DEF AllButLast, TextsOf
<1>5. TextsOf(kept, t) = [k \in 1 .. Len(s) - 1 |-> kept[t[k]].text]
  BY <1>2 DEF TextsOf
<1>6. \A k \in 1 .. Len(s) - 1 : kept[t[k]].text = heap[s[k]].text
  BY <1>2
<1> QED
  BY <1>1, <1>4, <1>5, <1>6

\* Chain and texts behind a record: the command is first, or was already, or is
\* none to be recorded, and only the last entry may be gone.
Recorded(c, before, after) ==
    \/ after = before
    \/ after = <<c>> \o before
    \/ after = <<c>> \o AllButLast(before)

LEMMA LongerTexts ==
    ASSUME NEW heap \in [Cell \cup {Main} -> Cli], NEW s \in Seq(Cell), first \in Cell,
           NEW c, NEW new \in Cell, \A k \in 1 .. Len(s) : s[k] # new
    PROVE  TextsOf(Linked(heap, c, new), <<new>> \o s) = <<c>> \o TextsOf(heap, s)
<1> DEFINE t == <<new>> \o s
           a == TextsOf(Linked(heap, c, new), t)
           b == <<c>> \o TextsOf(heap, s)
<1>1. /\ Len(s) \in Nat /\ Len(t) = Len(s) + 1 /\ t[1] = new
      /\ \A k \in 1 .. Len(t) : k # 1 => k - 1 \in 1 .. Len(s) /\ t[k] = s[k - 1] /\ t[k] \in Cell \ {new}
  OBVIOUS
<1>2. TextsOf(heap, s) \in Seq({heap[d].text : d \in Cell}) /\ Len(TextsOf(heap, s)) = Len(s)
  BY <1>1 DEF TextsOf
<1>3. /\ b = [k \in 1 .. Len(t) |-> b[k]] /\ b[1] = c
      /\ \A k \in 1 .. Len(t) : k # 1 => b[k] = TextsOf(heap, s)[k - 1]
  BY <1>1, <1>2
<1>4. /\ Linked(heap, c, new)[new].text = c
      /\ \A d \in Cell \ {new} : Linked(heap, c, new)[d].text = heap[d].text
  BY NullIsNoCell DEF Linked, Fresh, Cli
<1> HIDE DEF t, b
<1>5. \A k \in 1 .. Len(t) : b[k] = Linked(heap, c, new)[t[k]].text
  <2> TAKE k \in 1 .. Len(t)
  <2>1. CASE k = 1
    BY <1>1, <1>3, <1>4, <2>1
  <2>2. CASE k # 1
    <3>1. k - 1 \in 1 .. Len(s) /\ t[k] = s[k - 1] /\ t[k] \in Cell \ {new}
      BY <1>1, <2>2
    <3>2. b[k] = heap[s[k - 1]].text
      BY <1>3, <2>2, <3>1 DEF TextsOf
    <3> QED
      BY <1>4, <3>1, <3>2
  <2> QED
    BY <2>1, <2>2
<1>6. a = b
  BY <1>3, <1>5 DEF TextsOf
<1> QED
  BY <1>6 DEF t, b

LEMMA RecordKeepsChain ==
    ASSUME Inv, NEW s, Chain(cli, live, first, last, s),
           NEW heap \in [Cell \cup {Main} -> Cli], SameLinks(cli, heap),
           NEW c \in Commands, NEW new \in Cell \ live, Record(heap, c, new)
    PROVE  \E t : /\ Chain(cli', live', first', last', t)
                  /\ NewestRan(cli', first', c)
                  /\ Recorded(c, TextsOf(heap, s), TextsOf(cli', t))
<1> USE NullIsNoCell
<1>1. live \in SUBSET Cell /\ s \in Seq(live) /\ s \in Seq(Cell)
  BY DEF Inv, TypeOK, Chain
<1>2. Chain(heap, live, first, last, s)
  BY <1>1, LinksKeepChain
<1>4. first # NULL => s # << >> /\ first \in live /\ last \in live
  BY <1>1, <1>2 DEF Chain
<1>5. CASE c \in Exceptional /\ cli' = heap /\ UNCHANGED <<live, history>>
  BY <1>2, <1>5 DEF history, NewestRan, Recorded
<1>6. CASE first # NULL /\ SameAsFirst(heap, c) /\ cli' = heap /\ UNCHANGED <<live, history>>
  BY <1>2, <1>6 DEF history, NewestRan, Recorded, SameAsFirst
<1>7. CASE /\ first = NULL
           /\ cli' = [heap EXCEPT ![new] = Fresh(c)]
           /\ live' = live \cup {new}
           /\ first' = new /\ last' = new
  <2>1. s = << >> /\ live = {}
    BY <1>1, <1>2, <1>7 DEF Chain
  <2>2. Chain(cli', live', first', last', <<new>>)
    <3>1. live' = {new}
      BY <1>7, <2>1
    <3>2. Chain(cli', {new}, new, new, <<new>>)
      BY <1>7, ChainOfOne
    <3> QED
      BY <1>7, <3>1, <3>2
  <2>3. cli'[new].text = c
    BY <1>7 DEF Fresh
  <2>4. TextsOf(cli', <<new>>) = <<c>> \o TextsOf(heap, s)
    BY <2>1, <2>3 DEF TextsOf
  <2> QED
    BY <1>7, <2>2, <2>3, <2>4 DEF NewestRan, Recorded
<1>8. ASSUME NEW kept \in [Cell \cup {Main} -> Cli], NEW cells \in SUBSET live, NEW lst, NEW u,
             Chain(kept, cells, first, lst, u), u # << >>, first \in Cell,
             cli' = Linked(kept, c, new), live' = cells \cup {new},
             first' = new, last' = lst
      PROVE  /\ Chain(cli', live', first', last', <<new>> \o u)
             /\ NewestRan(cli', first', c)
             /\ TextsOf(cli', <<new>> \o u) = <<c>> \o TextsOf(kept, u)
  <2>1. cells \in SUBSET Cell /\ new \in Cell \ cells
    BY <1>1, <1>8
  <2>2. Chain(cli', live', first', last', <<new>> \o u)
    BY <1>8, <2>1, ChainLonger
  <2>3. cli'[new].text = c
    BY <1>8, <2>1 DEF Linked, Fresh, Cli
  <2>4. u \in Seq(Cell) /\ \A k \in 1 .. Len(u) : u[k] # new
    <3>1. u \in Seq(cells)
      BY <1>8 DEF Chain
    <3> QED
      BY <2>1, <3>1
  <2>5. TextsOf(cli', <<new>> \o u) = <<c>> \o TextsOf(kept, u)
    BY <1>8, <2>4, LongerTexts
  <2> QED
    BY <1>8, <2>1, <2>2, <2>3, <2>5 DEF NewestRan
<1>9. CASE /\ first # NULL
           /\ cli' = Linked(IF count = LIMIT
                            THEN [heap EXCEPT ![heap[last].prev].next = NULL,
                                              ![last] = Fresh(Empty)]
                            ELSE heap, c, new)
           /\ live' = (IF count = LIMIT THEN live \ {last} ELSE live) \cup {new}
           /\ last' = IF count = LIMIT THEN heap[last].prev ELSE last
           /\ first' = new
  <2>1. CASE count = LIMIT
    <3>1. first # last
      BY <2>1, HistoryAssumption DEF HistoryAssumption, Inv, Ends, TypeOK
    <3> DEFINE u == AllButLast(s)
    <3>8. PICK kept : kept = WithoutLast(heap, last)
      OBVIOUS
    <3>2. kept \in [Cell \cup {Main} -> Cli]
      <4>2. Fresh(Empty) \in Cli /\ last \in Cell
        BY <1>1, <1>4, <1>9, FreshIsCli, HistoryAssumption DEF HistoryAssumption
      <4> QED
        BY <3>8, <4>2 DEF Cli, WithoutLast
    <3>3. /\ Len(s) >= 2 /\ Chain(kept, live \ {last}, first, heap[last].prev, u)
          /\ TextsOf(kept, u) = AllButLast(TextsOf(heap, s))
      <4>1. live \in SUBSET Cell
        BY <1>1
      <4>2. Len(s) >= 2
        BY <1>2, <3>1, <4>1, ShorterFacts DEF Shorter
      <4>3. TextsOf(kept, u) = AllButLast(TextsOf(heap, s))
        BY <1>2, <3>1, <3>8, <4>1, ShorterTexts
      <4>4. Chain(kept, live \ {last}, first, heap[last].prev, u)
        BY <1>2, <3>1, <3>8, <4>1, ChainShorter
      <4> QED
        BY <4>2, <4>3, <4>4
    <3>4. u # << >>
      <4>1. Len(s) \in Nat /\ Len(u) = Len(s) - 1
        BY <1>1, <3>3 DEF AllButLast
      <4> HIDE DEF u
      <4> QED
        BY <3>3, <4>1
    <3>6. /\ cli' = Linked(kept, c, new) /\ live' = (live \ {last}) \cup {new}
          /\ last' = heap[last].prev /\ first' = new
      BY <1>9, <2>1, <3>8 DEF WithoutLast
    <3> HIDE DEF u
    <3>7. /\ Chain(cli', live', first', last', <<new>> \o u)
          /\ NewestRan(cli', first', c)
          /\ TextsOf(cli', <<new>> \o u) = <<c>> \o TextsOf(kept, u)
      <4>1. first \in Cell /\ live \ {last} \in SUBSET live
        BY <1>1, <1>4, <1>9
      <4> QED
        BY <1>8, <3>2, <3>3, <3>4, <3>6, <4>1, ZenonT(30)
    <3> QED
      BY <3>3, <3>7 DEF Recorded
  <2>2. CASE count # LIMIT
    <3>1. cli' = Linked(heap, c, new) /\ live' = live \cup {new} /\ last' = last /\ first' = new
      BY <1>9, <2>2
    <3>2. /\ Chain(cli', live', first', last', <<new>> \o s)
          /\ NewestRan(cli', first', c)
          /\ TextsOf(cli', <<new>> \o s) = <<c>> \o TextsOf(heap, s)
      <4>1. first \in Cell /\ live \in SUBSET live /\ s # << >>
        BY <1>1, <1>4, <1>9
      <4> QED
        BY <1>2, <1>8, <3>1, <4>1
    <3> QED
      BY <3>2 DEF Recorded
  <2> QED
    BY <2>1, <2>2
<1> QED
  BY <1>5, <1>6, <1>7, <1>9 DEF Record

-----------------------------------------------------------------------------
(* The actions.                                                            *)

LEMMA ListInitially == ASSUME Init PROVE ListInv
<1>1. Chain(cli, live, first, last, << >>)
  BY DEF Init, Chain
<1>2. NewestRan(cli, first, ran)
  BY DEF Init, NewestRan
<1> QED
  BY <1>1, <1>2, InitInv DEF ListInv

\* A step that links nothing.
LEMMA SameChain ==
    ASSUME Inv, NEW s, Chain(cli, live, first, last, s), SameLinks(cli, cli'),
           UNCHANGED <<live, history>>
    PROVE  Chain(cli', live', first', last', s)
BY LinksKeepChain DEF Inv, TypeOK, history

\* What a return does to the entries: the handler may have emptied the one it
\* was taken from, which is at the place browsed.
Emptying(s, heap, c) ==
    TextsOf(heap, s) = [TextsOf(cli, s) EXCEPT ![c] = Empty] /\ c \in 1 .. Len(s)

LEMMA RunsChain ==
    ASSUME Inv, ReturnRuns, NEW s, Chain(cli, live, first, last, s)
    PROVE  LET c == Runs[cli[default_cli].text] IN
           \E heap, t :
             /\ c \in Commands /\ ran' = c /\ curr_ptr' = NULL
             /\ Chain(cli', live', first', last', t)
             /\ NewestRan(cli', first', c)
             /\ Recorded(c, TextsOf(heap, s), TextsOf(cli', t))
             /\ \/ TextsOf(heap, s) = TextsOf(cli, s)
                \/ /\ curr_ptr # NULL
                   /\ \A k \in 1 .. Len(s) : s[k] = curr_ptr => Emptying(s, heap, k)
<1> DEFINE c == Runs[cli[default_cli].text]
           heap == Emptied(AfterHandler(c))
<1>0. TypeOK /\ BrowsingIsSound
  BY DEF Inv
<1>1. c \in Commands
  BY <1>0, HistoryAssumption, NullIsNoCell DEF HistoryAssumption, ReturnRuns, TypeOK, Cli
<1>2. ToMain /\ ran' = c
  BY DEF ReturnRuns
<1>3. PICK new \in Cell \ live : Record(heap, c, new)
  BY DEF ReturnRuns
<1>4. default_cli' = Main /\ curr_ptr' = NULL
  BY <1>0, <1>2, BackToMain
<1>5. heap \in [Cell \cup {Main} -> Cli] /\ SameLinks(cli, heap)
  <2>1. /\ AfterHandler(c) \in [Cell \cup {Main} -> Cli]
        /\ SameLinks(cli, AfterHandler(c))
    BY <1>0, HandlerHeap
  <2>2. /\ heap \in [Cell \cup {Main} -> Cli]
        /\ SameLinks(AfterHandler(c), heap)
    BY <1>0, <1>2, <2>1, EmptiedHeap
  <2> QED
    BY <2>1, <2>2 DEF SameLinks
<1>6. \A d \in Cell : heap[d].text = IF c = HostName /\ d = default_cli THEN Empty ELSE cli[d].text
  BY <1>0, <1>4, NullIsNoCell DEF Emptied, AfterHandler, TypeOK, Cli
<1>7. s \in Seq(live) /\ Len(s) \in Nat /\ live \subseteq Cell
  BY <1>0 DEF Chain, TypeOK
<1>8. \A k \in 1 .. Len(s) : s[k] \in Cell
  BY <1>7
<1> HIDE DEF c, heap
<1>9. PICK t : /\ Chain(cli', live', first', last', t)
               /\ NewestRan(cli', first', c)
               /\ Recorded(c, TextsOf(heap, s), TextsOf(cli', t))
  BY <1>1, <1>3, <1>5, RecordKeepsChain
<1>10. \/ TextsOf(heap, s) = TextsOf(cli, s)
       \/ /\ curr_ptr # NULL
          /\ \A k \in 1 .. Len(s) : s[k] = curr_ptr => Emptying(s, heap, k)
  <2>1. CASE c # HostName \/ default_cli = Main
    <3>1. \A k \in 1 .. Len(s) : heap[s[k]].text = cli[s[k]].text
      BY <1>6, <1>8, <2>1, NullIsNoCell
    <3> QED
      BY <3>1 DEF TextsOf
  <2>2. CASE c = HostName /\ default_cli # Main
    <3>1. curr_ptr # NULL /\ default_cli = curr_ptr
      BY <1>0, <2>2 DEF BrowsingIsSound
    <3>2. ASSUME NEW k \in 1 .. Len(s), s[k] = curr_ptr PROVE Emptying(s, heap, k)
      <4>1. \A j \in 1 .. Len(s) : s[j] = s[k] <=> j = k
        BY DEF Chain
      <4>2. \A j \in 1 .. Len(s) : heap[s[j]].text = IF j = k THEN Empty ELSE cli[s[j]].text
        BY <1>6, <1>8, <2>2, <3>1, <3>2, <4>1
      <4> QED
        BY <4>2 DEF Emptying, TextsOf
    <3> QED
      BY <3>1, <3>2
  <2> QED
    BY <2>1, <2>2
<1> QED
  BY <1>1, <1>2, <1>4, <1>9, <1>10 DEF c

LEMMA NextKeepsListInv == ASSUME ListInv, [Next]_vars PROVE ListInv'
<1>1. Inv /\ Inv'
  BY NextKeepsInv DEF ListInv
<1>2. PICK s : Chain(cli, live, first, last, s)
  BY DEF ListInv
<1>3. ASSUME SameLinks(cli, cli'), UNCHANGED <<live, history>>, ran' = NULL
      PROVE  ListInv'
  <2>1. Chain(cli', live', first', last', s)
    BY <1>1, <1>2, <1>3, SameChain
  <2> QED
    BY <1>1, <1>3, <2>1 DEF ListInv, NewestRan
<1>4. ASSUME NEW t \in Texts, Edit(t) PROVE ListInv'
  <2>1. SameLinks(cli, cli')
    BY <1>1, <1>4 DEF Edit, SameLinks, Inv, TypeOK
  <2> QED
    BY <1>3, <1>4, <2>1 DEF Edit
<1>5. CASE KeyUp
  BY <1>3, <1>5 DEF KeyUp, SameLinks
<1>6. CASE KeyDown
  BY <1>3, <1>6 DEF KeyDown, SameLinks
<1>7. CASE CtrlT
  <2>1. SameLinks(cli, cli')
    BY <1>1, <1>7 DEF CtrlT, SameLinks, Inv, TypeOK
  <2> QED
    BY <1>3, <1>7, <2>1 DEF CtrlT
<1>8. CASE ReturnFails
  <2>1. SameLinks(cli, cli')
    BY <1>1, <1>8, EmptiedHeap DEF ReturnFails, Inv, TypeOK
  <2> QED
    BY <1>3, <1>8, <2>1 DEF ReturnFails
<1>9. CASE ReturnRuns
  <2>1. \E t : Chain(cli', live', first', last', t)
    BY <1>1, <1>2, <1>9, RunsChain
  <2>2. NewestRan(cli', first', ran')
    BY <1>1, <1>2, <1>9, RunsChain
  <2> QED
    BY <1>1, <2>1, <2>2 DEF ListInv
<1>10. CASE UNCHANGED vars
  <2>1. Chain(cli', live', first', last', s) /\ NewestRan(cli', first', ran')
    BY <1>2, <1>10 DEF vars, history, ListInv
  <2> QED
    BY <1>1, <2>1 DEF ListInv
<1> QED
  BY <1>4, <1>5, <1>6, <1>7, <1>8, <1>9, <1>10 DEF Next

LEMMA ListInvariance == Spec => []ListInv
BY ListInitially, NextKeepsListInv, PTL DEF Spec

\* For any limit and number of cells, the list is one of exactly the allocated
\* cells, can be walked both ways, and begins with the command that ran.
THEOREM ListIsSoundHolds == Spec => []ListIsSound
<1>1. ASSUME ListInv PROVE ListIsSound
  <2>1. TypeOK /\ live \subseteq Cell
    BY <1>1 DEF ListInv, Inv, TypeOK
  <2>2. PICK s : Chain(cli, live, first, last, s)
    BY <1>1 DEF ListInv
  <2>3. Len(s) \in Nat /\ Len(s) = Cardinality(live) /\ Len(s) <= Cardinality(Cell)
    BY <2>1, <2>2, ChainLength
  <2>4. Length = Len(s)
    BY <2>1, <2>2, ChainIsRead, AbstractIs
  <2>5. Nth = [k \in 1 .. Cardinality(Cell) + 1 |-> IF k <= Len(s) THEN s[k] ELSE NULL]
    BY <2>1, <2>2, WalkIsChain, NthIsWalk
  <2>6. \A k \in 1 .. Length : Nth[k] = s[k]
    BY <2>3, <2>4, <2>5, CellsAreFinite
  <2>7. {Nth[k] : k \in 1 .. Length} = live
    BY <2>2, <2>4, <2>6 DEF Chain
  <2>8. Length > 0 => Nth[Length] = last /\ cli[first].prev = NULL
    BY <2>2, <2>3, <2>4, <2>6 DEF Chain
  <2>9. \A k \in 1 .. Length - 1 : cli[Nth[k + 1]].prev = Nth[k]
    <3> TAKE k \in 1 .. Length - 1
    <3>1. k \in 1 .. Len(s) /\ k + 1 \in 1 .. Len(s) /\ k + 1 # 1
      BY <2>3, <2>4
    <3>2. cli[s[k + 1]].prev = s[k + 1 - 1] /\ k + 1 - 1 = k
      BY <2>2, <3>1 DEF Chain
    <3> QED
      BY <2>4, <2>6, <3>1, <3>2
  <2>10. ran # NULL /\ ran \notin Exceptional => cli[first].text = ran
    BY <1>1 DEF ListInv, NewestRan
  <2> QED
    BY <2>3, <2>4, <2>7, <2>8, <2>9, <2>10 DEF ListIsSound
<1> QED
  BY <1>1, ListInvariance, PTL

-----------------------------------------------------------------------------
(* The list implements the abstract history.                               *)

\* The sequences that an abstract place counts in.
LEMMA TextsSeq ==
    ASSUME TypeOK, NEW s, Chain(cli, live, first, last, s)
    PROVE  /\ TextsOf(cli, s) \in Seq(Texts) /\ Len(TextsOf(cli, s)) = Len(s) /\ Len(s) \in Nat
           /\ DOMAIN TextsOf(cli, s) = 1 .. Len(s)
           /\ \A k \in 1 .. Len(s) : TextsOf(cli, s)[k] = cli[s[k]].text
<1>1. s \in Seq(live) /\ Len(s) \in Nat /\ live \subseteq Cell
  BY DEF Chain, TypeOK
<1>2. \A k \in 1 .. Len(s) : cli[s[k]].text \in Texts
  BY <1>1 DEF TypeOK, Cli
<1> QED
  BY <1>1, <1>2 DEF TextsOf

\* What the abstract variables are in a state whose chain is s.
LEMMA AbstractIsChain ==
    ASSUME Inv, NEW s, Chain(cli, live, first, last, s)
    PROVE  /\ Entries = TextsOf(cli, s)
           /\ curr_ptr = NULL => Place = 0
           /\ curr_ptr # NULL => Place \in 1 .. Len(s) /\ s[Place] = curr_ptr
<1>1. live \in SUBSET Cell
  BY DEF Inv, TypeOK
<1>2. Entries = TextsOf(cli, s)
  BY <1>1, ChainIsRead, AbstractIs
<1>3. curr_ptr = NULL => Place = 0
  BY AbstractIs DEF PlaceOf
<1>4. curr_ptr # NULL => curr_ptr \in live
  BY DEF Inv, BrowsingIsSound
<1>5. curr_ptr # NULL => Place \in 1 .. Len(s) /\ s[Place] = curr_ptr
  <2>1. PICK p : p = PlaceOf(cli, first, curr_ptr)
    OBVIOUS
  <2>2. curr_ptr # NULL => p \in 1 .. Len(s) /\ s[p] = curr_ptr
    BY <1>1, <1>4, <2>1, PlaceIsRead
  <2> QED
    BY <2>1, <2>2, AbstractIs
<1> QED
  BY <1>2, <1>3, <1>5

\* And in the next state, whose chain is t.
LEMMA AbstractIsChainNext ==
    ASSUME Inv', NEW t, Chain(cli', live', first', last', t)
    PROVE  /\ Entries' = TextsOf(cli', t)
           /\ curr_ptr' = NULL => Place' = 0
           /\ curr_ptr' # NULL => Place' \in 1 .. Len(t) /\ t[Place'] = curr_ptr'
<1>1. live' \in SUBSET Cell
  BY DEF Inv, TypeOK
<1>2. Entries' = TextsOf(cli', t)
  BY <1>1, ChainIsRead, AbstractIs
<1>3. curr_ptr' = NULL => Place' = 0
  BY AbstractIs DEF PlaceOf
<1>4. curr_ptr' # NULL => curr_ptr' \in live'
  BY DEF Inv, BrowsingIsSound
<1>5. curr_ptr' # NULL => Place' \in 1 .. Len(t) /\ t[Place'] = curr_ptr'
  <2>1. PICK p : p = PlaceOf(cli', first', curr_ptr')
    OBVIOUS
  <2>2. curr_ptr' # NULL => p \in 1 .. Len(t) /\ t[p] = curr_ptr'
    BY <1>1, <1>4, <2>1, PlaceIsRead
  <2> QED
    BY <2>1, <2>2, AbstractIs
<1> QED
  BY <1>2, <1>3, <1>5

LEMMA InitRefines == ASSUME Init PROVE Abstract!Init
<1>1. Inv /\ Chain(cli, live, first, last, << >>)
  BY InitInv DEF Init, Chain
<1>2. Entries = TextsOf(cli, << >>) /\ Place = 0
  BY <1>1, AbstractIsChain DEF Init
<1>3. TextsOf(cli, << >>) = << >>
  BY DEF TextsOf
<1> QED
  BY <1>2, <1>3 DEF Abstract!Init

\* Keys that leave the cells where they are.
LEMMA KeepRefines ==
    ASSUME Inv, Inv', NEW s, Chain(cli, live, first, last, s),
           SameLinks(cli, cli'), UNCHANGED <<live, history>>
    PROVE  /\ Entries' = TextsOf(cli', s)
           /\ curr_ptr' = NULL => Place' = 0
           /\ curr_ptr' # NULL => Place' \in 1 .. Len(s) /\ s[Place'] = curr_ptr'
BY SameChain, AbstractIsChainNext

LEMMA EditRefines ==
    ASSUME ListInv, ListInv', NEW text \in Texts, Edit(text)
    PROVE  Abstract!Change \/ UNCHANGED <<Entries, Place>>
<1>0. Inv /\ Inv' /\ TypeOK /\ BrowsingIsSound
  BY DEF ListInv, Inv
<1>1. PICK s : Chain(cli, live, first, last, s)
  BY DEF ListInv
<1>2. /\ Entries = TextsOf(cli, s)
      /\ curr_ptr = NULL => Place = 0
      /\ curr_ptr # NULL => Place \in 1 .. Len(s) /\ s[Place] = curr_ptr
  BY <1>0, <1>1, AbstractIsChain
<1>3. SameLinks(cli, cli') /\ UNCHANGED <<live, history>> /\ curr_ptr' = curr_ptr
  BY <1>0 DEF Edit, SameLinks, TypeOK
<1>4. /\ Entries' = TextsOf(cli', s)
      /\ curr_ptr' = NULL => Place' = 0
      /\ curr_ptr' # NULL => Place' \in 1 .. Len(s) /\ s[Place'] = curr_ptr'
  BY <1>0, <1>1, <1>3, KeepRefines
<1>5. \A d \in Cell : cli'[d].text = IF d = default_cli THEN text ELSE cli[d].text
  BY <1>0 DEF Edit, TypeOK, Cli
<1>6. \A j, k \in 1 .. Len(s) : s[j] \in Cell /\ (s[j] = s[k] <=> j = k)
  <2>1. \A j \in 1 .. Len(s) : s[j] \in Cell
    BY <1>0, <1>1 DEF Chain, TypeOK
  <2>2. \A j, k \in 1 .. Len(s) : s[j] = s[k] => j = k
    BY <1>1 DEF Chain
  <2> QED
    BY <2>1, <2>2
<1>7. CASE curr_ptr = NULL
  <2>1. default_cli = Main
    BY <1>0, <1>7 DEF BrowsingIsSound
  <2>2. \A k \in 1 .. Len(s) : cli'[s[k]].text = cli[s[k]].text
    BY <1>5, <1>6, <2>1, NullIsNoCell
  <2>3. TextsOf(cli', s) = TextsOf(cli, s)
    BY <2>2 DEF TextsOf
  <2> QED
    BY <1>2, <1>3, <1>4, <1>7, <2>3
<1>8. CASE curr_ptr # NULL
  <2>1. default_cli = curr_ptr
    BY <1>0, <1>8 DEF BrowsingIsSound
  <2>2. Place' = Place
    BY <1>2, <1>3, <1>4, <1>6, <1>8
  <2>3. \A k \in 1 .. Len(s) : cli'[s[k]].text = IF k = Place THEN text ELSE cli[s[k]].text
    BY <1>2, <1>5, <1>6, <1>8, <2>1
  <2>4. Entries' = [Entries EXCEPT ![Place] = text]
    BY <1>2, <1>4, <1>8, <2>3 DEF TextsOf
  <2>5. Place > 0
    BY <1>2, <1>8
  <2> QED
    BY <2>2, <2>4, <2>5 DEF Abstract!Change
<1> QED
  BY <1>7, <1>8

LEMMA KeyUpRefines ==
    ASSUME ListInv, ListInv', KeyUp
    PROVE  Abstract!Older \/ UNCHANGED <<Entries, Place>>
<1>0. Inv /\ Inv' /\ TypeOK /\ BrowsingIsSound
  BY DEF ListInv, Inv
<1>1. PICK s : Chain(cli, live, first, last, s)
  BY DEF ListInv
<1>2. /\ Entries = TextsOf(cli, s)
      /\ curr_ptr = NULL => Place = 0
      /\ curr_ptr # NULL => Place \in 1 .. Len(s) /\ s[Place] = curr_ptr
  BY <1>0, <1>1, AbstractIsChain
<1>3. SameLinks(cli, cli') /\ UNCHANGED <<live, history>> /\ cli' = cli
  BY DEF KeyUp, SameLinks
<1>4. /\ Entries' = TextsOf(cli', s)
      /\ curr_ptr' = NULL => Place' = 0
      /\ curr_ptr' # NULL => Place' \in 1 .. Len(s) /\ s[Place'] = curr_ptr'
  BY <1>0, <1>1, <1>3, KeepRefines
<1>5. Entries' = Entries
  BY <1>2, <1>3, <1>4
<1>6. Len(Entries) = Len(s) /\ Len(s) \in Nat
  BY <1>0, <1>1, <1>2, TextsSeq
<1>7. \A j, k \in 1 .. Len(s) : s[j] = s[k] => j = k
  BY <1>1 DEF Chain
<1>8. CASE Older = NULL
  <2>1. curr_ptr' = curr_ptr
    BY <1>8 DEF KeyUp
  <2>2. Place' = Place
    BY <1>2, <1>4, <1>7, <2>1
  <2> QED
    BY <1>5, <2>2
<1>9. CASE Older # NULL
  <2>1. curr_ptr' = Older
    BY <1>9 DEF KeyUp
  <2>2. CASE curr_ptr = NULL
    <3>1. s # << >> /\ curr_ptr' = s[1]
      BY <1>1, <1>9, <2>1, <2>2 DEF Older, Chain
    <3>2. Len(s) > 0 /\ 1 \in 1 .. Len(s)
      BY <1>1, <1>6, <3>1 DEF Chain
    <3>3. Place = 0 /\ Place' = 1
      BY <1>2, <1>4, <1>7, <1>9, <2>1, <2>2, <3>1, <3>2
    <3> QED
      BY <1>5, <1>6, <3>2, <3>3 DEF Abstract!Older
  <2>3. CASE curr_ptr # NULL
    <3>1. Place # Len(s) /\ curr_ptr' = s[Place + 1]
      BY <1>1, <1>2, <1>9, <2>1, <2>3 DEF Older, Chain
    <3>2. Place + 1 \in 1 .. Len(s) /\ Place < Len(s)
      BY <1>2, <1>6, <2>3, <3>1
    <3>3. Place' = Place + 1
      BY <1>4, <1>7, <1>9, <2>1, <3>1, <3>2
    <3> QED
      BY <1>5, <1>6, <3>2, <3>3 DEF Abstract!Older
  <2> QED
    BY <2>2, <2>3
<1> QED
  BY <1>8, <1>9

LEMMA KeyDownRefines ==
    ASSUME ListInv, ListInv', KeyDown
    PROVE  Abstract!Newer \/ UNCHANGED <<Entries, Place>>
<1>0. Inv /\ Inv' /\ TypeOK /\ BrowsingIsSound
  BY DEF ListInv, Inv
<1>1. PICK s : Chain(cli, live, first, last, s)
  BY DEF ListInv
<1>2. /\ Entries = TextsOf(cli, s)
      /\ curr_ptr = NULL => Place = 0
      /\ curr_ptr # NULL => Place \in 1 .. Len(s) /\ s[Place] = curr_ptr
  BY <1>0, <1>1, AbstractIsChain
<1>3. SameLinks(cli, cli') /\ UNCHANGED <<live, history>> /\ cli' = cli
  BY DEF KeyDown, SameLinks
<1>4. /\ Entries' = TextsOf(cli', s)
      /\ curr_ptr' = NULL => Place' = 0
      /\ curr_ptr' # NULL => Place' \in 1 .. Len(s) /\ s[Place'] = curr_ptr'
  BY <1>0, <1>1, <1>3, KeepRefines
<1>5. Entries' = Entries
  BY <1>2, <1>3, <1>4
<1>6. \A j, k \in 1 .. Len(s) : s[j] = s[k] => j = k
  BY <1>1 DEF Chain
<1>7. CASE curr_ptr = NULL
  <2>1. curr_ptr' = NULL
    BY <1>7 DEF KeyDown
  <2> QED
    BY <1>2, <1>4, <1>5, <1>7, <2>1
<1>8. CASE curr_ptr # NULL
  <2>1. Len(s) \in Nat
    BY <1>0, <1>1, TextsSeq
  <2>2. curr_ptr' = IF Place = 1 THEN NULL ELSE s[Place - 1]
    BY <1>1, <1>2, <1>8 DEF KeyDown, Chain
  <2>3. Place' = Place - 1
    <3>1. CASE Place = 1
      BY <1>4, <2>2, <3>1
    <3>2. CASE Place # 1
      <4>1. Place - 1 \in 1 .. Len(s)
        BY <1>2, <1>8, <2>1, <3>2
      <4>2. s[Place - 1] # NULL
        BY <1>0, <1>1, <4>1, NullIsNoCell DEF Chain, TypeOK
      <4> QED
        BY <1>4, <1>6, <2>2, <3>2, <4>1, <4>2
    <3> QED
      BY <3>1, <3>2
  <2>4. Place > 0
    BY <1>2, <1>8
  <2> QED
    BY <1>5, <2>3, <2>4 DEF Abstract!Newer
<1> QED
  BY <1>7, <1>8

\* Out of the history without a command.
LEMMA LeaveRefines ==
    ASSUME ListInv, ListInv', SameLinks(cli, cli'), UNCHANGED <<live, history>>, curr_ptr' = NULL,
           \A d \in Cell : cli'[d].text = cli[d].text
    PROVE  Abstract!Run
<1>0. Inv /\ Inv' /\ TypeOK
  BY DEF ListInv, Inv
<1>1. PICK s : Chain(cli, live, first, last, s)
  BY DEF ListInv
<1>2. Entries = TextsOf(cli, s)
  BY <1>0, <1>1, AbstractIsChain
<1>3. Entries' = TextsOf(cli', s) /\ Place' = 0
  BY <1>0, <1>1, KeepRefines
<1>4. \A k \in 1 .. Len(s) : s[k] \in Cell
  BY <1>0, <1>1 DEF Chain, TypeOK
<1>5. TextsOf(cli', s) = TextsOf(cli, s)
  BY <1>4 DEF TextsOf
<1> QED
  BY <1>2, <1>3, <1>5 DEF Abstract!Run

LEMMA RunsRefines ==
    ASSUME ListInv, ListInv', ReturnRuns
    PROVE  Abstract!Run
<1>0. Inv /\ Inv' /\ TypeOK
  BY DEF ListInv, Inv
<1>1. PICK s : Chain(cli, live, first, last, s)
  BY DEF ListInv
<1>2. /\ Entries = TextsOf(cli, s)
      /\ curr_ptr # NULL => Place \in 1 .. Len(s) /\ s[Place] = curr_ptr
  BY <1>0, <1>1, AbstractIsChain
<1> DEFINE c == Runs[cli[default_cli].text]
<1>3. PICK heap, t :
        /\ c \in Commands /\ curr_ptr' = NULL
        /\ Chain(cli', live', first', last', t)
        /\ Recorded(c, TextsOf(heap, s), TextsOf(cli', t))
        /\ \/ TextsOf(heap, s) = TextsOf(cli, s)
           \/ /\ curr_ptr # NULL
              /\ \A k \in 1 .. Len(s) : s[k] = curr_ptr => Emptying(s, heap, k)
  BY <1>0, <1>1, RunsChain
<1> HIDE DEF c
<1>4. Entries' = TextsOf(cli', t) /\ Place' = 0
  BY <1>0, <1>3, AbstractIsChainNext
<1>5. c \in Texts /\ Empty \in Texts
  BY <1>3, HistoryAssumption DEF HistoryAssumption
<1>6. PICK before : before = TextsOf(heap, s)
  OBVIOUS
<1>7. before \in {Entries} \cup {[Entries EXCEPT ![Place] = u] : u \in {v \in Texts : Place > 0}}
  <2>1. CASE before = TextsOf(cli, s)
    BY <1>2, <2>1
  <2>2. CASE /\ curr_ptr # NULL
             /\ \A k \in 1 .. Len(s) : s[k] = curr_ptr => Emptying(s, heap, k)
    <3>1. before = [Entries EXCEPT ![Place] = Empty] /\ Place > 0
      BY <1>2, <1>6, <2>2 DEF Emptying
    <3> QED
      BY <1>5, <3>1
  <2> QED
    BY <1>3, <1>6, <2>1, <2>2
<1>8. \/ Entries' = before
      \/ Entries' = <<c>> \o before
      \/ Entries' = <<c>> \o SubSeq(before, 1, Len(before) - 1)
  BY <1>3, <1>4, <1>6 DEF Recorded, AllButLast
<1> QED
  BY <1>4, <1>5, <1>7, <1>8 DEF Abstract!Run

\* For any limit and number of cells, every key and every return, read on the
\* list, is a step of the abstract history: the newest command first, at most
\* the oldest dropped, and an entry changed only at the place browsed.
THEOREM ListImplementsHistory == Spec => IsHistory
<1>1. Init => Abstract!Init
  BY InitRefines
<1>2. ListInv /\ ListInv' /\ [Next]_vars => [Abstract!Next]_<<Entries, Place>>
  <2>1. SUFFICES ASSUME ListInv, ListInv', [Next]_vars
                 PROVE  Abstract!Next \/ UNCHANGED <<Entries, Place>>
    OBVIOUS
  <2>2. Inv /\ TypeOK /\ BrowsingIsSound
    BY <2>1 DEF ListInv, Inv
  <2>3. CASE \E t \in Texts : Edit(t)
    BY <2>1, <2>3, EditRefines DEF Abstract!Next
  <2>4. CASE KeyUp
    BY <2>1, <2>4, KeyUpRefines DEF Abstract!Next
  <2>5. CASE KeyDown
    BY <2>1, <2>5, KeyDownRefines DEF Abstract!Next
  <2>6. CASE CtrlT
    <3>1. default_cli' = Main /\ curr_ptr' = NULL
      BY <2>2, <2>6, NullIsNoCell DEF CtrlT, BrowsingIsSound
    <3>2. SameLinks(cli, cli') /\ \A d \in Cell : cli'[d].text = cli[d].text
      BY <2>2, <2>6, <3>1, NullIsNoCell DEF CtrlT, SameLinks, TypeOK
    <3> QED
      BY <2>1, <2>6, <3>1, <3>2, LeaveRefines DEF Abstract!Next, CtrlT
  <2>7. CASE ReturnFails
    <3>1. default_cli' = Main /\ curr_ptr' = NULL
      BY <2>2, <2>7, BackToMain DEF ReturnFails
    <3>2. SameLinks(cli, cli') /\ \A d \in Cell : cli'[d].text = cli[d].text
      BY <2>2, <2>7, <3>1, NullIsNoCell DEF ReturnFails, Emptied, SameLinks, TypeOK
    <3> QED
      BY <2>1, <2>7, <3>1, <3>2, LeaveRefines DEF Abstract!Next, ReturnFails
  <2>8. CASE ReturnRuns
    BY <2>1, <2>8, RunsRefines DEF Abstract!Next
  <2>9. CASE UNCHANGED vars
    <3>1. Nth' = Nth
      BY <2>9 DEF vars, history, Nth
    <3>2. Length' = Length
      BY <3>1 DEF Length
    <3> QED
      BY <2>9, <3>1, <3>2 DEF vars, Entries, Place
  <2> QED
    BY <2>1, <2>3, <2>4, <2>5, <2>6, <2>7, <2>8, <2>9 DEF Next
<1> QED
  BY <1>1, <1>2, ListInvariance, PTL DEF Spec, IsHistory, Abstract!Spec
=============================================================================
