--------------------------- MODULE TreeBuild_proofs ---------------------------
(***************************************************************************)
(* What holds of the tree of commands while it is built, and when it is,   *)
(* for any program, any number of calls and any number of slots.           *)
(***************************************************************************)
EXTENDS TreeBuild, SequenceTheorems, NaturalsInduction, WellFoundedInduction,
        FiniteSetTheorems, TLAPS

-----------------------------------------------------------------------------
(* Recursion.  The theorems of the library on it take an operator; these   *)
(* take a function instead.                                                *)

Less == {ss \in Nat \X Nat : ss[1] < ss[2]}

LEMMA LeastNat == ASSUME NEW T \in SUBSET Nat, T # {} PROVE \E m \in T : \A n \in T : m <= n
<1>1. IsWellFoundedOn(Less, Nat)
  BY NatLessThanWellFounded DEF OpToRel, Less
<1>2. PICK m \in T : \A n \in T : ~ (<<n, m>> \in Less)
  BY <1>1, WFMin
<1>3. ASSUME NEW n \in T PROVE m <= n
  <2>1. n < m => <<n, m>> \in Less
    BY DEF Less
  <2> QED
    BY <1>2, <2>1
<1> QED
  BY <1>3

\* What fails for an element fails for one of least rank.
LEMMA LeastRank ==
    ASSUME NEW D, NEW rank \in [D -> Nat], NEW T \in SUBSET D, T # {}
    PROVE  \E x \in T : \A y \in D : rank[y] < rank[x] => y \notin T
<1>1. {rank[x] : x \in T} \in SUBSET Nat /\ {rank[x] : x \in T} # {}
  OBVIOUS
<1>2. PICK m \in {rank[x] : x \in T} : \A n \in {rank[x] : x \in T} : m <= n
  BY <1>1, LeastNat
<1>3. PICK x \in T : rank[x] = m
  BY <1>2
<1>4. ASSUME NEW y \in D, rank[y] < rank[x], y \in T PROVE FALSE
  <2>1. m <= rank[y]
    BY <1>2, <1>4
  <2> QED
    BY <1>1, <1>3, <1>4, <2>1
<1> QED
  BY <1>4

\* A value that rests on the values of lower rank only: f solves the recursion G
\* below rank k.
Solves(D, T, rank, G, f, k) ==
    f \in [D -> T] /\ \A x \in D : rank[x] < k => f[x] = G[x][f]
RestsOnLower(D, T, rank, G) ==
    \A x \in D : \A f, g \in [D -> T] :
      (\A y \in D : rank[y] < rank[x] => f[y] = g[y]) => G[x][f] = G[x][g]

LEMMA SolutionsAgree ==
    ASSUME NEW D, NEW T, NEW rank \in [D -> Nat], NEW G, RestsOnLower(D, T, rank, G),
           NEW f, NEW g, NEW k \in Nat, NEW l \in Nat, k <= l,
           Solves(D, T, rank, G, f, k), Solves(D, T, rank, G, g, l)
    PROVE  \A x \in D : rank[x] < k => f[x] = g[x]
<1> DEFINE bad == {x \in D : rank[x] < k /\ f[x] # g[x]}
<1>1. SUFFICES ASSUME bad # {} PROVE FALSE
  OBVIOUS
<1> bad \in SUBSET D
  OBVIOUS
<1>2. PICK x \in bad : \A y \in D : rank[y] < rank[x] => y \notin bad
  <2> HIDE DEF bad
  <2> QED
    BY <1>1, LeastRank
<1>3. x \in D /\ rank[x] < k /\ f[x] # g[x]
  BY <1>2
<1>4. \A y \in D : rank[y] < rank[x] => f[y] = g[y]
  BY <1>2, <1>3
<1>5. G[x][f] = G[x][g]
  BY <1>3, <1>4 DEF RestsOnLower, Solves
<1>6. f[x] = G[x][f] /\ g[x] = G[x][g]
  BY <1>3 DEF Solves
<1> QED
  BY <1>3, <1>5, <1>6

LEMMA SolutionUpTo ==
    ASSUME NEW D, NEW T, T # {}, NEW rank \in [D -> Nat], NEW G \in [D -> [[D -> T] -> T]],
           RestsOnLower(D, T, rank, G), NEW k \in Nat
    PROVE  \E f : Solves(D, T, rank, G, f, k)
<1> DEFINE bad == {m \in Nat : ~\E f : Solves(D, T, rank, G, f, m)}
<1>1. SUFFICES ASSUME bad # {} PROVE FALSE
  OBVIOUS
<1>2. PICK m \in bad : \A n \in bad : m <= n
  BY <1>1, LeastNat
<1>3. m # 0
  <2>1. PICK t \in T : TRUE
    OBVIOUS
  <2>2. Solves(D, T, rank, G, [x \in D |-> t], 0)
    BY DEF Solves
  <2> QED
    BY <1>2, <2>2
<1>4. m - 1 \in Nat /\ m - 1 \notin bad
  <2>1. m \in Nat /\ m - 1 \in Nat /\ ~(m <= m - 1)
    BY <1>3
  <2> HIDE DEF bad
  <2> QED
    BY <1>2, <2>1
<1>5. PICK f : Solves(D, T, rank, G, f, m - 1)
  BY <1>4
<1> DEFINE g == [x \in D |-> IF rank[x] < m - 1 THEN f[x] ELSE G[x][f]]
<1>6. g \in [D -> T]
  BY <1>5 DEF Solves
<1>7. ASSUME NEW x \in D, rank[x] < m PROVE g[x] = G[x][g]
  <2>1. rank[x] <= m - 1
    BY <1>2, <1>7
  <2>2. \A y \in D : rank[y] < rank[x] => g[y] = f[y]
    BY <2>1
  <2>3. G[x][g] = G[x][f]
    BY <1>5, <1>6, <2>2 DEF RestsOnLower, Solves
  <2>4. g[x] = G[x][f]
    BY <1>5 DEF Solves
  <2> QED
    BY <2>3, <2>4
<1>8. Solves(D, T, rank, G, g, m)
  BY <1>6, <1>7 DEF Solves
<1> QED
  BY <1>2, <1>8

Solvable(D, T, G) == \E f \in [D -> T] : \A x \in D : f[x] = G[x][f]

LEMMA RankRecursion ==
    ASSUME NEW D, NEW T, T # {}, NEW rank \in [D -> Nat], NEW G \in [D -> [[D -> T] -> T]],
           RestsOnLower(D, T, rank, G)
    PROVE  Solvable(D, T, G)
<1> DEFINE h == [k \in Nat |-> CHOOSE f : Solves(D, T, rank, G, f, k)]
<1>1. \A k \in Nat : Solves(D, T, rank, G, h[k], k)
  BY SolutionUpTo
<1> HIDE DEF h
<1> DEFINE f == [x \in D |-> h[rank[x] + 1][x]]
<1>2. f \in [D -> T]
  BY <1>1 DEF Solves
<1>3. ASSUME NEW x \in D PROVE f[x] = G[x][f]
  <2>1. Solves(D, T, rank, G, h[rank[x] + 1], rank[x] + 1)
    BY <1>1
  <2>2. ASSUME NEW y \in D, rank[y] < rank[x] PROVE f[y] = h[rank[x] + 1][y]
    <3> DEFINE k == rank[y] + 1
               l == rank[x] + 1
    <3>1. k \in Nat /\ l \in Nat /\ k <= l /\ rank[y] < k
      BY <2>2
    <3>2. Solves(D, T, rank, G, h[k], k) /\ Solves(D, T, rank, G, h[l], l)
      BY <1>1, <3>1
    <3>3. f[y] = h[k][y]
      OBVIOUS
    <3> HIDE DEF k, l, f
    <3>4. \A z \in D : rank[z] < k => h[k][z] = h[l][z]
      BY <3>1, <3>2, SolutionsAgree
    <3> QED
      BY <3>1, <3>3, <3>4 DEF l
  <2>3. G[x][f] = G[x][h[rank[x] + 1]]
    BY <1>2, <2>1, <2>2 DEF RestsOnLower, Solves
  <2>4. h[rank[x] + 1][x] = G[x][h[rank[x] + 1]]
    BY <2>1 DEF Solves
  <2> QED
    BY <2>3, <2>4
<1> QED
  BY <1>2, <1>3 DEF Solvable

-----------------------------------------------------------------------------
(* The params of the library.                                              *)

\* Where each of them is an option, and how deep.
DefaultOptions(u) ==
    CASE u = "root" -> Hooks
      [] u = "show" -> {"help", "history"}
      [] u = "config" -> {"host_name"}
      [] u = "host_name" -> {"name"}
      [] u = "run" -> {"ut", "term"}
      [] u = "ut" -> {"file"}
      [] u = "file" -> {"tc_no"}
      [] u = "debug" -> {"debug_ut"}
      [] u = "debug_ut" -> {"enable"}
DefaultNodes == {"root", "show", "config", "host_name", "run", "ut", "file", "debug", "debug_ut"}
FilterOptions(u) ==
    CASE u = "pipe" -> {"count", "save", "include", "exclude", "grep", "refresh"}
      [] u = "save" -> {"save_file"}
      [] u = "include" -> {"incl"}
      [] u = "incl" -> {"pipe"}
      [] u = "exclude" -> {"excl"}
      [] u = "excl" -> {"pipe"}
      [] u = "grep" -> {"pattern"}
      [] u = "pattern" -> {"pipe"}
      [] u = "refresh" -> {"refresh_val"}
      [] u = "refresh_val" -> {"pipe", "cls"}
FilterNodes == {"pipe", "save", "include", "incl", "exclude", "excl", "grep", "pattern",
                "refresh", "refresh_val"}
Ends == {"help", "history", "name", "term", "tc_no", "enable", "clear", "count", "save_file",
         "cls"}
Library == InTree(DefaultTree) \cup InTree(FilterTree)

LEMMA TupleOfOne == \A a : ToSet(<<a>>) = {a} /\ <<a>> \in Seq(ToSet(<<a>>))
BY DEF ToSet
LEMMA TupleOfTwo == \A a, b : ToSet(<<a, b>>) = {a, b} /\ <<a, b>> \in Seq(ToSet(<<a, b>>))
BY DEF ToSet

LEMMA DefaultTreeIs ==
    /\ DOMAIN DefaultTree = DefaultNodes
    /\ \A u \in DefaultNodes : ToSet(DefaultTree[u]) = DefaultOptions(u)
    /\ \A u \in DefaultNodes : DefaultTree[u] \in Seq(InTree(DefaultTree))
<1>1. DOMAIN DefaultTree = DefaultNodes
  BY DEF DefaultTree, DefaultNodes
<1>2. /\ DefaultTree["root"] = <<"show", "config", "debug", "clear", "run">>
      /\ DefaultTree["show"] = <<"help", "history">>
      /\ DefaultTree["config"] = <<"host_name">>
      /\ DefaultTree["host_name"] = <<"name">>
      /\ DefaultTree["run"] = <<"ut", "term">>
      /\ DefaultTree["ut"] = <<"file">>
      /\ DefaultTree["file"] = <<"tc_no">>
      /\ DefaultTree["debug"] = <<"debug_ut">>
      /\ DefaultTree["debug_ut"] = <<"enable">>
  BY DEF DefaultTree
<1>3. /\ ToSet(<<"show", "config", "debug", "clear", "run">>) = {"show", "config", "debug", "clear", "run"}
      /\ ToSet(<<"help", "history">>) = {"help", "history"}
      /\ ToSet(<<"host_name">>) = {"host_name"}
      /\ ToSet(<<"name">>) = {"name"}
      /\ ToSet(<<"ut", "term">>) = {"ut", "term"}
      /\ ToSet(<<"file">>) = {"file"}
      /\ ToSet(<<"tc_no">>) = {"tc_no"}
      /\ ToSet(<<"debug_ut">>) = {"debug_ut"}
      /\ ToSet(<<"enable">>) = {"enable"}
  <2>1. ToSet(<<"show", "config", "debug", "clear", "run">>) = {"show", "config", "debug", "clear", "run"}
    BY DEF ToSet
  <2> QED
    BY <2>1, TupleOfOne, TupleOfTwo
<1>4. /\ <<"show", "config", "debug", "clear", "run">> \in Seq(ToSet(<<"show", "config", "debug", "clear", "run">>))
      /\ <<"help", "history">> \in Seq(ToSet(<<"help", "history">>))
      /\ <<"host_name">> \in Seq(ToSet(<<"host_name">>))
      /\ <<"name">> \in Seq(ToSet(<<"name">>))
      /\ <<"ut", "term">> \in Seq(ToSet(<<"ut", "term">>))
      /\ <<"file">> \in Seq(ToSet(<<"file">>))
      /\ <<"tc_no">> \in Seq(ToSet(<<"tc_no">>))
      /\ <<"debug_ut">> \in Seq(ToSet(<<"debug_ut">>))
      /\ <<"enable">> \in Seq(ToSet(<<"enable">>))
  <2>1. <<"show", "config", "debug", "clear", "run">> \in Seq(ToSet(<<"show", "config", "debug", "clear", "run">>))
    BY DEF ToSet
  <2> QED
    BY <2>1, TupleOfOne, TupleOfTwo
<1>5. ASSUME NEW u \in DefaultNodes PROVE ToSet(DefaultTree[u]) = DefaultOptions(u)
  <2>1. ToSet(DefaultTree["root"]) = DefaultOptions("root")
    BY <1>2, <1>3 DEF DefaultOptions, Hooks
  <2>2. ToSet(DefaultTree["show"]) = DefaultOptions("show")
    BY <1>2, <1>3 DEF DefaultOptions
  <2>3. ToSet(DefaultTree["config"]) = DefaultOptions("config")
    BY <1>2, <1>3 DEF DefaultOptions
  <2>4. ToSet(DefaultTree["host_name"]) = DefaultOptions("host_name")
    BY <1>2, <1>3 DEF DefaultOptions
  <2>5. ToSet(DefaultTree["run"]) = DefaultOptions("run")
    BY <1>2, <1>3 DEF DefaultOptions
  <2>6. ToSet(DefaultTree["ut"]) = DefaultOptions("ut")
    BY <1>2, <1>3 DEF DefaultOptions
  <2>7. ToSet(DefaultTree["file"]) = DefaultOptions("file")
    BY <1>2, <1>3 DEF DefaultOptions
  <2>8. ToSet(DefaultTree["debug"]) = DefaultOptions("debug")
    BY <1>2, <1>3 DEF DefaultOptions
  <2>9. ToSet(DefaultTree["debug_ut"]) = DefaultOptions("debug_ut")
    BY <1>2, <1>3 DEF DefaultOptions
  <2> QED
    BY <2>1, <2>2, <2>3, <2>4, <2>5, <2>6, <2>7, <2>8, <2>9 DEF DefaultNodes
<1>6. ASSUME NEW u \in DefaultNodes PROVE DefaultTree[u] \in Seq(InTree(DefaultTree))
  <2>1. DefaultTree[u] \in Seq(ToSet(DefaultTree[u]))
    BY <1>2, <1>4 DEF DefaultNodes
  <2>2. ToSet(DefaultTree[u]) \subseteq InTree(DefaultTree)
    BY <1>1 DEF InTree
  <2> QED
    BY <2>1, <2>2, SeqMonotonic
<1> QED
  BY <1>1, <1>5, <1>6

LEMMA FilterTreeIs ==
    /\ DOMAIN FilterTree = FilterNodes
    /\ \A u \in FilterNodes : ToSet(FilterTree[u]) = FilterOptions(u)
    /\ \A u \in FilterNodes : FilterTree[u] \in Seq(InTree(FilterTree))
<1>1. DOMAIN FilterTree = FilterNodes
  BY DEF FilterTree, FilterNodes
<1>2. /\ FilterTree["pipe"] = <<"count", "save", "include", "exclude", "grep", "refresh">>
      /\ FilterTree["save"] = <<"save_file">>
      /\ FilterTree["include"] = <<"incl">>
      /\ FilterTree["incl"] = <<"pipe">>
      /\ FilterTree["exclude"] = <<"excl">>
      /\ FilterTree["excl"] = <<"pipe">>
      /\ FilterTree["grep"] = <<"pattern">>
      /\ FilterTree["pattern"] = <<"pipe">>
      /\ FilterTree["refresh"] = <<"refresh_val">>
      /\ FilterTree["refresh_val"] = <<"pipe", "cls">>
  BY DEF FilterTree
<1>3. /\ ToSet(<<"count", "save", "include", "exclude", "grep", "refresh">>) = {"count", "save", "include", "exclude", "grep", "refresh"}
      /\ ToSet(<<"save_file">>) = {"save_file"}
      /\ ToSet(<<"incl">>) = {"incl"}
      /\ ToSet(<<"pipe">>) = {"pipe"}
      /\ ToSet(<<"excl">>) = {"excl"}
      /\ ToSet(<<"pattern">>) = {"pattern"}
      /\ ToSet(<<"refresh_val">>) = {"refresh_val"}
      /\ ToSet(<<"pipe", "cls">>) = {"pipe", "cls"}
  <2>1. ToSet(<<"count", "save", "include", "exclude", "grep", "refresh">>) = {"count", "save", "include", "exclude", "grep", "refresh"}
    BY DEF ToSet
  <2> QED
    BY <2>1, TupleOfOne, TupleOfTwo
<1>4. /\ <<"count", "save", "include", "exclude", "grep", "refresh">> \in Seq(ToSet(<<"count", "save", "include", "exclude", "grep", "refresh">>))
      /\ <<"save_file">> \in Seq(ToSet(<<"save_file">>))
      /\ <<"incl">> \in Seq(ToSet(<<"incl">>))
      /\ <<"pipe">> \in Seq(ToSet(<<"pipe">>))
      /\ <<"excl">> \in Seq(ToSet(<<"excl">>))
      /\ <<"pattern">> \in Seq(ToSet(<<"pattern">>))
      /\ <<"refresh_val">> \in Seq(ToSet(<<"refresh_val">>))
      /\ <<"pipe", "cls">> \in Seq(ToSet(<<"pipe", "cls">>))
  <2>1. <<"count", "save", "include", "exclude", "grep", "refresh">> \in Seq(ToSet(<<"count", "save", "include", "exclude", "grep", "refresh">>))
    BY DEF ToSet
  <2> QED
    BY <2>1, TupleOfOne, TupleOfTwo
<1>5. ASSUME NEW u \in FilterNodes PROVE ToSet(FilterTree[u]) = FilterOptions(u)
  <2>1. ToSet(FilterTree["pipe"]) = FilterOptions("pipe")
    BY <1>2, <1>3 DEF FilterOptions
  <2>2. ToSet(FilterTree["save"]) = FilterOptions("save")
    BY <1>2, <1>3 DEF FilterOptions
  <2>3. ToSet(FilterTree["include"]) = FilterOptions("include")
    BY <1>2, <1>3 DEF FilterOptions
  <2>4. ToSet(FilterTree["incl"]) = FilterOptions("incl")
    BY <1>2, <1>3 DEF FilterOptions
  <2>5. ToSet(FilterTree["exclude"]) = FilterOptions("exclude")
    BY <1>2, <1>3 DEF FilterOptions
  <2>6. ToSet(FilterTree["excl"]) = FilterOptions("excl")
    BY <1>2, <1>3 DEF FilterOptions
  <2>7. ToSet(FilterTree["grep"]) = FilterOptions("grep")
    BY <1>2, <1>3 DEF FilterOptions
  <2>8. ToSet(FilterTree["pattern"]) = FilterOptions("pattern")
    BY <1>2, <1>3 DEF FilterOptions
  <2>9. ToSet(FilterTree["refresh"]) = FilterOptions("refresh")
    BY <1>2, <1>3 DEF FilterOptions
  <2>10. ToSet(FilterTree["refresh_val"]) = FilterOptions("refresh_val")
    BY <1>2, <1>3 DEF FilterOptions
  <2> QED
    BY <2>1, <2>2, <2>3, <2>4, <2>5, <2>6, <2>7, <2>8, <2>9, <2>10 DEF FilterNodes
<1>6. ASSUME NEW u \in FilterNodes PROVE FilterTree[u] \in Seq(InTree(FilterTree))
  <2>1. FilterTree[u] \in Seq(ToSet(FilterTree[u]))
    BY <1>2, <1>4 DEF FilterNodes
  <2>2. ToSet(FilterTree[u]) \subseteq InTree(FilterTree)
    BY <1>1 DEF InTree
  <2> QED
    BY <2>1, <2>2, SeqMonotonic
<1> QED
  BY <1>1, <1>5, <1>6

LEMMA LibraryIs == Library = DefaultNodes \cup FilterNodes \cup Ends
<1>1. InTree(DefaultTree) = DefaultNodes \cup UNION {DefaultOptions(u) : u \in DefaultNodes}
  BY DefaultTreeIs DEF InTree
<1>2. InTree(FilterTree) = FilterNodes \cup UNION {FilterOptions(u) : u \in FilterNodes}
  BY FilterTreeIs DEF InTree
<1>3. UNION {DefaultOptions(u) : u \in DefaultNodes}
        = (DefaultNodes \ {"root"}) \cup {"help", "history", "name", "term", "tc_no", "enable", "clear"}
  BY DEF DefaultNodes, DefaultOptions, Hooks
<1>4. UNION {FilterOptions(u) : u \in FilterNodes} = FilterNodes \cup {"count", "save_file", "cls"}
  BY DEF FilterNodes, FilterOptions
<1> QED
  BY <1>1, <1>2, <1>3, <1>4 DEF Library, Ends

LEMMA SmallSet ==
    \A a, b, c, d, e, f, g, h, i, j : IsFiniteSet({a, b, c, d, e, f, g, h, i, j})
<1> SUFFICES ASSUME NEW a, NEW b, NEW c, NEW d, NEW e, NEW f, NEW g, NEW h, NEW i, NEW j
             PROVE  IsFiniteSet({a, b, c, d, e, f, g, h, i, j})
  OBVIOUS
<1>1. \A x, s : IsFiniteSet(s) => IsFiniteSet(s \cup {x})
  BY FS_AddElement
<1>2. IsFiniteSet({a, b, c, d, e})
  <2>1. IsFiniteSet({} \cup {a})
    BY <1>1, FS_EmptySet
  <2>2. IsFiniteSet((({} \cup {a}) \cup {b}) \cup {c})
    BY <1>1, <2>1
  <2>3. IsFiniteSet((((({} \cup {a}) \cup {b}) \cup {c}) \cup {d}) \cup {e})
    BY <1>1, <2>2
  <2>4. {a, b, c, d, e} = (((({} \cup {a}) \cup {b}) \cup {c}) \cup {d}) \cup {e}
    OBVIOUS
  <2> QED
    BY <2>3, <2>4
<1>3. IsFiniteSet({f, g, h, i, j})
  <2>1. IsFiniteSet({} \cup {f})
    BY <1>1, FS_EmptySet
  <2>2. IsFiniteSet((({} \cup {f}) \cup {g}) \cup {h})
    BY <1>1, <2>1
  <2>3. IsFiniteSet((((({} \cup {f}) \cup {g}) \cup {h}) \cup {i}) \cup {j})
    BY <1>1, <2>2
  <2>4. {f, g, h, i, j} = (((({} \cup {f}) \cup {g}) \cup {h}) \cup {i}) \cup {j}
    OBVIOUS
  <2> QED
    BY <2>3, <2>4
<1>4. {a, b, c, d, e, f, g, h, i, j} = {a, b, c, d, e} \cup {f, g, h, i, j}
  OBVIOUS
<1> QED
  BY <1>2, <1>3, <1>4, FS_Union

\* Every param is one of the library, of the program, or a negation.
LEMMA ParamIs ==
    /\ Param = Library \cup Own \cup Negation /\ IsFiniteSet(Param)
    /\ Library \cap (Own \cup Negation) = {} /\ Own \cap Negation = {}
    /\ NULL \notin Param /\ Branches \subseteq Hooks /\ Leaf \subseteq Own
    /\ Hooks \cup {"root", "pipe"} \subseteq Library
<1>1. Param = Library \cup Own \cup Negation
  BY DEF Param, Library
<1>2. IsFiniteSet(Library)
  <2>1. IsFiniteSet(DefaultNodes)
    <3>1. DefaultNodes = {"root", "show", "config", "host_name", "run", "ut", "file", "debug",
                          "debug_ut", "debug_ut"}
      BY DEF DefaultNodes
    <3> QED
      BY <3>1, SmallSet
  <2>2. IsFiniteSet(FilterNodes)
    BY SmallSet DEF FilterNodes
  <2>3. IsFiniteSet(Ends)
    BY SmallSet DEF Ends
  <2>4. IsFiniteSet(DefaultNodes \cup FilterNodes)
    BY <2>1, <2>2, FS_Union
  <2> QED
    BY <2>3, <2>4, FS_Union, LibraryIs
<1>3. IsFiniteSet(Param)
  <2>1. Param = Library \cup (Own \cup Negation)
    BY <1>1
  <2> QED
    BY <1>2, <2>1, FS_Union, TreeBuildAssumption DEF TreeBuildAssumption
<1>4. Hooks \cup {"root", "pipe"} \subseteq Library
  BY LibraryIs DEF Hooks, DefaultNodes, FilterNodes, Ends
<1> QED
  BY <1>1, <1>3, <1>4, TreeBuildAssumption DEF TreeBuildAssumption, Library

-----------------------------------------------------------------------------
(* What is reached.                                                        *)

Options == [Param -> Seq(Param)]
Closed(o, through, s) == \A p \in s \cap through : ToSet(o[p]) \subseteq s

LEMMA ReachedIs ==
    ASSUME NEW o \in Options, NEW from \in Param, NEW through
    PROVE  /\ from \in Reached(o, from, through) /\ Reached(o, from, through) \subseteq Param
           /\ Closed(o, through, Reached(o, from, through))
           /\ \A s : from \in s /\ Closed(o, through, s) => Reached(o, from, through) \subseteq s
<1> DEFINE further(r) == OneFurther(o, r, through)
           T == SUBSET Param
           rank == [r \in T |-> Cardinality(Param \ r)]
           G == [r \in T |-> [f \in [T -> T] |-> IF further(r) = r THEN r ELSE f[further(r)]]]
           reach == CHOOSE f : f = [r \in T |-> IF further(r) = r THEN r ELSE f[further(r)]]
<1>1. ASSUME NEW r \in T PROVE further(r) \in T /\ r \subseteq further(r)
  BY DEF OneFurther, Options, ToSet
<1>2. rank \in [T -> Nat]
  BY ParamIs, FS_Subset, FS_CardinalityType
<1>3. ASSUME NEW r \in T, further(r) # r PROVE rank[further(r)] < rank[r]
  <2>1. further(r) \in T /\ r \subseteq further(r)
    BY <1>1
  <2>2. Param \ further(r) \in SUBSET (Param \ r) /\ Param \ further(r) # Param \ r
    BY <1>3, <2>1
  <2>3. IsFiniteSet(Param \ r)
    BY ParamIs, FS_Subset
  <2>4. Cardinality(Param \ further(r)) < Cardinality(Param \ r)
    <3> DEFINE a == Param \ further(r)
               b == Param \ r
    <3>1. a \in SUBSET b /\ a # b /\ IsFiniteSet(b)
      BY <2>2, <2>3
    <3> HIDE DEF a, b
    <3>2. IsFiniteSet(a) /\ Cardinality(a) <= Cardinality(b) /\ Cardinality(a) # Cardinality(b)
      BY <3>1, FS_Subset
    <3>3. Cardinality(a) \in Nat /\ Cardinality(b) \in Nat
      BY <3>1, <3>2, FS_CardinalityType
    <3>4. Cardinality(a) < Cardinality(b)
      BY <3>2, <3>3
    <3> QED
      BY <3>4 DEF a, b
  <2> QED
    BY <2>1, <2>4
<1>4. PICK f \in [T -> T] : \A r \in T : f[r] = IF further(r) = r THEN r ELSE f[further(r)]
  <2>1. G \in [T -> [[T -> T] -> T]]
    BY <1>1
  <2>2. RestsOnLower(T, T, rank, G)
    BY <1>1, <1>3 DEF RestsOnLower
  <2>3. T # {}
    OBVIOUS
  <2>4. \A r \in T, g \in [T -> T] : G[r][g] = IF further(r) = r THEN r ELSE g[further(r)]
    OBVIOUS
  <2> HIDE DEF T, rank, G, further
  <2>5. Solvable(T, T, G)
    BY <1>2, <2>1, <2>2, <2>3, RankRecursion
  <2>6. PICK f \in [T -> T] : \A r \in T : f[r] = G[r][f]
    BY <2>5 DEF Solvable
  <2> QED
    BY <2>4, <2>6
<1>5. f = [r \in T |-> IF further(r) = r THEN r ELSE f[further(r)]]
  BY <1>4
<1> HIDE DEF further, T, rank, G
<1>6. reach = [r \in T |-> IF further(r) = r THEN r ELSE reach[further(r)]]
  BY <1>5
<1>7. \A r \in T : reach[r] = IF further(r) = r THEN r ELSE reach[further(r)]
  BY <1>6
<1> HIDE DEF reach
<1> DEFINE good(r) == /\ r \subseteq reach[r] /\ reach[r] \subseteq Param
                      /\ Closed(o, through, reach[r])
                      /\ \A s : r \subseteq s /\ Closed(o, through, s) => reach[r] \subseteq s
           bad == {r \in T : ~good(r)}
<1>8. bad = {}
  <2>1. SUFFICES ASSUME bad # {} PROVE FALSE
    OBVIOUS
  <2>2. bad \in SUBSET T
    OBVIOUS
  <2>3. PICK r \in bad : \A y \in T : rank[y] < rank[r] => y \notin bad
    <3> HIDE DEF bad
    <3> QED
      BY <1>2, <2>1, <2>2, LeastRank
  <2>4. r \in T /\ r \subseteq Param /\ r \subseteq further(r)
    BY <1>1 DEF T
  <2>5. CASE further(r) = r
    <3>1. reach[r] = r
      BY <1>7, <2>4, <2>5
    <3>2. Closed(o, through, r)
      BY <2>5 DEF further, OneFurther, Closed
    <3>3. good(r)
      BY <2>4, <3>1, <3>2
    <3> QED
      BY <2>3, <3>3
  <2>6. CASE further(r) # r
    <3>1. reach[r] = reach[further(r)]
      BY <1>7, <2>4, <2>6
    <3>2. further(r) \in T /\ rank[further(r)] < rank[r]
      BY <1>1, <1>3, <2>4, <2>6
    <3>3. good(further(r))
      BY <2>3, <3>2
    <3>4. \A s : r \subseteq s /\ Closed(o, through, s) => further(r) \subseteq s
      BY DEF further, OneFurther, Closed
    <3>5. good(r)
      BY <2>4, <3>1, <3>3, <3>4
    <3> QED
      BY <2>3, <3>5
  <2> QED
    BY <2>5, <2>6
<1>9. {from} \in T
  BY DEF T
<1>10. good({from})
  <2> HIDE DEF good
  <2> QED
    BY <1>8, <1>9
<1>11. Reached(o, from, through) = reach[{from}]
  BY DEF Reached, reach, T, further
<1> QED
  BY <1>10, <1>11

-----------------------------------------------------------------------------
(* Sums.                                                                   *)

Some(s) == CHOOSE x \in s : TRUE
Sums(f, S, h) ==
    /\ h \in [SUBSET S -> Nat]
    /\ \A s \in SUBSET S : h[s] = IF s = {} THEN 0 ELSE f[Some(s)] + h[s \ {Some(s)}]
TotalSums(f, S) == \E h : Sums(f, S, h) /\ Total(f, S) = h[S]

LEMMA Sizes ==
    ASSUME NEW S, IsFiniteSet(S)
    PROVE  /\ [s \in SUBSET S |-> Cardinality(s)] \in [SUBSET S -> Nat]
           /\ \A s \in SUBSET S : \A x \in s : Cardinality(s \ {x}) < Cardinality(s)
<1>1. ASSUME NEW s \in SUBSET S PROVE IsFiniteSet(s) /\ Cardinality(s) \in Nat
  BY FS_Subset, FS_CardinalityType
<1>2. ASSUME NEW s \in SUBSET S, NEW x \in s PROVE Cardinality(s \ {x}) < Cardinality(s)
  <2>1. Cardinality(s \ {x}) = Cardinality(s) - 1
    BY <1>1, FS_RemoveElement
  <2> QED
    BY <1>1, <2>1
<1> QED
  BY <1>1, <1>2

LEMMA SomeIs == ASSUME NEW s, s # {} PROVE Some(s) \in s
BY DEF Some

LEMMA TotalIsSum ==
    ASSUME NEW S, IsFiniteSet(S), NEW f, \A x \in S : f[x] \in Nat
    PROVE  TotalSums(f, S)
<1> DEFINE D == SUBSET S
           rank == [s \in D |-> Cardinality(s)]
           G == [s \in D |-> [h \in [D -> Nat] |-> IF s = {} THEN 0
                                                  ELSE f[Some(s)] + h[s \ {Some(s)}]]]
           iter == CHOOSE h : h = [s \in D |-> IF s = {} THEN 0
                                               ELSE f[Some(s)] + h[s \ {Some(s)}]]
<1>1. G \in [D -> [[D -> Nat] -> Nat]]
  <2>1. ASSUME NEW s \in D, NEW h \in [D -> Nat], s # {}
        PROVE  f[Some(s)] + h[s \ {Some(s)}] \in Nat
    <3>1. Some(s) \in S /\ s \ {Some(s)} \in D
      BY <2>1, SomeIs
    <3>2. f[Some(s)] \in Nat /\ h[s \ {Some(s)}] \in Nat
      BY <3>1
    <3> QED
      BY <3>2
  <2> QED
    BY <2>1
<1>2. RestsOnLower(D, Nat, rank, G)
  <2>1. ASSUME NEW s \in D, NEW g \in [D -> Nat], NEW h \in [D -> Nat],
               \A y \in D : rank[y] < rank[s] => g[y] = h[y], s # {}
        PROVE  g[s \ {Some(s)}] = h[s \ {Some(s)}]
    <3>1. Some(s) \in s /\ s \ {Some(s)} \in D
      BY <2>1, SomeIs
    <3>2. rank[s \ {Some(s)}] < rank[s]
      BY <3>1, Sizes
    <3> QED
      BY <2>1, <3>1, <3>2
  <2> QED
    BY <2>1 DEF RestsOnLower
<1>3. rank \in [D -> Nat]
  BY Sizes
<1>4. Nat # {}
  OBVIOUS
<1>5. Solvable(D, Nat, G)
  <2> HIDE DEF D, rank, G
  <2> QED
    BY <1>1, <1>2, <1>3, <1>4, RankRecursion
<1>6. PICK h \in [D -> Nat] : \A s \in D : h[s] = G[s][h]
  BY <1>5 DEF Solvable
<1>7. h = [s \in D |-> IF s = {} THEN 0 ELSE f[Some(s)] + h[s \ {Some(s)}]]
  BY <1>6
<1>8. iter = [s \in D |-> IF s = {} THEN 0 ELSE f[Some(s)] + iter[s \ {Some(s)}]]
  BY <1>7
<1>9. Total(f, S) = iter[S]
  BY DEF Total, MapThenSumSet, MapThenFoldSet, Some
<1> HIDE DEF iter
<1>10. \A s \in D : iter[s] = IF s = {} THEN 0 ELSE f[Some(s)] + iter[s \ {Some(s)}]
  BY <1>8
<1>11. \A s \in D : iter[s] = h[s]
  <2> DEFINE bad == {s \in D : iter[s] # h[s]}
  <2>1. SUFFICES ASSUME bad # {} PROVE FALSE
    OBVIOUS
  <2>2. bad \in SUBSET D
    OBVIOUS
  <2>3. PICK s \in bad : \A y \in D : rank[y] < rank[s] => y \notin bad
    <3> HIDE DEF bad, rank, D
    <3> QED
      BY <1>3, <2>1, <2>2, LeastRank
  <2>4. s \in D /\ iter[s] # h[s]
    BY <2>3
  <2>5. s # {}
    BY <1>7, <1>10, <2>4
  <2>6. Some(s) \in s /\ s \ {Some(s)} \in D
    BY <2>4, <2>5, SomeIs
  <2>7. rank[s \ {Some(s)}] < rank[s]
    BY <2>4, <2>6, Sizes
  <2>8. iter[s \ {Some(s)}] = h[s \ {Some(s)}]
    BY <2>3, <2>6, <2>7
  <2> QED
    BY <1>7, <1>10, <2>4, <2>5, <2>8
<1>12. iter[S] = h[S]
  BY <1>11
<1>13. Sums(f, S, h)
  BY <1>7 DEF Sums
<1> QED
  BY <1>9, <1>12, <1>13 DEF TotalSums

LEMMA TotalIsNat ==
    ASSUME NEW S, IsFiniteSet(S), NEW f, \A x \in S : f[x] \in Nat
    PROVE  Total(f, S) \in Nat
<1>1. PICK h : Sums(f, S, h) /\ Total(f, S) = h[S]
  BY TotalIsSum DEF TotalSums
<1> QED
  BY <1>1 DEF Sums

LEMMA TotalOfOne ==
    ASSUME NEW x, NEW f, f[x] \in Nat
    PROVE  Total(f, {x}) = f[x]
<1>1. IsFiniteSet({x})
  BY FS_Singleton
<1>2. PICK h : Sums(f, {x}, h) /\ Total(f, {x}) = h[{x}]
  BY <1>1, TotalIsSum DEF TotalSums
<1>3. Some({x}) = x /\ {x} \ {x} = {}
  BY SomeIs
<1>4. h[{x}] = f[x] + h[{}] /\ h[{}] = 0
  BY <1>2, <1>3 DEF Sums
<1> QED
  BY <1>2, <1>4

LEMMA TotalsAgree ==
    ASSUME NEW S, IsFiniteSet(S), NEW f, NEW g, \A x \in S : f[x] \in Nat /\ f[x] = g[x]
    PROVE  Total(f, S) = Total(g, S)
<1>1. PICK h : Sums(f, S, h) /\ Total(f, S) = h[S]
  BY TotalIsSum DEF TotalSums
<1>2. PICK k : Sums(g, S, k) /\ Total(g, S) = k[S]
  BY TotalIsSum DEF TotalSums
<1> DEFINE D == SUBSET S
           rank == [s \in D |-> Cardinality(s)]
           bad == {s \in D : h[s] # k[s]}
<1>3. bad = {}
  <2>1. SUFFICES ASSUME bad # {} PROVE FALSE
    OBVIOUS
  <2>2. bad \in SUBSET D /\ rank \in [D -> Nat]
    BY Sizes
  <2>3. PICK s \in bad : \A y \in D : rank[y] < rank[s] => y \notin bad
    <3> HIDE DEF bad, rank, D
    <3> QED
      BY <2>1, <2>2, LeastRank
  <2>4. s \in D /\ h[s] # k[s]
    BY <2>3
  <2>5. s # {}
    BY <1>1, <1>2, <2>4 DEF Sums
  <2>6. Some(s) \in s /\ Some(s) \in S /\ s \ {Some(s)} \in D
    BY <2>4, <2>5, SomeIs
  <2>7. rank[s \ {Some(s)}] < rank[s]
    BY <2>4, <2>6, Sizes
  <2>8. h[s \ {Some(s)}] = k[s \ {Some(s)}]
    BY <2>3, <2>6, <2>7
  <2>9. f[Some(s)] = g[Some(s)]
    BY <2>6
  <2> QED
    BY <1>1, <1>2, <2>4, <2>5, <2>8, <2>9 DEF Sums
<1> QED
  BY <1>1, <1>2, <1>3

-----------------------------------------------------------------------------
(* The ways to a param.                                                    *)

\* No walk down from a param that may be expanded comes back to it, other than to
\* a recursive one.
Rising(o, rank) ==
    /\ rank \in [Param -> Nat]
    /\ \A u \in Expanded : \A v \in ToSet(o[u]) : u # v => rank[u] < rank[v]
Users(o, q) == {p \in Augmented(o) : q \in ToSet(o[p])}
WaysAreCounted(o) ==
    LET ways == Ways(o) IN
    /\ ways \in [Augmented(o) -> Nat]
    /\ \A q \in Augmented(o) : ways[q] = IF q \in Filtered THEN 1 ELSE Total(ways, Users(o, q))

LEMMA OptionIsParam == ASSUME NEW o \in Options, NEW p \in Param PROVE ToSet(o[p]) \subseteq Param
BY DEF Options, ToSet

LEMMA AugmentedIs ==
    ASSUME NEW o \in Options
    PROVE  /\ Augmented(o) \subseteq Expanded /\ Augmented(o) \subseteq Param
           /\ IsFiniteSet(Augmented(o)) /\ \A q : IsFiniteSet(Users(o, q))
           /\ Filtered \subseteq Augmented(o)
           /\ \A p \in Augmented(o) : ToSet(o[p]) \cap Expanded \subseteq Augmented(o)
<1>1. Filtered \subseteq Param /\ Filtered \subseteq Expanded
  BY ParamIs DEF Filtered, Hooks, Expanded, Expands, NoExpand
<1>2. \A h \in Filtered : /\ h \in Reached(o, h, Expanded)
                          /\ Reached(o, h, Expanded) \subseteq Param
                          /\ Closed(o, Expanded, Reached(o, h, Expanded))
  BY <1>1, ReachedIs
<1>3. Augmented(o) \subseteq Param /\ Augmented(o) \subseteq Expanded
  BY <1>2 DEF Augmented
<1>4. Filtered \subseteq Augmented(o)
  BY <1>1, <1>2 DEF Augmented
<1>5. \A p \in Augmented(o) : ToSet(o[p]) \cap Expanded \subseteq Augmented(o)
  BY <1>2 DEF Augmented, Closed
<1>6. IsFiniteSet(Augmented(o))
  BY <1>3, ParamIs, FS_Subset
<1>7. \A q : IsFiniteSet(Users(o, q))
  BY <1>6, FS_Subset DEF Users
<1> QED
  BY <1>3, <1>4, <1>5, <1>6, <1>7

LEMMA WaysIs ==
    ASSUME NEW o \in Options, NEW rank, Rising(o, rank),
           \A q \in Augmented(o) : q \notin ToSet(o[q])
    PROVE  WaysAreCounted(o)
<1> DEFINE D == Augmented(o)
           r == [q \in D |-> rank[q]]
           G == [q \in D |-> [f \in [D -> Nat] |-> IF q \in Filtered THEN 1
                                                  ELSE Total(f, Users(o, q))]]
           ways == CHOOSE f : f = [q \in D |-> IF q \in Filtered THEN 1
                                               ELSE Total(f, Users(o, q))]
<1>1. D \subseteq Param /\ D \subseteq Expanded
  BY AugmentedIs
<1>2. G \in [D -> [[D -> Nat] -> Nat]]
  <2>1. ASSUME NEW q \in D, NEW f \in [D -> Nat] PROVE Total(f, Users(o, q)) \in Nat
    <3>1. \A x \in Users(o, q) : f[x] \in Nat
      BY DEF Users
    <3> QED
      BY <3>1, AugmentedIs, TotalIsNat
  <2> QED
    BY <2>1
<1>3. RestsOnLower(D, Nat, r, G)
  <2>1. ASSUME NEW q \in D, NEW f \in [D -> Nat], NEW g \in [D -> Nat],
               \A y \in D : r[y] < r[q] => f[y] = g[y]
        PROVE  Total(f, Users(o, q)) = Total(g, Users(o, q))
    <3>1. ASSUME NEW x \in Users(o, q) PROVE f[x] \in Nat /\ f[x] = g[x]
      <4>1. x \in D /\ q \in ToSet(o[x]) /\ x # q
        BY DEF Users
      <4>2. r[x] < r[q]
        BY <1>1, <4>1 DEF Rising
      <4> QED
        BY <2>1, <4>1, <4>2
    <3> QED
      BY <3>1, AugmentedIs, TotalsAgree
  <2> QED
    BY <2>1 DEF RestsOnLower
<1>4. r \in [D -> Nat] /\ Nat # {}
  BY <1>1 DEF Rising
<1>5. Solvable(D, Nat, G)
  <2> HIDE DEF D, r, G
  <2> QED
    BY <1>2, <1>3, <1>4, RankRecursion
<1>6. PICK f \in [D -> Nat] : \A q \in D : f[q] = G[q][f]
  BY <1>5 DEF Solvable
<1>7. f = [q \in D |-> IF q \in Filtered THEN 1 ELSE Total(f, Users(o, q))]
  BY <1>6
<1>8. ways = [q \in D |-> IF q \in Filtered THEN 1 ELSE Total(ways, Users(o, q))]
  BY <1>7
<1>9. Ways(o) = ways
  BY DEF Ways, Users
<1> HIDE DEF ways
<1>10. \A q \in D : ways[q] = IF q \in Filtered THEN 1 ELSE Total(ways, Users(o, q))
  BY <1>8
<1> DEFINE bad == {q \in D : ways[q] # f[q]}
<1>11. bad = {}
  <2>1. SUFFICES ASSUME bad # {} PROVE FALSE
    OBVIOUS
  <2>2. bad \in SUBSET D
    OBVIOUS
  <2>3. PICK q \in bad : \A y \in D : r[y] < r[q] => y \notin bad
    <3> HIDE DEF bad, D, r
    <3> QED
      BY <1>4, <2>1, <2>2, LeastRank
  <2>4. q \in D /\ ways[q] # f[q]
    BY <2>3
  <2>5. ASSUME NEW x \in Users(o, q) PROVE f[x] \in Nat /\ f[x] = ways[x]
    <3>1. x \in D /\ q \in ToSet(o[x]) /\ x # q
      BY <2>4 DEF Users
    <3>2. r[x] < r[q]
      BY <1>1, <2>4, <3>1 DEF Rising
    <3> QED
      BY <2>3, <3>1, <3>2
  <2>6. Total(f, Users(o, q)) = Total(ways, Users(o, q))
    BY <2>5, AugmentedIs, TotalsAgree
  <2> QED
    BY <1>7, <1>10, <2>4, <2>6
<1>12. ways = f
  BY <1>7, <1>8, <1>11
<1> QED
  BY <1>9, <1>10, <1>12 DEF WaysAreCounted

-----------------------------------------------------------------------------
(* Negations.                                                              *)

\* A negation is an option of one param, in one place; what is an option of a
\* negation is not one itself; and it has options only where it is one.
NegationOnce(o) ==
    \A n \in Negation :
      /\ \A p, q \in Param : n \in ToSet(o[p]) /\ n \in ToSet(o[q]) => p = q
      /\ \A p \in Negation : n \notin ToSet(o[p])
      /\ \A p \in Param : \A i, j \in DOMAIN o[p] : o[p][i] = n /\ o[p][j] = n => i = j
      /\ (\A p \in Param : n \notin ToSet(o[p])) => o[n] = << >>
\* Its options are those before it.
NegationCopies(o) ==
    \A p \in Param : \A i \in DOMAIN o[p] :
      o[p][i] \in Negation => o[o[p][i]] = SubSeq(o[p], 1, i - 1)

\* Options were added to params, none of them a negation.
Plain == Param \ Negation
Extended(o, new) ==
    /\ new \in Options
    /\ \A p \in Negation : new[p] = o[p]
    /\ \A p \in Plain : \E t \in Seq(Plain) : new[p] = o[p] \o t

LEMMA Joined ==
    ASSUME NEW S, NEW s \in Seq(S), NEW t \in Seq(S)
    PROVE  /\ s \o t \in Seq(S)
           /\ ToSet(s \o t) = ToSet(s) \cup ToSet(t)
           /\ DOMAIN s = 1 .. Len(s) /\ DOMAIN (s \o t) = 1 .. Len(s) + Len(t)
           /\ Len(s) \in Nat /\ Len(t) \in Nat
           /\ \A i \in 1 .. Len(s) : (s \o t)[i] = s[i]
           /\ \A i \in Len(s) + 1 .. Len(s) + Len(t) : (s \o t)[i] \in ToSet(t)
           /\ \A i \in 1 .. Len(s) + 1 : SubSeq(s \o t, 1, i - 1) = SubSeq(s, 1, i - 1)
<1>1. /\ s \o t \in Seq(S) /\ Len(s \o t) = Len(s) + Len(t)
      /\ \A i \in 1 .. Len(s) + Len(t) : (s \o t)[i] = IF i <= Len(s) THEN s[i] ELSE t[i - Len(s)]
  BY ConcatProperties
<1>2. /\ Len(s) \in Nat /\ Len(t) \in Nat
      /\ DOMAIN s = 1 .. Len(s) /\ DOMAIN t = 1 .. Len(t)
  BY LenProperties
<1>3. DOMAIN (s \o t) = 1 .. Len(s) + Len(t)
  BY <1>1, LenProperties
<1>4. \A i \in 1 .. Len(s) : (s \o t)[i] = s[i]
  BY <1>1, <1>2
<1>5. \A i \in Len(s) + 1 .. Len(s) + Len(t) : (s \o t)[i] = t[i - Len(s)] /\ i - Len(s) \in 1 .. Len(t)
  BY <1>1, <1>2
<1>6. \A j \in 1 .. Len(t) : (s \o t)[Len(s) + j] = t[j] /\ Len(s) + j \in 1 .. Len(s) + Len(t)
  <2>1. ASSUME NEW j \in 1 .. Len(t)
        PROVE  (s \o t)[Len(s) + j] = t[j] /\ Len(s) + j \in 1 .. Len(s) + Len(t)
    <3>1. Len(s) + j \in 1 .. Len(s) + Len(t) /\ ~(Len(s) + j <= Len(s)) /\ Len(s) + j - Len(s) = j
      BY <1>2
    <3> QED
      BY <1>1, <3>1
  <2> QED
    BY <2>1
<1>7. ToSet(s \o t) = ToSet(s) \cup ToSet(t)
  <2>1. ASSUME NEW x \in ToSet(s \o t) PROVE x \in ToSet(s) \cup ToSet(t)
    <3>1. PICK i \in 1 .. Len(s) + Len(t) : x = (s \o t)[i]
      BY <1>3 DEF ToSet
    <3>2. CASE i <= Len(s)
      BY <1>2, <1>4, <3>1, <3>2 DEF ToSet
    <3>3. CASE ~(i <= Len(s))
      <4>1. i \in Len(s) + 1 .. Len(s) + Len(t)
        BY <1>2, <3>3
      <4> QED
        BY <1>2, <1>5, <3>1, <4>1 DEF ToSet
    <3> QED
      BY <3>2, <3>3
  <2>2. ASSUME NEW x \in ToSet(s) PROVE x \in ToSet(s \o t)
    <3>1. PICK i \in 1 .. Len(s) : x = s[i]
      BY <1>2 DEF ToSet
    <3>2. i \in 1 .. Len(s) + Len(t)
      BY <1>2
    <3> QED
      BY <1>3, <1>4, <3>1, <3>2 DEF ToSet
  <2>3. ASSUME NEW x \in ToSet(t) PROVE x \in ToSet(s \o t)
    <3>1. PICK j \in 1 .. Len(t) : x = t[j]
      BY <1>2 DEF ToSet
    <3> QED
      BY <1>3, <1>6, <3>1 DEF ToSet
  <2> QED
    BY <2>1, <2>2, <2>3
<1>8. \A i \in Len(s) + 1 .. Len(s) + Len(t) : (s \o t)[i] \in ToSet(t)
  BY <1>2, <1>5 DEF ToSet
<1>9. ASSUME NEW i \in 1 .. Len(s) + 1 PROVE SubSeq(s \o t, 1, i - 1) = SubSeq(s, 1, i - 1)
  <2>1. i - 1 \in Int /\ i - 1 >= 0 /\ i - 1 <= Len(s)
    BY <1>2
  <2>2. \A j \in 1 .. i - 1 : s[j] \in S /\ (s \o t)[j] \in S /\ (s \o t)[j] = s[j]
    BY <1>2, <1>4, <2>1, ElementOfSeq
  <2> DEFINE a == SubSeq(s, 1, i - 1)
             b == SubSeq(s \o t, 1, i - 1)
  <2>3. a \in Seq(S) /\ Len(a) = i - 1 /\ \A j \in 1 .. i - 1 : a[j] = s[j]
    BY <2>1, <2>2, SubSeqProperties
  <2>4. b \in Seq(S) /\ Len(b) = i - 1 /\ \A j \in 1 .. i - 1 : b[j] = (s \o t)[j]
    BY <2>1, <2>2, SubSeqProperties
  <2> HIDE DEF a, b
  <2>5. b = a
    BY <2>2, <2>3, <2>4, SeqEqual
  <2> QED
    BY <2>5 DEF a, b
<1> QED
  BY <1>1, <1>2, <1>3, <1>4, <1>7, <1>8, <1>9

LEMMA ExtendedKeepsNegations ==
    ASSUME NEW o \in Options, NEW new, Extended(o, new), NegationOnce(o), NegationCopies(o)
    PROVE  NegationOnce(new) /\ NegationCopies(new)
<1>1. ASSUME NEW p \in Param
      PROVE  /\ \A n \in Negation : n \in ToSet(new[p]) <=> n \in ToSet(o[p])
             /\ \A i \in DOMAIN new[p] : new[p][i] \in Negation =>
                  /\ i \in DOMAIN o[p] /\ new[p][i] = o[p][i]
                  /\ SubSeq(new[p], 1, i - 1) = SubSeq(o[p], 1, i - 1)
  <2>1. CASE p \in Negation
    BY <2>1 DEF Extended
  <2>2. CASE p \in Plain
    <3>1. PICK t \in Seq(Plain) : new[p] = o[p] \o t
      BY <2>2 DEF Extended
    <3> DEFINE s == o[p]
    <3>2. s \in Seq(Param) /\ t \in Seq(Param)
      BY <3>1, SeqMonotonic DEF Options, Plain
    <3>3. ToSet(t) \cap Negation = {}
      BY DEF ToSet, Plain
    <3> HIDE DEF s
    <3>4. /\ ToSet(s \o t) = ToSet(s) \cup ToSet(t)
          /\ DOMAIN s = 1 .. Len(s) /\ DOMAIN (s \o t) = 1 .. Len(s) + Len(t)
          /\ Len(s) \in Nat /\ Len(t) \in Nat
          /\ \A i \in 1 .. Len(s) : (s \o t)[i] = s[i]
          /\ \A i \in Len(s) + 1 .. Len(s) + Len(t) : (s \o t)[i] \in ToSet(t)
          /\ \A i \in 1 .. Len(s) + 1 : SubSeq(s \o t, 1, i - 1) = SubSeq(s, 1, i - 1)
      BY <3>2, Joined
    <3>5. ASSUME NEW i \in 1 .. Len(s) + Len(t), (s \o t)[i] \in Negation PROVE i \in 1 .. Len(s)
      <4>1. i \notin Len(s) + 1 .. Len(s) + Len(t)
        BY <3>3, <3>4, <3>5
      <4> QED
        BY <3>4, <4>1
    <3>6. \A i \in 1 .. Len(s) : i \in 1 .. Len(s) + 1
      BY <3>4
    <3>7. new[p] = s \o t /\ o[p] = s
      BY <3>1 DEF s
    <3> QED
      BY <3>3, <3>4, <3>5, <3>6, <3>7
  <2> QED
    BY <2>1, <2>2 DEF Plain
<1>2. \A n \in Negation : new[n] = o[n] /\ n \in Param
  BY ParamIs DEF Extended
<1>3. NegationOnce(new)
  BY <1>1, <1>2 DEF NegationOnce
<1>4. NegationCopies(new)
  <2> SUFFICES ASSUME NEW p \in Param, NEW i \in DOMAIN new[p], new[p][i] \in Negation
               PROVE  new[new[p][i]] = SubSeq(new[p], 1, i - 1)
    BY DEF NegationCopies
  <2>1. /\ i \in DOMAIN o[p] /\ new[p][i] = o[p][i]
        /\ SubSeq(new[p], 1, i - 1) = SubSeq(o[p], 1, i - 1)
    BY <1>1
  <2>2. new[new[p][i]] = o[o[p][i]]
    BY <1>2, <2>1
  <2>3. o[o[p][i]] = SubSeq(o[p], 1, i - 1)
    BY <2>1 DEF NegationCopies
  <2> QED
    BY <2>1, <2>2, <2>3
<1> QED
  BY <1>3, <1>4

\* A param that has none gets a negation that is in no place.
LEMMA NegatedKeepsNegations ==
    ASSUME NEW o \in Options, NegationOnce(o), NegationCopies(o),
           NEW p \in Plain, ToSet(o[p]) \cap Negation = {},
           NEW n \in Negation, \A q \in Param : n \notin ToSet(o[q])
    PROVE  LET new == Negated(o, p, n) IN
           /\ new \in Options /\ NegationOnce(new) /\ NegationCopies(new)
           /\ new[p] = o[p] \o <<n>> /\ new[n] = o[p]
           /\ \A q \in Param \ {p, n} : new[q] = o[q]
           /\ Len(new[p]) = Len(o[p]) + 1 /\ new[p][Len(new[p])] = n
<1> DEFINE new == Negated(o, p, n)
           s == o[p]
           t == <<n>>
<1>1. p \in Param /\ n \in Param /\ p # n /\ s \in Seq(Param) /\ t \in Seq(Param) /\ ToSet(t) = {n}
      /\ Len(t) = 1
  BY ParamIs, TupleOfOne DEF Plain, Options
<1>2. new[p] = s \o t /\ new[n] = s /\ \A q \in Param \ {p, n} : new[q] = o[q]
  BY <1>1, AppendIsConcat DEF Negated, Copied, Options
<1>3. new \in Options
  <2>1. s \o t \in Seq(Param)
    BY <1>1, ConcatProperties
  <2>2. Append(s, n) = s \o t
    BY <1>1, AppendIsConcat
  <2> QED
    BY <1>1, <2>1, <2>2 DEF Negated, Copied, Options
<1> HIDE DEF new, t, s
<1>4. /\ ToSet(s \o t) = ToSet(s) \cup {n}
      /\ DOMAIN s = 1 .. Len(s) /\ DOMAIN (s \o t) = 1 .. Len(s) + 1 /\ Len(s) \in Nat
      /\ \A i \in 1 .. Len(s) : (s \o t)[i] = s[i]
      /\ \A i \in Len(s) + 1 .. Len(s) + 1 : (s \o t)[i] \in {n}
      /\ \A i \in 1 .. Len(s) + 1 : SubSeq(s \o t, 1, i - 1) = SubSeq(s, 1, i - 1)
  <2>1. /\ ToSet(s \o t) = ToSet(s) \cup ToSet(t)
        /\ DOMAIN s = 1 .. Len(s) /\ DOMAIN (s \o t) = 1 .. Len(s) + Len(t) /\ Len(s) \in Nat
        /\ \A i \in 1 .. Len(s) : (s \o t)[i] = s[i]
        /\ \A i \in Len(s) + 1 .. Len(s) + Len(t) : (s \o t)[i] \in ToSet(t)
        /\ \A i \in 1 .. Len(s) + 1 : SubSeq(s \o t, 1, i - 1) = SubSeq(s, 1, i - 1)
    <3>1. s \in Seq(Param) /\ t \in Seq(Param)
      BY <1>1
    <3> QED
      BY <3>1, Joined
  <2>2. Len(s) + Len(t) = Len(s) + 1
    BY <1>1
  <2>3. /\ DOMAIN (s \o t) = 1 .. Len(s) + 1
        /\ \A i \in Len(s) + 1 .. Len(s) + 1 : (s \o t)[i] \in ToSet(t)
    <3> DEFINE l == Len(s) + Len(t)
    <3>1. DOMAIN (s \o t) = 1 .. l /\ \A i \in Len(s) + 1 .. l : (s \o t)[i] \in ToSet(t)
      BY <2>1
    <3>2. l = Len(s) + 1
      BY <2>2
    <3> HIDE DEF l
    <3> QED
      BY <3>1, <3>2
  <2> QED
    BY <1>1, <2>1, <2>3
<1>5. /\ \A m \in Negation : m \in ToSet(new[p]) <=> m = n
      /\ \A m \in Negation : m \notin ToSet(new[n])
      /\ \A q \in Param \ {p, n} : new[q] = o[q] /\ n \notin ToSet(new[q])
  BY <1>2, <1>4 DEF s
<1>6. ASSUME NEW i \in DOMAIN new[p], new[p][i] \in Negation
      PROVE  i = Len(s) + 1 /\ new[p][i] = n /\ SubSeq(new[p], 1, i - 1) = s
  <2>1. i \notin 1 .. Len(s)
    <3>1. \A j \in 1 .. Len(s) : s[j] \notin Negation
      BY <1>4 DEF ToSet, s
    <3> QED
      BY <1>2, <1>4, <1>6, <3>1
  <2>2. i = Len(s) + 1
    BY <1>2, <1>4, <2>1
  <2>3. i \in Len(s) + 1 .. Len(s) + 1 /\ i \in 1 .. Len(s) + 1
    BY <1>4, <2>2
  <2>4. SubSeq(s, 1, i - 1) = s
    <3>1. i - 1 = Len(s)
      BY <1>4, <2>2
    <3> QED
      BY <1>1, <3>1, SubSeqFull
  <2> QED
    BY <1>2, <1>4, <2>2, <2>3, <2>4
<1>7. \A i \in DOMAIN new[n] : new[n][i] \notin Negation
  BY <1>5 DEF ToSet
<1>8. NegationOnce(new)
  <2> SUFFICES ASSUME NEW m \in Negation
               PROVE  /\ \A x, y \in Param : m \in ToSet(new[x]) /\ m \in ToSet(new[y]) => x = y
                      /\ \A x \in Negation : m \notin ToSet(new[x])
                      /\ \A x \in Param : \A i, j \in DOMAIN new[x] :
                           new[x][i] = m /\ new[x][j] = m => i = j
                      /\ (\A x \in Param : m \notin ToSet(new[x])) => new[m] = << >>
    BY DEF NegationOnce
  <2>1. \A x, y \in Param : m \in ToSet(new[x]) /\ m \in ToSet(new[y]) => x = y
    BY <1>1, <1>5 DEF NegationOnce
  <2>2. \A x \in Negation : m \notin ToSet(new[x])
    BY <1>1, <1>5, ParamIs DEF NegationOnce, Plain
  <2>3. ASSUME NEW x \in Param, NEW i \in DOMAIN new[x], NEW j \in DOMAIN new[x],
               new[x][i] = m, new[x][j] = m
        PROVE  i = j
    <3>1. CASE x = p
      BY <1>6, <2>3, <3>1
    <3>2. CASE x = n
      BY <1>7, <2>3, <3>2
    <3>3. CASE x \notin {p, n}
      BY <1>5, <2>3, <3>3 DEF NegationOnce
    <3> QED
      BY <3>1, <3>2, <3>3
  <2>4. ASSUME \A x \in Param : m \notin ToSet(new[x]) PROVE new[m] = << >>
    <3>1. m # n /\ m # p /\ m \in Param
      BY <1>1, <1>5, <2>4, ParamIs DEF Plain
    <3>2. m \notin ToSet(o[n])
      BY DEF NegationOnce
    <3>3. m \notin ToSet(o[p])
      BY <1>1, <1>2, <1>4, <2>4 DEF s
    <3>4. \A x \in Param : m \notin ToSet(o[x])
      BY <1>5, <2>4, <3>2, <3>3
    <3> QED
      BY <1>5, <3>1, <3>4 DEF NegationOnce
  <2> QED
    BY <2>1, <2>2, <2>3, <2>4
<1>9. NegationCopies(new)
  <2> SUFFICES ASSUME NEW x \in Param, NEW i \in DOMAIN new[x], new[x][i] \in Negation
               PROVE  new[new[x][i]] = SubSeq(new[x], 1, i - 1)
    BY DEF NegationCopies
  <2>1. CASE x = p
    BY <1>2, <1>6, <2>1
  <2>2. CASE x = n
    BY <1>7, <2>2
  <2>3. CASE x \notin {p, n}
    <3>1. new[x] = o[x] /\ o[x][i] \in ToSet(o[x])
      BY <1>5, <2>3 DEF ToSet
    <3>2. o[x][i] # n /\ o[x][i] # p /\ o[x][i] \in Param
      BY <1>5, <2>3, <3>1, ParamIs DEF Plain
    <3> QED
      BY <1>5, <2>3, <3>1, <3>2 DEF NegationCopies
  <2> QED
    BY <2>1, <2>2, <2>3
<1>10. Len(new[p]) = Len(o[p]) + 1 /\ new[p][Len(new[p])] = n
  <2>1. Len(s \o t) = Len(s) + 1
    BY <1>1, ConcatProperties
  <2>2. Len(s) + 1 \in Len(s) + 1 .. Len(s) + 1
    BY <1>4
  <2> QED
    BY <1>2, <1>4, <2>1, <2>2 DEF s
<1> QED
  BY <1>2, <1>3, <1>8, <1>9, <1>10 DEF new, s, t

-----------------------------------------------------------------------------
(* What is below a param.                                                  *)

Grows(o, new) == \A p \in Param : ToSet(o[p]) \subseteq ToSet(new[p])

LEMMA ReachedGrows ==
    ASSUME NEW o \in Options, NEW new \in Options, Grows(o, new),
           NEW from \in Param, NEW through
    PROVE  Reached(o, from, through) \subseteq Reached(new, from, through)
<1>1. /\ from \in Reached(new, from, through) /\ Reached(new, from, through) \subseteq Param
      /\ Closed(new, through, Reached(new, from, through))
  BY ReachedIs
<1>2. Closed(o, through, Reached(new, from, through))
  BY <1>1 DEF Closed, Grows
<1> QED
  BY <1>1, <1>2, ReachedIs

LEMMA ReachedOn ==
    ASSUME NEW o \in Options, NEW from \in Param, NEW through,
           NEW q \in Reached(o, from, through)
    PROVE  q \in Param /\ Reached(o, q, through) \subseteq Reached(o, from, through)
<1>1. q \in Param /\ Closed(o, through, Reached(o, from, through))
  BY ReachedIs
<1> QED
  BY <1>1, ReachedIs

\* What is reached is an option of another that is.
LedTo(o, from, through, x) ==
    \E u \in Reached(o, from, through) \cap through : u # x /\ x \in ToSet(o[u])

LEMMA ReachedIsLedTo ==
    ASSUME NEW o \in Options, NEW from \in Param, NEW through,
           NEW x \in Reached(o, from, through), x # from
    PROVE  LedTo(o, from, through, x)
<1> DEFINE r == Reached(o, from, through)
<1>1. SUFFICES ASSUME ~LedTo(o, from, through, x) PROVE FALSE
  OBVIOUS
<1>2. from \in r \ {x} /\ Closed(o, through, r)
  BY ReachedIs
<1>3. Closed(o, through, r \ {x})
  BY <1>1, <1>2 DEF Closed, LedTo
<1>4. r \subseteq r \ {x}
  BY <1>2, <1>3, ReachedIs
<1> QED
  BY <1>4

-----------------------------------------------------------------------------
(* Params in one place.                                                    *)

UsersOf(o, c) == {p \in Param \ {c} : c \in ToSet(o[p])}
Alone(o, p) ==
    \A q \in {r \in Own : p \in Reached(o, r, Param)} :
      Cardinality(UsersOf(o, q) \ Negation) <= 1

LEMMA AtMostOne ==
    ASSUME NEW S, IsFiniteSet(S), Cardinality(S) <= 1, NEW u \in S, NEW v \in S
    PROVE  u = v
<1>1. IsFiniteSet(S \ {u}) /\ Cardinality(S \ {u}) = Cardinality(S) - 1
  BY FS_RemoveElement
<1>2. Cardinality(S) \in Nat /\ Cardinality(S \ {u}) \in Nat
  BY <1>1, FS_CardinalityType
<1>3. Cardinality(S \ {u}) = 0
  BY <1>1, <1>2
<1>4. S \ {u} = {}
  BY <1>1, <1>3, FS_EmptySet
<1> QED
  BY <1>4

LEMMA UsersAreFinite == \A o, c : IsFiniteSet(UsersOf(o, c) \ Negation)
<1>1. \A o, c : UsersOf(o, c) \ Negation \in SUBSET Param
  BY DEF UsersOf
<1> QED
  BY <1>1, ParamIs, FS_Subset

LEMMA OneUser ==
    ASSUME NEW o, NEW p, Alone(o, p), NEW r \in Own, p \in Reached(o, r, Param),
           NEW u \in UsersOf(o, r) \ Negation, NEW v \in UsersOf(o, r) \ Negation
    PROVE  u = v
<1>1. Cardinality(UsersOf(o, r) \ Negation) <= 1
  BY DEF Alone
<1> QED
  BY <1>1, UsersAreFinite, AtMostOne

LEMMA AloneBefore ==
    ASSUME NEW o \in Options, NEW new \in Options, Grows(o, new), NEW p, Alone(new, p)
    PROVE  Alone(o, p)
<1> SUFFICES ASSUME NEW q \in Own, p \in Reached(o, q, Param)
             PROVE  Cardinality(UsersOf(o, q) \ Negation) <= 1
  BY DEF Alone
<1>1. p \in Reached(new, q, Param)
  BY ReachedGrows, ParamIs
<1>2. Cardinality(UsersOf(new, q) \ Negation) <= 1
  BY <1>1 DEF Alone
<1> DEFINE a == UsersOf(o, q) \ Negation
           b == UsersOf(new, q) \ Negation
<1>3. a \in SUBSET b
  BY DEF UsersOf, Grows
<1>4. IsFiniteSet(b) /\ Cardinality(b) <= 1
  BY <1>2, UsersAreFinite
<1> HIDE DEF a, b
<1>5. IsFiniteSet(a) /\ Cardinality(a) <= Cardinality(b)
  BY <1>3, <1>4, FS_Subset
<1>6. Cardinality(a) \in Nat /\ Cardinality(b) \in Nat
  BY <1>4, <1>5, FS_CardinalityType
<1>7. Cardinality(a) <= 1
  BY <1>4, <1>5, <1>6
<1> QED
  BY <1>7 DEF a

LEMMA AloneAbove ==
    ASSUME NEW o \in Options, NEW p, Alone(o, p), NEW q \in Param, p \in Reached(o, q, Param)
    PROVE  Alone(o, q)
<1> SUFFICES ASSUME NEW r \in Own, q \in Reached(o, r, Param)
             PROVE  Cardinality(UsersOf(o, r) \ Negation) <= 1
  BY DEF Alone
<1>1. p \in Reached(o, r, Param)
  BY ReachedOn, ParamIs
<1> QED
  BY <1>1 DEF Alone

-----------------------------------------------------------------------------
(* The tree while it is built.                                             *)

\* Where the program may add options, and where it may not.
Shape(o, rec) ==
    /\ \A p \in Own : ToSet(o[p]) \subseteq Own \cup Negation
    /\ \A u \in Param : ToSet(o[u]) \cap Own # {} => u \in Own \cup Branches \cup Negation
    /\ \A u \in Param : ToSet(o[u]) \cap Hooks # {} => u = "root"
    /\ \A u \in Param : "root" \notin ToSet(o[u])
    /\ \A u \in Plain : u \in ToSet(o[u]) => u \in rec

ParentsLead(o, par) ==
    \A q \in Param : par[q] # NULL =>
      par[q] \in Expanded /\ par[q] # q /\ q \in ToSet(o[par[q]])

BatchClosed(o, b) ==
    \A q \in b : Alone(o, q) => \A a \in Own : q \in Reached(o, a, Param) => a \in b

Ranked(o) == \E rank : Rising(o, rank)
Free(o) == {n \in Negation : UsersOf(o, n) = {}}

Building(o, par, b, rec) ==
    /\ NegationOnce(o) /\ NegationCopies(o)
    /\ Shape(o, rec) /\ ParentsLead(o, par) /\ Ranked(o) /\ Free(o) # {}
    /\ b \subseteq Reached(o, "config", Param) /\ BatchClosed(o, b)

LEMMA NegationIsCopied ==
    ASSUME NEW o \in Options, NegationOnce(o), NegationCopies(o),
           NEW p \in Param, NEW n \in Negation, n \in ToSet(o[p])
    PROVE  ToSet(o[n]) \subseteq ToSet(o[p])
<1>1. PICK i \in DOMAIN o[p] : o[p][i] = n
  BY DEF ToSet
<1>2. o[n] = SubSeq(o[p], 1, i - 1)
  BY <1>1 DEF NegationCopies
<1>3. o[p] \in Seq(Param) /\ i \in 1 .. Len(o[p]) /\ Len(o[p]) \in Nat
  BY <1>1, LenProperties DEF Options
<1>4. DOMAIN o[n] = 1 .. i - 1 /\ \A j \in 1 .. i - 1 : o[n][j] = o[p][j]
  <2>1. \A j \in 1 .. i - 1 : o[p][j] \in Param
    BY <1>3, ElementOfSeq
  <2>2. /\ SubSeq(o[p], 1, i - 1) \in Seq(Param) /\ Len(SubSeq(o[p], 1, i - 1)) = i - 1
        /\ \A j \in 1 .. i - 1 : SubSeq(o[p], 1, i - 1)[j] = o[p][j]
    BY <1>3, <2>1, SubSeqProperties
  <2> QED
    BY <1>2, <2>2, LenProperties
<1>5. \A j \in 1 .. i - 1 : j \in DOMAIN o[p]
  BY <1>3, LenProperties
<1> QED
  BY <1>4, <1>5 DEF ToSet

\* No other param but negations has it: config does not lead to it.
LEMMA NotBelow ==
    ASSUME NEW o \in Options, NegationOnce(o), NegationCopies(o),
           NEW c \in Own, UsersOf(o, c) \subseteq Negation, NEW from \in Library
    PROVE  c \notin Reached(o, from, Param)
<1> DEFINE own == ToSet(o[c]) \cap Negation
           s == Reached(o, from, Param) \ ({c} \cup own)
<1>1. from \in Param /\ from \in Reached(o, from, Param) /\ Closed(o, Param, Reached(o, from, Param))
      /\ Reached(o, from, Param) \subseteq Param /\ c \in Param
  BY ParamIs, ReachedIs
<1>2. from \in s
  BY <1>1, ParamIs
<1>3. ASSUME NEW u \in s PROVE ToSet(o[u]) \subseteq s
  <2>1. u \in Param /\ u # c /\ u \notin own
    BY <1>1
  <2>2. ToSet(o[u]) \subseteq Reached(o, from, Param)
    BY <1>1, <2>1 DEF Closed
  <2>3. c \notin ToSet(o[u])
    <3>1. SUFFICES ASSUME c \in ToSet(o[u]) PROVE FALSE
      OBVIOUS
    <3>2. u \in Negation
      BY <2>1, <3>1 DEF UsersOf
    <3>3. o[u] # << >>
      BY <3>1 DEF ToSet
    <3>4. PICK w \in Param : u \in ToSet(o[w])
      BY <3>2, <3>3 DEF NegationOnce
    <3>5. c \in ToSet(o[w])
      BY <3>1, <3>2, <3>4, NegationIsCopied
    <3>6. w = c
      BY <3>2, <3>4, <3>5 DEF NegationOnce, UsersOf
    <3> QED
      BY <2>1, <3>2, <3>4, <3>6
  <2>4. ToSet(o[u]) \cap own = {}
    BY <1>1, <2>1 DEF NegationOnce
  <2> QED
    BY <2>2, <2>3, <2>4
<1>4. Closed(o, Param, s)
  BY <1>3 DEF Closed
<1>5. Reached(o, from, Param) \subseteq s
  BY <1>1, <1>2, <1>4, ReachedIs
<1> QED
  BY <1>5

\* A param got one more option, which is no negation.
OneMore(o, p, c) == [o EXCEPT ![p] = Append(@, c)]
LEMMA AddOption ==
    ASSUME NEW o \in Options, NEW p \in Plain, NEW c \in Plain
    PROVE  LET new == OneMore(o, p, c) IN
           /\ new \in Options /\ Extended(o, new) /\ Grows(o, new)
           /\ \A q \in Param \ {p} : new[q] = o[q]
           /\ ToSet(new[p]) = ToSet(o[p]) \cup {c}
<1> DEFINE new == OneMore(o, p, c)
           s == o[p]
           t == <<c>>
<1>1. s \in Seq(Param) /\ t \in Seq(Param) /\ t \in Seq(Plain) /\ ToSet(t) = {c}
      /\ p \in Param /\ c \in Param
  BY TupleOfOne DEF Options, Plain
<1>2. new[p] = s \o t /\ new[p] \in Seq(Param) /\ \A q \in Param \ {p} : new[q] = o[q]
  <2>1. Append(s, c) = s \o t /\ s \o t \in Seq(Param)
    BY <1>1, AppendIsConcat, ConcatProperties
  <2> QED
    BY <1>1, <2>1 DEF Options, OneMore
<1>3. new \in Options
  BY <1>1, <1>2 DEF Options, OneMore
<1>4. ToSet(s \o t) = ToSet(s) \cup ToSet(t)
  <2>1. s \in Seq(Param) /\ t \in Seq(Param)
    BY <1>1
  <2> HIDE DEF s, t
  <2> QED
    BY <2>1, Joined
<1>5. ToSet(new[p]) = ToSet(o[p]) \cup {c}
  BY <1>1, <1>2, <1>4
<1> HIDE DEF new
<1>6. Grows(o, new)
  BY <1>2, <1>5 DEF Grows
<1>7. Extended(o, new)
  <2>1. \A q \in Negation : new[q] = o[q]
    BY <1>2, ParamIs DEF Plain
  <2>2. ASSUME NEW q \in Plain PROVE \E x \in Seq(Plain) : new[q] = o[q] \o x
    <3>1. CASE q = p
      BY <1>1, <1>2, <3>1
    <3>2. CASE q # p
      <4>1. new[q] = o[q] /\ o[q] \in Seq(Param)
        BY <1>2, <3>2 DEF Plain, Options
      <4>2. o[q] \o << >> = o[q]
        BY <4>1, ConcatEmptySeq
      <4>3. << >> \in Seq(Plain)
        OBVIOUS
      <4> QED
        BY <4>1, <4>2, <4>3
    <3> QED
      BY <3>1, <3>2
  <2> QED
    BY <1>3, <2>1, <2>2 DEF Extended
<1> QED
  BY <1>2, <1>3, <1>5, <1>6, <1>7 DEF new

LEMMA FreeStays ==
    ASSUME NEW o, NEW new, Free(o) # {},
           \A p \in Param : ToSet(new[p]) \cap Negation \subseteq ToSet(o[p])
    PROVE  Free(new) # {}
<1>1. PICK n \in Negation : UsersOf(o, n) = {}
  BY DEF Free
<1>2. UsersOf(new, n) = {}
  BY <1>1 DEF UsersOf
<1> QED
  BY <1>2 DEF Free

\* What is below the new option now ranks above the param it was added to.
LEMMA RegisteredIsRanked ==
    ASSUME NEW o \in Options, Ranked(o), NEW new \in Options,
           NEW p \in Param, NEW c \in Param, p \notin Reached(o, c, Param),
           \A q \in Param \ {p} : new[q] = o[q], ToSet(new[p]) = ToSet(o[p]) \cup {c}
    PROVE  Ranked(new)
<1>1. PICK rank : Rising(o, rank)
  BY DEF Ranked
<1> DEFINE r == Reached(o, c, Param)
           above == [x \in Param |-> IF x \in r THEN rank[x] + rank[p] + 1 ELSE rank[x]]
<1>2. c \in r /\ Closed(o, Param, r) /\ r \subseteq Param
  BY ReachedIs
<1> HIDE DEF r
<1>3. rank \in [Param -> Nat] /\ \A u \in Expanded : \A v \in ToSet(o[u]) : u # v => rank[u] < rank[v]
  BY <1>1 DEF Rising
<1>4. above \in [Param -> Nat]
  BY <1>3
<1>5. ASSUME NEW u \in Expanded, NEW v \in ToSet(new[u]), u # v PROVE above[u] < above[v]
  <2>1. u \in Param /\ v \in Param /\ p \in Param
    BY OptionIsParam DEF Expanded
  <2>2. rank[u] \in Nat /\ rank[v] \in Nat /\ rank[p] \in Nat
    BY <1>3, <2>1
  <2>3. CASE v \in ToSet(o[u])
    <3>1. rank[u] < rank[v]
      BY <1>3, <1>5, <2>3
    <3>2. u \in r => v \in r
      BY <1>2, <2>1, <2>3 DEF Closed
    <3>3. CASE u \in r
      BY <2>1, <2>2, <3>1, <3>2, <3>3
    <3>4. CASE u \notin r
      BY <2>1, <2>2, <3>1, <3>4
    <3> QED
      BY <3>3, <3>4
  <2>4. CASE v \notin ToSet(o[u])
    <3>1. u = p /\ v = c
      BY <2>1, <2>4
    <3>2. u \notin r /\ v \in r
      BY <1>2, <3>1 DEF r
    <3>3. above[u] = rank[p] /\ above[v] = rank[v] + rank[p] + 1
      BY <2>1, <3>1, <3>2
    <3> QED
      BY <2>2, <3>3
  <2> QED
    BY <2>3, <2>4
<1>6. Rising(new, above)
  BY <1>4, <1>5 DEF Rising
<1> QED
  BY <1>6 DEF Ranked

\* libcli_register_param.
LEMMA Registered ==
    ASSUME NEW o \in Options, NEW par \in [Param -> Param \cup {NULL}],
           NEW b \in SUBSET Plain, NEW rec, Building(o, par, b, rec),
           NEW p \in Own \cup Branches, NEW c \in Own,
           c \notin ToSet(o[p]), p \notin Reached(o, c, Param)
    PROVE  LET new == OneMore(o, p, c) IN
           /\ new \in Options
           /\ Building(new, [par EXCEPT ![c] = p], b, rec)
<1> DEFINE new == OneMore(o, p, c)
           newp == [par EXCEPT ![c] = p]
<1>1. p \in Plain /\ c \in Plain /\ p \in Param /\ c \in Param /\ p \in Expanded
  BY ParamIs DEF Plain, Expanded, Expands, NoExpand, Hooks
<1>2. /\ new \in Options /\ Extended(o, new) /\ Grows(o, new)
      /\ \A q \in Param \ {p} : new[q] = o[q]
      /\ ToSet(new[p]) = ToSet(o[p]) \cup {c}
  BY <1>1, AddOption
<1>3. newp[c] = p /\ \A q \in Param \ {c} : newp[q] = par[q]
  BY <1>1
<1> HIDE DEF new, newp
<1>4. p # c
  BY <1>1, ReachedIs
<1>5. NegationOnce(new) /\ NegationCopies(new)
  BY <1>2, ExtendedKeepsNegations DEF Building
<1>6. Shape(new, rec)
  <2>1. Shape(o, rec)
    BY DEF Building
  <2>2. c \notin Hooks /\ c # "root" /\ p # "root"
    BY ParamIs DEF Hooks
  <2>3. ASSUME NEW u \in Param
        PROVE  /\ u \in Own => ToSet(new[u]) \subseteq Own \cup Negation
               /\ ToSet(new[u]) \cap Own # {} => u \in Own \cup Branches \cup Negation
               /\ ToSet(new[u]) \cap Hooks # {} => u = "root"
               /\ "root" \notin ToSet(new[u])
               /\ u \in Plain /\ u \in ToSet(new[u]) => u \in rec
    <3>1. CASE u = p
      BY <1>1, <1>2, <1>4, <2>1, <2>2, <3>1 DEF Shape
    <3>2. CASE u # p
      BY <1>2, <2>1, <3>2 DEF Shape
    <3> QED
      BY <3>1, <3>2
  <2> QED
    BY <2>3, ParamIs DEF Shape, Plain
<1>7. ParentsLead(new, newp)
  <2>1. ParentsLead(o, par)
    BY DEF Building
  <2>2. \A q \in Expanded : q \in Param
    BY DEF Expanded
  <2> QED
    BY <1>1, <1>2, <1>3, <1>4, <2>1, <2>2 DEF ParentsLead, Grows
<1>8. Ranked(new)
  BY <1>1, <1>2, RegisteredIsRanked DEF Building
<1>9. Free(new) # {}
  <2>1. \A q \in Param : ToSet(new[q]) \cap Negation \subseteq ToSet(o[q])
    BY <1>1, <1>2 DEF Plain
  <2> QED
    BY <2>1, FreeStays DEF Building
<1>10. b \subseteq Reached(new, "config", Param)
  BY <1>2, ReachedGrows, ParamIs DEF Building, Hooks
<1>11. BatchClosed(new, b)
  <2> SUFFICES ASSUME NEW q \in b, Alone(new, q), NEW a \in Own, q \in Reached(new, a, Param)
               PROVE  a \in b
    BY DEF BatchClosed
  <2>1. Alone(o, q)
    BY <1>2, AloneBefore
  <2>2. a \in Param
    BY ParamIs
  <2>3. CASE q \in Reached(o, a, Param)
    BY <2>1, <2>3 DEF Building, BatchClosed
  <2>4. CASE q \notin Reached(o, a, Param)
    <3>1. q \in Reached(o, c, Param)
      <4> DEFINE s == Reached(o, a, Param) \cup Reached(o, c, Param)
      <4>1. a \in s /\ Closed(o, Param, s) /\ c \in s /\ s \subseteq Param
        BY <1>1, <2>2, ReachedIs DEF Closed
      <4> HIDE DEF s
      <4>2. Closed(new, Param, s)
        BY <1>2, <4>1 DEF Closed
      <4>3. Reached(new, a, Param) \subseteq s
        BY <1>2, <2>2, <4>1, <4>2, ReachedIs
      <4> QED
        BY <2>4, <4>3 DEF s
    <3>2. c \in b
      BY <2>1, <3>1 DEF Building, BatchClosed
    <3>3. c \in Reached(o, "config", Param) /\ "config" \in Library
      BY <3>2, ParamIs DEF Building, Hooks
    <3>4. PICK v \in UsersOf(o, c) : v \notin Negation
      BY <3>3, NotBelow DEF Building
    <3>5. v \in UsersOf(new, c) \ Negation /\ v # p
      BY <1>2, <3>4 DEF UsersOf, Grows
    <3>6. p \in UsersOf(new, c) \ Negation
      BY <1>1, <1>2, <1>4 DEF UsersOf, Plain
    <3>7. q \in Reached(new, c, Param)
      BY <1>1, <1>2, <3>1, ReachedGrows
    <3>8. v = p
      BY <3>5, <3>6, <3>7, OneUser
    <3> QED
      BY <3>5, <3>8
  <2> QED
    BY <2>3, <2>4
<1> QED
  BY <1>2, <1>5, <1>6, <1>7, <1>8, <1>9, <1>10, <1>11 DEF Building, new, newp

\* libcli_param_recursive: what is below a param stays so.
LEMMA Recursed ==
    ASSUME NEW o \in Options, NEW par \in [Param -> Param \cup {NULL}],
           NEW b \in SUBSET Plain, NEW rec, Building(o, par, b, rec), NEW p \in Own
    PROVE  LET new == OneMore(o, p, p) IN
           /\ new \in Options
           /\ Building(new, par, b, rec \cup {p})
<1> DEFINE new == OneMore(o, p, p)
<1>1. p \in Plain /\ p \in Param
  BY ParamIs DEF Plain
<1>2. /\ new \in Options /\ Extended(o, new) /\ Grows(o, new)
      /\ \A q \in Param \ {p} : new[q] = o[q]
      /\ ToSet(new[p]) = ToSet(o[p]) \cup {p}
  BY <1>1, AddOption
<1> HIDE DEF new
<1>3. NegationOnce(new) /\ NegationCopies(new)
  BY <1>2, ExtendedKeepsNegations DEF Building
<1>4. Shape(new, rec \cup {p})
  <2>1. Shape(o, rec)
    BY DEF Building
  <2>2. p \notin Hooks /\ p # "root"
    BY ParamIs DEF Hooks
  <2>3. ASSUME NEW u \in Param
        PROVE  /\ u \in Own => ToSet(new[u]) \subseteq Own \cup Negation
               /\ ToSet(new[u]) \cap Own # {} => u \in Own \cup Branches \cup Negation
               /\ ToSet(new[u]) \cap Hooks # {} => u = "root"
               /\ "root" \notin ToSet(new[u])
               /\ u \in Plain /\ u \in ToSet(new[u]) => u \in rec \cup {p}
    <3>1. CASE u = p
      BY <1>1, <1>2, <2>1, <2>2, <3>1 DEF Shape
    <3>2. CASE u # p
      BY <1>2, <2>1, <3>2 DEF Shape
    <3> QED
      BY <3>1, <3>2
  <2> QED
    BY <2>3, ParamIs DEF Shape, Plain
<1>5. ParentsLead(new, par)
  BY <1>2 DEF ParentsLead, Grows, Expanded, Building
<1>6. Ranked(new)
  <2>1. PICK rank : Rising(o, rank)
    BY DEF Building, Ranked
  <2>2. \A u \in Expanded : \A v \in ToSet(new[u]) : u # v => v \in ToSet(o[u])
    BY <1>2 DEF Expanded
  <2>3. Rising(new, rank)
    BY <2>1, <2>2 DEF Rising
  <2> QED
    BY <2>3 DEF Ranked
<1>7. Free(new) # {}
  <2>1. \A q \in Param : ToSet(new[q]) \cap Negation \subseteq ToSet(o[q])
    BY <1>1, <1>2 DEF Plain
  <2> QED
    BY <2>1, FreeStays DEF Building
<1>8. b \subseteq Reached(new, "config", Param)
  BY <1>2, ReachedGrows, ParamIs DEF Building, Hooks
<1>9. BatchClosed(new, b)
  <2> SUFFICES ASSUME NEW q \in b, Alone(new, q), NEW a \in Own, q \in Reached(new, a, Param)
               PROVE  a \in b
    BY DEF BatchClosed
  <2>1. Alone(o, q)
    BY <1>2, AloneBefore
  <2>2. a \in Param
    BY ParamIs
  <2>3. a \in Reached(o, a, Param) /\ Closed(o, Param, Reached(o, a, Param))
        /\ Reached(o, a, Param) \subseteq Param
    BY <2>2, ReachedIs
  <2>4. Closed(new, Param, Reached(o, a, Param))
    BY <1>2, <2>3 DEF Closed
  <2>5. q \in Reached(o, a, Param)
    BY <1>2, <2>2, <2>3, <2>4, ReachedIs
  <2> QED
    BY <2>1, <2>5 DEF Building, BatchClosed
<1> QED
  BY <1>2, <1>3, <1>4, <1>5, <1>6, <1>7, <1>8, <1>9 DEF Building, new

\* libcli_support_cmd_negation.
LEMMA NegatedIsBuilding ==
    ASSUME NEW o \in Options, NEW par \in [Param -> Param \cup {NULL}],
           NEW b \in SUBSET Plain, NEW rec, Building(o, par, b, rec),
           NEW p \in Own \cup Branches, ToSet(o[p]) \cap Negation = {},
           NEW n \in Negation, UsersOf(o, n) = {}, Free(o) # {n}
    PROVE  LET new == Negated(o, p, n) IN
           /\ new \in Options
           /\ Building(new, par, b, rec)
<1> DEFINE new == Negated(o, p, n)
           s == o[p]
<1>1. p \in Plain /\ p \in Param /\ n \in Param /\ p # n /\ p # "root" /\ n \notin Hooks /\ n # "root"
      /\ n \notin Own
  BY ParamIs DEF Plain, Hooks
<1>2. \A q \in Param : n \notin ToSet(o[q])
  BY DEF UsersOf, NegationOnce, Building
<1>3. /\ new \in Options /\ NegationOnce(new) /\ NegationCopies(new)
      /\ new[p] = o[p] \o <<n>> /\ new[n] = o[p]
      /\ \A q \in Param \ {p, n} : new[q] = o[q]
  BY <1>1, <1>2, NegatedKeepsNegations DEF Building
<1>4. ToSet(new[p]) = ToSet(o[p]) \cup {n} /\ ToSet(new[n]) = ToSet(o[p])
  <2> DEFINE t == <<n>>
  <2>1. s \in Seq(Param) /\ t \in Seq(Param)
    BY <1>1 DEF Options
  <2>2. ToSet(t) = {n}
    BY TupleOfOne
  <2>3. new[p] = s \o t
    BY <1>3
  <2> HIDE DEF s, t
  <2>4. ToSet(s \o t) = ToSet(s) \cup ToSet(t)
    BY <2>1, Joined
  <2> QED
    BY <1>3, <2>2, <2>3, <2>4 DEF s
<1> HIDE DEF new
<1>5. ToSet(o[n]) = {}
  <2>1. o[n] = << >>
    BY <1>2 DEF NegationOnce, Building
  <2> QED
    BY <2>1 DEF ToSet
<1>6. Grows(o, new)
  BY <1>3, <1>4, <1>5 DEF Grows
<1>7. Shape(new, rec)
  <2>1. Shape(o, rec)
    BY DEF Building
  <2>2. ASSUME NEW u \in Param
        PROVE  /\ u \in Own => ToSet(new[u]) \subseteq Own \cup Negation
               /\ ToSet(new[u]) \cap Own # {} => u \in Own \cup Branches \cup Negation
               /\ ToSet(new[u]) \cap Hooks # {} => u = "root"
               /\ "root" \notin ToSet(new[u])
               /\ u \in Plain /\ u \in ToSet(new[u]) => u \in rec
    <3>1. CASE u = p
      BY <1>1, <1>4, <2>1, <3>1 DEF Shape
    <3>2. CASE u = n
      BY <1>1, <1>4, <2>1, <3>2 DEF Shape, Plain
    <3>3. CASE u \notin {p, n}
      BY <1>3, <2>1, <3>3 DEF Shape
    <3> QED
      BY <3>1, <3>2, <3>3
  <2> QED
    BY <2>2, ParamIs DEF Shape, Plain
<1>8. ParentsLead(new, par)
  BY <1>6 DEF ParentsLead, Grows, Expanded, Building
<1>9. Ranked(new)
  <2>1. PICK rank : Rising(o, rank)
    BY DEF Building, Ranked
  <2> DEFINE r == [rank EXCEPT ![n] = rank[p] + 1]
  <2>2. r \in [Param -> Nat] /\ r[n] = rank[p] + 1 /\ (\A q \in Param \ {n} : r[q] = rank[q])
        /\ rank[p] \in Nat
    BY <1>1, <2>1 DEF Rising
  <2> HIDE DEF r
  <2>3. ASSUME NEW u \in Expanded, NEW v \in ToSet(new[u]), u # v PROVE r[u] < r[v]
    <3>1. u \in Param /\ u # n
      BY DEF Expanded, Expands, NoExpand
    <3>2. CASE v = n
      <4>1. u = p
        BY <1>2, <1>3, <3>1, <3>2
      <4>2. r[u] = rank[p] /\ r[v] = rank[p] + 1
        BY <1>1, <2>2, <3>2, <4>1
      <4> QED
        BY <2>2, <4>2
    <3>3. CASE v # n
      <4>1. v \in ToSet(o[u])
        BY <1>3, <1>4, <3>1, <3>3
      <4>2. v \in Param
        BY <3>1, <4>1, OptionIsParam
      <4>3. r[u] = rank[u] /\ r[v] = rank[v] /\ rank[u] < rank[v]
        BY <2>1, <2>2, <2>3, <3>1, <3>3, <4>1, <4>2 DEF Rising
      <4> QED
        BY <4>3
    <3> QED
      BY <3>2, <3>3
  <2>4. Rising(new, r)
    BY <2>2, <2>3 DEF Rising
  <2> QED
    BY <2>4 DEF Ranked
<1>10. Free(new) # {}
  <2>1. PICK m \in Free(o) : m # n
    BY DEF Building
  <2>2. m \in Negation /\ UsersOf(o, m) = {} /\ m \notin ToSet(o[p]) /\ m \in Param
    BY <1>1, <2>1, ParamIs DEF Free
  <2>3. UsersOf(new, m) = {}
    BY <1>1, <1>3, <1>4, <2>1, <2>2 DEF UsersOf
  <2> QED
    BY <2>2, <2>3 DEF Free
<1>11. b \subseteq Reached(new, "config", Param)
  BY <1>3, <1>6, ReachedGrows, ParamIs DEF Building, Hooks
<1>12. BatchClosed(new, b)
  <2> SUFFICES ASSUME NEW q \in b, Alone(new, q), NEW a \in Own, q \in Reached(new, a, Param)
               PROVE  a \in b
    BY DEF BatchClosed
  <2>1. Alone(o, q)
    BY <1>3, <1>6, AloneBefore
  <2>2. a \in Param /\ a # n /\ q # n
    BY <1>1, ParamIs DEF Plain
  <2> DEFINE r == Reached(o, a, Param)
  <2>3. a \in r /\ Closed(o, Param, r) /\ r \subseteq Param
    BY <2>2, ReachedIs
  <2>4. n \notin r
    <3>1. ~LedTo(o, a, Param, n)
      BY <1>2, <2>3 DEF LedTo
    <3> QED
      BY <2>2, <3>1, ReachedIsLedTo
  <2> DEFINE t == IF p \in r THEN r \cup {n} ELSE r
  <2>5. Closed(new, Param, t)
    <3> HIDE DEF r
    <3> QED
      BY <1>3, <1>4, <2>3, <2>4 DEF Closed
  <2>6. a \in t /\ q \in t
    <3> HIDE DEF r
    <3>1. a \in t
      BY <2>3
    <3> HIDE DEF t
    <3> QED
      BY <1>3, <2>2, <2>5, <3>1, ReachedIs
  <2>7. q \in r
    BY <2>2, <2>6
  <2> QED
    BY <2>1, <2>7 DEF Building, BatchClosed
<1> QED
  BY <1>3, <1>7, <1>8, <1>9, <1>10, <1>11, <1>12 DEF Building, new

\* The params from p up: each of them the parent of the one before.
Chain(up, p, par) ==
    /\ up \in Seq(Param) /\ Len(up) >= 1 /\ up[1] = p
    /\ \A i \in 1 .. Len(up) : i > 1 => par[up[i - 1]] # NULL /\ up[i] = par[up[i - 1]]

LEMMA ChainGrows ==
    ASSUME NEW par, NEW p \in Param, NEW q, par[p] = q, q # NULL,
           NEW s, Chain(s, q, par)
    PROVE  Chain(<<p>> \o s, p, par)
<1> DEFINE up == <<p>> \o s
<1>1. /\ s \in Seq(Param) /\ Len(s) \in Nat /\ Len(s) >= 1 /\ s[1] = q
      /\ <<p>> \in Seq(Param) /\ Len(<<p>>) = 1 /\ <<p>>[1] = p
  BY LenProperties DEF Chain
<1>2. /\ up \in Seq(Param) /\ Len(up) = 1 + Len(s)
      /\ \A i \in 1 .. 1 + Len(s) : up[i] = IF i <= 1 THEN <<p>>[i] ELSE s[i - 1]
  BY <1>1, ConcatProperties
<1> HIDE DEF up
<1>3. up[1] = p /\ Len(up) >= 1
  BY <1>1, <1>2
<1>4. ASSUME NEW i \in 1 .. Len(up), i > 1
      PROVE  par[up[i - 1]] # NULL /\ up[i] = par[up[i - 1]]
  <2>1. up[i] = s[i - 1]
    BY <1>1, <1>2, <1>4
  <2>2. CASE i = 2
    BY <1>1, <1>3, <2>1, <2>2
  <2>3. CASE i # 2
    <3> DEFINE j == i - 1
    <3>1. j \in 1 .. Len(s) /\ j > 1 /\ i - 1 \in 1 .. 1 + Len(s) /\ ~(i - 1 <= 1)
      BY <1>1, <1>2, <1>4, <2>3
    <3>2. up[i - 1] = s[j - 1]
      BY <1>2, <3>1
    <3>3. par[s[j - 1]] # NULL /\ s[j] = par[s[j - 1]]
      <4> HIDE DEF j
      <4> QED
        BY <3>1 DEF Chain
    <3> QED
      BY <2>1, <3>2, <3>3
  <2> QED
    BY <2>2, <2>3
<1>5. Chain(up, p, par)
  BY <1>2, <1>3, <1>4 DEF Chain
<1> QED
  BY <1>5 DEF up

LEMMA AncestryIs ==
    ASSUME NEW o \in Options, Ranked(o), ParentsLead(o, parent),
           parent \in [Param -> Param \cup {NULL}], NEW p \in Param
    PROVE  Chain(Ancestry(p), p, parent)
<1>1. PICK rank : Rising(o, rank)
  BY DEF Ranked
<1>2. rank \in [Param -> Nat]
  BY <1>1 DEF Rising
<1> DEFINE D == Param \cup {NULL}
           T == Seq(Param)
           r == [q \in D |-> IF q = NULL THEN 0 ELSE rank[q] + 1]
           G == [q \in D |-> [f \in [D -> T] |-> IF q = NULL THEN << >> ELSE <<q>> \o f[parent[q]]]]
           up == CHOOSE f : f = [q \in D |-> IF q = NULL THEN << >> ELSE <<q>> \o f[parent[q]]]
<1>3. G \in [D -> [[D -> T] -> T]]
  <2>1. ASSUME NEW q \in D, NEW f \in [D -> T], q # NULL PROVE <<q>> \o f[parent[q]] \in T
    <3>1. <<q>> \in Seq(Param) /\ f[parent[q]] \in Seq(Param)
      BY <2>1
    <3> QED
      BY <3>1, ConcatProperties
  <2>2. << >> \in T
    OBVIOUS
  <2> QED
    BY <2>1, <2>2
<1>4. ASSUME NEW q \in Param
      PROVE  parent[q] \in D /\ (parent[q] # NULL => parent[q] \in Param /\ rank[parent[q]] < rank[q])
  <2>1. parent[q] \in D
    OBVIOUS
  <2>2. ASSUME parent[q] # NULL PROVE rank[parent[q]] < rank[q]
    <3>1. parent[q] \in Expanded /\ parent[q] # q /\ q \in ToSet(o[parent[q]])
      BY <2>2 DEF ParentsLead
    <3> QED
      BY <1>1, <3>1 DEF Rising
  <2> QED
    BY <2>1, <2>2
<1>5. r \in [D -> Nat]
  BY <1>2
<1>6. RestsOnLower(D, T, r, G)
  <2>1. ASSUME NEW q \in D, q # NULL PROVE parent[q] \in D /\ r[parent[q]] < r[q]
    <3>1. q \in Param /\ rank[q] \in Nat /\ r[q] = rank[q] + 1
      BY <1>2, <2>1
    <3>2. CASE parent[q] = NULL
      BY <3>1, <3>2
    <3>3. CASE parent[q] # NULL
      <4>1. r[parent[q]] = rank[parent[q]] + 1 /\ rank[parent[q]] < rank[q] /\ rank[parent[q]] \in Nat
        BY <1>2, <1>4, <3>1, <3>3
      <4> QED
        BY <1>4, <3>1, <4>1
    <3> QED
      BY <3>2, <3>3
  <2>2. ASSUME NEW q \in D, NEW f \in [D -> T], NEW g \in [D -> T],
               \A y \in D : r[y] < r[q] => f[y] = g[y]
        PROVE  G[q][f] = G[q][g]
    <3>1. CASE q = NULL
      BY <3>1
    <3>2. CASE q # NULL
      <4>1. f[parent[q]] = g[parent[q]]
        <5> HIDE DEF D, T, r, G
        <5> QED
          BY <2>1, <2>2, <3>2
      <4>2. G[q][f] = <<q>> \o f[parent[q]] /\ G[q][g] = <<q>> \o g[parent[q]]
        BY <3>2
      <4> HIDE DEF D, T, r, G
      <4> QED
        BY <4>1, <4>2
    <3> QED
      BY <3>1, <3>2
  <2> HIDE DEF D, T, r, G
  <2> QED
    BY <2>2 DEF RestsOnLower
<1>7. Solvable(D, T, G)
  <2>1. T # {}
    <3>1. << >> \in T
      OBVIOUS
    <3> QED
      BY <3>1
  <2> HIDE DEF D, T, r, G
  <2> QED
    BY <1>3, <1>5, <1>6, <2>1, RankRecursion
<1>8. PICK f \in [D -> T] : \A q \in D : f[q] = G[q][f]
  BY <1>7 DEF Solvable
<1>9. f = [q \in D |-> IF q = NULL THEN << >> ELSE <<q>> \o f[parent[q]]]
  <2>1. \A q \in D : G[q][f] = IF q = NULL THEN << >> ELSE <<q>> \o f[parent[q]]
    OBVIOUS
  <2> HIDE DEF T, G
  <2> QED
    BY <1>8, <2>1
<1>10. up = [q \in D |-> IF q = NULL THEN << >> ELSE <<q>> \o up[parent[q]]]
  BY <1>9
<1>11. Ancestry(p) = up[p]
  BY DEF Ancestry
<1> HIDE DEF up
<1>12. up[NULL] = << >> /\ \A q \in Param : up[q] = <<q>> \o up[parent[q]]
  BY <1>10, ParamIs
<1> DEFINE bad == {q \in Param : ~Chain(up[q], q, parent)}
<1>13. bad = {}
  <2>1. SUFFICES ASSUME bad # {} PROVE FALSE
    OBVIOUS
  <2>2. bad \in SUBSET Param
    OBVIOUS
  <2>3. PICK q \in bad : \A y \in Param : rank[y] < rank[q] => y \notin bad
    <3> HIDE DEF bad
    <3> QED
      BY <1>2, <2>1, <2>2, LeastRank
  <2>4. q \in Param /\ up[q] = <<q>> \o up[parent[q]]
    BY <1>12
  <2>5. CASE parent[q] = NULL
    <3>1. up[q] = <<q>>
      <4>1. up[q] = <<q>> \o << >>
        BY <1>12, <2>4, <2>5
      <4>2. <<q>> \o << >> = <<q>>
        <5>1. <<q>> \in Seq(Param)
          BY <2>4
        <5> QED
          BY <5>1, ConcatEmptySeq
      <4> QED
        BY <4>1, <4>2
    <3>2. up[q] \in Seq(Param) /\ Len(up[q]) = 1 /\ up[q][1] = q
      <4>1. q \in Param => <<q>> \in Seq(Param) /\ Len(<<q>>) = 1 /\ <<q>>[1] = q
        OBVIOUS
      <4> QED
        BY <2>4, <3>1, <4>1
    <3>3. Chain(up[q], q, parent)
      BY <3>2 DEF Chain
    <3> QED
      BY <2>3, <3>3
  <2>6. CASE parent[q] # NULL
    <3>1. parent[q] \in Param /\ rank[parent[q]] < rank[q]
      BY <1>4, <2>4, <2>6
    <3>2. Chain(up[parent[q]], parent[q], parent)
      BY <2>3, <3>1
    <3>3. Chain(up[q], q, parent)
      BY <2>4, <2>6, <3>2, ChainGrows
    <3> QED
      BY <2>3, <3>3
  <2> QED
    BY <2>5, <2>6
<1> QED
  BY <1>11, <1>13

\* libcli_set_tail_config_batch_processing: up to a param that stops it.
WithTail(b, up, m) == b \cup {up[i] : i \in 1 .. m - 1}
LEMMA TailIsBuilding ==
    ASSUME NEW o \in Options, NEW par \in [Param -> Param \cup {NULL}],
           NEW b \in SUBSET Plain, NEW rec, Building(o, par, b, rec),
           NEW p \in Own, NEW up, Chain(up, p, par),
           NEW m \in 1 .. Len(up), up[m] = "config" \/ up[m] \in b
    PROVE  LET more == WithTail(b, up, m) IN
           /\ more \in SUBSET Plain /\ Building(o, par, more, rec)
<1> DEFINE tail == {up[i] : i \in 1 .. m - 1}
           more == b \cup tail
<1>1. /\ up \in Seq(Param) /\ Len(up) \in Nat /\ m \in Nat /\ m <= Len(up) /\ up[1] = p
      /\ \A i \in 1 .. Len(up) : up[i] \in Param
      /\ \A i \in 1 .. Len(up) : i > 1 => par[up[i - 1]] # NULL /\ up[i] = par[up[i - 1]]
  BY LenProperties, ElementOfSeq DEF Chain
<1>2. ParentsLead(o, par) /\ BatchClosed(o, b) /\ b \subseteq Reached(o, "config", Param)
      /\ NegationOnce(o) /\ NegationCopies(o) /\ Shape(o, rec)
  BY DEF Building
<1>3. ASSUME NEW i \in 1 .. m - 1
      PROVE  /\ up[i] \in Param /\ up[i + 1] \in Plain /\ up[i + 1] # up[i]
             /\ up[i] \in ToSet(o[up[i + 1]]) /\ i + 1 \in 1 .. m
  <2> DEFINE j == i + 1
  <2>1. i \in 1 .. Len(up) /\ j \in 1 .. Len(up) /\ j > 1 /\ j - 1 = i /\ j \in 1 .. m
    BY <1>1
  <2> HIDE DEF j
  <2>2. up[i] \in Param /\ par[up[i]] # NULL /\ up[j] = par[up[i]]
    BY <1>1, <2>1
  <2>3. up[j] \in Expanded /\ up[j] # up[i] /\ up[i] \in ToSet(o[up[j]])
    BY <1>2, <2>2 DEF ParentsLead
  <2>4. up[j] \in Plain
    BY <2>3 DEF Expanded, Expands, NoExpand, Plain
  <2> QED
    BY <2>1, <2>2, <2>3, <2>4 DEF j
<1>4. ASSUME NEW i \in 1 .. m PROVE up[i] \in Plain
  <2>1. CASE i = 1
    BY <1>1, <2>1, ParamIs DEF Plain
  <2>2. CASE i # 1
    <3> DEFINE j == i - 1
    <3>1. j \in 1 .. m - 1 /\ j + 1 = i
      BY <1>1, <2>2
    <3> HIDE DEF j
    <3> QED
      BY <1>3, <3>1
  <2> QED
    BY <2>1, <2>2
<1>5. more \in SUBSET Plain
  <2>1. \A i \in 1 .. m - 1 : i \in 1 .. m
    BY <1>1
  <2> QED
    BY <1>4, <2>1
<1>6. \A i \in 1 .. m : up[i] \in Reached(o, "config", Param)
  <2> DEFINE r == Reached(o, "config", Param)
  <2>1. "config" \in r /\ Closed(o, Param, r)
    BY ReachedIs, ParamIs DEF Hooks
  <2>2. up[m] \in r
    BY <1>2, <2>1
  <2> DEFINE I == 1 .. m
             back == [i \in I |-> m - i]
             bad == {i \in I : up[i] \notin r}
  <2>3. SUFFICES ASSUME bad # {} PROVE FALSE
    OBVIOUS
  <2>4. bad \in SUBSET I /\ back \in [I -> Nat]
    BY <1>1
  <2>5. PICK i \in bad : \A j \in I : back[j] < back[i] => j \notin bad
    <3> HIDE DEF I, back, bad
    <3> QED
      BY <2>3, <2>4, LeastRank
  <2>6. i \in 1 .. m - 1
    BY <1>1, <2>2
  <2>7. i + 1 \in I /\ back[i + 1] < back[i]
    BY <1>1, <2>6
  <2>8. up[i + 1] \in r
    BY <2>5, <2>7
  <2>9. up[i] \in r
    BY <1>3, <1>4, <2>1, <2>6, <2>7, <2>8 DEF Closed, Plain
  <2> QED
    BY <2>5, <2>9
<1>7. more \subseteq Reached(o, "config", Param)
  <2>1. \A i \in 1 .. m - 1 : i \in 1 .. m
    BY <1>1
  <2> QED
    BY <1>2, <1>6, <2>1
<1>8. BatchClosed(o, more)
  <2> SUFFICES ASSUME NEW q \in more, Alone(o, q), NEW a \in Own, q \in Reached(o, a, Param)
               PROVE  a \in more
    BY DEF BatchClosed
  <2>1. CASE q \in b
    BY <1>2, <2>1 DEF BatchClosed
  \* From a param that has an option in the batch, with q below it: only
  \* where it is in the batch itself.
  <2>2. ASSUME NEW u \in Own, NEW y \in ToSet(o[u]), y \in more, q \in Reached(o, y, Param)
        PROVE  u \in more
    <3>1. u \in Param /\ y \in Param /\ y \in Plain
      BY <1>5, <2>2, ParamIs DEF Plain
    <3>2. Alone(o, y)
      BY <2>2, <3>1, AloneAbove
    <3>3. CASE y \in b
      <4>1. y \in Reached(o, u, Param)
        BY <3>1, ReachedIs DEF Closed
      <4> QED
        BY <1>2, <3>2, <3>3, <4>1 DEF BatchClosed
    <3>4. CASE y \in tail
      <4>1. PICK i \in 1 .. m - 1 : y = up[i]
        BY <3>4
      <4>2. CASE u = y
        BY <3>4, <4>2
      <4>3. CASE u # y
        <5>1. u \in UsersOf(o, y) \ Negation
          BY <2>2, <3>1, <4>3, ParamIs DEF UsersOf
        <5>2. up[i + 1] \in UsersOf(o, y) \ Negation
          BY <1>3, <4>1 DEF UsersOf, Plain
        <5>3. y \in Own
          <6>1. Shape(o, rec)
            BY <1>2
          <6>2. y \in Own \cup Negation
            BY <6>1 DEF Shape
          <6> QED
            BY <3>1, <6>2 DEF Plain
        <5>4. y \in Reached(o, y, Param)
          BY <3>1, ReachedIs
        <5>5. u = up[i + 1]
          BY <3>2, <5>1, <5>2, <5>3, <5>4, OneUser
        <5>6. CASE i + 1 \in 1 .. m - 1
          BY <5>5, <5>6
        <5>7. CASE i + 1 \notin 1 .. m - 1
          <6>1. i + 1 = m
            BY <1>1, <5>7
          <6>2. u # "config"
            BY ParamIs DEF Hooks
          <6> QED
            BY <5>5, <6>1, <6>2
        <5> QED
          BY <5>6, <5>7
      <4> QED
        BY <4>2, <4>3
    <3> QED
      BY <2>2, <3>3, <3>4
  <2>3. CASE q \notin b
    <3>1. SUFFICES ASSUME a \notin more PROVE FALSE
      OBVIOUS
    <3> DEFINE out == Own \ more
               clear == {u \in Param : q \notin Reached(o, u, Param)}
               negations == {n \in Negation : \E u \in out : n \in ToSet(o[u])}
               s == clear \cup out \cup negations
    <3>2. ASSUME NEW u \in out, NEW y \in ToSet(o[u]) PROVE y \in s
      <4>1. u \in Own /\ Shape(o, rec)
        BY <1>2
      <4>2. y \in Own \cup Negation
        BY <4>1 DEF Shape
      <4>3. CASE y \in Negation
        BY <4>3
      <4>4. CASE y \in Own /\ y \notin more
        BY <4>4
      <4>5. CASE y \in Own /\ y \in more
        <5>1. q \notin Reached(o, y, Param)
          BY <2>2, <4>1, <4>5
        <5> QED
          BY <4>5, <5>1, ParamIs
      <4> QED
        BY <4>2, <4>3, <4>4, <4>5
    <3>3. ASSUME NEW u \in clear, NEW y \in ToSet(o[u]) PROVE y \in s
      <4>1. u \in Param /\ y \in Param
        BY OptionIsParam
      <4>2. y \in Reached(o, u, Param)
        BY <4>1, ReachedIs DEF Closed
      <4>3. q \notin Reached(o, y, Param)
        BY <4>1, <4>2, ReachedOn
      <4> QED
        BY <4>1, <4>3
    <3>4. ASSUME NEW n \in negations, NEW y \in ToSet(o[n]) PROVE y \in s
      <4>1. PICK u \in out : n \in ToSet(o[u])
        OBVIOUS
      <4>2. u \in Param /\ n \in Negation
        BY ParamIs
      <4>3. y \in ToSet(o[u])
        BY <1>2, <4>1, <4>2, NegationIsCopied
      <4> QED
        BY <3>2, <4>3
    <3>5. Closed(o, Param, s)
      <4> HIDE DEF out, clear, negations
      <4> QED
        BY <3>2, <3>3, <3>4 DEF Closed
    <3>6. a \in s /\ a \in Param
      BY <3>1, ParamIs
    <3>7. q \in s
      <4> HIDE DEF s
      <4> QED
        BY <3>5, <3>6, ReachedIs
    <3>8. q \in Plain /\ q \in Param /\ q \in Reached(o, q, Param)
      BY <1>5, ReachedIs DEF Plain
    <3>9. q \notin clear /\ q \notin negations
      BY <3>8 DEF Plain
    <3> QED
      BY <3>7, <3>9
  <2> QED
    BY <2>1, <2>3
<1>9. Building(o, par, more, rec)
  BY <1>7, <1>8 DEF Building
<1> QED
  BY <1>5, <1>9 DEF WithTail

-----------------------------------------------------------------------------
(* The tree when it is built.                                              *)

LEMMA AugmentedIsLedTo ==
    ASSUME NEW o \in Options, NEW q \in Augmented(o), q \notin Filtered
    PROVE  \E u \in Augmented(o) : u # q /\ q \in ToSet(o[u])
<1>1. PICK h \in Filtered : q \in Reached(o, h, Expanded)
  BY DEF Augmented
<1>2. h \in Param /\ q # h
  BY <1>1, AugmentedIs
<1>3. LedTo(o, h, Expanded, q)
  BY <1>1, <1>2, ReachedIsLedTo
<1>4. PICK u \in Reached(o, h, Expanded) \cap Expanded : u # q /\ q \in ToSet(o[u])
  BY <1>3 DEF LedTo
<1>5. u \in Augmented(o)
  BY <1>1, <1>4 DEF Augmented
<1> QED
  BY <1>4, <1>5

LEMMA HooksAugmented ==
    ASSUME NEW o \in Options, NEW rec, Shape(o, rec), NEW h \in Hooks, h \in Augmented(o)
    PROVE  h \in Filtered
<1>1. SUFFICES ASSUME h \notin Filtered PROVE FALSE
  OBVIOUS
<1>2. PICK u \in Augmented(o) : u # h /\ h \in ToSet(o[u])
  BY <1>1, AugmentedIsLedTo
<1>3. u \in Param
  BY AugmentedIs
<1>4. u = "root"
  BY <1>2, <1>3 DEF Shape
<1>5. "root" \notin Filtered
  BY DEF Filtered
<1>6. PICK v \in Augmented(o) : "root" \in ToSet(o[v])
  BY <1>4, <1>5, AugmentedIsLedTo
<1>7. v \in Param
  BY AugmentedIs
<1> QED
  BY <1>6, <1>7 DEF Shape

\* Where the recursive params are not come by.
Terminates(o, rec) == Augmented(o) \cap rec = {}

LEMMA NoneUsesItself ==
    ASSUME NEW o \in Options, NEW rec, Shape(o, rec), Terminates(o, rec)
    PROVE  \A q \in Augmented(o) : q \notin ToSet(o[q])
<1>1. ASSUME NEW q \in Augmented(o), q \in ToSet(o[q]) PROVE FALSE
  <2>1. q \in Plain
    BY AugmentedIs DEF Expanded, Expands, NoExpand, Plain
  <2>2. q \in rec
    BY <1>1, <2>1 DEF Shape
  <2> QED
    BY <2>2 DEF Terminates
<1> QED
  BY <1>1

LEMMA BuiltWays ==
    ASSUME NEW o \in Options, NEW rec, Shape(o, rec), Ranked(o), Terminates(o, rec)
    PROVE  WaysAreCounted(o)
<1>1. PICK rank : Rising(o, rank)
  BY DEF Ranked
<1>2. \A q \in Augmented(o) : q \notin ToSet(o[q])
  BY NoneUsesItself
<1> QED
  BY <1>1, <1>2, WaysIs

LEMMA PipedIs ==
    ASSUME NEW o \in Options, NEW rec, Shape(o, rec), Ranked(o), Terminates(o, rec)
    PROVE  /\ Extended(o, WithPipes(o))
           /\ \A q \in Param : WithPipes(o)[q] = IF q \in Augmented(o)
                                                 THEN o[q] \o [i \in 1 .. Ways(o)[q] |-> "pipe"]
                                                 ELSE o[q]
<1> DEFINE new == WithPipes(o)
           ways == Ways(o)
<1>1. ways \in [Augmented(o) -> Nat]
  BY BuiltWays DEF WaysAreCounted
<1>2. /\ new = [q \in Param |-> IF q \in DOMAIN ways
                               THEN o[q] \o [i \in 1 .. ways[q] |-> "pipe"] ELSE o[q]]
      /\ DOMAIN ways = Augmented(o)
  BY <1>1 DEF WithPipes
<1> HIDE DEF new, ways
<1>3. \A q \in Param : new[q] = IF q \in Augmented(o)
                               THEN o[q] \o [i \in 1 .. ways[q] |-> "pipe"] ELSE o[q]
  BY <1>2
<1>4. "pipe" \in Plain /\ "pipe" \in Param
  BY ParamIs DEF Plain
<1>5. ASSUME NEW q \in Plain
      PROVE  new[q] \in Seq(Param) /\ \E t \in Seq(Plain) : new[q] = o[q] \o t
  <2>1. o[q] \in Seq(Param) /\ q \in Param
    BY DEF Options, Plain
  <2>2. CASE q \in Augmented(o)
    <3> DEFINE t == [i \in 1 .. ways[q] |-> "pipe"]
    <3>1. ways[q] \in Nat
      BY <1>1, <2>2
    <3>2. t \in Seq(Plain) /\ t \in Seq(Param)
      BY <1>4, <3>1
    <3>3. new[q] = o[q] \o t
      BY <1>3, <2>1, <2>2
    <3> HIDE DEF t
    <3>4. o[q] \o t \in Seq(Param)
      BY <2>1, <3>2, ConcatProperties
    <3> QED
      BY <3>2, <3>3, <3>4
  <2>3. CASE q \notin Augmented(o)
    <3>1. new[q] = o[q]
      BY <1>3, <2>1, <2>3
    <3>2. o[q] \o << >> = o[q]
      BY <2>1, ConcatEmptySeq
    <3>3. << >> \in Seq(Plain)
      OBVIOUS
    <3> QED
      BY <2>1, <3>1, <3>2, <3>3
  <2> QED
    BY <2>2, <2>3
<1>6. \A q \in Negation : new[q] = o[q]
  <2>1. \A q \in Negation : q \in Param /\ q \notin Augmented(o)
    BY AugmentedIs, ParamIs DEF Expanded, Expands, NoExpand
  <2> QED
    BY <1>3, <2>1
<1>7. new \in Options
  <2>1. \A q \in Param : new[q] \in Seq(Param)
    BY <1>5, <1>6, ParamIs DEF Plain, Options
  <2> QED
    BY <1>2, <2>1 DEF Options
<1>8. Extended(o, new)
  BY <1>5, <1>6, <1>7 DEF Extended
<1> QED
  BY <1>3, <1>8 DEF new, ways

\* There is one way to a param that is used in one place, below such.
LEMMA OneWay ==
    ASSUME NEW o \in Options, NEW rec, Shape(o, rec), Ranked(o), Terminates(o, rec),
           NEW p \in Own, p \in Augmented(o), Alone(o, p)
    PROVE  Ways(o)[p] = 1
<1>1. PICK rank : Rising(o, rank)
  BY DEF Ranked
<1> DEFINE ways == Ways(o)
           bad == {q \in Own : q \in Augmented(o) /\ p \in Reached(o, q, Param) /\ ways[q] # 1}
<1>2. /\ ways \in [Augmented(o) -> Nat]
      /\ \A q \in Augmented(o) : ways[q] = IF q \in Filtered THEN 1 ELSE Total(ways, Users(o, q))
  BY BuiltWays DEF WaysAreCounted
<1> HIDE DEF ways
<1>3. bad = {}
  <2>1. SUFFICES ASSUME bad # {} PROVE FALSE
    OBVIOUS
  <2>2. bad \in SUBSET Param /\ rank \in [Param -> Nat]
    BY <1>1, ParamIs DEF Rising
  <2>3. PICK q \in bad : \A y \in Param : rank[y] < rank[q] => y \notin bad
    <3> HIDE DEF bad
    <3> QED
      BY <2>1, <2>2, LeastRank
  <2>4. /\ q \in Own /\ q \in Augmented(o) /\ p \in Reached(o, q, Param) /\ ways[q] # 1
        /\ q \in Param
    BY <2>3, ParamIs
  <2>5. q \notin Filtered
    BY <2>4, ParamIs DEF Filtered, Hooks
  <2>6. PICK u \in Augmented(o) : u # q /\ q \in ToSet(o[u])
    BY <2>4, <2>5, AugmentedIsLedTo
  <2>7. \A v \in Users(o, q) : v \in UsersOf(o, q) \ Negation
    <3>1. \A v \in Augmented(o) : v \in Param /\ v \notin Negation /\ v \notin ToSet(o[v])
      BY AugmentedIs, NoneUsesItself DEF Expanded, Expands, NoExpand
    <3> QED
      BY <3>1 DEF Users, UsersOf
  <2>8. Users(o, q) = {u}
    <3>1. u \in Users(o, q)
      BY <2>6 DEF Users
    <3>2. \A v \in Users(o, q) : v = u
      BY <2>4, <2>7, <3>1, OneUser
    <3> QED
      BY <3>1, <3>2
  <2>9. ways[q] = ways[u]
    BY <1>2, <2>4, <2>5, <2>8, TotalOfOne
  <2>10. u \in Param /\ u \in Expanded /\ u \notin Negation
    BY AugmentedIs DEF Expanded, Expands, NoExpand
  <2>11. u \in Own \cup Branches
    BY <2>4, <2>6, <2>10 DEF Shape
  <2>12. CASE u \in Own
    <3>1. rank[u] < rank[q]
      BY <1>1, <2>6, <2>10 DEF Rising
    <3>2. q \in Reached(o, u, Param)
      BY <2>6, <2>10, ReachedIs DEF Closed
    <3>3. p \in Reached(o, u, Param)
      BY <2>4, <2>10, <3>2, ReachedOn
    <3> QED
      BY <2>3, <2>4, <2>9, <2>10, <2>12, <3>1, <3>3
  <2>13. CASE u \in Branches
    <3>1. u \in Filtered
      BY <2>13, HooksAugmented, ParamIs
    <3> QED
      BY <1>2, <2>4, <2>9, <3>1
  <2> QED
    BY <2>11, <2>12, <2>13
<1>4. p \in Reached(o, p, Param)
  BY ParamIs, ReachedIs
<1> QED
  BY <1>3, <1>4 DEF ways

PipesIn(s) == Cardinality({i \in DOMAIN s : s[i] = "pipe"})

LEMMA OnePipe ==
    ASSUME NEW s \in Seq(Param), "pipe" \notin ToSet(s)
    PROVE  PipesIn(s \o [i \in 1 .. 1 |-> "pipe"]) = 1
<1> DEFINE t == [i \in 1 .. 1 |-> "pipe"]
<1>1. t \in Seq(Param) /\ Len(t) = 1 /\ ToSet(t) = {"pipe"}
  <2>1. "pipe" \in Param
    BY ParamIs
  <2>2. t \in Seq(Param) /\ Len(t) = 1
    BY <2>1
  <2>3. ToSet(t) = {"pipe"}
    BY DEF ToSet
  <2> QED
    BY <2>2, <2>3
<1> HIDE DEF t
<1>2. /\ s \o t \in Seq(Param) /\ Len(s \o t) = Len(s) + Len(t)
      /\ ToSet(s \o t) = ToSet(s) \cup ToSet(t)
      /\ DOMAIN s = 1 .. Len(s) /\ DOMAIN (s \o t) = 1 .. Len(s) + Len(t) /\ Len(s) \in Nat
      /\ \A i \in 1 .. Len(s) : (s \o t)[i] = s[i]
      /\ \A i \in Len(s) + 1 .. Len(s) + Len(t) : (s \o t)[i] \in ToSet(t)
  <2>1. t \in Seq(Param)
    BY <1>1
  <2> QED
    BY <2>1, Joined, ConcatProperties
<1> DEFINE l == Len(s)
<1>3. /\ l \in Nat /\ DOMAIN (s \o t) = 1 .. l + 1 /\ (\A i \in 1 .. l : (s \o t)[i] # "pipe")
      /\ (s \o t)[l + 1] = "pipe"
  <2>1. \A i \in 1 .. l : s[i] # "pipe"
    BY <1>2 DEF ToSet
  <2>2. l + 1 \in l + 1 .. l + Len(t) /\ l + Len(t) = l + 1
    BY <1>1, <1>2
  <2> QED
    BY <1>1, <1>2, <2>1, <2>2
<1> HIDE DEF l
<1>4. {i \in DOMAIN (s \o t) : (s \o t)[i] = "pipe"} = {l + 1}
  <2>1. \A i \in 1 .. l + 1 : i \in 1 .. l \/ i = l + 1
    BY <1>3
  <2>2. l + 1 \in 1 .. l + 1
    BY <1>3
  <2> QED
    BY <1>3, <2>1, <2>2
<1>5. PipesIn(s \o t) = 1
  BY <1>4, FS_Singleton DEF PipesIn
<1> QED
  BY <1>5 DEF t

EndsWithNegation(o) == \A n \in ToSet(o["config"]) \cap Negation : o["config"][Len(o["config"])] = n
PipedOnce(o) == \A p \in Own \cap Augmented(o) : Alone(o, p) => PipesIn(o[p]) = 1

\* libcli_init_done.
LEMMA BuiltIs ==
    ASSUME NEW o \in Options, NEW par, NEW b, NEW rec, Building(o, par, b, rec),
           Terminates(o, rec), ToSet(o["config"]) \cap Negation = {},
           NEW n \in Negation, UsersOf(o, n) = {}
    PROVE  LET new == Negated(WithPipes(o), "config", n) IN
           /\ new \in Options /\ NegationOnce(new) /\ NegationCopies(new)
           /\ EndsWithNegation(new) /\ PipedOnce(new)
<1> DEFINE piped == WithPipes(o)
           new == Negated(piped, "config", n)
<1>1. /\ Shape(o, rec) /\ Ranked(o) /\ NegationOnce(o) /\ NegationCopies(o)
      /\ "config" \in Plain /\ "config" \in Param /\ n \in Param /\ n # "config" /\ "config" \notin Own
      /\ n \notin Own
  BY ParamIs DEF Building, Plain, Hooks
<1>2. /\ Extended(o, piped)
      /\ \A q \in Param : piped[q] = IF q \in Augmented(o)
                                     THEN o[q] \o [i \in 1 .. Ways(o)[q] |-> "pipe"] ELSE o[q]
  BY <1>1, PipedIs
<1> HIDE DEF piped
<1>3. piped \in Options /\ NegationOnce(piped) /\ NegationCopies(piped)
  BY <1>1, <1>2, ExtendedKeepsNegations DEF Extended
<1>4. ASSUME NEW q \in Param
      PROVE  /\ ToSet(o[q]) \subseteq ToSet(piped[q])
             /\ ToSet(piped[q]) \subseteq ToSet(o[q]) \cup {"pipe"}
  <2>1. CASE q \in Augmented(o)
    <3> DEFINE t == [i \in 1 .. Ways(o)[q] |-> "pipe"]
               s == o[q]
    <3>1. Ways(o)[q] \in Nat
      BY <1>1, <2>1, BuiltWays DEF WaysAreCounted
    <3>2. t \in Seq(Param) /\ ToSet(t) \subseteq {"pipe"}
      <4>1. "pipe" \in Param
        BY ParamIs
      <4> QED
        BY <3>1, <4>1 DEF ToSet
    <3>3. s \in Seq(Param)
      BY DEF Options
    <3>4. piped[q] = s \o t
      BY <1>2, <2>1
    <3> HIDE DEF s, t
    <3>5. t \in Seq(Param)
      BY <3>2
    <3>6. ToSet(s \o t) = ToSet(s) \cup ToSet(t)
      BY <3>3, <3>5, Joined
    <3> QED
      BY <3>2, <3>4, <3>6 DEF s
  <2>2. CASE q \notin Augmented(o)
    BY <1>2, <2>2
  <2> QED
    BY <2>1, <2>2
<1>5. \A q \in Param : n \notin ToSet(piped[q])
  <2>1. n # "pipe"
    BY ParamIs
  <2>2. \A q \in Param : n \notin ToSet(o[q])
    BY <1>1 DEF UsersOf, NegationOnce
  <2> QED
    BY <1>4, <2>1, <2>2
<1>6. ToSet(piped["config"]) \cap Negation = {}
  BY <1>1, <1>4, ParamIs
<1>7. /\ new \in Options /\ NegationOnce(new) /\ NegationCopies(new)
      /\ new["config"] = piped["config"] \o <<n>> /\ new[n] = piped["config"]
      /\ \A q \in Param \ {"config", n} : new[q] = piped[q]
      /\ new["config"][Len(new["config"])] = n
  <2>1. PICK c \in Plain : c = "config"
    BY <1>1
  <2>2. LET more == Negated(piped, c, n) IN
        /\ more \in Options /\ NegationOnce(more) /\ NegationCopies(more)
        /\ more[c] = piped[c] \o <<n>> /\ more[n] = piped[c]
        /\ \A q \in Param \ {c, n} : more[q] = piped[q]
        /\ Len(more[c]) = Len(piped[c]) + 1 /\ more[c][Len(more[c])] = n
    BY <1>3, <1>5, <1>6, <2>1, NegatedKeepsNegations
  <2> QED
    BY <2>1, <2>2
<1> HIDE DEF new
<1>8. ToSet(new["config"]) = ToSet(piped["config"]) \cup {n}
  <2> DEFINE t == <<n>>
             s == piped["config"]
  <2>1. s \in Seq(Param) /\ t \in Seq(Param)
    BY <1>1, <1>3 DEF Options
  <2>2. ToSet(t) = {n}
    BY TupleOfOne
  <2>3. new["config"] = s \o t
    BY <1>7
  <2> HIDE DEF s, t
  <2>4. ToSet(s \o t) = ToSet(s) \cup ToSet(t)
    BY <2>1, Joined
  <2> QED
    BY <2>2, <2>3, <2>4 DEF s
<1>9. EndsWithNegation(new)
  BY <1>6, <1>7, <1>8 DEF EndsWithNegation
<1>10. ToSet(o[n]) = {}
  <2>1. \A q \in Param : n \notin ToSet(o[q])
    BY <1>1 DEF UsersOf, NegationOnce
  <2>2. o[n] = << >>
    BY <1>1, <2>1 DEF NegationOnce
  <2> QED
    BY <2>2 DEF ToSet
<1>11. Grows(o, new)
  BY <1>4, <1>7, <1>8, <1>10 DEF Grows
<1>12. Augmented(new) \subseteq Augmented(o)
  <2> SUFFICES ASSUME NEW q \in Augmented(new) PROVE q \in Augmented(o)
    OBVIOUS
  <2>1. PICK h \in Filtered : q \in Reached(new, h, Expanded)
    BY DEF Augmented
  <2>2. q \in Expanded /\ h \in Param /\ h \in Augmented(o)
    BY <1>7, AugmentedIs
  <2> DEFINE s == Augmented(o) \cup NoExpand
  <2>3. Closed(new, Expanded, s)
    <3> SUFFICES ASSUME NEW u \in s, u \in Expanded, NEW v \in ToSet(new[u]) PROVE v \in s
      BY DEF Closed
    <3>1. u \in Augmented(o) /\ u \in Param /\ u # n
      BY DEF Expanded, Expands, NoExpand
    <3>2. v \in ToSet(o[u]) \cup {"pipe", n}
      BY <1>4, <1>7, <1>8, <3>1
    <3>3. CASE v \in {"pipe", n}
      BY <3>3 DEF NoExpand
    <3>4. CASE v \in ToSet(o[u])
      <4>1. v \in Param
        BY <3>1, <3>4, OptionIsParam
      <4>2. v \in Expanded => v \in Augmented(o)
        BY <3>1, <3>4, AugmentedIs
      <4> QED
        BY <4>1, <4>2 DEF Expanded, Expands
    <3> QED
      BY <3>2, <3>3, <3>4
  <2>4. q \in s
    <3>1. h \in s
      BY <2>2
    <3> HIDE DEF s
    <3> QED
      BY <1>7, <2>1, <2>2, <2>3, <3>1, ReachedIs
  <2> QED
    BY <2>2, <2>4 DEF Expanded, Expands
<1>13. PipedOnce(new)
  <2> SUFFICES ASSUME NEW p \in Own, p \in Augmented(new), Alone(new, p) PROVE PipesIn(new[p]) = 1
    BY DEF PipedOnce
  <2>1. p \in Augmented(o) /\ Alone(o, p) /\ p \in Param
    BY <1>7, <1>11, <1>12, AloneBefore, ParamIs
  <2>2. Ways(o)[p] = 1
    BY <1>1, <2>1, OneWay
  <2>3. new[p] = o[p] \o [i \in 1 .. 1 |-> "pipe"]
    BY <1>1, <1>2, <1>7, <2>1, <2>2
  <2>4. o[p] \in Seq(Param) /\ "pipe" \notin ToSet(o[p])
    BY <1>1, <2>1, ParamIs DEF Options, Shape
  <2> QED
    BY <2>3, <2>4, OnePipe
<1> QED
  BY <1>7, <1>9, <1>13 DEF new, piped

-----------------------------------------------------------------------------
(* The tree at the start.                                                  *)

LibraryOptions(u) ==
    IF u \in DefaultNodes THEN DefaultOptions(u)
    ELSE IF u \in FilterNodes THEN FilterOptions(u) ELSE {}

\* How deep below the root, or below the first pipe, a param of the library is.
Depth(p) ==
    IF p = "root" THEN 0
    ELSE IF p \in Hooks \cup {"count", "save", "include", "exclude", "grep", "refresh"} THEN 1
    ELSE IF p \in {"help", "history", "host_name", "ut", "term", "debug_ut", "save_file", "incl",
                   "excl", "pattern", "refresh_val"} THEN 2
    ELSE IF p \in {"name", "file", "enable"} THEN 3 ELSE 4

LEMMA DefaultEdges ==
    \A u \in DefaultNodes :
      /\ u \notin DefaultOptions(u) /\ "root" \notin DefaultOptions(u)
      /\ DefaultOptions(u) \cap Hooks # {} => u = "root"
      /\ \A v \in DefaultOptions(u) : Depth(u) < Depth(v)
<1> DEFINE P(u) == /\ u \notin DefaultOptions(u) /\ "root" \notin DefaultOptions(u)
                   /\ DefaultOptions(u) \cap Hooks # {} => u = "root"
                   /\ \A v \in DefaultOptions(u) : Depth(u) < Depth(v)
<1>1. P("root")
  BY DEF DefaultOptions, Hooks, Depth
<1>2. P("show")
  BY DEF DefaultOptions, Hooks, Depth
<1>3. P("config")
  BY DEF DefaultOptions, Hooks, Depth
<1>4. P("host_name")
  BY DEF DefaultOptions, Hooks, Depth
<1>5. P("run")
  BY DEF DefaultOptions, Hooks, Depth
<1>6. P("ut")
  BY DEF DefaultOptions, Hooks, Depth
<1>7. P("file")
  BY DEF DefaultOptions, Hooks, Depth
<1>8. P("debug")
  BY DEF DefaultOptions, Hooks, Depth
<1>9. P("debug_ut")
  BY DEF DefaultOptions, Hooks, Depth
<1> HIDE DEF P
<1>10. \A u \in DefaultNodes : P(u)
  BY <1>1, <1>2, <1>3, <1>4, <1>5, <1>6, <1>7, <1>8, <1>9 DEF DefaultNodes
<1> QED
  BY <1>10 DEF P

LEMMA FilterEdges ==
    \A u \in FilterNodes :
      /\ u \notin FilterOptions(u) /\ "root" \notin FilterOptions(u)
      /\ FilterOptions(u) \cap Hooks = {}
      /\ u # "pipe" => \A v \in FilterOptions(u) : Depth(u) < Depth(v)
<1> DEFINE P(u) == /\ u \notin FilterOptions(u) /\ "root" \notin FilterOptions(u)
                   /\ FilterOptions(u) \cap Hooks = {}
                   /\ u # "pipe" => \A v \in FilterOptions(u) : Depth(u) < Depth(v)
<1>1. P("pipe")
  BY DEF FilterOptions, Hooks, Depth
<1>2. P("save")
  BY DEF FilterOptions, Hooks, Depth
<1>3. P("include")
  BY DEF FilterOptions, Hooks, Depth
<1>4. P("incl")
  BY DEF FilterOptions, Hooks, Depth
<1>5. P("exclude")
  BY DEF FilterOptions, Hooks, Depth
<1>6. P("excl")
  BY DEF FilterOptions, Hooks, Depth
<1>7. P("grep")
  BY DEF FilterOptions, Hooks, Depth
<1>8. P("pattern")
  BY DEF FilterOptions, Hooks, Depth
<1>9. P("refresh")
  BY DEF FilterOptions, Hooks, Depth
<1>10. P("refresh_val")
  BY DEF FilterOptions, Hooks, Depth
<1> HIDE DEF P
<1>11. \A u \in FilterNodes : P(u)
  BY <1>1, <1>2, <1>3, <1>4, <1>5, <1>6, <1>7, <1>8, <1>9, <1>10 DEF FilterNodes
<1> QED
  BY <1>11 DEF P

LEMMA StartIs ==
    ASSUME Init
    PROVE  /\ options \in Options
           /\ \A u \in Param : ToSet(options[u]) = LibraryOptions(u) /\ LibraryOptions(u) \subseteq Library
           /\ \A n \in Negation : options[n] = << >>
<1>1. options = [p \in Param |-> IF p \in DOMAIN DefaultTree THEN DefaultTree[p]
                                ELSE IF p \in DOMAIN FilterTree THEN FilterTree[p] ELSE << >>]
  BY DEF Init
<1>2. \A p \in Param : options[p] = IF p \in DefaultNodes THEN DefaultTree[p]
                                    ELSE IF p \in FilterNodes THEN FilterTree[p] ELSE << >>
  BY <1>1, DefaultTreeIs, FilterTreeIs
<1>3. InTree(DefaultTree) \subseteq Param /\ InTree(FilterTree) \subseteq Param
  BY DEF Param
<1>4. ToSet(<< >>) = {} /\ << >> \in Seq(Param)
  BY DEF ToSet
<1>5. \A u \in Param : ToSet(options[u]) = LibraryOptions(u)
  BY <1>2, <1>4, DefaultTreeIs, FilterTreeIs DEF LibraryOptions
<1>6. \A u \in Param : options[u] \in Seq(Param)
  <2>1. \A u \in DefaultNodes : DefaultTree[u] \in Seq(Param)
    BY <1>3, DefaultTreeIs, SeqMonotonic
  <2>2. \A u \in FilterNodes : FilterTree[u] \in Seq(Param)
    BY <1>3, FilterTreeIs, SeqMonotonic
  <2> QED
    BY <1>2, <1>4, <2>1, <2>2
<1>7. options \in Options
  BY <1>1, <1>6 DEF Options
<1>8. \A n \in Negation : options[n] = << >>
  <2>1. \A n \in Negation : n \in Param /\ n \notin DefaultNodes /\ n \notin FilterNodes
    BY ParamIs, LibraryIs
  <2> QED
    BY <1>2, <2>1
<1>9. \A u \in Param : LibraryOptions(u) \subseteq Library
  <2>1. \A u \in DefaultNodes : DefaultOptions(u) \subseteq Library
    BY DefaultTreeIs DEF Library, InTree
  <2>2. \A u \in FilterNodes : FilterOptions(u) \subseteq Library
    BY FilterTreeIs DEF Library, InTree
  <2> QED
    BY <2>1, <2>2 DEF LibraryOptions
<1> QED
  BY <1>5, <1>7, <1>8, <1>9

LEMMA StartIsBuilding == Init => Building(options, parent, batch, recursive)
<1> SUFFICES ASSUME Init PROVE Building(options, parent, batch, recursive)
  OBVIOUS
<1>1. /\ options \in Options
      /\ \A u \in Param : ToSet(options[u]) = LibraryOptions(u) /\ LibraryOptions(u) \subseteq Library
      /\ \A n \in Negation : options[n] = << >>
  BY StartIs
<1>2. \A u \in Param : /\ u \notin LibraryOptions(u) /\ "root" \notin LibraryOptions(u)
                       /\ LibraryOptions(u) \cap Hooks # {} => u = "root"
  BY DefaultEdges, FilterEdges DEF LibraryOptions
<1>3. \A u \in Param : u # "pipe" => \A v \in LibraryOptions(u) : Depth(u) < Depth(v)
  BY DefaultEdges, FilterEdges DEF LibraryOptions
<1>4. \A n \in Negation : \A p \in Param : n \notin ToSet(options[p])
  BY <1>1, ParamIs
<1>5. NegationOnce(options)
  <2>1. \A n \in Negation : n \in Param
    BY ParamIs
  <2>2. \A p \in Param : \A i \in DOMAIN options[p] : options[p][i] \in ToSet(options[p])
    BY DEF ToSet
  <2> QED
    BY <1>1, <1>4, <2>1, <2>2 DEF NegationOnce
<1>6. NegationCopies(options)
  <2>1. \A p \in Param : \A i \in DOMAIN options[p] : options[p][i] \in ToSet(options[p])
    BY DEF ToSet
  <2> QED
    BY <1>4, <2>1 DEF NegationCopies
<1>7. Shape(options, recursive)
  <2>1. \A p \in Own : p \in Param /\ LibraryOptions(p) = {}
    BY ParamIs, LibraryIs DEF LibraryOptions
  <2>2. \A u \in Param : ToSet(options[u]) \cap Own = {}
    BY <1>1, ParamIs
  <2> QED
    BY <1>1, <1>2, <2>1, <2>2 DEF Shape, Plain
<1>8. ParentsLead(options, parent)
  <2> SUFFICES ASSUME NEW q \in Param, parent[q] # NULL
               PROVE  parent[q] \in Expanded /\ parent[q] # q /\ q \in ToSet(options[parent[q]])
    BY DEF ParentsLead
  <2>1. parent[q] = IF Parents(DefaultTree, q) = {} THEN NULL
                    ELSE CHOOSE u \in Parents(DefaultTree, q) : TRUE
    BY DEF Init
  <2>2. parent[q] \in Parents(DefaultTree, q)
    BY <2>1
  <2>3. parent[q] \in DefaultNodes /\ q \in DefaultOptions(parent[q])
    BY <2>2, DefaultTreeIs DEF Parents
  <2>4. parent[q] \in Param /\ parent[q] # "pipe" /\ parent[q] \notin Negation
    BY <2>3, ParamIs, LibraryIs DEF DefaultNodes
  <2>5. q \in ToSet(options[parent[q]])
    BY <1>1, <2>3, <2>4 DEF LibraryOptions
  <2> QED
    BY <2>3, <2>4, <2>5, DefaultEdges DEF Expanded, Expands, NoExpand
<1>9. Ranked(options)
  <2> DEFINE depth == [p \in Param |-> Depth(p)]
  <2>1. depth \in [Param -> Nat]
    BY DEF Depth
  <2>2. ASSUME NEW u \in Expanded, NEW v \in ToSet(options[u]) PROVE depth[u] < depth[v]
    <3>1. u \in Param /\ u # "pipe" /\ v \in LibraryOptions(u) /\ v \in Param
      BY <1>1, OptionIsParam DEF Expanded, Expands, NoExpand
    <3> QED
      BY <1>3, <3>1
  <2> HIDE DEF depth
  <2>3. Rising(options, depth)
    BY <2>1, <2>2 DEF Rising
  <2> QED
    BY <2>3 DEF Ranked
<1>10. Free(options) # {}
  <2>1. PICK n \in Negation : TRUE
    BY TreeBuildAssumption DEF TreeBuildAssumption
  <2>2. UsersOf(options, n) = {}
    BY <1>4 DEF UsersOf
  <2> QED
    BY <2>2 DEF Free
<1>11. batch = {}
  BY DEF Init
<1> QED
  BY <1>5, <1>6, <1>7, <1>8, <1>9, <1>10, <1>11 DEF Building, BatchClosed

-----------------------------------------------------------------------------
(* The invariant.                                                          *)

Typed ==
    /\ options \in Options /\ parent \in [Param -> Param \cup {NULL}] /\ batch \in SUBSET Plain
TreeInv ==
    /\ NegationOnce(options) /\ NegationCopies(options)
    /\ stage = "building" => Building(options, parent, batch, recursive)
    /\ stage = "built" => EndsWithNegation(options) /\ PipedOnce(options)
Inv == Typed /\ TreeInv

LEMMA InitInv == Init => Inv
<1> SUFFICES ASSUME Init PROVE Inv
  OBVIOUS
<1>1. Building(options, parent, batch, recursive) /\ options \in Options
  BY StartIs, StartIsBuilding
<1>2. parent \in [Param -> Param \cup {NULL}]
  <2>1. \A p : Parents(DefaultTree, p) \subseteq Param
    BY DEF Parents, Param, InTree
  <2>2. parent = [p \in Param |-> IF Parents(DefaultTree, p) = {} THEN NULL
                                 ELSE CHOOSE q \in Parents(DefaultTree, p) : TRUE]
    BY DEF Init
  <2>3. \A p \in Param : (IF Parents(DefaultTree, p) = {} THEN NULL
                          ELSE CHOOSE q \in Parents(DefaultTree, p) : TRUE) \in Param \cup {NULL}
    BY <2>1
  <2> QED
    BY <2>2, <2>3
<1>3. batch = {} /\ stage = "building"
  BY DEF Init
<1> QED
  BY <1>1, <1>2, <1>3 DEF Inv, Typed, TreeInv, Building

LEMMA StopKeepsInv == ASSUME Inv, NEW how \in {"aborted", "crashed"}, Stop(how) PROVE Inv'
<1>1. /\ options' = options /\ parent' = parent /\ batch' = batch /\ recursive' = recursive
      /\ stage' # "building" /\ stage' # "built"
  BY DEF Stop
<1> QED
  BY <1>1 DEF Inv, Typed, TreeInv

LEMMA RegisterKeepsInv ==
    ASSUME Inv, NEW p \in Own \cup Branches, NEW c \in Own, libcli_register_param(p, c)
    PROVE  Inv'
<1>1. CASE (p \in recursive /\ c \in Leaf) \/ IsFull(p)
  BY <1>1, StopKeepsInv DEF libcli_register_param
<1>2. CASE ~((p \in recursive /\ c \in Leaf) \/ IsFull(p))
  <2>1. /\ stage = "building" /\ c \notin ToSet(options[p]) /\ p \notin Reached(options, c, Param)
        /\ options' = OneMore(options, p, c) /\ parent' = [parent EXCEPT ![c] = p]
        /\ batch' = batch /\ recursive' = recursive /\ stage' = stage
    BY <1>2 DEF libcli_register_param, MayCall, Has, Below, OneMore
  <2>2. options' \in Options /\ Building(options', parent', batch', recursive')
    BY <2>1, Registered DEF Inv, Typed, TreeInv
  <2>3. parent' \in [Param -> Param \cup {NULL}]
    <3>1. p \in Param
      BY ParamIs
    <3> QED
      BY <2>1, <3>1 DEF Inv, Typed
  <2>4. batch' \in SUBSET Plain
    BY <2>1 DEF Inv, Typed
  <2> QED
    BY <2>1, <2>2, <2>3, <2>4 DEF Inv, Typed, TreeInv, Building
<1> QED
  BY <1>1, <1>2

LEMMA RecursiveKeepsInv ==
    ASSUME Inv, NEW p \in Own, libcli_param_recursive(p)
    PROVE  Inv'
<1>1. CASE IsFull(p)
  BY <1>1, StopKeepsInv DEF libcli_param_recursive
<1>2. CASE ~IsFull(p)
  <2>1. /\ stage = "building" /\ options' = OneMore(options, p, p) /\ parent' = parent
        /\ batch' = batch /\ recursive' = recursive \cup {p} /\ stage' = stage
    BY <1>2 DEF libcli_param_recursive, MayCall, OneMore
  <2>2. options' \in Options /\ Building(options', parent', batch', recursive')
    BY <2>1, Recursed DEF Inv, Typed, TreeInv
  <2> QED
    BY <2>1, <2>2 DEF Inv, Typed, TreeInv, Building
<1> QED
  BY <1>1, <1>2

LEMMA UnusedIsFree == Unused = Free(options)
BY DEF Unused, Free, Uses, UsersOf, Has

LEMMA NegateKeepsInv ==
    ASSUME Inv, NEW p \in Own \cup Branches, libcli_support_cmd_negation(p)
    PROVE  Inv'
<1>1. CASE NegationOf(p) # {} \/ IsFull(p)
  BY <1>1, StopKeepsInv DEF libcli_support_cmd_negation
<1>2. CASE ~(NegationOf(p) # {} \/ IsFull(p))
  <2> DEFINE n == Allocated
  <2>1. /\ stage = "building" /\ options' = Negated(options, p, n) /\ parent' = parent
        /\ batch' = batch /\ recursive' = recursive /\ stage' = stage
        /\ ToSet(options[p]) \cap Negation = {} /\ Cardinality(Unused) > 1
    BY <1>2 DEF libcli_support_cmd_negation, MayCall, NegationOf
  <2>2. Building(options, parent, batch, recursive)
    BY <2>1 DEF Inv, TreeInv
  <2>3. n \in Free(options)
    BY <2>2, UnusedIsFree DEF Allocated, Building
  <2>4. Free(options) # {n}
    <3>1. Cardinality({n}) = 1
      BY FS_Singleton
    <3> QED
      BY <2>1, <3>1, UnusedIsFree
  <2> HIDE DEF n
  <2>5. n \in Negation /\ UsersOf(options, n) = {}
    BY <2>3 DEF Free
  <2>6. options' \in Options /\ Building(options', parent', batch', recursive')
    BY <2>1, <2>2, <2>4, <2>5, NegatedIsBuilding DEF Inv, Typed
  <2> QED
    BY <2>1, <2>6 DEF Inv, Typed, TreeInv, Building
<1> QED
  BY <1>1, <1>2

LEMMA HandlerKeepsInv ==
    ASSUME Inv, NEW p \in Own, libcli_register_cmd_handler(p)
    PROVE  Inv'
<1>1. CASE handlers[p] = CALLBACKS_N
  BY <1>1, StopKeepsInv DEF libcli_register_cmd_handler
<1>2. CASE handlers[p] # CALLBACKS_N
  <2>1. UNCHANGED <<options, parent, batch, recursive, stage>>
    BY <1>2 DEF libcli_register_cmd_handler
  <2> QED
    BY <2>1 DEF Inv, Typed, TreeInv
<1> QED
  BY <1>1, <1>2

LEMMA TailKeepsInv ==
    ASSUME Inv, NEW p \in Own, libcli_set_tail_config_batch_processing(p)
    PROVE  Inv'
<1> DEFINE up == Ancestry(p)
           last == {i \in DOMAIN up : Stops(up[i])}
           m == Min(last)
<1>1. CASE last = {}
  BY <1>1, StopKeepsInv DEF libcli_set_tail_config_batch_processing
<1>2. CASE last # {}
  <2>1. /\ stage = "building" /\ options' = options /\ parent' = parent
        /\ batch' = WithTail(batch, up, m)
        /\ recursive' = recursive /\ stage' = stage
    BY <1>2 DEF libcli_set_tail_config_batch_processing, MayCall, WithTail
  <2>2. Building(options, parent, batch, recursive)
    BY <2>1 DEF Inv, TreeInv
  <2>3. Chain(up, p, parent)
    BY <2>2, AncestryIs, ParamIs DEF Inv, Typed, Building
  <2> HIDE DEF up
  <2>4. DOMAIN up = 1 .. Len(up) /\ Len(up) \in Nat
    BY <2>3, LenProperties DEF Chain
  <2>5. m \in last
    <3>1. last \in SUBSET Nat
      BY <2>4
    <3> HIDE DEF last
    <3>2. PICK i \in last : \A j \in last : i <= j
      BY <1>2, <3>1, LeastNat
    <3> QED
      BY <3>2 DEF Min
  <2> HIDE DEF m
  <2>6. m \in 1 .. Len(up) /\ (up[m] = "config" \/ up[m] \in batch)
    BY <2>4, <2>5 DEF Stops
  <2>7. batch' \in SUBSET Plain /\ Building(options, parent, batch', recursive)
    <3>1. m \in 1 .. Len(up)
      BY <2>6
    <3>2. up[m] = "config" \/ up[m] \in batch
      BY <2>6
    <3>3. options \in Options /\ parent \in [Param -> Param \cup {NULL}] /\ batch \in SUBSET Plain
      BY DEF Inv, Typed
    <3>4. LET more == WithTail(batch, up, m) IN
          /\ more \in SUBSET Plain /\ Building(options, parent, more, recursive)
      BY <2>2, <2>3, <3>1, <3>2, <3>3, TailIsBuilding
    <3> QED
      BY <2>1, <3>4
  <2> QED
    BY <2>1, <2>7 DEF Inv, Typed, TreeInv
<1> QED
  BY <1>1, <1>2

LEMMA InitDoneKeepsInv == ASSUME Inv, libcli_init_done PROVE Inv'
<1> DEFINE full == {q \in Param : Len(WithPipes(options)[q]) > MAX_OPTION_SIZE}
           aborts == full # {} \/ NegationOf("config") # {} \/ IsFull("config")
<1>1. stage = "building" /\ Building(options, parent, batch, recursive)
  BY DEF Inv, TreeInv, libcli_init_done
<1>2. CASE Augmented(options) \cap recursive # {}
  BY <1>2, StopKeepsInv DEF libcli_init_done
<1>3. CASE Augmented(options) \cap recursive = {} /\ aborts
  BY <1>3, StopKeepsInv DEF libcli_init_done
<1>4. CASE Augmented(options) \cap recursive = {} /\ ~aborts
  <2> DEFINE n == Allocated
  <2>1. /\ options' = Negated(WithPipes(options), "config", n) /\ stage' = "built" /\ batch' = batch
        /\ parent' = [q \in Param |-> IF q \in CleanedUp(options') THEN NULL ELSE parent[q]]
    BY <1>4 DEF libcli_init_done
  <2>2. n \in Free(options)
    BY <1>1, UnusedIsFree DEF Allocated, Building
  <2> HIDE DEF n
  <2>3. n \in Negation /\ UsersOf(options, n) = {}
    BY <2>2 DEF Free
  <2>4. ToSet(options["config"]) \cap Negation = {} /\ Terminates(options, recursive)
    BY <1>4 DEF NegationOf, Terminates
  <2>5. /\ options' \in Options /\ NegationOnce(options') /\ NegationCopies(options')
        /\ EndsWithNegation(options') /\ PipedOnce(options')
    BY <1>1, <2>1, <2>3, <2>4, BuiltIs DEF Inv, Typed
  <2>6. parent' \in [Param -> Param \cup {NULL}]
    BY <2>1 DEF Inv, Typed
  <2> QED
    BY <2>1, <2>5, <2>6 DEF Inv, Typed, TreeInv
<1> QED
  BY <1>2, <1>3, <1>4

LEMMA NextKeepsInv == Inv /\ [Next]_vars => Inv'
<1> SUFFICES ASSUME Inv, [Next]_vars PROVE Inv'
  OBVIOUS
<1>1. ASSUME NEW p \in Own \cup Branches, NEW c \in Own, libcli_register_param(p, c) PROVE Inv'
  BY <1>1, RegisterKeepsInv
<1>2. ASSUME NEW p \in Own \cup Branches, libcli_support_cmd_negation(p) PROVE Inv'
  BY <1>2, NegateKeepsInv
<1>3. ASSUME NEW p \in Own, libcli_param_recursive(p) PROVE Inv'
  BY <1>3, RecursiveKeepsInv
<1>4. ASSUME NEW p \in Own, libcli_register_cmd_handler(p) PROVE Inv'
  BY <1>4, HandlerKeepsInv
<1>5. ASSUME NEW p \in Own, libcli_set_tail_config_batch_processing(p) PROVE Inv'
  BY <1>5, TailKeepsInv
<1>6. CASE libcli_init_done
  BY <1>6, InitDoneKeepsInv
<1>7. CASE UNCHANGED vars
  BY <1>7 DEF vars, Inv, Typed, TreeInv
<1> QED
  BY <1>1, <1>2, <1>3, <1>4, <1>5, <1>6, <1>7 DEF Next

\* The invariant holds of every tree that the calls of a program can build.
THEOREM TreeIsBuilt == Spec => []Inv
<1>1. Init => Inv
  BY InitInv
<1>2. Inv /\ [Next]_vars => Inv'
  BY NextKeepsInv
<1> QED
  BY <1>1, <1>2, PTL DEF Spec

\* The negation of a param leads where the param led when it was negated, and that
\* of config everywhere: libcli_support_cmd_negation and libcli_init_done.
THEOREM NegationsMirror == Spec => []NegationMirrors
<1>1. Inv => NegationMirrors
  <2> SUFFICES ASSUME Inv, NEW p \in Param, NEW n \in NegationOf(p)
               PROVE  LET i == CHOOSE j \in DOMAIN options[p] : options[p][j] = n IN
                      /\ options[n] = SubSeq(options[p], 1, i - 1)
                      /\ stage = "built" /\ p = "config" => i = Len(options[p])
    BY DEF NegationMirrors
  <2> DEFINE i == CHOOSE j \in DOMAIN options[p] : options[p][j] = n
  <2>1. n \in Negation /\ n \in ToSet(options[p])
    BY DEF NegationOf
  <2>2. i \in DOMAIN options[p] /\ options[p][i] = n
    BY <2>1 DEF ToSet
  <2> HIDE DEF i
  <2>3. options[n] = SubSeq(options[p], 1, i - 1)
    BY <2>1, <2>2 DEF Inv, TreeInv, NegationCopies
  <2>4. ASSUME stage = "built", p = "config" PROVE i = Len(options[p])
    <3>1. options[p][Len(options[p])] = n
      BY <2>1, <2>4 DEF Inv, TreeInv, EndsWithNegation
    <3>2. DOMAIN options[p] = 1 .. Len(options[p]) /\ Len(options[p]) \in Nat
      BY LenProperties DEF Inv, Typed, Options
    <3>3. Len(options[p]) \in DOMAIN options[p]
      BY <2>2, <3>2
    <3> QED
      BY <2>1, <2>2, <3>1, <3>3 DEF Inv, TreeInv, NegationOnce
  <2> QED
    BY <2>3, <2>4 DEF i
<1> QED
  BY <1>1, TreeIsBuilt, PTL

LEMMA InOnePlaceIsAlone == \A p : InOnePlace(p) <=> Alone(options, p)
BY DEF InOnePlace, Alone, Below, Uses, UsersOf, Has

\* The output of a show or debug command that is used in one place can be filtered,
\* by one pipe: libcli_augment_cmd_tree_with_filters.
THEOREM PipesEverywhereOnce == Spec => []PipeEverywhereOnce
<1>1. Inv => PipeEverywhereOnce
  <2> SUFFICES ASSUME Inv, stage = "built", NEW p \in Own \cap Augmented(options), InOnePlace(p)
               PROVE  Pipes(p) = 1
    BY DEF PipeEverywhereOnce
  <2>1. PipedOnce(options) /\ Alone(options, p)
    BY InOnePlaceIsAlone DEF Inv, TreeInv
  <2> QED
    BY <2>1 DEF PipedOnce, PipesIn, Pipes
<1> QED
  BY <1>1, TreeIsBuilt, PTL

\* With a param that is used in one place every one above it with a handler is in
\* the batch: libcli_set_tail_config_batch_processing.
THEOREM BatchesGoUp == Spec => []BatchGoesUp
<1>1. Inv => BatchGoesUp
  <2> SUFFICES ASSUME Inv, stage = "building", NEW p \in batch, InOnePlace(p),
                      NEW a \in Own, p \in Below(a)
               PROVE  a \in batch
    BY DEF BatchGoesUp
  <2>1. BatchClosed(options, batch) /\ Alone(options, p)
    BY InOnePlaceIsAlone DEF Inv, TreeInv, Building
  <2> QED
    BY <2>1 DEF BatchClosed, Below
<1> QED
  BY <1>1, TreeIsBuilt, PTL
=============================================================================
