--------------------------- MODULE UtParser_proofs ---------------------------
(***************************************************************************)
(* What holds of the filters for any lines and patterns, chains of any     *)
(* length and output of any size, and of the test runner for scripts of    *)
(* any length with them.  The hypotheses exclude what fails (see           *)
(* SaveNamedCount, UtOperational and UtConfigOutput in README.md): a file  *)
(* named count, an operational command without show in a script, and a     *)
(* config command that prints.                                             *)
(***************************************************************************)
EXTENDS UtParser, SequenceTheorems, NaturalsInduction, WellFoundedInduction, FiniteSetTheorems,
        TLAPS

-----------------------------------------------------------------------------
(* Recursion, along the numbers and along a rank (as in TreeBuild_proofs). *)

Less == {ss \in Nat \X Nat : ss[1] < ss[2]}

LEMMA LeastNat == ASSUME NEW T \in SUBSET Nat, T # {} PROVE \E m \in T : \A n \in T : m <= n
<1>1. IsWellFoundedOn(Less, Nat)
  BY NatLessThanWellFounded DEF OpToRel, Less
<1>2. PICK m \in T : \A n \in T : ~ (<<n, m>> \in Less)
  BY <1>1, WFMin
<1>3. ASSUME NEW n \in T PROVE m <= n
  <2>1. n < m => <<n, m>> \in Less
    BY DEF Less
  <2> QED
    BY <1>2, <2>1
<1> QED
  BY <1>3

\* What fails for an element fails for one of least rank.
LEMMA LeastRank ==
    ASSUME NEW D, NEW rank \in [D -> Nat], NEW T \in SUBSET D, T # {}
    PROVE  \E x \in T : \A y \in D : rank[y] < rank[x] => y \notin T
<1>1. {rank[x] : x \in T} \in SUBSET Nat /\ {rank[x] : x \in T} # {}
  OBVIOUS
<1>2. PICK m \in {rank[x] : x \in T} : \A n \in {rank[x] : x \in T} : m <= n
  BY <1>1, LeastNat
<1>3. PICK x \in T : rank[x] = m
  BY <1>2
<1>4. ASSUME NEW y \in D, rank[y] < rank[x], y \in T PROVE FALSE
  <2>1. m <= rank[y]
    BY <1>2, <1>4
  <2> QED
    BY <1>1, <1>3, <1>4, <2>1
<1> QED
  BY <1>4

\* A value that rests on the values of lower rank only: f solves the recursion G
\* below rank k.
Solves(D, T, rank, G, f, k) ==
    f \in [D -> T] /\ \A x \in D : rank[x] < k => f[x] = G[x][f]
RestsOnLower(D, T, rank, G) ==
    \A x \in D : \A f, g \in [D -> T] :
      (\A y \in D : rank[y] < rank[x] => f[y] = g[y]) => G[x][f] = G[x][g]

LEMMA SolutionsAgree ==
    ASSUME NEW D, NEW T, NEW rank \in [D -> Nat], NEW G, RestsOnLower(D, T, rank, G),
           NEW f, NEW g, NEW k \in Nat, NEW l \in Nat, k <= l,
           Solves(D, T, rank, G, f, k), Solves(D, T, rank, G, g, l)
    PROVE  \A x \in D : rank[x] < k => f[x] = g[x]
<1> DEFINE bad == {x \in D : rank[x] < k /\ f[x] # g[x]}
<1>1. SUFFICES ASSUME bad # {} PROVE FALSE
  OBVIOUS
<1> bad \in SUBSET D
  OBVIOUS
<1>2. PICK x \in bad : \A y \in D : rank[y] < rank[x] => y \notin bad
  <2> HIDE DEF bad
  <2> QED
    BY <1>1, LeastRank
<1>3. x \in D /\ rank[x] < k /\ f[x] # g[x]
  BY <1>2
<1>4. \A y \in D : rank[y] < rank[x] => f[y] = g[y]
  BY <1>2, <1>3
<1>5. G[x][f] = G[x][g]
  BY <1>3, <1>4 DEF RestsOnLower, Solves
<1>6. f[x] = G[x][f] /\ g[x] = G[x][g]
  BY <1>3 DEF Solves
<1> QED
  BY <1>3, <1>5, <1>6

LEMMA SolutionUpTo ==
    ASSUME NEW D, NEW T, T # {}, NEW rank \in [D -> Nat], NEW G \in [D -> [[D -> T] -> T]],
           RestsOnLower(D, T, rank, G), NEW k \in Nat
    PROVE  \E f : Solves(D, T, rank, G, f, k)
<1> DEFINE bad == {m \in Nat : ~\E f : Solves(D, T, rank, G, f, m)}
<1>1. SUFFICES ASSUME bad # {} PROVE FALSE
  OBVIOUS
<1>2. PICK m \in bad : \A n \in bad : m <= n
  BY <1>1, LeastNat
<1>3. m # 0
  <2>1. PICK t \in T : TRUE
    OBVIOUS
  <2>2. Solves(D, T, rank, G, [x \in D |-> t], 0)
    BY DEF Solves
  <2> QED
    BY <1>2, <2>2
<1>4. m - 1 \in Nat /\ m - 1 \notin bad
  <2>1. m \in Nat /\ m - 1 \in Nat /\ ~(m <= m - 1)
    BY <1>3
  <2> HIDE DEF bad
  <2> QED
    BY <1>2, <2>1
<1>5. PICK f : Solves(D, T, rank, G, f, m - 1)
  BY <1>4
<1> DEFINE g == [x \in D |-> IF rank[x] < m - 1 THEN f[x] ELSE G[x][f]]
<1>6. g \in [D -> T]
  BY <1>5 DEF Solves
<1>7. ASSUME NEW x \in D, rank[x] < m PROVE g[x] = G[x][g]
  <2>1. rank[x] <= m - 1
    BY <1>2, <1>7
  <2>2. \A y \in D : rank[y] < rank[x] => g[y] = f[y]
    BY <2>1
  <2>3. G[x][g] = G[x][f]
    BY <1>5, <1>6, <2>2 DEF RestsOnLower, Solves
  <2>4. g[x] = G[x][f]
    BY <1>5 DEF Solves
  <2> QED
    BY <2>3, <2>4
<1>8. Solves(D, T, rank, G, g, m)
  BY <1>6, <1>7 DEF Solves
<1> QED
  BY <1>2, <1>8

Solvable(D, T, G) == \E f \in [D -> T] : \A x \in D : f[x] = G[x][f]

LEMMA RankRecursion ==
    ASSUME NEW D, NEW T, T # {}, NEW rank \in [D -> Nat], NEW G \in [D -> [[D -> T] -> T]],
           RestsOnLower(D, T, rank, G)
    PROVE  Solvable(D, T, G)
<1> DEFINE h == [k \in Nat |-> CHOOSE f : Solves(D, T, rank, G, f, k)]
<1>1. \A k \in Nat : Solves(D, T, rank, G, h[k], k)
  BY SolutionUpTo
<1> HIDE DEF h
<1> DEFINE f == [x \in D |-> h[rank[x] + 1][x]]
<1>2. f \in [D -> T]
  BY <1>1 DEF Solves
<1>3. ASSUME NEW x \in D PROVE f[x] = G[x][f]
  <2>1. Solves(D, T, rank, G, h[rank[x] + 1], rank[x] + 1)
    BY <1>1
  <2>2. ASSUME NEW y \in D, rank[y] < rank[x] PROVE f[y] = h[rank[x] + 1][y]
    <3> DEFINE k == rank[y] + 1
               l == rank[x] + 1
    <3>1. k \in Nat /\ l \in Nat /\ k <= l /\ rank[y] < k
      BY <2>2
    <3>2. Solves(D, T, rank, G, h[k], k) /\ Solves(D, T, rank, G, h[l], l)
      BY <1>1, <3>1
    <3>3. f[y] = h[k][y]
      OBVIOUS
    <3> HIDE DEF k, l, f
    <3>4. \A z \in D : rank[z] < k => h[k][z] = h[l][z]
      BY <3>1, <3>2, SolutionsAgree
    <3> QED
      BY <3>1, <3>3, <3>4 DEF l
  <2>3. G[x][f] = G[x][h[rank[x] + 1]]
    BY <1>2, <2>1, <2>2 DEF RestsOnLower, Solves
  <2>4. h[rank[x] + 1][x] = G[x][h[rank[x] + 1]]
    BY <2>1 DEF Solves
  <2> QED
    BY <2>3, <2>4
<1> QED
  BY <1>2, <1>3 DEF Solvable

-----------------------------------------------------------------------------
(* Folds.                                                                  *)

LEMMA MaxIs ==
    ASSUME NEW n \in Nat, NEW S \in SUBSET (1 .. n), S # {}
    PROVE  Max(S) \in S /\ \A y \in S : Max(S) >= y
<1> DEFINE T == {m \in Nat : n - m \in S}
<1>1. T \in SUBSET Nat /\ T # {}
  <2>1. PICK x \in S : TRUE
    OBVIOUS
  <2>2. n - x \in T
    BY <2>1
  <2> QED
    BY <2>2
<1>2. PICK m \in T : \A k \in T : m <= k
  BY <1>1, LeastNat
<1> DEFINE x == n - m
<1>3. x \in S
  BY <1>2
<1>4. ASSUME NEW y \in S PROVE x >= y
  <2>1. n - y \in T
    BY <1>4
  <2>2. m <= n - y
    BY <1>2, <2>1
  <2> QED
    BY <1>2, <1>4, <2>2
<1> QED
  BY <1>3, <1>4 DEF Max

LEMMA MaxOfFirst ==
    ASSUME NEW k \in Nat, k # 0
    PROVE  Max(1 .. k) = k /\ (1 .. k) \ {k} = 1 .. (k - 1)
<1>1. Max(1 .. k) \in 1 .. k /\ Max(1 .. k) >= k
  <2>1. 1 .. k # {} /\ k \in 1 .. k /\ 1 .. k \in SUBSET (1 .. k)
    OBVIOUS
  <2> QED
    BY <2>1, MaxIs
<1> QED
  BY <1>1

\* A fold over s by the function F, all of its values in T.
Foldable(T, F, base, s) ==
    \E i \in [SUBSET (DOMAIN s) -> T] : \A S \in SUBSET (DOMAIN s) :
      i[S] = IF S = {} THEN base ELSE F[<<i[S \ {Max(S)}], s[Max(S)]>>]

LEMMA FoldExists ==
    ASSUME NEW T, NEW E, NEW F \in [T \X E -> T], NEW base \in T, NEW s \in Seq(E)
    PROVE  Foldable(T, F, base, s)
<1> PICK n \in Nat : n = Len(s) /\ DOMAIN s = 1 .. n
  OBVIOUS
<1> DEFINE D == SUBSET (1 .. n)
           rank == [S \in D |-> Cardinality(S)]
           G == [S \in D |-> [i \in [D -> T] |->
                  IF S = {} THEN base ELSE F[<<i[S \ {Max(S)}], s[Max(S)]>>]]]
<1>1. \A S \in D : IsFiniteSet(S) /\ Cardinality(S) \in Nat
  <2>1. IsFiniteSet(1 .. n)
    BY FS_Interval
  <2> QED
    BY <2>1, FS_Subset, FS_CardinalityType
<1>2. rank \in [D -> Nat]
  BY <1>1
<1>3. ASSUME NEW S \in D, S # {}
      PROVE  /\ Max(S) \in S /\ s[Max(S)] \in E
             /\ S \ {Max(S)} \in D /\ rank[S \ {Max(S)}] < rank[S]
  <2>1. Max(S) \in S
    BY <1>3, MaxIs
  <2>2. S \ {Max(S)} \in D
    OBVIOUS
  <2>3. Cardinality(S \ {Max(S)}) = Cardinality(S) - 1
    BY <1>1, <2>1, FS_RemoveElement
  <2>4. rank[S \ {Max(S)}] < rank[S]
    BY <1>1, <2>2, <2>3
  <2>5. s[Max(S)] \in E
    <3>1. Max(S) \in 1 .. n
      BY <2>1
    <3>2. \A k \in 1 .. n : s[k] \in E
      OBVIOUS
    <3> QED
      BY <3>1, <3>2
  <2> QED
    BY <2>1, <2>2, <2>4, <2>5
<1>4. G \in [D -> [[D -> T] -> T]]
  BY <1>3
<1>5. RestsOnLower(D, T, rank, G)
  <2>1. SUFFICES ASSUME NEW S \in D, NEW f \in [D -> T], NEW g \in [D -> T],
                        \A y \in D : rank[y] < rank[S] => f[y] = g[y]
                 PROVE  G[S][f] = G[S][g]
    BY DEF RestsOnLower
  <2>2. CASE S = {}
    BY <2>2
  <2>3. CASE S # {}
    <3>1. f[S \ {Max(S)}] = g[S \ {Max(S)}]
      BY <1>3, <2>1, <2>3
    <3> QED
      BY <3>1
  <2> QED
    BY <2>2, <2>3
<1>6. Solvable(D, T, G)
  <2> HIDE DEF D, rank, G
  <2> QED
    BY <1>2, <1>4, <1>5, RankRecursion
<1>7. PICK i \in [D -> T] : \A S \in D : i[S] = G[S][i]
  BY <1>6 DEF Solvable
<1>8. \A S \in D : i[S] = IF S = {} THEN base ELSE F[<<i[S \ {Max(S)}], s[Max(S)]>>]
  BY <1>7
<1> QED
  BY <1>7, <1>8 DEF Foldable

\* Its values one after the other.
Steps(F, base, s, h) ==
    h[0] = base /\ \A k \in 1 .. Len(s) : h[k] = F[<<h[k - 1], s[k]>>]

LEMMA StepsTyped ==
    ASSUME NEW T, NEW E, NEW F \in [T \X E -> T], NEW base \in T, NEW s \in Seq(E), NEW h,
           Steps(F, base, s, h)
    PROVE  \A k \in 0 .. Len(s) : h[k] \in T
<1> DEFINE bad == {k \in 0 .. Len(s) : h[k] \notin T}
<1>1. SUFFICES ASSUME bad # {} PROVE FALSE
  OBVIOUS
<1>2. bad \in SUBSET Nat
  OBVIOUS
<1>3. PICK k \in bad : \A n \in bad : k <= n
  <2> HIDE DEF bad
  <2> QED
    BY <1>1, <1>2, LeastNat
<1>4. k # 0
  BY <1>3 DEF Steps
<1>5. k - 1 \in 0 .. Len(s) /\ k \in 1 .. Len(s) /\ k - 1 \notin bad
  BY <1>3, <1>4
<1>6. h[k - 1] \in T /\ s[k] \in E
  BY <1>5
<1>7. h[k] = F[<<h[k - 1], s[k]>>]
  BY <1>5 DEF Steps
<1> QED
  BY <1>3, <1>6, <1>7

\* The values of the fold over one element more.
IsMore(s, e, t) == t = Append(s, e)
OneMoreStep(F, s, e, h, g) == g[Len(s) + 1] = F[<<h[Len(s)], e>>]

LEMMA StepsOfMore ==
    ASSUME NEW T, NEW E, NEW F \in [T \X E -> T], NEW base \in T, NEW s \in Seq(E), NEW e \in E,
           NEW t, IsMore(s, e, t), NEW h, NEW g, Steps(F, base, s, h), Steps(F, base, t, g)
    PROVE  OneMoreStep(F, s, e, h, g)
<1> USE DEF IsMore, OneMoreStep
<1> DEFINE bad == {k \in 0 .. Len(s) : g[k] # h[k]}
<1>1. bad = {}
  <2>1. SUFFICES ASSUME bad # {} PROVE FALSE
    OBVIOUS
  <2>2. bad \in SUBSET Nat
    OBVIOUS
  <2>3. PICK k \in bad : \A n \in bad : k <= n
    <3> HIDE DEF bad
    <3> QED
      BY <2>1, <2>2, LeastNat
  <2>4. k # 0
    BY <2>3 DEF Steps
  <2>5. k - 1 \in 0 .. Len(s) /\ k \in 1 .. Len(s) /\ k - 1 \notin bad
    BY <2>3, <2>4
  <2>6. g[k - 1] = h[k - 1] /\ t[k] = s[k] /\ k \in 1 .. Len(t)
    BY <2>5
  <2>7. h[k] = F[<<h[k - 1], s[k]>>]
    BY <2>5 DEF Steps
  <2>8. g[k] = F[<<g[k - 1], t[k]>>]
    BY <2>6 DEF Steps
  <2> QED
    BY <2>3, <2>6, <2>7, <2>8
<1>2. g[Len(s)] = h[Len(s)]
  BY <1>1
<1>3. Len(s) + 1 \in 1 .. Len(t) /\ t[Len(s) + 1] = e
  OBVIOUS
<1>4. g[Len(s) + 1] = F[<<g[Len(s) + 1 - 1], t[Len(s) + 1]>>]
  BY <1>3 DEF Steps
<1>5. Len(s) + 1 - 1 = Len(s)
  OBVIOUS
<1> QED
  BY <1>2, <1>3, <1>4, <1>5

-----------------------------------------------------------------------------
(* The filters, by themselves.                                             *)

\* The static variables are as UnsetFilterContext leaves them.
Clean == count_lines = 0 /\ ~count_filter_present /\ fileptr = NULL

\* The inductive invariant: without a chain nothing is counted and no file is
\* opened, so that it is enough that the chain goes with its command.  A config
\* command, whose end resets nothing, has none.
NoChainNoTrace == filter_array = << >> => Clean
ChainWhileRunning == filter_array # << >> => running /\ command.kind # "config"
Untraced == NoChainNoTrace /\ ChainWhileRunning

\* The loop over no filter: the fold starts and ends with what is there.
LEMMA ThroughNothing ==
    ASSUME NEW line, filter_array = << >>
    PROVE  Through(line) = [dropped |-> FALSE, present |-> count_filter_present,
                            count |-> count_lines, file |-> fileptr, opened |-> FALSE]
<1> DEFINE start == [dropped |-> FALSE, present |-> count_filter_present,
                     count |-> count_lines, file |-> fileptr, opened |-> FALSE]
           iter  == CHOOSE i : i = [s \in SUBSET (DOMAIN filter_array) |->
                                      IF s = {} THEN start
                                      ELSE LET x == Max(s)
                                           IN  Apply(line, i[s \ {x}], filter_array[x])]
<1>1. DOMAIN filter_array = {}
  OBVIOUS
<1>2. [s \in SUBSET (DOMAIN filter_array) |-> start] = iter
  BY <1>1
<1>3. iter[DOMAIN filter_array] = start
  BY <1>1, <1>2
<1> QED
  BY <1>3 DEF Through, FoldLeft, MapThenFoldSet

\* Without filters a line leaves the static variables as they are.
LEMMA PrintKeepsClean ==
    ASSUME NEW line, cprintf(line), filter_array = << >>, Clean
    PROVE  Clean'
BY ThroughNothing DEF cprintf, Clean

LEMMA InitUntraced == ASSUME Init PROVE Untraced
BY DEF Init, Untraced, NoChainNoTrace, ChainWhileRunning, Clean

LEMMA SubmitKeepsUntraced ==
    ASSUME Untraced, NEW kind \in Kinds, NEW fs \in Chains, Submit(kind, fs)
    PROVE  Untraced'
<1>1. filter_array = << >> /\ Clean
  BY DEF Submit, Untraced, ChainWhileRunning, NoChainNoTrace
<1>2. Clean'
  BY <1>1 DEF Submit, Clean
<1>3. filter_array' # << >> => running' /\ command'.kind # "config"
  BY <1>1 DEF Submit
<1> QED
  BY <1>2, <1>3 DEF Untraced, NoChainNoTrace, ChainWhileRunning

LEMMA RunKeepsUntraced == ASSUME Untraced, Run PROVE Untraced'
<1>1. ASSUME NEW t \in Texts, cprintf(t) PROVE Untraced'
  <2>1. running' = running /\ command' = command /\ filter_array' = filter_array
    BY <1>1 DEF cprintf
  <2>2. filter_array' = << >> => Clean'
    BY <1>1, <2>1, PrintKeepsClean DEF Untraced, NoChainNoTrace
  <2> QED
    BY <2>1, <2>2 DEF Untraced, NoChainNoTrace, ChainWhileRunning
<1>2. CASE EndOperational
  BY <1>2 DEF EndOperational, Unset, Untraced, NoChainNoTrace, ChainWhileRunning, Clean
<1>3. CASE EndConfig
  <2>1. filter_array = << >> /\ Clean
    BY <1>3 DEF EndConfig, Untraced, ChainWhileRunning, NoChainNoTrace
  <2> QED
    BY <1>3, <2>1 DEF EndConfig, context, Untraced, NoChainNoTrace, ChainWhileRunning, Clean
<1> QED
  BY <1>1, <1>2, <1>3 DEF Run

LEMMA NextKeepsUntraced == ASSUME Untraced, [Next]_vars PROVE Untraced'
<1>1. CASE Next
  BY <1>1, SubmitKeepsUntraced, RunKeepsUntraced DEF Next
<1>2. CASE UNCHANGED vars
  BY <1>2 DEF vars, context, Untraced, NoChainNoTrace, ChainWhileRunning, Clean
<1> QED
  BY <1>1, <1>2

\* Between two commands no filter, count or file of the last one is left, although
\* only the end of an operational command resets them: nothing of a command's
\* filters reaches the output of the next.
THEOREM ContextIsResetHolds == Spec => []ContextIsReset
<1>1. Untraced => ContextIsReset
  BY DEF Untraced, NoChainNoTrace, ChainWhileRunning, Clean, ContextIsReset
<1> QED
  BY <1>1, InitUntraced, NextKeepsUntraced, PTL DEF Spec

-----------------------------------------------------------------------------
(* What each filter makes of the lines that come to it.                    *)

\* Lines and totals.
Item == [text : Texts \cup {"lines"}, total : Nat]

\* What one filter lets through, line after line.
OneMoreLine(P) ==
    [x \in Seq(Item) \X Item |-> IF x[2].text \in P THEN Append(x[1], x[2]) ELSE x[1]]

OnlyByLine(lines, P) ==
    \E h : Steps(OneMoreLine(P), << >>, lines, h) /\ Only(lines, P) = h[Len(lines)]

LEMMA NoLines == << >> \in Seq(Item)
OBVIOUS

LEMMA OneMoreLineTyped == ASSUME NEW P PROVE OneMoreLine(P) \in [Seq(Item) \X Item -> Seq(Item)]
<1>1. ASSUME NEW x \in Seq(Item) \X Item
      PROVE  (IF x[2].text \in P THEN Append(x[1], x[2]) ELSE x[1]) \in Seq(Item)
  <2>1. x[1] \in Seq(Item) /\ x[2] \in Item
    OBVIOUS
  <2> QED
    BY <2>1
<1> QED
  BY <1>1 DEF OneMoreLine

LEMMA OnlyFolds == ASSUME NEW P, NEW s \in Seq(Item) PROVE OnlyByLine(s, P)
<1> DEFINE Body(i) == [S \in SUBSET (DOMAIN s) |->
                         IF S = {} THEN << >>
                         ELSE LET x == Max(S)
                              IN  IF s[x].text \in P THEN Append(i[S \ {x}], s[x])
                                  ELSE i[S \ {x}]]
           iter == CHOOSE i : i = Body(i)
<1> PICK n \in Nat : n = Len(s) /\ DOMAIN s = 1 .. n
  OBVIOUS
<1>1. \A k \in 1 .. n : s[k] \in Item
  OBVIOUS
<1>2. PICK i \in [SUBSET (DOMAIN s) -> Seq(Item)] : \A S \in SUBSET (DOMAIN s) :
        i[S] = IF S = {} THEN << >> ELSE OneMoreLine(P)[<<i[S \ {Max(S)}], s[Max(S)]>>]
  <2>1. OneMoreLine(P) \in [Seq(Item) \X Item -> Seq(Item)]
    BY OneMoreLineTyped
  <2>2. Foldable(Seq(Item), OneMoreLine(P), << >>, s)
    BY <2>1, NoLines, FoldExists
  <2> QED
    BY <2>2 DEF Foldable
<1>3. ASSUME NEW S \in SUBSET (DOMAIN s), S # {}
      PROVE  i[S] = IF s[Max(S)].text \in P THEN Append(i[S \ {Max(S)}], s[Max(S)])
                    ELSE i[S \ {Max(S)}]
  <2>1. Max(S) \in 1 .. n
    BY <1>3, MaxIs
  <2>2. s[Max(S)] \in Item /\ i[S \ {Max(S)}] \in Seq(Item)
    BY <1>1, <1>2, <2>1
  <2> QED
    BY <1>2, <1>3, <2>2 DEF OneMoreLine
<1>4. i = Body(i)
  BY <1>2, <1>3
<1>5. iter = Body(iter)
  <2> HIDE DEF Body
  <2> QED
    BY <1>4, Zenon
<1>6. Only(s, P) = iter[DOMAIN s]
  BY DEF Only, FoldLeft, MapThenFoldSet
<1> DEFINE h == [k \in 0 .. n |-> iter[1 .. k]]
<1> HIDE DEF iter
<1>7. h[0] = << >>
  BY <1>5
<1>8. ASSUME NEW k \in 1 .. n
      PROVE  h[k] = IF s[k].text \in P THEN Append(h[k - 1], s[k]) ELSE h[k - 1]
  <2>1. 1 .. k \in SUBSET (1 .. n) /\ k \in 1 .. k
    OBVIOUS
  <2>2. Max(1 .. k) = k /\ (1 .. k) \ {k} = 1 .. (k - 1)
    BY MaxOfFirst
  <2>3. iter[1 .. k] = IF s[k].text \in P THEN Append(iter[1 .. (k - 1)], s[k]) ELSE iter[1 .. (k - 1)]
    BY <1>5, <2>1, <2>2
  <2>4. h[k] = iter[1 .. k] /\ h[k - 1] = iter[1 .. (k - 1)]
    OBVIOUS
  <2> QED
    BY <2>3, <2>4
<1> DEFINE bad == {k \in 0 .. n : h[k] \notin Seq(Item)}
<1>9. bad = {}
  <2> HIDE DEF h
  <2>1. SUFFICES ASSUME bad # {} PROVE FALSE
    OBVIOUS
  <2>2. bad \in SUBSET Nat
    OBVIOUS
  <2>3. PICK k \in bad : \A m \in bad : k <= m
    <3> HIDE DEF bad
    <3> QED
      BY <2>1, <2>2, LeastNat
  <2>4. k # 0
    BY <1>7, <2>3, NoLines
  <2>5. k \in 1 .. n /\ k - 1 \in 0 .. n /\ k - 1 \notin bad
    BY <2>3, <2>4
  <2>6. h[k - 1] \in Seq(Item) /\ s[k] \in Item
    BY <1>1, <2>5
  <2>7. h[k] = IF s[k].text \in P THEN Append(h[k - 1], s[k]) ELSE h[k - 1]
    BY <1>8, <2>5
  <2>8. Append(h[k - 1], s[k]) \in Seq(Item)
    BY <2>6
  <2>9. h[k] \in Seq(Item)
    BY <2>6, <2>7, <2>8
  <2> QED
    BY <2>3, <2>9
<1>10. ASSUME NEW k \in 1 .. n PROVE h[k] = OneMoreLine(P)[<<h[k - 1], s[k]>>]
  <2> HIDE DEF h
  <2>1. h[k - 1] \in Seq(Item) /\ s[k] \in Item
    BY <1>1, <1>9
  <2> QED
    BY <1>8, <2>1 DEF OneMoreLine
<1>11. Only(s, P) = h[Len(s)]
  BY <1>6
<1> HIDE DEF h
<1>12. Steps(OneMoreLine(P), << >>, s, h)
  BY <1>7, <1>10 DEF Steps
<1> QED
  BY <1>11, <1>12 DEF OnlyByLine

LEMMA OnlyOfNone == ASSUME NEW P PROVE Only(<< >>, P) = << >>
<1>1. OnlyByLine(<< >>, P)
  BY NoLines, OnlyFolds
<1>2. Len(<< >>) = 0
  OBVIOUS
<1> QED
  BY <1>1, <1>2 DEF OnlyByLine, Steps

LEMMA OnlyTyped == ASSUME NEW P, NEW s \in Seq(Item) PROVE Only(s, P) \in Seq(Item)
<1>1. PICK h : Steps(OneMoreLine(P), << >>, s, h) /\ Only(s, P) = h[Len(s)]
  BY OnlyFolds DEF OnlyByLine
<1>2. OneMoreLine(P) \in [Seq(Item) \X Item -> Seq(Item)]
  BY OneMoreLineTyped
<1>3. \A k \in 0 .. Len(s) : h[k] \in Seq(Item)
  BY <1>1, <1>2, NoLines, StepsTyped
<1>4. Len(s) \in 0 .. Len(s)
  OBVIOUS
<1> QED
  BY <1>1, <1>3, <1>4

LEMMA OnlyOfMore ==
    ASSUME NEW P, NEW s \in Seq(Item), NEW l \in Item
    PROVE  Only(Append(s, l), P) = IF l.text \in P THEN Append(Only(s, P), l) ELSE Only(s, P)
<1>1. PICK h : Steps(OneMoreLine(P), << >>, s, h) /\ Only(s, P) = h[Len(s)]
  BY OnlyFolds DEF OnlyByLine
<1> PICK t : t = Append(s, l)
  OBVIOUS
<1>2. t \in Seq(Item) /\ Len(t) = Len(s) + 1
  OBVIOUS
<1>3. OnlyByLine(t, P)
  BY <1>2, OnlyFolds
<1>4. PICK g : /\ Steps(OneMoreLine(P), << >>, t, g)
               /\ Only(t, P) = g[Len(t)]
  BY <1>3 DEF OnlyByLine
<1>5. OneMoreLine(P) \in [Seq(Item) \X Item -> Seq(Item)]
  BY OneMoreLineTyped
<1>6. g[Len(s) + 1] = OneMoreLine(P)[<<h[Len(s)], l>>]
  <2>1. Steps(OneMoreLine(P), << >>, s, h) /\ Steps(OneMoreLine(P), << >>, t, g) /\ IsMore(s, l, t)
    BY <1>1, <1>4 DEF IsMore
  <2>2. OneMoreStep(OneMoreLine(P), s, l, h, g)
    BY <1>5, <2>1, NoLines, StepsOfMore
  <2> QED
    BY <2>2 DEF OneMoreStep
<1>7. Only(t, P) = OneMoreLine(P)[<<Only(s, P), l>>]
  BY <1>1, <1>2, <1>4, <1>6
<1>8. Only(s, P) \in Seq(Item)
  BY OnlyTyped
<1> QED
  BY <1>7, <1>8 DEF OneMoreLine

-----------------------------------------------------------------------------
(* Chains of filters.                                                      *)

Filter == UNION {ToSet(fs) : fs \in Chains}

LEMMA FilterIs ==
    ASSUME NEW f \in Filter
    PROVE  /\ f.leaf_id \in LeafIds
           /\ f.leaf_id = "sfile-name" => f.value \in FileNames
<1>1. PICK fs \in Chains : f \in ToSet(fs)
  BY DEF Filter
<1>2. PICK i \in DOMAIN fs : f = fs[i]
  BY <1>1 DEF ToSet
<1> QED
  BY <1>2, FilterAssumption DEF FilterAssumption

LEMMA ChainTyped == ASSUME NEW fs \in Chains PROVE fs \in Seq(Filter)
<1>1. fs \in Seq(ToSet(fs))
  BY FilterAssumption DEF FilterAssumption
<1>2. ToSet(fs) \subseteq Filter
  BY DEF Filter
<1> QED
  BY <1>1, <1>2, SeqMonotonic

LEMMA FilteredTyped == ASSUME NEW s \in Seq(Item), NEW f PROVE Filtered(s, f) \in Seq(Item)
<1>1. Only(s, Passing(f)) \in Seq(Item)
  BY OnlyTyped
<1>2. Total(Len(s)) \in Item
  BY DEF Total, Item
<1>3. <<Total(Len(s))>> \in Seq(Item)
  BY <1>2
<1> QED
  BY <1>1, <1>3 DEF Filtered

OneMoreFilter == [x \in Seq(Item) \X Filter |-> Filtered(x[1], x[2])]

PipelineByFilter(fs, lines) ==
    \E h : Steps(OneMoreFilter, lines, fs, h) /\ Pipeline(fs, lines) = h[Len(fs)]

LEMMA OneMoreFilterTyped == OneMoreFilter \in [Seq(Item) \X Filter -> Seq(Item)]
<1>1. ASSUME NEW x \in Seq(Item) \X Filter PROVE Filtered(x[1], x[2]) \in Seq(Item)
  <2>1. x[1] \in Seq(Item)
    OBVIOUS
  <2> QED
    BY <2>1, FilteredTyped
<1> QED
  BY <1>1 DEF OneMoreFilter

LEMMA PipelineFolds ==
    ASSUME NEW lines \in Seq(Item), NEW s \in Seq(Filter)
    PROVE  PipelineByFilter(s, lines)
<1> DEFINE Body(i) == [S \in SUBSET (DOMAIN s) |->
                         IF S = {} THEN lines
                         ELSE LET x == Max(S) IN  Filtered(i[S \ {x}], s[x])]
           iter == CHOOSE i : i = Body(i)
<1> PICK n \in Nat : n = Len(s) /\ DOMAIN s = 1 .. n
  OBVIOUS
<1>1. \A k \in 1 .. n : s[k] \in Filter
  OBVIOUS
<1>2. PICK i \in [SUBSET (DOMAIN s) -> Seq(Item)] : \A S \in SUBSET (DOMAIN s) :
        i[S] = IF S = {} THEN lines ELSE OneMoreFilter[<<i[S \ {Max(S)}], s[Max(S)]>>]
  <2>1. Foldable(Seq(Item), OneMoreFilter, lines, s)
    BY OneMoreFilterTyped, FoldExists
  <2> QED
    BY <2>1 DEF Foldable
<1>3. ASSUME NEW S \in SUBSET (DOMAIN s), S # {}
      PROVE  i[S] = Filtered(i[S \ {Max(S)}], s[Max(S)])
  <2>1. Max(S) \in 1 .. n
    BY <1>3, MaxIs
  <2>2. s[Max(S)] \in Filter /\ i[S \ {Max(S)}] \in Seq(Item)
    BY <1>1, <1>2, <2>1
  <2> QED
    BY <1>2, <1>3, <2>2 DEF OneMoreFilter
<1>4. i = Body(i)
  BY <1>2, <1>3
<1>5. iter = Body(iter)
  <2> HIDE DEF Body
  <2> QED
    BY <1>4, Zenon
<1>6. Pipeline(s, lines) = iter[DOMAIN s]
  BY DEF Pipeline, FoldLeft, MapThenFoldSet
<1> DEFINE h == [k \in 0 .. n |-> iter[1 .. k]]
<1> HIDE DEF iter
<1>7. h[0] = lines
  BY <1>5
<1>8. ASSUME NEW k \in 1 .. n
      PROVE  h[k] = Filtered(h[k - 1], s[k])
  <2>1. 1 .. k \in SUBSET (1 .. n) /\ k \in 1 .. k
    OBVIOUS
  <2>2. Max(1 .. k) = k /\ (1 .. k) \ {k} = 1 .. (k - 1)
    BY MaxOfFirst
  <2>3. iter[1 .. k] = Filtered(iter[1 .. (k - 1)], s[k])
    BY <1>5, <2>1, <2>2
  <2>4. h[k] = iter[1 .. k] /\ h[k - 1] = iter[1 .. (k - 1)]
    OBVIOUS
  <2> QED
    BY <2>3, <2>4
<1> DEFINE bad == {k \in 0 .. n : h[k] \notin Seq(Item)}
<1>9. bad = {}
  <2> HIDE DEF h
  <2>1. SUFFICES ASSUME bad # {} PROVE FALSE
    OBVIOUS
  <2>2. bad \in SUBSET Nat
    OBVIOUS
  <2>3. PICK k \in bad : \A m \in bad : k <= m
    <3> HIDE DEF bad
    <3> QED
      BY <2>1, <2>2, LeastNat
  <2>4. k # 0
    BY <1>7, <2>3
  <2>5. k \in 1 .. n /\ k - 1 \in 0 .. n /\ k - 1 \notin bad
    BY <2>3, <2>4
  <2>6. h[k - 1] \in Seq(Item)
    BY <2>5
  <2>7. h[k] = Filtered(h[k - 1], s[k])
    BY <1>8, <2>5
  <2>8. h[k] \in Seq(Item)
    BY <2>6, <2>7, FilteredTyped
  <2> QED
    BY <2>3, <2>8
<1>10. ASSUME NEW k \in 1 .. n PROVE h[k] = OneMoreFilter[<<h[k - 1], s[k]>>]
  <2> HIDE DEF h
  <2>1. h[k - 1] \in Seq(Item) /\ s[k] \in Filter
    BY <1>1, <1>9
  <2> QED
    BY <1>8, <2>1 DEF OneMoreFilter
<1>11. Pipeline(s, lines) = h[Len(s)]
  BY <1>6
<1> HIDE DEF h
<1>12. Steps(OneMoreFilter, lines, s, h)
  BY <1>7, <1>10 DEF Steps
<1> QED
  BY <1>11, <1>12 DEF PipelineByFilter

LEMMA PipelineOfNone == ASSUME NEW lines \in Seq(Item) PROVE Pipeline(<< >>, lines) = lines
<1>1. << >> \in Seq(Filter)
  OBVIOUS
<1>2. PipelineByFilter(<< >>, lines)
  BY <1>1, PipelineFolds
<1>3. Len(<< >>) = 0
  OBVIOUS
<1> QED
  BY <1>2, <1>3 DEF PipelineByFilter, Steps

LEMMA PipelineTyped ==
    ASSUME NEW lines \in Seq(Item), NEW s \in Seq(Filter)
    PROVE  Pipeline(s, lines) \in Seq(Item)
<1>1. PICK h : Steps(OneMoreFilter, lines, s, h) /\ Pipeline(s, lines) = h[Len(s)]
  BY PipelineFolds DEF PipelineByFilter
<1>2. \A k \in 0 .. Len(s) : h[k] \in Seq(Item)
  BY <1>1, OneMoreFilterTyped, StepsTyped
<1>3. Len(s) \in 0 .. Len(s)
  OBVIOUS
<1> QED
  BY <1>1, <1>2, <1>3

LEMMA PipelineOfMore ==
    ASSUME NEW lines \in Seq(Item), NEW s \in Seq(Filter), NEW f \in Filter
    PROVE  Pipeline(Append(s, f), lines) = Filtered(Pipeline(s, lines), f)
<1>1. PICK h : Steps(OneMoreFilter, lines, s, h) /\ Pipeline(s, lines) = h[Len(s)]
  BY PipelineFolds DEF PipelineByFilter
<1> PICK t : t = Append(s, f)
  OBVIOUS
<1>2. t \in Seq(Filter) /\ Len(t) = Len(s) + 1
  OBVIOUS
<1>3. PipelineByFilter(t, lines)
  BY <1>2, PipelineFolds
<1>4. PICK g : /\ Steps(OneMoreFilter, lines, t, g)
               /\ Pipeline(t, lines) = g[Len(t)]
  BY <1>3 DEF PipelineByFilter
<1>5. g[Len(s) + 1] = OneMoreFilter[<<h[Len(s)], f>>]
  <2>1. Steps(OneMoreFilter, lines, s, h) /\ Steps(OneMoreFilter, lines, t, g) /\ IsMore(s, f, t)
    BY <1>1, <1>4 DEF IsMore
  <2>2. OneMoreStep(OneMoreFilter, s, f, h, g)
    BY <2>1, OneMoreFilterTyped, StepsOfMore
  <2> QED
    BY <2>2 DEF OneMoreStep
<1>6. Pipeline(t, lines) = OneMoreFilter[<<Pipeline(s, lines), f>>]
  BY <1>1, <1>2, <1>4, <1>5
<1>7. Pipeline(s, lines) \in Seq(Item)
  BY PipelineTyped
<1> QED
  BY <1>6, <1>7 DEF OneMoreFilter


-----------------------------------------------------------------------------
(* A line on its way through the filters.                                  *)

Passage == [dropped : BOOLEAN, present : BOOLEAN, count : Nat,
            file : FileNames \cup {NULL}, opened : BOOLEAN]

LEMMA ApplyTyped ==
    ASSUME NEW line, NEW acc \in Passage, NEW f \in Filter
    PROVE  Apply(line, acc, f) \in Passage
<1>1. f.leaf_id = "sfile-name" => f.value \in FileNames
  BY FilterIs
<1>2. Drop(acc) \in Passage
  BY DEF Drop, Passage
<1>3. CountLine(acc) \in Passage
  <2>1. PICK a : a = [acc EXCEPT !.present = TRUE]
    OBVIOUS
  <2>2. a \in Passage
    BY <2>1 DEF Passage
  <2>3. [a EXCEPT !.count = a.count + 1] \in Passage
    BY <2>2 DEF Passage
  <2>4. a.count = acc.count
    BY <2>1 DEF Passage
  <2> QED
    BY <2>1, <2>3, <2>4 DEF CountLine
<1>4. ASSUME NEW g \in FileNames PROVE Open(acc, g) \in Passage
  BY DEF Open, Passage
<1> QED
  BY <1>1, <1>2, <1>3, <1>4 DEF Apply

ThroughFrom(line, base, fs) == FoldLeft(LAMBDA acc, f : Apply(line, acc, f), base, fs)

OneMoreApply(line) == [x \in Passage \X Filter |-> Apply(line, x[1], x[2])]

ThroughByFilter(line, base, fs) ==
    \E h : Steps(OneMoreApply(line), base, fs, h) /\ ThroughFrom(line, base, fs) = h[Len(fs)]

LEMMA OneMoreApplyTyped ==
    ASSUME NEW line PROVE OneMoreApply(line) \in [Passage \X Filter -> Passage]
<1>1. ASSUME NEW x \in Passage \X Filter PROVE Apply(line, x[1], x[2]) \in Passage
  <2>1. x[1] \in Passage /\ x[2] \in Filter
    OBVIOUS
  <2> QED
    BY <2>1, ApplyTyped
<1> QED
  BY <1>1 DEF OneMoreApply

LEMMA ThroughFolds ==
    ASSUME NEW line, NEW base \in Passage, NEW s \in Seq(Filter)
    PROVE  ThroughByFilter(line, base, s)
<1> DEFINE Body(i) == [S \in SUBSET (DOMAIN s) |->
                         IF S = {} THEN base
                         ELSE LET x == Max(S) IN  Apply(line, i[S \ {x}], s[x])]
           iter == CHOOSE i : i = Body(i)
<1> PICK n \in Nat : n = Len(s) /\ DOMAIN s = 1 .. n
  OBVIOUS
<1>1. \A k \in 1 .. n : s[k] \in Filter
  OBVIOUS
<1>2. PICK i \in [SUBSET (DOMAIN s) -> Passage] : \A S \in SUBSET (DOMAIN s) :
        i[S] = IF S = {} THEN base ELSE OneMoreApply(line)[<<i[S \ {Max(S)}], s[Max(S)]>>]
  <2>1. Foldable(Passage, OneMoreApply(line), base, s)
    BY OneMoreApplyTyped, FoldExists
  <2> QED
    BY <2>1 DEF Foldable
<1>3. ASSUME NEW S \in SUBSET (DOMAIN s), S # {}
      PROVE  i[S] = Apply(line, i[S \ {Max(S)}], s[Max(S)])
  <2>1. Max(S) \in 1 .. n
    BY <1>3, MaxIs
  <2>2. s[Max(S)] \in Filter /\ i[S \ {Max(S)}] \in Passage
    BY <1>1, <1>2, <2>1
  <2> QED
    BY <1>2, <1>3, <2>2 DEF OneMoreApply
<1>4. i = Body(i)
  BY <1>2, <1>3
<1>5. iter = Body(iter)
  <2> HIDE DEF Body
  <2> QED
    BY <1>4, Zenon
<1>6. ThroughFrom(line, base, s) = iter[DOMAIN s]
  BY DEF ThroughFrom, FoldLeft, MapThenFoldSet
<1> DEFINE h == [k \in 0 .. n |-> iter[1 .. k]]
<1> HIDE DEF iter
<1>7. h[0] = base
  BY <1>5
<1>8. ASSUME NEW k \in 1 .. n
      PROVE  h[k] = Apply(line, h[k - 1], s[k])
  <2>1. 1 .. k \in SUBSET (1 .. n) /\ k \in 1 .. k
    OBVIOUS
  <2>2. Max(1 .. k) = k /\ (1 .. k) \ {k} = 1 .. (k - 1)
    BY MaxOfFirst
  <2>3. iter[1 .. k] = Apply(line, iter[1 .. (k - 1)], s[k])
    BY <1>5, <2>1, <2>2
  <2>4. h[k] = iter[1 .. k] /\ h[k - 1] = iter[1 .. (k - 1)]
    OBVIOUS
  <2> QED
    BY <2>3, <2>4
<1> DEFINE bad == {k \in 0 .. n : h[k] \notin Passage}
<1>9. bad = {}
  <2> HIDE DEF h
  <2>1. SUFFICES ASSUME bad # {} PROVE FALSE
    OBVIOUS
  <2>2. bad \in SUBSET Nat
    OBVIOUS
  <2>3. PICK k \in bad : \A m \in bad : k <= m
    <3> HIDE DEF bad
    <3> QED
      BY <2>1, <2>2, LeastNat
  <2>4. k # 0
    BY <1>7, <2>3
  <2>5. k \in 1 .. n /\ k - 1 \in 0 .. n /\ k - 1 \notin bad
    BY <2>3, <2>4
  <2>6. h[k - 1] \in Passage /\ s[k] \in Filter
    BY <1>1, <2>5
  <2>7. h[k] = Apply(line, h[k - 1], s[k])
    BY <1>8, <2>5
  <2>8. h[k] \in Passage
    BY <2>6, <2>7, ApplyTyped
  <2> QED
    BY <2>3, <2>8
<1>10. ASSUME NEW k \in 1 .. n PROVE h[k] = OneMoreApply(line)[<<h[k - 1], s[k]>>]
  <2> HIDE DEF h
  <2>1. h[k - 1] \in Passage /\ s[k] \in Filter
    BY <1>1, <1>9
  <2> QED
    BY <1>8, <2>1 DEF OneMoreApply
<1>11. ThroughFrom(line, base, s) = h[Len(s)]
  BY <1>6
<1> HIDE DEF h
<1>12. Steps(OneMoreApply(line), base, s, h)
  BY <1>7, <1>10 DEF Steps
<1> QED
  BY <1>11, <1>12 DEF ThroughByFilter

LEMMA ThroughOfNone == ASSUME NEW line, NEW base \in Passage PROVE ThroughFrom(line, base, << >>) = base
<1>1. << >> \in Seq(Filter)
  OBVIOUS
<1>2. ThroughByFilter(line, base, << >>)
  BY <1>1, ThroughFolds
<1>3. Len(<< >>) = 0
  OBVIOUS
<1> QED
  BY <1>2, <1>3 DEF ThroughByFilter, Steps

LEMMA ThroughTyped ==
    ASSUME NEW line, NEW base \in Passage, NEW s \in Seq(Filter)
    PROVE  ThroughFrom(line, base, s) \in Passage
<1>1. PICK h : Steps(OneMoreApply(line), base, s, h) /\ ThroughFrom(line, base, s) = h[Len(s)]
  BY ThroughFolds DEF ThroughByFilter
<1>2. \A k \in 0 .. Len(s) : h[k] \in Passage
  BY <1>1, OneMoreApplyTyped, StepsTyped
<1>3. Len(s) \in 0 .. Len(s)
  OBVIOUS
<1> QED
  BY <1>1, <1>2, <1>3

LEMMA ThroughOfMore ==
    ASSUME NEW line, NEW base \in Passage, NEW s \in Seq(Filter), NEW f \in Filter
    PROVE  ThroughFrom(line, base, Append(s, f)) = Apply(line, ThroughFrom(line, base, s), f)
<1>1. PICK h : Steps(OneMoreApply(line), base, s, h) /\ ThroughFrom(line, base, s) = h[Len(s)]
  BY ThroughFolds DEF ThroughByFilter
<1> PICK t : t = Append(s, f)
  OBVIOUS
<1>2. t \in Seq(Filter) /\ Len(t) = Len(s) + 1
  OBVIOUS
<1>3. ThroughByFilter(line, base, t)
  BY <1>2, ThroughFolds
<1>4. PICK g : /\ Steps(OneMoreApply(line), base, t, g)
               /\ ThroughFrom(line, base, t) = g[Len(t)]
  BY <1>3 DEF ThroughByFilter
<1>5. g[Len(s) + 1] = OneMoreApply(line)[<<h[Len(s)], f>>]
  <2>1. Steps(OneMoreApply(line), base, s, h) /\ Steps(OneMoreApply(line), base, t, g) /\ IsMore(s, f, t)
    BY <1>1, <1>4 DEF IsMore
  <2>2. OneMoreStep(OneMoreApply(line), s, f, h, g)
    BY <2>1, OneMoreApplyTyped, StepsOfMore
  <2> QED
    BY <2>2 DEF OneMoreStep
<1>6. ThroughFrom(line, base, t) = OneMoreApply(line)[<<ThroughFrom(line, base, s), f>>]
  BY <1>1, <1>2, <1>4, <1>5
<1>7. ThroughFrom(line, base, s) \in Passage
  BY ThroughTyped
<1> QED
  BY <1>6, <1>7 DEF OneMoreApply

-----------------------------------------------------------------------------
(* What a chain does with one line more.                                   *)

LEMMA SplitLast ==
    ASSUME NEW S, NEW s \in Seq(S), s # << >>
    PROVE  /\ Front(s) \in Seq(S) /\ Last(s) \in S
           /\ s = Append(Front(s), Last(s)) /\ Len(Front(s)) = Len(s) - 1
<1>1. Len(s) \in Nat /\ Len(s) # 0
  OBVIOUS
<1>2. s[Len(s)] \in S
  BY <1>1
<1>3. PICK n \in Nat : n = Len(s) - 1
  BY <1>1
<1>4. SubSeq(s, 1, n) \in Seq(S) /\ Len(SubSeq(s, 1, n)) = n
  BY <1>1, <1>3, SubSeqProperties
<1>5. s = Append(SubSeq(s, 1, n), s[Len(s)])
  <2>1. \A i \in 1 .. n : SubSeq(s, 1, n)[i] = s[i]
    BY <1>3, <1>4
  <2>2. Append(SubSeq(s, 1, n), s[Len(s)]) \in Seq(S)
    BY <1>2, <1>4
  <2>3. Len(Append(SubSeq(s, 1, n), s[Len(s)])) = Len(s)
    BY <1>3, <1>4
  <2>4. \A i \in 1 .. Len(s) : Append(SubSeq(s, 1, n), s[Len(s)])[i] = s[i]
    BY <1>1, <1>3, <1>4, <2>1
  <2> QED
    BY <2>2, <2>3, <2>4, SeqEqual
<1> QED
  BY <1>2, <1>3, <1>4, <1>5 DEF Front, Last

\* What fails for a sequence, and not for the empty one, begins to fail somewhere.
StartsFailing(S, B) == \E q \in Seq(S), e \in S : q \notin B /\ Append(q, e) \in B

LEMMA FirstFailure ==
    ASSUME NEW S, NEW B \in SUBSET Seq(S), B # {}, << >> \notin B
    PROVE  StartsFailing(S, B)
<1> DEFINE D == Seq(S)
           rank == [s \in D |-> Len(s)]
<1>1. rank \in [D -> Nat]
  OBVIOUS
<1> B \in SUBSET D
  OBVIOUS
<1>2. PICK s \in B : \A q \in D : rank[q] < rank[s] => q \notin B
  <2> HIDE DEF D, rank
  <2> QED
    BY <1>1, LeastRank
<1>3. s \in Seq(S) /\ s # << >>
  OBVIOUS
<1>4. /\ Front(s) \in Seq(S) /\ Last(s) \in S
      /\ s = Append(Front(s), Last(s)) /\ Len(Front(s)) = Len(s) - 1
  BY <1>3, SplitLast
<1>5. Front(s) \notin B
  <2>1. rank[Front(s)] = Len(Front(s)) /\ rank[s] = Len(s) /\ Len(s) \in Nat
    BY <1>3, <1>4
  <2> HIDE DEF rank
  <2> QED
    BY <1>2, <1>4, <2>1
<1> QED
  BY <1>4, <1>5 DEF StartsFailing

LEMMA SetOfMore ==
    ASSUME NEW S, NEW s \in Seq(S), NEW e \in S PROVE ToSet(Append(s, e)) = ToSet(s) \cup {e}
<1>1. DOMAIN Append(s, e) = (DOMAIN s) \cup {Len(s) + 1}
  OBVIOUS
<1>2. \A i \in DOMAIN s : Append(s, e)[i] = s[i]
  OBVIOUS
<1>3. Append(s, e)[Len(s) + 1] = e
  OBVIOUS
<1> QED
  BY <1>1, <1>2, <1>3 DEF ToSet

\* A filter that is no count and no file.
Plain == {f \in Filter : ~Counts(f) /\ f.leaf_id # "sfile-name"}
Passes(t, fs) == \A f \in ToSet(fs) : t \in Passing(f)

LEMMA PassesMore ==
    ASSUME NEW t, NEW S, NEW s \in Seq(S), NEW e \in S
    PROVE  Passes(t, Append(s, e)) <=> Passes(t, s) /\ t \in Passing(e)
BY SetOfMore DEF Passes

LEMMA ApplyPlain ==
    ASSUME NEW t \in Texts, NEW acc \in Passage, NEW f \in Plain
    PROVE  Apply(t, acc, f) = IF acc.dropped \/ t \in Passing(f) THEN acc ELSE Drop(acc)
<1>1. /\ f.leaf_id \in LeafIds /\ f.leaf_id # "sfile-name"
      /\ f.leaf_id = "none" => f.value # "count"
  BY FilterIs DEF Plain, Counts
<1>2. IsPattern(f) => (LetsThrough(t, f) <=> t \in Passing(f))
  BY DEF IsPattern, LetsThrough, Passing
<1>3. ~IsPattern(f) => f.value # "count" /\ t \in Passing(f)
  BY <1>1 DEF IsPattern, LeafIds, Passing
<1> QED
  BY <1>1, <1>2, <1>3 DEF Apply

LEMMA FilteredPlain ==
    ASSUME NEW s \in Seq(Item), NEW l \in Item, l.text \in Texts, NEW f \in Plain
    PROVE  Filtered(Append(s, l), f) = IF l.text \in Passing(f) THEN Append(Filtered(s, f), l)
                                       ELSE Filtered(s, f)
<1>1. /\ f.leaf_id \in LeafIds /\ f.leaf_id # "sfile-name" /\ ~Counts(f)
  BY FilterIs DEF Plain
<1>2. CASE IsPattern(f)
  <2>1. \A q : Filtered(q, f) = Only(q, Passing(f))
    BY <1>1, <1>2 DEF Filtered
  <2> QED
    BY <2>1, OnlyOfMore
<1>3. CASE f.leaf_id = "none"
  <2>1. \A q : Filtered(q, f) = q
    BY <1>1, <1>3 DEF Filtered, IsPattern
  <2>2. l.text \in Passing(f)
    BY <1>3 DEF Passing
  <2> QED
    BY <2>1, <2>2
<1> QED
  BY <1>1, <1>2, <1>3 DEF LeafIds, IsPattern

\* A line either comes through the patterns of a chain or is dropped on its way.
LEMMA ThroughPlain ==
    ASSUME NEW t \in Texts, NEW base \in Passage, ~base.dropped, NEW fs \in Seq(Plain)
    PROVE  ThroughFrom(t, base, fs) = IF Passes(t, fs) THEN base ELSE Drop(base)
<1> DEFINE B == {s \in Seq(Plain) :
                   ThroughFrom(t, base, s) # IF Passes(t, s) THEN base ELSE Drop(base)}
<1>1. SUFFICES ASSUME B # {} PROVE FALSE
  OBVIOUS
<1>2. << >> \notin B
  <2>1. ThroughFrom(t, base, << >>) = base
    BY ThroughOfNone
  <2>2. Passes(t, << >>)
    BY DEF Passes, ToSet
  <2> QED
    BY <2>1, <2>2
<1>3. PICK q \in Seq(Plain), e \in Plain : q \notin B /\ Append(q, e) \in B
  <2>1. StartsFailing(Plain, B)
    <3>1. B \in SUBSET Seq(Plain)
      OBVIOUS
    <3> HIDE DEF B
    <3> QED
      BY <1>1, <1>2, <3>1, FirstFailure
  <2> HIDE DEF B
  <2> QED
    BY <2>1 DEF StartsFailing
<1>4. q \in Seq(Filter) /\ e \in Filter
  <2>1. Plain \subseteq Filter
    BY DEF Plain
  <2> QED
    BY <2>1, SeqMonotonic
<1>5. ThroughFrom(t, base, q) = IF Passes(t, q) THEN base ELSE Drop(base)
  BY <1>3
<1>6. ThroughFrom(t, base, Append(q, e)) = Apply(t, ThroughFrom(t, base, q), e)
  BY <1>4, ThroughOfMore
<1>7. ThroughFrom(t, base, q) \in Passage
  BY <1>4, ThroughTyped
<1>8. Passes(t, Append(q, e)) <=> Passes(t, q) /\ t \in Passing(e)
  BY PassesMore
<1>9. CASE Passes(t, q)
  <2>1. Apply(t, base, e) = IF t \in Passing(e) THEN base ELSE Drop(base)
    BY ApplyPlain
  <2> QED
    BY <1>3, <1>5, <1>6, <1>8, <1>9, <2>1
<1>10. CASE ~Passes(t, q)
  <2>1. Drop(base).dropped
    BY DEF Drop, Passage
  <2>2. Drop(base) \in Passage
    BY <1>5, <1>7, <1>10
  <2>3. Apply(t, Drop(base), e) = Drop(base)
    BY <2>1, <2>2, ApplyPlain
  <2> QED
    BY <1>3, <1>5, <1>6, <1>8, <1>10, <2>3
<1> QED
  BY <1>9, <1>10

LEMMA PipelinePlain ==
    ASSUME NEW lines \in Seq(Item), NEW l \in Item, l.text \in Texts, NEW fs \in Seq(Plain)
    PROVE  Pipeline(fs, Append(lines, l)) = IF Passes(l.text, fs) THEN Append(Pipeline(fs, lines), l)
                                            ELSE Pipeline(fs, lines)
<1> PICK more : more = Append(lines, l)
  OBVIOUS
<1>0. more \in Seq(Item)
  OBVIOUS
<1> DEFINE B == {s \in Seq(Plain) :
                   Pipeline(s, more) # IF Passes(l.text, s) THEN Append(Pipeline(s, lines), l)
                                       ELSE Pipeline(s, lines)}
<1>1. SUFFICES ASSUME B # {} PROVE FALSE
  OBVIOUS
<1>2. << >> \notin B
  <2>1. Pipeline(<< >>, lines) = lines /\ Pipeline(<< >>, more) = more
    BY <1>0, PipelineOfNone
  <2>2. Passes(l.text, << >>)
    BY DEF Passes, ToSet
  <2> QED
    BY <2>1, <2>2
<1>3. PICK q \in Seq(Plain), e \in Plain : q \notin B /\ Append(q, e) \in B
  <2>1. StartsFailing(Plain, B)
    <3>1. B \in SUBSET Seq(Plain)
      OBVIOUS
    <3> HIDE DEF B
    <3> QED
      BY <1>1, <1>2, <3>1, FirstFailure
  <2> HIDE DEF B
  <2> QED
    BY <2>1 DEF StartsFailing
<1>4. q \in Seq(Filter) /\ e \in Filter
  <2>1. Plain \subseteq Filter
    BY DEF Plain
  <2> QED
    BY <2>1, SeqMonotonic
<1>5. Pipeline(q, more) = IF Passes(l.text, q) THEN Append(Pipeline(q, lines), l)
                          ELSE Pipeline(q, lines)
  BY <1>3
<1>6. /\ Pipeline(Append(q, e), more) = Filtered(Pipeline(q, more), e)
      /\ Pipeline(Append(q, e), lines) = Filtered(Pipeline(q, lines), e)
  BY <1>0, <1>4, PipelineOfMore
<1>7. Pipeline(q, lines) \in Seq(Item)
  BY <1>4, PipelineTyped
<1>8. Passes(l.text, Append(q, e)) <=> Passes(l.text, q) /\ l.text \in Passing(e)
  BY PassesMore
<1>9. Filtered(Append(Pipeline(q, lines), l), e) =
        IF l.text \in Passing(e) THEN Append(Filtered(Pipeline(q, lines), e), l)
        ELSE Filtered(Pipeline(q, lines), e)
  BY <1>7, FilteredPlain
<1> QED
  BY <1>3, <1>5, <1>6, <1>8, <1>9

-----------------------------------------------------------------------------
(* A chain is patterns and, at its end, a count, a file or neither.        *)

EndsInCount(fs) == fs # << >> /\ Counts(Last(fs))
EndsInFile(fs)  == fs # << >> /\ Last(fs).leaf_id = "sfile-name"
Patterns(fs)    == IF EndsInCount(fs) \/ EndsInFile(fs) THEN Front(fs) ELSE fs

LEMMA OnlyLastEnds ==
    ASSUME NEW fs \in Chains, NEW i \in DOMAIN fs, fs[i] \notin Plain
    PROVE  fs # << >> /\ fs[i] = Last(fs)
<1>1. fs \in Seq(Filter)
  BY ChainTyped
<1>2. fs[i] \in Filter
  BY <1>1
<1>3. fs[i].leaf_id \in {"none", "sfile-name"}
  BY <1>2 DEF Plain, Counts
<1>4. i = Len(fs)
  BY <1>3, FilterAssumption DEF FilterAssumption
<1> QED
  BY <1>1, <1>4 DEF Last

LEMMA FrontIs ==
    ASSUME NEW S, NEW s \in Seq(S), s # << >>
    PROVE  \A i \in DOMAIN Front(s) : i \in DOMAIN s /\ i # Len(s) /\ Front(s)[i] = s[i]
<1>1. /\ Front(s) \in Seq(S) /\ Last(s) \in S
      /\ s = Append(Front(s), Last(s)) /\ Len(Front(s)) = Len(s) - 1
  BY SplitLast
<1>2. PICK q \in Seq(S), e \in S : q = Front(s) /\ e = Last(s)
  BY <1>1
<1>3. s = Append(q, e) /\ Len(s) = Len(q) + 1
  BY <1>1, <1>2
<1>4. \A i \in DOMAIN q : i \in DOMAIN s /\ i # Len(s) /\ q[i] = s[i]
  BY <1>3
<1> QED
  BY <1>2, <1>4

LEMMA ChainSplits ==
    ASSUME NEW fs \in Chains
    PROVE  /\ Patterns(fs) \in Seq(Plain)
           /\ EndsInCount(fs) \/ EndsInFile(fs) =>
                /\ Patterns(fs) \in Seq(Filter)
                /\ Last(fs) \in Filter
                /\ fs = Append(Patterns(fs), Last(fs))
                /\ ToSet(fs) = ToSet(Patterns(fs)) \cup {Last(fs)}
<1>1. fs \in Seq(Filter)
  BY ChainTyped
<1>2. CASE EndsInCount(fs) \/ EndsInFile(fs)
  <2>1. fs # << >> /\ Patterns(fs) = Front(fs)
    BY <1>2 DEF EndsInCount, EndsInFile, Patterns
  <2>2. /\ Front(fs) \in Seq(Filter) /\ Last(fs) \in Filter
        /\ fs = Append(Front(fs), Last(fs)) /\ Len(Front(fs)) = Len(fs) - 1
    BY <1>1, <2>1, SplitLast
  <2>3. \A i \in DOMAIN Front(fs) : i \in DOMAIN fs /\ i # Len(fs) /\ Front(fs)[i] = fs[i]
    BY <1>1, <2>1, FrontIs
  <2>4. ASSUME NEW i \in 1 .. Len(Front(fs)) PROVE Front(fs)[i] \in Plain
    <3>1. i \in DOMAIN fs /\ i # Len(fs) /\ Front(fs)[i] = fs[i]
      BY <2>2, <2>3
    <3>2. fs[i] \in Filter
      BY <1>1, <3>1
    <3>3. fs[i].leaf_id \notin {"none", "sfile-name"}
      BY <3>1, FilterAssumption DEF FilterAssumption
    <3> QED
      BY <3>1, <3>2, <3>3 DEF Plain, Counts
  <2>5. Front(fs) \in Seq(Plain)
    BY <2>2, <2>4
  <2>6. ToSet(fs) = ToSet(Front(fs)) \cup {Last(fs)}
    <3>1. PICK q \in Seq(Filter), e \in Filter : q = Front(fs) /\ e = Last(fs)
      BY <2>2
    <3>2. ToSet(Append(q, e)) = ToSet(q) \cup {e}
      BY SetOfMore
    <3> QED
      BY <2>2, <3>1, <3>2
  <2> QED
    BY <2>1, <2>2, <2>5, <2>6
<1>3. CASE ~(EndsInCount(fs) \/ EndsInFile(fs))
  <2>1. Patterns(fs) = fs
    BY <1>3 DEF Patterns
  <2>2. ASSUME NEW i \in 1 .. Len(fs) PROVE fs[i] \in Plain
    <3>1. i \in DOMAIN fs /\ fs[i] \in Filter
      BY <1>1
    <3>2. SUFFICES ASSUME fs[i] \notin Plain PROVE FALSE
      OBVIOUS
    <3>3. fs # << >> /\ fs[i] = Last(fs)
      BY <3>1, <3>2, OnlyLastEnds
    <3>4. Counts(fs[i]) \/ fs[i].leaf_id = "sfile-name"
      BY <3>1, <3>2 DEF Plain
    <3> QED
      BY <1>3, <3>3, <3>4 DEF EndsInCount, EndsInFile
  <2>3. fs \in Seq(Plain)
    BY <1>1, <2>2
  <2> QED
    BY <1>3, <2>1, <2>3
<1> QED
  BY <1>2, <1>3

\* What is kept of the lines, before they are counted or saved.
Kept(fs, lines) == Pipeline(Patterns(fs), lines)

LEMMA ChainIs ==
    ASSUME NEW fs \in Chains, NEW lines \in Seq(Item)
    PROVE  /\ Kept(fs, lines) \in Seq(Item)
           /\ EndsInCount(fs) => Pipeline(fs, lines) = <<Total(Len(Kept(fs, lines)))>>
           /\ ~EndsInCount(fs) => Pipeline(fs, lines) = Kept(fs, lines)
           /\ ~(EndsInCount(fs) /\ EndsInFile(fs))
<1>1. Plain \subseteq Filter
  BY DEF Plain
<1>2. Patterns(fs) \in Seq(Filter)
  BY <1>1, ChainSplits, SeqMonotonic
<1>3. Kept(fs, lines) \in Seq(Item)
  BY <1>2, PipelineTyped DEF Kept
<1>4. ~(EndsInCount(fs) /\ EndsInFile(fs))
  BY DEF EndsInCount, EndsInFile, Counts
<1>5. ASSUME EndsInCount(fs) \/ EndsInFile(fs)
      PROVE  Pipeline(fs, lines) = Filtered(Kept(fs, lines), Last(fs))
  <2>1. Last(fs) \in Filter /\ fs = Append(Patterns(fs), Last(fs))
    BY <1>5, ChainSplits
  <2> QED
    BY <1>2, <2>1, PipelineOfMore DEF Kept
<1>6. ASSUME EndsInCount(fs) PROVE Pipeline(fs, lines) = <<Total(Len(Kept(fs, lines)))>>
  <2>1. Counts(Last(fs)) /\ ~IsPattern(Last(fs))
    BY <1>6 DEF EndsInCount, Counts, IsPattern
  <2>2. Pipeline(fs, lines) = Filtered(Kept(fs, lines), Last(fs))
    BY <1>5, <1>6
  <2> QED
    BY <2>1, <2>2 DEF Filtered
<1>7. EndsInFile(fs) => Pipeline(fs, lines) = Kept(fs, lines)
  BY <1>5 DEF Filtered, EndsInFile, IsPattern, Counts
<1>8. ~EndsInCount(fs) /\ ~EndsInFile(fs) => Pipeline(fs, lines) = Kept(fs, lines)
  BY DEF Kept, Patterns
<1> QED
  BY <1>3, <1>4, <1>6, <1>7, <1>8

LEMMA KeptOfNone == ASSUME NEW fs \in Chains PROVE Kept(fs, << >>) = << >>
<1> DEFINE B == {s \in Seq(Plain) : Pipeline(s, << >>) # << >>}
<1>1. B = {}
  <2>1. SUFFICES ASSUME B # {} PROVE FALSE
    OBVIOUS
  <2>2. << >> \notin B
    BY NoLines, PipelineOfNone
  <2>3. StartsFailing(Plain, B)
    <3>1. B \in SUBSET Seq(Plain)
      OBVIOUS
    <3> HIDE DEF B
    <3> QED
      BY <2>1, <2>2, <3>1, FirstFailure
  <2>4. PICK q \in Seq(Plain), e \in Plain : q \notin B /\ Append(q, e) \in B
    <3> HIDE DEF B
    <3> QED
      BY <2>3 DEF StartsFailing
  <2>5. q \in Seq(Filter) /\ e \in Filter
    <3>1. Plain \subseteq Filter
      BY DEF Plain
    <3> QED
      BY <3>1, SeqMonotonic
  <2>6. Pipeline(Append(q, e), << >>) = Filtered(Pipeline(q, << >>), e)
    BY <2>5, NoLines, PipelineOfMore
  <2>7. Pipeline(q, << >>) = << >>
    BY <2>4
  <2>8. Filtered(<< >>, e) = << >>
    BY OnlyOfNone DEF Filtered, Plain
  <2> QED
    BY <2>4, <2>6, <2>7, <2>8
<1>2. Patterns(fs) \in Seq(Plain)
  BY ChainSplits
<1> QED
  BY <1>1, <1>2 DEF Kept

\* The ends let every line through.
LEMMA PassesPatterns ==
    ASSUME NEW fs \in Chains, NEW t \in Texts
    PROVE  Passes(t, fs) <=> Passes(t, Patterns(fs))
<1>1. CASE EndsInCount(fs) \/ EndsInFile(fs)
  <2>1. ToSet(fs) = ToSet(Patterns(fs)) \cup {Last(fs)}
    BY <1>1, ChainSplits
  <2>2. t \in Passing(Last(fs))
    BY <1>1 DEF Passing, EndsInCount, EndsInFile, Counts
  <2> QED
    BY <2>1, <2>2 DEF Passes
<1>2. CASE ~(EndsInCount(fs) \/ EndsInFile(fs))
  BY <1>2 DEF Patterns
<1> QED
  BY <1>1, <1>2

LEMMA KeptOfMore ==
    ASSUME NEW fs \in Chains, NEW lines \in Seq(Item), NEW t \in Texts
    PROVE  Kept(fs, Append(lines, Line(t))) = IF Passes(t, fs) THEN Append(Kept(fs, lines), Line(t))
                                              ELSE Kept(fs, lines)
<1>1. PICK l \in Item : l = Line(t) /\ l.text = t
  <2>1. Line(t) \in Item /\ Line(t).text = t
    BY DEF Line, Item
  <2> QED
    BY <2>1
<1>2. Patterns(fs) \in Seq(Plain)
  BY ChainSplits
<1>3. Pipeline(Patterns(fs), Append(lines, l)) =
        IF Passes(l.text, Patterns(fs)) THEN Append(Pipeline(Patterns(fs), lines), l)
        ELSE Pipeline(Patterns(fs), lines)
  BY <1>1, <1>2, PipelinePlain
<1> QED
  BY <1>1, <1>3, PassesPatterns DEF Kept

\* What the loop does with a line that comes to a chain, as the code has it.
LEMMA ThroughChain ==
    ASSUME NEW fs \in Chains, NEW t \in Texts, NEW base \in Passage, ~base.dropped,
           "count" \notin FileNames
    PROVE  /\ ~Passes(t, fs) => ThroughFrom(t, base, fs) = Drop(base)
           /\ Passes(t, fs) =>
                ThroughFrom(t, base, fs) =
                  IF EndsInCount(fs) THEN CountLine(base)
                  ELSE IF EndsInFile(fs) /\ base.file = NULL THEN Open(base, Last(fs).value)
                  ELSE base
<1>1. Patterns(fs) \in Seq(Plain)
  BY ChainSplits
<1>2. ThroughFrom(t, base, Patterns(fs)) = IF Passes(t, fs) THEN base ELSE Drop(base)
  BY <1>1, ThroughPlain, PassesPatterns
<1>3. CASE EndsInCount(fs) \/ EndsInFile(fs)
  <2>1. /\ Patterns(fs) \in Seq(Filter) /\ Last(fs) \in Filter
        /\ fs = Append(Patterns(fs), Last(fs))
    BY <1>3, ChainSplits
  <2>2. ThroughFrom(t, base, fs) = Apply(t, ThroughFrom(t, base, Patterns(fs)), Last(fs))
    BY <2>1, ThroughOfMore
  <2>3. Drop(base).dropped /\ ~base.dropped
    BY DEF Drop, Passage
  <2>4. CASE ~Passes(t, fs)
    BY <1>2, <2>2, <2>3, <2>4 DEF Apply
  <2>5. CASE Passes(t, fs) /\ EndsInCount(fs)
    <3>1. ~IsPattern(Last(fs)) /\ Last(fs).value = "count"
      BY <2>5 DEF EndsInCount, Counts, IsPattern
    <3> QED
      BY <1>2, <2>2, <2>3, <2>5, <3>1 DEF Apply
  <2>6. CASE Passes(t, fs) /\ EndsInFile(fs)
    <3>1. ~IsPattern(Last(fs)) /\ Last(fs).value # "count" /\ Last(fs).leaf_id = "sfile-name"
      BY <2>1, <2>6, FilterIs DEF EndsInFile, IsPattern
    <3>2. ~EndsInCount(fs)
      BY <2>6 DEF EndsInCount, EndsInFile, Counts
    <3> QED
      BY <1>2, <2>2, <2>3, <2>6, <3>1, <3>2 DEF Apply
  <2> QED
    BY <1>3, <2>4, <2>5, <2>6
<1>4. CASE ~(EndsInCount(fs) \/ EndsInFile(fs))
  BY <1>2, <1>4 DEF Patterns
<1> QED
  BY <1>3, <1>4

-----------------------------------------------------------------------------
(* The output of a command.                                                *)

LinesKept == Kept(command.filters, Lines)

\* The static variables while a command runs: filters, count and file are its own.
OwnContext ==
    /\ filter_array = command.filters
    /\ count_filter_present <=> EndsInCount(command.filters) /\ LinesKept # << >>
    /\ count_lines = IF EndsInCount(command.filters) THEN Len(LinesKept) ELSE 0
    /\ fileptr = IF EndsInFile(command.filters) /\ LinesKept # << >>
                 THEN Last(command.filters).value ELSE NULL

\* What was kept is on the screen or in the file, and nothing else.
OnScreen ==
    screen = IF EndsInCount(command.filters) \/ EndsInFile(command.filters) THEN << >>
             ELSE LinesKept
InFile ==
    EndsInFile(command.filters) /\ LinesKept # << >> =>
      files[Last(command.filters).value] = LinesKept

CommandTyped ==
    /\ command \in [kind : Kinds, filters : Chains]
    /\ command.kind = "config" => command.filters = << >>
    /\ printed \in Seq(Texts)
    /\ count_filter_present \in BOOLEAN
    /\ files = [f \in FileNames |-> files[f]]

\* The inductive invariant.
ShowsOutput ==
    /\ CommandTyped
    /\ SomePasses <=> LinesKept # << >>
    /\ ~running => filter_array = << >> /\ Clean
    /\ running => OwnContext
    /\ running /\ ~TC_RUNNING => OnScreen /\ InFile

LEMMA LinesAre ==
    ASSUME printed \in Seq(Texts)
    PROVE  /\ Lines \in Seq(Item) /\ (printed = << >> => Lines = << >>)
           /\ \A t \in Texts : printed' = Append(printed, t) => Lines' = Append(Lines, Line(t))
<1>1. \A i \in DOMAIN printed : Line(printed[i]) \in Item
  BY DEF Line, Item
<1>2. Lines \in Seq(Item) /\ Len(Lines) = Len(printed)
  BY <1>1 DEF Lines
<1>3. printed = << >> => Lines = << >>
  BY <1>2
<1>4. ASSUME NEW t \in Texts, printed' = Append(printed, t) PROVE Lines' = Append(Lines, Line(t))
  <2>1. Line(t) \in Item
    BY DEF Line, Item
  <2>2. PICK n \in Nat : n = Len(printed) /\ DOMAIN printed = 1 .. n
    OBVIOUS
  <2>3. Lines' = [i \in 1 .. (n + 1) |-> Line(printed'[i])]
    BY <1>4, <2>2 DEF Lines
  <2>4. \A i \in 1 .. n : printed'[i] = printed[i] /\ Lines[i] = Line(printed[i])
    BY <1>4, <2>2 DEF Lines
  <2>5. printed'[n + 1] = t
    BY <1>4, <2>2
  <2>6. PICK more \in Seq(Item) : more = Append(Lines, Line(t)) /\ Len(more) = n + 1
    <3>1. PICK ls \in Seq(Item), l \in Item : ls = Lines /\ l = Line(t) /\ Len(ls) = n
      BY <1>2, <2>1, <2>2
    <3>2. Append(ls, l) \in Seq(Item) /\ Len(Append(ls, l)) = n + 1
      BY <3>1
    <3> QED
      BY <3>1, <3>2
  <2>7. \A i \in 1 .. n : more[i] = Lines[i]
    BY <1>2, <2>1, <2>2, <2>6
  <2>8. more[n + 1] = Line(t)
    BY <1>2, <2>1, <2>2, <2>6
  <2>9. \A i \in 1 .. (n + 1) : Lines'[i] = more[i]
    <3>1. TAKE i \in 1 .. (n + 1)
    <3>2. CASE i = n + 1
      BY <2>3, <2>5, <2>8, <3>2
    <3>3. CASE i \in 1 .. n
      BY <2>3, <2>4, <2>7, <3>3
    <3> QED
      BY <2>2, <3>2, <3>3
  <2>10. more = [i \in 1 .. (n + 1) |-> more[i]]
    <3>1. more = [i \in 1 .. Len(more) |-> more[i]]
      OBVIOUS
    <3> QED
      BY <2>6, <3>1
  <2> QED
    BY <2>3, <2>6, <2>9, <2>10
<1> QED
  BY <1>2, <1>3, <1>4

LEMMA LinesKeptOfMore ==
    ASSUME CommandTyped, command' = command, NEW t \in Texts, printed' = Append(printed, t)
    PROVE  LinesKept' = IF Passes(t, command.filters) THEN Append(LinesKept, Line(t)) ELSE LinesKept
<1>1. Lines' = Append(Lines, Line(t)) /\ Lines \in Seq(Item)
  BY LinesAre DEF CommandTyped
<1>2. command.filters \in Chains
  BY DEF CommandTyped
<1>3. Kept(command.filters, Append(Lines, Line(t))) =
        IF Passes(t, command.filters) THEN Append(Kept(command.filters, Lines), Line(t))
        ELSE Kept(command.filters, Lines)
  BY <1>1, <1>2, KeptOfMore
<1>4. LinesKept' = Kept(command.filters, Append(Lines, Line(t)))
  BY <1>1 DEF LinesKept
<1> QED
  BY <1>3, <1>4 DEF LinesKept

LEMMA LinesKeptTyped == ASSUME CommandTyped PROVE LinesKept \in Seq(Item)
BY LinesAre, ChainIs DEF CommandTyped, LinesKept

LEMMA SomePassesOfMore ==
    ASSUME CommandTyped, command' = command, NEW t \in Texts, printed' = Append(printed, t)
    PROVE  SomePasses' <=> SomePasses \/ Passes(t, command.filters)
<1>1. ToSet(printed') = ToSet(printed) \cup {t}
  BY SetOfMore DEF CommandTyped
<1> QED
  BY <1>1 DEF SomePasses, Passes

LEMMA SavedToIs ==
    ASSUME CommandTyped
    PROVE  SavedTo = IF EndsInFile(command.filters) THEN {Last(command.filters).value} ELSE {}
<1> PICK fs \in Chains : fs = command.filters
  BY DEF CommandTyped
<1>1. ASSUME NEW g \in ToSet(fs), g.leaf_id = "sfile-name" PROVE EndsInFile(fs) /\ g = Last(fs)
  <2>1. PICK i \in DOMAIN fs : g = fs[i]
    BY DEF ToSet
  <2>2. g \notin Plain
    BY <1>1 DEF Plain
  <2>3. fs # << >> /\ g = Last(fs)
    BY <2>1, <2>2, OnlyLastEnds
  <2> QED
    BY <1>1, <2>3 DEF EndsInFile
<1>2. EndsInFile(fs) => Last(fs) \in ToSet(fs) /\ Last(fs).leaf_id = "sfile-name"
  BY ChainSplits DEF EndsInFile
<1> QED
  BY <1>1, <1>2 DEF SavedTo

\* Where the loop over the filters starts with a line.
AtStart == [dropped |-> FALSE, present |-> count_filter_present, count |-> count_lines,
            file |-> fileptr, opened |-> FALSE]

LEMMA StartIs ==
    ASSUME ShowsOutput, running
    PROVE  AtStart \in Passage /\ ~AtStart.dropped
<1> PICK fs \in Chains : fs = command.filters
  BY DEF ShowsOutput, CommandTyped
<1>1. LinesKept \in Seq(Item)
  BY LinesKeptTyped DEF ShowsOutput
<1>2. EndsInFile(fs) => Last(fs).value \in FileNames
  BY ChainSplits, FilterIs DEF EndsInFile
<1>3. count_lines \in Nat
  BY <1>1 DEF ShowsOutput, OwnContext
<1>4. fileptr \in FileNames \cup {NULL}
  BY <1>2 DEF ShowsOutput, OwnContext
<1>5. count_filter_present \in BOOLEAN
  BY DEF ShowsOutput, CommandTyped
<1> QED
  BY <1>3, <1>4, <1>5 DEF AtStart, Passage

\* Appending one line, or none.
LEMMA OneLine ==
    ASSUME NEW s \in Seq(Item), NEW l \in Item
    PROVE  /\ s \o <<l>> = Append(s, l) /\ s \o << >> = s
           /\ Append(s, l) # << >> /\ Len(Append(s, l)) = Len(s) + 1
           /\ Append(s, l) \in Seq(Item)
<1>1. <<l>> \in Seq(Item) /\ Len(<<l>>) = 1 /\ <<l>>[1] = l
  OBVIOUS
<1>2. s \o <<l>> = Append(s, l)
  OBVIOUS
<1>3. s \o << >> = s
  OBVIOUS
<1> QED
  BY <1>2, <1>3

\* The context after a line.
LEMMA PrintKeepsContext ==
    ASSUME ShowsOutput, "count" \notin FileNames, NEW t \in Texts, cprintf(t)
    PROVE  OwnContext'
<1> PICK fs \in Chains : fs = command.filters
  BY DEF ShowsOutput, CommandTyped
<1>1. /\ running /\ command' = command /\ printed' = Append(printed, t)
      /\ filter_array' = filter_array
  BY DEF cprintf
<1>2. OwnContext /\ filter_array = fs
  BY <1>1 DEF ShowsOutput, OwnContext
<1>3. AtStart \in Passage /\ ~AtStart.dropped
  BY <1>1, StartIs
<1>4. Through(t) = ThroughFrom(t, AtStart, fs)
  BY <1>2 DEF Through, ThroughFrom, AtStart
<1>5. PICK acc : acc = Through(t)
  OBVIOUS
<1>6. count_lines' = acc.count /\ count_filter_present' = acc.present /\ fileptr' = acc.file
  BY <1>5 DEF cprintf
<1>7. PICK kept \in Seq(Item) : kept = LinesKept
  BY LinesKeptTyped DEF ShowsOutput
<1>8. PICK l \in Item : l = Line(t)
  <2>1. Line(t) \in Item
    BY DEF Line, Item
  <2> QED
    BY <2>1
<1>9. LinesKept' = IF Passes(t, fs) THEN Append(kept, l) ELSE kept
  BY <1>1, <1>7, <1>8, LinesKeptOfMore DEF ShowsOutput
<1>10. Append(kept, l) # << >> /\ Len(Append(kept, l)) = Len(kept) + 1
  BY OneLine
<1>11. ~(EndsInCount(fs) /\ EndsInFile(fs))
  BY DEF EndsInCount, EndsInFile, Counts
<1>12. CASE ~Passes(t, fs)
  <2>1. acc = Drop(AtStart)
    BY <1>3, <1>4, <1>5, <1>12, ThroughChain
  <2>2. acc.count = count_lines /\ acc.present = count_filter_present /\ acc.file = fileptr
    BY <2>1 DEF Drop, AtStart
  <2>3. LinesKept' = LinesKept
    BY <1>7, <1>9, <1>12
  <2> QED
    BY <1>1, <1>2, <1>6, <2>2, <2>3 DEF OwnContext
<1>13. CASE Passes(t, fs) /\ EndsInCount(fs)
  <2>1. acc = CountLine(AtStart)
    BY <1>3, <1>4, <1>5, <1>13, ThroughChain
  <2>2. acc.count = count_lines + 1 /\ acc.present = TRUE /\ acc.file = fileptr
    BY <2>1 DEF CountLine, AtStart
  <2>3. LinesKept' # << >> /\ Len(LinesKept') = count_lines + 1
    BY <1>2, <1>7, <1>9, <1>10, <1>13 DEF OwnContext
  <2>4. fileptr' = NULL /\ ~EndsInFile(fs)
    BY <1>2, <1>6, <1>11, <1>13, <2>2 DEF OwnContext
  <2> QED
    BY <1>1, <1>2, <1>6, <1>13, <2>2, <2>3, <2>4 DEF OwnContext
<1>14. CASE Passes(t, fs) /\ EndsInFile(fs)
  <2>1. acc = IF AtStart.file = NULL THEN Open(AtStart, Last(fs).value) ELSE AtStart
    BY <1>3, <1>4, <1>5, <1>11, <1>14, ThroughChain
  <2>2. AtStart.file = fileptr
    BY DEF AtStart
  <2>3. acc.count = count_lines /\ acc.present = count_filter_present
    BY <2>1 DEF Open, AtStart
  <2>4. acc.file = Last(fs).value
    <3>1. CASE fileptr = NULL
      BY <2>1, <2>2, <3>1 DEF Open, AtStart
    <3>2. CASE fileptr # NULL
      BY <1>2, <2>1, <2>2, <3>2 DEF OwnContext
    <3> QED
      BY <3>1, <3>2
  <2>5. LinesKept' # << >>
    BY <1>9, <1>10, <1>14
  <2> QED
    BY <1>1, <1>2, <1>6, <1>11, <1>14, <2>3, <2>4, <2>5 DEF OwnContext
<1>15. CASE Passes(t, fs) /\ ~EndsInCount(fs) /\ ~EndsInFile(fs)
  <2>1. acc = AtStart
    BY <1>3, <1>4, <1>5, <1>15, ThroughChain
  <2> QED
    BY <1>1, <1>2, <1>6, <1>15, <2>1 DEF OwnContext, AtStart
<1> QED
  BY <1>12, <1>13, <1>14, <1>15

\* What a line adds to the output: itself, if it passes and is not counted.
LEMMA PrintShows ==
    ASSUME ShowsOutput, "count" \notin FileNames, NEW t \in Texts, cprintf(t)
    PROVE  /\ files' = [f \in FileNames |-> files'[f]]
           /\ ~TC_RUNNING => OnScreen' /\ InFile' /\ Cumbuffer' = Cumbuffer
           /\ TC_RUNNING =>
                Cumbuffer' = Cumbuffer \o (IF Passes(t, command.filters)
                                              /\ ~EndsInCount(command.filters)
                                           THEN <<Line(t)>> ELSE << >>)
<1> PICK fs \in Chains : fs = command.filters
  BY DEF ShowsOutput, CommandTyped
<1>1. /\ running /\ command' = command /\ printed' = Append(printed, t)
      /\ filter_array' = filter_array
  BY DEF cprintf
<1>2. OwnContext /\ filter_array = fs
  BY <1>1 DEF ShowsOutput, OwnContext
<1>3. AtStart \in Passage /\ ~AtStart.dropped
  BY <1>1, StartIs
<1>4. Through(t) = ThroughFrom(t, AtStart, fs)
  BY <1>2 DEF Through, ThroughFrom, AtStart
<1>5. PICK acc : acc = Through(t)
  OBVIOUS
<1>6. PICK kept \in Seq(Item) : kept = LinesKept
  BY LinesKeptTyped DEF ShowsOutput
<1>7. PICK l \in Item : l = Line(t)
  <2>1. Line(t) \in Item
    BY DEF Line, Item
  <2> QED
    BY <2>1
<1>8. LinesKept' = IF Passes(t, fs) THEN Append(kept, l) ELSE kept
  BY <1>1, <1>6, <1>7, LinesKeptOfMore DEF ShowsOutput
<1>9. /\ Append(kept, l) # << >> /\ kept \o <<l>> = Append(kept, l) /\ kept \o << >> = kept
      /\ << >> \o <<l>> = Append(<< >>, l)
  BY NoLines, OneLine
<1>10. ~(EndsInCount(fs) /\ EndsInFile(fs))
  BY DEF EndsInCount, EndsInFile, Counts
<1>11. ~TC_RUNNING => OnScreen /\ InFile
  BY <1>1 DEF ShowsOutput
<1>12. PICK lines : lines = IF acc.dropped \/ acc.present THEN << >> ELSE <<Line(t)>>
  OBVIOUS
<1>13. PICK disk : disk = IF acc.opened THEN [files EXCEPT ![acc.file] = << >>] ELSE files
  OBVIOUS
<1>14. /\ TC_RUNNING => Cumbuffer' = Cumbuffer \o lines /\ files' = disk
       /\ ~TC_RUNNING /\ acc.file # NULL =>
                /\ files' = [disk EXCEPT ![acc.file] = @ \o lines]
                /\ screen' = screen /\ Cumbuffer' = Cumbuffer
       /\ ~TC_RUNNING /\ acc.file = NULL =>
                screen' = screen \o lines /\ files' = disk /\ Cumbuffer' = Cumbuffer
  BY <1>5, <1>12, <1>13 DEF cprintf, Render
<1>15. files = [f \in FileNames |-> files[f]]
  BY DEF ShowsOutput, CommandTyped
<1>16. files' = [f \in FileNames |-> files'[f]]
  <2>1. disk = [f \in FileNames |-> disk[f]]
    BY <1>13, <1>15
  <2> QED
    BY <1>14, <2>1
<1>17. TC_RUNNING' = TC_RUNNING
  BY DEF cprintf
<1>18. NULL \notin FileNames
  BY FilterAssumption DEF FilterAssumption
<1>19. EndsInFile(fs) => Last(fs).value \in FileNames
  BY ChainSplits, FilterIs DEF EndsInFile
<1>20. CASE ~Passes(t, fs)
  <2>1. acc = Drop(AtStart)
    BY <1>3, <1>4, <1>5, <1>20, ThroughChain
  <2>2. acc.dropped = TRUE /\ acc.opened = FALSE /\ acc.file = fileptr
    BY <2>1 DEF Drop, AtStart
  <2>3. lines = << >> /\ disk = files /\ LinesKept' = LinesKept
    BY <1>6, <1>8, <1>12, <1>13, <1>20, <2>2
  <2>4. ASSUME ~TC_RUNNING PROVE OnScreen' /\ InFile' /\ Cumbuffer' = Cumbuffer
    <3>1. OnScreen /\ InFile
      BY <1>11, <2>4
    <3>2. CASE fileptr = NULL
      <4>1. ~(EndsInFile(fs) /\ LinesKept # << >>)
        BY <1>2, <1>18, <1>19, <3>2 DEF OwnContext
      <4>2. screen' = screen \o << >> /\ Cumbuffer' = Cumbuffer
        BY <1>14, <2>2, <2>3, <2>4, <3>2
      <4>3. screen' = screen
        BY <1>6, <1>9, <3>1, <4>2 DEF OnScreen
      <4> QED
        BY <1>1, <2>3, <3>1, <4>1, <4>2, <4>3 DEF OnScreen, InFile
    <3>3. CASE fileptr # NULL
      <4>1. fileptr = Last(fs).value /\ EndsInFile(fs) /\ LinesKept # << >>
        BY <1>2, <3>3 DEF OwnContext
      <4>2. files[fileptr] = kept
        BY <1>6, <3>1, <4>1 DEF InFile
      <4>3. /\ files' = [files EXCEPT ![fileptr] = @ \o << >>]
            /\ screen' = screen /\ Cumbuffer' = Cumbuffer
        BY <1>14, <2>2, <2>3, <2>4, <3>3
      <4>4. files'[fileptr] = kept
        BY <1>9, <1>15, <1>19, <4>1, <4>2, <4>3
      <4> QED
        BY <1>1, <1>6, <2>3, <3>1, <4>1, <4>3, <4>4 DEF OnScreen, InFile
    <3> QED
      BY <3>2, <3>3
  <2> QED
    BY <1>14, <1>16, <1>20, <2>3, <2>4
<1>21. CASE Passes(t, fs) /\ EndsInCount(fs)
  <2>1. acc = CountLine(AtStart)
    BY <1>3, <1>4, <1>5, <1>21, ThroughChain
  <2>2. acc.present = TRUE /\ acc.opened = FALSE /\ acc.file = fileptr
    BY <2>1 DEF CountLine, AtStart
  <2>3. lines = << >> /\ disk = files /\ fileptr = NULL /\ ~EndsInFile(fs)
    BY <1>2, <1>10, <1>12, <1>13, <1>21, <2>2 DEF OwnContext
  <2>4. ASSUME ~TC_RUNNING PROVE OnScreen' /\ InFile' /\ Cumbuffer' = Cumbuffer
    <3>1. screen = << >>
      BY <1>11, <1>21, <2>4 DEF OnScreen
    <3>2. screen' = screen \o << >> /\ Cumbuffer' = Cumbuffer
      BY <1>14, <2>2, <2>3, <2>4
    <3>3. screen' = << >>
      BY <3>1, <3>2
    <3> QED
      BY <1>1, <1>21, <2>3, <3>2, <3>3 DEF OnScreen, InFile
  <2> QED
    BY <1>14, <1>16, <1>21, <2>3, <2>4
<1>22. CASE Passes(t, fs) /\ EndsInFile(fs)
  <2>1. acc = IF AtStart.file = NULL THEN Open(AtStart, Last(fs).value) ELSE AtStart
    BY <1>3, <1>4, <1>5, <1>10, <1>22, ThroughChain
  <2>2. /\ AtStart.file = fileptr /\ AtStart.dropped = FALSE /\ AtStart.opened = FALSE
        /\ AtStart.present = count_filter_present
    BY DEF AtStart
  <2>3. ~count_filter_present /\ ~EndsInCount(fs)
    BY <1>2, <1>10, <1>22 DEF OwnContext
  <2>4. ~acc.dropped /\ ~acc.present
    BY <2>1, <2>2, <2>3 DEF Open, AtStart
  <2>5. lines = <<l>>
    BY <1>7, <1>12, <2>4
  <2>6. ~TC_RUNNING => /\ acc.file = Last(fs).value /\ disk[acc.file] = kept
                       /\ disk = [f \in FileNames |-> disk[f]]
    <3>1. CASE fileptr = NULL
      <4>1. acc.file = Last(fs).value /\ acc.opened = TRUE
        BY <2>1, <2>2, <3>1 DEF Open, AtStart
      <4>2. kept = << >>
        BY <1>2, <1>6, <1>18, <1>19, <1>22, <3>1 DEF OwnContext
      <4>3. disk = [files EXCEPT ![acc.file] = << >>]
        BY <1>13, <4>1
      <4> QED
        BY <1>15, <1>19, <1>22, <4>1, <4>2, <4>3
    <3>2. CASE fileptr # NULL
      <4>1. fileptr = Last(fs).value /\ LinesKept # << >>
        BY <1>2, <3>2 DEF OwnContext
      <4>2. acc.file = fileptr /\ acc.opened = FALSE
        BY <2>1, <2>2, <3>2
      <4>3. disk = files
        BY <1>13, <4>2
      <4>4. TC_RUNNING \/ files[fileptr] = kept
        BY <1>6, <1>11, <1>22, <4>1 DEF InFile
      <4> QED
        BY <1>15, <4>1, <4>2, <4>3, <4>4
    <3> QED
      BY <3>1, <3>2
  <2>7. ASSUME ~TC_RUNNING PROVE OnScreen' /\ InFile' /\ Cumbuffer' = Cumbuffer
    <3>1. /\ acc.file = Last(fs).value /\ acc.file \in FileNames /\ disk[acc.file] = kept
          /\ disk = [f \in FileNames |-> disk[f]]
      BY <1>19, <1>22, <2>6, <2>7
    <3>2. acc.file # NULL
      BY <1>18, <3>1
    <3>3. /\ files' = [disk EXCEPT ![acc.file] = @ \o lines]
          /\ screen' = screen /\ Cumbuffer' = Cumbuffer
      BY <1>14, <2>7, <3>2
    <3>4. files'[acc.file] = kept \o <<l>>
      BY <2>5, <3>1, <3>3
    <3>5. files'[Last(fs).value] = LinesKept'
      BY <1>8, <1>9, <1>22, <3>1, <3>4
    <3>6. screen' = << >>
      BY <1>11, <1>22, <2>7, <3>3 DEF OnScreen
    <3> QED
      BY <1>1, <1>22, <3>3, <3>5, <3>6 DEF OnScreen, InFile
  <2> QED
    BY <1>7, <1>14, <1>16, <1>22, <2>3, <2>5, <2>7
<1>23. CASE Passes(t, fs) /\ ~EndsInCount(fs) /\ ~EndsInFile(fs)
  <2>1. acc = AtStart
    BY <1>3, <1>4, <1>5, <1>23, ThroughChain
  <2>2. fileptr = NULL /\ ~count_filter_present
    BY <1>2, <1>23 DEF OwnContext
  <2>3. lines = <<l>> /\ disk = files /\ acc.file = NULL
    BY <1>7, <1>12, <1>13, <2>1, <2>2 DEF AtStart
  <2>4. ASSUME ~TC_RUNNING PROVE OnScreen' /\ InFile' /\ Cumbuffer' = Cumbuffer
    <3>1. screen = kept
      BY <1>6, <1>11, <1>23, <2>4 DEF OnScreen
    <3>2. screen' = screen \o <<l>> /\ Cumbuffer' = Cumbuffer
      BY <1>14, <2>3, <2>4
    <3>3. screen' = LinesKept'
      BY <1>8, <1>9, <1>23, <3>1, <3>2
    <3> QED
      BY <1>1, <1>23, <3>2, <3>3 DEF OnScreen, InFile
  <2> QED
    BY <1>7, <1>14, <1>16, <1>23, <2>3, <2>4
<1> QED
  BY <1>20, <1>21, <1>22, <1>23

LEMMA PrintKeepsShows ==
    ASSUME ShowsOutput, "count" \notin FileNames, NEW t \in Texts, cprintf(t)
    PROVE  ShowsOutput'
<1>1. /\ running /\ running' = running /\ command' = command /\ printed' = Append(printed, t)
      /\ filter_array' = filter_array /\ TC_RUNNING' = TC_RUNNING
  BY DEF cprintf
<1>2. OwnContext'
  BY PrintKeepsContext
<1>3. /\ files' = [f \in FileNames |-> files'[f]]
      /\ ~TC_RUNNING => OnScreen' /\ InFile'
  BY PrintShows
<1>4. count_filter_present' \in BOOLEAN
  <2>1. AtStart \in Passage /\ filter_array \in Seq(Filter)
    BY <1>1, StartIs, ChainTyped DEF ShowsOutput, OwnContext, CommandTyped
  <2>2. Through(t) = ThroughFrom(t, AtStart, filter_array)
    BY DEF Through, ThroughFrom, AtStart
  <2>3. Through(t) \in Passage
    BY <2>1, <2>2, ThroughTyped
  <2>4. count_filter_present' = Through(t).present
    BY DEF cprintf
  <2> QED
    BY <2>3, <2>4 DEF Passage
<1>5. printed' \in Seq(Texts)
  BY <1>1 DEF ShowsOutput, CommandTyped
<1>6. CommandTyped'
  BY <1>1, <1>3, <1>4, <1>5 DEF ShowsOutput, CommandTyped
<1>7. SomePasses' <=> LinesKept' # << >>
  <2>1. SomePasses' <=> SomePasses \/ Passes(t, command.filters)
    BY <1>1, SomePassesOfMore DEF ShowsOutput
  <2>2. LinesKept' = IF Passes(t, command.filters) THEN Append(LinesKept, Line(t)) ELSE LinesKept
    BY <1>1, LinesKeptOfMore DEF ShowsOutput
  <2>3. Append(LinesKept, Line(t)) # << >>
    <3>1. LinesKept \in Seq(Item) /\ Line(t) \in Item
      BY LinesKeptTyped DEF ShowsOutput, Line, Item
    <3> QED
      BY <3>1, OneLine
  <2> QED
    BY <2>1, <2>2, <2>3 DEF ShowsOutput
<1> QED
  BY <1>1, <1>2, <1>3, <1>6, <1>7 DEF ShowsOutput

LEMMA SubmitKeepsShows ==
    ASSUME ShowsOutput, NEW kind \in Kinds, NEW fs \in Chains, Submit(kind, fs)
    PROVE  ShowsOutput' /\ LinesKept' = << >>
<1>1. /\ ~running /\ command' = [kind |-> kind, filters |-> fs] /\ running' = TRUE
      /\ printed' = << >> /\ screen' = << >> /\ count_lines' = count_lines
      /\ count_filter_present' = count_filter_present /\ fileptr' = fileptr /\ files' = files
      /\ (kind = "config" => fs = << >>)
      /\ filter_array' = IF fs # << >> THEN fs ELSE filter_array
  BY DEF Submit
<1>2. filter_array = << >> /\ Clean
  BY <1>1 DEF ShowsOutput
<1>3. command'.filters = fs /\ command'.kind = kind
  BY <1>1
<1>4. CommandTyped'
  <2>1. printed' \in Seq(Texts)
    <3>1. << >> \in Seq(Texts)
      OBVIOUS
    <3> QED
      BY <1>1, <3>1
  <2> QED
    BY <1>1, <1>3, <2>1 DEF ShowsOutput, CommandTyped
<1>5. LinesKept' = << >>
  <2>1. Lines' = << >>
    BY <1>1 DEF Lines
  <2> QED
    BY <1>3, <2>1, KeptOfNone DEF LinesKept
<1>6. ~SomePasses'
  BY <1>1 DEF SomePasses, ToSet
<1>7. OwnContext'
  <2>1. filter_array' = fs
    BY <1>1, <1>2
  <2>2. count_lines' = 0 /\ ~count_filter_present' /\ fileptr' = NULL
    BY <1>1, <1>2 DEF Clean
  <2> QED
    BY <1>3, <1>5, <2>1, <2>2 DEF OwnContext
<1>8. OnScreen' /\ InFile'
  BY <1>1, <1>5 DEF OnScreen, InFile
<1> QED
  BY <1>1, <1>4, <1>5, <1>6, <1>7, <1>8 DEF ShowsOutput

\* Ending a command leaves nothing of it but its output.
LEMMA EndKeepsShows ==
    ASSUME ShowsOutput, EndOperational \/ EndConfig
    PROVE  /\ ShowsOutput' /\ ~running' /\ files' = files
           /\ LinesKept' = LinesKept /\ SomePasses' = SomePasses /\ Result' = Result
           /\ SavedTo' = SavedTo
<1>1. /\ running /\ ~running' /\ command' = command /\ printed' = printed /\ files' = files
  BY DEF EndOperational, EndConfig, out
<1>2. /\ LinesKept' = LinesKept /\ SomePasses' = SomePasses /\ Result' = Result
      /\ SavedTo' = SavedTo
  BY <1>1 DEF LinesKept, Lines, SomePasses, Result, SavedTo
<1>3. filter_array' = << >> /\ Clean' /\ count_filter_present' = FALSE
  <2>1. CASE EndOperational
    BY <2>1 DEF EndOperational, Unset, Clean
  <2>2. CASE EndConfig
    <3>1. command.filters = << >> /\ OwnContext
      BY <1>1, <2>2 DEF EndConfig, ShowsOutput, CommandTyped
    <3>2. filter_array = << >> /\ Clean /\ count_filter_present \in BOOLEAN
      BY <3>1 DEF ShowsOutput, CommandTyped, OwnContext, Clean, EndsInCount, EndsInFile
    <3> QED
      BY <2>2, <3>2 DEF EndConfig, context, Clean
  <2> QED
    BY <2>1, <2>2
<1>4. CommandTyped'
  BY <1>1, <1>3 DEF ShowsOutput, CommandTyped
<1> QED
  BY <1>1, <1>2, <1>3, <1>4 DEF ShowsOutput

\* What the output of a command is when it ends.
LEMMA EndShows ==
    ASSUME ShowsOutput, EndOperational \/ EndConfig, ~TC_RUNNING, SomePasses
    PROVE  IF SavedTo = {} THEN screen' = Result
           ELSE screen' = << >> /\ \A f \in SavedTo : files'[f] = Result
<1> PICK fs \in Chains : fs = command.filters
  BY DEF ShowsOutput, CommandTyped
<1>1. running /\ OwnContext /\ OnScreen /\ InFile /\ CommandTyped /\ LinesKept # << >>
  BY DEF EndOperational, EndConfig, ShowsOutput
<1>2. PICK kept \in Seq(Item) : kept = LinesKept
  BY <1>1, LinesKeptTyped
<1>3. /\ EndsInCount(fs) => Result = <<Total(Len(kept))>>
      /\ ~EndsInCount(fs) => Result = kept
      /\ ~(EndsInCount(fs) /\ EndsInFile(fs))
  BY <1>1, <1>2, ChainIs, LinesAre DEF Result, LinesKept, CommandTyped
<1>4. SavedTo = IF EndsInFile(fs) THEN {Last(fs).value} ELSE {}
  BY <1>1, SavedToIs
<1>5. files' = files
  BY EndKeepsShows
<1>6. CASE EndsInCount(fs)
  <2>1. count_filter_present /\ count_lines = Len(kept) /\ screen = << >>
    BY <1>1, <1>2, <1>6 DEF OwnContext, OnScreen
  <2>2. command.kind # "config" /\ EndOperational
    BY <1>1, <1>6 DEF CommandTyped, EndsInCount, EndConfig
  <2>3. screen' = << >> \o <<Total(Len(kept))>>
    BY <2>1, <2>2 DEF EndOperational
  <2>4. screen' = <<Total(Len(kept))>>
    BY <2>3
  <2> QED
    BY <1>3, <1>4, <1>6, <2>4
<1>7. CASE ~EndsInCount(fs)
  <2>1. ~count_filter_present
    BY <1>1, <1>7 DEF OwnContext
  <2>2. screen' = screen
    <3>1. CASE EndOperational
      <4>1. screen \in Seq(Item)
        BY <1>1, <1>2, NoLines DEF OnScreen
      <4>2. screen' = screen \o << >>
        BY <2>1, <3>1 DEF EndOperational
      <4> QED
        BY <4>1, <4>2
    <3>2. CASE EndConfig
      BY <3>2 DEF EndConfig, out
    <3> QED
      BY <3>1, <3>2
  <2>3. screen = IF EndsInFile(fs) THEN << >> ELSE kept
    BY <1>1, <1>2, <1>7 DEF OnScreen
  <2>4. EndsInFile(fs) => files[Last(fs).value] = kept
    BY <1>1, <1>2 DEF InFile
  <2> QED
    BY <1>3, <1>4, <1>5, <1>7, <2>2, <2>3, <2>4
<1> QED
  BY <1>6, <1>7

\* Of the filters by themselves, no test case runs.
FiltersShow ==
    /\ ShowsOutput
    /\ TC_RUNNING = FALSE /\ running \in BOOLEAN
    /\ OutputIsFiltered

LEMMA InitShows == ASSUME Init PROVE ShowsOutput /\ ~SomePasses
<1>1. << >> \in Chains /\ << >> \in Seq(Texts)
  BY FilterAssumption DEF FilterAssumption
<1>2. CommandTyped
  <2>1. files = [f \in FileNames |-> files[f]]
    BY DEF Init, Old
  <2>2. command = [kind |-> "config", filters |-> << >>]
    BY DEF Init, NoCommand
  <2>3. command \in [kind : Kinds, filters : Chains] /\ command.filters = << >>
    BY <1>1, <2>2 DEF Kinds
  <2> QED
    BY <1>1, <2>1, <2>3 DEF CommandTyped, Init
<1>3. LinesKept = << >>
  <2>1. Lines = << >>
    BY DEF Init, Lines
  <2> QED
    BY <1>2, <2>1, KeptOfNone DEF LinesKept, CommandTyped
<1>4. ~SomePasses
  BY DEF Init, SomePasses, ToSet
<1> QED
  BY <1>2, <1>3, <1>4 DEF Init, ShowsOutput, Clean

LEMMA NextKeepsFiltersShow ==
    ASSUME "count" \notin FileNames, FiltersShow, [Next]_vars PROVE FiltersShow'
<1>1. ASSUME NEW kind \in Kinds, NEW fs \in Chains, Submit(kind, fs) PROVE FiltersShow'
  <2>1. ShowsOutput'
    BY <1>1, SubmitKeepsShows DEF FiltersShow
  <2>2. running' = TRUE /\ TC_RUNNING' = TC_RUNNING
    BY <1>1 DEF Submit
  <2> QED
    BY <2>1, <2>2 DEF FiltersShow, OutputIsFiltered, Shown
<1>2. ASSUME NEW t \in Texts, cprintf(t) PROVE FiltersShow'
  <2>1. ShowsOutput'
    BY <1>2, PrintKeepsShows DEF FiltersShow
  <2>2. running' /\ running' = running /\ TC_RUNNING' = TC_RUNNING
    BY <1>2 DEF cprintf
  <2> QED
    BY <2>1, <2>2 DEF FiltersShow, OutputIsFiltered, Shown
<1>3. CASE EndOperational \/ EndConfig
  <2>1. /\ ShowsOutput' /\ SomePasses' = SomePasses /\ Result' = Result /\ SavedTo' = SavedTo
    BY <1>3, EndKeepsShows DEF FiltersShow
  <2>2. running' = FALSE /\ TC_RUNNING' = TC_RUNNING
    BY <1>3 DEF EndOperational, EndConfig
  <2>3. SomePasses => IF SavedTo = {} THEN screen' = Result
                      ELSE screen' = << >> /\ \A f \in SavedTo : files'[f] = Result
    BY <1>3, EndShows DEF FiltersShow
  <2>4. OutputIsFiltered'
    BY <2>1, <2>3 DEF OutputIsFiltered
  <2> QED
    BY <2>1, <2>2, <2>4 DEF FiltersShow
<1>4. CASE UNCHANGED vars
  <2> USE <1>4 DEF vars, context, out
  <2>1. Lines' = Lines /\ SomePasses' = SomePasses /\ Result' = Result /\ SavedTo' = SavedTo
    BY DEF Lines, SomePasses, Result, SavedTo
  <2>2. LinesKept' = LinesKept
    BY <2>1 DEF LinesKept
  <2>3. ShowsOutput'
    BY <2>1, <2>2 DEF FiltersShow, ShowsOutput, CommandTyped, Clean, OwnContext, OnScreen, InFile
  <2> QED
    BY <2>1, <2>3 DEF FiltersShow, OutputIsFiltered, Shown
<1> QED
  BY <1>1, <1>2, <1>3, <1>4 DEF Next, Run

\* For any lines and patterns, chains of any length and output of any size: if a line
\* passes the patterns, then what the user sees, or finds in the file, is what the
\* chain means, however the loop of cprintf took the lines one by one through static
\* variables, and whatever commands ran before.  A file named count is excepted,
\* which the loop takes for the filter.
THEOREM OutputIsFilteredHolds ==
    ASSUME "count" \notin FileNames
    PROVE  Spec => []OutputIsFiltered
<1>1. Init => FiltersShow
  BY InitShows DEF FiltersShow, OutputIsFiltered, Init
<1>2. FiltersShow /\ [Next]_vars => FiltersShow'
  BY NextKeepsFiltersShow
<1>3. FiltersShow => OutputIsFiltered
  BY DEF FiltersShow
<1> QED
  BY <1>1, <1>2, <1>3, PTL DEF Spec

-----------------------------------------------------------------------------
(* The test runner with the filters in it.                                 *)

\* The queue holds one message.
OneMessage == UT_PARSER_MSG_Q = << >> \/ \E m : UT_PARSER_MSG_Q = <<m>>

\* A message is sent by a show command of a running test case and by nothing
\* else, and the step after it takes it out: a command of the user never sends
\* one, since at the prompt no test case runs.
OnlyForReceive == UT_PARSER_MSG_Q # << >> => step = "receive"
NoTestAtPrompt == step = "shell" => ~TC_RUNNING
ScriptCommand == step = "cmd" => command.kind \in ScriptKinds

\* The inductive invariant.
Drained ==
    /\ crashes \in Nat
    /\ OneMessage
    /\ crashes = 0 => OnlyForReceive /\ NoTestAtPrompt /\ ScriptCommand

LEMMA InitDrained == ASSUME UtInit PROVE Drained
BY DEF UtInit, Init, Drained, OneMessage, OnlyForReceive, NoTestAtPrompt, ScriptCommand

\* What ends a command leaves at most one message, and outside of a test case
\* none that was not there.
LEMMA EndKeepsOneMessage ==
    ASSUME OneMessage, EndOperational \/ EndConfig
    PROVE  /\ OneMessage'
           /\ ~TC_RUNNING \/ EndConfig => UT_PARSER_MSG_Q' = UT_PARSER_MSG_Q
           /\ TC_RUNNING' = TC_RUNNING /\ command' = command
<1>1. CASE EndOperational
  <2>1. CASE TC_RUNNING
    <3>1. UT_PARSER_MSG_Q' = UT_PARSER_MSG_Q \/ \E m : UT_PARSER_MSG_Q' = <<m>>
      BY <1>1, <2>1 DEF EndOperational, Push
    <3>2. ~EndConfig
      BY <1>1 DEF EndOperational, EndConfig
    <3> QED
      BY <1>1, <2>1, <3>1, <3>2 DEF EndOperational, OneMessage
  <2>2. CASE ~TC_RUNNING
    <3>1. UT_PARSER_MSG_Q' = UT_PARSER_MSG_Q
      BY <1>1, <2>2 DEF EndOperational
    <3> QED
      BY <1>1, <3>1 DEF EndOperational, OneMessage
  <2> QED
    BY <2>1, <2>2
<1>2. CASE EndConfig
  BY <1>2 DEF EndConfig, OneMessage, out
<1> QED
  BY <1>1, <1>2

\* The commands of the user.
LEMMA ShellKeepsDrained == ASSUME Drained, ShellCommand PROVE Drained'
<1>1. step = "shell" /\ step' = "shell" /\ crashes' = crashes
  BY DEF ShellCommand, runner
<1>2. CASE \E kind \in Kinds, fs \in Chains : Submit(kind, fs)
  <2>1. TC_RUNNING' = TC_RUNNING /\ UT_PARSER_MSG_Q' = UT_PARSER_MSG_Q
    BY <1>2 DEF Submit
  <2> QED
    BY <1>1, <2>1 DEF Drained, OneMessage, OnlyForReceive, NoTestAtPrompt, ScriptCommand
<1>3. CASE \E t \in Texts : cprintf(t)
  <2>1. TC_RUNNING' = TC_RUNNING /\ UT_PARSER_MSG_Q' = UT_PARSER_MSG_Q
    BY <1>3 DEF cprintf
  <2> QED
    BY <1>1, <2>1 DEF Drained, OneMessage, OnlyForReceive, NoTestAtPrompt, ScriptCommand
<1>4. CASE EndOperational \/ EndConfig
  <2>1. OneMessage' /\ TC_RUNNING' = TC_RUNNING
    BY <1>4, EndKeepsOneMessage DEF Drained
  <2>2. ASSUME crashes = 0
        PROVE  OnlyForReceive' /\ NoTestAtPrompt' /\ ScriptCommand'
    <3>1. ~TC_RUNNING
      BY <1>1, <2>2 DEF Drained, NoTestAtPrompt
    <3>2. UT_PARSER_MSG_Q' = UT_PARSER_MSG_Q
      BY <1>4, <3>1, EndKeepsOneMessage DEF Drained
    <3> QED
      BY <1>1, <2>1, <2>2, <3>2 DEF Drained, OnlyForReceive, NoTestAtPrompt, ScriptCommand
  <2> QED
    BY <1>1, <2>1, <2>2 DEF Drained
<1> QED
  BY <1>2, <1>3, <1>4 DEF ShellCommand, Run

\* A line of a script that runs no command.
LEMMA ReadingKeepsDrained ==
    ASSUME Drained, step \in {"shell", "read"}, step' \in {"shell", "read", "receive"},
           crashes' = crashes, UT_PARSER_MSG_Q' = UT_PARSER_MSG_Q,
           step' = "shell" => ~TC_RUNNING'
    PROVE  Drained'
BY DEF Drained, OneMessage, OnlyForReceive, NoTestAtPrompt, ScriptCommand

LEMMA LineKeepsDrained ==
    ASSUME Drained,
           \/ RunTest \/ TestcaseBegin \/ TestcaseEnd \/ Abort
           \/ \E show \in BOOLEAN : CommandRejected(show)
           \/ \E p \in DOMAIN Matches :
                (\E match \in BOOLEAN : Compare(p, match)) \/ GrepReceived(p)
    PROVE  Drained'
<1>1. /\ crashes' = crashes /\ UT_PARSER_MSG_Q' = UT_PARSER_MSG_Q
      /\ step \in {"shell", "read"} /\ step' \in {"shell", "read", "receive"}
      /\ step' = "shell" => ~TC_RUNNING'
  <2> USE DEF Reading, NotTC, out, vars, EndOfRun, AfterCommand
  <2>1. CASE RunTest
    BY <2>1 DEF RunTest
  <2>2. CASE TestcaseBegin
    BY <2>2 DEF TestcaseBegin
  <2>3. CASE TestcaseEnd
    BY <2>3 DEF TestcaseEnd
  <2>4. CASE Abort
    BY <2>4 DEF Abort
  <2>5. CASE \E show \in BOOLEAN : CommandRejected(show)
    BY <2>5 DEF CommandRejected
  <2>6. CASE \E p \in DOMAIN Matches : \E match \in BOOLEAN : Compare(p, match)
    BY <2>6 DEF Compare
  <2>7. CASE \E p \in DOMAIN Matches : GrepReceived(p)
    BY <2>7 DEF GrepReceived
  <2> QED
    BY <2>1, <2>2, <2>3, <2>4, <2>5, <2>6, <2>7
<1> QED
  BY <1>1, ReadingKeepsDrained

\* A command of a script.
LEMMA CommandKeepsDrained ==
    ASSUME Drained, NEW kind \in ScriptKinds, NEW fs \in Chains, Command(kind, fs)
    PROVE  Drained'
<1>1. /\ step = "read" /\ step' = "cmd" /\ crashes' = crashes
      /\ UT_PARSER_MSG_Q' = UT_PARSER_MSG_Q /\ command'.kind = kind
  BY DEF Command, Reading, Submit
<1> QED
  BY <1>1 DEF Drained, OneMessage, OnlyForReceive, NoTestAtPrompt, ScriptCommand

LEMMA CommandRunsKeepsDrained ==
    ASSUME UtAssumption, "oper" \notin ScriptKinds, Drained, CommandRuns
    PROVE  Drained'
<1>1. step = "cmd" /\ crashes' = crashes
  BY DEF CommandRuns
<1>2. CASE (\E t \in Texts : cprintf(t)) /\ step' = step
  <2>1. command' = command /\ UT_PARSER_MSG_Q' = UT_PARSER_MSG_Q
    BY <1>2 DEF cprintf
  <2> QED
    BY <1>1, <1>2, <2>1 DEF Drained, OneMessage, OnlyForReceive, NoTestAtPrompt, ScriptCommand
<1>3. CASE (EndOperational \/ EndConfig) /\ AfterCommand(command.kind = "show")
  <2>1. OneMessage'
    BY <1>3, EndKeepsOneMessage DEF Drained
  <2>2. step' \in {"read", "receive"}
    BY <1>3 DEF AfterCommand
  <2>3. ASSUME crashes = 0 PROVE OnlyForReceive'
    <3>1. UT_PARSER_MSG_Q = << >> /\ command.kind \in ScriptKinds
      BY <1>1, <2>3 DEF Drained, OnlyForReceive, ScriptCommand
    <3>2. command.kind \in {"show", "config"}
      BY <3>1 DEF UtAssumption, Kinds
    <3>3. CASE step' = "receive"
      BY <3>3 DEF OnlyForReceive
    <3>4. CASE step' # "receive"
      <4>1. ~TC_RUNNING \/ command.kind = "config"
        BY <1>3, <3>2, <3>4 DEF AfterCommand
      <4>2. ~TC_RUNNING \/ EndConfig
        BY <1>3, <4>1 DEF EndOperational
      <4>3. UT_PARSER_MSG_Q' = UT_PARSER_MSG_Q
        BY <1>3, <4>2, EndKeepsOneMessage DEF Drained
      <4> QED
        BY <3>1, <4>3 DEF OnlyForReceive
    <3> QED
      BY <3>3, <3>4
  <2> QED
    BY <1>1, <2>1, <2>2, <2>3 DEF Drained, NoTestAtPrompt, ScriptCommand
<1> QED
  BY <1>2, <1>3 DEF CommandRuns

\* Taking the message out leaves none.
LEMMA ReceiveKeepsDrained == ASSUME Drained, Receive PROVE Drained'
<1>1. UT_PARSER_MSG_Q' = << >>
  <2>1. CASE UT_PARSER_MSG_Q = << >>
    BY <2>1 DEF Receive
  <2>2. CASE UT_PARSER_MSG_Q # << >>
    <3>1. PICK m : UT_PARSER_MSG_Q = <<m>>
      BY <2>2 DEF Drained, OneMessage
    <3>2. UT_PARSER_MSG_Q' = Tail(<<m>>)
      BY <2>2, <3>1 DEF Receive
    <3> QED
      BY <3>2
  <2> QED
    BY <2>1, <2>2
<1> QED
  BY <1>1 DEF Receive, Drained, OneMessage, OnlyForReceive, NoTestAtPrompt, ScriptCommand

LEMMA NextKeepsDrained ==
    ASSUME UtAssumption, "oper" \notin ScriptKinds, Drained, [UtNext]_ut_vars
    PROVE  Drained'
<1>1. CASE ShellCommand
  BY <1>1, ShellKeepsDrained
<1>2. CASE RunTest
  BY <1>2, LineKeepsDrained
<1>3. CASE ScriptLine
  BY <1>3, LineKeepsDrained, CommandKeepsDrained, CommandRunsKeepsDrained, ReceiveKeepsDrained
     DEF ScriptLine
<1>4. CASE Crash
  BY <1>4 DEF Crash, Drained, OneMessage
<1>5. CASE UNCHANGED ut_vars
  BY <1>5 DEF ut_vars, vars, runner, out, Drained, OneMessage, OnlyForReceive, NoTestAtPrompt,
              ScriptCommand
<1> QED
  BY <1>1, <1>2, <1>3, <1>4, <1>5 DEF UtNext

\* Until the process dies no message waits between two lines of a script, or at
\* the prompt, however scripts end and whatever the user runs meanwhile: the
\* runner never reads the output of one command for that of another.
THEOREM QueueIsDrainedHolds ==
    ASSUME UtAssumption, "oper" \notin ScriptKinds
    PROVE  UtSpec => []QueueIsDrained
<1>1. UtInit => Drained
  BY InitDrained
<1>2. Drained /\ [UtNext]_ut_vars => Drained'
  BY NextKeepsDrained
<1>3. Drained => QueueIsDrained
  BY DEF Drained, OnlyForReceive, QueueIsDrained
<1> QED
  BY <1>1, <1>2, <1>3, PTL DEF UtSpec

-----------------------------------------------------------------------------
(* The output of a command in the shell of the test runner.                *)

\* The inductive invariant: a command runs at the prompt, where no test case
\* does, or as the line of a script, so TC_RUNNING stays as it is while one runs.
ShellShows ==
    /\ ShowsOutput
    /\ NoTestAtPrompt
    /\ running => step \in {"shell", "cmd"}

LEMMA SameCommand ==
    ASSUME command' = command, printed' = printed
    PROVE  /\ LinesKept' = LinesKept /\ SomePasses' = SomePasses
           /\ Result' = Result /\ SavedTo' = SavedTo
<1>1. Lines' = Lines
  BY DEF Lines
<1> QED
  BY <1>1 DEF LinesKept, SomePasses, Result, SavedTo

\* What does not touch the filters or the output keeps it.
LEMMA ElsewhereKeepsShows ==
    ASSUME ShowsOutput, command' = command, running' = running, printed' = printed,
           screen' = screen, files' = files, UNCHANGED context, running => TC_RUNNING' = TC_RUNNING
    PROVE  ShowsOutput'
<1>1. LinesKept' = LinesKept /\ SomePasses' = SomePasses
  BY SameCommand
<1>2. /\ filter_array' = filter_array /\ count_lines' = count_lines
      /\ count_filter_present' = count_filter_present /\ fileptr' = fileptr
  BY DEF context
<1>3. CommandTyped' /\ (SomePasses' <=> LinesKept' # << >>)
  BY <1>1, <1>2 DEF ShowsOutput, CommandTyped
<1>4. ~running => filter_array' = << >> /\ Clean'
  BY <1>2 DEF ShowsOutput, Clean
<1>5. running => OwnContext'
  BY <1>1, <1>2 DEF ShowsOutput, OwnContext
<1>6. running' /\ ~TC_RUNNING' => OnScreen' /\ InFile'
  BY <1>1 DEF ShowsOutput, OnScreen, InFile
<1> QED
  BY <1>3, <1>4, <1>5, <1>6 DEF ShowsOutput

LEMMA ShellKeepsShows ==
    ASSUME "count" \notin FileNames, ShellShows, ShellCommand PROVE ShellShows'
<1>1. step = "shell" /\ step' = "shell" /\ ShowsOutput
  BY DEF ShellCommand, runner, ShellShows
<1>2. ASSUME NEW kind \in Kinds, NEW fs \in Chains, Submit(kind, fs) PROVE ShellShows'
  <2>1. ShowsOutput' /\ TC_RUNNING' = TC_RUNNING
    BY <1>1, <1>2, SubmitKeepsShows DEF Submit
  <2> QED
    BY <1>1, <2>1 DEF ShellShows, NoTestAtPrompt
<1>3. ASSUME NEW t \in Texts, cprintf(t) PROVE ShellShows'
  <2>1. ShowsOutput' /\ TC_RUNNING' = TC_RUNNING
    BY <1>1, <1>3, PrintKeepsShows DEF cprintf
  <2> QED
    BY <1>1, <2>1 DEF ShellShows, NoTestAtPrompt
<1>4. CASE EndOperational \/ EndConfig
  <2>1. ShowsOutput' /\ TC_RUNNING' = TC_RUNNING
    BY <1>1, <1>4, EndKeepsShows DEF EndOperational, EndConfig
  <2> QED
    BY <1>1, <2>1 DEF ShellShows, NoTestAtPrompt
<1> QED
  BY <1>2, <1>3, <1>4 DEF ShellCommand, Run

\* A line of a script that runs no command, and what follows a command.
LEMMA LineKeepsShows ==
    ASSUME ShellShows,
           \/ RunTest \/ TestcaseBegin \/ TestcaseEnd \/ Abort
           \/ \E show \in BOOLEAN : CommandRejected(show)
           \/ Receive
           \/ \E p \in DOMAIN Matches :
                (\E match \in BOOLEAN : Compare(p, match)) \/ GrepReceived(p)
    PROVE  ShellShows'
<1>1. /\ command' = command /\ running' = running /\ printed' = printed /\ screen' = screen
      /\ files' = files /\ UNCHANGED context /\ ~running
      /\ step' = "shell" => ~TC_RUNNING'
  <2> USE DEF Reading, NotTC, out, vars, EndOfRun, AfterCommand, ShellShows
  <2>1. CASE RunTest
    BY <2>1 DEF RunTest
  <2>2. CASE TestcaseBegin
    BY <2>2 DEF TestcaseBegin
  <2>3. CASE TestcaseEnd
    BY <2>3 DEF TestcaseEnd
  <2>4. CASE Abort
    BY <2>4 DEF Abort
  <2>5. CASE \E show \in BOOLEAN : CommandRejected(show)
    BY <2>5 DEF CommandRejected
  <2>6. CASE Receive
    BY <2>6 DEF Receive
  <2>7. CASE \E p \in DOMAIN Matches : \E match \in BOOLEAN : Compare(p, match)
    BY <2>7 DEF Compare
  <2>8. CASE \E p \in DOMAIN Matches : GrepReceived(p)
    BY <2>8 DEF GrepReceived
  <2> QED
    BY <2>1, <2>2, <2>3, <2>4, <2>5, <2>6, <2>7, <2>8
<1>2. ShowsOutput'
  BY <1>1, ElsewhereKeepsShows DEF ShellShows
<1> QED
  BY <1>1, <1>2 DEF ShellShows, NoTestAtPrompt

\* A command of a script.
LEMMA CommandKeepsShows ==
    ASSUME UtAssumption, ShellShows, NEW kind \in ScriptKinds, NEW fs \in Chains,
           Command(kind, fs)
    PROVE  ShellShows'
<1>1. kind \in Kinds /\ Submit(kind, fs) /\ step' = "cmd"
  BY DEF UtAssumption, Command
<1>2. ShowsOutput'
  BY <1>1, SubmitKeepsShows DEF ShellShows
<1> QED
  BY <1>1, <1>2 DEF ShellShows, NoTestAtPrompt

LEMMA CommandRunsKeepsShows ==
    ASSUME "count" \notin FileNames, ShellShows, CommandRuns PROVE ShellShows'
<1>1. step = "cmd" /\ ShowsOutput
  BY DEF CommandRuns, ShellShows
<1>2. ASSUME NEW t \in Texts, cprintf(t), step' = step PROVE ShellShows'
  <2>1. ShowsOutput'
    BY <1>1, <1>2, PrintKeepsShows
  <2> QED
    BY <1>1, <1>2, <2>1 DEF ShellShows, NoTestAtPrompt
<1>3. CASE (EndOperational \/ EndConfig) /\ AfterCommand(command.kind = "show")
  <2>1. ShowsOutput' /\ ~running'
    BY <1>1, <1>3, EndKeepsShows
  <2>2. step' # "shell"
    BY <1>3 DEF AfterCommand
  <2> QED
    BY <2>1, <2>2 DEF ShellShows, NoTestAtPrompt
<1> QED
  BY <1>2, <1>3 DEF CommandRuns

\* A process that starts again runs nothing, whatever the files hold.
LEMMA CrashKeepsShows == ASSUME ShellShows, Crash PROVE ShellShows'
<1>1. << >> \in Chains /\ << >> \in Seq(Texts)
  BY FilterAssumption DEF FilterAssumption
<1>2. command' = [kind |-> "config", filters |-> << >>] /\ command'.filters = << >>
  BY DEF Crash, NoCommand
<1>3. CommandTyped'
  <2>1. files' = [f \in FileNames |-> files'[f]]
    BY DEF Crash, ShellShows, ShowsOutput, CommandTyped
  <2>2. command' \in [kind : Kinds, filters : Chains]
    BY <1>1, <1>2 DEF Kinds
  <2> QED
    BY <1>1, <1>2, <2>1, <2>2 DEF CommandTyped, Crash
<1>4. LinesKept' = << >>
  <2>1. Lines' = << >>
    BY DEF Crash, Lines
  <2> QED
    BY <1>1, <1>2, <2>1, KeptOfNone DEF LinesKept
<1>5. ~SomePasses'
  BY DEF Crash, SomePasses, ToSet
<1>6. ~running' /\ filter_array' = << >> /\ Clean' /\ ~TC_RUNNING'
  BY DEF Crash, Clean
<1> QED
  BY <1>3, <1>4, <1>5, <1>6 DEF ShowsOutput, ShellShows, NoTestAtPrompt

LEMMA NextKeepsShellShows ==
    ASSUME UtAssumption, "count" \notin FileNames, ShellShows, [UtNext]_ut_vars
    PROVE  ShellShows'
<1>1. CASE ShellCommand
  BY <1>1, ShellKeepsShows
<1>2. CASE RunTest
  BY <1>2, LineKeepsShows
<1>3. CASE ScriptLine
  BY <1>3, LineKeepsShows, CommandKeepsShows, CommandRunsKeepsShows DEF ScriptLine
<1>4. CASE Crash
  BY <1>4, CrashKeepsShows
<1>5. CASE UNCHANGED ut_vars
  <2>1. ShowsOutput'
    BY <1>5, ElsewhereKeepsShows DEF ut_vars, vars, out, ShellShows
  <2> QED
    BY <1>5, <2>1 DEF ut_vars, vars, runner, ShellShows, NoTestAtPrompt
<1> QED
  BY <1>1, <1>2, <1>3, <1>4, <1>5 DEF UtNext

\* A test never takes the output of the user's own commands, for scripts, chains and
\* output of any length and any number of crashes: at the prompt it goes through the
\* filters to the screen or to the file, however the last run ended.
THEOREM ShellOutputIsShownHolds ==
    ASSUME UtAssumption, "count" \notin FileNames
    PROVE  UtSpec => ShellOutputIsShown
<1>1. UtInit => ShellShows
  BY InitShows DEF UtInit, Init, ShellShows, NoTestAtPrompt
<1>2. ShellShows /\ [UtNext]_ut_vars => ShellShows'
  BY NextKeepsShellShows
<1>3. ShellShows /\ (EndOperational \/ EndConfig) /\ step = "shell" /\ SomePasses =>
        IF SavedTo = {} THEN screen' = Result
        ELSE screen' = << >> /\ \A f \in SavedTo : files'[f] = Result
  BY EndShows DEF ShellShows, NoTestAtPrompt
<1> QED
  BY <1>1, <1>2, <1>3, PTL DEF UtSpec, ShellOutputIsShown

-----------------------------------------------------------------------------
(* What the runner receives.                                               *)

\* What cprintf puts into Cumbuffer while a command of a test case runs.
InCumbuffer ==
    Cumbuffer = IF running /\ TC_RUNNING /\ ~EndsInCount(command.filters) THEN LinesKept
                ELSE << >>

\* The command of a line was accepted, and a config command printed nothing.
CommandOfLine == step = "cmd" => accepted /\ (command.kind = "config" => printed = << >>)

\* The message that waits is the output of the command of the line.
OwnMessage ==
    step = "receive" =>
      UT_PARSER_MSG_Q = IF accepted /\ Len(OwnOutput) < CUM_BUFFER_MAX_SIZE
                        THEN <<OwnOutput>> ELSE << >>

Collected == InCumbuffer /\ CommandOfLine /\ OwnMessage

\* The inductive invariant.
OwnShows == ShellShows /\ Drained /\ (crashes = 0 => Collected)

LEMMA CountedIs ==
    ASSUME CommandTyped PROVE Counted(command.filters) <=> EndsInCount(command.filters)
<1> PICK fs \in Chains : fs = command.filters
  BY DEF CommandTyped
<1>1. ASSUME NEW f \in ToSet(fs), Counts(f) PROVE EndsInCount(fs)
  <2>1. PICK i \in DOMAIN fs : f = fs[i]
    BY DEF ToSet
  <2>2. f \notin Plain
    BY <1>1 DEF Plain
  <2>3. fs # << >> /\ f = Last(fs)
    BY <2>1, <2>2, OnlyLastEnds
  <2> QED
    BY <1>1, <2>3 DEF EndsInCount
<1>2. EndsInCount(fs) => Last(fs) \in ToSet(fs) /\ Counts(Last(fs))
  BY ChainSplits DEF EndsInCount
<1> QED
  BY <1>1, <1>2 DEF Counted

\* The output of a command that was accepted: the lines kept, or their number,
\* which is shown if there is one.
LEMMA OwnOutputIs ==
    ASSUME ShowsOutput, accepted
    PROVE  OwnOutput = IF ~EndsInCount(command.filters) THEN LinesKept
                       ELSE IF LinesKept = << >> THEN << >> ELSE <<Total(Len(LinesKept))>>
<1> PICK fs \in Chains : fs = command.filters
  BY DEF ShowsOutput, CommandTyped
<1>1. Counted(fs) <=> EndsInCount(fs)
  BY CountedIs DEF ShowsOutput
<1>2. SomePasses <=> LinesKept # << >>
  BY DEF ShowsOutput
<1>3. Result = IF EndsInCount(fs) THEN <<Total(Len(LinesKept))>> ELSE LinesKept
  BY ChainIs, LinesAre DEF Result, LinesKept, ShowsOutput, CommandTyped
<1> QED
  BY <1>1, <1>2, <1>3 DEF OwnOutput

\* A line of a command that runs in a test case, or anywhere else.
LEMMA PrintCollects ==
    ASSUME "count" \notin FileNames, ShowsOutput, InCumbuffer, NEW t \in Texts, cprintf(t)
    PROVE  InCumbuffer'
<1>1. /\ running /\ running' = running /\ command' = command /\ printed' = Append(printed, t)
      /\ TC_RUNNING' = TC_RUNNING
  BY DEF cprintf
<1> PICK fs \in Chains : fs = command.filters
  BY DEF ShowsOutput, CommandTyped
<1>2. PICK kept \in Seq(Item) : kept = LinesKept
  BY LinesKeptTyped DEF ShowsOutput
<1>3. PICK l \in Item : l = Line(t)
  <2>1. Line(t) \in Item
    BY DEF Line, Item
  <2> QED
    BY <2>1
<1>4. LinesKept' = IF Passes(t, fs) THEN Append(kept, l) ELSE kept
  BY <1>1, <1>2, <1>3, LinesKeptOfMore DEF ShowsOutput
<1>5. kept \o <<l>> = Append(kept, l) /\ kept \o << >> = kept
  BY OneLine
<1>6. /\ ~TC_RUNNING => Cumbuffer' = Cumbuffer
      /\ TC_RUNNING => Cumbuffer' = Cumbuffer \o (IF Passes(t, fs) /\ ~EndsInCount(fs)
                                                  THEN <<l>> ELSE << >>)
  BY <1>3, PrintShows
<1>7. CASE ~TC_RUNNING
  BY <1>1, <1>6, <1>7 DEF InCumbuffer
<1>8. CASE TC_RUNNING /\ EndsInCount(fs)
  <2>1. Cumbuffer = << >> /\ Cumbuffer' = Cumbuffer \o << >>
    BY <1>6, <1>8 DEF InCumbuffer
  <2>2. Cumbuffer' = << >>
    BY <2>1
  <2> QED
    BY <1>1, <1>8, <2>2 DEF InCumbuffer
<1>9. CASE TC_RUNNING /\ ~EndsInCount(fs)
  <2>1. Cumbuffer = kept
    BY <1>1, <1>2, <1>9 DEF InCumbuffer
  <2>2. Cumbuffer' = IF Passes(t, fs) THEN kept \o <<l>> ELSE kept \o << >>
    BY <1>6, <1>9, <2>1
  <2>3. Cumbuffer' = LinesKept'
    BY <1>4, <1>5, <2>2
  <2> QED
    BY <1>1, <1>9, <2>3 DEF InCumbuffer
<1> QED
  BY <1>7, <1>8, <1>9

LEMMA SubmitCollects ==
    ASSUME ShowsOutput, InCumbuffer, NEW kind \in Kinds, NEW fs \in Chains, Submit(kind, fs)
    PROVE  InCumbuffer'
<1>1. LinesKept' = << >>
  BY SubmitKeepsShows
<1>2. Cumbuffer = << >> /\ Cumbuffer' = << >>
  BY DEF Submit, InCumbuffer
<1> QED
  BY <1>1, <1>2 DEF InCumbuffer

\* What an operational command of a test case leaves in the queue.
LEMMA EndCollects ==
    ASSUME ShowsOutput, InCumbuffer, EndOperational \/ EndConfig,
           EndConfig => ~TC_RUNNING \/ printed = << >>
    PROVE  /\ InCumbuffer'
           /\ EndOperational /\ TC_RUNNING /\ accepted /\ UT_PARSER_MSG_Q = << >> =>
                UT_PARSER_MSG_Q' = IF Len(OwnOutput) < CUM_BUFFER_MAX_SIZE THEN <<OwnOutput>>
                                   ELSE << >>
<1> PICK fs \in Chains : fs = command.filters
  BY DEF ShowsOutput, CommandTyped
<1>1. running /\ ~running' /\ OwnContext
  BY DEF EndOperational, EndConfig, ShowsOutput
<1>2. PICK kept \in Seq(Item) : kept = LinesKept
  BY LinesKeptTyped DEF ShowsOutput
<1>3. CASE EndOperational /\ TC_RUNNING
  <2>1. PICK total : total = IF count_filter_present THEN <<Total(count_lines)>> ELSE << >>
    OBVIOUS
  <2>2. PICK buffer : buffer = Cumbuffer \o total
    OBVIOUS
  <2>3. /\ UT_PARSER_MSG_Q' = IF CanSend(buffer) THEN <<buffer>> ELSE UT_PARSER_MSG_Q
        /\ Cumbuffer' = << >>
    BY <1>3, <2>1, <2>2 DEF EndOperational, Push
  <2>4. InCumbuffer'
    BY <1>1, <2>3 DEF InCumbuffer
  <2>5. ASSUME accepted, UT_PARSER_MSG_Q = << >>
        PROVE  UT_PARSER_MSG_Q' = IF Len(OwnOutput) < CUM_BUFFER_MAX_SIZE THEN <<OwnOutput>>
                                  ELSE << >>
    <3>1. buffer = OwnOutput
      <4>1. OwnOutput = IF ~EndsInCount(fs) THEN kept
                        ELSE IF kept = << >> THEN << >> ELSE <<Total(Len(kept))>>
        BY <1>2, <2>5, OwnOutputIs
      <4>2. CASE ~EndsInCount(fs)
        <5>1. buffer = kept \o << >>
          BY <1>1, <1>2, <1>3, <2>1, <2>2, <4>2 DEF InCumbuffer, OwnContext
        <5> QED
          BY <4>1, <4>2, <5>1
      <4>3. CASE EndsInCount(fs)
        <5>1. total = IF kept # << >> THEN <<Total(Len(kept))>> ELSE << >>
          BY <1>1, <1>2, <2>1, <4>3 DEF OwnContext
        <5>2. buffer = << >> \o total
          BY <2>2, <4>3 DEF InCumbuffer
        <5>3. << >> \o total = total
          BY <5>1
        <5> QED
          BY <4>1, <4>3, <5>1, <5>2, <5>3
      <4> QED
        BY <4>2, <4>3
    <3> QED
      BY <2>3, <2>5, <3>1 DEF CanSend
  <2> QED
    BY <2>4, <2>5
<1>4. CASE EndOperational /\ ~TC_RUNNING
  <2>1. Cumbuffer' = Cumbuffer
    BY <1>4 DEF EndOperational
  <2> QED
    BY <1>1, <1>4, <2>1 DEF InCumbuffer
<1>5. CASE EndConfig
  <2>1. Cumbuffer' = Cumbuffer /\ ~EndOperational
    BY <1>5 DEF EndConfig, EndOperational, out
  <2>2. Cumbuffer = << >>
    <3>1. CASE ~TC_RUNNING
      BY <3>1 DEF InCumbuffer
    <3>2. CASE printed = << >>
      <4>1. ~SomePasses
        BY <3>2 DEF SomePasses, ToSet
      <4> QED
        BY <4>1 DEF InCumbuffer, ShowsOutput
    <3> QED
      BY <1>5, <3>1, <3>2
  <2> QED
    BY <1>1, <2>1, <2>2 DEF InCumbuffer
<1> QED
  BY <1>3, <1>4, <1>5

LEMMA ShellKeepsCollected ==
    ASSUME "count" \notin FileNames, ShellShows, Collected, ShellCommand PROVE Collected'
<1>1. step = "shell" /\ step' = "shell" /\ ShowsOutput /\ InCumbuffer /\ ~TC_RUNNING
  BY DEF ShellCommand, runner, ShellShows, NoTestAtPrompt, Collected
<1>2. InCumbuffer'
  <2>1. ASSUME NEW kind \in Kinds, NEW fs \in Chains, Submit(kind, fs) PROVE InCumbuffer'
    BY <1>1, <2>1, SubmitCollects
  <2>2. ASSUME NEW t \in Texts, cprintf(t) PROVE InCumbuffer'
    BY <1>1, <2>2, PrintCollects
  <2>3. CASE EndOperational \/ EndConfig
    BY <1>1, <2>3, EndCollects
  <2> QED
    BY <2>1, <2>2, <2>3 DEF ShellCommand, Run
<1> QED
  BY <1>1, <1>2 DEF Collected, CommandOfLine, OwnMessage

\* A line of a script that runs no command: a command that is rejected leaves the
\* queue empty.
LEMMA LineKeepsCollected ==
    ASSUME ShellShows, InCumbuffer, OnlyForReceive,
           \/ RunTest \/ TestcaseBegin \/ TestcaseEnd \/ Abort
           \/ \E show \in BOOLEAN : CommandRejected(show)
           \/ Receive
           \/ \E p \in DOMAIN Matches :
                (\E match \in BOOLEAN : Compare(p, match)) \/ GrepReceived(p)
    PROVE  Collected'
<1>1. /\ Cumbuffer' = Cumbuffer /\ ~running /\ ~running'
      /\ step' \in {"shell", "read", "receive"}
      /\ step' = "receive" => step = "read" /\ ~accepted' /\ UT_PARSER_MSG_Q' = UT_PARSER_MSG_Q
  <2> USE DEF Reading, NotTC, out, vars, EndOfRun, AfterCommand, ShellShows
  <2>1. CASE RunTest
    BY <2>1 DEF RunTest
  <2>2. CASE TestcaseBegin
    BY <2>2 DEF TestcaseBegin
  <2>3. CASE TestcaseEnd
    BY <2>3 DEF TestcaseEnd
  <2>4. CASE Abort
    BY <2>4 DEF Abort
  <2>5. CASE \E show \in BOOLEAN : CommandRejected(show)
    BY <2>5 DEF CommandRejected
  <2>6. CASE Receive
    BY <2>6 DEF Receive
  <2>7. CASE \E p \in DOMAIN Matches : \E match \in BOOLEAN : Compare(p, match)
    BY <2>7 DEF Compare
  <2>8. CASE \E p \in DOMAIN Matches : GrepReceived(p)
    BY <2>8 DEF GrepReceived
  <2> QED
    BY <2>1, <2>2, <2>3, <2>4, <2>5, <2>6, <2>7, <2>8
<1>2. InCumbuffer' /\ CommandOfLine'
  BY <1>1 DEF InCumbuffer, CommandOfLine
<1>3. OwnMessage'
  BY <1>1 DEF OnlyForReceive, OwnMessage
<1> QED
  BY <1>2, <1>3 DEF Collected

LEMMA CommandKeepsCollected ==
    ASSUME UtAssumption, ShellShows, InCumbuffer,
           NEW kind \in ScriptKinds, NEW fs \in Chains, Command(kind, fs)
    PROVE  Collected'
<1>1. kind \in Kinds /\ Submit(kind, fs) /\ step' = "cmd" /\ accepted'
  BY DEF UtAssumption, Command
<1>2. InCumbuffer'
  BY <1>1, SubmitCollects DEF ShellShows
<1>3. printed' = << >>
  BY <1>1 DEF Submit
<1> QED
  BY <1>1, <1>2, <1>3 DEF Collected, CommandOfLine, OwnMessage

\* The command of a line runs; if it is a show command of a test case, then its output
\* is the message the runner takes out next.
LEMMA CommandRunsKeepsCollected ==
    ASSUME "count" \notin FileNames, ~ConfigPrints, ShellShows, Collected, OnlyForReceive,
           CommandRuns
    PROVE  Collected'
<1>1. /\ step = "cmd" /\ ShowsOutput /\ InCumbuffer /\ accepted' = accepted
      /\ accepted /\ (command.kind = "config" => printed = << >>) /\ UT_PARSER_MSG_Q = << >>
  BY DEF CommandRuns, ShellShows, Collected, CommandOfLine, OnlyForReceive
<1>2. ASSUME NEW t \in Texts, cprintf(t), step' = step, command.kind # "config"
      PROVE  Collected'
  <2>1. InCumbuffer'
    BY <1>1, <1>2, PrintCollects
  <2>2. command' = command
    BY <1>2 DEF cprintf
  <2> QED
    BY <1>1, <1>2, <2>1, <2>2 DEF Collected, CommandOfLine, OwnMessage
<1>3. CASE (EndOperational \/ EndConfig) /\ AfterCommand(command.kind = "show")
  <2>1. EndConfig => printed = << >>
    BY <1>1 DEF EndConfig
  <2>2. InCumbuffer'
    BY <1>1, <1>3, <2>1, EndCollects
  <2>3. step' \in {"read", "receive"}
    BY <1>3 DEF AfterCommand
  <2>4. ASSUME step' = "receive" PROVE OwnMessage'
    <3>1. EndOperational /\ TC_RUNNING
      BY <1>3, <2>4 DEF AfterCommand, EndConfig
    <3>2. UT_PARSER_MSG_Q' = IF Len(OwnOutput) < CUM_BUFFER_MAX_SIZE THEN <<OwnOutput>>
                             ELSE << >>
      BY <1>1, <2>1, <3>1, EndCollects
    <3>3. command' = command /\ printed' = printed
      BY <3>1 DEF EndOperational
    <3>4. OwnOutput' = OwnOutput
      BY <1>1, <3>3, SameCommand DEF OwnOutput
    <3> QED
      BY <1>1, <3>2, <3>4 DEF OwnMessage
  <2> QED
    BY <2>2, <2>3, <2>4 DEF Collected, CommandOfLine, OwnMessage
<1> QED
  BY <1>2, <1>3 DEF CommandRuns

LEMMA NextKeepsOwnShows ==
    ASSUME UtAssumption, "oper" \notin ScriptKinds, ~ConfigPrints, "count" \notin FileNames,
           OwnShows, [UtNext]_ut_vars
    PROVE  OwnShows'
<1>1. ShellShows' /\ Drained'
  BY NextKeepsShellShows, NextKeepsDrained DEF OwnShows
<1>2. ASSUME crashes' = 0 PROVE Collected'
  <2>1. ASSUME crashes = 0 PROVE ShellShows /\ Collected /\ InCumbuffer /\ OnlyForReceive
    BY <2>1 DEF OwnShows, Drained, Collected
  <2>2. CASE ShellCommand
    <3>1. crashes = 0
      BY <1>2, <2>2 DEF ShellCommand
    <3> QED
      BY <2>1, <2>2, <3>1, ShellKeepsCollected
  <2>3. CASE RunTest
    <3>1. crashes = 0
      BY <1>2, <2>3 DEF RunTest
    <3> QED
      BY <2>1, <2>3, <3>1, LineKeepsCollected
  <2>4. CASE ScriptLine
    <3>1. crashes = 0
      BY <1>2, <2>4 DEF ScriptLine, TestcaseBegin, TestcaseEnd, Abort, Command, CommandRejected,
                        CommandRuns, Receive, Compare, GrepReceived, Reading
    <3> QED
      BY <2>1, <2>4, <3>1, LineKeepsCollected, CommandKeepsCollected, CommandRunsKeepsCollected
         DEF ScriptLine
  <2>5. ~Crash
    BY <1>2 DEF Crash, OwnShows, Drained
  <2>6. CASE UNCHANGED ut_vars
    <3>1. /\ crashes = 0 /\ command' = command /\ printed' = printed /\ accepted' = accepted
          /\ step' = step /\ UT_PARSER_MSG_Q' = UT_PARSER_MSG_Q /\ Cumbuffer' = Cumbuffer
          /\ running' = running /\ TC_RUNNING' = TC_RUNNING
      BY <1>2, <2>6 DEF ut_vars, vars, out, runner
    <3>2. OwnOutput' = OwnOutput /\ LinesKept' = LinesKept
      BY <3>1, SameCommand DEF OwnOutput
    <3> QED
      BY <2>1, <3>1, <3>2 DEF Collected, InCumbuffer, CommandOfLine, OwnMessage
  <2> QED
    BY <2>2, <2>3, <2>4, <2>5, <2>6 DEF UtNext
<1> QED
  BY <1>1, <1>2 DEF OwnShows

LEMMA ReceivesOwn ==
    ASSUME OwnShows, crashes = 0, Receive
    PROVE  \/ ut_parser_recv_buff' = OwnOutput
           \/ Len(OwnOutput) >= CUM_BUFFER_MAX_SIZE /\ ut_parser_recv_buff' = << >>
<1>1. UT_PARSER_MSG_Q = IF accepted /\ Len(OwnOutput) < CUM_BUFFER_MAX_SIZE
                        THEN <<OwnOutput>> ELSE << >>
  BY DEF OwnShows, Collected, OwnMessage, Receive
<1>2. PICK own : own = OwnOutput
  OBVIOUS
<1>3. CASE ~accepted
  BY <1>1, <1>3 DEF Receive, OwnOutput
<1>4. CASE accepted /\ Len(own) < CUM_BUFFER_MAX_SIZE
  <2>1. UT_PARSER_MSG_Q = <<own>>
    BY <1>1, <1>2, <1>4
  <2>2. ut_parser_recv_buff' = Head(<<own>>)
    BY <2>1 DEF Receive
  <2> QED
    BY <1>2, <2>2
<1>5. CASE accepted /\ ~(Len(own) < CUM_BUFFER_MAX_SIZE)
  <2>1. Len(own) \in Nat
    <3>1. own = IF ~EndsInCount(command.filters) THEN LinesKept
                ELSE IF LinesKept = << >> THEN << >> ELSE <<Total(Len(LinesKept))>>
      BY <1>2, <1>5, OwnOutputIs DEF OwnShows, ShellShows
    <3>2. LinesKept \in Seq(Item)
      BY LinesKeptTyped DEF OwnShows, ShellShows, ShowsOutput
    <3> QED
      BY <3>1, <3>2
  <2>2. Len(own) >= CUM_BUFFER_MAX_SIZE
    BY <1>5, <2>1, FilterAssumption DEF FilterAssumption
  <2>3. UT_PARSER_MSG_Q = << >>
    BY <1>1, <1>2, <1>5
  <2> QED
    BY <1>2, <2>2, <2>3 DEF Receive
<1> QED
  BY <1>3, <1>4, <1>5

\* Until the process dies, what the runner receives after a show command is the output
\* of that command, through its filters, all of it and nothing else, or nothing when it
\* is too long for a message: for scripts, chains and output of any length, as long as
\* no command of a script is operational without show in it and no config command
\* prints (with one it fails, see UtOperational and UtConfigOutput in README.md).
THEOREM ReceivesOwnOutputHolds ==
    ASSUME UtAssumption, "oper" \notin ScriptKinds, ~ConfigPrints, "count" \notin FileNames
    PROVE  UtSpec => ReceivesOwnOutput
<1>1. UtInit => OwnShows
  <2>1. UtInit => Collected
    BY DEF UtInit, Init, Collected, InCumbuffer, CommandOfLine, OwnMessage
  <2>2. UtInit => ShellShows
    BY InitShows DEF UtInit, Init, ShellShows, NoTestAtPrompt
  <2> QED
    BY <2>1, <2>2, InitDrained DEF OwnShows
<1>2. OwnShows /\ [UtNext]_ut_vars => OwnShows'
  BY NextKeepsOwnShows
<1>3. OwnShows /\ crashes = 0 => OwnOutputReceived
  BY ReceivesOwn DEF OwnOutputReceived
<1> QED
  BY <1>1, <1>2, <1>3, PTL DEF UtSpec, ReceivesOwnOutput
=============================================================================
