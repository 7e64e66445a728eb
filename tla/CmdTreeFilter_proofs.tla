------------------------- MODULE CmdTreeFilter_proofs -------------------------
(***************************************************************************)
(* The filters, the list of matches, the assertions and the calls of the   *)
(* char-mode shell, as long as it is used in the way each theorem names.   *)
(***************************************************************************)
EXTENDS CmdTreeCursor_proofs

-----------------------------------------------------------------------------
(* The place of the first pipe.                                            *)

IsFirstPipe(s, n) ==
  \/ n = -1 /\ \A i \in 1 .. Len(s) : s[i] # Pipe
  \/ n + 1 \in 1 .. Len(s) /\ s[n + 1] = Pipe /\ \A i \in 1 .. n : s[i] # Pipe

LEMMA FirstPipeIs ==
  ASSUME NEW T, NEW s \in Seq(T), NEW n \in Nat \cup {-1}, IsFirstPipe(s, n)
  PROVE  FirstPipe(s) = n
<1> DEFINE S == {i \in DOMAIN s : s[i] = Pipe}
<1>1. DOMAIN s = 1 .. Len(s) /\ Len(s) \in Nat
  OBVIOUS
<1>2. S \in SUBSET Nat
  BY <1>1
<1>3. Pipe \in Range(s) <=> S # {}
  BY DEF Range
<1>4. CASE n = -1 /\ \A i \in 1 .. Len(s) : s[i] # Pipe
  BY <1>1, <1>3, <1>4 DEF FirstPipe
<1>5. CASE n + 1 \in 1 .. Len(s) /\ s[n + 1] = Pipe /\ \A i \in 1 .. n : s[i] # Pipe
  <2>1. n + 1 \in S
    BY <1>1, <1>5
  <2>2. First(S) \in S /\ First(S) <= n + 1
    BY <1>2, <2>1, Minimum
  <2>3. First(S) \notin 1 .. n /\ First(S) \in 1 .. Len(s)
    BY <1>1, <1>5, <2>2
  <2> HIDE DEF S
  <2>4. First(S) = n + 1
    BY <1>1, <2>2, <2>3
  <2>5. FirstPipe(s) = First(S) - 1
    BY <1>3, <2>1 DEF FirstPipe, S
  <2> QED
    BY <2>4, <2>5
<1> QED
  BY <1>4, <1>5 DEF IsFirstPipe

-----------------------------------------------------------------------------
(* The flags of a command and its filters.                                 *)

On(s, p) == \E i \in 1 .. Len(s) : s[i] = p

\* A refresh comes behind a pipe, and its interval right behind it.
FilterPath(s) ==
  \A i \in 2 .. Len(s) :
     /\ s[i] = RefreshHook => s[i - 1] = Pipe
     /\ s[i] = RefreshValHook <=> s[i - 1] = RefreshHook
OneRefresh(s) ==
  \A i, j \in 1 .. Len(s) : s[i] = RefreshHook /\ s[j] = RefreshHook => i = j

\* What the filters allow as the next word.
MayFollow(c, q) ==
  /\ q = RefreshHook => Last(c.params_stack) = Pipe /\ ~c.refresh_disabled
  /\ q = RefreshValHook <=> Last(c.params_stack) = RefreshHook

Marked(c) ==
  /\ IsFirstPipe(c.params_stack, c.filter_checkpoint)
  /\ c.is_refresh <=> On(c.params_stack, RefreshHook)
  /\ c.refresh_disabled <=> On(c.params_stack, RefreshValHook)
  /\ FilterPath(c.params_stack) /\ OneRefresh(c.params_stack)
Listed(c) == c.matching_params_list \cup ({c.leaf_param} \ {NoParam})
FilterOK(c) == Marked(c) /\ \A q \in Listed(c) : MayFollow(c, q)

\* No mode is entered within the filters of a command.
Unfiltered(c) == \A i \in 1 .. c.stack_checkpoint + 1 : c.params_stack[i] # Pipe
NoFilterMode == Unfiltered(cmdtc)

FilterInv == HookInv /\ (status # "corrupt" => FilterOK(cmdtc))
FilterStep == status' # "corrupt" => FilterOK(cmdtc')

LEMMA FilterFacts ==
  /\ RefreshHook \notin Universal /\ RefreshValHook \notin Universal
  /\ RootHook \notin {Pipe, RefreshHook, RefreshValHook}
  /\ RefreshHook \in Param => RefreshHook # RefreshValHook
  /\ \A p \in Param : \A q \in Range(Children[p]) :
        /\ q = RefreshHook => p = Pipe
        /\ q = RefreshValHook <=> p = RefreshHook
<1>1. RefreshHook \notin Universal /\ RootHook \notin {Pipe, RefreshHook}
  BY FilterAssumption, NullAssumption DEF Universal
<1>2. RefreshValHook \in Param => IsLeaf(RefreshValHook)
  BY IntervalAssumption, NullAssumption
<1>3. RefreshValHook \notin Universal /\ RefreshValHook # RootHook
  BY <1>2, TreeFacts
<1>4. RefreshHook \in Param => ~IsLeaf(RefreshHook)
  BY FilterAssumption, NullAssumption DEF IsLeaf
<1>5. \A p \in Param : \A q \in Range(Children[p]) :
        /\ q = RefreshHook => p = Pipe
        /\ q = RefreshValHook <=> p = RefreshHook
  BY FilterAssumption DEF Range
<1> QED
  BY <1>1, <1>2, <1>3, <1>4, <1>5

\* Without a pipe there is no refresh.
LEMMA NoPipeNoRefresh ==
  ASSUME NEW s, Len(s) \in Nat \ {0}, s[1] = RootHook, FilterPath(s),
         NEW k \in 1 .. Len(s), \A i \in 1 .. k : s[i] # Pipe
  PROVE  \A i \in 1 .. k : s[i] # RefreshHook /\ (i < k => s[i] # RefreshValHook)
                           /\ s[i] # RefreshValHook
<1>1. ASSUME NEW i \in 1 .. k PROVE s[i] # RefreshHook
  <2>1. CASE i = 1
    BY <2>1, FilterFacts
  <2>2. CASE i # 1
    <3>1. i \in 2 .. Len(s) /\ i - 1 \in 1 .. k
      BY <2>2
    <3> QED
      BY <3>1 DEF FilterPath
  <2> QED
    BY <2>1, <2>2
<1>2. ASSUME NEW i \in 1 .. k PROVE s[i] # RefreshValHook
  <2>1. CASE i = 1
    BY <2>1, FilterFacts
  <2>2. CASE i # 1
    <3>1. i \in 2 .. Len(s) /\ i - 1 \in 1 .. k
      BY <2>2
    <3> QED
      BY <1>1, <3>1 DEF FilterPath
  <2> QED
    BY <2>1, <2>2
<1> QED
  BY <1>1, <1>2

LEMMA LastIs ==
  ASSUME NEW c, Good(c)
  PROVE  /\ Last(c.params_stack) = c.params_stack[Len(c.params_stack)]
         /\ Last(c.params_stack) \in Param
BY Stacks DEF Last

\* The mode is no refresh.
LEMMA ModeUnfiltered ==
  ASSUME NEW c, Good(c), AtMode(c), Rooted(c), Marked(c), Unfiltered(c)
  PROVE  c.root # RefreshHook /\ c.root # Pipe
<1>1. /\ Len(c.params_stack) \in Nat \ {0}
      /\ c.stack_checkpoint + 1 \in 1 .. Len(c.params_stack)
  BY Stacks
<1>2. \A i \in 1 .. c.stack_checkpoint + 1 : c.params_stack[i] # RefreshHook
  BY <1>1, NoPipeNoRefresh DEF Rooted, Marked, Unfiltered
<1>3. c.stack_checkpoint + 1 \in 1 .. c.stack_checkpoint + 1
  BY <1>1
<1> QED
  BY <1>2, <1>3 DEF AtMode, Unfiltered

\* What is listed, and what would be, may follow.
Ahead(c) == Listed(c) \cup Candidates(c) \cup ({KnownLeaf(c)} \ {NoParam}) \cup OneWord(c)

LEMMA FollowersFollow ==
  ASSUME NEW c, Good(c), AtMode(c), AtWord(c), Rooted(c), Hooked(c, options), Marked(c),
         Unfiltered(c), c.cmdtc_state = "init", NEW q \in Followers(c)
  PROVE  MayFollow(c, q)
<1> DEFINE p == Last(c.params_stack)
<1>1. p \in Param /\ c.curr_param = p
  BY LastIs DEF AtWord
<1>2. q \in OptionsIn(options[p]) /\ (q = RefreshHook => ~c.refresh_disabled)
  BY <1>1 DEF Followers
<1>3. q \in Range(Children[p]) \cup Universal
  BY <1>1, <1>2, HookedOptions DEF Hooked
<1>4. CASE q \in Range(Children[p])
  BY <1>1, <1>2, <1>4, FilterFacts DEF MayFollow
<1>5. CASE q \notin Range(Children[p])
  <2>1. p = c.root \/ p = RootHook
    <3>1. SUFFICES ASSUME p # c.root, p # RootHook PROVE FALSE
      OBVIOUS
    <3>2. options[p] = InitOptions[p]
      BY <1>1, <3>1 DEF Hooked, HookedAt
    <3> QED
      BY <1>1, <1>2, <1>5, <3>2, OptionsInInit
  <2>2. p # RefreshHook
    BY <2>1, ModeUnfiltered, FilterFacts
  <2> QED
    BY <1>3, <1>5, <2>2, FilterFacts DEF MayFollow
<1> QED
  BY <1>4, <1>5

LEMMA FreshIsInit ==
  ASSUME NEW c, Good(c), Fresh(c)
  PROVE  c.cmdtc_state = "init"
BY Stacks DEF Shape, Fresh, CursorType

LEMMA AheadIs ==
  ASSUME NEW c, Good(c), NEW q \in Ahead(c)
  PROVE  q \in Listed(c) \/ (c.cmdtc_state = "init" /\ q \in Followers(c))
<1> DEFINE P(p) == p \in Listed(c) \/ (c.cmdtc_state = "init" /\ p \in Followers(c))
<1>1. ASSUME NEW p \in Candidates(c) PROVE P(p)
  <2>1. CASE Fresh(c)
    BY <1>1, <2>1, FreshIsInit DEF Candidates, Keywords
  <2>2. CASE ~Fresh(c)
    BY <1>1, <2>2 DEF Candidates, Listed
  <2> QED
    BY <2>1, <2>2
<1>2. ASSUME KnownLeaf(c) # NoParam PROVE P(KnownLeaf(c))
  <2>1. CASE Fresh(c)
    <3>1. KnownLeaf(c) = LeafOption(c)
      BY <2>1 DEF KnownLeaf
    <3>2. LeafOption(c) \in Followers(c)
      BY <1>2, <3>1 DEF LeafOption
    <3> QED
      BY <2>1, <3>1, <3>2, FreshIsInit
  <2>2. CASE ~Fresh(c)
    BY <1>2, <2>2 DEF KnownLeaf, Listed
  <2> QED
    BY <2>1, <2>2
<1>3. ASSUME NEW p \in OneWord(c) PROVE P(p)
  <2>1. Shape(c) /\ c \in CursorType /\ c.curr_param \in Param
    BY Stacks DEF CursorType
  <2>2. c.cmdtc_state \in {"init", "multiple_matches", "single_word_match", "matching_leaf"}
    BY <2>1 DEF CursorType
  <2>3. CASE c.cmdtc_state = "init"
    BY <1>1, <1>3, <2>3 DEF OneWord
  <2>4. CASE c.cmdtc_state = "multiple_matches"
    BY <1>3, <2>4 DEF OneWord, Exact, Listed
  <2>5. CASE c.cmdtc_state = "single_word_match"
    BY <1>3, <2>1, <2>5 DEF OneWord, Shape, Listed
  <2>6. CASE c.cmdtc_state = "matching_leaf"
    <3>1. p = c.curr_param /\ c.curr_param = c.leaf_param
      BY <1>3, <2>1, <2>6 DEF OneWord, Shape
    <3>2. c.leaf_param \in Listed(c)
      BY <2>1, <3>1, TreeFacts DEF Listed
    <3> QED
      BY <3>1, <3>2
  <2> QED
    BY <2>2, <2>3, <2>4, <2>5, <2>6
<1>4. q \in Listed(c) => P(q)
  OBVIOUS
<1> HIDE DEF P
<1>5. P(q)
  BY <1>1, <1>2, <1>3, <1>4 DEF Ahead
<1> QED
  BY <1>5 DEF P

LEMMA AheadFollows ==
  ASSUME NEW c, Good(c), AtMode(c), AtWord(c), Rooted(c), Hooked(c, options), FilterOK(c),
         Unfiltered(c), NEW q \in Ahead(c)
  PROVE  MayFollow(c, q)
BY AheadIs, FollowersFollow DEF FilterOK

-----------------------------------------------------------------------------
(* The flags through pushes and pops.                                      *)

LEMMA PushedFlags ==
  ASSUME NEW c, Good(c), NEW p \in Param, c.is_negate => ~IsNo(p)
  PROVE  LET d == Pushed(c, p) IN
         /\ d.params_stack = Append(c.params_stack, p)
         /\ d.filter_checkpoint = IF p = Pipe /\ c.filter_checkpoint = -1
                                  THEN Len(c.params_stack) ELSE c.filter_checkpoint
         /\ d.is_refresh = (c.is_refresh \/ p = RefreshHook)
         /\ d.refresh_disabled = (c.refresh_disabled \/ p = RefreshValHook)
         /\ d.matching_params_list = {} /\ d.leaf_param = NoParam
<1> DEFINE a == [c EXCEPT !.curr_param = p]
           b == Between(a)
           stack == Append(c.params_stack, p)
           tlvs == Append(c.tlv_stack, Tlv(p, c.curr_leaf_value))
           e == [b EXCEPT !.params_stack = stack, !.tlv_stack = tlvs]
           d == EnteredForward(e, p)
<1>1. c \in CursorType /\ Len(c.params_stack) \in Nat /\ c.params_stack \in Seq(Param)
  BY Stacks
<1>2. a \in CursorType /\ a.curr_param = p /\ a.params_stack = c.params_stack
      /\ a.tlv_stack = c.tlv_stack /\ a.curr_leaf_value = c.curr_leaf_value
      /\ a.filter_checkpoint = c.filter_checkpoint /\ a.is_refresh = c.is_refresh
      /\ a.refresh_disabled = c.refresh_disabled
  BY <1>1 DEF CursorType
<1>3. Pushed(c, p) = d
  <2>1. Pushed(c, p) = NextLevel(a)
    BY DEF Pushed
  <2>2. b.params_stack = c.params_stack /\ b.tlv_stack = c.tlv_stack
    BY <1>2 DEF Between, CursorType
  <2> QED
    BY <1>2, <2>1, <2>2 DEF NextLevel
<1> HIDE DEF a, stack, tlvs
<1>4. b \in CursorType /\ b.filter_checkpoint = c.filter_checkpoint
      /\ b.is_refresh = c.is_refresh /\ b.refresh_disabled = c.refresh_disabled
      /\ b.matching_params_list = {} /\ b.leaf_param = NoParam
  BY <1>2, BetweenOK DEF Between, CursorType
<1> HIDE DEF b
<1>5. /\ e.filter_checkpoint = c.filter_checkpoint /\ e.params_stack = stack
      /\ e.is_refresh = c.is_refresh /\ e.refresh_disabled = c.refresh_disabled
      /\ e.matching_params_list = {} /\ e.leaf_param = NoParam
      /\ DOMAIN e = DOMAIN b
  BY <1>4 DEF CursorType
<1>6. {"params_stack", "filter_checkpoint", "is_refresh", "refresh_disabled",
       "matching_params_list", "leaf_param", "is_negate", "clrscr", "curr_leaf_value"}
        \subseteq DOMAIN e
  BY <1>4, <1>5 DEF CursorType
<1>7. Len(stack) - 1 = Len(c.params_stack)
  BY <1>1, AppendProperties DEF stack
<1> HIDE DEF e
<1>8. /\ d.params_stack = stack /\ d.matching_params_list = {} /\ d.leaf_param = NoParam
      /\ d.filter_checkpoint = FirstPipeMark(e, p)
      /\ d.is_refresh = (c.is_refresh \/ p = RefreshHook)
      /\ d.refresh_disabled = (c.refresh_disabled \/ p = RefreshValHook)
  BY <1>5, <1>6 DEF EnteredForward
<1>9. FirstPipeMark(e, p) = IF p = Pipe /\ c.filter_checkpoint = -1
                            THEN Len(c.params_stack) ELSE c.filter_checkpoint
  BY <1>5, <1>7 DEF FirstPipeMark, Top
<1> HIDE DEF d
<1> QED
  BY <1>3, <1>8, <1>9 DEF stack

LEMMA PipeMarked ==
  ASSUME NEW T, NEW s \in Seq(T), NEW n \in Nat \cup {-1}, IsFirstPipe(s, n), NEW p \in T
  PROVE  IsFirstPipe(Append(s, p), IF p = Pipe /\ n = -1 THEN Len(s) ELSE n)
<1> DEFINE l == Len(s)
           u == Append(s, p)
<1>1. l \in Nat /\ Len(u) = l + 1 /\ u[l + 1] = p /\ \A i \in 1 .. l : u[i] = s[i]
  BY LenProperties, AppendProperties
<1> HIDE DEF l, u
<1>2. CASE n = -1 /\ \A i \in 1 .. l : s[i] # Pipe
  <2>1. CASE p = Pipe
    <3>1. l + 1 \in 1 .. Len(u)
      BY <1>1
    <3> QED
      BY <1>1, <1>2, <2>1, <3>1 DEF IsFirstPipe, u, l
  <2>2. CASE p # Pipe
    <3>1. \A i \in 1 .. Len(u) : i \in 1 .. l \/ i = l + 1
      BY <1>1
    <3> QED
      BY <1>1, <1>2, <2>2, <3>1 DEF IsFirstPipe, u, l
  <2> QED
    BY <2>1, <2>2
<1>3. CASE n + 1 \in 1 .. l /\ s[n + 1] = Pipe /\ \A i \in 1 .. n : s[i] # Pipe
  <2>1. n # -1 /\ n + 1 \in 1 .. Len(u) /\ \A i \in 1 .. n : i \in 1 .. l
    BY <1>1, <1>3
  <2> QED
    BY <1>1, <1>3, <2>1 DEF IsFirstPipe, u
<1> QED
  BY <1>2, <1>3 DEF IsFirstPipe, l

LEMMA PushedFilter ==
  ASSUME NEW c, Good(c), Rooted(c), Marked(c), NEW p \in Param, p # RootHook,
         c.is_negate => ~IsNo(p), MayFollow(c, p)
  PROVE  FilterOK(Pushed(c, p))
<1> DEFINE d == Pushed(c, p)
           s == c.params_stack
           l == Len(s)
           u == Append(s, p)
           n == c.filter_checkpoint
<1>1. /\ d.params_stack = u
      /\ d.filter_checkpoint = IF p = Pipe /\ n = -1 THEN l ELSE n
      /\ d.is_refresh = (c.is_refresh \/ p = RefreshHook)
      /\ d.refresh_disabled = (c.refresh_disabled \/ p = RefreshValHook)
      /\ d.matching_params_list = {} /\ d.leaf_param = NoParam
  BY PushedFlags
<1>2. /\ s \in Seq(Param) /\ l \in Nat \ {0} /\ n \in Nat \cup {-1}
      /\ c.is_refresh \in BOOLEAN /\ c.refresh_disabled \in BOOLEAN
      /\ Last(s) = s[l]
  BY Stacks, LastIs DEF CursorType
<1>3. Len(u) = l + 1 /\ u[l + 1] = p /\ \A i \in 1 .. l : u[i] = s[i]
  BY <1>2, AppendProperties
<1>4. /\ IsFirstPipe(s, n) /\ FilterPath(s) /\ OneRefresh(s)
      /\ c.is_refresh <=> On(s, RefreshHook)
      /\ c.refresh_disabled <=> On(s, RefreshValHook)
  BY DEF Marked
<1>5. IsFirstPipe(u, IF p = Pipe /\ n = -1 THEN l ELSE n)
  BY <1>2, <1>4, PipeMarked
<1> HIDE DEF d, s, l, u, n
<1>6. \A i \in 1 .. Len(u) : i \in 1 .. l \/ i = l + 1
  BY <1>2, <1>3
<1>7. \A q : On(u, q) <=> On(s, q) \/ p = q
  <2>1. l + 1 \in 1 .. Len(u) /\ \A i \in 1 .. l : i \in 1 .. Len(u)
    BY <1>2, <1>3
  <2> QED
    BY <1>3, <1>6, <2>1 DEF On, l
<1>8. FilterPath(u)
  <2>1. ASSUME NEW i \in 2 .. Len(u)
        PROVE  /\ u[i] = RefreshHook => u[i - 1] = Pipe
               /\ u[i] = RefreshValHook <=> u[i - 1] = RefreshHook
    <3>1. CASE i = l + 1
      <4>1. i - 1 = l /\ l \in 1 .. l
        BY <1>2, <3>1
      <4>2. u[i] = p /\ u[i - 1] = Last(s)
        BY <1>2, <1>3, <3>1, <4>1
      <4> QED
        BY <4>2 DEF MayFollow, s
    <3>2. CASE i # l + 1
      <4>1. i \in 2 .. l /\ i \in 1 .. l /\ i - 1 \in 1 .. l
        BY <1>2, <1>3, <3>2
      <4> QED
        BY <1>3, <1>4, <4>1 DEF FilterPath, l
    <3> QED
      BY <3>1, <3>2
  <2> QED
    BY <2>1 DEF FilterPath
<1>9. OneRefresh(u)
  <2>1. CASE p # RefreshHook
    <3>1. ASSUME NEW i \in 1 .. Len(u), NEW j \in 1 .. Len(u),
                 u[i] = RefreshHook, u[j] = RefreshHook
          PROVE  i = j
      <4>1. i \in 1 .. l /\ j \in 1 .. l
        BY <1>3, <1>6, <2>1, <3>1
      <4> QED
        BY <1>3, <1>4, <3>1, <4>1 DEF OneRefresh, l
    <3> QED
      BY <3>1 DEF OneRefresh
  <2>2. CASE p = RefreshHook
    <3>1. s[l] = Pipe /\ ~c.refresh_disabled
      BY <1>2, <2>2 DEF MayFollow, s
    <3>2. ASSUME NEW i \in 1 .. l PROVE s[i] # RefreshHook
      <4>1. CASE i = l
        BY <2>2, <3>1, <4>1, FilterAssumption, FilterFacts DEF MayFollow
      <4>2. CASE i # l
        <5>1. i + 1 \in 2 .. l /\ i + 1 - 1 = i /\ i + 1 \in 1 .. l
          BY <1>2, <4>2
        <5>2. s[i + 1] # RefreshValHook
          BY <1>4, <3>1, <5>1 DEF On, l
        <5> QED
          BY <1>4, <5>1, <5>2 DEF FilterPath, l
      <4> QED
        BY <4>1, <4>2
    <3>3. \A i \in 1 .. Len(u) : u[i] = RefreshHook => i = l + 1
      BY <1>3, <1>6, <3>2
    <3> QED
      BY <3>3 DEF OneRefresh
  <2> QED
    BY <2>1, <2>2
<1>10. Marked(d)
  BY <1>1, <1>4, <1>5, <1>7, <1>8, <1>9 DEF Marked
<1> QED
  BY <1>1, <1>10 DEF FilterOK, Listed, d

\* A pop takes the flags of what it pops along.
Popped(c, d, k) ==
  LET gone == {c.params_stack[i] : i \in k + 1 .. Len(c.params_stack)} IN
  /\ d.params_stack = SubSeq(c.params_stack, 1, k)
  /\ d.filter_checkpoint = IF k <= c.filter_checkpoint THEN -1 ELSE c.filter_checkpoint
  /\ d.is_refresh = (c.is_refresh /\ RefreshHook \notin gone)
  /\ d.refresh_disabled = (c.refresh_disabled /\ RefreshValHook \notin gone)
  /\ d.matching_params_list = {} /\ d.leaf_param = NoParam

LEMMA PopMarked ==
  ASSUME NEW T, NEW s \in Seq(T), NEW n \in Nat \cup {-1}, IsFirstPipe(s, n),
         NEW k \in 1 .. Len(s)
  PROVE  IsFirstPipe(SubSeq(s, 1, k), IF k <= n THEN -1 ELSE n)
<1> DEFINE l == Len(s)
           u == SubSeq(s, 1, k)
<1>1. l \in Nat /\ Len(u) = k /\ \A i \in 1 .. k : u[i] = s[i] /\ i \in 1 .. l
  BY LenProperties, SubSeqIs
<1>2. k \in 1 .. l
  OBVIOUS
<1> HIDE DEF l, u
<1>3. CASE n = -1 /\ \A i \in 1 .. l : s[i] # Pipe
  <2>1. ~ (k <= n)
    BY <1>1, <1>2, <1>3
  <2> QED
    BY <1>1, <1>3, <2>1 DEF IsFirstPipe, u
<1>4. CASE n + 1 \in 1 .. l /\ s[n + 1] = Pipe /\ \A i \in 1 .. n : s[i] # Pipe
  <2>1. CASE k <= n
    <3>1. \A i \in 1 .. k : i \in 1 .. n
      BY <1>2, <1>4, <2>1
    <3> QED
      BY <1>1, <1>4, <2>1, <3>1 DEF IsFirstPipe, u
  <2>2. CASE ~ (k <= n)
    <3>1. n + 1 \in 1 .. k /\ \A i \in 1 .. n : i \in 1 .. k
      BY <1>1, <1>2, <1>4, <2>2
    <3> QED
      BY <1>1, <1>4, <2>2, <3>1 DEF IsFirstPipe, u
  <2> QED
    BY <2>1, <2>2
<1> QED
  BY <1>3, <1>4 DEF IsFirstPipe, l

LEMMA PopFilter ==
  ASSUME NEW c, Good(c), Rooted(c), Marked(c), NEW k \in 1 .. Len(c.params_stack),
         NEW d, Popped(c, d, k)
  PROVE  FilterOK(d)
<1> DEFINE s == c.params_stack
           u == d.params_stack
           l == Len(s)
           gone == {s[i] : i \in k + 1 .. l}
<1>1. /\ u = SubSeq(s, 1, k) /\ d.matching_params_list = {} /\ d.leaf_param = NoParam
      /\ d.filter_checkpoint = IF k <= c.filter_checkpoint THEN -1 ELSE c.filter_checkpoint
      /\ d.is_refresh = (c.is_refresh /\ RefreshHook \notin gone)
      /\ d.refresh_disabled = (c.refresh_disabled /\ RefreshValHook \notin gone)
  BY DEF Popped
<1>2. /\ s \in Seq(Param) /\ l \in Nat \ {0} /\ k \in 1 .. l
      /\ c.filter_checkpoint \in Nat \cup {-1}
      /\ c.is_refresh \in BOOLEAN /\ c.refresh_disabled \in BOOLEAN /\ s[1] = RootHook
  BY Stacks DEF CursorType, Rooted
<1>3. /\ IsFirstPipe(s, c.filter_checkpoint) /\ FilterPath(s) /\ OneRefresh(s)
      /\ c.is_refresh <=> On(s, RefreshHook)
      /\ c.refresh_disabled <=> On(s, RefreshValHook)
  BY DEF Marked
<1>4. IsFirstPipe(u, d.filter_checkpoint)
  BY <1>1, <1>2, <1>3, PopMarked
<1>5. Len(u) = k /\ \A i \in 1 .. k : u[i] = s[i] /\ i \in 1 .. l
  BY <1>1, <1>2, SubSeqIs
<1> HIDE DEF s, u, l, gone
<1>6. \A i \in 1 .. l : i \in 1 .. k \/ i \in k + 1 .. l
  BY <1>2
<1>7. \A i \in k + 1 .. l : i \in 1 .. l /\ i \notin 1 .. k
  BY <1>2
<1>8. FilterPath(u)
  <2>1. \A i \in 2 .. k : i \in 2 .. l /\ i \in 1 .. k /\ i - 1 \in 1 .. k
    BY <1>2
  <2> QED
    BY <1>3, <1>5, <2>1 DEF FilterPath, l
<1>9. OneRefresh(u)
  BY <1>3, <1>5 DEF OneRefresh, l
<1>10. ASSUME NEW q,
              \A i, j \in 1 .. l : s[i] = q /\ s[j] = q => i = j
       PROVE  On(u, q) <=> On(s, q) /\ q \notin gone
  <2>1. ASSUME On(u, q) PROVE On(s, q) /\ q \notin gone
    <3>1. PICK i \in 1 .. k : s[i] = q /\ i \in 1 .. l
      BY <1>5, <2>1 DEF On
    <3>2. q \notin gone
      BY <1>7, <1>10, <3>1 DEF gone
    <3> QED
      BY <3>1, <3>2 DEF On, l
  <2>2. ASSUME On(s, q), q \notin gone PROVE On(u, q)
    <3>1. PICK i \in 1 .. l : s[i] = q
      BY <2>2 DEF On, l
    <3>2. i \in 1 .. k
      BY <1>6, <2>2, <3>1 DEF gone
    <3> QED
      BY <1>5, <3>1, <3>2 DEF On
  <2> QED
    BY <2>1, <2>2
<1>11. On(u, RefreshHook) <=> On(s, RefreshHook) /\ RefreshHook \notin gone
  BY <1>3, <1>10 DEF OneRefresh, l
<1>12. On(u, RefreshValHook) <=> On(s, RefreshValHook) /\ RefreshValHook \notin gone
  <2>1. ASSUME NEW i \in 1 .. l, NEW j \in 1 .. l, s[i] = RefreshValHook, s[j] = RefreshValHook
        PROVE  i = j
    <3>1. i # 1 /\ j # 1
      BY <1>2, <2>1, FilterFacts
    <3>2. /\ i \in 2 .. l /\ j \in 2 .. l /\ i - 1 \in 1 .. l /\ j - 1 \in 1 .. l
          /\ i - 1 = j - 1 => i = j
      BY <1>2, <3>1
    <3>3. s[i - 1] = RefreshHook /\ s[j - 1] = RefreshHook
      BY <1>3, <2>1, <3>2 DEF FilterPath, l
    <3> QED
      BY <1>3, <3>2, <3>3 DEF OneRefresh, l
  <2> QED
    BY <1>10, <2>1
<1>13. Marked(d)
  BY <1>1, <1>3, <1>4, <1>8, <1>9, <1>11, <1>12 DEF Marked, u
<1> QED
  BY <1>1, <1>13 DEF FilterOK, Listed

LEMMA ResetPops ==
  ASSUME NEW c, Good(c)
  PROVE  Popped(c, Reset(c), c.stack_checkpoint + 1)
<1> DEFINE k == c.stack_checkpoint + 1
           gone == {c.params_stack[i] : i \in Kept(c) + 1 .. Len(c.params_stack)}
           b == Between(c)
           e == ExitBackward(b, gone)
           d == Reset(c)
<1>1. c \in CursorType
  BY Stacks
<1>2. /\ b \in CursorType /\ b.filter_checkpoint = c.filter_checkpoint
      /\ b.is_refresh = c.is_refresh /\ b.refresh_disabled = c.refresh_disabled
  BY <1>1, BetweenOK DEF Between, CursorType
<1> HIDE DEF gone, b
<1>3. /\ e \in CursorType /\ e.filter_checkpoint = c.filter_checkpoint
      /\ e.is_refresh = (c.is_refresh /\ RefreshHook \notin gone)
      /\ e.refresh_disabled = (c.refresh_disabled /\ RefreshValHook \notin gone)
  <2>1. e \in CursorType
    BY <1>2, ExitBackwardOK
  <2>2. {"filter_checkpoint", "is_refresh", "refresh_disabled", "is_negate", "clrscr"} \subseteq DOMAIN b
    BY <1>2 DEF CursorType
  <2> QED
    BY <1>2, <2>1, <2>2 DEF ExitBackward
<1>4. d = [e EXCEPT !.params_stack = SubSeq(@, 1, Kept(c)),
                    !.tlv_stack = SubSeq(@, 1, Kept(c)),
                    !.filter_checkpoint = IF Kept(c) <= @ THEN -1 ELSE @,
                    !.curr_param = c.root,
                    !.curr_leaf_value = <<>>]
  BY DEF Reset, gone, b
<1> HIDE DEF e, d
<1>5. /\ d.filter_checkpoint = IF Kept(c) <= e.filter_checkpoint THEN -1 ELSE e.filter_checkpoint
      /\ d.is_refresh = e.is_refresh /\ d.refresh_disabled = e.refresh_disabled
  BY <1>3, <1>4 DEF CursorType
<1>6. /\ d.params_stack = SubSeq(c.params_stack, 1, k)
      /\ d.matching_params_list = {} /\ d.leaf_param = NoParam /\ Kept(c) = k
  BY ResetIs DEF d, Kept
<1> QED
  BY <1>3, <1>5, <1>6 DEF Popped, gone, d

LEMMA LevelUpPops ==
  ASSUME NEW c, Good(c), Marked(c), c.cmdtc_state = "init", Len(c.params_stack) > 1
  PROVE  Popped(c, LevelUp(c), Len(c.params_stack) - 1)
<1> DEFINE l == Len(c.params_stack)
           k == l - 1
           gone == {Last(c.params_stack)}
           e == ExitBackward(c, gone)
           d == LevelUp(c)
<1>1. c \in CursorType /\ l \in Nat /\ Last(c.params_stack) = c.params_stack[l]
  BY Stacks, LastIs
<1>2. gone = {c.params_stack[i] : i \in k + 1 .. l}
  <2>1. k + 1 .. l = {l}
    BY <1>1
  <2> HIDE DEF l, k
  <2> QED
    BY <1>1, <2>1
<1> HIDE DEF gone
<1>3. /\ e \in CursorType /\ e.filter_checkpoint = c.filter_checkpoint
      /\ e.is_refresh = (c.is_refresh /\ RefreshHook \notin gone)
      /\ e.refresh_disabled = (c.refresh_disabled /\ RefreshValHook \notin gone)
  <2>1. e \in CursorType
    BY <1>1, ExitBackwardOK
  <2>2. {"filter_checkpoint", "is_refresh", "refresh_disabled", "is_negate", "clrscr"} \subseteq DOMAIN c
    BY <1>1 DEF CursorType
  <2> QED
    BY <2>1, <2>2 DEF ExitBackward
<1>4. d = [e EXCEPT !.params_stack = Front(@),
                    !.tlv_stack = Front(@),
                    !.filter_checkpoint = IF @ = Top(c.params_stack) THEN -1 ELSE @,
                    !.stack_checkpoint = MarkAfterPop(c),
                    !.curr_param = Last(Front(c.params_stack)),
                    !.curr_leaf_value = <<>>,
                    !.matching_params_list = {},
                    !.leaf_param = NoParam]
  BY DEF LevelUp, gone
<1> HIDE DEF e, d
<1>5. /\ d.filter_checkpoint = IF e.filter_checkpoint = Top(c.params_stack) THEN -1
                               ELSE e.filter_checkpoint
      /\ d.is_refresh = e.is_refresh /\ d.refresh_disabled = e.refresh_disabled
      /\ d.matching_params_list = {} /\ d.leaf_param = NoParam
  BY <1>3, <1>4 DEF CursorType
<1>6. d.params_stack = SubSeq(c.params_stack, 1, k)
  BY LevelUpIs DEF d
<1>7. c.filter_checkpoint = Top(c.params_stack) <=> k <= c.filter_checkpoint
  <2>1. c.filter_checkpoint = -1 \/ c.filter_checkpoint + 1 \in 1 .. l
    BY DEF Marked, IsFirstPipe
  <2>2. c.filter_checkpoint \in Int /\ l > 1 /\ Top(c.params_stack) = l - 1
    BY <1>1 DEF CursorType, Top
  <2> HIDE DEF l
  <2> QED
    BY <1>1, <2>1, <2>2
<1> QED
  BY <1>2, <1>3, <1>5, <1>6, <1>7 DEF Popped, gone, d

-----------------------------------------------------------------------------
(* Every key keeps the flags, while no mode is entered within the filters. *)

LEMMA FilterBefore ==
  ASSUME FilterInv, NoFilterMode, Reading
  PROVE  /\ Good(cmdtc) /\ AtMode(cmdtc) /\ AtWord(cmdtc) /\ OptionsType
         /\ cmdtc \in CursorType /\ Rooted(cmdtc) /\ Hooked(cmdtc, options)
         /\ FilterOK(cmdtc) /\ Marked(cmdtc) /\ Unfiltered(cmdtc) /\ status = "running"
         /\ HookInv
BY HooksBefore DEF FilterInv, FilterOK, NoFilterMode

\* What every key leaves alone that pushes and pops nothing.
Kin(c, d) ==
  /\ d.params_stack = c.params_stack /\ d.filter_checkpoint = c.filter_checkpoint
  /\ d.is_refresh = c.is_refresh /\ d.refresh_disabled = c.refresh_disabled
Beside(c, d) == Kin(c, d) /\ d.stack_checkpoint = c.stack_checkpoint

\* What a key does that pushes and pops nothing.
WithinWord == Beside(cmdtc, cmdtc') /\ Listed(cmdtc') \subseteq Ahead(cmdtc)

LEMMA TypeCharWithin ==
  ASSUME HookInv, NEW k \in Key, TypeChar(k)
  PROVE  WithinWord
<1> DEFINE leaf == KnownLeaf(cmdtc)
           m == Matched(cmdtc, k)
           typed == [cmdtc EXCEPT !.icursor = cmdtc.icursor + 1,
                                  !.curr_leaf_value = Save(cmdtc, leaf, <<k>>)]
<1>1. Reading /\ cmdtc' = ParseChar(cmdtc, k)
  BY DEF TypeChar
<1>2. cmdtc \in CursorType
  BY <1>1, HooksBefore
<1>3. /\ Beside(cmdtc, cmdtc')
      /\ cmdtc'.matching_params_list \in {cmdtc.matching_params_list, m}
      /\ cmdtc'.leaf_param \in {cmdtc.leaf_param, leaf}
  <2> HIDE DEF leaf, m
  <2>1. /\ {"params_stack", "stack_checkpoint", "filter_checkpoint", "is_refresh", "refresh_disabled",
            "matching_params_list", "cmdtc_state", "leaf_param",
            "curr_param", "curr_leaf_value"} \subseteq DOMAIN typed
        /\ Beside(cmdtc, typed) /\ typed.leaf_param = cmdtc.leaf_param
        /\ typed.matching_params_list = cmdtc.matching_params_list
    BY <1>2 DEF CursorType, Beside, Kin
  <2>2. \E q, w : cmdtc' \in
           {typed,
            [typed EXCEPT !.cmdtc_state = "matching_leaf", !.leaf_param = leaf,
                          !.curr_param = leaf],
            [typed EXCEPT !.cmdtc_state = "multiple_matches", !.leaf_param = leaf,
                          !.matching_params_list = m],
            [typed EXCEPT !.cmdtc_state = "single_word_match", !.leaf_param = leaf,
                          !.matching_params_list = m, !.curr_param = q,
                          !.curr_leaf_value = w]}
    BY <1>1 DEF ParseChar, leaf, m
  <2> HIDE DEF typed
  <2> QED
    BY <2>1, <2>2 DEF Beside, Kin
<1>4. m \subseteq Candidates(cmdtc)
  BY DEF Matched
<1> HIDE DEF m
<1>5. Listed(cmdtc') \subseteq Ahead(cmdtc)
  BY <1>3, <1>4 DEF Listed, Ahead
<1> QED
  BY <1>1, <1>3, <1>5 DEF WithinWord

LEMMA SpaceListsWithin ==
  ASSUME HookInv, SpaceLists
  PROVE  WithinWord
<1> DEFINE m == Candidates(cmdtc)
           leaf == KnownLeaf(cmdtc)
<1>1. /\ Reading
      /\ cmdtc' = [cmdtc EXCEPT !.matching_params_list = m, !.leaf_param = leaf]
  BY DEF SpaceLists
<1> HIDE DEF m, leaf
<1>2. /\ Beside(cmdtc, cmdtc')
      /\ cmdtc'.matching_params_list = m /\ cmdtc'.leaf_param = leaf
  BY <1>1, HooksBefore DEF CursorType, Beside, Kin
<1>3. Listed(cmdtc') \subseteq Ahead(cmdtc)
  BY <1>2 DEF Listed, Ahead, m, leaf
<1> QED
  BY <1>1, <1>2, <1>3 DEF WithinWord

LEMMA SpaceCompletesWithin ==
  ASSUME HookInv, SpaceCompletes
  PROVE  WithinWord
<1> DEFINE m == Candidates(cmdtc)
           leaf == KnownLeaf(cmdtc)
           keys == FirstN(Completion(cmdtc, m), MAX_COMMAND_LENGTH - Used)
           listed == [cmdtc EXCEPT !.matching_params_list = m, !.leaf_param = leaf,
                                   !.cmdtc_state = "multiple_matches"]
<1>1. Reading /\ cmdtc' = AutoTyped(listed, keys)
  BY DEF SpaceCompletes
<1> HIDE DEF m, leaf, keys
<1>2. /\ Beside(cmdtc, listed) /\ listed.matching_params_list = m /\ listed.leaf_param = leaf
      /\ {"params_stack", "stack_checkpoint", "filter_checkpoint", "is_refresh", "refresh_disabled",
          "matching_params_list", "leaf_param"} \subseteq DOMAIN listed
  BY <1>1, HooksBefore DEF CursorType, Beside, Kin
<1> HIDE DEF listed
<1>3. /\ Beside(cmdtc, cmdtc')
      /\ cmdtc'.matching_params_list = m /\ cmdtc'.leaf_param = leaf
  BY <1>1, <1>2 DEF AutoTyped, Beside, Kin
<1>4. Listed(cmdtc') \subseteq Ahead(cmdtc)
  BY <1>3 DEF Listed, Ahead, m, leaf
<1> QED
  BY <1>1, <1>3, <1>4 DEF WithinWord

LEMMA AutoCompletionSpinsWithin ==
  ASSUME HookInv, AutoCompletionSpins
  PROVE  WithinWord
<1>1. Reading
  BY DEF AutoCompletionSpins
<1>2. PICK p \in OneWord(cmdtc) :
        cmdtc' = AutoTyped([cmdtc EXCEPT !.curr_param = p,
                                         !.matching_params_list = {p},
                                         !.leaf_param = KnownLeaf(cmdtc),
                                         !.cmdtc_state = "single_word_match"],
                           FirstN(Missing(cmdtc, p), MAX_COMMAND_LENGTH - Used))
  BY DEF AutoCompletionSpins
<1> DEFINE leaf == KnownLeaf(cmdtc)
           keys == FirstN(Missing(cmdtc, p), MAX_COMMAND_LENGTH - Used)
           listed == [cmdtc EXCEPT !.curr_param = p, !.matching_params_list = {p},
                                   !.leaf_param = leaf,
                                   !.cmdtc_state = "single_word_match"]
<1>3. cmdtc' = AutoTyped(listed, keys)
  BY <1>2
<1> HIDE DEF leaf, keys
<1>4. /\ Beside(cmdtc, listed) /\ listed.matching_params_list = {p} /\ listed.leaf_param = leaf
      /\ {"params_stack", "stack_checkpoint", "filter_checkpoint", "is_refresh", "refresh_disabled",
          "matching_params_list", "leaf_param"} \subseteq DOMAIN listed
  BY <1>1, HooksBefore DEF CursorType, Beside, Kin
<1> HIDE DEF listed
<1>5. /\ Beside(cmdtc, cmdtc')
      /\ cmdtc'.matching_params_list = {p} /\ cmdtc'.leaf_param = leaf
  BY <1>3, <1>4 DEF AutoTyped, Beside, Kin
<1>6. Listed(cmdtc') \subseteq Ahead(cmdtc)
  BY <1>5 DEF Listed, Ahead, leaf
<1> QED
  BY <1>1, <1>5, <1>6 DEF WithinWord

LEMMA PushFollows ==
  ASSUME FilterInv, NoFilterMode, Reading, NEW p \in OneWord(cmdtc)
  PROVE  /\ p \in Param /\ (cmdtc.is_negate => ~IsNo(p)) /\ p # RootHook
         /\ FilterOK(Pushed(cmdtc, p))
<1>1. p \in Param /\ (cmdtc.is_negate => ~IsNo(p)) /\ p # RootHook
  BY FilterBefore, OneWordOK, OneWordRooted DEF Hooked
<1>2. MayFollow(cmdtc, p)
  BY FilterBefore, AheadFollows DEF Ahead
<1> QED
  BY <1>1, <1>2, FilterBefore, PushedFilter

LEMMA SpaceAcceptsFilter ==
  ASSUME FilterInv, NoFilterMode, SpaceAccepts
  PROVE  FilterStep
<1>1. Reading /\ \E p \in OneWord(cmdtc) : cmdtc' = Pushed(cmdtc, p)
  BY DEF SpaceAccepts
<1> QED
  BY <1>1, PushFollows DEF FilterStep

LEMMA ResetFilter ==
  ASSUME NEW c, Good(c), Rooted(c), Marked(c)
  PROVE  FilterOK(Reset(c))
<1>1. c.stack_checkpoint + 1 \in 1 .. Len(c.params_stack)
  BY Stacks
<1> QED
  BY <1>1, ResetPops, PopFilter

LEMMA ReturnFilter ==
  ASSUME FilterInv, NoFilterMode, ReturnCommand \/ RunMode \/ ReturnReject
  PROVE  FilterStep
<1>1. Reading /\ cmdtc' = Reset(cmdtc)
  BY DEF ReturnCommand, RunMode, ReturnReject, Submit
<1> QED
  BY <1>1, FilterBefore, ResetFilter DEF FilterStep

LEMMA ReturnWordFilter ==
  ASSUME FilterInv, NoFilterMode, ReturnWord
  PROVE  FilterStep
<1>1. Reading /\ \E p \in OneWord(cmdtc) :
                    cmdtc' = Reset(Pushed(cmdtc, p)) \/ cmdtc' = Pushed(cmdtc, p)
  BY DEF ReturnWord, Submit
<1>2. PICK p \in OneWord(cmdtc) : cmdtc' = Reset(Pushed(cmdtc, p)) \/ cmdtc' = Pushed(cmdtc, p)
  BY <1>1
<1>3. /\ p \in Param /\ (cmdtc.is_negate => ~IsNo(p)) /\ p # RootHook
      /\ FilterOK(Pushed(cmdtc, p))
  BY <1>1, PushFollows
<1>4. Good(Pushed(cmdtc, p)) /\ Rooted(Pushed(cmdtc, p)) /\ Marked(Pushed(cmdtc, p))
  BY <1>1, <1>3, FilterBefore, PushedOK, PushedHooks DEF FilterOK
<1>5. FilterOK(Reset(Pushed(cmdtc, p)))
  BY <1>4, ResetFilter
<1> QED
  BY <1>2, <1>3, <1>5 DEF FilterStep

LEMMA BetweenBeside ==
  ASSUME NEW c \in CursorType, NEW q, NEW v
  PROVE  LET d == [Between(c) EXCEPT !.curr_param = q, !.curr_leaf_value = v]
         IN  Beside(c, d) /\ d.matching_params_list = {} /\ d.leaf_param = NoParam
BY DEF Between, CursorType, Beside, Kin

LEMMA EraseCharWithin ==
  ASSUME HookInv, EraseChar
  PROVE  WithinWord
<1> DEFINE v == SubSeq(cmdtc.curr_leaf_value, 1, cmdtc.icursor - 1)
           c == [cmdtc EXCEPT !.icursor = cmdtc.icursor - 1, !.curr_leaf_value = v]
           q == Last(cmdtc.params_stack)
           d == [Between(cmdtc) EXCEPT !.curr_param = q, !.curr_leaf_value = v]
<1>1. Reading
  BY DEF EraseChar
<1>2. cmdtc' = c \/ cmdtc' = [Between(c) EXCEPT !.curr_param = Last(c.params_stack)]
  BY DEF EraseChar
<1>3. cmdtc \in CursorType
  BY <1>1, HooksBefore
<1> HIDE DEF v
<1>4. /\ Beside(cmdtc, c) /\ c.matching_params_list = cmdtc.matching_params_list
      /\ c.leaf_param = cmdtc.leaf_param
  BY <1>3 DEF CursorType, Beside, Kin
<1>5. [Between(c) EXCEPT !.curr_param = Last(c.params_stack)] = d
  BY <1>3 DEF Between, CursorType
<1> HIDE DEF c, q
<1>6. Beside(cmdtc, d) /\ d.matching_params_list = {} /\ d.leaf_param = NoParam
  BY <1>3, BetweenBeside
<1> HIDE DEF d
<1>7. /\ Beside(cmdtc, cmdtc')
      /\ cmdtc'.matching_params_list \in {cmdtc.matching_params_list, {}}
      /\ cmdtc'.leaf_param \in {cmdtc.leaf_param, NoParam}
  BY <1>2, <1>4, <1>5, <1>6
<1>8. Listed(cmdtc') \subseteq Ahead(cmdtc)
  BY <1>7 DEF Listed, Ahead
<1> QED
  BY <1>1, <1>7, <1>8 DEF WithinWord

LEMMA EraseWordWithin ==
  ASSUME HookInv, EraseWord
  PROVE  WithinWord
<1> DEFINE v == IF cmdtc.leaf_param = NoParam THEN cmdtc.curr_leaf_value ELSE <<>>
           q == Last(cmdtc.params_stack)
           d == [Between(cmdtc) EXCEPT !.curr_param = q, !.curr_leaf_value = v]
<1>1. Reading
  BY DEF EraseWord
<1>2. cmdtc' = d
  BY DEF EraseWord, Between
<1>3. cmdtc \in CursorType
  BY <1>1, HooksBefore
<1> HIDE DEF v, q
<1>4. Beside(cmdtc, d) /\ d.matching_params_list = {} /\ d.leaf_param = NoParam
  BY <1>3, BetweenBeside
<1> HIDE DEF d
<1>5. Listed(cmdtc') \subseteq Ahead(cmdtc)
  BY <1>2, <1>4 DEF Listed
<1> QED
  BY <1>1, <1>2, <1>4, <1>5 DEF WithinWord

LEMMA Typing ==
  ASSUME HookInv,
         \/ \E k \in Key : TypeChar(k)
         \/ SpaceLists \/ SpaceCompletes \/ AutoCompletionSpins \/ EraseChar \/ EraseWord
  PROVE  Reading /\ WithinWord /\ NoOutput
<1>1. Reading /\ NoOutput
  BY DEF TypeChar, SpaceLists, SpaceCompletes, AutoCompletionSpins, EraseChar, EraseWord
<1> QED
  BY <1>1, TypeCharWithin, SpaceListsWithin, SpaceCompletesWithin, AutoCompletionSpinsWithin,
     EraseCharWithin, EraseWordWithin

LEMMA TypingFilter ==
  ASSUME FilterInv, NoFilterMode,
         \/ \E k \in Key : TypeChar(k)
         \/ SpaceLists \/ SpaceCompletes \/ AutoCompletionSpins \/ EraseChar \/ EraseWord
  PROVE  FilterStep
<1>1. Reading /\ Beside(cmdtc, cmdtc') /\ Listed(cmdtc') \subseteq Ahead(cmdtc)
  BY Typing DEF FilterInv, WithinWord
<1>2. \A q \in Ahead(cmdtc) : MayFollow(cmdtc, q)
  BY <1>1, FilterBefore, AheadFollows
<1>3. \A q : MayFollow(cmdtc, q) => MayFollow(cmdtc', q)
  BY <1>1 DEF MayFollow, Beside, Kin
<1>4. Marked(cmdtc')
  BY <1>1, FilterBefore DEF Marked, Beside, Kin
<1> QED
  BY <1>1, <1>2, <1>3, <1>4 DEF FilterOK, FilterStep

LEMMA LevelUpFilter ==
  ASSUME FilterInv, NoFilterMode, Reading, cmdtc.cmdtc_state = "init",
         Top(cmdtc.params_stack) > 0
  PROVE  FilterOK(LevelUp(cmdtc))
<1>1. Len(cmdtc.params_stack) \in Nat /\ Len(cmdtc.params_stack) > 1
  BY FilterBefore, Stacks DEF Top
<1>2. Len(cmdtc.params_stack) - 1 \in 1 .. Len(cmdtc.params_stack)
  BY <1>1
<1>3. Popped(cmdtc, LevelUp(cmdtc), Len(cmdtc.params_stack) - 1)
  BY <1>1, FilterBefore, LevelUpPops
<1> QED
  BY <1>2, <1>3, FilterBefore, PopFilter

LEMMA EraseLevelFilter ==
  ASSUME FilterInv, NoFilterMode, EraseLevel
  PROVE  FilterStep
<1>1. /\ Reading /\ cmdtc.cmdtc_state = "init" /\ cmdtc' = LevelUp(cmdtc)
      /\ Top(cmdtc.params_stack) # cmdtc.stack_checkpoint
  BY DEF EraseLevel
<1>2. Top(cmdtc.params_stack) > 0
  <2>1. /\ Len(cmdtc.params_stack) \in Nat /\ cmdtc.stack_checkpoint \in Nat
        /\ cmdtc.stack_checkpoint + 1 \in 1 .. Len(cmdtc.params_stack)
    BY <1>1, FilterBefore, Stacks
  <2> QED
    BY <1>1, <2>1 DEF Top
<1> QED
  BY <1>1, <1>2, LevelUpFilter DEF FilterStep

\* On an empty line the shell is between two words.
LEMMA EmptyIsInit ==
  ASSUME ModeInv, Reading, line = <<>>
  PROVE  cmdtc.cmdtc_state = "init"
<1>1. Good(cmdtc) /\ Covered(cmdtc, 0)
  BY ModeBefore, EmptyLine
<1>2. cmdtc.icursor = 0
  BY <1>1, NothingCovered
<1> QED
  BY <1>1, <1>2, Stacks DEF Shape

LEMMA PageUpFilter ==
  ASSUME FilterInv, NoFilterMode, PageUp
  PROVE  FilterStep
<1> DEFINE c == LevelUp(cmdtc)
           mode == [c EXCEPT !.root = c.curr_param]
<1>1. /\ Reading /\ line = <<>> /\ Top(cmdtc.params_stack) > 0
      /\ cmdtc' = mode \/ UNCHANGED <<cmdtc, options>>
  BY DEF PageUp
<1>2. cmdtc.cmdtc_state = "init" /\ Good(cmdtc)
  BY <1>1, FilterBefore, EmptyIsInit DEF HookInv
<1>3. FilterOK(c)
  BY <1>1, <1>2, LevelUpFilter
<1>4. c \in CursorType
  <2>1. Len(cmdtc.params_stack) > 1
    BY <1>1, <1>2, Stacks DEF Top
  <2> QED
    BY <1>2, <2>1, LevelUpOK, Stacks
<1> HIDE DEF c
<1>5. Kin(c, mode) /\ mode.matching_params_list = c.matching_params_list
      /\ mode.leaf_param = c.leaf_param
  BY <1>4 DEF CursorType, Kin
<1> HIDE DEF mode
<1>6. FilterOK(mode)
  BY <1>3, <1>5 DEF FilterOK, Marked, Listed, MayFollow, Kin
<1> QED
  BY <1>1, <1>6, FilterBefore DEF FilterStep

LEMMA InitFilter ==
  FilterOK([InitCursor EXCEPT !.refresh_disabled = FALSE]) /\ FilterOK(InitCursor)
<1> DEFINE s == <<RootHook>>
<1>1. Len(s) = 1 /\ \A i \in 1 .. Len(s) : i = 1 /\ s[i] = RootHook
  OBVIOUS
<1>2. 2 .. Len(s) = {}
  BY <1>1
<1>3. ~On(s, RefreshHook) /\ ~On(s, RefreshValHook) /\ IsFirstPipe(s, -1)
  BY <1>1, FilterFacts DEF On, IsFirstPipe
<1>4. FilterPath(s) /\ OneRefresh(s)
  BY <1>1, <1>2, FilterFacts DEF FilterPath, OneRefresh
<1> HIDE DEF s
<1>5. ASSUME NEW d, d.params_stack = s, d.filter_checkpoint = -1, ~d.is_refresh,
             ~d.refresh_disabled, d.matching_params_list = {}, d.leaf_param = NoParam
      PROVE  FilterOK(d)
  <2>1. Marked(d)
    BY <1>3, <1>4, <1>5 DEF Marked
  <2>2. Listed(d) = {}
    BY <1>5 DEF Listed
  <2> QED
    BY <2>1, <2>2 DEF FilterOK
<1> DEFINE e == [InitCursor EXCEPT !.refresh_disabled = FALSE]
<1>6. /\ e.params_stack = s /\ e.filter_checkpoint = -1 /\ ~e.is_refresh
      /\ ~e.refresh_disabled /\ e.matching_params_list = {} /\ e.leaf_param = NoParam
  BY DEF InitCursor, s
<1>7. LET d == InitCursor IN
      /\ d.params_stack = s /\ d.filter_checkpoint = -1 /\ ~d.is_refresh
      /\ ~d.refresh_disabled /\ d.matching_params_list = {} /\ d.leaf_param = NoParam
  BY DEF InitCursor, s
<1> HIDE DEF e
<1>8. FilterOK(e) /\ FilterOK(InitCursor)
  BY <1>5, <1>6, <1>7
<1> QED
  BY <1>8 DEF e

LEMMA CtrlTFilter ==
  ASSUME FilterInv, NoFilterMode, CtrlT
  PROVE  FilterStep
<1> DEFINE b == cmdtc.refresh_disabled /\ RefreshValHook \notin Range(cmdtc.params_stack)
<1>1. Reading /\ cmdtc' = [InitCursor EXCEPT !.refresh_disabled = b]
  BY DEF CtrlT
<1>2. cmdtc.refresh_disabled <=> On(cmdtc.params_stack, RefreshValHook)
  BY <1>1, FilterBefore DEF Marked
<1>3. On(cmdtc.params_stack, RefreshValHook) => RefreshValHook \in Range(cmdtc.params_stack)
  BY <1>1, FilterBefore, Stacks DEF On, Range
<1>4. b = FALSE
  BY <1>2, <1>3
<1> QED
  BY <1>1, <1>4, InitFilter DEF FilterStep

LEMMA WithoutOuterFlags ==
  ASSUME NEW c, Good(c), Nested(c)
  PROVE  LET d == WithoutOuter(c) IN
         /\ d.filter_checkpoint = c.filter_checkpoint
         /\ d.is_refresh => c.is_refresh
         /\ d.refresh_disabled => c.refresh_disabled
         /\ {d.is_refresh, d.refresh_disabled} \subseteq BOOLEAN
<1> DEFINE gone == {c.params_stack[i] : i \in 2 .. c.stack_checkpoint + 1}
           own(s) == <<Head(s)>> \o SubSeq(s, c.stack_checkpoint + 2, Len(s))
           stack == own(c.params_stack)
           tlvs == own(c.tlv_stack)
           e == ExitBackward(c, gone)
           d == WithoutOuter(c)
<1>1. c \in CursorType
  BY Stacks
<1> HIDE DEF gone, own, stack, tlvs
<1>2. e \in CursorType
  BY <1>1, ExitBackwardOK
<1>3. {"filter_checkpoint", "is_refresh", "refresh_disabled", "is_negate", "clrscr"}
        \subseteq DOMAIN c
  BY <1>1 DEF CursorType
<1>4. /\ e.filter_checkpoint = c.filter_checkpoint
      /\ e.is_refresh = (c.is_refresh /\ RefreshHook \notin gone)
      /\ e.refresh_disabled = (c.refresh_disabled /\ RefreshValHook \notin gone)
  BY <1>2, <1>3 DEF ExitBackward
<1>5. e.params_stack = c.params_stack /\ e.tlv_stack = c.tlv_stack
  BY <1>1, <1>2, ZenonT(30) DEF ExitBackward, CursorType
<1>6. d = [e EXCEPT !.params_stack = stack, !.tlv_stack = tlvs,
                    !.stack_checkpoint = Top(stack), !.root = RootHook,
                    !.curr_param = Last(c.params_stack)]
  BY <1>5 DEF WithoutOuter, gone, own, stack, tlvs
<1> HIDE DEF e, d
<1>7. /\ d.filter_checkpoint = e.filter_checkpoint /\ d.is_refresh = e.is_refresh
      /\ d.refresh_disabled = e.refresh_disabled
  BY <1>2, <1>6 DEF CursorType
<1>8. {e.is_refresh, e.refresh_disabled} \subseteq BOOLEAN
  BY <1>2 DEF CursorType
<1> QED
  BY <1>4, <1>7, <1>8 DEF d

\* A mode entered from a nested one, without a pipe, has no flags.
LEMMA WithoutOuterFilter ==
  ASSUME NEW c, Good(c), Rooted(c), Nested(c), FilterOK(c), Unfiltered(c),
         \A i \in 1 .. Len(WithoutOuter(c).params_stack) :
            WithoutOuter(c).params_stack[i] # Pipe
  PROVE  FilterOK(WithoutOuter(c))
<1> DEFINE d == WithoutOuter(c)
           s == c.params_stack
           u == d.params_stack
           m == c.stack_checkpoint
           l == Len(s)
<1>1. /\ m \in Nat \ {0} /\ l \in Nat /\ m + 1 < l
      /\ Len(u) = l - m /\ u[1] = s[1] /\ \A i \in 2 .. l - m : u[i] = s[i + m]
      /\ d.matching_params_list = c.matching_params_list /\ d.leaf_param = c.leaf_param
  BY WithoutOuterIs
<1>2. /\ d.filter_checkpoint = c.filter_checkpoint
      /\ d.is_refresh => c.is_refresh
      /\ d.refresh_disabled => c.refresh_disabled
      /\ {d.is_refresh, d.refresh_disabled} \subseteq BOOLEAN
  BY WithoutOuterFlags
<1>3. /\ s[1] = RootHook /\ Marked(c) /\ FilterPath(s) /\ IsFirstPipe(s, c.filter_checkpoint)
      /\ c.is_refresh <=> On(s, RefreshHook)
      /\ c.refresh_disabled <=> On(s, RefreshValHook)
      /\ \A q \in Listed(c) : MayFollow(c, q)
  BY DEF FilterOK, Marked, Rooted
<1>4. \A i \in 1 .. Len(u) : u[i] # Pipe
  OBVIOUS
<1>5. Last(s) = s[l] /\ c.filter_checkpoint \in Nat \cup {-1}
  BY LastIs, Stacks DEF CursorType
<1>6. Len(u) = l - m
  BY <1>1
<1>7. \A i \in 1 .. m + 1 : s[i] # Pipe
  BY DEF Unfiltered
<1> HIDE DEF d, s, u, l, m
<1>8. \A i \in 1 .. l : s[i] # Pipe
  <2>1. ASSUME NEW i \in 1 .. l PROVE s[i] # Pipe
    <3>1. CASE i \in 1 .. m + 1
      BY <1>7, <3>1
    <3>2. CASE i \notin 1 .. m + 1
      <4>1. i - m \in 2 .. l - m /\ i - m + m = i /\ i - m \in 1 .. l - m
        BY <1>1, <3>2
      <4> QED
        BY <1>1, <1>4, <1>6, <4>1
    <3> QED
      BY <3>1, <3>2
  <2> QED
    BY <2>1
<1>9. \A i \in 1 .. l : s[i] # RefreshHook /\ s[i] # RefreshValHook
  <2>1. l \in 1 .. l /\ l \in Nat \ {0}
    BY <1>1
  <2> QED
    BY <1>3, <1>8, <2>1, NoPipeNoRefresh DEF l
<1>10. \A i \in 1 .. Len(u) : u[i] # RefreshHook /\ u[i] # RefreshValHook
  <2>1. ASSUME NEW i \in 1 .. Len(u) PROVE u[i] # RefreshHook /\ u[i] # RefreshValHook
    <3>1. CASE i = 1
      BY <1>1, <1>3, <3>1, FilterFacts
    <3>2. CASE i # 1
      <4>1. i \in 2 .. l - m /\ i + m \in 1 .. l
        BY <1>1, <1>6, <3>2
      <4> QED
        BY <1>1, <1>9, <4>1
    <3> QED
      BY <3>1, <3>2
  <2> QED
    BY <2>1
<1>11. ~c.is_refresh /\ ~c.refresh_disabled
  BY <1>3, <1>9 DEF On, l
<1>12. c.filter_checkpoint = -1
  BY <1>3, <1>8 DEF IsFirstPipe, l
<1>13. Marked(d)
  <2>1. IsFirstPipe(u, d.filter_checkpoint) /\ ~On(u, RefreshHook) /\ ~On(u, RefreshValHook)
    BY <1>2, <1>4, <1>10, <1>12 DEF IsFirstPipe, On
  <2>2. \A i \in 2 .. Len(u) : i \in 1 .. Len(u) /\ i - 1 \in 1 .. Len(u)
    BY <1>1, <1>6
  <2>3. FilterPath(u) /\ OneRefresh(u)
    BY <1>10, <2>2 DEF FilterPath, OneRefresh
  <2> QED
    BY <1>2, <1>11, <2>1, <2>3 DEF Marked, u
<1>14. Last(u) = Last(s)
  <2>1. l - m \in 2 .. l - m /\ l - m + m = l
    BY <1>1
  <2> QED
    BY <1>1, <1>5, <1>6, <2>1 DEF Last
<1>15. ASSUME NEW q \in Listed(d) PROVE MayFollow(d, q)
  <2>1. q \in Listed(c)
    BY <1>1 DEF Listed
  <2>2. MayFollow(c, q)
    BY <1>3, <2>1
  <2> QED
    BY <1>2, <1>11, <1>14, <2>2 DEF MayFollow, u, s
<1> QED
  BY <1>13, <1>15 DEF FilterOK, d

LEMMA EnteredFilter ==
  ASSUME FilterInv, NoFilterMode, Reading, cmdtc.cmdtc_state = "init",
         NEW e, NEW c, c = IF Nested(cmdtc) THEN WithoutOuter(cmdtc) ELSE cmdtc,
         e.params_stack = c.params_stack, Unfiltered(e),
         e.stack_checkpoint = Top(e.params_stack)
  PROVE  FilterOK(c)
<1>1. /\ Good(cmdtc) /\ Rooted(cmdtc) /\ FilterOK(cmdtc) /\ Unfiltered(cmdtc)
  BY FilterBefore
<1>2. CASE Nested(cmdtc)
  <2>1. c = WithoutOuter(cmdtc) /\ Good(c)
    BY <1>1, <1>2, WithoutOuterOK
  <2>2. Len(c.params_stack) \in Nat
    BY <2>1, Stacks
  <2>3. e.stack_checkpoint + 1 = Len(c.params_stack)
    BY <2>2 DEF Top
  <2>4. \A i \in 1 .. Len(c.params_stack) : c.params_stack[i] # Pipe
    BY <2>3 DEF Unfiltered
  <2> QED
    BY <1>1, <1>2, <2>1, <2>4, WithoutOuterFilter
<1>3. CASE ~Nested(cmdtc)
  BY <1>1, <1>3
<1> QED
  BY <1>2, <1>3

\* A mode that is shown at once stands on the whole of its stack.
LEMMA ResetWhole ==
  ASSUME NEW c, Good(c), c.stack_checkpoint = Top(c.params_stack)
  PROVE  /\ Reset(c).params_stack = c.params_stack
         /\ Reset(c).stack_checkpoint = c.stack_checkpoint
<1>1. c.params_stack \in Seq(Param) /\ Len(c.params_stack) \in Nat /\ c.params_stack # <<>>
  BY Stacks
<1>2. Kept(c) = Len(c.params_stack)
  BY <1>1 DEF Kept, Top
<1>3. SubSeq(c.params_stack, 1, Len(c.params_stack)) = c.params_stack
  BY <1>1
<1> QED
  BY <1>2, <1>3, ResetOK

\* What enter-mode makes of the cursor.
LEMMA EnterModeIs ==
  ASSUME HookInv, EnterMode
  PROVE  \/ UNCHANGED <<cmdtc, options>> /\ NoOutput
         \/ status' = "corrupt" /\ NoOutput
         \/ \E c, mode, h :
              /\ c = IF Nested(cmdtc) THEN WithoutOuter(cmdtc) ELSE cmdtc
              /\ Good(c) /\ Rooted(c)
              /\ Good(mode) /\ Kin(c, mode) /\ mode.stack_checkpoint = Top(mode.params_stack)
              /\ mode.tlv_stack = c.tlv_stack
              /\ mode.matching_params_list = c.matching_params_list
              /\ mode.leaf_param = c.leaf_param /\ mode.cmdtc_state = "init"
              /\ Submit(mode, h) \/ (cmdtc' = mode /\ NoOutput)
<1> DEFINE c == IF Nested(cmdtc) THEN WithoutOuter(cmdtc) ELSE cmdtc
           stack == Rebuilt(c.params_stack)
           mode == [c EXCEPT !.params_stack = stack, !.root = c.curr_param,
                             !.stack_checkpoint = Top(stack)]
           h == ModeHdr(c.tlv_stack)
           entered == [c EXCEPT !.root = c.curr_param, !.stack_checkpoint = Top(c.params_stack)]
<1>1. Reading /\ cmdtc.cmdtc_state = "init"
  BY DEF EnterMode
<1>2. \/ UNCHANGED <<cmdtc, options>> /\ NoOutput
      \/ status' = "corrupt" /\ NoOutput
      \/ stack = c.params_stack /\ (Submit(mode, h) \/ (cmdtc' = mode /\ NoOutput))
  BY DEF EnterMode
<1>3. /\ Good(cmdtc) /\ Placed(cmdtc) /\ Rooted(cmdtc)
  BY <1>1, HooksBefore
<1>4. Good(c) /\ c.cmdtc_state = "init" /\ AtWord(c) /\ KeywordsListed(c) /\ Named(c)
  BY <1>1, <1>3, WithoutOuterOK, WithoutOuterPlace DEF Placed
<1>5. Rooted(c)
  BY <1>3, WithoutOuterRooted
<1>6. CASE stack = c.params_stack /\ (Submit(mode, h) \/ (cmdtc' = mode /\ NoOutput))
  <2> HIDE DEF c, h
  <2>1. c \in CursorType
    BY <1>4, Stacks
  <2>2. mode = entered
    BY <1>6, <2>1 DEF CursorType
  <2>3. /\ Kin(c, entered) /\ entered.matching_params_list = c.matching_params_list
        /\ entered.leaf_param = c.leaf_param /\ entered.cmdtc_state = c.cmdtc_state
        /\ entered.stack_checkpoint = Top(entered.params_stack)
        /\ entered.tlv_stack = c.tlv_stack
    BY <2>1 DEF CursorType, Kin
  <2>4. Good(entered)
    <3>1. 0 \in Nat
      OBVIOUS
    <3> QED
      BY <1>4, <3>1, EnteredPlace
  <2>5. /\ Kin(c, mode) /\ mode.matching_params_list = c.matching_params_list
        /\ mode.leaf_param = c.leaf_param /\ Good(mode) /\ mode.cmdtc_state = "init"
        /\ mode.stack_checkpoint = Top(mode.params_stack) /\ mode.tlv_stack = c.tlv_stack
    <3> HIDE DEF mode, entered
    <3> QED  BY <1>4, <2>2, <2>3, <2>4
  <2> HIDE DEF mode, entered, stack
  <2> QED
    BY <1>4, <1>5, <1>6, <2>5 DEF c
<1> HIDE DEF mode, h
<1> QED
  BY <1>2, <1>6

LEMMA EnteredModeFilter ==
  ASSUME FilterInv, NoFilterMode, NoFilterMode', EnterMode,
         NEW c, NEW mode, NEW h, c = (IF Nested(cmdtc) THEN WithoutOuter(cmdtc) ELSE cmdtc),
         Good(c), Rooted(c), Good(mode), Kin(c, mode),
         mode.stack_checkpoint = Top(mode.params_stack),
         mode.matching_params_list = c.matching_params_list, mode.leaf_param = c.leaf_param,
         Submit(mode, h) \/ (cmdtc' = mode /\ NoOutput)
  PROVE  Rooted(mode) /\ Unfiltered(mode) /\ FilterOK(mode)
<1>1. Reading /\ cmdtc.cmdtc_state = "init"
  BY DEF EnterMode
<1>2. Rooted(mode)
  BY DEF Rooted, Kin
<1>3. Unfiltered(mode)
  <2>1. CASE cmdtc' = mode
    BY <2>1 DEF NoFilterMode
  <2>2. CASE Submit(mode, h)
    <3>1. cmdtc' = Reset(mode) /\ Unfiltered(cmdtc')
      BY <2>2 DEF NoFilterMode, Submit
    <3> QED
      BY <3>1, ResetWhole DEF Unfiltered
  <2> QED
    BY <2>1, <2>2
<1>4. FilterOK(c)
  BY <1>1, <1>3, EnteredFilter DEF Kin
<1>5. FilterOK(mode)
  BY <1>4 DEF FilterOK, Marked, Listed, MayFollow, Kin
<1> QED
  BY <1>2, <1>3, <1>5

LEMMA EnterModeFilter ==
  ASSUME FilterInv, NoFilterMode, NoFilterMode', EnterMode
  PROVE  FilterStep
<1>1. FilterOK(cmdtc) /\ HookInv
  BY FilterBefore DEF EnterMode
<1>2. ASSUME NEW c, NEW mode, NEW h,
             c = (IF Nested(cmdtc) THEN WithoutOuter(cmdtc) ELSE cmdtc),
             Good(c), Rooted(c), Good(mode), Kin(c, mode),
             mode.stack_checkpoint = Top(mode.params_stack),
             mode.matching_params_list = c.matching_params_list, mode.leaf_param = c.leaf_param,
             Submit(mode, h) \/ (cmdtc' = mode /\ NoOutput)
      PROVE  FilterStep
  <2>1. Rooted(mode) /\ FilterOK(mode)
    BY <1>2, EnteredModeFilter
  <2>2. FilterOK(Reset(mode))
    BY <1>2, <2>1, ResetFilter DEF FilterOK
  <2> QED
    BY <1>2, <2>1, <2>2 DEF FilterStep, Submit
<1>3. CASE UNCHANGED <<cmdtc, options>>
  BY <1>1, <1>3 DEF FilterStep
<1>4. CASE status' = "corrupt"
  BY <1>4 DEF FilterStep
<1> QED
  BY <1>1, <1>2, <1>3, <1>4, EnterModeIs

-----------------------------------------------------------------------------
LEMMA FilterInitially ==
  ASSUME Init
  PROVE  FilterInv
<1>1. cmdtc = InitCursor
  BY DEF Init
<1> QED
  BY <1>1, HooksInitially, InitFilter DEF FilterInv

LEMMA FilterInductive ==
  ASSUME FilterInv, NoFilterMode, NoFilterMode', [Next]_vars
  PROVE  FilterInv'
<1>1. HookInv'
  BY HooksInductive DEF FilterInv
<1>2. CASE Next
  <2>1. FilterStep
    BY <1>2, TypingFilter, SpaceAcceptsFilter, ReturnFilter, ReturnWordFilter,
       EraseLevelFilter, PageUpFilter, CtrlTFilter, EnterModeFilter DEF Next
  <2> QED
    BY <1>1, <2>1 DEF FilterInv, FilterStep
<1>3. CASE UNCHANGED vars
  BY <1>1, <1>3 DEF vars, FilterInv
<1> QED
  BY <1>2, <1>3

LEMMA FilterInvariance == Spec /\ []NoFilterMode => []FilterInv
BY FilterInitially, FilterInductive, PTL DEF Spec

\* filter_checkpoint is where the first pipe of the command is and -1 without
\* one, whatever is typed, accepted, erased or reset, as long as no mode is
\* entered within the filters of a command: cmdtc_process_pipe and the reset in
\* cmd_tree_cursor_move_one_level_up go together.
THEOREM CheckpointHolds ==
  Spec /\ []NoFilterMode => [](status # "corrupt" => CheckpointIsFirstPipe)
<1>1. ASSUME FilterInv, status # "corrupt" PROVE CheckpointIsFirstPipe
  <2>1. Good(cmdtc) /\ IsFirstPipe(cmdtc.params_stack, cmdtc.filter_checkpoint)
    BY <1>1 DEF FilterInv, FilterOK, Marked, HookInv, ModeInv, Inv
  <2>2. cmdtc.params_stack \in Seq(Param) /\ cmdtc.filter_checkpoint \in Nat \cup {-1}
    BY <2>1, Stacks DEF CursorType
  <2>3. FirstPipe(cmdtc.params_stack) = cmdtc.filter_checkpoint
    BY <2>1, <2>2, FirstPipeIs
  <2> QED
    BY <2>3 DEF CheckpointIsFirstPipe
<1> QED
  BY <1>1, FilterInvariance, PTL

\* The cursor knows of a refresh and of its interval if and only if they are on
\* its stack, so that a command is repeated when, and only when, its line says
\* so, as long as no mode is entered within the filters of a command.
THEOREM RefreshHolds ==
  Spec /\ []NoFilterMode => [](status # "corrupt" => RefreshIffOnStack)
<1>1. ASSUME FilterInv, status # "corrupt" PROVE RefreshIffOnStack
  <2>1. Good(cmdtc) /\ Marked(cmdtc)
    BY <1>1 DEF FilterInv, FilterOK, HookInv, ModeInv, Inv
  <2>2. \A p : p \in OnStack <=> On(cmdtc.params_stack, p)
    BY <2>1, Stacks DEF OnStack, On, Range
  <2> QED
    BY <2>1, <2>2 DEF RefreshIffOnStack, Marked
<1> QED
  BY <1>1, FilterInvariance, PTL

-----------------------------------------------------------------------------
(* The list of matches.                                                    *)

\* The keywords that may come next.
Upcoming(c, o) == {p \in OptionsIn(o[Last(c.params_stack)]) :
                  /\ ~IsLeaf(p)
                  /\ ~(IsNo(p) /\ c.is_negate)
                  /\ ~(p = RefreshHook /\ c.refresh_disabled)}
Agree(p, q, n) == /\ n <= Len(Name[p]) /\ n <= Len(Name[q])
                  /\ \A i \in 1 .. n : Name[p][i] = Name[q][i]

\* The list has, with one keyword, all that agree with it in the keys typed;
\* of a single word, that word.
Settles(m, n, up) == \A q \in m : q \in up /\ \A p \in up : p \in m <=> Agree(p, q, n)
Alone(m) == \A p, q \in m : p = q
Settled(c, o) ==
  /\ c.cmdtc_state # "matching_leaf" =>
       Settles(c.matching_params_list, c.icursor, Upcoming(c, o))
  /\ c.cmdtc_state = "single_word_match" => Alone(c.matching_params_list)
Unlisted(c) == c.cmdtc_state = "init" /\ c.matching_params_list = {}
AtOnset(c, l) == c.cmdtc_state = "init" /\ l = <<>>

ListInv == /\ HookInv
           /\ status # "corrupt" => Settled(cmdtc, options)
           /\ status = "aborted" => Unlisted(cmdtc) \/ AtOnset(cmdtc, line)
ListStep == /\ status' # "corrupt" => Settled(cmdtc', options')
            /\ status' = "aborted" => Unlisted(cmdtc') \/ AtOnset(cmdtc', line')

\* Enter-mode is used between words without options listed.
UnlistedMode == EnterMode => cmdtc.matching_params_list = {}

LEMMA ListBefore ==
  ASSUME ListInv, Reading
  PROVE  /\ HookInv /\ Good(cmdtc) /\ AtWord(cmdtc) /\ OptionsType /\ cmdtc \in CursorType
         /\ Shape(cmdtc) /\ cmdtc.icursor \in Nat /\ Settled(cmdtc, options) /\ status = "running"
         /\ Rooted(cmdtc) /\ Hooked(cmdtc, options)
BY HooksBefore, Stacks DEF ListInv

LEMMA UnlistedStep ==
  ASSUME Unlisted(cmdtc')
  PROVE  ListStep
BY DEF Unlisted, ListStep, Settled, Settles

LEMMA AgreeLess ==
  ASSUME NEW p, NEW q, NEW m \in Nat, Agree(p, q, m), NEW n \in Nat, n <= m,
         Len(Name[p]) \in Nat, Len(Name[q]) \in Nat
  PROVE  Agree(p, q, n)
<1>1. n <= Len(Name[p]) /\ n <= Len(Name[q])
  BY DEF Agree
<1>2. \A i \in 1 .. n : i \in 1 .. m
  OBVIOUS
<1> QED
  BY <1>1, <1>2 DEF Agree

LEMMA NamesHaveLength == \A p \in Param : Name[p] \in Seq(Key) /\ Len(Name[p]) \in Nat
BY KindAssumption, LenProperties

\* One more key.
LEMMA AgreeMore ==
  ASSUME NEW p \in Param, NEW q \in Param, NEW n \in Nat, NEW k \in Key, KeyAt(q, n) = k
  PROVE  Agree(p, q, n + 1) <=> Agree(p, q, n) /\ KeyAt(p, n) = k
<1>1. Len(Name[p]) \in Nat /\ Len(Name[q]) \in Nat
  BY NamesHaveLength
<1>2. n < Len(Name[q]) /\ Name[q][n + 1] = k
  BY <1>1, KindAssumption DEF KeyAt, NUL
<1>3. n + 1 \in 1 .. n + 1 /\ \A i \in 1 .. n + 1 : i \in 1 .. n \/ i = n + 1
  OBVIOUS
<1>4. ASSUME Agree(p, q, n + 1)
      PROVE  Agree(p, q, n) /\ KeyAt(p, n) = k
  <2>1. Agree(p, q, n)
    BY <1>1, <1>4, AgreeLess
  <2>2. n < Len(Name[p]) /\ Name[p][n + 1] = k
    BY <1>1, <1>2, <1>3, <1>4 DEF Agree
  <2> QED
    BY <2>1, <2>2 DEF KeyAt
<1>5. ASSUME Agree(p, q, n), KeyAt(p, n) = k
      PROVE  Agree(p, q, n + 1)
  <2>1. n < Len(Name[p]) /\ Name[p][n + 1] = k
    BY <1>1, <1>5, KindAssumption DEF KeyAt, NUL
  <2>2. n + 1 <= Len(Name[p]) /\ n + 1 <= Len(Name[q])
    BY <1>1, <1>2, <2>1
  <2> QED
    BY <1>2, <1>3, <1>5, <2>1, <2>2 DEF Agree
<1> QED
  BY <1>4, <1>5

LEMMA AgreeItself ==
  ASSUME NEW p \in Param, NEW n \in Nat, n <= Len(Name[p])
  PROVE  Agree(p, p, n)
BY DEF Agree

LEMMA UpcomingParams ==
  ASSUME NEW c, Good(c), OptionsType
  PROVE  Upcoming(c, options) \in SUBSET Param
<1>1. Last(c.params_stack) \in Param
  BY LastIs
<1>2. options[Last(c.params_stack)] \in [Slot -> ParamOrNull]
  BY <1>1 DEF OptionsType
<1> QED
  BY <1>2 DEF Upcoming, OptionsIn, ParamOrNull

LEMMA UpcomingFinite ==
  ASSUME NEW c, Good(c), OptionsType
  PROVE  IsFiniteSet(Upcoming(c, options))
<1> DEFINE f == options[Last(c.params_stack)]
           R == {f[i] : i \in Slot}
<1>1. f \in [Slot -> ParamOrNull]
  BY LastIs DEF OptionsType
<1>2. IsFiniteSet(Slot)
  BY NullAssumption, FS_Interval DEF Slot
<1>3. Upcoming(c, options) \subseteq R
  BY DEF Upcoming, OptionsIn
<1> HIDE DEF f
<1>4. f \in Surjection(Slot, R)
  BY <1>1 DEF Surjection
<1>5. IsFiniteSet(R)
  BY <1>2, <1>4, FS_Surjection
<1> QED
  BY <1>3, <1>5, FS_Subset

LEMMA SettlesFinite ==
  ASSUME NEW c, Good(c), OptionsType, NEW m, NEW n, Settles(m, n, Upcoming(c, options))
  PROVE  IsFiniteSet(m)
<1>1. m \subseteq Upcoming(c, options)
  BY DEF Settles
<1> QED
  BY <1>1, UpcomingFinite, FS_Subset

LEMMA FewAlone ==
  ASSUME NEW m, IsFiniteSet(m), ~(Cardinality(m) > 1)
  PROVE  Alone(m)
<1>1. Cardinality(m) \in Nat
  BY FS_CardinalityType
<1>2. CASE Cardinality(m) = 0
  BY <1>2, FS_EmptySet DEF Alone
<1>3. CASE Cardinality(m) = 1
  <2>1. \E x : m = {x}
    BY <1>3, FS_Singleton
  <2> QED
    BY <2>1 DEF Alone
<1> QED
  BY <1>1, <1>2, <1>3

LEMMA CandidatesSettled ==
  ASSUME NEW c, Good(c), AtWord(c), OptionsType, Settled(c, options),
         c.cmdtc_state # "matching_leaf"
  PROVE  Settles(Candidates(c), c.icursor, Upcoming(c, options))
<1>1. c \in CursorType /\ Shape(c) /\ c.icursor \in Nat
  BY Stacks
<1>2. CASE Fresh(c)
  <2>1. c.cmdtc_state = "init"
    BY <1>1, <1>2 DEF Fresh, Shape, CursorType
  <2>2. c.icursor = 0 /\ c.curr_param = Last(c.params_stack)
    BY <1>1, <2>1 DEF Shape, AtWord
  <2>3. Candidates(c) = Upcoming(c, options)
    BY <1>2, <2>2 DEF Candidates, Keywords, Followers, Upcoming
  <2>4. \A p, q \in Upcoming(c, options) : Agree(p, q, 0)
    BY UpcomingParams, NamesHaveLength DEF Agree
  <2> QED
    BY <2>2, <2>3, <2>4 DEF Settles
<1>3. CASE ~Fresh(c)
  BY <1>3 DEF Candidates, Settled
<1> QED
  BY <1>2, <1>3

LEMMA TypedSettles ==
  ASSUME NEW m, NEW n \in Nat, NEW up \in SUBSET Param, Settles(m, n, up), NEW k \in Key
  PROVE  Settles({p \in m : KeyAt(p, n) = k}, n + 1, up)
<1> DEFINE l == {p \in m : KeyAt(p, n) = k}
<1>1. ASSUME NEW q \in l
      PROVE  q \in up /\ \A p \in up : p \in l <=> Agree(p, q, n + 1)
  <2>1. q \in m /\ KeyAt(q, n) = k /\ q \in up /\ q \in Param
    BY <1>1 DEF Settles
  <2>2. \A p \in up : p \in m <=> Agree(p, q, n)
    BY <2>1 DEF Settles
  <2>3. \A p \in up : Agree(p, q, n + 1) <=> Agree(p, q, n) /\ KeyAt(p, n) = k
    BY <2>1, AgreeMore
  <2> QED
    BY <2>1, <2>2, <2>3
<1> QED
  BY <1>1 DEF Settles

\* The keys completed leave the list as it was.
LEMMA CompletedSettles ==
  ASSUME NEW m, NEW n \in Nat, NEW up \in SUBSET Param, Settles(m, n, up),
         NEW k \in Nat, n <= k, \A p, q \in m : Agree(p, q, k)
  PROVE  Settles(m, k, up)
<1>1. ASSUME NEW q \in m, NEW p \in up
      PROVE  p \in m <=> Agree(p, q, k)
  <2>1. q \in Param /\ p \in Param /\ (p \in m <=> Agree(p, q, n))
    BY <1>1 DEF Settles
  <2>2. Agree(p, q, k) => Agree(p, q, n)
    BY <2>1, NamesHaveLength, AgreeLess
  <2> QED
    BY <1>1, <2>1, <2>2
<1>2. \A q \in m : q \in up
  BY DEF Settles
<1> QED
  BY <1>1, <1>2 DEF Settles

\* What is upcoming depends on the top of the stack and two flags.
Stays(c, d) ==
  /\ d.params_stack = c.params_stack
  /\ d.is_negate = c.is_negate /\ d.refresh_disabled = c.refresh_disabled

LEMMA StaysSettled ==
  ASSUME NEW c, NEW d, NEW o, Stays(c, d),
         d.cmdtc_state # "matching_leaf" =>
           Settles(d.matching_params_list, d.icursor, Upcoming(c, o)),
         d.cmdtc_state = "single_word_match" => Alone(d.matching_params_list)
  PROVE  Settled(d, o)
<1>1. Upcoming(d, o) = Upcoming(c, o)
  BY DEF Stays, Upcoming
<1> QED
  BY <1>1 DEF Settled

LEMMA TypeCharList ==
  ASSUME ListInv, NEW k \in Key, TypeChar(k)
  PROVE  ListStep
<1> DEFINE leaf == KnownLeaf(cmdtc)
           m == Matched(cmdtc, k)
           typed == [cmdtc EXCEPT !.icursor = cmdtc.icursor + 1,
                                  !.curr_leaf_value = Save(cmdtc, leaf, <<k>>)]
<1>1. Reading /\ cmdtc' = ParseChar(cmdtc, k) /\ options' = options /\ status' \in {"corrupt", status}
  BY DEF TypeChar
<1>2. /\ Good(cmdtc) /\ AtWord(cmdtc) /\ OptionsType /\ cmdtc \in CursorType
      /\ cmdtc.icursor \in Nat /\ Settled(cmdtc, options) /\ status = "running"
  BY <1>1, ListBefore
<1>3. /\ Stays(cmdtc, cmdtc')
      /\ \/ cmdtc'.cmdtc_state = "matching_leaf"
         \/ /\ cmdtc.cmdtc_state # "matching_leaf"
            /\ cmdtc'.matching_params_list = m /\ cmdtc'.icursor = cmdtc.icursor + 1
            /\ cmdtc'.cmdtc_state = "single_word_match" => ~(Cardinality(m) > 1)
  <2> HIDE DEF leaf, m
  <2>1. /\ {"params_stack", "is_negate", "refresh_disabled", "matching_params_list",
            "cmdtc_state", "leaf_param", "curr_param", "curr_leaf_value",
            "icursor"} \subseteq DOMAIN typed
        /\ Stays(cmdtc, typed) /\ typed.icursor = cmdtc.icursor + 1
        /\ typed.cmdtc_state = cmdtc.cmdtc_state
    BY <1>2 DEF CursorType, Stays
  <2>2. \/ cmdtc.cmdtc_state = "matching_leaf" /\ cmdtc' = typed
        \/ /\ cmdtc.cmdtc_state # "matching_leaf"
           /\ \/ cmdtc' \in
                   {[typed EXCEPT !.cmdtc_state = "matching_leaf", !.leaf_param = leaf,
                                  !.curr_param = leaf],
                    [typed EXCEPT !.cmdtc_state = "multiple_matches", !.leaf_param = leaf,
                                  !.matching_params_list = m]}
              \/ /\ ~(Cardinality(m) > 1)
                 /\ \E q, w : cmdtc' =
                      [typed EXCEPT !.cmdtc_state = "single_word_match", !.leaf_param = leaf,
                                    !.matching_params_list = m, !.curr_param = q,
                                    !.curr_leaf_value = w]
    BY <1>1 DEF ParseChar, leaf, m
  <2> HIDE DEF typed
  <2>3. CASE cmdtc.cmdtc_state = "matching_leaf" /\ cmdtc' = typed
    BY <2>1, <2>3 DEF Stays
  <2>4. CASE /\ cmdtc.cmdtc_state # "matching_leaf"
             /\ \/ cmdtc' \in
                     {[typed EXCEPT !.cmdtc_state = "matching_leaf", !.leaf_param = leaf,
                                    !.curr_param = leaf],
                      [typed EXCEPT !.cmdtc_state = "multiple_matches", !.leaf_param = leaf,
                                    !.matching_params_list = m]}
                \/ /\ ~(Cardinality(m) > 1)
                   /\ \E q, w : cmdtc' =
                        [typed EXCEPT !.cmdtc_state = "single_word_match", !.leaf_param = leaf,
                                      !.matching_params_list = m, !.curr_param = q,
                                      !.curr_leaf_value = w]
    BY <2>1, <2>4 DEF Stays
  <2> QED
    BY <2>2, <2>3, <2>4
<1>4. cmdtc.cmdtc_state # "matching_leaf" => Settles(m, cmdtc.icursor + 1, Upcoming(cmdtc, options))
  BY <1>2, CandidatesSettled, UpcomingParams, TypedSettles DEF Matched
<1> HIDE DEF m
<1>5. cmdtc'.cmdtc_state = "single_word_match" => Alone(m)
  <2>1. cmdtc.cmdtc_state # "matching_leaf" => IsFiniteSet(m)
    BY <1>2, <1>4, SettlesFinite
  <2> QED
    BY <1>3, <2>1, FewAlone
<1>6. Settled(cmdtc', options)
  BY <1>3, <1>4, <1>5, StaysSettled
<1> QED
  BY <1>1, <1>2, <1>6 DEF ListStep

LEMMA SpaceListsList ==
  ASSUME ListInv, SpaceLists
  PROVE  ListStep
<1> DEFINE m == Candidates(cmdtc)
           leaf == KnownLeaf(cmdtc)
<1>1. /\ Reading /\ cmdtc.cmdtc_state = "init" /\ options' = options /\ status' = status
      /\ cmdtc' = [cmdtc EXCEPT !.matching_params_list = m, !.leaf_param = leaf]
  BY DEF SpaceLists
<1>2. /\ Good(cmdtc) /\ AtWord(cmdtc) /\ OptionsType /\ cmdtc \in CursorType
      /\ cmdtc.icursor \in Nat /\ Settled(cmdtc, options) /\ status = "running"
  BY <1>1, ListBefore
<1> HIDE DEF m, leaf
<1>3. /\ Stays(cmdtc, cmdtc') /\ cmdtc'.matching_params_list = m
      /\ cmdtc'.icursor = cmdtc.icursor /\ cmdtc'.cmdtc_state = "init"
  BY <1>1, <1>2 DEF CursorType, Stays
<1>4. Settles(m, cmdtc.icursor, Upcoming(cmdtc, options))
  BY <1>1, <1>2, CandidatesSettled DEF m
<1>5. Settled(cmdtc', options)
  BY <1>3, <1>4, StaysSettled
<1> QED
  BY <1>1, <1>2, <1>5 DEF ListStep

\* A word cut after room keys more reaches no further than the keys it is cut from.
LEMMA CutReaches ==
  ASSUME NEW word \in Seq(Key), NEW i \in Nat, NEW n \in Nat, n <= Len(word), NEW room \in Nat,
         SubSeq(word, i + 1, n) # <<>>
  PROVE  LET keys == FirstN(SubSeq(word, i + 1, n), room) IN
         keys \in Seq(Key) /\ Len(keys) \in Nat /\ i + Len(keys) <= n
<1> DEFINE x == SubSeq(word, i + 1, n)
<1>1. i + 1 \in Nat \ {0} /\ n \in Int
  OBVIOUS
<1>2. x \in Seq(Key) /\ Len(x) = IF i + 1 <= n THEN n - (i + 1) + 1 ELSE 0
  BY <1>1, SubSeqType
<1>3. Len(x) \in Nat /\ (x # <<>> => Len(x) # 0)
  <2> HIDE DEF x
  <2> QED  BY <1>2, LenProperties, EmptySeq
<1>4. Len(x) = n - i
  <2>1. x # <<>>
    OBVIOUS
  <2> HIDE DEF x
  <2> QED
    BY <1>2, <1>3, <2>1
<1> HIDE DEF x
<1>5. /\ FirstN(x, room) \in Seq(Key)
      /\ Len(FirstN(x, room)) = IF room < Len(x) THEN room ELSE Len(x)
  BY <1>2, FirstNOK
<1>6. Len(FirstN(x, room)) \in Nat /\ i + Len(FirstN(x, room)) <= n
  BY <1>3, <1>4, <1>5
<1> QED
  BY <1>5, <1>6 DEF x

LEMMA SpaceCompletesList ==
  ASSUME ListInv, SpaceCompletes
  PROVE  ListStep
<1> DEFINE m == Candidates(cmdtc)
           leaf == KnownLeaf(cmdtc)
           keys == Completion(cmdtc, m)
           room == MAX_COMMAND_LENGTH - Used
           fits == FirstN(keys, room)
           listed == [cmdtc EXCEPT !.matching_params_list = m, !.leaf_param = leaf,
                                   !.cmdtc_state = "multiple_matches"]
<1>1. /\ Reading /\ Ambiguous(cmdtc) /\ keys # <<>> /\ cmdtc' = AutoTyped(listed, fits)
      /\ options' = options /\ status' \in {"spinning", status}
  BY DEF SpaceCompletes
<1>2. /\ Good(cmdtc) /\ AtWord(cmdtc) /\ OptionsType /\ cmdtc \in CursorType
      /\ cmdtc.icursor \in Nat /\ Settled(cmdtc, options) /\ status = "running" /\ Shape(cmdtc)
  BY <1>1, ListBefore
<1>3. room \in Nat
  BY <1>1, Before DEF ListInv, HookInv, ModeInv
<1>4. cmdtc.cmdtc_state # "matching_leaf"
  BY <1>1 DEF Ambiguous
<1>5. m \in SUBSET Param /\ m # {} /\ leaf \in ParamOrNull
  <2>1. Cardinality(m) > 1 => m # {}
    <3>1. Cardinality({}) = 0
      BY FS_EmptySet
    <3> HIDE DEF m
    <3> QED
      BY <3>1
  <2>2. cmdtc.cmdtc_state = "multiple_matches" => m # {}
    BY <1>2 DEF Shape, Candidates, Fresh
  <2>3. m \in SUBSET Param /\ leaf \in ParamOrNull
    BY <1>2, CandidatesOK
  <2> QED
    BY <1>1, <2>1, <2>2, <2>3 DEF Ambiguous
<1>6. Settles(m, cmdtc.icursor, Upcoming(cmdtc, options))
  BY <1>2, <1>4, CandidatesSettled
<1>7. PICK word \in Seq(Key), n \in Nat :
           /\ keys = SubSeq(word, cmdtc.icursor + 1, n)
           /\ n <= Len(word)
           /\ \A p \in m : n <= Len(Name[p]) /\ \A i \in 1 .. n : Name[p][i] = word[i]
  <2> HIDE DEF m
  <2> QED
    BY <1>2, <1>5, CompletionIs
<1>8. fits \in Seq(Key) /\ Len(fits) \in Nat /\ cmdtc.icursor + Len(fits) <= n
  <2>1. fits = FirstN(SubSeq(word, cmdtc.icursor + 1, n), room)
    BY <1>7
  <2>2. SubSeq(word, cmdtc.icursor + 1, n) # <<>>
    BY <1>1, <1>7
  <2> HIDE DEF keys, fits, room
  <2> QED
    BY <1>2, <1>3, <1>7, <2>1, <2>2, CutReaches
<1> HIDE DEF m, leaf, keys, fits, room
<1>9. \A p, q \in m : Agree(p, q, cmdtc.icursor + Len(fits))
  <2>1. ASSUME NEW p \in m, NEW q \in m PROVE Agree(p, q, cmdtc.icursor + Len(fits))
    <3>1. Agree(p, q, n)
      BY <1>7, <2>1 DEF Agree
    <3>2. Len(Name[p]) \in Nat /\ Len(Name[q]) \in Nat
      BY <1>5, <2>1, NamesHaveLength
    <3>3. cmdtc.icursor + Len(fits) \in Nat
      BY <1>2, <1>8
    <3> QED
      BY <1>7, <1>8, <3>1, <3>2, <3>3, AgreeLess
  <2> QED
    BY <2>1
<1>10. /\ listed \in CursorType /\ listed.icursor = cmdtc.icursor
       /\ Stays(cmdtc, listed) /\ listed.matching_params_list = m
       /\ listed.cmdtc_state = "multiple_matches"
  BY <1>2, <1>5 DEF CursorType, Stays
<1>11. /\ {"refresh_disabled"} \subseteq DOMAIN listed
  BY <1>2 DEF CursorType
<1> HIDE DEF listed
<1>12. /\ cmdtc'.matching_params_list = m /\ cmdtc'.icursor = cmdtc.icursor + Len(fits)
       /\ cmdtc'.cmdtc_state = "multiple_matches"
       /\ cmdtc'.params_stack = cmdtc.params_stack /\ cmdtc'.is_negate = cmdtc.is_negate
  BY <1>1, <1>8, <1>10, AutoTypedOK DEF Stays
<1>13. cmdtc'.refresh_disabled = cmdtc.refresh_disabled
  BY <1>1, <1>10, <1>11 DEF AutoTyped, Stays
<1>14. Stays(cmdtc, cmdtc')
  BY <1>12, <1>13 DEF Stays
<1>15. Settles(m, cmdtc.icursor + Len(fits), Upcoming(cmdtc, options))
  BY <1>2, <1>6, <1>8, <1>9, UpcomingParams, CompletedSettles
<1>16. Settled(cmdtc', options)
  BY <1>12, <1>14, <1>15, StaysSettled
<1> QED
  BY <1>1, <1>2, <1>16 DEF ListStep

\* The word that does not fit into the line is completed as far as it goes.
LEMMA AutoCompletionSpinsList ==
  ASSUME ListInv, AutoCompletionSpins
  PROVE  ListStep
<1> DEFINE room == MAX_COMMAND_LENGTH - Used
           leaf == KnownLeaf(cmdtc)
<1>1. Reading /\ options' = options /\ status' = "spinning"
  BY DEF AutoCompletionSpins
<1>2. PICK p \in OneWord(cmdtc) :
        /\ ~Fits(Missing(cmdtc, p))
        /\ cmdtc' = AutoTyped([cmdtc EXCEPT !.curr_param = p,
                                            !.matching_params_list = {p},
                                            !.leaf_param = leaf,
                                            !.cmdtc_state = "single_word_match"],
                              FirstN(Missing(cmdtc, p), room))
  BY DEF AutoCompletionSpins
<1>3. /\ Good(cmdtc) /\ AtWord(cmdtc) /\ OptionsType /\ cmdtc \in CursorType
      /\ cmdtc.icursor \in Nat /\ Settled(cmdtc, options) /\ Shape(cmdtc)
  BY <1>1, ListBefore
<1>4. p \in Param /\ leaf \in ParamOrNull
  BY <1>3, OneWordOK, CandidatesOK
<1>5. room \in Nat \ {0}
  BY <1>1, Before DEF ListInv, HookInv, ModeInv
<1>6. Missing(cmdtc, p) # <<>>
  <2>1. Used \in Nat /\ MAX_COMMAND_LENGTH \in Nat /\ Used < MAX_COMMAND_LENGTH
    <3>1. Len(hdr) \in Nat /\ Len(line) \in Nat
      BY <1>1, Before DEF ListInv, HookInv, ModeInv
    <3> QED
      BY <1>1, <3>1, LineLength DEF Used, Reading
  <2>2. ASSUME Missing(cmdtc, p) = <<>> PROVE FALSE
    BY <1>2, <2>1, <2>2, EmptyLine DEF Fits
  <2> QED
    BY <2>2
<1>7. ~IsLeaf(p) /\ Missing(cmdtc, p) = SubSeq(Name[p], cmdtc.icursor + 1, Len(Name[p]))
  BY <1>6 DEF Missing
<1> DEFINE fits == FirstN(Missing(cmdtc, p), room)
           listed == [cmdtc EXCEPT !.curr_param = p, !.matching_params_list = {p},
                                   !.leaf_param = leaf, !.cmdtc_state = "single_word_match"]
<1>8. cmdtc' = AutoTyped(listed, fits)
  BY <1>2
<1>9. fits \in Seq(Key) /\ Len(fits) \in Nat /\ cmdtc.icursor + Len(fits) <= Len(Name[p])
  <2> DEFINE word == Name[p]
             n == Len(word)
  <2>1. word \in Seq(Key) /\ n \in Nat /\ n <= Len(word)
    BY <1>4, NamesHaveLength
  <2>2. fits = FirstN(SubSeq(word, cmdtc.icursor + 1, n), room)
        /\ SubSeq(word, cmdtc.icursor + 1, n) # <<>>
    BY <1>6, <1>7
  <2> HIDE DEF word, n, fits, room
  <2>3. fits \in Seq(Key) /\ Len(fits) \in Nat /\ cmdtc.icursor + Len(fits) <= n
    BY <1>3, <1>5, <2>1, <2>2, CutReaches
  <2> QED
    BY <2>3 DEF n, word
\* The keyword is all the list there was.
<1>10. Settles({p}, cmdtc.icursor, Upcoming(cmdtc, options))
  <2>1. CASE cmdtc.cmdtc_state = "init"
    <3>1. Cardinality(Candidates(cmdtc)) = 1 /\ p \in Candidates(cmdtc)
      BY <2>1, <1>2 DEF OneWord
    <3>2. Settles(Candidates(cmdtc), cmdtc.icursor, Upcoming(cmdtc, options))
      BY <1>3, <2>1, CandidatesSettled
    <3>3. Alone(Candidates(cmdtc))
      BY <1>3, <3>1, <3>2, SettlesFinite, FewAlone
    <3>4. Candidates(cmdtc) = {p}
      BY <3>1, <3>3 DEF Alone
    <3> QED
      BY <3>2, <3>4
  <2>2. CASE cmdtc.cmdtc_state = "multiple_matches"
    <3>1. Len(Name[p]) = cmdtc.icursor
      BY <1>2, <2>2 DEF OneWord, Exact
    <3>2. Name[p] \in Seq(Key)
      BY <1>4, NamesHaveLength
    <3>3. SubSeq(Name[p], cmdtc.icursor + 1, Len(Name[p])) = <<>>
      BY <1>3, <3>1, <3>2
    <3> QED
      BY <1>6, <1>7, <3>3
  <2>3. CASE cmdtc.cmdtc_state = "single_word_match"
    <3>1. p = cmdtc.curr_param
      BY <1>2, <2>3 DEF OneWord
    <3>2. cmdtc.matching_params_list = {p}
      BY <1>3, <2>3, <3>1 DEF Shape, Settled, Alone
    <3> QED
      BY <1>3, <2>3, <3>2 DEF Settled
  <2>4. CASE cmdtc.cmdtc_state = "matching_leaf"
    <3>1. p = cmdtc.curr_param
      BY <1>2, <2>4 DEF OneWord
    <3>2. cmdtc.curr_param = cmdtc.leaf_param /\ IsLeaf(cmdtc.leaf_param)
      BY <1>3, <1>4, <2>4, <3>1, NullAssumption DEF Shape
    <3> QED
      BY <1>7, <3>1, <3>2
  <2> QED
    BY <1>3, <2>1, <2>2, <2>3, <2>4 DEF CursorType
<1> HIDE DEF leaf, fits, room
<1>11. Settles({p}, cmdtc.icursor + Len(fits), Upcoming(cmdtc, options))
  <2>1. cmdtc.icursor + Len(fits) \in Nat /\ cmdtc.icursor <= cmdtc.icursor + Len(fits)
    BY <1>3, <1>9
  <2>2. \A q, r \in {p} : Agree(q, r, cmdtc.icursor + Len(fits))
    BY <1>4, <1>9, <2>1, AgreeItself
  <2> QED
    BY <1>3, <1>10, <2>1, <2>2, UpcomingParams, CompletedSettles
<1>12. /\ listed \in CursorType /\ listed.icursor = cmdtc.icursor
       /\ Stays(cmdtc, listed) /\ listed.matching_params_list = {p}
       /\ {"refresh_disabled"} \subseteq DOMAIN listed
  BY <1>3, <1>4 DEF CursorType, Stays
<1> HIDE DEF listed
<1>13. /\ cmdtc'.matching_params_list = {p} /\ cmdtc'.icursor = cmdtc.icursor + Len(fits)
       /\ cmdtc'.params_stack = cmdtc.params_stack /\ cmdtc'.is_negate = cmdtc.is_negate
  BY <1>8, <1>9, <1>12, AutoTypedOK DEF Stays
<1>14. cmdtc'.refresh_disabled = cmdtc.refresh_disabled
  BY <1>8, <1>12 DEF AutoTyped, Stays
<1>15. Settled(cmdtc', options)
  BY <1>11, <1>13, <1>14, StaysSettled DEF Stays, Alone
<1> QED
  BY <1>1, <1>15 DEF ListStep

\* Behind a word, and without one, nothing is listed.
LEMMA PushedUnlisted ==
  ASSUME NEW c, Good(c), NEW p \in Param, c.is_negate => ~IsNo(p)
  PROVE  Unlisted(Pushed(c, p))
<1>1. Good(Pushed(c, p)) /\ Pushed(c, p).icursor = 0
  BY PushedOK
<1>2. Pushed(c, p).matching_params_list = {}
  BY PushedFlags
<1> QED
  BY <1>1, <1>2, Stacks DEF Shape, Unlisted

LEMMA ResetUnlisted ==
  ASSUME NEW c, Good(c)
  PROVE  Unlisted(Reset(c))
<1>1. Good(Reset(c)) /\ Reset(c).icursor = 0
  BY ResetOK
<1>2. Reset(c).matching_params_list = {}
  BY ResetPops DEF Popped
<1> QED
  BY <1>1, <1>2, Stacks DEF Shape, Unlisted

LEMMA LevelUpUnlisted ==
  ASSUME NEW c, Good(c), c.cmdtc_state = "init", Len(c.params_stack) > 1
  PROVE  Unlisted(LevelUp(c)) /\ LevelUp(c) \in CursorType
<1>1. Good(LevelUp(c)) /\ LevelUp(c).icursor = 0
  BY LevelUpOK
<1>2. LevelUp(c).matching_params_list = {}
  BY LevelUpIs
<1> QED
  BY <1>1, <1>2, Stacks DEF Shape, Unlisted

LEMMA WordUnlisted ==
  ASSUME ListInv, SpaceAccepts \/ ReturnWord
  PROVE  ListStep
<1>1. Reading /\ \E p \in OneWord(cmdtc) :
                    cmdtc' = Reset(Pushed(cmdtc, p)) \/ cmdtc' = Pushed(cmdtc, p)
  BY DEF SpaceAccepts, ReturnWord, Submit
<1>2. PICK p \in OneWord(cmdtc) : cmdtc' = Reset(Pushed(cmdtc, p)) \/ cmdtc' = Pushed(cmdtc, p)
  BY <1>1
<1>3. Good(cmdtc) /\ p \in Param /\ (cmdtc.is_negate => ~IsNo(p))
  BY <1>1, <1>2, ListBefore, OneWordOK
<1>4. Unlisted(Pushed(cmdtc, p)) /\ Unlisted(Reset(Pushed(cmdtc, p)))
  BY <1>3, PushedOK, PushedUnlisted, ResetUnlisted
<1> QED
  BY <1>2, <1>4, UnlistedStep

LEMMA LineUnlisted ==
  ASSUME ListInv, ReturnCommand \/ RunMode \/ ReturnReject
  PROVE  ListStep
<1>1. Reading /\ cmdtc' = Reset(cmdtc)
  BY DEF ReturnCommand, RunMode, ReturnReject, Submit
<1> QED
  BY <1>1, ListBefore, ResetUnlisted, UnlistedStep

LEMMA EraseCharList ==
  ASSUME ListInv, EraseChar
  PROVE  ListStep
<1> DEFINE v == SubSeq(cmdtc.curr_leaf_value, 1, cmdtc.icursor - 1)
           c == [cmdtc EXCEPT !.icursor = cmdtc.icursor - 1, !.curr_leaf_value = v]
           q == Last(cmdtc.params_stack)
           d == [Between(cmdtc) EXCEPT !.curr_param = q, !.curr_leaf_value = v]
<1>1. Reading /\ cmdtc.cmdtc_state = "matching_leaf" /\ status' = status
  BY DEF EraseChar
<1>2. cmdtc' = c \/ cmdtc' = [Between(c) EXCEPT !.curr_param = Last(c.params_stack)]
  BY DEF EraseChar
<1>3. cmdtc \in CursorType /\ status = "running"
  BY <1>1, ListBefore
<1> HIDE DEF v
<1>4. c.cmdtc_state = "matching_leaf"
  BY <1>1, <1>3 DEF CursorType
<1>5. [Between(c) EXCEPT !.curr_param = Last(c.params_stack)] = d
  BY <1>3 DEF Between, CursorType
<1> HIDE DEF c, q
<1>6. d.cmdtc_state = "init" /\ d.matching_params_list = {}
  BY <1>3, BetweenIs
<1> HIDE DEF d
<1>7. CASE cmdtc' = c
  BY <1>1, <1>3, <1>4, <1>7 DEF ListStep, Settled
<1>8. CASE cmdtc' = d
  BY <1>6, <1>8, UnlistedStep DEF Unlisted
<1> QED
  BY <1>2, <1>5, <1>7, <1>8

LEMMA EraseWordList ==
  ASSUME ListInv, EraseWord
  PROVE  ListStep
<1> DEFINE v == IF cmdtc.leaf_param = NoParam THEN cmdtc.curr_leaf_value ELSE <<>>
           q == Last(cmdtc.params_stack)
           d == [Between(cmdtc) EXCEPT !.curr_param = q, !.curr_leaf_value = v]
<1>1. Reading /\ cmdtc' = d
  BY DEF EraseWord, Between
<1>2. cmdtc \in CursorType
  BY <1>1, ListBefore
<1> HIDE DEF v, q
<1>3. d.cmdtc_state = "init" /\ d.matching_params_list = {}
  BY <1>2, BetweenIs
<1> HIDE DEF d
<1> QED
  BY <1>1, <1>3, UnlistedStep DEF Unlisted

LEMMA EraseLevelList ==
  ASSUME ListInv, EraseLevel
  PROVE  ListStep
<1>1. /\ Reading /\ cmdtc.cmdtc_state = "init" /\ cmdtc' = LevelUp(cmdtc)
      /\ Top(cmdtc.params_stack) # cmdtc.stack_checkpoint
  BY DEF EraseLevel
<1>2. Good(cmdtc)
  BY <1>1, ListBefore
<1>3. Len(cmdtc.params_stack) > 1
  <2>1. /\ Len(cmdtc.params_stack) \in Nat /\ cmdtc.stack_checkpoint \in Nat
        /\ cmdtc.stack_checkpoint + 1 \in 1 .. Len(cmdtc.params_stack)
    BY <1>2, Stacks
  <2> QED
    BY <1>1, <2>1 DEF Top
<1> QED
  BY <1>1, <1>2, <1>3, LevelUpUnlisted, UnlistedStep

LEMMA PageUpList ==
  ASSUME ListInv, PageUp
  PROVE  ListStep
<1> DEFINE c == LevelUp(cmdtc)
           mode == [c EXCEPT !.root = c.curr_param]
<1>1. /\ Reading /\ line = <<>> /\ line' = line /\ Top(cmdtc.params_stack) > 0
      /\ cmdtc' = mode \/ UNCHANGED <<cmdtc, options>>
  BY DEF PageUp
<1>2. cmdtc.cmdtc_state = "init" /\ Good(cmdtc) /\ Settled(cmdtc, options)
  BY <1>1, ListBefore, EmptyIsInit DEF HookInv
<1>3. Len(cmdtc.params_stack) > 1
  BY <1>1, <1>2, Stacks DEF Top
<1>4. Unlisted(c) /\ c \in CursorType
  BY <1>2, <1>3, LevelUpUnlisted
<1> HIDE DEF c
<1>5. Unlisted(mode)
  BY <1>4 DEF Unlisted, CursorType
<1> HIDE DEF mode
<1>6. CASE cmdtc' = mode
  BY <1>5, <1>6, UnlistedStep
<1>7. CASE UNCHANGED <<cmdtc, options>>
  BY <1>1, <1>2, <1>7 DEF ListStep, AtOnset, Settled, Settles
<1> QED
  BY <1>1, <1>6, <1>7

LEMMA CtrlTList ==
  ASSUME CtrlT
  PROVE  ListStep
<1> DEFINE b == cmdtc.refresh_disabled /\ RefreshValHook \notin Range(cmdtc.params_stack)
<1>1. cmdtc' = [InitCursor EXCEPT !.refresh_disabled = b]
  BY DEF CtrlT
<1> HIDE DEF b
<1>2. Unlisted(cmdtc')
  BY <1>1 DEF InitCursor, Unlisted
<1> QED
  BY <1>2, UnlistedStep

\* Nothing but options listed before is listed in a mode.
LEMMA EnterModeList ==
  ASSUME ListInv, UnlistedMode, EnterMode
  PROVE  ListStep
<1>1. Reading /\ cmdtc.cmdtc_state = "init" /\ cmdtc.matching_params_list = {}
  BY DEF EnterMode, UnlistedMode
<1>2. HookInv /\ Good(cmdtc)
  BY <1>1, ListBefore
<1>3. CASE UNCHANGED <<cmdtc, options>>
  BY <1>1, <1>3, UnlistedStep DEF Unlisted
<1>4. CASE status' = "corrupt"
  BY <1>4 DEF ListStep
<1>5. ASSUME NEW c, NEW mode, NEW h,
             c = (IF Nested(cmdtc) THEN WithoutOuter(cmdtc) ELSE cmdtc),
             Good(mode), mode.matching_params_list = c.matching_params_list,
             mode.cmdtc_state = "init", Submit(mode, h) \/ cmdtc' = mode
      PROVE  ListStep
  <2>1. c.matching_params_list = {}
    BY <1>1, <1>2, <1>5, WithoutOuterIs
  <2>2. Unlisted(mode) /\ Unlisted(Reset(mode))
    BY <1>5, <2>1, ResetUnlisted DEF Unlisted
  <2> QED
    BY <1>5, <2>2, UnlistedStep DEF Submit
<1> QED
  BY <1>2, <1>3, <1>4, <1>5, EnterModeIs

LEMMA ListInitially ==
  ASSUME Init
  PROVE  ListInv
<1>1. cmdtc = InitCursor /\ status = "running"
  BY DEF Init
<1>2. Unlisted(cmdtc)
  BY <1>1 DEF InitCursor, Unlisted
<1> QED
  BY <1>2, HooksInitially DEF ListInv, Unlisted, Settled, Settles

LEMMA ListInductive ==
  ASSUME ListInv, [Next]_vars, [UnlistedMode]_vars
  PROVE  ListInv'
<1>1. HookInv'
  BY HooksInductive DEF ListInv
<1>2. CASE Next /\ UnlistedMode
  <2>1. ListStep
    BY <1>2, TypeCharList, SpaceListsList, SpaceCompletesList, AutoCompletionSpinsList,
       WordUnlisted, LineUnlisted, EraseCharList, EraseWordList, EraseLevelList, PageUpList,
       CtrlTList, EnterModeList DEF Next
  <2> QED
    BY <1>1, <2>1 DEF ListInv, ListStep
<1>3. CASE UNCHANGED vars
  BY <1>1, <1>3 DEF vars, ListInv, Settled, Settles, Unlisted, AtOnset
<1> QED
  BY <1>2, <1>3

LEMMA ListInvariance == Spec /\ [][UnlistedMode]_vars => []ListInv
BY ListInitially, ListInductive, PTL DEF Spec

LEMMA FirstKeys ==
  ASSUME NEW p \in Param, NEW w \in Seq(Key)
  PROVE  FirstN(Name[p], Len(w)) = w <=> Begins(p, w)
<1> DEFINE s == Name[p]
           n == Len(w)
           f == FirstN(s, n)
<1>1. s \in Seq(Key) /\ Len(s) \in Nat /\ n \in Nat
  BY NamesHaveLength, LenProperties
<1> HIDE DEF s
<1>2. /\ f \in Seq(Key) /\ Len(f) = (IF n < Len(s) THEN n ELSE Len(s))
      /\ \A i \in 1 .. Len(f) : f[i] = s[i]
  <2>1. f \in Seq(Key) /\ Len(f) = IF n < Len(s) THEN n ELSE Len(s)
    BY <1>1, FirstNOK
  <2>2. CASE n < Len(s)
    <3>1. f = SubSeq(s, 1, n) /\ \A i \in 1 .. n : f[i] = s[i]
      BY <1>1, <2>2, SubSeqIs DEF FirstN
    <3> QED
      BY <2>1, <2>2, <3>1
  <2>3. CASE ~(n < Len(s))
    BY <2>1, <2>3 DEF FirstN
  <2> QED
    BY <2>1, <2>2, <2>3
<1> HIDE DEF f, n
<1>3. ASSUME f = w PROVE Begins(p, w)
  BY <1>1, <1>2, <1>3 DEF Begins, s, n
<1>4. ASSUME Begins(p, w) PROVE f = w
  <2>1. n <= Len(s) /\ \A i \in 1 .. n : s[i] = w[i]
    BY <1>4 DEF Begins, s, n
  <2>2. Len(f) = n
    BY <1>1, <1>2, <2>1
  <2>3. \A i \in 1 .. Len(w) : f[i] = w[i]
    BY <1>2, <2>1, <2>2 DEF n
  <2> QED
    BY <1>2, <2>2, <2>3, SeqEqual DEF n
<1> QED
  BY <1>3, <1>4 DEF f, s, n

\* What agrees with a keyword begun begins alike.
LEMMA AgreeBegins ==
  ASSUME NEW p \in Param, NEW q \in Param, NEW w \in Seq(Key), Begins(q, w)
  PROVE  Agree(p, q, Len(w)) <=> Begins(p, w)
BY DEF Agree, Begins

\* After every key the list of matches holds all the keywords that may follow
\* and begin with the word typed, and no others, when the next key is judged by
\* it: cmdtc_collect_all_matching_params with the lists the states keep. A mode
\* entered while options are listed would keep them (cmd_tree_enter_mode).
THEOREM MatchListHolds ==
  ASSUME OneKeywordBesideLeaf
  PROVE  Spec /\ [][UnlistedMode]_vars => [](status # "corrupt" => MatchListIsExact)
<1>1. ASSUME ListInv, ShownInv, status # "corrupt" PROVE MatchListIsExact
  <2> DEFINE up == Upcoming(cmdtc, options)
             m == cmdtc.matching_params_list
  <2>1. /\ Inv /\ status \in {"running", "spinning", "aborted"} /\ OptionsType
        /\ Good(cmdtc) /\ cmdtc \in CursorType /\ Shape(cmdtc) /\ Settled(cmdtc, options)
    <3>1. Inv
      BY <1>1 DEF ListInv, HookInv, ModeInv
    <3>2. Good(cmdtc) /\ OptionsType /\ status \in {"running", "spinning", "aborted"}
      BY <1>1, <3>1 DEF Inv, TypeOK, OptionsType
    <3> QED
      BY <1>1, <3>1, <3>2, Stacks DEF ListInv
  <2>2. CASE Unlisted(cmdtc) \/ cmdtc.cmdtc_state = "matching_leaf"
    BY <1>1, <2>2 DEF ListInv, Unlisted, MatchListIsExact
  <2>4. CASE status = "aborted" /\ ~Unlisted(cmdtc)
    <3>1. AtOnset(cmdtc, line)
      BY <1>1, <2>4 DEF ListInv
    <3>2. cmdtc.icursor = 0 /\ line = <<>>
      BY <2>1, <3>1 DEF Shape, AtOnset
    <3>3. m # {}
      BY <2>4, <3>1 DEF AtOnset, Unlisted
    <3>4. Settles(m, 0, up) /\ up \in SUBSET Param
      BY <2>1, <3>1, <3>2, UpcomingParams DEF Settled, AtOnset
    <3>5. \A p \in up : FirstN(Name[p], 0) = <<>>
      BY <3>4, NamesHaveLength DEF FirstN
    <3>6. Typed = <<>>
      <4>1. Typed = SubSeq(line, Len(Done(cmdtc)) + 1, Len(line))
        BY <2>1, SpelledIsDone DEF Typed
      <4>2. Len(Done(cmdtc)) \in Nat
        BY <2>1, DoneOK
      <4> QED
        BY <3>2, <4>1, <4>2
    <3>7. \A p, q \in up : Agree(p, q, 0)
      BY <3>4, NamesHaveLength DEF Agree
    <3>8. m = up
      BY <3>3, <3>4, <3>7 DEF Settles
    <3> HIDE DEF up, m
    <3>9. m = {p \in up : FirstN(Name[p], cmdtc.icursor) = Typed}
      BY <3>2, <3>5, <3>6, <3>8
    <3> QED
      BY <3>9 DEF MatchListIsExact, Upcoming, up, m
  <2>3. CASE /\ status \in {"running", "spinning"} /\ ~Unlisted(cmdtc)
             /\ cmdtc.cmdtc_state # "matching_leaf"
    <3>1. m # {}
      <4>1. cmdtc.cmdtc_state \in {"init", "multiple_matches", "single_word_match"}
        BY <2>1, <2>3 DEF CursorType
      <4> QED
        BY <2>1, <2>3, <4>1 DEF Shape, Unlisted
    <3>2. Settles(m, cmdtc.icursor, up) /\ up \in SUBSET Param
      BY <2>1, <2>3, UpcomingParams DEF Settled
    <3>3. PICK w \in Seq(Key) : line = Done(cmdtc) \o w /\ AtHand(cmdtc, w)
      BY <1>1, <2>3 DEF ShownInv, Shown
    <3>4. Typed = w /\ Len(w) = cmdtc.icursor
      <4> DEFINE done == Done(cmdtc)
      <4>1. done \in Seq(LineChar) /\ w \in Seq(LineChar)
        <5>1. w \in Seq(LineChar)
          BY SeqMonotonic DEF LineChar
        <5> QED
          BY <2>1, <5>1, DoneOK
      <4>2. Typed = SubSeq(done \o w, Len(done) + 1, Len(done \o w))
        BY <2>1, <3>3, SpelledIsDone DEF Typed
      <4> HIDE DEF done
      <4> QED
        BY <3>3, <4>1, <4>2, TailOfConcat DEF AtHand
    <3>5. PICK q \in m : TRUE
      BY <3>1
    <3>6. q \in Param /\ Begins(q, w)
      BY <2>3, <3>2, <3>3, <3>5 DEF Settles, AtHand
    <3>7. \A p \in up : p \in m <=> FirstN(Name[p], cmdtc.icursor) = Typed
      BY <3>2, <3>4, <3>5, <3>6, AgreeBegins, FirstKeys DEF Settles
    <3>8. m \subseteq up
      BY <3>2 DEF Settles
    <3> HIDE DEF up, m
    <3>9. m = {p \in up : FirstN(Name[p], cmdtc.icursor) = Typed}
      BY <3>7, <3>8
    <3> QED
      BY <3>9 DEF MatchListIsExact, Upcoming, up, m
  <2> QED
    BY <2>1, <2>2, <2>3, <2>4
<1> QED
  BY <1>1, ListInvariance, ShownInvariance, PTL


-----------------------------------------------------------------------------
(* The assertions of the cursor.                                           *)

\* The show and the config hook are the branch of a command, or a command
\* within the mode.
BehindMode(c) ==
  \A i \in 2 .. Len(c.params_stack) :
     c.params_stack[i] \in Universal =>
       \/ i = 2
       \/ c.stack_checkpoint + 2 <= i /\ c.params_stack[i - 1] = c.root
BranchOnly(s) == \A i \in 2 .. Len(s) : s[i] \in Universal => i = 2

\* What the code asserts of the states between and within words.
Asserted(c) ==
  /\ Unlisted(c) => c.leaf_param = NoParam
  /\ c.cmdtc_state = "multiple_matches" =>
       c.curr_param = Last(c.params_stack) /\ Cardinality(c.matching_params_list) > 1
Sound(c) == BehindMode(c) /\ Asserted(c)
Idle(c) == Unlisted(c) /\ c.leaf_param = NoParam

AssertInv ==
  /\ FilterInv /\ ListInv /\ ShownInv
  /\ status # "aborted"
  /\ status # "corrupt" => Sound(cmdtc)
AssertStep == status' # "aborted" /\ (status' # "corrupt" => Sound(cmdtc'))

\* Enter-mode is used with no param twice on the stack and no options listed.
OnceMode == EnterMode => Twice(cmdtc.params_stack) = {} /\ cmdtc.matching_params_list = {}

LEMMA AssertBefore ==
  ASSUME AssertInv, NoFilterMode, Reading
  PROVE  /\ Good(cmdtc) /\ AtMode(cmdtc) /\ AtWord(cmdtc) /\ OptionsType
         /\ cmdtc \in CursorType /\ Rooted(cmdtc) /\ Hooked(cmdtc, options)
         /\ FilterOK(cmdtc) /\ Marked(cmdtc) /\ Unfiltered(cmdtc) /\ status = "running"
         /\ HookInv /\ Shape(cmdtc) /\ Settled(cmdtc, options) /\ Sound(cmdtc)
         /\ BehindMode(cmdtc) /\ Asserted(cmdtc)
<1>1. FilterInv /\ ListInv
  BY DEF AssertInv
<1>2. status = "running"
  BY DEF Reading
<1> QED
  BY <1>1, <1>2, FilterBefore, ListBefore DEF AssertInv, Sound

\* A hook is an option of the mode and of the root.
LEMMA HookAhead ==
  ASSUME NEW c, Good(c), Hooked(c, options), NEW q \in Universal,
         q \in OptionsIn(options[Last(c.params_stack)])
  PROVE  Last(c.params_stack) \in {RootHook, c.root}
<1> DEFINE p == Last(c.params_stack)
<1>1. p \in Param
  BY LastIs
<1> HIDE DEF p
<1>2. SUFFICES ASSUME p # c.root, p # RootHook PROVE FALSE
  BY DEF p
<1>3. options[p] = InitOptions[p]
  BY <1>1, <1>2 DEF Hooked, HookedAt
<1>4. q \in Range(Children[p])
  BY <1>1, <1>3, OptionsInInit DEF p
<1>5. PICK i \in DOMAIN Children[p] : Children[p][i] = q
  BY <1>4 DEF Range
<1> QED
  BY <1>1, <1>2, <1>5, ChildrenAssumption DEF Universal

\* A keyword does not follow itself.
LEMMA NotItself ==
  ASSUME NEW c, Good(c), AtMode(c), Rooted(c), Hooked(c, options), BehindMode(c),
         NEW q \in Upcoming(c, options)
  PROVE  q # Last(c.params_stack)
<1> DEFINE p == Last(c.params_stack)
<1>1. p \in Param /\ q \in OptionsIn(options[p]) /\ ~IsLeaf(q)
  BY LastIs DEF Upcoming
<1> HIDE DEF p
<1>2. SUFFICES ASSUME q = p PROVE FALSE
  BY DEF p
<1>3. p # RootHook
  BY <1>1, <1>2, HookedOptions DEF Hooked
<1>4. p \notin Range(Children[p])
  <2>1. ASSUME NEW i \in DOMAIN Children[p], Children[p][i] = p PROVE FALSE
    BY <1>1, <1>2, <2>1, RepeatAssumption DEF IsLeaf
  <2> QED
    BY <2>1 DEF Range
<1>5. CASE p # c.root
  <2>1. options[p] = InitOptions[p]
    BY <1>1, <1>3, <1>5 DEF Hooked, HookedAt
  <2> QED
    BY <1>1, <1>2, <1>4, <2>1, OptionsInInit
<1>6. CASE p = c.root
  <2>1. /\ options[p] = Install(InitOptions[p], c.params_stack[2])
        /\ HasRoom(InitOptions[p], c.params_stack[2])
    BY <1>1, <1>2, <1>3, <1>6 DEF Hooked, HookedAt
  <2>2. p \in Universal \ {c.params_stack[2]}
    <3>1. p \in OptionsIn(Install(InitOptions[p], c.params_stack[2]))
      BY <1>1, <1>2, <1>6, <2>1
    <3>2. p \in OptionsIn(InitOptions[p]) \cup (Universal \ {c.params_stack[2]})
      BY <1>1, <2>1, <3>1, InstalledIs
    <3> QED
      BY <1>1, <1>4, <3>2, OptionsInInit
  <2>3. /\ c.stack_checkpoint \in Nat /\ c.stack_checkpoint + 1 \in 1 .. Len(c.params_stack)
        /\ c.params_stack[c.stack_checkpoint + 1] = p
    BY <1>6, Stacks DEF AtMode
  <2>4. c.stack_checkpoint + 1 # 1
    BY <1>3, <2>3 DEF Rooted
  <2>5. c.stack_checkpoint + 1 \in 2 .. Len(c.params_stack)
    BY <2>3, <2>4
  <2>6. c.stack_checkpoint + 1 = 2
    BY <2>2, <2>3, <2>5 DEF BehindMode
  <2> QED
    BY <2>2, <2>3, <2>6
<1> QED
  BY <1>5, <1>6

-----------------------------------------------------------------------------
\* Pushes and pops.
LEMMA PushedBehind ==
  ASSUME NEW c, Good(c), Rooted(c), Hooked(c, options), BehindMode(c), NEW p \in Param,
         p \in Universal => p \in OptionsIn(options[Last(c.params_stack)]),
         NEW d, d.params_stack = Append(c.params_stack, p), d.root = c.root,
         d.stack_checkpoint = c.stack_checkpoint
  PROVE  BehindMode(d)
<1> DEFINE s == c.params_stack
           l == Len(s)
<1>1. /\ l \in Nat \ {0} /\ s \in Seq(Param) /\ c.stack_checkpoint \in Nat
      /\ c.stack_checkpoint + 1 \in 1 .. l /\ Last(s) = s[l]
  BY Stacks, LastIs
<1>2. /\ Len(d.params_stack) = l + 1 /\ d.params_stack[l + 1] = p
      /\ \A i \in 1 .. l : d.params_stack[i] = s[i]
  BY <1>1, AppendProperties
<1>3. p \in Universal => s[l] \in {RootHook, c.root}
  BY <1>1, HookAhead
<1>4. s[l] = RootHook => l = 1
  <2> HIDE DEF l
  <2>1. l \in 2 .. l \/ l = 1
    BY <1>1
  <2> QED
    BY <2>1 DEF Rooted, l
<1>5. \A i \in 2 .. l : s[i] \in Universal =>
         i = 2 \/ (c.stack_checkpoint + 2 <= i /\ s[i - 1] = c.root)
  BY DEF BehindMode
<1> HIDE DEF s, l
<1>6. ASSUME NEW i \in 2 .. l + 1, d.params_stack[i] \in Universal
      PROVE  i = 2 \/ (d.stack_checkpoint + 2 <= i /\ d.params_stack[i - 1] = d.root)
  <2>1. CASE i = l + 1
    <3>1. l \in 1 .. l /\ i - 1 = l
      <4>1. l \in Nat \ {0}
        BY <1>1
      <4> QED
        BY <2>1, <4>1
    <3>2. d.params_stack[i - 1] = s[l] /\ s[l] \in {RootHook, c.root}
      BY <1>2, <1>3, <1>6, <2>1, <3>1
    <3>3. CASE s[l] = RootHook
      BY <1>4, <2>1, <3>3
    <3>4. CASE s[l] = c.root
      <4>1. c.stack_checkpoint + 2 <= i
        BY <1>1, <2>1
      <4> QED
        BY <3>2, <3>4, <4>1
    <3> QED
      BY <3>2, <3>3, <3>4
  <2>2. CASE i # l + 1
    <3>1. i \in 2 .. l /\ i \in 1 .. l /\ i - 1 \in 1 .. l
      BY <1>1, <2>2
    <3>2. d.params_stack[i] = s[i] /\ d.params_stack[i - 1] = s[i - 1]
      BY <1>2, <3>1
    <3> QED
      BY <1>5, <1>6, <3>1, <3>2
  <2> QED
    BY <2>1, <2>2
<1> QED
  BY <1>2, <1>6 DEF BehindMode

LEMMA CutBehind ==
  ASSUME NEW c, Good(c), BehindMode(c), NEW k \in 1 .. Len(c.params_stack), NEW d,
         d.params_stack = SubSeq(c.params_stack, 1, k),
         \/ d.root = c.root /\ d.stack_checkpoint = c.stack_checkpoint
         \/ k <= c.stack_checkpoint + 1
  PROVE  BehindMode(d)
<1>1. c.params_stack \in Seq(Param) /\ Len(c.params_stack) \in Nat /\ c.stack_checkpoint \in Nat
  BY Stacks
<1>2. Len(d.params_stack) = k /\ \A i \in 1 .. k : d.params_stack[i] = c.params_stack[i]
  BY <1>1, SubSeqIs
<1>3. \A i \in 2 .. k : i \in 1 .. k /\ i - 1 \in 1 .. k /\ i \in 2 .. Len(c.params_stack)
  BY <1>1
<1>4. \A i \in 2 .. k : k <= c.stack_checkpoint + 1 => ~(c.stack_checkpoint + 2 <= i)
  BY <1>1
<1> QED
  BY <1>2, <1>3, <1>4 DEF BehindMode

LEMMA IdleStep ==
  ASSUME BehindMode(cmdtc'), Idle(cmdtc'), status' # "aborted"
  PROVE  AssertStep
BY DEF AssertStep, Sound, Asserted, Idle, Unlisted

LEMMA PushedIdle ==
  ASSUME NEW c, Good(c), NEW p \in Param, c.is_negate => ~IsNo(p)
  PROVE  Idle(Pushed(c, p))
BY PushedUnlisted, PushedFlags DEF Idle

LEMMA ResetIdle ==
  ASSUME NEW c, Good(c), BehindMode(c)
  PROVE  Idle(Reset(c)) /\ BehindMode(Reset(c))
<1>1. c.stack_checkpoint + 1 \in 1 .. Len(c.params_stack)
  BY Stacks
<1>2. Idle(Reset(c))
  BY ResetIs DEF Idle, Unlisted
<1>3. BehindMode(Reset(c))
  BY <1>1, ResetIs, CutBehind
<1> QED
  BY <1>2, <1>3

-----------------------------------------------------------------------------
\* Words.
LEMMA AheadOf ==
  ASSUME NEW c, Good(c), AtWord(c), OptionsType, Settled(c, options), NEW p \in OneWord(c),
         ~IsLeaf(p)
  PROVE  p \in OptionsIn(options[Last(c.params_stack)])
<1>1. c \in CursorType /\ Shape(c) /\ c.curr_param \in Param
  BY Stacks DEF CursorType
<1>2. \A q \in Upcoming(c, options) : q \in OptionsIn(options[Last(c.params_stack)])
  BY DEF Upcoming
<1>3. CASE c.cmdtc_state = "init"
  <2>1. p \in Candidates(c)
    BY <1>3 DEF OneWord
  <2> QED
    BY <1>2, <1>3, <2>1, CandidatesSettled DEF Settles
<1>4. CASE c.cmdtc_state = "multiple_matches"
  BY <1>2, <1>4 DEF OneWord, Exact, Settled, Settles
<1>5. CASE c.cmdtc_state = "single_word_match"
  BY <1>1, <1>2, <1>5 DEF OneWord, Shape, Settled, Settles
<1>6. CASE c.cmdtc_state = "matching_leaf"
  BY <1>1, <1>6, NullAssumption DEF OneWord, Shape
<1> QED
  BY <1>1, <1>3, <1>4, <1>5, <1>6 DEF CursorType

LEMMA WordSound ==
  ASSUME AssertInv, NoFilterMode, Reading, NEW p \in OneWord(cmdtc)
  PROVE  /\ p \in Param /\ (cmdtc.is_negate => ~IsNo(p)) /\ Good(Pushed(cmdtc, p))
         /\ BehindMode(Pushed(cmdtc, p)) /\ Idle(Pushed(cmdtc, p))
         /\ AfterSpace(cmdtc, p) # "aborted"
<1>1. p \in Param /\ (cmdtc.is_negate => ~IsNo(p))
  BY AssertBefore, OneWordOK
<1>2. /\ Good(Pushed(cmdtc, p))
      /\ Pushed(cmdtc, p).params_stack = Append(cmdtc.params_stack, p)
      /\ Pushed(cmdtc, p).root = cmdtc.root
      /\ Pushed(cmdtc, p).stack_checkpoint = cmdtc.stack_checkpoint
  BY <1>1, AssertBefore, PushedOK
<1>3. p \in Universal => p \in OptionsIn(options[Last(cmdtc.params_stack)])
  BY AssertBefore, AheadOf, TreeFacts
<1>4. BehindMode(Pushed(cmdtc, p))
  BY <1>1, <1>2, <1>3, AssertBefore, PushedBehind
<1>5. Idle(Pushed(cmdtc, p))
  BY <1>1, AssertBefore, PushedIdle
<1>6. p = RefreshValHook => cmdtc.is_refresh
  <2>1. SUFFICES ASSUME p = RefreshValHook PROVE cmdtc.is_refresh
    OBVIOUS
  <2>2. MayFollow(cmdtc, p)
    BY AssertBefore, AheadFollows DEF Ahead
  <2>3. /\ cmdtc.params_stack[Len(cmdtc.params_stack)] = RefreshHook
        /\ Len(cmdtc.params_stack) \in 1 .. Len(cmdtc.params_stack)
    BY <2>1, <2>2, AssertBefore, LastIs, Stacks DEF MayFollow
  <2>4. On(cmdtc.params_stack, RefreshHook)
    BY <2>3 DEF On
  <2> QED
    BY <2>4, AssertBefore DEF Marked
<1>7. AfterSpace(cmdtc, p) # "aborted"
  BY <1>6, AssertBefore DEF AfterSpace, AfterPush
<1> QED
  BY <1>1, <1>2, <1>4, <1>5, <1>7

LEMMA WordAssert ==
  ASSUME AssertInv, NoFilterMode, SpaceAccepts \/ ReturnWord
  PROVE  AssertStep
<1>1. Reading
  BY DEF SpaceAccepts, ReturnWord
<1>2. PICK p \in OneWord(cmdtc) :
        \/ cmdtc' = Pushed(cmdtc, p) /\ status' = AfterSpace(cmdtc, p)
        \/ cmdtc' = Reset(Pushed(cmdtc, p)) /\ status' \in {status, "corrupt"}
  BY DEF SpaceAccepts, ReturnWord, Submit, Triggered
<1>3. /\ Good(Pushed(cmdtc, p)) /\ AfterSpace(cmdtc, p) # "aborted"
      /\ BehindMode(Pushed(cmdtc, p)) /\ Idle(Pushed(cmdtc, p))
  BY <1>1, WordSound
<1>4. Idle(Reset(Pushed(cmdtc, p))) /\ BehindMode(Reset(Pushed(cmdtc, p)))
  BY <1>3, ResetIdle
<1>5. status = "running"
  BY <1>1, AssertBefore
<1>6. Idle(cmdtc') /\ BehindMode(cmdtc') /\ status' # "aborted"
  BY <1>2, <1>3, <1>4, <1>5
<1> QED
  BY <1>6, IdleStep

LEMMA LineAssert ==
  ASSUME AssertInv, NoFilterMode, ReturnCommand \/ RunMode \/ ReturnReject
  PROVE  AssertStep
<1>1. Reading /\ cmdtc' = Reset(cmdtc) /\ status' \in {status, "corrupt"}
  BY DEF ReturnCommand, RunMode, ReturnReject, Submit, Triggered
<1>2. Idle(Reset(cmdtc)) /\ BehindMode(Reset(cmdtc)) /\ status = "running"
  BY <1>1, AssertBefore, ResetIdle
<1> QED
  BY <1>1, <1>2, IdleStep

-----------------------------------------------------------------------------
\* Letters.
LEMMA AloneFew ==
  ASSUME NEW m, Alone(m)
  PROVE  ~(Cardinality(m) > 1)
<1>1. CASE m = {}
  BY <1>1, FS_EmptySet
<1>2. CASE m # {}
  <2>1. PICK x \in m : TRUE
    BY <1>2
  <2>2. m = {x}
    BY <2>1 DEF Alone
  <2>3. Cardinality(m) = 1
    BY <2>2, FS_Singleton
  <2> QED
    BY <2>3
<1> QED
  BY <1>1, <1>2

\* What a key within a word leaves.
Within(c, d) ==
  d.params_stack = c.params_stack /\ d.root = c.root /\ d.stack_checkpoint = c.stack_checkpoint

LEMMA WithinStep ==
  ASSUME BehindMode(cmdtc), Within(cmdtc, cmdtc'), ~Unlisted(cmdtc'), status' # "aborted",
         cmdtc'.cmdtc_state = "multiple_matches" =>
           /\ cmdtc'.curr_param = Last(cmdtc.params_stack)
           /\ Cardinality(cmdtc'.matching_params_list) > 1
  PROVE  AssertStep
<1>1. BehindMode(cmdtc')
  BY DEF BehindMode, Within
<1> QED
  BY <1>1 DEF AssertStep, Sound, Asserted, Within

LEMMA TypeCharAssert ==
  ASSUME AssertInv, NoFilterMode, NEW k \in Key, TypeChar(k)
  PROVE  AssertStep
<1> DEFINE leaf == KnownLeaf(cmdtc)
           m == Matched(cmdtc, k)
           typed == [cmdtc EXCEPT !.icursor = cmdtc.icursor + 1,
                                  !.curr_leaf_value = Save(cmdtc, leaf, <<k>>)]
<1>1. Reading /\ cmdtc' = ParseChar(cmdtc, k) /\ status' \in {"corrupt", status}
  BY DEF TypeChar
<1>2. /\ cmdtc \in CursorType /\ status = "running" /\ BehindMode(cmdtc) /\ Asserted(cmdtc)
      /\ AtWord(cmdtc) /\ Settled(cmdtc, options) /\ Shape(cmdtc)
  BY <1>1, AssertBefore
<1>3. /\ Within(cmdtc, cmdtc')
      /\ cmdtc'.cmdtc_state \in {"matching_leaf", "multiple_matches", "single_word_match"}
      /\ cmdtc'.cmdtc_state = "multiple_matches" =>
           /\ cmdtc.cmdtc_state # "matching_leaf" /\ cmdtc'.curr_param = cmdtc.curr_param
           /\ cmdtc'.matching_params_list = m /\ Cardinality(m) > 1
  <2> HIDE DEF leaf, m
  <2>1. /\ {"params_stack", "root", "stack_checkpoint", "matching_params_list",
            "cmdtc_state", "leaf_param", "curr_param", "curr_leaf_value",
            "icursor"} \subseteq DOMAIN typed
        /\ Within(cmdtc, typed) /\ typed.curr_param = cmdtc.curr_param
        /\ typed.cmdtc_state = cmdtc.cmdtc_state
    BY <1>2 DEF CursorType, Within
  <2>2. \/ cmdtc.cmdtc_state = "matching_leaf" /\ cmdtc' = typed
        \/ cmdtc' = [typed EXCEPT !.cmdtc_state = "matching_leaf", !.leaf_param = leaf,
                                  !.curr_param = leaf]
        \/ /\ cmdtc.cmdtc_state # "matching_leaf" /\ Cardinality(m) > 1
           /\ cmdtc' = [typed EXCEPT !.cmdtc_state = "multiple_matches", !.leaf_param = leaf,
                                     !.matching_params_list = m]
        \/ \E q, w : cmdtc' =
             [typed EXCEPT !.cmdtc_state = "single_word_match", !.leaf_param = leaf,
                           !.matching_params_list = m, !.curr_param = q,
                           !.curr_leaf_value = w]
    BY <1>1 DEF ParseChar, leaf, m
  <2> HIDE DEF typed
  <2>3. CASE cmdtc.cmdtc_state = "matching_leaf" /\ cmdtc' = typed
    BY <2>1, <2>3 DEF Within
  <2>4. CASE cmdtc' = [typed EXCEPT !.cmdtc_state = "matching_leaf", !.leaf_param = leaf,
                                    !.curr_param = leaf]
    BY <2>1, <2>4 DEF Within
  <2>5. CASE /\ cmdtc.cmdtc_state # "matching_leaf" /\ Cardinality(m) > 1
             /\ cmdtc' = [typed EXCEPT !.cmdtc_state = "multiple_matches", !.leaf_param = leaf,
                                       !.matching_params_list = m]
    BY <2>1, <2>5 DEF Within
  <2>6. CASE \E q, w : cmdtc' =
               [typed EXCEPT !.cmdtc_state = "single_word_match", !.leaf_param = leaf,
                             !.matching_params_list = m, !.curr_param = q,
                             !.curr_leaf_value = w]
    BY <2>1, <2>6 DEF Within
  <2> QED
    BY <2>2, <2>3, <2>4, <2>5, <2>6
<1>4. /\ cmdtc.cmdtc_state # "matching_leaf" /\ Cardinality(m) > 1
      => cmdtc.curr_param = Last(cmdtc.params_stack)
  <2>1. SUFFICES ASSUME cmdtc.cmdtc_state # "matching_leaf", Cardinality(m) > 1
                 PROVE  cmdtc.curr_param = Last(cmdtc.params_stack)
    OBVIOUS
  <2>2. CASE cmdtc.cmdtc_state = "init"
    BY <1>2, <2>2 DEF AtWord
  <2>3. CASE cmdtc.cmdtc_state = "multiple_matches"
    BY <1>2, <2>3 DEF Asserted
  <2>4. CASE cmdtc.cmdtc_state = "single_word_match"
    <3>1. ~Fresh(cmdtc)
      BY <1>2, <2>4 DEF Fresh, Shape
    <3>2. m \subseteq cmdtc.matching_params_list
      BY <3>1 DEF Matched, Candidates
    <3>3. Alone(m)
      BY <1>2, <2>4, <3>2 DEF Settled, Alone
    <3> HIDE DEF m
    <3> QED
      BY <2>1, <3>3, AloneFew
  <2> QED
    BY <1>2, <2>1, <2>2, <2>3, <2>4 DEF CursorType
<1> HIDE DEF m
<1> QED
  BY <1>1, <1>2, <1>3, <1>4, WithinStep DEF Unlisted

LEMMA SpaceListsAssert ==
  ASSUME AssertInv, NoFilterMode, SpaceLists
  PROVE  AssertStep
<1> DEFINE m == Candidates(cmdtc)
           leaf == KnownLeaf(cmdtc)
<1>1. /\ Reading /\ cmdtc.cmdtc_state = "init" /\ status' = status
      /\ cmdtc' = [cmdtc EXCEPT !.matching_params_list = m, !.leaf_param = leaf]
      /\ Cardinality(m) > 1
  BY DEF SpaceLists
<1>2. cmdtc \in CursorType /\ status = "running" /\ BehindMode(cmdtc)
  BY <1>1, AssertBefore
<1> HIDE DEF m, leaf
<1>3. Within(cmdtc, cmdtc') /\ cmdtc'.matching_params_list = m /\ cmdtc'.cmdtc_state = "init"
  BY <1>1, <1>2 DEF CursorType, Within
<1>4. m # {}
  BY <1>1, FS_EmptySet
<1> QED
  BY <1>1, <1>2, <1>3, <1>4, WithinStep DEF Unlisted

LEMMA SpaceCompletesAssert ==
  ASSUME AssertInv, NoFilterMode, SpaceCompletes
  PROVE  AssertStep
<1> DEFINE m == Candidates(cmdtc)
           leaf == KnownLeaf(cmdtc)
           fits == FirstN(Completion(cmdtc, m), MAX_COMMAND_LENGTH - Used)
           listed == [cmdtc EXCEPT !.matching_params_list = m, !.leaf_param = leaf,
                                   !.cmdtc_state = "multiple_matches"]
<1>1. /\ Reading /\ Ambiguous(cmdtc) /\ cmdtc' = AutoTyped(listed, fits)
      /\ status' \in {"spinning", status}
  BY DEF SpaceCompletes
<1>2. /\ cmdtc \in CursorType /\ status = "running" /\ BehindMode(cmdtc) /\ Asserted(cmdtc)
      /\ AtWord(cmdtc) /\ Shape(cmdtc)
  BY <1>1, AssertBefore
<1>3. Cardinality(m) > 1 /\ cmdtc.curr_param = Last(cmdtc.params_stack)
  <2>1. CASE cmdtc.cmdtc_state = "init" /\ Cardinality(Candidates(cmdtc)) > 1
    BY <1>2, <2>1 DEF AtWord
  <2>2. CASE cmdtc.cmdtc_state = "multiple_matches"
    <3>1. m = cmdtc.matching_params_list
      BY <1>2, <2>2 DEF Candidates, Fresh, Shape
    <3> QED
      BY <1>2, <2>2, <3>1 DEF Asserted
  <2> QED
    BY <1>1, <2>1, <2>2 DEF Ambiguous
<1> HIDE DEF m, leaf, fits
<1>4. /\ Within(cmdtc, listed) /\ listed.matching_params_list = m
      /\ listed.curr_param = cmdtc.curr_param /\ listed.cmdtc_state = "multiple_matches"
      /\ {"params_stack", "root", "stack_checkpoint", "matching_params_list", "curr_param",
          "cmdtc_state"} \subseteq DOMAIN listed
  BY <1>2 DEF CursorType, Within
<1> HIDE DEF listed
<1>5. /\ Within(cmdtc, cmdtc') /\ cmdtc'.matching_params_list = m
      /\ cmdtc'.curr_param = cmdtc.curr_param /\ cmdtc'.cmdtc_state = "multiple_matches"
  BY <1>1, <1>4 DEF AutoTyped, Within
<1> QED
  BY <1>1, <1>2, <1>3, <1>5, WithinStep DEF Unlisted

LEMMA AutoCompletionSpinsAssert ==
  ASSUME AssertInv, NoFilterMode, AutoCompletionSpins
  PROVE  AssertStep
<1>1. Reading /\ status' = "spinning"
  BY DEF AutoCompletionSpins
<1>2. PICK p \in OneWord(cmdtc) :
        cmdtc' = AutoTyped([cmdtc EXCEPT !.curr_param = p,
                                         !.matching_params_list = {p},
                                         !.leaf_param = KnownLeaf(cmdtc),
                                         !.cmdtc_state = "single_word_match"],
                           FirstN(Missing(cmdtc, p), MAX_COMMAND_LENGTH - Used))
  BY DEF AutoCompletionSpins
<1> DEFINE leaf == KnownLeaf(cmdtc)
           keys == FirstN(Missing(cmdtc, p), MAX_COMMAND_LENGTH - Used)
           listed == [cmdtc EXCEPT !.curr_param = p, !.matching_params_list = {p},
                                   !.leaf_param = leaf,
                                   !.cmdtc_state = "single_word_match"]
<1>3. cmdtc' = AutoTyped(listed, keys)
  BY <1>2
<1> HIDE DEF leaf, keys
<1>4. /\ Within(cmdtc, listed) /\ listed.cmdtc_state = "single_word_match"
      /\ {"params_stack", "root", "stack_checkpoint", "cmdtc_state"} \subseteq DOMAIN listed
  BY <1>1, AssertBefore DEF CursorType, Within
<1> HIDE DEF listed
<1>5. Within(cmdtc, cmdtc') /\ cmdtc'.cmdtc_state = "single_word_match"
  BY <1>3, <1>4 DEF AutoTyped, Within
<1> QED
  BY <1>1, <1>5, AssertBefore, WithinStep DEF Unlisted

\* Backwards.
LEMMA EraseCharAssert ==
  ASSUME AssertInv, NoFilterMode, EraseChar
  PROVE  AssertStep
<1> DEFINE v == SubSeq(cmdtc.curr_leaf_value, 1, cmdtc.icursor - 1)
           c == [cmdtc EXCEPT !.icursor = cmdtc.icursor - 1, !.curr_leaf_value = v]
           q == Last(cmdtc.params_stack)
           d == [Between(cmdtc) EXCEPT !.curr_param = q, !.curr_leaf_value = v]
<1>1. Reading /\ cmdtc.cmdtc_state = "matching_leaf" /\ status' = status
  BY DEF EraseChar
<1>2. cmdtc' = c \/ cmdtc' = [Between(c) EXCEPT !.curr_param = Last(c.params_stack)]
  BY DEF EraseChar
<1>3. cmdtc \in CursorType /\ status = "running" /\ BehindMode(cmdtc)
  BY <1>1, AssertBefore
<1> HIDE DEF v
<1>4. Within(cmdtc, c) /\ c.cmdtc_state = "matching_leaf"
  BY <1>1, <1>3 DEF CursorType, Within
<1>5. [Between(c) EXCEPT !.curr_param = Last(c.params_stack)] = d
  BY <1>3 DEF Between, CursorType
<1> HIDE DEF c, q
<1>6. Within(cmdtc, d) /\ Idle(d)
  BY <1>3, BetweenIs DEF Within, Idle, Unlisted
<1> HIDE DEF d
<1>7. CASE cmdtc' = c
  BY <1>1, <1>3, <1>4, <1>7, WithinStep DEF Unlisted
<1>8. CASE cmdtc' = d
  <2>1. BehindMode(cmdtc')
    BY <1>3, <1>6, <1>8 DEF BehindMode, Within
  <2> QED
    BY <1>1, <1>3, <1>6, <1>8, <2>1, IdleStep
<1> QED
  BY <1>2, <1>5, <1>7, <1>8

LEMMA EraseWordAssert ==
  ASSUME AssertInv, NoFilterMode, EraseWord
  PROVE  AssertStep
<1> DEFINE v == IF cmdtc.leaf_param = NoParam THEN cmdtc.curr_leaf_value ELSE <<>>
           q == Last(cmdtc.params_stack)
           d == [Between(cmdtc) EXCEPT !.curr_param = q, !.curr_leaf_value = v]
<1>1. Reading /\ cmdtc' = d /\ status' = status
  BY DEF EraseWord, Between
<1>2. cmdtc \in CursorType /\ status = "running" /\ BehindMode(cmdtc)
  BY <1>1, AssertBefore
<1> HIDE DEF v, q
<1>3. Within(cmdtc, d) /\ Idle(d)
  BY <1>2, BetweenIs DEF Within, Idle, Unlisted
<1> HIDE DEF d
<1>4. BehindMode(cmdtc')
  BY <1>1, <1>2, <1>3 DEF BehindMode, Within
<1> QED
  BY <1>1, <1>2, <1>3, <1>4, IdleStep

LEMMA LevelUpIdle ==
  ASSUME NEW c, Good(c), Marked(c), c.cmdtc_state = "init", Len(c.params_stack) > 1
  PROVE  Idle(LevelUp(c)) /\ LevelUp(c) \in CursorType
BY LevelUpUnlisted, LevelUpPops DEF Idle, Popped

LEMMA EraseLevelAssert ==
  ASSUME AssertInv, NoFilterMode, EraseLevel
  PROVE  AssertStep
<1> DEFINE k == Len(cmdtc.params_stack) - 1
<1>1. /\ Reading /\ cmdtc.cmdtc_state = "init" /\ cmdtc' = LevelUp(cmdtc) /\ status' = status
      /\ Top(cmdtc.params_stack) # cmdtc.stack_checkpoint
  BY DEF EraseLevel
<1>2. Good(cmdtc) /\ Marked(cmdtc) /\ BehindMode(cmdtc) /\ status = "running"
  BY <1>1, AssertBefore
<1>3. Len(cmdtc.params_stack) > 1 /\ k \in 1 .. Len(cmdtc.params_stack)
  <2>1. /\ Len(cmdtc.params_stack) \in Nat /\ cmdtc.stack_checkpoint \in Nat
        /\ cmdtc.stack_checkpoint + 1 \in 1 .. Len(cmdtc.params_stack)
    BY <1>2, Stacks
  <2> QED
    BY <1>1, <2>1 DEF Top
<1>4. Idle(LevelUp(cmdtc))
  BY <1>1, <1>2, <1>3, LevelUpIdle
<1>5. /\ LevelUp(cmdtc).params_stack = SubSeq(cmdtc.params_stack, 1, k)
      /\ LevelUp(cmdtc).root = cmdtc.root
      /\ LevelUp(cmdtc).stack_checkpoint = cmdtc.stack_checkpoint
  BY <1>1, <1>2, <1>3, LevelUpIs DEF MarkAfterPop
<1>6. BehindMode(LevelUp(cmdtc))
  BY <1>2, <1>3, <1>5, CutBehind
<1> QED
  BY <1>1, <1>2, <1>4, <1>6, IdleStep

\* Page-up finds room for the hooks where every param had it from the start.
LEMMA PageUpGoesOn ==
  ASSUME RoomForUniversals, HookInv, PageUp
  PROVE  status' # "aborted"
<1> DEFINE c == LevelUp(cmdtc)
           k == Len(cmdtc.params_stack) - 1
           mode == [c EXCEPT !.root = c.curr_param]
           left == [options EXCEPT ![cmdtc.root] = Uninstall(@)]
           branch == Branch(mode.params_stack)
<1>1. Reading /\ line = <<>> /\ Top(cmdtc.params_stack) > 0
  BY DEF PageUp
<1>2. /\ Good(cmdtc) /\ Placed(cmdtc) /\ AtMode(cmdtc) /\ Rooted(cmdtc)
      /\ Hooked(cmdtc, options) /\ ModeInv /\ OptionsType /\ cmdtc.root \in Param
      /\ status = "running"
  BY <1>1, HooksBefore
<1>3. /\ Len(cmdtc.params_stack) \in Nat /\ Len(cmdtc.params_stack) > 1
      /\ Len(cmdtc.params_stack) = cmdtc.stack_checkpoint + 1
      /\ cmdtc.stack_checkpoint \in Nat /\ cmdtc.cmdtc_state = "init"
  <2>1. Covered(cmdtc, 0)
    BY <1>1, <1>2, ModeBefore, EmptyLine
  <2>2. Len(cmdtc.params_stack) = cmdtc.stack_checkpoint + 1 /\ cmdtc.icursor = 0
    BY <1>2, <2>1, NothingCovered
  <2>3. Len(cmdtc.params_stack) \in Nat /\ cmdtc.stack_checkpoint \in Nat
    BY <1>2, Stacks
  <2>4. cmdtc.cmdtc_state = "init"
    BY <1>2, <2>2, Stacks DEF Shape
  <2> QED
    BY <1>1, <2>2, <2>3, <2>4 DEF Top
<1>4. mode.root \in Param
  <2>1. Good(c)
    BY <1>2, <1>3, LevelUpOK
  <2> HIDE DEF c, k
  <2>2. c \in CursorType
    BY <2>1, Stacks
  <2>3. mode.root = c.curr_param
    BY <2>2 DEF CursorType
  <2> QED
    BY <2>1, <2>3 DEF Good, CursorType
<1> HIDE DEF c, mode
<1>5. cmdtc.root # RootHook
  BY <1>2, <1>3, ModeHasBranch
<1>6. HookedAt(left, RootHook, branch)
  BY <1>2, <1>5, LeaveHooks DEF Hooked, OptionsType
<1>7. mode.root # RootHook => HasRoom(left[mode.root], branch)
  <2> HIDE DEF left, branch
  <2>1. mode.root # RootHook => left[mode.root] = InitOptions[mode.root]
    BY <1>4, <1>6 DEF HookedAt
  <2> QED
    BY <1>4, <2>1, RoomForHooks
<1>8. \/ mode.root # RootHook /\ ~HasRoom(left[mode.root], branch)
      \/ status' = "corrupt" \/ UNCHANGED status
  BY DEF PageUp, mode, c
<1> HIDE DEF left, branch
<1> QED
  BY <1>2, <1>7, <1>8

LEMMA PageUpAssert ==
  ASSUME RoomForUniversals, AssertInv, NoFilterMode, PageUp
  PROVE  AssertStep
<1> DEFINE c == LevelUp(cmdtc)
           k == Len(cmdtc.params_stack) - 1
           mode == [c EXCEPT !.root = c.curr_param]
<1>1. /\ Reading /\ line = <<>> /\ Top(cmdtc.params_stack) > 0
      /\ status' = "aborted" \/ cmdtc' = mode
  BY DEF PageUp
<1>2. Good(cmdtc) /\ Marked(cmdtc) /\ BehindMode(cmdtc) /\ HookInv /\ ModeInv
  BY <1>1, AssertBefore DEF HookInv
<1>3. cmdtc.cmdtc_state = "init"
  BY <1>1, <1>2, EmptyIsInit
<1>4. /\ Len(cmdtc.params_stack) > 1 /\ k \in 1 .. Len(cmdtc.params_stack)
      /\ k <= cmdtc.stack_checkpoint + 1
  <2>1. Covered(cmdtc, 0)
    BY <1>1, <1>2, ModeBefore, EmptyLine
  <2>2. Len(cmdtc.params_stack) = cmdtc.stack_checkpoint + 1
    BY <1>2, <2>1, NothingCovered
  <2>3. Len(cmdtc.params_stack) \in Nat /\ cmdtc.stack_checkpoint \in Nat
    BY <1>2, Stacks
  <2> QED
    BY <1>1, <2>2, <2>3 DEF Top
<1>5. Idle(c) /\ c \in CursorType /\ c.params_stack = SubSeq(cmdtc.params_stack, 1, k)
  BY <1>2, <1>3, <1>4, LevelUpIdle, LevelUpIs
<1> HIDE DEF c, k
<1>6. Idle(mode) /\ mode.params_stack = SubSeq(cmdtc.params_stack, 1, k)
  BY <1>5 DEF Idle, Unlisted, CursorType
<1> HIDE DEF mode
<1>7. BehindMode(mode)
  BY <1>2, <1>4, <1>6, CutBehind
<1>8. status' # "aborted"
  BY <1>2, PageUpGoesOn
<1> QED
  BY <1>1, <1>6, <1>7, <1>8, IdleStep

LEMMA RootBehind ==
  ASSUME NEW d, d.params_stack = <<RootHook>>
  PROVE  BehindMode(d)
<1>1. 2 .. Len(<<RootHook>>) = {}
  OBVIOUS
<1> QED
  BY <1>1 DEF BehindMode

LEMMA CtrlTAssert ==
  ASSUME AssertInv, NoFilterMode, CtrlT
  PROVE  AssertStep
<1> DEFINE b == cmdtc.refresh_disabled /\ RefreshValHook \notin Range(cmdtc.params_stack)
<1>1. Reading /\ cmdtc' = [InitCursor EXCEPT !.refresh_disabled = b] /\ status' = status
  BY DEF CtrlT
<1> HIDE DEF b
<1>2. Idle(cmdtc') /\ cmdtc'.params_stack = <<RootHook>>
  BY <1>1 DEF InitCursor, Idle, Unlisted
<1> QED
  BY <1>1, <1>2, AssertBefore, RootBehind, IdleStep

-----------------------------------------------------------------------------
\* Modes.
LEMMA OnceOuter ==
  ASSUME NEW c, Good(c), Nested(c), c.cmdtc_state = "init", Rooted(c),
         Twice(c.params_stack) = {}
  PROVE  Twice(WithoutOuter(c).params_stack) = {}
<1> DEFINE s == c.params_stack
           m == c.stack_checkpoint
           l == Len(s)
           u == WithoutOuter(c).params_stack
<1>1. /\ m \in Nat \ {0} /\ l \in Nat /\ Len(u) = l - m
      /\ \A i \in 2 .. l - m : u[i] = s[i + m]
  BY WithoutOuterIs
<1>2. u[1] = RootHook /\ \A i \in 2 .. Len(u) : u[i] # RootHook
  BY WithoutOuterRooted DEF Rooted
<1>3. DOMAIN s = 1 .. l /\ DOMAIN u = 1 .. Len(u)
  BY WithoutOuterOK, Stacks
<1>4. \A i, j \in 1 .. l : s[i] = s[j] => ~(j \in 1 .. i - 1)
  BY <1>3 DEF Twice
<1> HIDE DEF s, m, l, u
<1>5. ASSUME NEW i \in 1 .. Len(u), NEW j \in 1 .. i - 1, u[j] = u[i]
      PROVE  FALSE
  <2>1. i \in 2 .. l - m /\ i \in 2 .. Len(u) /\ i + m \in 1 .. l
    BY <1>1
  <2>2. CASE j = 1
    BY <1>2, <1>5, <2>1, <2>2
  <2>3. CASE j # 1
    <3>1. j \in 2 .. l - m /\ j + m \in 1 .. l /\ j + m \in 1 .. i + m - 1
      BY <1>1, <2>1, <2>3
    <3> QED
      BY <1>1, <1>4, <1>5, <2>1, <3>1
  <2> QED
    BY <2>2, <2>3
<1> QED
  BY <1>3, <1>5 DEF Twice, u

\* In a mode entered, the show and the config hook are the branch.
LEMMA OuterBranchOnly ==
  ASSUME NEW c, Good(c), AtMode(c), Rooted(c), BehindMode(c), Twice(c.params_stack) = {}
  PROVE  BranchOnly(IF Nested(c) THEN WithoutOuter(c).params_stack ELSE c.params_stack)
<1> DEFINE s == c.params_stack
           m == c.stack_checkpoint
           l == Len(s)
<1>1. /\ l \in Nat \ {0} /\ m \in Nat /\ m + 1 \in 1 .. l /\ s[m + 1] = c.root
      /\ DOMAIN s = 1 .. l
  BY Stacks DEF AtMode
<1>2. \A i, j \in 1 .. l : j \in 1 .. i - 1 => s[i] # s[j]
  BY <1>1 DEF Twice
<1>3. \A i \in 2 .. l : s[i] \in Universal => i = 2 \/ (m + 2 <= i /\ s[i - 1] = c.root)
  BY DEF BehindMode
<1>4. Nested(c) <=> m > 0 /\ l - 1 > m /\ s[m + 2] \in Hooks
  BY DEF Nested, Top
<1> HIDE DEF s, m, l
\* The hook in a mode starts the nested command.
<1>5. ASSUME NEW i \in 2 .. l, s[i] \in Universal PROVE i \in {2, m + 2}
  <2>1. CASE i = 2
    BY <2>1
  <2>2. CASE m + 2 <= i /\ s[i - 1] = c.root
    <3>1. i - 1 \in 1 .. l /\ (m + 1 \in 1 .. i - 1 - 1 \/ i - 1 = m + 1)
      BY <1>1, <2>2
    <3>2. i - 1 = m + 1
      BY <1>1, <1>2, <2>2, <3>1
    <3> QED
      BY <1>1, <3>2
  <2> QED
    BY <1>3, <1>5, <2>1, <2>2
<1>6. CASE Nested(c)
  <2> DEFINE u == WithoutOuter(c).params_stack
  <2>1. /\ m \in Nat \ {0} /\ Len(u) = l - m
        /\ \A i \in 2 .. l - m : u[i] = s[i + m]
    BY <1>6, WithoutOuterIs DEF s, m, l
  <2> HIDE DEF u
  <2>2. ASSUME NEW i \in 2 .. Len(u), u[i] \in Universal PROVE i = 2
    <3>1. i \in 2 .. l - m /\ i + m \in 2 .. l
      BY <1>1, <2>1
    <3>2. s[i + m] \in Universal
      BY <2>1, <2>2, <3>1
    <3>3. i + m \in {2, m + 2}
      BY <1>5, <3>1, <3>2
    <3> QED
      BY <2>1, <3>1, <3>3
  <2> QED
    BY <1>6, <2>2 DEF BranchOnly, u
<1>7. CASE ~Nested(c)
  <2>1. ASSUME NEW i \in 2 .. l, s[i] \in Universal PROVE i = 2
    <3>1. SUFFICES ASSUME i = m + 2, i # 2 PROVE FALSE
      BY <1>5, <2>1
    <3>2. m > 0 /\ l - 1 > m
      BY <1>1, <3>1
    <3>3. s[m + 2] \in Hooks
      BY <2>1, <3>1, NullAssumption DEF Universal
    <3> QED
      BY <1>4, <1>7, <3>2, <3>3
  <2> QED
    BY <1>7, <2>1 DEF BranchOnly, s, l
<1> QED
  BY <1>6, <1>7

\* Enter-mode finds the params linked nowhere else and room for the hooks.
LEMMA EnterModeGoesOn ==
  ASSUME RoomForUniversals, AssertInv, NoFilterMode, OnceMode, EnterMode
  PROVE  status' # "aborted"
<1> DEFINE c == IF Nested(cmdtc) THEN WithoutOuter(cmdtc) ELSE cmdtc
           left == IF Nested(cmdtc) THEN cmdtc.params_stack[cmdtc.stack_checkpoint + 1] ELSE c.root
           stack == Rebuilt(c.params_stack)
           mode == [c EXCEPT !.params_stack = stack, !.root = c.curr_param,
                             !.stack_checkpoint = Top(stack)]
           kept == IF left = RootHook THEN options ELSE [options EXCEPT ![left] = Uninstall(@)]
           branch == Branch(mode.params_stack)
<1>1. Reading /\ cmdtc.cmdtc_state = "init" /\ line # <<>>
  BY DEF EnterMode
<1>2. Twice(cmdtc.params_stack) = {} /\ cmdtc.matching_params_list = {}
  BY DEF OnceMode
<1>3. /\ Good(cmdtc) /\ Placed(cmdtc) /\ AtMode(cmdtc) /\ AtWord(cmdtc) /\ Rooted(cmdtc)
      /\ Hooked(cmdtc, options) /\ OptionsType /\ cmdtc.root \in Param /\ status = "running"
  BY <1>1, AssertBefore, HooksBefore
<1>4. Good(c) /\ c.cmdtc_state = "init" /\ AtWord(c) /\ Rooted(c)
  BY <1>1, <1>3, WithoutOuterOK, WithoutOuterPlace, WithoutOuterRooted
<1>5. left = cmdtc.root
  BY <1>3 DEF AtMode
<1>6. Twice(c.params_stack) = {} /\ c.matching_params_list = {}
  BY <1>1, <1>2, <1>3, OnceOuter, WithoutOuterIs
<1>7. \/ status' \in {status, "corrupt"}
      \/ StillLinked(c) # {}
      \/ ~HasRoom(kept[mode.root], branch)
  BY DEF EnterMode, Submit, Triggered
<1>8. StillLinked(c) = {}
  BY <1>6 DEF StillLinked
<1>9. c.curr_param # RootHook
  <2>1. c.curr_param = c.params_stack[Len(c.params_stack)] /\ Len(c.params_stack) \in Nat \ {0}
    BY <1>4, LastIs, Stacks DEF AtWord
  <2>2. SUFFICES ASSUME Len(c.params_stack) = 1 PROVE FALSE
    <3> DEFINE l == Len(c.params_stack)
    <3>1. l \in Nat \ {0}
      BY <2>1
    <3>2. \A i \in 2 .. l : c.params_stack[i] # RootHook
      BY <1>4 DEF Rooted
    <3>3. c.curr_param = c.params_stack[l]
      BY <2>1
    <3> HIDE DEF l, c
    <3>4. l # 1 => l \in 2 .. l
      BY <3>1
    <3> QED
      BY <3>2, <3>3, <3>4 DEF l
  <2>3. ~Nested(cmdtc)
    BY <1>3, <2>2, WithoutOuterIs
  <2>4. Len(cmdtc.params_stack) = 1
    BY <2>2, <2>3
  <2>5. Len(cmdtc.params_stack) = cmdtc.stack_checkpoint + 1
    <3>1. cmdtc.stack_checkpoint \in Nat
          /\ cmdtc.stack_checkpoint + 1 \in 1 .. Len(cmdtc.params_stack)
      BY <1>3, Stacks
    <3> QED
      BY <2>4, <3>1
  <2>6. Done(cmdtc) = <<>>
    BY <1>3, <2>5, DoneOK
  <2>7. PICK w \in Seq(Key) : line = Done(cmdtc) \o w /\ AtHand(cmdtc, w)
    BY <1>3 DEF AssertInv, ShownInv, Shown
  <2>8. Len(w) = 0
    BY <1>1, <1>3, <2>7, Stacks DEF AtHand, Shape
  <2>9. w = <<>>
    BY <2>7, <2>8, EmptySeq
  <2>10. <<>> \o <<>> = <<>>
    OBVIOUS
  <2> QED
    BY <1>1, <2>6, <2>7, <2>9, <2>10
<1> HIDE DEF c, left
<1>10. HookedAt(kept, RootHook, branch)
  <2> HIDE DEF mode, branch
  <2>1. CASE left = RootHook
    <3>1. kept = options /\ HookedAt(options, RootHook, cmdtc.params_stack[2])
      BY <1>3, <1>5, <2>1 DEF Hooked
    <3> QED
      BY <3>1, OtherBranch
  <2>2. CASE left # RootHook
    BY <1>3, <1>5, <2>2, LeaveHooks DEF Hooked, OptionsType
  <2> QED
    BY <2>1, <2>2
<1>11. mode.root = c.curr_param /\ c.curr_param \in Param
  BY <1>4, Stacks DEF CursorType
<1> HIDE DEF mode, branch, kept
<1>12. HasRoom(kept[mode.root], branch)
  <2>1. kept[mode.root] = InitOptions[mode.root]
    BY <1>9, <1>10, <1>11 DEF HookedAt
  <2> QED
    BY <1>11, <2>1, RoomForHooks
<1> QED
  BY <1>3, <1>7, <1>8, <1>12

LEMMA EnterModeAssert ==
  ASSUME RoomForUniversals, AssertInv, NoFilterMode, OnceMode, EnterMode
  PROVE  AssertStep
<1>1. Reading /\ cmdtc.cmdtc_state = "init"
  BY DEF EnterMode
<1>2. /\ Good(cmdtc) /\ AtMode(cmdtc) /\ Rooted(cmdtc) /\ HookInv /\ Sound(cmdtc)
      /\ BehindMode(cmdtc) /\ Asserted(cmdtc) /\ status' # "aborted"
  BY <1>1, AssertBefore, EnterModeGoesOn
<1>3. Twice(cmdtc.params_stack) = {} /\ Idle(cmdtc)
  BY <1>1, <1>2 DEF OnceMode, Idle, Unlisted, Asserted
<1>4. CASE UNCHANGED <<cmdtc, options>>
  BY <1>2, <1>4 DEF AssertStep
<1>5. CASE status' = "corrupt"
  BY <1>5 DEF AssertStep
<1>6. ASSUME NEW c, NEW mode, NEW h,
             c = (IF Nested(cmdtc) THEN WithoutOuter(cmdtc) ELSE cmdtc),
             Good(mode), Kin(c, mode), mode.stack_checkpoint = Top(mode.params_stack),
             mode.matching_params_list = c.matching_params_list,
             mode.leaf_param = c.leaf_param, mode.cmdtc_state = "init",
             Submit(mode, h) \/ cmdtc' = mode
      PROVE  AssertStep
  <2>1. c.matching_params_list = {} /\ c.leaf_param = NoParam
    BY <1>2, <1>3, <1>6, WithoutOuterIs DEF Idle, Unlisted
  <2>2. BranchOnly(mode.params_stack)
    BY <1>2, <1>3, <1>6, OuterBranchOnly DEF Kin
  <2>3. BehindMode(mode) /\ Idle(mode)
    BY <1>6, <2>1, <2>2 DEF BranchOnly, BehindMode, Idle, Unlisted
  <2>4. BehindMode(Reset(mode)) /\ Idle(Reset(mode))
    BY <1>6, <2>3, ResetIdle
  <2> QED
    BY <1>2, <1>6, <2>3, <2>4, IdleStep DEF Submit
<1> QED
  BY <1>2, <1>4, <1>5, <1>6, EnterModeIs

-----------------------------------------------------------------------------
LEMMA AssertInitially ==
  ASSUME OneKeywordBesideLeaf, Init
  PROVE  AssertInv
<1>1. cmdtc = InitCursor /\ status = "running"
  BY DEF Init
<1>2. Idle(cmdtc) /\ cmdtc.params_stack = <<RootHook>>
  BY <1>1 DEF InitCursor, Idle, Unlisted
<1>3. Sound(cmdtc)
  BY <1>2, RootBehind DEF Sound, Asserted, Idle, Unlisted
<1> QED
  BY <1>1, <1>3, FilterInitially, ListInitially, ShownInitially DEF AssertInv

LEMMA AssertInductive ==
  ASSUME OneKeywordBesideLeaf, RoomForUniversals, AssertInv, NoFilterMode, NoFilterMode',
         [Next]_vars, [OnceMode]_vars
  PROVE  AssertInv'
<1>1. FilterInv'
  BY FilterInductive DEF AssertInv
<1>2. [UnlistedMode]_vars
  BY DEF OnceMode, UnlistedMode
<1>3. ListInv' /\ ShownInv'
  BY <1>2, ListInductive, ShownInductive DEF AssertInv
<1>4. CASE Next /\ OnceMode
  <2>1. AssertStep
    BY <1>4, TypeCharAssert, SpaceListsAssert, SpaceCompletesAssert, AutoCompletionSpinsAssert,
       WordAssert, LineAssert, EraseCharAssert, EraseWordAssert, EraseLevelAssert,
       PageUpAssert, CtrlTAssert, EnterModeAssert DEF Next
  <2> QED
    BY <1>1, <1>3, <2>1 DEF AssertInv, AssertStep
<1>5. CASE UNCHANGED vars
  BY <1>1, <1>3, <1>5 DEF vars, AssertInv, Sound, BehindMode, Asserted, Unlisted
<1> QED
  BY <1>4, <1>5

LEMMA AssertInvariance ==
  ASSUME OneKeywordBesideLeaf, RoomForUniversals
  PROVE  Spec /\ []NoFilterMode /\ [][OnceMode]_vars => []AssertInv
BY AssertInitially, AssertInductive, PTL DEF Spec

\* The assertions of the cursor hold after every key: no hook lacks room, no
\* interval comes without its refresh, and each state of the cursor says of
\* curr_param, leaf_param, icursor and the list of matches what the code that
\* handles it asserts.  In the trees whose params leave two slots of options
\* free for the hooks of a mode, and as long as no mode is entered within the
\* filters of a command, with options listed, or with a param twice on the
\* stack: cmd_tree_install_universal_params and cmd_tree_enter_mode assert
\* these, and they can fail.
THEOREM AssertionsHold ==
  ASSUME OneKeywordBesideLeaf, RoomForUniversals
  PROVE  Spec /\ []NoFilterMode /\ [][OnceMode]_vars =>
           [](status # "corrupt" => AssertsHold)
<1>1. ASSUME AssertInv, status # "corrupt" PROVE AssertsHold
  <2> DEFINE m == cmdtc.matching_params_list
             top == Last(cmdtc.params_stack)
             state == cmdtc.cmdtc_state
  <2>1. /\ Inv /\ ModeInv /\ HookInv
    BY <1>1 DEF AssertInv, FilterInv, HookInv, ModeInv
  <2>2. /\ Good(cmdtc) /\ OptionsType /\ Placed(cmdtc) /\ AtMode(cmdtc) /\ AtWord(cmdtc)
        /\ Rooted(cmdtc) /\ Hooked(cmdtc, options)
    BY <1>1, <2>1 DEF HookInv, ModeInv, Inv, TypeOK, OptionsType, Placed
  <2>3. /\ cmdtc \in CursorType /\ Shape(cmdtc) /\ cmdtc.icursor \in Nat
        /\ cmdtc.curr_param \in Param
    BY <2>2, Stacks DEF CursorType
  <2>4. Settled(cmdtc, options) /\ BehindMode(cmdtc) /\ Asserted(cmdtc) /\ status # "aborted"
    BY <1>1 DEF AssertInv, ListInv, Sound
  <2>5. state = "init" <=> cmdtc.icursor = 0
    BY <2>3 DEF Shape
  <2>6. CASE state = "init"
    <3>1. cmdtc.curr_param = top
      BY <2>2, <2>6 DEF AtWord
    <3>2. m = {} => cmdtc.leaf_param = NoParam
      BY <2>4, <2>6 DEF Asserted, Unlisted
    <3> QED
      BY <2>4, <2>5, <2>6, <3>1, <3>2 DEF AssertsHold, NoAbort
  <2>7. CASE state = "multiple_matches"
    <3>1. cmdtc.icursor > 0
      BY <2>3, <2>5, <2>7
    <3>2. Cardinality(m) > 1 /\ cmdtc.curr_param = top
      BY <2>4, <2>7 DEF Asserted
    <3> QED
      BY <2>4, <2>7, <3>1, <3>2 DEF AssertsHold, NoAbort
  <2>8. CASE state = "single_word_match"
    <3>1. cmdtc.icursor > 0
      BY <2>3, <2>5, <2>8
    <3>2. cmdtc.curr_param \in m /\ Alone(m)
      BY <2>3, <2>4, <2>8 DEF Shape, Settled
    <3>3. m = {cmdtc.curr_param}
      BY <3>2 DEF Alone
    <3>4. cmdtc.curr_param \in Upcoming(cmdtc, options)
      BY <2>4, <2>8, <3>2 DEF Settled, Settles
    <3>5. cmdtc.curr_param # top
      BY <2>2, <2>4, <3>4, NotItself
    <3> QED
      BY <2>4, <2>8, <3>1, <3>3, <3>5 DEF AssertsHold, NoAbort
  <2>9. CASE state = "matching_leaf"
    <3>1. cmdtc.icursor > 0
      BY <2>3, <2>5, <2>9
    <3>2. cmdtc.leaf_param = cmdtc.curr_param /\ IsLeaf(cmdtc.curr_param)
      BY <2>3, <2>9, NullAssumption DEF Shape
    <3> QED
      BY <2>4, <2>9, <3>1, <3>2 DEF AssertsHold, NoAbort
  <2> QED
    BY <2>3, <2>6, <2>7, <2>8, <2>9 DEF CursorType
<1> QED
  BY <1>1, AssertInvariance, PTL

-----------------------------------------------------------------------------
(* The command a call is made for.                                         *)

\* No pipe comes in the config branch: libcli_augment_show_cmds and
\* libcli_augment_debug_cmds put it behind show and debug commands.
IsConfigPart(C) ==
  ConfigHook \in C /\ Pipe \notin C /\ \A p \in C : Range(Children[p]) \subseteq C
NoConfigPipe == \E C \in SUBSET Param : IsConfigPart(C)
ConfigPart == CHOOSE C \in SUBSET Param : IsConfigPart(C)

\* A hook is taken at the start of a command only.
HookPlaced ==
  SpaceAccepts \/ ReturnWord =>
    \/ OneWord(cmdtc) \cap Hooks = {}
    \/ Len(cmdtc.params_stack) \in {1, cmdtc.stack_checkpoint + 1}

HooksFirst(c) ==
  \A i \in 2 .. Len(c.params_stack) :
     c.params_stack[i] \in Hooks => i = 2 \/ i = c.stack_checkpoint + 2
ConfigFrom(s, a, b) == s[a] = ConfigHook => \A i \in a .. b : s[i] \in ConfigPart

\* The words of the outer command, and of the nested one if there is one.
Commanded(c) ==
  /\ HooksFirst(c)
  /\ ConfigFrom(c.params_stack, 2,
                IF Nested(c) THEN c.stack_checkpoint + 1 ELSE Len(c.params_stack))
  /\ Nested(c) => ConfigFrom(c.params_stack, c.stack_checkpoint + 2, Len(c.params_stack))

\* What is offered behind the last word.
Offered(c, q) == q \in Hooks \cup Range(Children[Last(c.params_stack)])
CommandOK(c) == Commanded(c) /\ \A q \in Listed(c) : Offered(c, q)

CallInv == FilterInv /\ (status # "corrupt" => CommandOK(cmdtc))
CallStep == status' # "corrupt" => CommandOK(cmdtc')

LEMMA ConfigPartIs ==
  ASSUME NoConfigPipe
  PROVE  IsConfigPart(ConfigPart)
BY DEF NoConfigPipe, ConfigPart

LEMMA HookFacts ==
  /\ Universal \subseteq Hooks /\ ConfigHook \in Hooks /\ RootHook \notin Hooks
  /\ Pipe \notin Hooks /\ RootHook # Pipe /\ RootHook # ConfigHook
  /\ Hooks \subseteq Param
BY NullAssumption, FilterAssumption DEF Universal

LEMMA FollowersOffered ==
  ASSUME NEW c, Good(c), AtWord(c), Hooked(c, options), c.cmdtc_state = "init",
         NEW q \in Followers(c)
  PROVE  Offered(c, q)
<1>1. Last(c.params_stack) \in Param /\ c.curr_param = Last(c.params_stack)
  BY LastIs DEF AtWord
<1>2. q \in Range(Children[Last(c.params_stack)]) \cup Universal
  BY <1>1, HookedOptions DEF Hooked, Followers
<1> QED
  BY <1>2, HookFacts DEF Offered

LEMMA AheadOffered ==
  ASSUME NEW c, Good(c), AtWord(c), Hooked(c, options), CommandOK(c), NEW q \in Ahead(c)
  PROVE  Offered(c, q)
BY AheadIs, FollowersOffered DEF CommandOK

LEMMA NestedIs ==
  ASSUME NEW c, Good(c)
  PROVE  /\ Len(c.params_stack) \in Nat \ {0} /\ c.stack_checkpoint \in Nat
         /\ c.stack_checkpoint + 1 \in 1 .. Len(c.params_stack)
         /\ Nested(c) <=> /\ c.stack_checkpoint > 0
                          /\ c.stack_checkpoint + 2 <= Len(c.params_stack)
                          /\ c.params_stack[c.stack_checkpoint + 2] \in Hooks
<1>1. /\ Len(c.params_stack) \in Nat \ {0} /\ c.stack_checkpoint \in Nat
      /\ c.stack_checkpoint + 1 \in 1 .. Len(c.params_stack)
  BY Stacks
<1>2. Top(c.params_stack) > c.stack_checkpoint <=> c.stack_checkpoint + 2 <= Len(c.params_stack)
  BY <1>1 DEF Top
<1> QED
  BY <1>1, <1>2 DEF Nested

-----------------------------------------------------------------------------
(* A word more, or words less.                                             *)

LEMMA CommandMore ==
  ASSUME NoConfigPipe, NEW c, Good(c), Rooted(c), Commanded(c), NEW p \in Param, Offered(c, p),
         p \in Hooks => Len(c.params_stack) \in {1, c.stack_checkpoint + 1},
         NEW d, d.params_stack = Append(c.params_stack, p),
         d.stack_checkpoint = c.stack_checkpoint, Listed(d) = {}
  PROVE  CommandOK(d)
<1> DEFINE s == c.params_stack
           u == d.params_stack
           m == c.stack_checkpoint
           l == Len(s)
<1>1. /\ s \in Seq(Param) /\ l \in Nat \ {0} /\ m \in Nat /\ m + 1 \in 1 .. l
      /\ Nested(c) <=> m > 0 /\ m + 2 <= l /\ s[m + 2] \in Hooks
  BY NestedIs, Stacks
<1>2. Len(u) = l + 1 /\ u[l + 1] = p /\ \A i \in 1 .. l : u[i] = s[i]
  <2>1. Len(Append(s, p)) = l + 1 /\ Append(s, p)[l + 1] = p
        /\ \A i \in 1 .. l : Append(s, p)[i] = s[i]
    <3> HIDE DEF s
    <3> QED
      BY <1>1, AppendProperties
  <2> QED
    BY <2>1
<1>3. Nested(d) <=> m > 0 /\ m + 2 <= l + 1 /\ u[m + 2] \in Hooks
  <2>1. Top(u) > m <=> m + 2 <= l + 1
    <3> HIDE DEF u, l, m
    <3> QED
      BY <1>1, <1>2 DEF Top
  <2> QED
    BY <2>1 DEF Nested
<1>4. p \in Hooks \/ p \in Range(Children[s[l]])
  BY LastIs DEF Offered
<1>5. p \in Hooks => l = 1 \/ l = m + 1
  OBVIOUS
<1>6. /\ \A i \in 2 .. l : s[i] \in Hooks => i = 2 \/ i = m + 2
      /\ ConfigFrom(s, 2, IF Nested(c) THEN m + 1 ELSE l)
      /\ Nested(c) => ConfigFrom(s, m + 2, l)
  BY DEF Commanded, HooksFirst
<1>7. ConfigHook \in ConfigPart /\ \A q \in ConfigPart : Range(Children[q]) \subseteq ConfigPart
  BY ConfigPartIs DEF IsConfigPart
<1> HIDE DEF s, u, m, l
<1>8. l \in 1 .. l
  BY <1>1
<1>9. \A i \in 2 .. l + 1 : u[i] \in Hooks => i = 2 \/ i = m + 2
  <2>1. ASSUME NEW i \in 2 .. l + 1, u[i] \in Hooks PROVE i = 2 \/ i = m + 2
    <3>1. CASE i \in 1 .. l
      <4>1. i \in 2 .. l
        BY <3>1
      <4> QED
        BY <1>2, <1>6, <2>1, <3>1, <4>1
    <3>2. CASE i = l + 1
      BY <1>1, <1>2, <1>5, <2>1, <3>2
    <3> QED
      BY <1>1, <3>1, <3>2
  <2> QED
    BY <2>1
<1>10. HooksFirst(d)
  BY <1>2, <1>9 DEF HooksFirst, u, m
\* One word more of the same part.
<1>11. ASSUME NEW a \in 2 .. l, ConfigFrom(s, a, l), p \in Range(Children[s[l]])
       PROVE  ConfigFrom(u, a, l + 1)
  <2>1. SUFFICES ASSUME u[a] = ConfigHook, NEW i \in a .. l + 1 PROVE u[i] \in ConfigPart
    BY DEF ConfigFrom
  <2>2. a \in 1 .. l /\ l \in a .. l /\ (i \in a .. l \/ i = l + 1) /\ \A j \in a .. l : j \in 1 .. l
    BY <1>1
  <2>3. \A j \in a .. l : s[j] \in ConfigPart
    BY <1>2, <1>11, <2>1, <2>2 DEF ConfigFrom
  <2>4. p \in ConfigPart
    BY <1>7, <1>11, <2>2, <2>3
  <2> QED
    BY <1>2, <2>2, <2>3, <2>4
\* The first word of a part.
<1>12. ConfigFrom(u, l + 1, l + 1)
  <2>1. \A i \in l + 1 .. l + 1 : i = l + 1
    BY <1>1
  <2> QED
    BY <1>7, <2>1 DEF ConfigFrom
<1>13. ASSUME NEW b \in 1 .. l, ConfigFrom(s, 2, b), 2 <= b \/ l = b
       PROVE  ConfigFrom(u, 2, b) \/ l = 1
  <2>1. CASE 2 <= b
    <3>1. 2 \in 1 .. l /\ \A i \in 2 .. b : i \in 1 .. l
      BY <1>1, <2>1
    <3> QED
      BY <1>2, <1>13, <3>1 DEF ConfigFrom
  <2>2. CASE ~(2 <= b)
    BY <1>1, <1>13, <2>2
  <2> QED
    BY <2>1, <2>2
<1>14. CASE Nested(c)
  <2>1. m > 0 /\ m + 2 <= l /\ s[m + 2] \in Hooks /\ m + 2 \in 1 .. l /\ m + 2 \in 2 .. l
        /\ m + 1 \in 1 .. l /\ 2 <= m + 1 /\ l # 1 /\ l # m + 1 /\ m + 2 <= l + 1
    BY <1>1, <1>14
  <2>2. p \notin Hooks /\ p \in Range(Children[s[l]])
    BY <1>4, <1>5, <2>1
  <2>3. Nested(d)
    BY <1>2, <1>3, <2>1
  <2>4. ConfigFrom(u, m + 2, l + 1)
    BY <1>6, <1>11, <1>14, <2>1, <2>2
  <2>5. ConfigFrom(u, 2, m + 1)
    BY <1>6, <1>13, <1>14, <2>1
  <2> QED
    BY <1>2, <1>10, <2>3, <2>4, <2>5 DEF CommandOK, Commanded, u, m
<1>15. CASE ~Nested(c) /\ l = 1
  <2>1. m = 0 /\ l + 1 = 2
    BY <1>1, <1>15
  <2>2. ~Nested(d)
    BY <1>3, <2>1
  <2>3. ConfigFrom(u, 2, l + 1)
    BY <1>12, <2>1
  <2> QED
    BY <1>2, <1>10, <2>2, <2>3 DEF CommandOK, Commanded, u
<1>16. CASE ~Nested(c) /\ l # 1 /\ p \in Hooks
  <2>1. l = m + 1 /\ m > 0 /\ m + 2 = l + 1 /\ 2 <= l /\ l \in 1 .. l
    BY <1>1, <1>5, <1>16
  <2>2. Nested(d)
    BY <1>2, <1>3, <1>16, <2>1
  <2>3. ConfigFrom(u, 2, m + 1)
    BY <1>6, <1>13, <1>16, <2>1
  <2>4. ConfigFrom(u, m + 2, l + 1)
    BY <1>12, <2>1
  <2> QED
    BY <1>2, <1>10, <2>2, <2>3, <2>4 DEF CommandOK, Commanded, u, m
<1>17. CASE ~Nested(c) /\ l # 1 /\ p \notin Hooks
  <2>1. 2 \in 2 .. l
    BY <1>1, <1>17
  <2>2. ~Nested(d)
    <3>1. SUFFICES ASSUME m > 0, m + 2 <= l + 1, u[m + 2] \in Hooks PROVE FALSE
      BY <1>3
    <3>2. m + 2 # l + 1
      BY <1>2, <1>17, <3>1
    <3>3. m + 2 <= l /\ m + 2 \in 1 .. l
      BY <1>1, <3>1, <3>2
    <3> QED
      BY <1>1, <1>2, <1>17, <3>1, <3>3
  <2>3. ConfigFrom(u, 2, l + 1)
    BY <1>4, <1>6, <1>11, <1>17, <2>1
  <2> QED
    BY <1>2, <1>10, <2>2, <2>3 DEF CommandOK, Commanded, u
<1> QED
  BY <1>14, <1>15, <1>16, <1>17

\* The words up to the k-th, of the same mode or of the mode above.
LEMMA CommandLess ==
  ASSUME NEW c, Good(c), Commanded(c), NEW k \in 1 .. Len(c.params_stack),
         NEW d, d.params_stack = SubSeq(c.params_stack, 1, k), Listed(d) = {},
         \/ d.stack_checkpoint = c.stack_checkpoint /\ k >= c.stack_checkpoint + 1
         \/ d.stack_checkpoint = k - 1 /\ k <= c.stack_checkpoint + 1
  PROVE  CommandOK(d)
<1> DEFINE s == c.params_stack
           u == d.params_stack
           m == c.stack_checkpoint
           n == d.stack_checkpoint
           l == Len(s)
<1>1. /\ s \in Seq(Param) /\ l \in Nat \ {0} /\ m \in Nat /\ m + 1 \in 1 .. l
      /\ Nested(c) <=> m > 0 /\ m + 2 <= l /\ s[m + 2] \in Hooks
  BY NestedIs, Stacks
<1>2. Len(u) = k /\ \A i \in 1 .. k : u[i] = s[i]
  <2>1. Len(SubSeq(s, 1, k)) = k /\ \A i \in 1 .. k : SubSeq(s, 1, k)[i] = s[i]
    <3> HIDE DEF s
    <3> QED
      BY <1>1, SubSeqIs
  <2> QED
    BY <2>1
<1>3. Nested(d) <=> n > 0 /\ n + 2 <= k /\ u[n + 2] \in Hooks
  <2>1. n \in Int /\ k \in Nat
    BY <1>1
  <2>2. Top(u) > n <=> n + 2 <= k
    <3> HIDE DEF u, n
    <3> QED
      BY <1>2, <2>1 DEF Top
  <2> QED
    BY <2>2 DEF Nested
<1>4. (n = m /\ k >= m + 1) \/ (n = k - 1 /\ k <= m + 1)
  OBVIOUS
<1>5. /\ \A i \in 2 .. l : s[i] \in Hooks => i = 2 \/ i = m + 2
      /\ ConfigFrom(s, 2, IF Nested(c) THEN m + 1 ELSE l)
      /\ Nested(c) => ConfigFrom(s, m + 2, l)
  BY DEF Commanded, HooksFirst
<1> HIDE DEF s, u, m, n, l
<1>6. k \in 1 .. l /\ n \in Int /\ l \in Nat
  <2>1. k \in 1 .. l
    BY DEF l, s
  <2> QED
    BY <1>1, <1>4, <2>1
<1>7. ASSUME NEW a \in 1 .. l, NEW b \in 0 .. l, NEW e \in 0 .. k, ConfigFrom(s, a, b), e <= b, a <= k
      PROVE  ConfigFrom(u, a, e)
  <2>1. a \in 1 .. k /\ \A i \in a .. e : i \in 1 .. k /\ i \in a .. b
    BY <1>6, <1>7
  <2> QED
    BY <1>2, <1>7, <2>1 DEF ConfigFrom
<1>8. ASSUME NEW b \in 0 .. l, NEW e \in 0 .. k, ConfigFrom(s, 2, b), e <= b
      PROVE  ConfigFrom(u, 2, e)
  <2>1. CASE 2 <= e
    <3>1. 2 \in 1 .. l /\ 2 <= k
      BY <1>6, <2>1
    <3> QED
      BY <1>7, <1>8, <3>1
  <2>2. CASE ~(2 <= e)
    <3>1. 2 .. e = {}
      BY <2>2
    <3> QED
      BY <3>1 DEF ConfigFrom
  <2> QED
    BY <2>1, <2>2
<1>9. \A i \in 2 .. k : u[i] \in Hooks => i = 2 \/ i = n + 2
  <2>1. ASSUME NEW i \in 2 .. k, u[i] \in Hooks PROVE i = 2 \/ i = n + 2
    <3>1. i \in 2 .. l /\ i \in 1 .. k
      BY <1>6
    <3>2. i = 2 \/ i = m + 2
      BY <1>2, <1>5, <2>1, <3>1
    <3> QED
      BY <1>1, <1>4, <1>6, <3>1, <3>2
  <2> QED
    BY <2>1
<1>10. HooksFirst(d)
  BY <1>2, <1>9 DEF HooksFirst, u, n
<1>11. CASE Nested(d)
  <2>1. n > 0 /\ n + 2 <= k /\ u[n + 2] \in Hooks /\ n = m /\ n + 2 \in 1 .. k
        /\ m + 2 <= l /\ m + 2 \in 1 .. l /\ m + 1 \in 0 .. k /\ m + 1 \in 0 .. l
        /\ l \in 0 .. l /\ k \in 0 .. k /\ k <= l
    BY <1>1, <1>3, <1>4, <1>6, <1>11
  <2>2. Nested(c)
    BY <1>1, <1>2, <2>1
  <2>3. ConfigFrom(u, 2, n + 1)
    BY <1>5, <1>8, <2>1, <2>2
  <2>4. ConfigFrom(u, n + 2, k)
    BY <1>5, <1>7, <2>1, <2>2
  <2> QED
    BY <1>2, <1>10, <1>11, <2>3, <2>4 DEF CommandOK, Commanded, u, n
<1>12. CASE ~Nested(d)
  <2>1. ConfigFrom(u, 2, k)
    <3>1. CASE Nested(c)
      <4>1. k <= m + 1
        <5>1. SUFFICES ASSUME k > m + 1 PROVE FALSE
          BY <1>1, <1>6
        <5>2. n = m /\ m > 0 /\ m + 2 <= k /\ s[m + 2] \in Hooks /\ m + 2 \in 1 .. k
          BY <1>1, <1>4, <1>6, <3>1, <5>1
        <5> QED
          BY <1>2, <1>3, <1>12, <5>2
      <4>2. m + 1 \in 0 .. l /\ k \in 0 .. k
        BY <1>1, <1>6
      <4> QED
        BY <1>5, <1>8, <3>1, <4>1, <4>2
    <3>2. CASE ~Nested(c)
      <4>1. l \in 0 .. l /\ k \in 0 .. k /\ k <= l
        BY <1>1, <1>6
      <4> QED
        BY <1>5, <1>8, <3>2, <4>1
    <3> QED
      BY <3>1, <3>2
  <2> QED
    BY <1>2, <1>10, <1>12, <2>1 DEF CommandOK, Commanded, u
<1> QED
  BY <1>11, <1>12

-----------------------------------------------------------------------------
(* Every key keeps the command in its branch.                              *)

LEMMA CallBefore ==
  ASSUME CallInv, NoFilterMode, Reading
  PROVE  /\ Good(cmdtc) /\ AtMode(cmdtc) /\ AtWord(cmdtc) /\ Hooked(cmdtc, options)
         /\ cmdtc \in CursorType /\ Rooted(cmdtc) /\ FilterOK(cmdtc) /\ Marked(cmdtc)
         /\ Unfiltered(cmdtc) /\ HookInv /\ CommandOK(cmdtc) /\ Commanded(cmdtc)
         /\ FilterInv /\ status = "running"
BY FilterBefore DEF CallInv, CommandOK

LEMMA TypingCall ==
  ASSUME CallInv, NoFilterMode,
         \/ \E k \in Key : TypeChar(k)
         \/ SpaceLists \/ SpaceCompletes \/ AutoCompletionSpins \/ EraseChar \/ EraseWord
  PROVE  CallStep
<1>1. Reading /\ Beside(cmdtc, cmdtc') /\ Listed(cmdtc') \subseteq Ahead(cmdtc)
  BY Typing DEF CallInv, FilterInv, WithinWord
<1>2. cmdtc'.params_stack = cmdtc.params_stack /\ cmdtc'.stack_checkpoint = cmdtc.stack_checkpoint
  BY <1>1 DEF Beside, Kin
<1>3. \A q \in Ahead(cmdtc) : Offered(cmdtc, q)
  BY <1>1, CallBefore, AheadOffered
<1>4. \A q : Offered(cmdtc, q) => Offered(cmdtc', q)
  BY <1>2 DEF Offered
<1>5. Commanded(cmdtc')
  BY <1>1, <1>2, CallBefore DEF Commanded, HooksFirst, Nested
<1> QED
  BY <1>1, <1>3, <1>4, <1>5 DEF CommandOK, CallStep

LEMMA PushedCall ==
  ASSUME NoConfigPipe, CallInv, NoFilterMode, HookPlaced, SpaceAccepts \/ ReturnWord,
         NEW p \in OneWord(cmdtc)
  PROVE  LET d == Pushed(cmdtc, p) IN
         Good(d) /\ Rooted(d) /\ FilterOK(d) /\ Unfiltered(d) /\ CommandOK(d)
<1> DEFINE d == Pushed(cmdtc, p)
<1>1. Reading
  BY DEF SpaceAccepts, ReturnWord
<1>2. /\ p \in Param /\ (cmdtc.is_negate => ~IsNo(p)) /\ p # RootHook /\ FilterOK(d)
  BY <1>1, CallBefore, PushFollows
<1>3. Good(d) /\ Rooted(d) /\ d.stack_checkpoint = cmdtc.stack_checkpoint
  BY <1>1, <1>2, CallBefore, PushedOK, PushedHooks
<1>4. d.params_stack = Append(cmdtc.params_stack, p) /\ Listed(d) = {}
  BY <1>1, <1>2, CallBefore, PushedFlags DEF Listed
<1>5. Offered(cmdtc, p)
  BY <1>1, CallBefore, AheadOffered DEF Ahead
<1>6. p \in Hooks => Len(cmdtc.params_stack) \in {1, cmdtc.stack_checkpoint + 1}
  BY DEF HookPlaced
<1> HIDE DEF d
<1>7. CommandOK(d)
  BY <1>1, <1>2, <1>3, <1>4, <1>5, <1>6, CallBefore, CommandMore
<1>8. Unfiltered(d)
  <2> DEFINE m == cmdtc.stack_checkpoint
             s == cmdtc.params_stack
             l == Len(s)
  <2>1. /\ s \in Seq(Param) /\ l \in Nat /\ m \in Nat /\ m + 1 \in 1 .. l
        /\ \A i \in 1 .. m + 1 : s[i] # Pipe
    BY <1>1, CallBefore, Stacks DEF Unfiltered
  <2>2. \A i \in 1 .. l : Append(s, p)[i] = s[i]
    <3> HIDE DEF s
    <3> QED
      BY <1>2, <2>1, AppendProperties
  <2>3. \A i \in 1 .. m + 1 : i \in 1 .. l
    <3> HIDE DEF m, l
    <3> QED
      BY <2>1
  <2> QED
    BY <1>3, <1>4, <2>1, <2>2, <2>3 DEF Unfiltered
<1> QED
  BY <1>2, <1>3, <1>7, <1>8 DEF d

LEMMA ResetCall ==
  ASSUME NEW c, Good(c), Commanded(c)
  PROVE  CommandOK(Reset(c))
<1> DEFINE d == Reset(c)
           k == c.stack_checkpoint + 1
<1>1. /\ d.params_stack = SubSeq(c.params_stack, 1, k) /\ Listed(d) = {}
      /\ d.stack_checkpoint = c.stack_checkpoint
  BY ResetIs DEF Listed
<1>2. k \in 1 .. Len(c.params_stack) /\ k >= c.stack_checkpoint + 1
  BY NestedIs
<1> HIDE DEF d, k
<1> QED
  BY <1>1, <1>2, CommandLess DEF d

LEMMA AcceptedCall ==
  ASSUME NoConfigPipe, CallInv, NoFilterMode, HookPlaced, SpaceAccepts \/ ReturnWord
  PROVE  CallStep
<1>1. PICK p \in OneWord(cmdtc) : cmdtc' = Pushed(cmdtc, p) \/ cmdtc' = Reset(Pushed(cmdtc, p))
  BY DEF SpaceAccepts, ReturnWord, Submit
<1>2. Good(Pushed(cmdtc, p)) /\ CommandOK(Pushed(cmdtc, p))
  BY PushedCall
<1>3. CommandOK(Reset(Pushed(cmdtc, p)))
  BY <1>2, ResetCall DEF CommandOK
<1> QED
  BY <1>1, <1>2, <1>3 DEF CallStep

LEMMA ReturnCall ==
  ASSUME CallInv, NoFilterMode, ReturnCommand \/ RunMode \/ ReturnReject
  PROVE  CallStep
<1>1. Reading /\ cmdtc' = Reset(cmdtc)
  BY DEF ReturnCommand, RunMode, ReturnReject, Submit
<1> QED
  BY <1>1, CallBefore, ResetCall DEF CallStep

LEMMA LevelUpCall ==
  ASSUME CallInv, NoFilterMode, Reading, cmdtc.cmdtc_state = "init",
         Top(cmdtc.params_stack) > 0, NEW d, d.params_stack = LevelUp(cmdtc).params_stack,
         d.stack_checkpoint = LevelUp(cmdtc).stack_checkpoint,
         Listed(d) = Listed(LevelUp(cmdtc))
  PROVE  CommandOK(d)
<1> DEFINE l == Len(cmdtc.params_stack)
           m == cmdtc.stack_checkpoint
           k == l - 1
<1>1. /\ l \in Nat \ {0} /\ m \in Nat /\ m + 1 \in 1 .. l /\ Top(cmdtc.params_stack) = k
  BY CallBefore, NestedIs DEF Top
<1> HIDE DEF l, m
<1>2. l > 1 /\ k \in 1 .. l /\ (m # k => k >= m + 1) /\ (m = k => m - 1 = k - 1 /\ k <= m + 1)
  BY <1>1
<1>3. /\ d.params_stack = SubSeq(cmdtc.params_stack, 1, k)
      /\ d.stack_checkpoint = MarkAfterPop(cmdtc)
  BY <1>2, CallBefore, LevelUpIs DEF l
<1>4. Listed(d) = {}
  BY <1>2, CallBefore, LevelUpPops DEF l, Popped, Listed
<1>5. MarkAfterPop(cmdtc) = IF m = k THEN m - 1 ELSE m
  BY <1>1 DEF MarkAfterPop, m
<1> HIDE DEF k
<1> QED
  BY <1>2, <1>3, <1>4, <1>5, CallBefore, CommandLess DEF l, m

LEMMA EraseLevelCall ==
  ASSUME CallInv, NoFilterMode, EraseLevel
  PROVE  CallStep
<1>1. /\ Reading /\ cmdtc.cmdtc_state = "init" /\ cmdtc' = LevelUp(cmdtc)
      /\ Top(cmdtc.params_stack) # cmdtc.stack_checkpoint
  BY DEF EraseLevel
<1>2. Top(cmdtc.params_stack) > 0
  <2>1. /\ Len(cmdtc.params_stack) \in Nat /\ cmdtc.stack_checkpoint \in Nat
        /\ cmdtc.stack_checkpoint + 1 \in 1 .. Len(cmdtc.params_stack)
    BY <1>1, CallBefore, Stacks
  <2> QED
    BY <1>1, <2>1 DEF Top
<1> QED
  BY <1>1, <1>2, LevelUpCall DEF CallStep

LEMMA PageUpCall ==
  ASSUME CallInv, NoFilterMode, PageUp
  PROVE  CallStep
<1> DEFINE c == LevelUp(cmdtc)
           mode == [c EXCEPT !.root = c.curr_param]
<1>1. /\ Reading /\ line = <<>> /\ Top(cmdtc.params_stack) > 0
      /\ cmdtc' = mode \/ UNCHANGED <<cmdtc, options>>
  BY DEF PageUp
<1>2. cmdtc.cmdtc_state = "init" /\ Good(cmdtc)
  BY <1>1, CallBefore, EmptyIsInit DEF HookInv
<1>3. c \in CursorType
  <2>1. Len(cmdtc.params_stack) > 1
    BY <1>1, <1>2, Stacks DEF Top
  <2> QED
    BY <1>2, <2>1, LevelUpOK, Stacks
<1> HIDE DEF c
<1>4. mode.params_stack = c.params_stack /\ mode.stack_checkpoint = c.stack_checkpoint
      /\ Listed(mode) = Listed(c)
  BY <1>3 DEF CursorType, Listed
<1> HIDE DEF mode
<1>5. CommandOK(mode)
  BY <1>1, <1>2, <1>4, LevelUpCall DEF c
<1> QED
  BY <1>1, <1>5, CallBefore DEF CallStep

LEMMA OnlyRootCall ==
  ASSUME NEW d, d.params_stack = <<RootHook>>, d.stack_checkpoint = 0, Listed(d) = {}
  PROVE  CommandOK(d)
<1> DEFINE s == <<RootHook>>
<1>1. Len(s) = 1
  OBVIOUS
<1> HIDE DEF s
<1>2. 2 .. Len(s) = {}
  BY <1>1
<1>3. ~Nested(d)
  BY DEF Nested
<1> QED
  BY <1>2, <1>3 DEF CommandOK, Commanded, HooksFirst, ConfigFrom, s

LEMMA CtrlTCall ==
  ASSUME CtrlT
  PROVE  CallStep
<1> DEFINE b == cmdtc.refresh_disabled /\ RefreshValHook \notin Range(cmdtc.params_stack)
<1>1. cmdtc' = [InitCursor EXCEPT !.refresh_disabled = b]
  BY DEF CtrlT
<1> HIDE DEF b
<1>2. /\ cmdtc'.params_stack = <<RootHook>> /\ cmdtc'.stack_checkpoint = 0
      /\ cmdtc'.matching_params_list = {} /\ cmdtc'.leaf_param = NoParam
  BY <1>1 DEF InitCursor
<1> QED
  BY <1>2, OnlyRootCall DEF CallStep, Listed

\* The command a mode is entered with is the whole of its stack.
LEMMA EnteredCall ==
  ASSUME NEW c, Good(c), Rooted(c), CommandOK(c),
         NEW e, e = (IF Nested(c) THEN WithoutOuter(c) ELSE c), Good(e),
         NEW d, d.params_stack = e.params_stack, d.stack_checkpoint = Top(d.params_stack),
         Listed(d) = Listed(e)
  PROVE  CommandOK(d)
<1> DEFINE s == c.params_stack
           u == d.params_stack
           m == c.stack_checkpoint
           l == Len(s)
           n == Len(u)
<1>1. /\ l \in Nat \ {0} /\ m \in Nat /\ m + 1 \in 1 .. l /\ n \in Nat \ {0}
      /\ Nested(c) <=> m > 0 /\ m + 2 <= l /\ s[m + 2] \in Hooks
  BY NestedIs
<1>2. ~Nested(d)
  <2>1. n \in Int
    BY <1>1
  <2> HIDE DEF u
  <2>2. ~(Top(u) > Top(u))
    BY <2>1 DEF Top
  <2> QED
    BY <2>2 DEF Nested, u
<1>3. /\ \A i \in 2 .. l : s[i] \in Hooks => i = 2 \/ i = m + 2
      /\ ConfigFrom(s, 2, IF Nested(c) THEN m + 1 ELSE l)
      /\ Nested(c) => ConfigFrom(s, m + 2, l)
      /\ \A q \in Listed(c) : Offered(c, q)
  BY DEF CommandOK, Commanded, HooksFirst
<1>4. Last(s) = s[l] /\ Last(u) = u[n]
  BY LastIs
<1>5. SUFFICES /\ \A i \in 2 .. n : u[i] \in Hooks => i = 2
               /\ ConfigFrom(u, 2, n)
               /\ u[n] = s[l] /\ Listed(d) = Listed(c)
  <2>1. \A q : Offered(c, q) => Offered(d, q)
    BY <1>4, <1>5 DEF Offered
  <2> QED
    BY <1>2, <1>3, <1>5, <2>1 DEF CommandOK, Commanded, HooksFirst
<1>6. CASE ~Nested(c)
  <2>1. u = s /\ n = l /\ Listed(d) = Listed(c)
    BY <1>6
  <2> HIDE DEF s, u, l, m, n
  <2>2. \A i \in 2 .. l : s[i] \in Hooks => i = 2
    <3>1. SUFFICES ASSUME NEW i \in 2 .. l, s[i] \in Hooks, i = m + 2, m > 0 PROVE FALSE
      BY <1>1, <1>3
    <3>2. m + 2 <= l
      BY <1>1, <3>1
    <3> QED
      BY <1>1, <1>6, <3>1, <3>2
  <2> QED
    BY <1>3, <1>6, <2>1, <2>2
<1>7. CASE Nested(c)
  <2>1. /\ m \in Nat \ {0} /\ m + 1 < l /\ n = l - m /\ \A i \in 2 .. l - m : u[i] = s[i + m]
        /\ Listed(d) = Listed(c)
    BY <1>7, WithoutOuterIs DEF Listed
  <2> HIDE DEF s, u, l, m, n
  <2>2. 2 \in 2 .. n /\ n \in 2 .. n /\ 2 + m = m + 2 /\ n + m = l
        /\ \A i \in 2 .. n : i + m \in 2 .. l /\ i + m \in m + 2 .. l /\ i \in 2 .. l - m
    BY <1>1, <2>1
  <2>3. u[2] = s[m + 2] /\ u[n] = s[l]
    BY <1>1, <1>7, <2>1, <2>2
  <2>4. ASSUME NEW i \in 2 .. n, u[i] \in Hooks PROVE i = 2
    <3>1. i + m = 2 \/ i + m = m + 2
      BY <1>3, <2>1, <2>2, <2>4
    <3> QED
      BY <1>1, <2>1, <3>1
  <2>5. ConfigFrom(u, 2, n)
    BY <1>3, <1>7, <2>1, <2>2, <2>3 DEF ConfigFrom
  <2> QED
    BY <2>1, <2>3, <2>4, <2>5
<1> QED
  BY <1>6, <1>7

LEMMA EnterModeCall ==
  ASSUME CallInv, NoFilterMode, EnterMode
  PROVE  CallStep
<1>1. /\ Good(cmdtc) /\ Rooted(cmdtc) /\ CommandOK(cmdtc) /\ HookInv
  BY CallBefore DEF EnterMode
<1>2. CASE UNCHANGED <<cmdtc, options>>
  BY <1>1, <1>2 DEF CallStep
<1>3. CASE status' = "corrupt"
  BY <1>3 DEF CallStep
<1>4. ASSUME NEW c, NEW mode, NEW h,
             c = (IF Nested(cmdtc) THEN WithoutOuter(cmdtc) ELSE cmdtc),
             Good(c), Good(mode), Kin(c, mode),
             mode.stack_checkpoint = Top(mode.params_stack),
             mode.matching_params_list = c.matching_params_list, mode.leaf_param = c.leaf_param,
             Submit(mode, h) \/ cmdtc' = mode
      PROVE  CallStep
  <2>1. CommandOK(mode)
    BY <1>1, <1>4, EnteredCall DEF Kin, Listed
  <2>2. CommandOK(Reset(mode))
    BY <1>4, <2>1, ResetCall DEF CommandOK
  <2> QED
    BY <1>4, <2>1, <2>2 DEF CallStep, Submit
<1> QED
  BY <1>1, <1>2, <1>3, <1>4, EnterModeIs

LEMMA CallInitially ==
  ASSUME Init
  PROVE  CallInv
<1>1. cmdtc = InitCursor
  BY DEF Init
<1>2. /\ cmdtc.params_stack = <<RootHook>> /\ cmdtc.stack_checkpoint = 0
      /\ cmdtc.matching_params_list = {} /\ cmdtc.leaf_param = NoParam
  BY <1>1 DEF InitCursor
<1> QED
  BY <1>2, FilterInitially, OnlyRootCall DEF CallInv, Listed

LEMMA CallInductive ==
  ASSUME NoConfigPipe, CallInv, NoFilterMode, NoFilterMode', [Next]_vars, [HookPlaced]_vars
  PROVE  CallInv'
<1>1. FilterInv'
  BY FilterInductive DEF CallInv
<1>2. CASE Next /\ HookPlaced
  <2>1. CallStep
    BY <1>2, TypingCall, AcceptedCall, ReturnCall, EraseLevelCall, PageUpCall, CtrlTCall,
       EnterModeCall DEF Next
  <2> QED
    BY <1>1, <2>1 DEF CallInv, CallStep
<1>3. CASE UNCHANGED vars
  BY <1>1, <1>3 DEF vars, CallInv
<1> QED
  BY <1>2, <1>3

LEMMA CallInvariance ==
  ASSUME NoConfigPipe
  PROVE  Spec /\ []NoFilterMode /\ [][HookPlaced]_vars => []CallInv
<1>1. Init => CallInv
  BY CallInitially
<1>2. CallInv /\ NoFilterMode /\ NoFilterMode' /\ [Next]_vars /\ [HookPlaced]_vars => CallInv'
  BY CallInductive
<1> QED
  BY <1>1, <1>2, PTL DEF Spec

-----------------------------------------------------------------------------
(* The cursor a command runs with.                                         *)

\* What is asked of the cursor that is submitted.
Submittable(c) ==
  Good(c) /\ Rooted(c) /\ Marked(c) /\ Unfiltered(c) /\ Commanded(c)

\* The nested command behind the root.
LEMMA ExecutedWords ==
  ASSUME NEW c, Good(c), Nested(c),
         NEW x, x = Executing(c)
  PROVE  LET l == Len(c.params_stack)
             m == c.stack_checkpoint
         IN
         /\ l \in Nat /\ m \in Nat \ {0} /\ m + 2 <= l /\ c.params_stack[m + 2] \in Hooks
         /\ x.params_stack \in Seq(Param) /\ x.tlv_stack \in Seq(TlvType)
         /\ Len(x.params_stack) = l - m /\ Len(x.tlv_stack) = l - m
         /\ x.params_stack[1] = RootHook
         /\ \A i \in 2 .. l - m : /\ x.params_stack[i] = c.params_stack[i + m]
                                  /\ x.tlv_stack[i] = c.tlv_stack[i + m]
         /\ x.filter_checkpoint = IF c.filter_checkpoint > -1
                                  THEN c.filter_checkpoint - m ELSE -1
<1> DEFINE t == c.tlv_stack
           p == c.params_stack
           l == Len(p)
           m == c.stack_checkpoint
           a == m + 2
           e == <<RootHook>>
           r == <<Tlv(RootHook, <<>>)>>
           s == SubSeq(p, a, Len(p))
           u == SubSeq(t, a, Len(t))
           n == l - m - 1
<1>0. l \in Nat /\ m \in Nat \ {0} /\ m + 2 <= l
  BY Stacks, NestedIs
<1>1. /\ t \in Seq(TlvType) /\ p \in Seq(Param) /\ Len(p) = l /\ Len(t) = l
      /\ p[m + 2] \in Hooks
  BY Stacks, NestedIs
<1>2. /\ x.params_stack = e \o s /\ x.tlv_stack = r \o u
      /\ x.filter_checkpoint = IF c.filter_checkpoint > -1 THEN c.filter_checkpoint - m ELSE -1
  BY DEF Executing, InitCursor
<1>3. /\ r \in Seq(TlvType) /\ e \in Seq(Param) /\ Len(r) = 1 /\ Len(e) = 1 /\ e[1] = RootHook
  BY InitCursorOK, TreeFacts DEF InitCursor, Tlv
<1> HIDE DEF t, p, e, r, s, u, l, m
<1>4. /\ n \in Nat /\ a \in Nat \ {0} /\ n = IF a <= l THEN l - a + 1 ELSE 0
      /\ 1 + n = l - m
  BY <1>0
<1>5. s \in Seq(Param) /\ Len(s) = n /\ \A i \in 1 .. n : s[i] = p[a + i - 1]
  <2> HIDE DEF n, a
  <2> QED
    BY <1>0, <1>1, <1>4, FromOn DEF s, u
<1>6. u \in Seq(TlvType) /\ Len(u) = n /\ \A i \in 1 .. n : u[i] = t[a + i - 1]
  <2> HIDE DEF n, a
  <2> QED
    BY <1>0, <1>1, <1>4, FromOn DEF s, u
<1>7. /\ e \o s \in Seq(Param) /\ Len(e \o s) = 1 + n /\ (e \o s)[1] = e[1]
      /\ \A i \in 2 .. 1 + n : (e \o s)[i] = s[i - 1]
  <2> HIDE DEF n
  <2> QED
    BY <1>3, <1>4, <1>5, InFront
<1>8. /\ r \o u \in Seq(TlvType) /\ Len(r \o u) = 1 + n
      /\ \A i \in 2 .. 1 + n : (r \o u)[i] = u[i - 1]
  <2> HIDE DEF n
  <2> QED
    BY <1>3, <1>4, <1>6, InFront
<1>9. ASSUME NEW i \in 2 .. l - m PROVE (e \o s)[i] = p[i + m] /\ (r \o u)[i] = t[i + m]
  <2>1. i \in 2 .. 1 + n /\ i - 1 \in 1 .. n /\ a + (i - 1) - 1 = i + m
    BY <1>0
  <2> HIDE DEF n, a
  <2> QED
    BY <1>5, <1>6, <1>7, <1>8, <2>1
<1> HIDE DEF n, a
<1> QED
  BY <1>0, <1>1, <1>2, <1>3, <1>4, <1>7, <1>8, <1>9 DEF p, t, l, m

\* It is cut at its first pipe, and a config command has none.
LEMMA ExecutedSplit ==
  ASSUME NoConfigPipe, NEW c, Submittable(c), NEW x, x = Executing(c)
  PROVE  /\ x.params_stack \in Seq(Param) /\ Len(x.params_stack) \in Nat \ {0}
         /\ x.filter_checkpoint \in (Nat \ {0}) \cup {-1}
         /\ IsFirstPipe(x.params_stack, x.filter_checkpoint)
         /\ OpMode(x) # "OPERATIONAL" => x.filter_checkpoint = -1
<1> DEFINE s == c.params_stack
           l == Len(s)
           m == c.stack_checkpoint
           f == c.filter_checkpoint
           y == x.params_stack
           g == x.filter_checkpoint
<1>1. /\ s \in Seq(Param) /\ l \in Nat \ {0} /\ m \in Nat /\ m + 1 \in 1 .. l
      /\ s[1] = RootHook /\ f \in Nat \cup {-1} /\ IsFirstPipe(s, f)
      /\ \A i \in 1 .. m + 1 : s[i] # Pipe
  BY Stacks DEF Submittable, Rooted, Marked, Unfiltered, CursorType
<1>2. OpMode(x) # "OPERATIONAL" => Len(y) > 1 /\ y[2] = ConfigHook
  BY NullAssumption DEF OpMode, Branch
<1>3. Pipe \notin ConfigPart /\ RootHook # Pipe
  BY ConfigPartIs, HookFacts DEF IsConfigPart
<1>4. CASE ~Nested(c)
  <2>1. y = s /\ g = f
    BY <1>4 DEF Executing
  <2>2. ConfigFrom(s, 2, l)
    BY <1>4 DEF Submittable, Commanded
  <2> HIDE DEF s, f, y, g, l
  <2>3. f # 0
    <3>1. 1 \in 1 .. l
      BY <1>1
    <3> QED
      BY <1>1, <1>3, <3>1 DEF IsFirstPipe
  <2>4. OpMode(x) # "OPERATIONAL" => f = -1
    <3>1. SUFFICES ASSUME s[2] = ConfigHook PROVE f = -1
      BY <1>2, <2>1
    <3>2. \A i \in 1 .. l : i = 1 \/ i \in 2 .. l
      BY <1>1
    <3>3. \A i \in 1 .. l : s[i] # Pipe
      BY <1>1, <1>3, <2>2, <3>1, <3>2 DEF ConfigFrom
    <3> QED
      BY <1>1, <3>3 DEF IsFirstPipe, l
  <2> QED
    BY <1>1, <2>1, <2>3, <2>4 DEF l, y, g
<1>5. CASE Nested(c)
  <2>1. /\ m \in Nat \ {0} /\ m + 2 <= l /\ y \in Seq(Param) /\ Len(y) = l - m
        /\ y[1] = RootHook /\ \A i \in 2 .. l - m : y[i] = s[i + m]
        /\ g = IF f > -1 THEN f - m ELSE -1
    <3>1. /\ Good(c) /\ l = Len(c.params_stack) /\ m = c.stack_checkpoint
          /\ s = c.params_stack /\ f = c.filter_checkpoint
          /\ y = x.params_stack /\ g = x.filter_checkpoint
      BY DEF Submittable
    <3> HIDE DEF s, f, y, g, l, m
    <3>2. /\ m \in Nat \ {0} /\ m + 2 <= l
          /\ x.params_stack \in Seq(Param) /\ Len(x.params_stack) = l - m
          /\ x.params_stack[1] = RootHook
          /\ \A i \in 2 .. l - m : x.params_stack[i] = c.params_stack[i + m]
          /\ x.filter_checkpoint = IF c.filter_checkpoint > -1
                                   THEN c.filter_checkpoint - m ELSE -1
      BY <1>5, <3>1, ExecutedWords
    <3>3. g = IF f > -1 THEN f - m ELSE -1
      BY <3>1, <3>2
    <3>4. \A i \in 2 .. l - m : y[i] = s[i + m]
      BY <3>1, <3>2
    <3>5. y \in Seq(Param) /\ Len(y) = l - m /\ y[1] = RootHook
      BY <3>1, <3>2
    <3> QED
      BY <3>2, <3>3, <3>4, <3>5
  <2>2. ConfigFrom(s, m + 2, l)
    BY <1>5 DEF Submittable, Commanded
  <2> HIDE DEF s, f, y, g, l, m
  <2>3. l - m \in Nat \ {0}
    BY <1>1, <2>1
  <2>4. ASSUME NEW i \in 2 .. l - m
        PROVE  i + m \in 1 .. l /\ i + m \in m + 2 .. l
    BY <1>1, <2>1
  <2>5. \A i \in 1 .. l - m : i = 1 \/ i \in 2 .. l - m
    BY <2>3
  <2>6. CASE f = -1
    <3>1. \A i \in 1 .. l : s[i] # Pipe
      BY <1>1, <2>6 DEF IsFirstPipe, l
    <3>2. \A i \in 1 .. l - m : y[i] # Pipe
      BY <1>3, <2>1, <2>4, <2>5, <3>1
    <3>3. g = -1
      BY <2>1, <2>6
    <3> QED
      BY <2>1, <2>3, <3>2, <3>3 DEF IsFirstPipe, y, g
  <2>7. CASE f # -1
    <3>1. f + 1 \in 1 .. l /\ s[f + 1] = Pipe /\ (\A i \in 1 .. f : s[i] # Pipe) /\ f \in Nat
      BY <1>1, <2>7 DEF IsFirstPipe, l
    <3>2. f + 1 \notin 1 .. m + 1
      BY <1>1, <3>1
    <3>3. f + 1 > m + 1
      BY <1>1, <3>1, <3>2
    <3>4. g = f - m /\ g \in Nat \ {0} /\ g + 1 \in 1 .. l - m /\ g + 1 \in 2 .. l - m
          /\ g + 1 + m = f + 1 /\ f + 1 \in m + 2 .. l
      BY <1>1, <2>1, <3>1, <3>3
    <3>5. y[g + 1] = Pipe
      BY <2>1, <3>1, <3>4
    <3>6. ASSUME NEW i \in 1 .. g PROVE y[i] # Pipe
      <4>1. CASE i = 1
        BY <1>3, <2>1, <4>1
      <4>2. CASE i # 1
        <5>1. i \in 2 .. l - m /\ i + m \in 1 .. f
          BY <1>1, <2>1, <3>1, <3>4, <4>2
        <5> QED
          BY <2>1, <3>1, <5>1
      <4> QED
        BY <4>1, <4>2
    <3>7. OpMode(x) = "OPERATIONAL"
      <4>1. SUFFICES ASSUME y[2] = ConfigHook PROVE FALSE
        BY <1>2
      <4>2. 2 \in 2 .. l - m /\ 2 + m = m + 2
        BY <1>1, <2>1
      <4>3. s[m + 2] = ConfigHook
        BY <2>1, <4>1, <4>2
      <4> QED
        BY <1>3, <2>2, <3>1, <3>4, <4>3 DEF ConfigFrom
    <3> QED
      BY <2>1, <2>3, <3>4, <3>5, <3>6, <3>7 DEF IsFirstPipe, y, g
  <2> QED
    BY <2>6, <2>7
<1> QED
  BY <1>4, <1>5

-----------------------------------------------------------------------------
(* The calls are cut where the command is.                                 *)

SplitsOff(call) ==
  LET cut == FirstPipe([k \in DOMAIN call.tlvs |-> call.tlvs[k].param])
      own == IF cut = -1 THEN call.tlvs ELSE SubSeq(call.tlvs, 1, cut)
  IN  /\ call.param = Last(own).param
      /\ call.filters = SubSeq(call.tlvs, Len(own) + 1, Len(call.tlvs))

LEMMA SplitCall ==
  ASSUME NEW t \in Seq(TlvType), NEW l \in Nat \ {0}, Len(t) = l,
         NEW f \in (Nat \ {0}) \cup {-1}, NEW p, Len(p) = l, IsFirstPipe(p, f),
         \A i \in 1 .. l : t[i].param = p[i],
         NEW call, call.tlvs = t, call.param = p[IF f = -1 THEN l ELSE f],
         call.filters = IF f = -1 THEN <<>> ELSE SubSeq(t, f + 1, l)
  PROVE  SplitsOff(call)
<1> DEFINE q == [k \in DOMAIN t |-> t[k].param]
           own == IF f = -1 THEN t ELSE SubSeq(t, 1, f)
<1>1. /\ DOMAIN t = 1 .. l /\ \A i \in 1 .. l : t[i].param \in Param
  <2>1. DOMAIN t = 1 .. l
    BY LenProperties
  <2>2. \A i \in 1 .. l : t[i] \in TlvType
    BY ElementOfSeq
  <2> QED
    BY <2>1, <2>2 DEF TlvType
<1>2. q \in Seq(Param) /\ Len(q) = l /\ \A i \in 1 .. l : q[i] = p[i]
  BY <1>1
<1>3. IsFirstPipe(q, f)
  <2> HIDE DEF q
  <2>1. f # -1 => \A i \in 1 .. f : f + 1 \in 1 .. l => i \in 1 .. l
    OBVIOUS
  <2> QED
    BY <1>2, <2>1 DEF IsFirstPipe
<1>4. FirstPipe(q) = f
  <2> HIDE DEF q
  <2> QED
    BY <1>2, <1>3, FirstPipeIs
<1> HIDE DEF q
<1>5. CASE f = -1
  <2>1. Last(t) = t[l] /\ l \in 1 .. l
    BY DEF Last
  <2>2. SubSeq(t, l + 1, l) = <<>>
    <3>1. l + 1 \in Int /\ l \in Int /\ l < l + 1
      OBVIOUS
    <3> QED
      BY <3>1, SubSeqEmpty
  <2> QED
    BY <1>4, <1>5, <2>1, <2>2 DEF SplitsOff, q
<1>6. CASE f # -1
  <2> DEFINE s == SubSeq(t, 1, f)
  <2>1. f \in 1 .. l /\ f \in 1 .. f
    BY <1>6 DEF IsFirstPipe
  <2>2. s \in Seq(TlvType) /\ Len(s) = f /\ s[f] = t[f]
    BY <2>1, SubSeqIs
  <2>3. Last(s) = t[f]
    BY <2>2 DEF Last
  <2> QED
    BY <1>4, <1>6, <2>1, <2>2, <2>3 DEF SplitsOff, q
<1> QED
  BY <1>5, <1>6

\* What a submitted command calls.
LEMMA CallsAre ==
  ASSUME NEW c, Good(c), NEW h, Submit(c, h), calls' # <<>>,
         NEW x, x = Executing(c)
  PROVE  LET p == x.params_stack
             t == x.tlv_stack
             cbk == p[CallbackSlot(x) + 1]
             call(q, tlvs) == [param |-> q, tlvs |-> tlvs, op |-> OpMode(x), filters |-> Filters(x)]
         IN
         /\ cbk \in HasCallback /\ SlotsExist(x)
         /\ \/ calls' = <<call(cbk, t)>>
            \/ /\ OpMode(x) = "CONFIG_ENABLE"
               /\ \E m \in 1 .. Cardinality(Called(x)) :
                    /\ Len(calls') = m
                    /\ \A i \in 1 .. m :
                         /\ Kth(Called(x), i) \in Called(x)
                         /\ calls'[i] = call(p[Kth(Called(x), i)],
                                             SubSeq(t, 1, Kth(Called(x), i)))
                    /\ recorded' # <<>> => m = Cardinality(Called(x))
         /\ recorded' # <<>> => recorded' = HistoryLine(c)
         /\ DOMAIN calls' = 1 .. Len(calls') /\ Len(calls') \in Nat
<1> DEFINE p == x.params_stack
           t == x.tlv_stack
           cbk == p[CallbackSlot(x) + 1]
           call(q, tlvs) == [param |-> q, tlvs |-> tlvs, op |-> OpMode(x), filters |-> Filters(x)]
           S == Called(x)
           n == Cardinality(S)
           upTo(i) == call(p[i], SubSeq(t, 1, i))
           batch == [k \in 1 .. n |-> upTo(Kth(S, k))]
           all == call(cbk, t)
           todo == Invocations(x, cbk)
<1>1. /\ cbk \in HasCallback /\ SlotsExist(x)
      /\ recorded' # <<>> => recorded' = HistoryLine(c)
      /\ \E m \in 0 .. Len(todo) : /\ calls' = SubSeq(todo, 1, m)
                                   /\ recorded' # <<>> => m = Len(todo)
  <2>1. Triggered(x, c)
    BY DEF Submit
  <2>2. /\ SlotsExist(x) /\ cbk \in HasCallback
        /\ \E m \in 0 .. Len(todo), ok \in BOOLEAN :
              /\ ok => m = Len(todo)
              /\ calls' = SubSeq(todo, 1, m)
              /\ recorded' = IF ok THEN HistoryLine(c) ELSE <<>>
    BY <2>1, Zenon DEF Triggered, NoOutput
  <2> HIDE DEF todo, cbk
  <2> QED
    BY <2>2
<1>2. (todo = batch /\ OpMode(x) = "CONFIG_ENABLE") \/ todo = <<all>>
  BY DEF Invocations
<1>3. S \in SUBSET Nat /\ IsFiniteSet(S) /\ n \in Nat
  <2> DEFINE a == x.stack_checkpoint + 2
             b == Len(p)
  <2>1. x.stack_checkpoint \in Nat /\ b \in Nat
    BY ExecutingIs
  <2>2. S \subseteq a .. b
    BY DEF Called
  <2> HIDE DEF S, b
  <2>3. a \in Int /\ b \in Int /\ a .. b \in SUBSET Nat
    BY <2>1
  <2> HIDE DEF a
  <2>4. IsFiniteSet(a .. b)
    BY <2>3, FS_Interval
  <2> QED
    BY <2>2, <2>3, <2>4, FS_Subset, FS_CardinalityType
<1>4. PICK T : todo \in Seq(T)
  BY InvocationsAre
<1>5. PICK m \in 0 .. Len(todo) : calls' = SubSeq(todo, 1, m) /\ (recorded' # <<>> => m = Len(todo))
  BY <1>1
<1> HIDE DEF todo, batch, all
<1>6. m \in 1 .. Len(todo)
  <2>1. SubSeq(todo, 1, 0) = <<>>
    <3>1. 1 \in Int /\ 0 \in Int /\ 0 < 1
      OBVIOUS
    <3> QED
      BY <1>4, <3>1, SubSeqEmpty
  <2>2. Len(todo) \in Nat /\ m # 0
    BY <1>4, <1>5, <2>1, LenProperties
  <2> QED
    BY <2>2
<1>7. /\ Len(calls') = m /\ DOMAIN calls' = 1 .. m /\ calls' \in Seq(T)
      /\ \A i \in 1 .. m : calls'[i] = todo[i]
  BY <1>4, <1>5, <1>6, SubSeqIs
<1>8. Len(calls') \in Nat
  BY <1>7, LenProperties
<1>9. CASE todo = <<all>>
  <2>1. Len(todo) = 1 /\ todo[1] = all
    BY <1>9
  <2>2. m = 1 /\ 1 \in 1 .. m
    BY <1>6, <2>1
  <2>3. Len(calls') = 1 /\ calls'[1] = all
    BY <1>7, <2>1, <2>2
  <2>4. calls' = <<all>>
    <3>1. calls' = [i \in 1 .. Len(calls') |-> calls'[i]]
      BY <1>7
    <3>2. calls' = [i \in 1 .. 1 |-> all]
      BY <2>3, <3>1
    <3> QED
      BY <3>2
  <2> QED
    BY <1>1, <1>7, <1>8, <2>4 DEF all
<1>10. CASE todo = batch /\ OpMode(x) = "CONFIG_ENABLE"
  <2>1. Len(todo) = n /\ \A i \in 1 .. n : todo[i] = upTo(Kth(S, i))
    <3> HIDE DEF n
    <3> QED
      BY <1>3, <1>10 DEF batch
  <2>2. \A i \in 1 .. m : i \in 1 .. n
    BY <1>3, <1>6, <2>1
  <2>3. \A i \in 1 .. n : Kth(S, i) \in S
    <3> HIDE DEF S
    <3> QED
      BY <1>3, KthIs
  <2>4. m \in 1 .. n /\ (recorded' # <<>> => m = n)
    BY <1>5, <1>6, <2>1
  <2>5. \A i \in 1 .. m : Kth(S, i) \in S /\ calls'[i] = upTo(Kth(S, i))
    BY <1>7, <2>1, <2>2, <2>3
  <2> HIDE DEF S, n
  <2> QED
    BY <1>1, <1>7, <1>8, <1>10, <2>4, <2>5 DEF S, n
<1> QED
  BY <1>2, <1>9, <1>10

LEMMA CallsSplit ==
  ASSUME NoConfigPipe, NEW c, Submittable(c), NEW h, Submit(c, h)
  PROVE  FiltersSplitOff'
<1> DEFINE x == Executing(c)
           p == x.params_stack
           t == x.tlv_stack
           l == Len(p)
           f == x.filter_checkpoint
           S == Called(x)
           cbk == p[CallbackSlot(x) + 1]
           call(q, tlvs) == [param |-> q, tlvs |-> tlvs, op |-> OpMode(x), filters |-> Filters(x)]
<1>1. FiltersSplitOff' <=> \A i \in DOMAIN calls' : SplitsOff(calls'[i])
  BY DEF FiltersSplitOff, SplitsOff
<1>2. /\ p \in Seq(Param) /\ l \in Nat \ {0} /\ f \in (Nat \ {0}) \cup {-1}
      /\ IsFirstPipe(p, f)
      /\ OpMode(x) # "OPERATIONAL" => f = -1
  BY ExecutedSplit
<1>3. /\ t \in Seq(TlvType) /\ Len(t) = l /\ \A i \in 1 .. l : t[i].param = p[i]
      /\ x.stack_checkpoint \in Nat
  BY ExecutingIs DEF Submittable
<1>4. Filters(x) = IF f = -1 THEN <<>> ELSE SubSeq(t, f + 1, l)
  BY <1>2, <1>3 DEF Filters
<1>5. cbk = p[IF f = -1 THEN l ELSE f]
  <2>1. CallbackSlot(x) = IF f = -1 THEN l - 1 ELSE f - 1
    BY <1>2 DEF CallbackSlot, Top
  <2> HIDE DEF x, f, l
  <2>2. CallbackSlot(x) + 1 = IF f = -1 THEN l ELSE f
    BY <1>2, <2>1
  <2> QED
    BY <2>2
<1>6. ASSUME calls' # <<>>
      PROVE  /\ \/ calls' = <<call(cbk, t)>>
                \/ /\ f = -1
                   /\ \A i \in DOMAIN calls' :
                        /\ Kth(S, i) \in S
                        /\ calls'[i] = call(p[Kth(S, i)], SubSeq(t, 1, Kth(S, i)))
  <2>1. /\ DOMAIN calls' = 1 .. Len(calls')
        /\ \/ calls' = <<call(cbk, t)>>
           \/ /\ OpMode(x) = "CONFIG_ENABLE"
              /\ \E m \in 1 .. Cardinality(S) :
                   /\ Len(calls') = m
                   /\ \A i \in 1 .. m :
                        /\ Kth(S, i) \in S
                        /\ calls'[i] = call(p[Kth(S, i)], SubSeq(t, 1, Kth(S, i)))
    BY <1>6, CallsAre DEF Submittable
  <2> HIDE DEF call, S, cbk, p, t, f
  <2> QED
    BY <1>2, <2>1
<1>7. SplitsOff(call(cbk, t))
  <2> HIDE DEF x, p, t, l, f, cbk
  <2> DEFINE k == call(cbk, t)
  <2>1. k.param = cbk /\ k.tlvs = t /\ k.filters = Filters(x)
    OBVIOUS
  <2> HIDE DEF k, call
  <2>2. k.param = p[IF f = -1 THEN l ELSE f] /\ k.filters = IF f = -1 THEN <<>> ELSE SubSeq(t, f + 1, l)
    BY <1>4, <1>5, <2>1
  <2>3. SplitsOff(k)
    BY <1>2, <1>3, <2>1, <2>2, SplitCall DEF l
  <2> QED
    BY <2>3 DEF k
<1>8. ASSUME NEW a \in S, f = -1 PROVE SplitsOff(call(p[a], SubSeq(t, 1, a)))
  <2> DEFINE k == call(p[a], SubSeq(t, 1, a))
             s == SubSeq(t, 1, a)
             r == SubSeq(p, 1, a)
  <2>1. a \in x.stack_checkpoint + 2 .. l
    BY DEF Called
  <2>2. k.param = p[a] /\ k.tlvs = s /\ k.filters = <<>>
    BY <1>4, <1>8
  <2> HIDE DEF k, call, x, p, t, l, f, S
  <2>3. a \in 1 .. l /\ a \in Nat \ {0} /\ a \in 1 .. a /\ \A i \in 1 .. a : i \in 1 .. l
    BY <1>2, <1>3, <2>1
  <2>4. s \in Seq(TlvType) /\ Len(s) = a /\ \A i \in 1 .. a : s[i] = t[i]
    BY <1>3, <2>3, SubSeqIs
  <2>5. Len(r) = a /\ \A i \in 1 .. a : r[i] = p[i]
    BY <1>2, <2>3, SubSeqIs DEF l
  <2> HIDE DEF s, r
  <2>6. \A i \in 1 .. l : p[i] # Pipe
    BY <1>2, <1>8 DEF IsFirstPipe, l
  <2>7. IsFirstPipe(r, f)
    BY <1>8, <2>3, <2>5, <2>6 DEF IsFirstPipe
  <2>8. \A i \in 1 .. a : s[i].param = r[i]
    BY <1>3, <2>3, <2>4, <2>5
  <2>9. k.param = r[IF f = -1 THEN a ELSE f] /\ k.filters = IF f = -1 THEN <<>> ELSE SubSeq(s, f + 1, a)
    BY <1>8, <2>2, <2>3, <2>5
  <2>10. SplitsOff(k)
    BY <1>2, <2>2, <2>3, <2>4, <2>5, <2>7, <2>8, <2>9, SplitCall
  <2> QED
    BY <2>10 DEF k, s
<1> HIDE DEF x, p, t, l, f, cbk, S, call
<1>9. CASE calls' = <<>>
  BY <1>1, <1>9
<1>10. CASE calls' = <<call(cbk, t)>>
  <2>1. \A i \in DOMAIN <<call(cbk, t)>> : <<call(cbk, t)>>[i] = call(cbk, t)
    OBVIOUS
  <2> QED
    BY <1>1, <1>7, <1>10, <2>1
<1>11. CASE f = -1 /\ \A i \in DOMAIN calls' :
              Kth(S, i) \in S /\ calls'[i] = call(p[Kth(S, i)], SubSeq(t, 1, Kth(S, i)))
  BY <1>1, <1>8, <1>11
<1> QED
  BY <1>6, <1>9, <1>10, <1>11

\* The last call of a batch that was wholly successful has all of the command.
LEMMA GreatestIsLast ==
  ASSUME NEW S \in SUBSET Nat, IsFiniteSet(S), NEW l \in S, \A i \in S : i <= l,
         NEW n, n = Cardinality(S), n \in 1 .. n
  PROVE  Kth(S, n) = l
<1> DEFINE a == Kth(S, n)
           below(i) == Cardinality({j \in S : j < i})
<1>1. a \in S /\ below(a) = n - 1
  BY KthIs
<1> HIDE DEF a
<1>2. /\ below(a) \in 0 .. n - 1 /\ below(l) \in 0 .. n - 1
      /\ a < l => below(a) < below(l)
  BY <1>1, FewerBelow
<1> HIDE DEF below
<1>3. n \in Nat
  BY FS_CardinalityType
<1>4. ~(a < l) /\ a <= l
  BY <1>1, <1>2, <1>3
<1>5. a = l
  BY <1>1, <1>4
<1> QED
  BY <1>5 DEF a

-----------------------------------------------------------------------------
(* What is recorded is what was called.                                    *)

LEMMA HistoryFrom ==
  ASSUME NEW c, Good(c), NEW a \in 1 .. Len(c.params_stack), c.params_stack[a] \in Hooks,
         \A i \in 1 .. Len(c.params_stack) : c.params_stack[i] \in Hooks => i <= a
  PROVE  HistoryLine(c) =
           [k \in 1 .. Len(c.params_stack) - a + 1 |-> c.tlv_stack[a + k - 1].value]
<1> DEFINE hooks == {i \in DOMAIN c.params_stack : c.params_stack[i] \in Hooks}
           from == LastHook(c)
           n == Len(c.params_stack) - from + 1
<1>1. DOMAIN c.params_stack = 1 .. Len(c.params_stack) /\ Len(c.params_stack) \in Nat
  BY Stacks
<1>2. a \in hooks /\ (\A j \in hooks : j <= a) /\ \A i \in hooks : i \in Nat
  BY <1>1
<1>3. from \in hooks /\ \A j \in hooks : j <= from
  <2>1. hooks # {} /\ from = CHOOSE i \in hooks : \A j \in hooks : j <= i
    BY <1>2 DEF LastHook
  <2> HIDE DEF hooks, from
  <2> QED
    BY <1>2, <2>1
<1> HIDE DEF hooks
<1> HIDE DEF from
<1>4. from <= a /\ a <= from /\ from \in Nat /\ a \in Nat
  BY <1>2, <1>3
<1>5. from = a
  BY <1>4
<1>6. HistoryLine(c) =
        [k \in 1 .. n |-> IF from + k - 1 = 0 THEN <<NUL>> ELSE c.tlv_stack[from + k - 1].value]
  BY DEF HistoryLine, from
<1>7. \A k \in 1 .. n : from + k - 1 # 0
  BY <1>1, <1>4, <1>5
<1>8. HistoryLine(c) = [k \in 1 .. n |-> c.tlv_stack[from + k - 1].value]
  BY <1>6, <1>7
<1> QED
  BY <1>5, <1>8

\* The last hook is the first word of the command that runs, if that is a hook.
LEMMA HistoryExecuted ==
  ASSUME NEW c, Submittable(c), NEW x, x = Executing(c), Len(x.params_stack) # 1,
         x.params_stack[2] \in Hooks
  PROVE  HistoryLine(c) = [k \in 1 .. Len(x.tlv_stack) - 1 |-> x.tlv_stack[k + 1].value]
<1> DEFINE s == c.params_stack
           t == c.tlv_stack
           l == Len(s)
           m == c.stack_checkpoint
<1>1. /\ l \in Nat \ {0} /\ m \in Nat /\ m + 1 \in 1 .. l /\ Len(t) = l
      /\ Nested(c) <=> m > 0 /\ m + 2 <= l /\ s[m + 2] \in Hooks
  BY NestedIs, Stacks DEF Submittable
<1>2. /\ \A i \in 2 .. l : s[i] \in Hooks => i = 2 \/ i = m + 2
      /\ s[1] \notin Hooks
  <2>1. HooksFirst(c) /\ s[1] = RootHook
    BY DEF Submittable, Commanded, Rooted
  <2>2. RootHook \notin Hooks
    BY HookFacts
  <2> QED
    BY <2>1, <2>2 DEF HooksFirst
<1>3. ASSUME NEW a \in 2 .. l, s[a] \in Hooks, a = 2 \/ a = m + 2,
             \A i \in 2 .. l : s[i] \in Hooks => i <= a
      PROVE  HistoryLine(c) = [k \in 1 .. l - a + 1 |-> t[a + k - 1].value]
  <2>1. a \in 1 .. l /\ \A i \in 1 .. l : s[i] \in Hooks => i <= a
    <3> HIDE DEF s, t, l, m
    <3>1. a \in 1 .. l /\ \A i \in 1 .. l : i = 1 \/ i \in 2 .. l
      BY <1>1
    <3> QED
      BY <1>2, <1>3, <3>1
  <2> QED
    BY <1>3, <2>1, HistoryFrom DEF Submittable
<1>4. CASE ~Nested(c)
  <2>1. x = c
    BY <1>4 DEF Executing
  <2>2. l # 1 /\ s[2] \in Hooks
    BY <2>1
  <2> HIDE DEF s, t, l, m
  <2>3. 2 \in 2 .. l /\ s[2] \in Hooks
    BY <1>1, <2>2
  <2>4. ASSUME NEW i \in 2 .. l, s[i] \in Hooks PROVE i <= 2
    <3>1. CASE i = m + 2
      <4>1. m + 2 <= l /\ s[m + 2] \in Hooks
        BY <1>1, <2>4, <3>1
      <4>2. m = 0
        BY <1>1, <1>4, <4>1
      <4> QED
        BY <1>1, <3>1, <4>2
    <3> QED
      BY <1>2, <2>4, <3>1
  <2>5. HistoryLine(c) = [k \in 1 .. l - 2 + 1 |-> t[2 + k - 1].value]
    BY <1>3, <2>3, <2>4
  <2>6. l - 2 + 1 = l - 1 /\ \A k \in 1 .. l - 1 : 2 + k - 1 = k + 1
    BY <1>1
  <2>7. HistoryLine(c) = [k \in 1 .. l - 1 |-> t[k + 1].value]
    BY <2>5, <2>6
  <2> QED
    BY <1>1, <2>1, <2>7 DEF t
<1>5. CASE Nested(c)
  <2> DEFINE u == x.tlv_stack
  <2>1. m > 0 /\ m + 2 <= l /\ m + 2 \in 2 .. l /\ s[m + 2] \in Hooks
    <3> HIDE DEF s, t, l, m
    <3> QED
      BY <1>1, <1>5
  <2>2. Len(u) = l - m /\ \A i \in 2 .. l - m : u[i] = t[i + m]
    BY <1>5, ExecutedWords DEF Submittable
  <2> HIDE DEF s, t, l, m, u
  <2>3. ASSUME NEW i \in 2 .. l, s[i] \in Hooks PROVE i <= m + 2
    BY <1>1, <1>2, <2>3
  <2>4. HistoryLine(c) = [k \in 1 .. l - (m + 2) + 1 |-> t[(m + 2) + k - 1].value]
    BY <1>3, <2>1, <2>3
  <2>5. /\ l - (m + 2) + 1 = Len(u) - 1
        /\ \A k \in 1 .. Len(u) - 1 : /\ (m + 2) + k - 1 = (k + 1) + m
                                      /\ k + 1 \in 2 .. l - m
    BY <1>1, <2>1, <2>2
  <2>6. HistoryLine(c) = [k \in 1 .. Len(u) - 1 |-> u[k + 1].value]
    BY <2>2, <2>4, <2>5
  <2> QED
    BY <2>6 DEF u
<1> QED
  BY <1>4, <1>5

LEMMA ExecutedInStep ==
  ASSUME NEW c, Good(c), NEW x, x = Executing(c), NEW i \in 2 .. Len(x.params_stack)
  PROVE  x.tlv_stack[i].param = x.params_stack[i]
<1>1. \A k \in 1 .. Len(c.params_stack) : c.tlv_stack[k].param = c.params_stack[k]
  BY Stacks DEF Good, InStep
<1>2. CASE ~Nested(c)
  <2>1. x = c /\ Len(c.params_stack) \in Nat
    BY <1>2, Stacks DEF Executing
  <2> QED
    BY <1>1, <2>1
<1>3. CASE Nested(c)
  <2> DEFINE l == Len(c.params_stack)
             m == c.stack_checkpoint
  <2>1. /\ l \in Nat /\ m \in Nat /\ Len(x.params_stack) = l - m
        /\ \A k \in 2 .. l - m : /\ x.params_stack[k] = c.params_stack[k + m]
                                 /\ x.tlv_stack[k] = c.tlv_stack[k + m]
    BY <1>3, ExecutedWords
  <2>2. i \in 2 .. l - m /\ i + m \in 1 .. l
    <3> HIDE DEF l, m
    <3> QED
      BY <2>1
  <2> QED
    BY <1>1, <2>1, <2>2
<1> QED
  BY <1>2, <1>3

\* The command that was called begins with a hook.  A tree may have other params at
\* its root: of their commands the history has more than the words.
HookCalled == calls # <<>> => Last(calls).tlvs[2].param \in Hooks

LEMMA CallsRecorded ==
  ASSUME NoConfigPipe, NEW c, Submittable(c), NEW h, Submit(c, h)
  PROVE  (HookCalled => HistoryIsCommand)'
<1> DEFINE x == Executing(c)
           p == x.params_stack
           t == x.tlv_stack
           l == Len(p)
           f == x.filter_checkpoint
           S == Called(x)
           cbk == p[CallbackSlot(x) + 1]
           call(q, tlvs) == [param |-> q, tlvs |-> tlvs, op |-> OpMode(x), filters |-> Filters(x)]
           words(u) == [k \in 1 .. Len(u) - 1 |-> u[k + 1].value]
<1>1. SUFFICES ASSUME recorded' # <<>>, calls' # <<>>, Last(calls').tlvs[2].param \in Hooks
               PROVE  recorded' = words(Last(calls').tlvs)
  BY DEF HistoryIsCommand, HookCalled
<1>2. /\ p \in Seq(Param) /\ l \in Nat \ {0} /\ f \in (Nat \ {0}) \cup {-1}
      /\ IsFirstPipe(p, f)
      /\ OpMode(x) # "OPERATIONAL" => f = -1
  BY ExecutedSplit
<1>3. t \in Seq(TlvType) /\ Len(t) = l /\ x.stack_checkpoint \in Nat
  BY ExecutingIs DEF Submittable
<1>4. /\ cbk \in HasCallback /\ recorded' = HistoryLine(c)
      /\ \/ calls' = <<call(cbk, t)>>
         \/ /\ OpMode(x) = "CONFIG_ENABLE"
            /\ \E m \in 1 .. Cardinality(S) :
                 /\ Len(calls') = m
                 /\ \A i \in 1 .. m :
                      /\ Kth(S, i) \in S
                      /\ calls'[i] = call(p[Kth(S, i)], SubSeq(t, 1, Kth(S, i)))
                 /\ m = Cardinality(S)
  BY <1>1, CallsAre DEF Submittable
<1>5. f = -1 => cbk = p[l]
  <2>1. f = -1 => CallbackSlot(x) = l - 1
    BY DEF CallbackSlot, Top
  <2> HIDE DEF x, f, l
  <2> QED
    BY <1>2, <2>1
<1>6. l # 1
  <2> HIDE DEF x, p, l, f, cbk
  <2>1. SUFFICES ASSUME l = 1 PROVE FALSE
    OBVIOUS
  <2>2. f = -1
    BY <1>2, <2>1 DEF IsFirstPipe, l
  <2>3. p[1] \in HasCallback
    BY <1>4, <1>5, <2>1, <2>2
  <2>4. p[1] = RootHook
    <3>1. CASE Nested(c)
      BY <3>1, ExecutedWords DEF Submittable, p, x
    <3>2. CASE ~Nested(c)
      BY <3>2 DEF Executing, Submittable, Rooted, p, x
    <3> QED
      BY <3>1, <3>2
  <2> QED
    BY <2>3, <2>4, CallbackAssumption
<1>7. SUFFICES Last(calls').tlvs = t
  <2>1. l \in Nat /\ 2 \in 1 .. l
    <3> HIDE DEF l
    <3> QED
      BY <1>2, <1>6
  <2>2. t[2].param = p[2]
    BY <2>1, ExecutedInStep DEF Submittable
  <2>3. Last(calls').tlvs = t => recorded' = words(t)
    BY <1>1, <1>4, <1>6, <2>2, HistoryExecuted
  <2> QED
    BY <1>7, <2>3
<1>8. CASE calls' = <<call(cbk, t)>>
  <2>1. Last(calls') = call(cbk, t)
    BY <1>8 DEF Last
  <2>2. call(cbk, t).tlvs = t
    OBVIOUS
  <2> HIDE DEF call, cbk, t, words
  <2> QED
    BY <2>1, <2>2
<1>9. CASE f = -1 /\ OpMode(x) = "CONFIG_ENABLE" /\
           LET m == Cardinality(S) IN
           /\ m \in 1 .. m /\ Len(calls') = m
           /\ \A i \in 1 .. m :
                /\ Kth(S, i) \in S
                /\ calls'[i] = call(p[Kth(S, i)], SubSeq(t, 1, Kth(S, i)))
  <2> DEFINE m == Cardinality(S)
  <2>1. S \in SUBSET Nat /\ IsFiniteSet(S) /\ \A i \in S : i <= l
    <3> DEFINE a == x.stack_checkpoint + 2
    <3>1. S \subseteq a .. l
      BY DEF Called
    <3> HIDE DEF S, l, x
    <3>2. a \in Int /\ l \in Int /\ a .. l \in SUBSET Nat /\ \A i \in a .. l : i <= l
      BY <1>2, <1>3
    <3> HIDE DEF a
    <3>3. IsFiniteSet(a .. l)
      BY <3>2, FS_Interval
    <3> QED
      BY <3>1, <3>2, <3>3, FS_Subset
  <2>2. m \in 1 .. m /\ Kth(S, m) \in S /\ calls'[m] = call(p[Kth(S, m)], SubSeq(t, 1, Kth(S, m)))
        /\ Len(calls') = m
    BY <1>9
  <2>3. l \in S
    <3>1. Kth(S, m) \in x.stack_checkpoint + 2 .. l
      BY <2>2 DEF Called
    <3>2. l \in x.stack_checkpoint + 2 .. l /\ ~(l < l)
      <4> HIDE DEF l, x
      <4> QED
        BY <1>2, <1>3, <3>1
    <3>3. p[l] \in HasCallback
      BY <1>4, <1>5, <1>9
    <3> HIDE DEF x
    <3> QED
      BY <3>2, <3>3 DEF Called, Repeated
  <2>4. Kth(S, m) = l
    <3> HIDE DEF S, l
    <3> QED
      BY <2>1, <2>2, <2>3, GreatestIsLast
  <2>5. SubSeq(t, 1, l) = t
    <3> HIDE DEF t, l
    <3> QED
      BY <1>2, <1>3, SubSeqFull
  <2>6. call(p[l], t).tlvs = t
    OBVIOUS
  <2> HIDE DEF call, cbk, t, words, S, m, p, l
  <2>7. Last(calls') = call(p[l], t)
    BY <2>2, <2>4, <2>5 DEF Last
  <2> QED
    BY <2>6, <2>7
<1> HIDE DEF x, p, t, l, f, S, cbk, call, words
<1> QED
  BY <1>2, <1>4, <1>8, <1>9

-----------------------------------------------------------------------------
LEMMA SubmitHolds ==
  ASSUME NoConfigPipe, NEW c, Good(c), Rooted(c), FilterOK(c), Unfiltered(c), CommandOK(c),
         NEW h, Submit(c, h)
  PROVE  FiltersSplitOff' /\ (HookCalled => HistoryIsCommand)'
BY CallsSplit, CallsRecorded DEF Submittable, FilterOK, CommandOK

LEMMA NoOutputHolds ==
  ASSUME NoOutput
  PROVE  FiltersSplitOff' /\ (HookCalled => HistoryIsCommand)'
BY DEF NoOutput, FiltersSplitOff, HistoryIsCommand

LEMMA CallsInductive ==
  ASSUME NoConfigPipe, CallInv, NoFilterMode, NoFilterMode', [HookPlaced]_vars, [Next]_vars,
         FiltersSplitOff, HookCalled => HistoryIsCommand
  PROVE  FiltersSplitOff' /\ (HookCalled => HistoryIsCommand)'
<1>1. CASE UNCHANGED vars
  BY <1>1 DEF vars, FiltersSplitOff, HookCalled, HistoryIsCommand
<1>2. CASE ReturnCommand \/ RunMode
  BY <1>2, CallBefore, SubmitHolds DEF ReturnCommand, RunMode
<1>3. CASE ReturnWord /\ HookPlaced
  <2>1. PICK q \in OneWord(cmdtc) : Submit(Pushed(cmdtc, q), hdr) \/ NoOutput
    BY <1>3 DEF ReturnWord
  <2> QED
    BY <1>3, <2>1, PushedCall, SubmitHolds, NoOutputHolds
<1>4. CASE EnterMode
  <2>1. /\ Good(cmdtc) /\ Rooted(cmdtc) /\ CommandOK(cmdtc) /\ HookInv /\ FilterInv
    BY <1>4, CallBefore DEF EnterMode
  <2>2. ASSUME NEW c, NEW mode, NEW h,
               c = (IF Nested(cmdtc) THEN WithoutOuter(cmdtc) ELSE cmdtc),
               Good(c), Rooted(c), Good(mode), Kin(c, mode),
               mode.stack_checkpoint = Top(mode.params_stack),
               mode.matching_params_list = c.matching_params_list,
               mode.leaf_param = c.leaf_param, Submit(mode, h)
        PROVE  FiltersSplitOff' /\ (HookCalled => HistoryIsCommand)'
    <3>1. CommandOK(mode)
      BY <2>1, <2>2, EnteredCall DEF Kin, Listed
    <3>2. Rooted(mode) /\ Unfiltered(mode) /\ FilterOK(mode)
      BY <1>4, <2>1, <2>2, EnteredModeFilter
    <3> QED
      BY <2>2, <3>1, <3>2, SubmitHolds
  <2> QED
    BY <1>4, <2>1, <2>2, EnterModeIs, NoOutputHolds
<1>5. CASE \/ \E k \in Key : TypeChar(k)
           \/ SpaceLists \/ SpaceCompletes \/ AutoCompletionSpins \/ EraseChar \/ EraseWord
  BY <1>5, Typing, NoOutputHolds DEF CallInv, FilterInv
<1>6. CASE SpaceAccepts \/ ReturnReject \/ EraseLevel \/ PageUp \/ CtrlT
  BY <1>6, NoOutputHolds DEF SpaceAccepts, ReturnReject, EraseLevel, PageUp, CtrlT
<1>7. CASE Next /\ HookPlaced
  BY <1>2, <1>3, <1>4, <1>5, <1>6, <1>7 DEF Next
<1> QED
  BY <1>1, <1>7

\* Whatever command is submitted, from whatever mode and nested or not,
\* cmd_tree_trigger_cli calls the last param before the first pipe and hands
\* cmdtc_set_filter_context every word from that pipe on: at every tree whose
\* config branch has no pipe, as long as hooks start commands and no mode is
\* entered within the filters of a command.
THEOREM FiltersSplit ==
  ASSUME NoConfigPipe
  PROVE  Spec /\ []NoFilterMode /\ [][HookPlaced]_vars => []FiltersSplitOff
<1>1. Init => FiltersSplitOff /\ (HookCalled => HistoryIsCommand)
  BY DEF Init, FiltersSplitOff, HistoryIsCommand
<1>2. /\ CallInv /\ NoFilterMode /\ NoFilterMode' /\ [Next]_vars /\ [HookPlaced]_vars
      /\ FiltersSplitOff /\ (HookCalled => HistoryIsCommand)
      => (FiltersSplitOff /\ (HookCalled => HistoryIsCommand))'
  BY CallsInductive
<1>3. Spec /\ []NoFilterMode /\ [][HookPlaced]_vars => []CallInv
  BY CallInvariance
<1> QED
  BY <1>1, <1>2, <1>3, PTL DEF Spec

\* Under the same conditions and whenever the command that was called begins with a
\* hook, the words cmdtc_record_cli_history writes, from the last hook of the stack
\* on, are those of the command: all of them behind the root, of the nested
\* command alone in nested mode, and of the whole batch when it was a batch.
\* The options of the root may be any params.
THEOREM HistoryHolds ==
  ASSUME NoConfigPipe
  PROVE  Spec /\ []NoFilterMode /\ [][HookPlaced]_vars => [](HookCalled => HistoryIsCommand)
<1>1. Init => FiltersSplitOff /\ (HookCalled => HistoryIsCommand)
  BY DEF Init, FiltersSplitOff, HistoryIsCommand
<1>2. /\ CallInv /\ NoFilterMode /\ NoFilterMode' /\ [Next]_vars /\ [HookPlaced]_vars
      /\ FiltersSplitOff /\ (HookCalled => HistoryIsCommand)
      => (FiltersSplitOff /\ (HookCalled => HistoryIsCommand))'
  BY CallsInductive
<1>3. Spec /\ []NoFilterMode /\ [][HookPlaced]_vars => []CallInv
  BY CallInvariance
<1> QED
  BY <1>1, <1>2, <1>3, PTL DEF Spec

-----------------------------------------------------------------------------
(* What is called and what is on the line.                                 *)

\* The sequence y begins with s.
StartsWith(y, s, T) == s \in Seq(T) /\ \E r \in Seq(T) : y = s \o r

\* The words of a text begin with its first ones.
LEMMA TextBegins ==
  ASSUME NEW T, NEW t, NEW a \in Nat, NEW n \in Nat, NEW sep \in T, Worded(t, a, n, T),
         NEW k \in 0 .. n
  PROVE  StartsWith(Text(t, a, n, sep), Text(t, a, k, sep), T)
<1> DEFINE s(i) == Text(t, a, i, sep)
           begins(i) == \E r \in Seq(T) : s(i) = s(k) \o r
           bad == {i \in k .. n : ~begins(i)}
<1>1. \A i \in 0 .. n : s(i) \in Seq(T)
  <2>1. ASSUME NEW i \in 0 .. n PROVE Worded(t, a, i, T) /\ i \in Nat
    <3>1. i \in Nat /\ \A j \in 1 .. i : j \in 1 .. n
      OBVIOUS
    <3> QED
      BY <3>1 DEF Worded
  <2> QED
    BY <2>1, TextType
<1>2. s(k) \in Seq(T)
  BY <1>1
<1>3. ASSUME NEW m \in bad, \A i \in bad : m <= i PROVE FALSE
  <2>1. CASE m = k
    <3>1. s(k) = s(k) \o <<>> /\ <<>> \in Seq(T)
      BY <1>2, ConcatEmptySeq, EmptySeq
    <3> QED
      BY <1>3, <2>1, <3>1
  <2>2. CASE m # k
    <3> DEFINE j == m - 1
    <3>1. j \in k .. n /\ j \in Nat /\ m = j + 1 /\ m \in 1 .. n /\ ~(m <= j) /\ j \in 0 .. n
      BY <1>3, <2>2
    <3>2. begins(j)
      <4> HIDE DEF j, begins
      <4> QED
        BY <1>3, <3>1
    <3> HIDE DEF j
    <3>3. PICK r \in Seq(T) : s(j) = s(k) \o r
      BY <3>2
    <3> DEFINE v == t[a + (j + 1)].value
    <3>4. v \in Seq(T)
      BY <3>1 DEF Worded
    <3>5. s(j + 1) = AndWord(s(j), v, sep)
      BY <3>1, <3>4, TextMore
    <3> HIDE DEF v, s
    <3> DEFINE e == Append(v, sep)
               b == s(k)
    <3>6. e \in Seq(T) /\ b \in Seq(T)
      BY <1>2, <3>4, AppendProperties
    <3>7. s(j + 1) = (b \o r) \o e
      BY <3>3, <3>5 DEF AndWord
    <3> HIDE DEF e, b
    <3>8. r \o e \in Seq(T) /\ (b \o r) \o e = b \o (r \o e)
      BY <3>6, ConcatProperties, ConcatAssociative, SMTT(30)
    <3>9. begins(m)
      BY <3>1, <3>7, <3>8 DEF b
    <3> HIDE DEF begins
    <3> QED
      BY <1>3, <3>9
  <2> QED
    BY <2>1, <2>2
<1>4. bad \in SUBSET Nat /\ n \in k .. n
  OBVIOUS
<1>5. begins(n)
  <2> HIDE DEF begins
  <2>1. SUFFICES ASSUME n \in bad PROVE FALSE
    BY <1>4
  <2> HIDE DEF bad
  <2> QED
    BY <1>3, <1>4, <2>1, LeastNat
<1> QED
  BY <1>2, <1>5 DEF StartsWith

\* Of two beginnings of a sequence one begins the other.
LEMMA BeginningsCompare ==
  ASSUME NEW T, NEW s \in Seq(T), NEW r \in Seq(T), NEW t \in Seq(T), NEW u \in Seq(T),
         s \o r = t \o u
  PROVE  IsPrefix(s, t) \/ IsPrefix(t, s)
<1>1. ASSUME NEW x \in Seq(T), NEW y \in Seq(T), NEW v \in Seq(T), NEW w \in Seq(T),
             x \o v = y \o w, Len(x) <= Len(y)
      PROVE  IsPrefix(x, y)
  <2> DEFINE n == Len(x)
             p == SubSeq(x, 1, n)
             q == SubSeq(y, 1, n)
  <2>1. n \in Nat /\ Len(y) \in Nat
    BY LenProperties
  <2>2. /\ \A i \in 1 .. n : (x \o v)[i] = x[i]
        /\ \A i \in 1 .. Len(y) : (y \o w)[i] = y[i]
    BY ConcatProperties
  <2>3. \A i \in 1 .. n : x[i] = y[i]
    BY <1>1, <2>1, <2>2
  <2>4. CASE n = 0
    <3>1. 1 \in Int /\ 0 \in Int /\ 0 < 1
      OBVIOUS
    <3>2. SubSeq(x, 1, 0) = <<>> /\ SubSeq(y, 1, 0) = <<>>
      BY <3>1, SubSeqEmpty
    <3> QED
      BY <1>1, <2>4, <3>2 DEF IsPrefix
  <2>5. CASE n # 0
    <3>1. n \in 1 .. Len(x) /\ n \in 1 .. Len(y)
      BY <1>1, <2>1, <2>5
    <3> HIDE DEF n
    <3>2. /\ p \in Seq(T) /\ Len(p) = n /\ \A i \in 1 .. n : p[i] = x[i]
          /\ q \in Seq(T) /\ Len(q) = n /\ \A i \in 1 .. n : q[i] = y[i]
      BY <3>1, SubSeqIs
    <3> HIDE DEF p, q
    <3>3. Len(p) = Len(q) /\ \A i \in 1 .. Len(p) : p[i] = q[i]
      BY <2>3, <3>2
    <3>4. p = q
      BY <3>2, <3>3, SeqEqual
    <3> QED
      BY <1>1, <3>4 DEF IsPrefix, p, q, n
  <2> QED
    BY <2>4, <2>5
<1>2. Len(s) \in Nat /\ Len(t) \in Nat
  BY LenProperties
<1>3. Len(s) <= Len(t) \/ Len(t) <= Len(s)
  BY <1>2
<1> QED
  BY <1>1, <1>3

\* The last call has the words of the command up to the param called.
LEMMA LastCallIs ==
  ASSUME NEW c, Good(c), NEW h, Submit(c, h), calls' # <<>>, NEW x, x = Executing(c)
  PROVE  \E i \in 1 .. Len(x.params_stack) :
           /\ i = Len(x.params_stack) \/ x.stack_checkpoint + 2 <= i
           /\ Last(calls').tlvs = SubSeq(x.tlv_stack, 1, i)
<1> DEFINE p == x.params_stack
           t == x.tlv_stack
           l == Len(p)
           S == Called(x)
           cbk == p[CallbackSlot(x) + 1]
           call(q, tlvs) == [param |-> q, tlvs |-> tlvs, op |-> OpMode(x), filters |-> Filters(x)]
<1>1. t \in Seq(TlvType) /\ Len(t) = l /\ x.stack_checkpoint \in Nat /\ l \in Nat
  BY ExecutingIs
<1>2. /\ SlotsExist(x)
      /\ \/ calls' = <<call(cbk, t)>>
         \/ \E m \in 1 .. Cardinality(S) :
              /\ Len(calls') = m
              /\ \A i \in 1 .. m :
                   Kth(S, i) \in S /\ calls'[i] = call(p[Kth(S, i)], SubSeq(t, 1, Kth(S, i)))
  BY CallsAre
<1>3. l # 0
  <2>1. CallbackSlot(x) \in 0 .. Len(x.params_stack) - 1
    BY <1>2 DEF SlotsExist, Top
  <2> HIDE DEF p
  <2> QED
    BY <1>1, <2>1 DEF l, p
<1>4. CASE calls' = <<call(cbk, t)>>
  <2>1. Last(calls').tlvs = t
    BY <1>4 DEF Last
  <2>2. SubSeq(t, 1, l) = t
    <3> HIDE DEF t, l
    <3> QED
      BY <1>1, SubSeqFull
  <2>3. l \in 1 .. l
    <3> HIDE DEF l
    <3> QED
      BY <1>1, <1>3
  <2> QED
    BY <2>1, <2>2, <2>3
<1>5. ASSUME NEW m \in 1 .. Cardinality(S), Len(calls') = m,
             \A i \in 1 .. m :
               Kth(S, i) \in S /\ calls'[i] = call(p[Kth(S, i)], SubSeq(t, 1, Kth(S, i)))
      PROVE  \E i \in S : Last(calls').tlvs = SubSeq(t, 1, i)
  <2>1. m \in 1 .. m
    OBVIOUS
  <2> DEFINE k == Kth(S, m)
  <2>2. k \in S /\ calls'[m] = call(p[k], SubSeq(t, 1, k))
    BY <1>5, <2>1
  <2> HIDE DEF k, S
  <2>3. call(p[k], SubSeq(t, 1, k)).tlvs = SubSeq(t, 1, k)
    OBVIOUS
  <2> HIDE DEF call, p, t
  <2>4. Last(calls') = calls'[m]
    BY <1>5 DEF Last
  <2>5. Last(calls').tlvs = SubSeq(t, 1, k)
    BY <2>2, <2>3, <2>4
  <2> QED
    BY <2>2, <2>5
<1>6. ASSUME NEW i \in S PROVE i \in 1 .. l /\ x.stack_checkpoint + 2 <= i
  <2>1. i \in x.stack_checkpoint + 2 .. l
    BY DEF Called
  <2> HIDE DEF l, S
  <2> QED
    BY <1>1, <2>1
<1> HIDE DEF p, t, l, S, cbk, call
<1>7. CASE \E i \in S : Last(calls').tlvs = SubSeq(t, 1, i)
  BY <1>6, <1>7 DEF t, l, p
<1> QED
  BY <1>2, <1>4, <1>5, <1>7

\* Those of them that are spelled on the line, if any, begin the line.
LEMMA CalledText ==
  ASSUME NEW c, Good(c), NEW h, Submit(c, h), calls' # <<>>
  PROVE  LET m == c.stack_checkpoint
             tlvs == Last(calls').tlvs
             path == IF Nested(c) THEN 1 ELSE m + 1
         IN  \E k \in 0 .. Len(c.params_stack) - (m + 1) :
               Spelled(SubSeq(tlvs, path + 1, Len(tlvs))) = Text(c.tlv_stack, m + 1, k, Blank)
<1> DEFINE x == Executing(c)
           u == x.tlv_stack
           t == c.tlv_stack
           l == Len(c.params_stack)
           m == c.stack_checkpoint
           tlvs == Last(calls').tlvs
           path == IF Nested(c) THEN 1 ELSE m + 1
<1>1. l \in Nat /\ m \in Nat /\ m + 1 \in 1 .. l /\ t \in Seq(TlvType) /\ Len(t) = l
  BY Stacks
<1>2. /\ u \in Seq(TlvType) /\ Len(u) = Len(x.params_stack) /\ x.stack_checkpoint \in Nat
  BY ExecutingIs
<1>3. PICK i \in 1 .. Len(x.params_stack) :
        /\ i = Len(x.params_stack) \/ x.stack_checkpoint + 2 <= i
        /\ tlvs = SubSeq(u, 1, i)
  BY LastCallIs
<1>4. /\ tlvs \in Seq(TlvType) /\ Len(tlvs) = i /\ \A j \in 1 .. i : tlvs[j] = u[j]
  <2>1. i \in 1 .. Len(u)
    BY <1>2
  <2> HIDE DEF u, tlvs
  <2> QED
    BY <1>2, <1>3, <2>1, SubSeqIs
<1>5. CASE ~Nested(c)
  <2>1. x = c /\ path = m + 1 /\ x.params_stack = c.params_stack
    BY <1>5 DEF Executing
  <2>2. (i = l \/ m + 2 <= i) /\ i \in 1 .. l /\ u = t
    BY <1>3, <2>1
  <2> DEFINE k == i - (m + 1)
  <2> HIDE DEF x, u, t, l, m, path, tlvs
  <2>3. k \in 0 .. l - (m + 1) /\ m + 1 \in Nat /\ m + 1 <= i /\ i \in Nat
        /\ \A j \in 1 .. k : (m + 1) + j \in 1 .. i
    BY <1>1, <2>2
  <2>4. Spelled(SubSeq(tlvs, (m + 1) + 1, Len(tlvs))) = Text(tlvs, m + 1, k, Blank)
    BY <1>4, <2>3, SpelledIsText
  <2>5. SameWords(tlvs, m + 1, t, m + 1, k)
    <3> HIDE DEF k
    <3> QED
      BY <1>4, <2>2, <2>3 DEF SameWords
  <2> HIDE DEF k
  <2>6. Text(tlvs, m + 1, k, Blank) = Text(t, m + 1, k, Blank)
    BY <2>5, TextSame
  <2>7. Spelled(SubSeq(tlvs, path + 1, Len(tlvs))) = Text(t, m + 1, k, Blank)
    BY <2>1, <2>4, <2>6
  <2> QED
    BY <2>3, <2>7 DEF t, l, m, path, tlvs
<1>6. CASE Nested(c)
  <2>1. path = 1 /\ m + 2 <= l
    BY <1>6, NestedIs
  <2>2. Len(u) = l - m /\ \A j \in 2 .. l - m : u[j] = t[j + m]
    BY <1>6, ExecutedWords
  <2>3. i \in 1 .. l - m
    BY <1>2, <2>2
  <2> DEFINE k == i - 1
  <2> HIDE DEF x, u, t, l, m, path, tlvs
  <2>4. /\ k \in 0 .. l - (m + 1) /\ 1 \in Nat /\ 1 <= i
        /\ \A j \in 1 .. k : /\ 1 + j \in 1 .. i /\ 1 + j \in 2 .. l - m
                             /\ (1 + j) + m = (m + 1) + j
    BY <1>1, <2>1, <2>3
  <2>5. Spelled(SubSeq(tlvs, 1 + 1, Len(tlvs))) = Text(tlvs, 1, k, Blank)
    BY <1>4, <2>4, SpelledIsText
  <2>6. SameWords(tlvs, 1, t, m + 1, k)
    <3> HIDE DEF k
    <3>1. ASSUME NEW j \in 1 .. k PROVE tlvs[1 + j].value = t[(m + 1) + j].value
      <4>1. tlvs[1 + j] = u[1 + j] /\ u[1 + j] = t[(1 + j) + m]
        BY <1>4, <2>2, <2>4
      <4> QED
        BY <2>4, <4>1
    <3> QED
      BY <3>1 DEF SameWords
  <2> HIDE DEF k
  <2>7. Text(tlvs, 1, k, Blank) = Text(t, m + 1, k, Blank)
    BY <2>6, TextSame
  <2>8. Spelled(SubSeq(tlvs, path + 1, Len(tlvs))) = Text(t, m + 1, k, Blank)
    BY <2>1, <2>5, <2>7
  <2> QED
    BY <2>4, <2>8 DEF t, l, m, path, tlvs
<1> QED
  BY <1>5, <1>6

\* They and the words the line shows begin the same text.
LEMMA CalledShown ==
  ASSUME NEW c, Good(c), NEW h, Submit(c, h), calls' # <<>>,
         NEW r \in Seq(LineChar), NEW u \in Seq(LineChar), NEW v \in Seq(LineChar),
         r \o u = Done(c) \o v
  PROVE  LET tlvs == Last(calls').tlvs
             path == IF Nested(c) THEN 1 ELSE c.stack_checkpoint + 1
             typed == Spelled(SubSeq(tlvs, path + 1, Len(tlvs)))
         IN  IsPrefix(r, typed) \/ IsPrefix(typed, r)
<1> DEFINE a == c.stack_checkpoint + 1
           n == Len(c.params_stack) - a
           t == c.tlv_stack
           tlvs == Last(calls').tlvs
           path == IF Nested(c) THEN 1 ELSE c.stack_checkpoint + 1
           typed == Spelled(SubSeq(tlvs, path + 1, Len(tlvs)))
<1>1. PICK k \in 0 .. n : typed = Text(t, a, k, Blank)
  BY CalledText
<1>2. a \in Nat /\ n \in Nat /\ \A i \in 1 .. n : a + i \in 1 .. Len(c.params_stack)
  <2> DEFINE l == Len(c.params_stack)
  <2>1. a \in Nat /\ l \in Nat /\ a \in 1 .. l
    BY Stacks
  <2> HIDE DEF l, a
  <2>2. l - a \in Nat /\ \A i \in 1 .. l - a : a + i \in 1 .. l
    BY <2>1
  <2> QED
    BY <2>1, <2>2 DEF l
<1>3. Worded(t, a, n, LineChar)
  BY <1>2, ValuesTyped DEF Worded
<1>4. Blank \in LineChar
  BY DEF LineChar, Blank
<1>5. Done(c) = Text(t, a, n, Blank)
  BY DEF Done
<1> HIDE DEF a, n, t, typed
<1>6. PICK e \in Seq(LineChar) : Done(c) = typed \o e /\ typed \in Seq(LineChar)
  <2> DEFINE s == Text(t, a, k, Blank)
             y == Text(t, a, n, Blank)
  <2>1. StartsWith(y, s, LineChar)
    BY <1>2, <1>3, <1>4, TextBegins
  <2>2. typed = s /\ Done(c) = y
    BY <1>1, <1>5
  <2> HIDE DEF s, y
  <2> QED
    BY <2>1, <2>2 DEF StartsWith
<1>7. r \o u = typed \o (e \o v) /\ e \o v \in Seq(LineChar)
  <2>1. e \o v \in Seq(LineChar)
    BY ConcatProperties
  <2>2. (typed \o e) \o v = typed \o (e \o v)
    BY <1>6, ConcatAssociative, SMTT(30)
  <2> QED
    BY <1>6, <2>1, <2>2
<1>8. IsPrefix(r, typed) \/ IsPrefix(typed, r)
  <2> DEFINE w == e \o v
  <2>1. r \o u = typed \o w /\ w \in Seq(LineChar)
    BY <1>7
  <2> HIDE DEF w
  <2> QED
    BY <1>6, <2>1, BeginningsCompare
<1> QED
  BY <1>8 DEF typed, tlvs, path

\* What a step may not call.
ShowsCalled ==
  LET tlvs == Last(calls').tlvs
      path == IF Nested(cmdtc) THEN 1 ELSE cmdtc.stack_checkpoint + 1
      typed == Spelled(SubSeq(tlvs, path + 1, Len(tlvs)))
  IN  IsPrefix(line, typed) \/ IsPrefix(typed, line)

LEMMA ReturnCommandCalls ==
  ASSUME ShownInv, ReturnCommand, calls' # <<>>
  PROVE  ShowsCalled
<1>1. Reading /\ Submit(cmdtc, hdr)
  BY DEF ReturnCommand
<1>2. PICK w \in Seq(Key) : line = Done(cmdtc) \o w
  BY <1>1, ShownBefore
<1>3. /\ Good(cmdtc) /\ Done(cmdtc) \in Seq(LineChar) /\ w \in Seq(LineChar)
      /\ <<>> \in Seq(LineChar)
  BY <1>1, ShownBefore, SeqMonotonic, EmptyLine DEF LineChar
<1>4. line \in Seq(LineChar) /\ line \o <<>> = Done(cmdtc) \o w
  <2>1. Done(cmdtc) \o w \in Seq(LineChar)
    BY <1>3, ConcatProperties
  <2> QED
    BY <1>2, <2>1, ConcatEmptySeq
<1> QED
  BY <1>1, <1>3, <1>4, CalledShown DEF ShowsCalled

\* The word at hand is completed by what it lacks.
LEMMA ReturnWordCalls ==
  ASSUME ShownInv, ReturnWord, calls' # <<>>
  PROVE  ShowsCalled
<1>1. Reading
  BY DEF ReturnWord
<1>2. PICK p \in OneWord(cmdtc) : Submit(Pushed(cmdtc, p), hdr)
  BY DEF ReturnWord, NoOutput
<1>3. PICK w \in Seq(Key) : line = Done(cmdtc) \o w /\ AtHand(cmdtc, w)
  BY <1>1, ShownBefore
<1> DEFINE d == Pushed(cmdtc, p)
           keys == Missing(cmdtc, p)
           m == cmdtc.stack_checkpoint
           l == Len(cmdtc.params_stack)
<1>4. /\ p \in Param /\ keys \in Seq(Key) /\ (cmdtc.is_negate => ~IsNo(p))
      /\ Tlv(p, cmdtc.curr_leaf_value).value = w \o keys
  BY <1>1, <1>3, ShownBefore, AcceptedWord, OneWordOK
<1>5. /\ Good(cmdtc) /\ Good(d) /\ d.stack_checkpoint = m
      /\ d.params_stack = Append(cmdtc.params_stack, p)
  BY <1>1, <1>4, ShownBefore, PushedOK
<1>6. Done(d) = (Done(cmdtc) \o w) \o keys \o <<Blank>>
  BY <1>4, <1>5, DonePushed
<1>7. /\ l \in Nat /\ m \in Nat /\ m + 1 \in 1 .. l /\ cmdtc.params_stack \in Seq(Param)
  BY <1>5, Stacks
<1>8. /\ line \in Seq(LineChar) /\ Done(d) \in Seq(LineChar)
      /\ keys \in Seq(LineChar) /\ <<Blank>> \in Seq(LineChar) /\ <<>> \in Seq(LineChar)
  <2>1. Key \subseteq LineChar /\ Blank \in LineChar
    BY DEF LineChar, Blank
  <2>2. w \in Seq(LineChar) /\ keys \in Seq(LineChar) /\ Done(cmdtc) \in Seq(LineChar)
    BY <1>4, <1>5, <2>1, SeqMonotonic, DoneOK
  <2>3. Done(cmdtc) \o w \in Seq(LineChar)
    BY <2>2, ConcatProperties
  <2> HIDE DEF d
  <2> QED
    BY <1>3, <1>5, <2>1, <2>2, <2>3, DoneOK, EmptyLine
<1> HIDE DEF d, keys
<1>9. line \o (keys \o <<Blank>>) = Done(d) \o <<>> /\ keys \o <<Blank>> \in Seq(LineChar)
  <2>1. keys \o <<Blank>> \in Seq(LineChar)
    BY <1>8, ConcatProperties
  <2>2. (line \o keys) \o <<Blank>> = line \o (keys \o <<Blank>>)
    BY <1>8, ConcatAssociative, SMTT(30)
  <2>3. Done(d) \o <<>> = Done(d)
    BY <1>8, ConcatEmptySeq
  <2> QED
    BY <1>3, <1>6, <2>1, <2>2, <2>3
<1>10. Submit(d, hdr)
  BY <1>2 DEF d
<1>11. LET tlvs == Last(calls').tlvs
           path == IF Nested(d) THEN 1 ELSE m + 1
           typed == Spelled(SubSeq(tlvs, path + 1, Len(tlvs)))
       IN  IsPrefix(line, typed) \/ IsPrefix(typed, line)
  <2> DEFINE rest == keys \o <<Blank>>
  <2>1. line \o rest = Done(d) \o <<>> /\ rest \in Seq(LineChar)
    BY <1>9
  <2> HIDE DEF rest
  <2> QED
    BY <1>5, <1>8, <1>10, <2>1, CalledShown
<1>12. /\ Len(d.params_stack) = l + 1
       /\ \A i \in 1 .. l : d.params_stack[i] = cmdtc.params_stack[i]
  BY <1>4, <1>5, <1>7, AppendProperties
<1>13. CASE Nested(d) <=> Nested(cmdtc)
  BY <1>11, <1>13 DEF ShowsCalled
<1>14. CASE Nested(d) /\ ~Nested(cmdtc)
  <2> DEFINE x == Executing(d)
             u == x.tlv_stack
             tlvs == Last(calls').tlvs
  <2>1. m > 0 /\ m + 2 <= l + 1 /\ d.params_stack[m + 2] \in Hooks
    BY <1>5, <1>12, <1>14, NestedIs
  <2>2. l = m + 1
    <3>1. m + 2 <= l => Nested(cmdtc)
      <4>1. m + 2 <= l => m + 2 \in 1 .. l
        BY <1>7
      <4> QED
        BY <1>5, <1>7, <1>12, <2>1, <4>1, NestedIs
    <3> QED
      BY <1>7, <1>14, <3>1
  <2>3. Len(u) = 2 /\ Len(x.params_stack) = 2 /\ u \in Seq(TlvType)
    <3>1. Len(u) = (l + 1) - m /\ Len(x.params_stack) = (l + 1) - m /\ u \in Seq(TlvType)
      BY <1>5, <1>12, <1>14, ExecutedWords
    <3> QED
      BY <1>7, <2>2, <3>1
  <2>4. PICK i \in 1 .. Len(x.params_stack) : tlvs = SubSeq(u, 1, i)
    BY <1>5, <1>10, LastCallIs
  <2>5. tlvs \in Seq(TlvType) /\ Len(tlvs) = i /\ i \in 1 .. 2
    <3>1. i \in 1 .. Len(u) /\ i \in 1 .. 2
      BY <2>3
    <3> HIDE DEF u, tlvs
    <3> QED
      BY <2>3, <2>4, <3>1, SubSeqIs
  <2> DEFINE s == SubSeq(tlvs, (m + 1) + 1, Len(tlvs))
  <2>6. Spelled(s) = <<>>
    <3>1. (m + 1) + 1 \in Int /\ Len(tlvs) \in Int /\ Len(tlvs) < (m + 1) + 1
      BY <1>7, <2>1, <2>5
    <3>2. s = <<>>
      <4> HIDE DEF tlvs
      <4> QED
        BY <2>5, <3>1, SubSeqEmpty
    <3> HIDE DEF s
    <3>3. [j \in DOMAIN s |-> Append(s[j].value, " ")] = <<>>
      BY <3>2
    <3>4. Len(<<>>) = 0
      OBVIOUS
    <3> QED
      BY <3>3, <3>4, FlattenSeqIs DEF Spelled
  <2>7. IsPrefix(<<>>, line)
    <3>1. 1 \in Int /\ 0 \in Int /\ 0 < 1 /\ Len(<<>>) = 0 /\ Len(line) \in Nat
      BY <1>8, LenProperties
    <3>2. SubSeq(line, 1, 0) = <<>> /\ SubSeq(<<>>, 1, 0) = <<>>
      BY <1>8, <3>1, SubSeqEmpty
    <3> QED
      BY <3>1, <3>2 DEF IsPrefix
  <2> HIDE DEF x, u, s
  <2> QED
    BY <1>14, <2>6, <2>7 DEF ShowsCalled, s
<1>15. Nested(cmdtc) => Nested(d)
  <2>1. m + 2 <= l => m + 2 <= l + 1 /\ m + 2 \in 1 .. l
    BY <1>7
  <2> QED
    BY <1>5, <1>12, <2>1, NestedIs
<1> QED
  BY <1>13, <1>14, <1>15

\* The whole command is called that made the mode.
LEMMA EnterModeCalls ==
  ASSUME ShownInv, EnterMode, calls' # <<>>
  PROVE  ShowsCalled
<1>1. Reading /\ HookInv
  BY DEF EnterMode, ShownInv
<1>2. PICK c, mode, h :
        /\ c = IF Nested(cmdtc) THEN WithoutOuter(cmdtc) ELSE cmdtc
        /\ Good(c) /\ Good(mode) /\ Kin(c, mode) /\ mode.stack_checkpoint = Top(mode.params_stack)
        /\ mode.tlv_stack = c.tlv_stack /\ Submit(mode, h)
  BY <1>1, EnterModeIs DEF NoOutput
<1>3. PICK w \in Seq(Key) : line = Done(cmdtc) \o w
  BY <1>1, ShownBefore
<1> DEFINE u == c.tlv_stack
           tlvs == Last(calls').tlvs
           m == cmdtc.stack_checkpoint
           l == Len(cmdtc.params_stack)
           t == cmdtc.tlv_stack
           path == IF Nested(cmdtc) THEN 1 ELSE m + 1
           typed == Spelled(SubSeq(tlvs, path + 1, Len(tlvs)))
<1>4. tlvs = u
  <2> DEFINE e == Len(mode.params_stack)
  <2>1. /\ e \in Nat \ {0} /\ mode.stack_checkpoint = e - 1 /\ Len(u) = e /\ u \in Seq(TlvType)
    BY <1>2, Stacks DEF Top
  <2> HIDE DEF e, u, tlvs
  <2>2. ~Nested(mode)
    BY <1>2, <2>1, NestedIs DEF e
  <2>3. Executing(mode) = mode
    BY <2>2 DEF Executing
  <2>4. PICK i \in 1 .. e : /\ i = e \/ mode.stack_checkpoint + 2 <= i
                            /\ tlvs = SubSeq(mode.tlv_stack, 1, i)
    BY <1>2, <2>3, LastCallIs DEF e, tlvs
  <2>5. i = e
    BY <2>1, <2>4
  <2>6. SubSeq(u, 1, e) = u
    BY <2>1, SubSeqFull
  <2> QED
    BY <1>2, <2>4, <2>5, <2>6 DEF u
<1>5. /\ Good(cmdtc) /\ l \in Nat /\ m \in Nat /\ m + 1 \in 1 .. l /\ Len(t) = l
      /\ t \in Seq(TlvType) /\ u \in Seq(TlvType)
      /\ Done(cmdtc) = Text(t, m + 1, l - (m + 1), Blank)
  BY <1>1, <1>2, ShownBefore, Stacks DEF Done
<1>6. typed = Done(cmdtc)
  <2>1. CASE ~Nested(cmdtc)
    <3>1. u = t /\ path = m + 1 /\ (m + 1) + 1 = m + 2
      BY <1>2, <1>5, <2>1
    <3>2. Spelled(SubSeq(t, m + 2, Len(t))) = Done(cmdtc)
      BY <1>5, SpelledIsDone
    <3> HIDE DEF u, t, tlvs, path
    <3> QED
      BY <1>4, <3>1, <3>2
  <2>2. CASE Nested(cmdtc)
    <3> DEFINE n == l - (m + 1)
    <3>1. path = 1 /\ Len(u) = l - m /\ \A i \in 2 .. l - m : u[i] = t[i + m]
      BY <1>2, <1>5, <2>2, WithoutOuterIs
    <3> HIDE DEF u, t, tlvs, path, m, l
    <3>2. n \in Nat /\ Len(u) - 1 = n /\ 1 \in Nat /\ 1 <= Len(u)
      BY <1>5, <3>1
    <3>3. ASSUME NEW i \in 1 .. n
          PROVE  1 + i \in 2 .. l - m /\ (1 + i) + m = (m + 1) + i
      BY <1>5
    <3>4. SameWords(u, 1, t, m + 1, n)
      <4> HIDE DEF n
      <4>1. ASSUME NEW i \in 1 .. n PROVE u[1 + i].value = t[(m + 1) + i].value
        <5>1. u[1 + i] = t[(1 + i) + m]
          BY <3>1, <3>3
        <5> QED
          BY <3>3, <5>1
      <4> QED
        BY <4>1 DEF SameWords
    <3>5. Spelled(SubSeq(u, 1 + 1, Len(u))) = Text(u, 1, Len(u) - 1, Blank)
      BY <1>5, <3>2, SpelledIsText
    <3>6. Text(u, 1, n, Blank) = Text(t, m + 1, n, Blank)
      <4> HIDE DEF n
      <4> QED
        BY <3>4, TextSame
    <3>7. Done(cmdtc) = Text(t, m + 1, n, Blank)
      BY <1>5
    <3> HIDE DEF n
    <3> QED
      BY <1>4, <3>1, <3>2, <3>5, <3>6, <3>7
  <2> QED
    BY <2>1, <2>2
<1>7. Done(cmdtc) \in Seq(LineChar) /\ w \in Seq(LineChar) /\ <<>> \in Seq(LineChar)
  BY <1>1, ShownBefore, SeqMonotonic, EmptyLine DEF LineChar
<1>8. line \in Seq(LineChar) /\ line \o <<>> = Done(cmdtc) \o w
  <2>1. Done(cmdtc) \o w \in Seq(LineChar)
    BY <1>7, ConcatProperties
  <2> QED
    BY <1>3, <2>1, ConcatEmptySeq
<1>9. IsPrefix(line, Done(cmdtc)) \/ IsPrefix(Done(cmdtc), line)
  BY <1>7, <1>8, BeginningsCompare
<1> HIDE DEF typed
<1>10. IsPrefix(line, typed) \/ IsPrefix(typed, line)
  BY <1>6, <1>9
<1> QED
  BY <1>10 DEF ShowsCalled, typed

\* What the application is called with by a key that ends the line is what the
\* line shows (cmd_tree_enter_mode, cmd_tree_process_carriage_return_key): the
\* words of the last call below the mode, or those of the nested command, are
\* the line, begin it, or are it with its last word completed; in the trees in
\* which the line spells the stack.
THEOREM CallsShow ==
  ASSUME OneKeywordBesideLeaf
  PROVE  Spec => CallsWhatIsShown
<1>1. ShownInv /\ [Next]_vars =>
        [calls' # <<>> /\ line # <<>> /\ line' = <<>> => ShowsCalled]_vars
  <2>1. SUFFICES ASSUME ShownInv, Next, calls' # <<>>, line # <<>>
                 PROVE  ShowsCalled
    BY DEF vars
  <2>2. CASE ReturnCommand \/ ReturnWord \/ EnterMode
    BY <2>1, <2>2, ReturnCommandCalls, ReturnWordCalls, EnterModeCalls
  <2>3. CASE NoOutput \/ RunMode
    BY <2>1, <2>3 DEF NoOutput, RunMode
  <2>4. CASE \/ \E k \in Key : TypeChar(k)
             \/ SpaceLists \/ SpaceCompletes \/ AutoCompletionSpins \/ EraseChar \/ EraseWord
    BY <2>3, <2>4 DEF TypeChar, SpaceLists, SpaceCompletes, AutoCompletionSpins, EraseChar, EraseWord
  <2>5. CASE SpaceAccepts \/ ReturnReject \/ EraseLevel \/ PageUp \/ CtrlT
    BY <2>3, <2>5 DEF SpaceAccepts, ReturnReject, EraseLevel, PageUp, CtrlT
  <2> QED
    BY <2>1, <2>2, <2>3, <2>4, <2>5 DEF Next
<1>2. Spec => []ShownInv
  BY ShownInvariance
<1>3. CallsWhatIsShown <=>
        [][calls' # <<>> /\ line # <<>> /\ line' = <<>> => ShowsCalled]_vars
  BY DEF CallsWhatIsShown, ShowsCalled
<1> QED
  BY <1>1, <1>2, <1>3, PTL DEF Spec
=============================================================================
