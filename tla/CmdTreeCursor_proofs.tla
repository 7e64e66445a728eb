----------------------- MODULE CmdTreeCursor_proofs -----------------------
(***************************************************************************)
(* Theorems about the cursor of the char-mode shell, for every command     *)
(* tree, prompt and buffer size: first the cursor and the buffer, then the *)
(* hooks, the line, the prompt and the batches.  The hooks are options of  *)
(* the mode, and the calls of a batch go down its command, in every        *)
(* command tree.  The line spells the words on the stacks, and the prompt  *)
(* the path to the mode, in the trees in which a word beside a leaf        *)
(* continues one keyword at most.                                          *)
(***************************************************************************)
EXTENDS CmdTreeCursor, SequenceTheorems, FiniteSetTheorems,
        WellFoundedInduction, TLAPS

Char == Key \cup {NUL}

-----------------------------------------------------------------------------
(* Lemmas about sequences and the helpers on them.                         *)

LEMMA Minimum ==
  ASSUME NEW S \in SUBSET Nat, S # {}
  PROVE  First(S) \in S /\ \A j \in S : First(S) <= j
<1>1. PICK m \in S : \A j \in S : <<j, m>> \notin OpToRel(<, Nat)
  BY NatLessThanWellFounded, WFMin, Zenon
<1>2. \A j \in S : ~(j < m)
  BY <1>1, Zenon DEF OpToRel
<1>3. \A j \in S : m <= j
  BY <1>2
<1> QED
  BY <1>3 DEF First

LEMMA SubSeqType ==
  ASSUME NEW T, NEW s \in Seq(T), NEW m \in Nat \ {0}, NEW n \in Int, n <= Len(s)
  PROVE  /\ SubSeq(s, m, n) \in Seq(T)
         /\ Len(SubSeq(s, m, n)) = IF m <= n THEN n - m + 1 ELSE 0
         /\ \A i \in 1 .. n - m + 1 : SubSeq(s, m, n)[i] = s[m + i - 1]
<1>1. \A i \in m .. n : s[i] \in T
  BY ElementOfSeq, LenProperties
<1> QED
  BY <1>1, SubSeqProperties

LEMMA Counted ==
  ASSUME NEW n \in Nat
  PROVE  IsFiniteSet(1 .. n) /\ Cardinality(1 .. n) = n
<1>1. /\ IsFiniteSet(1 .. n)
      /\ Cardinality(1 .. n) = IF 1 > n THEN 0 ELSE n - 1 + 1
  <2>1. 1 \in Int /\ n \in Int
    OBVIOUS
  <2> QED
    BY <2>1, FS_Interval, Zenon
<1> QED
  BY <1>1

LEMMA CStrType ==
  ASSUME NEW v \in Seq(Char)
  PROVE  CStr(v) \in Seq(Key)
<1> DEFINE holes == {i \in DOMAIN v : v[i] = NUL}
<1>0. DOMAIN v = 1 .. Len(v) /\ Len(v) \in Nat
  BY LenProperties
<1>1. CASE holes = {}
  <2>1. \A i \in 1 .. Len(v) : v[i] \in Key
    BY <1>0, <1>1, ElementOfSeq DEF Char
  <2>2. SubSeq(v, 1, Len(v)) \in Seq(Key)
    BY <2>1, <1>0, SubSeqProperties
  <2> QED
    BY <1>1, <2>2, SubSeqFull DEF CStr
<1>2. CASE holes # {}
  <2>0. holes \in SUBSET (1 .. Len(v)) /\ \A i \in 1 .. Len(v) : i \in holes \/ v[i] # NUL
    BY <1>0
  <2>1. First(holes) \in 1 .. Len(v) /\ \A j \in holes : First(holes) <= j
    <3> HIDE DEF holes
    <3>1. holes \in SUBSET Nat
      BY <1>0, <2>0
    <3>2. First(holes) \in holes /\ \A j \in holes : First(holes) <= j
      BY <1>2, <3>1, Minimum
    <3> QED
      BY <2>0, <3>2
  <2>2. \A i \in 1 .. First(holes) - 1 : v[i] \in Key
    <3>1. SUFFICES ASSUME NEW i \in 1 .. First(holes) - 1  PROVE v[i] \in Key
      OBVIOUS
    <3>2. i \in 1 .. Len(v) /\ i \notin holes
      <4> HIDE DEF holes
      <4> QED  BY <1>0, <2>1
    <3> QED
      BY <2>0, <3>2, ElementOfSeq DEF Char
  <2>3. SubSeq(v, 1, First(holes) - 1) \in Seq(Key)
    BY <2>1, <2>2, SubSeqProperties
  <2> QED
    BY <1>2, <2>3 DEF CStr
<1> QED
  BY <1>1, <1>2

LEMMA SaveAtType ==
  ASSUME NEW v \in Seq(Char), NEW i \in Nat, NEW keys \in Seq(Char)
  PROVE  /\ SaveAt(v, i, keys) \in Seq(Char)
         /\ Len(SaveAt(v, i, keys)) = i + Len(keys)
<1> DEFINE kept == [k \in 1 .. i |-> IF k <= Len(v) THEN v[k] ELSE NUL]
<1>1. kept \in Seq(Char) /\ Len(kept) = i
  <2>1. \A k \in 1 .. i : kept[k] \in Char
    BY ElementOfSeq, LenProperties DEF Char
  <2> QED
    BY <2>1, SeqDef
<1> QED
  BY <1>1, ConcatProperties DEF SaveAt

LEMMA CompletionType ==
  ASSUME NEW c \in CursorType, NEW m \in SUBSET Param, m # {}
  PROVE  Completion(c, m) \in Seq(Key)
<1> DEFINE word == Name[CHOOSE p \in m : TRUE]
           common == {i \in DOMAIN word : \A j \in 1 .. i, p \in m : KeyAt(p, j - 1) = word[j]}
<1>1. word \in Seq(Key)
  BY KindAssumption
<1>2. common \in SUBSET (1 .. Len(word)) /\ Len(word) \in Nat
  BY <1>1, LenProperties
<1>3. c.icursor + 1 \in Nat \ {0}
  BY DEF CursorType
<1>4. Cardinality(common) \in Nat /\ Cardinality(common) <= Len(word)
  <2> HIDE DEF common, word
  <2>1. IsFiniteSet(1 .. Len(word)) /\ Cardinality(1 .. Len(word)) = Len(word)
    BY <1>2, Counted
  <2>2. QED
    <3>1. IsFiniteSet(common) /\ Cardinality(common) <= Cardinality(1 .. Len(word))
      <4>1. common \in SUBSET (1 .. Len(word))
        BY <1>2
      <4> QED
        BY <4>1, <2>1, FS_Subset
    <3>2. Cardinality(common) \in Nat
      BY <3>1, FS_CardinalityType
    <3> QED
      BY <2>1, <3>1, <3>2
<1>5. SubSeq(word, c.icursor + 1, Cardinality(common)) \in Seq(Key)
  <2> HIDE DEF common, word
  <2> QED  BY <1>1, <1>3, <1>4, SubSeqType
<1> QED
  BY <1>5 DEF Completion

LEMMA TlvTyped ==
  ASSUME NEW p \in Param, NEW v \in Seq(Char)
  PROVE  Tlv(p, v) \in TlvType /\ Tlv(p, v).param = p
<1>1. CStr(v) \in Seq(Key)
  BY CStrType
<1>2. Name[p] \in Seq(Key)
  BY KindAssumption
<1> QED
  BY <1>1, <1>2 DEF Tlv, TlvType

-----------------------------------------------------------------------------
(* The inductive invariant.                                                *)

\* The stacks reach above the checkpoint; icursor, curr_param and the list of
\* matches are what the state of the cursor says they are.
Shape(c) ==
  /\ Len(c.tlv_stack) = Len(c.params_stack)
  /\ c.stack_checkpoint < Len(c.params_stack)
  /\ c.leaf_param # NoParam => IsLeaf(c.leaf_param)
  /\ c.cmdtc_state = "init" <=> c.icursor = 0
  /\ c.cmdtc_state = "multiple_matches" => c.matching_params_list # {}
  /\ c.cmdtc_state = "single_word_match" => c.curr_param \in c.matching_params_list
  /\ c.cmdtc_state = "matching_leaf" =>
        /\ c.icursor = Len(c.curr_leaf_value)
        /\ c.curr_param = c.leaf_param

InStep(c) == \A i \in DOMAIN c.params_stack : c.tlv_stack[i].param = c.params_stack[i]

\* A command has one "no" at most: with one on the stack no other is listed.
NoAt(s) == {i \in DOMAIN s : IsNo(s[i])}
OneNo(c) ==
  /\ \A i, j \in NoAt(c.params_stack) : i = j
  /\ c.is_negate <=> NoAt(c.params_stack) # {}
  /\ c.is_negate => \A p \in c.matching_params_list : ~IsNo(p)

Good(c) == c \in CursorType /\ Shape(c) /\ InStep(c) /\ OneNo(c)

Inv ==
  /\ TypeOK
  /\ status # "corrupt" => Good(cmdtc) /\ cmdtc.icursor <= Len(line)

-----------------------------------------------------------------------------
(* What the operations on a cursor keep.                                   *)

LEMMA ExitBackwardOK ==
  ASSUME NEW c \in CursorType, NEW gone
  PROVE  ExitBackward(c, gone) \in CursorType
<1> DEFINE no == c.is_negate /\ \A p \in gone : ~IsNo(p)
           refreshed == c.is_refresh /\ RefreshHook \notin gone
           disabled == c.refresh_disabled /\ RefreshValHook \notin gone
           clearing == c.clrscr /\ RefreshValHook \notin gone
<1>1. {no, refreshed, disabled, clearing} \subseteq BOOLEAN
  OBVIOUS
<1>2. ExitBackward(c, gone) =
        [c EXCEPT !.is_negate = no, !.is_refresh = refreshed,
                  !.refresh_disabled = disabled, !.clrscr = clearing]
  BY DEF ExitBackward
<1> HIDE DEF no, refreshed, disabled, clearing
<1> QED
  BY <1>1, <1>2 DEF CursorType

LEMMA BetweenOK ==
  ASSUME NEW c \in CursorType
  PROVE  Between(c) \in CursorType
BY DEF Between, CursorType, ParamOrNull

LEMMA EnteredForwardOK ==
  ASSUME NEW c \in CursorType, NEW p \in Param, c.params_stack # <<>>
  PROVE  /\ EnteredForward(c, p) \in CursorType
         /\ EnteredForward(c, p).is_negate = (c.is_negate \/ IsNo(p))
<1>1. FirstPipeMark(c, p) \in Nat \cup {-1}
  <2>1. Len(c.params_stack) \in Nat \ {0}
    BY EmptySeq DEF CursorType
  <2> QED
    BY <2>1 DEF FirstPipeMark, Top, CursorType
<1>2. <<>> \in Seq(Char)
  BY EmptySeq
<1> DEFINE c1 == [c EXCEPT !.is_negate = @ \/ IsNo(p)]
           c2 == [c1 EXCEPT !.filter_checkpoint = FirstPipeMark(c, p)]
           c3 == [c2 EXCEPT !.is_refresh = @ \/ p = RefreshHook]
           c4 == [c3 EXCEPT !.refresh_disabled = @ \/ p = RefreshValHook]
           c5 == [c4 EXCEPT !.clrscr = @ \/ p = ClrscrHook]
           c6 == [c5 EXCEPT !.curr_leaf_value = <<>>]
<1>3. EnteredForward(c, p) = c6
  BY DEF EnteredForward
<1>4. c1 \in CursorType /\ c1.is_negate = (c.is_negate \/ IsNo(p))
  BY DEF CursorType
<1> HIDE DEF c1
<1>5. c2 \in CursorType /\ c2.is_negate = c1.is_negate
  BY <1>1, <1>4 DEF CursorType
<1> HIDE DEF c2
<1>6. c3 \in CursorType /\ c3.is_negate = c2.is_negate
  BY <1>5 DEF CursorType
<1> HIDE DEF c3
<1>7. c4 \in CursorType /\ c4.is_negate = c3.is_negate
  BY <1>6 DEF CursorType
<1> HIDE DEF c4
<1>8. c5 \in CursorType /\ c5.is_negate = c4.is_negate
  BY <1>7 DEF CursorType
<1> HIDE DEF c5
<1>9. c6 \in CursorType /\ c6.is_negate = c5.is_negate
  BY <1>2, <1>8 DEF CursorType, Char
<1> QED
  BY <1>3, <1>4, <1>5, <1>6, <1>7, <1>8, <1>9

LEMMA PushedOK ==
  ASSUME NEW c, Good(c), NEW p \in Param, c.is_negate => ~IsNo(p)
  PROVE  /\ Good(Pushed(c, p))
         /\ Pushed(c, p).icursor = 0
         /\ Pushed(c, p).stack_checkpoint = c.stack_checkpoint
         /\ Pushed(c, p).root = c.root
         /\ Pushed(c, p).params_stack = Append(c.params_stack, p)
         /\ \E tlv \in TlvType : Pushed(c, p).tlv_stack = Append(c.tlv_stack, tlv)
<1> DEFINE a == [c EXCEPT !.curr_param = p]
           b == Between(a)
           stack == Append(c.params_stack, p)
           tlvs == Append(c.tlv_stack, Tlv(p, c.curr_leaf_value))
           e == [b EXCEPT !.params_stack = stack, !.tlv_stack = tlvs]
           d == EnteredForward(e, p)
<1>0. c \in CursorType /\ Shape(c) /\ InStep(c) /\ OneNo(c)
  BY DEF Good
<1>1. Tlv(p, c.curr_leaf_value) \in TlvType /\ Tlv(p, c.curr_leaf_value).param = p
  BY <1>0, TlvTyped DEF CursorType, Char
<1>2. a \in CursorType /\ a.curr_param = p /\ a.params_stack = c.params_stack
      /\ a.tlv_stack = c.tlv_stack /\ a.curr_leaf_value = c.curr_leaf_value
  BY <1>0 DEF CursorType
<1>3. b \in CursorType
  BY <1>2, BetweenOK
<1>4. /\ b.params_stack = c.params_stack /\ b.tlv_stack = c.tlv_stack
      /\ b.stack_checkpoint = c.stack_checkpoint /\ b.is_negate = c.is_negate
      /\ b.matching_params_list = {} /\ b.cmdtc_state = "init" /\ b.leaf_param = NoParam
      /\ b.icursor = 0 /\ b.root = c.root
  BY <1>0 DEF Between, CursorType
<1>5. /\ stack \in Seq(Param) /\ stack # <<>> /\ Len(stack) = Len(c.params_stack) + 1
      /\ tlvs \in Seq(TlvType) /\ Len(tlvs) = Len(c.tlv_stack) + 1
  BY <1>0, <1>1, AppendProperties DEF CursorType
<1>6. /\ e \in CursorType
      /\ e.params_stack = stack /\ e.tlv_stack = tlvs
      /\ e.stack_checkpoint = c.stack_checkpoint /\ e.is_negate = c.is_negate
      /\ e.matching_params_list = {} /\ e.cmdtc_state = "init" /\ e.leaf_param = NoParam
      /\ e.icursor = 0 /\ e.root = c.root
  <2> HIDE DEF b, stack, tlvs
  <2> QED  BY <1>3, <1>4, <1>5 DEF CursorType
<1>7. /\ d \in CursorType
      /\ d.params_stack = stack /\ d.tlv_stack = tlvs
      /\ d.stack_checkpoint = c.stack_checkpoint
      /\ d.is_negate = (c.is_negate \/ IsNo(p))
      /\ d.matching_params_list = {} /\ d.cmdtc_state = "init" /\ d.leaf_param = NoParam
      /\ d.icursor = 0 /\ d.root = c.root
  <2> HIDE DEF e, stack, tlvs
  <2>1. d \in CursorType /\ d.is_negate = (c.is_negate \/ IsNo(p))
    BY <1>5, <1>6, EnteredForwardOK
  <2> QED
    BY <2>1, <1>6 DEF EnteredForward, CursorType
<1>8. Pushed(c, p) = d
  <2>1. Pushed(c, p) = NextLevel(a)
    BY DEF Pushed
  <2>2. NextLevel(a) = d
    BY <1>2, <1>4 DEF NextLevel, Between
  <2> QED
    BY <2>1, <2>2
<1>9. Shape(d)
  <2> HIDE DEF d, stack, tlvs
  <2>1. Len(c.params_stack) = Len(c.tlv_stack) /\ c.stack_checkpoint < Len(c.params_stack)
    BY <1>0 DEF Shape
  <2>2. d.stack_checkpoint < Len(d.params_stack)
    BY <1>0, <1>5, <1>7, <2>1 DEF CursorType
  <2> QED
    BY <1>5, <1>7, <2>1, <2>2 DEF Shape
<1>10. /\ DOMAIN c.params_stack = 1 .. Len(c.params_stack)
       /\ DOMAIN stack = 1 .. Len(c.params_stack) + 1
       /\ \A i \in 1 .. Len(c.params_stack) : stack[i] = c.params_stack[i]
       /\ stack[Len(c.params_stack) + 1] = p
       /\ Len(c.params_stack) \in Nat
  BY <1>0, AppendProperties, LenProperties DEF CursorType
<1>11. OneNo(d)
  <2> HIDE DEF stack
  <2>2. NoAt(stack) = NoAt(c.params_stack) \cup (IF IsNo(p) THEN {Len(c.params_stack) + 1} ELSE {})
    BY <1>10 DEF NoAt
  <2>3. IsNo(p) => NoAt(c.params_stack) = {}
    BY <1>0 DEF OneNo
  <2> HIDE DEF d, tlvs
  <2> QED  BY <1>0, <1>7, <2>2, <2>3 DEF OneNo
<1>12. InStep(d)
  <2>1. /\ \A i \in 1 .. Len(c.params_stack) : tlvs[i] = c.tlv_stack[i]
        /\ tlvs[Len(c.params_stack) + 1] = Tlv(p, c.curr_leaf_value)
    BY <1>0, <1>1, AppendProperties DEF Shape, CursorType
  <2>2. \A i \in 1 .. Len(c.params_stack) : c.tlv_stack[i].param = c.params_stack[i]
    BY <1>0, <1>10 DEF InStep
  <2> HIDE DEF d, stack, tlvs
  <2> QED  BY <1>1, <1>7, <1>10, <2>1, <2>2 DEF InStep
<1> QED
  <2>1. \E tlv \in TlvType : tlvs = Append(c.tlv_stack, tlv)
    BY <1>1
  <2> HIDE DEF d, tlvs
  <2> QED  BY <1>7, <1>8, <1>9, <1>11, <1>12, <2>1 DEF Good

\* Popping the stack down to n words takes the "no" along, if it was above.
LEMMA OneNoAfterPop ==
  ASSUME NEW c \in CursorType, OneNo(c), NEW n \in 0 .. Len(c.params_stack),
         NEW d,
         d.params_stack = SubSeq(c.params_stack, 1, n),
         d.is_negate = (c.is_negate /\
             \A p \in {c.params_stack[i] : i \in n + 1 .. Len(c.params_stack)} : ~IsNo(p)),
         d.matching_params_list \subseteq c.matching_params_list
  PROVE  OneNo(d)
<1> DEFINE s == c.params_stack
           t == d.params_stack
<1>1. s \in Seq(Param) /\ Len(s) \in Nat /\ DOMAIN s = 1 .. Len(s)
  BY LenProperties DEF CursorType
<1>2. DOMAIN t = 1 .. n /\ \A i \in 1 .. n : t[i] = s[i]
  <2>1. /\ t \in Seq(Param)
        /\ Len(t) = IF 1 <= n THEN n - 1 + 1 ELSE 0
        /\ \A i \in 1 .. n - 1 + 1 : t[i] = s[1 + i - 1]
    BY <1>1, SubSeqType
  <2> QED
    BY <2>1, LenProperties
<1>3. NoAt(t) = NoAt(s) \cap 1 .. n
  <2>1. \A i : i \in 1 .. n => i \in 1 .. Len(s)
    BY <1>1
  <2> HIDE DEF s, t
  <2>2. ASSUME NEW i  PROVE i \in NoAt(t) <=> i \in NoAt(s) /\ i \in 1 .. n
    BY <1>1, <1>2, <2>1, Zenon DEF NoAt
  <2> QED
    BY <2>2
<1>4. d.is_negate <=> c.is_negate /\ \A i \in n + 1 .. Len(s) : i \notin NoAt(s)
  <2>1. \A i \in n + 1 .. Len(s) : i \in DOMAIN s
    BY <1>1
  <2>2. d.is_negate <=> c.is_negate /\ \A i \in n + 1 .. Len(s) : ~IsNo(s[i])
    BY Zenon
  <2> HIDE DEF s
  <2> QED
    BY <2>1, <2>2, Zenon DEF NoAt
<1>5. NoAt(s) \subseteq 1 .. Len(s) /\ (\A i, j \in NoAt(s) : i = j)
      /\ (c.is_negate <=> NoAt(s) # {})
  BY <1>1 DEF NoAt, OneNo
<1>6. d.is_negate => \A p \in d.matching_params_list : ~IsNo(p)
  BY DEF OneNo
<1>7. d.is_negate <=> NoAt(t) # {}
  <2> HIDE DEF s, t
  <2>1. CASE NoAt(s) = {}
    BY <1>3, <1>4, <1>5, <2>1
  <2>2. CASE NoAt(s) # {}
    <3>1. PICK i \in 1 .. Len(s) : NoAt(s) = {i}
      BY <1>5, <2>2
    <3> QED
      BY <1>1, <1>3, <1>4, <1>5, <3>1
  <2> QED
    BY <2>1, <2>2
<1>8. \A i, j \in NoAt(t) : i = j
  <2> HIDE DEF s, t
  <2> QED  BY <1>3, <1>5
<1> QED
  <2> HIDE DEF s
  <2> QED  BY <1>6, <1>7, <1>8 DEF OneNo

\* A cursor between two words, its stacks popped down to n of them.
LEMMA PoppedOK ==
  ASSUME NEW c, Good(c), NEW n \in 1 .. Len(c.params_stack),
         NEW d \in CursorType,
         d.params_stack = SubSeq(c.params_stack, 1, n),
         d.tlv_stack = SubSeq(c.tlv_stack, 1, n),
         d.stack_checkpoint < n,
         d.is_negate = (c.is_negate /\
             \A p \in {c.params_stack[i] : i \in n + 1 .. Len(c.params_stack)} : ~IsNo(p)),
         d.matching_params_list = {}, d.leaf_param = NoParam,
         d.cmdtc_state = "init", d.icursor = 0
  PROVE  Good(d)
<1>0. c \in CursorType /\ Shape(c) /\ InStep(c) /\ OneNo(c)
  BY DEF Good
<1>1. /\ c.params_stack \in Seq(Param) /\ c.tlv_stack \in Seq(TlvType)
      /\ Len(c.tlv_stack) = Len(c.params_stack)
      /\ Len(c.params_stack) \in Nat
      /\ DOMAIN c.params_stack = 1 .. Len(c.params_stack)
  BY <1>0, LenProperties DEF Shape, CursorType
<1>2. /\ Len(d.params_stack) = n /\ DOMAIN d.params_stack = 1 .. n
      /\ Len(d.tlv_stack) = n
      /\ \A i \in 1 .. n : /\ d.params_stack[i] = c.params_stack[i]
                           /\ d.tlv_stack[i] = c.tlv_stack[i]
  <2>1. d.params_stack \in Seq(Param)
    BY DEF CursorType
  <2>2. /\ Len(d.params_stack) = n /\ Len(d.tlv_stack) = n
        /\ \A i \in 1 .. n - 1 + 1 : /\ d.params_stack[i] = c.params_stack[1 + i - 1]
                                     /\ d.tlv_stack[i] = c.tlv_stack[1 + i - 1]
    BY <1>1, SubSeqType
  <2> QED
    BY <2>1, <2>2, LenProperties
<1>3. Shape(d)
  BY <1>2 DEF Shape
<1>4. InStep(d)
  <2>1. \A i \in 1 .. n : i \in DOMAIN c.params_stack
    BY <1>1
  <2> QED
    BY <1>0, <1>2, <2>1 DEF InStep
<1>5. OneNo(d)
  <2>1. n \in 0 .. Len(c.params_stack)
    BY <1>1
  <2>2. d.matching_params_list \subseteq c.matching_params_list
    OBVIOUS
  <2> QED
    BY <1>0, <2>1, <2>2, OneNoAfterPop
<1> QED
  BY <1>3, <1>4, <1>5 DEF Good

LEMMA ResetOK ==
  ASSUME NEW c, Good(c)
  PROVE  /\ Good(Reset(c))
         /\ Reset(c).icursor = 0
         /\ Reset(c).root = c.root
         /\ Reset(c).stack_checkpoint = c.stack_checkpoint
         /\ Reset(c).params_stack = SubSeq(c.params_stack, 1, Kept(c))
         /\ Reset(c).tlv_stack = SubSeq(c.tlv_stack, 1, Kept(c))
<1> DEFINE gone == {c.params_stack[i] : i \in Kept(c) + 1 .. Len(c.params_stack)}
           b == Between(c)
           e == ExitBackward(b, gone)
           d == Reset(c)
<1>0. c \in CursorType /\ Shape(c)
  BY DEF Good
<1>1. Kept(c) \in 1 .. Len(c.params_stack) /\ Len(c.params_stack) = Len(c.tlv_stack)
  BY <1>0, LenProperties DEF Kept, Shape, CursorType
<1>2. /\ SubSeq(c.params_stack, 1, Kept(c)) \in Seq(Param)
      /\ SubSeq(c.tlv_stack, 1, Kept(c)) \in Seq(TlvType)
  BY <1>0, <1>1, SubSeqType DEF CursorType
<1>3. e \in CursorType
  BY <1>0, BetweenOK, ExitBackwardOK
<1>4. /\ e.params_stack = c.params_stack /\ e.tlv_stack = c.tlv_stack
      /\ e.stack_checkpoint = c.stack_checkpoint /\ e.root = c.root
      /\ e.is_negate = (c.is_negate /\ \A p \in gone : ~IsNo(p))
      /\ e.matching_params_list = {} /\ e.cmdtc_state = "init" /\ e.leaf_param = NoParam
      /\ e.icursor = 0
  <2> HIDE DEF gone
  <2> QED  BY <1>0 DEF ExitBackward, Between, CursorType
<1>5. d = [e EXCEPT !.params_stack = SubSeq(c.params_stack, 1, Kept(c)),
                    !.tlv_stack = SubSeq(c.tlv_stack, 1, Kept(c)),
                    !.filter_checkpoint = IF Kept(c) <= e.filter_checkpoint THEN -1
                                          ELSE e.filter_checkpoint,
                    !.curr_param = c.root,
                    !.curr_leaf_value = <<>>]
  BY <1>4 DEF Reset
<1> HIDE DEF e, gone
<1>6. /\ d \in CursorType
      /\ d.params_stack = SubSeq(c.params_stack, 1, Kept(c))
      /\ d.tlv_stack = SubSeq(c.tlv_stack, 1, Kept(c))
      /\ d.stack_checkpoint = c.stack_checkpoint /\ d.root = c.root
      /\ d.is_negate = (c.is_negate /\ \A p \in gone : ~IsNo(p))
      /\ d.matching_params_list = {} /\ d.cmdtc_state = "init" /\ d.leaf_param = NoParam
      /\ d.icursor = 0
  <2>1. <<>> \in Seq(Char) /\ c.root \in Param
    BY <1>0, EmptySeq DEF CursorType
  <2> HIDE DEF d
  <2> QED  BY <1>2, <1>3, <1>4, <1>5, <2>1 DEF CursorType, Char
<1>7. d.stack_checkpoint < Kept(c)
  BY <1>0, <1>6 DEF Kept, CursorType
<1> HIDE DEF d, b
<1>8. Good(d)
  BY <1>1, <1>6, <1>7, PoppedOK DEF gone
<1> QED
  BY <1>6, <1>8 DEF d

LEMMA LevelUpOK ==
  ASSUME NEW c, Good(c), c.cmdtc_state = "init", Len(c.params_stack) > 1
  PROVE  /\ Good(LevelUp(c))
         /\ LevelUp(c).icursor = 0
<1> DEFINE n == Len(c.params_stack) - 1
           e == ExitBackward(c, {Last(c.params_stack)})
           d == LevelUp(c)
           gone == {c.params_stack[i] : i \in n + 1 .. Len(c.params_stack)}
<1>0. c \in CursorType /\ Shape(c)
  BY DEF Good
<1>1. /\ n \in 1 .. Len(c.params_stack) /\ Len(c.params_stack) = Len(c.tlv_stack)
      /\ Len(c.params_stack) \in Nat
      /\ c.stack_checkpoint < Len(c.params_stack) /\ c.stack_checkpoint \in Nat
  BY <1>0, LenProperties DEF Shape, CursorType
<1>2. /\ Front(c.params_stack) = SubSeq(c.params_stack, 1, n)
      /\ Front(c.tlv_stack) = SubSeq(c.tlv_stack, 1, n)
      /\ Front(c.params_stack) \in Seq(Param) /\ Front(c.tlv_stack) \in Seq(TlvType)
      /\ Last(Front(c.params_stack)) \in Param
  <2>1. /\ SubSeq(c.params_stack, 1, n) \in Seq(Param)
        /\ SubSeq(c.tlv_stack, 1, n) \in Seq(TlvType)
        /\ Len(SubSeq(c.params_stack, 1, n)) = n
    BY <1>0, <1>1, SubSeqType DEF CursorType
  <2>2. SubSeq(c.params_stack, 1, n)[n] \in Param
    BY <1>1, <2>1, ElementOfSeq
  <2> QED
    BY <1>1, <2>1, <2>2 DEF Front, Last
<1>3. MarkAfterPop(c) \in Nat /\ MarkAfterPop(c) < n
  BY <1>1 DEF MarkAfterPop, Top
<1>4. gone = {Last(c.params_stack)}
  BY <1>1 DEF Last
<1>5. /\ e \in CursorType
      /\ e.params_stack = c.params_stack /\ e.tlv_stack = c.tlv_stack
      /\ e.is_negate = (c.is_negate /\ \A p \in gone : ~IsNo(p))
      /\ e.cmdtc_state = "init" /\ e.icursor = 0
  <2>1. e \in CursorType
    BY <1>0, ExitBackwardOK
  <2>2. c.icursor = 0
    BY <1>0 DEF Shape
  <2> HIDE DEF gone
  <2> QED  BY <1>0, <1>4, <2>1, <2>2 DEF ExitBackward, CursorType
<1>6. d = [e EXCEPT !.params_stack = Front(c.params_stack),
                    !.tlv_stack = Front(c.tlv_stack),
                    !.filter_checkpoint = IF e.filter_checkpoint = Top(c.params_stack) THEN -1
                                          ELSE e.filter_checkpoint,
                    !.stack_checkpoint = MarkAfterPop(c),
                    !.curr_param = Last(Front(c.params_stack)),
                    !.curr_leaf_value = <<>>,
                    !.matching_params_list = {},
                    !.leaf_param = NoParam]
  BY <1>5 DEF LevelUp
<1> HIDE DEF e, gone
<1>7. /\ d \in CursorType
      /\ d.params_stack = Front(c.params_stack)
      /\ d.tlv_stack = Front(c.tlv_stack)
      /\ d.stack_checkpoint = MarkAfterPop(c)
      /\ d.is_negate = (c.is_negate /\ \A p \in gone : ~IsNo(p))
      /\ d.matching_params_list = {} /\ d.cmdtc_state = "init" /\ d.leaf_param = NoParam
      /\ d.icursor = 0
  <2>1. <<>> \in Seq(Char) /\ NoParam \in ParamOrNull /\ {} \in SUBSET Param
    BY EmptySeq DEF ParamOrNull
  <2> HIDE DEF d, n
  <2> QED  BY <1>2, <1>3, <1>5, <1>6, <2>1 DEF CursorType, Char
<1> HIDE DEF d
<1>8. Good(d)
  BY <1>1, <1>2, <1>3, <1>7, PoppedOK DEF gone
<1> QED
  BY <1>7, <1>8 DEF d

\* The first word of a stack followed by those above the m after it.
LEMMA OwnWords ==
  ASSUME NEW T, NEW s \in Seq(T), NEW m \in Nat, m + 1 < Len(s)
  PROVE  LET own == <<Head(s)>> \o SubSeq(s, m + 2, Len(s)) IN
         /\ own \in Seq(T)
         /\ Len(own) = Len(s) - m
         /\ own[1] = s[1]
         /\ \A i \in 2 .. Len(s) - m : own[i] = s[i + m]
<1> DEFINE above == SubSeq(s, m + 2, Len(s))
           own == <<Head(s)>> \o above
<1>0. Len(s) \in Nat
  BY LenProperties
<1>1. Head(s) = s[1] /\ s[1] \in T
  <2>1. s # <<>>
    BY <1>0, EmptySeq
  <2> QED
    BY <1>0, <2>1, ElementOfSeq
<1>2. /\ above \in Seq(T) /\ Len(above) = Len(s) - m - 1
      /\ \A i \in 1 .. Len(s) - m - 1 : above[i] = s[m + 1 + i]
  <2>1. m + 2 \in Nat \ {0} /\ Len(s) \in Int
    BY <1>0
  <2>2. /\ above \in Seq(T)
        /\ Len(above) = IF m + 2 <= Len(s) THEN Len(s) - (m + 2) + 1 ELSE 0
        /\ \A i \in 1 .. Len(s) - (m + 2) + 1 : above[i] = s[m + 2 + i - 1]
    BY <2>1, SubSeqType
  <2> QED
    BY <1>0, <2>2
<1>3. <<Head(s)>> \in Seq(T) /\ Len(<<Head(s)>>) = 1 /\ <<Head(s)>>[1] = s[1]
  BY <1>1
<1> HIDE DEF above
<1>4. /\ own \in Seq(T) /\ Len(own) = 1 + Len(above)
      /\ \A i \in 1 .. 1 + Len(above) :
            own[i] = IF i <= 1 THEN <<Head(s)>>[i] ELSE above[i - 1]
  BY <1>2, <1>3, ConcatProperties
<1> HIDE DEF own
<1>5. own[1] = s[1]
  BY <1>0, <1>2, <1>3, <1>4
<1>6. \A i \in 2 .. Len(s) - m : own[i] = s[i + m]
  <2>1. SUFFICES ASSUME NEW i \in 2 .. Len(s) - m  PROVE own[i] = s[i + m]
    OBVIOUS
  <2>2. own[i] = above[i - 1] /\ i - 1 \in 1 .. Len(s) - m - 1
    BY <1>0, <1>2, <1>4, <2>1
  <2> QED
    BY <1>0, <1>2, <2>1, <2>2
<1>7. Len(own) = Len(s) - m
  BY <1>0, <1>2, <1>4
<1> QED
  BY <1>4, <1>5, <1>6, <1>7 DEF own, above

\* Leaving the m outer words out takes the "no" along, if it was among them.
LEMMA OneNoOfOwn ==
  ASSUME NEW s, NEW t, NEW l \in Nat, NEW m \in Nat \ {0}, m + 1 < l,
         DOMAIN s = 1 .. l, DOMAIN t = 1 .. l - m,
         t[1] = s[1], \A i \in 2 .. l - m : t[i] = s[i + m],
         \A i, j \in NoAt(s) : i = j
  PROVE  /\ \A i, j \in NoAt(t) : i = j
         /\ NoAt(t) # {} <=> NoAt(s) # {} /\ \A i \in 2 .. m + 1 : i \notin NoAt(s)
<1> DEFINE f(i) == IF i = 1 THEN 1 ELSE i + m
<1>1. \A i \in 1 .. l - m : f(i) \in 1 .. l /\ f(i) \notin 2 .. m + 1 /\ t[i] = s[f(i)]
  OBVIOUS
<1>2. \A i, j \in 1 .. l - m : f(i) = f(j) => i = j
  OBVIOUS
<1>3. \A k \in 1 .. l : k \in 2 .. m + 1 \/ \E i \in 1 .. l - m : k = f(i)
  <2>1. SUFFICES ASSUME NEW k \in 1 .. l, k \notin 2 .. m + 1
                 PROVE  \E i \in 1 .. l - m : k = f(i)
    OBVIOUS
  <2>2. CASE k = 1
    BY <2>2
  <2>3. CASE k > m + 1
    <3>1. k - m \in 1 .. l - m /\ f(k - m) = k
      BY <2>3
    <3> QED
      BY <3>1
  <2> QED
    BY <2>1, <2>2, <2>3
<1> HIDE DEF f
<1>4. \A i : i \in NoAt(t) <=> i \in 1 .. l - m /\ f(i) \in NoAt(s)
  <2>1. \A i : i \in NoAt(t) <=> i \in 1 .. l - m /\ IsNo(t[i])
    BY Zenon DEF NoAt
  <2>2. \A k : k \in NoAt(s) <=> k \in 1 .. l /\ IsNo(s[k])
    BY Zenon DEF NoAt
  <2>3. \A i \in 1 .. l - m : f(i) \in 1 .. l /\ t[i] = s[f(i)]
    BY <1>1
  <2> QED
    BY <2>1, <2>2, <2>3, Zenon
<1>5. \A i, j \in NoAt(t) : i = j
  BY <1>2, <1>4
<1>6. ASSUME NoAt(t) # {}
      PROVE  NoAt(s) # {} /\ \A i \in 2 .. m + 1 : i \notin NoAt(s)
  <2>1. PICK i : i \in NoAt(t)
    BY <1>6
  <2>2. i \in 1 .. l - m /\ f(i) \in NoAt(s)
    BY <1>4, <2>1
  <2>3. \A k \in NoAt(s) : k = f(i)
    BY <2>2
  <2> QED
    BY <1>1, <2>2, <2>3
<1>7. ASSUME NEW k \in NoAt(s), \A i \in 2 .. m + 1 : i \notin NoAt(s)
      PROVE  NoAt(t) # {}
  <2>1. k \in 1 .. l /\ k \notin 2 .. m + 1
    BY <1>7 DEF NoAt
  <2> QED
    BY <1>3, <1>4, <2>1
<1> QED
  BY <1>5, <1>6, <1>7

LEMMA WithoutOuterOK ==
  ASSUME NEW c, Good(c), Nested(c), c.cmdtc_state = "init"
  PROVE  Good(WithoutOuter(c)) /\ WithoutOuter(c).cmdtc_state = "init"
<1> DEFINE m == c.stack_checkpoint
           own(s) == <<Head(s)>> \o SubSeq(s, m + 2, Len(s))
           gone == {c.params_stack[i] : i \in 2 .. m + 1}
           stack == own(c.params_stack)
           tlvs == own(c.tlv_stack)
           e == ExitBackward(c, gone)
           d == WithoutOuter(c)
           l == Len(c.params_stack)
<1>0. c \in CursorType /\ Shape(c) /\ InStep(c) /\ OneNo(c)
  BY DEF Good
<1>1. /\ c.params_stack \in Seq(Param) /\ c.tlv_stack \in Seq(TlvType)
      /\ l \in Nat /\ Len(c.tlv_stack) = l
      /\ m \in Nat \ {0} /\ m + 1 < l
      /\ DOMAIN c.params_stack = 1 .. l
  BY <1>0, LenProperties DEF Nested, Top, Shape, CursorType
<1>2. /\ stack \in Seq(Param) /\ Len(stack) = l - m
      /\ stack[1] = c.params_stack[1]
      /\ \A i \in 2 .. l - m : stack[i] = c.params_stack[i + m]
  BY <1>1, OwnWords, ZenonT(30)
<1>3. /\ tlvs \in Seq(TlvType) /\ Len(tlvs) = l - m
      /\ tlvs[1] = c.tlv_stack[1]
      /\ \A i \in 2 .. l - m : tlvs[i] = c.tlv_stack[i + m]
  <2>1. c.tlv_stack \in Seq(TlvType) /\ m \in Nat /\ m + 1 < Len(c.tlv_stack)
        /\ Len(c.tlv_stack) = l
    BY <1>1
  <2>2. /\ tlvs \in Seq(TlvType) /\ Len(tlvs) = Len(c.tlv_stack) - m
        /\ tlvs[1] = c.tlv_stack[1]
        /\ \A i \in 2 .. Len(c.tlv_stack) - m : tlvs[i] = c.tlv_stack[i + m]
    <3> HIDE DEF m, l
    <3> QED  BY <2>1, OwnWords
  <2> HIDE DEF tlvs
  <2> QED  BY <2>1, <2>2
<1>4. DOMAIN stack = 1 .. l - m
  BY <1>2, LenProperties
<1>5. /\ e \in CursorType
      /\ e.params_stack = c.params_stack /\ e.tlv_stack = c.tlv_stack
      /\ e.is_negate = (c.is_negate /\ \A p \in gone : ~IsNo(p))
      /\ e.matching_params_list = c.matching_params_list /\ e.leaf_param = c.leaf_param
      /\ e.cmdtc_state = c.cmdtc_state /\ e.icursor = c.icursor
      /\ e.curr_leaf_value = c.curr_leaf_value
  <2> HIDE DEF gone, own, stack, tlvs, m, l
  <2>1. e \in CursorType
    BY <1>0, ExitBackwardOK
  <2>2. c \in CursorType
    BY <1>0
  <2>3. e.is_negate = (c.is_negate /\ \A p \in gone : ~IsNo(p))
    BY <2>2 DEF ExitBackward, CursorType
  <2>4. /\ e.params_stack = c.params_stack /\ e.tlv_stack = c.tlv_stack
        /\ e.matching_params_list = c.matching_params_list /\ e.leaf_param = c.leaf_param
        /\ e.cmdtc_state = c.cmdtc_state /\ e.icursor = c.icursor
        /\ e.curr_leaf_value = c.curr_leaf_value
    BY <2>2 DEF ExitBackward, CursorType
  <2> QED
    BY <2>1, <2>3, <2>4
<1>6. d = [e EXCEPT !.params_stack = stack, !.tlv_stack = tlvs,
                    !.stack_checkpoint = Top(stack), !.root = RootHook,
                    !.curr_param = Last(c.params_stack)]
  BY <1>5 DEF WithoutOuter
<1>7. /\ Top(stack) \in Nat /\ Top(stack) < Len(stack)
      /\ RootHook \in Param /\ Last(c.params_stack) \in Param
  <2> HIDE DEF stack
  <2>1. Top(stack) \in Nat /\ Top(stack) < Len(stack)
    BY <1>1, <1>2 DEF Top
  <2>2. l \in 1 .. Len(c.params_stack)
    BY <1>1
  <2>3. Last(c.params_stack) \in Param
    BY <1>1, <2>2, ElementOfSeq DEF Last
  <2> QED
    BY <2>1, <2>3, NullAssumption
<1> HIDE DEF e, gone, stack, tlvs, d
<1>8. /\ d \in CursorType
      /\ d.params_stack = stack /\ d.tlv_stack = tlvs /\ d.stack_checkpoint = Top(stack)
      /\ d.is_negate = (c.is_negate /\ \A p \in gone : ~IsNo(p))
      /\ d.matching_params_list = c.matching_params_list /\ d.leaf_param = c.leaf_param
      /\ d.cmdtc_state = c.cmdtc_state /\ d.icursor = c.icursor
      /\ d.curr_leaf_value = c.curr_leaf_value
      /\ d.curr_param = Last(c.params_stack)
  BY <1>2, <1>3, <1>5, <1>6, <1>7 DEF CursorType
<1>9. OneNo(d)
  <2>1. /\ \A i, j \in NoAt(stack) : i = j
        /\ NoAt(stack) # {} <=> NoAt(c.params_stack) # {} /\
                                \A i \in 2 .. m + 1 : i \notin NoAt(c.params_stack)
    <3>1. \A i, j \in NoAt(c.params_stack) : i = j
      BY <1>0 DEF OneNo
    <3> HIDE DEF l, m
    <3> QED  BY <1>1, <1>2, <1>4, <3>1, OneNoOfOwn
  <2>2. d.is_negate <=> c.is_negate /\ \A i \in 2 .. m + 1 : i \notin NoAt(c.params_stack)
    <3>1. \A i \in 2 .. m + 1 : i \in DOMAIN c.params_stack
      BY <1>1
    <3>2. d.is_negate <=> c.is_negate /\ \A i \in 2 .. m + 1 : ~IsNo(c.params_stack[i])
      BY <1>8, Zenon DEF gone
    <3> QED
      BY <3>1, <3>2, Zenon DEF NoAt
  <2>3. /\ c.is_negate <=> NoAt(c.params_stack) # {}
        /\ c.is_negate => \A p \in c.matching_params_list : ~IsNo(p)
    BY <1>0 DEF OneNo
  <2> QED
    BY <1>8, <2>1, <2>2, <2>3 DEF OneNo
<1>10. Shape(d)
  <2>1. c.icursor = 0 /\ (c.leaf_param # NoParam => IsLeaf(c.leaf_param))
    BY <1>0 DEF Shape
  <2> QED
    BY <1>2, <1>3, <1>7, <1>8, <2>1 DEF Shape
<1>11. InStep(d)
  <2>1. \A i \in 1 .. l : c.tlv_stack[i].param = c.params_stack[i]
    BY <1>0, <1>1 DEF InStep
  <2>2. \A i \in 1 .. l - m : i = 1 \/ i \in 2 .. l - m
    BY <1>1
  <2>3. /\ 1 \in 1 .. l
        /\ \A i \in 2 .. l - m : i + m \in 1 .. l
    BY <1>1
  <2>4. \A i \in 1 .. l - m : tlvs[i].param = stack[i]
    BY <1>2, <1>3, <2>1, <2>2, <2>3
  <2> QED
    BY <1>4, <1>8, <2>4 DEF InStep
<1> QED
  BY <1>8, <1>9, <1>10, <1>11 DEF Good, d

\* A cursor that moved within a word: nothing was pushed or popped.
LEMMA SameStacksOK ==
  ASSUME NEW c, Good(c), NEW d \in CursorType,
         d.params_stack = c.params_stack, d.tlv_stack = c.tlv_stack,
         d.stack_checkpoint = c.stack_checkpoint, d.is_negate = c.is_negate,
         \A p \in d.matching_params_list : c.is_negate => ~IsNo(p),
         d.leaf_param # NoParam => IsLeaf(d.leaf_param),
         d.cmdtc_state = "init" <=> d.icursor = 0,
         d.cmdtc_state = "multiple_matches" => d.matching_params_list # {},
         d.cmdtc_state = "single_word_match" => d.curr_param \in d.matching_params_list,
         d.cmdtc_state = "matching_leaf" =>
            d.icursor = Len(d.curr_leaf_value) /\ d.curr_param = d.leaf_param
  PROVE  Good(d)
<1>0. Shape(c) /\ InStep(c) /\ OneNo(c)
  BY DEF Good
<1>1. Shape(d)
  BY <1>0 DEF Shape
<1>2. InStep(d)
  BY <1>0 DEF InStep
<1>3. OneNo(d)
  BY <1>0 DEF OneNo
<1> QED
  BY <1>1, <1>2, <1>3 DEF Good

-----------------------------------------------------------------------------
(* Matching keys against the tree.                                         *)

OptionsType == options \in [Param -> [Slot -> ParamOrNull]]

LEMMA CandidatesOK ==
  ASSUME NEW c, Good(c), OptionsType
  PROVE  /\ Candidates(c) \in SUBSET Param
         /\ \A p \in Candidates(c) : c.is_negate => ~IsNo(p)
         /\ KnownLeaf(c) \in ParamOrNull
         /\ KnownLeaf(c) # NoParam => IsLeaf(KnownLeaf(c))
         /\ c.cmdtc_state = "matching_leaf" => KnownLeaf(c) = c.leaf_param
<1>0. c \in CursorType /\ Shape(c) /\ OneNo(c)
  BY DEF Good
<1>1. OptionsIn(options[c.curr_param]) \subseteq Param
  <2>1. c.curr_param \in Param
    BY <1>0 DEF CursorType
  <2>2. options[c.curr_param] \in [Slot -> ParamOrNull]
    BY <2>1 DEF OptionsType
  <2> QED
    BY <2>2 DEF OptionsIn, ParamOrNull
<1>2. Followers(c) \subseteq Param /\ \A p \in Followers(c) : ~(IsNo(p) /\ c.is_negate)
  BY <1>1 DEF Followers
<1>3. /\ Keywords(c) \subseteq Param
      /\ \A p \in Keywords(c) : c.is_negate => ~IsNo(p)
  BY <1>2 DEF Keywords
<1>4. /\ LeafOption(c) \in ParamOrNull
      /\ LeafOption(c) # NoParam => IsLeaf(LeafOption(c))
  <2>1. CASE \E p \in Followers(c) : IsLeaf(p)
    <3> DEFINE leaf == CHOOSE p \in Followers(c) : IsLeaf(p)
    <3>1. leaf \in Followers(c) /\ IsLeaf(leaf)
      BY <2>1, Zenon
    <3>2. LeafOption(c) = leaf
      BY <2>1 DEF LeafOption
    <3> HIDE DEF leaf
    <3> QED
      BY <1>2, <3>1, <3>2 DEF ParamOrNull
  <2>2. CASE ~\E p \in Followers(c) : IsLeaf(p)
    BY <2>2 DEF LeafOption, ParamOrNull
  <2> QED
    BY <2>1, <2>2
<1>5. /\ c.matching_params_list \subseteq Param
      /\ \A p \in c.matching_params_list : c.is_negate => ~IsNo(p)
      /\ c.leaf_param \in ParamOrNull
      /\ c.leaf_param # NoParam => IsLeaf(c.leaf_param)
  BY <1>0 DEF CursorType, OneNo, Shape
<1>6. CASE Fresh(c)
  <2>1. c.cmdtc_state # "matching_leaf"
    BY <1>6 DEF Fresh
  <2> QED
    BY <1>3, <1>4, <1>6, <2>1 DEF Candidates, KnownLeaf
<1>7. CASE ~Fresh(c)
  BY <1>5, <1>7 DEF Candidates, KnownLeaf
<1> QED
  BY <1>6, <1>7

LEMMA SaveOK ==
  ASSUME NEW c \in CursorType, NEW leaf, NEW keys \in Seq(Key)
  PROVE  /\ Save(c, leaf, keys) \in Seq(Char)
         /\ leaf # NoParam => Len(Save(c, leaf, keys)) = c.icursor + Len(keys)
<1>1. keys \in Seq(Char)
  BY SeqMonotonic DEF Char
<1>2. c.curr_leaf_value \in Seq(Char) /\ c.icursor \in Nat
  BY DEF CursorType, Char
<1> QED
  BY <1>1, <1>2, SaveAtType DEF Save

LEMMA AutoTypedOK ==
  ASSUME NEW c \in CursorType, NEW keys \in Seq(Key)
  PROVE  LET d == AutoTyped(c, keys) IN
         /\ d \in CursorType
         /\ d.icursor = c.icursor + Len(keys)
         /\ d.params_stack = c.params_stack /\ d.tlv_stack = c.tlv_stack
         /\ d.stack_checkpoint = c.stack_checkpoint /\ d.is_negate = c.is_negate
         /\ d.matching_params_list = c.matching_params_list
         /\ d.leaf_param = c.leaf_param /\ d.cmdtc_state = c.cmdtc_state
         /\ d.curr_param = c.curr_param
<1> DEFINE v == Save(c, c.leaf_param, keys)
           i == c.icursor + Len(keys)
<1>1. v \in Seq(Char) /\ i \in Nat
  <2>1. v \in Seq(Char) /\ Len(keys) \in Nat
    BY SaveOK, LenProperties
  <2> QED
    BY <2>1 DEF CursorType
<1>2. AutoTyped(c, keys) = [c EXCEPT !.icursor = i, !.curr_leaf_value = v]
  BY DEF AutoTyped
<1> HIDE DEF v
<1> SUFFICES LET d == [c EXCEPT !.icursor = i, !.curr_leaf_value = v] IN
         /\ d \in CursorType
         /\ d.icursor = i
         /\ d.params_stack = c.params_stack /\ d.tlv_stack = c.tlv_stack
         /\ d.stack_checkpoint = c.stack_checkpoint /\ d.is_negate = c.is_negate
         /\ d.matching_params_list = c.matching_params_list
         /\ d.leaf_param = c.leaf_param /\ d.cmdtc_state = c.cmdtc_state
         /\ d.curr_param = c.curr_param
  BY <1>2
<1> HIDE DEF i
<1> QED
  BY <1>1 DEF CursorType, Char

LEMMA OneWordOK ==
  ASSUME NEW c, Good(c), OptionsType, NEW p \in OneWord(c)
  PROVE  p \in Param /\ (c.is_negate => ~IsNo(p))
<1>0. c \in CursorType /\ Shape(c) /\ OneNo(c)
  BY DEF Good
<1>1. /\ c.curr_param \in Param /\ c.matching_params_list \subseteq Param
      /\ \A q \in c.matching_params_list : c.is_negate => ~IsNo(q)
      /\ c.cmdtc_state \in {"init", "multiple_matches", "single_word_match", "matching_leaf"}
  BY <1>0 DEF CursorType, OneNo
<1>2. CASE c.cmdtc_state = "init"
  <2>1. p \in Candidates(c)
    BY <1>2 DEF OneWord
  <2> QED
    BY <2>1, CandidatesOK
<1>3. CASE c.cmdtc_state = "multiple_matches"
  <2>1. p \in c.matching_params_list
    BY <1>3 DEF OneWord, Exact
  <2> QED
    BY <1>1, <2>1
<1>4. CASE c.cmdtc_state = "single_word_match"
  <2>1. p = c.curr_param
    BY <1>4 DEF OneWord
  <2>2. c.curr_param \in c.matching_params_list
    BY <1>0, <1>4 DEF Shape
  <2> QED
    BY <1>1, <2>1, <2>2
<1>5. CASE c.cmdtc_state = "matching_leaf"
  <2>1. p = c.curr_param
    BY <1>5 DEF OneWord
  <2>2. c.curr_param = c.leaf_param /\ (c.leaf_param # NoParam => IsLeaf(c.leaf_param))
    BY <1>0, <1>5 DEF Shape
  <2>3. c.curr_param # NoParam
    BY <1>1, NullAssumption
  <2> QED
    BY <1>1, <2>1, <2>2, <2>3 DEF IsLeaf, IsNo
<1> QED
  BY <1>1, <1>2, <1>3, <1>4, <1>5

LEMMA MissingOK ==
  ASSUME NEW c \in CursorType, NEW p \in Param
  PROVE  Missing(c, p) \in Seq(Key)
<1>1. Name[p] \in Seq(Key) /\ Len(Name[p]) \in Nat /\ c.icursor + 1 \in Nat \ {0}
  <2>1. Name[p] \in Seq(Key)
    BY KindAssumption
  <2>2. c.icursor \in Nat
    BY DEF CursorType
  <2> QED
    BY <2>1, <2>2, LenProperties
<1>2. SubSeq(Name[p], c.icursor + 1, Len(Name[p])) \in Seq(Key)
  BY <1>1, SubSeqType
<1>3. <<>> \in Seq(Key)
  BY EmptySeq
<1> QED
  BY <1>2, <1>3 DEF Missing

LEMMA FirstNOK ==
  ASSUME NEW T, NEW s \in Seq(T), NEW n \in Nat
  PROVE  /\ FirstN(s, n) \in Seq(T)
         /\ Len(FirstN(s, n)) = IF n < Len(s) THEN n ELSE Len(s)
<1>1. Len(s) \in Nat
  BY LenProperties
<1>2. CASE n < Len(s)
  <2>1. 1 \in Nat \ {0} /\ n \in Int /\ n <= Len(s)
    BY <1>1, <1>2
  <2>2. /\ SubSeq(s, 1, n) \in Seq(T)
        /\ Len(SubSeq(s, 1, n)) = IF 1 <= n THEN n - 1 + 1 ELSE 0
    BY <2>1, SubSeqType
  <2> QED
    BY <1>2, <2>2 DEF FirstN
<1>3. CASE ~(n < Len(s))
  BY <1>3 DEF FirstN
<1> QED
  BY <1>2, <1>3

LEMMA ParseCharOK ==
  ASSUME NEW c, Good(c), OptionsType, NEW k \in Key, Accepts(c, k)
  PROVE  Good(ParseChar(c, k)) /\ ParseChar(c, k).icursor = c.icursor + 1
<1> DEFINE leaf == KnownLeaf(c)
           m == Matched(c, k)
           v == Save(c, leaf, <<k>>)
           typed == [c EXCEPT !.icursor = c.icursor + 1, !.curr_leaf_value = v]
           d == ParseChar(c, k)
<1>0. c \in CursorType /\ Shape(c) /\ OneNo(c) /\ c.icursor \in Nat
  BY DEF Good, CursorType
<1>1. /\ leaf \in ParamOrNull
      /\ leaf # NoParam => IsLeaf(leaf)
      /\ c.cmdtc_state = "matching_leaf" => leaf = c.leaf_param
      /\ m \in SUBSET Param
      /\ \A p \in m : c.is_negate => ~IsNo(p)
  BY CandidatesOK DEF Matched
<1>2. v \in Seq(Char) /\ (leaf # NoParam => Len(v) = c.icursor + 1)
  <2>1. <<k>> \in Seq(Key) /\ Len(<<k>>) = 1
    OBVIOUS
  <2> QED
    BY <1>0, <2>1, SaveOK
<1> HIDE DEF leaf, m, v
<1>3. /\ typed \in CursorType /\ typed.icursor = c.icursor + 1 /\ typed.curr_leaf_value = v
      /\ typed.params_stack = c.params_stack /\ typed.tlv_stack = c.tlv_stack
      /\ typed.stack_checkpoint = c.stack_checkpoint /\ typed.is_negate = c.is_negate
      /\ typed.matching_params_list = c.matching_params_list
      /\ typed.leaf_param = c.leaf_param /\ typed.cmdtc_state = c.cmdtc_state
      /\ typed.curr_param = c.curr_param
  <2>1. c.icursor + 1 \in Nat
    BY <1>0
  <2> QED
    BY <1>0, <1>2, <2>1 DEF CursorType, Char
<1> HIDE DEF typed
<1>4. CASE c.cmdtc_state = "matching_leaf"
  <2>1. d = typed
    BY <1>4 DEF ParseChar, typed, v, leaf
  <2>2. c.curr_param = c.leaf_param /\ c.curr_param \in Param /\ c.icursor > 0
    BY <1>0, <1>4 DEF Shape, CursorType
  <2>3. leaf # NoParam /\ leaf = c.leaf_param
    BY <1>1, <1>4, <2>2, NullAssumption
  <2>4. Good(typed)
    <3>1. \A p \in c.matching_params_list : c.is_negate => ~IsNo(p)
      BY <1>0 DEF OneNo
    <3>2. typed.cmdtc_state # "init" /\ typed.icursor # 0
      BY <1>0, <1>3, <1>4
    <3>3. typed.cmdtc_state # "multiple_matches" /\ typed.cmdtc_state # "single_word_match"
      BY <1>3, <1>4
    <3> QED
      BY <1>1, <1>2, <1>3, <2>2, <2>3, <3>1, <3>2, <3>3, SameStacksOK
  <2> QED
    BY <1>3, <2>1, <2>4
<1>5. CASE c.cmdtc_state # "matching_leaf" /\ m = {}
  <2>1. d = [typed EXCEPT !.cmdtc_state = "matching_leaf", !.leaf_param = leaf,
                          !.curr_param = leaf]
    BY <1>5 DEF ParseChar, typed, v, leaf, m
  <2>2. leaf # NoParam /\ leaf \in Param
    BY <1>1, <1>5 DEF Accepts, leaf, m, ParamOrNull
  <2> HIDE DEF d
  <2>3. /\ d \in CursorType /\ d.icursor = c.icursor + 1 /\ d.curr_leaf_value = v
        /\ d.params_stack = c.params_stack /\ d.tlv_stack = c.tlv_stack
        /\ d.stack_checkpoint = c.stack_checkpoint /\ d.is_negate = c.is_negate
        /\ d.matching_params_list = c.matching_params_list
        /\ d.leaf_param = leaf /\ d.cmdtc_state = "matching_leaf" /\ d.curr_param = leaf
    BY <1>1, <1>3, <2>1, <2>2 DEF CursorType
  <2>4. \A p \in c.matching_params_list : c.is_negate => ~IsNo(p)
    BY <1>0 DEF OneNo
  <2>5. d.icursor # 0
    BY <1>0, <2>3
  <2>6. Good(d)
    BY <1>1, <1>2, <2>2, <2>3, <2>4, <2>5, SameStacksOK
  <2> QED
    BY <2>3, <2>6 DEF d
<1>6. CASE c.cmdtc_state # "matching_leaf" /\ m # {} /\ Cardinality(m) > 1
  <2>1. d = [typed EXCEPT !.cmdtc_state = "multiple_matches", !.leaf_param = leaf,
                          !.matching_params_list = m]
    BY <1>6 DEF ParseChar, typed, v, leaf, m
  <2> HIDE DEF d
  <2>3. /\ d \in CursorType /\ d.icursor = c.icursor + 1
        /\ d.params_stack = c.params_stack /\ d.tlv_stack = c.tlv_stack
        /\ d.stack_checkpoint = c.stack_checkpoint /\ d.is_negate = c.is_negate
        /\ d.matching_params_list = m
        /\ d.leaf_param = leaf /\ d.cmdtc_state = "multiple_matches"
    BY <1>1, <1>3, <2>1 DEF CursorType
  <2>5. d.icursor # 0
    BY <1>0, <2>3
  <2>6. Good(d)
    BY <1>1, <1>6, <2>3, <2>5, SameStacksOK
  <2> QED
    BY <2>3, <2>6 DEF d
<1>7. CASE c.cmdtc_state # "matching_leaf" /\ m # {} /\ ~(Cardinality(m) > 1)
  <2> DEFINE q == CHOOSE p \in m : TRUE
             w == IF c.cmdtc_state = "multiple_matches" THEN c.curr_leaf_value ELSE v
  <2>1. d = [typed EXCEPT !.cmdtc_state = "single_word_match", !.leaf_param = leaf,
                          !.matching_params_list = m, !.curr_param = q,
                          !.curr_leaf_value = w]
    BY <1>3, <1>7 DEF ParseChar, typed, v, leaf, m
  <2>2. q \in m /\ q \in Param
    <3>1. \E p \in m : TRUE
      BY <1>7
    <3>2. q \in m
      BY <3>1, Zenon
    <3> QED
      BY <1>1, <3>2
  <2>3. w \in Seq(Char)
    BY <1>0, <1>2 DEF CursorType, Char
  <2> HIDE DEF d, q, w
  <2>4. /\ d \in CursorType /\ d.icursor = c.icursor + 1
        /\ d.params_stack = c.params_stack /\ d.tlv_stack = c.tlv_stack
        /\ d.stack_checkpoint = c.stack_checkpoint /\ d.is_negate = c.is_negate
        /\ d.matching_params_list = m
        /\ d.leaf_param = leaf /\ d.cmdtc_state = "single_word_match"
        /\ d.curr_param = q
    BY <1>1, <1>3, <2>1, <2>2, <2>3 DEF CursorType, Char
  <2>5. d.icursor # 0
    BY <1>0, <2>4
  <2>6. Good(d)
    BY <1>1, <2>2, <2>4, <2>5, SameStacksOK
  <2> QED
    BY <2>4, <2>6 DEF d
<1> QED
  BY <1>4, <1>5, <1>6, <1>7

-----------------------------------------------------------------------------
(* Submitting a command.                                                   *)

LEMMA InitCursorOK ==
  /\ Good(InitCursor)
  /\ \A b \in BOOLEAN : /\ Good([InitCursor EXCEPT !.refresh_disabled = b])
                        /\ [InitCursor EXCEPT !.refresh_disabled = b].icursor = 0
  /\ InitCursor.icursor = 0
  /\ InitCursor.tlv_stack \in Seq(TlvType)
  /\ Len(InitCursor.tlv_stack) = 1
<1>1. RootHook \in Param /\ ~IsNo(RootHook)
  BY NullAssumption, KindAssumption DEF IsNo
<1>2. <<>> \in Seq(Char)
  BY EmptySeq
<1>3. Tlv(RootHook, <<>>) \in TlvType /\ Tlv(RootHook, <<>>).param = RootHook
  BY <1>1, <1>2, TlvTyped
<1>4. InitCursor \in CursorType
  <2>1. <<RootHook>> \in Seq(Param) /\ <<Tlv(RootHook, <<>>)>> \in Seq(TlvType)
    BY <1>1, <1>3
  <2>2. -1 \in Nat \cup {-1} /\ 0 \in Nat /\ {} \in SUBSET Param /\ NoParam \in ParamOrNull
    BY DEF ParamOrNull
  <2> QED
    BY <1>1, <1>2, <2>1, <2>2 DEF InitCursor, CursorType, Char
<1>5. NoAt(<<RootHook>>) = {}
  BY <1>1 DEF NoAt
<1>6. /\ InitCursor.params_stack = <<RootHook>>
      /\ InitCursor.tlv_stack = <<Tlv(RootHook, <<>>)>>
      /\ InitCursor.stack_checkpoint = 0 /\ InitCursor.leaf_param = NoParam
      /\ InitCursor.cmdtc_state = "init" /\ InitCursor.icursor = 0
      /\ InitCursor.is_negate = FALSE /\ InitCursor.matching_params_list = {}
  BY DEF InitCursor
<1>7. Good(InitCursor)
  <2>1. Shape(InitCursor)
    BY <1>6 DEF Shape
  <2>2. InStep(InitCursor)
    BY <1>3, <1>6 DEF InStep
  <2>3. OneNo(InitCursor)
    BY <1>5, <1>6 DEF OneNo
  <2> QED
    BY <1>4, <2>1, <2>2, <2>3 DEF Good
<1>8. ASSUME NEW b \in BOOLEAN
      PROVE  /\ Good([InitCursor EXCEPT !.refresh_disabled = b])
             /\ [InitCursor EXCEPT !.refresh_disabled = b].icursor = 0
  <2> DEFINE d == [InitCursor EXCEPT !.refresh_disabled = b]
  <2>1. /\ d \in CursorType
        /\ d.params_stack = InitCursor.params_stack /\ d.tlv_stack = InitCursor.tlv_stack
        /\ d.stack_checkpoint = InitCursor.stack_checkpoint
        /\ d.is_negate = InitCursor.is_negate
        /\ d.leaf_param = NoParam /\ d.cmdtc_state = "init" /\ d.icursor = 0
        /\ d.matching_params_list = {}
    BY <1>4, <1>6 DEF CursorType
  <2> HIDE DEF d
  <2>2. Good(d)
    BY <1>7, <2>1, SameStacksOK
  <2> QED
    BY <2>1, <2>2 DEF d
<1>9. InitCursor.tlv_stack \in Seq(TlvType) /\ Len(InitCursor.tlv_stack) = 1
  BY <1>3, <1>6
<1> QED
  BY <1>6, <1>7, <1>8, <1>9

\* The prompt after a command is a string, whatever the command did to it.
LEMMA SubmitOK ==
  ASSUME NEW c, Good(c), NEW h \in Seq(PromptChar), Submit(c, h)
  PROVE  /\ cmdtc' = Reset(c)
         /\ status' \in {status, "corrupt"}
         /\ hdr' \in Seq(PromptChar)
<1> DEFINE x == Executing(c)
<1>0. c \in CursorType /\ Shape(c)
  BY DEF Good
<1>1. x.tlv_stack \in Seq(TlvType) /\ Len(x.tlv_stack) > 0
  <2>1. CASE ~Nested(c)
    <3>1. x = c
      BY <2>1 DEF Executing
    <3> HIDE DEF x
    <3> QED
      BY <1>0, <3>1, LenProperties DEF Shape, CursorType
  <2>2. CASE Nested(c)
    <3> DEFINE own == SubSeq(c.tlv_stack, c.stack_checkpoint + 2, Len(c.tlv_stack))
    <3>1. c.tlv_stack \in Seq(TlvType) /\ c.stack_checkpoint \in Nat
      BY <1>0 DEF CursorType
    <3>2. own \in Seq(TlvType) /\ Len(own) \in Nat
      <4>1. Len(c.tlv_stack) \in Int /\ c.stack_checkpoint + 2 \in Nat \ {0}
        BY <3>1, LenProperties
      <4>2. own \in Seq(TlvType)
        BY <3>1, <4>1, SubSeqType
      <4> HIDE DEF own
      <4> QED  BY <4>2, LenProperties
    <3>3. x.tlv_stack = InitCursor.tlv_stack \o own
      BY <2>2 DEF Executing, InitCursor
    <3> HIDE DEF own, x
    <3>4. /\ InitCursor.tlv_stack \o own \in Seq(TlvType)
          /\ Len(InitCursor.tlv_stack \o own) = Len(InitCursor.tlv_stack) + Len(own)
      BY <3>2, InitCursorOK, ConcatProperties
    <3> QED
      BY <3>2, <3>3, <3>4, InitCursorOK
  <2> QED
    BY <2>1, <2>2
<1> HIDE DEF x
<1>2. Last(x.tlv_stack).value \in Seq(PromptChar)
  <2>1. Len(x.tlv_stack) \in 1 .. Len(x.tlv_stack)
    BY <1>1, LenProperties
  <2>2. Last(x.tlv_stack) \in TlvType
    BY <1>1, <2>1, ElementOfSeq DEF Last
  <2>3. Last(x.tlv_stack).value \in Seq(Key)
    BY <2>2 DEF TlvType
  <2> QED
    BY <2>3, SeqMonotonic DEF PromptChar
<1>3. \A done : PromptAfter(x, done, h) \in Seq(PromptChar)
  BY <1>2, LineAssumption DEF PromptAfter
<1>4. cmdtc' = Reset(c) /\ status' \in {status, "corrupt"}
  BY DEF Submit, Triggered
<1>5. hdr' \in Seq(PromptChar)
  BY <1>3 DEF Submit, x
<1> QED
  BY <1>4, <1>5

-----------------------------------------------------------------------------
(* Every action keeps the invariant.                                       *)

LineChar == Key \cup {" "}
Statuses == {"running", "spinning", "aborted", "corrupt"}

\* What an action may take from the invariant, and what it has to show for it.
LEMMA Before ==
  ASSUME Inv, Reading
  PROVE  /\ Good(cmdtc) /\ OptionsType
         /\ hdr \in Seq(PromptChar) /\ line \in Seq(LineChar)
         /\ status = "running"
         /\ Len(line) \in Nat /\ Len(hdr) \in Nat
         /\ MAX_COMMAND_LENGTH - Used \in Nat \ {0}
         /\ cmdtc.icursor \in Nat /\ cmdtc.icursor <= Len(line)
<1>1. status = "running" /\ hdr \in Seq(PromptChar) /\ line \in Seq(LineChar)
  BY DEF Inv, TypeOK, Reading, LineChar
<1>2. Len(line) \in Nat /\ Len(hdr) \in Nat
  BY <1>1, LenProperties
<1>3. MAX_COMMAND_LENGTH - Used \in Nat \ {0}
  <2>1. MAX_COMMAND_LENGTH \in Nat
    BY LineAssumption
  <2> QED
    BY <1>2, <2>1 DEF Reading, Used
<1>4. Good(cmdtc) /\ OptionsType /\ cmdtc.icursor <= Len(line)
  BY <1>1 DEF Inv, TypeOK, OptionsType
<1>5. cmdtc.icursor \in Nat
  BY <1>4 DEF Good, CursorType
<1> QED
  BY <1>1, <1>2, <1>3, <1>4, <1>5

LEMMA After ==
  ASSUME options' \in [Param -> [Slot -> ParamOrNull]],
         Good(cmdtc'),
         status' # "corrupt" => hdr' \in Seq(PromptChar),
         line' \in Seq(LineChar),
         status' \in Statuses,
         cmdtc'.icursor <= Len(line')
  PROVE  Inv'
<1>1. cmdtc' \in CursorType
  BY DEF Good
<1>2. TypeOK'
  BY <1>1 DEF TypeOK, LineChar, Statuses
<1> QED
  BY <1>2 DEF Inv

LEMMA TypeCharStep ==
  ASSUME Inv, NEW k \in Key, TypeChar(k)
  PROVE  Inv'
<1>1. Reading /\ Accepts(cmdtc, k) /\ cmdtc' = ParseChar(cmdtc, k) /\ line' = Append(line, k)
      /\ status' \in {status, "corrupt"} /\ UNCHANGED <<options, hdr>>
  BY DEF TypeChar
<1>2. Good(cmdtc') /\ cmdtc'.icursor = cmdtc.icursor + 1
  BY <1>1, Before, ParseCharOK
<1>3. line' \in Seq(LineChar) /\ Len(line') = Len(line) + 1
  <2>1. k \in LineChar /\ line \in Seq(LineChar)
    BY <1>1, Before DEF LineChar
  <2> QED
    BY <1>1, <2>1, AppendProperties
<1>4. cmdtc'.icursor <= Len(line')
  BY <1>1, <1>2, <1>3, Before
<1>5. options' \in [Param -> [Slot -> ParamOrNull]] /\ hdr' \in Seq(PromptChar)
  BY <1>1, Before DEF OptionsType
<1>6. status' \in Statuses
  BY <1>1, Before DEF Statuses
<1> QED
  BY <1>2, <1>3, <1>4, <1>5, <1>6, After

LEMMA SpaceListsStep ==
  ASSUME Inv, SpaceLists
  PROVE  Inv'
<1> DEFINE m == Candidates(cmdtc)
           leaf == KnownLeaf(cmdtc)
<1>1. Reading /\ cmdtc.cmdtc_state = "init" /\ UNCHANGED <<options, hdr, line, status>>
      /\ cmdtc' = [cmdtc EXCEPT !.matching_params_list = m, !.leaf_param = leaf]
  BY DEF SpaceLists
<1>2. /\ m \in SUBSET Param /\ \A p \in m : cmdtc.is_negate => ~IsNo(p)
      /\ leaf \in ParamOrNull /\ (leaf # NoParam => IsLeaf(leaf))
  BY <1>1, Before, CandidatesOK
<1> HIDE DEF m, leaf
<1>3. cmdtc \in CursorType /\ cmdtc.icursor = 0
  BY <1>1, Before DEF Good, Shape
<1>4. /\ cmdtc' \in CursorType
      /\ cmdtc'.params_stack = cmdtc.params_stack /\ cmdtc'.tlv_stack = cmdtc.tlv_stack
      /\ cmdtc'.stack_checkpoint = cmdtc.stack_checkpoint
      /\ cmdtc'.is_negate = cmdtc.is_negate /\ cmdtc'.matching_params_list = m
      /\ cmdtc'.leaf_param = leaf /\ cmdtc'.cmdtc_state = "init" /\ cmdtc'.icursor = 0
  BY <1>1, <1>2, <1>3 DEF CursorType
<1>5. Good(cmdtc')
  BY <1>1, <1>2, <1>4, Before, SameStacksOK
<1>6. /\ options' \in [Param -> [Slot -> ParamOrNull]] /\ hdr' \in Seq(PromptChar)
      /\ line' \in Seq(LineChar) /\ status' \in Statuses /\ 0 <= Len(line')
  BY <1>1, Before DEF OptionsType, Statuses
<1> QED
  BY <1>4, <1>5, <1>6, After

LEMMA SpaceCompletesStep ==
  ASSUME Inv, SpaceCompletes
  PROVE  Inv'
<1> DEFINE m == Candidates(cmdtc)
           leaf == KnownLeaf(cmdtc)
           keys == Completion(cmdtc, m)
           fits == FirstN(keys, MAX_COMMAND_LENGTH - Used)
           listed == [cmdtc EXCEPT !.matching_params_list = m, !.leaf_param = leaf,
                                   !.cmdtc_state = "multiple_matches"]
<1>1. Reading /\ Ambiguous(cmdtc) /\ keys # <<>> /\ cmdtc' = AutoTyped(listed, fits)
      /\ line' = line \o fits /\ status' \in {status, "spinning"}
      /\ UNCHANGED <<options, hdr>>
  BY DEF SpaceCompletes
<1>2. /\ m \in SUBSET Param /\ \A p \in m : cmdtc.is_negate => ~IsNo(p)
      /\ leaf \in ParamOrNull /\ (leaf # NoParam => IsLeaf(leaf))
  BY <1>1, Before, CandidatesOK
<1>3. cmdtc \in CursorType /\ Shape(cmdtc)
  BY <1>1, Before DEF Good
<1>4. m # {}
  <2>1. CASE Cardinality(m) > 1
    BY <2>1, FS_EmptySet
  <2>2. CASE cmdtc.cmdtc_state = "multiple_matches"
    BY <1>3, <2>2 DEF Shape, Candidates, Fresh
  <2> QED
    BY <1>1, <2>1, <2>2 DEF Ambiguous
<1>5. keys \in Seq(Key) /\ Len(keys) \in Nat \ {0}
  <2>1. keys \in Seq(Key)
    BY <1>2, <1>3, <1>4, CompletionType
  <2> HIDE DEF keys
  <2> QED  BY <1>1, <2>1, EmptySeq, LenProperties
<1>6. fits \in Seq(Key) /\ Len(fits) \in Nat \ {0}
  <2> HIDE DEF keys
  <2>1. MAX_COMMAND_LENGTH - Used \in Nat \ {0}
    BY <1>1, Before
  <2>2. fits \in Seq(Key) /\ Len(fits) = IF MAX_COMMAND_LENGTH - Used < Len(keys)
                                         THEN MAX_COMMAND_LENGTH - Used ELSE Len(keys)
    BY <1>5, <2>1, FirstNOK
  <2> HIDE DEF fits
  <2> QED  BY <1>5, <2>1, <2>2
<1> HIDE DEF m, leaf, keys, fits
<1>7. /\ listed \in CursorType /\ listed.icursor = cmdtc.icursor
      /\ listed.params_stack = cmdtc.params_stack /\ listed.tlv_stack = cmdtc.tlv_stack
      /\ listed.stack_checkpoint = cmdtc.stack_checkpoint
      /\ listed.is_negate = cmdtc.is_negate /\ listed.matching_params_list = m
      /\ listed.leaf_param = leaf /\ listed.cmdtc_state = "multiple_matches"
  BY <1>2, <1>3 DEF CursorType
<1> HIDE DEF listed
<1>8. /\ cmdtc' \in CursorType /\ cmdtc'.icursor = cmdtc.icursor + Len(fits)
      /\ cmdtc'.params_stack = cmdtc.params_stack /\ cmdtc'.tlv_stack = cmdtc.tlv_stack
      /\ cmdtc'.stack_checkpoint = cmdtc.stack_checkpoint
      /\ cmdtc'.is_negate = cmdtc.is_negate /\ cmdtc'.matching_params_list = m
      /\ cmdtc'.leaf_param = leaf /\ cmdtc'.cmdtc_state = "multiple_matches"
  BY <1>1, <1>6, <1>7, AutoTypedOK
<1>9. cmdtc'.icursor # 0
  BY <1>1, <1>6, <1>8, Before
<1>10. Good(cmdtc')
  BY <1>1, <1>2, <1>4, <1>8, <1>9, Before, SameStacksOK
<1>11. line' \in Seq(LineChar) /\ Len(line') = Len(line) + Len(fits)
  <2>1. fits \in Seq(LineChar) /\ line \in Seq(LineChar)
    BY <1>1, <1>6, Before, SeqMonotonic DEF LineChar
  <2> QED
    BY <1>1, <2>1, ConcatProperties
<1>12. cmdtc'.icursor <= Len(line')
  BY <1>1, <1>6, <1>8, <1>11, Before
<1>13. /\ options' \in [Param -> [Slot -> ParamOrNull]] /\ hdr' \in Seq(PromptChar)
       /\ status' \in Statuses
  BY <1>1, Before DEF OptionsType, Statuses
<1> QED
  BY <1>10, <1>11, <1>12, <1>13, After

LEMMA SpaceAcceptsStep ==
  ASSUME Inv, SpaceAccepts
  PROVE  Inv'
<1>1. Reading /\ UNCHANGED <<options, hdr>>
  BY DEF SpaceAccepts
<1>2. PICK p \in OneWord(cmdtc) :
        /\ cmdtc' = Pushed(cmdtc, p)
        /\ line' = line \o Missing(cmdtc, p) \o <<" ">>
        /\ status' = AfterSpace(cmdtc, p)
  BY DEF SpaceAccepts
<1>3. p \in Param /\ (cmdtc.is_negate => ~IsNo(p))
  BY <1>1, Before, OneWordOK
<1>4. Good(cmdtc') /\ cmdtc'.icursor = 0
  BY <1>1, <1>2, <1>3, Before, PushedOK
<1>5. line' \in Seq(LineChar)
  <2>1. Missing(cmdtc, p) \in Seq(Key)
    BY <1>1, <1>3, Before, MissingOK DEF Good
  <2>2. Missing(cmdtc, p) \in Seq(LineChar) /\ line \in Seq(LineChar) /\ <<" ">> \in Seq(LineChar)
    <3>1. Missing(cmdtc, p) \in Seq(LineChar)
      BY <2>1, SeqMonotonic DEF LineChar
    <3>2. <<" ">> \in Seq(LineChar)
      BY DEF LineChar
    <3> QED
      BY <1>1, <3>1, <3>2, Before
  <2>3. line \o Missing(cmdtc, p) \in Seq(LineChar)
    BY <2>2, ConcatProperties
  <2> QED
    BY <1>2, <2>2, <2>3, ConcatProperties
<1>6. status' \in Statuses
  BY <1>1, <1>2, Before DEF AfterSpace, AfterPush, Statuses
<1>7. options' \in [Param -> [Slot -> ParamOrNull]] /\ hdr' \in Seq(PromptChar)
  BY <1>1, Before DEF OptionsType
<1>8. cmdtc'.icursor <= Len(line')
  BY <1>4, <1>5, LenProperties
<1> QED
  BY <1>4, <1>5, <1>6, <1>7, <1>8, After

LEMMA AutoCompletionSpinsStep ==
  ASSUME Inv, AutoCompletionSpins
  PROVE  Inv'
<1>1. Reading /\ status' = "spinning" /\ UNCHANGED <<options, hdr>>
  BY DEF AutoCompletionSpins
<1>2. PICK p \in OneWord(cmdtc) :
        LET fits == FirstN(Missing(cmdtc, p), MAX_COMMAND_LENGTH - Used) IN
        /\ ~Fits(Missing(cmdtc, p))
        /\ cmdtc' = AutoTyped([cmdtc EXCEPT !.curr_param = p,
                                            !.matching_params_list = {p},
                                            !.leaf_param = KnownLeaf(cmdtc),
                                            !.cmdtc_state = "single_word_match"], fits)
        /\ line' = line \o fits
  BY DEF AutoCompletionSpins
<1> DEFINE room == MAX_COMMAND_LENGTH - Used
           missing == Missing(cmdtc, p)
           fits == FirstN(missing, room)
           leaf == KnownLeaf(cmdtc)
           listed == [cmdtc EXCEPT !.curr_param = p, !.matching_params_list = {p},
                                   !.leaf_param = leaf,
                                   !.cmdtc_state = "single_word_match"]
<1>3. p \in Param /\ (cmdtc.is_negate => ~IsNo(p)) /\ cmdtc \in CursorType
  BY <1>1, Before, OneWordOK DEF Good
<1>4. leaf \in ParamOrNull /\ (leaf # NoParam => IsLeaf(leaf))
  BY <1>1, Before, CandidatesOK
<1>5. fits \in Seq(Key) /\ Len(fits) \in Nat \ {0}
  <2>1. missing \in Seq(Key) /\ Len(missing) \in Nat
    BY <1>3, MissingOK, LenProperties
  <2>2. room \in Nat \ {0}
    BY <1>1, Before
  <2>3. ~(Len(missing) <= room)
    <3>1. Len(hdr) \in Nat /\ Len(line) \in Nat
      BY <1>1, Before
    <3>2. MAX_COMMAND_LENGTH \in Nat
      BY LineAssumption
    <3>3. ~(Used + Len(missing) <= MAX_COMMAND_LENGTH)
      BY <1>2 DEF Fits
    <3> HIDE DEF missing
    <3> QED
      BY <2>1, <3>1, <3>2, <3>3 DEF Used
  <2> HIDE DEF missing, room
  <2>4. fits \in Seq(Key) /\ Len(fits) = IF room < Len(missing) THEN room ELSE Len(missing)
    BY <2>1, <2>2, FirstNOK
  <2> HIDE DEF fits
  <2> QED  BY <2>1, <2>2, <2>3, <2>4
<1>6. cmdtc' = AutoTyped(listed, fits) /\ line' = line \o fits
  BY <1>2
<1> HIDE DEF leaf, fits, missing, room
<1>7. /\ listed \in CursorType /\ listed.icursor = cmdtc.icursor
      /\ listed.params_stack = cmdtc.params_stack /\ listed.tlv_stack = cmdtc.tlv_stack
      /\ listed.stack_checkpoint = cmdtc.stack_checkpoint
      /\ listed.is_negate = cmdtc.is_negate /\ listed.matching_params_list = {p}
      /\ listed.leaf_param = leaf /\ listed.cmdtc_state = "single_word_match"
      /\ listed.curr_param = p
  BY <1>3, <1>4 DEF CursorType
<1> HIDE DEF listed
<1>8. /\ cmdtc' \in CursorType /\ cmdtc'.icursor = cmdtc.icursor + Len(fits)
      /\ cmdtc'.params_stack = cmdtc.params_stack /\ cmdtc'.tlv_stack = cmdtc.tlv_stack
      /\ cmdtc'.stack_checkpoint = cmdtc.stack_checkpoint
      /\ cmdtc'.is_negate = cmdtc.is_negate /\ cmdtc'.matching_params_list = {p}
      /\ cmdtc'.leaf_param = leaf /\ cmdtc'.cmdtc_state = "single_word_match"
      /\ cmdtc'.curr_param = p
  BY <1>5, <1>7, <1>6, AutoTypedOK
<1>9. cmdtc'.icursor # 0
  BY <1>1, <1>5, <1>8, Before
<1>10. Good(cmdtc')
  <2>1. \A q \in cmdtc'.matching_params_list : cmdtc.is_negate => ~IsNo(q)
    BY <1>3, <1>8
  <2> QED
    BY <1>1, <1>4, <1>8, <1>9, <2>1, Before, SameStacksOK
<1>11. line' \in Seq(LineChar) /\ Len(line') = Len(line) + Len(fits)
  <2>1. fits \in Seq(LineChar) /\ line \in Seq(LineChar)
    BY <1>1, <1>5, Before, SeqMonotonic DEF LineChar
  <2> QED
    BY <1>6, <2>1, ConcatProperties
<1>12. cmdtc'.icursor <= Len(line')
  BY <1>1, <1>5, <1>8, <1>11, Before
<1>13. /\ options' \in [Param -> [Slot -> ParamOrNull]] /\ hdr' \in Seq(PromptChar)
       /\ status' \in Statuses
  BY <1>1, Before DEF OptionsType, Statuses
<1> QED
  BY <1>10, <1>11, <1>12, <1>13, After

\* A command submitted from a cursor c that is in order.
LEMMA SubmittedStep ==
  ASSUME Inv, Reading, NEW c, Good(c), NEW h \in Seq(PromptChar), Submit(c, h),
         options' \in [Param -> [Slot -> ParamOrNull]], line' \in Seq(LineChar)
  PROVE  Inv'
<1>1. cmdtc' = Reset(c) /\ status' \in {status, "corrupt"} /\ hdr' \in Seq(PromptChar)
  BY SubmitOK
<1>2. Good(cmdtc') /\ cmdtc'.icursor = 0
  BY <1>1, ResetOK
<1>3. status' \in Statuses
  BY <1>1, Before DEF Statuses
<1>4. cmdtc'.icursor <= Len(line')
  BY <1>2, LenProperties
<1> QED
  BY <1>1, <1>2, <1>3, <1>4, After

LEMMA EmptyLine == <<>> \in Seq(LineChar) /\ Len(<<>>) = 0
BY EmptySeq

LEMMA ReturnCommandStep ==
  ASSUME Inv, ReturnCommand
  PROVE  Inv'
<1>1. Reading /\ Submit(cmdtc, hdr) /\ line' = <<>> /\ UNCHANGED options
  BY DEF ReturnCommand
<1>2. options' \in [Param -> [Slot -> ParamOrNull]] /\ line' \in Seq(LineChar)
  BY <1>1, Before, EmptyLine DEF OptionsType
<1> QED
  BY <1>1, <1>2, Before, SubmittedStep

LEMMA RunModeStep ==
  ASSUME Inv, RunMode
  PROVE  Inv'
<1>1. Reading /\ Submit(cmdtc, hdr) /\ UNCHANGED <<options, line>>
  BY DEF RunMode
<1>2. options' \in [Param -> [Slot -> ParamOrNull]] /\ line' \in Seq(LineChar)
  BY <1>1, Before DEF OptionsType
<1> QED
  BY <1>1, <1>2, Before, SubmittedStep

LEMMA ReturnWordStep ==
  ASSUME Inv, ReturnWord
  PROVE  Inv'
<1>1. Reading /\ line' = <<>> /\ UNCHANGED options
  BY DEF ReturnWord
<1>2. options' \in [Param -> [Slot -> ParamOrNull]] /\ line' \in Seq(LineChar)
  BY <1>1, Before, EmptyLine DEF OptionsType
<1>3. PICK p \in OneWord(cmdtc) :
        IF AfterSpace(cmdtc, p) = status
        THEN Submit(Pushed(cmdtc, p), hdr)
        ELSE /\ cmdtc' = Pushed(cmdtc, p)
             /\ status' = AfterSpace(cmdtc, p)
             /\ UNCHANGED hdr
  BY DEF ReturnWord
<1>4. p \in Param /\ (cmdtc.is_negate => ~IsNo(p))
  BY <1>1, Before, OneWordOK
<1>5. Good(Pushed(cmdtc, p)) /\ Pushed(cmdtc, p).icursor = 0
  BY <1>1, <1>4, Before, PushedOK
<1>6. CASE AfterSpace(cmdtc, p) = status
  BY <1>1, <1>2, <1>3, <1>5, <1>6, Before, SubmittedStep
<1>7. CASE AfterSpace(cmdtc, p) # status
  <2>1. cmdtc' = Pushed(cmdtc, p) /\ status' = AfterSpace(cmdtc, p) /\ UNCHANGED hdr
    BY <1>3, <1>7
  <2>2. status' \in Statuses /\ hdr' \in Seq(PromptChar)
    BY <1>1, <2>1, Before DEF AfterSpace, AfterPush, Statuses
  <2>3. Good(cmdtc') /\ cmdtc'.icursor <= Len(line')
    BY <1>1, <1>5, <2>1, EmptyLine
  <2> QED
    BY <1>2, <2>2, <2>3, After
<1> QED
  BY <1>6, <1>7

LEMMA ReturnRejectStep ==
  ASSUME Inv, ReturnReject
  PROVE  Inv'
<1>1. Reading /\ line' = <<>> /\ cmdtc' = Reset(cmdtc) /\ UNCHANGED <<options, hdr, status>>
  BY DEF ReturnReject
<1>2. Good(cmdtc') /\ cmdtc'.icursor = 0
  BY <1>1, Before, ResetOK
<1>3. /\ options' \in [Param -> [Slot -> ParamOrNull]] /\ line' \in Seq(LineChar)
      /\ hdr' \in Seq(PromptChar) /\ status' \in Statuses /\ cmdtc'.icursor <= Len(line')
  BY <1>1, <1>2, Before, EmptyLine DEF OptionsType, Statuses
<1> QED
  BY <1>2, <1>3, After

LEMMA PopNOK ==
  ASSUME NEW T, NEW s \in Seq(T), NEW n \in Nat
  PROVE  /\ PopN(s, n) \in Seq(T)
         /\ n <= Len(s) => Len(PopN(s, n)) = Len(s) - n
<1>1. Len(s) \in Nat
  BY LenProperties
<1>2. 1 \in Nat \ {0} /\ Len(s) - n \in Int /\ Len(s) - n <= Len(s)
  BY <1>1
<1>3. /\ SubSeq(s, 1, Len(s) - n) \in Seq(T)
      /\ Len(SubSeq(s, 1, Len(s) - n)) = IF 1 <= Len(s) - n THEN Len(s) - n - 1 + 1 ELSE 0
  BY <1>2, SubSeqType
<1> QED
  BY <1>1, <1>3 DEF PopN

\* The cursor back between two words, on the top of its stack.
LEMMA BackOK ==
  ASSUME NEW c, Good(c), NEW v \in Seq(Char)
  PROVE  LET d == [Between(c) EXCEPT !.curr_param = Last(c.params_stack),
                                     !.curr_leaf_value = v]
         IN  Good(d) /\ d.icursor = 0
<1> DEFINE b == Between(c)
           d == [b EXCEPT !.curr_param = Last(c.params_stack), !.curr_leaf_value = v]
<1>0. c \in CursorType /\ Shape(c)
  BY DEF Good
<1>1. Last(c.params_stack) \in Param
  <2>1. Len(c.params_stack) \in 1 .. Len(c.params_stack)
    BY <1>0, LenProperties DEF Shape, CursorType
  <2> QED
    BY <1>0, <2>1, ElementOfSeq DEF Last, CursorType
<1>2. b \in CursorType
  BY <1>0, BetweenOK
<1>3. /\ b.params_stack = c.params_stack /\ b.tlv_stack = c.tlv_stack
      /\ b.stack_checkpoint = c.stack_checkpoint /\ b.is_negate = c.is_negate
      /\ b.matching_params_list = {} /\ b.cmdtc_state = "init" /\ b.leaf_param = NoParam
      /\ b.icursor = 0
  BY <1>0 DEF Between, CursorType
<1> HIDE DEF b
<1>4. /\ d \in CursorType
      /\ d.params_stack = c.params_stack /\ d.tlv_stack = c.tlv_stack
      /\ d.stack_checkpoint = c.stack_checkpoint /\ d.is_negate = c.is_negate
      /\ d.matching_params_list = {} /\ d.cmdtc_state = "init" /\ d.leaf_param = NoParam
      /\ d.icursor = 0
  BY <1>1, <1>2, <1>3 DEF CursorType, Char
<1> HIDE DEF d
<1>5. Good(d)
  BY <1>4, SameStacksOK
<1> QED
  BY <1>4, <1>5 DEF d, b

LEMMA EraseCharStep ==
  ASSUME Inv, EraseChar
  PROVE  Inv'
<1> DEFINE v == SubSeq(cmdtc.curr_leaf_value, 1, cmdtc.icursor - 1)
           c == [cmdtc EXCEPT !.icursor = cmdtc.icursor - 1, !.curr_leaf_value = v]
<1>1. Reading /\ line # <<>> /\ cmdtc.cmdtc_state = "matching_leaf" /\ line' = Front(line)
      /\ UNCHANGED <<options, hdr, status>>
  BY DEF EraseChar
<1>2. cmdtc' = IF c.icursor > 0 THEN c ELSE [Between(c) EXCEPT !.curr_param = Last(c.params_stack)]
  BY DEF EraseChar
<1>3. /\ cmdtc \in CursorType /\ Shape(cmdtc) /\ OneNo(cmdtc)
      /\ cmdtc.icursor \in Nat \ {0} /\ cmdtc.icursor = Len(cmdtc.curr_leaf_value)
      /\ cmdtc.curr_leaf_value \in Seq(Char)
  BY <1>1, Before DEF Good, Shape, CursorType, Char
<1>4. v \in Seq(Char) /\ Len(v) = cmdtc.icursor - 1
  <2>1. 1 \in Nat \ {0} /\ cmdtc.icursor - 1 \in Int
        /\ cmdtc.icursor - 1 <= Len(cmdtc.curr_leaf_value)
    BY <1>3
  <2>2. /\ v \in Seq(Char)
        /\ Len(v) = IF 1 <= cmdtc.icursor - 1 THEN cmdtc.icursor - 1 - 1 + 1 ELSE 0
    BY <1>3, <2>1, SubSeqType
  <2> HIDE DEF v
  <2> QED  BY <1>3, <2>2
<1>5. Len(line) - 1 \in Nat /\ line' \in Seq(LineChar) /\ Len(line') = Len(line) - 1
  <2>1. line \in Seq(LineChar) /\ Len(line) \in Nat
    BY <1>1, Before
  <2>2. Len(line) - 1 \in Nat
    BY <1>1, <2>1, EmptySeq
  <2>3. /\ PopN(line, 1) \in Seq(LineChar)
        /\ 1 <= Len(line) => Len(PopN(line, 1)) = Len(line) - 1
    BY <2>1, PopNOK
  <2> QED
    BY <1>1, <2>1, <2>2, <2>3 DEF PopN, Front
<1>6. /\ options' \in [Param -> [Slot -> ParamOrNull]] /\ hdr' \in Seq(PromptChar)
      /\ status' \in Statuses
  BY <1>1, Before DEF OptionsType, Statuses
<1> HIDE DEF v
<1>7. /\ c \in CursorType /\ c.icursor = cmdtc.icursor - 1 /\ c.curr_leaf_value = v
      /\ c.params_stack = cmdtc.params_stack /\ c.tlv_stack = cmdtc.tlv_stack
      /\ c.stack_checkpoint = cmdtc.stack_checkpoint /\ c.is_negate = cmdtc.is_negate
      /\ c.matching_params_list = cmdtc.matching_params_list
      /\ c.leaf_param = cmdtc.leaf_param /\ c.cmdtc_state = "matching_leaf"
      /\ c.curr_param = cmdtc.curr_param
  <2>1. cmdtc.icursor - 1 \in Nat
    BY <1>3
  <2> QED
    BY <1>1, <1>3, <1>4, <2>1 DEF CursorType, Char
<1>8. CASE c.icursor > 0
  <2>1. cmdtc' = c
    BY <1>2, <1>8
  <2> HIDE DEF c
  <2>2. /\ cmdtc.curr_param = cmdtc.leaf_param
        /\ cmdtc.leaf_param # NoParam => IsLeaf(cmdtc.leaf_param)
        /\ \A p \in cmdtc.matching_params_list : cmdtc.is_negate => ~IsNo(p)
    BY <1>1, <1>3 DEF Shape, OneNo
  <2>3. c.icursor # 0 /\ Len(v) = c.icursor
    BY <1>4, <1>7, <1>8
  <2>4. Good(c)
    BY <1>1, <1>7, <2>2, <2>3, Before, SameStacksOK
  <2>5. cmdtc'.icursor <= Len(line')
    BY <1>1, <1>5, <1>7, <2>1, Before
  <2> QED
    BY <1>5, <1>6, <2>1, <2>4, <2>5, After
<1>9. CASE ~(c.icursor > 0)
  <2> DEFINE d == [Between(cmdtc) EXCEPT !.curr_param = Last(cmdtc.params_stack),
                                         !.curr_leaf_value = v]
  <2>1. cmdtc' = [Between(c) EXCEPT !.curr_param = Last(c.params_stack)]
    BY <1>2, <1>9
  <2>2. cmdtc' = d
    BY <1>3, <2>1 DEF Between, CursorType
  <2>3. Good(d) /\ d.icursor = 0
    BY <1>1, <1>4, Before, BackOK
  <2> HIDE DEF d
  <2>4. cmdtc'.icursor <= Len(line')
    BY <1>5, <2>2, <2>3
  <2> QED
    BY <1>5, <1>6, <2>2, <2>3, <2>4, After
<1> QED
  BY <1>8, <1>9

LEMMA EraseWordStep ==
  ASSUME Inv, EraseWord
  PROVE  Inv'
<1> DEFINE v == IF cmdtc.leaf_param = NoParam THEN cmdtc.curr_leaf_value ELSE <<>>
           d == [Between(cmdtc) EXCEPT !.curr_param = Last(cmdtc.params_stack),
                                       !.curr_leaf_value = v]
<1>1. Reading /\ line' = PopN(line, cmdtc.icursor) /\ UNCHANGED <<options, hdr, status>>
  BY DEF EraseWord
<1>2. cmdtc' = d
  BY DEF EraseWord, Between
<1>3. v \in Seq(Char)
  BY <1>1, Before, EmptySeq DEF Good, CursorType, Char
<1>4. Good(d) /\ d.icursor = 0
  <2> HIDE DEF v
  <2> QED  BY <1>1, <1>3, Before, BackOK
<1> HIDE DEF d
<1>5. line' \in Seq(LineChar)
  BY <1>1, Before, PopNOK
<1>6. /\ options' \in [Param -> [Slot -> ParamOrNull]] /\ hdr' \in Seq(PromptChar)
      /\ status' \in Statuses
  BY <1>1, Before DEF OptionsType, Statuses
<1>7. cmdtc'.icursor <= Len(line')
  BY <1>2, <1>4, <1>5, LenProperties
<1> QED
  BY <1>2, <1>4, <1>5, <1>6, <1>7, After

LEMMA TopWordOK ==
  ASSUME NEW c, Good(c)
  PROVE  TopWord(c) \in Nat
<1>0. c \in CursorType /\ Shape(c)
  BY DEF Good
<1>1. Last(c.tlv_stack) \in TlvType
  <2>1. Len(c.tlv_stack) \in 1 .. Len(c.tlv_stack)
    BY <1>0, LenProperties DEF Shape, CursorType
  <2> QED
    BY <1>0, <2>1, ElementOfSeq DEF Last, CursorType
<1>2. Last(c.tlv_stack).value \in Seq(Key)
  BY <1>1 DEF TlvType
<1>3. Name[c.curr_param] \in Seq(Key)
  BY <1>0, KindAssumption DEF CursorType
<1> QED
  BY <1>2, <1>3, LenProperties DEF TopWord

LEMMA EraseLevelStep ==
  ASSUME Inv, EraseLevel
  PROVE  Inv'
<1>1. Reading /\ cmdtc.cmdtc_state = "init" /\ cmdtc' = LevelUp(cmdtc)
      /\ line' = PopN(line, TopWord(cmdtc) + 1) /\ UNCHANGED <<options, hdr, status>>
      /\ Top(cmdtc.params_stack) # cmdtc.stack_checkpoint
  BY DEF EraseLevel
<1>2. Len(cmdtc.params_stack) > 1
  <2>1. cmdtc \in CursorType /\ Shape(cmdtc)
    BY <1>1, Before DEF Good
  <2>2. Len(cmdtc.params_stack) \in Nat /\ cmdtc.stack_checkpoint \in Nat
    BY <2>1, LenProperties DEF CursorType
  <2> QED
    BY <1>1, <2>1, <2>2 DEF Top, Shape
<1>3. Good(cmdtc') /\ cmdtc'.icursor = 0
  BY <1>1, <1>2, Before, LevelUpOK
<1>4. line' \in Seq(LineChar)
  <2>1. TopWord(cmdtc) + 1 \in Nat
    BY <1>1, Before, TopWordOK
  <2> QED
    BY <1>1, <2>1, Before, PopNOK
<1>5. /\ options' \in [Param -> [Slot -> ParamOrNull]] /\ hdr' \in Seq(PromptChar)
      /\ status' \in Statuses
  BY <1>1, Before DEF OptionsType, Statuses
<1>6. cmdtc'.icursor <= Len(line')
  BY <1>3, <1>4, LenProperties
<1> QED
  BY <1>3, <1>4, <1>5, <1>6, After

\* Options arrays stay arrays of params.
LEMMA UninstalledOK ==
  ASSUME OptionsType, NEW p \in Param
  PROVE  [options EXCEPT ![p] = Uninstall(@)] \in [Param -> [Slot -> ParamOrNull]]
BY DEF OptionsType, Uninstall, ParamOrNull

LEMMA InstalledOK ==
  ASSUME NEW os \in [Param -> [Slot -> ParamOrNull]], NEW p \in Param, NEW branch
  PROVE  [os EXCEPT ![p] = Install(@, branch)] \in [Param -> [Slot -> ParamOrNull]]
<1>1. ShowHook \in ParamOrNull /\ ConfigHook \in ParamOrNull
  BY NullAssumption DEF ParamOrNull
<1>2. ASSUME NEW o \in [Slot -> ParamOrNull], NEW q \in ParamOrNull
      PROVE  Put(o, q) \in [Slot -> ParamOrNull]
  BY DEF Put
<1>3. os[p] \in [Slot -> ParamOrNull]
  OBVIOUS
<1>4. /\ Put(os[p], ShowHook) \in [Slot -> ParamOrNull]
      /\ Put(os[p], ConfigHook) \in [Slot -> ParamOrNull]
  BY <1>1, <1>2, <1>3
<1>5. Put(Put(os[p], ShowHook), ConfigHook) \in [Slot -> ParamOrNull]
  BY <1>1, <1>2, <1>4
<1>6. Install(os[p], branch) \in [Slot -> ParamOrNull]
  BY <1>4, <1>5 DEF Install
<1> QED
  BY <1>6

\* A cursor whose mode moved along its stack.
LEMMA ModeOK ==
  ASSUME NEW c, Good(c), NEW r \in Param, NEW k \in Nat, k < Len(c.params_stack)
  PROVE  /\ Good([c EXCEPT !.root = r, !.stack_checkpoint = k])
         /\ [c EXCEPT !.root = r, !.stack_checkpoint = k].icursor = c.icursor
<1> DEFINE d == [c EXCEPT !.root = r, !.stack_checkpoint = k]
<1>0. c \in CursorType /\ Shape(c) /\ InStep(c) /\ OneNo(c)
  BY DEF Good
<1>1. /\ d \in CursorType /\ d.stack_checkpoint = k
      /\ d.params_stack = c.params_stack /\ d.tlv_stack = c.tlv_stack
      /\ d.is_negate = c.is_negate /\ d.matching_params_list = c.matching_params_list
      /\ d.leaf_param = c.leaf_param /\ d.cmdtc_state = c.cmdtc_state
      /\ d.icursor = c.icursor /\ d.curr_leaf_value = c.curr_leaf_value
      /\ d.curr_param = c.curr_param
  BY <1>0 DEF CursorType
<1> HIDE DEF d
<1>2. Shape(d)
  BY <1>0, <1>1 DEF Shape
<1>3. InStep(d)
  BY <1>0, <1>1 DEF InStep
<1>4. OneNo(d)
  BY <1>0, <1>1 DEF OneNo
<1> QED
  BY <1>1, <1>2, <1>3, <1>4 DEF Good, d

LEMMA PageUpStep ==
  ASSUME Inv, PageUp
  PROVE  Inv'
<1> DEFINE c == LevelUp(cmdtc)
           mode == [c EXCEPT !.root = c.curr_param]
           left == [options EXCEPT ![cmdtc.root] = Uninstall(@)]
           cut == TopWord(cmdtc) + 3
<1>1. Reading /\ line = <<>> /\ line' = line /\ Top(cmdtc.params_stack) > 0
  BY DEF PageUp
<1>2. cmdtc' = mode \/ UNCHANGED <<cmdtc, options, hdr>>
  BY DEF PageUp
<1>3. options' \in {options, left, [left EXCEPT ![mode.root] =
                                      Install(@, Branch(mode.params_stack))]}
  BY DEF PageUp
<1>4. /\ status' \in {"aborted", "corrupt", status}
       /\ hdr' \in {hdr, PopN(hdr, cut) \o <<" ">>, PopN(hdr, cut) \o <<">", " ">>}
  BY DEF PageUp
<1>5. Good(cmdtc) /\ cmdtc.cmdtc_state = "init" /\ Len(cmdtc.params_stack) > 1
  <2>1. Good(cmdtc) /\ cmdtc.icursor \in Nat /\ cmdtc.icursor <= Len(line)
    BY <1>1, Before
  <2>2. cmdtc.icursor = 0
    BY <1>1, <2>1, EmptyLine
  <2>3. Len(cmdtc.params_stack) \in Nat
    BY <2>1, LenProperties DEF Good, CursorType
  <2> QED
    BY <1>1, <2>1, <2>2, <2>3 DEF Good, Shape, Top
<1>6. Good(c) /\ c.icursor = 0
  BY <1>5, LevelUpOK
<1> HIDE DEF c
<1>7. /\ c \in CursorType /\ c.curr_param \in Param
      /\ c.stack_checkpoint \in Nat /\ c.stack_checkpoint < Len(c.params_stack)
  BY <1>6 DEF Good, CursorType, Shape
<1>8. Good(mode) /\ mode.icursor = 0 /\ mode.root \in Param
  <2>1. mode = [c EXCEPT !.root = c.curr_param, !.stack_checkpoint = c.stack_checkpoint]
    BY <1>7 DEF CursorType
  <2>2. mode.root = c.curr_param
    BY <1>7 DEF CursorType
  <2> HIDE DEF mode
  <2> QED
    BY <1>6, <1>7, <2>1, <2>2, ModeOK
<1> HIDE DEF mode
<1>9. options' \in [Param -> [Slot -> ParamOrNull]]
  <2>1. OptionsType /\ cmdtc.root \in Param
    BY <1>1, Before DEF Good, CursorType
  <2>2. left \in [Param -> [Slot -> ParamOrNull]]
    BY <2>1, UninstalledOK
  <2> HIDE DEF left
  <2>3. [left EXCEPT ![mode.root] = Install(@, Branch(mode.params_stack))]
            \in [Param -> [Slot -> ParamOrNull]]
    BY <1>8, <2>2, InstalledOK
  <2> QED
    BY <1>3, <2>1, <2>2, <2>3 DEF OptionsType
<1>10. hdr' \in Seq(PromptChar)
  <2>1. cut \in Nat /\ hdr \in Seq(PromptChar)
    <3>1. TopWord(cmdtc) \in Nat
      BY <1>5, TopWordOK
    <3> QED
      BY <1>1, <3>1, Before
  <2> HIDE DEF cut
  <2>2. PopN(hdr, cut) \in Seq(PromptChar)
    BY <2>1, PopNOK
  <2>3. <<" ">> \in Seq(PromptChar) /\ <<">", " ">> \in Seq(PromptChar)
    BY DEF PromptChar
  <2>4. /\ PopN(hdr, cut) \o <<" ">> \in Seq(PromptChar)
        /\ PopN(hdr, cut) \o <<">", " ">> \in Seq(PromptChar)
    BY <2>2, <2>3, ConcatProperties
  <2> QED
    BY <1>4, <2>1, <2>4
<1>11. /\ line' \in Seq(LineChar) /\ status' \in Statuses /\ cmdtc'.icursor <= Len(line')
  <2>1. status' \in Statuses
    BY <1>1, <1>4, Before DEF Statuses
  <2>2. cmdtc.icursor = 0
    BY <1>1, <1>5, Before, EmptyLine
  <2> QED
    BY <1>1, <1>8, <1>2, <2>1, <2>2, EmptyLine
<1> QED
  BY <1>2, <1>5, <1>8, <1>9, <1>10, <1>11, After

LEMMA CtrlTStep ==
  ASSUME Inv, CtrlT
  PROVE  Inv'
<1> DEFINE b == cmdtc.refresh_disabled /\ RefreshValHook \notin Range(cmdtc.params_stack)
<1>1. /\ Reading /\ line' = <<>> /\ UNCHANGED status /\ hdr' = DEF_CLI_HDR
      /\ cmdtc' = [InitCursor EXCEPT !.refresh_disabled = b]
      /\ options' \in {options, [options EXCEPT ![cmdtc.root] = Uninstall(@)]}
  BY DEF CtrlT
<1>2. b \in BOOLEAN
  OBVIOUS
<1> HIDE DEF b
<1>3. Good(cmdtc') /\ cmdtc'.icursor = 0
  BY <1>1, <1>2, InitCursorOK
<1>4. options' \in [Param -> [Slot -> ParamOrNull]]
  <2>1. OptionsType /\ cmdtc.root \in Param
    BY <1>1, Before DEF Good, CursorType
  <2> QED
    BY <1>1, <2>1, UninstalledOK DEF OptionsType
<1>5. line' \in Seq(LineChar) /\ cmdtc'.icursor <= Len(line')
  BY <1>1, <1>3, EmptyLine
<1>6. hdr' \in Seq(PromptChar)
  BY <1>1, LineAssumption
<1>7. status' \in Statuses
  BY <1>1, Before DEF Statuses
<1> QED
  BY <1>3, <1>4, <1>5, <1>6, <1>7, After

LEMMA RebuiltOK ==
  ASSUME NEW s \in Seq(Param), s # <<>>
  PROVE  Rebuilt(s) \in Seq(Param) /\ Len(Rebuilt(s)) > 0
<1>1. Len(s) \in Nat \ {0} /\ DOMAIN s = 1 .. Len(s)
  BY EmptySeq, LenProperties
<1>2. CASE Twice(s) = {}
  BY <1>1, <1>2 DEF Rebuilt
<1>3. CASE Twice(s) # {}
  <2>1. Twice(s) \subseteq 1 .. Len(s)
    BY <1>1 DEF Twice
  <2>2. First(Twice(s)) \in 1 .. Len(s)
    <3>1. Twice(s) \in SUBSET Nat
      BY <2>1
    <3>2. First(Twice(s)) \in Twice(s)
      BY <1>3, <3>1, Minimum
    <3> QED
      BY <2>1, <3>2
  <2> DEFINE n == First(Twice(s))
  <2>3. Rebuilt(s) = SubSeq(s, 1, n)
    BY <1>3 DEF Rebuilt
  <2>4. n \in 1 .. Len(s)
    BY <2>2
  <2> HIDE DEF n
  <2>5. 1 \in Nat \ {0} /\ n \in Int /\ n <= Len(s) /\ n >= 1
    BY <1>1, <2>4
  <2>6. /\ SubSeq(s, 1, n) \in Seq(Param)
        /\ Len(SubSeq(s, 1, n)) = IF 1 <= n THEN n - 1 + 1 ELSE 0
    BY <2>5, SubSeqType
  <2> QED
    BY <2>3, <2>5, <2>6
<1> QED
  BY <1>2, <1>3

LEMMA EnterModeStep ==
  ASSUME Inv, EnterMode
  PROVE  Inv'
<1> DEFINE c == IF Nested(cmdtc) THEN WithoutOuter(cmdtc) ELSE cmdtc
           left == IF Nested(cmdtc) THEN cmdtc.params_stack[cmdtc.stack_checkpoint + 1]
                   ELSE c.root
           stack == Rebuilt(c.params_stack)
           mode == [c EXCEPT !.params_stack = stack, !.root = c.curr_param,
                             !.stack_checkpoint = Top(stack)]
           h == ModeHdr(c.tlv_stack)
           kept == IF left = RootHook THEN options ELSE [options EXCEPT ![left] = Uninstall(@)]
           intact == /\ stack = c.params_stack
                     /\ Range(stack) \cap c.matching_params_list = {}
                     /\ FitsBuffer(h)
           entered == [kept EXCEPT ![mode.root] = Install(@, Branch(mode.params_stack))]
<1>1. Reading /\ cmdtc.cmdtc_state = "init"
  BY DEF EnterMode
<1>2. \/ status' = "aborted" /\ UNCHANGED <<options, cmdtc, hdr, line>>
      \/ /\ options' = entered /\ line' = <<>>
         /\ \/ ~intact /\ cmdtc' = mode /\ hdr' = h /\ status' = "corrupt"
            \/ intact /\ Submit(mode, h)
            \/ intact /\ cmdtc' = mode /\ hdr' = h /\ UNCHANGED status
  BY DEF EnterMode
<1>3. Good(cmdtc) /\ OptionsType /\ status = "running"
  BY <1>1, Before
<1>4. Good(c) /\ c.cmdtc_state = "init"
  BY <1>1, <1>3, WithoutOuterOK
<1>5. left \in Param
  <2>1. cmdtc \in CursorType /\ c \in CursorType
    BY <1>3, <1>4 DEF Good
  <2>2. CASE Nested(cmdtc)
    <3>1. cmdtc.stack_checkpoint + 1 \in 1 .. Len(cmdtc.params_stack)
      BY <2>1, <2>2, LenProperties, SMTT(30) DEF Nested, Top, CursorType
    <3> HIDE DEF c
    <3> QED
      BY <2>1, <2>2, <3>1, ElementOfSeq DEF CursorType
  <2>3. CASE ~Nested(cmdtc)
    <3> HIDE DEF c
    <3> QED  BY <2>1, <2>3 DEF CursorType
  <2> QED
    BY <2>2, <2>3
<1>6. kept \in [Param -> [Slot -> ParamOrNull]]
  <2> HIDE DEF left
  <2> QED  BY <1>3, <1>5, UninstalledOK DEF OptionsType
<1> HIDE DEF c, left, kept
<1>7. /\ c \in CursorType /\ c.params_stack \in Seq(Param) /\ c.params_stack # <<>>
      /\ Len(c.params_stack) \in Nat \ {0} /\ c.curr_param \in Param
  <2>1. c \in CursorType /\ Shape(c)
    BY <1>4 DEF Good
  <2>2. Len(c.params_stack) \in Nat
    BY <2>1, LenProperties DEF CursorType
  <2> QED
    BY <2>1, <2>2, EmptyLine DEF Shape, CursorType
<1>8. stack \in Seq(Param) /\ Top(stack) \in Nat /\ Top(stack) < Len(stack)
  <2>1. stack \in Seq(Param) /\ Len(stack) > 0
    BY <1>7, RebuiltOK
  <2> HIDE DEF stack
  <2> QED  BY <2>1, LenProperties DEF Top
<1> HIDE DEF stack, h
<1>9. mode \in CursorType /\ mode.root = c.curr_param
  BY <1>7, <1>8 DEF CursorType
<1>10. entered \in [Param -> [Slot -> ParamOrNull]]
  <2> HIDE DEF mode
  <2> QED  BY <1>6, <1>7, <1>9, InstalledOK
<1>11. ASSUME intact  PROVE Good(mode) /\ mode.icursor = 0 /\ h \in Seq(PromptChar)
  <2>1. mode = [c EXCEPT !.root = c.curr_param, !.stack_checkpoint = Top(stack)]
    BY <1>7, <1>11 DEF CursorType
  <2>2. c.icursor = 0
    BY <1>4 DEF Good, Shape
  <2>3. h \in Seq(PromptChar)
    BY <1>11, SeqDef DEF FitsBuffer
  <2> HIDE DEF mode
  <2> QED
    BY <1>4, <1>7, <1>8, <1>11, <2>1, <2>2, <2>3, ModeOK
<1> HIDE DEF entered, mode, intact
<1>12. CASE status' = "aborted" /\ UNCHANGED <<options, cmdtc, hdr, line>>
  BY <1>1, <1>12, Before, After DEF OptionsType, Statuses
<1>13. CASE options' = entered /\ line' = <<>> /\ ~intact /\ cmdtc' = mode /\ status' = "corrupt"
  BY <1>9, <1>10, <1>13, EmptyLine DEF Inv, TypeOK, LineChar
<1>14. CASE options' = entered /\ line' = <<>> /\ intact /\ Submit(mode, h)
  BY <1>1, <1>10, <1>11, <1>14, EmptyLine, SubmittedStep
<1>15. CASE /\ options' = entered /\ line' = <<>> /\ intact /\ cmdtc' = mode
            /\ hdr' = h /\ UNCHANGED status
  <2>1. cmdtc'.icursor <= Len(line') /\ line' \in Seq(LineChar) /\ status' \in Statuses
    BY <1>3, <1>11, <1>15, EmptyLine DEF Statuses
  <2> QED
    BY <1>10, <1>11, <1>15, <2>1, After
<1> QED
  BY <1>2, <1>12, <1>13, <1>14, <1>15

-----------------------------------------------------------------------------
(* The theorems.                                                           *)

LEMMA Initially ==
  ASSUME Init
  PROVE  Inv
<1>1. options \in [Param -> [Slot -> ParamOrNull]]
  <2>1. ASSUME NEW p \in Param, NEW i \in Slot, i < Len(Children[p])
        PROVE  Children[p][i + 1] \in Param
    <3>1. Children[p] \in Seq(Param) /\ Len(Children[p]) \in Nat
      BY ChildrenAssumption, LenProperties
    <3>2. i + 1 \in 1 .. Len(Children[p])
      BY <2>1, <3>1 DEF Slot
    <3> QED
      BY <3>1, <3>2, ElementOfSeq
  <2> QED
    BY <2>1 DEF Init, InitOptions, ParamOrNull
<1>2. Good(cmdtc) /\ cmdtc.icursor = 0 /\ cmdtc \in CursorType
  BY InitCursorOK DEF Init, Good
<1>3. hdr \in Seq(PromptChar) /\ line \in Seq(LineChar) /\ Len(line) = 0
  BY LineAssumption, EmptyLine DEF Init
<1>4. status = "running"
  BY DEF Init
<1> QED
  BY <1>1, <1>2, <1>3, <1>4 DEF Inv, TypeOK, LineChar

LEMMA Inductive ==
  ASSUME Inv, [Next]_vars
  PROVE  Inv'
<1>1. ASSUME NEW k \in Key, TypeChar(k)  PROVE Inv'
  BY <1>1, TypeCharStep
<1>2. CASE SpaceLists
  BY <1>2, SpaceListsStep
<1>3. CASE SpaceCompletes
  BY <1>3, SpaceCompletesStep
<1>4. CASE SpaceAccepts
  BY <1>4, SpaceAcceptsStep
<1>5. CASE AutoCompletionSpins
  BY <1>5, AutoCompletionSpinsStep
<1>6. CASE ReturnCommand
  BY <1>6, ReturnCommandStep
<1>7. CASE ReturnWord
  BY <1>7, ReturnWordStep
<1>8. CASE ReturnReject
  BY <1>8, ReturnRejectStep
<1>9. CASE EraseChar
  BY <1>9, EraseCharStep
<1>10. CASE EraseWord
  BY <1>10, EraseWordStep
<1>11. CASE EraseLevel
  BY <1>11, EraseLevelStep
<1>12. CASE PageUp
  BY <1>12, PageUpStep
<1>13. CASE CtrlT
  BY <1>13, CtrlTStep
<1>14. CASE RunMode
  BY <1>14, RunModeStep
<1>15. CASE EnterMode
  BY <1>15, EnterModeStep
<1>16. CASE UNCHANGED vars
  BY <1>16 DEF vars, Inv, TypeOK
<1> QED
  BY <1>1, <1>2, <1>3, <1>4, <1>5, <1>6, <1>7, <1>8, <1>9, <1>10, <1>11, <1>12,
     <1>13, <1>14, <1>15, <1>16 DEF Next

LEMMA Invariance == Spec => []Inv
BY Initially, Inductive, PTL DEF Spec

\* The cursor never follows a NULL pointer, and no key leaves a value of the
\* wrong type behind, in every tree and with buffers of every size.
THEOREM TypeCorrect == Spec => []TypeOK
<1>1. Inv => TypeOK
  BY DEF Inv
<1> QED
  BY <1>1, Invariance, PTL

\* The stacks of params and TLVs stay in step until a buffer is overrun.
THEOREM StacksCorrect == Spec => [](status # "corrupt" => StacksInStep)
<1>1. Inv => (status # "corrupt" => StacksInStep)
  BY DEF Inv, Good, Shape, InStep, StacksInStep
<1> QED
  BY <1>1, Invariance, PTL

\* is_negate follows the "no" on the stack through every push, pop, reset and
\* change of mode: a command is negative exactly while it shows a "no".
THEOREM NegateCorrect == Spec => []NegateIffNo
<1>1. Inv => NegateIffNo
  <2>1. SUFFICES ASSUME Inv, status # "corrupt"
                 PROVE  cmdtc.is_negate <=> \E p \in OnStack : IsNo(p)
    BY DEF NegateIffNo
  <2>2. OneNo(cmdtc)
    BY <2>1 DEF Inv, Good
  <2>3. NoAt(cmdtc.params_stack) # {} <=> \E p \in OnStack : IsNo(p)
    BY DEF NoAt, OnStack, Range
  <2> QED
    BY <2>2, <2>3 DEF OneNo
<1> QED
  BY <1>1, Invariance, PTL

-----------------------------------------------------------------------------
(* A command keeps the mode it was typed in.                               *)

LEMMA PrefixOfPrefix ==
  ASSUME NEW T, NEW s \in Seq(T), NEW k \in Nat \ {0}, k <= Len(s)
  PROVE  /\ Len(SubSeq(s, 1, k)) = k
         /\ SubSeq(SubSeq(s, 1, k), 1, k) = SubSeq(s, 1, k)
         /\ \A x \in T : SubSeq(Append(s, x), 1, k) = SubSeq(s, 1, k)
<1> DEFINE pre == SubSeq(s, 1, k)
<1>1. Len(s) \in Nat /\ 1 \in Nat \ {0} /\ k \in Int
  BY LenProperties
<1>2. pre \in Seq(T) /\ Len(pre) = k /\ \A i \in 1 .. k : pre[i] = s[i]
  BY <1>1, SubSeqType
<1> HIDE DEF pre
<1>3. SubSeq(pre, 1, k) = pre
  BY <1>2, SubSeqFull
<1>4. ASSUME NEW x \in T  PROVE SubSeq(Append(s, x), 1, k) = pre
  <2> DEFINE t == Append(s, x)
             q == SubSeq(t, 1, k)
  <2>1. t \in Seq(T) /\ Len(t) = Len(s) + 1 /\ \A i \in 1 .. Len(s) : t[i] = s[i]
    BY AppendProperties
  <2> HIDE DEF t
  <2>2. q \in Seq(T) /\ Len(q) = k /\ \A i \in 1 .. k : q[i] = t[i]
    BY <1>1, <2>1, SubSeqType
  <2>3. \A i \in 1 .. k : i \in 1 .. Len(s)
    BY <1>1
  <2>4. \A i \in 1 .. Len(q) : q[i] = pre[i]
    BY <1>2, <2>1, <2>2, <2>3
  <2> HIDE DEF q
  <2>5. q = pre
    BY <1>2, <2>2, <2>4, SeqEqual
  <2> QED
    BY <2>5 DEF q, t
<1> QED
  BY <1>2, <1>3, <1>4 DEF pre

LEMMA ResetKeepsMode ==
  ASSUME NEW c, Good(c)
  PROVE  Len(Reset(c).params_stack) = c.stack_checkpoint + 1 /\ Mode(Reset(c)) = Mode(c)
<1> DEFINE k == c.stack_checkpoint + 1
<1>1. /\ c.params_stack \in Seq(Param) /\ c.tlv_stack \in Seq(TlvType)
      /\ k \in Nat \ {0} /\ k <= Len(c.params_stack) /\ k <= Len(c.tlv_stack)
  <2>1. c \in CursorType /\ Shape(c)
    BY DEF Good
  <2>2. Len(c.params_stack) \in Nat
    BY <2>1, LenProperties DEF CursorType
  <2> QED
    BY <2>1, <2>2 DEF Shape, CursorType
<1>2. /\ Reset(c).root = c.root /\ Reset(c).stack_checkpoint = c.stack_checkpoint
      /\ Reset(c).params_stack = SubSeq(c.params_stack, 1, k)
      /\ Reset(c).tlv_stack = SubSeq(c.tlv_stack, 1, k)
  BY ResetOK DEF Kept
<1>3. /\ Len(SubSeq(c.params_stack, 1, k)) = k
      /\ SubSeq(SubSeq(c.params_stack, 1, k), 1, k) = SubSeq(c.params_stack, 1, k)
      /\ SubSeq(SubSeq(c.tlv_stack, 1, k), 1, k) = SubSeq(c.tlv_stack, 1, k)
  <2> HIDE DEF k
  <2> QED  BY <1>1, PrefixOfPrefix
<1> QED
  BY <1>2, <1>3 DEF Mode

LEMMA PushKeepsMode ==
  ASSUME NEW c, Good(c), NEW p \in Param, c.is_negate => ~IsNo(p)
  PROVE  Mode(Pushed(c, p)) = Mode(c)
<1> DEFINE k == c.stack_checkpoint + 1
           d == Pushed(c, p)
<1>1. /\ c.params_stack \in Seq(Param) /\ c.tlv_stack \in Seq(TlvType)
      /\ k \in Nat \ {0} /\ k <= Len(c.params_stack) /\ k <= Len(c.tlv_stack)
  <2>1. c \in CursorType /\ Shape(c)
    BY DEF Good
  <2>2. Len(c.params_stack) \in Nat
    BY <2>1, LenProperties DEF CursorType
  <2> QED
    BY <2>1, <2>2 DEF Shape, CursorType
<1>2. /\ d.root = c.root /\ d.stack_checkpoint = c.stack_checkpoint
      /\ d.params_stack = Append(c.params_stack, p)
      /\ \E tlv \in TlvType : d.tlv_stack = Append(c.tlv_stack, tlv)
  BY PushedOK
<1> HIDE DEF d
<1>3. /\ SubSeq(d.params_stack, 1, k) = SubSeq(c.params_stack, 1, k)
      /\ SubSeq(d.tlv_stack, 1, k) = SubSeq(c.tlv_stack, 1, k)
  <2> HIDE DEF k
  <2> QED  BY <1>1, <1>2, PrefixOfPrefix
<1>4. Mode(d) = Mode(c)
  BY <1>2, <1>3 DEF Mode
<1> QED
  BY <1>4 DEF d

LEMMA ReturnKeepsMode ==
  ASSUME Inv, ReturnCommand \/ ReturnWord \/ ReturnReject, status' = "running"
  PROVE  /\ Len(cmdtc'.params_stack) = cmdtc.stack_checkpoint + 1
         /\ Mode(cmdtc') = Mode(cmdtc)
         /\ options' = options
<1>1. Reading /\ options' = options
  BY DEF ReturnCommand, ReturnWord, ReturnReject
<1>2. Good(cmdtc) /\ status = "running"
  BY <1>1, Before
<1>3. CASE cmdtc' = Reset(cmdtc)
  BY <1>1, <1>2, <1>3, ResetKeepsMode
<1>4. CASE ReturnWord
  <2>1. PICK p \in OneWord(cmdtc) :
          IF AfterSpace(cmdtc, p) = status THEN cmdtc' = Reset(Pushed(cmdtc, p))
          ELSE status' = AfterSpace(cmdtc, p)
    BY <1>4 DEF ReturnWord, Submit
  <2>2. p \in Param /\ (cmdtc.is_negate => ~IsNo(p))
    BY <1>1, Before, OneWordOK
  <2>3. cmdtc' = Reset(Pushed(cmdtc, p))
    BY <1>2, <2>1
  <2>4. /\ Good(Pushed(cmdtc, p)) /\ Mode(Pushed(cmdtc, p)) = Mode(cmdtc)
        /\ Pushed(cmdtc, p).stack_checkpoint = cmdtc.stack_checkpoint
    BY <1>2, <2>2, PushedOK, PushKeepsMode
  <2> QED
    BY <1>1, <2>3, <2>4, ResetKeepsMode
<1> QED
  BY <1>3, <1>4 DEF ReturnCommand, ReturnReject, Submit

\* A command, whether it runs, fails or is not one, leaves the user in the mode
\* he typed it in, with the stack back at the mode's checkpoint.
THEOREM ModeKept == Spec => CommandKeepsMode
<1>1. Inv => [(ReturnCommand \/ ReturnWord \/ ReturnReject) /\ status' = "running" =>
                 /\ Len(cmdtc'.params_stack) = cmdtc.stack_checkpoint + 1
                 /\ Mode(cmdtc') = Mode(cmdtc)
                 /\ options' = options]_vars
  BY ReturnKeepsMode
<1> QED
  BY <1>1, Invariance, PTL DEF CommandKeepsMode

-----------------------------------------------------------------------------
(***************************************************************************)
(* The mode of the char-mode shell, for every command tree: the param at   *)
(* the checkpoint of the stacks is the root, and on an empty line nothing  *)
(* is above it.  The second is about the line: every word above the        *)
(* checkpoint has its characters and a space there.                        *)
(***************************************************************************)

\* Where a cursor stands: in its mode, between two words on the top of its
\* stack, with keywords only in the list, and keywords in the TLVs by name.
AtMode(c) == c.params_stack[c.stack_checkpoint + 1] = c.root
AtWord(c) == c.cmdtc_state = "init" => c.curr_param = Last(c.params_stack)
KeywordsListed(c) == \A p \in c.matching_params_list : ~IsLeaf(p)
Named(c) == \A i \in DOMAIN c.params_stack :
               ~IsLeaf(c.params_stack[i]) => c.tlv_stack[i].value = Name[c.params_stack[i]]
Placed(c) == AtMode(c) /\ AtWord(c) /\ KeywordsListed(c) /\ Named(c)

\* Of n characters there is one for each character of a word above the
\* checkpoint, one for the space behind it, and icursor for the word at hand:
\* f[i] of them are behind the i-th word at the latest.
Counts(f, c, n) ==
  /\ \A i \in c.stack_checkpoint + 2 .. Len(c.params_stack) :
        f[i - 1] + Len(c.tlv_stack[i].value) + 1 <= f[i]
  /\ f[Len(c.params_stack)] + c.icursor <= n
Covered(c, n) == \E f \in [1 .. Len(c.params_stack) -> Nat] : Counts(f, c, n)

\* The inductive invariant.
ModeInv ==
  /\ Inv
  /\ status # "corrupt" => Placed(cmdtc)
  /\ status = "running" => Covered(cmdtc, Len(line))

-----------------------------------------------------------------------------
(* Places and characters through the operations on a cursor.               *)

LEMMA Stacks ==
  ASSUME NEW c, Good(c)
  PROVE  /\ c \in CursorType /\ Shape(c)
         /\ c.params_stack \in Seq(Param) /\ c.tlv_stack \in Seq(TlvType)
         /\ Len(c.params_stack) \in Nat \ {0} /\ Len(c.tlv_stack) = Len(c.params_stack)
         /\ c.stack_checkpoint \in Nat /\ c.stack_checkpoint + 1 \in 1 .. Len(c.params_stack)
         /\ DOMAIN c.params_stack = 1 .. Len(c.params_stack)
         /\ \A i \in 1 .. Len(c.params_stack) :
               c.params_stack[i] \in Param /\ Len(c.tlv_stack[i].value) \in Nat
         /\ c.icursor \in Nat
<1>1. c \in CursorType /\ Shape(c)
  BY DEF Good
<1>2. /\ c.params_stack \in Seq(Param) /\ c.tlv_stack \in Seq(TlvType)
      /\ c.stack_checkpoint \in Nat /\ c.icursor \in Nat
  BY <1>1 DEF CursorType
<1>3. /\ Len(c.params_stack) \in Nat /\ DOMAIN c.params_stack = 1 .. Len(c.params_stack)
      /\ Len(c.tlv_stack) = Len(c.params_stack)
  BY <1>1, <1>2, LenProperties DEF Shape
<1>4. c.stack_checkpoint < Len(c.params_stack)
  BY <1>1 DEF Shape
<1>5. ASSUME NEW i \in 1 .. Len(c.params_stack)
      PROVE  c.params_stack[i] \in Param /\ Len(c.tlv_stack[i].value) \in Nat
  <2>1. c.params_stack[i] \in Param /\ c.tlv_stack[i] \in TlvType
    BY <1>2, <1>3, ElementOfSeq
  <2>2. c.tlv_stack[i].value \in Seq(Key)
    BY <2>1 DEF TlvType
  <2> QED
    BY <2>1, <2>2, LenProperties
<1> QED
  BY <1>1, <1>2, <1>3, <1>4, <1>5

\* A cursor that moved within a word.
LEMMA SamePlace ==
  ASSUME NEW c, Placed(c), NEW d,
         d.params_stack = c.params_stack, d.tlv_stack = c.tlv_stack,
         d.stack_checkpoint = c.stack_checkpoint, d.root = c.root,
         \A p \in d.matching_params_list : ~IsLeaf(p),
         d.cmdtc_state = "init" => d.curr_param = Last(c.params_stack)
  PROVE  Placed(d)
BY DEF Placed, AtMode, AtWord, KeywordsListed, Named

LEMMA SameCovered ==
  ASSUME NEW c, Good(c), NEW n \in Nat, Covered(c, n), NEW d,
         d.params_stack = c.params_stack, d.tlv_stack = c.tlv_stack,
         d.stack_checkpoint = c.stack_checkpoint,
         NEW k \in Nat, d.icursor \in Nat, d.icursor + n <= c.icursor + k
  PROVE  Covered(d, k)
<1>1. PICK f \in [1 .. Len(c.params_stack) -> Nat] : Counts(f, c, n)
  BY DEF Covered
<1>2. f[Len(c.params_stack)] \in Nat /\ c.icursor \in Nat
  <2>1. Len(c.params_stack) \in Nat \ {0} /\ c.icursor \in Nat
    BY Stacks
  <2>2. Len(c.params_stack) \in 1 .. Len(c.params_stack)
    BY <2>1
  <2> QED
    BY <1>1, <2>1, <2>2
<1>3. f[Len(c.params_stack)] + d.icursor <= k
  <2>1. f[Len(c.params_stack)] + c.icursor <= n
    BY <1>1 DEF Counts
  <2> QED
    BY <1>2, <2>1
<1>4. Counts(f, d, k)
  BY <1>1, <1>3 DEF Counts
<1> QED
  BY <1>4 DEF Covered

\* With nothing above the checkpoint and no word at hand any line will do.
LEMMA NothingToCover ==
  ASSUME NEW c, Good(c), Len(c.params_stack) = c.stack_checkpoint + 1, c.icursor = 0,
         NEW n \in Nat
  PROVE  Covered(c, n)
<1> DEFINE f == [i \in 1 .. Len(c.params_stack) |-> 0]
<1>1. Len(c.params_stack) \in Nat \ {0} /\ c.stack_checkpoint \in Nat
  BY Stacks
<1>2. f \in [1 .. Len(c.params_stack) -> Nat] /\ f[Len(c.params_stack)] = 0
  BY <1>1
<1>3. Counts(f, c, n)
  <2> HIDE DEF f
  <2> QED  BY <1>1, <1>2 DEF Counts
<1> QED
  BY <1>2, <1>3 DEF Covered

\* On an empty line nothing is above the checkpoint.
LEMMA NothingCovered ==
  ASSUME NEW c, Good(c), Covered(c, 0)
  PROVE  Len(c.params_stack) = c.stack_checkpoint + 1 /\ c.icursor = 0
<1> DEFINE l == Len(c.params_stack)
           w == Len(c.tlv_stack[l].value)
<1>1. PICK f \in [1 .. l -> Nat] : Counts(f, c, 0)
  BY DEF Covered
<1>2. /\ l \in Nat \ {0} /\ c.stack_checkpoint \in Nat /\ c.stack_checkpoint + 1 \in 1 .. l
      /\ w \in Nat /\ c.icursor \in Nat
  <2>1. /\ l \in Nat \ {0} /\ c.stack_checkpoint \in Nat /\ c.stack_checkpoint + 1 \in 1 .. l
        /\ \A i \in 1 .. l : Len(c.tlv_stack[i].value) \in Nat
        /\ c.icursor \in Nat
    BY Stacks
  <2>2. l \in 1 .. l
    BY <2>1
  <2> QED
    BY <2>1, <2>2
<1>3. f[l] = 0 /\ c.icursor = 0
  <2>1. f[l] \in Nat /\ f[l] + c.icursor <= 0
    BY <1>1, <1>2 DEF Counts
  <2> QED
    BY <1>2, <2>1
<1>4. ~(c.stack_checkpoint + 2 <= l)
  <2>1. SUFFICES ASSUME c.stack_checkpoint + 2 <= l PROVE FALSE
    OBVIOUS
  <2>2. l \in c.stack_checkpoint + 2 .. l /\ l - 1 \in 1 .. l
    BY <1>2, <2>1
  <2>3. f[l - 1] + w + 1 <= f[l]
    BY <1>1, <2>2 DEF Counts
  <2>4. f[l - 1] \in Nat
    BY <1>1, <2>2
  <2> HIDE DEF l, w
  <2> QED
    BY <1>2, <1>3, <2>3, <2>4
<1> QED
  BY <1>2, <1>3, <1>4

LEMMA PushedTlv ==
  ASSUME NEW c, Good(c), NEW p \in Param, c.is_negate => ~IsNo(p)
  PROVE  /\ Pushed(c, p).tlv_stack = Append(c.tlv_stack, Tlv(p, c.curr_leaf_value))
         /\ Pushed(c, p).curr_param = p
         /\ Pushed(c, p).matching_params_list = {}
<1> DEFINE a == [c EXCEPT !.curr_param = p]
           b == Between(a)
           e == [b EXCEPT !.params_stack = Append(c.params_stack, p),
                          !.tlv_stack = Append(c.tlv_stack, Tlv(p, c.curr_leaf_value))]
<1>1. /\ a \in CursorType /\ a.curr_param = p /\ a.params_stack = c.params_stack
      /\ a.tlv_stack = c.tlv_stack /\ a.curr_leaf_value = c.curr_leaf_value
  <2>1. c \in CursorType
    BY Stacks
  <2> QED
    BY <2>1 DEF CursorType
<1>2. /\ b \in CursorType /\ b.params_stack = c.params_stack /\ b.tlv_stack = c.tlv_stack
      /\ b.curr_param = p /\ b.matching_params_list = {}
  <2> HIDE DEF a
  <2>1. b \in CursorType
    BY <1>1, BetweenOK
  <2> QED
    BY <1>1, <2>1 DEF Between, CursorType
<1>3. NextLevel(a) = EnteredForward(e, p)
  BY <1>1, <1>2 DEF NextLevel
<1> HIDE DEF a, b
<1>4. /\ e.tlv_stack = Append(c.tlv_stack, Tlv(p, c.curr_leaf_value))
      /\ e.curr_param = p /\ e.matching_params_list = {}
  BY <1>2 DEF CursorType
<1>5. DOMAIN e = DOMAIN b
  OBVIOUS
<1>6. /\ EnteredForward(e, p).tlv_stack = e.tlv_stack
      /\ EnteredForward(e, p).curr_param = e.curr_param
      /\ EnteredForward(e, p).matching_params_list = e.matching_params_list
  <2>1. {"tlv_stack", "curr_param", "matching_params_list"} \subseteq DOMAIN e
    BY <1>2, <1>5 DEF CursorType
  <2> HIDE DEF e
  <2> QED  BY <2>1 DEF EnteredForward
<1> QED
  BY <1>3, <1>4, <1>6 DEF Pushed, a

LEMMA PushedPlace ==
  ASSUME NEW c, Good(c), Placed(c), NEW p \in Param, c.is_negate => ~IsNo(p)
  PROVE  Placed(Pushed(c, p))
<1> DEFINE d == Pushed(c, p)
           l == Len(c.params_stack)
           tlv == Tlv(p, c.curr_leaf_value)
<1>1. /\ d.params_stack = Append(c.params_stack, p) /\ d.tlv_stack = Append(c.tlv_stack, tlv)
      /\ d.stack_checkpoint = c.stack_checkpoint /\ d.root = c.root
      /\ d.curr_param = p /\ d.matching_params_list = {}
  BY PushedOK, PushedTlv
<1>2. /\ l \in Nat \ {0} /\ c.stack_checkpoint + 1 \in 1 .. l /\ DOMAIN c.params_stack = 1 .. l
      /\ c.params_stack \in Seq(Param) /\ c.tlv_stack \in Seq(TlvType) /\ Len(c.tlv_stack) = l
      /\ tlv \in TlvType
  BY Stacks, TlvTyped DEF CursorType, Char
<1> HIDE DEF d, tlv
<1>3. /\ Len(d.params_stack) = l + 1 /\ DOMAIN d.params_stack = 1 .. l + 1
      /\ \A i \in 1 .. l : d.params_stack[i] = c.params_stack[i] /\ d.tlv_stack[i] = c.tlv_stack[i]
      /\ d.params_stack[l + 1] = p /\ d.tlv_stack[l + 1] = tlv
  BY <1>1, <1>2, AppendProperties
<1>4. AtMode(d)
  BY <1>1, <1>2, <1>3 DEF Placed, AtMode
<1>5. AtWord(d)
  BY <1>1, <1>3 DEF AtWord, Last
<1>6. KeywordsListed(d)
  BY <1>1 DEF KeywordsListed
<1>7. Named(d)
  <2>1. ~IsLeaf(p) => tlv.value = Name[p]
    BY DEF tlv, Tlv
  <2>2. \A i \in 1 .. l + 1 : i \in 1 .. l \/ i = l + 1
    BY <1>2
  <2> QED
    BY <1>2, <1>3, <2>1, <2>2 DEF Placed, Named
<1> QED
  BY <1>4, <1>5, <1>6, <1>7 DEF Placed, d

\* A word is covered if its characters are.
LEMMA PushedCovered ==
  ASSUME NEW c, Good(c), NEW p \in Param, c.is_negate => ~IsNo(p),
         NEW n \in Nat, Covered(c, n), NEW k \in Nat,
         n + Len(Tlv(p, c.curr_leaf_value).value) + 1 <= c.icursor + k
  PROVE  Covered(Pushed(c, p), k)
<1> DEFINE d == Pushed(c, p)
           l == Len(c.params_stack)
           tlv == Tlv(p, c.curr_leaf_value)
           w == Len(tlv.value)
<1>1. /\ d.params_stack = Append(c.params_stack, p) /\ d.tlv_stack = Append(c.tlv_stack, tlv)
      /\ d.stack_checkpoint = c.stack_checkpoint /\ d.icursor = 0
  BY PushedOK, PushedTlv
<1>2. /\ l \in Nat \ {0} /\ c.stack_checkpoint \in Nat /\ c.stack_checkpoint + 1 \in 1 .. l
      /\ c.params_stack \in Seq(Param) /\ c.tlv_stack \in Seq(TlvType) /\ Len(c.tlv_stack) = l
      /\ tlv \in TlvType /\ c.icursor \in Nat
  BY Stacks, TlvTyped DEF CursorType, Char
<1>3. w \in Nat
  BY <1>2, LenProperties DEF TlvType
<1>4. PICK f \in [1 .. l -> Nat] : Counts(f, c, n)
  BY DEF Covered
<1> DEFINE g == [i \in 1 .. l + 1 |-> IF i <= l THEN f[i] ELSE f[l] + w + 1]
<1> HIDE DEF d, tlv, w
<1>5. /\ Len(d.params_stack) = l + 1
      /\ \A i \in 1 .. l : d.tlv_stack[i] = c.tlv_stack[i]
      /\ d.tlv_stack[l + 1] = tlv
  BY <1>1, <1>2, AppendProperties, SMTT(30)
<1>6. f[l] \in Nat /\ f[l] + c.icursor <= n
  BY <1>2, <1>4, SMTT(30) DEF Counts
<1>7. /\ g \in [1 .. l + 1 -> Nat] /\ \A i \in 1 .. l : g[i] = f[i]
      /\ g[l + 1] = f[l] + w + 1
  <2>1. /\ \A i \in 1 .. l : i \in 1 .. l + 1 /\ i <= l
        /\ l + 1 \in 1 .. l + 1 /\ ~(l + 1 <= l)
    BY <1>2
  <2>2. l \in Nat /\ f[l] + w + 1 \in Nat
    BY <1>2, <1>3, <1>6, SMTT(30)
  <2>3. ASSUME NEW i \in 1 .. l + 1
        PROVE  (IF i <= l THEN f[i] ELSE f[l] + w + 1) \in Nat
    <3> HIDE DEF l
    <3>1. i <= l => i \in 1 .. l
      BY <2>2
    <3> QED
      BY <2>2, <3>1
  <2> QED
    BY <2>1, <2>3
<1> HIDE DEF g
<1>8. ASSUME NEW i \in c.stack_checkpoint + 2 .. l + 1
      PROVE  g[i - 1] + Len(d.tlv_stack[i].value) + 1 <= g[i]
  <2>1. CASE i <= l
    <3>1. i \in 1 .. l /\ i - 1 \in 1 .. l /\ i \in c.stack_checkpoint + 2 .. l
      BY <1>2, <2>1
    <3> QED
      BY <1>4, <1>5, <1>7, <3>1 DEF Counts
  <2>2. CASE i = l + 1
    <3>1. l \in 1 .. l /\ i - 1 = l
      BY <1>2, <2>2
    <3>2. g[l] = f[l] /\ Len(d.tlv_stack[i].value) = w
      BY <1>5, <1>7, <2>2, <3>1 DEF w
    <3> QED
      BY <1>3, <1>6, <1>7, <2>2, <3>1, <3>2
  <2>3. i <= l \/ i = l + 1
    BY <1>2
  <2> QED
    BY <2>1, <2>2, <2>3
<1>9. g[l + 1] + d.icursor <= k
  BY <1>1, <1>2, <1>3, <1>6, <1>7, SMTT(30) DEF w, tlv
<1>10. Counts(g, d, k)
  BY <1>1, <1>5, <1>8, <1>9 DEF Counts
<1> QED
  BY <1>5, <1>7, <1>10 DEF Covered, d

LEMMA SubSeqIs ==
  ASSUME NEW T, NEW s \in Seq(T), NEW k \in 1 .. Len(s)
  PROVE  /\ Len(SubSeq(s, 1, k)) = k /\ DOMAIN SubSeq(s, 1, k) = 1 .. k
         /\ SubSeq(s, 1, k) \in Seq(T)
         /\ \A i \in 1 .. k : SubSeq(s, 1, k)[i] = s[i]
<1>1. Len(s) \in Nat /\ 1 \in Nat \ {0} /\ k \in Nat \ {0} /\ k \in Int /\ k <= Len(s)
  BY LenProperties
<1>2. /\ SubSeq(s, 1, k) \in Seq(T)
      /\ Len(SubSeq(s, 1, k)) = IF 1 <= k THEN k - 1 + 1 ELSE 0
      /\ \A i \in 1 .. k - 1 + 1 : SubSeq(s, 1, k)[i] = s[1 + i - 1]
  BY <1>1, SubSeqType
<1>3. DOMAIN SubSeq(s, 1, k) = 1 .. Len(SubSeq(s, 1, k))
  BY <1>2, LenProperties
<1> QED
  BY <1>1, <1>2, <1>3

\* A cursor cut down to its first k words.
LEMMA CutPlace ==
  ASSUME NEW c, Good(c), Named(c), NEW k \in 1 .. Len(c.params_stack), NEW d,
         d.params_stack = SubSeq(c.params_stack, 1, k),
         d.tlv_stack = SubSeq(c.tlv_stack, 1, k),
         d.curr_param = c.params_stack[k], d.matching_params_list = {}
  PROVE  /\ AtWord(d) /\ KeywordsListed(d) /\ Named(d)
         /\ Len(d.params_stack) = k /\ Last(d.params_stack) = c.params_stack[k]
         /\ \A i \in 1 .. k : /\ d.params_stack[i] = c.params_stack[i]
                              /\ d.tlv_stack[i] = c.tlv_stack[i]
<1>1. /\ c.params_stack \in Seq(Param) /\ c.tlv_stack \in Seq(TlvType)
      /\ Len(c.tlv_stack) = Len(c.params_stack) /\ Len(c.params_stack) \in Nat \ {0}
      /\ DOMAIN c.params_stack = 1 .. Len(c.params_stack)
  BY Stacks
<1>2. k \in 1 .. Len(c.tlv_stack) /\ k \in 1 .. k /\ 1 .. k \subseteq 1 .. Len(c.params_stack)
  BY <1>1
<1>3. /\ Len(d.params_stack) = k /\ DOMAIN d.params_stack = 1 .. k
      /\ \A i \in 1 .. k : d.params_stack[i] = c.params_stack[i]
  BY <1>1, SubSeqIs
<1>4. \A i \in 1 .. k : d.tlv_stack[i] = c.tlv_stack[i]
  BY <1>1, <1>2, SubSeqIs
<1>5. Last(d.params_stack) = c.params_stack[k]
  BY <1>2, <1>3 DEF Last
<1>6. Named(d)
  BY <1>1, <1>2, <1>3, <1>4 DEF Named
<1> QED
  BY <1>3, <1>4, <1>5, <1>6 DEF AtWord, KeywordsListed

\* A reset leaves the cursor in its mode, with nothing above.
LEMMA ResetPlace ==
  ASSUME NEW c, Good(c), AtMode(c), Named(c), NEW n \in Nat
  PROVE  Placed(Reset(c)) /\ Covered(Reset(c), n)
<1> DEFINE d == Reset(c)
           k == c.stack_checkpoint + 1
<1>1. /\ Good(d) /\ d.icursor = 0 /\ d.root = c.root /\ d.stack_checkpoint = c.stack_checkpoint
      /\ d.params_stack = SubSeq(c.params_stack, 1, k)
      /\ d.tlv_stack = SubSeq(c.tlv_stack, 1, k)
  BY ResetOK DEF Kept
<1>2. d.curr_param = c.root /\ d.matching_params_list = {}
  <2> DEFINE gone == {c.params_stack[i] : i \in Kept(c) + 1 .. Len(c.params_stack)}
             e == ExitBackward(Between(c), gone)
  <2>1. c \in CursorType
    BY Stacks
  <2>2. e \in CursorType /\ e.matching_params_list = {}
    <3>1. Between(c) \in CursorType /\ Between(c).matching_params_list = {}
      BY <2>1, BetweenOK DEF Between, CursorType
    <3> HIDE DEF gone
    <3>2. e \in CursorType
      BY <3>1, ExitBackwardOK
    <3> QED
      BY <3>1, <3>2 DEF ExitBackward, CursorType
  <2>3. d = [e EXCEPT !.params_stack = SubSeq(@, 1, Kept(c)),
                      !.tlv_stack = SubSeq(@, 1, Kept(c)),
                      !.filter_checkpoint = IF Kept(c) <= @ THEN -1 ELSE @,
                      !.curr_param = c.root,
                      !.curr_leaf_value = <<>>]
    BY DEF Reset
  <2> HIDE DEF e, d
  <2> QED
    BY <2>2, <2>3 DEF CursorType
<1>3. k \in 1 .. Len(c.params_stack) /\ c.params_stack[k] = c.root
  BY Stacks DEF AtMode
<1> HIDE DEF d, k
<1>4. /\ AtWord(d) /\ KeywordsListed(d) /\ Named(d) /\ Len(d.params_stack) = k
      /\ Last(d.params_stack) = c.root
  <2>1. d.curr_param = c.params_stack[k]
    BY <1>2, <1>3
  <2>2. /\ AtWord(d) /\ KeywordsListed(d) /\ Named(d) /\ Len(d.params_stack) = k
        /\ Last(d.params_stack) = c.params_stack[k]
    <3>1. /\ d.params_stack = SubSeq(c.params_stack, 1, k)
          /\ d.tlv_stack = SubSeq(c.tlv_stack, 1, k)
          /\ d.matching_params_list = {} /\ k \in 1 .. Len(c.params_stack)
      BY <1>1, <1>2, <1>3
    <3>2. AtWord(d) /\ KeywordsListed(d) /\ Named(d) /\ Len(d.params_stack) = k
      BY <2>1, <3>1, CutPlace
    <3>3. \A i \in 1 .. k : d.params_stack[i] = c.params_stack[i]
      BY <2>1, <3>1, CutPlace
    <3>4. k \in 1 .. k
      BY <3>1, Stacks DEF k
    <3> QED
      BY <3>2, <3>3, <3>4 DEF Last
  <2> QED
    BY <1>3, <2>2
<1>5. AtMode(d)
  BY <1>1, <1>3, <1>4 DEF AtMode, Last, k
<1>6. Covered(d, n)
  BY <1>1, <1>4, NothingToCover DEF k
<1> QED
  BY <1>4, <1>5, <1>6 DEF Placed, d

LEMMA LevelUpIs ==
  ASSUME NEW c, Good(c), c.cmdtc_state = "init", Len(c.params_stack) > 1
  PROVE  LET d == LevelUp(c)
             k == Len(c.params_stack) - 1
         IN  /\ d.root = c.root /\ d.stack_checkpoint = MarkAfterPop(c)
             /\ d.params_stack = SubSeq(c.params_stack, 1, k)
             /\ d.tlv_stack = SubSeq(c.tlv_stack, 1, k)
             /\ d.curr_param = c.params_stack[k] /\ d.matching_params_list = {}
<1> DEFINE e == ExitBackward(c, {Last(c.params_stack)})
           k == Len(c.params_stack) - 1
           d == LevelUp(c)
<1>1. c \in CursorType /\ c.params_stack \in Seq(Param) /\ c.tlv_stack \in Seq(TlvType)
      /\ Len(c.tlv_stack) = Len(c.params_stack) /\ Len(c.params_stack) \in Nat \ {0}
  BY Stacks
<1>2. e \in CursorType /\ e.params_stack = c.params_stack /\ e.tlv_stack = c.tlv_stack
      /\ e.root = c.root
  <2>1. e \in CursorType
    BY <1>1, ExitBackwardOK
  <2> QED
    BY <1>1, <2>1 DEF ExitBackward, CursorType
<1>3. k \in 1 .. Len(c.params_stack) /\ k \in 1 .. k
  BY <1>1
<1>4. /\ Front(c.params_stack) = SubSeq(c.params_stack, 1, k)
      /\ Front(c.tlv_stack) = SubSeq(c.tlv_stack, 1, k)
      /\ Last(Front(c.params_stack)) = c.params_stack[k]
  <2>1. /\ Front(c.params_stack) = SubSeq(c.params_stack, 1, k)
        /\ Front(c.tlv_stack) = SubSeq(c.tlv_stack, 1, k)
    BY <1>1 DEF Front
  <2>2. Len(SubSeq(c.params_stack, 1, k)) = k /\ SubSeq(c.params_stack, 1, k)[k] = c.params_stack[k]
    BY <1>1, <1>3, SubSeqIs
  <2> QED
    BY <2>1, <2>2 DEF Last
<1>5. d = [e EXCEPT !.params_stack = Front(@),
                    !.tlv_stack = Front(@),
                    !.filter_checkpoint = IF @ = Top(c.params_stack) THEN -1 ELSE @,
                    !.stack_checkpoint = MarkAfterPop(c),
                    !.curr_param = Last(Front(c.params_stack)),
                    !.curr_leaf_value = <<>>,
                    !.matching_params_list = {},
                    !.leaf_param = NoParam]
  BY DEF LevelUp
<1> HIDE DEF e, d, k
<1>6. /\ d.root = e.root /\ d.stack_checkpoint = MarkAfterPop(c)
      /\ d.params_stack = Front(e.params_stack) /\ d.tlv_stack = Front(e.tlv_stack)
      /\ d.curr_param = Last(Front(c.params_stack)) /\ d.matching_params_list = {}
  BY <1>2, <1>5 DEF CursorType
<1> QED
  BY <1>2, <1>4, <1>6 DEF d, k

\* A backspace over a word above the mode takes the word's characters along.
LEMMA ErasedPlace ==
  ASSUME NEW c, Good(c), Placed(c), c.cmdtc_state = "init",
         Top(c.params_stack) # c.stack_checkpoint,
         NEW n \in Nat, Covered(c, n)
  PROVE  /\ Placed(LevelUp(c))
         /\ TopWord(c) + 1 <= n
         /\ Covered(LevelUp(c), n - (TopWord(c) + 1))
<1> DEFINE d == LevelUp(c)
           l == Len(c.params_stack)
           k == l - 1
           w == Len(c.tlv_stack[l].value)
<1>1. /\ c.stack_checkpoint \in Nat /\ c.stack_checkpoint + 1 \in 1 .. l /\ l \in Nat \ {0}
      /\ Len(c.tlv_stack) = l /\ DOMAIN c.params_stack = 1 .. l
      /\ \A i \in 1 .. l : c.params_stack[i] \in Param /\ Len(c.tlv_stack[i].value) \in Nat
      /\ c.icursor \in Nat
  BY Stacks
<1>2. /\ l \in 1 .. l /\ k \in 1 .. l /\ l > 1 /\ c.stack_checkpoint + 2 <= l
      /\ c.stack_checkpoint + 1 \in 1 .. k
  <2>1. l \in Nat /\ c.stack_checkpoint \in Nat /\ c.stack_checkpoint + 1 <= l
    BY <1>1
  <2>2. l - 1 # c.stack_checkpoint
    BY DEF Top
  <2> HIDE DEF l
  <2> QED
    BY <2>1, <2>2
<1>3. /\ d.root = c.root /\ d.stack_checkpoint = c.stack_checkpoint
      /\ d.params_stack = SubSeq(c.params_stack, 1, k)
      /\ d.tlv_stack = SubSeq(c.tlv_stack, 1, k)
      /\ d.curr_param = c.params_stack[k] /\ d.matching_params_list = {}
      /\ Good(d) /\ d.icursor = 0
  <2>1. MarkAfterPop(c) = c.stack_checkpoint
    BY DEF MarkAfterPop
  <2> QED
    BY <1>2, <2>1, LevelUpIs, LevelUpOK
<1> HIDE DEF d
<1>4. /\ AtWord(d) /\ KeywordsListed(d) /\ Named(d) /\ Len(d.params_stack) = k
      /\ \A i \in 1 .. k : /\ d.params_stack[i] = c.params_stack[i]
                           /\ d.tlv_stack[i] = c.tlv_stack[i]
  <2>1. Named(c)
    BY DEF Placed
  <2> HIDE DEF k
  <2> QED
    BY <1>2, <1>3, <2>1, CutPlace
<1>5. Placed(d)
  BY <1>2, <1>3, <1>4 DEF Placed, AtMode
<1>6. TopWord(c) = w
  <2>1. c.curr_param = c.params_stack[l]
    BY DEF Placed, AtWord, Last
  <2>2. ~IsLeaf(c.params_stack[l]) => c.tlv_stack[l].value = Name[c.params_stack[l]]
    BY <1>1, <1>2 DEF Placed, Named
  <2>3. Last(c.tlv_stack) = c.tlv_stack[l]
    BY <1>1 DEF Last
  <2> HIDE DEF l
  <2> QED
    BY <2>1, <2>2, <2>3 DEF TopWord, w
<1>7. PICK f \in [1 .. l -> Nat] : Counts(f, c, n)
  BY DEF Covered
<1>8. /\ f[l] \in Nat /\ f[k] \in Nat /\ w \in Nat
      /\ f[k] + w + 1 <= f[l] /\ f[l] + c.icursor <= n
  <2>1. l \in c.stack_checkpoint + 2 .. l
    BY <1>1, <1>2
  <2>2. f[l - 1] + Len(c.tlv_stack[l].value) + 1 <= f[l] /\ f[l] + c.icursor <= n
    BY <1>7, <2>1 DEF Counts
  <2> QED
    BY <1>1, <1>2, <1>7, <2>2
<1> DEFINE g == [i \in 1 .. k |-> f[i]]
<1>9. g \in [1 .. k -> Nat] /\ \A i \in 1 .. k : g[i] = f[i]
  <2>1. \A i \in 1 .. k : i \in 1 .. l
    BY <1>1
  <2>2. \A i \in 1 .. k : f[i] \in Nat
    BY <1>7, <2>1
  <2> HIDE DEF k
  <2> QED
    BY <2>2
<1>10. ASSUME NEW i \in c.stack_checkpoint + 2 .. k
       PROVE  g[i - 1] + Len(d.tlv_stack[i].value) + 1 <= g[i]
  <2>1. i \in c.stack_checkpoint + 2 .. l /\ i \in 1 .. k /\ i - 1 \in 1 .. k
    BY <1>1
  <2>2. f[i - 1] + Len(c.tlv_stack[i].value) + 1 <= f[i]
    BY <1>7, <2>1 DEF Counts
  <2> HIDE DEF g, k
  <2> QED
    BY <1>4, <1>9, <2>1, <2>2
<1>11. g[k] = f[k]
  <2>1. k \in 1 .. k
    BY <1>2
  <2> HIDE DEF g, k
  <2> QED
    BY <1>9, <2>1
<1>12. Counts(g, d, n - (w + 1))
  <2>1. g[k] + d.icursor <= n - (w + 1)
    <3> HIDE DEF g, k, l, w
    <3> QED  BY <1>1, <1>3, <1>8, <1>11, SMTT(30)
  <2> HIDE DEF g, k, w
  <2> QED
    BY <1>3, <1>4, <1>10, <2>1 DEF Counts
<1>13. Covered(d, n - (w + 1))
  <2> HIDE DEF g, k, w
  <2> QED  BY <1>4, <1>9, <1>12 DEF Covered
<1>14. w + 1 <= n
  <2> HIDE DEF w, l, k
  <2> QED  BY <1>1, <1>8
<1> QED
  <2> HIDE DEF w
  <2> QED  BY <1>5, <1>6, <1>13, <1>14 DEF d

\* The words at hand.
LEMMA CandidatesListed ==
  ASSUME NEW c, KeywordsListed(c)
  PROVE  \A p \in Candidates(c) : ~IsLeaf(p)
BY DEF Candidates, Keywords, KeywordsListed

LEMMA ParsedPlace ==
  ASSUME NEW c, Good(c), OptionsType, Placed(c), NEW k \in Key, Accepts(c, k),
         NEW n \in Nat, Covered(c, n)
  PROVE  Placed(ParseChar(c, k)) /\ Covered(ParseChar(c, k), n + 1)
<1> DEFINE leaf == KnownLeaf(c)
           m == Matched(c, k)
           v == Save(c, leaf, <<k>>)
           typed == [c EXCEPT !.icursor = c.icursor + 1, !.curr_leaf_value = v]
           d == ParseChar(c, k)
           q == CHOOSE p \in m : TRUE
           w == IF c.cmdtc_state = "multiple_matches" THEN c.curr_leaf_value ELSE v
<1>1. c \in CursorType /\ c.icursor \in Nat
  BY Stacks
<1>2. Good(d) /\ d.icursor = c.icursor + 1
  BY ParseCharOK
<1>3. d.cmdtc_state # "init"
  BY <1>1, <1>2 DEF Good, Shape
<1> HIDE DEF leaf, m, v, w, q
<1>4. DOMAIN typed = DOMAIN c /\ typed.params_stack = c.params_stack
      /\ typed.tlv_stack = c.tlv_stack /\ typed.stack_checkpoint = c.stack_checkpoint
      /\ typed.root = c.root /\ typed.matching_params_list = c.matching_params_list
  BY <1>1 DEF CursorType
<1>5. d \in {typed,
             [typed EXCEPT !.cmdtc_state = "matching_leaf", !.leaf_param = leaf,
                           !.curr_param = leaf],
             [typed EXCEPT !.cmdtc_state = "multiple_matches", !.leaf_param = leaf,
                           !.matching_params_list = m],
             [typed EXCEPT !.cmdtc_state = "single_word_match", !.leaf_param = leaf,
                           !.matching_params_list = m, !.curr_param = q,
                           !.curr_leaf_value = w]}
  <2>1. typed.curr_leaf_value = v
    BY <1>1 DEF CursorType
  <2> QED
    BY <2>1 DEF ParseChar, leaf, m, v, w, q
<1> HIDE DEF typed, d
<1>6. {"params_stack", "tlv_stack", "stack_checkpoint", "root", "matching_params_list"}
        \subseteq DOMAIN typed
  BY <1>1, <1>4 DEF CursorType
<1>7. /\ d.params_stack = c.params_stack /\ d.tlv_stack = c.tlv_stack
      /\ d.stack_checkpoint = c.stack_checkpoint /\ d.root = c.root
      /\ d.matching_params_list \in {c.matching_params_list, m}
  BY <1>4, <1>5, <1>6
<1>8. \A p \in d.matching_params_list : ~IsLeaf(p)
  <2>1. \A p \in c.matching_params_list : ~IsLeaf(p)
    BY DEF Placed, KeywordsListed
  <2>2. \A p \in m : ~IsLeaf(p)
    BY CandidatesListed DEF Placed, m, Matched
  <2> QED
    BY <1>7, <2>1, <2>2
<1>9. Placed(d)
  BY <1>3, <1>7, <1>8, SamePlace
<1>10. Covered(d, n + 1)
  <2>1. n + 1 \in Nat /\ d.icursor \in Nat /\ d.icursor + n <= c.icursor + (n + 1)
    BY <1>1, <1>2
  <2> QED
    BY <1>7, <2>1, SameCovered
<1> QED
  BY <1>9, <1>10 DEF d

LEMMA ParsedTlvs ==
  ASSUME NEW c, Good(c), NEW k
  PROVE  ParseChar(c, k).tlv_stack = c.tlv_stack
<1>1. c \in CursorType
  BY Stacks
<1> QED
  BY <1>1, Zenon DEF ParseChar, CursorType

LEMMA AutoTypedRoot ==
  ASSUME NEW c \in CursorType, NEW keys \in Seq(Key)
  PROVE  AutoTyped(c, keys).root = c.root
<1>1. AutoTyped(c, keys) =
        [c EXCEPT !.icursor = c.icursor + Len(keys),
                  !.curr_leaf_value = Save(c, c.leaf_param, keys)]
  BY DEF AutoTyped
<1> QED
  BY <1>1 DEF CursorType

\* The value of a word is no longer than the characters typed for it and those
\* completed.
LEMMA CStrLength ==
  ASSUME NEW v \in Seq(Char)
  PROVE  Len(CStr(v)) <= Len(v)
<1> DEFINE holes == {i \in DOMAIN v : v[i] = NUL}
<1>1. Len(v) \in Nat /\ DOMAIN v = 1 .. Len(v)
  BY LenProperties
<1>2. CASE holes = {}
  BY <1>1, <1>2 DEF CStr
<1>3. CASE holes # {}
  <2> HIDE DEF holes
  <2>1. holes \in SUBSET Nat /\ holes \subseteq 1 .. Len(v)
    BY <1>1 DEF holes
  <2>2. First(holes) \in 1 .. Len(v)
    BY <1>3, <2>1, Minimum
  <2> DEFINE n == First(holes) - 1
  <2>3. n \in Int /\ n <= Len(v) /\ 1 \in Nat \ {0} /\ 0 <= n
    BY <1>1, <2>2
  <2>4. CStr(v) = SubSeq(v, 1, n)
    BY <1>3 DEF CStr, holes
  <2> HIDE DEF n
  <2>5. Len(SubSeq(v, 1, n)) = IF 1 <= n THEN n - 1 + 1 ELSE 0
    BY <2>3, SubSeqType
  <2> QED
    BY <1>1, <2>3, <2>4, <2>5
<1> QED
  BY <1>2, <1>3

LEMMA WordIsTyped ==
  ASSUME NEW c, Good(c), OptionsType, KeywordsListed(c), NEW p \in OneWord(c)
  PROVE  /\ p \in Param
         /\ IsLeaf(p) => c.cmdtc_state = "matching_leaf"
         /\ Missing(c, p) \in Seq(Key) /\ Len(Missing(c, p)) \in Nat
         /\ Len(Tlv(p, c.curr_leaf_value).value) \in Nat
         /\ Len(Tlv(p, c.curr_leaf_value).value) <= c.icursor + Len(Missing(c, p))
<1>1. c \in CursorType /\ Shape(c) /\ c.icursor \in Nat /\ p \in Param
      /\ c.curr_leaf_value \in Seq(Char)
  BY Stacks, OneWordOK DEF CursorType, Char
<1>2. Missing(c, p) \in Seq(Key) /\ Len(Missing(c, p)) \in Nat
  BY <1>1, MissingOK, LenProperties
<1>3. IsLeaf(p) => c.cmdtc_state = "matching_leaf"
  <2>1. CASE c.cmdtc_state = "init"
    BY <2>1, CandidatesListed DEF OneWord
  <2>2. CASE c.cmdtc_state = "multiple_matches"
    BY <2>2 DEF OneWord, Exact, KeywordsListed
  <2>3. CASE c.cmdtc_state = "single_word_match"
    BY <1>1, <2>3 DEF OneWord, Shape, KeywordsListed
  <2> QED
    BY <1>1, <2>1, <2>2, <2>3 DEF CursorType
<1>4. CASE IsLeaf(p)
  <2>1. c.icursor = Len(c.curr_leaf_value)
    BY <1>1, <1>3, <1>4 DEF Shape
  <2>2. Tlv(p, c.curr_leaf_value).value = CStr(c.curr_leaf_value)
    BY <1>4 DEF Tlv
  <2>3. Len(CStr(c.curr_leaf_value)) <= c.icursor /\ Len(CStr(c.curr_leaf_value)) \in Nat
    BY <1>1, <2>1, CStrLength, CStrType, LenProperties
  <2> QED
    BY <1>1, <1>2, <1>3, <2>2, <2>3
<1>5. CASE ~IsLeaf(p)
  <2>1. Tlv(p, c.curr_leaf_value).value = Name[p] /\ Name[p] \in Seq(Key) /\ Len(Name[p]) \in Nat
    BY <1>1, <1>5, KindAssumption, LenProperties DEF Tlv
  <2>2. Missing(c, p) = SubSeq(Name[p], c.icursor + 1, Len(Name[p]))
    BY <1>5 DEF Missing
  <2>3. c.icursor + 1 \in Nat \ {0} /\ Len(Name[p]) \in Int
    BY <1>1, <2>1
  <2>4. Len(Missing(c, p)) = IF c.icursor + 1 <= Len(Name[p])
                             THEN Len(Name[p]) - (c.icursor + 1) + 1 ELSE 0
    BY <2>1, <2>2, <2>3, SubSeqType
  <2> QED
    BY <1>1, <1>2, <1>3, <2>1, <2>4
<1> QED
  BY <1>4, <1>5

LEMMA InitPlace ==
  ASSUME NEW b \in BOOLEAN, NEW n \in Nat,
         NEW d \in {InitCursor, [InitCursor EXCEPT !.refresh_disabled = b]}
  PROVE  Placed(d) /\ Covered(d, n)
<1>1. /\ d.params_stack = <<RootHook>> /\ d.tlv_stack = <<Tlv(RootHook, <<>>)>>
      /\ d.stack_checkpoint = 0 /\ d.root = RootHook /\ d.curr_param = RootHook
      /\ d.matching_params_list = {}
  BY DEF InitCursor
<1>2. Good(d) /\ d.icursor = 0
  BY InitCursorOK
<1>3. Named(d)
  BY <1>1 DEF Named, Tlv
<1>4. Placed(d)
  BY <1>1, <1>3 DEF Placed, AtMode, AtWord, KeywordsListed, Last
<1>5. Covered(d, n)
  <2>1. Len(d.params_stack) = d.stack_checkpoint + 1
    BY <1>1
  <2> QED
    BY <1>2, <2>1, NothingToCover
<1> QED
  BY <1>4, <1>5

\* A nested command without the words around it.
LEMMA WithoutOuterPlace ==
  ASSUME NEW c, Good(c), Nested(c), c.cmdtc_state = "init", Placed(c)
  PROVE  /\ AtWord(WithoutOuter(c)) /\ KeywordsListed(WithoutOuter(c))
         /\ Named(WithoutOuter(c))
<1> DEFINE m == c.stack_checkpoint
           own(s) == <<Head(s)>> \o SubSeq(s, m + 2, Len(s))
           gone == {c.params_stack[i] : i \in 2 .. m + 1}
           stack == own(c.params_stack)
           tlvs == own(c.tlv_stack)
           e == ExitBackward(c, gone)
           d == WithoutOuter(c)
           l == Len(c.params_stack)
<1>1. /\ c \in CursorType /\ l \in Nat \ {0} /\ Len(c.tlv_stack) = l
      /\ c.params_stack \in Seq(Param) /\ c.tlv_stack \in Seq(TlvType)
      /\ m \in Nat \ {0} /\ m + 1 < l /\ DOMAIN c.params_stack = 1 .. l
  BY Stacks DEF Nested, Top
<1>2. /\ stack \in Seq(Param) /\ Len(stack) = l - m /\ stack[1] = c.params_stack[1]
      /\ \A i \in 2 .. l - m : stack[i] = c.params_stack[i + m]
  BY <1>1, OwnWords, ZenonT(30)
<1>3. /\ tlvs[1] = c.tlv_stack[1]
      /\ \A i \in 2 .. l - m : tlvs[i] = c.tlv_stack[i + m]
  <2>1. c.tlv_stack \in Seq(TlvType) /\ m \in Nat /\ m + 1 < Len(c.tlv_stack)
        /\ Len(c.tlv_stack) = l
    BY <1>1
  <2>2. /\ tlvs[1] = c.tlv_stack[1]
        /\ \A i \in 2 .. Len(c.tlv_stack) - m : tlvs[i] = c.tlv_stack[i + m]
    <3> HIDE DEF m, l
    <3> QED  BY <2>1, OwnWords
  <2> HIDE DEF tlvs
  <2> QED  BY <2>1, <2>2
<1>4. DOMAIN stack = 1 .. l - m
  BY <1>2, LenProperties
<1>5. e \in CursorType /\ e.params_stack = c.params_stack /\ e.tlv_stack = c.tlv_stack
      /\ e.matching_params_list = c.matching_params_list
  <2> HIDE DEF gone, own, stack, tlvs, m, l
  <2>1. c \in CursorType
    BY <1>1
  <2>2. e \in CursorType
    BY <2>1, ExitBackwardOK
  <2>3. /\ e.params_stack = c.params_stack /\ e.tlv_stack = c.tlv_stack
        /\ e.matching_params_list = c.matching_params_list
    BY <2>1 DEF ExitBackward, CursorType
  <2> QED
    BY <2>2, <2>3
<1>6. d = [e EXCEPT !.params_stack = stack, !.tlv_stack = tlvs,
                    !.stack_checkpoint = Top(stack), !.root = RootHook,
                    !.curr_param = Last(c.params_stack)]
  BY <1>5 DEF WithoutOuter
<1> HIDE DEF e, gone, stack, tlvs, d
<1>7. /\ d.params_stack = stack /\ d.tlv_stack = tlvs
      /\ d.matching_params_list = c.matching_params_list
      /\ d.curr_param = Last(c.params_stack)
  BY <1>5, <1>6 DEF CursorType
<1>8. AtWord(d)
  <2>1. l - m \in 2 .. l - m /\ l - m + m = l
    BY <1>1
  <2>2. stack[Len(stack)] = c.params_stack[l]
    BY <1>2, <2>1
  <2> QED
    BY <1>7, <2>2 DEF AtWord, Last
<1>9. KeywordsListed(d)
  BY <1>7 DEF Placed, KeywordsListed
<1>10. Named(d)
  <2>1. \A i \in 1 .. l : ~IsLeaf(c.params_stack[i]) =>
                             c.tlv_stack[i].value = Name[c.params_stack[i]]
    BY <1>1 DEF Placed, Named
  <2>2. /\ \A i \in 1 .. l - m : i = 1 \/ i \in 2 .. l - m
        /\ \A i \in 2 .. l - m : i + m \in 1 .. l
        /\ 1 \in 1 .. l
    BY <1>1
  <2>3. ASSUME NEW i \in 1 .. l - m, ~IsLeaf(stack[i])
        PROVE  tlvs[i].value = Name[stack[i]]
    <3>1. CASE i = 1
      BY <1>2, <1>3, <2>1, <2>2, <2>3, <3>1
    <3>2. CASE i \in 2 .. l - m
      BY <1>2, <1>3, <2>1, <2>2, <2>3, <3>2
    <3> QED
      BY <2>2, <3>1, <3>2
  <2> QED
    BY <1>4, <1>7, <2>3 DEF Named
<1> QED
  BY <1>8, <1>9, <1>10 DEF d

\* The mode is entered at the top of the stack.
LEMMA EnteredPlace ==
  ASSUME NEW c, Good(c), c.cmdtc_state = "init",
         AtWord(c), KeywordsListed(c), Named(c), NEW n \in Nat
  PROVE  LET d == [c EXCEPT !.root = c.curr_param, !.stack_checkpoint = Top(c.params_stack)]
         IN  Good(d) /\ Placed(d) /\ Covered(d, n)
<1> DEFINE d == [c EXCEPT !.root = c.curr_param, !.stack_checkpoint = Top(c.params_stack)]
<1>1. c \in CursorType /\ Len(c.params_stack) \in Nat \ {0} /\ c.curr_param \in Param
      /\ c.icursor = 0
  BY Stacks DEF CursorType, Shape
<1>2. Top(c.params_stack) \in Nat /\ Top(c.params_stack) < Len(c.params_stack)
      /\ Top(c.params_stack) + 1 = Len(c.params_stack)
  BY <1>1 DEF Top
<1>3. Good(d) /\ d.icursor = 0
  BY <1>1, <1>2, ModeOK
<1>4. /\ d.params_stack = c.params_stack /\ d.tlv_stack = c.tlv_stack
      /\ d.stack_checkpoint = Top(c.params_stack) /\ d.root = c.curr_param
      /\ d.curr_param = c.curr_param /\ d.matching_params_list = c.matching_params_list
      /\ d.cmdtc_state = c.cmdtc_state
  BY <1>1 DEF CursorType
<1> HIDE DEF d
<1>5. c.curr_param = Last(c.params_stack)
  BY DEF AtWord
<1>6. AtMode(d)
  BY <1>2, <1>4, <1>5 DEF AtMode, Last
<1>7. AtWord(d) /\ KeywordsListed(d) /\ Named(d)
  BY <1>4, <1>5 DEF AtWord, KeywordsListed, Named
<1>8. Covered(d, n)
  <2>1. Len(d.params_stack) = d.stack_checkpoint + 1
    BY <1>2, <1>4
  <2> QED
    BY <1>3, <2>1, NothingToCover
<1> QED
  BY <1>3, <1>6, <1>7, <1>8 DEF Placed, d

\* Page-up makes the word below the mode the mode.
LEMMA LeftPlace ==
  ASSUME NEW c, Good(c), Placed(c), c.cmdtc_state = "init", Len(c.params_stack) > 1,
         Len(c.params_stack) = c.stack_checkpoint + 1, NEW n \in Nat
  PROVE  LET d == [LevelUp(c) EXCEPT !.root = LevelUp(c).curr_param]
         IN  Placed(d) /\ Covered(d, n)
<1> DEFINE u == LevelUp(c)
           d == [u EXCEPT !.root = u.curr_param]
           k == Len(c.params_stack) - 1
<1>1. /\ c \in CursorType /\ Len(c.params_stack) \in Nat /\ c.stack_checkpoint \in Nat
      /\ k \in 1 .. Len(c.params_stack) /\ k \in Nat \ {0} /\ c.stack_checkpoint = k
  BY Stacks
<1>2. Good(u) /\ u.icursor = 0 /\ u \in CursorType
  BY LevelUpOK DEF Good
<1>3. /\ u.stack_checkpoint = k - 1
      /\ u.params_stack = SubSeq(c.params_stack, 1, k)
      /\ u.tlv_stack = SubSeq(c.tlv_stack, 1, k)
      /\ u.curr_param = c.params_stack[k] /\ u.matching_params_list = {}
  <2>1. MarkAfterPop(c) = k - 1
    BY <1>1 DEF MarkAfterPop, Top
  <2> QED
    BY <2>1, LevelUpIs
<1> HIDE DEF u
<1>4. /\ d.stack_checkpoint = k - 1 /\ d.root = c.params_stack[k]
      /\ d.params_stack = SubSeq(c.params_stack, 1, k)
      /\ d.tlv_stack = SubSeq(c.tlv_stack, 1, k)
      /\ d.curr_param = c.params_stack[k] /\ d.matching_params_list = {}
  BY <1>2, <1>3 DEF CursorType
<1>5. Good(d) /\ d.icursor = 0
  <2>1. d = [u EXCEPT !.root = u.curr_param, !.stack_checkpoint = u.stack_checkpoint]
    BY <1>2 DEF CursorType
  <2>2. u.curr_param \in Param /\ u.stack_checkpoint \in Nat
        /\ u.stack_checkpoint < Len(u.params_stack)
    BY <1>2 DEF Good, CursorType, Shape
  <2> HIDE DEF d
  <2> QED
    BY <1>2, <2>1, <2>2, ModeOK
<1> HIDE DEF d, k
<1>6. /\ AtWord(d) /\ KeywordsListed(d) /\ Named(d) /\ Len(d.params_stack) = k
      /\ \A i \in 1 .. k : d.params_stack[i] = c.params_stack[i]
  <2>1. Named(c)
    BY DEF Placed
  <2> QED
    BY <1>1, <1>4, <2>1, CutPlace, SMTT(30)
<1>7. AtMode(d)
  <2>1. k \in 1 .. k /\ k - 1 + 1 = k
    BY <1>1
  <2> QED
    BY <1>4, <1>6, <2>1 DEF AtMode
<1>8. Covered(d, n)
  <2>1. Len(d.params_stack) = d.stack_checkpoint + 1
    BY <1>1, <1>4, <1>6
  <2> QED
    BY <1>5, <2>1, NothingToCover
<1> QED
  BY <1>6, <1>7, <1>8 DEF Placed, d, u

-----------------------------------------------------------------------------
(* Every action keeps the mode.                                            *)

\* What an action may take from the invariant, and what it has to show for it.
LEMMA ModeBefore ==
  ASSUME ModeInv, Reading
  PROVE  /\ Inv /\ Good(cmdtc) /\ OptionsType /\ cmdtc \in CursorType
         /\ Placed(cmdtc) /\ KeywordsListed(cmdtc)
         /\ Covered(cmdtc, Len(line)) /\ Len(line) \in Nat
         /\ line \in Seq(LineChar) /\ hdr \in Seq(PromptChar)
         /\ cmdtc.icursor \in Nat /\ cmdtc.icursor <= Len(line)
         /\ status = "running"
BY Before, Stacks DEF ModeInv, Placed

ModeStep ==
  /\ status' # "corrupt" => Placed(cmdtc')
  /\ status' = "running" => Covered(cmdtc', Len(line'))

LEMMA TypeCharMode ==
  ASSUME ModeInv, NEW k \in Key, TypeChar(k)
  PROVE  ModeStep
<1>1. Reading /\ Accepts(cmdtc, k) /\ cmdtc' = ParseChar(cmdtc, k) /\ line' = Append(line, k)
  BY DEF TypeChar
<1>2. Len(line') = Len(line) + 1
  <2>1. k \in LineChar /\ line \in Seq(LineChar)
    BY <1>1, ModeBefore DEF LineChar
  <2> QED
    BY <1>1, <2>1, AppendProperties
<1>3. Placed(cmdtc') /\ Covered(cmdtc', Len(line) + 1)
  BY <1>1, ModeBefore, ParsedPlace
<1> QED
  BY <1>2, <1>3 DEF ModeStep

LEMMA SpaceListsMode ==
  ASSUME ModeInv, SpaceLists
  PROVE  ModeStep
<1> DEFINE m == Candidates(cmdtc)
           leaf == KnownLeaf(cmdtc)
<1>1. /\ Reading /\ cmdtc.cmdtc_state = "init" /\ UNCHANGED <<options, hdr, line, status>>
      /\ cmdtc' = [cmdtc EXCEPT !.matching_params_list = m, !.leaf_param = leaf]
  BY DEF SpaceLists
<1>2. \A p \in m : ~IsLeaf(p)
  BY <1>1, ModeBefore, CandidatesListed
<1> HIDE DEF m, leaf
<1>3. /\ cmdtc'.params_stack = cmdtc.params_stack /\ cmdtc'.tlv_stack = cmdtc.tlv_stack
      /\ cmdtc'.stack_checkpoint = cmdtc.stack_checkpoint /\ cmdtc'.root = cmdtc.root
      /\ cmdtc'.matching_params_list = m /\ cmdtc'.curr_param = cmdtc.curr_param
      /\ cmdtc'.icursor = cmdtc.icursor
  BY <1>1, ModeBefore DEF CursorType
<1>4. Placed(cmdtc')
  <2>1. cmdtc.curr_param = Last(cmdtc.params_stack)
    BY <1>1, ModeBefore DEF Placed, AtWord
  <2> QED
    BY <1>1, <1>2, <1>3, <2>1, ModeBefore, SamePlace
<1>5. Covered(cmdtc', Len(line'))
  <2>1. /\ cmdtc'.icursor \in Nat /\ Len(line') \in Nat /\ Len(line) \in Nat
        /\ cmdtc'.icursor + Len(line) <= cmdtc.icursor + Len(line')
    BY <1>1, <1>3, ModeBefore
  <2> QED
    BY <1>1, <1>3, <2>1, ModeBefore, SameCovered
<1> QED
  BY <1>4, <1>5 DEF ModeStep

LEMMA SpaceCompletesMode ==
  ASSUME ModeInv, SpaceCompletes
  PROVE  ModeStep
<1> DEFINE m == Candidates(cmdtc)
           leaf == KnownLeaf(cmdtc)
           keys == Completion(cmdtc, m)
           fits == FirstN(keys, MAX_COMMAND_LENGTH - Used)
           listed == [cmdtc EXCEPT !.matching_params_list = m, !.leaf_param = leaf,
                                   !.cmdtc_state = "multiple_matches"]
<1>1. Reading /\ Ambiguous(cmdtc) /\ cmdtc' = AutoTyped(listed, fits) /\ line' = line \o fits
  BY DEF SpaceCompletes
<1>2. /\ m \in SUBSET Param /\ leaf \in ParamOrNull /\ \A p \in m : ~IsLeaf(p)
  BY <1>1, ModeBefore, CandidatesOK, CandidatesListed
<1>3. m # {}
  <2>1. CASE Cardinality(m) > 1
    BY <2>1, FS_EmptySet
  <2>2. CASE cmdtc.cmdtc_state = "multiple_matches"
    BY <1>1, <2>2, ModeBefore DEF Good, Shape, Candidates, Fresh
  <2> QED
    BY <1>1, <2>1, <2>2 DEF Ambiguous
<1>4. fits \in Seq(Key) /\ Len(fits) \in Nat
  <2>1. keys \in Seq(Key)
    BY <1>1, <1>2, <1>3, ModeBefore, CompletionType
  <2>2. MAX_COMMAND_LENGTH - Used \in Nat
    BY <1>1, ModeBefore, Before
  <2> HIDE DEF keys
  <2>3. fits \in Seq(Key)
    BY <2>1, <2>2, FirstNOK
  <2> HIDE DEF fits
  <2> QED  BY <2>3, LenProperties
<1> HIDE DEF m, leaf, keys, fits
<1>5. /\ listed \in CursorType /\ listed.icursor = cmdtc.icursor
      /\ listed.params_stack = cmdtc.params_stack /\ listed.tlv_stack = cmdtc.tlv_stack
      /\ listed.stack_checkpoint = cmdtc.stack_checkpoint /\ listed.root = cmdtc.root
      /\ listed.matching_params_list = m /\ listed.cmdtc_state = "multiple_matches"
  <2>1. cmdtc \in CursorType
    BY <1>1, ModeBefore
  <2> QED
    BY <1>2, <2>1 DEF CursorType
<1> HIDE DEF listed
<1>6. /\ cmdtc'.icursor = cmdtc.icursor + Len(fits)
      /\ cmdtc'.params_stack = cmdtc.params_stack /\ cmdtc'.tlv_stack = cmdtc.tlv_stack
      /\ cmdtc'.stack_checkpoint = cmdtc.stack_checkpoint /\ cmdtc'.root = cmdtc.root
      /\ cmdtc'.matching_params_list = m /\ cmdtc'.cmdtc_state # "init"
  BY <1>1, <1>4, <1>5, AutoTypedOK, AutoTypedRoot
<1>7. Placed(cmdtc')
  BY <1>1, <1>2, <1>6, ModeBefore, SamePlace
<1>8. Len(line') = Len(line) + Len(fits)
  <2>1. fits \in Seq(LineChar) /\ line \in Seq(LineChar)
    BY <1>1, <1>4, ModeBefore, SeqMonotonic DEF LineChar
  <2> QED
    BY <1>1, <2>1, ConcatProperties
<1>9. Covered(cmdtc', Len(line'))
  <2>1. /\ cmdtc'.icursor \in Nat /\ Len(line') \in Nat /\ Len(line) \in Nat
        /\ cmdtc'.icursor + Len(line) <= cmdtc.icursor + Len(line')
    BY <1>1, <1>4, <1>6, <1>8, ModeBefore
  <2> QED
    BY <1>1, <1>6, <2>1, ModeBefore, SameCovered
<1> QED
  BY <1>7, <1>9 DEF ModeStep

LEMMA SpaceAcceptsMode ==
  ASSUME ModeInv, SpaceAccepts
  PROVE  ModeStep
<1>1. Reading
  BY DEF SpaceAccepts
<1>2. PICK p \in OneWord(cmdtc) :
        /\ cmdtc' = Pushed(cmdtc, p)
        /\ line' = line \o Missing(cmdtc, p) \o <<" ">>
  BY DEF SpaceAccepts
<1>3. p \in Param /\ (cmdtc.is_negate => ~IsNo(p))
  BY <1>1, ModeBefore, OneWordOK
<1> DEFINE w == Len(Tlv(p, cmdtc.curr_leaf_value).value)
           missing == Missing(cmdtc, p)
<1>4. /\ missing \in Seq(Key) /\ Len(missing) \in Nat /\ w \in Nat
      /\ w <= cmdtc.icursor + Len(missing)
  BY <1>1, ModeBefore, WordIsTyped
<1>5. line' = line \o missing \o <<" ">>
  BY <1>2
<1> HIDE DEF missing
<1>6. Len(line') = Len(line) + Len(missing) + 1
  <2>1. missing \in Seq(LineChar) /\ line \in Seq(LineChar) /\ <<" ">> \in Seq(LineChar)
    <3>1. missing \in Seq(LineChar)
      BY <1>4, SeqMonotonic DEF LineChar
    <3>2. <<" ">> \in Seq(LineChar)
      BY DEF LineChar
    <3> QED
      BY <1>1, <3>1, <3>2, ModeBefore
  <2>2. line \o missing \in Seq(LineChar) /\ Len(line \o missing) = Len(line) + Len(missing)
    BY <2>1, ConcatProperties
  <2>3. Len(line') = Len(line \o missing) + Len(<<" ">>)
    BY <1>5, <2>1, <2>2, ConcatProperties
  <2> QED
    BY <2>2, <2>3
<1>7. Placed(cmdtc')
  BY <1>1, <1>2, <1>3, ModeBefore, PushedPlace
<1>8. Covered(cmdtc', Len(line'))
  <2>1. /\ Len(line) \in Nat /\ Len(line') \in Nat
        /\ Len(line) + w + 1 <= cmdtc.icursor + Len(line')
    <3> HIDE DEF w
    <3> QED  BY <1>1, <1>4, <1>6, ModeBefore
  <2> QED
    BY <1>1, <1>2, <1>3, <2>1, ModeBefore, PushedCovered
<1> QED
  BY <1>7, <1>8 DEF ModeStep

LEMMA AutoCompletionSpinsMode ==
  ASSUME ModeInv, AutoCompletionSpins
  PROVE  ModeStep
<1>1. Reading /\ status' = "spinning"
  BY DEF AutoCompletionSpins
<1>2. PICK p \in OneWord(cmdtc) :
        LET fits == FirstN(Missing(cmdtc, p), MAX_COMMAND_LENGTH - Used) IN
        /\ ~Fits(Missing(cmdtc, p))
        /\ cmdtc' = AutoTyped([cmdtc EXCEPT !.curr_param = p,
                                            !.matching_params_list = {p},
                                            !.leaf_param = KnownLeaf(cmdtc),
                                            !.cmdtc_state = "single_word_match"], fits)
  BY DEF AutoCompletionSpins
<1> DEFINE fits == FirstN(Missing(cmdtc, p), MAX_COMMAND_LENGTH - Used)
           leaf == KnownLeaf(cmdtc)
           listed == [cmdtc EXCEPT !.curr_param = p, !.matching_params_list = {p},
                                   !.leaf_param = leaf,
                                   !.cmdtc_state = "single_word_match"]
<1>3. p \in Param /\ leaf \in ParamOrNull /\ Missing(cmdtc, p) \in Seq(Key)
      /\ MAX_COMMAND_LENGTH - Used \in Nat
  BY <1>1, ModeBefore, Before, WordIsTyped, CandidatesOK
<1>4. ~IsLeaf(p)
  <2>1. SUFFICES ASSUME IsLeaf(p) PROVE FALSE
    OBVIOUS
  <2>2. ~(Used + 0 <= MAX_COMMAND_LENGTH)
    BY <1>2, <2>1, EmptyLine DEF Fits, Missing
  <2>3. Used \in Nat /\ MAX_COMMAND_LENGTH \in Nat
    <3>1. Len(hdr) \in Nat /\ Len(line) \in Nat
      BY <1>1, ModeBefore, LenProperties
    <3>2. MAX_COMMAND_LENGTH \in Nat
      BY LineAssumption
    <3> QED
      BY <3>1, <3>2 DEF Used
  <2>4. Used < MAX_COMMAND_LENGTH
    BY <1>1 DEF Reading
  <2> QED
    BY <2>2, <2>3, <2>4
<1>5. fits \in Seq(Key)
  BY <1>3, FirstNOK
<1>6. cmdtc' = AutoTyped(listed, fits)
  BY <1>2
<1> HIDE DEF fits, leaf
<1>7. /\ listed \in CursorType
      /\ listed.params_stack = cmdtc.params_stack /\ listed.tlv_stack = cmdtc.tlv_stack
      /\ listed.stack_checkpoint = cmdtc.stack_checkpoint /\ listed.root = cmdtc.root
      /\ listed.matching_params_list = {p} /\ listed.cmdtc_state = "single_word_match"
  <2>1. cmdtc \in CursorType
    BY <1>1, ModeBefore
  <2> QED
    BY <1>3, <2>1 DEF CursorType
<1> HIDE DEF listed
<1>8. /\ cmdtc'.params_stack = cmdtc.params_stack /\ cmdtc'.tlv_stack = cmdtc.tlv_stack
      /\ cmdtc'.stack_checkpoint = cmdtc.stack_checkpoint /\ cmdtc'.root = cmdtc.root
      /\ cmdtc'.matching_params_list = {p} /\ cmdtc'.cmdtc_state # "init"
  BY <1>5, <1>6, <1>7, AutoTypedOK, AutoTypedRoot
<1>9. Placed(cmdtc')
  BY <1>1, <1>4, <1>8, ModeBefore, SamePlace
<1> QED
  BY <1>1, <1>9 DEF ModeStep

\* A command submitted from a cursor c that knows its mode.
LEMMA SubmittedMode ==
  ASSUME NEW c, Good(c), AtMode(c), Named(c), NEW h, Submit(c, h),
         Len(line') \in Nat
  PROVE  ModeStep
<1>1. cmdtc' = Reset(c)
  BY DEF Submit
<1> QED
  BY <1>1, ResetPlace DEF ModeStep

LEMMA ReturnCommandMode ==
  ASSUME ModeInv, ReturnCommand
  PROVE  ModeStep
<1>1. Reading /\ Submit(cmdtc, hdr) /\ line' = <<>>
  BY DEF ReturnCommand
<1>2. Len(line') \in Nat
  BY <1>1, EmptyLine
<1> QED
  BY <1>1, <1>2, ModeBefore, SubmittedMode DEF Placed

LEMMA RunModeMode ==
  ASSUME ModeInv, RunMode
  PROVE  ModeStep
<1>1. Reading /\ Submit(cmdtc, hdr) /\ line' = line
  BY DEF RunMode
<1>2. Len(line') \in Nat
  BY <1>1, ModeBefore
<1> QED
  BY <1>1, <1>2, ModeBefore, SubmittedMode DEF Placed

LEMMA ReturnWordMode ==
  ASSUME ModeInv, ReturnWord
  PROVE  ModeStep
<1>1. Reading /\ line' = <<>>
  BY DEF ReturnWord
<1>2. PICK p \in OneWord(cmdtc) :
        IF AfterSpace(cmdtc, p) = status
        THEN Submit(Pushed(cmdtc, p), hdr)
        ELSE cmdtc' = Pushed(cmdtc, p) /\ status' = AfterSpace(cmdtc, p)
  BY DEF ReturnWord
<1>3. p \in Param /\ (cmdtc.is_negate => ~IsNo(p))
  BY <1>1, ModeBefore, OneWordOK
<1>4. Good(Pushed(cmdtc, p)) /\ Placed(Pushed(cmdtc, p))
  BY <1>1, <1>3, ModeBefore, PushedOK, PushedPlace
<1>5. Len(line') \in Nat
  BY <1>1, EmptyLine
<1>6. CASE AfterSpace(cmdtc, p) = status
  BY <1>2, <1>4, <1>5, <1>6, SubmittedMode DEF Placed
<1>7. CASE AfterSpace(cmdtc, p) # status
  <2>1. status' # "running"
    BY <1>1, <1>2, <1>7, ModeBefore
  <2> QED
    BY <1>2, <1>4, <1>7, <2>1 DEF ModeStep
<1> QED
  BY <1>6, <1>7

LEMMA ReturnRejectMode ==
  ASSUME ModeInv, ReturnReject
  PROVE  ModeStep
<1>1. Reading /\ line' = <<>> /\ cmdtc' = Reset(cmdtc)
  BY DEF ReturnReject
<1>2. Len(line') \in Nat
  BY <1>1, EmptyLine
<1> QED
  BY <1>1, <1>2, ModeBefore, ResetPlace DEF Placed, ModeStep

\* The cursor back between two words.
LEMMA BackPlace ==
  ASSUME NEW c, Good(c), Placed(c), NEW v \in Seq(Char),
         NEW n \in Nat, Covered(c, n), NEW k \in Nat, n <= c.icursor + k
  PROVE  LET d == [Between(c) EXCEPT !.curr_param = Last(c.params_stack),
                                     !.curr_leaf_value = v]
         IN  Placed(d) /\ Covered(d, k)
<1> DEFINE b == Between(c)
           d == [b EXCEPT !.curr_param = Last(c.params_stack), !.curr_leaf_value = v]
<1>1. c \in CursorType
  BY Stacks
<1>2. /\ b.params_stack = c.params_stack /\ b.tlv_stack = c.tlv_stack
      /\ b.stack_checkpoint = c.stack_checkpoint /\ b.root = c.root
      /\ b.matching_params_list = {} /\ b.icursor = 0 /\ b \in CursorType
  BY <1>1, BetweenOK DEF Between, CursorType
<1> HIDE DEF b
<1>3. /\ d.params_stack = c.params_stack /\ d.tlv_stack = c.tlv_stack
      /\ d.stack_checkpoint = c.stack_checkpoint /\ d.root = c.root
      /\ d.matching_params_list = {} /\ d.icursor = 0 /\ d.curr_param = Last(c.params_stack)
  BY <1>2 DEF CursorType
<1> HIDE DEF d
<1>4. Placed(d)
  BY <1>3, SamePlace
<1>5. Covered(d, k)
  <2>1. d.icursor \in Nat /\ d.icursor + n <= c.icursor + k
    BY <1>3
  <2> QED
    BY <1>3, <2>1, SameCovered
<1> QED
  BY <1>4, <1>5 DEF d, b

LEMMA EraseCharMode ==
  ASSUME ModeInv, EraseChar
  PROVE  ModeStep
<1> DEFINE v == SubSeq(cmdtc.curr_leaf_value, 1, cmdtc.icursor - 1)
           c == [cmdtc EXCEPT !.icursor = cmdtc.icursor - 1, !.curr_leaf_value = v]
<1>1. Reading /\ line # <<>> /\ cmdtc.cmdtc_state = "matching_leaf" /\ line' = Front(line)
  BY DEF EraseChar
<1>2. cmdtc' = IF c.icursor > 0 THEN c ELSE [Between(c) EXCEPT !.curr_param = Last(c.params_stack)]
  BY DEF EraseChar
<1>3. /\ cmdtc \in CursorType /\ cmdtc.icursor \in Nat \ {0}
      /\ cmdtc.icursor = Len(cmdtc.curr_leaf_value) /\ cmdtc.curr_leaf_value \in Seq(Char)
  BY <1>1, ModeBefore DEF Good, Shape, CursorType, Char
<1>4. v \in Seq(Char)
  <2>1. 1 \in Nat \ {0} /\ cmdtc.icursor - 1 \in Int
        /\ cmdtc.icursor - 1 <= Len(cmdtc.curr_leaf_value)
    BY <1>3
  <2> QED
    BY <1>3, <2>1, SubSeqType
<1>5. Len(line) \in Nat \ {0} /\ Len(line') = Len(line) - 1
  <2>1. line \in Seq(LineChar) /\ Len(line) \in Nat
    BY <1>1, ModeBefore
  <2>2. Len(line) \in Nat \ {0}
    BY <1>1, <2>1, EmptySeq
  <2>3. 1 <= Len(line) => Len(PopN(line, 1)) = Len(line) - 1
    BY <2>1, PopNOK
  <2> QED
    BY <1>1, <2>1, <2>2, <2>3 DEF PopN, Front
<1> HIDE DEF v
<1>6. /\ c.icursor = cmdtc.icursor - 1
      /\ c.params_stack = cmdtc.params_stack /\ c.tlv_stack = cmdtc.tlv_stack
      /\ c.stack_checkpoint = cmdtc.stack_checkpoint /\ c.root = cmdtc.root
      /\ c.matching_params_list = cmdtc.matching_params_list
      /\ c.cmdtc_state = "matching_leaf"
  BY <1>1, <1>3 DEF CursorType
<1>7. CASE c.icursor > 0
  <2>1. cmdtc' = c
    BY <1>2, <1>7
  <2> HIDE DEF c
  <2>2. Placed(c)
    BY <1>1, <1>6, ModeBefore, SamePlace DEF KeywordsListed
  <2>3. Covered(c, Len(line'))
    <3>1. /\ c.icursor \in Nat /\ Len(line') \in Nat /\ Len(line) \in Nat
          /\ c.icursor + Len(line) <= cmdtc.icursor + Len(line')
      BY <1>3, <1>5, <1>6
    <3> QED
      BY <1>1, <1>6, <3>1, ModeBefore, SameCovered
  <2> QED
    BY <2>1, <2>2, <2>3 DEF ModeStep
<1>8. CASE ~(c.icursor > 0)
  <2> DEFINE d == [Between(cmdtc) EXCEPT !.curr_param = Last(cmdtc.params_stack),
                                         !.curr_leaf_value = v]
  <2>1. cmdtc' = [Between(c) EXCEPT !.curr_param = Last(c.params_stack)]
    BY <1>2, <1>8
  <2>2. cmdtc' = d
    BY <1>3, <2>1 DEF Between, CursorType
  <2>3. Len(line) \in Nat /\ Len(line') \in Nat /\ Len(line) <= cmdtc.icursor + Len(line')
    BY <1>3, <1>5
  <2>4. Placed(d) /\ Covered(d, Len(line'))
    BY <1>1, <1>4, <2>3, ModeBefore, BackPlace
  <2> HIDE DEF d
  <2> QED
    BY <2>2, <2>4 DEF ModeStep
<1> QED
  BY <1>7, <1>8

LEMMA EraseWordMode ==
  ASSUME ModeInv, EraseWord
  PROVE  ModeStep
<1> DEFINE v == IF cmdtc.leaf_param = NoParam THEN cmdtc.curr_leaf_value ELSE <<>>
           d == [Between(cmdtc) EXCEPT !.curr_param = Last(cmdtc.params_stack),
                                       !.curr_leaf_value = v]
<1>1. Reading /\ line' = PopN(line, cmdtc.icursor)
  BY DEF EraseWord
<1>2. cmdtc' = d
  BY DEF EraseWord, Between
<1>3. v \in Seq(Char)
  BY <1>1, ModeBefore, EmptySeq DEF CursorType, Char
<1>4. Len(line) \in Nat /\ Len(line') \in Nat /\ Len(line) <= cmdtc.icursor + Len(line')
  <2>1. /\ line \in Seq(LineChar) /\ Len(line) \in Nat /\ cmdtc.icursor \in Nat
        /\ cmdtc.icursor <= Len(line)
    BY <1>1, ModeBefore
  <2>2. Len(line') = Len(line) - cmdtc.icursor
    BY <1>1, <2>1, PopNOK
  <2> QED
    BY <2>1, <2>2
<1>5. Placed(d) /\ Covered(d, Len(line'))
  <2> HIDE DEF v
  <2> QED  BY <1>1, <1>3, <1>4, ModeBefore, BackPlace
<1> HIDE DEF d
<1> QED
  BY <1>2, <1>5 DEF ModeStep

LEMMA EraseLevelMode ==
  ASSUME ModeInv, EraseLevel
  PROVE  ModeStep
<1>1. Reading /\ cmdtc.cmdtc_state = "init" /\ cmdtc' = LevelUp(cmdtc)
      /\ line' = PopN(line, TopWord(cmdtc) + 1)
      /\ Top(cmdtc.params_stack) # cmdtc.stack_checkpoint
  BY DEF EraseLevel
<1>2. /\ Placed(LevelUp(cmdtc)) /\ TopWord(cmdtc) + 1 <= Len(line)
      /\ Covered(LevelUp(cmdtc), Len(line) - (TopWord(cmdtc) + 1))
  BY <1>1, ModeBefore, ErasedPlace
<1>3. Len(line') = Len(line) - (TopWord(cmdtc) + 1)
  <2>1. TopWord(cmdtc) + 1 \in Nat /\ line \in Seq(LineChar)
    BY <1>1, ModeBefore, TopWordOK
  <2> QED
    BY <1>1, <1>2, <2>1, PopNOK
<1> QED
  BY <1>1, <1>2, <1>3 DEF ModeStep

LEMMA PageUpMode ==
  ASSUME ModeInv, PageUp
  PROVE  ModeStep
<1>1. /\ Reading /\ line = <<>> /\ line' = line /\ Top(cmdtc.params_stack) > 0
      /\ \/ cmdtc' = [LevelUp(cmdtc) EXCEPT !.root = LevelUp(cmdtc).curr_param]
         \/ UNCHANGED cmdtc /\ status' = "aborted"
  BY DEF PageUp
<1>2. /\ Good(cmdtc) /\ Placed(cmdtc) /\ Covered(cmdtc, 0)
      /\ Len(cmdtc.params_stack) \in Nat
  BY <1>1, ModeBefore, EmptyLine, Stacks
<1>3. Len(cmdtc.params_stack) = cmdtc.stack_checkpoint + 1 /\ cmdtc.icursor = 0
  BY <1>2, NothingCovered
<1>4. cmdtc.cmdtc_state = "init" /\ Len(cmdtc.params_stack) > 1
  BY <1>1, <1>2, <1>3 DEF Good, Shape, Top
<1>5. Len(line') \in Nat
  BY <1>1, EmptyLine
<1> QED
  BY <1>1, <1>2, <1>3, <1>4, <1>5, LeftPlace DEF ModeStep

LEMMA CtrlTMode ==
  ASSUME ModeInv, CtrlT
  PROVE  ModeStep
<1> DEFINE b == cmdtc.refresh_disabled /\ RefreshValHook \notin Range(cmdtc.params_stack)
<1>1. line' = <<>> /\ cmdtc' = [InitCursor EXCEPT !.refresh_disabled = b]
  BY DEF CtrlT
<1>2. b \in BOOLEAN /\ Len(line') \in Nat
  BY <1>1, EmptyLine
<1> HIDE DEF b
<1> QED
  BY <1>1, <1>2, InitPlace DEF ModeStep

LEMMA EnterModeMode ==
  ASSUME ModeInv, EnterMode
  PROVE  ModeStep
<1> DEFINE c == IF Nested(cmdtc) THEN WithoutOuter(cmdtc) ELSE cmdtc
           stack == Rebuilt(c.params_stack)
           mode == [c EXCEPT !.params_stack = stack, !.root = c.curr_param,
                             !.stack_checkpoint = Top(stack)]
           h == ModeHdr(c.tlv_stack)
           entered == [c EXCEPT !.root = c.curr_param, !.stack_checkpoint = Top(c.params_stack)]
<1>1. Reading /\ cmdtc.cmdtc_state = "init"
  BY DEF EnterMode
<1>2. \/ status' = "aborted" /\ UNCHANGED <<cmdtc, line>>
      \/ status' = "corrupt"
      \/ line' = <<>> /\ stack = c.params_stack /\ (Submit(mode, h) \/ cmdtc' = mode)
  BY DEF EnterMode
<1>3. Good(c) /\ c.cmdtc_state = "init" /\ AtWord(c) /\ KeywordsListed(c) /\ Named(c)
  BY <1>1, ModeBefore, WithoutOuterOK, WithoutOuterPlace DEF Placed
<1> HIDE DEF c, h
<1>4. CASE status' = "aborted" /\ UNCHANGED <<cmdtc, line>>
  BY <1>1, <1>4, ModeBefore DEF ModeStep
<1>5. CASE status' = "corrupt"
  BY <1>5 DEF ModeStep
<1>6. CASE line' = <<>> /\ stack = c.params_stack /\ (Submit(mode, h) \/ cmdtc' = mode)
  <2>1. mode = entered
    <3>1. c \in CursorType
      BY <1>3, Stacks
    <3> QED
      BY <1>6, <3>1 DEF CursorType
  <2>2. Len(line') \in Nat
    BY <1>6, EmptyLine
  <2>3. Good(mode) /\ Placed(mode) /\ Covered(mode, Len(line'))
    <3>1. Good(entered) /\ Placed(entered) /\ Covered(entered, Len(line'))
      BY <1>3, <2>2, EnteredPlace
    <3> HIDE DEF mode, entered
    <3> QED  BY <2>1, <3>1
  <2> HIDE DEF mode
  <2>4. CASE Submit(mode, h)
    BY <2>2, <2>3, <2>4, SubmittedMode DEF Placed
  <2>5. CASE cmdtc' = mode
    BY <2>3, <2>5 DEF ModeStep
  <2> QED
    BY <1>6, <2>4, <2>5
<1> QED
  BY <1>2, <1>4, <1>5, <1>6

-----------------------------------------------------------------------------
(* The theorems.                                                           *)

LEMMA ModeInitially ==
  ASSUME Init
  PROVE  ModeInv
<1>1. cmdtc = InitCursor /\ line = <<>>
  BY DEF Init
<1>2. Placed(cmdtc) /\ Covered(cmdtc, Len(line))
  BY <1>1, EmptyLine, InitPlace
<1> QED
  BY <1>2, Initially DEF ModeInv

LEMMA ModeInductive ==
  ASSUME ModeInv, [Next]_vars
  PROVE  ModeInv'
<1>1. Inv'
  BY Inductive DEF ModeInv
<1>2. CASE UNCHANGED vars
  BY <1>2 DEF vars, ModeInv, Inv, TypeOK
<1>3. CASE Next
  <2>1. ModeStep
    BY <1>3, TypeCharMode, SpaceListsMode, SpaceCompletesMode, SpaceAcceptsMode,
       AutoCompletionSpinsMode, ReturnCommandMode, ReturnWordMode, ReturnRejectMode,
       EraseCharMode, EraseWordMode, EraseLevelMode, PageUpMode, CtrlTMode, RunModeMode,
       EnterModeMode DEF Next
  <2> QED
    BY <1>1, <2>1 DEF ModeInv, ModeStep
<1> QED
  BY <1>2, <1>3

LEMMA ModeInvariance == Spec => []ModeInv
BY ModeInitially, ModeInductive, PTL DEF Spec

\* The root of the cursor is the param at the checkpoint of its stacks, and the
\* stacks reach up to it, through every key until a buffer is overrun.
THEOREM ModeIsAtCheckpoint == Spec => [](status # "corrupt" => ModeAtCheckpoint)
<1>1. ModeInv => (status # "corrupt" => ModeAtCheckpoint)
  <2>1. SUFFICES ASSUME ModeInv, status # "corrupt" PROVE ModeAtCheckpoint
    OBVIOUS
  <2>2. Good(cmdtc) /\ AtMode(cmdtc)
    BY <2>1 DEF ModeInv, Inv, Placed
  <2>3. /\ cmdtc.stack_checkpoint \in Nat /\ Len(cmdtc.params_stack) \in Nat
        /\ cmdtc.stack_checkpoint + 1 <= Len(cmdtc.params_stack)
    BY <2>2, Stacks
  <2> QED
    BY <2>2, <2>3 DEF ModeAtCheckpoint, AtMode, Top
<1> QED
  BY <1>1, ModeInvariance, PTL

\* On an empty line there is no word of a command on the stacks: page-up, which
\* pops one param, leaves the mode and nothing else.
THEOREM EmptyLineIsMode ==
  Spec => [](status = "running" /\ line = <<>> => Top(cmdtc.params_stack) = cmdtc.stack_checkpoint)
<1>1. ModeInv => (status = "running" /\ line = <<>> =>
                    Top(cmdtc.params_stack) = cmdtc.stack_checkpoint)
  <2>1. SUFFICES ASSUME ModeInv, status = "running", line = <<>>
                 PROVE  Top(cmdtc.params_stack) = cmdtc.stack_checkpoint
    OBVIOUS
  <2>2. Good(cmdtc) /\ Covered(cmdtc, 0)
    BY <2>1, EmptyLine DEF ModeInv, Inv
  <2>3. Len(cmdtc.params_stack) = cmdtc.stack_checkpoint + 1 /\ cmdtc.stack_checkpoint \in Nat
    BY <2>2, NothingCovered, Stacks
  <2> QED
    BY <2>3 DEF Top
<1> QED
  BY <1>1, ModeInvariance, PTL

-----------------------------------------------------------------------------
(* Joining sequences.                                                      *)

Less == {ss \in Nat \X Nat : ss[1] < ss[2]}

LEMMA LeastNat == ASSUME NEW T \in SUBSET Nat, T # {} PROVE \E m \in T : \A n \in T : m <= n
<1>1. IsWellFoundedOn(Less, Nat)
  BY NatLessThanWellFounded DEF OpToRel, Less
<1>2. PICK m \in T : \A n \in T : ~ (<<n, m>> \in Less)
  BY <1>1, WFMin
<1>3. ASSUME NEW n \in T PROVE m <= n
  <2>1. n < m => <<n, m>> \in Less
    BY DEF Less
  <2> QED
    BY <1>2, <2>1
<1> QED
  BY <1>3

\* FlattenSeq joins its sequences one by one.
Flatten(seqs) ==
  LET flatten[i \in 1 .. Len(seqs)] == IF i = 1 THEN seqs[i] ELSE flatten[i - 1] \o seqs[i]
  IN  flatten
Joins(f, seqs) ==
  f = [i \in 1 .. Len(seqs) |-> IF i = 1 THEN seqs[i] ELSE f[i - 1] \o seqs[i]]

LEMMA FlattenIs ==
  ASSUME NEW seqs, NEW f, Joins(f, seqs)
  PROVE  Joins(Flatten(seqs), seqs)
BY Zenon DEF Flatten, Joins

LEMMA FlattenSeqIs ==
  ASSUME NEW seqs
  PROVE  FlattenSeq(seqs) = IF Len(seqs) = 0 THEN seqs ELSE Flatten(seqs)[Len(seqs)]
BY DEF FlattenSeq, Flatten

LEMMA FlattenSeqLast ==
  ASSUME NEW seqs, NEW n, Len(seqs) = n, n # 0
  PROVE  FlattenSeq(seqs) = Flatten(seqs)[n]
BY DEF FlattenSeq, Flatten

LEMMA JoinsUnique ==
  ASSUME NEW seqs, Len(seqs) \in Nat, NEW f, NEW g, Joins(f, seqs), Joins(g, seqs)
  PROVE  f = g
<1> DEFINE D == 1 .. Len(seqs)
           differ == {k \in D : f[k] # g[k]}
<1>1. ASSUME NEW m \in differ, \A n \in differ : m <= n PROVE FALSE
  <2>1. m # 1
    BY <1>1 DEF Joins
  <2>2. m - 1 \in D /\ m - 1 \notin differ
    BY <1>1, <2>1
  <2>3. f[m] = f[m - 1] \o seqs[m] /\ g[m] = g[m - 1] \o seqs[m]
    BY <1>1, <2>1 DEF Joins
  <2> QED
    BY <1>1, <2>2, <2>3
<1>2. differ \in SUBSET Nat
  OBVIOUS
<1>3. differ = {}
  <2> HIDE DEF differ
  <2> QED
    BY <1>1, <1>2, LeastNat
<1>4. f = [k \in D |-> f[k]] /\ g = [k \in D |-> g[k]]
  BY DEF Joins
<1>5. \A k \in D : f[k] = g[k]
  BY <1>3
<1> QED
  BY <1>4, <1>5

\* The first n sequences of s, and one more.
Upto(s, n) == [i \in 1 .. n |-> s[i]]

LEMMA UptoIs ==
  ASSUME NEW s, NEW n \in Nat
  PROVE  Len(Upto(s, n)) = n /\ \A i \in 1 .. n : Upto(s, n)[i] = s[i]
BY DEF Upto

LEMMA JoinsAt ==
  ASSUME NEW s, NEW n \in Nat, NEW f, Joins(f, Upto(s, n)), NEW i \in 1 .. n
  PROVE  f[i] = IF i = 1 THEN s[i] ELSE f[i - 1] \o s[i]
<1>1. Len(Upto(s, n)) = n /\ Upto(s, n)[i] = s[i]
  BY UptoIs
<1>2. f[i] = IF i = 1 THEN Upto(s, n)[i] ELSE f[i - 1] \o Upto(s, n)[i]
  BY <1>1 DEF Joins
<1> QED
  BY <1>1, <1>2

LEMMA JoinsNext ==
  ASSUME NEW s, NEW n \in Nat, NEW f, Joins(f, Upto(s, n))
  PROVE  Joins([i \in 1 .. n + 1 |->
                  IF i <= n THEN f[i] ELSE IF n = 0 THEN s[1] ELSE f[n] \o s[n + 1]],
               Upto(s, n + 1))
<1> DEFINE g == [i \in 1 .. n + 1 |->
                  IF i <= n THEN f[i] ELSE IF n = 0 THEN s[1] ELSE f[n] \o s[n + 1]]
<1>1. ASSUME NEW i \in 1 .. n + 1
      PROVE  g[i] = IF i = 1 THEN s[i] ELSE g[i - 1] \o s[i]
  <2>1. CASE i <= n
    <3>1. g[i] = f[i] /\ i \in 1 .. n
      BY <2>1
    <3>2. f[i] = IF i = 1 THEN s[i] ELSE f[i - 1] \o s[i]
      BY <3>1, JoinsAt
    <3>3. i # 1 => g[i - 1] = f[i - 1]
      BY <2>1
    <3> QED
      BY <3>1, <3>2, <3>3
  <2>2. CASE i = n + 1 /\ n # 0
    BY <2>2
  <2>3. CASE i = 1 /\ n = 0
    BY <2>3
  <2> QED
    BY <2>1, <2>2, <2>3
<1>2. Len(Upto(s, n + 1)) = n + 1 /\ \A i \in 1 .. n + 1 : Upto(s, n + 1)[i] = s[i]
  BY UptoIs
<1>3. g = [i \in 1 .. n + 1 |-> g[i]]
  OBVIOUS
<1> HIDE DEF g
<1>4. [i \in 1 .. n + 1 |-> g[i]] =
      [i \in 1 .. n + 1 |-> IF i = 1 THEN s[i] ELSE g[i - 1] \o s[i]]
  BY <1>1
<1>5. [i \in 1 .. n + 1 |-> IF i = 1 THEN s[i] ELSE g[i - 1] \o s[i]] =
      [i \in 1 .. Len(Upto(s, n + 1)) |->
          IF i = 1 THEN Upto(s, n + 1)[i] ELSE g[i - 1] \o Upto(s, n + 1)[i]]
  BY <1>2
<1>6. Joins(g, Upto(s, n + 1))
  BY <1>3, <1>4, <1>5 DEF Joins
<1> QED
  BY <1>6 DEF g

LEMMA FlattenJoins ==
  ASSUME NEW s, NEW n \in Nat
  PROVE  Joins(Flatten(Upto(s, n)), Upto(s, n))
<1> DEFINE none == {k \in Nat : ~ \E f : Joins(f, Upto(s, k))}
<1>1. ASSUME NEW m \in none, \A k \in none : m <= k PROVE FALSE
  <2>1. CASE m = 0
    <3>1. Len(Upto(s, 0)) = 0
      BY UptoIs
    <3>2. 1 .. Len(Upto(s, 0)) = {}
      BY <3>1
    <3> DEFINE f == [i \in {} |-> s]
    <3>3. Joins(f, Upto(s, 0))
      BY <3>2 DEF Joins
    <3> QED
      BY <1>1, <2>1, <3>3
  <2>2. CASE m # 0
    <3>1. m - 1 \in Nat /\ m - 1 \notin none /\ (m - 1) + 1 = m
      BY <1>1, <2>2
    <3>2. PICK f : Joins(f, Upto(s, m - 1))
      BY <3>1
    <3>3. \E g : Joins(g, Upto(s, (m - 1) + 1))
      BY <3>1, <3>2, JoinsNext
    <3> QED
      BY <1>1, <3>1, <3>3
  <2> QED
    BY <2>1, <2>2
<1>2. none = {}
  <2>1. none \in SUBSET Nat
    OBVIOUS
  <2> HIDE DEF none
  <2> QED
    BY <1>1, <2>1, LeastNat
<1>3. PICK f : Joins(f, Upto(s, n))
  BY <1>2
<1> QED
  BY <1>3, FlattenIs

\* One more sequence is put behind the others.
LEMMA FlattenOneMore ==
  ASSUME NEW T, NEW s, NEW n \in Nat, s[n + 1] \in Seq(T)
  PROVE  /\ FlattenSeq(Upto(s, 0)) = <<>>
         /\ FlattenSeq(Upto(s, n + 1)) = FlattenSeq(Upto(s, n)) \o s[n + 1]
<1>1. Len(Upto(s, 0)) = 0 /\ Len(Upto(s, n)) = n /\ Len(Upto(s, n + 1)) = n + 1
  BY UptoIs
<1>2. FlattenSeq(Upto(s, 0)) = <<>>
  <2>1. Upto(s, 0) = <<>>
    BY DEF Upto
  <2> QED
    BY <1>1, <2>1, FlattenSeqIs
<1>3. CASE n = 0
  <2>1. Joins(Flatten(Upto(s, n + 1)), Upto(s, n + 1))
    BY FlattenJoins
  <2>2. n + 1 \in 1 .. n + 1 /\ n + 1 # 0
    OBVIOUS
  <2>3. Flatten(Upto(s, n + 1))[n + 1] = s[n + 1]
    BY <1>3, <2>1, <2>2, JoinsAt
  <2>4. FlattenSeq(Upto(s, n + 1)) = s[n + 1]
    BY <1>1, <2>2, <2>3, FlattenSeqLast
  <2> QED
    BY <1>2, <1>3, <2>4, ConcatEmptySeq
<1>4. CASE n # 0
  <2> DEFINE f == Flatten(Upto(s, n))
             g == [i \in 1 .. n + 1 |->
                     IF i <= n THEN f[i] ELSE IF n = 0 THEN s[1] ELSE f[n] \o s[n + 1]]
  <2>1. Joins(f, Upto(s, n)) /\ Joins(Flatten(Upto(s, n + 1)), Upto(s, n + 1))
    BY FlattenJoins
  <2>2. Joins(g, Upto(s, n + 1))
    BY <2>1, JoinsNext
  <2>3. Flatten(Upto(s, n + 1)) = g
    <3> HIDE DEF g
    <3> QED  BY <1>1, <2>1, <2>2, JoinsUnique
  <2>4. g[n + 1] = f[n] \o s[n + 1]
    <3>1. n + 1 \in 1 .. n + 1 /\ ~ (n + 1 <= n)
      OBVIOUS
    <3> HIDE DEF f
    <3> QED  BY <3>1, <1>4
  <2>5. FlattenSeq(Upto(s, n)) = f[n] /\ FlattenSeq(Upto(s, n + 1)) = g[n + 1]
    <3>1. n + 1 # 0
      OBVIOUS
    <3> HIDE DEF g
    <3> QED  BY <3>1, <1>1, <1>4, <2>3, FlattenSeqIs
  <2> QED
    BY <1>2, <2>4, <2>5
<1> QED
  BY <1>3, <1>4
-----------------------------------------------------------------------------
(* The hooks among the options of a param.                                 *)

\* The options d are those of o, and hooks in slots that were free.
Extends(d, o) ==
  /\ d \in [Slot -> ParamOrNull]
  /\ \A i \in Slot : d[i] = o[i] \/ (o[i] = NoParam /\ d[i] \in Universal)
Free(o) == {i \in Slot : o[i] = NoParam}

LEMMA TreeFacts ==
  /\ NoParam \notin Param /\ Universal \subseteq Param /\ NoParam \notin Universal
  /\ RootHook \in Param /\ RootHook \notin Universal /\ ShowHook # ConfigHook
  /\ \A h \in Universal : ~IsLeaf(h)
  /\ ~IsLeaf(RootHook)
BY NullAssumption, KindAssumption DEF Universal, IsLeaf

LEMMA ChildrenFacts ==
  ASSUME NEW p \in Param
  PROVE  /\ Children[p] \in Seq(Param) /\ Len(Children[p]) \in Nat
         /\ Len(Children[p]) <= MAX_OPTION_SIZE
         /\ \A i \in 1 .. Len(Children[p]) :
              /\ Children[p][i] \in Param /\ Children[p][i] # RootHook
              /\ p # RootHook => Children[p][i] \notin Universal
         /\ Range(Children[p]) = {Children[p][i] : i \in 1 .. Len(Children[p])}
<1>1. Children[p] \in Seq(Param) /\ Len(Children[p]) <= MAX_OPTION_SIZE
  BY ChildrenAssumption
<1>2. Len(Children[p]) \in Nat /\ DOMAIN Children[p] = 1 .. Len(Children[p])
  BY <1>1, LenProperties
<1>3. ASSUME NEW i \in 1 .. Len(Children[p])
      PROVE  /\ Children[p][i] \in Param /\ Children[p][i] # RootHook
             /\ p # RootHook => Children[p][i] \notin Universal
  BY <1>1, <1>2, ElementOfSeq, ChildrenAssumption DEF Universal
<1> QED
  BY <1>1, <1>2, <1>3 DEF Range

LEMMA InitOptionsIs ==
  ASSUME NEW p \in Param
  PROVE  /\ InitOptions[p] \in [Slot -> ParamOrNull]
         /\ \A i \in Slot : /\ i + 1 \in 1 .. Len(Children[p]) => InitOptions[p][i] = Children[p][i + 1]
                            /\ i >= Len(Children[p]) => InitOptions[p][i] = NoParam
         /\ \A i \in Slot : i >= Len(Children[p]) \/ i + 1 \in 1 .. Len(Children[p])
         /\ p # RootHook => \A i \in Slot : InitOptions[p][i] \notin Universal
<1>1. /\ Len(Children[p]) \in Nat /\ MAX_OPTION_SIZE \in Nat
      /\ \A i \in 1 .. Len(Children[p]) : Children[p][i] \in Param
  BY ChildrenFacts, NullAssumption
<1>2. \A i \in Slot : InitOptions[p][i] = IF i < Len(Children[p]) THEN Children[p][i + 1] ELSE NoParam
  BY DEF InitOptions
<1>3. InitOptions[p] = [i \in Slot |-> InitOptions[p][i]]
  BY DEF InitOptions
<1>4. \A i \in Slot : i >= Len(Children[p]) \/ i + 1 \in 1 .. Len(Children[p])
  BY <1>1 DEF Slot
<1>5. ASSUME NEW i \in Slot
      PROVE  /\ i + 1 \in 1 .. Len(Children[p]) => InitOptions[p][i] = Children[p][i + 1]
             /\ i >= Len(Children[p]) => InitOptions[p][i] = NoParam
             /\ i + 1 \in 1 .. Len(Children[p]) \/ i >= Len(Children[p])
  BY <1>1, <1>2 DEF Slot
<1>6. \A i \in Slot : InitOptions[p][i] \in ParamOrNull
  BY <1>1, <1>5 DEF ParamOrNull
<1>7. InitOptions[p] \in [Slot -> ParamOrNull]
  BY <1>3, <1>6
<1>8. p # RootHook => \A i \in Slot : InitOptions[p][i] \notin Universal
  BY <1>5, ChildrenFacts, TreeFacts
<1> QED
  BY <1>4, <1>5, <1>7, <1>8

LEMMA ExtendsItself ==
  ASSUME NEW o \in [Slot -> ParamOrNull]
  PROVE  Extends(o, o)
BY DEF Extends

LEMMA ExtendsFurther ==
  ASSUME NEW o, NEW d, NEW e, Extends(d, o), Extends(e, d)
  PROVE  Extends(e, o)
BY TreeFacts DEF Extends

\* A hook goes to a free slot.
LEMMA PutIs ==
  ASSUME NEW o \in [Slot -> ParamOrNull], Free(o) # {}, NEW u \in Universal
  PROVE  /\ FirstFree(o) \in Free(o)
         /\ Extends(Put(o, u), o)
         /\ OptionsIn(Put(o, u)) = OptionsIn(o) \cup {u}
         /\ Free(Put(o, u)) = Free(o) \ {FirstFree(o)}
<1> DEFINE f == FirstFree(o)
<1>1. Free(o) \in SUBSET Nat
  BY DEF Free, Slot
<1>2. PICK m \in Free(o) : \A n \in Free(o) : m <= n
  BY <1>1, LeastNat
<1>3. m \in Slot /\ o[m] = NoParam /\ \A j \in 0 .. m - 1 : o[j] # NoParam
  <2>1. m \in Slot /\ o[m] = NoParam
    BY <1>2 DEF Free
  <2>2. ASSUME NEW j \in 0 .. m - 1, o[j] = NoParam PROVE FALSE
    <3>1. j \in Slot /\ ~ (m <= j)
      BY <2>1, NullAssumption DEF Slot
    <3>2. j \in Free(o)
      BY <2>2, <3>1 DEF Free
    <3> QED
      BY <1>2, <3>1, <3>2
  <2> QED
    BY <2>1, <2>2
<1>4. f \in Slot /\ o[f] = NoParam
  BY <1>3 DEF FirstFree
<1>5. Put(o, u) = [o EXCEPT ![f] = u]
  BY DEF Put
<1> HIDE DEF f
<1>6. /\ Put(o, u) \in [Slot -> ParamOrNull] /\ Put(o, u)[f] = u
      /\ \A i \in Slot : i # f => Put(o, u)[i] = o[i]
  BY <1>4, <1>5, TreeFacts DEF ParamOrNull
<1>7. u # NoParam
  BY TreeFacts
<1>8. Extends(Put(o, u), o)
  BY <1>4, <1>6 DEF Extends
<1>9. OptionsIn(Put(o, u)) = OptionsIn(o) \cup {u}
  BY <1>4, <1>6, <1>7 DEF OptionsIn
<1>10. Free(Put(o, u)) = Free(o) \ {f}
  BY <1>4, <1>6, <1>7 DEF Free
<1>11. f \in Free(o)
  BY <1>4 DEF Free
<1> QED
  BY <1>8, <1>9, <1>10, <1>11 DEF f

LEMMA FreeIsFinite ==
  ASSUME NEW o
  PROVE  IsFiniteSet(Free(o)) /\ Cardinality(Free(o)) \in Nat
<1>1. IsFiniteSet(Slot)
  <2>1. 0 \in Int /\ MAX_OPTION_SIZE - 1 \in Int
    BY NullAssumption
  <2> QED
    BY <2>1, FS_Interval DEF Slot
<1>2. Free(o) \subseteq Slot
  BY DEF Free
<1> QED
  BY <1>1, <1>2, FS_Subset, FS_CardinalityType

\* With room for them the hooks, but for that of the branch, become options.
LEMMA InstallIs ==
  ASSUME NEW o \in [Slot -> ParamOrNull], NEW b, HasRoom(o, b)
  PROVE  /\ Extends(Install(o, b), o)
         /\ OptionsIn(Install(o, b)) = OptionsIn(o) \cup (Universal \ {b})
<1>1. Cardinality(Free(o)) >= IF b = ShowHook THEN 1 ELSE 2
  BY DEF HasRoom, Free
<1>2. Cardinality(Free(o)) # 0
  BY <1>1, FreeIsFinite
<1>3. Free(o) # {}
  BY <1>2, FS_EmptySet
<1>4. ShowHook \in Universal /\ ConfigHook \in Universal /\ ShowHook # ConfigHook
  BY TreeFacts DEF Universal
<1>5. CASE b = ShowHook
  <2>1. Install(o, b) = Put(o, ConfigHook)
    BY <1>5 DEF Install
  <2>2. Universal \ {b} = {ConfigHook}
    BY <1>4, <1>5 DEF Universal
  <2> QED
    BY <1>3, <1>4, <2>1, <2>2, PutIs
<1>6. CASE b = ConfigHook
  <2>1. Install(o, b) = Put(o, ShowHook)
    BY <1>4, <1>6 DEF Install
  <2>2. Universal \ {b} = {ShowHook}
    BY <1>4, <1>6 DEF Universal
  <2> QED
    BY <1>3, <1>4, <2>1, <2>2, PutIs
<1>7. CASE b # ShowHook /\ b # ConfigHook
  <2> DEFINE d == Put(o, ShowHook)
  <2>1. Install(o, b) = Put(d, ConfigHook)
    BY <1>7 DEF Install
  <2>2. Universal \ {b} = {ShowHook, ConfigHook}
    BY <1>7 DEF Universal
  <2>3. /\ Extends(d, o) /\ OptionsIn(d) = OptionsIn(o) \cup {ShowHook}
        /\ Free(d) = Free(o) \ {FirstFree(o)} /\ FirstFree(o) \in Free(o)
    BY <1>3, <1>4, PutIs
  <2>4. d \in [Slot -> ParamOrNull]
    BY <2>3 DEF Extends
  <2> HIDE DEF d
  <2>5. Free(d) # {}
    <3>1. Cardinality(Free(o) \ {FirstFree(o)}) = Cardinality(Free(o)) - 1
      BY <2>3, FreeIsFinite, FS_RemoveElement
    <3>2. Cardinality(Free(d)) # 0
      BY <1>1, <1>7, <2>3, <3>1, FreeIsFinite
    <3> QED
      BY <3>2, FS_EmptySet
  <2>6. Extends(Put(d, ConfigHook), d) /\ OptionsIn(Put(d, ConfigHook)) = OptionsIn(d) \cup {ConfigHook}
    BY <1>4, <2>4, <2>5, PutIs
  <2>7. Extends(Put(d, ConfigHook), o)
    BY <2>3, <2>6, ExtendsFurther
  <2> QED
    BY <2>1, <2>2, <2>3, <2>6, <2>7
<1> QED
  BY <1>5, <1>6, <1>7

\* The trees whose params all have room for the hooks of a mode, as few params
\* have MAX_OPTION_SIZE options.
RoomForUniversals == \A p \in Param : Len(Children[p]) + 2 <= MAX_OPTION_SIZE

LEMMA RoomForHooks ==
  ASSUME RoomForUniversals, NEW p \in Param, NEW b
  PROVE  HasRoom(InitOptions[p], b)
<1> DEFINE o == InitOptions[p]
           n == Len(Children[p])
<1>1. n \in Nat /\ n + 2 <= MAX_OPTION_SIZE /\ MAX_OPTION_SIZE \in Nat
  BY ChildrenFacts, NullAssumption DEF RoomForUniversals
<1>2. {n, n + 1} \subseteq Free(o)
  <2>1. n \in Slot /\ n + 1 \in Slot /\ n >= n /\ n + 1 >= n
    BY <1>1 DEF Slot
  <2>2. o[n] = NoParam /\ o[n + 1] = NoParam
    BY <2>1, InitOptionsIs
  <2> HIDE DEF o, n
  <2> QED
    BY <2>1, <2>2 DEF Free
<1>3. Cardinality({n, n + 1}) = 2
  <2>1. n # n + 1
    BY <1>1
  <2>2. IsFiniteSet({n}) /\ Cardinality({n}) = 1
    BY FS_Singleton
  <2>3. {n, n + 1} = {n} \cup {n + 1} /\ n + 1 \notin {n}
    BY <2>1
  <2> HIDE DEF n
  <2>4. Cardinality({n} \cup {n + 1}) = Cardinality({n}) + 1
    BY <2>2, <2>3, FS_AddElement
  <2> QED
    BY <2>2, <2>3, <2>4
<1>4. Cardinality(Free(o)) >= 2 /\ Cardinality(Free(o)) \in Nat
  <2>1. Cardinality({n, n + 1}) <= Cardinality(Free(o))
    BY <1>2, FreeIsFinite, FS_Subset
  <2> HIDE DEF o, n
  <2> QED
    BY <1>3, <2>1, FreeIsFinite
<1> HIDE DEF o
<1> QED
  BY <1>4 DEF HasRoom, Free, o

\* Uninstalling takes the hooks away, and nothing else.
LEMMA UninstallIs ==
  ASSUME NEW p \in Param \ {RootHook}, NEW d, Extends(d, InitOptions[p])
  PROVE  Uninstall(d) = InitOptions[p]
<1>1. InitOptions[p] \in [Slot -> ParamOrNull] /\ \A i \in Slot : InitOptions[p][i] \notin Universal
  BY InitOptionsIs
<1>2. \A i \in Slot : (IF d[i] \in Universal THEN NoParam ELSE d[i]) = InitOptions[p][i]
  BY <1>1 DEF Extends
<1>3. InitOptions[p] = [i \in Slot |-> InitOptions[p][i]]
  BY <1>1
<1> QED
  BY <1>2, <1>3 DEF Uninstall

LEMMA InstalledIs ==
  ASSUME NEW p \in Param, NEW b, HasRoom(InitOptions[p], b)
  PROVE  /\ Extends(Install(InitOptions[p], b), InitOptions[p])
         /\ OptionsIn(Install(InitOptions[p], b)) = OptionsIn(InitOptions[p]) \cup (Universal \ {b})
BY InitOptionsIs, InstallIs

LEMMA OptionsInInit ==
  ASSUME NEW p \in Param
  PROVE  OptionsIn(InitOptions[p]) = Range(Children[p])
<1>1. /\ Len(Children[p]) \in Nat /\ Len(Children[p]) <= MAX_OPTION_SIZE
      /\ \A i \in 1 .. Len(Children[p]) : Children[p][i] \in Param
      /\ Range(Children[p]) = {Children[p][i] : i \in 1 .. Len(Children[p])}
      /\ MAX_OPTION_SIZE \in Nat
  BY ChildrenFacts, NullAssumption
<1>2. ASSUME NEW q \in OptionsIn(InitOptions[p]) PROVE q \in Range(Children[p])
  <2>1. PICK i \in Slot : q = InitOptions[p][i] /\ q # NoParam
    BY DEF OptionsIn
  <2>2. i + 1 \in 1 .. Len(Children[p]) /\ q = Children[p][i + 1]
    BY <2>1, InitOptionsIs
  <2> QED
    BY <1>1, <2>2
<1>3. ASSUME NEW i \in 1 .. Len(Children[p]) PROVE Children[p][i] \in OptionsIn(InitOptions[p])
  <2>1. i - 1 \in Slot /\ (i - 1) + 1 = i
    BY <1>1 DEF Slot
  <2>2. InitOptions[p][i - 1] = Children[p][i]
    BY <2>1, InitOptionsIs
  <2>3. Children[p][i] # NoParam
    BY <1>1, TreeFacts
  <2> QED
    BY <2>1, <2>2, <2>3 DEF OptionsIn
<1> QED
  BY <1>1, <1>2, <1>3

\* What may follow a param: a child of it, or a hook.
LEMMA ExtendedOptions ==
  ASSUME NEW p \in Param, NEW d, Extends(d, InitOptions[p])
  PROVE  OptionsIn(d) \subseteq Range(Children[p]) \cup Universal
<1>1. ASSUME NEW q \in OptionsIn(d) PROVE q \in OptionsIn(InitOptions[p]) \cup Universal
  <2>1. PICK i \in Slot : q = d[i] /\ q # NoParam
    BY DEF OptionsIn
  <2> QED
    BY <2>1 DEF OptionsIn, Extends
<1> QED
  BY <1>1, OptionsInInit

-----------------------------------------------------------------------------
(* The hooks are options of the mode.                                      *)

\* The root hook is the bottom of the stack and nothing else, and never listed.
Rooted(c) ==
  /\ c.params_stack[1] = RootHook
  /\ \A i \in 2 .. Len(c.params_stack) : c.params_stack[i] # RootHook
  /\ RootHook \notin c.matching_params_list

\* The options o while r is the mode, reached through the branch b: r had room
\* for the hooks.  At the root, whose options the hooks are anyway, enter-mode may
\* add them again.
HookedAt(o, r, b) ==
  /\ \A p \in Param \ {RootHook} :
        /\ o[p] = IF p = r THEN Install(InitOptions[p], b) ELSE InitOptions[p]
        /\ p = r => HasRoom(InitOptions[p], b)
  /\ Extends(o[RootHook], InitOptions[RootHook])
Hooked(c, o) == HookedAt(o, c.root, c.params_stack[2])

\* The inductive invariant, and what a step has to show for it.
HookInv == ModeInv /\ (status # "corrupt" => Rooted(cmdtc) /\ Hooked(cmdtc, options))
HookStep == status' # "corrupt" => Rooted(cmdtc') /\ Hooked(cmdtc', options')

LEMMA HooksBefore ==
  ASSUME HookInv, Reading
  PROVE  /\ ModeInv /\ Good(cmdtc) /\ Placed(cmdtc) /\ AtMode(cmdtc) /\ AtWord(cmdtc)
         /\ OptionsType /\ cmdtc.root \in Param /\ cmdtc \in CursorType
         /\ Rooted(cmdtc) /\ Hooked(cmdtc, options) /\ status = "running"
<1>1. ModeInv
  BY DEF HookInv
<1>2. cmdtc \in CursorType
  BY <1>1, ModeBefore
<1> QED
  BY <1>1, <1>2, ModeBefore DEF HookInv, Placed, CursorType

LEMMA OtherBranch ==
  ASSUME NEW o, NEW r, NEW b, HookedAt(o, r, b), NEW e, r # RootHook => e = b
  PROVE  HookedAt(o, r, e)
BY DEF HookedAt

LEMMA HookedOptions ==
  ASSUME NEW o, NEW r, NEW b, HookedAt(o, r, b), NEW p \in Param
  PROVE  /\ Extends(o[p], InitOptions[p])
         /\ OptionsIn(o[p]) \subseteq Range(Children[p]) \cup Universal
         /\ RootHook \notin OptionsIn(o[p])
<1>1. InitOptions[p] \in [Slot -> ParamOrNull]
  BY InitOptionsIs
<1>2. /\ Extends(InitOptions[p], InitOptions[p])
      /\ HasRoom(InitOptions[p], b) => Extends(Install(InitOptions[p], b), InitOptions[p])
  BY <1>1, ExtendsItself, InstalledIs
<1>3. Extends(o[p], InitOptions[p])
  BY <1>2 DEF HookedAt
<1>4. RootHook \notin Range(Children[p]) \cup Universal
  BY ChildrenFacts, TreeFacts, ZenonT(30)
<1> QED
  BY <1>3, <1>4, ExtendedOptions

\* What may be pushed or listed is never the root hook.
LEMMA CandidatesRooted ==
  ASSUME NEW c, Good(c), Rooted(c), NEW r, NEW b, HookedAt(options, r, b)
  PROVE  RootHook \notin Candidates(c)
<1>1. c.curr_param \in Param
  BY DEF Good, CursorType
<1>2. RootHook \notin OptionsIn(options[c.curr_param])
  BY <1>1, HookedOptions
<1> QED
  BY <1>2 DEF Candidates, Keywords, Followers, Rooted

LEMMA OneWordRooted ==
  ASSUME NEW c, Good(c), OptionsType, Rooted(c), NEW r, NEW b, HookedAt(options, r, b),
         NEW p \in OneWord(c)
  PROVE  p # RootHook
<1>1. c \in CursorType /\ Shape(c)
  BY Stacks
<1>2. c.cmdtc_state \in {"init", "multiple_matches", "single_word_match", "matching_leaf"}
      /\ c.curr_param \in Param
  BY <1>1 DEF CursorType
<1>3. CASE c.cmdtc_state = "init"
  BY <1>3, CandidatesRooted DEF OneWord
<1>4. CASE c.cmdtc_state = "multiple_matches"
  BY <1>4 DEF OneWord, Exact, Rooted
<1>5. CASE c.cmdtc_state = "single_word_match"
  BY <1>1, <1>5 DEF OneWord, Shape, Rooted
<1>6. CASE c.cmdtc_state = "matching_leaf"
  <2>1. p = c.curr_param /\ c.curr_param = c.leaf_param
    BY <1>1, <1>6 DEF OneWord, Shape
  <2>2. IsLeaf(p)
    BY <1>1, <1>2, <2>1, TreeFacts DEF Shape
  <2> QED
    BY <2>2, TreeFacts
<1> QED
  BY <1>2, <1>3, <1>4, <1>5, <1>6

LEMMA KeptHooks ==
  ASSUME HookInv, Reading, options' = options,
         cmdtc'.params_stack = cmdtc.params_stack, cmdtc'.root = cmdtc.root,
         RootHook \notin cmdtc'.matching_params_list
  PROVE  HookStep
BY HooksBefore DEF HookStep, Rooted, Hooked

\* A mode other than the root has a branch.
LEMMA ModeHasBranch ==
  ASSUME NEW c, Good(c), AtMode(c), Rooted(c)
  PROVE  /\ c.root = RootHook <=> c.stack_checkpoint = 0
         /\ c.root # RootHook => /\ 2 \in 1 .. c.stack_checkpoint + 1
                                 /\ 2 \in 1 .. Len(c.params_stack)
                                 /\ Branch(c.params_stack) = c.params_stack[2]
<1>1. /\ c.stack_checkpoint \in Nat /\ Len(c.params_stack) \in Nat
      /\ c.stack_checkpoint + 1 \in 1 .. Len(c.params_stack)
  BY Stacks
<1>2. c.params_stack[c.stack_checkpoint + 1] = c.root
  BY DEF AtMode
<1>3. CASE c.stack_checkpoint = 0
  BY <1>2, <1>3 DEF Rooted
<1>4. CASE c.stack_checkpoint # 0
  <2>1. c.stack_checkpoint + 1 \in 2 .. Len(c.params_stack) /\ Len(c.params_stack) > 1
    BY <1>1, <1>4
  <2>2. c.root # RootHook
    BY <1>2, <2>1 DEF Rooted
  <2>3. 2 \in 1 .. c.stack_checkpoint + 1 /\ 2 \in 1 .. Len(c.params_stack)
    BY <1>1, <2>1
  <2>4. Branch(c.params_stack) = c.params_stack[2]
    BY <2>1 DEF Branch
  <2> QED
    BY <1>4, <2>2, <2>3, <2>4
<1> QED
  BY <1>3, <1>4

LEMMA PushedHooks ==
  ASSUME NEW c, Good(c), AtMode(c), Rooted(c), NEW o, Hooked(c, o),
         NEW p \in Param, p # RootHook, c.is_negate => ~IsNo(p)
  PROVE  Rooted(Pushed(c, p)) /\ Hooked(Pushed(c, p), o)
<1> DEFINE d == Pushed(c, p)
           l == Len(c.params_stack)
<1>1. /\ d.params_stack = Append(c.params_stack, p) /\ d.root = c.root
      /\ d.matching_params_list = {}
  BY PushedOK, PushedTlv
<1>2. l \in Nat \ {0} /\ c.params_stack \in Seq(Param)
  BY Stacks
<1> HIDE DEF d
<1>3. /\ Len(d.params_stack) = l + 1 /\ d.params_stack[l + 1] = p
      /\ \A i \in 1 .. l : d.params_stack[i] = c.params_stack[i]
  BY <1>1, <1>2, AppendProperties
<1>4. /\ 1 \in 1 .. l
      /\ \A i \in 2 .. l + 1 : i = l + 1 \/ (i \in 2 .. l /\ i \in 1 .. l)
  BY <1>2
<1>5. Rooted(d)
  BY <1>1, <1>3, <1>4 DEF Rooted
<1>6. c.root # RootHook => d.params_stack[2] = c.params_stack[2]
  BY <1>3, ModeHasBranch
<1>7. Hooked(d, o)
  BY <1>1, <1>6, OtherBranch DEF Hooked
<1> QED
  BY <1>5, <1>7 DEF d

LEMMA CutHooks ==
  ASSUME NEW c, Good(c), AtMode(c), Rooted(c),
         NEW k \in 1 .. Len(c.params_stack), NEW d,
         d.params_stack = SubSeq(c.params_stack, 1, k), d.matching_params_list = {}
  PROVE  /\ Rooted(d)
         /\ 2 \in 1 .. k => d.params_stack[2] = c.params_stack[2]
<1>1. c.params_stack \in Seq(Param) /\ Len(c.params_stack) \in Nat
  BY Stacks
<1>2. Len(d.params_stack) = k /\ \A i \in 1 .. k : d.params_stack[i] = c.params_stack[i]
  BY <1>1, SubSeqIs
<1>3. 1 \in 1 .. k /\ \A i \in 2 .. k : i \in 1 .. k /\ i \in 2 .. Len(c.params_stack)
  BY <1>1
<1> QED
  BY <1>2, <1>3 DEF Rooted

LEMMA ResetIs ==
  ASSUME NEW c, Good(c)
  PROVE  /\ Reset(c).matching_params_list = {} /\ Reset(c).leaf_param = NoParam
         /\ Reset(c).cmdtc_state = "init" /\ Reset(c).icursor = 0
         /\ Reset(c).root = c.root /\ Reset(c).stack_checkpoint = c.stack_checkpoint
         /\ Reset(c).params_stack = SubSeq(c.params_stack, 1, c.stack_checkpoint + 1)
         /\ Reset(c).tlv_stack = SubSeq(c.tlv_stack, 1, c.stack_checkpoint + 1)
<1> DEFINE gone == {c.params_stack[i] : i \in Kept(c) + 1 .. Len(c.params_stack)}
           b == Between(c)
           e == ExitBackward(b, gone)
           d == Reset(c)
<1>1. c \in CursorType
  BY Stacks
<1>2. b \in CursorType /\ b.matching_params_list = {} /\ b.leaf_param = NoParam
      /\ b.cmdtc_state = "init"
  BY <1>1, BetweenOK DEF Between, CursorType
<1> HIDE DEF gone, b
<1>3. e \in CursorType /\ e.matching_params_list = {} /\ e.leaf_param = NoParam
      /\ e.cmdtc_state = "init"
  <2>1. e \in CursorType
    BY <1>2, ExitBackwardOK
  <2>2. e.matching_params_list = {} /\ e.leaf_param = NoParam /\ e.cmdtc_state = "init"
    BY <1>2 DEF ExitBackward, CursorType
  <2> QED
    BY <2>1, <2>2
<1>4. d = [e EXCEPT !.params_stack = SubSeq(@, 1, Kept(c)),
                    !.tlv_stack = SubSeq(@, 1, Kept(c)),
                    !.filter_checkpoint = IF Kept(c) <= @ THEN -1 ELSE @,
                    !.curr_param = c.root,
                    !.curr_leaf_value = <<>>]
  BY DEF Reset, gone, b
<1> HIDE DEF e, d
<1>5. d.matching_params_list = {} /\ d.leaf_param = NoParam /\ d.cmdtc_state = "init"
  BY <1>3, <1>4 DEF CursorType
<1> QED
  BY <1>5, ResetOK DEF d, Kept

LEMMA ResetHooks ==
  ASSUME NEW c, Good(c), AtMode(c), Rooted(c), NEW o, Hooked(c, o)
  PROVE  Rooted(Reset(c)) /\ Hooked(Reset(c), o)
<1> DEFINE d == Reset(c)
           k == c.stack_checkpoint + 1
<1>1. /\ d.root = c.root /\ d.matching_params_list = {}
      /\ d.params_stack = SubSeq(c.params_stack, 1, k) /\ k \in 1 .. Len(c.params_stack)
  BY ResetIs, Stacks
<1> HIDE DEF d
<1>2. Rooted(d) /\ (2 \in 1 .. k => d.params_stack[2] = c.params_stack[2])
  BY <1>1, CutHooks
<1>3. c.root # RootHook => d.params_stack[2] = c.params_stack[2]
  BY <1>2, ModeHasBranch
<1> QED
  BY <1>1, <1>2, <1>3, OtherBranch DEF Hooked, d

\* The hooks leave a mode and come to another.
LEMMA LeaveHooks ==
  ASSUME NEW o, o \in [Param -> [Slot -> ParamOrNull]], NEW r \in Param, r # RootHook,
         NEW b, HookedAt(o, r, b), NEW e
  PROVE  /\ HookedAt([o EXCEPT ![r] = Uninstall(@)], RootHook, e)
         /\ [o EXCEPT ![r] = Uninstall(@)] \in [Param -> [Slot -> ParamOrNull]]
<1> DEFINE u == Uninstall(o[r])
           v == [o EXCEPT ![r] = u]
<1>1. u = InitOptions[r]
  BY HookedOptions, UninstallIs
<1>2. u \in [Slot -> ParamOrNull]
  BY <1>1, InitOptionsIs
<1>3. [o EXCEPT ![r] = Uninstall(@)] = v
  OBVIOUS
<1> HIDE DEF u
<1>4. v \in [Param -> [Slot -> ParamOrNull]] /\ v[r] = u /\ \A p \in Param \ {r} : v[p] = o[p]
  BY <1>2
<1> HIDE DEF v
<1>5. HookedAt(v, RootHook, e)
  BY <1>1, <1>4, TreeFacts DEF HookedAt
<1> QED
  BY <1>3, <1>4, <1>5

LEMMA EnterHooks ==
  ASSUME NEW o, o \in [Param -> [Slot -> ParamOrNull]], NEW e, HookedAt(o, RootHook, e),
         NEW r \in Param, NEW b, HasRoom(o[r], b)
  PROVE  HookedAt([o EXCEPT ![r] = Install(@, b)], r, b)
<1> DEFINE u == Install(o[r], b)
           v == [o EXCEPT ![r] = u]
<1>1. [o EXCEPT ![r] = Install(@, b)] = v
  OBVIOUS
<1>2. Extends(u, o[r]) /\ Extends(o[r], InitOptions[r])
  BY InstallIs, HookedOptions
<1>3. r # RootHook => u = Install(InitOptions[r], b)
  BY DEF HookedAt
<1> HIDE DEF u
<1>4. v[r] = u /\ \A p \in Param \ {r} : v[p] = o[p]
  OBVIOUS
<1>5. Extends(u, InitOptions[r])
  BY <1>2, ExtendsFurther
<1> HIDE DEF v
<1>6. \A p \in Param \ {RootHook} :
         /\ v[p] = IF p = r THEN Install(InitOptions[p], b) ELSE InitOptions[p]
         /\ p = r => HasRoom(InitOptions[p], b)
  BY <1>3, <1>4 DEF HookedAt
<1>7. Extends(v[RootHook], InitOptions[RootHook])
  <2>1. CASE r = RootHook
    BY <1>4, <1>5, <2>1
  <2>2. CASE r # RootHook
    BY <1>4, <2>2, TreeFacts DEF HookedAt
  <2> QED
    BY <2>1, <2>2
<1> QED
  BY <1>1, <1>6, <1>7 DEF HookedAt

\* Every action keeps the hooks where the mode is.
LEMMA TypeCharHooks ==
  ASSUME HookInv, NEW k \in Key, TypeChar(k)
  PROVE  HookStep
<1> DEFINE leaf == KnownLeaf(cmdtc)
           m == Matched(cmdtc, k)
           typed == [cmdtc EXCEPT !.icursor = cmdtc.icursor + 1,
                                  !.curr_leaf_value = Save(cmdtc, leaf, <<k>>)]
<1>1. Reading /\ cmdtc' = ParseChar(cmdtc, k) /\ options' = options
  BY DEF TypeChar
<1>2. cmdtc \in CursorType
  BY <1>1, HooksBefore
<1>3. /\ cmdtc'.params_stack = cmdtc.params_stack /\ cmdtc'.root = cmdtc.root
      /\ cmdtc'.matching_params_list \in {cmdtc.matching_params_list, m}
  <2> HIDE DEF leaf, m
  <2>1. /\ {"params_stack", "root", "matching_params_list", "cmdtc_state", "leaf_param",
            "curr_param", "curr_leaf_value"} \subseteq DOMAIN typed
        /\ typed.params_stack = cmdtc.params_stack /\ typed.root = cmdtc.root
        /\ typed.matching_params_list = cmdtc.matching_params_list
    BY <1>2 DEF CursorType
  <2>2. \E q, w : cmdtc' \in
           {typed,
            [typed EXCEPT !.cmdtc_state = "matching_leaf", !.leaf_param = leaf,
                          !.curr_param = leaf],
            [typed EXCEPT !.cmdtc_state = "multiple_matches", !.leaf_param = leaf,
                          !.matching_params_list = m],
            [typed EXCEPT !.cmdtc_state = "single_word_match", !.leaf_param = leaf,
                          !.matching_params_list = m, !.curr_param = q,
                          !.curr_leaf_value = w]}
    BY <1>1 DEF ParseChar, leaf, m
  <2> HIDE DEF typed
  <2> QED
    BY <2>1, <2>2
<1>4. RootHook \notin m /\ RootHook \notin cmdtc.matching_params_list
  BY <1>1, HooksBefore, CandidatesRooted DEF Matched, Hooked, Rooted
<1> HIDE DEF m
<1> QED
  BY <1>1, <1>3, <1>4, KeptHooks

LEMMA SpaceListsHooks ==
  ASSUME HookInv, SpaceLists
  PROVE  HookStep
<1> DEFINE m == Candidates(cmdtc)
           leaf == KnownLeaf(cmdtc)
<1>1. /\ Reading /\ options' = options
      /\ cmdtc' = [cmdtc EXCEPT !.matching_params_list = m, !.leaf_param = leaf]
  BY DEF SpaceLists
<1>2. RootHook \notin m
  BY <1>1, HooksBefore, CandidatesRooted DEF Hooked
<1> HIDE DEF m, leaf
<1>3. /\ cmdtc'.params_stack = cmdtc.params_stack /\ cmdtc'.root = cmdtc.root
      /\ cmdtc'.matching_params_list = m
  BY <1>1, HooksBefore DEF CursorType
<1> QED
  BY <1>1, <1>2, <1>3, KeptHooks

LEMMA SpaceCompletesHooks ==
  ASSUME HookInv, SpaceCompletes
  PROVE  HookStep
<1> DEFINE m == Candidates(cmdtc)
           leaf == KnownLeaf(cmdtc)
           keys == FirstN(Completion(cmdtc, m), MAX_COMMAND_LENGTH - Used)
           listed == [cmdtc EXCEPT !.matching_params_list = m, !.leaf_param = leaf,
                                   !.cmdtc_state = "multiple_matches"]
<1>1. Reading /\ options' = options /\ cmdtc' = AutoTyped(listed, keys)
  BY DEF SpaceCompletes
<1>2. RootHook \notin m
  BY <1>1, HooksBefore, CandidatesRooted DEF Hooked
<1> HIDE DEF m, leaf, keys
<1>3. /\ listed.params_stack = cmdtc.params_stack /\ listed.root = cmdtc.root
      /\ listed.matching_params_list = m
      /\ {"params_stack", "root", "matching_params_list"} \subseteq DOMAIN listed
  BY <1>1, HooksBefore DEF CursorType
<1> HIDE DEF listed
<1>4. /\ cmdtc'.params_stack = cmdtc.params_stack /\ cmdtc'.root = cmdtc.root
      /\ cmdtc'.matching_params_list = m
  BY <1>1, <1>3 DEF AutoTyped
<1> QED
  BY <1>1, <1>2, <1>4, KeptHooks

LEMMA SpaceAcceptsHooks ==
  ASSUME HookInv, SpaceAccepts
  PROVE  HookStep
<1>1. Reading /\ options' = options
  BY DEF SpaceAccepts
<1>2. PICK p \in OneWord(cmdtc) : cmdtc' = Pushed(cmdtc, p)
  BY DEF SpaceAccepts
<1>3. p \in Param /\ (cmdtc.is_negate => ~IsNo(p)) /\ p # RootHook
  BY <1>1, HooksBefore, OneWordOK, OneWordRooted DEF Hooked
<1> QED
  BY <1>1, <1>2, <1>3, HooksBefore, PushedHooks DEF HookStep

LEMMA AutoCompletionSpinsHooks ==
  ASSUME HookInv, AutoCompletionSpins
  PROVE  HookStep
<1>1. Reading /\ options' = options
  BY DEF AutoCompletionSpins
<1>2. PICK p \in OneWord(cmdtc) :
        cmdtc' = AutoTyped([cmdtc EXCEPT !.curr_param = p,
                                         !.matching_params_list = {p},
                                         !.leaf_param = KnownLeaf(cmdtc),
                                         !.cmdtc_state = "single_word_match"],
                           FirstN(Missing(cmdtc, p), MAX_COMMAND_LENGTH - Used))
  BY DEF AutoCompletionSpins
<1> DEFINE leaf == KnownLeaf(cmdtc)
           keys == FirstN(Missing(cmdtc, p), MAX_COMMAND_LENGTH - Used)
           listed == [cmdtc EXCEPT !.curr_param = p, !.matching_params_list = {p},
                                   !.leaf_param = leaf,
                                   !.cmdtc_state = "single_word_match"]
<1>3. p # RootHook
  BY <1>1, HooksBefore, OneWordRooted DEF Hooked
<1>4. cmdtc' = AutoTyped(listed, keys)
  BY <1>2
<1> HIDE DEF leaf, keys
<1>5. /\ listed.params_stack = cmdtc.params_stack /\ listed.root = cmdtc.root
      /\ listed.matching_params_list = {p}
      /\ {"params_stack", "root", "matching_params_list"} \subseteq DOMAIN listed
  BY <1>1, HooksBefore DEF CursorType
<1> HIDE DEF listed
<1>6. /\ cmdtc'.params_stack = cmdtc.params_stack /\ cmdtc'.root = cmdtc.root
      /\ cmdtc'.matching_params_list = {p}
  BY <1>4, <1>5 DEF AutoTyped
<1> QED
  BY <1>1, <1>3, <1>6, KeptHooks

LEMMA SubmittedHooks ==
  ASSUME NEW c, Good(c), AtMode(c), Rooted(c), Hooked(c, options'), NEW h, Submit(c, h)
  PROVE  HookStep
<1>1. cmdtc' = Reset(c)
  BY DEF Submit
<1> QED
  BY <1>1, ResetHooks DEF HookStep

LEMMA ReturnCommandHooks ==
  ASSUME HookInv, ReturnCommand
  PROVE  HookStep
<1>1. Reading /\ Submit(cmdtc, hdr) /\ options' = options
  BY DEF ReturnCommand
<1> QED
  BY <1>1, HooksBefore, SubmittedHooks

LEMMA RunModeHooks ==
  ASSUME HookInv, RunMode
  PROVE  HookStep
<1>1. Reading /\ Submit(cmdtc, hdr) /\ options' = options
  BY DEF RunMode
<1> QED
  BY <1>1, HooksBefore, SubmittedHooks

LEMMA ReturnWordHooks ==
  ASSUME HookInv, ReturnWord
  PROVE  HookStep
<1>1. Reading /\ options' = options
  BY DEF ReturnWord
<1>2. PICK p \in OneWord(cmdtc) : Submit(Pushed(cmdtc, p), hdr) \/ cmdtc' = Pushed(cmdtc, p)
  BY DEF ReturnWord
<1>3. p \in Param /\ (cmdtc.is_negate => ~IsNo(p)) /\ p # RootHook
  BY <1>1, HooksBefore, OneWordOK, OneWordRooted DEF Hooked
<1>4. /\ Good(Pushed(cmdtc, p)) /\ AtMode(Pushed(cmdtc, p))
      /\ Rooted(Pushed(cmdtc, p)) /\ Hooked(Pushed(cmdtc, p), options')
  BY <1>1, <1>3, HooksBefore, PushedOK, PushedPlace, PushedHooks DEF Placed
<1>5. CASE Submit(Pushed(cmdtc, p), hdr)
  BY <1>4, <1>5, SubmittedHooks
<1>6. CASE cmdtc' = Pushed(cmdtc, p)
  BY <1>4, <1>6 DEF HookStep
<1> QED
  BY <1>2, <1>5, <1>6

LEMMA ReturnRejectHooks ==
  ASSUME HookInv, ReturnReject
  PROVE  HookStep
<1>1. Reading /\ cmdtc' = Reset(cmdtc) /\ options' = options
  BY DEF ReturnReject
<1> QED
  BY <1>1, HooksBefore, ResetHooks DEF HookStep

LEMMA BetweenIs ==
  ASSUME NEW c \in CursorType, NEW q, NEW v
  PROVE  LET d == [Between(c) EXCEPT !.curr_param = q, !.curr_leaf_value = v]
             e == [Between(c) EXCEPT !.curr_param = q]
         IN  /\ d.params_stack = c.params_stack /\ d.tlv_stack = c.tlv_stack
             /\ d.stack_checkpoint = c.stack_checkpoint /\ d.root = c.root
             /\ d.matching_params_list = {} /\ d.leaf_param = NoParam /\ d.icursor = 0
             /\ d.cmdtc_state = "init" /\ d.curr_param = q
             /\ e.params_stack = c.params_stack /\ e.tlv_stack = c.tlv_stack
             /\ e.stack_checkpoint = c.stack_checkpoint /\ e.root = c.root
             /\ e.matching_params_list = {} /\ e.leaf_param = NoParam /\ e.icursor = 0
             /\ e.cmdtc_state = "init" /\ e.curr_param = q
BY DEF Between, CursorType

LEMMA EraseCharHooks ==
  ASSUME HookInv, EraseChar
  PROVE  HookStep
<1> DEFINE v == SubSeq(cmdtc.curr_leaf_value, 1, cmdtc.icursor - 1)
           c == [cmdtc EXCEPT !.icursor = cmdtc.icursor - 1, !.curr_leaf_value = v]
<1>1. Reading /\ options' = options
  BY DEF EraseChar
<1>2. cmdtc' = c \/ cmdtc' = [Between(c) EXCEPT !.curr_param = Last(c.params_stack)]
  BY DEF EraseChar
<1>3. cmdtc \in CursorType /\ RootHook \notin cmdtc.matching_params_list
  BY <1>1, HooksBefore DEF Rooted
<1> HIDE DEF v
<1>4. /\ c.params_stack = cmdtc.params_stack /\ c.root = cmdtc.root
      /\ c.matching_params_list = cmdtc.matching_params_list
  BY <1>3 DEF CursorType
<1>5. [Between(c) EXCEPT !.curr_param = Last(c.params_stack)] =
        [Between(cmdtc) EXCEPT !.curr_param = Last(cmdtc.params_stack), !.curr_leaf_value = v]
  BY <1>3 DEF Between, CursorType
<1> HIDE DEF c
<1>6. /\ cmdtc'.params_stack = cmdtc.params_stack /\ cmdtc'.root = cmdtc.root
      /\ cmdtc'.matching_params_list \in {cmdtc.matching_params_list, {}}
  <2> DEFINE q == Last(cmdtc.params_stack)
             d == [Between(cmdtc) EXCEPT !.curr_param = q, !.curr_leaf_value = v]
  <2>1. /\ d.params_stack = cmdtc.params_stack /\ d.root = cmdtc.root
        /\ d.matching_params_list = {}
    <3> HIDE DEF q
    <3> QED
      BY <1>3, BetweenIs
  <2>2. cmdtc' = c \/ cmdtc' = d
    BY <1>2, <1>5
  <2> HIDE DEF d
  <2> QED
    BY <1>4, <2>1, <2>2
<1> QED
  BY <1>1, <1>3, <1>6, KeptHooks

LEMMA EraseWordHooks ==
  ASSUME HookInv, EraseWord
  PROVE  HookStep
<1> DEFINE v == IF cmdtc.leaf_param = NoParam THEN cmdtc.curr_leaf_value ELSE <<>>
<1>1. Reading /\ options' = options
  BY DEF EraseWord
<1>2. cmdtc' = [Between(cmdtc) EXCEPT !.curr_param = Last(cmdtc.params_stack),
                                      !.curr_leaf_value = v]
  BY DEF EraseWord, Between
<1> HIDE DEF v
<1>3. /\ cmdtc'.params_stack = cmdtc.params_stack /\ cmdtc'.root = cmdtc.root
      /\ cmdtc'.matching_params_list = {}
  BY <1>1, <1>2, HooksBefore, BetweenIs
<1> QED
  BY <1>1, <1>3, KeptHooks

LEMMA EraseLevelHooks ==
  ASSUME HookInv, EraseLevel
  PROVE  HookStep
<1> DEFINE k == Len(cmdtc.params_stack) - 1
           d == LevelUp(cmdtc)
<1>1. /\ Reading /\ options' = options /\ cmdtc.cmdtc_state = "init" /\ cmdtc' = d
      /\ Top(cmdtc.params_stack) # cmdtc.stack_checkpoint
  BY DEF EraseLevel
<1>2. /\ Good(cmdtc) /\ AtMode(cmdtc) /\ Rooted(cmdtc) /\ Hooked(cmdtc, options)
  BY <1>1, HooksBefore
<1>3. /\ Len(cmdtc.params_stack) \in Nat /\ cmdtc.stack_checkpoint \in Nat
      /\ cmdtc.stack_checkpoint + 1 \in 1 .. Len(cmdtc.params_stack)
  BY <1>2, Stacks
<1>4. /\ Len(cmdtc.params_stack) > 1 /\ k \in 1 .. Len(cmdtc.params_stack)
      /\ cmdtc.stack_checkpoint + 1 <= k
  BY <1>1, <1>3 DEF Top
<1>5. /\ d.params_stack = SubSeq(cmdtc.params_stack, 1, k) /\ d.root = cmdtc.root
      /\ d.matching_params_list = {}
  BY <1>1, <1>2, <1>4, LevelUpIs
<1> HIDE DEF d
<1>6. Rooted(d) /\ (2 \in 1 .. k => d.params_stack[2] = cmdtc.params_stack[2])
  BY <1>2, <1>4, <1>5, CutHooks
<1>7. cmdtc.root # RootHook => 2 \in 1 .. k
  <2>1. cmdtc.root # RootHook => 2 \in 1 .. cmdtc.stack_checkpoint + 1
    BY <1>2, ModeHasBranch
  <2> QED
    BY <1>3, <1>4, <2>1
<1>8. Hooked(d, options)
  BY <1>2, <1>5, <1>6, <1>7, OtherBranch DEF Hooked
<1> QED
  BY <1>1, <1>6, <1>8 DEF HookStep

LEMMA PageUpHooks ==
  ASSUME HookInv, PageUp
  PROVE  HookStep
<1> DEFINE c == LevelUp(cmdtc)
           k == Len(cmdtc.params_stack) - 1
           mode == [c EXCEPT !.root = c.curr_param]
           left == [options EXCEPT ![cmdtc.root] = Uninstall(@)]
           branch == Branch(mode.params_stack)
<1>1. Reading /\ line = <<>> /\ Top(cmdtc.params_stack) > 0
  BY DEF PageUp
<1>2. \/ UNCHANGED <<options, cmdtc>>
      \/ /\ mode.root # RootHook => HasRoom(left[mode.root], branch)
         /\ cmdtc' = mode
         /\ options' = IF mode.root = RootHook THEN left
                       ELSE [left EXCEPT ![mode.root] = Install(@, branch)]
  BY DEF PageUp
<1>3. /\ Good(cmdtc) /\ Placed(cmdtc) /\ AtMode(cmdtc) /\ Rooted(cmdtc)
      /\ Hooked(cmdtc, options) /\ ModeInv /\ OptionsType /\ cmdtc.root \in Param
      /\ status = "running"
  BY <1>1, HooksBefore
<1>4. /\ Len(cmdtc.params_stack) \in Nat /\ Len(cmdtc.params_stack) > 1
      /\ Len(cmdtc.params_stack) = cmdtc.stack_checkpoint + 1
      /\ cmdtc.stack_checkpoint \in Nat /\ cmdtc.cmdtc_state = "init"
  <2>1. Covered(cmdtc, 0)
    BY <1>1, <1>3, ModeBefore, EmptyLine
  <2>2. Len(cmdtc.params_stack) = cmdtc.stack_checkpoint + 1 /\ cmdtc.icursor = 0
    BY <1>3, <2>1, NothingCovered
  <2>3. Len(cmdtc.params_stack) \in Nat /\ cmdtc.stack_checkpoint \in Nat
    BY <1>3, Stacks
  <2>4. cmdtc.cmdtc_state = "init"
    BY <1>3, <2>2, Stacks DEF Shape
  <2> QED
    BY <1>1, <2>2, <2>3, <2>4 DEF Top
<1>5. /\ k \in 1 .. Len(cmdtc.params_stack) /\ k \in Nat
  BY <1>4
<1>6. /\ mode.params_stack = SubSeq(cmdtc.params_stack, 1, k)
      /\ mode.matching_params_list = {} /\ mode.root = cmdtc.params_stack[k]
      /\ mode.root \in Param
  <2>1. /\ c.params_stack = SubSeq(cmdtc.params_stack, 1, k)
        /\ c.matching_params_list = {} /\ c.curr_param = cmdtc.params_stack[k]
    BY <1>3, <1>4, LevelUpIs
  <2>2. c \in CursorType
    BY <1>3, <1>4, LevelUpOK, Stacks
  <2> HIDE DEF c, k
  <2> QED
    BY <2>1, <2>2 DEF CursorType
<1>7. AtMode(mode) /\ Good(mode)
  <2>1. Placed(mode)
    BY <1>3, <1>4, LeftPlace
  <2>2. Good(mode)
    <3>1. c \in CursorType /\ Good(c) /\ c.curr_param \in Param /\ Shape(c)
      <4>1. Good(c)
        BY <1>3, <1>4, LevelUpOK
      <4> HIDE DEF c
      <4> QED
        BY <4>1 DEF Good, CursorType
    <3> HIDE DEF c
    <3>2. mode = [c EXCEPT !.root = c.curr_param, !.stack_checkpoint = c.stack_checkpoint]
          /\ c.stack_checkpoint \in Nat
      BY <3>1 DEF CursorType
    <3>3. c.stack_checkpoint < Len(c.params_stack)
      BY <3>1 DEF Shape
    <3> HIDE DEF mode
    <3> QED
      BY <3>1, <3>2, <3>3, ModeOK
  <2> QED
    BY <2>1, <2>2 DEF Placed
<1> HIDE DEF c, mode
<1>8. Rooted(mode)
  BY <1>3, <1>5, <1>6, CutHooks
<1>9. cmdtc.root # RootHook
  BY <1>3, <1>4, ModeHasBranch
<1>10. HookedAt(left, RootHook, branch) /\ left \in [Param -> [Slot -> ParamOrNull]]
  BY <1>3, <1>9, LeaveHooks DEF Hooked, OptionsType
<1> HIDE DEF left, branch
<1>11. CASE mode.root = RootHook /\ cmdtc' = mode /\ options' = left
  <2>2. Hooked(mode, left)
    BY <1>10, <1>11, OtherBranch DEF Hooked
  <2> QED
    BY <1>8, <1>11, <2>2 DEF HookStep
<1>12. CASE /\ mode.root # RootHook /\ HasRoom(left[mode.root], branch) /\ cmdtc' = mode
            /\ options' = [left EXCEPT ![mode.root] = Install(@, branch)]
  <2>1. left[mode.root] = InitOptions[mode.root]
    BY <1>6, <1>10, <1>12 DEF HookedAt
  <2>2. HookedAt(options', mode.root, branch)
    BY <1>6, <1>10, <1>12, <2>1, EnterHooks
  <2>3. branch = mode.params_stack[2]
    BY <1>7, <1>8, <1>12, ModeHasBranch DEF branch
  <2> QED
    BY <1>8, <1>12, <2>2, <2>3 DEF HookStep, Hooked
<1>13. CASE UNCHANGED <<options, cmdtc>>
  BY <1>3, <1>13 DEF HookStep
<1> QED
  BY <1>2, <1>11, <1>12, <1>13

LEMMA InitHooks ==
  ASSUME NEW d, d.params_stack = <<RootHook>>, d.root = RootHook, d.matching_params_list = {},
         NEW o, NEW b, HookedAt(o, RootHook, b)
  PROVE  Rooted(d) /\ Hooked(d, o)
<1>1. Rooted(d)
  BY DEF Rooted
<1> QED
  BY <1>1, OtherBranch DEF Hooked

LEMMA CtrlTHooks ==
  ASSUME HookInv, CtrlT
  PROVE  HookStep
<1> DEFINE b == cmdtc.refresh_disabled /\ RefreshValHook \notin Range(cmdtc.params_stack)
<1>1. /\ Reading /\ cmdtc' = [InitCursor EXCEPT !.refresh_disabled = b]
      /\ options' = IF cmdtc.stack_checkpoint > 0
                    THEN [options EXCEPT ![cmdtc.root] = Uninstall(@)] ELSE options
  BY DEF CtrlT
<1>2. /\ Good(cmdtc) /\ AtMode(cmdtc) /\ Rooted(cmdtc) /\ Hooked(cmdtc, options)
      /\ OptionsType /\ cmdtc.root \in Param /\ cmdtc.stack_checkpoint \in Nat
  BY <1>1, HooksBefore, Stacks
<1> HIDE DEF b
<1>3. /\ cmdtc'.params_stack = <<RootHook>> /\ cmdtc'.root = RootHook
      /\ cmdtc'.matching_params_list = {}
  BY <1>1 DEF InitCursor
<1>4. HookedAt(options', RootHook, cmdtc.params_stack[2])
  <2>1. CASE cmdtc.stack_checkpoint > 0
    <3>1. cmdtc.root # RootHook
      BY <1>2, <2>1, ModeHasBranch
    <3> QED
      BY <1>1, <1>2, <2>1, <3>1, LeaveHooks DEF Hooked, OptionsType
  <2>2. CASE ~ (cmdtc.stack_checkpoint > 0)
    <3>1. cmdtc.root = RootHook
      BY <1>2, <2>2, ModeHasBranch
    <3> QED
      BY <1>1, <1>2, <2>2, <3>1 DEF Hooked
  <2> QED
    BY <2>1, <2>2
<1> QED
  BY <1>3, <1>4, InitHooks DEF HookStep

LEMMA WithoutOuterIs ==
  ASSUME NEW c, Good(c), Nested(c)
  PROVE  LET d == WithoutOuter(c)
             m == c.stack_checkpoint
             l == Len(c.params_stack)
         IN  /\ m \in Nat \ {0} /\ l \in Nat /\ m + 1 < l
             /\ Len(d.params_stack) = l - m /\ Len(d.tlv_stack) = l - m
             /\ d.params_stack[1] = c.params_stack[1] /\ d.tlv_stack[1] = c.tlv_stack[1]
             /\ \A i \in 2 .. l - m : /\ d.params_stack[i] = c.params_stack[i + m]
                                      /\ d.tlv_stack[i] = c.tlv_stack[i + m]
             /\ d.tlv_stack \in Seq(TlvType) /\ d.root = RootHook
             /\ d.matching_params_list = c.matching_params_list
             /\ d.leaf_param = c.leaf_param /\ d.icursor = c.icursor
             /\ d.cmdtc_state = c.cmdtc_state
<1> DEFINE m == c.stack_checkpoint
           own(s) == <<Head(s)>> \o SubSeq(s, m + 2, Len(s))
           gone == {c.params_stack[i] : i \in 2 .. m + 1}
           stack == own(c.params_stack)
           tlvs == own(c.tlv_stack)
           e == ExitBackward(c, gone)
           d == WithoutOuter(c)
           l == Len(c.params_stack)
<1>1. /\ c \in CursorType /\ l \in Nat \ {0} /\ Len(c.tlv_stack) = l
      /\ c.params_stack \in Seq(Param) /\ c.tlv_stack \in Seq(TlvType)
      /\ m \in Nat \ {0} /\ m + 1 < l
  BY Stacks DEF Nested, Top
<1>2. /\ Len(stack) = l - m /\ stack[1] = c.params_stack[1]
      /\ \A i \in 2 .. l - m : stack[i] = c.params_stack[i + m]
  BY <1>1, OwnWords, ZenonT(30)
<1>3. /\ tlvs[1] = c.tlv_stack[1] /\ Len(tlvs) = l - m /\ tlvs \in Seq(TlvType)
      /\ \A i \in 2 .. l - m : tlvs[i] = c.tlv_stack[i + m]
  <2>1. c.tlv_stack \in Seq(TlvType) /\ m \in Nat /\ m + 1 < Len(c.tlv_stack)
        /\ Len(c.tlv_stack) = l
    BY <1>1
  <2>2. /\ tlvs[1] = c.tlv_stack[1] /\ tlvs \in Seq(TlvType)
        /\ Len(tlvs) = Len(c.tlv_stack) - m
        /\ \A i \in 2 .. Len(c.tlv_stack) - m : tlvs[i] = c.tlv_stack[i + m]
    <3> HIDE DEF m, l
    <3> QED  BY <2>1, OwnWords
  <2> HIDE DEF tlvs
  <2> QED  BY <2>1, <2>2
<1>4. e \in CursorType /\ e.params_stack = c.params_stack /\ e.tlv_stack = c.tlv_stack
      /\ e.matching_params_list = c.matching_params_list /\ e.leaf_param = c.leaf_param
      /\ e.icursor = c.icursor /\ e.cmdtc_state = c.cmdtc_state
  <2> HIDE DEF gone, own, stack, tlvs, m, l
  <2>1. c \in CursorType
    BY <1>1
  <2>2. e \in CursorType
    BY <2>1, ExitBackwardOK
  <2>3. /\ e.params_stack = c.params_stack /\ e.tlv_stack = c.tlv_stack
        /\ e.matching_params_list = c.matching_params_list /\ e.leaf_param = c.leaf_param
        /\ e.icursor = c.icursor /\ e.cmdtc_state = c.cmdtc_state
    BY <2>1 DEF ExitBackward, CursorType
  <2> QED
    BY <2>2, <2>3
<1>5. d = [e EXCEPT !.params_stack = stack, !.tlv_stack = tlvs,
                    !.stack_checkpoint = Top(stack), !.root = RootHook,
                    !.curr_param = Last(c.params_stack)]
  BY <1>4 DEF WithoutOuter
<1> HIDE DEF e, gone, stack, tlvs, d
<1>6. /\ d.params_stack = stack /\ d.tlv_stack = tlvs /\ d.root = RootHook
      /\ d.matching_params_list = c.matching_params_list
      /\ d.leaf_param = c.leaf_param /\ d.icursor = c.icursor
      /\ d.cmdtc_state = c.cmdtc_state
  BY <1>4, <1>5 DEF CursorType
<1> QED
  BY <1>1, <1>2, <1>3, <1>6 DEF d

LEMMA WithoutOuterRooted ==
  ASSUME NEW c, Good(c), Nested(c), Rooted(c)
  PROVE  Rooted(WithoutOuter(c))
<1> DEFINE d == WithoutOuter(c)
           m == c.stack_checkpoint
           l == Len(c.params_stack)
<1>1. /\ m \in Nat \ {0} /\ l \in Nat /\ m + 1 < l
      /\ Len(d.params_stack) = l - m /\ d.params_stack[1] = c.params_stack[1]
      /\ \A i \in 2 .. l - m : d.params_stack[i] = c.params_stack[i + m]
      /\ d.matching_params_list = c.matching_params_list
  BY WithoutOuterIs
<1>2. \A i \in 2 .. l - m : i + m \in 2 .. l
  BY <1>1
<1> HIDE DEF d
<1> QED
  BY <1>1, <1>2, ZenonT(30) DEF Rooted, d

LEMMA EnterModeHooks ==
  ASSUME HookInv, EnterMode
  PROVE  HookStep
<1> DEFINE c == IF Nested(cmdtc) THEN WithoutOuter(cmdtc) ELSE cmdtc
           left == IF Nested(cmdtc) THEN cmdtc.params_stack[cmdtc.stack_checkpoint + 1] ELSE c.root
           stack == Rebuilt(c.params_stack)
           mode == [c EXCEPT !.params_stack = stack, !.root = c.curr_param,
                             !.stack_checkpoint = Top(stack)]
           h == ModeHdr(c.tlv_stack)
           kept == IF left = RootHook THEN options ELSE [options EXCEPT ![left] = Uninstall(@)]
           branch == Branch(mode.params_stack)
           entered == [c EXCEPT !.root = c.curr_param, !.stack_checkpoint = Top(c.params_stack)]
<1>1. Reading /\ cmdtc.cmdtc_state = "init"
  BY DEF EnterMode
<1>2. \/ UNCHANGED <<options, cmdtc>>
      \/ /\ HasRoom(kept[mode.root], branch)
         /\ options' = [kept EXCEPT ![mode.root] = Install(@, branch)]
         /\ \/ status' = "corrupt"
            \/ stack = c.params_stack /\ (Submit(mode, h) \/ cmdtc' = mode)
  BY DEF EnterMode
<1>3. /\ Good(cmdtc) /\ Placed(cmdtc) /\ AtMode(cmdtc) /\ Rooted(cmdtc)
      /\ Hooked(cmdtc, options) /\ OptionsType /\ cmdtc.root \in Param
  BY <1>1, HooksBefore
<1>4. Good(c) /\ c.cmdtc_state = "init" /\ AtWord(c) /\ KeywordsListed(c) /\ Named(c)
  BY <1>1, <1>3, WithoutOuterOK, WithoutOuterPlace DEF Placed
<1>5. Rooted(c)
  BY <1>3, WithoutOuterRooted
<1>6. left = cmdtc.root
  BY <1>3 DEF AtMode
<1> HIDE DEF c, left, h
<1>7. HookedAt(kept, RootHook, branch) /\ kept \in [Param -> [Slot -> ParamOrNull]]
  <2> HIDE DEF mode, branch
  <2>1. CASE left = RootHook
    <3>1. kept = options /\ HookedAt(options, RootHook, cmdtc.params_stack[2])
      BY <1>3, <1>6, <2>1 DEF Hooked
    <3> QED
      BY <1>3, <3>1, OtherBranch DEF OptionsType, HookedAt
  <2>2. CASE left # RootHook
    BY <1>3, <1>6, <2>2, LeaveHooks DEF Hooked, OptionsType
  <2> QED
    BY <2>1, <2>2
<1> HIDE DEF kept
<1>8. CASE UNCHANGED <<options, cmdtc>>
  BY <1>3, <1>8 DEF HookStep
<1>9. CASE status' = "corrupt"
  BY <1>9 DEF HookStep
<1>10. CASE /\ HasRoom(kept[mode.root], branch)
            /\ options' = [kept EXCEPT ![mode.root] = Install(@, branch)]
            /\ stack = c.params_stack /\ (Submit(mode, h) \/ cmdtc' = mode)
  <2>1. c \in CursorType
    BY <1>4, Stacks
  <2>2. mode = entered
    BY <1>10, <2>1 DEF CursorType
  <2>3. /\ entered.params_stack = c.params_stack
        /\ entered.matching_params_list = c.matching_params_list
        /\ entered.root \in Param
    BY <2>1 DEF CursorType
  <2>4. Good(entered) /\ AtMode(entered)
    <3>1. 0 \in Nat
      OBVIOUS
    <3> QED
      BY <1>4, <3>1, EnteredPlace DEF Placed
  <2>5. /\ Good(mode) /\ AtMode(mode) /\ mode.params_stack = c.params_stack /\ mode.root \in Param
        /\ mode.matching_params_list = c.matching_params_list
    <3> HIDE DEF mode, entered
    <3> QED  BY <2>2, <2>3, <2>4
  <2> HIDE DEF mode, entered
  <2>6. Rooted(mode)
    BY <1>5, <2>5 DEF Rooted
  <2>7. HookedAt(options', mode.root, branch)
    BY <1>7, <1>10, <2>5, EnterHooks
  <2>8. mode.root # RootHook => mode.params_stack[2] = branch
    BY <2>5, <2>6, ModeHasBranch
  <2>9. Hooked(mode, options')
    BY <2>7, <2>8, OtherBranch DEF Hooked
  <2>10. CASE Submit(mode, h)
    BY <2>5, <2>6, <2>9, <2>10, SubmittedHooks
  <2>11. CASE cmdtc' = mode
    BY <2>6, <2>9, <2>11 DEF HookStep
  <2> QED
    BY <1>10, <2>10, <2>11
<1> QED
  BY <1>2, <1>8, <1>9, <1>10

LEMMA HooksInitially ==
  ASSUME Init
  PROVE  HookInv
<1>1. options = InitOptions /\ cmdtc = InitCursor
  BY DEF Init
<1>2. /\ cmdtc.params_stack = <<RootHook>> /\ cmdtc.root = RootHook
      /\ cmdtc.matching_params_list = {}
  BY <1>1 DEF InitCursor
<1>3. HookedAt(InitOptions, RootHook, NoParam)
  <2>1. Extends(InitOptions[RootHook], InitOptions[RootHook])
    BY TreeFacts, InitOptionsIs, ExtendsItself
  <2> QED
    BY <2>1 DEF HookedAt
<1>4. Rooted(cmdtc) /\ Hooked(cmdtc, options)
  BY <1>1, <1>2, <1>3, InitHooks
<1> QED
  BY <1>4, ModeInitially DEF HookInv

LEMMA HooksInductive ==
  ASSUME HookInv, [Next]_vars
  PROVE  HookInv'
<1>1. ModeInv'
  BY ModeInductive DEF HookInv
<1>2. CASE Next
  <2>1. HookStep
    BY <1>2, TypeCharHooks, SpaceListsHooks, SpaceCompletesHooks, SpaceAcceptsHooks,
       AutoCompletionSpinsHooks, ReturnCommandHooks, ReturnWordHooks, ReturnRejectHooks,
       EraseCharHooks, EraseWordHooks, EraseLevelHooks, PageUpHooks, CtrlTHooks,
       RunModeHooks, EnterModeHooks DEF Next
  <2> QED
    BY <1>1, <2>1 DEF HookInv, HookStep
<1>3. CASE UNCHANGED vars
  BY <1>1, <1>3 DEF vars, HookInv
<1> QED
  BY <1>2, <1>3

LEMMA HookInvariance == Spec => []HookInv
BY HooksInitially, HooksInductive, PTL DEF Spec

\* The show and config hooks are options of the mode the user is in, but for
\* the one whose branch that is, and of no other param that is not the root:
\* cmd_tree_install_universal_params and its counterpart go together in enter-mode,
\* page-up and ctrl-t, whatever the order of the modes.
THEOREM HooksFollowMode == Spec => [](status # "corrupt" => UniversalsOnModeRoot)
<1>1. ASSUME HookInv, status # "corrupt" PROVE UniversalsOnModeRoot
  <2>1. Good(cmdtc) /\ AtMode(cmdtc) /\ Rooted(cmdtc) /\ Hooked(cmdtc, options)
    BY <1>1 DEF HookInv, ModeInv, Inv, Placed
  <2>2. ASSUME NEW p \in Param \ {RootHook}, p = cmdtc.root
        PROVE  OptionsIn(options[p]) = OptionsIn(InitOptions[p]) \cup
                                         ({ShowHook, ConfigHook} \ {Branch(cmdtc.params_stack)})
    <3>1. /\ options[p] = Install(InitOptions[p], cmdtc.params_stack[2])
          /\ HasRoom(InitOptions[p], cmdtc.params_stack[2])
      BY <2>1, <2>2 DEF Hooked, HookedAt
    <3>2. Branch(cmdtc.params_stack) = cmdtc.params_stack[2]
      BY <2>1, <2>2, ModeHasBranch
    <3> QED
      BY <3>1, <3>2, InstalledIs DEF Universal
  <2>3. ASSUME NEW p \in Param \ {RootHook}, p # cmdtc.root
        PROVE  OptionsIn(options[p]) = OptionsIn(InitOptions[p])
    BY <2>1, <2>3 DEF Hooked, HookedAt
  <2>4. OptionsIn(options[RootHook]) = OptionsIn(InitOptions[RootHook])
    <3>1. Extends(options[RootHook], InitOptions[RootHook])
      BY <2>1 DEF Hooked, HookedAt
    <3>2. Universal \subseteq Range(Children[RootHook])
      <4>1. \A h \in Universal : \E i \in DOMAIN Children[RootHook] : Children[RootHook][i] = h
        BY ChildrenAssumption DEF Universal
      <4> QED
        BY <4>1 DEF Range
    <3>3. OptionsIn(InitOptions[RootHook]) = Range(Children[RootHook])
      BY TreeFacts, OptionsInInit
    <3>4. OptionsIn(options[RootHook]) \subseteq Range(Children[RootHook]) \cup Universal
      BY <3>1, TreeFacts, ExtendedOptions
    <3>5. OptionsIn(InitOptions[RootHook]) \subseteq OptionsIn(options[RootHook])
      BY <3>1 DEF Extends, OptionsIn
    <3> QED
      BY <3>2, <3>3, <3>4, <3>5
  <2> QED
    BY <2>2, <2>3, <2>4 DEF UniversalsOnModeRoot
<1> QED
  BY <1>1, HookInvariance, PTL

-----------------------------------------------------------------------------
(* Words and separators.                                                   *)

\* The n words behind the a-th TLV, each with the separator behind it.
Text(t, a, n, sep) == FlattenSeq([i \in 1 .. n |-> Append(t[a + i].value, sep)])

WordsOf(t, a, sep) == [i \in Nat |-> Append(t[a + i].value, sep)]

LEMMA TextIsUpto ==
  ASSUME NEW t, NEW a, NEW n \in Nat, NEW sep
  PROVE  Text(t, a, n, sep) = FlattenSeq(Upto(WordsOf(t, a, sep), n))
<1>1. Upto(WordsOf(t, a, sep), n) = [i \in 1 .. n |-> Append(t[a + i].value, sep)]
  BY DEF Upto, WordsOf
<1> QED
  BY <1>1 DEF Text

LEMMA TextEmpty ==
  ASSUME NEW t, NEW a, NEW sep
  PROVE  Text(t, a, 0, sep) = <<>>
<1>1. [i \in 1 .. 0 |-> Append(t[a + i].value, sep)] = <<>>
  OBVIOUS
<1>2. Len(<<>>) = 0
  OBVIOUS
<1> QED
  BY <1>1, <1>2, FlattenSeqIs DEF Text

AndWord(s, v, sep) == s \o Append(v, sep)

LEMMA TextMore ==
  ASSUME NEW T, NEW t, NEW a \in Nat, NEW n \in Nat, NEW sep \in T,
         t[a + (n + 1)].value \in Seq(T)
  PROVE  Text(t, a, n + 1, sep) = AndWord(Text(t, a, n, sep), t[a + (n + 1)].value, sep)
<1> DEFINE s == WordsOf(t, a, sep)
           v == t[a + (n + 1)].value
<1>1. n + 1 \in Nat
  OBVIOUS
<1>2. s[n + 1] = Append(v, sep)
  BY <1>1 DEF WordsOf
<1>3. v \in Seq(T)
  OBVIOUS
<1> HIDE DEF v
<1>4. s[n + 1] \in Seq(T)
  BY <1>2, <1>3, AppendProperties
<1>5. /\ Text(t, a, n, sep) = FlattenSeq(Upto(s, n))
      /\ Text(t, a, n + 1, sep) = FlattenSeq(Upto(s, n + 1))
  BY <1>1, TextIsUpto
<1> HIDE DEF s
<1>6. FlattenSeq(Upto(s, n + 1)) = FlattenSeq(Upto(s, n)) \o s[n + 1]
  BY <1>4, FlattenOneMore
<1>7. Text(t, a, n + 1, sep) = AndWord(Text(t, a, n, sep), v, sep)
  BY <1>2, <1>5, <1>6 DEF AndWord
<1> QED
  BY <1>7 DEF v

LEMMA AndWordType ==
  ASSUME NEW T, NEW s \in Seq(T), NEW v \in Seq(T), NEW sep \in T
  PROVE  AndWord(s, v, sep) \in Seq(T)
BY AppendProperties, ConcatProperties DEF AndWord

\* The words of t behind the a-th are sequences over T.
Worded(t, a, n, T) == \A i \in 1 .. n : t[a + i].value \in Seq(T)

LEMMA TextType ==
  ASSUME NEW T, NEW t, NEW a \in Nat, NEW n \in Nat, NEW sep \in T,
         Worded(t, a, n, T)
  PROVE  Text(t, a, n, sep) \in Seq(T)
<1> DEFINE bad == {k \in 0 .. n : Text(t, a, k, sep) \notin Seq(T)}
<1>1. ASSUME NEW m \in bad, \A k \in bad : m <= k PROVE FALSE
  <2>1. CASE m = 0
    BY <1>1, <2>1, TextEmpty, EmptySeq
  <2>2. CASE m # 0
    <3> DEFINE k == m - 1
    <3>1. k \in 0 .. n /\ k \in Nat /\ m = k + 1 /\ m \in 1 .. n /\ ~ (m <= k)
      BY <1>1, <2>2
    <3>2. k \notin bad
      BY <1>1, <3>1
    <3> HIDE DEF k
    <3>3. t[a + (k + 1)].value \in Seq(T) /\ Text(t, a, k, sep) \in Seq(T)
      BY <3>1, <3>2 DEF Worded
    <3>4. Text(t, a, k + 1, sep) = AndWord(Text(t, a, k, sep), t[a + (k + 1)].value, sep)
      BY <3>1, <3>3, TextMore
    <3>5. Text(t, a, k + 1, sep) \in Seq(T)
      BY <3>3, <3>4, AndWordType
    <3> QED
      BY <1>1, <3>1, <3>5
  <2> QED
    BY <2>1, <2>2
<1>2. bad \in SUBSET Nat
  OBVIOUS
<1>3. n \notin bad
  <2> HIDE DEF bad
  <2> QED
    BY <1>1, <1>2, LeastNat
<1> QED
  BY <1>3

SameWords(t, a, u, b, n) == \A i \in 1 .. n : t[a + i].value = u[b + i].value

LEMMA TextSame ==
  ASSUME NEW t, NEW a, NEW u, NEW b, NEW n, NEW sep, SameWords(t, a, u, b, n)
  PROVE  Text(t, a, n, sep) = Text(u, b, n, sep)
<1>1. [i \in 1 .. n |-> Append(t[a + i].value, sep)] =
      [i \in 1 .. n |-> Append(u[b + i].value, sep)]
  BY DEF SameWords
<1> QED
  BY <1>1 DEF Text

Blank == " "

\* The words pushed since the mode was entered, as they stand on the line.
Done(c) == Text(c.tlv_stack, c.stack_checkpoint + 1,
                Len(c.params_stack) - (c.stack_checkpoint + 1), Blank)

LEMMA ValuesTyped ==
  ASSUME NEW c, Good(c), NEW i \in 1 .. Len(c.params_stack)
  PROVE  /\ c.tlv_stack[i].value \in Seq(Key) /\ c.tlv_stack[i].value \in Seq(LineChar)
         /\ c.tlv_stack[i].value \in Seq(PromptChar)
<1>1. c.tlv_stack \in Seq(TlvType) /\ Len(c.tlv_stack) = Len(c.params_stack)
  BY Stacks
<1>2. c.tlv_stack[i] \in TlvType
  BY <1>1, ElementOfSeq
<1>3. c.tlv_stack[i].value \in Seq(Key)
  BY <1>2 DEF TlvType
<1> QED
  BY <1>3, SeqMonotonic DEF LineChar, PromptChar

LEMMA DoneOK ==
  ASSUME NEW c, Good(c)
  PROVE  /\ Done(c) \in Seq(LineChar)
         /\ Len(c.params_stack) = c.stack_checkpoint + 1 => Done(c) = <<>>
<1> DEFINE a == c.stack_checkpoint + 1
           n == Len(c.params_stack) - a
<1>1. a \in Nat /\ n \in Nat /\ \A i \in 1 .. n : a + i \in 1 .. Len(c.params_stack)
  BY Stacks
<1>2. Worded(c.tlv_stack, a, n, LineChar)
  BY <1>1, ValuesTyped DEF Worded
<1>3. Blank \in LineChar
  BY DEF LineChar, Blank
<1>4. Done(c) = Text(c.tlv_stack, a, n, Blank)
  BY DEF Done
<1>5. Len(c.params_stack) = a => n = 0
  BY <1>1
<1> HIDE DEF a, n
<1>6. Done(c) \in Seq(LineChar)
  BY <1>1, <1>2, <1>3, <1>4, TextType
<1> QED
  BY <1>4, <1>5, <1>6, TextEmpty DEF a

LEMMA DoneSame ==
  ASSUME NEW c, NEW d, Len(d.params_stack) = Len(c.params_stack), d.tlv_stack = c.tlv_stack,
         d.stack_checkpoint = c.stack_checkpoint
  PROVE  Done(d) = Done(c)
BY DEF Done

\* The text of one word more.
LEMMA DoneMore ==
  ASSUME NEW c, Good(c), NEW d, d.stack_checkpoint = c.stack_checkpoint,
         Len(c.params_stack) > c.stack_checkpoint + 1,
         Len(d.params_stack) = Len(c.params_stack) - 1,
         \A i \in 1 .. Len(c.params_stack) - 1 : d.tlv_stack[i] = c.tlv_stack[i]
  PROVE  Done(c) = AndWord(Done(d), c.tlv_stack[Len(c.params_stack)].value, Blank)
<1> DEFINE l == Len(c.params_stack)
           a == c.stack_checkpoint + 1
           n == l - 1 - a
           t == c.tlv_stack
<1>1. /\ a \in Nat /\ l \in Nat /\ l \in 1 .. l /\ n \in Nat /\ a + (n + 1) = l /\ l - a = n + 1
      /\ \A i \in 1 .. n : a + i \in 1 .. l - 1
  <2>1. c.stack_checkpoint \in Nat /\ l \in Nat /\ l > c.stack_checkpoint + 1
    BY Stacks
  <2> HIDE DEF l, t
  <2>2. a \in Nat /\ n \in Nat /\ a + (n + 1) = l /\ l - a = n + 1
    BY <2>1
  <2>3. l \in 1 .. l
    BY <2>1
  <2> HIDE DEF a, n
  <2>4. \A i \in 1 .. n : a + i \in 1 .. l - 1
    BY <2>1, <2>2
  <2> QED
    BY <2>1, <2>2, <2>3, <2>4
<1>2. t[l].value \in Seq(LineChar)
  BY <1>1, ValuesTyped
<1>3. Blank \in LineChar
  BY DEF LineChar, Blank
<1>4. Done(c) = Text(t, a, n + 1, Blank)
  BY <1>1 DEF Done
<1>5. Done(d) = Text(d.tlv_stack, a, n, Blank)
  BY <1>1 DEF Done
<1>6. SameWords(d.tlv_stack, a, t, a, n)
  BY <1>1 DEF SameWords
<1> HIDE DEF l, a, n, t
<1>7. Done(d) = Text(t, a, n, Blank)
  BY <1>5, <1>6, TextSame
<1>8. Text(t, a, n + 1, Blank) = AndWord(Text(t, a, n, Blank), t[l].value, Blank)
  <2>1. t[a + (n + 1)].value \in Seq(LineChar)
    BY <1>1, <1>2
  <2>2. Text(t, a, n + 1, Blank) = AndWord(Text(t, a, n, Blank), t[a + (n + 1)].value, Blank)
    BY <1>1, <1>3, <2>1, TextMore
  <2> QED
    BY <1>1, <2>2
<1> QED
  BY <1>4, <1>7, <1>8 DEF l, t

-----------------------------------------------------------------------------
(* The word at hand.                                                       *)

\* A typed word that a leaf could take continues one keyword at most: of the
\* params that may follow where a leaf may, no two keywords begin alike.
OneKeywordBesideLeaf ==
  \A p \in Param : (\E q \in Range(Children[p]) : IsLeaf(q)) =>
     \A q, r \in Range(Children[p]) \cup Universal :
        ~IsLeaf(q) /\ ~IsLeaf(r) /\ KeyAt(q, 0) = KeyAt(r, 0) => q = r

\* The keyword of p begins with w.
Begins(p, w) == Len(w) <= Len(Name[p]) /\ \A i \in 1 .. Len(w) : Name[p][i] = w[i]
Apart(m) == \A p, q \in m : KeyAt(p, 0) = KeyAt(q, 0) => p = q

\* w is the word the cursor is in: the list holds keywords that begin with it,
\* and with a leaf to take it, it is its value and the list settles on one
\* keyword at most.
AtHand(c, w) ==
  /\ w \in Seq(Key) /\ Len(w) = c.icursor
  /\ c.cmdtc_state # "matching_leaf" => \A p \in c.matching_params_list : Begins(p, w)
  /\ c.cmdtc_state # "init" /\ c.leaf_param # NoParam => c.curr_leaf_value = w
  /\ c.cmdtc_state = "multiple_matches" => c.leaf_param = NoParam
  /\ c.leaf_param # NoParam /\ c.cmdtc_state # "matching_leaf" => Apart(c.matching_params_list)

\* The line shows the words pushed and the word at hand.
Shown(c, l) == \E w \in Seq(Key) : l = Done(c) \o w /\ AtHand(c, w)
ShownInv == HookInv /\ (status \in {"running", "spinning"} => Shown(cmdtc, line))
ShownStep == status' \in {"running", "spinning"} => Shown(cmdtc', line')

LEMMA ShownBefore ==
  ASSUME ShownInv, Reading
  PROVE  /\ HookInv /\ Good(cmdtc) /\ cmdtc \in CursorType /\ Shape(cmdtc)
         /\ cmdtc.cmdtc_state \in {"init", "multiple_matches", "single_word_match", "matching_leaf"}
         /\ cmdtc.icursor \in Nat /\ Placed(cmdtc) /\ KeywordsListed(cmdtc)
         /\ Rooted(cmdtc) /\ Hooked(cmdtc, options) /\ OptionsType /\ status = "running"
         /\ Done(cmdtc) \in Seq(LineChar)
         /\ \E w \in Seq(Key) : line = Done(cmdtc) \o w /\ AtHand(cmdtc, w)
<1>1. HookInv /\ status = "running"
  BY HooksBefore DEF ShownInv
<1>2. Good(cmdtc) /\ Placed(cmdtc) /\ Rooted(cmdtc) /\ Hooked(cmdtc, options) /\ OptionsType
      /\ cmdtc \in CursorType
  BY <1>1, HooksBefore
<1>3. cmdtc.cmdtc_state \in {"init", "multiple_matches", "single_word_match", "matching_leaf"}
  BY <1>2 DEF CursorType
<1>4. Shown(cmdtc, line)
  BY <1>1 DEF ShownInv
<1> QED
  BY <1>1, <1>2, <1>3, <1>4, Stacks, DoneOK DEF Shown, Placed

\* Nothing is typed.
LEMMA NothingShown ==
  ASSUME NEW c, Good(c), Len(c.params_stack) = c.stack_checkpoint + 1, c.icursor = 0,
         c.leaf_param # NoParam => Apart(c.matching_params_list)
  PROVE  Shown(c, <<>>)
<1>1. Done(c) = <<>> /\ Done(c) \in Seq(LineChar)
  BY DoneOK
<1>2. <<>> \in Seq(Key) /\ Len(<<>>) = 0
  BY EmptySeq
<1>3. <<>> \o <<>> = <<>>
  BY <1>2, ConcatEmptySeq
<1>4. c.cmdtc_state = "init"
  BY Stacks DEF Shape
<1>5. \A p \in c.matching_params_list : Begins(p, <<>>)
  <2>1. c.matching_params_list \subseteq Param
    BY Stacks DEF CursorType
  <2>2. \A p \in Param : Len(Name[p]) \in Nat
    BY KindAssumption, LenProperties
  <2> QED
    BY <1>2, <2>1, <2>2 DEF Begins
<1>6. AtHand(c, <<>>)
  BY <1>2, <1>4, <1>5 DEF AtHand
<1> QED
  BY <1>1, <1>2, <1>3, <1>6 DEF Shown

\* Keys put behind the word go to the value of the leaf that is known.
LEMMA SavedIs ==
  ASSUME NEW c, Good(c), NEW w \in Seq(Key), AtHand(c, w), KnownLeaf(c) # NoParam,
         NEW keys \in Seq(Key)
  PROVE  SaveAt(c.curr_leaf_value, c.icursor, keys) = w \o keys
<1> DEFINE v == c.curr_leaf_value
           kept == [k \in 1 .. c.icursor |-> IF k <= Len(v) THEN v[k] ELSE NUL]
<1>1. c \in CursorType /\ Shape(c) /\ c.icursor \in Nat /\ Len(w) = c.icursor
  BY Stacks DEF AtHand
<1>2. CASE c.cmdtc_state = "init"
  <2>1. c.icursor = 0
    BY <1>1, <1>2 DEF Shape
  <2>2. kept = <<>> /\ w = <<>>
    <3>1. w = <<>>
      BY <1>1, <2>1, EmptySeq
    <3>2. 1 .. 0 = {}
      OBVIOUS
    <3>3. kept = <<>>
      BY <2>1, <3>2
    <3> QED
      BY <3>1, <3>3
  <2> QED
    BY <2>2 DEF SaveAt
<1>3. CASE c.cmdtc_state # "init"
  <2>1. ~Fresh(c)
    BY <1>1, <1>3 DEF Fresh, Shape, CursorType
  <2>2. v = w
    BY <1>3, <2>1 DEF AtHand, KnownLeaf
  <2>3. DOMAIN w = 1 .. c.icursor /\ w \in [1 .. c.icursor -> Key]
    BY <1>1, LenProperties
  <2>4. kept = w
    BY <1>1, <2>2, <2>3
  <2> QED
    BY <2>4 DEF SaveAt
<1> QED
  BY <1>2, <1>3

\* The candidates begin with the word; beside a leaf they part at its first key.
LEMMA CandidatesBegin ==
  ASSUME NEW c, Good(c), OptionsType, NEW w \in Seq(Key), AtHand(c, w),
         c.cmdtc_state # "matching_leaf", NEW p \in Candidates(c)
  PROVE  p \in Param /\ Name[p] \in Seq(Key) /\ Len(Name[p]) \in Nat /\ Begins(p, w)
<1>1. p \in Param
  BY CandidatesOK
<1>2. Name[p] \in Seq(Key) /\ Len(Name[p]) \in Nat
  BY <1>1, KindAssumption, LenProperties
<1>3. c \in CursorType /\ Shape(c) /\ c.icursor \in Nat /\ Len(w) = c.icursor
  BY Stacks DEF AtHand
<1>4. CASE Fresh(c)
  <2>1. c.cmdtc_state = "init"
    BY <1>3, <1>4 DEF Fresh, Shape, CursorType
  <2>2. Len(w) = 0
    BY <1>3, <2>1 DEF Shape
  <2> QED
    BY <1>1, <1>2, <2>2 DEF Begins
<1>5. CASE ~Fresh(c)
  BY <1>1, <1>2, <1>5 DEF Candidates, AtHand
<1> QED
  BY <1>4, <1>5

LEMMA CandidatesApart ==
  ASSUME OneKeywordBesideLeaf,
         NEW c, Good(c), OptionsType, Hooked(c, options), KeywordsListed(c),
         NEW w \in Seq(Key), AtHand(c, w),
         c.cmdtc_state # "matching_leaf", KnownLeaf(c) # NoParam
  PROVE  Apart(Candidates(c))
<1>1. CASE Fresh(c)
  <2> DEFINE o == c.curr_param
  <2>1. o \in Param /\ HookedAt(options, c.root, c.params_stack[2])
    BY Stacks DEF CursorType, Hooked
  <2>2. OptionsIn(options[o]) \subseteq Range(Children[o]) \cup Universal
    BY <2>1, HookedOptions
  <2>3. PICK l \in Followers(c) : IsLeaf(l)
    BY <1>1 DEF KnownLeaf, LeafOption
  <2>4. l \in Range(Children[o])
    BY <2>2, <2>3, TreeFacts DEF Followers
  <2>5. Candidates(c) \subseteq Range(Children[o]) \cup Universal
    BY <1>1, <2>2 DEF Candidates, Keywords, Followers
  <2>6. \A p \in Candidates(c) : ~IsLeaf(p)
    BY CandidatesListed
  <2> HIDE DEF o
  <2> QED
    BY <2>1, <2>3, <2>4, <2>5, <2>6 DEF OneKeywordBesideLeaf, Apart
<1>2. CASE ~Fresh(c)
  BY <1>2 DEF Candidates, KnownLeaf, AtHand
<1> QED
  BY <1>1, <1>2

\* The candidates that take one more key begin with the longer word.
LEMMA MatchedBegin ==
  ASSUME NEW c, Good(c), OptionsType, NEW w \in Seq(Key), AtHand(c, w),
         c.cmdtc_state # "matching_leaf", NEW k \in Key, NEW p \in Matched(c, k)
  PROVE  p \in Candidates(c) /\ Begins(p, Append(w, k))
<1>1. p \in Candidates(c) /\ KeyAt(p, c.icursor) = k
  BY DEF Matched
<1>2. /\ Name[p] \in Seq(Key) /\ Len(Name[p]) \in Nat /\ Begins(p, w)
      /\ c.icursor \in Nat /\ Len(w) = c.icursor
  BY <1>1, CandidatesBegin, Stacks DEF AtHand
<1>3. k # NUL
  BY KindAssumption DEF NUL
<1>4. c.icursor < Len(Name[p]) /\ Name[p][c.icursor + 1] = k
  BY <1>1, <1>3 DEF KeyAt
<1>5. /\ Len(Append(w, k)) = c.icursor + 1 /\ Append(w, k)[c.icursor + 1] = k
      /\ \A i \in 1 .. c.icursor : Append(w, k)[i] = w[i]
  BY <1>2, AppendProperties
<1>6. Begins(p, Append(w, k))
  <2>1. \A i \in 1 .. c.icursor + 1 : i \in 1 .. c.icursor \/ i = c.icursor + 1
    BY <1>2
  <2>2. c.icursor + 1 <= Len(Name[p])
    BY <1>2, <1>4
  <2> QED
    BY <1>2, <1>4, <1>5, <2>1, <2>2 DEF Begins
<1> QED
  BY <1>1, <1>6

\* With a leaf known one candidate at most takes a key.
LEMMA MatchedAlone ==
  ASSUME OneKeywordBesideLeaf,
         NEW c, Good(c), OptionsType, Hooked(c, options), KeywordsListed(c),
         NEW w \in Seq(Key), AtHand(c, w),
         c.cmdtc_state # "matching_leaf", KnownLeaf(c) # NoParam, NEW k \in Key
  PROVE  \A p, q \in Matched(c, k) : p = q
<1>1. SUFFICES ASSUME NEW p \in Matched(c, k), NEW q \in Matched(c, k) PROVE p = q
  OBVIOUS
<1>2. /\ p \in Candidates(c) /\ q \in Candidates(c)
      /\ Begins(p, Append(w, k)) /\ Begins(q, Append(w, k))
  BY MatchedBegin
<1>3. /\ Len(Name[p]) \in Nat /\ Len(Name[q]) \in Nat
  BY <1>2, CandidatesBegin
<1>4. Len(Append(w, k)) \in Nat \ {0}
  BY AppendProperties, LenProperties
<1>5. KeyAt(p, 0) = Append(w, k)[1] /\ KeyAt(q, 0) = Append(w, k)[1]
  <2>1. 1 \in 1 .. Len(Append(w, k))
    BY <1>4
  <2> DEFINE a == Append(w, k)
  <2>2. Len(a) \in Nat \ {0} /\ 1 \in 1 .. Len(a) /\ Begins(p, a) /\ Begins(q, a)
    BY <1>2, <1>4, <2>1
  <2> HIDE DEF a
  <2>3. KeyAt(p, 0) = a[1] /\ KeyAt(q, 0) = a[1]
    BY <1>3, <2>2 DEF Begins, KeyAt
  <2> QED
    BY <2>3 DEF a
<1>6. Apart(Candidates(c))
  BY CandidatesApart
<1> QED
  BY <1>2, <1>5, <1>6 DEF Apart

\* A key goes to the end of the word at hand.
LEMMA ParsedWord ==
  ASSUME OneKeywordBesideLeaf,
         NEW c, Good(c), OptionsType, Hooked(c, options), KeywordsListed(c),
         NEW w \in Seq(Key), AtHand(c, w), NEW k \in Key, Accepts(c, k)
  PROVE  /\ AtHand(ParseChar(c, k), Append(w, k))
         /\ Done(ParseChar(c, k)) = Done(c)
<1> DEFINE leaf == KnownLeaf(c)
           m == Matched(c, k)
           v == Save(c, leaf, <<k>>)
           typed == [c EXCEPT !.icursor = c.icursor + 1, !.curr_leaf_value = v]
           d == ParseChar(c, k)
           a == Append(w, k)
           q == CHOOSE p \in m : TRUE
           u == IF c.cmdtc_state = "multiple_matches" THEN c.curr_leaf_value ELSE v
<1>1. /\ c \in CursorType /\ Shape(c) /\ c.icursor \in Nat /\ Len(w) = c.icursor
  BY Stacks DEF AtHand
<1>2. a \in Seq(Key) /\ Len(a) = c.icursor + 1
  BY <1>1, AppendProperties
<1>3. leaf # NoParam => v = a
  <2>1. <<k>> \in Seq(Key)
    OBVIOUS
  <2>2. leaf # NoParam => v = w \o <<k>>
    BY <2>1, SavedIs DEF Save
  <2> QED
    BY <2>2, AppendIsConcat
<1>4. /\ c.cmdtc_state # "matching_leaf" =>
           /\ \A p \in m : Begins(p, a)
           /\ leaf # NoParam => \A p, r \in m : p = r
      /\ c.cmdtc_state # "matching_leaf" /\ m = {} => leaf # NoParam
      /\ c.cmdtc_state = "matching_leaf" => leaf = c.leaf_param /\ leaf # NoParam
      /\ c.cmdtc_state = "multiple_matches" => leaf = NoParam
  <2>1. c.cmdtc_state # "matching_leaf" =>
           (\A p \in m : Begins(p, a)) /\ (leaf # NoParam => \A p, r \in m : p = r)
    BY MatchedBegin, MatchedAlone
  <2>2. c.cmdtc_state # "matching_leaf" /\ m = {} => leaf # NoParam
    BY DEF Accepts
  <2>3. c.cmdtc_state = "matching_leaf" => leaf = c.leaf_param /\ leaf # NoParam
    <3>1. c.cmdtc_state = "matching_leaf" => leaf = c.leaf_param /\ c.leaf_param = c.curr_param
      BY <1>1 DEF KnownLeaf, Fresh, Shape
    <3>2. c.curr_param \in Param
      BY <1>1 DEF CursorType
    <3> HIDE DEF leaf
    <3> QED
      BY <3>1, <3>2, TreeFacts
  <2>4. c.cmdtc_state = "multiple_matches" => leaf = NoParam
    BY <1>1 DEF KnownLeaf, Fresh, Shape, AtHand
  <2> QED
    BY <2>1, <2>2, <2>3, <2>4
<1>5. typed.curr_leaf_value = v /\ typed.icursor = c.icursor + 1
  BY <1>1 DEF CursorType
<1>6. Cardinality(m) > 1 /\ c.cmdtc_state # "matching_leaf" => leaf = NoParam
  <2>1. SUFFICES ASSUME leaf # NoParam, c.cmdtc_state # "matching_leaf", Cardinality(m) > 1
                 PROVE  FALSE
    OBVIOUS
  <2>2. \A p, r \in m : p = r
    BY <1>4, <2>1
  <2> HIDE DEF m, leaf
  <2>3. CASE m = {}
    BY <2>1, <2>3, FS_EmptySet
  <2>4. CASE m # {}
    <3>1. PICK p \in m : TRUE
      BY <2>4
    <3>2. m = {p}
      BY <2>2, <3>1
    <3>3. Cardinality({p}) = 1
      BY FS_Singleton
    <3> QED
      BY <2>1, <3>2, <3>3
  <2> QED
    BY <2>3, <2>4
<1>7. /\ DOMAIN typed = DOMAIN c
      /\ typed.params_stack = c.params_stack /\ typed.tlv_stack = c.tlv_stack
      /\ typed.stack_checkpoint = c.stack_checkpoint
      /\ typed.cmdtc_state = c.cmdtc_state /\ typed.leaf_param = c.leaf_param
      /\ typed.matching_params_list = c.matching_params_list
  BY <1>1 DEF CursorType
<1>8. d = IF c.cmdtc_state = "matching_leaf" THEN typed
          ELSE IF m = {}
          THEN [typed EXCEPT !.cmdtc_state = "matching_leaf", !.leaf_param = leaf,
                             !.curr_param = leaf]
          ELSE IF Cardinality(m) > 1
          THEN [typed EXCEPT !.cmdtc_state = "multiple_matches", !.leaf_param = leaf,
                             !.matching_params_list = m]
          ELSE [typed EXCEPT !.cmdtc_state = "single_word_match", !.leaf_param = leaf,
                             !.matching_params_list = m, !.curr_param = q,
                             !.curr_leaf_value = u]
  BY <1>5 DEF ParseChar
<1> DEFINE F == {"params_stack", "tlv_stack", "stack_checkpoint", "icursor", "cmdtc_state",
                 "leaf_param", "matching_params_list", "curr_leaf_value", "curr_param"}
<1>9. F \subseteq DOMAIN typed
  BY <1>1, <1>7 DEF CursorType
<1> HIDE DEF leaf, m, v, a, q, u, typed, d
<1>10. CASE c.cmdtc_state = "matching_leaf"
  <2>1. d = typed /\ typed.curr_leaf_value = a
    BY <1>3, <1>4, <1>5, <1>8, <1>10
  <2> QED
    BY <1>2, <1>4, <1>5, <1>7, <1>10, <2>1, DoneSame DEF AtHand, a, d
<1>11. CASE c.cmdtc_state # "matching_leaf" /\ m = {}
  <2>1. d = [typed EXCEPT !.cmdtc_state = "matching_leaf", !.leaf_param = leaf,
                          !.curr_param = leaf]
    BY <1>8, <1>11
  <2>2. /\ d.params_stack = c.params_stack /\ d.tlv_stack = c.tlv_stack
        /\ d.stack_checkpoint = c.stack_checkpoint /\ d.icursor = c.icursor + 1
        /\ d.cmdtc_state = "matching_leaf" /\ d.curr_leaf_value = v
    BY <1>5, <1>7, <1>9, <2>1
  <2> QED
    BY <1>2, <1>3, <1>4, <1>11, <2>2, DoneSame DEF AtHand, a, d
<1>12. CASE c.cmdtc_state # "matching_leaf" /\ m # {} /\ Cardinality(m) > 1
  <2>1. d = [typed EXCEPT !.cmdtc_state = "multiple_matches", !.leaf_param = leaf,
                          !.matching_params_list = m]
    BY <1>8, <1>12
  <2>2. /\ d.params_stack = c.params_stack /\ d.tlv_stack = c.tlv_stack
        /\ d.stack_checkpoint = c.stack_checkpoint /\ d.icursor = c.icursor + 1
        /\ d.cmdtc_state = "multiple_matches" /\ d.leaf_param = NoParam
        /\ d.matching_params_list = m
    BY <1>5, <1>6, <1>7, <1>9, <1>12, <2>1
  <2> QED
    BY <1>2, <1>4, <1>12, <2>2, DoneSame DEF AtHand, a, d
<1>13. CASE c.cmdtc_state # "matching_leaf" /\ m # {} /\ ~(Cardinality(m) > 1)
  <2>1. d = [typed EXCEPT !.cmdtc_state = "single_word_match", !.leaf_param = leaf,
                          !.matching_params_list = m, !.curr_param = q,
                          !.curr_leaf_value = u]
    BY <1>8, <1>13
  <2>2. /\ d.params_stack = c.params_stack /\ d.tlv_stack = c.tlv_stack
        /\ d.stack_checkpoint = c.stack_checkpoint /\ d.icursor = c.icursor + 1
        /\ d.cmdtc_state = "single_word_match" /\ d.leaf_param = leaf
        /\ d.matching_params_list = m /\ d.curr_leaf_value = u
    BY <1>5, <1>7, <1>9, <2>1
  <2>3. leaf # NoParam => u = a /\ Apart(m)
    BY <1>3, <1>4, <1>13 DEF u, Apart
  <2> QED
    BY <1>2, <1>4, <1>13, <2>2, <2>3, DoneSame DEF AtHand, a, d
<1> QED
  BY <1>10, <1>11, <1>12, <1>13

LEMMA TypeCharShown ==
  ASSUME OneKeywordBesideLeaf, ShownInv, NEW k \in Key, TypeChar(k)
  PROVE  ShownStep
<1>1. Reading /\ Accepts(cmdtc, k) /\ cmdtc' = ParseChar(cmdtc, k) /\ line' = Append(line, k)
  BY DEF TypeChar
<1>2. PICK w \in Seq(Key) : line = Done(cmdtc) \o w /\ AtHand(cmdtc, w)
  BY <1>1, ShownBefore
<1> DEFINE a == Append(w, k)
<1>3. AtHand(cmdtc', a) /\ Done(cmdtc') = Done(cmdtc)
  BY <1>1, <1>2, ShownBefore, ParsedWord
<1>4. a \in Seq(Key)
  BY AppendProperties
<1>5. line' = Done(cmdtc) \o a
  <2>1. Done(cmdtc) \in Seq(LineChar) /\ w \in Seq(LineChar) /\ k \in LineChar
    BY <1>1, ShownBefore, SeqMonotonic DEF LineChar
  <2>2. Append(Done(cmdtc) \o w, k) = (Done(cmdtc) \o w) \o <<k>>
    BY <2>1, ConcatProperties, AppendIsConcat
  <2>3. <<k>> \in Seq(LineChar)
    BY <2>1
  <2>4. (Done(cmdtc) \o w) \o <<k>> = Done(cmdtc) \o (w \o <<k>>)
    BY <2>1, <2>3, ConcatAssociative
  <2>5. w \o <<k>> = a
    BY AppendIsConcat
  <2> QED
    BY <1>1, <1>2, <2>2, <2>4, <2>5
<1> HIDE DEF a
<1> QED
  BY <1>3, <1>4, <1>5 DEF ShownStep, Shown

LEMMA SpaceListsShown ==
  ASSUME OneKeywordBesideLeaf, ShownInv, SpaceLists
  PROVE  ShownStep
<1> DEFINE m == Candidates(cmdtc)
           leaf == KnownLeaf(cmdtc)
<1>1. /\ Reading /\ cmdtc.cmdtc_state = "init" /\ line' = line
      /\ cmdtc' = [cmdtc EXCEPT !.matching_params_list = m, !.leaf_param = leaf]
  BY DEF SpaceLists
<1>2. PICK w \in Seq(Key) : line = Done(cmdtc) \o w /\ AtHand(cmdtc, w)
  BY <1>1, ShownBefore
<1>3. /\ \A p \in m : Begins(p, w)
      /\ leaf # NoParam => Apart(m)
  BY <1>1, <1>2, ShownBefore, CandidatesBegin, CandidatesApart
<1> HIDE DEF m, leaf
<1>4. /\ cmdtc'.params_stack = cmdtc.params_stack /\ cmdtc'.tlv_stack = cmdtc.tlv_stack
      /\ cmdtc'.stack_checkpoint = cmdtc.stack_checkpoint /\ cmdtc'.icursor = cmdtc.icursor
      /\ cmdtc'.cmdtc_state = "init" /\ cmdtc'.leaf_param = leaf
      /\ cmdtc'.matching_params_list = m
  <2>1. cmdtc \in CursorType
    BY <1>1, ShownBefore
  <2> QED
    BY <1>1, <2>1 DEF CursorType
<1>5. Done(cmdtc') = Done(cmdtc)
  BY <1>4, DoneSame
<1>6. AtHand(cmdtc', w)
  BY <1>2, <1>3, <1>4 DEF AtHand
<1> QED
  BY <1>1, <1>2, <1>5, <1>6 DEF ShownStep, Shown

\* A set of the first numbers is an interval.
LEMMA InitialSegment ==
  ASSUME NEW n \in Nat, NEW S \in SUBSET (1 .. n), \A i \in S : \A j \in 1 .. i : j \in S
  PROVE  S = 1 .. Cardinality(S)
<1> DEFINE out == {k \in Nat : k + 1 \notin S}
<1>1. out \in SUBSET Nat /\ n \in out
  OBVIOUS
<1>2. PICK m \in out : \A k \in out : m <= k
  <2> HIDE DEF out
  <2> QED  BY <1>1, LeastNat
<1>3. m \in Nat /\ m + 1 \notin S /\ \A i \in 1 .. m : i \in S
  <2>1. m \in Nat /\ m + 1 \notin S
    BY <1>2
  <2>2. ASSUME NEW i \in 1 .. m PROVE i \in S
    <3>1. i - 1 \in Nat /\ ~ (m <= i - 1) /\ (i - 1) + 1 = i
      BY <2>1
    <3>2. i - 1 \notin out
      BY <1>2, <3>1
    <3> QED
      BY <3>1, <3>2
  <2> QED
    BY <2>1, <2>2
<1>4. \A i \in S : i \in 1 .. m
  <2>1. SUFFICES ASSUME NEW i \in S, ~ (i <= m) PROVE FALSE
    OBVIOUS
  <2>2. i \in Nat /\ m + 1 \in 1 .. i
    BY <1>3, <2>1
  <2> QED
    BY <1>3, <2>2
<1>5. S = 1 .. m
  BY <1>3, <1>4
<1>6. Cardinality(S) = m
  BY <1>3, <1>5, Counted
<1> QED
  BY <1>5, <1>6

\* The keywords of m agree in the keys completed for the user.
LEMMA CompletionIs ==
  ASSUME NEW c \in CursorType, NEW m \in SUBSET Param, m # {}
  PROVE  \E word \in Seq(Key), n \in Nat :
           /\ Completion(c, m) = SubSeq(word, c.icursor + 1, n)
           /\ n <= Len(word)
           /\ \A p \in m : n <= Len(Name[p]) /\ \A i \in 1 .. n : Name[p][i] = word[i]
<1> DEFINE word == Name[CHOOSE p \in m : TRUE]
           common == {i \in DOMAIN word : \A j \in 1 .. i, p \in m : KeyAt(p, j - 1) = word[j]}
           n == Cardinality(common)
<1>1. word \in Seq(Key)
  BY KindAssumption
<1>2. Len(word) \in Nat /\ DOMAIN word = 1 .. Len(word) /\ \A i \in 1 .. Len(word) : word[i] \in Key
  <2> HIDE DEF word
  <2> QED  BY <1>1, LenProperties, ElementOfSeq
<1>3. common = 1 .. n
  <2>1. common \in SUBSET (1 .. Len(word))
    BY <1>2
  <2>2. \A i \in common : \A j \in 1 .. i : j \in common
    <3> HIDE DEF word
    <3>1. SUFFICES ASSUME NEW i \in common, NEW j \in 1 .. i PROVE j \in common
      BY DEF common
    <3>2. j \in DOMAIN word /\ \A l \in 1 .. j : l \in 1 .. i
      BY <1>2
    <3> QED
      BY <3>2
  <2> HIDE DEF common, word
  <2> QED  BY <1>2, <2>1, <2>2, InitialSegment DEF n
<1>4. n \in Nat /\ n <= Len(word)
  <2>1. common \in SUBSET (1 .. Len(word))
    BY <1>2
  <2> HIDE DEF common, word
  <2>2. IsFiniteSet(1 .. Len(word)) /\ Cardinality(1 .. Len(word)) = Len(word)
    BY <1>2, Counted
  <2>3. IsFiniteSet(common) /\ n <= Len(word)
    BY <2>1, <2>2, FS_Subset
  <2> QED
    BY <2>3, FS_CardinalityType
<1>5. ASSUME NEW p \in m
      PROVE  n <= Len(Name[p]) /\ \A i \in 1 .. n : Name[p][i] = word[i]
  <2>1. Len(Name[p]) \in Nat
    BY KindAssumption, LenProperties
  <2>2. ASSUME NEW i \in 1 .. n PROVE i <= Len(Name[p]) /\ Name[p][i] = word[i]
    <3>1. i \in common
      BY <1>3
    <3>2. i \in 1 .. i /\ i \in Nat /\ i - 1 + 1 = i
      BY <1>4
    <3>3. KeyAt(p, i - 1) = word[i] /\ i \in DOMAIN word
      BY <3>1, <3>2
    <3> HIDE DEF word, n, common
    <3>4. word[i] # NUL
      BY <1>2, <3>3, KindAssumption DEF NUL
    <3> QED
      BY <2>1, <3>2, <3>3, <3>4 DEF KeyAt
  <2>3. n <= Len(Name[p])
    <3> HIDE DEF n, word, common
    <3>1. CASE n = 0
      BY <2>1, <3>1
    <3>2. CASE n # 0
      <4>1. n \in 1 .. n
        BY <1>4, <3>2
      <4> QED
        BY <2>2, <4>1
    <3> QED
      BY <3>1, <3>2
  <2> QED
    BY <2>2, <2>3
<1>6. Completion(c, m) = SubSeq(word, c.icursor + 1, n)
  BY DEF Completion
<1> HIDE DEF n, word, common
<1> QED
  BY <1>1, <1>4, <1>5, <1>6

\* A word followed by the first keys of what a keyword has beyond it.
LEMMA LongerWord ==
  ASSUME NEW w \in Seq(Key), NEW word \in Seq(Key), NEW n \in Nat, n <= Len(word),
         NEW room \in Nat
  PROVE  LET keys == FirstN(SubSeq(word, Len(w) + 1, n), room)
         IN  /\ keys \in Seq(Key) /\ w \o keys \in Seq(Key) /\ Len(keys) \in Nat
             /\ Len(w \o keys) = Len(w) + Len(keys)
             /\ \A i \in 1 .. Len(w) : (w \o keys)[i] = w[i]
             /\ \A i \in Len(w) + 1 .. Len(w) + Len(keys) :
                  i <= n /\ (w \o keys)[i] = word[i]
<1> DEFINE x == SubSeq(word, Len(w) + 1, n)
           keys == FirstN(x, room)
           l == Len(w)
<1>1. l \in Nat /\ l + 1 \in Nat \ {0} /\ n \in Int
  BY LenProperties
<1>2. /\ x \in Seq(Key)
      /\ Len(x) = IF l + 1 <= n THEN n - (l + 1) + 1 ELSE 0
      /\ \A i \in 1 .. n - (l + 1) + 1 : x[i] = word[l + 1 + i - 1]
  BY <1>1, SubSeqType
<1> HIDE DEF x, l
<1>3. Len(x) \in Nat /\ Len(keys) \in Nat /\ keys \in Seq(Key) /\ Len(keys) <= Len(x)
  BY <1>2, FirstNOK, LenProperties
<1>4. \A i \in 1 .. Len(keys) : keys[i] = x[i]
  <2>1. CASE room < Len(x)
    <3>1. keys = SubSeq(x, 1, room)
      BY <2>1 DEF FirstN
    <3>2. 1 \in Nat \ {0} /\ room \in Int /\ room <= Len(x)
      BY <1>3, <2>1
    <3>3. \A i \in 1 .. room - 1 + 1 : SubSeq(x, 1, room)[i] = x[1 + i - 1]
      BY <1>2, <3>2, SubSeqType
    <3>4. Len(keys) = room
      BY <1>2, <2>1, FirstNOK
    <3> HIDE DEF keys
    <3> QED
      BY <3>1, <3>3, <3>4
  <2>2. CASE ~ (room < Len(x))
    BY <2>2 DEF FirstN
  <2> QED
    BY <2>1, <2>2
<1> HIDE DEF keys
<1>5. /\ w \o keys \in Seq(Key) /\ Len(w \o keys) = l + Len(keys)
      /\ \A i \in 1 .. l + Len(keys) : (w \o keys)[i] = IF i <= l THEN w[i] ELSE keys[i - l]
  BY <1>3, ConcatProperties DEF l
<1>6. \A i \in 1 .. l : (w \o keys)[i] = w[i]
  BY <1>1, <1>3, <1>5
<1>7. ASSUME NEW i \in l + 1 .. l + Len(keys)
      PROVE  i <= n /\ (w \o keys)[i] = word[i]
  <2>1. i - l \in 1 .. Len(keys) /\ i - l \in 1 .. Len(x) /\ i \in 1 .. l + Len(keys) /\ ~ (i <= l)
    BY <1>1, <1>3
  <2>2. (w \o keys)[i] = x[i - l]
    BY <1>4, <1>5, <2>1
  <2>3. l + 1 <= n /\ i - l \in 1 .. n - (l + 1) + 1 /\ l + 1 + (i - l) - 1 = i
    BY <1>1, <1>2, <2>1
  <2>4. x[i - l] = word[i]
    BY <1>2, <2>3
  <2>5. i <= n
    <3>1. Len(x) = n - l /\ i - l <= Len(x)
      BY <1>1, <1>2, <2>1, <2>3
    <3> QED
      BY <1>1, <3>1
  <2> QED
    BY <2>2, <2>4, <2>5
<1> QED
  BY <1>3, <1>5, <1>6, <1>7 DEF x, keys, l

\* Every keyword that agrees with the word up to n begins with the longer one.
LEMMA BeginsLonger ==
  ASSUME NEW w \in Seq(Key), NEW word \in Seq(Key), NEW n \in Nat, n <= Len(word),
         NEW room \in Nat, NEW p \in Param, Begins(p, w), n <= Len(Name[p]),
         \A i \in 1 .. n : Name[p][i] = word[i]
  PROVE  Begins(p, w \o FirstN(SubSeq(word, Len(w) + 1, n), room))
<1> DEFINE keys == FirstN(SubSeq(word, Len(w) + 1, n), room)
           a == w \o keys
           l == Len(w)
<1>1. /\ Len(a) = l + Len(keys) /\ Len(keys) \in Nat
      /\ \A i \in 1 .. l : a[i] = w[i]
      /\ \A i \in l + 1 .. l + Len(keys) : i <= n /\ a[i] = word[i]
  BY LongerWord, ZenonT(30)
<1>2. l \in Nat /\ Len(Name[p]) \in Nat
  BY KindAssumption, LenProperties
<1>3. l <= Len(Name[p]) /\ \A i \in 1 .. l : Name[p][i] = w[i]
  BY DEF Begins
<1> HIDE DEF a, keys, l
<1>4. \A i \in 1 .. l + Len(keys) : Name[p][i] = a[i]
  <2>1. SUFFICES ASSUME NEW i \in 1 .. l + Len(keys) PROVE Name[p][i] = a[i]
    OBVIOUS
  <2>2. CASE i \in 1 .. l
    BY <1>1, <1>3, <2>2
  <2>3. CASE i \in l + 1 .. l + Len(keys)
    <3>1. i <= n /\ a[i] = word[i] /\ i \in 1 .. n
      BY <1>1, <1>2, <2>3
    <3> QED
      BY <3>1
  <2> QED
    BY <1>1, <1>2, <2>2, <2>3
<1>5. l + Len(keys) <= Len(Name[p])
  <2>1. CASE Len(keys) = 0
    BY <1>2, <1>3, <2>1
  <2>2. CASE Len(keys) # 0
    <3>1. l + Len(keys) \in l + 1 .. l + Len(keys)
      BY <1>1, <1>2, <2>2
    <3>2. l + Len(keys) <= n
      BY <1>1, <3>1
    <3> QED
      BY <1>1, <1>2, <3>2
  <2> QED
    BY <2>1, <2>2
<1> QED
  BY <1>1, <1>4, <1>5 DEF Begins, a, keys, l

LEMMA LongerLine ==
  ASSUME NEW s \in Seq(LineChar), NEW w \in Seq(Key), NEW keys \in Seq(Key)
  PROVE  (s \o w) \o keys = s \o (w \o keys)
<1>1. w \in Seq(LineChar) /\ keys \in Seq(LineChar)
  BY SeqMonotonic DEF LineChar
<1> QED
  BY <1>1, ConcatAssociative, SMTT(30)

LEMMA SpaceCompletesShown ==
  ASSUME OneKeywordBesideLeaf, ShownInv, SpaceCompletes
  PROVE  ShownStep
<1> DEFINE m == Candidates(cmdtc)
           leaf == KnownLeaf(cmdtc)
           keys == Completion(cmdtc, m)
           room == MAX_COMMAND_LENGTH - Used
           fits == FirstN(keys, room)
           listed == [cmdtc EXCEPT !.matching_params_list = m, !.leaf_param = leaf,
                                   !.cmdtc_state = "multiple_matches"]
<1>1. /\ Reading /\ Ambiguous(cmdtc) /\ keys # <<>> /\ cmdtc' = AutoTyped(listed, fits)
      /\ line' = line \o fits
  BY DEF SpaceCompletes
<1>2. PICK w \in Seq(Key) : line = Done(cmdtc) \o w /\ AtHand(cmdtc, w)
  BY <1>1, ShownBefore
<1>3. /\ Good(cmdtc) /\ cmdtc \in CursorType /\ Shape(cmdtc) /\ OptionsType
      /\ Hooked(cmdtc, options) /\ KeywordsListed(cmdtc) /\ cmdtc.icursor \in Nat
      /\ Len(w) = cmdtc.icursor /\ Done(cmdtc) \in Seq(LineChar)
  BY <1>1, <1>2, ShownBefore DEF AtHand
<1>4. room \in Nat
  BY <1>1, Before DEF ShownInv, HookInv, ModeInv
<1>5. cmdtc.cmdtc_state # "matching_leaf"
  BY <1>1 DEF Ambiguous
<1>6. m \in SUBSET Param /\ m # {} /\ leaf \in ParamOrNull
  <2>1. Cardinality(m) > 1 => m # {}
    <3>1. Cardinality({}) = 0
      BY FS_EmptySet
    <3> HIDE DEF m
    <3> QED
      BY <3>1
  <2>2. cmdtc.cmdtc_state = "multiple_matches" => m # {}
    BY <1>3 DEF Shape, Candidates, Fresh
  <2>3. m \in SUBSET Param /\ leaf \in ParamOrNull
    BY <1>3, CandidatesOK
  <2> QED
    BY <1>1, <2>1, <2>2, <2>3 DEF Ambiguous
<1>7. /\ \A p \in m : Begins(p, w)
      /\ leaf # NoParam => Apart(m)
  BY <1>2, <1>3, <1>5, CandidatesBegin, CandidatesApart
<1> HIDE DEF room
<1>8. PICK word \in Seq(Key), n \in Nat :
           /\ keys = SubSeq(word, cmdtc.icursor + 1, n)
           /\ n <= Len(word)
           /\ \A p \in m : n <= Len(Name[p]) /\ \A i \in 1 .. n : Name[p][i] = word[i]
  <2> HIDE DEF m
  <2> QED
    BY <1>3, <1>6, CompletionIs
<1>9. n >= 1
  <2>1. n < cmdtc.icursor + 1 => keys = <<>>
    <3>1. cmdtc.icursor + 1 \in Int /\ n \in Int
      BY <1>3, <1>8
    <3> HIDE DEF keys
    <3> QED
      BY <1>8, <3>1, SubSeqEmpty
  <2> QED
    BY <1>1, <1>3, <1>8, <2>1
<1>10. leaf = NoParam
  <2>1. SUFFICES ASSUME leaf # NoParam PROVE FALSE
    OBVIOUS
  <2>2. cmdtc.cmdtc_state # "multiple_matches"
    BY <1>2, <1>3, <2>1 DEF AtHand, KnownLeaf, Fresh, Shape
  <2>3. Cardinality(m) > 1 /\ Apart(m)
    BY <1>1, <1>7, <2>1, <2>2 DEF Ambiguous
  <2> HIDE DEF m, leaf, keys
  <2>4. \A p \in m : KeyAt(p, 0) = word[1]
    <3>1. SUFFICES ASSUME NEW p \in m PROVE KeyAt(p, 0) = word[1]
      OBVIOUS
    <3>2. n <= Len(Name[p]) /\ \A i \in 1 .. n : Name[p][i] = word[i]
      BY <1>8
    <3>3. Len(Name[p]) \in Nat /\ 1 \in 1 .. n
      <4>1. Name[p] \in Seq(Key)
        BY <1>6, KindAssumption
      <4> QED
        BY <1>8, <1>9, <4>1, LenProperties
    <3> QED
      BY <1>9, <3>2, <3>3 DEF KeyAt
  <2>5. \A p, q \in m : p = q
    BY <2>3, <2>4 DEF Apart
  <2>6. PICK p \in m : TRUE
    BY <1>6
  <2>7. m = {p}
    BY <2>5, <2>6
  <2>8. Cardinality({p}) = 1
    BY FS_Singleton
  <2> QED
    BY <2>3, <2>7, <2>8
<1> DEFINE a == w \o fits
<1>11. /\ fits \in Seq(Key) /\ a \in Seq(Key) /\ Len(a) = cmdtc.icursor + Len(fits)
       /\ \A p \in m : Begins(p, a)
  <2> HIDE DEF m
  <2>1. fits = FirstN(SubSeq(word, Len(w) + 1, n), room)
    BY <1>3, <1>8
  <2> HIDE DEF keys, fits
  <2>2. fits \in Seq(Key) /\ a \in Seq(Key) /\ Len(a) = Len(w) + Len(fits)
    BY <1>4, <1>8, <2>1, LongerWord
  <2>3. ASSUME NEW p \in m PROVE Begins(p, a)
    <3>1. /\ p \in Param /\ Begins(p, w) /\ n <= Len(Name[p])
          /\ \A i \in 1 .. n : Name[p][i] = word[i]
      BY <1>6, <1>7, <1>8
    <3> QED
      BY <1>4, <1>8, <2>1, <3>1, BeginsLonger
  <2> QED
    BY <1>3, <2>2, <2>3
<1> HIDE DEF m, leaf, keys, fits
<1>12. /\ listed \in CursorType /\ listed.icursor = cmdtc.icursor
       /\ listed.params_stack = cmdtc.params_stack /\ listed.tlv_stack = cmdtc.tlv_stack
       /\ listed.stack_checkpoint = cmdtc.stack_checkpoint
       /\ listed.matching_params_list = m /\ listed.cmdtc_state = "multiple_matches"
       /\ listed.leaf_param = leaf
  BY <1>3, <1>6 DEF CursorType
<1> HIDE DEF listed
<1>13. /\ cmdtc'.icursor = cmdtc.icursor + Len(fits)
       /\ cmdtc'.params_stack = cmdtc.params_stack /\ cmdtc'.tlv_stack = cmdtc.tlv_stack
       /\ cmdtc'.stack_checkpoint = cmdtc.stack_checkpoint
       /\ cmdtc'.matching_params_list = m /\ cmdtc'.cmdtc_state = "multiple_matches"
       /\ cmdtc'.leaf_param = leaf
  BY <1>1, <1>11, <1>12, AutoTypedOK, SMTT(30)
<1>14. AtHand(cmdtc', a)
  <2> HIDE DEF a
  <2> QED
    BY <1>10, <1>11, <1>13 DEF AtHand
<1>15. line' = Done(cmdtc) \o a
  BY <1>1, <1>2, <1>3, <1>11, LongerLine
<1>16. Done(cmdtc') = Done(cmdtc)
  BY <1>13, DoneSame
<1> HIDE DEF a
<1> QED
  BY <1>11, <1>14, <1>15, <1>16 DEF ShownStep, Shown

\* The word that is accepted begins with what is typed, and is its value.
LEMMA AcceptedWord ==
  ASSUME NEW c, Good(c), OptionsType, KeywordsListed(c),
         NEW w \in Seq(Key), AtHand(c, w), NEW p \in OneWord(c)
  PROVE  /\ p \in Param /\ Missing(c, p) \in Seq(Key)
         /\ ~IsLeaf(p) => c.cmdtc_state # "matching_leaf" /\ Begins(p, w)
         /\ Tlv(p, c.curr_leaf_value).value = w \o Missing(c, p)
<1>1. /\ c \in CursorType /\ Shape(c) /\ c.icursor \in Nat /\ Len(w) = c.icursor
      /\ c.cmdtc_state \in {"init", "multiple_matches", "single_word_match", "matching_leaf"}
      /\ c.curr_param \in Param
  <2>1. c \in CursorType /\ Shape(c) /\ c.icursor \in Nat /\ Len(w) = c.icursor
    BY Stacks DEF AtHand
  <2> QED
    BY <2>1 DEF CursorType
<1>2. p \in Param /\ Missing(c, p) \in Seq(Key) /\ (IsLeaf(p) => c.cmdtc_state = "matching_leaf")
  BY WordIsTyped
<1>3. CASE IsLeaf(p)
  <2>1. c.curr_leaf_value = w
    <3>1. c.cmdtc_state # "init" /\ c.leaf_param # NoParam
      BY <1>1, <1>2, <1>3, TreeFacts DEF Shape
    <3> QED
      BY <3>1 DEF AtHand
  <2>2. CStr(w) = w
    <3>1. \A i \in DOMAIN w : w[i] # NUL
      <4>1. DOMAIN w = 1 .. Len(w) /\ \A i \in 1 .. Len(w) : w[i] \in Key
        BY LenProperties, ElementOfSeq
      <4> QED
        BY <4>1, KindAssumption DEF NUL
    <3>2. {i \in DOMAIN w : w[i] = NUL} = {}
      BY <3>1
    <3> QED
      BY <3>2 DEF CStr
  <2>3. Missing(c, p) = <<>>
    BY <1>3 DEF Missing
  <2>4. w \o <<>> = w
    BY ConcatEmptySeq
  <2>5. Tlv(p, c.curr_leaf_value).value = CStr(c.curr_leaf_value)
    BY <1>3 DEF Tlv
  <2> QED
    BY <1>2, <1>3, <2>1, <2>2, <2>3, <2>4, <2>5
<1>4. CASE ~IsLeaf(p)
  <2>1. c.cmdtc_state # "matching_leaf"
    <3>1. c.cmdtc_state = "matching_leaf" => p = c.curr_param /\ c.curr_param = c.leaf_param
      BY <1>1 DEF OneWord, Shape
    <3>2. c.cmdtc_state = "matching_leaf" => IsLeaf(p)
      BY <1>1, <3>1, TreeFacts DEF Shape
    <3> QED
      BY <1>4, <3>2
  <2>2. p \in Candidates(c) \/ p \in c.matching_params_list
    BY <1>1, <2>1 DEF OneWord, Exact, Shape
  <2>3. Begins(p, w)
    BY <2>1, <2>2, CandidatesBegin DEF AtHand
  <2> DEFINE name == Name[p]
             rest == SubSeq(name, Len(w) + 1, Len(name))
  <2>4. name \in Seq(Key) /\ Len(name) \in Nat /\ Len(w) \in Nat /\ Len(w) <= Len(name)
    BY <1>1, <1>2, <2>3, KindAssumption, LenProperties DEF Begins
  <2>5. w = SubSeq(name, 1, Len(w))
    <3>1. CASE Len(w) = 0
      <4>1. w = <<>>
        BY <3>1, EmptySeq
      <4>2. 1 \in Int /\ 0 \in Int /\ 0 < 1
        OBVIOUS
      <4>3. SubSeq(name, 1, 0) = <<>>
        BY <4>2, SubSeqEmpty
      <4> HIDE DEF name
      <4> QED
        BY <3>1, <4>1, <4>3
    <3>2. CASE Len(w) # 0
      <4>1. Len(w) \in 1 .. Len(name)
        BY <2>4, <3>2
      <4>2. \A i \in 1 .. Len(w) : name[i] = w[i]
        BY <2>3 DEF Begins
      <4> HIDE DEF name
      <4>3. /\ SubSeq(name, 1, Len(w)) \in Seq(Key) /\ Len(SubSeq(name, 1, Len(w))) = Len(w)
            /\ \A i \in 1 .. Len(w) : SubSeq(name, 1, Len(w))[i] = name[i]
        BY <2>4, <4>1, SubSeqIs
      <4> DEFINE x == SubSeq(name, 1, Len(w))
      <4>4. x \in Seq(Key) /\ Len(x) = Len(w) /\ \A i \in 1 .. Len(w) : x[i] = w[i]
        BY <4>2, <4>3
      <4> HIDE DEF x
      <4>5. x = w
        BY <4>4, SeqEqual
      <4> QED
        BY <4>5 DEF x
    <3> QED
      BY <3>1, <3>2
  <2>6. SubSeq(name, 1, Len(w)) \o rest = SubSeq(name, 1, Len(name))
    <3>1. 1 \in 1 .. Len(name) + 1 /\ Len(w) \in 1 - 1 .. Len(name) /\ Len(name) \in Len(w) .. Len(name)
      BY <2>4
    <3> HIDE DEF name
    <3> QED
      BY <2>4, <3>1, ConcatAdjacentSubSeq
  <2>7. SubSeq(name, 1, Len(name)) = name
    <3> HIDE DEF name
    <3> QED
      BY <2>4, SubSeqFull
  <2>8. Missing(c, p) = rest /\ Tlv(p, c.curr_leaf_value).value = name
    BY <1>1, <1>4 DEF Missing, Tlv
  <2> HIDE DEF rest, name
  <2> QED
    BY <1>2, <1>4, <2>1, <2>3, <2>5, <2>6, <2>7, <2>8
<1> QED
  BY <1>3, <1>4

\* A cursor between two words.
LEMMA WordsShown ==
  ASSUME NEW c, Good(c), c.icursor = 0, c.matching_params_list = {}
  PROVE  Shown(c, Done(c))
<1>1. Done(c) \in Seq(LineChar)
  BY DoneOK
<1>2. <<>> \in Seq(Key) /\ Len(<<>>) = 0
  BY EmptySeq
<1>3. Done(c) \o <<>> = Done(c)
  BY <1>1, ConcatEmptySeq
<1>4. c.cmdtc_state = "init"
  BY Stacks DEF Shape
<1>5. AtHand(c, <<>>)
  BY <1>2, <1>4 DEF AtHand, Apart
<1> QED
  BY <1>2, <1>3, <1>5 DEF Shown

\* The word is pushed and its space is typed.
LEMMA DonePushed ==
  ASSUME NEW c, Good(c), NEW p \in Param, c.is_negate => ~IsNo(p),
         NEW w \in Seq(Key), NEW keys \in Seq(Key),
         Tlv(p, c.curr_leaf_value).value = w \o keys
  PROVE  Done(Pushed(c, p)) = (Done(c) \o w) \o keys \o <<Blank>>
<1> DEFINE d == Pushed(c, p)
           l == Len(c.params_stack)
           tlv == Tlv(p, c.curr_leaf_value)
           v == w \o keys
<1>1. /\ Good(d) /\ d.stack_checkpoint = c.stack_checkpoint
      /\ d.params_stack = Append(c.params_stack, p) /\ d.tlv_stack = Append(c.tlv_stack, tlv)
  BY PushedOK, PushedTlv
<1>2. /\ l \in Nat \ {0} /\ c.stack_checkpoint \in Nat /\ c.stack_checkpoint + 1 \in 1 .. l
      /\ c.params_stack \in Seq(Param) /\ c.tlv_stack \in Seq(TlvType) /\ Len(c.tlv_stack) = l
      /\ tlv \in TlvType
  BY Stacks, TlvTyped DEF CursorType, Char
<1> HIDE DEF d, tlv
<1>3. /\ Len(d.params_stack) = l + 1 /\ d.tlv_stack[l + 1] = tlv
      /\ \A i \in 1 .. l : d.tlv_stack[i] = c.tlv_stack[i]
  BY <1>1, <1>2, AppendProperties, SMTT(30)
<1>4. Done(d) = AndWord(Done(c), d.tlv_stack[l + 1].value, Blank)
  <2>1. /\ Len(d.params_stack) > d.stack_checkpoint + 1
        /\ Len(c.params_stack) = Len(d.params_stack) - 1
        /\ \A i \in 1 .. Len(d.params_stack) - 1 : c.tlv_stack[i] = d.tlv_stack[i]
    BY <1>1, <1>2, <1>3
  <2>2. Done(d) = AndWord(Done(c), d.tlv_stack[Len(d.params_stack)].value, Blank)
    BY <1>1, <2>1, DoneMore
  <2> QED
    BY <1>3, <2>2
<1>5. tlv.value = v
  BY DEF tlv
<1>6. v \in Seq(Key) /\ v \in Seq(LineChar) /\ keys \in Seq(LineChar) /\ w \in Seq(LineChar)
      /\ Done(c) \in Seq(LineChar) /\ Blank \in LineChar /\ <<Blank>> \in Seq(LineChar)
  <2>1. v \in Seq(Key)
    BY ConcatProperties
  <2>2. Blank \in LineChar
    BY DEF LineChar, Blank
  <2>3. Key \subseteq LineChar
    BY DEF LineChar
  <2> HIDE DEF v
  <2>4. v \in Seq(LineChar) /\ keys \in Seq(LineChar) /\ w \in Seq(LineChar)
    BY <2>1, <2>3, SeqMonotonic
  <2> QED
    BY <2>1, <2>2, <2>4, DoneOK
<1>7. (Done(c) \o w) \o keys \o <<Blank>> = Done(d)
  <2>1. (Done(c) \o w) \o keys = Done(c) \o v
    BY <1>6, ConcatAssociative, SMTT(30)
  <2>2. (Done(c) \o v) \o <<Blank>> = Done(c) \o (v \o <<Blank>>)
    <3> HIDE DEF v
    <3> QED
      BY <1>6, ConcatAssociative, SMTT(30)
  <2>3. Append(v, Blank) = v \o <<Blank>>
    <3> HIDE DEF v
    <3> QED
      BY <1>6, AppendIsConcat
  <2>4. Done(d) = Done(c) \o Append(v, Blank)
    BY <1>3, <1>4, <1>5 DEF AndWord
  <2> HIDE DEF v
  <2> QED
    BY <2>1, <2>2, <2>3, <2>4
<1> QED
  BY <1>7 DEF d

LEMMA PushedShown ==
  ASSUME NEW c, Good(c), NEW p \in Param, c.is_negate => ~IsNo(p),
         NEW w \in Seq(Key), NEW keys \in Seq(Key),
         Tlv(p, c.curr_leaf_value).value = w \o keys
  PROVE  Shown(Pushed(c, p), (Done(c) \o w) \o keys \o <<Blank>>)
<1>1. /\ Good(Pushed(c, p)) /\ Pushed(c, p).icursor = 0
      /\ Pushed(c, p).matching_params_list = {}
  BY PushedOK, PushedTlv
<1>2. Shown(Pushed(c, p), Done(Pushed(c, p)))
  BY <1>1, WordsShown
<1> QED
  BY <1>2, DonePushed

LEMMA AfterSpaceIs ==
  ASSUME NEW c, NEW p, status = "running"
  PROVE  AfterSpace(c, p) \in {"aborted", "corrupt", "running"}
BY DEF AfterSpace, AfterPush

LEMMA SpaceAcceptsShown ==
  ASSUME ShownInv, SpaceAccepts
  PROVE  ShownStep
<1>1. Reading
  BY DEF SpaceAccepts
<1>2. PICK p \in OneWord(cmdtc) :
        cmdtc' = Pushed(cmdtc, p) /\ line' = line \o Missing(cmdtc, p) \o <<" ">>
  BY DEF SpaceAccepts
<1>3. PICK w \in Seq(Key) : line = Done(cmdtc) \o w /\ AtHand(cmdtc, w)
  BY <1>1, ShownBefore
<1>4. /\ p \in Param /\ Missing(cmdtc, p) \in Seq(Key)
      /\ Tlv(p, cmdtc.curr_leaf_value).value = w \o Missing(cmdtc, p)
      /\ cmdtc.is_negate => ~IsNo(p)
  BY <1>1, <1>3, ShownBefore, AcceptedWord, OneWordOK
<1>5. Shown(Pushed(cmdtc, p), (Done(cmdtc) \o w) \o Missing(cmdtc, p) \o <<Blank>>)
  BY <1>1, <1>4, ShownBefore, PushedShown
<1> QED
  BY <1>2, <1>3, <1>5 DEF ShownStep, Blank

LEMMA LineLength == MAX_COMMAND_LENGTH \in Nat
BY LineAssumption

LEMMA AutoCompletionSpinsShown ==
  ASSUME ShownInv, AutoCompletionSpins
  PROVE  ShownStep
<1> DEFINE room == MAX_COMMAND_LENGTH - Used
           leaf == KnownLeaf(cmdtc)
<1>1. Reading
  BY DEF AutoCompletionSpins
<1>2. PICK p \in OneWord(cmdtc) :
        LET fits == FirstN(Missing(cmdtc, p), room) IN
        /\ ~Fits(Missing(cmdtc, p))
        /\ cmdtc' = AutoTyped([cmdtc EXCEPT !.curr_param = p,
                                            !.matching_params_list = {p},
                                            !.leaf_param = leaf,
                                            !.cmdtc_state = "single_word_match"], fits)
        /\ line' = line \o fits
  BY DEF AutoCompletionSpins
<1>3. PICK w \in Seq(Key) : line = Done(cmdtc) \o w /\ AtHand(cmdtc, w)
  BY <1>1, ShownBefore
<1>4. /\ Good(cmdtc) /\ cmdtc \in CursorType /\ Shape(cmdtc) /\ OptionsType
      /\ KeywordsListed(cmdtc) /\ cmdtc.icursor \in Nat
      /\ Len(w) = cmdtc.icursor /\ Done(cmdtc) \in Seq(LineChar)
  BY <1>1, <1>3, ShownBefore DEF AtHand
<1>5. p \in Param /\ (~IsLeaf(p) => Begins(p, w)) /\ leaf \in ParamOrNull
  BY <1>3, <1>4, AcceptedWord, CandidatesOK
<1>6. room \in Nat \ {0}
  BY <1>1, Before DEF ShownInv, HookInv, ModeInv
<1>7. ~IsLeaf(p)
  <2>1. IsLeaf(p) => Len(Missing(cmdtc, p)) = 0
    BY DEF Missing
  <2>2. Used < MAX_COMMAND_LENGTH
    BY <1>1 DEF Reading
  <2>3. Used \in Nat /\ MAX_COMMAND_LENGTH \in Nat
    <3>1. Len(hdr) \in Nat /\ Len(line) \in Nat
      BY <1>1, Before DEF ShownInv, HookInv, ModeInv
    <3> QED
      BY <3>1, LineLength DEF Used
  <2> QED
    BY <1>2, <2>1, <2>2, <2>3 DEF Fits
<1> DEFINE fits == FirstN(Missing(cmdtc, p), room)
           listed == [cmdtc EXCEPT !.curr_param = p, !.matching_params_list = {p},
                                   !.leaf_param = leaf, !.cmdtc_state = "single_word_match"]
           a == w \o fits
           v == Save(listed, leaf, fits)
<1>8. cmdtc' = AutoTyped(listed, fits) /\ line' = line \o fits
  BY <1>2
<1> HIDE DEF room
<1>9. fits \in Seq(Key) /\ a \in Seq(Key) /\ Len(a) = cmdtc.icursor + Len(fits) /\ Begins(p, a)
  <2> DEFINE word == Name[p]
             n == Len(word)
  <2>1. word \in Seq(Key) /\ n \in Nat /\ n <= Len(word) /\ Begins(p, w)
    <3>1. word \in Seq(Key)
      BY <1>5, KindAssumption
    <3> HIDE DEF word
    <3> QED
      BY <1>5, <1>7, <3>1, LenProperties
  <2>2. fits = FirstN(SubSeq(word, Len(w) + 1, n), room)
    BY <1>4, <1>7 DEF Missing
  <2>3. n <= Len(Name[p]) /\ \A i \in 1 .. n : Name[p][i] = word[i]
    BY <2>1
  <2> HIDE DEF word, n, fits
  <2>4. fits \in Seq(Key) /\ a \in Seq(Key) /\ Len(a) = Len(w) + Len(fits)
    BY <1>6, <2>1, <2>2, LongerWord, ZenonT(30)
  <2>5. Begins(p, a)
    BY <1>5, <1>6, <2>1, <2>2, <2>3, BeginsLonger
  <2> QED
    BY <1>4, <2>4, <2>5
<1>10. leaf # NoParam => SaveAt(cmdtc.curr_leaf_value, cmdtc.icursor, fits) = a
  <2> HIDE DEF fits
  <2> QED
    BY <1>3, <1>4, <1>9, SavedIs
<1> HIDE DEF leaf, fits
<1>11. /\ listed \in CursorType /\ listed.icursor = cmdtc.icursor
       /\ listed.params_stack = cmdtc.params_stack /\ listed.tlv_stack = cmdtc.tlv_stack
       /\ listed.stack_checkpoint = cmdtc.stack_checkpoint
       /\ listed.matching_params_list = {p} /\ listed.cmdtc_state = "single_word_match"
       /\ listed.leaf_param = leaf /\ listed.curr_leaf_value = cmdtc.curr_leaf_value
  BY <1>4, <1>5 DEF CursorType
<1>12. leaf # NoParam => v = a
  BY <1>10, <1>11 DEF Save
<1> HIDE DEF listed, v
<1>13. /\ cmdtc'.icursor = cmdtc.icursor + Len(fits)
       /\ cmdtc'.params_stack = cmdtc.params_stack /\ cmdtc'.tlv_stack = cmdtc.tlv_stack
       /\ cmdtc'.stack_checkpoint = cmdtc.stack_checkpoint
       /\ cmdtc'.matching_params_list = {p} /\ cmdtc'.cmdtc_state = "single_word_match"
       /\ cmdtc'.leaf_param = leaf
  BY <1>8, <1>9, <1>11, AutoTypedOK
<1>14. cmdtc'.curr_leaf_value = v
  <2>1. cmdtc' = [listed EXCEPT !.icursor = @ + Len(fits), !.curr_leaf_value = v]
    BY <1>8, <1>11 DEF AutoTyped, v
  <2>2. "curr_leaf_value" \in DOMAIN listed
    BY <1>11 DEF CursorType
  <2> QED
    BY <2>1, <2>2
<1>15. AtHand(cmdtc', a)
  <2> HIDE DEF a
  <2> QED
    BY <1>9, <1>12, <1>13, <1>14 DEF AtHand, Apart
<1>16. line' = Done(cmdtc) \o a
  BY <1>3, <1>4, <1>8, <1>9, LongerLine
<1>17. Done(cmdtc') = Done(cmdtc)
  BY <1>13, DoneSame
<1> HIDE DEF a
<1> QED
  BY <1>9, <1>15, <1>16, <1>17 DEF ShownStep, Shown

LEMMA ResetShown ==
  ASSUME NEW c, Good(c)
  PROVE  Shown(Reset(c), <<>>)
<1> DEFINE d == Reset(c)
<1>1. Good(d) /\ d.icursor = 0 /\ d.leaf_param = NoParam
      /\ d.params_stack = SubSeq(c.params_stack, 1, c.stack_checkpoint + 1)
      /\ d.stack_checkpoint = c.stack_checkpoint
  BY ResetOK, ResetIs
<1>2. Len(d.params_stack) = d.stack_checkpoint + 1
  <2>1. c.params_stack \in Seq(Param) /\ c.stack_checkpoint + 1 \in 1 .. Len(c.params_stack)
    BY Stacks
  <2> HIDE DEF d
  <2> QED
    BY <1>1, <2>1, SubSeqIs
<1> HIDE DEF d
<1>3. Shown(d, <<>>)
  BY <1>1, <1>2, NothingShown
<1> QED
  BY <1>3 DEF d

LEMMA ReturnsShown ==
  ASSUME ShownInv, ReturnCommand \/ ReturnWord \/ ReturnReject \/ RunMode
  PROVE  ShownStep
<1>1. Reading /\ line' = <<>>
  BY DEF ReturnCommand, ReturnWord, ReturnReject, RunMode
<1>2. Good(cmdtc) /\ OptionsType /\ status = "running"
  BY <1>1, ShownBefore
<1>3. CASE ReturnCommand \/ ReturnReject \/ RunMode
  <2>1. cmdtc' = Reset(cmdtc)
    BY <1>3 DEF ReturnCommand, ReturnReject, RunMode, Submit
  <2> QED
    BY <1>1, <1>2, <2>1, ResetShown DEF ShownStep
<1>4. CASE ReturnWord
  <2>1. PICK p \in OneWord(cmdtc) :
          IF AfterSpace(cmdtc, p) = status
          THEN Submit(Pushed(cmdtc, p), hdr)
          ELSE status' = AfterSpace(cmdtc, p)
    BY <1>4 DEF ReturnWord
  <2>2. CASE AfterSpace(cmdtc, p) = status
    <3>1. p \in Param /\ (cmdtc.is_negate => ~IsNo(p))
      BY <1>2, OneWordOK
    <3>2. Good(Pushed(cmdtc, p))
      BY <1>2, <3>1, PushedOK
    <3>3. cmdtc' = Reset(Pushed(cmdtc, p))
      BY <2>1, <2>2 DEF Submit
    <3> QED
      BY <1>1, <3>2, <3>3, ResetShown DEF ShownStep
  <2>3. CASE AfterSpace(cmdtc, p) # status
    <3>1. status' \in {"aborted", "corrupt"}
      BY <1>2, <2>1, <2>3, AfterSpaceIs
    <3> QED
      BY <3>1 DEF ShownStep
  <2> QED
    BY <2>2, <2>3
<1> QED
  BY <1>3, <1>4

LEMMA PopIs ==
  ASSUME NEW T, NEW s \in Seq(T), NEW t \in Seq(T)
  PROVE  PopN(s \o t, Len(t)) = s
<1>1. /\ Len(s) \in Nat /\ Len(t) \in Nat /\ Len(s \o t) = Len(s) + Len(t)
  BY ConcatProperties, LenProperties
<1>2. PopN(s \o t, Len(t)) = SubSeq(s \o t, 1, Len(s))
  <2>1. Len(s \o t) - Len(t) = Len(s)
    BY <1>1
  <2> QED
    BY <2>1 DEF PopN
<1>3. CASE Len(s) = 0
  <2>1. s = <<>>
    BY <1>3, EmptySeq
  <2>2. 1 \in Int /\ 0 \in Int /\ 0 < 1
    OBVIOUS
  <2>3. SubSeq(s \o t, 1, 0) = <<>>
    BY <2>2, SubSeqEmpty
  <2> QED
    BY <1>2, <1>3, <2>1, <2>3
<1>4. CASE Len(s) # 0
  <2>1. 1 \in 1 .. Len(s) /\ Len(s) \in 1 .. Len(s)
    BY <1>1, <1>4
  <2>2. SubSeq(s \o t, 1, Len(s)) = SubSeq(s, 1, Len(s))
    BY <2>1, SubSeqOfConcat1
  <2> QED
    BY <1>2, <2>2, SubSeqFull
<1> QED
  BY <1>3, <1>4

LEMMA PopOne ==
  ASSUME NEW T, NEW s \in Seq(T), NEW e \in T
  PROVE  SubSeq(s \o <<e>>, 1, Len(s \o <<e>>) - 1) = s
<1>1. <<e>> \in Seq(T) /\ Len(<<e>>) = 1
  OBVIOUS
<1>2. PopN(s \o <<e>>, 1) = s
  BY <1>1, PopIs
<1> QED
  BY <1>2 DEF PopN

LEMMA EraseCharShown ==
  ASSUME ShownInv, EraseChar
  PROVE  ShownStep
<1> DEFINE v == SubSeq(cmdtc.curr_leaf_value, 1, cmdtc.icursor - 1)
           c == [cmdtc EXCEPT !.icursor = cmdtc.icursor - 1, !.curr_leaf_value = v]
           last == Last(cmdtc.params_stack)
           f == [Between(cmdtc) EXCEPT !.curr_param = last, !.curr_leaf_value = v]
<1>1. /\ Reading /\ cmdtc.cmdtc_state = "matching_leaf" /\ line' = Front(line)
      /\ cmdtc' = IF c.icursor > 0 THEN c
                  ELSE [Between(c) EXCEPT !.curr_param = Last(c.params_stack)]
  BY DEF EraseChar
<1>2. PICK w \in Seq(Key) : line = Done(cmdtc) \o w /\ AtHand(cmdtc, w)
  BY <1>1, ShownBefore
<1>3. /\ Good(cmdtc) /\ cmdtc \in CursorType /\ Shape(cmdtc)
      /\ cmdtc.icursor \in Nat /\ Len(w) = cmdtc.icursor /\ Done(cmdtc) \in Seq(LineChar)
  BY <1>1, <1>2, ShownBefore DEF AtHand
<1>4. cmdtc.icursor # 0 /\ cmdtc.leaf_param # NoParam /\ cmdtc.curr_leaf_value = w
  <2>1. cmdtc.icursor # 0 /\ cmdtc.leaf_param = cmdtc.curr_param /\ cmdtc.curr_param \in Param
    BY <1>1, <1>3 DEF Shape, CursorType
  <2> QED
    BY <1>1, <1>2, <2>1, TreeFacts DEF AtHand
<1>5. PICK b \in Seq(Key), e \in Key : w = b \o <<e>>
  <2>1. w # <<>>
    BY <1>3, <1>4
  <2>2. PICK b \in Seq(Key), e \in Key : w = Append(b, e)
    BY <2>1, SequenceEmptyOrAppend
  <2> QED
    BY <2>2, AppendIsConcat
<1>6. v = b /\ Len(b) = cmdtc.icursor - 1 /\ Len(b) \in Nat
  <2>1. SubSeq(w, 1, Len(w) - 1) = b
    BY <1>5, PopOne
  <2>2. <<e>> \in Seq(Key) /\ Len(<<e>>) = 1
    OBVIOUS
  <2>3. Len(w) = Len(b) + 1 /\ Len(b) \in Nat
    BY <1>5, <2>2, ConcatProperties, LenProperties
  <2> QED
    BY <1>3, <1>4, <2>1, <2>3
<1>6a. Len(b) # 0 => Len(b) > 0
  BY LenProperties
<1>7. line' = Done(cmdtc) \o b
  <2>1. <<e>> \in Seq(Key) /\ e \in LineChar /\ b \in Seq(LineChar)
    <3>1. <<e>> \in Seq(Key)
      OBVIOUS
    <3>2. e \in LineChar /\ b \in Seq(LineChar)
      BY SeqMonotonic DEF LineChar
    <3> QED
      BY <3>1, <3>2
  <2> DEFINE s == Done(cmdtc) \o b
  <2>2. line = s \o <<e>> /\ s \in Seq(LineChar)
    BY <1>2, <1>3, <1>5, <2>1, LongerLine, ConcatProperties
  <2> HIDE DEF s
  <2>3. SubSeq(line, 1, Len(line) - 1) = s
    BY <2>1, <2>2, PopOne
  <2> QED
    BY <1>1, <2>3 DEF Front, s
<1> HIDE DEF v, last
<1>8. CASE Len(b) # 0
  <2>1. /\ c.icursor = Len(b) /\ c.curr_leaf_value = b /\ c.cmdtc_state = "matching_leaf"
        /\ c.params_stack = cmdtc.params_stack /\ c.tlv_stack = cmdtc.tlv_stack
        /\ c.stack_checkpoint = cmdtc.stack_checkpoint
    BY <1>1, <1>3, <1>6 DEF CursorType
  <2> HIDE DEF c
  <2>2. cmdtc' = c
    <3>1. Len(b) > 0
      BY <1>6a, <1>8
    <3>2. c.icursor > 0
      BY <2>1, <3>1
    <3> QED
      BY <1>1, <3>2
  <2>3. AtHand(cmdtc', b) /\ Done(cmdtc') = Done(cmdtc)
    BY <2>1, <2>2, DoneSame DEF AtHand
  <2> QED
    BY <1>7, <2>3 DEF ShownStep, Shown
<1>9. CASE Len(b) = 0
  <2>1. [Between(c) EXCEPT !.curr_param = Last(c.params_stack)] = f
    BY <1>3 DEF Between, CursorType, last
  <2>2. c.icursor = 0
    BY <1>3, <1>6, <1>9 DEF CursorType
  <2> HIDE DEF c
  <2>3. cmdtc' = f
    BY <1>1, <2>1, <2>2
  <2>4. /\ f.params_stack = cmdtc.params_stack /\ f.tlv_stack = cmdtc.tlv_stack
        /\ f.stack_checkpoint = cmdtc.stack_checkpoint /\ f.icursor = 0
        /\ f.matching_params_list = {} /\ f.cmdtc_state = "init"
    BY <1>3, BetweenIs
  <2> HIDE DEF f
  <2>5. AtHand(cmdtc', b) /\ Done(cmdtc') = Done(cmdtc)
    BY <1>9, <2>3, <2>4, DoneSame DEF AtHand, Apart
  <2> QED
    BY <1>7, <2>5 DEF ShownStep, Shown
<1> QED
  BY <1>8, <1>9

LEMMA EraseWordShown ==
  ASSUME ShownInv, EraseWord
  PROVE  ShownStep
<1> DEFINE v == IF cmdtc.leaf_param = NoParam THEN cmdtc.curr_leaf_value ELSE <<>>
           last == Last(cmdtc.params_stack)
           f == [Between(cmdtc) EXCEPT !.curr_param = last, !.curr_leaf_value = v]
<1>1. Reading /\ cmdtc' = f /\ line' = PopN(line, cmdtc.icursor)
  BY DEF EraseWord, Between
<1>2. PICK w \in Seq(Key) : line = Done(cmdtc) \o w /\ AtHand(cmdtc, w)
  BY <1>1, ShownBefore
<1>3. /\ cmdtc \in CursorType /\ Len(w) = cmdtc.icursor /\ Done(cmdtc) \in Seq(LineChar)
  BY <1>1, <1>2, ShownBefore DEF AtHand
<1> HIDE DEF v, last
<1>4. /\ f.params_stack = cmdtc.params_stack /\ f.tlv_stack = cmdtc.tlv_stack
      /\ f.stack_checkpoint = cmdtc.stack_checkpoint /\ f.icursor = 0
      /\ f.matching_params_list = {} /\ f.cmdtc_state = "init"
  BY <1>3, BetweenIs
<1> HIDE DEF f
<1>5. line' = Done(cmdtc)
  <2>1. w \in Seq(LineChar)
    BY SeqMonotonic DEF LineChar
  <2> QED
    BY <1>1, <1>2, <1>3, <2>1, PopIs
<1>6. <<>> \in Seq(Key) /\ Len(<<>>) = 0
  BY EmptySeq
<1>7. AtHand(cmdtc', <<>>) /\ Done(cmdtc') = Done(cmdtc)
  BY <1>1, <1>4, <1>6, DoneSame DEF AtHand, Apart
<1>8. Done(cmdtc) \o <<>> = Done(cmdtc)
  BY <1>3, ConcatEmptySeq
<1> QED
  BY <1>5, <1>6, <1>7, <1>8 DEF ShownStep, Shown

LEMMA EraseLevelShown ==
  ASSUME ShownInv, EraseLevel
  PROVE  ShownStep
<1> DEFINE d == LevelUp(cmdtc)
           l == Len(cmdtc.params_stack)
           v == cmdtc.tlv_stack[l].value
<1>1. /\ Reading /\ cmdtc.cmdtc_state = "init" /\ cmdtc' = d
      /\ Top(cmdtc.params_stack) # cmdtc.stack_checkpoint
      /\ line' = PopN(line, TopWord(cmdtc) + 1)
  BY DEF EraseLevel
<1>2. PICK w \in Seq(Key) : line = Done(cmdtc) \o w /\ AtHand(cmdtc, w)
  BY <1>1, ShownBefore
<1>3. /\ Good(cmdtc) /\ cmdtc \in CursorType /\ Placed(cmdtc) /\ Shape(cmdtc)
      /\ Done(cmdtc) \in Seq(LineChar)
      /\ l \in Nat /\ cmdtc.stack_checkpoint \in Nat /\ cmdtc.stack_checkpoint + 1 \in 1 .. l
      /\ Len(cmdtc.tlv_stack) = l /\ cmdtc.tlv_stack \in Seq(TlvType)
      /\ DOMAIN cmdtc.params_stack = 1 .. l /\ cmdtc.params_stack \in Seq(Param)
  BY <1>1, ShownBefore, Stacks
<1>4. l > cmdtc.stack_checkpoint + 1 /\ l > 1 /\ l \in 1 .. l /\ l - 1 \in 1 .. l
  BY <1>1, <1>3, SMTT(30) DEF Top
<1>5. /\ Good(d) /\ d.icursor = 0 /\ d.matching_params_list = {}
      /\ d.stack_checkpoint = cmdtc.stack_checkpoint
      /\ d.params_stack = SubSeq(cmdtc.params_stack, 1, l - 1)
      /\ d.tlv_stack = SubSeq(cmdtc.tlv_stack, 1, l - 1)
  <2>1. MarkAfterPop(cmdtc) = cmdtc.stack_checkpoint
    BY <1>1 DEF MarkAfterPop
  <2> QED
    BY <1>1, <1>3, <1>4, <2>1, LevelUpOK, LevelUpIs
<1> HIDE DEF d
<1>6. Done(cmdtc) = AndWord(Done(d), v, Blank)
  <2>1. /\ Len(d.params_stack) = l - 1
        /\ \A i \in 1 .. l - 1 : d.tlv_stack[i] = cmdtc.tlv_stack[i]
    BY <1>3, <1>4, <1>5, SubSeqIs
  <2> QED
    BY <1>3, <1>4, <1>5, <2>1, DoneMore
<1>7. v \in Seq(Key) /\ Len(v) \in Nat
  BY <1>3, <1>4, ValuesTyped, LenProperties
<1>8. TopWord(cmdtc) = Len(v)
  <2>1. cmdtc.curr_param = cmdtc.params_stack[l] /\ Last(cmdtc.tlv_stack) = cmdtc.tlv_stack[l]
    BY <1>1, <1>3 DEF Placed, AtWord, Last
  <2>2. ~IsLeaf(cmdtc.params_stack[l]) => v = Name[cmdtc.params_stack[l]]
    BY <1>3, <1>4 DEF Placed, Named
  <2> QED
    BY <2>1, <2>2 DEF TopWord
<1>9. line = Done(cmdtc)
  <2>1. Len(w) = 0
    BY <1>1, <1>2, <1>3 DEF AtHand, Shape
  <2>2. w = <<>>
    BY <2>1, EmptySeq
  <2> QED
    BY <1>2, <1>3, <2>2, ConcatEmptySeq
<1> HIDE DEF v
<1>10. line' = Done(d)
  <2>1. v \in Seq(LineChar) /\ Blank \in LineChar /\ Done(d) \in Seq(LineChar)
    BY <1>5, <1>7, DoneOK, SeqMonotonic DEF LineChar, Blank
  <2>2. Append(v, Blank) \in Seq(LineChar) /\ Len(Append(v, Blank)) = Len(v) + 1
    BY <2>1, AppendProperties
  <2>3. PopN(Done(d) \o Append(v, Blank), Len(Append(v, Blank))) = Done(d)
    BY <2>1, <2>2, PopIs
  <2> QED
    BY <1>1, <1>6, <1>8, <1>9, <2>2, <2>3 DEF AndWord
<1>11. Shown(d, Done(d))
  BY <1>5, WordsShown
<1> QED
  BY <1>1, <1>10, <1>11 DEF ShownStep

\* On an empty line the mode is on top of the stack.
LEMMA OnlyMode ==
  ASSUME HookInv, Reading, line = <<>>
  PROVE  /\ Len(cmdtc.params_stack) = cmdtc.stack_checkpoint + 1
         /\ cmdtc.icursor = 0 /\ cmdtc.cmdtc_state = "init"
<1>1. Good(cmdtc) /\ ModeInv
  BY HooksBefore
<1>2. Covered(cmdtc, 0)
  BY <1>1, ModeBefore, EmptyLine
<1>3. Len(cmdtc.params_stack) = cmdtc.stack_checkpoint + 1 /\ cmdtc.icursor = 0
  BY <1>1, <1>2, NothingCovered
<1> QED
  BY <1>1, <1>3, Stacks DEF Shape

\* Page-up makes the word below the mode the mode.
LeftMode(c) == [LevelUp(c) EXCEPT !.root = LevelUp(c).curr_param]

LEMMA LeftModeIs ==
  ASSUME NEW c, Good(c), c.cmdtc_state = "init", Len(c.params_stack) > 1,
         Len(c.params_stack) = c.stack_checkpoint + 1
  PROVE  LET d == LeftMode(c)
             k == c.stack_checkpoint
         IN  /\ Good(d) /\ d.icursor = 0 /\ d.matching_params_list = {}
             /\ k \in Nat \ {0} /\ k \in 1 .. Len(c.params_stack)
             /\ Len(d.params_stack) = k /\ d.stack_checkpoint = k - 1
             /\ d.root = c.params_stack[k]
             /\ d.params_stack = SubSeq(c.params_stack, 1, k)
             /\ d.tlv_stack = SubSeq(c.tlv_stack, 1, k)
             /\ \A i \in 1 .. k : d.tlv_stack[i] = c.tlv_stack[i]
<1> DEFINE u == LevelUp(c)
           d == LeftMode(c)
           k == c.stack_checkpoint
<1>1. /\ Len(c.params_stack) \in Nat /\ k \in Nat \ {0} /\ k \in 1 .. Len(c.params_stack)
      /\ k = Len(c.params_stack) - 1 /\ k \in 1 .. Len(c.tlv_stack)
      /\ c.params_stack \in Seq(Param) /\ c.tlv_stack \in Seq(TlvType)
  BY Stacks
<1>2. Good(u) /\ u.icursor = 0
  BY LevelUpOK
<1>3. /\ u.params_stack = SubSeq(c.params_stack, 1, k) /\ u.tlv_stack = SubSeq(c.tlv_stack, 1, k)
      /\ u.curr_param = c.params_stack[k] /\ u.matching_params_list = {}
      /\ u.stack_checkpoint = k - 1
  <2>1. MarkAfterPop(c) = k - 1
    BY <1>1 DEF MarkAfterPop, Top
  <2> QED
    BY <1>1, <2>1, LevelUpIs
<1> HIDE DEF u, k
<1>4. /\ u \in CursorType /\ u.curr_param \in Param /\ u.stack_checkpoint \in Nat
      /\ u.stack_checkpoint < Len(u.params_stack)
  BY <1>2 DEF Good, CursorType, Shape
<1>5. d = [u EXCEPT !.root = u.curr_param]
  BY DEF LeftMode, u
<1> HIDE DEF d
<1>6. /\ d.stack_checkpoint = k - 1 /\ d.root = c.params_stack[k]
      /\ d.params_stack = SubSeq(c.params_stack, 1, k)
      /\ d.tlv_stack = SubSeq(c.tlv_stack, 1, k) /\ d.matching_params_list = {}
  BY <1>3, <1>4, <1>5 DEF CursorType
<1>7. Good(d) /\ d.icursor = 0
  <2>1. d = [u EXCEPT !.root = u.curr_param, !.stack_checkpoint = u.stack_checkpoint]
    BY <1>4, <1>5 DEF CursorType
  <2> QED
    BY <1>2, <1>4, <2>1, ModeOK
<1>8. Len(d.params_stack) = k
  BY <1>1, <1>6, SubSeqIs
<1>9. \A i \in 1 .. k : d.tlv_stack[i] = c.tlv_stack[i]
  BY <1>1, <1>6, SubSeqIs
<1> QED
  BY <1>1, <1>6, <1>7, <1>8, <1>9 DEF d, k

LEMMA PageUpShown ==
  ASSUME ShownInv, PageUp
  PROVE  ShownStep
<1>1. /\ Reading /\ line = <<>> /\ line' = line /\ Top(cmdtc.params_stack) > 0
      /\ cmdtc' = LeftMode(cmdtc) \/ status' = "aborted"
  BY DEF PageUp, LeftMode
<1>2. Good(cmdtc) /\ HookInv /\ Len(cmdtc.params_stack) \in Nat
  BY <1>1, ShownBefore, Stacks
<1>3. Len(cmdtc.params_stack) > 1
  BY <1>1, <1>2 DEF Top
<1>4. ASSUME cmdtc' = LeftMode(cmdtc)
      PROVE  /\ Good(cmdtc') /\ cmdtc'.icursor = 0 /\ cmdtc'.matching_params_list = {}
             /\ Len(cmdtc'.params_stack) = cmdtc'.stack_checkpoint + 1
  <2>1. /\ Good(LeftMode(cmdtc)) /\ LeftMode(cmdtc).icursor = 0
        /\ LeftMode(cmdtc).matching_params_list = {} /\ cmdtc.stack_checkpoint \in Nat
        /\ Len(LeftMode(cmdtc).params_stack) = cmdtc.stack_checkpoint
        /\ LeftMode(cmdtc).stack_checkpoint = cmdtc.stack_checkpoint - 1
    BY <1>1, <1>2, <1>3, OnlyMode, LeftModeIs
  <2> QED
    BY <1>4, <2>1
<1>5. cmdtc' = LeftMode(cmdtc) => Shown(cmdtc', <<>>)
  BY <1>4, NothingShown DEF Apart
<1> QED
  BY <1>1, <1>5 DEF ShownStep

LEMMA ApexShown ==
  ASSUME NEW b \in BOOLEAN, NEW d \in {InitCursor, [InitCursor EXCEPT !.refresh_disabled = b]}
  PROVE  Shown(d, <<>>)
<1>1. Good(d) /\ d.icursor = 0
  BY InitCursorOK
<1>2. d.params_stack = <<RootHook>> /\ d.stack_checkpoint = 0 /\ d.leaf_param = NoParam
  BY DEF InitCursor
<1>3. Len(d.params_stack) = d.stack_checkpoint + 1
  BY <1>2
<1> QED
  BY <1>1, <1>2, <1>3, NothingShown

LEMMA CtrlTShown ==
  ASSUME ShownInv, CtrlT
  PROVE  ShownStep
<1> DEFINE b == cmdtc.refresh_disabled /\ RefreshValHook \notin Range(cmdtc.params_stack)
<1>1. line' = <<>> /\ cmdtc' = [InitCursor EXCEPT !.refresh_disabled = b]
  BY DEF CtrlT
<1>2. b \in BOOLEAN
  OBVIOUS
<1> HIDE DEF b
<1> QED
  BY <1>1, <1>2, ApexShown DEF ShownStep

LEMMA EnterModeShown ==
  ASSUME ShownInv, EnterMode
  PROVE  ShownStep
<1> DEFINE c == IF Nested(cmdtc) THEN WithoutOuter(cmdtc) ELSE cmdtc
           stack == Rebuilt(c.params_stack)
           mode == [c EXCEPT !.params_stack = stack, !.root = c.curr_param,
                             !.stack_checkpoint = Top(stack)]
           h == ModeHdr(c.tlv_stack)
           entered == [c EXCEPT !.root = c.curr_param, !.stack_checkpoint = Top(c.params_stack)]
<1>1. Reading /\ cmdtc.cmdtc_state = "init"
  BY DEF EnterMode
<1>2. \/ status' \in {"aborted", "corrupt"}
      \/ line' = <<>> /\ stack = c.params_stack /\ (Submit(mode, h) \/ cmdtc' = mode)
  BY DEF EnterMode
<1>3. PICK w \in Seq(Key) : AtHand(cmdtc, w)
  BY <1>1, ShownBefore
<1>4. Good(cmdtc) /\ Placed(cmdtc) /\ (cmdtc.leaf_param # NoParam => Apart(cmdtc.matching_params_list))
  BY <1>1, <1>3, ShownBefore DEF AtHand
<1>5. Good(c) /\ c.cmdtc_state = "init" /\ AtWord(c) /\ KeywordsListed(c) /\ Named(c)
  BY <1>1, <1>4, WithoutOuterOK, WithoutOuterPlace DEF Placed
<1>6. c.leaf_param # NoParam => Apart(c.matching_params_list)
  BY <1>4, WithoutOuterIs
<1> HIDE DEF c, h
<1>7. CASE status' \in {"aborted", "corrupt"}
  BY <1>7 DEF ShownStep
<1>8. CASE line' = <<>> /\ stack = c.params_stack /\ (Submit(mode, h) \/ cmdtc' = mode)
  <2>1. c \in CursorType /\ c.icursor = 0 /\ Len(c.params_stack) \in Nat
    BY <1>5, Stacks DEF Shape
  <2>2. mode = entered
    BY <1>8, <2>1 DEF CursorType
  <2>3. /\ entered.params_stack = c.params_stack /\ entered.leaf_param = c.leaf_param
        /\ entered.matching_params_list = c.matching_params_list /\ entered.icursor = 0
        /\ entered.stack_checkpoint = Top(c.params_stack)
    BY <2>1 DEF CursorType
  <2>4. Good(entered)
    <3>1. 0 \in Nat
      OBVIOUS
    <3> QED
      BY <1>5, <3>1, EnteredPlace
  <2>5. Len(entered.params_stack) = entered.stack_checkpoint + 1
    BY <2>1, <2>3 DEF Top
  <2> HIDE DEF mode, entered
  <2>6. Shown(mode, <<>>)
    BY <1>6, <2>2, <2>3, <2>4, <2>5, NothingShown
  <2>7. CASE Submit(mode, h)
    <3>1. cmdtc' = Reset(mode)
      BY <2>7 DEF Submit
    <3> QED
      BY <1>8, <2>2, <2>4, <3>1, ResetShown DEF ShownStep
  <2>8. CASE cmdtc' = mode
    BY <1>8, <2>6, <2>8 DEF ShownStep
  <2> QED
    BY <1>8, <2>7, <2>8
<1> QED
  BY <1>2, <1>7, <1>8

LEMMA ShownInitially ==
  ASSUME Init
  PROVE  ShownInv
<1>1. cmdtc = InitCursor /\ line = <<>>
  BY DEF Init
<1>2. Shown(cmdtc, line)
  BY <1>1, ApexShown
<1> QED
  BY <1>2, HooksInitially DEF ShownInv

LEMMA ShownInductive ==
  ASSUME OneKeywordBesideLeaf, ShownInv, [Next]_vars
  PROVE  ShownInv'
<1>1. HookInv'
  BY HooksInductive DEF ShownInv
<1>2. CASE Next
  <2>1. ShownStep
    BY <1>2, TypeCharShown, SpaceListsShown, SpaceCompletesShown, SpaceAcceptsShown,
       AutoCompletionSpinsShown, ReturnsShown, EraseCharShown, EraseWordShown,
       EraseLevelShown, PageUpShown, CtrlTShown, EnterModeShown DEF Next
  <2> QED
    BY <1>1, <2>1 DEF ShownInv, ShownStep
<1>3. CASE UNCHANGED vars
  BY <1>1, <1>3 DEF vars, ShownInv
<1> QED
  BY <1>2, <1>3

LEMMA ShownInvariance ==
  ASSUME OneKeywordBesideLeaf
  PROVE  Spec => []ShownInv
BY ShownInitially, ShownInductive, PTL DEF Spec

LEMMA TailOfConcat ==
  ASSUME NEW T, NEW s \in Seq(T), NEW t \in Seq(T)
  PROVE  SubSeq(s \o t, Len(s) + 1, Len(s \o t)) = t
<1>1. /\ Len(s) \in Nat /\ Len(t) \in Nat /\ Len(s \o t) = Len(s) + Len(t)
  BY LenProperties, ConcatProperties
<1>2. CASE Len(t) = 0
  <2>1. t = <<>>
    BY <1>2, EmptySeq
  <2>2. Len(s) + 1 \in Int /\ Len(s \o t) \in Int /\ Len(s \o t) < Len(s) + 1
    BY <1>1, <1>2
  <2> QED
    BY <2>1, <2>2, SubSeqEmpty
<1>3. CASE Len(t) # 0
  <2>1. /\ Len(s) + 1 \in Len(s) + 1 .. Len(s) + Len(t)
        /\ Len(s) + Len(t) \in Len(s) + 1 .. Len(s) + Len(t)
    BY <1>1, <1>3
  <2>2. SubSeq(s \o t, Len(s) + 1, Len(s) + Len(t)) =
          SubSeq(t, Len(s) + 1 - Len(s), Len(s) + Len(t) - Len(s))
    BY <2>1, SubSeqOfConcat2
  <2>3. Len(s) + 1 - Len(s) = 1 /\ Len(s) + Len(t) - Len(s) = Len(t)
    BY <1>1
  <2> QED
    BY <1>1, <2>2, <2>3, SubSeqFull
<1> QED
  BY <1>2, <1>3

\* The words behind the a-th, spelled with their spaces.
LEMMA SpelledIsText ==
  ASSUME NEW t \in Seq(TlvType), NEW a \in Nat, a <= Len(t)
  PROVE  Spelled(SubSeq(t, a + 1, Len(t))) = Text(t, a, Len(t) - a, Blank)
<1> DEFINE n == Len(t) - a
           s == SubSeq(t, a + 1, Len(t))
<1>1. Len(t) \in Nat /\ n \in Nat /\ a + 1 \in Nat \ {0}
  BY LenProperties
<1> HIDE DEF s
<1>3. /\ s \in Seq(TlvType)
      /\ Len(s) = IF a + 1 <= Len(t) THEN Len(t) - (a + 1) + 1 ELSE 0
      /\ \A i \in 1 .. Len(t) - (a + 1) + 1 : s[i] = t[a + 1 + i - 1]
  BY <1>1, SubSeqType DEF s
<1>4. /\ DOMAIN s = 1 .. n
      /\ \A i \in 1 .. n : s[i] = t[a + i]
  <2>1. Len(s) = n /\ Len(t) - (a + 1) + 1 = n
    BY <1>1, <1>3
  <2>2. \A i \in 1 .. n : a + 1 + i - 1 = a + i
    BY <1>1
  <2> QED
    BY <1>3, <2>1, <2>2, LenProperties
<1> HIDE DEF n
<1>5. [i \in DOMAIN s |-> Append(s[i].value, Blank)] = [i \in 1 .. n |-> Append(t[a + i].value, Blank)]
  BY <1>4
<1>6. Spelled(s) = Text(t, a, n, Blank)
  BY <1>5 DEF Spelled, Text, Blank
<1> QED
  BY <1>6 DEF s, n

\* Those above the checkpoint.
LEMMA SpelledIsDone ==
  ASSUME NEW c, Good(c)
  PROVE  Spelled(SubSeq(c.tlv_stack, c.stack_checkpoint + 2, Len(c.tlv_stack))) = Done(c)
<1> DEFINE t == c.tlv_stack
           a == c.stack_checkpoint + 1
<1>1. /\ t \in Seq(TlvType) /\ a \in Nat /\ a <= Len(t) /\ Len(t) = Len(c.params_stack)
      /\ a + 1 = c.stack_checkpoint + 2
  BY Stacks
<1>2. Done(c) = Text(t, a, Len(t) - a, Blank)
  BY <1>1 DEF Done
<1> HIDE DEF a, t
<1>3. Spelled(SubSeq(t, a + 1, Len(t))) = Text(t, a, Len(t) - a, Blank)
  BY <1>1, SpelledIsText
<1> QED
  BY <1>1, <1>2, <1>3 DEF t

\* The line is the words on the stacks above the mode, each with its space, and
\* icursor keys of the word at hand, which are the value of a leaf being typed:
\* what a backspace or a completion changes on the line it changes on the stacks.
\* It is so in the trees in which a word that a leaf could take continues one
\* keyword at most; cmdt_cursor_parse_next_char loses a key in the others.
THEOREM LineSpellsStack ==
  ASSUME OneKeywordBesideLeaf
  PROVE  Spec => [](NoAbort => LineMatchesStack)
<1>1. ASSUME ShownInv, NoAbort PROVE LineMatchesStack
  <2>1. SUFFICES ASSUME status # "corrupt"
                 PROVE  /\ line = Spelled(SubSeq(cmdtc.tlv_stack, cmdtc.stack_checkpoint + 2,
                                                 Len(cmdtc.tlv_stack))) \o Typed
                        /\ Len(Typed) = cmdtc.icursor
                        /\ cmdtc.cmdtc_state = "matching_leaf" => cmdtc.curr_leaf_value = Typed
    BY DEF LineMatchesStack
  <2>2. Inv /\ status \in {"running", "spinning"}
    BY <1>1, <2>1 DEF ShownInv, HookInv, ModeInv, Inv, TypeOK, NoAbort
  <2>3. Good(cmdtc) /\ cmdtc \in CursorType /\ Shape(cmdtc)
    BY <2>1, <2>2, Stacks DEF Inv
  <2>4. PICK w \in Seq(Key) : line = Done(cmdtc) \o w /\ AtHand(cmdtc, w)
    BY <1>1, <2>2 DEF ShownInv, Shown
  <2> DEFINE done == Done(cmdtc)
  <2>5. done \in Seq(LineChar) /\ w \in Seq(LineChar)
    <3>1. w \in Seq(LineChar)
      BY SeqMonotonic DEF LineChar
    <3> QED
      BY <2>3, <3>1, DoneOK
  <2>6. Typed = SubSeq(done \o w, Len(done) + 1, Len(done \o w))
    BY <2>3, <2>4, SpelledIsDone DEF Typed
  <2> HIDE DEF done
  <2>7. SubSeq(done \o w, Len(done) + 1, Len(done \o w)) = w
    BY <2>5, TailOfConcat
  <2>8. cmdtc.cmdtc_state = "matching_leaf" => cmdtc.curr_leaf_value = w
    <3>1. cmdtc.cmdtc_state = "matching_leaf" => cmdtc.leaf_param = cmdtc.curr_param
                                                 /\ cmdtc.curr_param \in Param
      BY <2>3 DEF Shape, CursorType
    <3> QED
      BY <2>4, <3>1, TreeFacts DEF AtHand
  <2>9. line = done \o w /\ Len(w) = cmdtc.icursor
    BY <2>4 DEF AtHand, done
  <2>10. Spelled(SubSeq(cmdtc.tlv_stack, cmdtc.stack_checkpoint + 2, Len(cmdtc.tlv_stack))) = done
    BY <2>3, SpelledIsDone DEF done
  <2> QED
    BY <2>6, <2>7, <2>8, <2>9, <2>10
<1> QED
  BY <1>1, ShownInvariance, PTL

-----------------------------------------------------------------------------
(* The prompt is the path to the mode.                                     *)

\* A host name, once it is set, is the prompt; until then it is the path.
NoHostName == \A i \in DOMAIN calls : calls[i].param # HostNameLeaf

Path(c, h) ==
  h = IF c.stack_checkpoint = 0 THEN DEF_CLI_HDR
      ELSE ModeHdr(SubSeq(c.tlv_stack, 1, c.stack_checkpoint + 1))
PathInv == ShownInv /\ (status # "corrupt" => Path(cmdtc, hdr))
PathStep == status' # "corrupt" => Path(cmdtc', hdr')

LEMMA PathBefore ==
  ASSUME PathInv, Reading
  PROVE  /\ ShownInv /\ HookInv /\ Good(cmdtc) /\ Placed(cmdtc) /\ Rooted(cmdtc) /\ OptionsType
         /\ status = "running" /\ Path(cmdtc, hdr)
BY ShownBefore DEF PathInv

LEMMA PathSame ==
  ASSUME NEW c, NEW d, Mode(d) = Mode(c), NEW h, Path(c, h)
  PROVE  Path(d, h)
BY DEF Mode, Path

LEMMA PathOfWords ==
  ASSUME NEW c, NEW h, Path(c, h), NEW d,
         d.tlv_stack = c.tlv_stack, d.stack_checkpoint = c.stack_checkpoint
  PROVE  Path(d, h)
BY DEF Path

\* The calls of a command are a sequence.
LEMMA InvocationsAre ==
  ASSUME NEW c, Good(c), NEW cbk
  PROVE  \E T : Invocations(Executing(c), cbk) \in Seq(T)
<1> DEFINE x == Executing(c)
           op == OpMode(x)
           call(p, tlvs) == [param |-> p, tlvs |-> tlvs, op |-> op, filters |-> Filters(x)]
           upTo(i) == call(x.params_stack[i], SubSeq(x.tlv_stack, 1, i))
           n == Cardinality(Called(x))
           batch == [k \in 1 .. n |-> upTo(Kth(Called(x), k))]
           all == call(cbk, x.tlv_stack)
           T == {batch[k] : k \in 1 .. n} \cup {all}
<1>1. x.stack_checkpoint \in Nat /\ Len(x.params_stack) \in Nat
  <2>1. CASE ~Nested(c)
    <3>1. x = c
      BY <2>1 DEF Executing
    <3> HIDE DEF x
    <3> QED
      BY <3>1, Stacks
  <2>2. CASE Nested(c)
    <3> DEFINE own == SubSeq(c.params_stack, c.stack_checkpoint + 2, Len(c.params_stack))
    <3>1. c.params_stack \in Seq(Param) /\ c.stack_checkpoint + 2 \in Nat \ {0}
          /\ Len(c.params_stack) \in Int /\ Len(c.params_stack) <= Len(c.params_stack)
      BY Stacks
    <3>2. own \in Seq(Param)
      BY <3>1, SubSeqType
    <3>3. x.stack_checkpoint = 0 /\ x.params_stack = <<RootHook>> \o own
      BY <2>2 DEF Executing, InitCursor
    <3>4. <<RootHook>> \in Seq(Param)
      BY TreeFacts
    <3> HIDE DEF own, x
    <3>5. <<RootHook>> \o own \in Seq(Param)
      BY <3>2, <3>4, ConcatProperties
    <3> QED
      BY <3>3, <3>5, LenProperties
  <2> QED
    BY <2>1, <2>2
<1>2. n \in Nat
  <2> HIDE DEF x
  <2> DEFINE places == x.stack_checkpoint + 2 .. Len(x.params_stack)
  <2>1. IsFiniteSet(places)
    <3>1. x.stack_checkpoint + 2 \in Int /\ Len(x.params_stack) \in Int
      BY <1>1
    <3> QED
      BY <3>1, FS_Interval
  <2>2. Called(x) \subseteq places
    BY DEF Called
  <2> HIDE DEF places
  <2> QED
    BY <2>1, <2>2, FS_Subset, FS_CardinalityType
<1>3. Invocations(x, cbk) = IF op = "CONFIG_ENABLE" /\ cbk \in Batch THEN batch ELSE <<all>>
  BY DEF Invocations
<1>4. batch \in Seq(T)
  <2> DEFINE S == {batch[k] : k \in 1 .. n}
  <2>1. batch \in [1 .. n -> T]
    <3> HIDE DEF n, all, op, x, upTo
    <3> QED
      OBVIOUS
  <2> HIDE DEF batch, T, n
  <2> QED
    BY <1>2, <2>1, SeqDef
<1>5. <<all>> \in Seq(T)
  <2>1. all \in T
    OBVIOUS
  <2> HIDE DEF T, all
  <2> QED
    BY <2>1
<1> HIDE DEF batch, all, op, T
<1> QED
  BY <1>3, <1>4, <1>5

\* A command that is not the host name's leaves the prompt alone.
LEMMA PromptKept ==
  ASSUME NEW c, Good(c), NEW h, Submit(c, h), NoHostName'
  PROVE  hdr' = h
<1> DEFINE x == Executing(c)
           todo == Invocations(x, x.params_stack[CallbackSlot(x) + 1])
<1>1. hdr' = PromptAfter(x, calls', h)
  BY DEF Submit
<1>2. calls' = <<>> \/ \E n \in 0 .. Len(todo) : calls' = SubSeq(todo, 1, n)
  BY DEF Submit, Triggered, NoOutput
<1>3. PICK T : todo \in Seq(T)
  BY InvocationsAre
<1> HIDE DEF todo, x
<1>4. ASSUME NEW n \in 0 .. Len(todo), calls' = SubSeq(todo, 1, n), calls' # <<>>
      PROVE  Last(calls').param # HostNameLeaf
  <2>1. Len(todo) \in Nat
    BY <1>3, LenProperties
  <2>2. n # 0
    <3>1. 1 \in Int /\ 0 \in Int /\ 0 < 1
      OBVIOUS
    <3>2. SubSeq(todo, 1, 0) = <<>>
      BY <3>1, SubSeqEmpty
    <3> QED
      BY <1>4, <3>2
  <2>3. n \in 1 .. Len(todo) /\ n \in 1 .. n
    BY <2>1, <2>2
  <2>4. Len(calls') = n /\ DOMAIN calls' = 1 .. n
    BY <1>3, <1>4, <2>3, SubSeqIs
  <2> QED
    BY <2>3, <2>4 DEF Last, NoHostName
<1>5. calls' = <<>> \/ Last(calls').param # HostNameLeaf
  BY <1>2, <1>4
<1> QED
  BY <1>1, <1>5 DEF PromptAfter

Hyphen == "-"

\* The prompt of a mode and that of the mode below it.
LEMMA ModeHdrIs ==
  ASSUME NEW t \in Seq(TlvType), NEW k \in Nat, k + 1 <= Len(t)
  PROVE  ModeHdr(SubSeq(t, 1, k + 1)) = Front(DEF_CLI_HDR \o Text(t, 1, k, Hyphen)) \o <<">", " ">>
<1> DEFINE s == SubSeq(t, 1, k + 1)
<1>1. k + 1 \in 1 .. Len(t) /\ k + 1 \in Nat
  BY LenProperties
<1>2. Len(s) = k + 1 /\ \A i \in 1 .. k + 1 : s[i] = t[i]
  BY <1>1, SubSeqIs
<1> HIDE DEF s
<1>3. Len(s) - 1 = k /\ \A i \in 1 .. k : i + 1 \in 1 .. k + 1 /\ i + 1 = 1 + i
  BY <1>2
<1>4. \A i \in 1 .. k : s[i + 1].value = t[1 + i].value
  BY <1>2, <1>3
<1>5. [i \in 1 .. Len(s) - 1 |-> Append(s[i + 1].value, Hyphen)] =
      [i \in 1 .. k |-> Append(t[1 + i].value, Hyphen)]
  BY <1>3, <1>4
<1> QED
  BY <1>5 DEF ModeHdr, Text, Hyphen, s

LEMMA FrontIs ==
  ASSUME NEW T, NEW s \in Seq(T), NEW e \in T
  PROVE  Front(s \o <<e>>) = s
BY PopOne DEF Front

LEMMA PathParts ==
  ASSUME NEW c, Good(c), NEW k \in Nat, k + 1 <= Len(c.params_stack)
  PROVE  /\ Text(c.tlv_stack, 1, k, Hyphen) \in Seq(PromptChar)
         /\ DEF_CLI_HDR \o Text(c.tlv_stack, 1, k, Hyphen) \in Seq(PromptChar)
         /\ DEF_CLI_HDR \o Text(c.tlv_stack, 1, k, Hyphen) # <<>>
<1> DEFINE p == Text(c.tlv_stack, 1, k, Hyphen)
<1>1. \A i \in 1 .. k : 1 + i \in 1 .. Len(c.params_stack)
  BY Stacks
<1>2. Worded(c.tlv_stack, 1, k, PromptChar)
  BY <1>1, ValuesTyped DEF Worded
<1>3. Hyphen \in PromptChar /\ 1 \in Nat
  BY DEF Hyphen, PromptChar
<1>4. p \in Seq(PromptChar)
  BY <1>2, <1>3, TextType
<1>5. DEF_CLI_HDR \in Seq(PromptChar) /\ Len(DEF_CLI_HDR) # 0 /\ Len(DEF_CLI_HDR) \in Nat
  <2>1. DEF_CLI_HDR \in Seq(PromptChar) /\ Len(DEF_CLI_HDR) \in 1 .. MAX_COMMAND_LENGTH - 1
    BY LineAssumption
  <2> QED
    BY <2>1
<1> HIDE DEF p
<1>6. DEF_CLI_HDR \o p \in Seq(PromptChar) /\ Len(DEF_CLI_HDR \o p) # 0
  <2>1. Len(p) \in Nat /\ Len(DEF_CLI_HDR \o p) = Len(DEF_CLI_HDR) + Len(p)
    BY <1>4, <1>5, LenProperties, ConcatProperties
  <2> QED
    BY <1>4, <1>5, <2>1, ConcatProperties
<1>7. Len(<<>>) = 0
  OBVIOUS
<1> QED
  BY <1>4, <1>6, <1>7 DEF p

LEMMA TopWordIs ==
  ASSUME NEW c, Good(c), Placed(c), c.cmdtc_state = "init"
  PROVE  TopWord(c) = Len(c.tlv_stack[Len(c.params_stack)].value)
<1>1. /\ Len(c.params_stack) \in DOMAIN c.params_stack
      /\ Len(c.tlv_stack) = Len(c.params_stack)
  BY Stacks
<1>2. c.curr_param = c.params_stack[Len(c.params_stack)]
  BY DEF Placed, AtWord, Last
<1>3. ~IsLeaf(c.curr_param) => c.tlv_stack[Len(c.params_stack)].value = Name[c.curr_param]
  BY <1>1, <1>2 DEF Placed, Named
<1> QED
  BY <1>1, <1>3 DEF TopWord, Last

\* What page-up cuts off the prompt is the last word of the path.
LEMMA PathCut ==
  ASSUME NEW T, NEW a \in Seq(T), a # <<>>, NEW v \in Seq(T), NEW sep \in T,
         NEW e \in Seq(T), Len(e) = 2
  PROVE  PopN(Front(AndWord(a, v, sep)) \o e, Len(v) + 3) = Front(a)
<1>1. PICK b \in Seq(T), x \in T : a = b \o <<x>>
  <2>1. PICK b \in Seq(T), x \in T : a = Append(b, x)
    BY SequenceEmptyOrAppend
  <2> QED
    BY <2>1, AppendIsConcat
<1>2. Front(a) = b
  BY <1>1, FrontIs
<1>3. Front(AndWord(a, v, sep)) = a \o v
  <2>1. Append(v, sep) = v \o <<sep>> /\ a \o v \in Seq(T)
    BY AppendIsConcat, ConcatProperties
  <2>2. <<sep>> \in Seq(T)
    OBVIOUS
  <2>3. a \o (v \o <<sep>>) = (a \o v) \o <<sep>>
    BY <2>2, ConcatAssociative
  <2> DEFINE w == a \o v
  <2>4. w \in Seq(T) /\ AndWord(a, v, sep) = w \o <<sep>>
    BY <2>1, <2>3 DEF AndWord
  <2> HIDE DEF w
  <2>5. Front(AndWord(a, v, sep)) = w
    BY <2>4, FrontIs
  <2> QED
    BY <2>5 DEF w
<1> DEFINE t == <<x>> \o (v \o e)
<1>4. <<x>> \in Seq(T) /\ Len(<<x>>) = 1
  OBVIOUS
<1>5. v \o e \in Seq(T) /\ Len(v \o e) = Len(v) + 2 /\ Len(v) \in Nat
  <2>1. v \o e \in Seq(T) /\ Len(v \o e) = Len(v) + Len(e)
    BY ConcatProperties
  <2>2. Len(v) \in Nat
    BY LenProperties
  <2> QED
    BY <2>1, <2>2
<1>6. t \in Seq(T) /\ Len(t) = Len(v) + 3
  <2>1. t \in Seq(T) /\ Len(t) = Len(<<x>>) + Len(v \o e)
    BY <1>4, <1>5, ConcatProperties
  <2> HIDE DEF t
  <2> QED
    BY <1>4, <1>5, <2>1
<1>7. (a \o v) \o e = b \o t
  <2>1. (a \o v) \o e = a \o (v \o e)
    BY ConcatAssociative, SMTT(30)
  <2>2. (b \o <<x>>) \o (v \o e) = b \o (<<x>> \o (v \o e))
    BY <1>4, <1>5, ConcatAssociative, SMTT(30)
  <2> QED
    BY <1>1, <2>1, <2>2
<1> HIDE DEF t
<1>8. PopN(b \o t, Len(t)) = b
  BY <1>6, PopIs
<1> QED
  BY <1>2, <1>3, <1>6, <1>7, <1>8

\* How the prompt of the mode r ends.
PromptEnd(r) == IF r = RootHook THEN <<" ">> ELSE <<">", " ">>

LEMMA ApexPrompt ==
  Front(DEF_CLI_HDR) \o PromptEnd(RootHook) = DEF_CLI_HDR
<1>1. /\ DEF_CLI_HDR \in Seq(PromptChar) /\ DEF_CLI_HDR[Len(DEF_CLI_HDR)] = " "
      /\ Len(DEF_CLI_HDR) \in 1 .. MAX_COMMAND_LENGTH - 1
  BY LineAssumption
<1>2. DEF_CLI_HDR # <<>>
  <2>1. Len(<<>>) = 0 /\ 0 \notin 1 .. MAX_COMMAND_LENGTH - 1
    OBVIOUS
  <2> QED
    BY <1>1, <2>1
<1>3. PICK b \in Seq(PromptChar), x \in PromptChar : DEF_CLI_HDR = Append(b, x)
  BY <1>1, <1>2, SequenceEmptyOrAppend
<1>4. DEF_CLI_HDR = b \o <<x>>
  BY <1>3, AppendIsConcat
<1>5. Front(DEF_CLI_HDR) = b
  BY <1>4, FrontIs
<1>6. x = " "
  <2>1. Len(Append(b, x)) = Len(b) + 1 /\ Append(b, x)[Len(b) + 1] = x
    BY AppendProperties
  <2> QED
    BY <1>1, <1>3, <2>1
<1> QED
  BY <1>4, <1>5, <1>6 DEF PromptEnd

LEMMA PairIs ==
  ASSUME NEW T, NEW x \in T, NEW y \in T
  PROVE  <<x, y>> \in Seq(T) /\ Len(<<x, y>>) = 2
OBVIOUS

LEMMA PathMore ==
  ASSUME NEW t, NEW j \in Nat, t[1 + (j + 1)].value \in Seq(PromptChar)
  PROVE  Text(t, 1, j + 1, Hyphen) = AndWord(Text(t, 1, j, Hyphen), t[1 + (j + 1)].value, Hyphen)
<1>1. Hyphen \in PromptChar /\ 1 \in Nat
  BY DEF Hyphen, PromptChar
<1> QED
  BY <1>1, TextMore

LEMMA LeftPath ==
  ASSUME NEW c, Good(c), Placed(c), Rooted(c), c.cmdtc_state = "init",
         Len(c.params_stack) > 1, Len(c.params_stack) = c.stack_checkpoint + 1,
         NEW h, Path(c, h)
  PROVE  Path(LeftMode(c), PopN(h, TopWord(c) + 3) \o PromptEnd(LeftMode(c).root))
<1> DEFINE d == LeftMode(c)
           k == c.stack_checkpoint
           t == c.tlv_stack
           v == t[k + 1].value
           a == DEF_CLI_HDR \o Text(t, 1, k - 1, Hyphen)
           e == <<">", " ">>
<1>1. /\ k \in Nat \ {0} /\ k \in 1 .. Len(c.params_stack)
      /\ d.stack_checkpoint = k - 1 /\ d.root = c.params_stack[k]
      /\ d.tlv_stack = SubSeq(t, 1, k)
  BY LeftModeIs
<1>2. /\ t \in Seq(TlvType) /\ Len(t) = k + 1 /\ Len(c.params_stack) = k + 1
      /\ k + 1 <= Len(t) /\ k - 1 \in Nat /\ (k - 1) + 1 = k /\ 1 + k = k + 1
      /\ k + 1 \in 1 .. Len(c.params_stack) /\ k <= Len(c.params_stack) /\ k <= Len(t)
  BY <1>1, Stacks
<1>3. v \in Seq(PromptChar)
  BY <1>2, ValuesTyped
<1>4. a \in Seq(PromptChar) /\ a # <<>> /\ Text(t, 1, k - 1, Hyphen) \in Seq(PromptChar)
  <2>1. (k - 1) + 1 <= Len(c.params_stack)
    BY <1>2
  <2> QED
    BY <1>2, <2>1, PathParts
<1>5. Hyphen \in PromptChar /\ e \in Seq(PromptChar) /\ Len(e) = 2
  <2>1. ">" \in PromptChar /\ " " \in PromptChar /\ Hyphen \in PromptChar
    BY DEF PromptChar, Hyphen
  <2> DEFINE x == ">"
             y == " "
  <2>2. x \in PromptChar /\ y \in PromptChar /\ e = <<x, y>>
    BY <2>1
  <2> HIDE DEF x, y, e
  <2>3. e \in Seq(PromptChar) /\ Len(e) = 2
    BY <2>2, PairIs
  <2> QED
    BY <2>1, <2>3
<1>6. TopWord(c) = Len(v)
  BY <1>2, TopWordIs
<1> HIDE DEF d, t, v
<1>7. Text(t, 1, k, Hyphen) = AndWord(Text(t, 1, k - 1, Hyphen), v, Hyphen)
  <2> DEFINE j == k - 1
  <2>1. j \in Nat /\ j + 1 = k /\ 1 + (j + 1) = k + 1 /\ 1 \in Nat
    BY <1>2
  <2>2. t[1 + (j + 1)].value = v /\ t[1 + (j + 1)].value \in Seq(PromptChar)
    BY <1>3, <2>1 DEF v
  <2> HIDE DEF j, k
  <2>3. Text(t, 1, j + 1, Hyphen) = AndWord(Text(t, 1, j, Hyphen), t[1 + (j + 1)].value, Hyphen)
    BY <2>1, <2>2, PathMore
  <2> QED
    BY <2>1, <2>2, <2>3 DEF j
<1>8. DEF_CLI_HDR \o Text(t, 1, k, Hyphen) = AndWord(a, v, Hyphen)
  <2> DEFINE x == Text(t, 1, k - 1, Hyphen)
             y == Append(v, Hyphen)
  <2>1. DEF_CLI_HDR \in Seq(PromptChar)
    BY LineAssumption
  <2>2. x \in Seq(PromptChar) /\ y \in Seq(PromptChar)
    BY <1>3, <1>4, <1>5, AppendProperties
  <2>3. Text(t, 1, k, Hyphen) = x \o y
    BY <1>7 DEF AndWord
  <2>4. AndWord(a, v, Hyphen) = (DEF_CLI_HDR \o x) \o y
    BY DEF AndWord
  <2> HIDE DEF x, y, a
  <2>5. (DEF_CLI_HDR \o x) \o y = DEF_CLI_HDR \o (x \o y)
    BY <2>1, <2>2, ConcatAssociative, SMTT(30)
  <2> QED
    BY <2>3, <2>4, <2>5
<1>9. h = Front(AndWord(a, v, Hyphen)) \o e
  <2>1. h = ModeHdr(SubSeq(t, 1, k + 1))
    BY <1>1 DEF Path, t
  <2>2. ModeHdr(SubSeq(t, 1, k + 1)) = Front(DEF_CLI_HDR \o Text(t, 1, k, Hyphen)) \o e
    BY <1>1, <1>2, ModeHdrIs
  <2> QED
    BY <1>8, <2>1, <2>2
<1>10. PopN(h, TopWord(c) + 3) = Front(a)
  <2> HIDE DEF a, e
  <2> QED
    BY <1>3, <1>4, <1>5, <1>6, <1>9, PathCut
<1>11. CASE k = 1
  <2>1. d.root = RootHook
    BY <1>1, <1>11 DEF Rooted
  <2>2. a = DEF_CLI_HDR
    <3>1. k - 1 = 0
      BY <1>11
    <3>2. Text(t, 1, k - 1, Hyphen) = <<>>
      BY <3>1, TextEmpty
    <3>3. DEF_CLI_HDR \in Seq(PromptChar)
      BY LineAssumption
    <3> QED
      BY <3>2, <3>3, ConcatEmptySeq
  <2>3. PopN(h, TopWord(c) + 3) \o PromptEnd(d.root) = DEF_CLI_HDR
    BY <1>10, <2>1, <2>2, ApexPrompt
  <2> QED
    BY <1>1, <1>11, <2>3 DEF Path, d
<1>12. CASE k # 1
  <2>1. d.root # RootHook
    <3>1. k \in 2 .. Len(c.params_stack)
      BY <1>1, <1>12
    <3> QED
      BY <1>1, <3>1 DEF Rooted
  <2>2. d.stack_checkpoint # 0 /\ d.stack_checkpoint + 1 = k
    BY <1>1, <1>12
  <2>3. SubSeq(d.tlv_stack, 1, k) = SubSeq(t, 1, k)
    BY <1>1, <1>2, PrefixOfPrefix
  <2>4. ModeHdr(SubSeq(t, 1, k)) = Front(a) \o e
    <3> DEFINE j == k - 1
    <3>1. j \in Nat /\ j + 1 = k /\ j + 1 <= Len(t)
      BY <1>2
    <3>2. a = DEF_CLI_HDR \o Text(t, 1, j, Hyphen)
      OBVIOUS
    <3> HIDE DEF j, k, a
    <3>3. ModeHdr(SubSeq(t, 1, j + 1)) = Front(DEF_CLI_HDR \o Text(t, 1, j, Hyphen)) \o e
      BY <1>2, <3>1, ModeHdrIs
    <3> QED
      BY <3>1, <3>2, <3>3
  <2>5. PopN(h, TopWord(c) + 3) \o PromptEnd(d.root) = ModeHdr(SubSeq(d.tlv_stack, 1, k))
    BY <1>10, <2>1, <2>3, <2>4 DEF PromptEnd
  <2> QED
    BY <2>2, <2>5 DEF Path, d
<1> QED
  BY <1>11, <1>12

\* Within a word the stacks stay, and with them the path.
LEMMA WithinWordPath ==
  ASSUME PathInv,
         \/ \E k \in Key : TypeChar(k)
         \/ SpaceLists \/ SpaceCompletes \/ AutoCompletionSpins \/ EraseChar \/ EraseWord
  PROVE  PathStep
<1>1. Reading /\ hdr' = hdr
  BY DEF TypeChar, SpaceLists, SpaceCompletes, AutoCompletionSpins, EraseChar, EraseWord
<1>2. cmdtc \in CursorType /\ Path(cmdtc, hdr)
  BY <1>1, PathBefore, Stacks
<1>3. cmdtc'.tlv_stack = cmdtc.tlv_stack /\ cmdtc'.stack_checkpoint = cmdtc.stack_checkpoint
  <2>1. ASSUME NEW k \in Key, TypeChar(k)
        PROVE  cmdtc'.tlv_stack = cmdtc.tlv_stack /\ cmdtc'.stack_checkpoint = cmdtc.stack_checkpoint
    <3>1. cmdtc' = ParseChar(cmdtc, k)
      BY <2>1 DEF TypeChar
    <3> QED
      BY <1>2, <3>1, Zenon DEF ParseChar, CursorType
  <2>2. ASSUME SpaceLists
        PROVE  cmdtc'.tlv_stack = cmdtc.tlv_stack /\ cmdtc'.stack_checkpoint = cmdtc.stack_checkpoint
    BY <1>2, <2>2, Zenon DEF SpaceLists, CursorType
  <2>3. ASSUME SpaceCompletes
        PROVE  cmdtc'.tlv_stack = cmdtc.tlv_stack /\ cmdtc'.stack_checkpoint = cmdtc.stack_checkpoint
    BY <1>2, <2>3, Zenon DEF SpaceCompletes, AutoTyped, CursorType
  <2>4. ASSUME AutoCompletionSpins
        PROVE  cmdtc'.tlv_stack = cmdtc.tlv_stack /\ cmdtc'.stack_checkpoint = cmdtc.stack_checkpoint
    <3>1. \E p, m, leaf, keys :
            cmdtc' = AutoTyped([cmdtc EXCEPT !.curr_param = p, !.matching_params_list = m,
                                             !.leaf_param = leaf,
                                             !.cmdtc_state = "single_word_match"], keys)
      BY <2>4 DEF AutoCompletionSpins
    <3> QED
      BY <1>2, <3>1, Zenon DEF AutoTyped, CursorType
  <2>5. ASSUME EraseChar
        PROVE  cmdtc'.tlv_stack = cmdtc.tlv_stack /\ cmdtc'.stack_checkpoint = cmdtc.stack_checkpoint
    <3>1. \E i, v, q :
            cmdtc' \in {[cmdtc EXCEPT !.icursor = i, !.curr_leaf_value = v],
                        [Between([cmdtc EXCEPT !.icursor = i, !.curr_leaf_value = v])
                           EXCEPT !.curr_param = q]}
      <4> DEFINE c == [cmdtc EXCEPT !.icursor = @ - 1,
                                    !.curr_leaf_value = SubSeq(@, 1, cmdtc.icursor - 1)]
      <4>1. cmdtc' \in {c, [Between(c) EXCEPT !.curr_param = Last(c.params_stack)]}
        BY <2>5 DEF EraseChar
      <4> QED
        BY <4>1
    <3> QED
      BY <1>2, <3>1, Zenon DEF Between, CursorType
  <2>6. ASSUME EraseWord
        PROVE  cmdtc'.tlv_stack = cmdtc.tlv_stack /\ cmdtc'.stack_checkpoint = cmdtc.stack_checkpoint
    BY <1>2, <2>6, Zenon DEF EraseWord, Between, CursorType
  <2> QED
    BY <2>1, <2>2, <2>3, <2>4, <2>5, <2>6
<1> QED
  BY <1>1, <1>2, <1>3, PathOfWords DEF PathStep

LEMMA SpaceAcceptsPath ==
  ASSUME PathInv, SpaceAccepts
  PROVE  PathStep
<1>1. Reading /\ hdr' = hdr
  BY DEF SpaceAccepts
<1>2. PICK p \in OneWord(cmdtc) : cmdtc' = Pushed(cmdtc, p)
  BY DEF SpaceAccepts
<1>3. Mode(cmdtc') = Mode(cmdtc)
  BY <1>1, <1>2, PathBefore, OneWordOK, PushKeepsMode
<1> QED
  BY <1>1, <1>3, PathBefore, PathSame DEF PathStep

\* A command is submitted by a cursor in the mode of the prompt h.
LEMMA SubmittedPath ==
  ASSUME NEW c, Good(c), NEW h, Path(c, h), Submit(c, h), NoHostName'
  PROVE  PathStep
<1>1. cmdtc' = Reset(c) /\ hdr' = h
  BY PromptKept DEF Submit
<1> QED
  BY <1>1, ResetKeepsMode, PathSame DEF PathStep

LEMMA ReturnsPath ==
  ASSUME PathInv, NoHostName', ReturnCommand \/ ReturnWord \/ ReturnReject \/ RunMode
  PROVE  PathStep
<1>1. Reading
  BY DEF ReturnCommand, ReturnWord, ReturnReject, RunMode
<1>2. Good(cmdtc) /\ OptionsType /\ Path(cmdtc, hdr)
  BY <1>1, PathBefore
<1>3. CASE ReturnCommand \/ RunMode
  BY <1>2, <1>3, SubmittedPath DEF ReturnCommand, RunMode
<1>4. CASE ReturnReject
  <2>1. cmdtc' = Reset(cmdtc) /\ hdr' = hdr
    BY <1>4 DEF ReturnReject
  <2> QED
    BY <1>2, <2>1, ResetKeepsMode, PathSame DEF PathStep
<1>5. CASE ReturnWord
  <2>1. PICK p \in OneWord(cmdtc) :
          Submit(Pushed(cmdtc, p), hdr) \/ (cmdtc' = Pushed(cmdtc, p) /\ hdr' = hdr)
    BY <1>5 DEF ReturnWord
  <2>2. p \in Param /\ (cmdtc.is_negate => ~IsNo(p))
    BY <1>2, OneWordOK
  <2>3. Good(Pushed(cmdtc, p)) /\ Path(Pushed(cmdtc, p), hdr)
    BY <1>2, <2>2, PushedOK, PushKeepsMode, PathSame
  <2>4. CASE Submit(Pushed(cmdtc, p), hdr)
    BY <2>3, <2>4, SubmittedPath
  <2>5. CASE cmdtc' = Pushed(cmdtc, p) /\ hdr' = hdr
    BY <2>3, <2>5 DEF PathStep
  <2> QED
    BY <2>1, <2>4, <2>5
<1> QED
  BY <1>3, <1>4, <1>5

LEMMA EraseLevelPath ==
  ASSUME PathInv, EraseLevel
  PROVE  PathStep
<1> DEFINE k == Len(cmdtc.params_stack) - 1
           d == LevelUp(cmdtc)
           m == cmdtc.stack_checkpoint + 1
           t == cmdtc.tlv_stack
<1>1. /\ Reading /\ hdr' = hdr /\ cmdtc.cmdtc_state = "init" /\ cmdtc' = d
      /\ Top(cmdtc.params_stack) # cmdtc.stack_checkpoint
  BY DEF EraseLevel
<1>2. Good(cmdtc) /\ Path(cmdtc, hdr)
  BY <1>1, PathBefore
<1>3. /\ Len(cmdtc.params_stack) \in Nat /\ cmdtc.stack_checkpoint \in Nat
      /\ cmdtc.stack_checkpoint + 1 \in 1 .. Len(cmdtc.params_stack)
      /\ t \in Seq(TlvType) /\ Len(t) = Len(cmdtc.params_stack)
  BY <1>2, Stacks
<1>4. /\ Len(cmdtc.params_stack) > 1 /\ k \in 1 .. Len(t) /\ m \in 1 .. k /\ m \in 1 .. Len(t)
  BY <1>1, <1>3 DEF Top
<1>5. d.tlv_stack = SubSeq(t, 1, k) /\ d.stack_checkpoint = cmdtc.stack_checkpoint
  <2>1. MarkAfterPop(cmdtc) = cmdtc.stack_checkpoint
    BY <1>1 DEF MarkAfterPop
  <2> QED
    BY <1>1, <1>2, <1>4, <2>1, LevelUpIs
<1> HIDE DEF d, t, k
<1>6. SubSeq(d.tlv_stack, 1, m) = SubSeq(t, 1, m)
  <2> DEFINE s == SubSeq(t, 1, k)
             a == SubSeq(s, 1, m)
             b == SubSeq(t, 1, m)
  <2>1. s \in Seq(TlvType) /\ Len(s) = k /\ \A i \in 1 .. k : s[i] = t[i]
    BY <1>3, <1>4, SubSeqIs
  <2> HIDE DEF s
  <2>2. a \in Seq(TlvType) /\ Len(a) = m /\ \A i \in 1 .. m : a[i] = s[i]
    BY <1>4, <2>1, SubSeqIs
  <2>3. b \in Seq(TlvType) /\ Len(b) = m /\ \A i \in 1 .. m : b[i] = t[i]
    BY <1>3, <1>4, SubSeqIs
  <2>4. \A i \in 1 .. m : i \in 1 .. k
    BY <1>3, <1>4
  <2>5. \A i \in 1 .. Len(a) : a[i] = b[i]
    BY <2>1, <2>2, <2>3, <2>4
  <2> HIDE DEF a, b
  <2>6. a = b
    BY <2>2, <2>3, <2>5, SeqEqual
  <2> QED
    BY <1>5, <2>6 DEF a, b, s
<1> QED
  BY <1>1, <1>2, <1>5, <1>6 DEF PathStep, Path, t

LEMMA PageUpPath ==
  ASSUME PathInv, PageUp
  PROVE  PathStep
<1>1. Reading /\ line = <<>> /\ Top(cmdtc.params_stack) > 0
  BY DEF PageUp
<1>2. \/ UNCHANGED <<cmdtc, hdr>> \/ status' = "corrupt"
      \/ /\ cmdtc' = LeftMode(cmdtc)
         /\ hdr' = PopN(hdr, TopWord(cmdtc) + 3) \o PromptEnd(LeftMode(cmdtc).root)
  BY DEF PageUp, LeftMode, PromptEnd
<1>3. /\ HookInv /\ Good(cmdtc) /\ Placed(cmdtc) /\ Rooted(cmdtc) /\ Path(cmdtc, hdr)
      /\ Len(cmdtc.params_stack) \in Nat
  BY <1>1, PathBefore, Stacks
<1>4. /\ Len(cmdtc.params_stack) > 1 /\ cmdtc.cmdtc_state = "init"
      /\ Len(cmdtc.params_stack) = cmdtc.stack_checkpoint + 1
  BY <1>1, <1>3, OnlyMode DEF Top
<1>5. CASE UNCHANGED <<cmdtc, hdr>>
  BY <1>3, <1>5 DEF PathStep
<1>6. CASE status' = "corrupt"
  BY <1>6 DEF PathStep
<1>7. CASE /\ cmdtc' = LeftMode(cmdtc)
           /\ hdr' = PopN(hdr, TopWord(cmdtc) + 3) \o PromptEnd(LeftMode(cmdtc).root)
  BY <1>1, <1>3, <1>4, <1>7, LeftPath DEF PathStep
<1> QED
  BY <1>2, <1>5, <1>6, <1>7

LEMMA CtrlTPath ==
  ASSUME PathInv, CtrlT
  PROVE  PathStep
<1> DEFINE b == cmdtc.refresh_disabled /\ RefreshValHook \notin Range(cmdtc.params_stack)
<1>1. cmdtc' = [InitCursor EXCEPT !.refresh_disabled = b] /\ hdr' = DEF_CLI_HDR
  BY DEF CtrlT
<1>2. cmdtc'.stack_checkpoint = 0
  BY <1>1 DEF InitCursor
<1> QED
  BY <1>1, <1>2 DEF PathStep, Path

\* Behind a word on the line there is a param above the mode.
LEMMA WordsAboveMode ==
  ASSUME PathInv, Reading, cmdtc.cmdtc_state = "init", line # <<>>
  PROVE  Len(cmdtc.params_stack) > 1
<1>1. /\ Good(cmdtc) /\ cmdtc.icursor = 0
      /\ Len(cmdtc.params_stack) \in Nat /\ cmdtc.stack_checkpoint \in Nat
      /\ cmdtc.stack_checkpoint + 1 <= Len(cmdtc.params_stack)
  BY PathBefore, Stacks DEF Shape
<1>2. PICK w \in Seq(Key) : line = Done(cmdtc) \o w /\ AtHand(cmdtc, w)
  BY PathBefore, ShownBefore
<1>3. w = <<>>
  BY <1>1, <1>2, EmptySeq DEF AtHand
<1>4. ASSUME Len(cmdtc.params_stack) = cmdtc.stack_checkpoint + 1 PROVE FALSE
  <2>1. Done(cmdtc) = <<>>
    BY <1>1, <1>4, DoneOK
  <2>2. line = <<>>
    BY <1>2, <1>3, <2>1
  <2> QED
    BY <2>2
<1> QED
  BY <1>1, <1>4

LEMMA EnterModePath ==
  ASSUME PathInv, NoHostName', EnterMode
  PROVE  PathStep
<1> DEFINE c == IF Nested(cmdtc) THEN WithoutOuter(cmdtc) ELSE cmdtc
           stack == Rebuilt(c.params_stack)
           mode == [c EXCEPT !.params_stack = stack, !.root = c.curr_param,
                             !.stack_checkpoint = Top(stack)]
           h == ModeHdr(c.tlv_stack)
           entered == [c EXCEPT !.root = c.curr_param, !.stack_checkpoint = Top(c.params_stack)]
<1>1. Reading /\ cmdtc.cmdtc_state = "init" /\ line # <<>>
  BY DEF EnterMode
<1>2. \/ UNCHANGED <<cmdtc, hdr>>
      \/ status' = "corrupt"
      \/ stack = c.params_stack /\ (Submit(mode, h) \/ (cmdtc' = mode /\ hdr' = h))
  BY DEF EnterMode
<1>3. Good(cmdtc) /\ Placed(cmdtc) /\ Path(cmdtc, hdr)
  BY <1>1, PathBefore
<1>4. Good(c) /\ c.cmdtc_state = "init" /\ AtWord(c) /\ KeywordsListed(c) /\ Named(c)
  BY <1>1, <1>3, WithoutOuterOK, WithoutOuterPlace DEF Placed
<1>5. Len(c.params_stack) > 1
  <2>1. CASE Nested(cmdtc)
    <3>1. /\ cmdtc.stack_checkpoint \in Nat /\ Len(cmdtc.params_stack) \in Nat
          /\ cmdtc.stack_checkpoint + 1 < Len(cmdtc.params_stack)
          /\ Len(WithoutOuter(cmdtc).params_stack) =
               Len(cmdtc.params_stack) - cmdtc.stack_checkpoint
      BY <1>3, <2>1, WithoutOuterIs
    <3>2. Len(WithoutOuter(cmdtc).params_stack) > 1
      BY <3>1
    <3> QED
      BY <2>1, <3>2
  <2>2. CASE ~Nested(cmdtc)
    BY <1>1, <2>2, WordsAboveMode
  <2> QED
    BY <2>1, <2>2
<1>6. /\ c \in CursorType /\ Len(c.params_stack) \in Nat /\ c.tlv_stack \in Seq(TlvType)
      /\ Len(c.tlv_stack) = Len(c.params_stack)
  BY <1>4, Stacks
<1> HIDE DEF c
<1>7. CASE UNCHANGED <<cmdtc, hdr>>
  BY <1>3, <1>7 DEF PathStep
<1>8. CASE status' = "corrupt"
  BY <1>8 DEF PathStep
<1>9. CASE stack = c.params_stack /\ (Submit(mode, h) \/ (cmdtc' = mode /\ hdr' = h))
  <2>1. mode = entered
    BY <1>6, <1>9 DEF CursorType
  <2>2. entered.tlv_stack = c.tlv_stack /\ entered.stack_checkpoint = Top(c.params_stack)
    BY <1>6 DEF CursorType
  <2>3. Good(entered)
    <3>1. 0 \in Nat
      OBVIOUS
    <3> QED
      BY <1>4, <3>1, EnteredPlace
  <2>4. /\ entered.stack_checkpoint # 0
        /\ entered.stack_checkpoint + 1 = Len(c.tlv_stack)
    <3>1. entered.stack_checkpoint = Len(c.params_stack) - 1
      BY <2>2 DEF Top
    <3>2. ASSUME NEW n \in Nat, NEW k, n > 1, k = n - 1
          PROVE  k # 0 /\ k + 1 = n
      BY <3>2
    <3> HIDE DEF entered
    <3> QED
      BY <1>5, <1>6, <3>1, <3>2
  <2>5. SubSeq(c.tlv_stack, 1, Len(c.tlv_stack)) = c.tlv_stack
    BY <1>6, SubSeqFull
  <2> HIDE DEF mode, entered
  <2>6. Path(mode, h)
    BY <2>1, <2>2, <2>4, <2>5 DEF Path
  <2>7. CASE Submit(mode, h)
    <3> HIDE DEF h
    <3> QED  BY <2>1, <2>3, <2>6, <2>7, SubmittedPath
  <2>8. CASE cmdtc' = mode /\ hdr' = h
    BY <2>6, <2>8 DEF PathStep
  <2> QED
    BY <1>9, <2>7, <2>8
<1> QED
  BY <1>2, <1>7, <1>8, <1>9

LEMMA PathInitially ==
  ASSUME Init
  PROVE  PathInv
<1>1. cmdtc = InitCursor /\ hdr = DEF_CLI_HDR
  BY DEF Init
<1>2. Path(cmdtc, hdr)
  BY <1>1 DEF InitCursor, Path
<1> QED
  BY <1>2, ShownInitially DEF PathInv

LEMMA PathInductive ==
  ASSUME OneKeywordBesideLeaf, PathInv, [Next]_vars, NoHostName'
  PROVE  PathInv'
<1>1. ShownInv'
  BY ShownInductive DEF PathInv
<1>2. CASE Next
  <2>1. PathStep
    BY <1>2, WithinWordPath, SpaceAcceptsPath, ReturnsPath, EraseLevelPath, PageUpPath,
       CtrlTPath, EnterModePath DEF Next
  <2> QED
    BY <1>1, <2>1 DEF PathInv, PathStep
<1>3. CASE UNCHANGED vars
  BY <1>1, <1>3 DEF vars, PathInv
<1> QED
  BY <1>2, <1>3

\* The root of the mode, the checkpoint in the stacks, the hooks in the tree and
\* the prompt name the same mode after every key, in any nesting and leaving of
\* modes, as long as no host name is set: that command replaces the prompt, and
\* page-up then cuts the host name.  The trees are those of LineSpellsStack, in
\* which a line that is not empty has a word for enter-mode to enter.
THEOREM EveryPlaceNamesMode ==
  ASSUME OneKeywordBesideLeaf
  PROVE  Spec /\ []NoHostName => [](status # "corrupt" => ModeIsOne)
<1>1. ASSUME PathInv, status # "corrupt" PROVE PromptIsPath
  BY <1>1 DEF PathInv, Path, PromptIsPath
<1>2. (status # "corrupt" => ModeAtCheckpoint) /\ (status # "corrupt" => UniversalsOnModeRoot)
        /\ PathInv
      => (status # "corrupt" => ModeIsOne)
  BY <1>1 DEF ModeIsOne
<1>3. Spec /\ []NoHostName => []PathInv
  BY PathInitially, PathInductive, PTL DEF Spec
<1> QED
  BY <1>2, <1>3, ModeIsAtCheckpoint, HooksFollowMode, PTL

-----------------------------------------------------------------------------
(* The calls of a batch go down the command.                               *)

\* The members of a finite set of numbers below one of them are fewer than
\* those below a greater one.
LEMMA FewerBelow ==
  ASSUME NEW S \in SUBSET Nat, IsFiniteSet(S), NEW i \in S
  PROVE  /\ Cardinality({j \in S : j < i}) \in 0 .. Cardinality(S) - 1
         /\ \A k \in S : i < k => Cardinality({j \in S : j < i}) < Cardinality({j \in S : j < k})
<1> DEFINE below(k) == {j \in S : j < k}
<1>1. ASSUME NEW k
      PROVE  /\ below(k) \in SUBSET S /\ IsFiniteSet(below(k)) /\ Cardinality(below(k)) \in Nat
             /\ Cardinality(below(k)) <= Cardinality(S)
  <2>1. below(k) \in SUBSET S
    OBVIOUS
  <2> HIDE DEF below
  <2> QED
    BY <2>1, FS_Subset, FS_CardinalityType
<1>2. Cardinality(below(i)) # Cardinality(S)
  <2>1. i \notin below(i)
    OBVIOUS
  <2> HIDE DEF below
  <2> QED
    BY <1>1, <2>1, FS_Subset
<1>3. ASSUME NEW k \in S, i < k
      PROVE  Cardinality(below(i)) < Cardinality(below(k))
  <2>1. i \in below(k) /\ i \notin below(i) /\ below(i) \in SUBSET below(k)
    <3>1. i \in Nat /\ k \in Nat /\ ~ (i < i)
      OBVIOUS
    <3>2. \A j \in S : j < i => j < k
      <4>1. \A j \in S : j \in Nat
        OBVIOUS
      <4> QED
        BY <1>3, <3>1, <4>1
    <3> QED
      BY <1>3, <3>1, <3>2
  <2> HIDE DEF below
  <2>2. Cardinality(below(i)) <= Cardinality(below(k)) /\ Cardinality(below(i)) # Cardinality(below(k))
    BY <1>1, <2>1, FS_Subset
  <2> QED
    BY <1>1, <2>2
<1>4. Cardinality(S) \in Nat
  BY FS_CardinalityType
<1> HIDE DEF below
<1>5. Cardinality(below(i)) \in 0 .. Cardinality(S) - 1
  BY <1>1, <1>2, <1>4
<1> QED
  BY <1>3, <1>5 DEF below

\* Kth enumerates a finite set of numbers in its order.
LEMMA KthIs ==
  ASSUME NEW S \in SUBSET Nat, IsFiniteSet(S), NEW k \in 1 .. Cardinality(S)
  PROVE  Kth(S, k) \in S /\ Cardinality({j \in S : j < Kth(S, k)}) = k - 1
<1> DEFINE n == Cardinality(S)
           T == 0 .. n - 1
           f == [i \in S |-> Cardinality({j \in S : j < i})]
<1>1. n \in Nat
  BY FS_CardinalityType
<1>2. f \in [S -> T]
  BY FewerBelow
<1>3. \A i, m \in S : f[i] = f[m] => i = m
  <2> SUFFICES ASSUME NEW i \in S, NEW m \in S, f[i] = f[m], i # m PROVE FALSE
    OBVIOUS
  <2>1. i < m \/ m < i
    OBVIOUS
  <2>2. ASSUME NEW a \in S, NEW b \in S, a < b
        PROVE  f[a] < f[b]
    BY <2>2, FewerBelow
  <2>3. f[i] < f[m] \/ f[m] < f[i]
    BY <2>1, <2>2
  <2>4. f[i] \in T /\ f[m] \in T
    BY <1>2
  <2> HIDE DEF f
  <2> QED
    BY <1>1, <2>3, <2>4
<1>4. f \in Injection(S, T)
  <2> HIDE DEF f, T
  <2> QED
    BY <1>2, <1>3 DEF Injection, IsInjective
<1>5. IsFiniteSet(T) /\ Cardinality(T) = n
  <2>1. 0 \in Int /\ n - 1 \in Int
    BY <1>1
  <2>2. IsFiniteSet(T) /\ Cardinality(T) = IF 0 > n - 1 THEN 0 ELSE n - 1 - 0 + 1
    <3> HIDE DEF n
    <3> QED  BY <2>1, FS_Interval
  <2> HIDE DEF T, n
  <2> QED
    BY <1>1, <2>2
<1>6. f \in Surjection(S, T)
  <2> HIDE DEF f, T
  <2> QED
    BY <1>4, <1>5, FS_Injection
<1>7. k - 1 \in T
  <2> HIDE DEF f
  <2> QED
    BY <1>1
<1>8. PICK i \in S : f[i] = k - 1
  <2> HIDE DEF f, T
  <2> QED
    BY <1>6, <1>7 DEF Surjection
<1>9. \E m \in S : Cardinality({j \in S : j < m}) = k - 1
  BY <1>8
<1> QED
  BY <1>9 DEF Kth

LEMMA KthAscends ==
  ASSUME NEW S \in SUBSET Nat, IsFiniteSet(S), NEW k \in 1 .. Cardinality(S) - 1
  PROVE  Kth(S, k) < Kth(S, k + 1)
<1> DEFINE a == Kth(S, k)
           b == Kth(S, k + 1)
<1>1. Cardinality(S) \in Nat
  BY FS_CardinalityType
<1>2. k \in 1 .. Cardinality(S) /\ k + 1 \in 1 .. Cardinality(S)
  BY <1>1
<1>3. /\ a \in S /\ Cardinality({j \in S : j < a}) = k - 1
      /\ b \in S /\ Cardinality({j \in S : j < b}) = k + 1 - 1
  BY <1>2, KthIs
<1> HIDE DEF a, b
<1>4. a # b
  BY <1>3
<1>5. ~ (b < a)
  <2>1. b < a => Cardinality({j \in S : j < b}) < Cardinality({j \in S : j < a})
    BY <1>3, FewerBelow
  <2> QED
    BY <1>3, <2>1
<1>6. a \in Nat /\ b \in Nat
  BY <1>3
<1>7. a < b
  BY <1>4, <1>5, <1>6
<1> QED
  BY <1>7 DEF a, b

LEMMA InFront ==
  ASSUME NEW T, NEW r \in Seq(T), Len(r) = 1, NEW u \in Seq(T), NEW n \in Nat, Len(u) = n
  PROVE  /\ r \o u \in Seq(T) /\ Len(r \o u) = 1 + n /\ (r \o u)[1] = r[1]
         /\ \A i \in 2 .. 1 + n : (r \o u)[i] = u[i - 1]
<1>1. /\ r \o u \in Seq(T) /\ Len(r \o u) = 1 + n
      /\ \A i \in 1 .. 1 + n : (r \o u)[i] = IF i <= 1 THEN r[i] ELSE u[i - 1]
  <2>1. /\ r \o u \in Seq(T) /\ Len(r \o u) = Len(r) + Len(u)
        /\ \A i \in 1 .. Len(r) + Len(u) : (r \o u)[i] = IF i <= Len(r) THEN r[i] ELSE u[i - Len(r)]
    BY ConcatProperties, Zenon
  <2> DEFINE s == r \o u
  <2> HIDE DEF s
  <2>2. /\ s \in Seq(T) /\ Len(s) = Len(r) + Len(u)
        /\ \A i \in 1 .. Len(r) + Len(u) : s[i] = IF i <= Len(r) THEN r[i] ELSE u[i - Len(r)]
    BY <2>1 DEF s
  <2>3. /\ s \in Seq(T) /\ Len(s) = 1 + n
        /\ \A i \in 1 .. 1 + n : s[i] = IF i <= 1 THEN r[i] ELSE u[i - 1]
    BY <2>2
  <2> QED
    BY <2>3 DEF s
<1>2. 1 \in 1 .. 1 + n /\ \A i \in 2 .. 1 + n : i \in 1 .. 1 + n /\ ~ (i <= 1)
  OBVIOUS
<1> QED
  BY <1>1, <1>2

LEMMA FromOn ==
  ASSUME NEW T, NEW p \in Seq(T), NEW a \in Nat \ {0}, NEW l \in Nat, Len(p) = l, NEW n \in Nat,
         n = IF a <= l THEN l - a + 1 ELSE 0
  PROVE  /\ SubSeq(p, a, l) \in Seq(T) /\ Len(SubSeq(p, a, l)) = n
         /\ \A i \in 1 .. n : a + i - 1 \in 1 .. l /\ SubSeq(p, a, l)[i] = p[a + i - 1]
<1>1. l \in Int /\ l <= Len(p)
  OBVIOUS
<1>2. /\ SubSeq(p, a, l) \in Seq(T) /\ Len(SubSeq(p, a, l)) = n
      /\ \A i \in 1 .. l - a + 1 : SubSeq(p, a, l)[i] = p[a + i - 1]
  BY <1>1, SubSeqType
<1>3. \A i \in 1 .. n : i \in 1 .. l - a + 1 /\ a + i - 1 \in 1 .. l
  OBVIOUS
<1> QED
  BY <1>2, <1>3

\* The cursor a command runs with has one word on either stack.
LEMMA ExecutingIs ==
  ASSUME NEW c, Good(c)
  PROVE  LET x == Executing(c) IN
         /\ x.tlv_stack \in Seq(TlvType) /\ Len(x.params_stack) \in Nat
         /\ Len(x.tlv_stack) = Len(x.params_stack) /\ x.stack_checkpoint \in Nat
         /\ \A i \in 1 .. Len(x.params_stack) : x.tlv_stack[i].param = x.params_stack[i]
<1> DEFINE x == Executing(c)
           t == c.tlv_stack
           p == c.params_stack
           a == c.stack_checkpoint + 2
<1>1. /\ t \in Seq(TlvType) /\ p \in Seq(Param) /\ Len(p) \in Nat /\ Len(t) = Len(p)
      /\ c.stack_checkpoint \in Nat /\ \A i \in 1 .. Len(p) : t[i].param = p[i]
      /\ a \in Nat \ {0}
  BY Stacks DEF Good, InStep
<1>2. CASE ~Nested(c)
  <2>1. x = c
    BY <1>2 DEF Executing
  <2> HIDE DEF x
  <2> QED
    BY <1>1, <2>1 DEF x
<1>3. CASE Nested(c)
  <2> DEFINE e == <<RootHook>>
             r == <<Tlv(RootHook, <<>>)>>
             s == SubSeq(p, a, Len(p))
             u == SubSeq(t, a, Len(t))
             n == IF a <= Len(p) THEN Len(p) - a + 1 ELSE 0
  <2>1. /\ x.params_stack = e \o s /\ x.tlv_stack = r \o u /\ x.stack_checkpoint = 0
    BY <1>3 DEF Executing, InitCursor
  <2>2. n \in Nat /\ n = IF a <= Len(p) THEN Len(p) - a + 1 ELSE 0
    BY <1>1
  <2>5. /\ r \in Seq(TlvType) /\ e \in Seq(Param) /\ Len(r) = 1 /\ Len(e) = 1
        /\ e[1] = RootHook /\ r[1].param = RootHook
    BY InitCursorOK, TreeFacts DEF InitCursor, Tlv
  <2> HIDE DEF x, t, p, a, e, r, n
  <2>3. /\ s \in Seq(Param) /\ Len(s) = n
        /\ \A i \in 1 .. n : a + i - 1 \in 1 .. Len(p) /\ s[i] = p[a + i - 1]
    BY <1>1, <2>2, FromOn
  <2>4. /\ u \in Seq(TlvType) /\ Len(u) = n
        /\ \A i \in 1 .. n : u[i] = t[a + i - 1]
    BY <1>1, <2>2, FromOn
  <2> HIDE DEF s, u
  <2>6. /\ Len(e \o s) = 1 + n /\ (e \o s)[1] = e[1]
        /\ \A i \in 2 .. 1 + n : (e \o s)[i] = s[i - 1]
    BY <2>2, <2>3, <2>5, InFront
  <2>10. /\ r \o u \in Seq(TlvType) /\ Len(r \o u) = 1 + n /\ (r \o u)[1] = r[1]
         /\ \A i \in 2 .. 1 + n : (r \o u)[i] = u[i - 1]
    BY <2>2, <2>4, <2>5, InFront
  <2>7. ASSUME NEW i \in 1 .. 1 + n PROVE (r \o u)[i].param = (e \o s)[i]
    <3>1. CASE i = 1
      BY <2>5, <2>6, <2>10, <3>1
    <3>2. CASE i # 1
      <4>1. i - 1 \in 1 .. n /\ i \in 2 .. 1 + n
        BY <2>2, <3>2
      <4> DEFINE k == i - 1
      <4>2. (r \o u)[i] = u[k] /\ (e \o s)[i] = s[k]
        BY <2>6, <2>10, <4>1
      <4>3. a + k - 1 \in 1 .. Len(p) /\ s[k] = p[a + k - 1] /\ u[k] = t[a + k - 1]
        <5> HIDE DEF k
        <5> QED
          BY <2>3, <2>4, <4>1 DEF k
      <4> HIDE DEF k
      <4> QED
        BY <1>1, <4>2, <4>3
    <3> QED
      BY <3>1, <3>2
  <2>8. x.stack_checkpoint \in Nat /\ Len(x.params_stack) \in Nat
    BY <2>1, <2>2, <2>6, 0 \in Nat
  <2>9. \A i \in 1 .. Len(x.params_stack) : x.tlv_stack[i].param = x.params_stack[i]
    BY <2>1, <2>6, <2>7
  <2> QED
    BY <2>1, <2>6, <2>8, <2>9, <2>10 DEF x
<1> QED
  BY <1>2, <1>3

LEMMA CutOfCut ==
  ASSUME NEW T, NEW t \in Seq(T), NEW b \in 1 .. Len(t), NEW a \in 1 .. b
  PROVE  SubSeq(SubSeq(t, 1, b), 1, a) = SubSeq(t, 1, a)
<1> DEFINE s == SubSeq(t, 1, b)
           u == SubSeq(s, 1, a)
           v == SubSeq(t, 1, a)
<1>0. Len(t) \in Nat
  BY LenProperties
<1>1. s \in Seq(T) /\ Len(s) = b /\ \A i \in 1 .. b : s[i] = t[i]
  BY SubSeqIs
<1>2. a \in 1 .. Len(t) /\ \A i \in 1 .. a : i \in 1 .. b
  BY <1>0
<1>3. v \in Seq(T) /\ Len(v) = a /\ \A i \in 1 .. a : v[i] = t[i]
  BY <1>2, SubSeqIs
<1> HIDE DEF s, v
<1>4. u \in Seq(T) /\ Len(u) = a /\ \A i \in 1 .. a : u[i] = s[i]
  BY <1>1, SubSeqIs
<1> HIDE DEF u
<1>5. \A i \in 1 .. Len(u) : u[i] = v[i]
  BY <1>1, <1>2, <1>3, <1>4
<1>6. u = v
  BY <1>3, <1>4, <1>5, SeqEqual
<1> QED
  BY <1>6 DEF s, u, v

\* The calls of a command.
LEMMA CallsGoDown ==
  ASSUME NEW c, Good(c), NEW h, Submit(c, h)
  PROVE  BatchGoesDown'
<1> DEFINE x == Executing(c)
           cbk == x.params_stack[CallbackSlot(x) + 1]
           todo == Invocations(x, cbk)
           S == Called(x)
           call(p, tlvs) == [param |-> p, tlvs |-> tlvs, op |-> OpMode(x), filters |-> Filters(x)]
           t == x.tlv_stack
           p == x.params_stack
           all == call(cbk, t)
           upTo(i) == call(p[i], SubSeq(t, 1, i))
           n == Cardinality(S)
           batch == [k \in 1 .. n |-> upTo(Kth(S, k))]
<1>1. /\ t \in Seq(TlvType) /\ Len(p) \in Nat /\ Len(t) = Len(p)
      /\ x.stack_checkpoint \in Nat /\ \A i \in 1 .. Len(p) : t[i].param = p[i]
  BY ExecutingIs
<1>2. calls' = <<>> \/ \E m \in 0 .. Len(todo) : calls' = SubSeq(todo, 1, m)
  BY DEF Submit, Triggered, NoOutput
<1>3. todo = batch \/ todo = <<all>>
  BY DEF Invocations
<1>4. /\ S \subseteq 1 .. Len(p) /\ S \in SUBSET Nat /\ IsFiniteSet(S)
      /\ \A i \in S : ~Repeated(x, i)
  <2>1. S \subseteq 1 .. Len(p) /\ \A i \in S : ~Repeated(x, i)
    <3> HIDE DEF x
    <3>1. \A i \in x.stack_checkpoint + 2 .. Len(p) : i \in 1 .. Len(p)
      BY <1>1
    <3> QED
      BY <3>1 DEF Called
  <2>2. IsFiniteSet(1 .. Len(p)) /\ 1 .. Len(p) \in SUBSET Nat
    <3> HIDE DEF p
    <3>1. 1 \in Int /\ Len(p) \in Int
      BY <1>1
    <3> QED
      BY <1>1, <3>1, FS_Interval
  <2> HIDE DEF S, p, x
  <2> QED
    BY <2>1, <2>2, FS_Subset
<1>5. n \in Nat
  <2> HIDE DEF S
  <2> QED
    BY <1>4, FS_CardinalityType
<1>6. ASSUME NEW k \in 1 .. n - 1
      PROVE  /\ Len(batch[k].tlvs) < Len(batch[k + 1].tlvs)
             /\ IsPrefix(batch[k].tlvs, batch[k + 1].tlvs)
             /\ batch[k].param \in Recursive =>
                  batch[k + 1].tlvs[Len(batch[k].tlvs) + 1].param # batch[k].param
  <2> DEFINE a == Kth(S, k)
             b == Kth(S, k + 1)
             s == SubSeq(t, 1, a)
             u == SubSeq(t, 1, b)
  <2>1. k \in 1 .. n /\ k + 1 \in 1 .. n
    BY <1>5
  <2>2. a \in S /\ b \in S /\ a < b
    <3> HIDE DEF S
    <3> QED
      BY <1>4, <2>1, KthIs, KthAscends
  <2>3. /\ batch[k].param = p[a] /\ batch[k].tlvs = s /\ batch[k + 1].tlvs = u
    <3> HIDE DEF n, S, x
    <3> QED
      BY <2>1
  <2>4. ~Repeated(x, a)
    BY <1>4, <2>2
  <2>5. a < Len(p) /\ (p[a] \in Recursive => p[a] # p[a + 1])
    <3>1. a < Len(p)
      <4> HIDE DEF a, b, S, p
      <4>1. a \in 1 .. Len(p) /\ b \in 1 .. Len(p)
        BY <1>4, <2>2
      <4> QED
        BY <1>1, <2>2, <4>1
    <3> HIDE DEF a, x
    <3> QED
      BY <2>4, <3>1 DEF Repeated
  <2> HIDE DEF batch, a, b, p, t, S, x
  <2>6. a \in 1 .. Len(t) /\ b \in 1 .. Len(t) /\ a \in 1 .. b /\ a + 1 \in 1 .. b
        /\ a + 1 \in 1 .. Len(p)
    BY <1>1, <1>4, <2>2
  <2>7. Len(s) = a /\ s \in Seq(TlvType)
    BY <1>1, <2>6, SubSeqIs
  <2>8. Len(u) = b /\ u[a + 1] = t[a + 1]
    BY <1>1, <2>6, SubSeqIs
  <2>9. SubSeq(u, 1, a) = s
    BY <1>1, <2>6, CutOfCut
  <2>10. SubSeq(s, 1, a) = s
    <3> HIDE DEF s
    <3> QED
      BY <2>7, SubSeqFull
  <2> HIDE DEF s, u
  <2>11. Len(s) < Len(u)
    BY <2>2, <2>7, <2>8
  <2>12. IsPrefix(s, u)
    <3>1. Len(s) <= Len(u)
      BY <2>6, <2>7, <2>8
    <3> QED
      BY <2>7, <2>9, <2>10, <3>1 DEF IsPrefix
  <2>13. p[a] \in Recursive => u[Len(s) + 1].param # p[a]
    BY <1>1, <2>5, <2>6, <2>7, <2>8
  <2> QED
    BY <2>3, <2>11, <2>12, <2>13
<1>7. BatchGoesDown' <=>
        \A i \in 1 .. Len(calls') - 1 :
          /\ Len(calls'[i].tlvs) < Len(calls'[i + 1].tlvs)
          /\ IsPrefix(calls'[i].tlvs, calls'[i + 1].tlvs)
          /\ calls'[i].param \in Recursive =>
               calls'[i + 1].tlvs[Len(calls'[i].tlvs) + 1].param # calls'[i].param
  BY DEF BatchGoesDown, IsPrefix
<1>8. CASE calls' = <<>>
  <2>1. 1 .. Len(calls') - 1 = {}
    BY <1>8
  <2> QED
    BY <1>7, <2>1
<1>9. ASSUME NEW m \in 0 .. Len(todo), calls' = SubSeq(todo, 1, m), calls' # <<>>
      PROVE  BatchGoesDown'
  <2>1. PICK T : todo \in Seq(T)
    BY InvocationsAre
  <2> HIDE DEF batch, todo, all
  <2>2. Len(todo) \in Nat /\ m # 0
    <3>1. 1 \in Int /\ 0 \in Int /\ 0 < 1
      OBVIOUS
    <3>2. SubSeq(todo, 1, 0) = <<>>
      BY <3>1, SubSeqEmpty
    <3> QED
      BY <1>9, <2>1, <3>2, LenProperties
  <2>3. m \in 1 .. Len(todo)
    BY <2>2
  <2>4. Len(calls') = m /\ \A i \in 1 .. m : calls'[i] = todo[i]
    BY <1>9, <2>1, <2>3, SubSeqIs
  <2>5. CASE todo = <<all>>
    <3>1. Len(todo) = 1
      BY <2>5
    <3>2. 1 .. Len(calls') - 1 = {}
      BY <2>3, <2>4, <3>1
    <3> QED
      BY <1>7, <3>2
  <2>6. CASE todo = batch
    <3>1. Len(todo) = n
      <4> HIDE DEF n
      <4>1. Len(batch) = n
        BY <1>5 DEF batch
      <4> QED
        BY <2>6, <4>1
    <3>2. \A i \in 1 .. Len(calls') - 1 :
            /\ i \in 1 .. n - 1
            /\ calls'[i] = batch[i] /\ calls'[i + 1] = batch[i + 1]
      <4> HIDE DEF n
      <4>1. \A i \in 1 .. m - 1 : i \in 1 .. m /\ i + 1 \in 1 .. m /\ i \in 1 .. n - 1
        BY <1>5, <2>3, <3>1
      <4> QED
        BY <2>4, <2>6, <4>1
    <3> HIDE DEF n
    <3> QED
      BY <1>6, <1>7, <3>2
  <2> QED
    BY <1>3, <2>5, <2>6
<1> QED
  BY <1>2, <1>8, <1>9

LEMMA NoCallsGoDown ==
  ASSUME calls' = <<>>
  PROVE  BatchGoesDown'
<1>1. 1 .. Len(calls') - 1 = {}
  OBVIOUS
<1> QED
  BY <1>1 DEF BatchGoesDown

LEMMA GoDownInductive ==
  ASSUME HookInv, BatchGoesDown, [Next]_vars
  PROVE  BatchGoesDown'
<1>1. CASE UNCHANGED vars
  BY <1>1 DEF vars, BatchGoesDown
<1>2. ASSUME Reading PROVE Good(cmdtc) /\ Placed(cmdtc) /\ OptionsType
  BY <1>2, HooksBefore
<1>3. CASE ReturnCommand \/ RunMode
  BY <1>2, <1>3, CallsGoDown DEF ReturnCommand, RunMode
<1>4. CASE ReturnWord
  <2>1. Reading
    BY <1>4 DEF ReturnWord
  <2>2. PICK q \in OneWord(cmdtc) : Submit(Pushed(cmdtc, q), hdr) \/ calls' = <<>>
    BY <1>4 DEF ReturnWord, NoOutput
  <2>3. Good(Pushed(cmdtc, q))
    BY <1>2, <2>1, OneWordOK, PushedOK
  <2> QED
    BY <2>2, <2>3, CallsGoDown, NoCallsGoDown
<1>5. CASE EnterMode
  <2> DEFINE c == IF Nested(cmdtc) THEN WithoutOuter(cmdtc) ELSE cmdtc
             stack == Rebuilt(c.params_stack)
             mode == [c EXCEPT !.params_stack = stack, !.root = c.curr_param,
                               !.stack_checkpoint = Top(stack)]
             entered == [c EXCEPT !.root = c.curr_param, !.stack_checkpoint = Top(c.params_stack)]
  <2>1. Reading /\ cmdtc.cmdtc_state = "init"
    BY <1>5 DEF EnterMode
  <2>2. calls' = <<>> \/ (stack = c.params_stack /\ \E h : Submit(mode, h))
    BY <1>5 DEF EnterMode, NoOutput
  <2>3. Good(c) /\ c.cmdtc_state = "init" /\ AtWord(c) /\ KeywordsListed(c) /\ Named(c)
    BY <1>2, <2>1, WithoutOuterOK, WithoutOuterPlace DEF Placed
  <2> HIDE DEF c
  <2>4. CASE stack = c.params_stack /\ \E h : Submit(mode, h)
    <3>1. c \in CursorType
      BY <2>3, Stacks
    <3>2. mode = entered
      BY <2>4, <3>1 DEF CursorType
    <3>3. Good(entered)
      BY <2>3, EnteredPlace, 0 \in Nat
    <3> HIDE DEF mode, entered
    <3> QED
      BY <2>4, <3>2, <3>3, CallsGoDown
  <2> QED
    BY <2>2, <2>4, NoCallsGoDown
<1>6. CASE \/ \E k \in Key : TypeChar(k)
           \/ SpaceLists \/ SpaceCompletes \/ SpaceAccepts \/ AutoCompletionSpins
           \/ ReturnReject \/ EraseChar \/ EraseWord \/ EraseLevel \/ PageUp \/ CtrlT
  <2>1. calls' = <<>>
    BY <1>6 DEF TypeChar, SpaceLists, SpaceCompletes, SpaceAccepts, AutoCompletionSpins,
       ReturnReject, EraseChar, EraseWord, EraseLevel, PageUp, CtrlT, NoOutput
  <2> QED
    BY <2>1, NoCallsGoDown
<1> QED
  BY <1>1, <1>3, <1>4, <1>5, <1>6 DEF Next

\* cmd_tree_trigger_cli calls the application for one callback after the other
\* in the order of the command, each with more of its TLVs than the one before,
\* and skips all but the last of a run of a recursive param, in every tree.
THEOREM BatchesGoDown == Spec => []BatchGoesDown
<1>1. Init => BatchGoesDown
  <2> SUFFICES ASSUME Init PROVE BatchGoesDown
    OBVIOUS
  <2>1. 1 .. Len(calls) - 1 = {}
    BY DEF Init
  <2> QED
    BY <2>1 DEF BatchGoesDown
<1>2. HookInv /\ BatchGoesDown /\ [Next]_vars => BatchGoesDown'
  BY GoDownInductive
<1> QED
  BY <1>1, <1>2, HookInvariance, PTL DEF Spec
====================================================================
