--------------------------- MODULE LineEditor_proofs ---------------------------
(***************************************************************************)
(* What holds of the line editor for prompts, buffers and terminals of     *)
(* every size: the buffer stays a prompt and one text, each key does to    *)
(* the text what it says, the terminal's cursor stays on the position and  *)
(* the terminal shows the line.                                            *)
(***************************************************************************)
EXTENDS LineEditor, SequenceTheorems, TLAPS

-----------------------------------------------------------------------------
(* Rows and columns.                                                       *)

LEMMA Sizes ==
  /\ MAX_COMMAND_LENGTH \in Nat \ {0} /\ COLS \in Nat \ {0} /\ ROWS \in Nat \ {0}
  /\ start_pos \in Nat /\ start_pos < MAX_COMMAND_LENGTH /\ start_pos < COLS
  /\ ROWS * COLS \in Nat /\ 2 * MAX_COMMAND_LENGTH < ROWS * COLS
<1>1. MAX_COMMAND_LENGTH \in Nat \ {0} /\ COLS \in Nat \ {0} /\ ROWS \in Nat \ {0}
  BY EditorAssumption
<1>2. Len(Prompt) \in Nat
  BY EditorAssumption, LenProperties
<1>3. ROWS * COLS \in Nat
  BY <1>1
<1> QED
  BY <1>1, <1>2, <1>3, EditorAssumption DEF start_pos

LEMMA Division ==
  ASSUME NEW n \in Nat
  PROVE  /\ n \div COLS \in Nat /\ n % COLS \in 0 .. COLS - 1
         /\ n < COLS => n \div COLS = 0 /\ n % COLS = n
BY Sizes

\* A terminal has its cells and the position of its cursor.
Term(t) == t = [cells |-> t.cells, pos |-> t.pos] /\ t.pos \in Nat

LEMMA ColumnIs ==
  ASSUME NEW t, Term(t)
  PROVE  /\ Row(t) \in Nat /\ Column(t) \in 0 .. COLS - 1
         /\ t.pos < COLS => Row(t) = 0 /\ Column(t) = t.pos
BY Division DEF Term, Row, Column

LEMMA Repositioned ==
  ASSUME NEW t, NEW cs, NEW old, t = [cells |-> cs, pos |-> old], NEW p
  PROVE  [t EXCEPT !.pos = p] = [cells |-> cs, pos |-> p]
OBVIOUS

\* The position of a row and a column.
Place(row, col) == row * COLS + col

LEMMA FirstRow ==
  ASSUME NEW col \in Int
  PROVE  Place(0, col) = col
<1>1. 0 * COLS = 0
  BY Sizes
<1> QED
  BY <1>1 DEF Place

LEMMA MoveIs ==
  ASSUME NEW t, Term(t), NEW row \in Nat, NEW col \in Int
  PROVE  LET u == Move(t, row, col) IN
         /\ Term(u) /\ u.cells = t.cells
         /\ u.pos = IF col \in 0 .. COLS - 1 THEN Place(row, col) ELSE t.pos
<1>1. CASE col \in 0 .. COLS - 1
  <2> DEFINE p == row * COLS + col
  <2>1. p \in Nat
    <3>1. row * COLS \in Nat
      BY Sizes
    <3> QED
      BY <1>1, <3>1, Sizes
  <2> HIDE DEF p
  <2>2. [t EXCEPT !.pos = p] = [cells |-> t.cells, pos |-> p]
    BY Repositioned DEF Term
  <2>3. Move(t, row, col) = [t EXCEPT !.pos = p]
    BY <1>1 DEF Move, p
  <2> QED
    BY <1>1, <2>1, <2>2, <2>3 DEF Term, p, Place
<1>2. CASE col \notin 0 .. COLS - 1
  BY <1>2 DEF Move
<1> QED
  BY <1>1, <1>2

LEMMA WrittenIs ==
  ASSUME NEW t, Term(t), NEW n \in Nat, NEW s, Len(s) = n, DOMAIN s = 1 .. n
  PROVE  LET u == Written(t, s) IN
         /\ Term(u) /\ u.pos = t.pos + n
         /\ \A q \in Cell : u.cells[q] = IF q \in t.pos .. t.pos + n - 1
                                         THEN s[q - t.pos + 1] ELSE t.cells[q]
<1> DEFINE p == t.pos + n
           cs == [q \in Cell |-> IF q - t.pos + 1 \in DOMAIN s THEN s[q - t.pos + 1] ELSE t.cells[q]]
<1>1. Written(t, s) = [cells |-> cs, pos |-> p]
  BY DEF Written
<1>2. t.pos \in Nat /\ p \in Nat /\ \A q \in Cell : q \in Int
  BY Sizes DEF Term, Cell
<1>3. \A q \in Cell : q - t.pos + 1 \in DOMAIN s <=> q \in t.pos .. p - 1
  BY <1>2
<1>4. \A q \in Cell : cs[q] = IF q \in t.pos .. p - 1 THEN s[q - t.pos + 1] ELSE t.cells[q]
  BY <1>3
<1> HIDE DEF cs
<1> QED
  BY <1>1, <1>2, <1>4 DEF Term

-----------------------------------------------------------------------------
(* The buffer.                                                             *)

Char == Letter \cup {NUL} \cup {Prompt[i] : i \in 1 .. start_pos}
CliType == [clibuff : [Index -> Char], current_pos : Nat, end_pos : Nat]

\* What TextIsWhole says of the prompt and of the rest, character by character.
Whole(c) ==
  /\ c \in CliType
  /\ start_pos <= c.end_pos /\ c.end_pos <= MAX_COMMAND_LENGTH
  /\ c.end_pos < MAX_COMMAND_LENGTH =>
       \A i \in Index : IF i < start_pos THEN c.clibuff[i] = Prompt[i + 1]
                        ELSE (c.clibuff[i] = NUL) <=> (i >= c.end_pos)
\* A line the keys are read for.
Ready(c) == Whole(c) /\ Sound(c) /\ c.end_pos < MAX_COMMAND_LENGTH

LEMMA ReadyIs ==
  ASSUME NEW c, Ready(c)
  PROVE  /\ c \in CliType /\ c.current_pos \in Nat /\ c.end_pos \in Nat
         /\ start_pos <= c.current_pos /\ c.current_pos <= c.end_pos
         /\ c.end_pos < MAX_COMMAND_LENGTH
         /\ c.current_pos \in Index /\ c.end_pos \in Index
         /\ \A i \in Index : i \in Nat /\ c.clibuff[i] \in Char
         /\ \A i \in Index : IF i < start_pos THEN c.clibuff[i] = Prompt[i + 1]
                             ELSE (c.clibuff[i] = NUL) <=> (i >= c.end_pos)
BY Sizes DEF Ready, Whole, Sound, CliType, Index

LEMMA CharsAre ==
  ASSUME NEW c, NEW i \in Int, NEW j \in Int, i <= j
  PROVE  /\ Len(Chars(c, i, j)) = j - i /\ DOMAIN Chars(c, i, j) = 1 .. j - i /\ j - i \in Nat
         /\ \A k \in 1 .. j - i : Chars(c, i, j)[k] = c.clibuff[i + k - 1]
BY DEF Chars

\* The prompt is a sequence.
LEMMA PromptIs ==
  /\ Prompt = [k \in 1 .. start_pos |-> Prompt[k]]
  /\ \A k \in 1 .. start_pos : Prompt[k] # NUL
<1>1. Prompt \in Seq({Prompt[i] : i \in DOMAIN Prompt} \ {NUL})
  BY EditorAssumption
<1> DEFINE T == {Prompt[i] : i \in DOMAIN Prompt} \ {NUL}
<1> HIDE DEF T
<1>2. Prompt \in Seq(T)
  BY <1>1 DEF T
<1>3. Prompt \in [1 .. Len(Prompt) -> T]
  BY <1>2, LenProperties
<1>4. NUL \notin T
  BY DEF T
<1> QED
  BY <1>3, <1>4 DEF start_pos

LEMMA WholeIsWhole ==
  ASSUME NEW c, Whole(c)
  PROVE  TextIsWhole(c)
<1> SUFFICES ASSUME c.end_pos < MAX_COMMAND_LENGTH
             PROVE  /\ Chars(c, 0, start_pos) = Prompt
                    /\ \A i \in Index : (c.clibuff[i] = NUL) <=> (i >= c.end_pos)
  BY DEF TextIsWhole
<1>1. \A i \in Index : IF i < start_pos THEN c.clibuff[i] = Prompt[i + 1]
                       ELSE (c.clibuff[i] = NUL) <=> (i >= c.end_pos)
  BY DEF Whole
<1>2. c.end_pos \in Nat /\ start_pos <= c.end_pos /\ \A i \in Index : i \in Nat
  BY Sizes DEF Whole, CliType, Index
<1>3. Chars(c, 0, start_pos) = Prompt
  <2>1. \A k \in 1 .. start_pos : k - 1 \in Index /\ 0 + k - 1 = k - 1 /\ k - 1 < start_pos
                                  /\ k - 1 + 1 = k
    BY Sizes DEF Index
  <2>2. \A k \in 1 .. start_pos : c.clibuff[0 + k - 1] = Prompt[k]
    BY <1>1, <2>1
  <2>3. start_pos - 0 = start_pos
    BY Sizes
  <2> QED
    BY <2>2, <2>3, PromptIs DEF Chars
<1>4. ASSUME NEW i \in Index
      PROVE  (c.clibuff[i] = NUL) <=> (i >= c.end_pos)
  <2>1. CASE i < start_pos
    <3>1. c.clibuff[i] = Prompt[i + 1] /\ i + 1 \in 1 .. start_pos
      BY <1>1, <1>2, <2>1, Sizes
    <3> QED
      BY <1>2, <2>1, <3>1, PromptIs, Sizes
  <2>2. CASE ~ (i < start_pos)
    BY <1>1, <2>2
  <2> QED
    BY <2>1, <2>2
<1> QED
  BY <1>3, <1>4

\* A character behind the text, or in it.
Appended(c, k) == [Put(c, k) EXCEPT !.end_pos = @ + 1]
Inserted(c, k) == Put(ShiftRight(c), k)

LEMMA PlaceUpdated ==
  ASSUME NEW c \in CliType, NEW p \in Nat, NEW d, d = [c EXCEPT !.current_pos = p]
  PROVE  d \in CliType /\ d.clibuff = c.clibuff /\ d.current_pos = p /\ d.end_pos = c.end_pos
BY DEF CliType

LEMMA EndUpdated ==
  ASSUME NEW c \in CliType, NEW e \in Nat, NEW d, d = [c EXCEPT !.end_pos = e]
  PROVE  d \in CliType /\ d.clibuff = c.clibuff /\ d.current_pos = c.current_pos /\ d.end_pos = e
BY DEF CliType

LEMMA PutIs ==
  ASSUME NEW c \in CliType, c.current_pos \in Index, NEW k \in Char
  PROVE  LET d == Put(c, k) IN
         /\ d \in CliType /\ d.current_pos = c.current_pos + 1 /\ d.end_pos = c.end_pos
         /\ \A i \in Index : d.clibuff[i] = IF i = c.current_pos THEN k ELSE c.clibuff[i]
<1> DEFINE b == [c.clibuff EXCEPT ![c.current_pos] = k]
           p == c.current_pos + 1
           e == c.end_pos
<1>1. b \in [Index -> Char] /\ p \in Nat /\ e \in Nat
      /\ \A i \in Index : b[i] = IF i = c.current_pos THEN k ELSE c.clibuff[i]
  BY DEF CliType
<1>2. Put(c, k) = [c EXCEPT !.clibuff = b, !.current_pos = p]
  BY DEF Put
<1> HIDE DEF b, p
<1>3. [c EXCEPT !.clibuff = b, !.current_pos = p].clibuff = b
      /\ [c EXCEPT !.clibuff = b, !.current_pos = p].current_pos = p
      /\ [c EXCEPT !.clibuff = b, !.current_pos = p].end_pos = e
      /\ [c EXCEPT !.clibuff = b, !.current_pos = p] \in CliType
  BY <1>1 DEF CliType
<1> QED
  BY <1>1, <1>2, <1>3 DEF p

LEMMA AppendedIs ==
  ASSUME NEW c, Ready(c), AtEnd(c), NEW k \in Letter
  PROVE  LET d == Appended(c, k) IN
         /\ Whole(d) /\ d.current_pos = c.end_pos + 1 /\ d.end_pos = c.end_pos + 1
         /\ \A i \in Index : d.clibuff[i] = IF i = c.end_pos THEN k ELSE c.clibuff[i]
<1> DEFINE d == Appended(c, k)
<1>1. c.current_pos = c.end_pos
  BY DEF AtEnd
<1>2. k \in Char /\ k # NUL
  BY EditorAssumption DEF Char
<1>3. d \in CliType /\ d.current_pos = c.end_pos + 1 /\ d.end_pos = c.end_pos + 1
      /\ \A i \in Index : d.clibuff[i] = IF i = c.end_pos THEN k ELSE c.clibuff[i]
  <2> DEFINE e == c.end_pos + 1
  <2>1. e \in Nat /\ c \in CliType /\ c.current_pos \in Index
    BY ReadyIs
  <2>2. /\ Put(c, k) \in CliType /\ Put(c, k).current_pos = c.current_pos + 1
        /\ Put(c, k).end_pos = c.end_pos
        /\ \A i \in Index : Put(c, k).clibuff[i] = IF i = c.current_pos THEN k ELSE c.clibuff[i]
    BY <1>2, <2>1, PutIs
  <2>3. d = [Put(c, k) EXCEPT !.end_pos = e]
    BY <2>2 DEF Appended
  <2> HIDE DEF d, e
  <2>4. d \in CliType /\ d.clibuff = Put(c, k).clibuff /\ d.current_pos = Put(c, k).current_pos
        /\ d.end_pos = e
    BY <2>1, <2>2, <2>3, EndUpdated
  <2> QED
    BY <1>1, <2>2, <2>4 DEF e
<1> HIDE DEF d
<1>4. Whole(d)
  BY <1>2, <1>3, ReadyIs, Sizes DEF Whole
<1> QED
  BY <1>3, <1>4 DEF d

LEMMA InsertedIs ==
  ASSUME NEW c, Ready(c), ~AtEnd(c), NEW k \in Letter
  PROVE  LET d == Inserted(c, k) IN
         /\ Whole(d) /\ d.end_pos = c.end_pos + 1
         /\ d.current_pos \in Nat /\ d.current_pos <= c.end_pos /\ d.current_pos - 1 \in Nat
         /\ c.end_pos + 1 < MAX_COMMAND_LENGTH =>
              /\ d.current_pos = c.current_pos + 1
              /\ \A i \in Index :
                   d.clibuff[i] = IF i = c.current_pos THEN k
                                  ELSE IF i \in c.current_pos + 1 .. c.end_pos + 1
                                  THEN c.clibuff[i - 1] ELSE c.clibuff[i]
<1> DEFINE s == ShiftRight(c)
           d == Inserted(c, k)
<1>0. /\ c.current_pos \in Nat /\ c.end_pos \in Nat
      /\ start_pos <= c.current_pos /\ c.current_pos < c.end_pos
      /\ c.end_pos < MAX_COMMAND_LENGTH
  BY ReadyIs DEF AtEnd
<1>2. k \in Char /\ k # NUL
  BY EditorAssumption DEF Char
<1> DEFINE p == IF c.end_pos + 1 = MAX_COMMAND_LENGTH THEN 0 ELSE c.current_pos
<1>1. p \in Nat /\ p <= c.current_pos /\ (c.end_pos + 1 < MAX_COMMAND_LENGTH => p = c.current_pos)
  BY <1>0, Sizes
<1> HIDE DEF p
<1>3. \A i \in Index : i \in p + 1 .. c.end_pos + 1 => i - 1 \in Index
  BY <1>0, <1>1, Sizes DEF Index
<1>4. s \in CliType /\ s.end_pos = c.end_pos + 1
      /\ s.current_pos = p
      /\ \A i \in Index : s.clibuff[i] = IF i \in p + 1 .. c.end_pos + 1
                                         THEN c.clibuff[i - 1] ELSE c.clibuff[i]
  <2> DEFINE b == [i \in Index |-> IF i \in p + 1 .. c.end_pos + 1
                                  THEN c.clibuff[i - 1] ELSE c.clibuff[i]]
             e == c.end_pos + 1
  <2>1. b \in [Index -> Char] /\ p \in Nat /\ e \in Nat /\ c \in CliType
    BY <1>3, <1>1, ReadyIs
  <2>2. s = [c EXCEPT !.clibuff = b, !.end_pos = e, !.current_pos = p]
    BY DEF ShiftRight, p
  <2>3. \A i \in Index : b[i] = IF i \in p + 1 .. c.end_pos + 1
                                THEN c.clibuff[i - 1] ELSE c.clibuff[i]
    OBVIOUS
  <2> HIDE DEF s, b, e
  <2>4. s \in CliType /\ s.clibuff = b /\ s.current_pos = p /\ s.end_pos = e
    <3> DEFINE u == [c EXCEPT !.clibuff = b, !.end_pos = e, !.current_pos = p]
    <3>1. u \in CliType /\ u.clibuff = b /\ u.current_pos = p /\ u.end_pos = e
      BY <2>1 DEF CliType
    <3> HIDE DEF u
    <3> QED
      BY <2>2, <3>1 DEF u
  <2> QED
    BY <2>3, <2>4 DEF e
<1> HIDE DEF s
<1>5. s.current_pos \in Index
  BY <1>0, <1>4, <1>1, Sizes DEF Index
<1>6. d \in CliType /\ d.end_pos = c.end_pos + 1 /\ d.current_pos = s.current_pos + 1
      /\ \A i \in Index : d.clibuff[i] = IF i = s.current_pos THEN k ELSE s.clibuff[i]
  BY <1>2, <1>4, <1>5, PutIs DEF Inserted, s
<1> HIDE DEF d
<1>7. d.current_pos \in Nat /\ d.current_pos <= c.end_pos /\ d.current_pos - 1 \in Nat
  BY <1>0, <1>4, <1>6, <1>1, Sizes
<1>8. ASSUME c.end_pos + 1 < MAX_COMMAND_LENGTH
      PROVE  /\ d.current_pos = c.current_pos + 1
             /\ \A i \in Index :
                   d.clibuff[i] = IF i = c.current_pos THEN k
                                  ELSE IF i \in c.current_pos + 1 .. c.end_pos + 1
                                  THEN c.clibuff[i - 1] ELSE c.clibuff[i]
  <2>1. p = c.current_pos
    BY <1>1, <1>8
  <2> QED
    BY <1>4, <1>6, <2>1
<1>9. Whole(d)
  <2>1. start_pos <= d.end_pos /\ d.end_pos <= MAX_COMMAND_LENGTH
    BY <1>0, <1>6, Sizes
  <2>2. ASSUME d.end_pos < MAX_COMMAND_LENGTH, NEW i \in Index
        PROVE  IF i < start_pos THEN d.clibuff[i] = Prompt[i + 1]
               ELSE (d.clibuff[i] = NUL) <=> (i >= d.end_pos)
    <3>1. d.clibuff[i] = IF i = c.current_pos THEN k
                         ELSE IF i \in c.current_pos + 1 .. c.end_pos + 1
                         THEN c.clibuff[i - 1] ELSE c.clibuff[i]
      BY <1>6, <1>8, <2>2
    <3>2. i \in Nat /\ (i \in c.current_pos + 1 .. c.end_pos + 1 => i - 1 \in Index)
      BY <1>0, <1>3, <1>1, ReadyIs
    <3>3. CASE i = c.current_pos
      BY <1>0, <1>2, <1>6, <3>1, <3>3, Sizes
    <3>4. CASE i \in c.current_pos + 1 .. c.end_pos + 1
      <4>1. d.clibuff[i] = c.clibuff[i - 1] /\ i - 1 \in Index /\ ~ (i - 1 < start_pos) /\ ~ (i < start_pos)
        BY <1>0, <3>1, <3>2, <3>4, Sizes
      <4>2. c.clibuff[i - 1] = NUL <=> i - 1 >= c.end_pos
        BY <4>1, ReadyIs
      <4> QED
        BY <1>0, <1>6, <3>2, <4>1, <4>2
    <3>5. CASE i # c.current_pos /\ i \notin c.current_pos + 1 .. c.end_pos + 1
      <4>1. d.clibuff[i] = c.clibuff[i] /\ (i < c.current_pos \/ i > c.end_pos + 1)
        BY <1>0, <3>1, <3>2, <3>5
      <4>2. IF i < start_pos THEN c.clibuff[i] = Prompt[i + 1]
            ELSE (c.clibuff[i] = NUL) <=> (i >= c.end_pos)
        BY ReadyIs
      <4>3. i >= d.end_pos <=> i >= c.end_pos
        BY <1>0, <1>6, <3>2, <4>1
      <4> QED
        BY <4>1, <4>2, <4>3
    <3> QED
      BY <3>3, <3>4, <3>5
  <2> QED
    BY <1>6, <2>1, <2>2 DEF Whole
<1> QED
  BY <1>6, <1>7, <1>8, <1>9 DEF d

LEMMA MovedIs ==
  ASSUME NEW c, Whole(c), NEW p \in Nat, NEW d, d = [c EXCEPT !.current_pos = p]
  PROVE  Whole(d) /\ d.clibuff = c.clibuff /\ d.current_pos = p /\ d.end_pos = c.end_pos
BY PlaceUpdated DEF Whole

LEMMA BackIs ==
  ASSUME NEW c, Ready(c), ~AtBegin(c), NEW d, d = [c EXCEPT !.current_pos = @ - 1]
  PROVE  /\ Ready(d) /\ ~AtEnd(d) /\ d.current_pos = c.current_pos - 1 /\ d.end_pos = c.end_pos
         /\ d.clibuff = c.clibuff
<1> DEFINE p == c.current_pos - 1
<1>1. p \in Nat /\ start_pos <= p /\ p < c.end_pos /\ Whole(c)
  BY ReadyIs, Sizes DEF AtBegin, Ready
<1>2. d = [c EXCEPT !.current_pos = p]
  OBVIOUS
<1> HIDE DEF p
<1>3. Whole(d) /\ d.clibuff = c.clibuff /\ d.current_pos = p /\ d.end_pos = c.end_pos
  BY <1>1, <1>2, MovedIs
<1>4. p <= c.end_pos /\ p # c.end_pos
  BY <1>1, ReadyIs
<1> QED
  BY <1>1, <1>3, <1>4 DEF Ready, Sound, AtEnd, p

LEMMA ShiftedLeftIs ==
  ASSUME NEW c, Ready(c), ~AtEnd(c)
  PROVE  LET d == ShiftLeft(c) IN
         /\ Whole(d) /\ d.current_pos = c.current_pos /\ d.end_pos = c.end_pos - 1
         /\ \A i \in Index : d.clibuff[i] = IF i = c.end_pos - 1 THEN NUL
                                            ELSE IF i \in c.current_pos .. c.end_pos - 2
                                            THEN c.clibuff[i + 1] ELSE c.clibuff[i]
<1> DEFINE d == ShiftLeft(c)
           b == [i \in Index |-> IF i = c.end_pos - 1 THEN NUL
                                 ELSE IF i \in c.current_pos .. c.end_pos - 2
                                 THEN c.clibuff[i + 1] ELSE c.clibuff[i]]
           e == c.end_pos - 1
<1>0. /\ c.current_pos \in Nat /\ c.end_pos \in Nat /\ c \in CliType
      /\ start_pos <= c.current_pos /\ c.current_pos < c.end_pos
      /\ c.end_pos < MAX_COMMAND_LENGTH
  BY ReadyIs DEF AtEnd
<1>1. \A i \in Index : i \in c.current_pos .. c.end_pos - 2 => i + 1 \in Index
  BY <1>0, Sizes DEF Index
<1>2. b \in [Index -> Char] /\ e \in Nat
  <2>1. e \in Nat
    BY <1>0, Sizes
  <2>2. NUL \in Char
    BY DEF Char
  <2> QED
    BY <1>1, <2>1, <2>2, ReadyIs
<1>3. \A i \in Index : b[i] = IF i = c.end_pos - 1 THEN NUL
                              ELSE IF i \in c.current_pos .. c.end_pos - 2
                              THEN c.clibuff[i + 1] ELSE c.clibuff[i]
  OBVIOUS
<1>4. d = [c EXCEPT !.clibuff = b, !.end_pos = e]
  BY DEF ShiftLeft
<1> HIDE DEF b, e, d
<1>5. d \in CliType /\ d.clibuff = b /\ d.current_pos = c.current_pos /\ d.end_pos = e
  <2> DEFINE u == [c EXCEPT !.clibuff = b, !.end_pos = e]
  <2>1. u \in CliType /\ u.clibuff = b /\ u.current_pos = c.current_pos /\ u.end_pos = e
    BY <1>0, <1>2 DEF CliType
  <2> HIDE DEF u
  <2> QED
    BY <1>4, <2>1 DEF u
<1>6. start_pos <= e /\ e < MAX_COMMAND_LENGTH
  BY <1>0, Sizes DEF e
<1>7. ASSUME NEW i \in Index
      PROVE  IF i < start_pos THEN b[i] = Prompt[i + 1] ELSE (b[i] = NUL) <=> (i >= e)
  <2>1. i \in Nat /\ (i \in c.current_pos .. c.end_pos - 2 => i + 1 \in Index)
    BY <1>1, ReadyIs
  <2>2. CASE i = c.end_pos - 1
    BY <1>0, <1>3, <1>6, <2>2, Sizes DEF e
  <2>3. CASE i \in c.current_pos .. c.end_pos - 2
    <3>1. b[i] = c.clibuff[i + 1] /\ i + 1 \in Index /\ ~ (i + 1 < start_pos) /\ ~ (i < start_pos)
      BY <1>0, <1>3, <2>1, <2>3, Sizes
    <3>2. c.clibuff[i + 1] = NUL <=> i + 1 >= c.end_pos
      BY <3>1, ReadyIs
    <3> QED
      BY <1>0, <2>1, <3>1, <3>2 DEF e
  <2>4. CASE i # c.end_pos - 1 /\ i \notin c.current_pos .. c.end_pos - 2
    <3>1. b[i] = c.clibuff[i] /\ (i < c.current_pos \/ i >= c.end_pos)
      BY <1>0, <1>3, <2>1, <2>4
    <3>2. IF i < start_pos THEN c.clibuff[i] = Prompt[i + 1]
          ELSE (c.clibuff[i] = NUL) <=> (i >= c.end_pos)
      BY ReadyIs
    <3>3. i >= e <=> i >= c.end_pos
      BY <1>0, <2>1, <3>1 DEF e
    <3> QED
      BY <3>1, <3>2, <3>3
  <2> QED
    BY <2>2, <2>3, <2>4
<1>8. Whole(d)
  <2>1. e <= MAX_COMMAND_LENGTH
    BY <1>2, <1>6, Sizes
  <2> QED
    BY <1>5, <1>6, <1>7, <2>1 DEF Whole
<1> QED
  BY <1>3, <1>5, <1>8 DEF d, e

\* Backspace at the end.
Shortened(c) == [[c EXCEPT !.current_pos = @ - 1]
                   EXCEPT !.end_pos = @ - 1,
                          !.clibuff[[c EXCEPT !.current_pos = @ - 1].current_pos] = NUL]

LEMMA ShortenedIs ==
  ASSUME NEW c, Ready(c), ~AtBegin(c), AtEnd(c)
  PROVE  LET d == Shortened(c) IN
         /\ Whole(d) /\ d.current_pos = c.end_pos - 1 /\ d.end_pos = c.end_pos - 1
         /\ \A i \in Index : d.clibuff[i] = IF i = c.end_pos - 1 THEN NUL ELSE c.clibuff[i]
<1> DEFINE d == Shortened(c)
           back == [c EXCEPT !.current_pos = @ - 1]
           b == [c.clibuff EXCEPT ![c.end_pos - 1] = NUL]
           e == c.end_pos - 1
<1>0. /\ c.current_pos = c.end_pos /\ c.end_pos \in Nat /\ c \in CliType
      /\ start_pos < c.end_pos /\ c.end_pos < MAX_COMMAND_LENGTH
  BY ReadyIs, Sizes DEF AtEnd, AtBegin
<1>1. Ready(back) /\ back.current_pos = c.end_pos - 1 /\ back.end_pos = c.end_pos
      /\ back.clibuff = c.clibuff
  BY <1>0, BackIs
<1>2. d = [back EXCEPT !.end_pos = @ - 1, !.clibuff[back.current_pos] = NUL]
  BY DEF Shortened
<1> HIDE DEF back, d
<1>3. e \in Nat /\ e \in Index /\ start_pos <= e /\ e < MAX_COMMAND_LENGTH
  BY <1>0, Sizes DEF Index
<1>4. /\ b \in [Index -> Char]
      /\ \A i \in Index : b[i] = IF i = c.end_pos - 1 THEN NUL ELSE c.clibuff[i]
  <2>1. NUL \in Char
    BY DEF Char
  <2> QED
    BY <1>0, <1>3, <2>1 DEF CliType
<1>5. d \in CliType /\ d.clibuff = b /\ d.current_pos = e /\ d.end_pos = e
  <2>1. d = [back EXCEPT !.end_pos = e, !.clibuff = b]
    BY <1>1, <1>2, ReadyIs
  <2> HIDE DEF b, e
  <2> DEFINE u == [back EXCEPT !.end_pos = e, !.clibuff = b]
  <2>2. u \in CliType /\ u.clibuff = b /\ u.current_pos = back.current_pos /\ u.end_pos = e
    <3>1. back \in CliType
      BY <1>1, ReadyIs
    <3> QED
      BY <1>3, <1>4, <3>1 DEF CliType
  <2> HIDE DEF u
  <2> QED
    BY <1>1, <2>1, <2>2 DEF u, e
<1> HIDE DEF b, e
<1>7. ASSUME NEW i \in Index
      PROVE  IF i < start_pos THEN b[i] = Prompt[i + 1] ELSE (b[i] = NUL) <=> (i >= e)
  <2>1. i \in Nat
    BY ReadyIs
  <2>2. CASE i = e
    BY <1>3, <1>4, <2>2, Sizes DEF e
  <2>3. CASE i # e
    <3>1. b[i] = c.clibuff[i]
      BY <1>4, <2>3 DEF e
    <3>2. IF i < start_pos THEN c.clibuff[i] = Prompt[i + 1]
          ELSE (c.clibuff[i] = NUL) <=> (i >= c.end_pos)
      BY ReadyIs
    <3>3. i >= e <=> i >= c.end_pos
      BY <1>0, <2>1, <2>3 DEF e
    <3> QED
      BY <3>1, <3>2, <3>3
  <2> QED
    BY <2>2, <2>3
<1>8. Whole(d)
  <2>1. e <= MAX_COMMAND_LENGTH
    BY <1>3, Sizes
  <2> QED
    BY <1>3, <1>5, <1>7, <2>1 DEF Whole
<1> QED
  BY <1>4, <1>5, <1>8 DEF d, e

\* The characters from i to j go.
LEMMA ClearedIs ==
  ASSUME NEW c, Whole(c), c.end_pos < MAX_COMMAND_LENGTH, NEW m \in Nat, start_pos <= m, m <= c.end_pos, NEW n \in {c.end_pos, c.end_pos - 1},
         NEW d, d \in CliType,
         d.clibuff = [i \in Index |-> IF i \in m .. n THEN NUL ELSE c.clibuff[i]], d.end_pos = m
  PROVE  Whole(d)
<1>0. /\ c.end_pos \in Nat /\ c.end_pos < MAX_COMMAND_LENGTH /\ n \in Int
      /\ m < MAX_COMMAND_LENGTH
  BY Sizes DEF Whole, CliType
<1>1. ASSUME NEW i \in Index
      PROVE  IF i < start_pos THEN d.clibuff[i] = Prompt[i + 1]
             ELSE (d.clibuff[i] = NUL) <=> (i >= m)
  <2>1. i \in Nat
    BY Sizes DEF Index
  <2>2. CASE i \in m .. n
    BY <1>0, <2>1, <2>2, Sizes
  <2>3. CASE i \notin m .. n
    <3>1. d.clibuff[i] = c.clibuff[i] /\ (i < m \/ i >= c.end_pos)
      BY <1>0, <2>1, <2>3
    <3>2. IF i < start_pos THEN c.clibuff[i] = Prompt[i + 1]
          ELSE (c.clibuff[i] = NUL) <=> (i >= c.end_pos)
      BY DEF Whole
    <3>3. i >= m <=> i >= c.end_pos
      BY <1>0, <2>1, <3>1
    <3> QED
      BY <3>1, <3>2, <3>3
  <2> QED
    BY <2>2, <2>3
<1> QED
  <2>1. m <= MAX_COMMAND_LENGTH
    BY <1>0, Sizes
  <2> QED
    BY <1>1, <2>1 DEF Whole

\* ctrl-n
Killed(c) ==
  [c EXCEPT !.clibuff = [i \in Index |-> IF i \in c.current_pos .. c.end_pos THEN NUL ELSE @[i]],
            !.end_pos = c.current_pos]

LEMMA KilledIs ==
  ASSUME NEW c, Ready(c)
  PROVE  LET d == Killed(c) IN
         /\ Whole(d) /\ d.current_pos = c.current_pos /\ d.end_pos = c.current_pos
         /\ \A i \in Index : d.clibuff[i] = IF i \in c.current_pos .. c.end_pos THEN NUL
                                            ELSE c.clibuff[i]
<1> DEFINE d == Killed(c)
           b == [i \in Index |-> IF i \in c.current_pos .. c.end_pos THEN NUL ELSE c.clibuff[i]]
           e == c.current_pos
<1>1. b \in [Index -> Char] /\ e \in Nat /\ c \in CliType
  BY ReadyIs DEF Char
<1>2. \A i \in Index : b[i] = IF i \in c.current_pos .. c.end_pos THEN NUL ELSE c.clibuff[i]
  OBVIOUS
<1>3. d = [c EXCEPT !.clibuff = b, !.end_pos = e]
  BY DEF Killed
<1>4. d \in CliType /\ d.clibuff = b /\ d.current_pos = c.current_pos /\ d.end_pos = e
  <2> HIDE DEF b, e, d
  <2> DEFINE u == [c EXCEPT !.clibuff = b, !.end_pos = e]
  <2>1. u \in CliType /\ u.clibuff = b /\ u.current_pos = c.current_pos /\ u.end_pos = e
    BY <1>1 DEF CliType
  <2> HIDE DEF u
  <2> QED
    BY <1>3, <2>1 DEF u
<1> HIDE DEF d
<1>5. Whole(c) /\ start_pos <= e /\ e <= c.end_pos /\ c.end_pos < MAX_COMMAND_LENGTH
  BY ReadyIs DEF Ready
<1>6. Whole(d)
  BY <1>1, <1>4, <1>5, ClearedIs
<1> QED
  BY <1>2, <1>4, <1>6 DEF d

LEMMA ContentResetIs ==
  ASSUME NEW c, Whole(c), c.end_pos < MAX_COMMAND_LENGTH
  PROVE  LET d == ContentReset(c) IN
         Whole(d) /\ d.current_pos = start_pos /\ d.end_pos = start_pos
<1> DEFINE d == ContentReset(c)
           b == [i \in Index |-> IF i \in start_pos .. c.end_pos - 1 THEN NUL ELSE c.clibuff[i]]
           e == start_pos
<1>1. b \in [Index -> Char] /\ e \in Nat /\ c \in CliType
  BY Sizes DEF Char, Whole, CliType
<1>3. d = [c EXCEPT !.clibuff = b, !.current_pos = e, !.end_pos = e]
  BY DEF ContentReset
<1>4. d \in CliType /\ d.clibuff = b /\ d.current_pos = e /\ d.end_pos = e
  <2> HIDE DEF b, e, d
  <2> DEFINE u == [c EXCEPT !.clibuff = b, !.current_pos = e, !.end_pos = e]
  <2>1. u \in CliType /\ u.clibuff = b /\ u.current_pos = e /\ u.end_pos = e
    BY <1>1 DEF CliType
  <2> HIDE DEF u
  <2> QED
    BY <1>3, <2>1 DEF u
<1> HIDE DEF d
<1>5. e <= c.end_pos /\ start_pos <= e
  BY Sizes DEF Whole
<1>6. Whole(d)
  BY <1>1, <1>4, <1>5, ClearedIs
<1> QED
  BY <1>4, <1>6 DEF d

\* A text with no NUL behind the prompt.
LEMMA CliOfText ==
  ASSUME NEW text \in Seq(Char \ {NUL}), NEW n \in Nat, n = start_pos + Len(text),
         n <= MAX_COMMAND_LENGTH
  PROVE  Whole(Cli(text)) /\ Cli(text).current_pos = n /\ Cli(text).end_pos = n
<1> DEFINE T == Char \ {NUL}
           s == Prompt \o text
           b == [i \in Index |-> IF i < n THEN s[i + 1] ELSE NUL]
<1>1. Prompt \in Seq(T) /\ Len(Prompt) = start_pos /\ Len(text) \in Nat
  <2>1. Prompt \in [1 .. start_pos -> T] /\ start_pos \in Nat
    BY PromptIs, Sizes DEF Char
  <2>2. Prompt \in Seq(T)
    <3> HIDE DEF T
    <3> QED
      BY <2>1, SeqDef
  <2> QED
    BY <2>2, LenProperties DEF start_pos
<1> HIDE DEF T
<1>2. /\ s \in Seq(T) /\ Len(s) = n
      /\ \A i \in 1 .. n : s[i] = IF i <= start_pos THEN Prompt[i] ELSE text[i - start_pos]
  <2>1. /\ s \in Seq(T) /\ Len(s) = Len(Prompt) + Len(text)
        /\ \A i \in 1 .. Len(Prompt) + Len(text) :
              s[i] = IF i <= Len(Prompt) THEN Prompt[i] ELSE text[i - Len(Prompt)]
    BY <1>1, ConcatProperties DEF T
  <2> HIDE DEF s
  <2> QED
    BY <1>1, <2>1
<1> HIDE DEF s
<1>3. \A i \in 1 .. n : s[i] \in Char /\ s[i] # NUL
  BY <1>2, ElementOfSeq DEF T
<1>4. b \in [Index -> Char] /\ \A i \in Index : b[i] = IF i < n THEN s[i + 1] ELSE NUL
  <2>1. \A i \in Index : i < n => i + 1 \in 1 .. n
    BY Sizes DEF Index
  <2>2. NUL \in Char
    BY DEF Char
  <2> QED
    BY <1>3, <2>1, <2>2
<1>5. Cli(text) = [clibuff |-> b, current_pos |-> n, end_pos |-> n]
  BY <1>2 DEF Cli, s
<1> HIDE DEF b
<1>6. Cli(text) \in CliType /\ Cli(text).clibuff = b /\ Cli(text).current_pos = n /\ Cli(text).end_pos = n
  BY <1>4, <1>5 DEF CliType
<1>7. ASSUME NEW i \in Index
      PROVE  IF i < start_pos THEN b[i] = Prompt[i + 1] ELSE (b[i] = NUL) <=> (i >= n)
  <2>1. i \in Nat /\ start_pos <= n
    BY <1>1, Sizes DEF Index
  <2>2. CASE i < start_pos
    <3>1. i + 1 \in 1 .. n /\ i + 1 <= start_pos /\ i < n
      BY <2>1, <2>2, Sizes
    <3> QED
      BY <1>2, <1>4, <2>2, <3>1
  <2>3. CASE ~ (i < start_pos)
    <3>1. i < n => i + 1 \in 1 .. n
      BY <2>1
    <3> QED
      BY <1>3, <1>4, <2>1, <2>3, <3>1
  <2> QED
    BY <2>2, <2>3
<1> QED
  BY <1>1, <1>6, <1>7, Sizes DEF Whole

LEMMA TextOf ==
  ASSUME NEW c, Whole(c), c.end_pos < MAX_COMMAND_LENGTH
  PROVE  Text(c) \in Seq(Char \ {NUL}) /\ Len(Text(c)) = c.end_pos - start_pos
<1> DEFINE n == c.end_pos - start_pos
<1>1. n \in Nat /\ start_pos \in Nat /\ c.end_pos \in Nat
  BY Sizes DEF Whole, CliType
<1>2. \A k \in 1 .. n : start_pos + k - 1 \in Index /\ ~ (start_pos + k - 1 >= c.end_pos)
                       /\ ~ (start_pos + k - 1 < start_pos)
  BY <1>1, Sizes DEF Index
<1>3. \A k \in 1 .. n : c.clibuff[start_pos + k - 1] \in Char \ {NUL}
  BY <1>2 DEF Whole, CliType
<1>4. Text(c) = [k \in 1 .. n |-> c.clibuff[start_pos + k - 1]]
  BY DEF Text, Chars
<1> DEFINE f == [k \in 1 .. n |-> c.clibuff[start_pos + k - 1]]
<1>5. f \in [1 .. n -> Char \ {NUL}]
  BY <1>3
<1> HIDE DEF f, n
<1>6. f \in Seq(Char \ {NUL}) /\ Len(f) = n
  BY <1>1, <1>5, SeqDef, LenProperties
<1> QED
  BY <1>4, <1>6 DEF f, n

-----------------------------------------------------------------------------
(* The terminal under the keys.                                            *)

LEMMA BlanksAre ==
  ASSUME NEW n \in Nat
  PROVE  Len(Blanks(n)) = n /\ DOMAIN Blanks(n) = 1 .. n /\ \A k \in 1 .. n : Blanks(n)[k] = Blank
BY DEF Blanks

\* On the first row a column is a position.
LEMMA SidewaysIs ==
  ASSUME NEW t, Term(t), NEW n \in Nat
  PROVE  /\ Term(MoveLeft(t, n)) /\ MoveLeft(t, n).cells = t.cells
         /\ Term(MoveRight(t, n)) /\ MoveRight(t, n).cells = t.cells
         /\ t.pos < COLS /\ n <= t.pos => MoveLeft(t, n).pos = t.pos - n
         /\ t.pos < COLS /\ t.pos + n < COLS => MoveRight(t, n).pos = t.pos + n
<1>1. /\ Row(t) \in Nat /\ Column(t) \in 0 .. COLS - 1 /\ t.pos \in Nat
      /\ t.pos < COLS => Row(t) = 0 /\ Column(t) = t.pos
  BY ColumnIs DEF Term
<1> DEFINE l == Column(t) - n
           r == Column(t) + n
<1>2. l \in Int /\ r \in Int
  BY <1>1, Sizes
<1>3. MoveLeft(t, n) = Move(t, Row(t), l) /\ MoveRight(t, n) = Move(t, Row(t), r)
  BY DEF MoveLeft, MoveRight
<1>4. /\ t.pos < COLS /\ n <= t.pos => l \in 0 .. COLS - 1 /\ Place(Row(t), l) = t.pos - n
      /\ t.pos < COLS /\ t.pos + n < COLS => r \in 0 .. COLS - 1 /\ Place(Row(t), r) = t.pos + n
  <2>1. /\ t.pos < COLS /\ n <= t.pos => l \in 0 .. COLS - 1 /\ l = t.pos - n
        /\ t.pos < COLS /\ t.pos + n < COLS => r \in 0 .. COLS - 1 /\ r = t.pos + n
    BY <1>1, Sizes
  <2>2. Place(0, l) = l /\ Place(0, r) = r
    BY <1>2, FirstRow
  <2> QED
    BY <1>1, <2>1, <2>2
<1> HIDE DEF l, r
<1>5. /\ Term(Move(t, Row(t), l)) /\ Move(t, Row(t), l).cells = t.cells
      /\ Move(t, Row(t), l).pos = IF l \in 0 .. COLS - 1 THEN Place(Row(t), l) ELSE t.pos
  <2> DEFINE row == Row(t)
  <2>1. Term(t) /\ row \in Nat /\ l \in Int
    BY <1>1, <1>2
  <2> HIDE DEF row
  <2>2. LET u == Move(t, row, l) IN
        /\ Term(u) /\ u.cells = t.cells
        /\ u.pos = IF l \in 0 .. COLS - 1 THEN Place(row, l) ELSE t.pos
    BY <2>1, MoveIs
  <2> QED
    BY <2>2 DEF row
<1>6. /\ Term(Move(t, Row(t), r)) /\ Move(t, Row(t), r).cells = t.cells
      /\ Move(t, Row(t), r).pos = IF r \in 0 .. COLS - 1 THEN Place(Row(t), r) ELSE t.pos
  <2> DEFINE row == Row(t)
  <2>1. Term(t) /\ row \in Nat /\ r \in Int
    BY <1>1, <1>2
  <2> HIDE DEF row
  <2>2. LET u == Move(t, row, r) IN
        /\ Term(u) /\ u.cells = t.cells
        /\ u.pos = IF r \in 0 .. COLS - 1 THEN Place(row, r) ELSE t.pos
    BY <2>1, MoveIs
  <2> QED
    BY <2>2 DEF row
<1> QED
  BY <1>3, <1>4, <1>5, <1>6

LEMMA ErasedIs ==
  ASSUME NEW t, Term(t)
  PROVE  LET u == EraseLeft(t, 1) IN
         /\ Term(u)
         /\ t.pos < COLS /\ 1 <= t.pos =>
              /\ u.pos = t.pos - 1
              /\ \A q \in Cell : u.cells[q] = IF q = t.pos - 1 THEN Blank ELSE t.cells[q]
<1> DEFINE l == MoveLeft(t, 1)
           w == Written(l, Blanks(1))
           col == Column(t) - 1
           u == EraseLeft(t, 1)
<1>1. /\ Row(t) \in Nat /\ Column(t) \in 0 .. COLS - 1 /\ t.pos \in Nat
      /\ t.pos < COLS => Row(t) = 0 /\ Column(t) = t.pos
  BY ColumnIs DEF Term
<1>2. Term(l) /\ l.cells = t.cells /\ (t.pos < COLS /\ 1 <= t.pos => l.pos = t.pos - 1)
  BY SidewaysIs, 1 \in Nat
<1> HIDE DEF l
<1> DEFINE s == Blanks(1)
           n == 1
<1>3. n \in Nat /\ Len(s) = n /\ DOMAIN s = 1 .. n /\ s[1] = Blank
  <2>1. /\ Len(Blanks(1)) = 1 /\ DOMAIN Blanks(1) = 1 .. 1
        /\ \A k \in 1 .. 1 : Blanks(1)[k] = Blank
    BY BlanksAre
  <2> QED
    BY <2>1
<1> HIDE DEF s, n
<1>4. /\ Term(w)
      /\ \A q \in Cell : w.cells[q] = IF q \in l.pos .. l.pos + 1 - 1 THEN s[q - l.pos + 1]
                                      ELSE l.cells[q]
  <2>1. LET v == Written(l, s) IN
        /\ Term(v) /\ v.pos = l.pos + n
        /\ \A q \in Cell : v.cells[q] = IF q \in l.pos .. l.pos + n - 1
                                        THEN s[q - l.pos + 1] ELSE l.cells[q]
    BY <1>2, <1>3, WrittenIs
  <2> QED
    BY <2>1 DEF n, s
<1>5. u = Move(w, Row(t), col) /\ col \in Int
  BY <1>1, Sizes DEF EraseLeft, l
<1> HIDE DEF w, col, u
<1> DEFINE row == Row(t)
<1>6. /\ Term(u) /\ u.cells = w.cells
      /\ u.pos = IF col \in 0 .. COLS - 1 THEN Place(row, col) ELSE w.pos
  <2>1. Term(w) /\ row \in Nat /\ col \in Int /\ u = Move(w, row, col)
    BY <1>1, <1>4, <1>5
  <2> HIDE DEF row
  <2> QED
    BY <2>1, MoveIs
<1>7. ASSUME t.pos < COLS, 1 <= t.pos
      PROVE  /\ u.pos = t.pos - 1
             /\ \A q \in Cell : u.cells[q] = IF q = t.pos - 1 THEN Blank ELSE t.cells[q]
  <2>1. u.pos = t.pos - 1
    <3>1. col \in 0 .. COLS - 1 /\ col = t.pos - 1 /\ row = 0
      BY <1>1, <1>7, Sizes DEF col
    <3>2. Place(0, col) = col
      BY <1>5, FirstRow
    <3> QED
      BY <1>6, <3>1, <3>2
  <2>2. ASSUME NEW q \in Cell
        PROVE  u.cells[q] = IF q = t.pos - 1 THEN Blank ELSE t.cells[q]
    <3>1. l.pos = t.pos - 1 /\ q \in Int
      BY <1>2, <1>7, Sizes DEF Cell
    <3>2. q \in l.pos .. l.pos + 1 - 1 <=> q = t.pos - 1
      BY <1>1, <3>1
    <3>3. q = t.pos - 1 => q - l.pos + 1 = 1
      BY <1>1, <3>1
    <3> QED
      BY <1>2, <1>3, <1>4, <1>6, <3>2, <3>3
  <2> QED
    BY <2>1, <2>2
<1> QED
  BY <1>6, <1>7 DEF u

LEMMA ClearIs ==
  Term(Clear) /\ Clear.pos = 0 /\ \A q \in Cell : Clear.cells[q] = Blank
BY DEF Term, Clear

\* The line printed at the beginning of the first row, or of any.
LEMMA PrintedIs ==
  ASSUME NEW t, Term(t), NEW c, Whole(c)
  PROVE  LET u == PrintLine(t, c) IN
         /\ Term(u) /\ u.pos = t.pos + c.end_pos
         /\ t.pos = 0 => \A q \in Cell : u.cells[q] = IF q < c.end_pos THEN c.clibuff[q] ELSE t.cells[q]
<1> DEFINE s == Chars(c, 0, c.end_pos)
           u == PrintLine(t, c)
           n == c.end_pos
<1>1. n \in Nat /\ 0 \in Int /\ n \in Int /\ 0 <= n /\ n - 0 = n /\ t.pos \in Nat
  BY DEF Whole, CliType, Term
<1>2. /\ Len(s) = n - 0 /\ DOMAIN s = 1 .. n - 0
      /\ \A k \in 1 .. n - 0 : s[k] = c.clibuff[0 + k - 1]
  BY <1>1, CharsAre
<1>3. u = Written(t, s)
  BY DEF PrintLine
<1> HIDE DEF s, u, n
<1>4. /\ Term(u) /\ u.pos = t.pos + n
      /\ \A q \in Cell : u.cells[q] = IF q \in t.pos .. t.pos + n - 1 THEN s[q - t.pos + 1] ELSE t.cells[q]
  <2>1. Len(s) = n /\ DOMAIN s = 1 .. n
    BY <1>1, <1>2
  <2> QED
    BY <1>1, <1>3, <2>1, WrittenIs
<1>5. ASSUME t.pos = 0, NEW q \in Cell
      PROVE  u.cells[q] = IF q < n THEN c.clibuff[q] ELSE t.cells[q]
  <2>1. q \in Nat
    BY Sizes DEF Cell
  <2>2. q \in t.pos .. t.pos + n - 1 <=> q < n
    BY <1>1, <1>5, <2>1
  <2>3. q < n => q - t.pos + 1 \in 1 .. n - 0 /\ 0 + (q - t.pos + 1) - 1 = q
    BY <1>1, <1>5, <2>1
  <2> QED
    BY <1>2, <1>4, <2>2, <2>3
<1> QED
  BY <1>4, <1>5 DEF n, u

LEMMA RowDeleted ==
  ASSUME NEW t, Term(t)
  PROVE  LET u == DeleteRow(t) IN
         /\ Term(u) /\ u.pos = t.pos
         /\ t.pos < COLS => \A q \in Cell : u.cells[q] = IF q + COLS \in Cell THEN t.cells[q + COLS]
                                                         ELSE Blank
<1> DEFINE cs == [q \in Cell |-> IF q < Row(t) * COLS THEN t.cells[q]
                                 ELSE IF q + COLS \in Cell THEN t.cells[q + COLS] ELSE Blank]
<1>1. DeleteRow(t) = [t EXCEPT !.cells = cs]
  BY DEF DeleteRow
<1>2. t.pos < COLS => \A q \in Cell : cs[q] = IF q + COLS \in Cell THEN t.cells[q + COLS] ELSE Blank
  <2>1. t.pos < COLS => Row(t) * COLS = 0
    BY ColumnIs, Sizes
  <2>2. \A q \in Cell : ~ (q < 0)
    BY Sizes DEF Cell
  <2> QED
    BY <2>1, <2>2
<1> HIDE DEF cs
<1>3. [t EXCEPT !.cells = cs] = [cells |-> cs, pos |-> t.pos]
  <2>1. ASSUME NEW old, NEW p, t = [cells |-> old, pos |-> p]
        PROVE  [t EXCEPT !.cells = cs] = [cells |-> cs, pos |-> p]
    BY <2>1
  <2> QED
    BY <2>1 DEF Term
<1> QED
  BY <1>1, <1>2, <1>3 DEF Term

-----------------------------------------------------------------------------
(* What a key does to the line and the terminal.                           *)

\* The rows of the prompt show line c and nothing else.
Shown(c, t) == \A q \in Cell : t.cells[q] = IF q < c.end_pos THEN c.clibuff[q] ELSE Blank

\* A key that makes line c and terminal t line d and terminal u.
Keeps(c, t, d, u) ==
  /\ Whole(d) /\ Term(u)
  /\ InSync(c, t) =>
       /\ InSync(d, u) /\ d.end_pos < MAX_COMMAND_LENGTH /\ Shown(c, t) => Shown(d, u)
       /\ c.end_pos + 1 < COLS => InSync(d, u)

LEMMA CellIs ==
  /\ \A q \in Cell : q \in Nat
  /\ \A q \in Cell, e \in Nat : q < e /\ e <= MAX_COMMAND_LENGTH => q \in Index
BY Sizes DEF Cell, Index

\* The cursor put on a column of the row of another terminal.
LEMMA PlacedIs ==
  ASSUME NEW t, Term(t), NEW w, Term(w), NEW p \in Nat
  PROVE  LET u == Move(w, Row(t), p) IN
         /\ Term(u) /\ u.cells = w.cells
         /\ t.pos < COLS /\ p < COLS => u.pos = p
<1>1. Row(t) \in Nat /\ p \in Int /\ (t.pos < COLS => Row(t) = 0)
  BY ColumnIs
<1>2. LET u == Move(w, Row(t), p) IN
      /\ Term(u) /\ u.cells = w.cells
      /\ u.pos = IF p \in 0 .. COLS - 1 THEN Place(Row(t), p) ELSE w.pos
  BY <1>1, MoveIs
<1>3. t.pos < COLS /\ p < COLS => p \in 0 .. COLS - 1 /\ Place(Row(t), p) = p
  BY <1>1, Sizes, FirstRow
<1> QED
  BY <1>2, <1>3

LEMMA TypedAtEnd ==
  ASSUME NEW c, Ready(c), NEW t, Term(t), AtEnd(c), NEW k \in Letter
  PROVE  Keeps(c, t, Appended(c, k), Written(t, <<k>>))
<1> DEFINE d == Appended(c, k)
           u == Written(t, <<k>>)
<1>1. /\ Whole(d) /\ d.current_pos = c.end_pos + 1 /\ d.end_pos = c.end_pos + 1
      /\ \A i \in Index : d.clibuff[i] = IF i = c.end_pos THEN k ELSE c.clibuff[i]
  BY AppendedIs
<1>2. /\ Term(u) /\ u.pos = t.pos + 1
      /\ \A q \in Cell : u.cells[q] = IF q = t.pos THEN k ELSE t.cells[q]
  <2> DEFINE n == 1
             s == <<k>>
  <2>1. n \in Nat /\ Len(s) = n /\ DOMAIN s = 1 .. n /\ s[1] = k
    OBVIOUS
  <2> HIDE DEF n, s
  <2>2. LET v == Written(t, s) IN
        /\ Term(v) /\ v.pos = t.pos + n
        /\ \A q \in Cell : v.cells[q] = IF q \in t.pos .. t.pos + n - 1
                                        THEN s[q - t.pos + 1] ELSE t.cells[q]
    BY <2>1, WrittenIs
  <2>3. t.pos \in Nat
    BY DEF Term
  <2>4. \A q \in Cell : /\ q \in t.pos .. t.pos + n - 1 <=> q = t.pos
                        /\ q = t.pos => q - t.pos + 1 = 1
    BY <2>3, CellIs DEF n
  <2>5. u = Written(t, s)
    BY DEF s
  <2> HIDE DEF u
  <2> QED
    BY <2>1, <2>2, <2>4, <2>5 DEF n
<1> HIDE DEF d, u
<1>3. c.end_pos \in Nat /\ c.end_pos < MAX_COMMAND_LENGTH /\ c.current_pos = c.end_pos
  BY ReadyIs DEF AtEnd
<1>4. ASSUME InSync(c, t)
      PROVE  /\ Shown(c, t) => Shown(d, u)
             /\ c.end_pos + 1 < COLS => InSync(d, u)
  <2>1. t.pos = c.end_pos
    BY <1>3, <1>4 DEF InSync
  <2>2. ASSUME Shown(c, t), NEW q \in Cell
        PROVE  u.cells[q] = IF q < d.end_pos THEN d.clibuff[q] ELSE Blank
    <3>1. q \in Nat /\ (q < c.end_pos + 1 => q \in Index)
      BY <1>3, CellIs, Sizes
    <3>2. t.cells[q] = IF q < c.end_pos THEN c.clibuff[q] ELSE Blank
      BY <2>2 DEF Shown
    <3>3. CASE q = c.end_pos
      BY <1>1, <1>2, <1>3, <2>1, <3>1, <3>3
    <3>4. CASE q < c.end_pos
      <4>1. u.cells[q] = t.cells[q] /\ d.clibuff[q] = c.clibuff[q] /\ q < d.end_pos
        BY <1>1, <1>2, <1>3, <2>1, <3>1, <3>4
      <4> QED
        BY <3>2, <3>4, <4>1
    <3>5. CASE q > c.end_pos
      <4>1. u.cells[q] = t.cells[q] /\ ~ (q < d.end_pos) /\ ~ (q < c.end_pos)
        BY <1>1, <1>2, <1>3, <2>1, <3>1, <3>5
      <4> QED
        BY <3>2, <4>1
    <3> QED
      BY <1>3, <3>1, <3>3, <3>4, <3>5
  <2>3. c.end_pos + 1 < COLS => InSync(d, u)
    BY <1>1, <1>2, <2>1 DEF InSync
  <2> QED
    BY <2>2, <2>3 DEF Shown
<1> QED
  BY <1>1, <1>2, <1>4 DEF Keeps, d, u

LEMMA TypedInside ==
  ASSUME NEW c, Ready(c), NEW t, Term(t), ~AtEnd(c), NEW k \in Letter
  PROVE  LET d == Inserted(c, k)
             w == Written(t, Chars(d, d.current_pos - 1, d.end_pos))
         IN  Keeps(c, t, d, Move(w, Row(t), d.current_pos))
<1> DEFINE d == Inserted(c, k)
           w == Written(t, Chars(d, d.current_pos - 1, d.end_pos))
           u == Move(w, Row(t), d.current_pos)
           i == d.current_pos - 1
           e == d.end_pos
           n == e - i
           s == Chars(d, i, e)
<1>1. /\ Whole(d) /\ d.end_pos = c.end_pos + 1
      /\ d.current_pos \in Nat /\ d.current_pos <= c.end_pos /\ d.current_pos - 1 \in Nat
      /\ c.end_pos + 1 < MAX_COMMAND_LENGTH =>
           /\ d.current_pos = c.current_pos + 1
           /\ \A j \in Index :
                d.clibuff[j] = IF j = c.current_pos THEN k
                               ELSE IF j \in c.current_pos + 1 .. c.end_pos + 1
                               THEN c.clibuff[j - 1] ELSE c.clibuff[j]
  BY InsertedIs
<1> HIDE DEF d
<1>2. /\ c.current_pos \in Nat /\ c.end_pos \in Nat /\ c.current_pos < c.end_pos
      /\ c.end_pos < MAX_COMMAND_LENGTH /\ d.end_pos \in Nat
  BY <1>1, ReadyIs DEF AtEnd
<1>3. i \in Int /\ e \in Int /\ i <= e
  BY <1>1, <1>2
<1>4. w = Written(t, s)
  OBVIOUS
<1> HIDE DEF i, e, w
<1>5. Len(s) = n /\ DOMAIN s = 1 .. n /\ n \in Nat /\ \A j \in 1 .. n : s[j] = d.clibuff[i + j - 1]
  BY <1>3, CharsAre
<1> HIDE DEF s, n
<1>6. /\ Term(w)
      /\ \A q \in Cell : w.cells[q] = IF q \in t.pos .. t.pos + n - 1 THEN s[q - t.pos + 1]
                                      ELSE t.cells[q]
  BY <1>4, <1>5, WrittenIs
<1>7. /\ Row(t) \in Nat /\ t.pos \in Nat /\ d.current_pos \in Int
      /\ t.pos < COLS => Row(t) = 0
  BY <1>1, ColumnIs DEF Term
<1>8. /\ Term(u) /\ u.cells = w.cells
      /\ t.pos < COLS /\ d.current_pos < COLS => u.pos = d.current_pos
  BY <1>1, <1>6, PlacedIs
<1> HIDE DEF u
<1>9. ASSUME InSync(c, t), InSync(d, u), d.end_pos < MAX_COMMAND_LENGTH, Shown(c, t), NEW q \in Cell
      PROVE  u.cells[q] = IF q < d.end_pos THEN d.clibuff[q] ELSE Blank
  <2>1. /\ t.pos = c.current_pos /\ i = t.pos /\ d.end_pos = c.end_pos + 1 /\ n = c.end_pos + 1 - t.pos
        /\ \A j \in Index :
             d.clibuff[j] = IF j = c.current_pos THEN k
                            ELSE IF j \in c.current_pos + 1 .. c.end_pos + 1
                            THEN c.clibuff[j - 1] ELSE c.clibuff[j]
    BY <1>1, <1>2, <1>9 DEF InSync, i, n, e
  <2>2. q \in Nat /\ (q < c.end_pos + 1 => q \in Index)
    BY <1>1, <1>2, <1>9, CellIs, Sizes
  <2>3. t.cells[q] = IF q < c.end_pos THEN c.clibuff[q] ELSE Blank
    BY <1>9 DEF Shown
  <2>4. CASE q \in t.pos .. c.end_pos
    <3>1. /\ q \in t.pos .. t.pos + n - 1 /\ q - t.pos + 1 \in 1 .. n
          /\ i + (q - t.pos + 1) - 1 = q /\ q < d.end_pos
      BY <1>2, <1>7, <2>1, <2>2, <2>4
    <3> QED
      BY <1>5, <1>6, <1>8, <3>1
  <2>5. CASE q < t.pos
    <3>1. q \notin t.pos .. t.pos + n - 1 /\ q < d.end_pos /\ q < c.end_pos /\ q # c.current_pos
          /\ q \notin c.current_pos + 1 .. c.end_pos + 1 /\ q \in Index
      BY <1>2, <1>7, <2>1, <2>2, <2>5
    <3> QED
      BY <1>6, <1>8, <2>1, <2>3, <3>1
  <2>6. CASE q > c.end_pos
    <3>1. q \notin t.pos .. t.pos + n - 1 /\ ~ (q < d.end_pos) /\ ~ (q < c.end_pos)
      BY <1>2, <1>7, <2>1, <2>2, <2>6
    <3> QED
      BY <1>6, <1>8, <2>3, <3>1
  <2> QED
    BY <1>2, <1>7, <2>2, <2>4, <2>5, <2>6
<1>10. ASSUME InSync(c, t), c.end_pos + 1 < COLS
       PROVE  InSync(d, u)
  <2>1. t.pos < COLS
    BY <1>10 DEF InSync
  <2>2. d.current_pos < COLS
    BY <1>1, <1>2, <1>10, Sizes
  <2> QED
    BY <1>8, <2>1, <2>2 DEF InSync
<1> QED
  BY <1>1, <1>8, <1>9, <1>10 DEF Keeps, Shown, u, w, d

\* What Redrawn makes of line c and terminal t.
RedrawnLine(c, t) == [c EXCEPT !.current_pos = Column(t)]
RedrawnTerminal(c, t) ==
  LET rest == Written(t, Append(Chars(c, c.current_pos, c.end_pos), Blank))
  IN  Move(rest, Row(t), Column(t))

LEMMA RestIs ==
  ASSUME NEW c, Whole(c), c.current_pos <= c.end_pos, c.end_pos < MAX_COMMAND_LENGTH,
         NEW n, n = c.end_pos - c.current_pos + 1
  PROVE  LET s == Append(Chars(c, c.current_pos, c.end_pos), Blank) IN
         /\ n \in Nat /\ Len(s) = n /\ DOMAIN s = 1 .. n
         /\ \A k \in 1 .. n : s[k] = IF k = n THEN Blank ELSE c.clibuff[c.current_pos + k - 1]
<1> DEFINE i == c.current_pos
           j == c.end_pos
           r == Chars(c, i, j)
           m == j - i
           T == Char \cup {Blank}
<1>1. i \in Nat /\ j \in Nat /\ i <= j /\ j < MAX_COMMAND_LENGTH /\ m \in Nat
  BY DEF Whole, CliType
<1>2. \A k \in 1 .. m : i + k - 1 \in Index
  BY <1>1, Sizes DEF Index
<1>3. \A k \in 1 .. m : c.clibuff[i + k - 1] \in T
  BY <1>2 DEF Whole, CliType
<1>4. r = [k \in 1 .. m |-> c.clibuff[i + k - 1]]
  BY DEF Chars
<1>5. r \in [1 .. m -> T]
  BY <1>3, <1>4
<1>6. n = m + 1 /\ Blank \in T
  OBVIOUS
<1>7. \A k \in 1 .. m : r[k] = c.clibuff[i + k - 1]
  BY <1>4
<1> HIDE DEF r, m, i, j, T
<1>8. r \in Seq(T) /\ Len(r) = m
  BY <1>1, <1>5, SeqDef, LenProperties
<1> DEFINE s == Append(r, Blank)
<1>9. /\ s \in Seq(T) /\ Len(s) = m + 1
      /\ \A k \in 1 .. m : s[k] = r[k]
      /\ s[m + 1] = Blank
  BY <1>6, <1>8, AppendProperties
<1> HIDE DEF s
<1>10. DOMAIN s = 1 .. n /\ n \in Nat
  BY <1>1, <1>6, <1>9, LenProperties
<1>11. ASSUME NEW k \in 1 .. n
       PROVE  s[k] = IF k = n THEN Blank ELSE c.clibuff[i + k - 1]
  <2>1. k # n => k \in 1 .. m
    BY <1>1, <1>6
  <2> QED
    BY <1>6, <1>7, <1>9, <2>1
<1> QED
  BY <1>6, <1>9, <1>10, <1>11 DEF s, r, i, j

LEMMA RedrawnIs ==
  ASSUME NEW c, Whole(c), c.current_pos <= c.end_pos, c.end_pos < MAX_COMMAND_LENGTH,
         NEW t, Term(t)
  PROVE  LET d == RedrawnLine(c, t)
             u == RedrawnTerminal(c, t)
         IN  /\ Whole(d) /\ d.clibuff = c.clibuff /\ d.end_pos = c.end_pos
             /\ Term(u)
             /\ InSync(c, t) =>
                  /\ d.current_pos = t.pos /\ u.pos = t.pos
                  /\ \A q \in Cell : u.cells[q] = IF q \in t.pos .. c.end_pos - 1 THEN c.clibuff[q]
                                                  ELSE IF q = c.end_pos THEN Blank ELSE t.cells[q]
<1> DEFINE d == RedrawnLine(c, t)
           u == RedrawnTerminal(c, t)
           s == Append(Chars(c, c.current_pos, c.end_pos), Blank)
           n == c.end_pos - c.current_pos + 1
           w == Written(t, s)
           p == Column(t)
<1>0. c.current_pos \in Nat /\ c.end_pos \in Nat /\ t.pos \in Nat
  BY DEF Whole, CliType, Term
<1>1. p \in Nat /\ p < COLS /\ (t.pos < COLS => p = t.pos)
  BY ColumnIs, Sizes
<1>2. u = Move(w, Row(t), p) /\ d = [c EXCEPT !.current_pos = p]
  BY DEF RedrawnTerminal, RedrawnLine
<1>3. /\ n \in Nat /\ Len(s) = n /\ DOMAIN s = 1 .. n
      /\ \A k \in 1 .. n : s[k] = IF k = n THEN Blank ELSE c.clibuff[c.current_pos + k - 1]
  <2> HIDE DEF n
  <2>1. n = c.end_pos - c.current_pos + 1
    BY DEF n
  <2> QED
    BY <2>1, RestIs
<1> HIDE DEF d, u, s, w, p
<1>4. Whole(d) /\ d.clibuff = c.clibuff /\ d.current_pos = p /\ d.end_pos = c.end_pos
  BY <1>1, <1>2, MovedIs
<1>5. n = c.end_pos - c.current_pos + 1
  OBVIOUS
<1> HIDE DEF n
<1>6. /\ Term(w)
      /\ \A q \in Cell : w.cells[q] = IF q \in t.pos .. t.pos + n - 1 THEN s[q - t.pos + 1]
                                      ELSE t.cells[q]
  BY <1>3, WrittenIs DEF w
<1>7. /\ Term(u) /\ u.cells = w.cells
      /\ t.pos < COLS /\ p < COLS => u.pos = p
  BY <1>1, <1>2, <1>6, PlacedIs
<1>8. ASSUME InSync(c, t)
      PROVE  /\ d.current_pos = t.pos /\ u.pos = t.pos
             /\ \A q \in Cell : u.cells[q] = IF q \in t.pos .. c.end_pos - 1 THEN c.clibuff[q]
                                             ELSE IF q = c.end_pos THEN Blank ELSE t.cells[q]
  <2>1. t.pos = c.current_pos /\ p = t.pos /\ t.pos < COLS
    BY <1>1, <1>8 DEF InSync
  <2>2. ASSUME NEW q \in Cell
        PROVE  u.cells[q] = IF q \in t.pos .. c.end_pos - 1 THEN c.clibuff[q]
                            ELSE IF q = c.end_pos THEN Blank ELSE t.cells[q]
    <3>1. q \in Nat
      BY CellIs
    <3>2. CASE q \in t.pos .. c.end_pos - 1
      <4>1. q \in t.pos .. t.pos + n - 1 /\ q - t.pos + 1 \in 1 .. n /\ q - t.pos + 1 # n
            /\ c.current_pos + (q - t.pos + 1) - 1 = q
        BY <1>0, <1>5, <2>1, <3>1, <3>2
      <4> QED
        BY <1>3, <1>6, <1>7, <3>2, <4>1
    <3>3. CASE q = c.end_pos
      <4>1. q \in t.pos .. t.pos + n - 1 /\ q - t.pos + 1 = n /\ n \in 1 .. n
            /\ q \notin t.pos .. c.end_pos - 1
        BY <1>0, <1>5, <2>1, <3>1, <3>3
      <4> QED
        BY <1>3, <1>6, <1>7, <3>3, <4>1
    <3>4. CASE q \notin t.pos .. c.end_pos - 1 /\ q # c.end_pos
      <4>1. q \notin t.pos .. t.pos + n - 1
        BY <1>0, <1>5, <2>1, <3>1, <3>4
      <4> QED
        BY <1>6, <1>7, <3>4, <4>1
    <3> QED
      BY <3>2, <3>3, <3>4
  <2> QED
    BY <1>4, <1>7, <2>1, <2>2
<1> QED
  BY <1>4, <1>7, <1>8 DEF d, u

\* The character at the position is taken out, and the rest of the line redrawn on a
\* terminal that shows it but for the cell of the cursor.
LEMMA TakenOut ==
  ASSUME NEW c, Ready(c), ~AtEnd(c), NEW t, Term(t)
  PROVE  LET s == ShiftLeft(c)
             d == RedrawnLine(s, t)
             u == RedrawnTerminal(s, t)
         IN  /\ Whole(d) /\ d.end_pos = c.end_pos - 1 /\ d.clibuff = s.clibuff /\ Term(u)
             /\ InSync(c, t) =>
                  /\ InSync(d, u) /\ d.current_pos = c.current_pos
                  /\ (\A q \in Cell : q # t.pos =>
                        t.cells[q] = IF q < c.end_pos THEN c.clibuff[q] ELSE Blank) => Shown(d, u)
<1> DEFINE s == ShiftLeft(c)
           d == RedrawnLine(s, t)
           u == RedrawnTerminal(s, t)
<1>0. /\ c.current_pos \in Nat /\ c.end_pos \in Nat /\ c.current_pos < c.end_pos
      /\ c.end_pos < MAX_COMMAND_LENGTH /\ t.pos \in Nat
  BY ReadyIs DEF AtEnd, Term
<1>1. /\ Whole(s) /\ s.current_pos = c.current_pos /\ s.end_pos = c.end_pos - 1
      /\ \A i \in Index : s.clibuff[i] = IF i = c.end_pos - 1 THEN NUL
                                         ELSE IF i \in c.current_pos .. c.end_pos - 2
                                         THEN c.clibuff[i + 1] ELSE c.clibuff[i]
  BY ShiftedLeftIs
<1> HIDE DEF s
<1>2. s.current_pos <= s.end_pos /\ s.end_pos < MAX_COMMAND_LENGTH
  BY <1>0, <1>1, Sizes
<1>3. /\ Whole(d) /\ d.clibuff = s.clibuff /\ d.end_pos = s.end_pos
      /\ Term(u)
      /\ InSync(s, t) =>
           /\ d.current_pos = t.pos /\ u.pos = t.pos
           /\ \A q \in Cell : u.cells[q] = IF q \in t.pos .. s.end_pos - 1 THEN s.clibuff[q]
                                           ELSE IF q = s.end_pos THEN Blank ELSE t.cells[q]
  BY <1>1, <1>2, RedrawnIs
<1> HIDE DEF d, u
<1>4. ASSUME InSync(c, t)
      PROVE  /\ InSync(d, u) /\ d.current_pos = c.current_pos
             /\ (\A q \in Cell : q # t.pos =>
                   t.cells[q] = IF q < c.end_pos THEN c.clibuff[q] ELSE Blank) => Shown(d, u)
  <2>1. InSync(s, t) /\ t.pos = c.current_pos
    BY <1>1, <1>4 DEF InSync
  <2>2. InSync(d, u) /\ d.current_pos = c.current_pos
    BY <1>3, <2>1 DEF InSync
  <2>3. ASSUME \A q \in Cell : q # t.pos => t.cells[q] = IF q < c.end_pos THEN c.clibuff[q] ELSE Blank,
               NEW q \in Cell
        PROVE  u.cells[q] = IF q < d.end_pos THEN d.clibuff[q] ELSE Blank
    <3>1. q \in Nat /\ (q < c.end_pos => q \in Index)
      BY <1>0, CellIs, Sizes
    <3>2. CASE q \in t.pos .. s.end_pos - 1
      BY <1>0, <1>1, <1>3, <2>1, <3>1, <3>2
    <3>3. CASE q = s.end_pos
      <4>1. q \notin t.pos .. s.end_pos - 1 /\ ~ (q < d.end_pos)
        BY <1>0, <1>1, <1>3, <2>1, <3>1, <3>3
      <4> QED
        BY <1>3, <2>1, <3>3, <4>1
    <3>4. CASE q < t.pos
      <4>1. /\ q \notin t.pos .. s.end_pos - 1 /\ q # s.end_pos /\ q < d.end_pos /\ q < c.end_pos
            /\ q \in Index /\ q # c.end_pos - 1 /\ q \notin c.current_pos .. c.end_pos - 2 /\ q # t.pos
        BY <1>0, <1>1, <1>3, <2>1, <3>1, <3>4
      <4>2. s.clibuff[q] = c.clibuff[q] /\ u.cells[q] = t.cells[q]
        BY <1>1, <1>3, <2>1, <4>1
      <4> QED
        BY <1>3, <2>3, <4>1, <4>2
    <3>5. CASE q > s.end_pos
      <4>1. /\ q \notin t.pos .. s.end_pos - 1 /\ q # s.end_pos /\ ~ (q < d.end_pos) /\ ~ (q < c.end_pos)
            /\ q # t.pos
        BY <1>0, <1>1, <1>3, <2>1, <3>1, <3>5
      <4>2. u.cells[q] = t.cells[q]
        BY <1>3, <2>1, <4>1
      <4> QED
        BY <2>3, <4>1, <4>2
    <3> QED
      BY <1>0, <1>1, <2>1, <3>1, <3>2, <3>3, <3>4, <3>5
  <2> QED
    BY <2>2, <2>3 DEF Shown
<1> QED
  BY <1>1, <1>3, <1>4 DEF d, u, s

LEMMA DeletedKeeps ==
  ASSUME NEW c, Ready(c), ~AtEnd(c), NEW t, Term(t)
  PROVE  Keeps(c, t, RedrawnLine(ShiftLeft(c), t), RedrawnTerminal(ShiftLeft(c), t))
<1> DEFINE d == RedrawnLine(ShiftLeft(c), t)
           u == RedrawnTerminal(ShiftLeft(c), t)
<1>1. /\ Whole(d) /\ Term(u)
      /\ InSync(c, t) =>
           /\ InSync(d, u)
           /\ (\A q \in Cell : q # t.pos =>
                 t.cells[q] = IF q < c.end_pos THEN c.clibuff[q] ELSE Blank) => Shown(d, u)
  BY TakenOut
<1> HIDE DEF d, u
<1>2. Shown(c, t) => \A q \in Cell : q # t.pos =>
                       t.cells[q] = IF q < c.end_pos THEN c.clibuff[q] ELSE Blank
  BY DEF Shown
<1>3. Keeps(c, t, d, u)
  BY <1>1, <1>2 DEF Keeps
<1> QED
  BY <1>3 DEF d, u

\* Backspace inside the line.
LEMMA BackedKeeps ==
  ASSUME NEW c, Ready(c), ~AtBegin(c), NEW t, Term(t)
  PROVE  LET back == [c EXCEPT !.current_pos = @ - 1]
             e == EraseLeft(t, 1)
         IN  /\ InSync(c, t) => InSync(back, e)
             /\ Keeps(c, t, RedrawnLine(ShiftLeft(back), e), RedrawnTerminal(ShiftLeft(back), e))
<1> DEFINE back == [c EXCEPT !.current_pos = @ - 1]
           e == EraseLeft(t, 1)
           d == RedrawnLine(ShiftLeft(back), e)
           u == RedrawnTerminal(ShiftLeft(back), e)
<1>0. /\ c.current_pos \in Nat /\ c.end_pos \in Nat /\ start_pos < c.current_pos
      /\ c.current_pos <= c.end_pos /\ t.pos \in Nat /\ start_pos \in Nat
  BY ReadyIs, Sizes DEF AtBegin, Term
<1>1. /\ Ready(back) /\ ~AtEnd(back) /\ back.current_pos = c.current_pos - 1
      /\ back.end_pos = c.end_pos /\ back.clibuff = c.clibuff
  BY BackIs
<1>2. /\ Term(e)
      /\ t.pos < COLS /\ 1 <= t.pos =>
           /\ e.pos = t.pos - 1
           /\ \A q \in Cell : e.cells[q] = IF q = t.pos - 1 THEN Blank ELSE t.cells[q]
  BY ErasedIs
<1> HIDE DEF back, e
<1>3. /\ Whole(d) /\ Term(u)
      /\ InSync(back, e) =>
           /\ InSync(d, u)
           /\ (\A q \in Cell : q # e.pos =>
                 e.cells[q] = IF q < back.end_pos THEN back.clibuff[q] ELSE Blank) => Shown(d, u)
  BY <1>1, <1>2, TakenOut
<1> HIDE DEF d, u
<1>4. ASSUME InSync(c, t)
      PROVE  /\ InSync(back, e)
             /\ Shown(c, t) => \A q \in Cell : q # e.pos =>
                                 e.cells[q] = IF q < back.end_pos THEN back.clibuff[q] ELSE Blank
  <2>1. t.pos = c.current_pos /\ t.pos < COLS /\ 1 <= t.pos
    BY <1>0, <1>4 DEF InSync
  <2>2. e.pos = t.pos - 1 /\ e.pos < COLS
    BY <1>0, <1>2, <2>1, Sizes
  <2> QED
    BY <1>1, <1>2, <2>1, <2>2 DEF InSync, Shown
<1>5. Keeps(c, t, d, u)
  BY <1>3, <1>4 DEF Keeps
<1> QED
  BY <1>4, <1>5 DEF d, u, back, e

\* Backspace at the end.
LEMMA ShortenedKeeps ==
  ASSUME NEW c, Ready(c), ~AtBegin(c), AtEnd(c), NEW t, Term(t)
  PROVE  Keeps(c, t, Shortened(c), EraseLeft(t, 1))
<1> DEFINE d == Shortened(c)
           u == EraseLeft(t, 1)
<1>0. /\ c.current_pos = c.end_pos /\ c.end_pos \in Nat /\ start_pos < c.end_pos
      /\ c.end_pos < MAX_COMMAND_LENGTH /\ t.pos \in Nat /\ start_pos \in Nat
  BY ReadyIs, Sizes DEF AtBegin, AtEnd, Term
<1>1. /\ Whole(d) /\ d.current_pos = c.end_pos - 1 /\ d.end_pos = c.end_pos - 1
      /\ \A i \in Index : d.clibuff[i] = IF i = c.end_pos - 1 THEN NUL ELSE c.clibuff[i]
  BY ShortenedIs
<1>2. /\ Term(u)
      /\ t.pos < COLS /\ 1 <= t.pos =>
           /\ u.pos = t.pos - 1
           /\ \A q \in Cell : u.cells[q] = IF q = t.pos - 1 THEN Blank ELSE t.cells[q]
  BY ErasedIs
<1> HIDE DEF d, u
<1>3. ASSUME InSync(c, t)
      PROVE  InSync(d, u) /\ (Shown(c, t) => Shown(d, u))
  <2>1. t.pos = c.end_pos /\ t.pos < COLS /\ 1 <= t.pos
    BY <1>0, <1>3 DEF InSync
  <2>2. u.pos = t.pos - 1 /\ u.pos < COLS
    BY <1>0, <1>2, <2>1, Sizes
  <2>3. ASSUME Shown(c, t), NEW q \in Cell
        PROVE  u.cells[q] = IF q < d.end_pos THEN d.clibuff[q] ELSE Blank
    <3>1. q \in Nat /\ (q < c.end_pos => q \in Index)
      BY <1>0, CellIs, Sizes
    <3>2. t.cells[q] = IF q < c.end_pos THEN c.clibuff[q] ELSE Blank
      BY <2>3 DEF Shown
    <3>3. CASE q = c.end_pos - 1
      BY <1>0, <1>1, <1>2, <2>1, <3>1, <3>3
    <3>4. CASE q < c.end_pos - 1
      <4>1. q < c.end_pos /\ q < d.end_pos /\ q # c.end_pos - 1 /\ q # t.pos - 1 /\ q \in Index
        BY <1>0, <1>1, <2>1, <3>1, <3>4
      <4> QED
        BY <1>1, <1>2, <2>1, <3>2, <4>1
    <3>5. CASE q > c.end_pos - 1
      <4>1. ~ (q < c.end_pos) /\ ~ (q < d.end_pos) /\ q # t.pos - 1
        BY <1>0, <1>1, <2>1, <3>1, <3>5
      <4> QED
        BY <1>2, <2>1, <3>2, <4>1
    <3> QED
      BY <1>0, <3>1, <3>3, <3>4, <3>5
  <2>4. InSync(d, u)
    BY <1>0, <1>1, <2>1, <2>2 DEF InSync
  <2> QED
    BY <2>3, <2>4 DEF Shown
<1>4. Keeps(c, t, d, u)
  BY <1>1, <1>2, <1>3 DEF Keeps
<1> QED
  BY <1>4 DEF d, u

\* ctrl-n
KilledTerminal(c, t) ==
  Move(Written(t, Blanks(c.end_pos - c.current_pos + 1)), Row(t), Column(t))

LEMMA KilledKeeps ==
  ASSUME NEW c, Ready(c), NEW t, Term(t)
  PROVE  Keeps(c, t, Killed(c), KilledTerminal(c, t))
<1> DEFINE d == Killed(c)
           u == KilledTerminal(c, t)
           n == c.end_pos - c.current_pos + 1
           s == Blanks(n)
           w == Written(t, s)
           p == Column(t)
<1>0. /\ c.current_pos \in Nat /\ c.end_pos \in Nat /\ c.current_pos <= c.end_pos
      /\ c.end_pos < MAX_COMMAND_LENGTH /\ t.pos \in Nat
  BY ReadyIs DEF Term
<1>1. /\ Whole(d) /\ d.current_pos = c.current_pos /\ d.end_pos = c.current_pos
      /\ \A i \in Index : d.clibuff[i] = IF i \in c.current_pos .. c.end_pos THEN NUL
                                         ELSE c.clibuff[i]
  BY KilledIs
<1>2. p \in Nat /\ p < COLS /\ (t.pos < COLS => p = t.pos)
  BY ColumnIs, Sizes
<1>3. u = Move(w, Row(t), p)
  BY DEF KilledTerminal
<1>4. n \in Nat /\ n = c.end_pos - c.current_pos + 1
  BY <1>0
<1> HIDE DEF d, u, n, p
<1>5. Len(s) = n /\ DOMAIN s = 1 .. n /\ \A k \in 1 .. n : s[k] = Blank
  BY <1>4, BlanksAre
<1> HIDE DEF s
<1>6. /\ Term(w)
      /\ \A q \in Cell : w.cells[q] = IF q \in t.pos .. t.pos + n - 1 THEN s[q - t.pos + 1]
                                      ELSE t.cells[q]
  BY <1>4, <1>5, WrittenIs
<1> HIDE DEF w
<1>7. /\ Term(u) /\ u.cells = w.cells
      /\ t.pos < COLS /\ p < COLS => u.pos = p
  BY <1>2, <1>3, <1>6, PlacedIs
<1>8. ASSUME InSync(c, t)
      PROVE  InSync(d, u) /\ (Shown(c, t) => Shown(d, u))
  <2>1. t.pos = c.current_pos /\ p = t.pos /\ t.pos < COLS
    BY <1>2, <1>8 DEF InSync
  <2>2. InSync(d, u)
    BY <1>1, <1>2, <1>7, <2>1 DEF InSync
  <2>3. ASSUME Shown(c, t), NEW q \in Cell
        PROVE  u.cells[q] = IF q < d.end_pos THEN d.clibuff[q] ELSE Blank
    <3>1. q \in Nat /\ (q < c.end_pos => q \in Index)
      BY <1>0, CellIs, Sizes
    <3>2. t.cells[q] = IF q < c.end_pos THEN c.clibuff[q] ELSE Blank
      BY <2>3 DEF Shown
    <3>3. CASE q \in t.pos .. c.end_pos
      <4>1. q \in t.pos .. t.pos + n - 1 /\ q - t.pos + 1 \in 1 .. n /\ ~ (q < d.end_pos)
        BY <1>0, <1>1, <1>4, <2>1, <3>1, <3>3
      <4> QED
        BY <1>5, <1>6, <1>7, <4>1
    <3>4. CASE q < t.pos
      <4>1. /\ q \notin t.pos .. t.pos + n - 1 /\ q < d.end_pos /\ q < c.end_pos
            /\ q \in Index /\ q \notin c.current_pos .. c.end_pos
        BY <1>0, <1>1, <1>4, <2>1, <3>1, <3>4
      <4> QED
        BY <1>1, <1>6, <1>7, <3>2, <4>1
    <3>5. CASE q > c.end_pos
      <4>1. q \notin t.pos .. t.pos + n - 1 /\ ~ (q < d.end_pos) /\ ~ (q < c.end_pos)
        BY <1>0, <1>1, <1>4, <2>1, <3>1, <3>5
      <4> QED
        BY <1>6, <1>7, <3>2, <4>1
    <3> QED
      BY <1>0, <2>1, <3>1, <3>3, <3>4, <3>5
  <2> QED
    BY <2>2, <2>3 DEF Shown
<1>9. Keeps(c, t, d, u)
  BY <1>1, <1>7, <1>8 DEF Keeps
<1> QED
  BY <1>9 DEF d, u

\* The cursor keys move the position by n.
LEMMA CursorKeeps ==
  ASSUME NEW c, Ready(c), NEW t, Term(t), NEW n \in Nat, NEW p \in Nat,
         NEW d, d = [c EXCEPT !.current_pos = p],
         NEW u, \/ u = MoveLeft(t, n) /\ p = c.current_pos - n
                \/ u = MoveRight(t, n) /\ p = c.current_pos + n /\ p <= c.end_pos
  PROVE  Keeps(c, t, d, u)
<1>0. /\ c.current_pos \in Nat /\ c.end_pos \in Nat /\ c.current_pos <= c.end_pos
      /\ Whole(c) /\ t.pos \in Nat
  BY ReadyIs DEF Ready, Term
<1>1. Whole(d) /\ d.clibuff = c.clibuff /\ d.current_pos = p /\ d.end_pos = c.end_pos
  BY <1>0, MovedIs
<1>2. /\ Term(u) /\ u.cells = t.cells
      /\ InSync(c, t) /\ p < COLS => u.pos = p
  <2>1. CASE u = MoveLeft(t, n) /\ p = c.current_pos - n
    <3>1. n <= c.current_pos
      BY <1>0, <2>1
    <3> QED
      BY <2>1, <3>1, SidewaysIs DEF InSync
  <2>2. CASE u = MoveRight(t, n) /\ p = c.current_pos + n
    BY <2>2, SidewaysIs DEF InSync
  <2> QED
    BY <2>1, <2>2
<1>3. ASSUME InSync(c, t)
      PROVE  /\ Shown(c, t) => Shown(d, u)
             /\ c.end_pos + 1 < COLS => InSync(d, u)
  <2>1. c.end_pos + 1 < COLS => p < COLS
    <3>1. p <= c.end_pos
      BY <1>0
    <3> QED
      BY <1>0, <3>1, Sizes
  <2>2. c.end_pos + 1 < COLS => InSync(d, u)
    BY <1>1, <1>2, <1>3, <2>1 DEF InSync
  <2>3. Shown(c, t) => Shown(d, u)
    BY <1>1, <1>2 DEF Shown
  <2> QED
    BY <2>2, <2>3
<1> QED
  BY <1>1, <1>2, <1>3 DEF Keeps

\* A line printed on an empty terminal.
LEMMA PrintedShows ==
  ASSUME NEW t, Term(t), NEW c, Whole(c)
  PROVE  LET u == PrintLine(t, c) IN
         /\ Term(u) /\ u.pos = t.pos + c.end_pos
         /\ t.pos = 0 /\ (\A q \in Cell : t.cells[q] = Blank) => Shown(c, u)
BY PrintedIs DEF Shown

\* The terminal before key-up and key-down print: a row is gone, and the cursor is at
\* the beginning of the next.
LEMMA RowCleared ==
  ASSUME NEW t, Term(t), NEW c, Whole(c)
  PROVE  LET u == Move(DeleteRow(t), Row(t), 0) IN
         /\ Term(u)
         /\ InSync(c, t) => u.pos = 0
         /\ InSync(c, t) /\ Shown(c, t) /\ c.end_pos <= COLS => \A q \in Cell : u.cells[q] = Blank
<1> DEFINE w == DeleteRow(t)
           u == Move(w, Row(t), 0)
<1>1. /\ Term(w) /\ w.pos = t.pos
      /\ t.pos < COLS => \A q \in Cell : w.cells[q] = IF q + COLS \in Cell THEN t.cells[q + COLS]
                                                      ELSE Blank
  BY RowDeleted
<1> DEFINE p == 0
<1>2. p \in Nat /\ p < COLS
  BY Sizes
<1>3. u = Move(w, Row(t), p)
  OBVIOUS
<1>4. p = 0
  OBVIOUS
<1> HIDE DEF w, u, p
<1>5. /\ Term(u) /\ u.cells = w.cells
      /\ t.pos < COLS /\ p < COLS => u.pos = p
  BY <1>1, <1>2, <1>3, PlacedIs
<1>6. ASSUME InSync(c, t), Shown(c, t), c.end_pos <= COLS, NEW q \in Cell
      PROVE  u.cells[q] = Blank
  <2>1. c.end_pos \in Nat /\ q \in Nat
    BY CellIs DEF Whole, CliType
  <2>2. ~ (q + COLS < c.end_pos)
    BY <1>6, <2>1, Sizes
  <2>3. q + COLS \in Cell => t.cells[q + COLS] = Blank
    BY <1>6, <2>2 DEF Shown
  <2> QED
    BY <1>1, <1>5, <1>6, <2>3 DEF InSync
<1>7. InSync(c, t) => u.pos = 0
  BY <1>2, <1>4, <1>5 DEF InSync
<1>8. /\ Term(u)
      /\ InSync(c, t) => u.pos = 0
      /\ InSync(c, t) /\ Shown(c, t) /\ c.end_pos <= COLS => \A q \in Cell : u.cells[q] = Blank
  BY <1>5, <1>6, <1>7
<1> QED
  BY <1>8, <1>4 DEF u, w, p

-----------------------------------------------------------------------------
(* The lines and the terminal through every step.                          *)

\* The line that waits behind the history was read for keys when key-up left it.
Inv ==
  /\ Whole(line) /\ Whole(entry)
  /\ browsing => Ready(line)
  /\ Term(screen)
  /\ synced => InSync(default_cli, screen)

LEMMA ShowsIs ==
  ASSUME NEW c, NEW t, Term(t), Shows(c, t)
  PROVE  /\ Term(screen')
         /\ synced' <=> synced /\ InSync(c, t)
         /\ synced' => screen' = t
<1>1. synced' <=> synced /\ InSync(c, t)
  BY DEF Shows
<1>2. screen' = IF synced' THEN t ELSE [Clear EXCEPT !.pos = Column(t)]
  BY DEF Shows
<1>3. Term([Clear EXCEPT !.pos = Column(t)])
  <2> DEFINE cs == [q \in Cell |-> Blank]
             p == Column(t)
  <2>1. p \in Nat
    BY ColumnIs, Sizes
  <2>2. Clear = [cells |-> cs, pos |-> 0]
    BY DEF Clear
  <2> HIDE DEF cs, p
  <2>3. [Clear EXCEPT !.pos = p] = [cells |-> cs, pos |-> p]
    BY <2>2, Repositioned
  <2> QED
    BY <2>1, <2>3 DEF Term, p
<1> QED
  BY <1>1, <1>2, <1>3

LEMMA EditedIs ==
  ASSUME Inv, Reading, NEW c, NEW t, Whole(c), Term(t), Edited(c, t)
  PROVE  /\ Inv'
         /\ default_cli' = c
         /\ synced' <=> synced /\ InSync(c, t)
         /\ synced' => screen' = t
<1>1. Shows(c, t) /\ browsing' = browsing
      /\ (browsing => entry' = c /\ line' = line)
      /\ (~browsing => line' = c /\ entry' = entry)
  BY DEF Edited
<1>2. Term(screen') /\ (synced' <=> synced /\ InSync(c, t)) /\ (synced' => screen' = t)
  BY <1>1, ShowsIs
<1>3. default_cli' = c
  BY <1>1 DEF default_cli
<1>4. Whole(line)' /\ Whole(entry)' /\ (browsing => Ready(line))'
  BY <1>1 DEF Inv
<1>5. Term(screen)' /\ (synced => InSync(default_cli, screen))'
  BY <1>2, <1>3
<1> QED
  BY <1>2, <1>3, <1>4, <1>5 DEF Inv

\* The keys that change the line at hand.
Keyed ==
  \/ \E k \in Letter : Type(k)
  \/ Backspace \/ Delete \/ Kill
  \/ Home \/ End \/ Left \/ Right

LEMMA AtHand ==
  ASSUME Inv, Reading
  PROVE  Ready(default_cli) /\ Term(screen) /\ (synced => InSync(default_cli, screen))
BY DEF Inv, Reading, Ready, default_cli

LEMMA KeyedKeeps ==
  ASSUME Inv, Keyed
  PROVE  Reading /\ \E c, t : Edited(c, t) /\ Keeps(default_cli, screen, c, t)
<1>1. Reading
  BY DEF Keyed, Type, Backspace, Delete, Kill, Home, End, Left, Right
<1> DEFINE b == default_cli
<1>2. Ready(b) /\ Term(screen)
  BY <1>1, AtHand
<1>3. /\ b.current_pos \in Nat /\ b.end_pos \in Nat /\ start_pos <= b.current_pos
      /\ b.current_pos <= b.end_pos /\ start_pos \in Nat
  BY <1>2, ReadyIs, Sizes
<1> HIDE DEF b
<1>4. ASSUME NEW k \in Letter, Type(k)
      PROVE  \E c, t : Edited(c, t) /\ Keeps(b, screen, c, t)
  <2>1. CASE AtEnd(b)
    <3>1. Edited(Appended(b, k), Written(screen, <<k>>))
      BY <1>4, <2>1 DEF Type, Appended, b
    <3> QED
      BY <1>2, <2>1, <3>1, TypedAtEnd
  <2>2. CASE ~AtEnd(b)
    <3> DEFINE d == Inserted(b, k)
               w == Written(screen, Chars(d, d.current_pos - 1, d.end_pos))
    <3>1. Edited(d, Move(w, Row(screen), d.current_pos))
      BY <1>4, <2>2 DEF Type, Inserted, b
    <3>2. Keeps(b, screen, d, Move(w, Row(screen), d.current_pos))
      BY <1>2, <2>2, TypedInside
    <3> HIDE DEF d, w
    <3> QED
      BY <3>1, <3>2
  <2> QED
    BY <2>1, <2>2
<1>5. ASSUME Backspace
      PROVE  \E c, t : Edited(c, t) /\ Keeps(b, screen, c, t)
  <2>0. ~AtBegin(b)
    BY <1>5 DEF Backspace, b
  <2>1. CASE AtEnd(b)
    <3>1. Edited(Shortened(b), EraseLeft(screen, 1))
      BY <1>5, <2>1 DEF Backspace, Shortened, b
    <3> QED
      BY <1>2, <2>0, <2>1, <3>1, ShortenedKeeps
  <2>2. CASE ~AtEnd(b)
    <3> DEFINE back == [b EXCEPT !.current_pos = @ - 1]
               e == EraseLeft(screen, 1)
    <3>1. Redrawn(ShiftLeft(back), e)
      BY <1>5, <2>2 DEF Backspace, b
    <3>2. Keeps(b, screen, RedrawnLine(ShiftLeft(back), e), RedrawnTerminal(ShiftLeft(back), e))
      BY <1>2, <2>0, BackedKeeps
    <3> HIDE DEF back, e
    <3>3. Edited(RedrawnLine(ShiftLeft(back), e), RedrawnTerminal(ShiftLeft(back), e))
      BY <3>1 DEF Redrawn, RedrawnLine, RedrawnTerminal
    <3> QED
      BY <3>2, <3>3
  <2> QED
    BY <2>1, <2>2
<1>6. ASSUME Delete
      PROVE  \E c, t : Edited(c, t) /\ Keeps(b, screen, c, t)
  <2>1. ~AtEnd(b) /\ Redrawn(ShiftLeft(b), screen)
    BY <1>6 DEF Delete, b
  <2>2. Edited(RedrawnLine(ShiftLeft(b), screen), RedrawnTerminal(ShiftLeft(b), screen))
    BY <2>1 DEF Redrawn, RedrawnLine, RedrawnTerminal
  <2> QED
    BY <1>2, <2>1, <2>2, DeletedKeeps
<1>7. ASSUME Kill
      PROVE  \E c, t : Edited(c, t) /\ Keeps(b, screen, c, t)
  <2>1. Edited(Killed(b), KilledTerminal(b, screen))
    BY <1>7 DEF Kill, Killed, KilledTerminal, b
  <2> QED
    BY <1>2, <2>1, KilledKeeps
<1>8. ASSUME NEW n \in Nat, NEW p \in Nat, NEW u,
             \/ u = MoveLeft(screen, n) /\ p = b.current_pos - n
             \/ u = MoveRight(screen, n) /\ p = b.current_pos + n /\ p <= b.end_pos,
             Edited([b EXCEPT !.current_pos = p], u)
      PROVE  \E c, t : Edited(c, t) /\ Keeps(b, screen, c, t)
  <2> DEFINE d == [b EXCEPT !.current_pos = p]
  <2>1. d = [b EXCEPT !.current_pos = p]
    OBVIOUS
  <2>2. Edited(d, u)
    BY <1>8
  <2> HIDE DEF d
  <2>3. Keeps(b, screen, d, u)
    BY <1>2, <1>8, <2>1, CursorKeeps
  <2> QED
    BY <2>2, <2>3
<1>9. ASSUME Home
      PROVE  \E c, t : Edited(c, t) /\ Keeps(b, screen, c, t)
  <2> DEFINE n == b.current_pos - start_pos
             p == start_pos
             u == MoveLeft(screen, n)
  <2>1. Edited([b EXCEPT !.current_pos = p], u)
    BY <1>9 DEF Home, b
  <2>2. n \in Nat /\ p \in Nat /\ p = b.current_pos - n
    BY <1>3
  <2>3. u = MoveLeft(screen, n)
    OBVIOUS
  <2> HIDE DEF n, p, u
  <2> QED
    BY <1>8, <2>1, <2>2, <2>3
<1>10. ASSUME End
       PROVE  \E c, t : Edited(c, t) /\ Keeps(b, screen, c, t)
  <2> DEFINE n == b.end_pos - b.current_pos
             p == b.end_pos
             u == MoveRight(screen, n)
  <2>1. Edited([b EXCEPT !.current_pos = p], u)
    BY <1>10 DEF End, b
  <2>2. n \in Nat /\ p \in Nat /\ p = b.current_pos + n /\ p <= b.end_pos
    BY <1>3
  <2>3. u = MoveRight(screen, n)
    OBVIOUS
  <2> HIDE DEF n, p, u
  <2> QED
    BY <1>8, <2>1, <2>2, <2>3
<1>11. ASSUME Left
       PROVE  \E c, t : Edited(c, t) /\ Keeps(b, screen, c, t)
  <2> DEFINE n == 1
             p == b.current_pos - 1
             u == MoveLeft(screen, n)
  <2>1. Edited([b EXCEPT !.current_pos = p], u)
    BY <1>11 DEF Left, b
  <2>2. n \in Nat /\ p \in Nat /\ p = b.current_pos - n
    <3>1. b.current_pos # start_pos
      BY <1>11 DEF Left, AtBegin, b
    <3> QED
      BY <1>3, <3>1
  <2>3. u = MoveLeft(screen, n)
    OBVIOUS
  <2> HIDE DEF n, p, u
  <2> QED
    BY <1>8, <2>1, <2>2, <2>3
<1>12. ASSUME Right
       PROVE  \E c, t : Edited(c, t) /\ Keeps(b, screen, c, t)
  <2> DEFINE n == 1
             p == b.current_pos + 1
             u == MoveRight(screen, n)
  <2>1. Edited([b EXCEPT !.current_pos = p], u)
    BY <1>12 DEF Right, b
  <2>2. n \in Nat /\ p \in Nat /\ p = b.current_pos + n /\ p <= b.end_pos
    <3>1. b.current_pos # b.end_pos
      BY <1>12 DEF Right, AtEnd, b
    <3> QED
      BY <1>3, <3>1
  <2>3. u = MoveRight(screen, n)
    OBVIOUS
  <2> HIDE DEF n, p, u
  <2> QED
    BY <1>8, <2>1, <2>2, <2>3
<1>13. \E c, t : Edited(c, t) /\ Keeps(b, screen, c, t)
  BY <1>4, <1>5, <1>6, <1>7, <1>9, <1>10, <1>11, <1>12 DEF Keyed
<1> QED
  BY <1>1, <1>13 DEF b

\* ctrl-l
LEMMA RedrawIs ==
  ASSUME Inv, Redraw
  PROVE  /\ Inv'
         /\ synced' => synced /\ Shown(default_cli, screen)'
<1> DEFINE u == PrintLine(Clear, default_cli)
<1>1. Reading /\ Edited(default_cli, u)
  BY DEF Redraw
<1>2. Whole(default_cli)
  BY <1>1, AtHand DEF Ready
<1>3. Term(u) /\ Shown(default_cli, u)
  BY <1>2, ClearIs, PrintedShows
<1> HIDE DEF u
<1>4. /\ Inv' /\ default_cli' = default_cli
      /\ synced' <=> synced /\ InSync(default_cli, u)
      /\ synced' => screen' = u
  BY <1>1, <1>2, <1>3, EditedIs
<1> QED
  BY <1>3, <1>4 DEF Shown

\* Key-up and key-down.
LEMMA ExchangedIs ==
  ASSUME Inv, Up \/ Down
  PROVE  /\ Inv'
         /\ Down /\ synced /\ line.end_pos < COLS => synced'
         /\ synced' /\ Shown(default_cli, screen) /\ default_cli.end_pos <= COLS =>
              Shown(default_cli, screen)'
<1> DEFINE b == default_cli
           e == Move(DeleteRow(screen), Row(screen), 0)
<1>1. /\ Reading /\ Ready(b) /\ Whole(b) /\ Term(screen) /\ (synced => InSync(b, screen))
      /\ Ready(line) /\ Whole(line) /\ Whole(entry)
  <2>1. Reading
    BY DEF Up, Down
  <2>2. Ready(b) /\ Term(screen) /\ (synced => InSync(b, screen))
    BY <2>1, AtHand
  <2>3. Ready(line)
    BY <2>2 DEF Inv, default_cli
  <2> QED
    BY <2>1, <2>2, <2>3 DEF Ready, Inv
<1> HIDE DEF b
<1>2. /\ Term(e)
      /\ InSync(b, screen) => e.pos = 0
      /\ InSync(b, screen) /\ Shown(b, screen) /\ b.end_pos <= COLS => \A q \in Cell : e.cells[q] = Blank
  BY <1>1, RowCleared
<1> HIDE DEF e
\* The terminal that shows line c with its cursor somewhere.
<1>3. ASSUME NEW c, NEW u, Whole(c), Term(u), Exchanged(c, u), default_cli' = c, browsing' => Ready(line),
             u.cells = PrintLine(e, c).cells
      PROVE  /\ Inv'
             /\ synced' <=> synced /\ InSync(c, u)
             /\ synced' /\ Shown(b, screen) /\ b.end_pos <= COLS => Shown(default_cli, screen)'
  <2>1. Shows(c, u) /\ line' = line /\ entry' = entry
    BY <1>3 DEF Exchanged
  <2>2. Term(screen') /\ (synced' <=> synced /\ InSync(c, u)) /\ (synced' => screen' = u)
    BY <1>3, <2>1, ShowsIs
  <2>3. (synced => InSync(default_cli, screen))'
    BY <1>3, <2>2
  <2>4. Inv'
    <3>1. Whole(line)' /\ Whole(entry)' /\ (browsing => Ready(line))'
      BY <1>1, <1>3, <2>1
    <3> QED
      BY <2>2, <2>3, <3>1 DEF Inv
  <2>5. ASSUME synced', Shown(b, screen), b.end_pos <= COLS
        PROVE  Shown(default_cli, screen)'
    <3>1. e.pos = 0 /\ \A q \in Cell : e.cells[q] = Blank
      BY <1>1, <1>2, <2>2, <2>5
    <3>2. Shown(c, PrintLine(e, c))
      BY <1>2, <1>3, <3>1, PrintedShows
    <3>3. Shown(c, u)
      BY <1>3, <3>2 DEF Shown
    <3>4. screen' = u
      BY <2>2, <2>5
    <3> QED
      BY <1>3, <3>3, <3>4 DEF Shown
  <2> QED
    BY <2>2, <2>4, <2>5
<1>4. CASE Up
  <2> DEFINE u == PrintLine(e, entry)
  <2>1. Exchanged(entry, u) /\ browsing' = TRUE /\ ~browsing
    BY <1>4 DEF Up, e
  <2>2. default_cli' = entry
    BY <2>1 DEF Exchanged, default_cli
  <2>3. Term(u)
    BY <1>1, <1>2, PrintedShows
  <2>4. u.cells = PrintLine(e, entry).cells
    OBVIOUS
  <2> HIDE DEF u
  <2>5. ~Down
    BY <2>1 DEF Down
  <2> QED
    BY <1>1, <1>3, <2>1, <2>2, <2>3, <2>4, <2>5 DEF b
<1>5. CASE Down
  <2> DEFINE w == PrintLine(e, line)
             p == line.current_pos
             u == Move(w, Row(screen), p)
  <2>1. Exchanged(line, u) /\ browsing' = FALSE
    BY <1>5 DEF Down, e
  <2>2. default_cli' = line
    BY <2>1 DEF Exchanged, default_cli
  <2>3. Term(w)
    BY <1>1, <1>2, PrintedShows
  <2>4. p \in Nat /\ p <= line.end_pos /\ line.end_pos \in Nat
    BY <1>1, ReadyIs
  <2>5. p = line.current_pos /\ w = PrintLine(e, line)
    OBVIOUS
  <2> HIDE DEF w, p
  <2>6. /\ Term(u) /\ u.cells = w.cells
        /\ screen.pos < COLS /\ p < COLS => u.pos = p
    BY <1>1, <2>3, <2>4, PlacedIs
  <2> HIDE DEF u
  <2>7. /\ Inv'
        /\ synced' <=> synced /\ InSync(line, u)
        /\ synced' /\ Shown(b, screen) /\ b.end_pos <= COLS => Shown(default_cli, screen)'
    BY <1>1, <1>3, <2>1, <2>2, <2>5, <2>6
  <2>8. ASSUME synced, line.end_pos < COLS
        PROVE  synced'
    <3>1. screen.pos < COLS
      BY <1>1, <2>8 DEF InSync
    <3>2. p < COLS
      BY <2>4, <2>8, Sizes
    <3>3. InSync(line, u)
      BY <2>5, <2>6, <3>1, <3>2 DEF InSync
    <3> QED
      BY <2>7, <2>8, <3>3
  <2> QED
    BY <2>7, <2>8 DEF b
<1> QED
  BY <1>4, <1>5

LEMMA ReturnIs ==
  ASSUME Inv, Return
  PROVE  Inv' /\ synced' /\ Shown(default_cli, screen)'
<1> DEFINE d == ContentReset(line)
           u == PrintLine(Clear, d)
<1>1. /\ line' = d /\ browsing' = FALSE /\ screen' = PrintLine(Clear, line') /\ synced'
      /\ \/ UNCHANGED entry
         \/ browsing /\ entry' = [entry EXCEPT !.current_pos = entry.end_pos]
         \/ entry' = Cli(Chars(default_cli, start_pos, default_cli.end_pos))
  BY DEF Return, Submitted, default_cli
<1>2. Ready(line) /\ Ready(default_cli)
  <2>1. Reading
    BY DEF Return
  <2> QED
    BY <2>1, AtHand DEF Inv, default_cli
<1>3. Whole(line) /\ line.end_pos < MAX_COMMAND_LENGTH
  BY <1>2 DEF Ready
<1>4. Whole(d) /\ d.current_pos = start_pos /\ d.end_pos = start_pos
  BY <1>3, ContentResetIs
<1>5. Term(u) /\ u.pos = 0 + start_pos /\ Shown(d, u)
  BY <1>4, ClearIs, PrintedShows
<1>6. screen' = u
  BY <1>1
<1> HIDE DEF d, u
<1>7. default_cli' = d
  BY <1>1 DEF default_cli
<1>8. InSync(d, u)
  BY <1>4, <1>5, Sizes DEF InSync
<1>9. Whole(entry')
  <2>1. CASE UNCHANGED entry
    BY <2>1 DEF Inv
  <2>2. CASE entry' = [entry EXCEPT !.current_pos = entry.end_pos]
    <3> DEFINE n == entry.end_pos
               e == [entry EXCEPT !.current_pos = n]
    <3>1. entry \in CliType /\ n \in Nat
      BY DEF Inv, Whole, CliType
    <3>2. e \in CliType /\ e.clibuff = entry.clibuff /\ e.end_pos = entry.end_pos
      BY <3>1 DEF CliType
    <3>3. entry' = e
      BY <2>2
    <3> HIDE DEF e, n
    <3> QED
      BY <3>2, <3>3 DEF Inv, Whole
  <2>3. CASE entry' = Cli(Chars(default_cli, start_pos, default_cli.end_pos))
    <3> DEFINE c == default_cli
               text == Text(c)
               n == c.end_pos
    <3> HIDE DEF c
    <3>1. text \in Seq(Char \ {NUL}) /\ Len(text) = n - start_pos
      BY <1>2, TextOf DEF Ready, c
    <3>2. n \in Nat /\ n <= MAX_COMMAND_LENGTH
      BY <1>2 DEF Ready, Whole, CliType, c
    <3>3. entry' = Cli(text)
      BY <2>3 DEF Text, c
    <3> HIDE DEF text, n
    <3>4. n = start_pos + Len(text)
      BY <3>1, <3>2, Sizes
    <3>5. Whole(Cli(text))
      BY <3>1, <3>2, <3>4, CliOfText
    <3> QED
      BY <3>3, <3>5
  <2> QED
    BY <1>1, <2>1, <2>2, <2>3
<1>10. Inv'
  BY <1>1, <1>4, <1>5, <1>6, <1>7, <1>8, <1>9 DEF Inv
<1> QED
  BY <1>1, <1>5, <1>6, <1>7, <1>10 DEF Shown

LEMMA InitInv == Init => Inv /\ Shown(default_cli, screen)
<1> SUFFICES ASSUME Init PROVE Inv /\ Shown(default_cli, screen)
  OBVIOUS
<1> DEFINE c == Cli(<<>>)
           u == PrintLine(Clear, c)
<1>1. line = c /\ entry = c /\ browsing = FALSE /\ screen = u
  BY DEF Init
<1>2. Whole(c) /\ c.current_pos = start_pos /\ c.end_pos = start_pos
  <2> DEFINE text == <<>>
             n == start_pos
  <2>1. text \in Seq(Char \ {NUL}) /\ n = start_pos + Len(text) /\ n \in Nat /\ n <= MAX_COMMAND_LENGTH
    BY Sizes
  <2> HIDE DEF text, n
  <2>2. Whole(Cli(text)) /\ Cli(text).current_pos = n /\ Cli(text).end_pos = n
    BY <2>1, CliOfText
  <2> QED
    BY <2>2 DEF text, n
<1> HIDE DEF c
<1>3. Term(u) /\ u.pos = 0 + start_pos /\ Shown(c, u)
  BY <1>2, ClearIs, PrintedShows
<1>4. InSync(c, u)
  BY <1>2, <1>3, Sizes DEF InSync
<1>5. default_cli = c
  BY <1>1 DEF default_cli
<1> QED
  BY <1>1, <1>2, <1>3, <1>4, <1>5 DEF Inv

LEMMA KeyedIs ==
  ASSUME Inv, Keyed
  PROVE  /\ Inv'
         /\ ScreenShowsLine => ScreenShowsLine'
         /\ synced /\ default_cli.end_pos + 1 < COLS => synced'
<1>1. Reading /\ \E c, t : Edited(c, t) /\ Keeps(default_cli, screen, c, t)
  BY KeyedKeeps
<1>2. PICK c, t : Edited(c, t) /\ Keeps(default_cli, screen, c, t)
  BY <1>1
<1>3. Whole(c) /\ Term(t)
  BY <1>2 DEF Keeps
<1>4. /\ Inv' /\ default_cli' = c
      /\ synced' <=> synced /\ InSync(c, t)
      /\ synced' => screen' = t
  BY <1>1, <1>2, <1>3, EditedIs
<1>5. synced => InSync(default_cli, screen)
  BY DEF Inv
<1>6. ASSUME ScreenShowsLine, synced', c.end_pos < MAX_COMMAND_LENGTH
      PROVE  Shown(default_cli, screen)'
  <2>1. Shown(default_cli, screen)
    BY <1>1, <1>4, <1>6 DEF ScreenShowsLine, Shown, Reading
  <2>2. Shown(c, t)
    BY <1>2, <1>4, <1>5, <1>6, <2>1 DEF Keeps
  <2> QED
    BY <1>4, <1>6, <2>2 DEF Shown
<1>7. ScreenShowsLine => ScreenShowsLine'
  BY <1>4, <1>6 DEF ScreenShowsLine, Shown
<1>8. synced /\ default_cli.end_pos + 1 < COLS => synced'
  BY <1>2, <1>4, <1>5 DEF Keeps
<1> QED
  BY <1>4, <1>7, <1>8

LEMMA NextIs ==
  ASSUME Inv, [Next]_vars
  PROVE  /\ Inv'
         /\ ScreenShowsLine /\ [Up \/ Down => default_cli.end_pos <= COLS]_vars => ScreenShowsLine'
         /\ [synced /\ default_cli.end_pos + 1 < COLS /\ line.end_pos < COLS
               => synced' \/ Redraw \/ Up]_vars
<1>1. CASE Keyed
  BY <1>1, KeyedIs
<1>2. CASE Redraw
  BY <1>2, RedrawIs DEF ScreenShowsLine, Shown
<1>3. CASE Up \/ Down
  <2>1. /\ Inv'
        /\ Down /\ synced /\ line.end_pos < COLS => synced'
        /\ synced' /\ Shown(default_cli, screen) /\ default_cli.end_pos <= COLS =>
             Shown(default_cli, screen)'
    BY <1>3, ExchangedIs
  <2>2. Reading /\ vars' # vars
    BY <1>3 DEF Up, Down, vars
  <2>3. synced' => synced
    BY <1>3 DEF Up, Down, Exchanged, Shows
  <2>4. ASSUME ScreenShowsLine, [Up \/ Down => default_cli.end_pos <= COLS]_vars
        PROVE  ScreenShowsLine'
    <3>1. synced' => Shown(default_cli, screen)
      BY <2>2, <2>3, <2>4 DEF ScreenShowsLine, Shown, Reading
    <3>2. synced' => Shown(default_cli, screen)'
      BY <1>3, <2>1, <2>2, <2>4, <3>1
    <3> QED
      BY <3>2 DEF ScreenShowsLine, Shown
  <2> QED
    BY <1>3, <2>1, <2>4
<1>4. CASE Return
  BY <1>4, ReturnIs DEF ScreenShowsLine, Shown
<1>5. CASE UNCHANGED vars
  <2>1. Inv'
    BY <1>5 DEF vars, Inv, default_cli
  <2>2. ScreenShowsLine => ScreenShowsLine'
    BY <1>5 DEF vars, ScreenShowsLine, default_cli
  <2> QED
    BY <1>5, <2>1, <2>2
<1> QED
  BY <1>1, <1>2, <1>3, <1>4, <1>5 DEF Next, Keyed

LEMMA Invariant == Spec => []Inv
<1>1. Init => Inv
  BY InitInv
<1>2. Inv /\ [Next]_vars => Inv'
  BY NextIs
<1> QED
  BY <1>1, <1>2, PTL DEF Spec

-----------------------------------------------------------------------------

\* Until it is full, the buffer of the line at hand and that of the newest entry hold the
\* prompt, a text without a NUL and nothing behind it, whatever keys were typed and
\* whether or not the position had left the terminal's cursor.
THEOREM BufferHolds == Spec => []BufferIsWhole
<1>1. Inv => BufferIsWhole
  BY WholeIsWhole DEF Inv, BufferIsWhole
<1> QED
  BY <1>1, Invariant, PTL

\* While the line fits its row, the cursor keys, the editing keys, return and key-down
\* leave the terminal's cursor on the position in the buffer.
THEOREM SyncHolds == Spec => KeysKeepSync
<1>1. Inv /\ [Next]_vars =>
        [synced /\ default_cli.end_pos + 1 < COLS /\ line.end_pos < COLS
           => synced' \/ Redraw \/ Up]_vars
  BY NextIs
<1> QED
  BY <1>1, Invariant, PTL DEF Spec, KeysKeepSync

\* key-up and key-down are used on a line of one row only: of a longer one they delete
\* the row of the cursor and leave the others on the terminal.
ExchangedOnOneRow == [][Up \/ Down => default_cli.end_pos <= COLS]_vars

\* As long as the terminal's cursor follows the position the terminal shows the line that
\* return would submit, and nothing else.
THEOREM ScreenHolds == Spec /\ ExchangedOnOneRow => []ScreenShowsLine
<1>1. Init => ScreenShowsLine
  BY InitInv DEF ScreenShowsLine, Shown
<1>2. /\ Inv /\ ScreenShowsLine /\ [Next]_vars
      /\ [Up \/ Down => default_cli.end_pos <= COLS]_vars
      => ScreenShowsLine'
  BY NextIs
<1> QED
  BY <1>1, <1>2, Invariant, PTL DEF Spec, ExchangedOnOneRow

-----------------------------------------------------------------------------
(* The text a key leaves.                                                  *)

LEMMA TextIs ==
  ASSUME NEW c, Whole(c), c.end_pos < MAX_COMMAND_LENGTH
  PROVE  /\ Text(c) \in Seq(Char) /\ Len(Text(c)) = c.end_pos - start_pos
         /\ Len(Text(c)) \in Nat
         /\ \A m \in 1 .. c.end_pos - start_pos : Text(c)[m] = c.clibuff[start_pos + m - 1]
<1> DEFINE n == c.end_pos - start_pos
           f == [m \in 1 .. n |-> c.clibuff[start_pos + m - 1]]
<1>1. n \in Nat /\ start_pos \in Nat /\ c.end_pos \in Nat
  BY Sizes DEF Whole, CliType
<1>2. \A m \in 1 .. n : start_pos + m - 1 \in Index
  BY <1>1, Sizes DEF Index
<1>3. Text(c) = f
  BY DEF Text, Chars
<1>4. f \in [1 .. n -> Char] /\ \A m \in 1 .. n : f[m] = c.clibuff[start_pos + m - 1]
  BY <1>2 DEF Whole, CliType
<1> HIDE DEF f
<1>5. f \in Seq(Char) /\ Len(f) = n
  <2> HIDE DEF n
  <2> QED
    BY <1>1, <1>4, SeqDef, LenProperties
<1> QED
  BY <1>1, <1>3, <1>4, <1>5

LEMMA TextEquals ==
  ASSUME NEW c, Whole(c), c.end_pos < MAX_COMMAND_LENGTH,
         NEW s \in Seq(Char), Len(s) = c.end_pos - start_pos,
         \A m \in 1 .. Len(s) : s[m] = c.clibuff[start_pos + m - 1]
  PROVE  Text(c) = s
<1>1. Text(c) \in Seq(Char) /\ Len(Text(c)) = Len(s)
      /\ \A m \in 1 .. Len(s) : Text(c)[m] = s[m]
  BY TextIs
<1> QED
  BY <1>1, SeqEqual

LEMMA CutIs ==
  ASSUME NEW s \in Seq(Char), NEW i \in Nat, NEW j \in Nat, i <= j, j <= Len(s)
  PROVE  /\ Cut(s, i, j) \in Seq(Char)
         /\ Len(Cut(s, i, j)) = i + (Len(s) - j)
         /\ \A m \in 1 .. i + (Len(s) - j) :
              Cut(s, i, j)[m] = IF m <= i THEN s[m] ELSE s[m - i + j]
<1> DEFINE a == SubSeq(s, 1, i)
           n == Len(s)
           b == SubSeq(s, j + 1, n)
           r == n - j
<1>1. n \in Nat /\ r \in Nat
  BY LenProperties
<1>2. a \in Seq(Char) /\ Len(a) = i /\ \A m \in 1 .. i : a[m] = s[m]
  <2>1. \A m \in 1 .. i : m \in 1 .. n
    BY <1>1
  <2>2. /\ a \in Seq(Char)
        /\ Len(a) = IF 1 <= i THEN i - 1 + 1 ELSE 0
        /\ \A m \in 1 .. i - 1 + 1 : a[m] = s[1 + m - 1]
    BY <2>1, SubSeqProperties
  <2>3. i - 1 + 1 = i /\ (~(1 <= i) => i = 0) /\ \A m \in 1 .. i : 1 + m - 1 = m
    OBVIOUS
  <2> HIDE DEF a
  <2> QED
    BY <2>2, <2>3
<1>3. b \in Seq(Char) /\ Len(b) = r /\ \A m \in 1 .. r : b[m] = s[j + m]
  <2> DEFINE p == j + 1
  <2>0. p \in Int /\ n \in Int /\ n - p + 1 = r /\ (p <= n <=> r > 0) /\ 1 <= p
    BY <1>1
  <2>1. \A m \in p .. n : m \in 1 .. Len(s)
    BY <1>1, <2>0
  <2>4. \A m \in 1 .. r : p + m - 1 = j + m
    BY <1>1
  <2>5. b = SubSeq(s, p, n)
    OBVIOUS
  <2> HIDE DEF p, n, r, b
  <2>2. /\ b \in Seq(Char)
        /\ Len(b) = IF p <= n THEN n - p + 1 ELSE 0
        /\ \A m \in 1 .. n - p + 1 : b[m] = s[p + m - 1]
    BY <2>0, <2>1, <2>5, SubSeqProperties
  <2>3. Len(b) = r
    BY <1>1, <2>0, <2>2
  <2>6. \A m \in 1 .. r : b[m] = s[p + m - 1]
    BY <2>0, <2>2
  <2> QED
    BY <2>2, <2>3, <2>4, <2>6
<1>4. Cut(s, i, j) = a \o b
  BY DEF Cut
<1> HIDE DEF a, b
<1>5. /\ a \o b \in Seq(Char) /\ Len(a \o b) = Len(a) + Len(b)
      /\ \A m \in 1 .. Len(a) + Len(b) :
           (a \o b)[m] = IF m <= Len(a) THEN a[m] ELSE b[m - Len(a)]
  BY <1>2, <1>3, ConcatProperties
<1> DEFINE u == a \o b
<1> HIDE DEF u
<1>6. ASSUME NEW m \in 1 .. i + r
      PROVE  u[m] = IF m <= i THEN s[m] ELSE s[m - i + j]
  <2>1. m <= i => m \in 1 .. i
    OBVIOUS
  <2>2. ~ (m <= i) => m - i \in 1 .. r /\ j + (m - i) = m - i + j
    BY <1>1
  <2>3. u[m] = IF m <= i THEN a[m] ELSE b[m - i]
    BY <1>2, <1>3, <1>5 DEF u
  <2> QED
    BY <1>2, <1>3, <2>1, <2>2, <2>3
<1> QED
  BY <1>2, <1>3, <1>4, <1>5, <1>6 DEF u

\* What is left of s without its characters i + 1 to j.
CutAt(u, s, i, j) ==
  /\ u \in Seq(Char) /\ Len(u) = i + (Len(s) - j)
  /\ \A m \in 1 .. i + (Len(s) - j) : u[m] = IF m <= i THEN s[m] ELSE s[m - i + j]

LEMMA CutStated ==
  ASSUME NEW s \in Seq(Char), NEW i \in Nat, NEW j \in Nat, i <= j, j <= Len(s)
  PROVE  CutAt(Cut(s, i, j), s, i, j)
BY CutIs DEF CutAt

\* k behind the first i characters of s.
PutIn(s, i, k) == SubSeq(s, 1, i) \o <<k>> \o Cut(s, 0, i)

LEMMA PutInIs ==
  ASSUME NEW s \in Seq(Char), NEW i \in Nat, i <= Len(s), NEW k \in Char
  PROVE  LET u == PutIn(s, i, k) IN
         /\ u \in Seq(Char) /\ Len(u) = Len(s) + 1
         /\ \A m \in 1 .. Len(s) + 1 :
              u[m] = IF m <= i THEN s[m] ELSE IF m = i + 1 THEN k ELSE s[m - 1]
<1> DEFINE a == SubSeq(s, 1, i)
           b == <<k>>
           z == 0
           r == Cut(s, z, i)
           n == Len(s)
           l == n - i
<1>1. n \in Nat /\ l \in Nat
  BY LenProperties
<1>2. a \in Seq(Char) /\ Len(a) = i /\ \A m \in 1 .. i : a[m] = s[m]
  <2>1. \A m \in 1 .. i : s[m] \in Char
    <3>1. \A m \in 1 .. i : m \in 1 .. n
      BY <1>1
    <3> QED
      BY <3>1, ElementOfSeq
  <2>2. /\ a \in Seq(Char)
        /\ Len(a) = IF 1 <= i THEN i - 1 + 1 ELSE 0
        /\ \A m \in 1 .. i - 1 + 1 : a[m] = s[1 + m - 1]
    BY <2>1, SubSeqProperties
  <2>3. i - 1 + 1 = i /\ (~(1 <= i) => i = 0) /\ \A m \in 1 .. i : 1 + m - 1 = m
    OBVIOUS
  <2> HIDE DEF a
  <2> QED
    BY <2>2, <2>3
<1>3. b \in Seq(Char) /\ Len(b) = 1 /\ b[1] = k
  OBVIOUS
<1>4. r \in Seq(Char) /\ Len(r) = l /\ \A m \in 1 .. l : r[m] = s[m + i]
  <2>1. z \in Nat /\ z <= i /\ z + (n - i) = l /\ z = 0
    BY <1>1
  <2> HIDE DEF z
  <2>2. /\ r \in Seq(Char) /\ Len(r) = z + (Len(s) - i)
        /\ \A m \in 1 .. z + (Len(s) - i) : r[m] = IF m <= z THEN s[m] ELSE s[m - z + i]
    <3>1. CutAt(r, s, z, i)
      BY <2>1, CutStated
    <3> QED
      BY <3>1 DEF CutAt
  <2> HIDE DEF r
  <2>3. \A m \in 1 .. l : ~ (m <= z) /\ m - z + i = m + i
    BY <1>1, <2>1
  <2> QED
    BY <2>1, <2>2, <2>3
<1> HIDE DEF a, b, r
<1> DEFINE v == a \o b
<1>5. /\ v \in Seq(Char) /\ Len(v) = i + 1
      /\ \A m \in 1 .. i + 1 : v[m] = IF m <= i THEN a[m] ELSE b[m - i]
  <2>1. /\ v \in Seq(Char) /\ Len(v) = Len(a) + Len(b)
        /\ \A m \in 1 .. Len(a) + Len(b) :
             v[m] = IF m <= Len(a) THEN a[m] ELSE b[m - Len(a)]
    BY <1>2, <1>3, ConcatProperties
  <2> HIDE DEF v
  <2> QED
    BY <1>2, <1>3, <2>1
<1> HIDE DEF v
<1> DEFINE u == v \o r
<1>6. /\ u \in Seq(Char) /\ Len(u) = i + 1 + l
      /\ \A m \in 1 .. i + 1 + l : u[m] = IF m <= i + 1 THEN v[m] ELSE r[m - (i + 1)]
  <2>1. /\ u \in Seq(Char) /\ Len(u) = Len(v) + Len(r)
        /\ \A m \in 1 .. Len(v) + Len(r) :
             u[m] = IF m <= Len(v) THEN v[m] ELSE r[m - Len(v)]
    BY <1>4, <1>5, ConcatProperties
  <2> HIDE DEF u
  <2> QED
    BY <1>4, <1>5, <2>1
<1> HIDE DEF u
<1>7. ASSUME NEW m \in 1 .. n + 1
      PROVE  u[m] = IF m <= i THEN s[m] ELSE IF m = i + 1 THEN k ELSE s[m - 1]
  <2>0. m \in 1 .. i + 1 + l
    BY <1>1
  <2>1. CASE m <= i
    <3>1. m \in 1 .. i /\ m \in 1 .. i + 1 /\ m <= i + 1
      BY <2>1
    <3> QED
      BY <1>2, <1>5, <1>6, <2>0, <2>1, <3>1
  <2>2. CASE m = i + 1
    <3>1. m \in 1 .. i + 1 /\ m - i = 1 /\ ~ (m <= i) /\ m <= i + 1
      BY <2>2
    <3> QED
      BY <1>3, <1>5, <1>6, <2>0, <2>2, <3>1
  <2>3. CASE m > i + 1
    <3>1. ~ (m <= i) /\ ~ (m <= i + 1) /\ m # i + 1 /\ m - (i + 1) \in 1 .. l
          /\ m - (i + 1) + i = m - 1
      BY <1>1, <2>3
    <3> QED
      BY <1>4, <1>6, <2>0, <3>1
  <2> QED
    BY <2>1, <2>2, <2>3
<1>8. i + 1 + l = n + 1
  BY <1>1
<1> QED
  BY <1>6, <1>7, <1>8 DEF PutIn, u, v, a, b, r
\* The text with a character put in, and with one taken out.
LEMMA PutInText ==
  ASSUME NEW c, Ready(c), NEW k \in Char
  PROVE  LET at == Caret(c)
             n == c.end_pos - start_pos
             u == PutIn(Text(c), at, k)
         IN
         /\ at \in Nat /\ n \in Nat /\ at <= n
         /\ u \in Seq(Char) /\ Len(u) = n + 1
         /\ \A m \in 1 .. n + 1 :
              u[m] = IF m <= at THEN c.clibuff[start_pos + m - 1]
                     ELSE IF m = at + 1 THEN k ELSE c.clibuff[start_pos + (m - 1) - 1]
<1> DEFINE s == Text(c)
           at == Caret(c)
           n == c.end_pos - start_pos
           u == PutIn(s, at, k)
<1>1. /\ c.current_pos \in Nat /\ c.end_pos \in Nat /\ start_pos \in Nat
      /\ start_pos <= c.current_pos /\ c.current_pos <= c.end_pos /\ Whole(c)
      /\ c.end_pos < MAX_COMMAND_LENGTH
  BY ReadyIs, Sizes DEF Ready
<1>2. at \in Nat /\ at <= n /\ n \in Nat
  BY <1>1 DEF Caret
<1>3. s \in Seq(Char) /\ Len(s) = n /\ \A m \in 1 .. n : s[m] = c.clibuff[start_pos + m - 1]
  BY <1>1, TextIs
<1> HIDE DEF n, at
<1>4. at \in Nat /\ at <= Len(s) /\ s \in Seq(Char)
  BY <1>2, <1>3
<1>5. /\ u \in Seq(Char) /\ Len(u) = Len(s) + 1
      /\ \A m \in 1 .. Len(s) + 1 :
           u[m] = IF m <= at THEN s[m] ELSE IF m = at + 1 THEN k ELSE s[m - 1]
  BY <1>4, PutInIs
<1> HIDE DEF u
<1>6. ASSUME NEW m \in 1 .. n + 1
      PROVE  u[m] = IF m <= at THEN c.clibuff[start_pos + m - 1]
                    ELSE IF m = at + 1 THEN k ELSE c.clibuff[start_pos + (m - 1) - 1]
  <2>1. m <= at => m \in 1 .. n
    BY <1>2
  <2>2. ~ (m <= at) /\ m # at + 1 => m - 1 \in 1 .. n
    BY <1>2
  <2> QED
    BY <1>3, <1>5, <2>1, <2>2
<1>7. u \in Seq(Char) /\ Len(u) = n + 1
  BY <1>3, <1>5
<1> QED
  BY <1>2, <1>6, <1>7 DEF u, s, at, n

LEMMA CutOutText ==
  ASSUME NEW c, Ready(c), NEW a \in Nat, NEW n, n = c.end_pos - start_pos, a < n,
         NEW b, b = a + 1
  PROVE  LET u == Cut(Text(c), a, b) IN
         /\ n \in Nat /\ u \in Seq(Char) /\ Len(u) = n - 1
         /\ \A m \in 1 .. n - 1 :
              u[m] = IF m <= a THEN c.clibuff[start_pos + m - 1]
                     ELSE c.clibuff[start_pos + (m + 1) - 1]
<1> DEFINE s == Text(c)
           u == Cut(s, a, b)
<1>1. /\ c.end_pos \in Nat /\ start_pos \in Nat /\ start_pos <= c.end_pos /\ Whole(c)
      /\ c.end_pos < MAX_COMMAND_LENGTH
  BY ReadyIs, Sizes DEF Ready, Whole
<1>2. b \in Nat /\ a <= b /\ b <= n /\ n \in Nat
  BY <1>1
<1>3. s \in Seq(Char) /\ Len(s) = n /\ \A m \in 1 .. n : s[m] = c.clibuff[start_pos + m - 1]
  BY <1>1, TextIs
<1>4. b \in Nat /\ a <= b /\ b <= Len(s) /\ s \in Seq(Char)
  <2>1. Len(s) = n /\ s \in Seq(Char)
    BY <1>3
  <2> QED
    BY <1>2, <2>1
<1> HIDE DEF s
<1>5. /\ u \in Seq(Char) /\ Len(u) = a + (Len(s) - b)
      /\ \A m \in 1 .. a + (Len(s) - b) : u[m] = IF m <= a THEN s[m] ELSE s[m - a + b]
  <2>1. CutAt(u, s, a, b)
    BY <1>4, CutStated
  <2> HIDE DEF u
  <2> QED
    BY <2>1 DEF CutAt
<1> HIDE DEF u
<1>6. a + (Len(s) - b) = n - 1
  <2> DEFINE k == Len(s)
  <2>1. k = n /\ n \in Int /\ a \in Int /\ b \in Int /\ b = a + 1
    BY <1>2, <1>3
  <2> HIDE DEF k
  <2>2. a + (k - b) = n - 1
    BY <2>1
  <2> QED
    BY <2>2 DEF k
<1>7. ASSUME NEW m \in 1 .. n - 1
      PROVE  u[m] = IF m <= a THEN c.clibuff[start_pos + m - 1]
                    ELSE c.clibuff[start_pos + (m + 1) - 1]
  <2>1. m \in 1 .. n /\ m + 1 \in 1 .. n /\ m - a + b = m + 1
    BY <1>2
  <2>2. u[m] = IF m <= a THEN s[m] ELSE s[m + 1]
    BY <1>5, <1>6, <2>1
  <2> QED
    BY <1>3, <2>1, <2>2
<1>8. u \in Seq(Char) /\ Len(u) = n - 1
  BY <1>5, <1>6
<1> QED
  BY <1>2, <1>7, <1>8 DEF u, s


\* The text and the place in it after a character was typed.
TypedInto(c, k, d) ==
  \A i \in Index :
    d.clibuff[i] = IF i = c.current_pos THEN k
                   ELSE IF i \in c.current_pos + 1 .. c.end_pos + 1
                   THEN c.clibuff[i - 1] ELSE c.clibuff[i]

LEMMA TypedText ==
  ASSUME NEW c, Ready(c), NEW k \in Letter, c.end_pos + 1 < MAX_COMMAND_LENGTH,
         NEW d, Whole(d), d.current_pos = c.current_pos + 1, d.end_pos = c.end_pos + 1,
         TypedInto(c, k, d)
  PROVE  /\ Text(d) = PutIn(Text(c), Caret(c), k)
         /\ Caret(d) = Caret(c) + 1
<1> DEFINE at == Caret(c)
           n == c.end_pos - start_pos
           u == PutIn(Text(c), at, k)
<1>1. /\ c.current_pos \in Nat /\ c.end_pos \in Nat /\ start_pos \in Nat
      /\ at = c.current_pos - start_pos
  BY ReadyIs, Sizes DEF Caret
<1>2. k \in Char
  BY DEF Char
<1>3. at = Caret(c) /\ n = c.end_pos - start_pos
  OBVIOUS
<1>4. /\ at \in Nat /\ n \in Nat /\ at <= n
      /\ u \in Seq(Char) /\ Len(u) = n + 1
      /\ \A m \in 1 .. n + 1 :
           u[m] = IF m <= at THEN c.clibuff[start_pos + m - 1]
                  ELSE IF m = at + 1 THEN k ELSE c.clibuff[start_pos + (m - 1) - 1]
  BY <1>2, PutInText
<1> HIDE DEF u, at, n
<1>5. at \in Nat /\ n \in Nat /\ at <= n
  BY <1>4
<1>6. ASSUME NEW m \in 1 .. n + 1
      PROVE  u[m] = d.clibuff[start_pos + m - 1]
  <2> DEFINE i == start_pos + m - 1
  <2>1. i \in Index /\ i \in Nat
    BY <1>1, <1>3, <1>5, Sizes DEF Index
  <2>2. CASE m <= at
    <3>1. i # c.current_pos /\ i \notin c.current_pos + 1 .. c.end_pos + 1
      BY <1>1, <1>4, <2>2
    <3>2. d.clibuff[i] = c.clibuff[i]
      BY <2>1, <3>1 DEF TypedInto
    <3> QED
      BY <1>4, <2>2, <3>2
  <2>3. CASE m = at + 1
    <3>1. i = c.current_pos /\ ~ (m <= at)
      BY <1>1, <1>4, <2>3
    <3>2. d.clibuff[i] = k
      BY <2>1, <3>1 DEF TypedInto
    <3> QED
      BY <1>4, <2>3, <3>1, <3>2
  <2>4. CASE m > at + 1
    <3>1. /\ i # c.current_pos /\ i \in c.current_pos + 1 .. c.end_pos + 1
          /\ start_pos + (m - 1) - 1 = i - 1 /\ ~ (m <= at) /\ m # at + 1
      BY <1>1, <1>3, <1>5, <2>4
    <3>2. d.clibuff[i] = c.clibuff[i - 1]
      BY <2>1, <3>1 DEF TypedInto
    <3> QED
      BY <1>4, <3>1, <3>2
  <2> QED
    BY <1>5, <2>2, <2>3, <2>4
<1>7. d.end_pos - start_pos = n + 1 /\ d.end_pos < MAX_COMMAND_LENGTH
  BY <1>1, <1>3
<1>8. Text(d) = u
  BY <1>4, <1>6, <1>7, TextEquals
<1>9. Caret(d) = at + 1
  BY <1>1 DEF Caret
<1> QED
  BY <1>8, <1>9 DEF u, at

\* One character goes.
LEMMA ShorterText ==
  ASSUME NEW c, Ready(c), NEW p \in Nat, start_pos <= p, p < c.end_pos,
         NEW d, Whole(d), d.end_pos = c.end_pos - 1,
         \A i \in Index : i < c.end_pos - 1 =>
           d.clibuff[i] = IF i < p THEN c.clibuff[i] ELSE c.clibuff[i + 1]
  PROVE  Text(d) = Cut(Text(c), p - start_pos, p - start_pos + 1)
<1> DEFINE a == p - start_pos
           b == a + 1
           n == c.end_pos - start_pos
           u == Cut(Text(c), a, b)
<1>1. c.end_pos \in Nat /\ start_pos \in Nat /\ c.end_pos < MAX_COMMAND_LENGTH
  BY ReadyIs, Sizes
<1>2. a \in Nat /\ a < n /\ b = a + 1 /\ a = p - start_pos /\ n = c.end_pos - start_pos
  BY <1>1
<1> HIDE DEF a, b, n
<1>3. /\ n \in Nat /\ u \in Seq(Char) /\ Len(u) = n - 1
      /\ \A m \in 1 .. n - 1 :
           u[m] = IF m <= a THEN c.clibuff[start_pos + m - 1]
                  ELSE c.clibuff[start_pos + (m + 1) - 1]
  BY <1>2, CutOutText
<1> HIDE DEF u
<1>4. ASSUME NEW m \in 1 .. n - 1
      PROVE  u[m] = d.clibuff[start_pos + m - 1]
  <2> DEFINE i == start_pos + m - 1
  <2>1. m \in Nat \ {0} /\ m <= n - 1 /\ p \in Int /\ MAX_COMMAND_LENGTH \in Nat
    BY <1>2, <1>3, Sizes DEF Index
  <2>2. i \in Nat /\ i < c.end_pos - 1 /\ i < MAX_COMMAND_LENGTH
    BY <1>1, <1>2, <2>1
  <2>3. start_pos + (m + 1) - 1 = i + 1 /\ (i < p <=> m <= a)
    BY <1>1, <1>2, <2>1
  <2>4. i \in Index
    BY <2>1, <2>2 DEF Index
  <2> QED
    BY <1>3, <2>2, <2>3, <2>4
<1>5. d.end_pos - start_pos = n - 1 /\ d.end_pos < MAX_COMMAND_LENGTH
  BY <1>1, <1>2, Sizes
<1>6. Text(d) = u
  BY <1>3, <1>4, <1>5, TextEquals
<1> QED
  BY <1>6 DEF u, a, b

\* The rest goes.
LEMMA KilledText ==
  ASSUME NEW c, Ready(c)
  PROVE  Text(Killed(c)) = SubSeq(Text(c), 1, Caret(c)) /\ Caret(Killed(c)) = Caret(c)
<1> DEFINE d == Killed(c)
           s == Text(c)
           at == Caret(c)
           u == SubSeq(s, 1, at)
           n == c.end_pos - start_pos
<1>1. /\ c.current_pos \in Nat /\ c.end_pos \in Nat /\ start_pos \in Nat
      /\ start_pos <= c.current_pos /\ c.current_pos <= c.end_pos /\ Whole(c)
      /\ c.end_pos < MAX_COMMAND_LENGTH
  BY ReadyIs, Sizes DEF Ready
<1>2. /\ Whole(d) /\ d.current_pos = c.current_pos /\ d.end_pos = c.current_pos
      /\ \A i \in Index : d.clibuff[i] = IF i \in c.current_pos .. c.end_pos THEN NUL
                                         ELSE c.clibuff[i]
  BY KilledIs
<1> HIDE DEF d
<1>3. at = c.current_pos - start_pos /\ at \in Nat /\ at <= n /\ n \in Nat
  BY <1>1 DEF Caret
<1>4. s \in Seq(Char) /\ Len(s) = n /\ \A m \in 1 .. n : s[m] = c.clibuff[start_pos + m - 1]
  BY <1>1, TextIs
<1> HIDE DEF s, at, n
<1>5. u \in Seq(Char) /\ Len(u) = at /\ \A m \in 1 .. at : u[m] = s[m]
  <2>1. \A m \in 1 .. at : m \in 1 .. Len(s)
    BY <1>3, <1>4
  <2>2. /\ u \in Seq(Char)
        /\ Len(u) = IF 1 <= at THEN at - 1 + 1 ELSE 0
        /\ \A m \in 1 .. at - 1 + 1 : u[m] = s[1 + m - 1]
    BY <1>3, <1>4, <2>1, SubSeqProperties
  <2>3. at - 1 + 1 = at /\ (~(1 <= at) => at = 0) /\ \A m \in 1 .. at : 1 + m - 1 = m
    BY <1>3
  <2> HIDE DEF u
  <2> QED
    BY <2>2, <2>3
<1> HIDE DEF u
<1>6. ASSUME NEW m \in 1 .. at
      PROVE  u[m] = d.clibuff[start_pos + m - 1]
  <2>1. start_pos + m - 1 \in Index /\ start_pos + m - 1 \notin c.current_pos .. c.end_pos
        /\ m \in 1 .. n
    BY <1>1, <1>3, Sizes DEF Index
  <2> QED
    BY <1>2, <1>4, <1>5, <2>1
<1>7. d.end_pos < MAX_COMMAND_LENGTH /\ d.end_pos - start_pos = at
  BY <1>1, <1>2, <1>3, Sizes
<1>8. Text(d) = u
  BY <1>2, <1>5, <1>6, <1>7, TextEquals
<1>9. Caret(d) = at
  BY <1>2, <1>3 DEF Caret
<1> QED
  BY <1>8, <1>9 DEF u, s, at, d

\* A key that leaves the buffer as it was leaves the text.
LEMMA SameText ==
  ASSUME NEW c, NEW d, d.clibuff = c.clibuff, d.end_pos = c.end_pos
  PROVE  Text(d) = Text(c)
BY DEF Text, Chars

LEMMA EditedLeaves ==
  ASSUME NEW c, NEW t, Edited(c, t), NEW text, NEW caret, Text(c) = text, Caret(c) = caret
  PROVE  Leaves(text, caret)
BY DEF Edited, Leaves

\* What typing does to the line at hand.
LEMMA TypeEdits ==
  ASSUME Inv, synced, default_cli.end_pos + 1 < MAX_COMMAND_LENGTH, NEW k \in Letter, Type(k)
  PROVE  Leaves(PutIn(Text(default_cli), Caret(default_cli), k), Caret(default_cli) + 1)
<1> DEFINE b == default_cli
<1>1. Ready(b) /\ Term(screen) /\ b.end_pos + 1 < MAX_COMMAND_LENGTH
  BY AtHand DEF Type
<1>2. b.end_pos \in Nat /\ b.current_pos \in Nat
  BY <1>1, ReadyIs
<1> DEFINE e == Appended(b, k)
           d == Inserted(b, k)
           w == Written(screen, Chars(d, d.current_pos - 1, d.end_pos))
<1>3. \/ AtEnd(b) /\ Edited(e, Written(screen, <<k>>))
      \/ ~AtEnd(b) /\ Edited(d, Move(w, Row(screen), d.current_pos))
  BY DEF Type, Appended, Inserted
<1> HIDE DEF b, e, d, w
<1>4. CASE AtEnd(b) /\ Edited(e, Written(screen, <<k>>))
  <2>1. /\ Whole(e) /\ e.current_pos = b.end_pos + 1 /\ e.end_pos = b.end_pos + 1
        /\ \A i \in Index : e.clibuff[i] = IF i = b.end_pos THEN k ELSE b.clibuff[i]
    BY <1>1, <1>4, AppendedIs DEF e
  <2>2. b.current_pos = b.end_pos
    BY <1>4 DEF AtEnd
  <2>3. TypedInto(b, k, e)
    <3>1. ASSUME NEW i \in Index
          PROVE  e.clibuff[i] = IF i = b.current_pos THEN k
                                ELSE IF i \in b.current_pos + 1 .. b.end_pos + 1
                                THEN b.clibuff[i - 1] ELSE b.clibuff[i]
      <4>1. i \in Nat /\ b.end_pos + 1 \in Index /\ b.end_pos \in Index
        BY <1>1, <1>2, Sizes DEF Index
      <4>2. CASE i = b.end_pos + 1
        \* Both are the NUL behind the text.
        <5>1. i # b.end_pos /\ e.clibuff[i] = b.clibuff[i]
          BY <1>2, <2>1, <4>2
        <5>2. b.clibuff[b.end_pos] = NUL /\ b.clibuff[b.end_pos + 1] = NUL
          <6>1. ~ (b.end_pos < start_pos) /\ ~ (b.end_pos + 1 < start_pos)
                /\ b.end_pos >= b.end_pos /\ b.end_pos + 1 >= b.end_pos
            BY <1>1, <1>2, ReadyIs, Sizes
          <6> QED
            BY <1>1, <4>1, <6>1, ReadyIs
        <5>3. i - 1 = b.end_pos
          BY <1>2, <4>2
        <5> QED
          BY <2>2, <4>2, <5>1, <5>2, <5>3
      <4>3. CASE i # b.end_pos + 1
        <5>1. i \notin b.current_pos + 1 .. b.end_pos + 1
          BY <1>2, <2>2, <4>1, <4>3
        <5> QED
          BY <2>1, <2>2, <5>1
      <4> QED
        BY <4>2, <4>3
    <3> QED
      BY <3>1 DEF TypedInto
  <2>4. Text(e) = PutIn(Text(b), Caret(b), k) /\ Caret(e) = Caret(b) + 1
    BY <1>1, <2>1, <2>2, <2>3, TypedText
  <2> QED
    BY <1>4, <2>4, EditedLeaves DEF b
<1>5. CASE ~AtEnd(b) /\ Edited(d, Move(w, Row(screen), d.current_pos))
  <2>1. /\ Whole(d) /\ d.end_pos = b.end_pos + 1 /\ d.current_pos = b.current_pos + 1
        /\ TypedInto(b, k, d)
    BY <1>1, <1>5, InsertedIs DEF d, TypedInto
  <2>2. Text(d) = PutIn(Text(b), Caret(b), k) /\ Caret(d) = Caret(b) + 1
    BY <1>1, <2>1, TypedText
  <2> QED
    BY <1>5, <2>2, EditedLeaves DEF b
<1> QED
  BY <1>3, <1>4, <1>5

\* The character at p goes, and the position is there.
LEMMA TakenOutText ==
  ASSUME NEW c, Ready(c), ~AtEnd(c), NEW t, Term(t), InSync(c, t)
  PROVE  LET d == RedrawnLine(ShiftLeft(c), t) IN
         Text(d) = Cut(Text(c), Caret(c), Caret(c) + 1) /\ Caret(d) = Caret(c)
<1> DEFINE s == ShiftLeft(c)
           d == RedrawnLine(s, t)
           p == c.current_pos
<1>1. /\ p \in Nat /\ c.end_pos \in Nat /\ start_pos <= p /\ p < c.end_pos /\ start_pos \in Nat
      /\ c.end_pos < MAX_COMMAND_LENGTH
  BY ReadyIs, Sizes DEF AtEnd
<1>2. /\ Whole(d) /\ d.end_pos = c.end_pos - 1 /\ d.clibuff = s.clibuff /\ d.current_pos = p
  BY TakenOut
<1>3. \A i \in Index : s.clibuff[i] = IF i = c.end_pos - 1 THEN NUL
                                      ELSE IF i \in p .. c.end_pos - 2
                                      THEN c.clibuff[i + 1] ELSE c.clibuff[i]
  BY ShiftedLeftIs
<1> HIDE DEF s, d
<1>4. ASSUME NEW i \in Index, i < c.end_pos - 1
      PROVE  d.clibuff[i] = IF i < p THEN c.clibuff[i] ELSE c.clibuff[i + 1]
  <2>1. i \in Nat /\ i # c.end_pos - 1 /\ (i \in p .. c.end_pos - 2 <=> ~ (i < p))
    BY <1>1, <1>4, ReadyIs
  <2> QED
    BY <1>2, <1>3, <2>1
<1>5. Caret(c) = p - start_pos /\ Caret(d) = p - start_pos
  BY <1>2 DEF Caret
<1> HIDE DEF p
<1>6. Text(d) = Cut(Text(c), p - start_pos, p - start_pos + 1)
  BY <1>1, <1>2, <1>4, ShorterText
<1> QED
  BY <1>5, <1>6 DEF d, s

LEMMA DeleteEdits ==
  ASSUME Inv, synced, Delete
  PROVE  Leaves(Cut(Text(default_cli), Caret(default_cli), Caret(default_cli) + 1),
                Caret(default_cli))
<1> DEFINE b == default_cli
           d == RedrawnLine(ShiftLeft(b), screen)
           u == RedrawnTerminal(ShiftLeft(b), screen)
<1>1. Ready(b) /\ Term(screen) /\ InSync(b, screen) /\ ~AtEnd(b)
  BY AtHand DEF Delete
<1>2. Edited(d, u)
  BY DEF Delete, Redrawn, RedrawnLine, RedrawnTerminal
<1> HIDE DEF b, u
<1>3. Text(d) = Cut(Text(b), Caret(b), Caret(b) + 1) /\ Caret(d) = Caret(b)
  BY <1>1, TakenOutText
<1> HIDE DEF d
<1> QED
  BY <1>2, <1>3, EditedLeaves DEF b

LEMMA BackspaceEdits ==
  ASSUME Inv, synced, Backspace
  PROVE  Leaves(Cut(Text(default_cli), Caret(default_cli) - 1, Caret(default_cli)),
                Caret(default_cli) - 1)
<1> DEFINE b == default_cli
           at == Caret(b)
<1>1. Ready(b) /\ Term(screen) /\ InSync(b, screen) /\ ~AtBegin(b)
  BY AtHand DEF Backspace
<1>2. /\ b.current_pos \in Nat /\ b.end_pos \in Nat /\ start_pos < b.current_pos /\ start_pos \in Nat
      /\ b.current_pos <= b.end_pos /\ b.end_pos < MAX_COMMAND_LENGTH
  BY <1>1, ReadyIs, Sizes DEF AtBegin
<1>3. at = b.current_pos - start_pos
  BY DEF Caret
<1> DEFINE e == EraseLeft(screen, 1)
           back == [b EXCEPT !.current_pos = @ - 1]
           d == RedrawnLine(ShiftLeft(back), e)
           u == RedrawnTerminal(ShiftLeft(back), e)
           h == Shortened(b)
<1>4. \/ AtEnd(b) /\ Edited(h, e)
      \/ ~AtEnd(b) /\ Edited(d, u)
  BY DEF Backspace, Shortened, Redrawn, RedrawnLine, RedrawnTerminal
<1>5. /\ Ready(back) /\ ~AtEnd(back) /\ back.current_pos = b.current_pos - 1
      /\ back.end_pos = b.end_pos /\ back.clibuff = b.clibuff
  BY <1>1, BackIs
<1>6. Term(e) /\ InSync(back, e)
  BY <1>1, BackedKeeps, ErasedIs
<1> HIDE DEF b, e, back, u, at
<1>7. CASE AtEnd(b) /\ Edited(h, e)
  <2>1. /\ Whole(h) /\ h.current_pos = b.end_pos - 1 /\ h.end_pos = b.end_pos - 1
        /\ \A i \in Index : h.clibuff[i] = IF i = b.end_pos - 1 THEN NUL ELSE b.clibuff[i]
    BY <1>1, <1>7, ShortenedIs
  <2> HIDE DEF h
  <2> DEFINE p == b.end_pos - 1
  <2>2. /\ p \in Nat /\ start_pos <= p /\ p < b.end_pos /\ b.current_pos = b.end_pos
        /\ p - start_pos = at - 1 /\ p - start_pos + 1 = at
    BY <1>2, <1>3, <1>7 DEF AtEnd
  <2>3. ASSUME NEW i \in Index, i < b.end_pos - 1
        PROVE  h.clibuff[i] = IF i < p THEN b.clibuff[i] ELSE b.clibuff[i + 1]
    <3>1. i \in Nat /\ i # b.end_pos - 1 /\ i < p
      BY <1>1, <1>2, <2>3, ReadyIs
    <3> QED
      BY <2>1, <3>1
  <2> HIDE DEF p
  <2>4. Text(h) = Cut(Text(b), p - start_pos, p - start_pos + 1)
    BY <1>1, <2>1, <2>2, <2>3, ShorterText
  <2>5. Caret(h) = at - 1
    BY <1>2, <1>3, <2>1, <2>2 DEF Caret
  <2>6. Text(h) = Cut(Text(b), at - 1, at)
    BY <2>2, <2>4
  <2> QED
    BY <1>7, <2>5, <2>6, EditedLeaves DEF b, at
<1>8. CASE ~AtEnd(b) /\ Edited(d, u)
  <2>1. Text(d) = Cut(Text(back), Caret(back), Caret(back) + 1) /\ Caret(d) = Caret(back)
    BY <1>5, <1>6, TakenOutText
  <2> HIDE DEF d
  <2>2. Text(back) = Text(b)
    BY <1>5, SameText
  <2>3. Caret(back) = at - 1 /\ Caret(back) + 1 = at
    BY <1>2, <1>3, <1>5 DEF Caret
  <2>4. Text(d) = Cut(Text(b), at - 1, at) /\ Caret(d) = at - 1
    BY <2>1, <2>2, <2>3
  <2> QED
    BY <1>8, <2>4, EditedLeaves DEF b, at
<1> QED
  BY <1>4, <1>7, <1>8

LEMMA KillEdits ==
  ASSUME Inv, Kill
  PROVE  Leaves(SubSeq(Text(default_cli), 1, Caret(default_cli)), Caret(default_cli))
<1> DEFINE b == default_cli
           d == Killed(b)
           u == KilledTerminal(b, screen)
<1>1. Ready(b)
  BY AtHand DEF Kill
<1>2. Edited(d, u)
  BY DEF Kill, Killed, KilledTerminal
<1>3. Text(d) = SubSeq(Text(b), 1, Caret(b)) /\ Caret(d) = Caret(b)
  BY <1>1, KilledText
<1> HIDE DEF b, d, u
<1> QED
  BY <1>2, <1>3, EditedLeaves DEF b

\* The cursor keys leave the text and take the position to p.
LEMMA CursorEdits ==
  ASSUME Inv, Reading, NEW p \in Nat, NEW t, Edited([default_cli EXCEPT !.current_pos = p], t)
  PROVE  Leaves(Text(default_cli), p - start_pos)
<1> DEFINE b == default_cli
           d == [b EXCEPT !.current_pos = p]
<1>1. Whole(b)
  BY AtHand DEF Ready
<1>2. d = [b EXCEPT !.current_pos = p]
  OBVIOUS
<1>3. Edited(d, t)
  OBVIOUS
<1> HIDE DEF b, d
<1>4. d.clibuff = b.clibuff /\ d.current_pos = p /\ d.end_pos = b.end_pos
  BY <1>1, <1>2, MovedIs
<1>5. Text(d) = Text(b)
  BY <1>4, SameText
<1>6. Caret(d) = p - start_pos
  BY <1>4 DEF Caret
<1> QED
  BY <1>3, <1>5, <1>6, EditedLeaves DEF b

LEMMA KeysEdit ==
  ASSUME Inv, synced, default_cli.end_pos + 1 < MAX_COMMAND_LENGTH
  PROVE  LET text == Text(default_cli)
             at == Caret(default_cli)
         IN  /\ \A k \in Letter :
                  Type(k) => Leaves(SubSeq(text, 1, at) \o <<k>> \o Cut(text, 0, at), at + 1)
             /\ Backspace => Leaves(Cut(text, at - 1, at), at - 1)
             /\ Delete => Leaves(Cut(text, at, at + 1), at)
             /\ Kill => Leaves(SubSeq(text, 1, at), at)
             /\ Home => Leaves(text, 0)
             /\ End => Leaves(text, Len(text))
             /\ Left => Leaves(text, at - 1)
             /\ Right => Leaves(text, at + 1)
<1> DEFINE b == default_cli
           text == Text(b)
           at == Caret(b)
<1>1. \A k \in Letter : Type(k) => Leaves(SubSeq(text, 1, at) \o <<k>> \o Cut(text, 0, at), at + 1)
  BY TypeEdits DEF PutIn
<1>2. Backspace => Leaves(Cut(text, at - 1, at), at - 1)
  BY BackspaceEdits
<1>3. Delete => Leaves(Cut(text, at, at + 1), at)
  BY DeleteEdits
<1>4. Kill => Leaves(SubSeq(text, 1, at), at)
  BY KillEdits
<1>5. ASSUME Reading
      PROVE  /\ b.current_pos \in Nat /\ b.end_pos \in Nat /\ start_pos \in Nat
             /\ start_pos <= b.current_pos /\ at = b.current_pos - start_pos
             /\ Len(text) = b.end_pos - start_pos
  <2>1. Ready(b)
    BY <1>5, AtHand
  <2> HIDE DEF b
  <2> QED
    BY <2>1, ReadyIs, TextIs, Sizes DEF Caret, Ready
<1>6. ASSUME Reading, NEW p \in Nat, NEW t, Edited([b EXCEPT !.current_pos = p], t)
      PROVE  Leaves(text, p - start_pos)
  BY <1>6, CursorEdits
<1>7. Home => Leaves(text, 0)
  <2> SUFFICES ASSUME Home PROVE Leaves(text, 0)
    OBVIOUS
  <2> DEFINE p == start_pos
             t == MoveLeft(screen, b.current_pos - start_pos)
  <2>1. Reading /\ Edited([b EXCEPT !.current_pos = p], t)
    BY DEF Home
  <2>2. p \in Nat /\ p - start_pos = 0
    BY Sizes
  <2> HIDE DEF p, t, b, text
  <2>3. Leaves(text, p - start_pos)
    BY <1>6, <2>1, <2>2
  <2> QED
    BY <2>2, <2>3
<1>8. End => Leaves(text, Len(text))
  <2> SUFFICES ASSUME End PROVE Leaves(text, Len(text))
    OBVIOUS
  <2> DEFINE p == b.end_pos
             t == MoveRight(screen, b.end_pos - b.current_pos)
  <2>1. Reading /\ Edited([b EXCEPT !.current_pos = p], t)
    BY DEF End
  <2>2. p \in Nat /\ p - start_pos = Len(text)
    BY <1>5, <2>1
  <2> HIDE DEF p, t, b, text
  <2>3. Leaves(text, p - start_pos)
    BY <1>6, <2>1, <2>2
  <2> QED
    BY <2>2, <2>3
<1>9. Left => Leaves(text, at - 1)
  <2> SUFFICES ASSUME Left PROVE Leaves(text, at - 1)
    OBVIOUS
  <2> DEFINE p == b.current_pos - 1
             t == MoveLeft(screen, 1)
  <2>1. Reading /\ Edited([b EXCEPT !.current_pos = p], t) /\ b.current_pos # start_pos
    BY DEF Left, AtBegin
  <2>2. p \in Nat /\ p - start_pos = at - 1
    <3> HIDE DEF at, text, b
    <3> QED
      BY <1>5, <2>1
  <2> HIDE DEF p, t, b, text, at
  <2>3. Leaves(text, p - start_pos)
    BY <1>6, <2>1, <2>2
  <2> QED
    BY <2>2, <2>3
<1>10. Right => Leaves(text, at + 1)
  <2> SUFFICES ASSUME Right PROVE Leaves(text, at + 1)
    OBVIOUS
  <2> DEFINE p == b.current_pos + 1
             t == MoveRight(screen, 1)
  <2>1. Reading /\ Edited([b EXCEPT !.current_pos = p], t)
    BY DEF Right
  <2>2. p \in Nat /\ p - start_pos = at + 1
    <3> HIDE DEF at, text, b
    <3> QED
      BY <1>5, <2>1
  <2> HIDE DEF p, t, b, text, at
  <2>3. Leaves(text, p - start_pos)
    BY <1>6, <2>1, <2>2
  <2> QED
    BY <2>2, <2>3
<1> QED
  BY <1>1, <1>2, <1>3, <1>4, <1>7, <1>8, <1>9, <1>10

\* As long as the terminal's cursor follows the position, every key does to the text and
\* to the user's place in it what it says, wherever in a line that is not full he is.
THEOREM EditsHold == Spec => EditsAsKeyed
<1>1. Inv => [synced /\ default_cli.end_pos + 1 < MAX_COMMAND_LENGTH =>
                LET text == Text(default_cli)
                    at == Caret(default_cli)
                IN  /\ \A k \in Letter :
                         Type(k) => Leaves(SubSeq(text, 1, at) \o <<k>> \o Cut(text, 0, at), at + 1)
                    /\ Backspace => Leaves(Cut(text, at - 1, at), at - 1)
                    /\ Delete => Leaves(Cut(text, at, at + 1), at)
                    /\ Kill => Leaves(SubSeq(text, 1, at), at)
                    /\ Home => Leaves(text, 0)
                    /\ End => Leaves(text, Len(text))
                    /\ Left => Leaves(text, at - 1)
                    /\ Right => Leaves(text, at + 1)]_vars
  BY KeysEdit
<1> QED
  BY <1>1, Invariant, PTL DEF EditsAsKeyed
=============================================================================
