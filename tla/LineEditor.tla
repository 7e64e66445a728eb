----------------------------- MODULE LineEditor -----------------------------
(***************************************************************************)
(* Editing in line mode (KeyProcessor.cpp): the buffer of the line at hand *)
(* with its positions, the same of the newest entry of the history, and    *)
(* the screen with its own cursor, which some keys take for a position in  *)
(* the buffer.  Cells of the screen are numbered from the row of the       *)
(* prompt on, row by row; no line is so long that it scrolls.              *)
(***************************************************************************)
EXTENDS Integers, Sequences

CONSTANTS
  Letter,              \* what is typed
  Prompt,              \* both headers: clibuff[0 .. start_pos)
  MAX_COMMAND_LENGTH,
  COLS,                \* columns of the terminal
  ROWS                 \* rows kept of the screen

NUL == "NUL"
Blank == " "
Index == 0 .. MAX_COMMAND_LENGTH - 1
Cell == 0 .. ROWS * COLS - 1
start_pos == Len(Prompt)

ASSUME EditorAssumption ==
  /\ {MAX_COMMAND_LENGTH, COLS, ROWS} \subseteq Nat \ {0}
  /\ Len(Prompt) < MAX_COMMAND_LENGTH /\ Len(Prompt) < COLS
  /\ NUL \notin Letter
  /\ Prompt \in Seq({Prompt[i] : i \in DOMAIN Prompt} \ {NUL})
  /\ 2 * MAX_COMMAND_LENGTH < ROWS * COLS

VARIABLES
  line,      \* the cli_t the user types into
  entry,     \* the newest cli_t of the history
  recorded,  \* there is one
  browsing,  \* curr_ptr: default_cli is the entry
  screen,    \* cells, and pos, where the cursor of the terminal is
  synced     \* since the line was begun the terminal's cursor was on current_pos
vars == <<line, entry, recorded, browsing, screen, synced>>

default_cli == IF browsing THEN entry ELSE line

-----------------------------------------------------------------------------
(* The buffer.                                                             *)

\* cli_set_hdr and cli_append_user_command
Cli(text) ==
  LET s == Prompt \o text IN
  [clibuff |-> [i \in Index |-> IF i < Len(s) THEN s[i + 1] ELSE NUL],
   current_pos |-> Len(s), end_pos |-> Len(s)]   \* cnt is always end_pos

AtEnd(c) == c.current_pos = c.end_pos
AtBegin(c) == c.current_pos = start_pos
Chars(c, i, j) == [k \in 1 .. j - i |-> c.clibuff[i + k - 1]]

\* cli_content_shift_right and _left, from current_pos on; ShiftRightBehind leaves
\* the character at it, ShiftLeftShort the last one.
ShiftRightBehind(c) ==
  [c EXCEPT !.clibuff = [i \in Index |-> IF i \in c.current_pos + 2 .. c.end_pos + 1
                                         THEN @[i - 1] ELSE @[i]],
            !.end_pos = @ + 1]
\* With one byte left the NUL goes behind the buffer, onto current_pos, and the
\* loop, which runs down to current_pos, moves the prompt too.
ShiftRight(c) ==
  LET from == IF c.end_pos + 1 = MAX_COMMAND_LENGTH THEN 0 ELSE c.current_pos IN
  [c EXCEPT !.clibuff = [i \in Index |-> IF i \in from + 1 .. c.end_pos + 1
                                         THEN @[i - 1] ELSE @[i]],
            !.end_pos = @ + 1,
            !.current_pos = from]
ShiftLeftShort(c) ==
  [c EXCEPT !.clibuff = [i \in Index |-> IF i \in c.current_pos .. c.end_pos - 2
                                         THEN @[i + 1] ELSE @[i]],
            !.end_pos = @ - 1]
ShiftLeft(c) ==
  [c EXCEPT !.clibuff = [i \in Index |-> IF i = c.end_pos - 1 THEN NUL
                                         ELSE IF i \in c.current_pos .. c.end_pos - 2
                                         THEN @[i + 1] ELSE @[i]],
            !.end_pos = @ - 1]
ContentReset(c) ==
  [c EXCEPT !.clibuff = [i \in Index |-> IF i \in start_pos .. c.end_pos - 1 THEN NUL ELSE @[i]],
            !.current_pos = start_pos, !.end_pos = start_pos]
Put(c, k) == [c EXCEPT !.clibuff[c.current_pos] = k, !.current_pos = @ + 1]

-----------------------------------------------------------------------------
(* The terminal.                                                           *)

Row(t) == t.pos \div COLS
Column(t) == t.pos % COLS
Written(t, s) ==
  [cells |-> [q \in Cell |-> IF q - t.pos + 1 \in DOMAIN s THEN s[q - t.pos + 1] ELSE t.cells[q]],
   pos |-> t.pos + Len(s)]
\* move fails outside the screen
Move(t, row, col) == IF col \in 0 .. COLS - 1 THEN [t EXCEPT !.pos = row * COLS + col] ELSE t
Blanks(n) == [k \in 1 .. n |-> Blank]
\* cli_screen_cursor_move_cursor_left, _right.  EraseLeftAhead stays behind the
\* blanks.
MoveLeft(t, n) == Move(t, Row(t), Column(t) - n)
EraseLeftAhead(t, n) == Written(MoveLeft(t, n), Blanks(n))
EraseLeft(t, n) == Move(Written(MoveLeft(t, n), Blanks(n)), Row(t), Column(t) - n)
MoveRight(t, n) == Move(t, Row(t), Column(t) + n)
DeleteRow(t) ==
  [t EXCEPT !.cells = [q \in Cell |-> IF q < Row(t) * COLS THEN @[q]
                                      ELSE IF q + COLS \in Cell THEN @[q + COLS] ELSE Blank]]
\* cli_printsc: clibuff up to its first NUL
PrintLine(t, c) == Written(t, Chars(c, 0, c.end_pos))
Clear == [cells |-> [q \in Cell |-> Blank], pos |-> 0]

-----------------------------------------------------------------------------
(* The keys.  Nothing is modelled after a position has left the text, and  *)
(* a full buffer drops every key (cli_start_shell).                        *)

Sound(c) == start_pos <= c.current_pos /\ c.current_pos <= c.end_pos
Reading ==
  /\ Sound(default_cli)
  /\ default_cli.end_pos < MAX_COMMAND_LENGTH
  /\ screen.pos + MAX_COMMAND_LENGTH + 1 \in Cell   \* bound: the terminal does not scroll
InSync(c, t) == t.pos = c.current_pos /\ t.pos < COLS

\* With c the line at hand the terminal becomes t.  Of a terminal that has lost
\* the position only the column is modelled, which is all that the keys take
\* from it: nothing is said of its cells and of its row.
Shows(c, t) ==
  /\ synced' = (synced /\ InSync(c, t))
  /\ screen' = IF synced' THEN t ELSE [Clear EXCEPT !.pos = Column(t)]

\* The line at hand becomes c and the terminal t.
Edited(c, t) ==
  /\ IF browsing THEN entry' = c /\ UNCHANGED line ELSE line' = c /\ UNCHANGED entry
  /\ Shows(c, t)
  /\ UNCHANGED <<recorded, browsing>>

\* At the end, or inside, where the rest of the line is moved and printed anew.
Type(k) ==
  LET c == default_cli
      after == Put(IF AtEnd(c) THEN c ELSE ShiftRight(c), k)
      shown == Written(screen, Chars(after, after.current_pos - 1, after.end_pos))
  IN  /\ Reading
      /\ IF AtEnd(c)
         THEN LET longer == [after EXCEPT !.end_pos = @ + 1] IN
              Edited(longer, Written(screen, <<k>>))
         ELSE Edited(after, Move(shown, Row(screen), after.current_pos))

\* Delete and the second case of backspace: the rest of the line is printed
\* anew, and where the terminal's cursor was becomes the position.
Redrawn(c, t) ==
  LET rest == Written(t, Append(Chars(c, c.current_pos, c.end_pos), Blank)) IN
  Edited([c EXCEPT !.current_pos = Column(t)], Move(rest, Row(t), Column(t)))

Backspace ==
  LET c == default_cli
      back == [c EXCEPT !.current_pos = @ - 1]
  IN  /\ Reading
      /\ ~AtBegin(c)
      /\ IF AtEnd(c)
         THEN Edited([back EXCEPT !.end_pos = @ - 1, !.clibuff[back.current_pos] = NUL],
                     EraseLeft(screen, 1))
         ELSE Redrawn(ShiftLeft(back), EraseLeft(screen, 1))

Delete ==
  /\ Reading
  /\ ~AtEnd(default_cli)
  /\ Redrawn(ShiftLeft(default_cli), screen)

\* ctrl-n: the rest of the line goes.
Kill ==
  LET c == default_cli
      n == c.end_pos - c.current_pos
  IN  /\ Reading
      /\ ~AtEnd(c)
      /\ Edited([c EXCEPT !.clibuff = [i \in Index |-> IF i \in c.current_pos .. c.end_pos
                                                       THEN NUL ELSE @[i]],
                          !.end_pos = c.current_pos],
                Move(Written(screen, Blanks(n + 1)), Row(screen), Column(screen)))

\* The cursor keys.
Home ==
  /\ Reading
  /\ ~AtBegin(default_cli)
  /\ Edited([default_cli EXCEPT !.current_pos = start_pos],
            MoveLeft(screen, default_cli.current_pos - start_pos))
End ==
  /\ Reading
  /\ Edited([default_cli EXCEPT !.current_pos = default_cli.end_pos],
            MoveRight(screen, default_cli.end_pos - default_cli.current_pos))
Left ==
  /\ Reading
  /\ ~AtBegin(default_cli)
  /\ Edited([default_cli EXCEPT !.current_pos = @ - 1], MoveLeft(screen, 1))
Right ==
  /\ Reading
  /\ ~AtEnd(default_cli)
  /\ Edited([default_cli EXCEPT !.current_pos = @ + 1], MoveRight(screen, 1))

\* ctrl-l draws the line on a clear screen and leaves the cursor behind it.
Redraw ==
  /\ Reading
  /\ Edited(default_cli, PrintLine(Clear, default_cli))

\* Key-up and key-down exchange the line at hand.  Only key-down takes the
\* terminal's cursor to the position of the line, on the row that key-up saved:
\* as long as the cursor was on the position, that of the prompt.
Exchanged(c, t) ==
  /\ Shows(c, t)
  /\ UNCHANGED <<line, entry, recorded>>
Up ==
  /\ Reading
  /\ recorded /\ ~browsing
  /\ browsing' = TRUE
  /\ Exchanged(entry, PrintLine(Move(DeleteRow(screen), Row(screen), 0), entry))
Down ==
  /\ Reading
  /\ browsing
  /\ browsing' = FALSE
  /\ Exchanged(line, Move(PrintLine(Move(DeleteRow(screen), Row(screen), 0), line),
                          Row(screen), line.current_pos))

\* cli_submit goes to the end of the line at hand, one from the history too.
\* If it is a command a new line of it becomes the newest entry, or the entry
\* stays that holds the same.
Submitted(c) ==
  \/ /\ entry' = IF browsing /\ c.end_pos > start_pos
                 THEN [c EXCEPT !.current_pos = c.end_pos] ELSE entry
     /\ UNCHANGED recorded
  \/ /\ c.end_pos > start_pos
     /\ entry' = Cli(Chars(c, start_pos, c.end_pos))
     /\ recorded' = TRUE

\* Return: the line is submitted, the user's own line emptied, and its prompt
\* printed on a new row.
Return ==
  /\ Reading
  /\ Submitted(default_cli)
  /\ line' = ContentReset(line)
  /\ browsing' = FALSE
  /\ screen' = PrintLine(Clear, line')
  /\ synced' = TRUE

Init ==
  /\ line = Cli(<<>>) /\ entry = Cli(<<>>) /\ recorded = FALSE
  /\ browsing = FALSE
  /\ screen = PrintLine(Clear, Cli(<<>>))
  /\ synced = TRUE

Next ==
  \/ \E k \in Letter : Type(k)
  \/ Backspace \/ Delete \/ Kill
  \/ Home \/ End \/ Left \/ Right
  \/ Redraw
  \/ Up \/ Down \/ Return

Spec == Init /\ [][Next]_vars

-----------------------------------------------------------------------------
(* Properties.                                                             *)

\* What the user means by a line: the text behind the prompt and the place in
\* it where he types.
Text(c) == Chars(c, start_pos, c.end_pos)
Caret(c) == c.current_pos - start_pos
Cut(s, i, j) == SubSeq(s, 1, i) \o SubSeq(s, j + 1, Len(s))
\* The key leaves that text and that place.
Leaves(text, caret) ==
  LET c == IF browsing THEN entry' ELSE line'
  IN  Text(c) = text /\ Caret(c) = caret

\* As long as the terminal's cursor is where the next key goes, every key does
\* to the line what it says, wherever in the line the user is.
EditsAsKeyed ==
  [][synced /\ default_cli.end_pos + 1 < MAX_COMMAND_LENGTH =>
               LET text == Text(default_cli)
                   at == Caret(default_cli)
               IN  /\ \A k \in Letter :
                        Type(k) => Leaves(SubSeq(text, 1, at) \o <<k>> \o Cut(text, 0, at), at + 1)
                   /\ Backspace => Leaves(Cut(text, at - 1, at), at - 1)
                   /\ Delete => Leaves(Cut(text, at, at + 1), at)
                   /\ Kill => Leaves(SubSeq(text, 1, at), at)
                   /\ Home => Leaves(text, 0)
                   /\ End => Leaves(text, Len(text))
                   /\ Left => Leaves(text, at - 1)
                   /\ Right => Leaves(text, at + 1)]_vars

\* What the row of the prompt shows is what return would submit.
ScreenShowsLine ==
  synced /\ default_cli.end_pos < MAX_COMMAND_LENGTH =>
    \A q \in Cell : screen.cells[q] = IF q < default_cli.end_pos
                                               THEN default_cli.clibuff[q] ELSE Blank

\* The buffer of either line is the prompt, the text and nothing else, until it
\* is full: no key leaves a NUL in the text, which would end it for the parser,
\* or the rest of an earlier text behind it, which the next line would show.
TextIsWhole(c) ==
  c.end_pos < MAX_COMMAND_LENGTH =>
    /\ Chars(c, 0, start_pos) = Prompt
    /\ \A i \in Index : (c.clibuff[i] = NUL) <=> (i >= c.end_pos)
BufferIsWhole == TextIsWhole(line) /\ TextIsWhole(entry)

\* On one row the cursor keys, the editing keys and key-down keep the terminal's
\* cursor on the position: only ctrl-l and key-up can part them.
KeysKeepSync ==
  [][synced /\ default_cli.end_pos + 1 < COLS /\ line.end_pos < COLS
       => synced' \/ Redraw \/ Up]_vars

\* What delete and backspace take from the terminal as the position may be
\* behind the text, or in the prompt.
PositionInText == default_cli.current_pos <= default_cli.end_pos
PositionBehindPrompt == default_cli.current_pos >= start_pos

\* The buffer of a line fills, and its last byte may cost it the prompt.
KeysAreRead == default_cli.end_pos < MAX_COMMAND_LENGTH
PromptIsKept == Chars(line, 0, start_pos) = Prompt
=============================================================================
