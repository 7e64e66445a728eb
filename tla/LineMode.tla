------------------------------ MODULE LineMode ------------------------------
(***************************************************************************)
(* The shell with its second way to read a command: a key that edits the   *)
(* line in place switches to line mode, in which the line is plain text    *)
(* until return has it split into words and read from the root of the mode *)
(* or of the tree (cmdtc_parse_full_command).  The newest entry of the     *)
(* history is read the same way.  LineEditor has the keys that edit.       *)
(***************************************************************************)
EXTENDS CmdTreeCursor

CONSTANTS
  MAX_CMD_TREE_DEPTH,  \* size of tokens[]
  Word,                \* the words that are put on a line
  MaxWords             \* bound on the words of an edited line

ASSUME WordAssumption ==
  /\ Word \subseteq Seq(Key) \ {<<>>}
  /\ {MAX_CMD_TREE_DEPTH, MaxWords} \subseteq Nat

VARIABLES
  keyp_char_mode,  \* char mode or line mode
  recalled         \* the line at hand is an entry of the history
lineVars == <<vars, keyp_char_mode, recalled>>

-----------------------------------------------------------------------------
(* The words of a line and what they mean.                                 *)

\* tokenizer: words are separated by spaces, however many.
Starts(l) == {i \in DOMAIN l : l[i] # " " /\ (i > 1 => l[i - 1] = " ")}
WordFrom(l, i) ==
  LET ends == {j \in i .. Len(l) : l[j] = " "}
  IN  SubSeq(l, i, IF ends = {} THEN Len(l) ELSE First(ends) - 1)
Tokens(l) ==
  LET at == SetToSortSeq(Starts(l), <) IN [k \in DOMAIN at |-> WordFrom(l, at[k])]

\* Without a word the parser resets a cursor it never made; the tokens and
\* their array have a fixed size.
Safe(toks) ==
  /\ Len(toks) \in 1 .. MAX_CMD_TREE_DEPTH
  /\ \A k \in DOMAIN toks : Len(toks[k]) < LEAF_VALUE_HOLDER_SIZE

\* cmd_tree_find_matching_param: what the word w may mean among the options o.
\* A keyword typed out wins, then the keywords it begins, then the leaf.  Of
\* several keywords the user picks one, or none.
Seen(o) == {o[i] : i \in {j \in Slot : \A k \in 0 .. j : o[k] # NoParam}}
MeantLeafFirst(o, w) ==
  LET words == {p \in Seen(o) : ~IsLeaf(p) /\ IsPrefix(w, Name[p])}
      leaf == {p \in Seen(o) : IsLeaf(p)}
  IN  IF leaf # {} THEN leaf ELSE IF words # {} THEN words ELSE {NoParam}
Meant(o, w) ==
  LET words == {p \in Seen(o) : ~IsLeaf(p) /\ IsPrefix(w, Name[p])}
      exact == {p \in words : Name[p] = w}
      leaf == {p \in Seen(o) : IsLeaf(p)}
  IN  CASE exact # {} -> exact
        [] exact = {} /\ Cardinality(words) > 1 -> words \cup {NoParam}
        [] exact = {} /\ Cardinality(words) = 1 -> words
        [] words = {} /\ leaf # {} -> leaf
        [] words = {} /\ leaf = {} -> {NoParam}

\* A reading of the words so far: the cursor, and "read" or what went wrong.
\* A second "no" in a command is passed over.
Passed(c, p) == IsNo(p) /\ c.is_negate
Entered(c, p, w) ==
  LET typed == [c EXCEPT !.curr_leaf_value = w] IN
  IF p = NoParam \/ (IsLeaf(p) /\ ~LeafValid(p, w))
  THEN [cursor |-> c, outcome |-> "refused"]
  ELSE IF Passed(c, p)
  THEN [cursor |-> [c EXCEPT !.curr_param = p], outcome |-> "read"]
  ELSE [cursor |-> Pushed(typed, p),
        outcome |-> IF AfterPush(typed, p) = status THEN "read" ELSE AfterPush(typed, p)]

ReadWord(readings, w) ==
  UNION {IF r.outcome # "read" THEN {r}
         ELSE {Entered(r.cursor, p, w) : p \in Meant(options[r.cursor.curr_param], w)}
         : r \in readings}
Readings(c, toks) == FoldLeft(ReadWord, {[cursor |-> c, outcome |-> "read"]}, toks)

\* Whether the line is read on a fresh cursor, from the root of the tree: it
\* is an entry of the history, or its first word could be a hook (the user may
\* be asked, and is asked again when the word is read).
ElsewhereNever(toks, historical) == {FALSE}
Elsewhere(toks, historical) ==
  IF historical THEN {TRUE} ELSE {p # NoParam : p \in Meant(options[RootHook], toks[1])}
FreshCursor == [InitCursor EXCEPT !.refresh_disabled = cmdtc.refresh_disabled]
LineReadings(c, l, historical) ==
  UNION {Readings(IF fresh THEN FreshCursor ELSE c, Tokens(l))
         : fresh \in Elsewhere(Tokens(l), historical)}

-----------------------------------------------------------------------------
(* Line mode.                                                              *)

\* A key of line mode in char mode: the words entered so far are forgotten, the
\* text stays.  cli_start_shell
EnterLineMode ==
  /\ Reading
  /\ keyp_char_mode
  /\ keyp_char_mode' = FALSE
  /\ cmdtc' = Reset(cmdtc)
  /\ NoOutput
  /\ UNCHANGED <<options, hdr, line, status, recalled>>

\* What the editing keys make of the line: less of it, or one more space or
\* word.  Words are added only to what can be read up to there.
Cut == \E n \in 0 .. Len(line) - 1 : line' = SubSeq(line, 1, n)
AddSpace == ~(line # <<>> /\ Last(line) = " ") /\ line' = Append(line, " ")
Readable == \E r \in LineReadings(cmdtc, line, recalled) : r.outcome = "read"
AddWord ==
  /\ Len(Tokens(line)) < MaxWords
  /\ line # <<>> => Last(line) = " " /\ Tokens(line) # <<>> /\ Readable
  /\ \E w \in Word :
       /\ Used + Len(w) <= MAX_COMMAND_LENGTH
       /\ line' = line \o w
EditLine ==
  /\ Reading
  /\ ~keyp_char_mode
  /\ Cut \/ AddSpace \/ AddWord
  /\ NoOutput
  /\ UNCHANGED <<options, cmdtc, hdr, status, keyp_char_mode, recalled>>

\* Key-up after a command was run brings it back; key-down drops it.  calls and
\* recorded keep what the command did meanwhile.
Recall ==
  /\ Reading
  /\ recorded # <<>>
  /\ keyp_char_mode
  /\ recalled' = TRUE
  /\ keyp_char_mode' = FALSE
  /\ cmdtc' = Reset(cmdtc)
  /\ line' = Front(FlattenSeq([k \in DOMAIN recorded |-> Append(recorded[k], " ")]))
  /\ UNCHANGED <<options, hdr, calls, recorded, status>>
PutBack ==
  /\ Reading
  /\ recalled
  /\ recalled' = FALSE
  /\ line' = <<>>
  /\ NoOutput
  /\ UNCHANGED <<options, cmdtc, hdr, status, keyp_char_mode>>

\* Return.  The mode's own cursor is reset after it was used; a fresh one is
\* destroyed, which takes its params off its stack one by one.
KeptInstead(c) == Reset(c)
Destroyed(c) ==
  [cmdtc EXCEPT !.refresh_disabled = ExitBackward(c, Range(c.params_stack)).refresh_disabled]
ReturnLine ==
  /\ Reading
  /\ ~keyp_char_mode
  /\ keyp_char_mode' = TRUE
  /\ recalled' = FALSE
  /\ line' = <<>>
  /\ UNCHANGED options
  /\ IF line = <<>>
     THEN NoOutput /\ UNCHANGED <<cmdtc, hdr, status>>
     ELSE IF ~Safe(Tokens(line))
     THEN status' = "corrupt" /\ NoOutput /\ UNCHANGED <<cmdtc, hdr>>
     ELSE \E fresh \in Elsewhere(Tokens(line), recalled) :
          \E r \in Readings(IF fresh THEN FreshCursor ELSE cmdtc, Tokens(line)) :
            /\ cmdtc' = IF fresh THEN Destroyed(r.cursor) ELSE Reset(r.cursor)
            /\ CASE r.outcome = "read" ->
                      /\ Triggered(r.cursor, r.cursor)
                      /\ hdr' = IF recalled THEN hdr ELSE PromptAfter(r.cursor, calls', hdr)
                 [] r.outcome = "refused" -> NoOutput /\ UNCHANGED <<hdr, status>>
                 [] OTHER -> status' = r.outcome /\ NoOutput /\ UNCHANGED hdr

\* ctrl-t leaves line mode and the history.
CtrlTLine ==
  /\ ~keyp_char_mode
  /\ CtrlT
  /\ keyp_char_mode' = TRUE
  /\ recalled' = FALSE

LineInit == Init /\ keyp_char_mode = TRUE /\ recalled = FALSE

LineNext ==
  \/ keyp_char_mode /\ Next /\ UNCHANGED <<keyp_char_mode, recalled>>
  \/ EnterLineMode
  \/ EditLine
  \/ Recall
  \/ PutBack
  \/ ReturnLine
  \/ CtrlTLine

LineSpec == LineInit /\ [][LineNext]_lineVars

-----------------------------------------------------------------------------
(* Properties.                                                             *)

\* A line put together in char mode, word by word, is the same command when it
\* is returned in line mode after a cursor key: it is read without asking, to
\* the stacks and the sign of the cursor that would have run it.  (A negative
\* command of nested mode loses its sign in char mode, see NestedNegate.)
Command(c) == <<c.params_stack, c.tlv_stack, c.curr_param>>
SameInLineMode ==
  keyp_char_mode /\ status = "running" /\ line # <<>> /\ cmdtc.cmdtc_state = "init" =>
    LET run == Executing(cmdtc)
        reset == Reset(cmdtc)
    IN  \A r \in LineReadings(reset, line, FALSE) :
          /\ r.outcome = "read"
          /\ r.cursor.params_stack = run.params_stack
          /\ r.cursor.tlv_stack = run.tlv_stack
          /\ r.cursor.is_negate = (\E p \in Range(run.params_stack) : IsNo(p))

\* Bringing a command back and returning it runs it once more, the same words
\* to the end, in whatever mode it was typed: it goes to the history again, or
\* one of its handlers failed this time.  (Commands that a hook turned off from
\* in the middle are left out, see LineHook.)
RecallRepeats ==
  [][ReturnLine /\ recalled /\ recorded # <<>> /\ calls # <<>> /\ CallsAreCommands =>
       /\ calls' # <<>>
       /\ IsPrefix(Last(calls').tlvs, Last(calls).tlvs)
       /\ recorded' # <<>> => recorded' = recorded /\ Last(calls').tlvs = Last(calls).tlvs]_lineVars

\* Nothing a line can be damages the shell.
LineIsSafe == status # "corrupt"

\* In both ways of reading, the shell is what Shell promises.
Live == status \in {"running", "spinning"}
ShellMode == SubSeq(cmdtc.params_stack, 1, cmdtc.stack_checkpoint + 1)
ShellWords == SubSeq(cmdtc.params_stack, cmdtc.stack_checkpoint + 2, Len(cmdtc.params_stack))
ShellCalls ==
  [i \in DOMAIN calls |->
     [path |-> [k \in DOMAIN calls[i].tlvs |-> calls[i].tlvs[k].param], op |-> calls[i].op]]
MayFollow(p, q) == q \in OptionsIn(InitOptions[p])
IsNegation(p) == IsNo(p)
Promise == INSTANCE Shell WITH
  Word <- Param, Follows <- MayFollow, Apex <- RootHook, Starter <- Hooks,
  Config <- ConfigHook, Negates <- IsNegation,
  mode <- ShellMode, words <- ShellWords, calls <- ShellCalls, alive <- Live
IsShell == Promise!Spec
=============================================================================
