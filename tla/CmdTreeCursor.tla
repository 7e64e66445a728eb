--------------------------- MODULE CmdTreeCursor ---------------------------
(***************************************************************************)
(* The char-mode shell: the cursor that walks the command tree while the   *)
(* user types (CmdTreeCursor.cpp) together with the keys that drive it     *)
(* (KeyProcessor.cpp).  One action per key and per outcome of that key.    *)
(*                                                                         *)
(* cmdtc mirrors cmd_tree_cursor_t.  params_stack[i + 1] is slot[i] of the *)
(* C array and Top is its index top; checkpoints keep their C values.      *)
(* hdr is clibuff[0 .. start_pos), the prompt; line is clibuff[start_pos   *)
(* .. end_pos), what the user typed.  In char mode the cursor of the line  *)
(* is always at its end.  calls and recorded are what the last key handed  *)
(* to the application and to the history.                                  *)
(***************************************************************************)
EXTENDS CmdTree, SequencesExt

CONSTANTS
  DEF_CLI_HDR,             \* the prompt at the apex of the tree; ends in a space
  MAX_COMMAND_LENGTH,      \* size of clibuff
  LEAF_VALUE_HOLDER_SIZE,  \* size of curr_leaf_value and of a TLV's value
  MAX_STACK_SIZE           \* size of slot[]

PromptChar == Key \cup {" ", ">", "-"}

\* The keys '/', '?' and '.' are commands after a space, characters elsewhere.
CommandKey == {"/", "?", "."}

\* No keyword starts with a command key, it could not be typed, and a holder has
\* room for every keyword.
ASSUME LineAssumption ==
  /\ {MAX_COMMAND_LENGTH, LEAF_VALUE_HOLDER_SIZE, MAX_STACK_SIZE} \subseteq Nat \ {0}
  /\ DEF_CLI_HDR \in Seq(PromptChar)
  /\ Len(DEF_CLI_HDR) \in 1 .. MAX_COMMAND_LENGTH - 1
  /\ DEF_CLI_HDR[Len(DEF_CLI_HDR)] = " "
  /\ \A p \in Param : /\ Name[p] # <<>> => Name[p][1] \notin CommandKey
                     /\ Len(Name[p]) <= LEAF_VALUE_HOLDER_SIZE

\* The interval of a refresh is a value.
ASSUME IntervalAssumption == RefreshValHook # NoParam => IsLeaf(RefreshValHook)

VARIABLES options, cmdtc, hdr, line, calls, recorded, status
vars == <<options, cmdtc, hdr, line, calls, recorded, status>>

-----------------------------------------------------------------------------
(* Helpers on stacks, values and the tree.                                 *)

Top(s) == Len(s) - 1
PopN(s, n) == SubSeq(s, 1, Len(s) - n)
FirstN(s, n) == IF n < Len(s) THEN SubSeq(s, 1, n) ELSE s

\* curr_leaf_value is a NUL-filled buffer: a key saved past its end leaves a
\* hole of NULs, and as a C string the value ends at the first of them.
SaveAt(v, i, keys) == [k \in 1 .. i |-> IF k <= Len(v) THEN v[k] ELSE NUL] \o keys
First(S) == CHOOSE i \in S : \A j \in S : i <= j
CStr(v) ==
  LET holes == {i \in DOMAIN v : v[i] = NUL}
  IN  IF holes = {} THEN v ELSE SubSeq(v, 1, First(holes) - 1)

TlvOfKeyword(p, v) == [param |-> p, value |-> Name[p]]
Tlv(p, v) == [param |-> p, value |-> IF IsLeaf(p) THEN CStr(v) ELSE Name[p]]

InitCursor ==
  [root |-> RootHook,
   params_stack |-> <<RootHook>>,
   tlv_stack |-> <<Tlv(RootHook, <<>>)>>,
   stack_checkpoint |-> 0,
   filter_checkpoint |-> -1,
   curr_param |-> RootHook,
   curr_leaf_value |-> <<>>,
   icursor |-> 0,
   cmdtc_state |-> "init",
   matching_params_list |-> {},
   leaf_param |-> NoParam,
   is_negate |-> FALSE,
   is_refresh |-> FALSE,
   clrscr |-> FALSE,
   refresh_disabled |-> FALSE]  \* PARAM_F_DISABLE_PARAM of the refresh param

Nested(c) ==
  /\ c.stack_checkpoint > 0
  /\ Top(c.params_stack) > c.stack_checkpoint
  /\ c.params_stack[c.stack_checkpoint + 2] \in Hooks

\* Between two words: nothing is typed and nothing matched.
BetweenKeepsIcursor(c) ==
  [c EXCEPT !.cmdtc_state = "init", !.matching_params_list = {}, !.leaf_param = NoParam]
Between(c) ==
  [c EXCEPT !.icursor = 0, !.cmdtc_state = "init",
            !.matching_params_list = {}, !.leaf_param = NoParam]

\* The first "|" of a command is its filter checkpoint.
LastPipeMark(c, p) == IF p = Pipe THEN Top(c.params_stack) ELSE c.filter_checkpoint
FirstPipeMark(c, p) ==
  IF p = Pipe /\ c.filter_checkpoint = -1 THEN Top(c.params_stack) ELSE c.filter_checkpoint

\* cmdtc_param_entered_forward, for the param p just pushed
EnteredForward(c, p) ==
  [c EXCEPT
     !.is_negate = @ \/ IsNo(p),
     !.filter_checkpoint = FirstPipeMark(c, p),
     !.is_refresh = @ \/ p = RefreshHook,
     !.refresh_disabled = @ \/ p = RefreshValHook,
     !.clrscr = @ \/ p = ClrscrHook,
     !.curr_leaf_value = <<>>]

\* cmdtc_param_exit_backward, for all the params of the set gone
ExitBackwardKeepsNo(c, gone) ==
  [c EXCEPT
     !.is_refresh = @ /\ RefreshHook \notin gone,
     !.refresh_disabled = @ /\ RefreshValHook \notin gone,
     !.clrscr = @ /\ RefreshValHook \notin gone]
ExitBackwardKeepsRefresh(c, gone) ==
  [c EXCEPT
     !.is_negate = @ /\ \A p \in gone : ~IsNo(p),
     !.is_refresh = @ /\ RefreshHook \notin gone,
     !.clrscr = @ /\ RefreshValHook \notin gone]
ExitBackward(c, gone) ==
  [c EXCEPT
     !.is_negate = @ /\ \A p \in gone : ~IsNo(p),
     !.is_refresh = @ /\ RefreshHook \notin gone,
     !.refresh_disabled = @ /\ RefreshValHook \notin gone,
     !.clrscr = @ /\ RefreshValHook \notin gone]

\* cmd_tree_cursor_move_to_next_level: curr_param becomes the top
NextLevel(c) ==
  EnteredForward(
    [Between(c) EXCEPT
       !.params_stack = Append(@, c.curr_param),
       !.tlv_stack = Append(@, Tlv(c.curr_param, c.curr_leaf_value))],
    c.curr_param)

\* cmd_tree_cursor_reset_for_nxt_cmd: back to the mode's checkpoint
AtApex(c) == 1
Kept(c) == c.stack_checkpoint + 1
Reset(c) ==
  LET gone == {c.params_stack[i] : i \in Kept(c) + 1 .. Len(c.params_stack)}
  IN  [ExitBackward(Between(c), gone) EXCEPT
         !.params_stack = SubSeq(@, 1, Kept(c)),
         !.tlv_stack = SubSeq(@, 1, Kept(c)),
         !.filter_checkpoint = IF Kept(c) <= @ THEN -1 ELSE @,
         !.curr_param = c.root,
         !.curr_leaf_value = <<>>]

-----------------------------------------------------------------------------
(* Matching what is typed against the tree.                                *)

\* cmdtc_collect_all_matching_params: the options of the current param that
\* may follow, and the leaf among them.
Followers(c) == {p \in OptionsIn(options[c.curr_param]) :
               ~(p = RefreshHook /\ c.refresh_disabled) /\ ~(IsNo(p) /\ c.is_negate)}
WithLeaf(c) == Followers(c)
Keywords(c) == {p \in Followers(c) : ~IsLeaf(p)}
LeafOption(c) ==
  IF \E p \in Followers(c) : IsLeaf(p) THEN CHOOSE p \in Followers(c) : IsLeaf(p) ELSE NoParam

\* With an empty list the options are collected afresh, otherwise the list
\* gathered so far is refined and the leaf already known is kept.  In the
\* value of a leaf nothing is collected.
Fresh(c) == c.matching_params_list = {} /\ c.cmdtc_state # "matching_leaf"
Candidates(c) == IF Fresh(c) THEN Keywords(c) ELSE c.matching_params_list
KnownLeaf(c) == IF Fresh(c) THEN LeafOption(c) ELSE c.leaf_param
Matched(c, k) == {p \in Candidates(c) : KeyAt(p, c.icursor) = k}

\* cmdtc_filter_word_by_word_size: the listed keyword typed out in full
Exact(c) == {p \in c.matching_params_list : Len(Name[p]) = c.icursor}

\* The keys typed on the user's behalf: up to where the keywords of m part.
Completion(c, m) ==
  LET word == Name[CHOOSE p \in m : TRUE]
      common == {i \in DOMAIN word : \A j \in 1 .. i, p \in m : KeyAt(p, j - 1) = word[j]}
  IN  SubSeq(word, c.icursor + 1, Cardinality(common))

Save(c, leaf, keys) ==
  IF leaf = NoParam THEN c.curr_leaf_value
  ELSE SaveAt(c.curr_leaf_value, c.icursor, keys)

\* The cursor after the keys of a completion, each of which every listed
\* keyword accepts.
AutoTyped(c, keys) ==
  [c EXCEPT !.icursor = @ + Len(keys), !.curr_leaf_value = Save(c, c.leaf_param, keys)]

\* cmdt_cursor_parse_next_char for a key that is neither space nor quote.
\* When the choice narrows from several keywords to one, the key is not saved
\* in curr_leaf_value.
AcceptsAll(c, k) == TRUE
Accepts(c, k) ==
  \/ c.cmdtc_state = "matching_leaf"
  \/ Matched(c, k) # {}
  \/ KnownLeaf(c) # NoParam

ParseChar(c, k) ==
  LET leaf == KnownLeaf(c)
      m    == Matched(c, k)
      typed == [c EXCEPT !.icursor = @ + 1, !.curr_leaf_value = Save(c, leaf, <<k>>)]
  IN  IF c.cmdtc_state = "matching_leaf" THEN typed
      ELSE IF m = {}
      THEN [typed EXCEPT !.cmdtc_state = "matching_leaf", !.leaf_param = leaf, !.curr_param = leaf]
      ELSE IF Cardinality(m) > 1
      THEN [typed EXCEPT !.cmdtc_state = "multiple_matches", !.leaf_param = leaf,
                         !.matching_params_list = m]
      ELSE [typed EXCEPT !.cmdtc_state = "single_word_match", !.leaf_param = leaf,
                         !.matching_params_list = m,
                         !.curr_param = CHOOSE p \in m : TRUE,
                         !.curr_leaf_value = IF c.cmdtc_state = "multiple_matches"
                                             THEN c.curr_leaf_value ELSE @]

-----------------------------------------------------------------------------
(* Submitting a command: cmd_tree_trigger_cli, cmd_tree_post_cli_trigger    *)
(* and the reset that follows them in every caller.                         *)

\* The cursor the command runs with: in nested mode a temporary one, freshly
\* initialised, holding only the nested command.
Executing(c) ==
  IF ~Nested(c) THEN c
  ELSE LET own(s) == SubSeq(s, c.stack_checkpoint + 2, Len(s)) IN
       [InitCursor EXCEPT
          !.params_stack = @ \o own(c.params_stack),
          !.tlv_stack = @ \o own(c.tlv_stack),
          !.filter_checkpoint = IF c.filter_checkpoint > -1
                                THEN c.filter_checkpoint - c.stack_checkpoint ELSE @]

\* cmdtc_get_branch_hook of a cursor that is not in nested mode
Branch(ps) == IF Len(ps) > 1 THEN ps[2] ELSE NoParam

\* cmdtc_get_last_cbk_param: the word before the first filter, or the last
\* word.  The slot may lie outside the stack.
CallbackSlot(x) ==
  IF x.filter_checkpoint > -1 THEN x.filter_checkpoint - 1 ELSE Top(x.params_stack)

OpMode(x) ==
  IF Branch(x.params_stack) # ConfigHook THEN "OPERATIONAL"
  ELSE IF x.is_negate THEN "CONFIG_DISABLE" ELSE "CONFIG_ENABLE"

\* cmdtc_set_filter_context: the words from the filter checkpoint on
FiltersAfterPipe(x) ==
  IF x.filter_checkpoint = -1 \/ OpMode(x) # "OPERATIONAL" THEN <<>>
  ELSE SubSeq(x.tlv_stack, x.filter_checkpoint + 2, Len(x.tlv_stack))
Filters(x) ==
  IF x.filter_checkpoint = -1 \/ OpMode(x) # "OPERATIONAL" THEN <<>>
  ELSE SubSeq(x.tlv_stack, x.filter_checkpoint + 1, Len(x.tlv_stack))

\* The two reads above stay within the stacks.
SlotsExist(x) ==
  /\ CallbackSlot(x) \in 0 .. Top(x.params_stack)
  /\ x.filter_checkpoint < -1 => OpMode(x) # "OPERATIONAL"

\* The same recursive param comes next.
NeverRepeated(x, i) == FALSE
Repeated(x, i) ==
  /\ x.params_stack[i] \in Recursive
  /\ i < Len(x.params_stack)
  /\ x.params_stack[i] = x.params_stack[i + 1]

\* The calls made to the application: a batch config command calls every
\* param above the checkpoint that has a callback, with the TLVs up to it,
\* skipping all but the last of a run of a recursive param.
Kth(S, k) == CHOOSE i \in S : Cardinality({j \in S : j < i}) = k - 1
Called(x) ==
  {i \in x.stack_checkpoint + 2 .. Len(x.params_stack) :
     x.params_stack[i] \in HasCallback /\ ~Repeated(x, i)}
Invocations(x, cbk) ==
  LET op == OpMode(x)
      call(p, tlvs) == [param |-> p, tlvs |-> tlvs, op |-> op, filters |-> Filters(x)]
      upTo(i) == call(x.params_stack[i], SubSeq(x.tlv_stack, 1, i))
  IN  IF op = "CONFIG_ENABLE" /\ cbk \in Batch
      THEN [k \in 1 .. Cardinality(Called(x)) |-> upTo(Kth(Called(x), k))]
      ELSE <<call(cbk, x.tlv_stack)>>

\* cmdtc_record_cli_history: the words from the last hook of the stack on.  With
\* no hook on the stack the search ends before its first slot, 0 here, and what
\* lies there is taken for a word.
LastHook(c) ==
  LET hooks == {i \in DOMAIN c.params_stack : c.params_stack[i] \in Hooks}
  IN  IF hooks = {} THEN 0 ELSE CHOOSE i \in hooks : \A j \in hooks : j <= i
HistoryLineFromFirst(c) ==
  [k \in 1 .. Len(c.params_stack) - 1 |-> c.tlv_stack[k + 1].value]
HistoryLine(c) ==
  LET from == LastHook(c)
      word(i) == IF i = 0 THEN <<NUL>> ELSE c.tlv_stack[i].value
  IN  [k \in 1 .. Len(c.params_stack) - from + 1 |-> word(from + k - 1)]

\* clistd_config_device_default_handler makes the value of its last TLV, the
\* name that ends the command, the new prompt.
PromptAfter(x, done, h) ==
  IF done = <<>> \/ Last(done).param # HostNameLeaf THEN h
  ELSE IF OpMode(x) = "CONFIG_ENABLE" THEN Last(x.tlv_stack).value ELSE DEF_CLI_HDR

NoOutput == calls' = <<>> /\ recorded' = <<>>

\* The application answers each call with success or failure; a failure ends
\* the batch, and only a wholly successful command goes to the history.  x is
\* the cursor the command runs with, c the one it was read with.
Triggered(x, c) ==
  LET cbk == x.params_stack[CallbackSlot(x) + 1]
      todo == Invocations(x, cbk)
  IN
  \/ ~SlotsExist(x) /\ NoOutput /\ status' = "corrupt"
  \/ SlotsExist(x) /\ cbk \notin HasCallback /\ NoOutput /\ UNCHANGED status
  \/ /\ SlotsExist(x) /\ cbk \in HasCallback
     /\ \E n \in 0 .. Len(todo), ok \in BOOLEAN :
          /\ IF ok THEN n = Len(todo) ELSE n > 0 /\ todo[n].param # HostNameLeaf
          /\ calls' = SubSeq(todo, 1, n)
          /\ recorded' = IF ok THEN HistoryLine(c) ELSE <<>>
          /\ status' = IF ok /\ LastHook(c) = 0 THEN "corrupt" ELSE status

Submit(c, h) ==
  /\ cmdtc' = Reset(c)
  /\ Triggered(Executing(c), c)
  /\ hdr' = PromptAfter(Executing(c), calls', h)

-----------------------------------------------------------------------------
(* The keys.  status says what became of the shell: "running"; "spinning"  *)
(* in an auto-completion that never ends; "aborted" by a failed assertion; *)
(* "corrupt" once it has read or written outside an array or lost part of  *)
(* a list, after which nothing is modelled.  cli_start_shell drops every   *)
(* key once the line buffer is full.                                       *)

Used == Len(hdr) + Len(line)
Reading == status = "running" /\ Used < MAX_COMMAND_LENGTH
PrevIsSpace == Last(hdr \o line) = " "

\* cmd_tree_leaf_char_save refuses only the first key beyond the holder.
TypeChar(k) ==
  /\ Reading
  /\ k \in CommandKey => ~PrevIsSpace
  /\ Accepts(cmdtc, k)
  /\ cmdtc' = ParseChar(cmdtc, k)
  /\ line' = Append(line, k)
  /\ status' = IF KnownLeaf(cmdtc) # NoParam /\ cmdtc.icursor >= LEAF_VALUE_HOLDER_SIZE
               THEN "corrupt" ELSE status
  /\ NoOutput
  /\ UNCHANGED <<options, hdr>>

\* cmdt_cursor_process_space.  With several options and nothing in common
\* the options are displayed, and stay listed.
SpaceLists ==
  /\ Reading
  /\ cmdtc.cmdtc_state = "init"
  /\ LET m == Candidates(cmdtc) IN
     /\ Cardinality(m) > 1
     /\ Completion(cmdtc, m) = <<>>
     /\ cmdtc' = [cmdtc EXCEPT !.matching_params_list = m, !.leaf_param = KnownLeaf(cmdtc)]
  /\ NoOutput
  /\ UNCHANGED <<options, hdr, line, status>>

\* Several keywords with more in common: type it for the user.
Ambiguous(c) ==
  \/ c.cmdtc_state = "init" /\ Cardinality(Candidates(c)) > 1
  \/ c.cmdtc_state = "multiple_matches" /\ Exact(c) = {}

SpaceCompletes ==
  LET m == Candidates(cmdtc)
      keys == Completion(cmdtc, m)
      fits == FirstN(keys, MAX_COMMAND_LENGTH - Used)
      listed == [cmdtc EXCEPT !.matching_params_list = m, !.leaf_param = KnownLeaf(cmdtc),
                              !.cmdtc_state = "multiple_matches"]
  IN  /\ Reading
      /\ Ambiguous(cmdtc)
      /\ keys # <<>>
      /\ cmdtc' = AutoTyped(listed, fits)
      /\ line' = line \o fits
      /\ status' = IF cmdtc.cmdtc_state = "init" /\ Len(fits) < Len(keys)
                   THEN "spinning" ELSE status
      /\ NoOutput
      /\ UNCHANGED <<options, hdr>>

\* One word only is left: it is completed, pushed, and a space follows.
\* OneWord is that word, if any; the value of a leaf may still be refused.
OneWord(c) ==
  CASE c.cmdtc_state = "init" ->
         IF Cardinality(Candidates(c)) = 1 THEN Candidates(c) ELSE {}
    [] c.cmdtc_state = "multiple_matches" -> Exact(c)
    [] c.cmdtc_state = "single_word_match" -> {c.curr_param}
    [] c.cmdtc_state = "matching_leaf" ->
         IF LeafValid(c.curr_param, CStr(c.curr_leaf_value)) THEN {c.curr_param} ELSE {}

\* What the keyword p still lacks; a leaf's value is as typed.
Missing(c, p) ==
  IF IsLeaf(p) THEN <<>> ELSE SubSeq(Name[p], c.icursor + 1, Len(Name[p]))
Fits(keys) == Used + Len(keys) <= MAX_COMMAND_LENGTH

\* Pushing p asserts that its interval follows "refresh"; a value that fills
\* its holder has no NUL; push lets the stack grow one past its array.
Pushed(c, p) == NextLevel([c EXCEPT !.curr_param = p])
Overfull(c, p) ==
  \/ Len(c.params_stack) >= MAX_STACK_SIZE
  \/ IsLeaf(p) /\ Len(CStr(c.curr_leaf_value)) >= LEAF_VALUE_HOLDER_SIZE
AfterPush(c, p) ==
  IF p = RefreshValHook /\ ~c.is_refresh THEN "aborted"
  ELSE IF Overfull(c, p) THEN "corrupt" ELSE status

\* The space that follows the completed word is stored without looking whether
\* the line has room for it.
AfterSpace(c, p) ==
  IF AfterPush(c, p) = status /\ Used + Len(Missing(c, p)) = MAX_COMMAND_LENGTH
  THEN "corrupt" ELSE AfterPush(c, p)

SpaceAccepts ==
  /\ Reading
  /\ \E p \in OneWord(cmdtc) :
       LET keys == Missing(cmdtc, p) IN
       /\ Fits(keys)
       /\ cmdtc' = Pushed(cmdtc, p)
       /\ line' = line \o keys \o <<" ">>
       /\ status' = AfterSpace(cmdtc, p)
  /\ NoOutput
  /\ UNCHANGED <<options, hdr>>

\* The completion loop, of a space or of a return, waits for icursor to reach
\* the end of a word the full buffer has no room for.
AutoCompletionSpins ==
  /\ Reading
  /\ \E p \in OneWord(cmdtc) :
       LET fits == FirstN(Missing(cmdtc, p), MAX_COMMAND_LENGTH - Used) IN
       /\ ~Fits(Missing(cmdtc, p))
       /\ cmdtc' = AutoTyped([cmdtc EXCEPT !.curr_param = p,
                                           !.matching_params_list = {p},
                                           !.leaf_param = KnownLeaf(cmdtc),
                                           !.cmdtc_state = "single_word_match"], fits)
       /\ line' = line \o fits
  /\ status' = "spinning"
  /\ NoOutput
  /\ UNCHANGED <<options, hdr>>

\* cmd_tree_process_carriage_return_key, between two words
ReturnCommand ==
  /\ Reading
  /\ line # <<>>
  /\ cmdtc.cmdtc_state = "init"
  /\ Submit(cmdtc, hdr)
  /\ line' = <<>>
  /\ UNCHANGED options

\* within a word that only one param can be: it is completed and pushed first
ReturnWord ==
  /\ Reading
  /\ line # <<>>
  /\ cmdtc.cmdtc_state # "init"
  /\ \E p \in OneWord(cmdtc) :
       /\ Fits(Missing(cmdtc, p))
       /\ IF AfterSpace(cmdtc, p) = status
          THEN Submit(Pushed(cmdtc, p), hdr)
          ELSE /\ cmdtc' = Pushed(cmdtc, p)
               /\ status' = AfterSpace(cmdtc, p)
               /\ NoOutput
               /\ UNCHANGED hdr
  /\ line' = <<>>
  /\ UNCHANGED options

\* within a word that is none: the line is dropped
ReturnReject ==
  /\ Reading
  /\ line # <<>>
  /\ cmdtc.cmdtc_state # "init"
  /\ OneWord(cmdtc) = {}
  /\ cmdtc' = Reset(cmdtc)
  /\ line' = <<>>
  /\ NoOutput
  /\ UNCHANGED <<options, hdr, status>>

-----------------------------------------------------------------------------
(* Going back: backspace, page-up and ctrl-t.                              *)

\* cmd_tree_cursor_move_one_char_back, in the value of a leaf
EraseChar ==
  /\ Reading
  /\ line # <<>>
  /\ cmdtc.cmdtc_state = "matching_leaf"
  /\ LET c == [cmdtc EXCEPT !.icursor = @ - 1,
                            !.curr_leaf_value = SubSeq(@, 1, cmdtc.icursor - 1)]
     IN cmdtc' = IF c.icursor > 0 THEN c
                 ELSE [Between(c) EXCEPT !.curr_param = Last(c.params_stack)]
  /\ line' = Front(line)
  /\ NoOutput
  /\ UNCHANGED <<options, hdr, status>>

\* cmd_tree_cursor_move_one_level_up, within a keyword: the word goes
EraseWord ==
  /\ Reading
  /\ line # <<>>
  /\ cmdtc.cmdtc_state \in {"multiple_matches", "single_word_match"}
  /\ cmdtc' = [Between(cmdtc) EXCEPT
                  !.curr_param = Last(cmdtc.params_stack),
                  !.curr_leaf_value = IF cmdtc.leaf_param = NoParam THEN @ ELSE <<>>]
  /\ line' = PopN(line, cmdtc.icursor)
  /\ NoOutput
  /\ UNCHANGED <<options, hdr, status>>

\* cmd_tree_cursor_move_one_level_up, between two words; from the mode itself
\* the mode goes with it.
MarkAfterPop(c) ==
  IF c.stack_checkpoint = Top(c.params_stack) THEN c.stack_checkpoint - 1
  ELSE c.stack_checkpoint
LevelUp(c) ==
  LET top == Top(c.params_stack) IN
  [ExitBackward(c, {Last(c.params_stack)}) EXCEPT
     !.params_stack = Front(@),
     !.tlv_stack = Front(@),
     !.filter_checkpoint = IF @ = top THEN -1 ELSE @,
     !.stack_checkpoint = MarkAfterPop(c),
     !.curr_param = Last(Front(c.params_stack)),
     !.curr_leaf_value = <<>>,
     !.matching_params_list = {},
     !.leaf_param = NoParam]

\* The characters of the top word on the line, without what separates it.
TopWordByName(c) == Len(Name[c.curr_param])
TopWord(c) ==
  IF IsLeaf(c.curr_param) THEN Len(Last(c.tlv_stack).value) ELSE Len(Name[c.curr_param])

\* A backspace does not leave the mode.
EraseLevel ==
  /\ Reading
  /\ line # <<>>
  /\ cmdtc.cmdtc_state = "init"
  /\ cmdtc.curr_param # RootHook
  /\ Top(cmdtc.params_stack) # cmdtc.stack_checkpoint
  /\ cmdtc' = LevelUp(cmdtc)
  /\ line' = PopN(line, TopWord(cmdtc) + 1)
  /\ NoOutput
  /\ UNCHANGED <<options, hdr, status>>

\* Page-up makes the parent the mode; the prompt loses the last word with the
\* '-' before it and the "> " after it.
PageUp ==
  LET c == LevelUp(cmdtc)
      mode == [c EXCEPT !.root = c.curr_param]
      left == [options EXCEPT ![cmdtc.root] = Uninstall(@)]
      cut == TopWord(cmdtc) + 3
      branch == Branch(mode.params_stack)
  IN  /\ Reading
      /\ line = <<>>
      /\ Top(cmdtc.params_stack) > 0
      /\ IF mode.root # RootHook /\ ~HasRoom(left[mode.root], branch)
         THEN status' = "aborted" /\ UNCHANGED <<options, cmdtc, hdr>>
         ELSE /\ cmdtc' = mode
              /\ options' = IF mode.root = RootHook THEN left
                            ELSE [left EXCEPT ![mode.root] = Install(@, branch)]
              /\ IF Len(hdr) < cut THEN status' = "corrupt" /\ UNCHANGED hdr
                 ELSE /\ hdr' = PopN(hdr, cut) \o
                                IF mode.root = RootHook THEN <<" ">> ELSE <<">", " ">>
                      /\ UNCHANGED status
      /\ NoOutput
      /\ UNCHANGED line

\* ctrl-t: to the apex, from anywhere
CtrlT ==
  /\ Reading
  /\ options' = IF cmdtc.stack_checkpoint > 0
                THEN [options EXCEPT ![cmdtc.root] = Uninstall(@)] ELSE options
  /\ cmdtc' = [InitCursor EXCEPT !.refresh_disabled =
                 cmdtc.refresh_disabled /\ RefreshValHook \notin Range(cmdtc.params_stack)]
  /\ hdr' = DEF_CLI_HDR
  /\ line' = <<>>
  /\ NoOutput
  /\ UNCHANGED status

-----------------------------------------------------------------------------
(* cmd_tree_enter_mode: the key '/' after a space.                         *)

\* On an empty line it runs the command the mode stands for; at the apex and
\* in the config branch it does nothing.
RunMode ==
  /\ Reading
  /\ PrevIsSpace
  /\ line = <<>>
  /\ cmdtc.cmdtc_state = "init"
  /\ cmdtc.curr_param # RootHook
  /\ Branch(cmdtc.params_stack) # ConfigHook
  /\ Submit(cmdtc, hdr)
  /\ UNCHANGED <<options, line>>

\* In nested mode the outer command is dropped: only the nested one stays.
WithoutOuterWords(c) ==
  LET stack == <<RootHook>> \o SubSeq(c.params_stack, c.stack_checkpoint + 2, Len(c.params_stack))
  IN  [ExitBackward(c, {c.params_stack[i] : i \in 2 .. c.stack_checkpoint + 1}) EXCEPT
         !.params_stack = stack,
         !.stack_checkpoint = Top(stack),
         !.root = RootHook,
         !.curr_param = Last(c.params_stack)]
WithoutOuter(c) ==
  LET cp == c.stack_checkpoint
      own(s) == <<Head(s)>> \o SubSeq(s, cp + 2, Len(s))
  IN  [ExitBackward(c, {c.params_stack[i] : i \in 2 .. cp + 1}) EXCEPT
         !.params_stack = own(@),
         !.tlv_stack = own(@),
         !.stack_checkpoint = Top(own(c.params_stack)),
         !.root = RootHook,
         !.curr_param = Last(c.params_stack)]

\* Both stacks are drained through a list linked by the params themselves,
\* so a param may be on the stack once, and not in the list of matches.
Twice(s) == {i \in DOMAIN s : \E j \in 1 .. i - 1 : s[j] = s[i]}
StillLinked(c) ==
  {c.params_stack[i] : i \in Twice(c.params_stack)} \cup
  (Range(c.params_stack) \cap c.matching_params_list)

\* A filter param met twice cuts the list behind its second place.
Rebuilt(s) == IF Twice(s) = {} THEN s ELSE SubSeq(s, 1, First(Twice(s)))

\* The new prompt: the words from the root to the new mode, joined by '-'.
\* The last character written so far becomes the '>'.
ModeHdr(tlvs) ==
  LET path == FlattenSeq([i \in 1 .. Len(tlvs) - 1 |-> Append(tlvs[i + 1].value, "-")])
  IN  Front(DEF_CLI_HDR \o path) \o <<">", " ">>

\* A prompt that clibuff has room for.
FitsBuffer(h) == \E n \in 1 .. MAX_COMMAND_LENGTH - 1 : h \in [1 .. n -> PromptChar]

EnterMode ==
  LET c == IF Nested(cmdtc) THEN WithoutOuter(cmdtc) ELSE cmdtc
      left == IF Nested(cmdtc) THEN cmdtc.params_stack[cmdtc.stack_checkpoint + 1] ELSE c.root
      stack == Rebuilt(c.params_stack)
      mode == [c EXCEPT !.params_stack = stack,
                        !.root = c.curr_param,
                        !.stack_checkpoint = Top(stack)]
      h == ModeHdr(c.tlv_stack)
      unlinked == StillLinked(c) \ (IF Nested(cmdtc) THEN {} ELSE FilterParams)
      intact == /\ stack = c.params_stack
                /\ Range(stack) \cap c.matching_params_list = {}
                /\ FitsBuffer(h)
      kept == IF left = RootHook THEN options ELSE [options EXCEPT ![left] = Uninstall(@)]
  IN  /\ Reading
      /\ PrevIsSpace
      /\ line # <<>>
      /\ cmdtc.cmdtc_state = "init"
      /\ options[cmdtc.curr_param][0] # NoParam
      /\ IF unlinked # {} \/ ~HasRoom(kept[mode.root], Branch(mode.params_stack))
         THEN /\ status' = "aborted"
              /\ NoOutput
              /\ UNCHANGED <<options, cmdtc, hdr, line>>
         ELSE /\ options' = [kept EXCEPT ![mode.root] = Install(@, Branch(mode.params_stack))]
              /\ line' = <<>>
              /\ IF ~intact
                 THEN cmdtc' = mode /\ hdr' = h /\ status' = "corrupt" /\ NoOutput
                 ELSE IF mode.root \in HasCallback THEN Submit(mode, h)
                 ELSE cmdtc' = mode /\ hdr' = h /\ NoOutput /\ UNCHANGED status

-----------------------------------------------------------------------------
Init ==
  /\ options = InitOptions
  /\ cmdtc = InitCursor
  /\ hdr = DEF_CLI_HDR
  /\ line = <<>>
  /\ calls = <<>>
  /\ recorded = <<>>
  /\ status = "running"

Next ==
  \/ \E k \in Key : TypeChar(k)
  \/ SpaceLists
  \/ SpaceCompletes
  \/ SpaceAccepts
  \/ AutoCompletionSpins
  \/ ReturnCommand
  \/ ReturnWord
  \/ ReturnReject
  \/ EraseChar
  \/ EraseWord
  \/ EraseLevel
  \/ PageUp
  \/ CtrlT
  \/ RunMode
  \/ EnterMode

Spec == Init /\ [][Next]_vars

-----------------------------------------------------------------------------
(* What every reachable state satisfies.                                   *)

TlvType == [param : Param, value : Seq(Key)]
CursorType ==
  [root : Param,
   params_stack : Seq(Param),
   tlv_stack : Seq(TlvType),
   stack_checkpoint : Nat,
   filter_checkpoint : Nat \cup {-1},
   curr_param : Param,
   curr_leaf_value : Seq(Key \cup {NUL}),
   icursor : Nat,
   cmdtc_state : {"init", "multiple_matches", "single_word_match", "matching_leaf"},
   matching_params_list : SUBSET Param,
   leaf_param : ParamOrNull,
   is_negate : BOOLEAN,
   is_refresh : BOOLEAN,
   clrscr : BOOLEAN,
   refresh_disabled : BOOLEAN]

\* The types of the tree, the cursor and the two parts of the line buffer: no
\* pointer of cmd_tree_cursor_t is ever NULL where the code follows it.  What is
\* handed out, calls and recorded, is written only; once corrupt, the prompt may
\* be anything.
TypeOK ==
  /\ options \in [Param -> [Slot -> ParamOrNull]]
  /\ cmdtc \in CursorType
  /\ status # "corrupt" => hdr \in Seq(PromptChar)
  /\ line \in Seq(Key \cup {" "})
  /\ status \in {"running", "spinning", "aborted", "corrupt"}

OnStack == Range(cmdtc.params_stack)

\* The TLV stack goes hand-in-hand with the params stack: slot by slot the
\* TLV is that of the param, through pushes, pops, resets and mode changes.
StacksInStep ==
  /\ Len(cmdtc.tlv_stack) = Len(cmdtc.params_stack)
  /\ \A i \in DOMAIN cmdtc.params_stack :
        cmdtc.tlv_stack[i].param = cmdtc.params_stack[i]

\* is_negate, which makes a config command a negative one and hides the other
\* "no" params, is set exactly while a "no" is on the stack, however it left.
NegateIffNo ==
  status # "corrupt" => (cmdtc.is_negate <=> \E p \in OnStack : IsNo(p))

\* The refresh flags: is_refresh starts the refresh loop, refresh_disabled
\* keeps a second "refresh" out of the command.
RefreshIffOnStack ==
  status # "corrupt" =>
    /\ cmdtc.is_refresh <=> RefreshHook \in OnStack
    /\ cmdtc.refresh_disabled <=> RefreshValHook \in OnStack

\* The interval of a refresh is entered behind "refresh" (an assertion of
\* cmdtc_param_entered_forward): the command it belongs to is refreshed.
IntervalFollowsRefresh ==
  status # "corrupt" => (RefreshValHook \in OnStack => cmdtc.is_refresh)

\* clrscr makes every refresh wipe the screen: it is set exactly while "cls"
\* is part of the command.
ClrscrIffOnStack == cmdtc.clrscr <=> ClrscrHook \in OnStack

\* The filter checkpoint marks the first "|": the command before it is called,
\* what follows filters its output.
FirstPipe(s) ==
  IF Pipe \notin Range(s) THEN -1
  ELSE First({i \in DOMAIN s : s[i] = Pipe}) - 1
CheckpointIsFirstPipe == cmdtc.filter_checkpoint = FirstPipe(cmdtc.params_stack)

\* The show and config hooks are options of the mode the user is in and of no
\* other param: enter-mode, page-up and ctrl-t take them where they belong.
UniversalsOnModeRoot ==
  \A p \in Param :
     OptionsIn(options[p]) = OptionsIn(InitOptions[p]) \cup
       IF p = cmdtc.root /\ p # RootHook
       THEN {ShowHook, ConfigHook} \ {Branch(cmdtc.params_stack)} ELSE {}

\* The mode is the param at the checkpoint, and the stack never falls below it.
ModeAtCheckpoint ==
  /\ Top(cmdtc.params_stack) >= cmdtc.stack_checkpoint
  /\ cmdtc.params_stack[cmdtc.stack_checkpoint + 1] = cmdtc.root

\* The prompt shows the path from the root of the tree to the mode.
PromptIsPath ==
  hdr = IF cmdtc.stack_checkpoint = 0 THEN DEF_CLI_HDR
        ELSE ModeHdr(SubSeq(cmdtc.tlv_stack, 1, cmdtc.stack_checkpoint + 1))

\* Which mode the user is in is kept in four places, each changed by code of its
\* own: the root, the checkpoint in the stacks, the hooks in the tree and the
\* prompt.  After every key they name the same mode.
ModeIsOne == ModeAtCheckpoint /\ UniversalsOnModeRoot /\ PromptIsPath

\* What is on the line is the words pushed since the mode was entered, each
\* with its space, and then the word being typed, icursor keys of it: a
\* backspace that erases a word erases just that word from the screen.
Spelled(tlvs) == FlattenSeq([i \in DOMAIN tlvs |-> Append(tlvs[i].value, " ")])
Typed ==
  LET done == Spelled(SubSeq(cmdtc.tlv_stack, cmdtc.stack_checkpoint + 2, Len(cmdtc.tlv_stack)))
  IN  SubSeq(line, Len(done) + 1, Len(line))
LineMatchesStack ==
  status # "corrupt" =>
    /\ line = Spelled(SubSeq(cmdtc.tlv_stack, cmdtc.stack_checkpoint + 2, Len(cmdtc.tlv_stack)))
              \o Typed
    /\ Len(Typed) = cmdtc.icursor
    /\ cmdtc.cmdtc_state = "matching_leaf" => cmdtc.curr_leaf_value = Typed

\* Whatever is typed and completed, prompt and line fit into clibuff.  The space
\* behind the word that fills it does not.
LineFitsBuffer == Used <= MAX_COMMAND_LENGTH

\* The list of matches holds the keywords that may follow and continue what is
\* typed, all of them, whenever the next key is judged by that list.
MatchListIsExact ==
  LET here == options[Last(cmdtc.params_stack)]
      mayFollow == {p \in OptionsIn(here) : /\ ~IsLeaf(p)
                                            /\ ~(IsNo(p) /\ cmdtc.is_negate)
                                            /\ ~(p = RefreshHook /\ cmdtc.refresh_disabled)}
  IN  \/ cmdtc.cmdtc_state = "init" /\ cmdtc.matching_params_list = {}
      \/ cmdtc.cmdtc_state = "matching_leaf"
      \/ cmdtc.matching_params_list =
           {p \in mayFollow : FirstN(Name[p], cmdtc.icursor) = Typed}

\* The shell dies of no assertion.
NoAbort == status # "aborted"

\* The assertions of the cursor code that the keys reach: what each state of
\* the cursor says of curr_param, leaf_param, icursor and the list.
AssertsHold ==
  LET m == cmdtc.matching_params_list
      top == Last(cmdtc.params_stack)
  IN  /\ NoAbort
      /\ CASE cmdtc.cmdtc_state = "init" ->
               /\ cmdtc.icursor = 0
               /\ cmdtc.curr_param = top
               /\ m = {} => cmdtc.leaf_param = NoParam
          [] cmdtc.cmdtc_state = "multiple_matches" ->
               cmdtc.icursor > 0 /\ Cardinality(m) > 1 /\ cmdtc.curr_param = top
          [] cmdtc.cmdtc_state = "single_word_match" ->
               cmdtc.icursor > 0 /\ m = {cmdtc.curr_param} /\ cmdtc.curr_param # top
          [] cmdtc.cmdtc_state = "matching_leaf" ->
               /\ cmdtc.icursor > 0
               /\ cmdtc.leaf_param = cmdtc.curr_param
               /\ IsLeaf(cmdtc.curr_param)

\* The application is only called with a command of the tree as it was built:
\* the TLVs lead from the root through registered children, whatever mode or
\* nested mode the command was typed in.
CallsAreCommands ==
  \A i \in DOMAIN calls :
     LET tlvs == calls[i].tlvs IN
     /\ tlvs[1].param = RootHook
     /\ \A k \in 1 .. Len(tlvs) - 1 : tlvs[k + 1].param \in OptionsIn(InitOptions[tlvs[k].param])

\* The param called is the last one before the first filter, and the filters
\* its output goes through are all the words from there on.
FiltersSplitOff ==
  \A i \in DOMAIN calls :
     LET call == calls[i]
         cut == FirstPipe([k \in DOMAIN call.tlvs |-> call.tlvs[k].param])
         own == IF cut = -1 THEN call.tlvs ELSE SubSeq(call.tlvs, 1, cut)
     IN  /\ call.param = Last(own).param
         /\ call.filters = SubSeq(call.tlvs, Len(own) + 1, Len(call.tlvs))

\* A hook starts a command, at the root or in a mode (nested mode); it never
\* comes up in the middle of one.
HooksStartCommands ==
  \A i \in DOMAIN cmdtc.params_stack :
     cmdtc.params_stack[i] \in Hooks => i \in {2, cmdtc.stack_checkpoint + 2}

\* A config command that spells "no" reaches the application as a negative
\* one, and no other does.
DisabledIffNo ==
  \A i \in DOMAIN calls :
     calls[i].op = "CONFIG_DISABLE" <=>
       /\ calls[i].tlvs[2].param = ConfigHook
       /\ \E k \in DOMAIN calls[i].tlvs : IsNo(calls[i].tlvs[k].param)

\* The words that go to the history are those of the command that was run, so
\* that picking them up again runs it again, from the apex of the tree.
HistoryIsCommand ==
  recorded # <<>> /\ calls # <<>> =>
    recorded = [k \in 1 .. Len(Last(calls).tlvs) - 1 |-> Last(calls).tlvs[k + 1].value]

\* Only what was submitted to the application counts as successful and is
\* recorded.
RecordedWasSubmitted == recorded # <<>> => calls # <<>>

\* The calls of a batch go down the command, each with more of its TLVs than
\* the one before, and a run of a recursive param is one call with all values.
BatchGoesDown ==
  \A i \in 1 .. Len(calls) - 1 :
     /\ Len(calls[i].tlvs) < Len(calls[i + 1].tlvs)
     /\ IsPrefix(calls[i].tlvs, calls[i + 1].tlvs)
     /\ calls[i].param \in Recursive =>
          calls[i + 1].tlvs[Len(calls[i].tlvs) + 1].param # calls[i].param

\* The slots cmd_tree_trigger_cli would read for the command on the stack are
\* slots of it: the filters of a nested command are found behind it.
FilterSlotsExist == status # "corrupt" => SlotsExist(Executing(cmdtc))

\* Auto-completion comes to an end, whatever the line has room for.
AutoCompletionEnds == status # "spinning"

-----------------------------------------------------------------------------
(* What no step may do.                                                    *)

\* A command, accepted or not, leaves the user in the mode he typed it in:
\* the root, the checkpoint, the words below it and the hooks stay put.
Mode(c) == <<c.root, c.stack_checkpoint,
             SubSeq(c.params_stack, 1, c.stack_checkpoint + 1),
             SubSeq(c.tlv_stack, 1, c.stack_checkpoint + 1)>>
CommandKeepsMode ==
  [][(ReturnCommand \/ ReturnWord \/ ReturnReject) /\ status' = "running" =>
        /\ Len(cmdtc'.params_stack) = cmdtc.stack_checkpoint + 1
        /\ Mode(cmdtc') = Mode(cmdtc)
        /\ options' = options]_vars

\* What the application is called with is what the screen shows: the words of
\* the prompt and of the line, or of the line alone in nested mode.
CallsWhatIsShown ==
  [][calls' # <<>> /\ line # <<>> /\ line' = <<>> =>
       LET tlvs == Last(calls').tlvs
           path == IF Nested(cmdtc) THEN 1 ELSE cmdtc.stack_checkpoint + 1
           typed == Spelled(SubSeq(tlvs, path + 1, Len(tlvs)))
       IN  IsPrefix(line, typed) \/ IsPrefix(typed, line)]_vars
=============================================================================
