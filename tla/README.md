# CLIBuilder in TLA+

CLIBuilder is a C/C++ library for command shells in the style of network
devices. An application builds a tree of *params* (keywords and leaves), and the
library reads keys, completes words, walks the tree, enters and leaves modes,
calls the application's handlers, filters their output, keeps a history and runs
test scripts. This directory models the parts in which the state of several
keys, commands or processes meets, checks them with TLC and proves the central
invariants with TLAPS. Paths below are relative to `src/`.

## 1. Inventory

| part | source | state | operations | modelled in |
|---|---|---|---|---|
| Command tree | `CmdTree/CmdTree.cpp` | `options[]`, parents, flags of every param | building: register, recursive, handler, negation, batch, init done; running: install and uninstall of the hooks | `TreeBuild`; `CmdTree` |
| Cursor, char mode | `CmdTree/CmdTreeCursor.cpp` | two stacks, checkpoints, word being typed, list of matches, flags | one per key | `CmdTreeCursor` |
| Key dispatch, line buffer | `KeyProcessor/KeyProcessor.cpp` | `clibuff`, prompt, counters | one per key | `CmdTreeCursor` (char mode), `LineMode` (line mode) |
| Command trigger | `CmdTreeCursor.cpp:1560-1792` | temporary cursor, TLV stack | run, batch, nested mode | `CmdTreeCursor` |
| Command history | `KeyProcessor.cpp` | linked list, `curr_ptr`, `default_cli`, `cli_store` | record, evict, browse, return, ctrl-t | `CliHistory`, `History` |
| Refresh and SIGINT | `CmdTreeCursor.cpp:1576-1613`, `KeyProcessor.cpp:241-259` | two flags, a spin lock | loop, sleep, signal handler | `Refresh` |
| Output filters | `Filters/filters.cpp` | filter array, count, file, Cumbuffer | set, `cprintf`, unset | `Filters` |
| Test runner | `utinfra/ut_parser.cpp` | `TC_RUNNING`, receive buffer, results, message queue | one per directive | `UtParser` |
| Line-mode parser | `CmdTreeCursor.cpp:1895-2070`, `string_util.c` | a fresh cursor, or the mode's | parse a line, ask the user | `LineMode`, `Shell` |
| Line editor | `KeyProcessor.cpp` | positions in `clibuff`, the terminal | cursor keys, delete, insert, kill, redraw, browse | `LineEditor` |
| glthread | `gluethread/` | two pointers per node | add, remove, priority insert, dequeue, count, walks that move nodes | `Glthread`, `Lists` |
| stack | `stack/` | slots | push, pop | as sequences in `CmdTreeCursor` |
| Validations, handlers | `CmdTree/clistd.cpp` | - | validate, set the prompt | the host name only |
| Serializer, `printf_override.cpp`, applications, `stack/stack/` | | | | not modelled: not part of the running shell |

How they interact. `cli_start_shell` reads a key and gives it to
`cli_process_key_interrupt`, which in char mode calls the cursor; the cursor
types completed characters by calling the key processor again. A key that
moves or edits inside the line switches to line mode, where the line is text
until return has it parsed from its words; the newest entries of the history are
read the same way. A return or an
enter-mode key calls `cmd_tree_trigger_cli`, which calls the application's
handlers with the TLV stack, setting the filters before and forgetting them
afterwards. Handlers print through `cprintf`, and may set the prompt. A command
that succeeds goes to the history, whose entries later become the line at hand.
A refresh filter repeats the trigger until SIGINT sets a flag. The test runner is
itself a handler; it runs commands through the line-mode parser and receives
their output over a POSIX queue.

What is hard. Nothing runs in parallel except the signal handler, so the hazards
are long sequences of legal keys, state cached between keys (the list of
matches, the checkpoints, the flags, the prompt), bulk changes of the stacks
(page-up, enter-mode, reset), buffers at their limit, static variables between
commands, a message queue that survives its process, and the signal.
`PROJECT.json` lists each at its line, with the properties that are about it.

What makes each part correct:

* cursor: stacks, flags, list of matches, line and prompt agree after every key;
  the application is called with what the screen shows; a key never loses the
  mode; no assertion fails;
* history: the list is sound, bounded and what was run; browsing never uses a
  freed entry or one that has no cursor in char mode;
* refresh: goes on until Ctrl-C, ends then, and Ctrl-C is always for the right party;
* filters: the output is what the chain of filters means, and of this command only;
* test runner: what is compared is the output of the command before it;
* line mode: a line means the same command as in char mode, and bringing a
  command back repeats it;
* line editor: the buffer is one text, the terminal shows it, each key does what it says;
* lists: the pointers agree at every step, walks end, nothing is left on a list
  of a function that returned;
* tree: every show command can be filtered once, `no` mirrors what it negates,
  a batch is marked up to its hook.

## 2. The modules

### CmdTree, CmdTreeCursor

`CmdTree` holds the tree as constants (`Kind`, `Name`, `Children`, flags, special
params) and the operations on `options[]`. `CmdTreeCursor` is the shell in char
mode. `cmdtc` is the record `cmd_tree_cursor_t`, field for field, with
`params_stack[i + 1]` for `slot[i]`; `hdr` and `line` are `clibuff` before and
after `start_pos`; `calls` and `recorded` are what the last key gave to the
application and to the history. One action per key and outcome: `TypeChar`,
`SpaceLists`, `SpaceCompletes`, `SpaceAccepts`, `AutoCompletionSpins`, `ReturnCommand`, `ReturnWord`,
`ReturnReject`, `EraseChar`, `EraseWord`, `EraseLevel`, `PageUp`, `CtrlT`, `RunMode` and `EnterMode`,
each with all the calls the handler makes. Keywords and values are short sequences of keys, because the
properties are about words that share a prefix.

`status` is `"running"` until the program leaves what the source defines:

* `"aborted"`: an assertion failed;
* `"spinning"`: the completion loop does not end;
* `"corrupt"`: a read or write out of bounds, or a damaged list (a value longer
  than its holder, a 33rd push, a space behind a completion that filled the
  buffer, a prompt longer than the buffer, a page-up that removes more than the
  prompt has, a filter slot outside the stack, a command without a hook that goes
  to the history). Nothing is modelled after it.

Deadlock is not checked in the cursor's runs since the shell really stops then.
Left out because they change no state: the displays (`?`, `.`, listing) and the
double-quote counters. `if (param->callback)` tests an array and is always true,
so filters hang behind every show command, as the MC trees have them. The
refresh loop is one run of the command here; `Refresh` has the loop.

### Refresh

One thread (`pc`) runs a command, prints lines under the spin lock of `cprintf`
and, with a refresh filter, sleeps, reads the flag and goes on. `CtrlC`
interrupts it between any two steps; the handler prints, then decides
(`libcli_terminate_refresh`, the application's handler, or exit). The two
assignments that end a refresh are two steps. A handler runs to its end before
the thread goes on and is not interrupted itself: `signal()` blocks the signal.

Fairness: weak fairness of the thread's steps and of the handler's. The
scheduler runs the process, a handler that can go on does, callbacks print finitely many lines,
a sleep ends. Nothing makes a user type or press Ctrl-C.

### CliHistory, History

The list as it is in memory: cells with `next` and `prev`, `first`, `last`,
`count`, and the pointers of browsing. `malloc` returns any free cell. A line is
a text; `Runs` says which command it names (several texts may name one, as
abbreviations do). `History` is the abstract history: a sequence of entries and
the place the user looks at. `IsHistory` is the refinement, with `Entries` (the
walk along `next`) and `Place` as the mapping: every key of the list is a step
of the abstract history or changes nothing of it.

### Filters, UtParser

`Filters` follows one command after the other: `Submit` (`SetFilterContext`),
`cprintf` for every line, `EndOperational` (`UnsetFilterContext`) or
`EndConfig`. What a chain of filters *means* is defined on its own (`Pipeline`) and
compared with what the loop over the filters did line by line. `UtParser` puts the test
runner on top: a script is any sequence of directives; `Crash` ends the
process at any moment and starts a new one, with the queue and the files that are there. The
POSIX queue is a sequence of at most one message that is read and written
without waiting (`O_NONBLOCK`). Sizes are counted in lines.

No fairness is assumed in these modules and in the cursor's: what happens next
is up to the user, and their properties are safety properties.

### LineMode, Shell

`LineMode` extends `CmdTreeCursor` by the second way to read a command.
`EnterLineMode` is any key of line mode (the words entered are forgotten, the
text stays), `EditLine` what the editing keys may make of the text,
`Recall` and `PutBack` key-up and key-down on the newest entry, `ReturnLine` the
whole of `cmdtc_parse_full_command`: the tokens, the choice between a fresh
cursor and the mode's, the reading of each word (`Meant`: a keyword in full, the
start of one, of several, about which the user is asked, or a leaf), the trigger
and the end of either cursor. A line is read to a *set* of readings, since the
user answers.

`Shell` says what is promised without keys and cursors: a mode, a path of the
tree; words that follow one another in it; sentences that are run, or become the
mode; calls with sentences only, negative when the user negates. `IsShell` is the
refinement of `LineMode`, char mode included: the mode is the stack up to the
checkpoint, the words are the rest, the calls are the paths of their TLVs. Where
the program breaks the promise in a way found here (a nested command loses its
sign, a hook continues a path, an assertion fails) `Shell` says so at the place.

### LineEditor

The buffer of the line at hand and of the newest entry of the history, each with
`current_pos` and `end_pos`, and the terminal: its cells and its cursor. `synced`
remembers whether the two cursors have been at the same place since the line was begun. Delete and
backspace take the column of the terminal for the position, so what keys do
to the line depends on it: `EditsAsKeyed` is conditional on `synced`, and
`KeysKeepSync` says that on one row only ctrl-l and key-up lose it. Once a
position has left the text the source is undefined and nothing is modelled any more. Of a terminal that lost
the position only the column is kept, the one thing keys take from it.

### Lists, Glthread

`Glthread` has the pointers and each function of `glthread.c` as a call:
`Begin` chooses it and reads the first node, `Straight`, `WalkToEnd`,
`WalkToPlace`, `WalkAndRemove` and `WalkAndSelect`/`WalkBack` are its rounds, one
per step, with `prev`, `curr` and `count` as their variables. The last two are
`cmdtc_collect_all_matching_params` and `cmdtc_filter_word_by_word_size`, which
move nodes between two lists while they walk one. `Lists` is the abstract
module: lists are sequences and a call is one step with its result. `IsLists` is the
refinement; while a call is under way the lists are those before it (`ListsNow`).

Fairness: weak fairness of `Step`. A function that was called is not interrupted
and runs on; nothing makes anyone call one. `CallsReturn` is about it; `Lists` is without fairness.

### TreeBuild

The calls a program makes before the shell starts, in any order, on the tree of
`libcli_build_default_cmdtree`, and `libcli_init_done`. The walk that gives every
show command its pipe is translated into the params it comes by and the number of
ways to each; the batch goes up `parent` pointers until `config`. `stage` says
whether an assertion failed ("aborted") or the code leaves what is defined
("crashed").

### Variants

Definitions such as `ToMainStored` or `UnsetButFile`, next to the one they resemble and used nowhere,
are that definition with a plausible mistake in it. `PROJECT.json` pairs every
checked property with one of them ("mutants"): with the mistake the
property fails in its own run.

## 3. The runs

`tlc -config <run>.cfg <module>`. `PROJECT.json` lists the runs with their properties.

| run | module | states | what it shows |
|---|---|---|---|
| `MCModes` | `MCModes` | 9 000 | modes, nested modes, no, batches, a leaf beside keywords: stacks, flags, hooks, matches, line, prompt and calls agree after every key |
| `MCFilters` | `MCFilters` | 44 000 | filter chains: checkpoint and refresh flags, the split of a command from its filters |
| `MCBatch` | `MCBatch` | 19 000 | batches, recursive params, host name |
| `MCRefresh` | `MCRefresh` | 1 700 | Ctrl-C everywhere in plain and refreshed commands, liveness included |
| `MCCliHistory` | `MCCliHistory` | 30 000 | the list under eviction and browsing, and its refinement |
| `MCOutput` | `MCOutput` | 11 000 | filters of one command after the other |
| `MCUt` | `MCUt` | 271 000 | scripts of show commands and silent config commands, ended anywhere, with a crash |
| `MCLineMode` | `MCLineMode` | 111 000 | char mode, line mode and the newest entry of the history, and the refinement of `Shell` |
| `MCLineEditor` | `MCLineEditor` | 329 000 | every editing key at every place of a line |
| `MCGlthread` | `MCGlthread` | 31 000 | lists of pointers and walks that move nodes, the refinement of `Lists`, and that calls return |
| `MCTreeBuild` | `MCTreeBuild` | 40 000 | building the tree in every order of calls |

`TypeOK` of `Refresh`, `CliHistory` and `Filters`, `UtTypeOK`, `FlagInLoop` and
`CallsAreCommands` are not listed with a run; they hold as well when they are added to
`MCRefresh`, `MCCliHistory`, `MCOutput`, `MCUt`, `MCRefresh` and `MCModes`.

Bounds. The trees have every kind of param on few words: two hooks or three, a
leaf beside keywords, two keywords with a common prefix, filters that lead back to the
pipe. `MAX_COMMAND_LENGTH` bounds lines and prompts: 40 is more than any
sequence of the tree of `MCModes` can fill (the states are the same from 18 on), 24 leaves
room for three filters and a prompt, 20 is filled by the ids of `MCBatch` before, during and after a
word that is completed: calls are made at the limit too, and SpaceOverrun and FullLineSpins are reached. `LEAF_VALUE_HOLDER_SIZE` is as long as the
longest keyword. `MCCliHistory` has a limit of two entries and three cells: one
eviction, and the growth after it; cells are symmetric. `MCRefresh` has three
Ctrl-C: one in the loop, one between the two assignments and one at the next
prompt. `MCOutput` prints up to three lines of two kinds, with a pattern for
each, one for none and one that does not compile. `MCUt` prints up to two lines into
a message of two, so that an output too long for a message occurs, compares one pattern
per test case and has one crash: two of its three properties are about what comes after it or are
guarded by it, and the queue holds one message.

`MCLineMode` has words of one or two keys, one a prefix of others, a leaf
beside keywords, config with no, and lines of up to six words, one more than there are tokens.
`MCLineEditor` has a prompt of one character, a buffer of six and a terminal of six
columns: positions before, in and at the end of the text, a buffer that fills, and two letters to tell apart
what moves (`LongLine.cfg` has three columns, so that lines wrap). `MCGlthread` has two lists besides the one
on the stack, and three nodes, which is the longest walk with a node before,
at and behind every place; two nodes of the same weight; nodes are symmetric but for it.
`MCTreeBuild` makes four calls on three params, under show and config: enough for a
negation of a negated param, a handler before and after a batch, and a param under both hooks.

### Where code and comments disagree

`NestedNegate` ends in a violation: it shows what the code does against what a
comment says of it. `PROJECT.json` ("findings") quotes the lines.

| run | module | what happens |
|---|---|---|
| `NestedNegate` | `MCModes` | `config no ...` typed in nested mode is executed as enable: it runs on a fresh cursor without `is_negate` (`CmdTreeCursor.cpp:1620,1659`) |

The following disagreements were found in the same way; each is a property that
TLC finds violated. A configuration of its own is in this directory where its name ends in
`.cfg`; the others are those of the named run or label with this property in place of its properties, and with
the constants given here.

| label | configuration (module) | property | what happens |
|---|---|---|---|
| SpinningHandler | `SpinningHandler.cfg` (`MCRefresh`) | `CtrlCIsHandled` | a Ctrl-C during `cprintf` leaves the handler spinning on the lock its own thread holds (`KeyProcessor.cpp:244`, `filters.cpp:152`) |
| UnboundedHistory | `UnboundedHistory.cfg` (`MCCliHistory`) | `HistoryIsBounded` | after the first eviction `count` is past the limit, and nothing is evicted any more (`KeyProcessor.cpp:205-216`) |
| UtOperational | that of `UtConfigOutput`, `ScriptKinds = {"show", "oper"}`, `ConfigPrints = FALSE` | `ReceivesOwnOutput` | an operational command without show in it leaves its output in the queue, and the next show command is tested against it (`ut_parser.cpp:279-283`) |
| UtConfigOutput | `UtConfigOutput.cfg` (`MCUt`) | `ReceivesOwnOutput` | output of a config command is received with the next show command's (`filters.cpp:73`) |
| UtRestart | `UtRestart.cfg` (`MCUt`) | `OldMessagesIgnored` | a message left by a crashed process is received by the next one (`ut_parser.cpp:57`) |
| FullLineSpins | `MCBatch` | `AutoCompletionEnds` | completing a word into a full buffer never ends (`CmdTreeCursor.cpp:822,870`) |
| SpaceOverrun | `MCBatch` | `LineFitsBuffer` | the space behind a word that fills the line is stored behind the buffer (`KeyProcessor.cpp:779,801`) |
| RootCommand | `RootCommand.cfg` (`MCModes`) | `HistoryIsCommand` | a command registered at the root, as `testapp.c:97` does, has no hook: what is recorded of it starts at `slot[-1]` (`CmdTreeCursor.cpp:1465-1472`) |
| FullOptions | `MCModes`, `MAX_OPTION_SIZE = 3` | `NoAbort` | entering the mode of a param whose option slots are all used fails an assertion: no room for the hooks (`CmdTree.cpp:450`) |
| EmptyBatch | `MCModes` | `RecordedWasSubmitted` | entering the mode of a batch command calls nothing and is recorded as run (`:1676`) |
| LeafHole | `LeafHole.cfg` (`MCLeaf`) | `LineMatchesStack` | the key that narrows keywords to one is missing in the leaf's value (`:1039-1051`) |
| StaleClrscr | `MCFilters` | `ClrscrIffOnStack` | erasing `cls` leaves the clearing of the screen on (`:182-189`) |
| RepeatedPipe | `MCFilters` | `StacksInStep` | enter-mode loses params that are on the stack several times (`:1302-1349`) |
| RecursiveMode | `MCBatch` | `NoAbort` | enter-mode fails an assertion on a list node in use (`:1307`) |
| ListedHook | `NestedCheckpoint.cfg` (`MCNested`) | `NoAbort` | the same for a param still in the list of matches (`:1260`) |
| StaleMatches | `MCFilters` | `MatchListIsExact` | hooks of a mode are missing among the listed options (`:1366`) |
| HookInFilters | `MCFilters` | `HooksStartCommands` | hooks appear inside commands, at the pipe they share (`:1366`) |
| NestedSlots | `MCFilters` | `FilterSlotsExist` | a nested command in a mode with a filter reads slots outside its stacks (`:1634`) |
| NestedCheckpoint | `NestedCheckpoint.cfg` (`MCNested`) | `CheckpointIsFirstPipe` | entering a mode from nested mode leaves the checkpoint behind (`:1257`) |
| NestedRefresh | `NestedCheckpoint.cfg` (`MCNested`) | `IntervalFollowsRefresh` | the same clears `is_refresh` under the interval (`:1257`) |
| LineHook | `MCLineMode` | `CallsAreCommands` | a hook installed at the root of a mode is taken, in line mode, in the middle of a line that passes that param, and the handler is called with a path the tree does not have (`:1963-2057`) |
| BlankLine | `MCLineMode` | `LineIsSafe` | a line of spaces resets a cursor that was never initialised; more words than `tokens[]` has are written past it (`:1927-1931`) |
| HookPrefix | `HookPrefix.cfg` (`MCLineMode`) | `SameInLineMode` | a word of a leaf that begins a hook's name is read as the hook in line mode (`CmdTree.cpp:494-499`) |
| Displaced | `MCLineEditor` | `PositionInText` | after ctrl-l or key-up a delete takes the terminal's column as position, behind the text (`KeyProcessor.cpp:648,664`) |
| LongLine | `LongLine.cfg` (`MCLineEditor`) | `PositionBehindPrompt` | on a line that wraps a delete puts the position into the prompt (`:664`) |
| WrappedRow | that of `LongLine` | `ScreenShowsLine` | key-up and key-down delete the row of the cursor only, and leave the other rows of a line that wraps on the terminal (`:733,754`) |
| FullLine | `MCLineEditor` | `KeysAreRead` | a full line accepts no key at all, not even backspace or return (`:904`) |
| LastByte | `MCLineEditor` | `PromptIsKept` | inserting the last character writes a NUL behind the buffer, onto `current_pos`, and the character into the prompt (`:438`) |
| LateLeaf | `LateLeaf.cfg` (`MCTreeBuild`) | `OneLeaf` | a leaf registered before a param is made recursive stays beside the leaf itself (`CmdTree.cpp:129,168`) |
| KeptParent | `MCTreeBuild` | `ParentsAreNull` | parents below a recursive param are not cleared (`:622`) |
| SharedShow | `MCTreeBuild` | `PipeOnce` | a param that two show commands share gets the pipe twice (`:703`) |
| RecursiveShow | `RecursiveShow.cfg` (`MCTreeBuild`) | `BuildEnds` | a recursive param below show is walked for ever (`:691-720`) |
| StaleTerminate | that of `SpinningHandler` | `RefreshEndsByCtrlC` | a Ctrl-C between two assignments ends the next refresh (`CmdTreeCursor.cpp:1604`) |
| StaleProgress | `MCRefresh` | `CtrlCAtPrompt` | after a refresh without interval Ctrl-C does nothing any more (`:1597`) |
| EditedEntry | `MCCliHistory` | `EntriesKept` | editing a line from the history changes the history (`KeyProcessor.cpp:738`) |
| PromptInHistory | `MCCliHistory` | `HostNameSetsPrompt` | host-name from the history sets the prompt of the entry (`clistd.cpp:153`) |
| EmptyCount, EmptySave | `MCOutput` | `CountIsShown`, `FileIsOutput` | a filter no line reaches shows no total and keeps the old file (`filters.cpp:231,242`) |
| SaveNamedCount | `SaveNamedCount.cfg` (`MCOutput`) | `OutputIsFiltered` | a file named count is taken for the filter (`filters.cpp:229`) |

## 4. What is proved

`CmdTreeCursor_proofs`, for every tree that meets the assumptions of `CmdTree`,
every prompt and all buffer sizes:

* `TypeCorrect`: `Spec => []TypeOK`;
* `StacksCorrect`: `Spec => [](status # "corrupt" => StacksInStep)`, the two stacks go
  hand in hand, until a buffer is overrun;
* `NegateCorrect`: `Spec => []NegateIffNo`;
* `ModeKept`: `Spec => CommandKeepsMode`, an action property.

None of these is inductive alone. That `curr_param` never becomes NULL needs to
know in which state of the word it is a match and in which a leaf, and the pops
of backspace need the character cursor to be 0 exactly between two words. That
`is_negate` can be cleared at the pop of a `no` needs that there is one `no` at
most, which in turn needs that no param in the list of matches is a `no` while
one is on the stack. The inductive invariant is

    Inv == TypeOK /\ (status # "corrupt" => Good(cmdtc) /\ icursor <= Len(line))
    Good(c) == c \in CursorType /\ Shape(c) /\ InStep(c) /\ OneNo(c)

`Shape` relates the state of the word to the cursor, the leaf and the matches,
`InStep` the stacks, `OneNo` the flag. There is one lemma per helper of the
cursor (push, pop, reset, list of matches), one per action (`...Step`), and the
theorems follow with one temporal step each. `Inv` holds as an invariant in TLC
on all trees. The proofs assume nothing but the named assumptions on the
constants, which TLC evaluates for every MC tree.

For the same trees:

* `ModeIsAtCheckpoint`: the stacks reach up to the checkpoint and the param there
  is the root (`ModeAtCheckpoint`, a conjunct of `ModeIsOne`), until a buffer is overrun;
* `EmptyLineIsMode`: on an empty line the top of the stacks is the checkpoint.

Backspace decides by the characters of the line whether it pops, and how many it
erases by the length of the value in the TLV popped, so that the mode can be right only if the line and the
stacks agree. `ModeInv` adds to `Inv` that the TLV of a keyword carries its name, that only
keywords are listed, and `Covered`: the line has, for each word above the checkpoint, its
characters and a space. That the line fits into its buffer is not proved, since it is false
(SpaceOverrun): the theorems speak of the states before that happens.

Further on in the module:

* `HooksFollowMode`: `Spec => [](status # "corrupt" => UniversalsOnModeRoot)`, the hooks are
  options of the root of the mode and of no other param, in every tree;
* `LineSpellsStack`: `Spec => [](NoAbort => LineMatchesStack)`, in the trees with `OneKeywordBesideLeaf`;
* `EveryPlaceNamesMode`: `Spec /\ []NoHostName => [](status # "corrupt" => ModeIsOne)`, in the same trees;
* `BatchesGoDown`: `Spec => []BatchGoesDown`, in every tree.

`OneKeywordBesideLeaf` says that among the params that may follow where a leaf may,
no two keywords begin alike. The code has no such condition, and without it the
line does not match the stacks: in the tree of `LeafHole.cfg` a key is lost. The
trees of `MCModes`, `MCFilters` and `MCBatch` meet it. `NoHostName` leaves out the command that replaces the prompt
by a name, which page-up then cuts as if it were the path. The invariants: for the hooks, what
enter-mode and page-up find installed is what the last of them left, on the stack up to the checkpoint and
in nested mode; for the line, `ShownInv` has, besides `ModeInv`, what the word being typed
is in each state of the word (`icursor` keys of the match, or the value of the leaf) and that
every param on the list of matches begins with it; for the prompt, `PathInv` has the names on the
stack up to the checkpoint in the prompt. The calls of a batch come from a set of
places in the stack; that they go down the command is shown by counting: the k-th
call is for the k-th place from below (`Kth`, `KthAscends`).

`CmdTreeFilter_proofs`, for every tree, as long as the user enters no mode within
the filters of a command (`NoFilterMode`: no pipe up to the checkpoint):

* `CheckpointHolds`: `Spec /\ []NoFilterMode => [](status # "corrupt" => CheckpointIsFirstPipe)`;
* `RefreshHolds`: `Spec /\ []NoFilterMode => []RefreshIffOnStack`.

Without the condition the first is false (NestedCheckpoint, section 3). Each of the flags is
set by one param and cleared by the pop of it; that this is right needs that the param is there once.
`FilterInv` adds to the invariant of the hooks where a refresh and its interval can be
(`FilterPath`), that there is one refresh at most, and what the list of matches offers
behind the top of the stack (`MayFollow`).

The same module has, in the trees with `OneKeywordBesideLeaf` and for users who enter a mode
with no options listed (`UnlistedMode`):

* `MatchListHolds`: `Spec /\ [][UnlistedMode]_vars => [](status # "corrupt" => MatchListIsExact)`.

The options listed in the mode's place would stay listed in the mode, without its hooks
(StaleMatches). The list is refined key by key, completed, cut down to a word and kept
over keys that do not touch it, so that it is never compared with the options again. `ListInv`
says that with each keyword the list has all that agree with it in the first `icursor` keys
(`Settles`), that it is one keyword where the cursor takes it for the word meant, and that
the states between words list nothing but what a space listed; that the keys agreed on are those typed is `LineSpellsStack`'s invariant.

And for users who besides enter no mode with a param twice on the stack (`OnceMode`):

* `AssertionsHold`: `Spec /\ []NoFilterMode /\ [][OnceMode]_vars => [](status # "corrupt" => AssertsHold)`.

in the trees with `RoomForUniversals`, whose params leave two option slots free. In the others a mode can fail the
assertion of `cmd_tree_install_universal_params` (FullOptions); that it does not in these needs that the options of
every param outside of modes are those it was registered with (`HookedAt`, `PageUpGoesOn`, `EnterModeGoesOn`).
Each of the three conditions on the user leaves out a key sequence that ends in an assertion: RecursiveMode (a leaf
repeated in the path), ListedHook (options listed in the mode's place) and NestedRefresh (a refresh in a mode within filters).
`AssertInv` puts the invariants of the filters, the list and the line together and adds that no
assertion has failed, and `Sound`: what the code asserts of the states between and within words
that the other invariants do not say, and that a hook is on the stack only as the branch of the command or
behind the root of the mode (`BehindMode`). The last keeps a keyword from following
itself (`NotItself`), which the cursor asserts of the word it completes.

For what a command calls, in the trees without a pipe in the config branch (`NoConfigPipe`: there is a set of
params with the config hook in it, closed under options and without the pipe) and for users who take
a hook at the start of a command only (`HookPlaced`, an action property):

* `FiltersSplit`: `Spec /\ []NoFilterMode /\ [][HookPlaced]_vars => []FiltersSplitOff`;
* `HistoryHolds`: `Spec /\ []NoFilterMode /\ [][HookPlaced]_vars => [](HookCalled => HistoryIsCommand)`.

`libcli_augment_show_cmds` and `libcli_augment_debug_cmds` attach the pipe under show and debug alone, so that
the library's own trees have no pipe under config; behind one `cmdtc_set_filter_context` would drop the filters
of a config command. A hook within a command is HookInFilters: where it comes, the history begins at it.
`HookCalled` says that the command called last begins with a hook. The options of the root may be any params, and
one that is no hook makes a command without any, for which the search for it leaves the stack (RootCommand).
`CallInv` adds to the invariant of the filters where on the stack the hooks are (`HooksFirst`: in front of the
command and, in nested mode, in front of the nested one), that a part that begins with the config
hook stays in the config branch (`ConfigFrom`), and that every param listed is a hook or an option of the
top (`Offered`). The calls come from the temporary cursor of the nested mode (`ExecutedWords`: its words
are those of the nested command, behind the root), so that the pipe and the hook must be found at the same place there as
in the stacks they were copied from (`ExecutedSplit`, `HistoryExecuted`). That the history has the whole batch
needs that its last call has every TLV (`GreatestIsLast`), and that the root is no command (`CallbackAssumption`).

What is called is also what the screen shows, for all users and in the trees with `OneKeywordBesideLeaf`:

* `CallsShow`: `Spec => CallsWhatIsShown`, an action property.

It follows from `ShownInv` before the step. The words of the last call below the mode, or of the nested command,
are the first words of those on the stacks (`CalledText`), and so are the words the line
shows: the last one completed (`DonePushed`) when the key came within it. Of two beginnings of a sequence
one begins the other (`BeginningsCompare`). A hook that return itself completes makes a command nested that was
not; what is called then has no word below the mode. Enter-mode drops the outer command before it calls, and the nested
one is found at its place behind the root (`WithoutOuterIs`).

`LineEditor_proofs`, for every prompt, buffer and terminal:

* `BufferHolds`: `Spec => []BufferIsWhole`, also after the position has left the terminal's cursor;
* `EditsHold`: `Spec => EditsAsKeyed`;
* `SyncHolds`: `Spec => KeysKeepSync`;
* `ScreenHolds`: `Spec /\ ExchangedOnOneRow => []ScreenShowsLine`.

`ExchangedOnOneRow` says that key-up and key-down are used on lines of one row; a
longer line is where `ScreenShowsLine` fails (WrappedRow). Lines that wrap are included otherwise.
The invariant has, for both lines, what `TextIsWhole` says of each character
(`Whole`), that the line left for the history was one keys are read for (key-down
puts the cursor on its position), and while `synced` that the two cursors agree. Each
key has one lemma on a line and a terminal (`Keeps`): the line stays whole; if the terminal showed it
the new one shows the new line; and on one row the cursors stay together. The texts of
`EditsAsKeyed` are compared character by character (`TextEquals`).

`Refresh_proofs`, for all sets of commands, callbacks of any length and any
number of Ctrl-C: `TypeCorrect` (`TypeOK`), `FlagCorrect` (`FlagInLoop`),
`CtrlCOfRefresh` (`CtrlCIsForRefresh`) and `NoRunAfter` (`NoRunAfterCtrlC`). The
invariant adds where the thread is in the loop (`InLoop`, `OutOfLoop`), that a
Ctrl-C handled since the loop began is still in the flag until the loop acts on
it (`StillRecorded`: this is what makes the check after the sleep sufficient),
and that a line being printed is one of those left (`LineLeft`).

`Glthread_proofs`, for any lists, nodes and weights:
`InvHolds`, and from it `PointersAgreeHolds` (`PointersAgree`), `StackListIsEmptyHolds`
(`StackListIsEmpty`) and `ListsEnd` (`Acyclic`: the nodes can be ranked so that
`right` always leads up, so that every walk is finite). `PointersAgree` alone is
not inductive: nothing in it keeps a node from being put behind itself. The
invariant adds that the list on the stack is empty but during a call that uses
it, what the variables of a walk point to (nodes of the list it walks, with the next node read before
the round), that an argument node is on no list until the call puts it there, and the rank. There is one lemma per
pointer operation and one per kind of walk.

`ImplementsLists` (`IsLists`) is the refinement: every step of `Glthread` is a step of `Lists` or
changes nothing that `Lists` has. `OnLists(g, L)` says that the pointers `g` hold the
sequences `L`, no node twice; it determines what `Follow` reads (`FollowIs`), and there is one lemma per pointer
operation of what becomes of `L` (`AddNextOnLists`, `RemoveOnLists`, `MovedOnLists`). The
invariant `Impl` has, for the walk over a list `s` that stands behind its `p`-th node, what
the lists are by now: those `k` of the first `p` that were kept before the rest of `s`
(`Joined`), and the others in reverse on the list on the stack (`Back`) as long as none was
kept, so that taking them from its head puts them back in their order (`NextBack`, `NextFront`). For
`cmdtc_filter_word_by_word_size` it needs that the nodes of a list differ: a second option of the same name is
excluded by what the callers pass (`Given`), and with it the case in which one would be
restored behind those kept.

`UtParser_proofs` is about chains of any length, any lines and patterns, and output and scripts of
any size. `ContextIsResetHolds` (`ContextIsReset`): only the end of an operational command resets
the context, and a config command prints as well. The invariant says that without
filters nothing is counted and no file opened, and that filters are there only while an
operational command runs.

`OutputIsFilteredHolds` (`OutputIsFiltered`): the loop of `cprintf` takes one line at a
time through all filters, with what it has to remember in static variables; the meaning of
the chain (`Pipeline`) takes all lines through one filter at a time. The link is
`LinesKept`: every chain is patterns and at its end a count, a file or neither
(`ChainSplits`), and for the patterns both orders add the line or do not
(`ThroughPlain`, `PipelinePlain`). The invariant `ShowsOutput` ties the static variables and the screen
or the file to `LinesKept` (`OwnContext`, `OnScreen`, `InFile`): the count is
its length, the file is open once something was kept. Both sides are folds; that a fold exists,
and is the same step by step on a longer sequence, is shown once (`FoldExists`, `StepsOfMore`) from
recursion along the size of a set. `"count" \notin FileNames` has to be assumed: `SaveNamedCount` shows it.
That a count or a file is the last of its chain is in the `FilterAssumption` of `Filters`, from `cmd_tree_construct_filter_subtree`.

With the test runner: `ShellOutputIsShownHolds` (`ShellOutputIsShown`), for any number of
crashes, from `ShowsOutput` and that no test case runs at the prompt, so that `TC_RUNNING` does
not change under a command. `QueueIsDrainedHolds` (`QueueIsDrained`): where no
script has an operational command without show in it (`UtOperational` shows that it
has to be assumed) and no process crashed, the queue is empty whenever the runner reads a
directive. The invariant: the queue holds a message at most, and one only while the
runner waits for it; outside of a test case nothing is sent. `ReceivesOwnOutputHolds`
(`ReceivesOwnOutput`) needs both and that config commands print nothing
(`UtConfigOutput`): what is in Cumbuffer while a command of a test runs is `LinesKept`, or
nothing if they are counted, and the message that waits is the output of the command of
the line (`Collected`). The composition matters here: the proof follows each line from
`cprintf` through the filters, Cumbuffer and the queue to the runner.

`CliHistory_proofs`, for any finite number of cells, any texts and a limit from two on: `TypeCorrect`
(`TypeOK`), `BrowsingIsSoundHolds` (`BrowsingIsSound`), `ListIsSoundHolds` (`ListIsSound`)
and `ListImplementsHistory` (`IsHistory`, the refinement of `History`). The entry browsed could be the one
the limit evicts; that it is not needs the list to be sound where eviction cuts it. The
invariant: every pointer is answered by one that points back, only the ends have none, as long as the history
counts two entries its ends differ, and the live cells are one chain: there is a sequence
without repetition from `first` to last along `next`. The walk along `next` is a recursive
function; that it yields this chain is shown by the least place at which the two would differ.
Each key then adds to the chain, cuts it or leaves it, as the abstract history does with its entries.

`TreeBuild_proofs`, for every program, any number of calls and of slots: `NegationsMirror`
(`NegationMirrors`), `PipesEverywhereOnce` (`PipeEverywhereOnce`) and `BatchesGoUp` (`BatchGoesUp`), from the
invariant `TreeIsBuilt`. A negation holds a copy of the options of its param, so that a param used in
one place can be come by in two; the invariant therefore has where negations are (`NegationOnce`,
`NegationCopies`), what may be an option of what (`Shape`), that every parent has its param as an option
(`ParentsLead`) and that all edges but those into the pipe's own options, out of negations and of recursive params to themselves lead to
a param of higher rank (`Ranked`): this is why the walk of `libcli_init_done` ends and the number of ways to
a param is defined. For the pipe: of the params with p below them that have not one way, the one of lowest rank
has one user, which has one way (`OneWay`). For the batch, without
regard to handlers: what a param in the batch is below is in the batch where it is used in one place (`BatchClosed`). A param
registered above one in the batch would be its second user, because the batch lies below config
(`NotBelow`); and from a param outside of the batch nothing leads to the tail but over one
with two users (`TailIsBuilding`). The sets reached and the sums are recursive functions over sets; that they
are solutions of their recursion is shown once for any ranked domain (`RankRecursion`). `TreeBuildAssumption` has, for these proofs, that params
of the program, of the library and negations are different objects, finitely many.

Named assumptions of the modules came with these proofs: the universal hooks are
children of the root of the tree (`libcli_build_default_cmdtree`), no character of the prompt is a NUL,
`IntervalAssumption`: the interval of a refresh is a leaf (`cmd_tree_construct_filter_subtree`),
`FilterAssumption` of `CmdTree`: a refresh follows a pipe and nothing else, and its interval is its one option and
nobody else's (`cmd_tree_construct_filter_subtree`), `RepeatAssumption`: only a leaf is
an option of its own (`libcli_param_recursive`), and `CallbackAssumption`: the root has no
callback (`libcli_build_default_cmdtree`).

Only model-checked: the properties that fail on some trees or sets of commands (section 3)
and hold in the runs, `SameInLineMode` and `RecallRepeats`, and the refinement of `Shell`. Liveness
(`RefreshUntilCtrlC`, `CallsReturn`) stays with TLC: the prover does
not reason about fairness and ENABLED.

## 5. Plan

Done: the core (cursor and tree) with its proofs, refresh with its proofs,
history, filters and the test runner; line mode with the abstract shell, the
line editor, the lists and their refinement with their proofs, the construction of the tree; proofs about
the mode, its prompt and its hooks, the line and what it spells, the flags of the filters, batches,
the list of matches, the calls, what is shown and what is recorded of them, the line editor and its terminal, the history and its refinement, the filters, what
the test runner receives and what the shell shows, and the building of the tree.

Left, in this order:

1. Proofs: line mode and its refinement of `Shell`.
2. The stores of the test runner (INT_STORE, STRING_STORE) and the raw parser.
3. The bound of Cumbuffer and of the static line buffer of `cprintf`.

## 6. Not modelled

The serializer, the old `printf_override.cpp` and the copy of the stack, which
the shell does not use; the applications, which only build trees; colours and
the listings of options; the asynchronous submission of commands, which is not
compiled. `cmdtc_parse_raw_command` runs a command of a script and returns a
result from a cursor the trigger has reset; `UtParser` has its
commands accepted or rejected instead. A validation that returns neither of its
two values is taken differently by space and by return; the models have two values.
Memory errors end the modelled behaviour (`"corrupt"`, `"crashed"`): what happens
after them is undefined.
