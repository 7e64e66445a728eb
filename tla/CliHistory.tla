------------------------------ MODULE CliHistory ------------------------------
(***************************************************************************)
(* The history of commands (KeyProcessor.cpp): a doubly linked list of     *)
(* cli_t, newest first, that the up and down keys walk through.  While the *)
(* user browses, the entry itself is the line that keys edit and that      *)
(* return submits (default_cli), and the line typed before waits in        *)
(* cli_store.  A line is abstracted to what it holds behind its prompt;    *)
(* what the command it names is, the cursor or the line-mode parser finds  *)
(* out (Runs).                                                             *)
(***************************************************************************)
EXTENDS Naturals, FiniteSets

CONSTANTS
    Cell,         \* the cli_t that malloc can return
    Main,         \* the cli_t of libcli_init, which has the cursor
    NULL,
    Texts,        \* what a line can hold
    Empty,        \* nothing
    Commands,     \* the texts a command is recorded as
    Runs,         \* Runs[t]: the command line t is, or NULL
    Exceptional,  \* the commands that are not recorded: show history, show help
    HostName,     \* the command whose handler sets the prompt
    LIMIT         \* CLI_HISTORY_LIMIT

HistoryAssumption ==
    /\ IsFiniteSet(Cell)   \* memory is
    /\ Main \notin Cell /\ NULL \notin Cell /\ Main # NULL
    /\ Empty \in Texts \ Commands
    /\ Commands \subseteq Texts
    /\ Runs \in [Texts -> Commands \cup {NULL}] /\ Runs[Empty] = NULL
    /\ Exceptional \subseteq Commands
    /\ HostName \in Commands
    /\ LIMIT \in Nat \ {0, 1}

ASSUME HistoryAssumption

VARIABLES
    cli,      \* the cli_t: header and text, next and prev
    live,     \* those allocated
    first, last, count, curr_ptr,   \* cli_history_t
    default_cli, cli_store,
    keyp_char_mode,
    ran      \* the command the last key ran with success, or NULL

history == <<first, last, count>>
vars    == <<cli, live, history, curr_ptr, default_cli, cli_store, keyp_char_mode, ran>>

Cli == [header : {"default", "host"}, text : Texts,
        next : Cell \cup {NULL}, prev : Cell \cup {NULL}]

TypeOK ==
    /\ cli \in [Cell \cup {Main} -> Cli]
    /\ live \subseteq Cell
    /\ {first, last, curr_ptr} \subseteq Cell \cup {NULL}
    /\ count \in Nat
    /\ default_cli \in Cell \cup {Main}
    /\ cli_store \in {Main, NULL}
    /\ keyp_char_mode \in BOOLEAN
    /\ ran \in Commands \cup {NULL}

\* cli_malloc and cli_set_hdr: a line with the default header.
Fresh(t) == [header |-> "default", text |-> t, next |-> NULL, prev |-> NULL]

Init ==
    /\ cli = [c \in Cell \cup {Main} |-> Fresh(Empty)]
    /\ live = {}
    /\ first = NULL /\ last = NULL /\ count = 0 /\ curr_ptr = NULL
    /\ default_cli = Main
    /\ cli_store = NULL
    /\ keyp_char_mode = TRUE
    /\ ran = NULL

-----------------------------------------------------------------------------
(* Keys that edit and browse.                                              *)

\* Typing, backspace, delete, ctrl-n: the line at hand becomes another one.
\* Keys that move within the line, and any key while browsing, leave char
\* mode first (cli_start_shell).
Edit(t) ==
    /\ cli' = [cli EXCEPT ![default_cli].text = t]
    /\ keyp_char_mode' \in {FALSE, keyp_char_mode}
    /\ ran' = NULL
    /\ UNCHANGED <<live, history, curr_ptr, default_cli, cli_store>>

\* The entry KEY_UP goes to.
OlderFromLast == IF curr_ptr = NULL THEN last ELSE cli[curr_ptr].next
Older == IF curr_ptr = NULL THEN first ELSE cli[curr_ptr].next

\* KEY_UP: the newest entry, or the next older one if there is one.
KeyUp ==
    /\ keyp_char_mode' = FALSE
    /\ ran' = NULL
    /\ IF Older = NULL
       THEN UNCHANGED <<curr_ptr, default_cli, cli_store>>
       ELSE /\ curr_ptr' = Older
            /\ default_cli' = Older
            /\ cli_store' = IF cli_store = NULL THEN default_cli ELSE cli_store
    /\ UNCHANGED <<cli, live, history>>

\* KEY_DOWN: the next newer entry, or the line that was being typed.
KeyDown ==
    /\ keyp_char_mode' = FALSE
    /\ ran' = NULL
    /\ IF curr_ptr = NULL
       THEN UNCHANGED <<curr_ptr, default_cli, cli_store>>
       ELSE LET newer == cli[curr_ptr].prev IN
              /\ curr_ptr' = newer
              /\ default_cli' = IF newer = NULL THEN cli_store ELSE newer
              /\ cli_store' = IF newer = NULL THEN NULL ELSE cli_store
    /\ UNCHANGED <<cli, live, history>>

\* ctrl-t: out of the history, and the line is reset to the default prompt.
CtrlT ==
    /\ default_cli' = IF cli_store = NULL THEN default_cli ELSE cli_store
    /\ cli_store' = NULL
    /\ curr_ptr' = IF cli_store = NULL THEN curr_ptr ELSE NULL
    /\ cli' = [cli EXCEPT ![default_cli'].header = "default", ![default_cli'].text = Empty]
    /\ keyp_char_mode' = TRUE
    /\ ran' = NULL
    /\ UNCHANGED <<live, history>>

-----------------------------------------------------------------------------
(* Return.                                                                 *)

\* The handler of the command: host-name sets the header of default_cli, which
\* empties the line.
AfterHandler(c) ==
    IF c = HostName
    THEN [cli EXCEPT ![default_cli].header = "host", ![default_cli].text = Empty]
    ELSE cli

\* cli_is_same compares the whole buffers, header included.
SameAsFirst(heap, c) == heap[first].header = "default" /\ heap[first].text = c

\* The new entry before the first one.
LinkedForward(heap, c, new) == [heap EXCEPT ![new] = [Fresh(c) EXCEPT !.next = first]]
Linked(heap, c, new) ==
    [heap EXCEPT ![new] = [Fresh(c) EXCEPT !.next = first], ![first].prev = new]

\* cli_record_cli_history of the command in a new cli_t.
Record(heap, c, new) ==
    \/ /\ c \in Exceptional                                  \* new is freed
       /\ cli' = heap
       /\ UNCHANGED <<live, history>>
    \/ /\ c \notin Exceptional /\ first = NULL
       /\ cli' = [heap EXCEPT ![new] = Fresh(c)]
       /\ live' = live \cup {new}
       /\ first' = new /\ last' = new
       /\ count' = count + 1
    \/ /\ c \notin Exceptional /\ first # NULL /\ SameAsFirst(heap, c)  \* freed
       /\ cli' = heap
       /\ UNCHANGED <<live, history>>
    \/ /\ c \notin Exceptional /\ first # NULL /\ ~SameAsFirst(heap, c)
       /\ LET evict    == count = LIMIT
              new_last == heap[last].prev
              kept     == IF evict
                          THEN [heap EXCEPT ![new_last].next = NULL, ![last] = Fresh(Empty)]
                          ELSE heap
          IN  /\ cli' = Linked(kept, c, new)
              /\ live' = (IF evict THEN live \ {last} ELSE live) \cup {new}
              /\ last' = IF evict THEN new_last ELSE last
       /\ first' = new
       /\ count' = count + 1

ToMainStored ==
    /\ default_cli' = IF curr_ptr = NULL THEN default_cli ELSE cli_store
    /\ curr_ptr' = NULL
    /\ keyp_char_mode' = TRUE
    /\ UNCHANGED cli_store

\* Behind cli_submit: the line at hand is the one typed, emptied, in char mode.
ToMain ==
    /\ default_cli' = IF curr_ptr = NULL THEN default_cli ELSE cli_store
    /\ cli_store' = IF curr_ptr = NULL THEN cli_store ELSE NULL
    /\ curr_ptr' = NULL
    /\ keyp_char_mode' = TRUE

Emptied(heap) == [heap EXCEPT ![default_cli'].text = Empty]

\* The line is empty or no command, or its command is not run to its end.
ReturnFails ==
    /\ ToMain
    /\ cli' = Emptied(cli)
    /\ ran' = NULL
    /\ UNCHANGED <<live, history>>

\* The command runs with success.
ReturnRuns ==
    LET c == Runs[cli[default_cli].text] IN
    /\ c # NULL
    /\ ToMain
    /\ \E new \in Cell \ live : Record(Emptied(AfterHandler(c)), c, new)
    /\ ran' = c

Next == \/ \E t \in Texts : Edit(t)
        \/ KeyUp \/ KeyDown \/ CtrlT
        \/ ReturnFails \/ ReturnRuns

Spec == Init /\ [][Next]_vars

-----------------------------------------------------------------------------
(* Properties.                                                             *)

\* The list from first on, as a sequence.
Nth == LET nth[k \in 1 .. Cardinality(Cell) + 1] ==
             IF k = 1 THEN first
             ELSE IF nth[k - 1] = NULL THEN NULL ELSE cli[nth[k - 1]].next
       IN  nth
Length == Cardinality({k \in DOMAIN Nth : Nth[k] # NULL})
Entries == [k \in 1 .. Length |-> cli[Nth[k]].text]
Place == IF curr_ptr = NULL THEN 0 ELSE CHOOSE k \in 1 .. Length : Nth[k] = curr_ptr

\* The list is one of exactly the allocated cells, none of them freed, and can
\* be walked both ways: prev undoes next, and last is where the walk ends.  It
\* begins with the command that ran, unless that is never recorded.
ListIsSound ==
    /\ {Nth[k] : k \in 1 .. Length} = live
    /\ Cardinality(live) = Length
    /\ Length > 0 => Nth[Length] = last /\ cli[first].prev = NULL
    /\ \A k \in 1 .. Length - 1 : cli[Nth[k + 1]].prev = Nth[k]
    /\ ran # NULL /\ ran \notin Exceptional => cli[first].text = ran

\* Keys find the line they need: while browsing, default_cli is an entry of
\* the list (never one that was freed), the typed line is in cli_store, and
\* char mode, which needs the cursor entries do not have, is off.  Otherwise
\* the line at hand is the one with the cursor.
BrowsingIsSound ==
    IF curr_ptr = NULL
    THEN default_cli = Main /\ cli_store = NULL
    ELSE /\ default_cli = curr_ptr /\ curr_ptr \in live
         /\ cli_store = Main
         /\ ~keyp_char_mode

\* The list implements the abstract history.
Abstract == INSTANCE History WITH entries <- Entries, place <- Place
IsHistory == Abstract!Spec

\* "CLI_HISTORY_LIMIT 50" (cli_const.h): the history holds no more entries.
HistoryIsBounded == Length <= LIMIT

\* "CLI history is maintained" (README.md): only a command that runs changes
\* the history, looking at it does not.
EntriesKept == [][ran' = NULL => Entries' = Entries]_vars

\* "set/unset new console name" (show help): the command that sets the prompt
\* sets it where the user types, also when it is taken from the history.
HostNameSetsPrompt == ran = HostName => cli[Main].header = "host"
=============================================================================
