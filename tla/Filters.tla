------------------------------- MODULE Filters -------------------------------
(***************************************************************************)
(* The output of commands (filters.cpp): what the application prints with  *)
(* cprintf goes line by line through the filters typed behind the command, *)
(* to the screen, to a file, or, while a test case runs, to Cumbuffer,     *)
(* which is sent to the test runner when the command ends.                 *)
(***************************************************************************)
EXTENDS Naturals, Sequences, SequencesExt

CONSTANTS
    Texts,       \* the lines applications print
    Matches,     \* Matches[p]: the lines that pattern p matches
    BadRegex,    \* patterns regcomp rejects
    Chains,      \* the chains of filters typed, as the TLVs SetFilterContext is given
    FileNames,
    NULL,
    MaxLines,    \* bound on the lines a command prints
    CUM_BUFFER_MAX_SIZE   \* in lines

\* A filter is the TLV of its last word: leaf_id "none" for a keyword.
LeafIds == {"none", "incl-pattern", "excl-pattern", "grep-pattern", "sfile-name"}

\* count, the name of a file and the other keywords lead to no further filter
\* (CmdTree.cpp): they are the last of a chain.
FilterAssumption ==
    /\ \A p \in DOMAIN Matches : Matches[p] \subseteq Texts
    /\ BadRegex \subseteq DOMAIN Matches
    /\ \A fs \in Chains : fs \in Seq(ToSet(fs)) /\ \A i \in DOMAIN fs :
         /\ fs[i].leaf_id \in LeafIds
         /\ fs[i].leaf_id = "sfile-name" => fs[i].value \in FileNames
         /\ fs[i].leaf_id \notin {"none", "sfile-name"} => fs[i].value \in DOMAIN Matches
         /\ fs[i].leaf_id \in {"none", "sfile-name"} => i = Len(fs)
    /\ << >> \in Chains
    /\ NULL \notin FileNames
    /\ MaxLines \in Nat
    /\ CUM_BUFFER_MAX_SIZE \in Nat

ASSUME FilterAssumption

VARIABLES
    command,     \* kind and filters of the command that runs, or ran last
    running,
    printed,     \* what it printed so far
    filter_array, count_lines, count_filter_present, fileptr,
    screen,      \* what the user saw of it
    files,
    Cumbuffer,
    TC_RUNNING,  \* a test case runs (ut_parser.cpp)
    UT_PARSER_MSG_Q   \* the POSIX queue between the two

context == <<filter_array, count_lines, count_filter_present, fileptr>>
out     == <<screen, files, Cumbuffer, UT_PARSER_MSG_Q>>
vars    == <<command, running, printed, context, out, TC_RUNNING>>

\* What is printed: a line of the application, or the total of a count.
Line(t)  == [text |-> t, total |-> 0]
Total(n) == [text |-> "lines", total |-> n]
Output   == {Line(t) : t \in Texts} \cup {Total(n) : n \in 0 .. MaxLines}

Kinds == {"show", "oper", "config"}

TypeOK ==
    /\ command \in [kind : Kinds, filters : Chains]
    /\ running \in BOOLEAN
    /\ printed \in Seq(Texts) /\ Len(printed) <= MaxLines
    /\ filter_array \in Chains
    /\ count_lines \in 0 .. MaxLines
    /\ count_filter_present \in BOOLEAN
    /\ fileptr \in FileNames \cup {NULL}
    /\ screen \in Seq(Output)
    /\ files \in [FileNames -> Seq(Output)]
    /\ Cumbuffer \in Seq(Output)
    /\ TC_RUNNING \in BOOLEAN
    /\ UT_PARSER_MSG_Q \in Seq(Seq(Output)) /\ Len(UT_PARSER_MSG_Q) <= 1

Old       == [f \in FileNames |-> <<Line(CHOOSE t \in Texts : TRUE)>>]
NoCommand == [kind |-> "config", filters |-> << >>]

\* The process starts; files may be there already.
Init ==
    /\ command = NoCommand
    /\ running = FALSE
    /\ printed = << >>
    /\ filter_array = << >> /\ count_lines = 0
    /\ count_filter_present = FALSE /\ fileptr = NULL
    /\ screen = << >>
    /\ files = Old
    /\ Cumbuffer = << >>
    /\ TC_RUNNING = FALSE
    /\ UT_PARSER_MSG_Q = << >>

-----------------------------------------------------------------------------
(* cprintf.                                                                *)

\* What one filter does with a line that came so far.  count looks at the
\* value alone, whatever the leaf; a line that comes to it passed all patterns
\* before it.
IsPattern(f) == f.leaf_id \in {"incl-pattern", "excl-pattern", "grep-pattern"}
LetsThrough(line, f) ==
    CASE f.leaf_id = "incl-pattern" -> line \in Matches[f.value]
      [] f.leaf_id = "excl-pattern" -> line \notin Matches[f.value]
      [] f.leaf_id = "grep-pattern" -> f.value \notin BadRegex /\ line \in Matches[f.value]

Drop(acc)      == [acc EXCEPT !.dropped = TRUE]
CountLine(acc) == [acc EXCEPT !.present = TRUE, !.count = @ + 1]
Open(acc, f)   == [acc EXCEPT !.file = f, !.opened = TRUE]
Apply(line, acc, f) ==
    IF acc.dropped \/ (IsPattern(f) /\ LetsThrough(line, f)) THEN acc
    ELSE IF IsPattern(f) THEN Drop(acc)
    ELSE IF f.value = "count" THEN CountLine(acc)
    ELSE IF f.leaf_id = "sfile-name" /\ acc.file = NULL THEN Open(acc, f.value)
    ELSE acc

\* The loop over filter_array.
Through(line) ==
    FoldLeft(LAMBDA acc, f : Apply(line, acc, f),
             [dropped |-> FALSE, present |-> count_filter_present, count |-> count_lines,
              file |-> fileptr, opened |-> FALSE],
             filter_array)

\* render_line
Render(lines, file, disk) ==
    IF TC_RUNNING
    THEN /\ Cumbuffer' = Cumbuffer \o lines
         /\ files' = disk
         /\ UNCHANGED screen
    ELSE IF file # NULL
    THEN /\ files' = [disk EXCEPT ![file] = @ \o lines]
         /\ UNCHANGED <<screen, Cumbuffer>>
    ELSE /\ screen' = screen \o lines
         /\ files' = disk
         /\ UNCHANGED Cumbuffer

\* The application prints a line.  A Cumbuffer that is full would be written
\* past its end: nothing is modelled from there on.
cprintf(line) ==
    /\ running
    /\ Len(printed) < MaxLines
    /\ TC_RUNNING => Len(Cumbuffer) < CUM_BUFFER_MAX_SIZE
    /\ printed' = Append(printed, line)
    /\ LET acc  == Through(line)
           disk == IF acc.opened THEN [files EXCEPT ![acc.file] = << >>] ELSE files  \* "w+"
       IN  /\ count_lines' = acc.count
           /\ count_filter_present' = acc.present
           /\ fileptr' = acc.file
           /\ Render(IF acc.dropped \/ acc.present THEN << >> ELSE <<Line(line)>>,
                     acc.file, disk)
    /\ UNCHANGED <<command, running, filter_array, TC_RUNNING, UT_PARSER_MSG_Q>>

-----------------------------------------------------------------------------
(* The command around it (cmd_tree_trigger_cli).                           *)

\* The callback is called.  Only an operational command with filters sets the
\* filter context, and with it empties Cumbuffer.
Submit(kind, fs) ==
    /\ ~running
    /\ kind = "config" => fs = << >>
    /\ command' = [kind |-> kind, filters |-> fs]
    /\ running' = TRUE
    /\ printed' = << >>
    /\ screen' = << >>
    /\ IF fs # << >>
       THEN filter_array' = fs /\ Cumbuffer' = << >>
       ELSE UNCHANGED <<filter_array, Cumbuffer>>
    /\ UNCHANGED <<count_lines, count_filter_present, fileptr, files, TC_RUNNING,
                   UT_PARSER_MSG_Q>>

\* A message fits into the queue if it is empty, and into a message if there
\* is room for the byte that ends it.
CanSend(buffer) == UT_PARSER_MSG_Q = << >> /\ Len(buffer) < CUM_BUFFER_MAX_SIZE

\* What was collected for the runner is sent, whether or not it can be.
PushKeeping(buffer) ==
    /\ UT_PARSER_MSG_Q' = IF CanSend(buffer) THEN <<buffer>> ELSE UT_PARSER_MSG_Q
    /\ Cumbuffer' = buffer
Push(buffer) ==
    /\ UT_PARSER_MSG_Q' = IF CanSend(buffer) THEN <<buffer>> ELSE UT_PARSER_MSG_Q
    /\ Cumbuffer' = << >>

\* The filters are forgotten.
UnsetButCount ==
    /\ filter_array' = << >>
    /\ count_filter_present' = FALSE
    /\ fileptr' = NULL
    /\ UNCHANGED count_lines
UnsetButFile ==
    /\ filter_array' = << >>
    /\ count_lines' = 0
    /\ count_filter_present' = FALSE
    /\ UNCHANGED fileptr
Unset ==
    /\ filter_array' = << >>
    /\ count_lines' = 0
    /\ count_filter_present' = FALSE
    /\ fileptr' = NULL

\* The callback of an operational command returned: UnsetFilterContext.
EndOperational ==
    /\ running /\ command.kind # "config"
    /\ running' = FALSE
    /\ LET total  == IF count_filter_present THEN <<Total(count_lines)>> ELSE << >>
       IN  IF TC_RUNNING
           THEN Push(Cumbuffer \o total) /\ UNCHANGED screen
           ELSE /\ screen' = screen \o total
                /\ UNCHANGED <<Cumbuffer, UT_PARSER_MSG_Q>>
    /\ Unset
    /\ UNCHANGED <<command, printed, files, TC_RUNNING>>

\* The callback of a config command returned.
EndConfig ==
    /\ running /\ command.kind = "config"
    /\ running' = FALSE
    /\ UNCHANGED <<command, printed, context, out, TC_RUNNING>>

Run == (\E t \in Texts : cprintf(t)) \/ EndOperational \/ EndConfig

Next == (\E kind \in Kinds, fs \in Chains : Submit(kind, fs)) \/ Run

Spec == Init /\ [][Next]_vars

-----------------------------------------------------------------------------
(* Properties.                                                             *)

\* What a chain of filters means: each one works on what the one before it
\* lets through.
Passing(f) ==
    CASE f.leaf_id = "incl-pattern" -> Matches[f.value]
      [] f.leaf_id = "excl-pattern" -> Texts \ Matches[f.value]
      [] f.leaf_id = "grep-pattern" -> IF f.value \in BadRegex THEN {} ELSE Matches[f.value]
      [] OTHER -> Texts
Counts(f) == f.leaf_id = "none" /\ f.value = "count"
Only(lines, texts) ==
    FoldLeft(LAMBDA kept, l : IF l.text \in texts THEN Append(kept, l) ELSE kept, << >>, lines)
Filtered(lines, f) ==
    CASE Counts(f) -> <<Total(Len(lines))>>
      [] IsPattern(f) -> Only(lines, Passing(f))
      [] OTHER -> lines
Pipeline(fs, lines) == FoldLeft(Filtered, lines, fs)

Lines      == [i \in DOMAIN printed |-> Line(printed[i])]
Result     == Pipeline(command.filters, Lines)
SavedTo    == {f.value : f \in {g \in ToSet(command.filters) : g.leaf_id = "sfile-name"}}
Counted(fs) == \E f \in ToSet(fs) : Counts(f)

\* A line passes all the patterns.
SomePasses == \E t \in ToSet(printed) : \A f \in ToSet(command.filters) : t \in Passing(f)

\* A command ended and its output was for the user.
Shown == ~running /\ ~TC_RUNNING

\* If a line passes the patterns, then what the user sees, or finds in the
\* file, is what the chain of filters means: the lines in their order, no line
\* of the command before, and the right total.
OutputIsFiltered ==
    Shown /\ SomePasses =>
        IF SavedTo = {} THEN screen = Result
        ELSE screen = << >> /\ \A f \in SavedTo : files[f] = Result

\* Between two commands no filter of the last one is left.
ContextIsReset ==
    ~running => /\ filter_array = << >> /\ count_lines = 0
                /\ ~count_filter_present /\ fileptr = NULL

\* "count lines" (CmdTree.cpp): a count shows its total.
CountIsShown == Shown /\ Counted(command.filters) => screen = Result

\* "save to a file" (CmdTree.cpp): the file holds the output of the command.
FileIsOutput == Shown => \A f \in SavedTo : files[f] = Result
=============================================================================
