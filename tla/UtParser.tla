------------------------------- MODULE UtParser -------------------------------
(***************************************************************************)
(* The test runner (ut_parser.cpp) on top of Filters: it reads the lines   *)
(* of a script, runs the commands in them, takes the output of a show      *)
(* command out of the message queue and compares it with patterns.  The    *)
(* script is any sequence of lines.  Runner, commands and filters are one  *)
(* thread; the queue outlives the process.                                 *)
(***************************************************************************)
EXTENDS Filters

CONSTANTS
    ScriptKinds,   \* the kinds of commands scripts run
    ConfigPrints,  \* config commands print
    MaxResults,    \* bound on the patterns a test case compares
    MaxCrashes     \* bound on the crashes

UtAssumption ==
    /\ ScriptKinds \subseteq Kinds
    /\ ConfigPrints \in BOOLEAN
    /\ MaxResults \in Nat
    /\ MaxCrashes \in Nat

ASSUME UtAssumption

VARIABLES
    step,      \* the shell's prompt, or where run_test_case is
    tc_no,     \* the user asked for one test case of the file
    accepted,  \* the command of the line was run, not rejected by the parser
    ut_parser_recv_buff,
    result_head,   \* the verdicts of the test case
    crashes

runner  == <<step, tc_no, accepted, ut_parser_recv_buff, result_head>>
ut_vars == <<vars, runner, crashes>>

UtTypeOK ==
    /\ TypeOK
    /\ step \in {"shell", "read", "cmd", "receive"}
    /\ tc_no \in BOOLEAN
    /\ accepted \in BOOLEAN
    /\ ut_parser_recv_buff \in Seq(Output)
    /\ result_head \in Seq(BOOLEAN) /\ Len(result_head) <= MaxResults
    /\ crashes \in 0 .. MaxCrashes

UtInit ==
    /\ Init
    /\ step = "shell" /\ tc_no = FALSE /\ accepted = FALSE
    /\ ut_parser_recv_buff = << >> /\ result_head = << >>
    /\ crashes = 0

-----------------------------------------------------------------------------
(* The shell.                                                              *)

\* A command of the user.
ShellCommand ==
    /\ step = "shell"
    /\ \/ \E kind \in Kinds, fs \in Chains : Submit(kind, fs)
       \/ Run
    /\ UNCHANGED <<runner, crashes>>

\* run ut <file> <test case>
RunTest ==
    /\ step = "shell" /\ ~running
    /\ step' = "read"
    /\ tc_no' \in BOOLEAN
    /\ result_head' = << >>
    /\ UNCHANGED <<vars, accepted, ut_parser_recv_buff, crashes>>

-----------------------------------------------------------------------------
(* The lines of a script.                                                  *)

\* The run is over: TC_RUNNING is reset.
EndOfRunInTest == step' = "shell" /\ UNCHANGED TC_RUNNING
EndOfRun == step' = "shell" /\ TC_RUNNING' = FALSE

Reading == step = "read" /\ UNCHANGED <<tc_no, crashes>>
NotTC   == <<command, running, printed, context, out>>   \* vars without TC_RUNNING

\* :TESTCASE-BEGIN:
TestcaseBegin ==
    /\ Reading
    /\ TC_RUNNING' = TRUE
    /\ UNCHANGED <<NotTC, step, accepted, ut_parser_recv_buff, result_head>>

\* :TESTCASE-END: prints the verdicts; it ends the run of a single test case.
TestcaseEnd ==
    /\ Reading
    /\ result_head' = << >>
    /\ IF tc_no /\ TC_RUNNING THEN EndOfRun ELSE UNCHANGED <<step, TC_RUNNING>>
    /\ UNCHANGED <<NotTC, accepted, ut_parser_recv_buff>>

\* :ABORT:, or the end of the file.
Abort ==
    /\ Reading
    /\ EndOfRun
    /\ UNCHANGED <<NotTC, accepted, ut_parser_recv_buff, result_head>>

\* After a command the runner takes the output of a show command.
AfterCommandOfOne(show) == step' = IF show /\ TC_RUNNING /\ tc_no THEN "receive" ELSE "read"
AfterCommand(show) == step' = IF show /\ TC_RUNNING THEN "receive" ELSE "read"

\* :CMD: with a command the parser accepts ...
Command(kind, fs) ==
    /\ Reading
    /\ Submit(kind, fs)
    /\ step' = "cmd"
    /\ accepted' = TRUE
    /\ UNCHANGED <<ut_parser_recv_buff, result_head>>

\* ... or rejects.
CommandRejected(show) ==
    /\ Reading
    /\ AfterCommand(show)
    /\ accepted' = FALSE
    /\ UNCHANGED <<vars, ut_parser_recv_buff, result_head>>

\* The command runs.
CommandRuns ==
    /\ step = "cmd"
    /\ \/ /\ command.kind # "config" \/ ConfigPrints
          /\ \E t \in Texts : cprintf(t)
          /\ UNCHANGED step
       \/ /\ EndOperational \/ EndConfig
          /\ AfterCommand(command.kind = "show")
    /\ UNCHANGED <<tc_no, accepted, ut_parser_recv_buff, result_head, crashes>>

\* The queue is read without waiting (O_NONBLOCK).
Receive ==
    /\ step = "receive"
    /\ \/ /\ UT_PARSER_MSG_Q # << >>
          /\ ut_parser_recv_buff' = Head(UT_PARSER_MSG_Q)
          /\ UT_PARSER_MSG_Q' = Tail(UT_PARSER_MSG_Q)
       \/ /\ UT_PARSER_MSG_Q = << >>
          /\ ut_parser_recv_buff' = << >>
          /\ UNCHANGED UT_PARSER_MSG_Q
    /\ step' = "read"
    /\ UNCHANGED <<command, running, printed, context, screen, files, Cumbuffer, TC_RUNNING,
                   tc_no, accepted, result_head, crashes>>

\* pattern_match of what was received.
Found(p) == \E l \in ToSet(ut_parser_recv_buff) : l.text \in Matches[p]

\* :PATTERN-MATCH: and :PATTERN-NOT-MATCH: append a verdict.
Compare(p, match) ==
    /\ Reading
    /\ Len(result_head) < MaxResults
    /\ result_head' = Append(result_head, Found(p) = match)
    /\ UNCHANGED <<vars, step, accepted, ut_parser_recv_buff>>

\* :GREP: keeps the lines of what was received that a pattern matches.
GrepReceived(p) ==
    /\ Reading
    /\ ut_parser_recv_buff' = SelectSeq(ut_parser_recv_buff, LAMBDA l : l.text \in Matches[p])
    /\ UNCHANGED <<vars, step, accepted, result_head>>

ScriptLine ==
    \/ TestcaseBegin \/ TestcaseEnd \/ Abort
    \/ \E kind \in ScriptKinds, fs \in Chains : Command(kind, fs)
    \/ \E show \in BOOLEAN : CommandRejected(show)
    \/ CommandRuns
    \/ Receive
    \/ \E p \in DOMAIN Matches :
         (\E match \in BOOLEAN : Compare(p, match)) \/ GrepReceived(p)

\* The process dies and is started again.  ut_parser_init opens the queue that
\* is there; what stdio had not written of a file is not told from what it had.
Crash ==
    /\ crashes < MaxCrashes
    /\ crashes' = crashes + 1
    /\ command' = NoCommand /\ running' = FALSE /\ printed' = << >>
    /\ filter_array' = << >> /\ count_lines' = 0
    /\ count_filter_present' = FALSE /\ fileptr' = NULL
    /\ screen' = << >> /\ Cumbuffer' = << >> /\ TC_RUNNING' = FALSE
    /\ step' = "shell" /\ tc_no' = FALSE /\ accepted' = FALSE
    /\ ut_parser_recv_buff' = << >> /\ result_head' = << >>
    /\ UNCHANGED <<files, UT_PARSER_MSG_Q>>

UtNext == ShellCommand \/ RunTest \/ ScriptLine \/ Crash

UtSpec == UtInit /\ [][UtNext]_ut_vars

-----------------------------------------------------------------------------
(* Properties.                                                             *)

\* The output of the command of the line, as the runner is to see it (a count
\* of no line prints nothing, see CountIsShown).
OwnOutput ==
    IF ~accepted \/ (~SomePasses /\ Counted(command.filters)) THEN << >> ELSE Result

\* "push all the show output data to the TC infra" (filters.cpp): what the
\* runner receives after a show command is the output of that command, all of
\* it, or nothing when it is too long for a message.
OwnOutputReceived ==
    Receive => \/ ut_parser_recv_buff' = OwnOutput
               \/ Len(OwnOutput) >= CUM_BUFFER_MAX_SIZE /\ ut_parser_recv_buff' = << >>
ReceivesOwnOutput == [][crashes = 0 => OwnOutputReceived]_ut_vars

\* The same after a crash as well, when a message may be left.
OldMessagesIgnored == [][OwnOutputReceived]_ut_vars

\* Between two lines of a script, and at the prompt, no message waits, unless a
\* process that died left it.
QueueIsDrained == step \in {"shell", "read"} /\ crashes = 0 => UT_PARSER_MSG_Q = << >>

\* A test never takes the output of the user's own commands: at the prompt it
\* goes through the filters to the screen or to the file, however the last
\* run ended.
ShellOutputIsShown ==
    [][(EndOperational \/ EndConfig) /\ step = "shell" /\ SomePasses =>
          IF SavedTo = {} THEN screen' = Result
          ELSE screen' = << >> /\ \A f \in SavedTo : files'[f] = Result]_ut_vars
=============================================================================
