------------------------------- MODULE Refresh -------------------------------
(***************************************************************************)
(* A show command with "| refresh <interval>" and the Ctrl-C that ends it. *)
(* cmd_tree_trigger_cli (CmdTreeCursor.cpp) runs the command in a loop,    *)
(* sleeping between two runs, until the flag CtrlC_refresh_terminate is    *)
(* set.  ctrlC_signal_handler (KeyProcessor.cpp) sets it.  The process has *)
(* one thread: the handler interrupts it between any two of its steps, and *)
(* runs to its end before the thread goes on (signal() blocks SIGINT while *)
(* the handler runs).  Both print with cprintf (filters.cpp), which holds  *)
(* a spin lock.                                                            *)
(***************************************************************************)
EXTENDS Naturals

CONSTANTS Commands,    \* the commands typed: is_refresh and refresh_val of the cursor
          Lines,       \* a callback makes at most so many cprintf calls
          MaxSignals   \* bound on the number of Ctrl-C

RefreshAssumption ==
    /\ \A c \in Commands : /\ c.is_refresh \in BOOLEAN
                           /\ c.refresh_val \in Nat
    /\ Lines \in Nat
    /\ MaxSignals \in Nat

ASSUME RefreshAssumption

VARIABLES
    pc,       \* where the thread is
    cmd,      \* the command submitted last
    todo,     \* cprintf calls left in the callback that runs
    loop,     \* the callback was called by the refresh loop
    is_refresh_in_progress,
    CtrlC_refresh_terminate,
    cprintf_spinlock,   \* the thread holds it
    app_ctrlC_signal_handler,  \* the application registered one before the shell starts
    handler,  \* where ctrlC_signal_handler is
    outcome,  \* what the last Ctrl-C came to
    signals,  \* Ctrl-C so far
    pressed   \* history: a Ctrl-C was handled since the loop began

thread      == <<pc, cmd, todo, loop, cprintf_spinlock>>
flags       == <<is_refresh_in_progress, CtrlC_refresh_terminate>>
signal_vars == <<app_ctrlC_signal_handler, handler, outcome, signals>>
vars        == <<thread, flags, signal_vars, pressed>>

Places == {"shell", "begin", "run", "print", "sleep", "check", "clear", "exited"}

TypeOK ==
    /\ pc \in Places
    /\ cmd \in Commands
    /\ todo \in 0 .. Lines
    /\ loop \in BOOLEAN
    /\ is_refresh_in_progress \in BOOLEAN
    /\ CtrlC_refresh_terminate \in BOOLEAN
    /\ cprintf_spinlock \in BOOLEAN
    /\ app_ctrlC_signal_handler \in BOOLEAN
    /\ handler \in {"idle", "print", "decide"}
    /\ outcome \in {"none", "refresh", "app", "exit"}
    /\ signals \in 0 .. MaxSignals
    /\ pressed \in BOOLEAN

Init ==
    /\ pc = "shell"
    /\ cmd \in Commands
    /\ todo = 0
    /\ loop = FALSE
    /\ is_refresh_in_progress = FALSE
    /\ CtrlC_refresh_terminate = FALSE
    /\ cprintf_spinlock = FALSE
    /\ app_ctrlC_signal_handler \in BOOLEAN
    /\ handler = "idle"
    /\ outcome = "none"
    /\ signals = 0
    /\ pressed = FALSE

-----------------------------------------------------------------------------
(* The thread.                                                             *)

At(place) == pc = place /\ handler = "idle"

\* The user submits a command: cmd_tree_trigger_cli is called, and starts a
\* refresh unless one is in progress.  Otherwise it calls the callback, which
\* prints some lines.
Trigger(c) ==
    /\ At("shell")
    /\ cmd' = c
    /\ \/ /\ c.is_refresh /\ ~is_refresh_in_progress
          /\ pc' = "begin"
          /\ UNCHANGED todo
       \/ /\ ~(c.is_refresh /\ ~is_refresh_in_progress)
          /\ pc' = "run"
          /\ todo' \in 0 .. Lines
    /\ UNCHANGED <<loop, cprintf_spinlock, flags, signal_vars, pressed>>

BeginUnmarked ==
    /\ At("begin")
    /\ loop' = TRUE
    /\ pressed' = FALSE
    /\ pc' = "run"
    /\ todo' \in 0 .. Lines
    /\ UNCHANGED <<cmd, cprintf_spinlock, flags, signal_vars>>

\* The refresh begins; the nested call finds is_refresh_in_progress set and
\* calls the callback.
Begin ==
    /\ At("begin")
    /\ is_refresh_in_progress' = TRUE
    /\ loop' = TRUE
    /\ pressed' = FALSE
    /\ pc' = "run"
    /\ todo' \in 0 .. Lines
    /\ UNCHANGED <<cmd, cprintf_spinlock, CtrlC_refresh_terminate, signal_vars>>


\* cprintf takes the lock ...
PrintLine ==
    /\ At("run") /\ todo > 0
    /\ cprintf_spinlock' = TRUE
    /\ pc' = "print"
    /\ UNCHANGED <<cmd, todo, loop, flags, signal_vars, pressed>>

\* ... and gives it back when the line is rendered.
LinePrinted ==
    /\ At("print")
    /\ cprintf_spinlock' = FALSE
    /\ todo' = todo - 1
    /\ pc' = "run"
    /\ UNCHANGED <<cmd, loop, flags, signal_vars, pressed>>


\* The callback returns.  The loop sleeps, unless refresh_val is 0.
Returned ==
    /\ At("run") /\ todo = 0
    /\ IF loop /\ cmd.refresh_val > 0
       THEN pc' = "sleep" /\ UNCHANGED loop
       ELSE pc' = "shell" /\ loop' = FALSE
    /\ UNCHANGED <<cmd, todo, cprintf_spinlock, flags, signal_vars, pressed>>

WakeForgets ==
    /\ At("sleep")
    /\ pc' = "check"
    /\ CtrlC_refresh_terminate' = FALSE
    /\ UNCHANGED <<cmd, todo, loop, cprintf_spinlock, is_refresh_in_progress, signal_vars, pressed>>

\* The interval is over, or a signal cut it short.
Wake ==
    /\ At("sleep")
    /\ pc' = "check"
    /\ UNCHANGED <<cmd, todo, loop, cprintf_spinlock, flags, signal_vars, pressed>>

CheckThenRun ==
    /\ At("check")
    /\ CtrlC_refresh_terminate' = FALSE
    /\ pc' = "run"
    /\ todo' \in 0 .. Lines
    /\ UNCHANGED <<cmd, loop, cprintf_spinlock, is_refresh_in_progress, signal_vars, pressed>>

\* The flag is read: the next run, or the first of the two assignments that
\* end the refresh.
Check ==
    /\ At("check")
    /\ \/ /\ CtrlC_refresh_terminate
          /\ CtrlC_refresh_terminate' = FALSE
          /\ pc' = "clear"
          /\ UNCHANGED todo
       \/ /\ ~CtrlC_refresh_terminate
          /\ pc' = "run"
          /\ todo' \in 0 .. Lines
          /\ UNCHANGED CtrlC_refresh_terminate
    /\ UNCHANGED <<cmd, loop, cprintf_spinlock, is_refresh_in_progress, signal_vars, pressed>>

\* The second assignment, and the loop is left.
Clear ==
    /\ At("clear")
    /\ is_refresh_in_progress' = FALSE
    /\ loop' = FALSE
    /\ pc' = "shell"
    /\ UNCHANGED <<cmd, todo, cprintf_spinlock, CtrlC_refresh_terminate, signal_vars, pressed>>

Step == Begin \/ PrintLine \/ LinePrinted \/ Returned \/ Wake \/ Check \/ Clear

-----------------------------------------------------------------------------
(* SIGINT.                                                                 *)

\* Ctrl-C is pressed: the thread is interrupted where it is.
CtrlC ==
    /\ handler = "idle" /\ pc # "exited" /\ signals < MaxSignals
    /\ handler' = "print"
    /\ outcome' = "none"
    /\ signals' = signals + 1
    /\ UNCHANGED <<thread, flags, app_ctrlC_signal_handler, pressed>>

\* The handler's cprintf: it needs the lock, which the thread it interrupted
\* may hold.
HandlerPrint ==
    /\ handler = "print" /\ ~cprintf_spinlock
    /\ handler' = "decide"
    /\ UNCHANGED <<thread, flags, app_ctrlC_signal_handler, outcome, signals, pressed>>

\* libcli_terminate_refresh; without a refresh the application's handler is
\* called, or the process exits.
HandlerDecide ==
    /\ handler = "decide"
    /\ handler' = "idle"
    /\ pressed' = TRUE
    /\ \/ /\ is_refresh_in_progress
          /\ CtrlC_refresh_terminate' = TRUE
          /\ outcome' = "refresh"
          /\ UNCHANGED pc
       \/ /\ ~is_refresh_in_progress /\ app_ctrlC_signal_handler
          /\ outcome' = "app"
          /\ UNCHANGED <<pc, CtrlC_refresh_terminate>>
       \/ /\ ~is_refresh_in_progress /\ ~app_ctrlC_signal_handler
          /\ outcome' = "exit"
          /\ pc' = "exited"
          /\ UNCHANGED CtrlC_refresh_terminate
    /\ UNCHANGED <<cmd, todo, loop, cprintf_spinlock, is_refresh_in_progress, signals,
                   app_ctrlC_signal_handler>>

Handler == HandlerPrint \/ HandlerDecide

Next == \/ \E c \in Commands : Trigger(c)
        \/ Step
        \/ CtrlC
        \/ Handler

\* The scheduler runs the process, a callback prints finitely many lines and
\* returns, a sleep ends, and a handler that can go on does.  Nothing makes
\* the user type a command or press Ctrl-C.
Spec == /\ Init
        /\ [][Next]_vars
        /\ WF_vars(Step)
        /\ WF_vars(Handler)

-----------------------------------------------------------------------------
(* Properties.                                                             *)

\* The handler spins on the lock of the thread it interrupted.
Stuck == handler = "print" /\ cprintf_spinlock

\* The flag by which the handler tells a refresh from an ordinary command is
\* set whenever the loop runs.
FlagInLoop == loop => is_refresh_in_progress

\* Once Ctrl-C was handled no further run of the command begins: the flag the
\* handler sets is read between every two runs, after the sleep it cuts short.
NoRunAfterCtrlC == [][pc = "check" /\ pc' = "run" => ~pressed]_vars

\* Ctrl-C during a refresh is for the refresh: it neither calls the
\* application's handler nor ends the process.
CtrlCIsForRefresh ==
    [][HandlerDecide /\ loop => outcome' = "refresh"]_vars

\* A refresh that nobody ended runs its command again and again; one that
\* Ctrl-C was pressed in comes back to the shell (unless the handler is stuck,
\* see CtrlCIsHandled).
RefreshUntilCtrlC ==
    /\ (pc = "sleep" /\ ~CtrlC_refresh_terminate) ~> (pc = "run" \/ pressed \/ Stuck)
    /\ (loop /\ pressed) ~> (pc = "shell" \/ Stuck)

\* "Refresh the command repeatedly" (CmdTree.cpp): the loop ends only if a
\* Ctrl-C was handled since it began.
RefreshEndsByCtrlC == [][loop /\ ~loop' => pressed]_vars

\* "Public API to allow application to register ctrlC handler": every Ctrl-C
\* is handled.
CtrlCIsHandled == handler = "print" ~> handler # "print"

\* The same: at the prompt, where no refresh runs, the application's handler
\* is called, or the process exits.
CtrlCAtPrompt == [][HandlerDecide /\ pc = "shell" => outcome' \in {"app", "exit"}]_vars
=============================================================================
