---------------------------- MODULE Refresh_proofs ----------------------------
(***************************************************************************)
(* What holds of Refresh for every set of commands, with or without an     *)
(* interval, for callbacks that print any number of lines and for any      *)
(* number of Ctrl-C.                                                       *)
(***************************************************************************)
EXTENDS Refresh, TLAPS

\* A run that follows a look at the flag belongs to the loop, and so do the
\* sleep, the look itself and the assignments that end the refresh.
InLoop == pc \in {"sleep", "check", "clear"} => loop

\* No refresh is under way at the prompt and when it is only about to begin.
OutOfLoop == pc \in {"shell", "begin"} => ~loop

\* A Ctrl-C handled since the loop began is still recorded in the flag, until
\* the loop acts on it.
StillRecorded == loop /\ pressed /\ pc # "clear" => CtrlC_refresh_terminate

\* The line that is printed is one of those left.
LineLeft == pc = "print" => todo > 0

\* The inductive invariant.
Inv == TypeOK /\ FlagInLoop /\ InLoop /\ OutOfLoop /\ StillRecorded /\ LineLeft

\* The bounds are numbers.
LEMMA Bounds == ASSUME RefreshAssumption PROVE Lines \in Nat /\ MaxSignals \in Nat
BY DEF RefreshAssumption

LEMMA InitInv == ASSUME RefreshAssumption PROVE Init => Inv
<1> SUFFICES ASSUME Init PROVE Inv
  OBVIOUS
<1>1. TypeOK
  <2>1. todo \in 0 .. Lines /\ signals \in 0 .. MaxSignals
    BY Bounds DEF Init
  <2> QED
    BY <2>1 DEF Init, TypeOK, Places
<1>2. FlagInLoop /\ InLoop /\ OutOfLoop /\ StillRecorded /\ LineLeft
  BY DEF Init, FlagInLoop, InLoop, OutOfLoop, StillRecorded, LineLeft
<1> QED
  BY <1>1, <1>2 DEF Inv

\* A step of the thread.
LEMMA ThreadKeepsInv ==
    ASSUME RefreshAssumption, Inv, Step \/ \E c \in Commands : Trigger(c)
    PROVE  Inv'
<1> USE DEF Inv, TypeOK, Places, FlagInLoop, InLoop, OutOfLoop, StillRecorded, LineLeft, At,
            thread, flags, signal_vars
<1>1. ASSUME NEW c \in Commands, Trigger(c) PROVE Inv'
  BY <1>1 DEF Trigger
<1>2. CASE Begin
  BY <1>2 DEF Begin
<1>3. CASE PrintLine
  BY <1>3 DEF PrintLine
<1>4. CASE LinePrinted
  <2>1. todo > 0
    BY <1>4 DEF LinePrinted
  <2>2. todo - 1 \in 0 .. Lines
    BY <2>1, Bounds
  <2> QED
    BY <1>4, <2>2 DEF LinePrinted
<1>5. CASE Returned
  BY <1>5 DEF Returned
<1>6. CASE Wake
  BY <1>6 DEF Wake
<1>7. CASE Check
  BY <1>7 DEF Check
<1>8. CASE Clear
  BY <1>8 DEF Clear
<1> QED
  BY <1>1, <1>2, <1>3, <1>4, <1>5, <1>6, <1>7, <1>8 DEF Step

\* The handler and the Ctrl-C that starts it.
LEMMA SignalKeepsInv ==
    ASSUME RefreshAssumption, Inv, CtrlC \/ Handler
    PROVE  Inv'
<1> USE DEF Inv, TypeOK, Places, FlagInLoop, InLoop, OutOfLoop, StillRecorded, LineLeft,
            thread, flags, signal_vars
<1>1. CASE CtrlC
  <2>1. signals + 1 \in 0 .. MaxSignals
    BY <1>1, Bounds DEF CtrlC
  <2> QED
    BY <1>1, <2>1 DEF CtrlC
<1>2. CASE HandlerPrint
  BY <1>2 DEF HandlerPrint
<1>3. CASE HandlerDecide
  BY <1>3 DEF HandlerDecide
<1> QED
  BY <1>1, <1>2, <1>3 DEF Handler

LEMMA NextKeepsInv == ASSUME RefreshAssumption, Inv, [Next]_vars PROVE Inv'
<1>1. CASE Step \/ \E c \in Commands : Trigger(c)
  BY <1>1, ThreadKeepsInv
<1>2. CASE CtrlC \/ Handler
  BY <1>2, SignalKeepsInv
<1>3. CASE UNCHANGED vars
  BY <1>3 DEF vars, thread, flags, signal_vars, Inv, TypeOK, Places, FlagInLoop, InLoop,
              OutOfLoop, StillRecorded, LineLeft
<1> QED
  BY <1>1, <1>2, <1>3 DEF Next

LEMMA InvCorrect == ASSUME RefreshAssumption PROVE Spec => []Inv
BY InitInv, NextKeepsInv, PTL DEF Spec

\* Every state is well-typed: the variables of the loop and of the handler
\* stay in range, whatever a callback prints and whenever Ctrl-C is pressed.
THEOREM TypeCorrect == Spec => []TypeOK
<1>1. Inv => TypeOK
  BY DEF Inv
<1> QED
  BY <1>1, InvCorrect, RefreshAssumption, PTL

\* Whenever the loop of cmd_tree_trigger_cli runs, is_refresh_in_progress is
\* set, so that a handler that comes at any point of it finds the refresh.
THEOREM FlagCorrect == Spec => []FlagInLoop
<1>1. Inv => FlagInLoop
  BY DEF Inv
<1> QED
  BY <1>1, InvCorrect, RefreshAssumption, PTL

\* Ctrl-C during a refresh is for the refresh: libcli_terminate_refresh takes
\* it, neither the application's handler nor exit is called.
THEOREM CtrlCOfRefresh == Spec => CtrlCIsForRefresh
<1>1. Inv /\ [Next]_vars => [HandlerDecide /\ loop => outcome' = "refresh"]_vars
  BY DEF Inv, FlagInLoop, HandlerDecide
<1> QED
  BY <1>1, InvCorrect, RefreshAssumption, PTL DEF Spec, CtrlCIsForRefresh

\* Once Ctrl-C was handled the loop does not run the command again: the flag
\* is still set when it is read, however many lines the callback had left.
THEOREM NoRunAfter == Spec => NoRunAfterCtrlC
<1>1. Inv /\ [Next]_vars => [pc = "check" /\ pc' = "run" => ~pressed]_vars
  <2> SUFFICES ASSUME Inv, Next, pc = "check", pc' = "run" PROVE ~pressed
    BY DEF vars
  <2>1. CtrlC_refresh_terminate => pc' # "run" \/ pc # "check"
    BY DEF Next, Step, Handler, At, Trigger, Begin, PrintLine, LinePrinted, Returned, Wake,
           Check, Clear, CtrlC, HandlerPrint, HandlerDecide, thread
  <2> QED
    BY <2>1 DEF Inv, InLoop, StillRecorded
<1> QED
  BY <1>1, InvCorrect, RefreshAssumption, PTL DEF Spec, NoRunAfterCtrlC
=============================================================================
