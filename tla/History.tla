------------------------------- MODULE History -------------------------------
(***************************************************************************)
(* What a history of commands promises, without the list it is kept in:    *)
(* the newest command first, and a place the user browses to.              *)
(***************************************************************************)
EXTENDS Naturals, Sequences

CONSTANT Texts   \* the lines an entry may hold

VARIABLES entries,  \* newest first
          place     \* the entry browsed; 0 is the line being typed

Init == entries = << >> /\ place = 0

\* The user looks at the next older entry, or at the next newer one.
Older == place < Len(entries) /\ place' = place + 1 /\ UNCHANGED entries
Newer == place > 0 /\ place' = place - 1 /\ UNCHANGED entries

\* The entry looked at is changed.
Change == /\ place > 0
          /\ \E t \in Texts : entries' = [entries EXCEPT ![place] = t]
          /\ UNCHANGED place

\* A line is run, which may change the entry it was taken from.  The command
\* is put first, and only the oldest entry may be dropped for it.
Run ==
    /\ place' = 0
    /\ \E before \in {entries} \cup
                      {[entries EXCEPT ![place] = t] : t \in {u \in Texts : place > 0}} :
         \/ entries' = before
         \/ \E t \in Texts :
              \/ entries' = <<t>> \o before
              \/ entries' = <<t>> \o SubSeq(before, 1, Len(before) - 1)

Next == Older \/ Newer \/ Change \/ Run

Spec == Init /\ [][Next]_<<entries, place>>
=============================================================================
