-------------------------------- MODULE Shell --------------------------------
(***************************************************************************)
(* What the shell promises, without keys, keywords, completion, buffers or *)
(* cursors: the user is in a mode, a path of the tree, and puts a sentence *)
(* together word by word.  The application is called with sentences only,  *)
(* and a mode is left by asking for it.                                    *)
(***************************************************************************)
EXTENDS Naturals, Sequences

CONSTANTS
  Word,             \* the params
  Follows(_, _),    \* Follows(p, q): q may come behind p
  Apex,             \* the root of the tree
  Starter,          \* the words that start a sentence, in a mode as well
  Config,           \* the one that starts configuration
  Negates(_)        \* the words that negate

VARIABLES
  mode,             \* the path the prompt stands for
  words,            \* what is entered behind it
  calls,            \* the calls of the last step: path and operation
  alive             \* the shell has not lost its footing

shellVars == <<mode, words, calls, alive>>

\* A starter may also come where a sentence passes the end of the mode (that is
\* a mistake of the program: see LineHook in README.md).
MayCome(p, q) == Follows(p, q) \/ (p = mode[Len(mode)] /\ q \in Starter)
IsPath(s) == s[1] = Apex /\ \A i \in 1 .. Len(s) - 1 : MayCome(s[i], s[i + 1])

\* A sentence that starts with a starter means the same in every mode.
Nested(ws) == Len(mode) > 1 /\ ws # <<>> /\ ws[1] \in Starter
Sentence(ws) == IF Nested(ws) THEN <<Apex>> \o ws ELSE mode \o ws

Negative(s) == Len(s) > 1 /\ s[2] = Config /\ \E i \in DOMAIN s : Negates(s[i])

\* The calls made for the words entered so far and one more, or for the start
\* of them, as in a batch; a whole sentence may also come from elsewhere (a line
\* typed without looking words up).  What the user negates is negative for the
\* application.  A nested sentence may lose it: that is a mistake of the program.
Agree(s, t) == \A i \in DOMAIN s \cap DOMAIN t : s[i] = t[i]
MadeFor(done, ws) ==
  \A i \in DOMAIN done :
     LET path == done[i].path IN
     /\ IsPath(path)
     /\ \/ Agree(path, Sentence(ws))
        \/ ws = <<>> /\ Len(path) > 1 /\ path[2] \in Starter
     /\ done[i].op = "CONFIG_DISABLE" => Negative(path)
     /\ Negative(path) /\ ~Nested(ws) => done[i].op = "CONFIG_DISABLE"

Init == mode = <<Apex>> /\ words = <<>> /\ calls = <<>> /\ alive = TRUE

\* One more word, or one less.
Say == /\ \E w \in Word : words' = Append(words, w) /\ IsPath(Sentence(Append(words, w)))
       /\ calls' = <<>>
       /\ UNCHANGED <<mode, alive>>
Unsay == /\ words # <<>>
         /\ words' = SubSeq(words, 1, Len(words) - 1)
         /\ calls' = <<>>
         /\ UNCHANGED <<mode, alive>>

\* The sentence is run, or dropped; either way the user stays where he is.
Run == /\ MadeFor(calls', words)
       /\ words' = <<>>
       /\ UNCHANGED <<mode, alive>>

\* The sentence becomes the mode; the command it is may run.
Enter == /\ mode' = Sentence(words)
         /\ words' = <<>>
         /\ MadeFor(calls', words)
         /\ UNCHANGED alive

\* Back by a word, or to the apex.
Up == /\ Len(mode) > 1
      /\ mode' = SubSeq(mode, 1, Len(mode) - 1)
      /\ words' = <<>> /\ calls' = <<>>
      /\ UNCHANGED alive
ToApex == mode' = <<Apex>> /\ words' = <<>> /\ calls' = <<>> /\ UNCHANGED alive

\* An assertion failed or memory was damaged: nothing is promised any more.
Die == alive /\ alive' = FALSE

Quiet == calls' = <<>> /\ UNCHANGED <<mode, words, alive>>

Next == Say \/ Unsay \/ Run \/ Enter \/ Up \/ ToApex \/ Die \/ Quiet

Spec == Init /\ [][Next]_shellVars
=============================================================================
