------------------------------ MODULE Terminal ------------------------------
(***************************************************************************)
(* What console input promises: the keys of the current line can be erased *)
(* until the line ends; then they can be read, in order, each once.        *)
(***************************************************************************)
EXTENDS Naturals, Sequences, SequencesExt

CONSTANTS Letters,        \* keys that stand for themselves
          LineEnds,       \* what ends a line: newline and end of file
          InputSize

VARIABLES ready,          \* input that can be read
          edit            \* the current line

vars == <<ready, edit>>

Init == ready = << >> /\ edit = << >>

Room == Len(ready) + Len(edit) < InputSize

\* A key of the line; a line that fills the buffer ends.
Key(c) ==
  /\ Room
  /\ IF Len(ready) + Len(edit) + 1 = InputSize
       THEN ready' = ready \o edit \o <<c>> /\ edit' = << >>
       ELSE ready' = ready /\ edit' = Append(edit, c)

End(c) ==
  /\ Room
  /\ ready' = ready \o edit \o <<c>> /\ edit' = << >>

Erase ==
  /\ edit # << >>
  /\ edit' = Front(edit)
  /\ UNCHANGED ready

Read ==
  /\ ready # << >>
  /\ ready' = Tail(ready)
  /\ UNCHANGED edit

Next ==
  \/ \E c \in Letters : Key(c)
  \/ \E c \in LineEnds : End(c)
  \/ Erase \/ Read

Spec == Init /\ [][Next]_vars
=============================================================================
