------------------------------- MODULE Console -------------------------------
(***************************************************************************)
(* Console input: consoleread() and consoleintr() of console.c.            *)
(*                                                                         *)
(* Readers run on some harts; uartintr() calls consoleintr() for each key, *)
(* on one hart at a time, since the PLIC gives the interrupt to nobody     *)
(* else until it is complete.  An action is a step under cons.lock.        *)
(* consoleintr() holds the lock while it echoes, which takes time but does *)
(* not touch the buffer (module Uart).  sleep() gives up the lock and      *)
(* sleeps atomically (module Proc).                                        *)
(***************************************************************************)
EXTENDS Integers, Sequences

CONSTANTS Readers,
          Intr,           \* the interrupt handler
          None,           \* nobody holds cons.lock
          Keys,           \* what is typed
          INPUT_BUF,
          WRAP,           \* 2^32, for uint indices
          Lengths,        \* lengths of reads
          Killable

ASSUME ConsoleConstants == WRAP % INPUT_BUF = 0 /\ WRAP > INPUT_BUF

Actors == Readers \cup {Intr}

VARIABLES
  buf, r, w, e, cons_lock,  \* struct cons
  pc,
  n, target,      \* bytes still to read, bytes asked for
  c,              \* the key in consoleintr()
  killed

cons == <<buf, r, w, e>>
call == <<n, target, killed>>
vars == <<cons, cons_lock, pc, call, c>>

Init ==
  /\ buf = [i \in 0..INPUT_BUF - 1 |-> "nul"]
  /\ r = 0 /\ w = 0 /\ e = 0 /\ cons_lock = None
  /\ pc = [a \in Actors |-> "out"]
  /\ n = [p \in Readers |-> 0] /\ target = [p \in Readers |-> 0]
  /\ killed = [p \in Readers |-> FALSE]
  /\ c = "nul"

Goto(a, l) == pc' = [pc EXCEPT ![a] = l]

\* wakeup(): the actors of S that sleep, on the program counters f.
Woken(f, S) == [a \in Actors |-> IF a \in S /\ f[a] = "asleep" THEN "acquire" ELSE f[a]]

-----------------------------------------------------------------------------
(* consoleread()                                                           *)

read(p, k) ==
  /\ pc[p] = "out"
  /\ n' = [n EXCEPT ![p] = k] /\ target' = [target EXCEPT ![p] = k]
  /\ Goto(p, "acquire")
  /\ UNCHANGED <<cons, cons_lock, killed, c>>

acquire_cons(p) ==
  /\ pc[p] = "acquire" /\ p \in Readers /\ cons_lock = None
  /\ cons_lock' = p
  /\ Goto(p, "loop")
  /\ UNCHANGED <<cons, call, c>>

\* The reader returns; one that was killed exits and another takes its place.
Return(p) ==
  /\ cons_lock' = None
  /\ Goto(p, "out")
  /\ n' = [n EXCEPT ![p] = 0] /\ target' = [target EXCEPT ![p] = 0]
  /\ killed' = [killed EXCEPT ![p] = FALSE]

Reading(p) == p \in Readers /\ pc[p] = "loop" /\ n[p] > 0

read_killed(p) ==
  /\ Reading(p) /\ r = w /\ killed[p]
  /\ Return(p)
  /\ UNCHANGED <<cons, c>>

\* kill() may come between the test of p->killed and sleep().
read_sleep(p) ==
  /\ Reading(p) /\ r = w /\ ~killed[p]
  /\ Goto(p, "sleep")
  /\ UNCHANGED <<cons, cons_lock, call, c>>

sleep(p) ==
  /\ p \in Readers /\ pc[p] = "sleep"
  /\ cons_lock' = None
  /\ Goto(p, "asleep")
  /\ UNCHANGED <<cons, call, c>>

Next1 == buf[r % INPUT_BUF]
Taken == r' = (r + 1) % WRAP /\ UNCHANGED <<buf, w, e>>

\* ^D: kept for the next read if this one has bytes to return.
read_eof(p) ==
  /\ Reading(p) /\ r # w /\ Next1 = "eof"
  /\ IF n[p] < target[p] THEN UNCHANGED cons ELSE Taken
  /\ Return(p)
  /\ UNCHANGED c

\* either_copyout() fails: the byte is lost.
read_fault(p) ==
  /\ Reading(p) /\ r # w /\ Next1 # "eof"
  /\ Taken
  /\ Return(p)
  /\ UNCHANGED c

read_byte(p) ==
  /\ Reading(p) /\ r # w /\ Next1 # "eof" /\ Next1 # "nl"
  /\ Taken
  /\ n' = [n EXCEPT ![p] = @ - 1]
  /\ UNCHANGED <<cons_lock, pc, target, killed, c>>

\* A whole line, or as much as was asked for.
read_line(p) ==
  /\ Reading(p) /\ r # w /\ Next1 = "nl"
  /\ Taken
  /\ Return(p)
  /\ UNCHANGED c

read_done(p) ==
  /\ p \in Readers /\ pc[p] = "loop" /\ n[p] = 0
  /\ Return(p)
  /\ UNCHANGED <<cons, c>>

kill(p) ==
  /\ p \in Killable /\ pc[p] # "out" /\ ~killed[p]
  /\ killed' = [killed EXCEPT ![p] = TRUE]
  /\ pc' = Woken(pc, {p})
  /\ UNCHANGED <<cons, cons_lock, n, target, c>>

-----------------------------------------------------------------------------
(* consoleintr()                                                           *)

\* uartintr() has read a key; acquire(&cons.lock).
consoleintr(k) ==
  /\ pc[Intr] = "out" /\ cons_lock = None
  /\ c' = k /\ cons_lock' = Intr
  /\ Goto(Intr, "switch")
  /\ UNCHANGED <<cons, call>>

Switch(k) == pc[Intr] = "switch" /\ c = k
Last == buf[(e - 1) % INPUT_BUF]

Plain == c \notin {"list", "kill", "bs", "nul"}
Room == (e - r) % WRAP < INPUT_BUF

\* release(&cons.lock), and back to uartintr().
Release == cons_lock' = None /\ c' = "nul"

\* Mutant: what has been read as a line can be erased.
Editing_any == e # r

Editing == e # w

\* ^U: the line is erased, a key at a time, with an echo for each.
consoleintr_kill ==
  /\ Switch("kill") /\ Editing /\ Last # "nl"
  /\ e' = (e - 1) % WRAP
  /\ UNCHANGED <<buf, r, w, cons_lock, pc, call, c>>

\* ^H or delete.
consoleintr_erase ==
  /\ Switch("bs") /\ Editing
  /\ e' = (e - 1) % WRAP
  /\ Release
  /\ Goto(Intr, "out")
  /\ UNCHANGED <<buf, r, w, call>>

\* Nothing to do, or ^P: procdump() changes nothing here.
consoleintr_ignore ==
  /\ \/ Switch("nul") \/ Switch("list")
     \/ Switch("bs") /\ ~Editing
     \/ Switch("kill") /\ (Editing => Last = "nl")
     \/ pc[Intr] = "switch" /\ Plain /\ ~Room
  /\ Release
  /\ Goto(Intr, "out")
  /\ UNCHANGED <<cons, call>>

\* The echo.
consoleintr_echo ==
  /\ pc[Intr] = "switch" /\ Plain /\ Room
  /\ c' = IF c = "cr" THEN "nl" ELSE c
  /\ Goto(Intr, "store")
  /\ UNCHANGED <<cons, cons_lock, call>>

\* Mutant: a buffer that fills up without a line end cannot be read.
LineDone_nofull(k, e1) == k \in {"nl", "eof"}

LineDone(k, e1) == k \in {"nl", "eof"} \/ e1 = (r + INPUT_BUF) % WRAP

\* The key is stored; a whole line, or a full buffer, can be read.
consoleintr_store ==
  LET e1 == (e + 1) % WRAP
  IN  /\ pc[Intr] = "store"
      /\ buf' = [buf EXCEPT ![e % INPUT_BUF] = c]
      /\ e' = e1
      /\ IF LineDone(c, e1)
           THEN w' = e1 /\ pc' = [Woken(pc, Readers) EXCEPT ![Intr] = "out"]
           ELSE w' = w /\ Goto(Intr, "out")
      /\ Release
      /\ UNCHANGED <<r, call>>

-----------------------------------------------------------------------------
Handler ==
  \/ consoleintr_kill \/ consoleintr_erase \/ consoleintr_ignore
  \/ consoleintr_echo \/ consoleintr_store

Reader(p) ==
  \/ acquire_cons(p) \/ read_killed(p) \/ read_sleep(p) \/ sleep(p)
  \/ read_eof(p) \/ read_fault(p) \/ read_byte(p) \/ read_line(p) \/ read_done(p)

Next ==
  \/ Handler
  \/ \E k \in Keys : consoleintr(k)
  \/ \E p \in Readers : Reader(p) \/ kill(p) \/ \E k \in Lengths : read(p, k)

Spec == Init /\ [][Next]_vars

\* Harts run on, spin locks are granted fairly, and somebody types lines.
Fairness ==
  /\ WF_vars(Handler) /\ SF_vars(consoleintr("nl"))
  /\ \A p \in Readers : WF_vars(Reader(p)) /\ SF_vars(acquire_cons(p))

FairSpec == Spec /\ Fairness

-----------------------------------------------------------------------------
(* Properties                                                              *)

\* The characters from index i to j - 1 of the ring.
Ring(i, j) == [k \in 1..(j - i) % WRAP |-> buf[(i + k - 1) % INPUT_BUF]]

T == INSTANCE Terminal WITH
  Letters <- Keys \ {"nl", "cr", "eof", "bs", "kill", "list", "nul"},
  LineEnds <- {"nl", "eof"},
  InputSize <- INPUT_BUF,
  ready <- Ring(r, w),
  edit <- Ring(w, e)

\* ^D is not mixed up with input: a read that takes ^D out of the buffer returns
\* 0 bytes.
EndOfFile ==
  [][\A p \in Readers :
       Reading(p) /\ r # w /\ Next1 = "eof" /\ r' # r
         => n[p] = target[p] /\ pc'[p] = "out"]_vars

\* The ring buffer implements a terminal, also when the indices wrap around: only
\* the current line can be erased, a line that fills the buffer ends by itself,
\* every key is read once, in order, and ^D ends a read by itself.
IsTerminal == T!Spec /\ EndOfFile

\* While lines are typed and all readers read, a read ends: the buffer cannot fill
\* up in a way that keeps new keys out and the readers asleep.
ReadEnds == (\A p \in Readers : pc[p] # "out") ~> (\E p \in Readers : pc[p] = "out")
=============================================================================
