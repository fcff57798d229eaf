-------------------------------- MODULE Pipe --------------------------------
(***************************************************************************)
(* kernel/pipe.c: pipewrite(), piperead(), pipeclose() and pipealloc() on  *)
(* one pipe.                                                               *)
(*                                                                         *)
(* Writers and readers run under pi->lock, a byte per action, and give the *)
(* lock up in sleep(), which releases it and sleeps atomically (module     *)
(* Proc).  kill() does not take pi->lock: it may come between any two      *)
(* steps, the test of p->killed and the sleep() after it included.  nread  *)
(* and nwrite are unsigned ints that wrap around.                          *)
(***************************************************************************)
EXTENDS Integers, Sequences

CONSTANTS Readers, Writers,   \* processes with the read end, the write end
          PIPESIZE,
          WRAP,               \* 2^32: where an unsigned int wraps around
          Bytes,
          Lengths,            \* lengths of the reads and writes
          Killable,           \* processes that kill() may hit
          NoProc              \* pi->lock is free

Procs == Readers \cup Writers

ASSUME PipeConstants ==
  /\ PIPESIZE \in Nat \ {0} /\ WRAP \in Nat /\ Lengths \subseteq Nat
  /\ \E k \in 2..WRAP : WRAP = k * PIPESIZE
  /\ Readers \cap Writers = {} /\ NoProc \notin Procs

VARIABLES
  data, nread, nwrite, readopen, writeopen,   \* struct pipe
  lock,         \* process holding pi->lock, or NoProc
  pc,
  n,            \* bytes asked for
  i,            \* bytes transferred
  killed,
  unannounced   \* history: a killed writer has returned with bytes written, and no
                \* wakeup(&pi->nread) has come since

pipeVars == <<data, nread, nwrite, readopen, writeopen>>
vars == <<pipeVars, lock, pc, n, i, killed, unannounced>>

\* pipealloc() has made the pipe.
Init ==
  /\ data \in [0..(PIPESIZE - 1) -> Bytes]
  /\ nread = 0 /\ nwrite = 0 /\ readopen = TRUE /\ writeopen = TRUE
  /\ lock = NoProc
  /\ pc = [p \in Procs |-> "out"]
  /\ n = [p \in Procs |-> 0]
  /\ i = [p \in Procs |-> 0]
  /\ killed = [p \in Procs |-> FALSE]
  /\ unannounced = FALSE

Empty == nread = nwrite
\* Mutant: computed without wrapping around.
Full_wide == nwrite = nread + PIPESIZE

Full == nwrite = (nread + PIPESIZE) % WRAP
Inc(k) == (k + 1) % WRAP

\* wakeup(): processes of S that sleep, on the program counters f.
Woken(f, S) == [p \in Procs |-> IF p \in S /\ f[p] = "asleep" THEN "enter" ELSE f[p]]

-----------------------------------------------------------------------------
\* read() or write() of k bytes.
call(p, k) ==
  /\ pc[p] = "out" /\ ~killed[p]
  /\ IF p \in Readers THEN readopen ELSE writeopen
  /\ pc' = [pc EXCEPT ![p] = "enter"]
  /\ n' = [n EXCEPT ![p] = k]
  /\ UNCHANGED <<pipeVars, lock, i, killed, unannounced>>

\* acquire(&pi->lock), on entry or at the end of sleep().
acquire(p) ==
  /\ pc[p] = "enter" /\ lock = NoProc
  /\ lock' = p
  /\ pc' = [pc EXCEPT ![p] = "loop"]
  /\ UNCHANGED <<pipeVars, n, i, killed, unannounced>>

\* p wakes up S and calls sleep(), or returns: its n and i end.
CallSleep(p, S) ==
  /\ pc' = [Woken(pc, S) EXCEPT ![p] = "sleep"]
  /\ UNCHANGED <<lock, n, i, killed>>

\* sleep() releases pi->lock; it does not look at p->killed.
sleep(p) ==
  /\ pc[p] = "sleep"
  /\ pc' = [pc EXCEPT ![p] = "asleep"]
  /\ lock' = NoProc
  /\ UNCHANGED <<pipeVars, n, i, killed, unannounced>>

Return(p, S) ==
  /\ pc' = [Woken(pc, S) EXCEPT ![p] = "out"]
  /\ lock' = NoProc
  /\ n' = [n EXCEPT ![p] = 0]
  /\ i' = [i EXCEPT ![p] = 0]
  /\ UNCHANGED killed

-----------------------------------------------------------------------------
(* pipewrite()                                                             *)

Writing(w) == w \in Writers /\ pc[w] = "loop" /\ i[w] < n[w]

\* return -1
write_broken(w) ==
  /\ Writing(w) /\ (~readopen \/ killed[w])
  /\ Return(w, {})
  /\ unannounced' = (unannounced \/ (killed[w] /\ i[w] > 0))
  /\ UNCHANGED pipeVars

\* Mutant: no wakeup() of the readers before the writer sleeps.
write_full_silent(w) ==
  /\ Writing(w) /\ readopen /\ ~killed[w]
  /\ Full
  /\ CallSleep(w, {})
  /\ UNCHANGED <<pipeVars, unannounced>>

write_full(w) ==
  /\ Writing(w) /\ readopen /\ ~killed[w]
  /\ Full
  /\ CallSleep(w, Readers)
  /\ unannounced' = FALSE
  /\ UNCHANGED pipeVars

write_byte(w) ==
  /\ Writing(w) /\ readopen /\ ~killed[w]
  /\ ~Full
  /\ \E b \in Bytes : data' = [data EXCEPT ![nwrite % PIPESIZE] = b]
  /\ nwrite' = Inc(nwrite)
  /\ i' = [i EXCEPT ![w] = @ + 1]
  /\ UNCHANGED <<nread, readopen, writeopen, lock, pc, n, killed, unannounced>>

\* All bytes are written, or copyin() fails.
write_done(w) ==
  /\ w \in Writers /\ pc[w] = "loop"
  /\ Writing(w) => readopen /\ ~killed[w] /\ ~Full
  /\ Return(w, Readers)
  /\ unannounced' = FALSE
  /\ UNCHANGED pipeVars

-----------------------------------------------------------------------------
(* piperead()                                                              *)

Waiting(r) == r \in Readers /\ pc[r] = "loop" /\ Empty /\ writeopen

\* return -1
read_killed(r) ==
  /\ Waiting(r) /\ killed[r]
  /\ Return(r, {})
  /\ UNCHANGED <<pipeVars, unannounced>>

\* Mutant: the reader looks again instead of giving up pi->lock.
read_sleep_spin(r) ==
  /\ Waiting(r) /\ ~killed[r]
  /\ UNCHANGED vars

read_sleep(r) ==
  /\ Waiting(r) /\ ~killed[r]
  /\ CallSleep(r, {})
  /\ UNCHANGED <<pipeVars, unannounced>>

read_start(r) ==
  /\ r \in Readers /\ pc[r] = "loop" /\ ~Waiting(r)
  /\ pc' = [pc EXCEPT ![r] = "copy"]
  /\ UNCHANGED <<pipeVars, lock, n, i, killed, unannounced>>

read_byte(r) ==
  /\ r \in Readers /\ pc[r] = "copy"
  /\ i[r] < n[r] /\ ~Empty
  /\ nread' = Inc(nread)
  /\ i' = [i EXCEPT ![r] = @ + 1]
  /\ UNCHANGED <<data, nwrite, readopen, writeopen, lock, pc, n, killed, unannounced>>

\* copyout() fails: the byte has been taken out of the pipe and is lost.
read_fault(r) ==
  /\ r \in Readers /\ pc[r] = "copy"
  /\ i[r] < n[r] /\ ~Empty
  /\ nread' = Inc(nread)
  /\ Return(r, Writers)
  /\ UNCHANGED <<data, nwrite, readopen, writeopen, unannounced>>

read_done(r) ==
  /\ r \in Readers /\ pc[r] = "copy"
  /\ i[r] = n[r] \/ Empty
  /\ Return(r, Writers)
  /\ UNCHANGED <<pipeVars, unannounced>>

-----------------------------------------------------------------------------
(* pipeclose(), once no process refers to that end, and pipealloc()        *)

close_write ==
  /\ writeopen /\ lock = NoProc
  /\ \A w \in Writers : pc[w] = "out"
  /\ writeopen' = FALSE
  /\ pc' = Woken(pc, Readers)
  /\ unannounced' = FALSE
  /\ UNCHANGED <<data, nread, nwrite, readopen, lock, n, i, killed>>

close_read ==
  /\ readopen /\ lock = NoProc
  /\ \A r \in Readers : pc[r] = "out"
  /\ readopen' = FALSE
  /\ pc' = Woken(pc, Writers)
  /\ UNCHANGED <<data, nread, nwrite, writeopen, lock, n, i, killed, unannounced>>

\* The page was freed; a new pipe is made for processes that are alive.
pipealloc ==
  /\ ~readopen /\ ~writeopen
  /\ readopen' = TRUE /\ writeopen' = TRUE
  /\ nread' = 0 /\ nwrite' = 0
  /\ killed' = [p \in Procs |-> FALSE]
  /\ unannounced' = FALSE
  /\ UNCHANGED <<data, lock, pc, n, i>>

kill(p) ==
  /\ p \in Killable /\ ~killed[p]
  /\ killed' = [killed EXCEPT ![p] = TRUE]
  /\ pc' = Woken(pc, {p})
  /\ UNCHANGED <<pipeVars, lock, n, i, unannounced>>

Write(w) ==
  \/ write_broken(w) \/ write_full(w) \/ write_byte(w) \/ write_done(w)

Read(r) ==
  \/ read_killed(r) \/ read_sleep(r) \/ read_start(r)
  \/ read_byte(r) \/ read_fault(r) \/ read_done(r)

Next ==
  \/ \E p \in Procs : \/ \E k \in Lengths : call(p, k)
                      \/ acquire(p) \/ sleep(p) \/ kill(p)
  \/ \E w \in Writers : Write(w)
  \/ \E r \in Readers : Read(r)
  \/ close_write \/ close_read \/ pipealloc

Spec == Init /\ [][Next]_vars

\* Spin locks are granted fairly, the kernel runs on, readers read for as long as
\* the read end is open, and exit() of killed readers closes it.
Fairness ==
  /\ \A p \in Procs : SF_vars(acquire(p)) /\ WF_vars(sleep(p))
  /\ \A w \in Writers : WF_vars(Write(w))
  /\ \A r \in Readers : WF_vars(Read(r)) /\ WF_vars(\E k \in Lengths : call(r, k))
  /\ WF_vars(close_read /\ \A r \in Readers : killed[r])

FairSpec == Spec /\ Fairness

-----------------------------------------------------------------------------
(* Properties                                                              *)

\* Every variable has its type.
TypeOK ==
  /\ data \in [0..(PIPESIZE - 1) -> Bytes]
  /\ nread \in 0..(WRAP - 1) /\ nwrite \in 0..(WRAP - 1)
  /\ readopen \in BOOLEAN /\ writeopen \in BOOLEAN
  /\ lock \in Procs \cup {NoProc}
  /\ pc \in [Procs -> {"out", "enter", "loop", "copy", "sleep", "asleep"}]
  /\ n \in [Procs -> Lengths \cup {0}]
  /\ i \in [Procs -> Nat] /\ \A p \in Procs : i[p] <= n[p]
  /\ killed \in [Procs -> BOOLEAN] /\ unannounced \in BOOLEAN

Count == (nwrite - nread) % WRAP

F == INSTANCE Fifo WITH
  Capacity <- PIPESIZE,
  q <- [k \in 1..Count |-> data[(nread + k - 1) % PIPESIZE]]

\* A read that returns 0 bytes means end of file: nobody can write any more.
\* (A fault in copyout() apart, which happens with data in the pipe.)
EndOfFile ==
  [][\A r \in Readers :
       pc[r] = "copy" /\ pc'[r] = "out" /\ i[r] = 0 /\ Empty => ~writeopen]_vars

\* The pipe is a bounded queue, also when the counters wrap around, and 0 bytes
\* read are the end of the file.
IsFifo == F!Spec /\ EndOfFile

\* A reader sleeps only while the pipe is empty and open for writing, and a
\* writer only while it is full and open for reading, but for the moments when
\* somebody holds pi->lock and has still to wake them up.  There is one exception:
\* pipewrite() wakes nobody up when it finds its process killed after it has
\* written some bytes, and a reader sleeps beside them until the next wakeup().
NoLostWakeup ==
  /\ TypeOK
  /\ \A r \in Readers : pc[r] = "asleep" =>
       \/ Empty /\ writeopen
       \/ \E w \in Writers : lock = w
       \/ unannounced
  /\ \A w \in Writers : pc[w] = "asleep" =>
       \/ Full /\ readopen
       \/ \E r \in Readers : lock = r

\* A write ends, by success or by failure, as long as there is a reader, if it
\* is the only one (a second writer may take every free byte before it).
WriteEnds == \A w \in Writers : pc[w] = "enter" ~> pc[w] = "out"
=============================================================================
