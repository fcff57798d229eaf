-------------------------------- MODULE Log --------------------------------
(***************************************************************************)
(* The redo log of kernel/log.c, with the parts of the buffer cache        *)
(* (kernel/bio.c) and of the disk that decide whether it is crash safe.    *)
(*                                                                         *)
(* Each process runs file-system system calls: begin_op(), a number of     *)
(* bread / modify / log_write / brelse rounds, end_op().  The last call to *)
(* leave commits.  Power may fail between any two steps and in the middle  *)
(* of any block write; initlog() then recovers, and may itself be          *)
(* interrupted by another failure.                                         *)
(*                                                                         *)
(* A critical section under log.lock touches only the fields of struct log *)
(* and is one action.  sleep(&log, &log.lock) releases the lock and sleeps *)
(* atomically, which module Proc justifies.                                *)
(***************************************************************************)
EXTENDS Integers, Sequences, FiniteSets

CONSTANTS Blocks,       \* home block numbers, all outside the log
          Vals,         \* contents of a block
          Torn,         \* contents of a block whose write was cut off
          NoBuf,        \* "not in the buffer cache"
          Procs,        \* processes that execute system calls
          MAXOPBLOCKS,  \* what begin_op() reserves for one system call
          LOGSIZE,      \* length of logheader.block
          NLOG,         \* superblock.nlog, header block included
          OPBLOCKS,     \* distinct blocks a system call really writes
          MAXCRASH      \* bound on power failures

ASSUME LogConstants ==
  /\ MAXOPBLOCKS \in Nat /\ LOGSIZE \in Nat /\ NLOG \in Nat \ {0}
  /\ OPBLOCKS \in Nat /\ MAXCRASH \in Nat

ASSUME LogSentinels ==
  /\ Torn \notin Vals
  /\ NoBuf \notin Vals \cup {Torn}
  /\ NoBuf \notin Blocks

VARIABLES
  \* On the disk
  disk,         \* contents of the home blocks
  dlog,         \* contents of the log's data blocks
  dhead,        \* on-disk header: block[0..n-1] as a sequence
  \* In memory: the buffer cache
  cache,        \* contents of the cached home blocks, or NoBuf
  pins,         \* references taken by bpin()
  \* In memory: struct log
  lh,           \* log.lh: block[0..n-1] as a sequence
  outstanding, committing,
  \* The processes
  pc,           \* where each process is
  buf,          \* block whose buffer the process has locked, or NoBuf
  wrote,        \* blocks the current system call has logged
  tail,         \* loop index of write_log() and install_trans()
  \* The kernel's boot
  mode,         \* recovery's progress, then "up"
  rtail,        \* loop index of recovery's install_trans()
  crashes       \* power failures so far

diskVars == <<disk, dlog, dhead>>
cacheVars == <<cache, pins>>
logVars == <<lh, outstanding, committing>>
procVars == <<pc, buf, wrote, tail>>
bootVars == <<mode, rtail, crashes>>
vars == <<diskVars, cacheVars, logVars, procVars, bootVars>>

Slots == 1..(NLOG - 1)
Elems(s) == {s[i] : i \in DOMAIN s}

\* Memory as it is when the kernel starts to run: .bss is zero.
ColdMemory ==
  [cache |-> [b \in Blocks |-> NoBuf], pins |-> [b \in Blocks |-> 0],
   pc |-> [p \in Procs |-> "out"], buf |-> [p \in Procs |-> NoBuf],
   wrote |-> [p \in Procs |-> {}], tail |-> [p \in Procs |-> 1]]

\* mkfs writes an empty log; the log's data blocks hold leftovers.
Init ==
  /\ disk \in [Blocks -> Vals]
  /\ dlog = [i \in Slots |-> Torn]
  /\ dhead = << >>
  /\ cache = ColdMemory.cache /\ pins = ColdMemory.pins
  /\ lh = << >> /\ outstanding = 0 /\ committing = FALSE
  /\ pc = ColdMemory.pc /\ buf = ColdMemory.buf
  /\ wrote = ColdMemory.wrote /\ tail = ColdMemory.tail
  /\ mode = "read_head" /\ rtail = 1 /\ crashes = 0

-----------------------------------------------------------------------------
(* The buffer cache, as far as the log depends on it.                      *)

\* What bread(b) returns: the cached contents, or else the disk's.
Contents(b) == IF cache[b] # NoBuf THEN cache[b] ELSE disk[b]

Locked(b) == \E p \in Procs : buf[p] = b

\* bget() takes over an unreferenced buffer for some other block.
recycle(b) ==
  /\ cache[b] # NoBuf
  /\ pins[b] = 0 /\ ~Locked(b)
  /\ cache' = [cache EXCEPT ![b] = NoBuf]
  /\ UNCHANGED <<diskVars, pins, logVars, procVars, bootVars>>

\* A system call reads, and so locks, a block that it may go on to modify.
\* It never logs more than OPBLOCKS different blocks.
bread(p, b) ==
  /\ mode = "up" /\ pc[p] = "in" /\ buf[p] = NoBuf
  /\ ~Locked(b)
  /\ b \in wrote[p] \/ Cardinality(wrote[p]) < OPBLOCKS
  /\ cache' = [cache EXCEPT ![b] = Contents(b)]
  /\ buf' = [buf EXCEPT ![p] = b]
  /\ UNCHANGED <<diskVars, pins, logVars, pc, wrote, tail, bootVars>>

brelse(p) ==
  /\ mode = "up" /\ pc[p] = "in" /\ buf[p] # NoBuf
  /\ buf' = [buf EXCEPT ![p] = NoBuf]
  /\ UNCHANGED <<diskVars, cacheVars, logVars, pc, wrote, tail, bootVars>>

bpin(b) == pins' = [pins EXCEPT ![b] = @ + 1]
bunpin(b) == pins' = [pins EXCEPT ![b] = @ - 1]

-----------------------------------------------------------------------------
(* begin_op(), log_write() and end_op()                                    *)

\* wakeup(&log), on the program counters f.
Woken(f) == [p \in Procs |-> IF f[p] = "asleep" THEN "begin" ELSE f[p]]

NoRoom == Len(lh) + (outstanding + 1) * MAXOPBLOCKS > LOGSIZE

begin_op_sleep(p) ==
  /\ mode = "up" /\ pc[p] \in {"out", "begin"}
  /\ committing \/ NoRoom
  /\ pc' = [pc EXCEPT ![p] = "asleep"]
  /\ UNCHANGED <<diskVars, cacheVars, logVars, buf, wrote, tail, bootVars>>

\* Mutant: a call begins although its blocks may not fit in the log.
begin_op_eager(p) ==
  /\ mode = "up" /\ pc[p] \in {"out", "begin"}
  /\ ~committing
  /\ outstanding' = outstanding + 1
  /\ pc' = [pc EXCEPT ![p] = "in"]
  /\ wrote' = [wrote EXCEPT ![p] = {}]
  /\ UNCHANGED <<diskVars, cacheVars, lh, committing, buf, tail, bootVars>>

begin_op(p) ==
  /\ mode = "up" /\ pc[p] \in {"out", "begin"}
  /\ ~committing /\ ~NoRoom
  /\ outstanding' = outstanding + 1
  /\ pc' = [pc EXCEPT ![p] = "in"]
  /\ wrote' = [wrote EXCEPT ![p] = {}]
  /\ UNCHANGED <<diskVars, cacheVars, lh, committing, buf, tail, bootVars>>

TooBig == Len(lh) >= LOGSIZE \/ Len(lh) >= NLOG - 1

\* Mutant: bpin() at every log_write(), absorbed or not.
log_write_pins(p, v) ==
  LET b == buf[p]
      new == b \notin Elems(lh)
  IN  /\ mode = "up" /\ pc[p] = "in" /\ b # NoBuf
      /\ ~TooBig /\ outstanding >= 1
      /\ cache' = [cache EXCEPT ![b] = v]
      /\ wrote' = [wrote EXCEPT ![p] = @ \cup {b}]
      /\ lh' = IF new THEN Append(lh, b) ELSE lh
      /\ bpin(b)
      /\ UNCHANGED <<diskVars, outstanding, committing, pc, buf, tail, bootVars>>

\* The caller stores v in the buffer it has locked and calls log_write().
log_write(p, v) ==
  LET b == buf[p]
      new == b \notin Elems(lh)       \* no log absorption
  IN  /\ mode = "up" /\ pc[p] = "in" /\ b # NoBuf
      /\ ~TooBig /\ outstanding >= 1
      /\ cache' = [cache EXCEPT ![b] = v]
      /\ wrote' = [wrote EXCEPT ![p] = @ \cup {b}]
      /\ lh' = IF new THEN Append(lh, b) ELSE lh
      /\ IF new THEN bpin(b) ELSE UNCHANGED pins
      /\ UNCHANGED <<diskVars, outstanding, committing, pc, buf, tail, bootVars>>

\* Not the last call to leave: somebody may now find room.
end_op_more(p) ==
  /\ mode = "up" /\ pc[p] = "in" /\ buf[p] = NoBuf
  /\ ~committing /\ outstanding # 1
  /\ outstanding' = outstanding - 1
  /\ pc' = Woken([pc EXCEPT ![p] = "out"])
  /\ UNCHANGED <<diskVars, cacheVars, lh, committing, buf, wrote, tail, bootVars>>

\* The last call to leave becomes the committer.
end_op_last(p) ==
  /\ mode = "up" /\ pc[p] = "in" /\ buf[p] = NoBuf
  /\ ~committing /\ outstanding = 1
  /\ outstanding' = 0
  /\ committing' = TRUE
  /\ pc' = [pc EXCEPT ![p] = IF lh = << >> THEN "end_commit" ELSE "write_log"]
  /\ tail' = [tail EXCEPT ![p] = 1]
  /\ UNCHANGED <<diskVars, cacheVars, lh, buf, wrote, bootVars>>

-----------------------------------------------------------------------------
(* commit(), one block write per action                                    *)

write_log(p) ==
  LET b == lh[tail[p]]
  IN  /\ mode = "up" /\ pc[p] = "write_log" /\ tail[p] <= Len(lh)
      /\ ~Locked(b)
      /\ cache' = [cache EXCEPT ![b] = Contents(b)]
      /\ dlog' = [dlog EXCEPT ![tail[p]] = Contents(b)]
      /\ tail' = [tail EXCEPT ![p] = @ + 1]
      /\ UNCHANGED <<disk, dhead, pins, logVars, pc, buf, wrote, bootVars>>

\* Mutant: the header is written before the blocks.
write_head_early(p) ==
  /\ mode = "up" /\ pc[p] = "write_log"
  /\ dhead' = lh
  /\ pc' = [pc EXCEPT ![p] = "install"]
  /\ tail' = [tail EXCEPT ![p] = 1]
  /\ UNCHANGED <<disk, dlog, cacheVars, logVars, buf, wrote, bootVars>>

\* The real commit.
write_head(p) ==
  /\ mode = "up" /\ pc[p] = "write_log" /\ tail[p] > Len(lh)
  /\ dhead' = lh
  /\ pc' = [pc EXCEPT ![p] = "install"]
  /\ tail' = [tail EXCEPT ![p] = 1]
  /\ UNCHANGED <<disk, dlog, cacheVars, logVars, buf, wrote, bootVars>>

install_trans(p) ==
  LET b == lh[tail[p]]
  IN  /\ mode = "up" /\ pc[p] = "install" /\ tail[p] <= Len(lh)
      /\ ~Locked(b)
      /\ cache' = [cache EXCEPT ![b] = dlog[tail[p]]]
      /\ disk' = [disk EXCEPT ![b] = dlog[tail[p]]]
      /\ bunpin(b)
      /\ tail' = [tail EXCEPT ![p] = @ + 1]
      /\ UNCHANGED <<dlog, dhead, logVars, pc, buf, wrote, bootVars>>

\* log.lh.n = 0 and the second write_head().
erase_head(p) ==
  /\ mode = "up" /\ pc[p] = "install" /\ tail[p] > Len(lh)
  /\ lh' = << >>
  /\ dhead' = << >>
  /\ pc' = [pc EXCEPT ![p] = "end_commit"]
  /\ UNCHANGED <<disk, dlog, cacheVars, outstanding, committing,
                 buf, wrote, tail, bootVars>>

\* Mutant: no wakeup().
end_commit_silent(p) ==
  /\ mode = "up" /\ pc[p] = "end_commit"
  /\ committing' = FALSE
  /\ pc' = [pc EXCEPT ![p] = "out"]
  /\ UNCHANGED <<diskVars, cacheVars, lh, outstanding, buf, wrote, tail, bootVars>>

end_commit(p) ==
  /\ mode = "up" /\ pc[p] = "end_commit"
  /\ committing' = FALSE
  /\ pc' = Woken([pc EXCEPT ![p] = "out"])
  /\ UNCHANGED <<diskVars, cacheVars, lh, outstanding, buf, wrote, tail, bootVars>>

-----------------------------------------------------------------------------
(* recover_from_log(), called by initlog() before any system call runs     *)

read_head ==
  /\ mode = "read_head"
  /\ lh' = dhead
  /\ mode' = "install" /\ rtail' = 1
  /\ UNCHANGED <<diskVars, cacheVars, outstanding, committing, procVars, crashes>>

\* install_trans(1): nothing was pinned, so nothing is unpinned.
install_recovering ==
  LET b == lh[rtail]
  IN  /\ mode = "install" /\ rtail <= Len(lh)
      /\ cache' = [cache EXCEPT ![b] = dlog[rtail]]
      /\ disk' = [disk EXCEPT ![b] = dlog[rtail]]
      /\ rtail' = rtail + 1
      /\ UNCHANGED <<dlog, dhead, pins, logVars, procVars, mode, crashes>>

clear_log ==
  /\ mode = "install" /\ rtail > Len(lh)
  /\ lh' = << >> /\ dhead' = << >>
  /\ mode' = "up"
  /\ UNCHANGED <<disk, dlog, cacheVars, outstanding, committing, procVars,
                 rtail, crashes>>

-----------------------------------------------------------------------------
(* Power failures.  The header fits in one sector, whose write the disk    *)
(* completes or does not start; a data block is two sectors and may be     *)
(* left half written when the failure hits its write.                      *)

HomeInFlight ==
  {lh[tail[p]] : p \in {q \in Procs : pc[q] = "install" /\ tail[q] <= Len(lh)}}
  \cup IF mode = "install" /\ rtail <= Len(lh) THEN {lh[rtail]} ELSE {}

SlotInFlight ==
  {tail[p] : p \in {q \in Procs : pc[q] = "write_log" /\ tail[q] <= Len(lh)}}

Crash ==
  /\ crashes < MAXCRASH
  /\ crashes' = crashes + 1
  /\ \E H \in SUBSET HomeInFlight, S \in SUBSET SlotInFlight :
       /\ disk' = [b \in Blocks |-> IF b \in H THEN Torn ELSE disk[b]]
       /\ dlog' = [i \in Slots |-> IF i \in S THEN Torn ELSE dlog[i]]
  /\ UNCHANGED dhead
  /\ cache' = ColdMemory.cache /\ pins' = ColdMemory.pins
  /\ lh' = << >> /\ outstanding' = 0 /\ committing' = FALSE
  /\ pc' = ColdMemory.pc /\ buf' = ColdMemory.buf
  /\ wrote' = ColdMemory.wrote /\ tail' = ColdMemory.tail
  /\ mode' = "read_head" /\ rtail' = 1

-----------------------------------------------------------------------------
SystemCall(p) ==
  \/ begin_op_sleep(p) \/ begin_op(p)
  \/ \E b \in Blocks : bread(p, b)
  \/ \E v \in Vals : log_write(p, v)
  \/ brelse(p)
  \/ end_op_more(p) \/ end_op_last(p)

Commit(p) ==
  \/ write_log(p) \/ write_head(p) \/ install_trans(p) \/ erase_head(p)
  \/ end_commit(p)

Recover == read_head \/ install_recovering \/ clear_log

Next ==
  \/ \E p \in Procs : SystemCall(p) \/ Commit(p)
  \/ \E b \in Blocks : recycle(b)
  \/ Recover
  \/ Crash

Spec == Init /\ [][Next]_vars

-----------------------------------------------------------------------------
(* Properties                                                              *)

\* The variables of log.c and of the model have their types.
TypeOK ==
  /\ disk \in [Blocks -> Vals \cup {Torn}]
  /\ dlog \in [Slots -> Vals \cup {Torn}]
  /\ dhead \in Seq(Blocks) /\ lh \in Seq(Blocks)
  /\ cache \in [Blocks -> Vals \cup {Torn, NoBuf}]
  /\ pins \in [Blocks -> Nat]
  /\ outstanding \in Nat /\ committing \in BOOLEAN
  /\ pc \in [Procs -> {"out", "asleep", "begin", "in",
                       "write_log", "install", "end_commit"}]
  /\ buf \in [Procs -> Blocks \cup {NoBuf}]
  /\ wrote \in [Procs -> SUBSET Blocks]
  /\ tail \in [Procs -> Nat \ {0}]
  /\ mode \in {"read_head", "install", "up"}
  /\ rtail \in Nat \ {0} /\ crashes \in 0..MAXCRASH

\* No panic() of log.c is reached: log_write() always finds room for a block
\* and is inside a system call, and end_op() never meets a commit in progress.
NoPanic ==
  \A p \in Procs : pc[p] = "in" =>
    /\ ~committing
    /\ buf[p] # NoBuf => ~TooBig /\ outstanding >= 1

\* "max # of blocks any FS op writes" (param.h): a system call that has logged
\* fewer than MAXOPBLOCKS blocks still finds room for one in the log.
ReservationHonoured ==
  \A p \in Procs :
    pc[p] = "in" /\ Cardinality(wrote[p]) < MAXOPBLOCKS => ~TooBig

\* The variables have their types, and bpin() and bunpin() balance:
\* exactly the logged blocks that commit() has not installed yet are pinned, each
\* once, so a buffer with uncommitted contents is never recycled and none stays
\* pinned after the commit.
PinBalance ==
  /\ TypeOK
  /\ \A b \in Blocks :
       pins[b] = Cardinality({i \in DOMAIN lh :
                     /\ mode = "up" /\ lh[i] = b
                     /\ \A p \in Procs : pc[p] = "install" => i >= tail[p]})

\* What recovery makes of the disk: the committed blocks come from the log.
Recovered ==
  [b \in Blocks |->
     LET at == {i \in DOMAIN dhead : dhead[i] = b}
     IN  IF at = {} THEN disk[b] ELSE dlog[CHOOSE i \in at : TRUE]]

AD == INSTANCE AtomicDisk WITH
  Calls <- Procs,
  stable <- Recovered,
  volatile <- [b \in Blocks |-> IF cache[b] # NoBuf THEN cache[b] ELSE Recovered[b]],
  active <- {p \in Procs : pc[p] = "in"}

\* log.c implements AtomicDisk: after a power failure at any point, during
\* recovery included, the file system holds the effects of all the system calls
\* up to some commit and nothing of the others.
Atomic == AD!Spec

\* begin_op() never sleeps through the wakeup() that end_op() owes it: while a
\* process sleeps there is a commit or a system call in progress, and its end
\* wakes the process up.
NoLostWakeup ==
  \A p \in Procs : pc[p] = "asleep" => committing \/ outstanding > 0
=============================================================================
