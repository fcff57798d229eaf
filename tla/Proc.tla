-------------------------------- MODULE Proc --------------------------------
(***************************************************************************)
(* Processes (kernel/proc.c): the table of slots, fork(), exit(), wait(),  *)
(* kill(), the per-CPU scheduler and sleep()/wakeup().                     *)
(*                                                                         *)
(* A process executes its kernel code only while it is the current process *)
(* of a CPU.  Fields of a slot are protected by its p->lock, parent links  *)
(* by wait_lock.  A section of code that needs a single lock and keeps it  *)
(* to its end is one action, guarded by that lock being free; a lock that  *)
(* is kept while another one is awaited has its holder recorded in plock   *)
(* or wait_lock, and every point where code waits for a lock is a label.   *)
(* Files, memory and the trapframe are the business of other modules.      *)
(***************************************************************************)
EXTENDS Integers, FiniteSets, FiniteSetsExt

CONSTANTS NPROC,      \* slots of the process table
          CPUs,
          MAXPID,     \* bound on the pids handed out
          KillPids    \* pids that kill() is called with

ASSUME ProcConstants ==
  NPROC \in Nat \ {0} /\ MAXPID \in Nat \ {0} /\ KillPids \subseteq Nat

Procs == 1..NPROC
None == 0
initproc == 1

VARIABLES
  \* Slots of the table
  state, chan, killed, pid, parent,
  plock,        \* process holding p->lock, or None
  wait_lock,    \* process holding wait_lock, or None
  nextpid,
  \* CPUs
  current,      \* cpu->proc
  scan,         \* slot that scheduler() looks at next
  \* Kernel threads of the processes
  pc,
  np,           \* child in fork(); slot reached by the loop of wait()
  todo,         \* slots that wakeup() has not visited yet
  wchan,        \* argument of wakeup()
  back          \* label that wakeup() returns to

slotVars == <<state, chan, killed, pid, parent, nextpid>>
lockVars == <<plock, wait_lock>>
cpuVars == <<current, scan>>
threadVars == <<pc, np, todo, wchan, back>>
vars == <<slotVars, lockVars, cpuVars, threadVars>>

\* userinit() has made the first process; every CPU is in scheduler().
Init ==
  /\ state = [p \in Procs |-> IF p = initproc THEN "RUNNABLE" ELSE "UNUSED"]
  /\ chan = [p \in Procs |-> None]
  /\ killed = [p \in Procs |-> FALSE]
  /\ pid = [p \in Procs |-> IF p = initproc THEN 1 ELSE 0]
  /\ parent = [p \in Procs |-> None]
  /\ nextpid = 2
  /\ plock = [p \in Procs |-> None]
  /\ wait_lock = None
  /\ current = [c \in CPUs |-> None]
  /\ scan = [c \in CPUs |-> 1]
  /\ pc = [p \in Procs |-> "user"]
  /\ np = [p \in Procs |-> 1]
  /\ todo = [p \in Procs |-> {}]
  /\ wchan = [p \in Procs |-> None]
  /\ back = [p \in Procs |-> "user"]

-----------------------------------------------------------------------------
\* Process p is executing, and is at label a.
At(p, a) == pc[p] = a /\ \E c \in CPUs : current[c] = p
Goto(p, a) == pc' = [pc EXCEPT ![p] = a]
Free(p) == plock[p] = None

\* A process that is about to make a system call: usertrap() lets a killed
\* one get no further than exit().
User(p) == At(p, "user") /\ ~killed[p]

Children(p) == {q \in Procs : parent[q] = p}

\* freeproc(q)
Freed(q) ==
  /\ state' = [state EXCEPT ![q] = "UNUSED"]
  /\ pid' = [pid EXCEPT ![q] = 0]
  /\ parent' = [parent EXCEPT ![q] = None]
  /\ chan' = [chan EXCEPT ![q] = None]
  /\ killed' = [killed EXCEPT ![q] = FALSE]

-----------------------------------------------------------------------------
(* scheduler(), sched(), yield()                                           *)

NextSlot(i) == IF i = NPROC THEN 1 ELSE i + 1

\* swtch() from p to the scheduler of its CPU, which releases p->lock and goes
\* on to the next slot.
Swtch(p) ==
  /\ \E c \in CPUs :
       /\ current[c] = p
       /\ current' = [current EXCEPT ![c] = None]
       /\ scan' = [scan EXCEPT ![c] = NextSlot(scan[c])]
  /\ plock' = [plock EXCEPT ![p] = None]

\* The process that is switched to tidies up (sleep() clears p->chan) and
\* releases its lock.
scheduler(c) ==
  LET p == scan[c]
  IN  /\ current[c] = None /\ Free(p)
      /\ \/ /\ state[p] = "RUNNABLE"
            /\ state' = [state EXCEPT ![p] = "RUNNING"]
            /\ current' = [current EXCEPT ![c] = p]
            /\ chan' = [chan EXCEPT ![p] = None]
            /\ UNCHANGED scan
         \/ /\ state[p] # "RUNNABLE"
            /\ scan' = [scan EXCEPT ![c] = NextSlot(p)]
            /\ UNCHANGED <<state, current, chan>>
      /\ UNCHANGED <<killed, pid, parent, nextpid, lockVars, threadVars>>

\* A timer interrupt in user space, or between two critical sections of fork().
\* Elsewhere the process holds a lock or spins for one, with interrupts off; to be
\* preempted just before that comes to the same as to be preempted in user space,
\* or to be scheduled later at the end of sleep().
yield(p) ==
  /\ At(p, "user") \/ At(p, "fork_parent") \/ At(p, "fork_run")
  /\ Free(p)
  /\ state' = [state EXCEPT ![p] = "RUNNABLE"]
  /\ Swtch(p)
  /\ UNCHANGED <<chan, killed, pid, parent, nextpid, wait_lock, threadVars>>

-----------------------------------------------------------------------------
(* fork()                                                                  *)

\* allocproc() up to release(&np->lock).  p->killed is not initialised.
fork(p, q) ==
  /\ User(p)
  /\ state[q] = "UNUSED" /\ Free(q)
  /\ nextpid <= MAXPID
  /\ state' = [state EXCEPT ![q] = "USED"]
  /\ pid' = [pid EXCEPT ![q] = nextpid]
  /\ nextpid' = nextpid + 1
  /\ np' = [np EXCEPT ![p] = q]
  /\ Goto(p, "fork_parent")
  /\ UNCHANGED <<chan, killed, parent, lockVars, cpuVars, todo, wchan, back>>

\* kalloc(), proc_pagetable() or uvmcopy() fails.  (The other failure, no free
\* slot, changes nothing.)
fork_fail(p, q) ==
  /\ User(p)
  /\ state[q] = "UNUSED" /\ Free(q)
  /\ nextpid <= MAXPID
  /\ nextpid' = nextpid + 1
  /\ Freed(q)
  /\ UNCHANGED <<lockVars, cpuVars, threadVars>>

fork_parent(p) ==
  /\ At(p, "fork_parent") /\ wait_lock = None
  /\ parent' = [parent EXCEPT ![np[p]] = p]
  /\ Goto(p, "fork_run")
  /\ UNCHANGED <<state, chan, killed, pid, nextpid, lockVars, cpuVars,
                 np, todo, wchan, back>>

fork_run(p) ==
  /\ At(p, "fork_run") /\ Free(np[p])
  /\ state' = [state EXCEPT ![np[p]] = "RUNNABLE"]
  /\ pc' = [pc EXCEPT ![p] = "user", ![np[p]] = "user"]
  /\ UNCHANGED <<chan, killed, pid, parent, nextpid, lockVars, cpuVars,
                 np, todo, wchan, back>>

-----------------------------------------------------------------------------
(* wakeup(), called from exit() with wait_lock held                        *)

\* p calls wakeup(ch) and continues at label a.
CallWakeup(p, ch, a) ==
  /\ todo' = [todo EXCEPT ![p] = Procs \ {p}]
  /\ wchan' = [wchan EXCEPT ![p] = ch]
  /\ back' = [back EXCEPT ![p] = a]
  /\ Goto(p, "wakeup")

\* Mutant: the loop does not advance.
wakeup_stuck(p) ==
  LET q == Min(todo[p])
  IN  /\ At(p, "wakeup") /\ todo[p] # {} /\ Free(q)
      /\ state' = IF state[q] = "SLEEPING" /\ chan[q] = wchan[p]
                    THEN [state EXCEPT ![q] = "RUNNABLE"] ELSE state
      /\ UNCHANGED <<chan, killed, pid, parent, nextpid, lockVars, cpuVars, threadVars>>

wakeup(p) ==
  LET q == Min(todo[p])
  IN  /\ At(p, "wakeup") /\ todo[p] # {} /\ Free(q)
      /\ state' = IF state[q] = "SLEEPING" /\ chan[q] = wchan[p]
                    THEN [state EXCEPT ![q] = "RUNNABLE"] ELSE state
      /\ todo' = [todo EXCEPT ![p] = @ \ {q}]
      /\ UNCHANGED <<chan, killed, pid, parent, nextpid, lockVars, cpuVars,
                     pc, np, wchan, back>>

wakeup_return(p) ==
  /\ At(p, "wakeup") /\ todo[p] = {}
  /\ Goto(p, back[p])
  /\ UNCHANGED <<slotVars, lockVars, cpuVars, np, todo, wchan, back>>

-----------------------------------------------------------------------------
(* exit()                                                                  *)

\* Called by the program, or by usertrap() for a killed process.
exit(p) ==
  /\ At(p, "user") /\ p # initproc        \* else panic("init exiting")
  /\ Goto(p, "exit")
  /\ UNCHANGED <<slotVars, lockVars, cpuVars, np, todo, wchan, back>>

exit_acquire(p) ==
  /\ At(p, "exit") /\ wait_lock = None
  /\ wait_lock' = p
  /\ Goto(p, "reparent")
  /\ UNCHANGED <<slotVars, plock, cpuVars, np, todo, wchan, back>>

\* reparent(): one child is given to init, which is woken up.
reparent(p) ==
  /\ At(p, "reparent") /\ Children(p) # {}
  /\ parent' = [parent EXCEPT ![Min(Children(p))] = initproc]
  /\ CallWakeup(p, initproc, "reparent")
  /\ UNCHANGED <<state, chan, killed, pid, nextpid, lockVars, cpuVars, np>>

\* Mutant: exit() goes on before reparent() is done.
exit_wakeup_early(p) ==
  /\ At(p, "reparent")
  /\ CallWakeup(p, parent[p], "exit_zombie")
  /\ UNCHANGED <<slotVars, lockVars, cpuVars, np>>

\* No child is left: wakeup(p->parent).
exit_wakeup(p) ==
  /\ At(p, "reparent") /\ Children(p) = {}
  /\ CallWakeup(p, parent[p], "exit_zombie")
  /\ UNCHANGED <<slotVars, lockVars, cpuVars, np>>

exit_zombie(p) ==
  /\ At(p, "exit_zombie") /\ Free(p)
  /\ plock' = [plock EXCEPT ![p] = p]
  /\ state' = [state EXCEPT ![p] = "ZOMBIE"]
  /\ wait_lock' = None
  /\ Goto(p, "exit_sched")
  /\ UNCHANGED <<chan, killed, pid, parent, nextpid, cpuVars,
                 np, todo, wchan, back>>

exit_sched(p) ==
  /\ At(p, "exit_sched")
  /\ Swtch(p)
  /\ UNCHANGED <<slotVars, wait_lock, threadVars>>

-----------------------------------------------------------------------------
(* wait() and sleep()                                                      *)

wait(p) ==
  /\ User(p)
  /\ Goto(p, "wait")
  /\ UNCHANGED <<slotVars, lockVars, cpuVars, np, todo, wchan, back>>

\* acquire(&wait_lock), on entry or at the end of sleep(), and the start of a
\* scan of the table.
wait_acquire(p) ==
  /\ At(p, "wait") /\ wait_lock = None
  /\ wait_lock' = p
  /\ np' = [np EXCEPT ![p] = 1]
  /\ Goto(p, "wait_scan")
  /\ UNCHANGED <<slotVars, plock, cpuVars, todo, wchan, back>>

\* Children that the scan has still to look at.  Parent links are stable while
\* p holds wait_lock.
Unscanned(p) == {q \in Children(p) : q >= np[p]}

wait_skip(p) ==
  LET q == Min(Unscanned(p))
  IN  /\ At(p, "wait_scan") /\ Unscanned(p) # {}
      /\ Free(q) /\ state[q] # "ZOMBIE"
      /\ np' = [np EXCEPT ![p] = q + 1]
      /\ UNCHANGED <<slotVars, lockVars, cpuVars, pc, todo, wchan, back>>

\* Mutant: wait() does not take np->lock.
wait_reap_unlocked(p) ==
  LET q == Min(Unscanned(p))
  IN  /\ At(p, "wait_scan") /\ Unscanned(p) # {}
      /\ state[q] = "ZOMBIE"
      /\ Freed(q)
      /\ wait_lock' = None
      /\ Goto(p, "user")
      /\ UNCHANGED <<nextpid, plock, cpuVars, np, todo, wchan, back>>

wait_reap(p) ==
  LET q == Min(Unscanned(p))
  IN  /\ At(p, "wait_scan") /\ Unscanned(p) # {}
      /\ Free(q) /\ state[q] = "ZOMBIE"
      /\ Freed(q)
      /\ wait_lock' = None
      /\ Goto(p, "user")
      /\ UNCHANGED <<nextpid, plock, cpuVars, np, todo, wchan, back>>

\* copyout() of the exit status fails: the child stays a zombie.  init passes
\* a null address and cannot fail.
wait_copyout_fail(p) ==
  LET q == Min(Unscanned(p))
  IN  /\ At(p, "wait_scan") /\ Unscanned(p) # {} /\ p # initproc
      /\ Free(q) /\ state[q] = "ZOMBIE"
      /\ wait_lock' = None
      /\ Goto(p, "user")
      /\ UNCHANGED <<slotVars, plock, cpuVars, np, todo, wchan, back>>

\* No children, or killed.
wait_give_up(p) ==
  /\ At(p, "wait_scan") /\ Unscanned(p) = {}
  /\ Children(p) = {} \/ killed[p]
  /\ wait_lock' = None
  /\ Goto(p, "user")
  /\ UNCHANGED <<slotVars, plock, cpuVars, np, todo, wchan, back>>

wait_sleep(p) ==
  /\ At(p, "wait_scan") /\ Unscanned(p) = {}
  /\ Children(p) # {} /\ ~killed[p]
  /\ Goto(p, "sleep")
  /\ UNCHANGED <<slotVars, lockVars, cpuVars, np, todo, wchan, back>>

\* Mutant: p->lock is not acquired before lk is released.
sleep_unlocked(p) ==
  /\ At(p, "sleep") /\ Free(p)
  /\ wait_lock' = None
  /\ Goto(p, "sleep_sched")
  /\ UNCHANGED <<slotVars, plock, cpuVars, np, todo, wchan, back>>

\* sleep(p, &wait_lock): acquire(&p->lock), release(lk).
sleep(p) ==
  /\ At(p, "sleep") /\ Free(p)
  /\ plock' = [plock EXCEPT ![p] = p]
  /\ wait_lock' = None
  /\ Goto(p, "sleep_sched")
  /\ UNCHANGED <<slotVars, cpuVars, np, todo, wchan, back>>

sleep_sched(p) ==
  /\ At(p, "sleep_sched")
  /\ chan' = [chan EXCEPT ![p] = p]
  /\ state' = [state EXCEPT ![p] = "SLEEPING"]
  /\ Swtch(p)
  /\ Goto(p, "wait")
  /\ UNCHANGED <<killed, pid, parent, nextpid, wait_lock, np, todo, wchan, back>>

-----------------------------------------------------------------------------
\* kill(k): the first slot with that pid.
kill(p, k) ==
  LET found == {q \in Procs : pid[q] = k}
      q == Min(found)
  IN  /\ User(p) /\ found # {} /\ Free(q)
      /\ killed' = [killed EXCEPT ![q] = TRUE]
      /\ state' = IF state[q] = "SLEEPING"
                    THEN [state EXCEPT ![q] = "RUNNABLE"] ELSE state
      /\ UNCHANGED <<chan, pid, parent, nextpid, lockVars, cpuVars, threadVars>>

\* Steps that a process takes once it is in the kernel.
Kernel(p) ==
  \/ fork_parent(p) \/ fork_run(p)
  \/ wakeup(p) \/ wakeup_return(p)
  \/ reparent(p) \/ exit_wakeup(p) \/ exit_zombie(p) \/ exit_sched(p)
  \/ exit_acquire(p) \/ wait_acquire(p)
  \/ wait_skip(p) \/ wait_reap(p) \/ wait_copyout_fail(p)
  \/ wait_give_up(p) \/ wait_sleep(p)
  \/ sleep(p) \/ sleep_sched(p)

\* System calls and exits.
Call(p) ==
  \/ \E q \in Procs : fork(p, q) \/ fork_fail(p, q)
  \/ exit(p)
  \/ wait(p)
  \/ \E k \in KillPids : kill(p, k)

Next ==
  \/ \E p \in Procs : Kernel(p) \/ Call(p) \/ yield(p)
  \/ \E c \in CPUs : scheduler(c)

Spec == Init /\ [][Next]_vars

\* What a process cannot put off: its steps in the kernel, the exit() that
\* usertrap() makes of a killed process, and the wait() loop of user/init.c.
Obliged(p) ==
  \/ Kernel(p)
  \/ killed[p] /\ exit(p)
  \/ p = initproc /\ wait(p)

\* Spin locks are granted fairly and timer interrupts keep coming.  Nothing
\* else makes a program do a system call.
Fairness ==
  /\ \A c \in CPUs : SF_vars(scheduler(c))
  /\ \A p \in Procs : SF_vars(Obliged(p)) /\ SF_vars(yield(p))

FairSpec == Spec /\ Fairness

-----------------------------------------------------------------------------
(* Properties                                                              *)

\* Every variable has its type.
TypeOK ==
  /\ state \in [Procs -> {"UNUSED", "USED", "SLEEPING", "RUNNABLE", "RUNNING",
                          "ZOMBIE"}]
  /\ chan \in [Procs -> Procs \cup {None}]
  /\ killed \in [Procs -> BOOLEAN]
  /\ pid \in [Procs -> 0..MAXPID]
  /\ parent \in [Procs -> Procs \cup {None}]
  /\ nextpid \in 2..(MAXPID + 1)
  /\ plock \in [Procs -> Procs \cup {None}]
  /\ wait_lock \in Procs \cup {None}
  /\ current \in [CPUs -> Procs \cup {None}]
  /\ scan \in [CPUs -> Procs]
  /\ pc \in [Procs -> {"user", "fork_parent", "fork_run", "wakeup", "reparent",
                       "exit", "exit_zombie", "exit_sched", "wait", "wait_scan",
                       "sleep", "sleep_sched"}]
  /\ np \in [Procs -> 1..(NPROC + 1)]
  /\ todo \in [Procs -> SUBSET Procs]
  /\ wchan \in [Procs -> Procs \cup {None}]
  /\ back \in [Procs -> {"user", "reparent", "exit_zombie"}]

\* A process about to switch to the scheduler holds p->lock and no other lock.
SchedLocks ==
  \A p \in Procs : pc[p] \in {"sleep_sched", "exit_sched"} /\ state[p] # "UNUSED"
    /\ (\E c \in CPUs : current[c] = p) =>
      plock[p] = p /\ wait_lock # p /\ \A q \in Procs \ {p} : plock[q] # p

\* Every variable has its type, and a process is current on at most one CPU,
\* exactly while it is RUNNING or on its way out of exit() with its lock still
\* held.  In particular wait() never frees a child that is still executing on its
\* kernel stack, and sched() is entered with p->lock held and no other lock
\* ("sched locks").
OneCPU ==
  /\ TypeOK
  /\ \A c, d \in CPUs : current[c] = current[d] /\ current[c] # None => c = d
  /\ \A p \in Procs :
       (\E c \in CPUs : current[c] = p) <=>
         (state[p] = "RUNNING" \/ (state[p] = "ZOMBIE" /\ plock[p] = p))
  /\ SchedLocks

\* Every process that has started has a parent that can still wait for it:
\* exit() leaves no child behind, even one whose fork() has not finished.
ParentAlive ==
  \A p \in Procs \ {initproc} :
    state[p] \notin {"UNUSED", "USED"} =>
      parent[p] # None /\ state[parent[p]] \notin {"UNUSED", "USED", "ZOMBIE"}

\* No lost wakeup: a process asleep in wait() has no zombie child, unless the
\* process that holds wait_lock is about to wake it up.
NoLostWakeup ==
  \A p, q \in Procs :
    state[p] = "SLEEPING" /\ parent[q] = p /\ state[q] = "ZOMBIE" =>
      \E r \in Procs : /\ wait_lock = r /\ pc[r] = "wakeup"
                       /\ wchan[r] = p /\ p \in todo[r]

\* p->killed, "If non-zero, have been killed" (proc.h): a process that starts
\* life has not been killed before it existed.
KilledFresh ==
  [][\A q \in Procs : state[q] = "UNUSED" /\ state'[q] = "USED" => ~killed'[q]]_vars

\* scheduler()'s scan starves nobody: every runnable process runs; exit() gets all
\* the locks it needs and its process becomes a zombie; init, which must run for
\* that, reaps every zombie that is, or is made, its child.
ExitEnds ==
  \A p \in Procs \ {initproc} :
    /\ state[p] = "RUNNABLE" ~> state[p] # "RUNNABLE"
    /\ pc[p] = "exit" ~> state[p] \in {"ZOMBIE", "UNUSED"}
    /\ state[p] = "ZOMBIE" /\ parent[p] = initproc ~> state[p] = "UNUSED"

\* "Kill the process with the given pid": a killed process exits.
KilledExits ==
  \A p \in Procs : killed[p] ~> state[p] \in {"ZOMBIE", "UNUSED"}
=============================================================================
