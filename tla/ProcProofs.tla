---------------------------- MODULE ProcProofs ------------------------------
(***************************************************************************)
(* Proofs about module Proc, for any number of slots, CPUs and pids: the   *)
(* inductive invariant, the slots that the loops of the code look at, the  *)
(* steps of every operation, and the theorems.                             *)
(***************************************************************************)
EXTENDS Proc, TLAPS

-----------------------------------------------------------------------------
(* The inductive invariant                                                 *)

Exec(p) == \E c \in CPUs : current[c] = p

\* Labels at which a process holds wait_lock, and those of exit().
Waitlocked == {"wakeup", "reparent", "exit_zombie", "wait_scan", "sleep"}
Exiting == {"exit", "wakeup", "reparent", "exit_zombie", "exit_sched"}

\* The state of a slot says which labels its process can be at.
States ==
  \A p \in Procs :
    /\ state[p] \in {"UNUSED", "USED"} => pc[p] \in {"user", "exit_sched"}
    /\ state[p] = "ZOMBIE" => pc[p] = "exit_sched"
    /\ state[p] = "SLEEPING" => pc[p] = "wait" /\ chan[p] = p
    /\ state[p] = "RUNNABLE" => pc[p] \in {"user", "fork_parent", "fork_run", "wait"}
    /\ state[p] = "RUNNING" => pc[p] # "exit_sched"

\* One CPU for a running process; a zombie runs until it has given its lock up.
Running ==
  /\ \A c, d \in CPUs : current[c] = current[d] /\ current[c] # None => c = d
  /\ \A p \in Procs :
       Exec(p) <=> state[p] = "RUNNING" \/ (state[p] = "ZOMBIE" /\ plock[p] = p)

\* Who holds which lock.
Locks ==
  /\ \A p \in Procs : plock[p] = p <=> pc[p] \in {"sleep_sched", "exit_sched"} /\ Exec(p)
  /\ \A p \in Procs : plock[p] \in {None, p}
  /\ \A p \in Procs : wait_lock = p <=> pc[p] \in Waitlocked

\* init lives for ever and has no parent.
InitLives ==
  /\ state[initproc] \in {"SLEEPING", "RUNNABLE", "RUNNING"}
  /\ parent[initproc] = None
  /\ pc[initproc] \notin Exiting

\* A child that fork() has not finished belongs to the one process that made it.
Forking ==
  \A p \in Procs : pc[p] \in {"fork_parent", "fork_run"} =>
    /\ np[p] \in Procs /\ state[np[p]] = "USED"
    /\ parent[np[p]] = IF pc[p] = "fork_run" THEN p ELSE None

ForkDistinct ==
  \A p, q \in Procs :
    /\ pc[p] \in {"fork_parent", "fork_run"} /\ pc[q] \in {"fork_parent", "fork_run"}
    /\ np[p] = np[q]
    => p = q

\* Parents are alive; only started processes and those in fork() have one.
Family ==
  \A q \in Procs :
    /\ parent[q] # None =>
         /\ state[q] # "UNUSED"
         /\ state[parent[q]] \in {"SLEEPING", "RUNNABLE", "RUNNING"}
    /\ q # initproc /\ state[q] \notin {"UNUSED", "USED"} => parent[q] # None

\* exit() after reparent(): no child is left, and the parent is woken up.
LateExit(p) == pc[p] = "exit_zombie" \/ (pc[p] = "wakeup" /\ back[p] = "exit_zombie")

SleepsOrWill(p) == state[p] = "SLEEPING" \/ pc[p] = "sleep_sched"

Exits ==
  \A p \in Procs :
    /\ pc[p] = "wakeup" => back[p] \in {"reparent", "exit_zombie"}
    /\ pc[p] = "exit_zombie" => todo[p] = {}

LateExits ==
  \A p \in Procs : LateExit(p) =>
    /\ \A q \in Procs : parent[q] # p
    /\ wchan[p] = parent[p]
    /\ parent[p] \in todo[p] \/ ~SleepsOrWill(parent[p])

\* What wait() has seen while it holds wait_lock.
Scanned ==
  \A p, q \in Procs :
    parent[q] = p /\ (pc[p] = "sleep" \/ (pc[p] = "wait_scan" /\ q < np[p])) =>
      state[q] # "ZOMBIE"

\* NoLostWakeup, also for a process on its way to sleep.
NoneLost ==
  \A p, q \in Procs :
    SleepsOrWill(p) /\ parent[q] = p /\ state[q] = "ZOMBIE" =>
      \E r \in Procs : /\ wait_lock = r /\ pc[r] = "wakeup"
                       /\ wchan[r] = p /\ p \in todo[r]

IInv ==
  /\ TypeOK /\ States /\ Running /\ Locks /\ InitLives /\ Forking /\ ForkDistinct
  /\ Family /\ Exits /\ LateExits /\ Scanned /\ NoneLost

-----------------------------------------------------------------------------
(* The slots that the loops of the code look at                            *)

\* The least element of a set of slots belongs to it.  Lemma MinIn shows it, from the
\* well-foundedness of the natural numbers.
MinBelongs ==
  \A S \in SUBSET Procs : S # {} => Min(S) \in S /\ \A x \in S : Min(S) <= x

\* Slots are numbers.
LEMMA Slots == /\ initproc \in Procs /\ None \notin Procs /\ Procs \subseteq Nat
               /\ \A i \in Procs : i \in 1..(NPROC + 1) /\ i + 1 \in 1..(NPROC + 1)
               /\ 1 \in Procs
  BY ProcConstants DEF Procs, initproc, None, NextSlot

\* The first process, and no process.
LEMMA Ids == initproc \in Procs /\ None \notin Procs
  BY Slots, Zenon

\* The slot after a slot.
LEMMA NextSlotIn == \A i \in Procs : NextSlot(i) \in Procs
  BY ProcConstants DEF Procs, NextSlot

\* The slot that the loop of wait() looks at next is that of a child, and it skips
\* no child.
LEMMA UnscannedMin ==
  ASSUME MinBelongs, TypeOK, NEW p \in Procs, Unscanned(p) # {}
  PROVE  /\ Min(Unscanned(p)) \in Procs /\ parent[Min(Unscanned(p))] = p
         /\ \A x \in Procs : parent[x] = p /\ x < Min(Unscanned(p)) => x < np[p]
<1>1. Unscanned(p) \subseteq Procs
  BY Zenon DEF Unscanned, Children
<1>2. Min(Unscanned(p)) \in Unscanned(p) /\ \A x \in Unscanned(p) : Min(Unscanned(p)) <= x
  BY <1>1, Zenon DEF MinBelongs
<1>3. np[p] \in Nat /\ Procs \subseteq Nat
  BY ProcConstants DEF TypeOK, Procs
<1>4. Min(Unscanned(p)) \in Procs /\ parent[Min(Unscanned(p))] = p
  BY <1>2, Zenon DEF Unscanned, Children
<1>5. ASSUME NEW x \in Procs, parent[x] = p, x < Min(Unscanned(p)), ~(x < np[p])
      PROVE  FALSE
  <2>1. x \in Unscanned(p)
    BY <1>3, <1>5 DEF Unscanned, Children
  <2>2. \A m \in Nat, y \in Nat : ~(m <= y /\ y < m)
    OBVIOUS
  <2> QED BY <1>2, <1>3, <1>4, <1>5, <2>1, <2>2, Zenon
<1> QED BY <1>4, <1>5, Zenon

\* The slot that reparent() looks at next is that of a child.
LEMMA ChildrenMin ==
  ASSUME MinBelongs, NEW p, Children(p) # {}
  PROVE  Min(Children(p)) \in Procs /\ parent[Min(Children(p))] = p
<1>1. Children(p) \subseteq Procs
  BY Zenon DEF Children
<1>2. Min(Children(p)) \in Children(p)
  BY <1>1, Zenon DEF MinBelongs
<1> QED BY <1>2, Zenon DEF Children

\* The slot that wakeup() looks at next.
LEMMA TodoMin ==
  ASSUME MinBelongs, TypeOK, NEW p \in Procs, todo[p] # {}
  PROVE  Min(todo[p]) \in todo[p] /\ Min(todo[p]) \in Procs
<1>1. todo[p] \subseteq Procs
  BY Zenon DEF TypeOK
<1> QED BY <1>1, Zenon DEF MinBelongs

\* The slot that kill() finds.
LEMMA PidMin ==
  ASSUME MinBelongs, NEW k, {x \in Procs : pid[x] = k} # {}
  PROVE  Min({x \in Procs : pid[x] = k}) \in Procs
<1> DEFINE S == {x \in Procs : pid[x] = k}
<1>1. S \subseteq Procs /\ S # {}
  OBVIOUS
<1> HIDE DEF S
<1>2. Min(S) \in S
  BY <1>1, Zenon DEF MinBelongs
<1> QED BY <1>2, Zenon DEF S

-----------------------------------------------------------------------------
(* Types and initial states                                                *)

\* Types.
LEMMA TypeStep ==
  ASSUME MinBelongs, TypeOK, [Next]_vars
  PROVE  TypeOK'
<1> USE DEF TypeOK, slotVars, lockVars, cpuVars, threadVars, Goto
<1>1. ASSUME NEW p \in Procs, Kernel(p) PROVE TypeOK'
  <2>1. CASE fork_parent(p)
    BY <2>1, Zenon DEF fork_parent
  <2>2. CASE fork_run(p)
    BY <2>2, Zenon DEF fork_run
  <2>3. CASE wakeup(p) \/ wakeup_return(p)
    BY <2>3 DEF wakeup, wakeup_return
  <2>4. CASE reparent(p)
    BY <2>4, Slots, Zenon DEF reparent, CallWakeup
  <2>13. CASE exit_wakeup(p)
    BY <2>13, Zenon DEF exit_wakeup, CallWakeup
  <2>5. CASE exit_acquire(p) \/ exit_zombie(p)
    BY <2>5 DEF exit_acquire, exit_zombie
  <2>6. CASE exit_sched(p)
    BY <2>6, NextSlotIn DEF exit_sched, Swtch
  <2>7. CASE wait_acquire(p)
    BY <2>7, Slots, Zenon DEF wait_acquire
  <2>8. CASE wait_skip(p)
    <3>1. Min(Unscanned(p)) \in Procs
      BY <2>8, UnscannedMin, Zenon DEF wait_skip
    <3> QED BY <2>8, <3>1, Slots, Zenon DEF wait_skip
  <2>9. CASE wait_reap(p)
    <3>1. 0 \in 0..MAXPID
      BY ProcConstants
    <3> QED BY <2>9, <3>1, Zenon DEF wait_reap, Freed
  <2>10. CASE wait_copyout_fail(p) \/ wait_give_up(p) \/ wait_sleep(p)
    BY <2>10 DEF wait_copyout_fail, wait_give_up, wait_sleep
  <2>11. CASE sleep(p)
    BY <2>11, Zenon DEF sleep
  <2>12. CASE sleep_sched(p)
    BY <2>12, NextSlotIn DEF sleep_sched, Swtch
  <2> QED BY <1>1, <2>1, <2>2, <2>3, <2>4, <2>5, <2>6, <2>7, <2>8, <2>9, <2>10,
             <2>11, <2>12, Zenon,
      <2>13 DEF Kernel
<1>2. ASSUME NEW p \in Procs, NEW q \in Procs, fork(p, q) PROVE TypeOK'
  <2>1. nextpid \in 0..MAXPID /\ nextpid + 1 \in 2..(MAXPID + 1) /\ q \in 1..(NPROC + 1)
    BY <1>2, ProcConstants, Slots DEF fork
  <2> QED BY <1>2, <2>1, Zenon DEF fork
<1>3. ASSUME NEW p \in Procs, NEW q \in Procs, fork_fail(p, q) PROVE TypeOK'
  <2>1. 0 \in 0..MAXPID /\ nextpid + 1 \in 2..(MAXPID + 1)
    BY <1>3, ProcConstants DEF fork_fail
  <2> QED BY <1>3, <2>1, Zenon DEF fork_fail, Freed
<1>4. ASSUME NEW p \in Procs, exit(p) \/ wait(p) PROVE TypeOK'
  BY <1>4 DEF exit, wait
<1>5. ASSUME NEW p \in Procs, NEW k \in KillPids, kill(p, k) PROVE TypeOK'
  BY <1>5, Zenon DEF kill
<1>6. ASSUME NEW p \in Procs, yield(p) PROVE TypeOK'
  BY <1>6, NextSlotIn DEF yield, Swtch
<1>7. ASSUME NEW c \in CPUs, scheduler(c) PROVE TypeOK'
  <2>1. scan[c] \in Procs /\ NextSlot(scan[c]) \in Procs
    BY NextSlotIn, Zenon
  <2>2. CASE state' = state
    BY <1>7, <2>1, <2>2 DEF scheduler
  <2>3. CASE scan' = scan
    BY <1>7, <2>1, <2>3 DEF scheduler
  <2> QED BY <1>7, <2>2, <2>3, Zenon DEF scheduler
<1>8. CASE UNCHANGED vars
  BY <1>8, Zenon DEF vars
<1> QED BY <1>1, <1>2, <1>3, <1>4, <1>5, <1>6, <1>7, <1>8, Zenon DEF Next, Call

\* The first process alone satisfies the invariant.
LEMMA InvInit == Init => IInv
<1> SUFFICES ASSUME Init PROVE IInv
  OBVIOUS
<1> USE Slots DEF Init
<1>1. TypeOK
  <2>1. 2 \in 2..(MAXPID + 1) /\ 0 \in 0..MAXPID /\ 1 \in 0..MAXPID /\ 1 \in 1..(NPROC + 1)
    BY ProcConstants
  <2> QED BY <2>1, Zenon DEF TypeOK
<1>2. States /\ InitLives /\ Forking /\ ForkDistinct /\ Family
  BY Zenon DEF States, InitLives, Forking, ForkDistinct, Family, Exiting, None
<1>3. Running /\ Locks
  BY Zenon DEF Running, Locks, Exec, Waitlocked
<1>4. Exits /\ LateExits /\ Scanned /\ NoneLost
  BY Zenon DEF Exits, LateExits, Scanned, NoneLost, LateExit, SleepsOrWill
<1> QED BY <1>1, <1>2, <1>3, <1>4, Zenon DEF IInv

-----------------------------------------------------------------------------
(* Steps from a label to another                                           *)

\* A process that executes is RUNNING, but for the end of exit().
LEMMA AtRuns ==
  ASSUME IInv, NEW p \in Procs, NEW l, At(p, l), l # "exit_sched"
  PROVE  pc[p] = l /\ state[p] = "RUNNING" /\ Exec(p)
  BY Zenon DEF IInv, At, Exec, Running, States

\* A process goes to a label.
LEMMA Goes ==
  ASSUME IInv, NEW p \in Procs, NEW l, Goto(p, l)
  PROVE  \A x \in Procs : pc'[x] = IF x = p THEN l ELSE pc[x]
  BY Zenon DEF IInv, TypeOK, Goto

\* Parents are slots, and a process late in exit() has one.
LEMMA Parents ==
  ASSUME IInv
  PROVE  /\ initproc \in Procs /\ None \notin Procs
         /\ \A x \in Procs : /\ parent[x] \in Procs \cup {None}
                             /\ LateExit(x) => parent[x] \in Procs
<1>1. \A x \in Procs : parent[x] \in Procs \cup {None}
  BY Zenon DEF IInv, TypeOK
<1>2. \A x \in Procs : LateExit(x) => x # initproc /\ state[x] \notin {"UNUSED", "USED"}
  BY Zenon DEF IInv, LateExit, InitLives, Exiting, States
<1> QED BY <1>1, <1>2, Ids, Zenon DEF IInv, Family

\* A process moves from one label to another and changes nothing but wait_lock and
\* its position in the loop of wait().
LabelMove(p, l) ==
  /\ state[p] = "RUNNING" /\ Exec(p)
  /\ pc[p] \in {"user", "exit", "wakeup", "wait", "wait_scan"}
  /\ \A x \in Procs : pc'[x] = IF x = p THEN l ELSE pc[x]
  /\ \A x \in Procs \ {p} : np'[x] = np[x]
  /\ UNCHANGED <<state, chan, parent, plock, current, todo, wchan, back>>

\* It releases or acquires wait_lock as its labels say.
LockMove(p, l) ==
  /\ l \in Waitlocked <=> wait_lock' = p
  /\ \A x \in Procs \ {p} : wait_lock' = x <=> wait_lock = x

\* What the label that it moves to promises.
LabelReady(p, l) ==
  /\ l \in {"user", "exit", "reparent", "exit_zombie", "wait", "wait_scan", "sleep"}
  /\ l \in Exiting => p # initproc
  /\ l = "exit_zombie" => LateExit(p)
  /\ pc[p] = "wakeup" => todo[p] = {}
  /\ \A q \in Procs : parent[q] = p /\ (l = "sleep" \/ (l = "wait_scan" /\ q < np'[p])) =>
       state[q] # "ZOMBIE"

\* Such a move preserves the invariant.
LEMMA LabelStep ==
  ASSUME IInv, TypeOK', NEW p \in Procs, NEW l, LabelMove(p, l), LockMove(p, l), LabelReady(p, l)
  PROVE  IInv'
<1>1. \A x \in Procs : /\ Exec(x)' <=> Exec(x)
                       /\ SleepsOrWill(x)' <=> SleepsOrWill(x)
                       /\ LateExit(x)' => LateExit(x)
  BY Zenon DEF LabelMove, LabelReady, Exec, SleepsOrWill, LateExit
<1>2. States'
  BY Zenon DEF IInv, LabelMove, LabelReady, States
<1>3. Running'
  BY <1>1, Zenon DEF IInv, LabelMove, Running
<1>4. Locks'
  BY <1>1 DEF IInv, LabelMove, LabelReady, LockMove, Locks, Waitlocked
<1>5. InitLives'
  BY Ids, Zenon DEF IInv, LabelMove, LabelReady, InitLives
<1>6. Forking'
  BY Zenon DEF IInv, LabelMove, LabelReady, Forking
<1>7. ForkDistinct'
  BY DEF IInv, LabelMove, LabelReady, ForkDistinct
<1>8. Family'
  BY Zenon DEF IInv, LabelMove, Family
<1>9. Exits'
  BY Zenon DEF IInv, LabelMove, LabelReady, Exits, LateExit
<1>10. LateExits'
  <2> SUFFICES ASSUME NEW x \in Procs, LateExit(x)'
               PROVE  /\ \A q \in Procs : parent'[q] # x
                      /\ wchan'[x] = parent'[x]
                      /\ parent'[x] \in todo'[x] \/ ~SleepsOrWill(parent[x])'
    BY Zenon DEF LabelMove, LateExits
  <2>1. LateExit(x) /\ parent[x] \in Procs
    BY <1>1, Parents, Zenon
  <2> QED BY <1>1, <2>1, Zenon DEF IInv, LabelMove, LateExits
<1>11. Scanned'
  BY DEF IInv, LabelMove, LabelReady, Scanned
<1>12. NoneLost'
  <2> SUFFICES ASSUME NEW x \in Procs, NEW q \in Procs,
                      SleepsOrWill(x)', parent'[q] = x, state'[q] = "ZOMBIE"
               PROVE  \E r \in Procs : /\ wait_lock' = r /\ pc'[r] = "wakeup"
                                       /\ wchan'[r] = x /\ x \in todo'[r]
    BY Zenon DEF NoneLost
  <2>1. PICK r \in Procs : /\ wait_lock = r /\ pc[r] = "wakeup"
                           /\ wchan[r] = x /\ x \in todo[r]
    BY <1>1, Zenon DEF IInv, LabelMove, NoneLost
  <2>2. r # p
    BY <2>1, Zenon DEF LabelReady
  <2> QED BY <2>1, <2>2, Zenon DEF LabelMove, LockMove
<1> QED BY <1>2, <1>3, <1>4, <1>5, <1>6, <1>7, <1>8, <1>9, <1>10, <1>11, <1>12,
           Zenon DEF IInv

\* exit() is called, by the program or for a killed process.
LEMMA exit_step ==
  ASSUME IInv, TypeOK', NEW p \in Procs, exit(p)
  PROVE  IInv'
<1>1. pc[p] = "user" /\ state[p] = "RUNNING" /\ Exec(p)
  BY AtRuns, Zenon DEF exit
<1>2. LabelMove(p, "exit")
  BY <1>1, Goes, Zenon DEF exit, LabelMove, slotVars, lockVars, cpuVars
<1>3. LockMove(p, "exit")
  BY <1>1, Zenon DEF IInv, exit, LockMove, Locks, Waitlocked, lockVars
<1>4. LabelReady(p, "exit")
  BY <1>1, Zenon DEF exit, LabelReady
<1> QED BY <1>2, <1>3, <1>4, LabelStep, Zenon

\* exit() acquires wait_lock.
LEMMA exit_acquire_step ==
  ASSUME IInv, TypeOK', NEW p \in Procs, exit_acquire(p)
  PROVE  IInv'
<1>1. pc[p] = "exit" /\ state[p] = "RUNNING" /\ Exec(p)
  BY AtRuns, Zenon DEF exit_acquire
<1>2. LabelMove(p, "reparent")
  BY <1>1, Goes, Zenon DEF exit_acquire, LabelMove, slotVars, cpuVars
<1>3. LockMove(p, "reparent")
  BY <1>1, Ids, Zenon DEF exit_acquire, LockMove, Waitlocked
<1>4. LabelReady(p, "reparent")
  BY <1>1, Zenon DEF IInv, LabelReady, InitLives, Exiting
<1> QED BY <1>2, <1>3, <1>4, LabelStep, Zenon

\* The end of the loop of wakeup().
LEMMA wakeup_return_step ==
  ASSUME IInv, TypeOK', NEW p \in Procs, wakeup_return(p)
  PROVE  IInv'
<1>1. pc[p] = "wakeup" /\ state[p] = "RUNNING" /\ Exec(p)
  BY AtRuns, Zenon DEF wakeup_return
<1>2. back[p] \in {"reparent", "exit_zombie"} /\ p # initproc
  BY <1>1, Zenon DEF IInv, Exits, InitLives, Exiting
<1>3. LabelMove(p, back[p])
  BY <1>1, <1>2, Goes, Zenon DEF wakeup_return, LabelMove, slotVars, lockVars, cpuVars
<1>4. LockMove(p, back[p])
  BY <1>1, <1>2, Zenon DEF IInv, wakeup_return, LockMove, Locks, Waitlocked, lockVars
<1>5. LabelReady(p, back[p])
  BY <1>1, <1>2, Zenon DEF wakeup_return, LabelReady, LateExit
<1> QED BY <1>3, <1>4, <1>5, LabelStep, Zenon

\* wait() is called.
LEMMA wait_step ==
  ASSUME IInv, TypeOK', NEW p \in Procs, wait(p)
  PROVE  IInv'
<1>1. pc[p] = "user" /\ state[p] = "RUNNING" /\ Exec(p)
  BY AtRuns, Zenon DEF wait, User
<1>2. LabelMove(p, "wait")
  BY <1>1, Goes, Zenon DEF wait, LabelMove, slotVars, lockVars, cpuVars
<1>3. LockMove(p, "wait")
  BY <1>1, Zenon DEF IInv, wait, LockMove, Locks, Waitlocked, lockVars
<1>4. LabelReady(p, "wait")
  BY <1>1, Zenon DEF LabelReady, Exiting
<1> QED BY <1>2, <1>3, <1>4, LabelStep, Zenon

\* wait() acquires wait_lock and starts a scan.
LEMMA wait_acquire_step ==
  ASSUME IInv, TypeOK', NEW p \in Procs, wait_acquire(p)
  PROVE  IInv'
<1>1. pc[p] = "wait" /\ state[p] = "RUNNING" /\ Exec(p)
  BY AtRuns, Zenon DEF wait_acquire
<1>2. np'[p] = 1 /\ \A x \in Procs \ {p} : np'[x] = np[x]
  BY DEF IInv, wait_acquire, TypeOK
<1>3. LabelMove(p, "wait_scan")
  BY <1>1, <1>2, Goes, Zenon DEF wait_acquire, LabelMove, slotVars, cpuVars
<1>4. LockMove(p, "wait_scan")
  BY <1>1, Ids, Zenon DEF wait_acquire, LockMove, Waitlocked
<1>5. LabelReady(p, "wait_scan")
  BY <1>1, <1>2, Slots DEF LabelReady, Exiting
<1> QED BY <1>3, <1>4, <1>5, LabelStep, Zenon

\* wait() passes over a child that is not a ZOMBIE.
LEMMA wait_skip_step ==
  ASSUME MinBelongs, IInv, TypeOK', NEW p \in Procs, wait_skip(p)
  PROVE  IInv'
<1>1. pc[p] = "wait_scan" /\ state[p] = "RUNNING" /\ Exec(p)
  BY AtRuns, Zenon DEF wait_skip
<1>2. PICK q \in Procs : /\ q = Min(Unscanned(p)) /\ state[q] # "ZOMBIE"
                         /\ \A x \in Procs : parent[x] = p /\ x < q => x < np[p]
  BY UnscannedMin, Zenon DEF IInv, wait_skip
<1>3. np'[p] = q + 1 /\ \A x \in Procs \ {p} : np'[x] = np[x]
  BY <1>2 DEF IInv, wait_skip, TypeOK
<1>4. \A x \in Procs : parent[x] = p /\ x < np'[p] => state[x] # "ZOMBIE"
  BY <1>1, <1>2, <1>3, Slots DEF IInv, Scanned
<1>5. LabelMove(p, "wait_scan")
  BY <1>1, <1>3, Zenon DEF wait_skip, LabelMove, slotVars, lockVars, cpuVars
<1>6. LockMove(p, "wait_scan")
  BY <1>1, Zenon DEF IInv, wait_skip, LockMove, Locks, Waitlocked, lockVars
<1>7. LabelReady(p, "wait_scan")
  BY <1>1, <1>4, Zenon DEF LabelReady, Exiting
<1> QED BY <1>5, <1>6, <1>7, LabelStep, Zenon

\* wait() fails to copy the status out and releases both locks.
LEMMA wait_copyout_fail_step ==
  ASSUME IInv, TypeOK', NEW p \in Procs, wait_copyout_fail(p)
  PROVE  IInv'
<1>1. pc[p] = "wait_scan" /\ state[p] = "RUNNING" /\ Exec(p)
  BY AtRuns, Zenon DEF wait_copyout_fail
<1>2. LabelMove(p, "user")
  BY <1>1, Goes, Zenon DEF wait_copyout_fail, LabelMove, slotVars, cpuVars
<1>3. LockMove(p, "user")
  BY <1>1, Ids DEF IInv, wait_copyout_fail, LockMove, Locks, Waitlocked
<1>4. LabelReady(p, "user")
  BY <1>1, Zenon DEF LabelReady, Exiting
<1> QED BY <1>2, <1>3, <1>4, LabelStep, Zenon

\* wait() returns -1 with no children, or killed.
LEMMA wait_give_up_step ==
  ASSUME IInv, TypeOK', NEW p \in Procs, wait_give_up(p)
  PROVE  IInv'
<1>1. pc[p] = "wait_scan" /\ state[p] = "RUNNING" /\ Exec(p)
  BY AtRuns, Zenon DEF wait_give_up
<1>2. LabelMove(p, "user")
  BY <1>1, Goes, Zenon DEF wait_give_up, LabelMove, slotVars, cpuVars
<1>3. LockMove(p, "user")
  BY <1>1, Ids DEF IInv, wait_give_up, LockMove, Locks, Waitlocked
<1>4. LabelReady(p, "user")
  BY <1>1 DEF LabelReady, Exiting
<1> QED BY <1>2, <1>3, <1>4, LabelStep

\* wait() decides to sleep, with wait_lock held.
LEMMA wait_sleep_step ==
  ASSUME IInv, TypeOK', NEW p \in Procs, wait_sleep(p)
  PROVE  IInv'
<1>1. pc[p] = "wait_scan" /\ state[p] = "RUNNING" /\ Exec(p)
  BY AtRuns, Zenon DEF wait_sleep
<1>2. \A x \in Procs : parent[x] = p => x < np[p]
  BY Slots DEF IInv, wait_sleep, Unscanned, Children, TypeOK
<1>3. LabelMove(p, "sleep")
  BY <1>1, Goes, Zenon DEF wait_sleep, LabelMove, slotVars, lockVars, cpuVars
<1>4. LockMove(p, "sleep")
  BY <1>1, Zenon DEF IInv, wait_sleep, LockMove, Locks, Waitlocked, lockVars
<1>5. LabelReady(p, "sleep")
  BY <1>1, <1>2, Zenon DEF IInv, LabelReady, Exiting, Scanned
<1> QED BY <1>3, <1>4, <1>5, LabelStep, Zenon

-----------------------------------------------------------------------------
(* fork()                                                                  *)

\* A step of fork() by p: a free slot becomes USED, a USED one gets its parent, or
\* a USED one that has a parent starts to run in user space.
Calm == {"user", "fork_parent", "fork_run"}

ForkMove(p) ==
  /\ state[p] = "RUNNING" /\ pc[p] \in Calm
  /\ UNCHANGED <<chan, plock, wait_lock, current, todo, wchan, back>>
  /\ \A x \in Procs :
       /\ pc'[x] = pc[x] \/ (pc'[x] \in Calm /\ (x = p \/ state[x] = "USED"))
       /\ \/ state'[x] = state[x]
          \/ state[x] = "UNUSED" /\ state'[x] = "USED"
          \/ state[x] = "USED" /\ parent[x] # None /\ state'[x] = "RUNNABLE"
       /\ parent'[x] = parent[x] \/ (parent'[x] = p /\ state[x] = "USED")
       /\ x # p => np'[x] = np[x]

\* Such a step preserves what the invariant says about the rest of the kernel.
LEMMA ForkStep ==
  ASSUME IInv, TypeOK', NEW p \in Procs, ForkMove(p), States', Forking', ForkDistinct'
  PROVE  IInv'
<1>1. \A x \in Procs : Exec(x)' <=> Exec(x)
  BY Zenon DEF ForkMove, Exec
<1>2. Running'
  BY <1>1 DEF IInv, ForkMove, Running
<1>3. Locks'
  <2>1. \A x \in Procs : state[x] = "USED" => pc[x] \in {"user", "exit_sched"} /\ ~Exec(x)
    BY Zenon DEF IInv, States, Running
  <2>2. \A x \in Procs :
          \/ pc'[x] = pc[x]
          \/ /\ pc[x] \in Calm \/ (pc[x] = "exit_sched" /\ ~Exec(x))
             /\ pc'[x] \in Calm
    BY <2>1, Zenon DEF ForkMove, Calm
  <2>3. \A x \in Procs :
          /\ pc'[x] \in {"sleep_sched", "exit_sched"} /\ Exec(x)
               <=> pc[x] \in {"sleep_sched", "exit_sched"} /\ Exec(x)
          /\ pc'[x] \in Waitlocked <=> pc[x] \in Waitlocked
    BY <2>2, Zenon DEF Calm, Waitlocked
  <2> QED BY <1>1, <2>3, Zenon DEF IInv, ForkMove, Locks
<1>4. InitLives'
  BY Ids, Zenon DEF IInv, ForkMove, Calm, InitLives, Exiting
<1>5. Family'
  BY Parents DEF IInv, ForkMove, Family
<1>6. Exits'
  BY DEF IInv, ForkMove, Calm, Exits
<1>7. LateExits'
  BY Parents DEF IInv, ForkMove, Calm, States, LateExits, LateExit, SleepsOrWill
<1>8. Scanned'
  BY DEF IInv, ForkMove, Calm, Scanned
<1>9. NoneLost'
  <2> SUFFICES ASSUME NEW x \in Procs, NEW q \in Procs, SleepsOrWill(x)',
                      parent'[q] = x, state'[q] = "ZOMBIE"
               PROVE  \E r \in Procs : /\ wait_lock' = r /\ pc'[r] = "wakeup"
                                       /\ wchan'[r] = x /\ x \in todo'[r]
    BY Zenon DEF NoneLost
  <2>1. SleepsOrWill(x) /\ parent[q] = x /\ state[q] = "ZOMBIE"
    BY Zenon DEF ForkMove, Calm, SleepsOrWill
  <2>2. PICK r \in Procs : wait_lock = r /\ pc[r] = "wakeup" /\ wchan[r] = x /\ x \in todo[r]
    BY <2>1, Zenon DEF IInv, NoneLost
  <2>3. state[r] # "USED" /\ r # p
    BY <2>2, Zenon DEF IInv, States, ForkMove, Calm
  <2> QED BY <2>2, <2>3, Zenon DEF ForkMove
<1> QED BY <1>2, <1>3, <1>4, <1>5, <1>6, <1>7, <1>8, <1>9, Zenon DEF IInv

\* fork(): a slot becomes USED; nobody is its parent yet.
LEMMA fork_step ==
  ASSUME IInv, TypeOK', NEW p \in Procs, NEW q \in Procs, fork(p, q)
  PROVE  IInv'
<1>1. pc[p] = "user" /\ state[p] = "RUNNING" /\ state[q] = "UNUSED" /\ parent[q] = None
  BY AtRuns, Zenon DEF IInv, fork, User, Family
<1>2. /\ \A x \in Procs : pc'[x] = IF x = p THEN "fork_parent" ELSE pc[x]
      /\ \A x \in Procs : state'[x] = IF x = q THEN "USED" ELSE state[x]
      /\ \A x \in Procs : np'[x] = IF x = p THEN q ELSE np[x]
      /\ UNCHANGED <<chan, parent, plock, wait_lock, current, todo, wchan, back>>
  BY Goes DEF IInv, fork, lockVars, cpuVars, TypeOK
<1>3. States'
  BY <1>1, <1>2 DEF IInv, States
<1>4. Forking'
  BY <1>1, <1>2 DEF IInv, Forking
<1>5. ForkDistinct'
  BY <1>1, <1>2 DEF IInv, ForkDistinct, Forking
<1>6. ForkMove(p)
  BY <1>1, <1>2, Zenon DEF ForkMove, Calm
<1> QED BY <1>3, <1>4, <1>5, <1>6, ForkStep, Zenon

\* fork() sets the parent under wait_lock.
LEMMA fork_parent_step ==
  ASSUME IInv, TypeOK', NEW p \in Procs, fork_parent(p)
  PROVE  IInv'
<1>1. pc[p] = "fork_parent" /\ state[p] = "RUNNING"
  BY AtRuns, Zenon DEF fork_parent
<1>2. np[p] \in Procs /\ state[np[p]] = "USED" /\ parent[np[p]] = None
  BY <1>1, Zenon DEF IInv, Forking
<1>3. /\ \A x \in Procs : pc'[x] = IF x = p THEN "fork_run" ELSE pc[x]
      /\ \A x \in Procs : parent'[x] = IF x = np[p] THEN p ELSE parent[x]
      /\ UNCHANGED <<state, chan, plock, wait_lock, current, np, todo, wchan, back>>
  BY <1>2, Goes DEF IInv, fork_parent, lockVars, cpuVars, TypeOK
<1>4. States'
  BY <1>1, <1>3, Zenon DEF IInv, States
<1>5. Forking'
  BY <1>1, <1>2, <1>3 DEF IInv, Forking, ForkDistinct
<1>6. ForkDistinct'
  BY <1>1, <1>3 DEF IInv, ForkDistinct
<1>7. ForkMove(p)
  BY <1>1, <1>2, <1>3, Zenon DEF ForkMove, Calm
<1> QED BY <1>4, <1>5, <1>6, <1>7, ForkStep, Zenon

\* fork() ends: the child becomes RUNNABLE with its parent set.
LEMMA fork_run_step ==
  ASSUME IInv, TypeOK', NEW p \in Procs, fork_run(p)
  PROVE  IInv'
<1>1. pc[p] = "fork_run" /\ state[p] = "RUNNING"
  BY AtRuns, Zenon DEF fork_run
<1>2. np[p] \in Procs /\ state[np[p]] = "USED" /\ parent[np[p]] = p
  BY <1>1, Zenon DEF IInv, Forking
<1>3. /\ \A x \in Procs : pc'[x] = IF x \in {p, np[p]} THEN "user" ELSE pc[x]
      /\ \A x \in Procs : state'[x] = IF x = np[p] THEN "RUNNABLE" ELSE state[x]
      /\ UNCHANGED <<chan, parent, plock, wait_lock, current, np, todo, wchan, back>>
  BY <1>2 DEF IInv, fork_run, lockVars, cpuVars, TypeOK
<1>4. States'
  BY <1>1, <1>2, <1>3 DEF IInv, States
<1>5. Forking'
  BY <1>1, <1>2, <1>3 DEF IInv, Forking, ForkDistinct
<1>6. ForkDistinct'
  BY <1>3, Zenon DEF IInv, ForkDistinct
<1>7. ForkMove(p)
  BY <1>1, <1>2, <1>3, Ids DEF ForkMove, Calm
<1> QED BY <1>4, <1>5, <1>6, <1>7, ForkStep

-----------------------------------------------------------------------------
(* exit(), sleep() and wait() under wait_lock                              *)

\* exit() calls wakeup(ch), to return to b: for init, which inherits a child, or for
\* the parent, when no child is left.
CallMove(p, ch, b) ==
  /\ pc[p] = "reparent" /\ state[p] = "RUNNING" /\ wait_lock = p /\ p # initproc
  /\ \A x \in Procs :
       /\ pc'[x] = IF x = p THEN "wakeup" ELSE pc[x]
       /\ todo'[x] = IF x = p THEN Procs \ {p} ELSE todo[x]
       /\ wchan'[x] = IF x = p THEN ch ELSE wchan[x]
       /\ back'[x] = IF x = p THEN b ELSE back[x]
       /\ parent'[x] = parent[x] \/ (parent[x] = p /\ parent'[x] = initproc)
  /\ UNCHANGED <<state, chan, plock, wait_lock, current, np>>
  /\ \/ b = "reparent" /\ ch = initproc
     \/ b = "exit_zombie" /\ ch = parent[p] /\ \A x \in Procs : parent[x] # p

\* Such a call preserves the invariant.
LEMMA CallStep ==
  ASSUME IInv, TypeOK', NEW p \in Procs, NEW ch, NEW b, CallMove(p, ch, b)
  PROVE  IInv'
<1>1. \A x \in Procs : /\ Exec(x)' <=> Exec(x)
                       /\ SleepsOrWill(x)' <=> SleepsOrWill(x)
                       /\ LateExit(x)' => x = p /\ b = "exit_zombie"
  BY DEF IInv, CallMove, Exec, SleepsOrWill, LateExit, Locks, Waitlocked
<1>2. States'
  BY Zenon DEF IInv, CallMove, States
<1>3. Running'
  BY <1>1, Zenon DEF IInv, CallMove, Running
<1>4. Locks'
  BY <1>1, Zenon DEF IInv, CallMove, Locks, Waitlocked
<1>5. InitLives'
  BY Ids, Zenon DEF IInv, CallMove, InitLives
<1>6. Forking'
  <2>1. \A x \in Procs : pc'[x] \in {"fork_parent", "fork_run"} => x # p /\ pc'[x] = pc[x]
    BY Zenon DEF CallMove
  <2>2. \A x \in Procs : pc[x] \in {"fork_parent", "fork_run"} /\ x # p =>
          np[x] \in Procs /\ parent[np[x]] # p
    BY Ids, Zenon DEF IInv, Forking
  <2> QED BY <2>1, <2>2 DEF IInv, CallMove, Forking
<1>7. ForkDistinct'
  BY Zenon DEF IInv, CallMove, ForkDistinct
<1>8. Family'
  BY Parents DEF IInv, CallMove, Family, InitLives
<1>9. Exits'
  BY DEF IInv, CallMove, Exits
<1>10. LateExits'
  <2>1. b = "exit_zombie" => parent[p] \in Procs \ {p} /\ UNCHANGED parent[p]
    BY Parents, Zenon DEF IInv, CallMove, Family
  <2> QED BY <1>1, <2>1 DEF CallMove, LateExits
<1>11. Scanned'
  BY DEF IInv, CallMove, Locks, Waitlocked, Scanned
<1>12. NoneLost'
  BY <1>1, Ids DEF IInv, CallMove, NoneLost
<1> QED BY <1>2, <1>3, <1>4, <1>5, <1>6, <1>7, <1>8, <1>9, <1>10, <1>11, <1>12,
           Zenon DEF IInv

\* reparent(): one child passes to init, which is about to be woken up.
LEMMA reparent_step ==
  ASSUME MinBelongs, IInv, TypeOK', NEW p \in Procs, reparent(p)
  PROVE  IInv'
<1>1. pc[p] = "reparent" /\ state[p] = "RUNNING"
  BY AtRuns, Zenon DEF reparent
<1>2. wait_lock = p /\ p # initproc
  BY <1>1, Zenon DEF IInv, InitLives, Exiting, Locks, Waitlocked
<1>3. PICK q \in Procs : q = Min(Children(p)) /\ parent[q] = p
  BY ChildrenMin, Zenon DEF reparent
<1>4. /\ \A x \in Procs : parent'[x] = IF x = q THEN initproc ELSE parent[x]
      /\ \A x \in Procs : pc'[x] = IF x = p THEN "wakeup" ELSE pc[x]
      /\ UNCHANGED <<state, chan, plock, wait_lock, current, np>>
  BY <1>3, Goes DEF IInv, reparent, CallWakeup, lockVars, cpuVars, TypeOK
<1>5. \A x \in Procs : /\ todo'[x] = IF x = p THEN Procs \ {p} ELSE todo[x]
                       /\ wchan'[x] = IF x = p THEN initproc ELSE wchan[x]
                       /\ back'[x] = IF x = p THEN "reparent" ELSE back[x]
  BY DEF IInv, reparent, CallWakeup, TypeOK
<1>6. CallMove(p, initproc, "reparent")
  BY <1>1, <1>2, <1>3, <1>4, <1>5, Zenon DEF CallMove
<1> QED BY <1>6, CallStep, Zenon

\* exit() after reparent(): no child is left, the parent is about to be woken up.
LEMMA exit_wakeup_step ==
  ASSUME IInv, TypeOK', NEW p \in Procs, exit_wakeup(p)
  PROVE  IInv'
<1>1. pc[p] = "reparent" /\ state[p] = "RUNNING"
  BY AtRuns, Zenon DEF exit_wakeup
<1>2. wait_lock = p /\ p # initproc
  BY <1>1, Zenon DEF IInv, InitLives, Exiting, Locks, Waitlocked
<1>3. \A x \in Procs : parent[x] # p
  BY Zenon DEF exit_wakeup, Children
<1>4. /\ \A x \in Procs : pc'[x] = IF x = p THEN "wakeup" ELSE pc[x]
      /\ UNCHANGED <<state, chan, parent, plock, wait_lock, current, np>>
  BY Goes, Zenon DEF exit_wakeup, CallWakeup, slotVars, lockVars, cpuVars
<1>5. \A x \in Procs : /\ todo'[x] = IF x = p THEN Procs \ {p} ELSE todo[x]
                       /\ wchan'[x] = IF x = p THEN parent[p] ELSE wchan[x]
                       /\ back'[x] = IF x = p THEN "exit_zombie" ELSE back[x]
  BY DEF IInv, exit_wakeup, CallWakeup, TypeOK
<1>6. CallMove(p, parent[p], "exit_zombie")
  BY <1>1, <1>2, <1>3, <1>4, <1>5, Zenon DEF CallMove
<1> QED BY <1>6, CallStep, Zenon

\* A process gives up wait_lock once it holds p->lock, to become a ZOMBIE or to sleep.
SwapMove(p, l) ==
  /\ state[p] = "RUNNING" /\ Exec(p) /\ wait_lock = p /\ wait_lock' = None
  /\ \A x \in Procs :
       /\ pc'[x] = IF x = p THEN l ELSE pc[x]
       /\ plock'[x] = IF x = p THEN p ELSE plock[x]
       /\ state'[x] = IF x = p /\ l = "exit_sched" THEN "ZOMBIE" ELSE state[x]
  /\ UNCHANGED <<chan, parent, current, np, todo, wchan, back>>
  /\ \/ l = "exit_sched" /\ pc[p] = "exit_zombie"
     \/ l = "sleep_sched" /\ pc[p] = "sleep"

\* Such a step preserves the invariant: no child of a process that will sleep is a
\* ZOMBIE, and no parent of a ZOMBIE sleeps.
LEMMA SwapStep ==
  ASSUME IInv, TypeOK', NEW p \in Procs, NEW l, SwapMove(p, l)
  PROVE  IInv'
<1>1. /\ \A x \in Procs : Exec(x)' <=> Exec(x)
      /\ \A x \in Procs : pc'[x] \notin Waitlocked
  BY Zenon DEF IInv, SwapMove, Exec, Locks, Waitlocked
<1>2. States'
  BY DEF IInv, SwapMove, States
<1>3. Running'
  BY <1>1, Ids DEF IInv, SwapMove, Running
<1>4. Locks'
  BY <1>1, Ids DEF IInv, SwapMove, Locks
<1>5. InitLives'
  BY Ids, Zenon DEF IInv, SwapMove, InitLives, Exiting
<1>6. Forking'
  BY DEF IInv, SwapMove, Forking
<1>7. ForkDistinct'
  BY Zenon DEF IInv, SwapMove, ForkDistinct
<1>8. Family'
  BY Parents DEF IInv, SwapMove, Family, LateExits, LateExit
<1>9. Exits' /\ LateExits' /\ Scanned'
  BY <1>1, Zenon DEF Exits, LateExits, LateExit, Scanned, Waitlocked
<1>10. NoneLost'
  <2>1. l = "exit_sched" =>
          ~SleepsOrWill(parent[p]) /\ parent[p] # p /\ \A q \in Procs : parent[q] # p
    BY Zenon DEF IInv, SwapMove, Exits, LateExits, LateExit
  <2>2. l = "sleep_sched" => \A q \in Procs : parent[q] = p => state[q] # "ZOMBIE"
    BY Zenon DEF IInv, SwapMove, Scanned
  <2>3. \A x, q \in Procs : SleepsOrWill(x) /\ parent[q] = x => state[q] # "ZOMBIE"
    BY Zenon DEF IInv, SwapMove, NoneLost
  <2> QED BY <2>1, <2>2, <2>3 DEF SwapMove, NoneLost, SleepsOrWill
<1> QED BY <1>2, <1>3, <1>4, <1>5, <1>6, <1>7, <1>8, <1>9, <1>10, Zenon DEF IInv

\* exit(): the parent has been woken up, or is not asleep, when p becomes a zombie.
LEMMA exit_zombie_step ==
  ASSUME IInv, TypeOK', NEW p \in Procs, exit_zombie(p)
  PROVE  IInv'
<1>1. pc[p] = "exit_zombie" /\ state[p] = "RUNNING" /\ Exec(p)
  BY AtRuns, Zenon DEF exit_zombie
<1>2. wait_lock = p
  BY <1>1, Zenon DEF IInv, Locks, Waitlocked
<1>3. /\ \A x \in Procs : pc'[x] = IF x = p THEN "exit_sched" ELSE pc[x]
      /\ \A x \in Procs : plock'[x] = IF x = p THEN p ELSE plock[x]
      /\ \A x \in Procs : state'[x] = IF x = p THEN "ZOMBIE" ELSE state[x]
      /\ wait_lock' = None
      /\ UNCHANGED <<chan, parent, current, np, todo, wchan, back>>
  BY Goes DEF IInv, exit_zombie, cpuVars, TypeOK
<1>4. SwapMove(p, "exit_sched")
  BY <1>1, <1>2, <1>3, Zenon DEF SwapMove
<1> QED BY <1>4, SwapStep, Zenon

\* sleep() keeps wait_lock until it holds p->lock, so no child has exited since the scan.
LEMMA sleep_step ==
  ASSUME IInv, TypeOK', NEW p \in Procs, sleep(p)
  PROVE  IInv'
<1>1. pc[p] = "sleep" /\ state[p] = "RUNNING" /\ Exec(p)
  BY AtRuns, Zenon DEF sleep
<1>2. wait_lock = p
  BY <1>1, Zenon DEF IInv, Locks, Waitlocked
<1>3. /\ \A x \in Procs : pc'[x] = IF x = p THEN "sleep_sched" ELSE pc[x]
      /\ \A x \in Procs : plock'[x] = IF x = p THEN p ELSE plock[x]
      /\ wait_lock' = None
      /\ UNCHANGED <<state, chan, parent, current, np, todo, wchan, back>>
  BY Goes DEF IInv, sleep, slotVars, cpuVars, TypeOK
<1>4. SwapMove(p, "sleep_sched")
  BY <1>1, <1>2, <1>3, Zenon DEF SwapMove
<1> QED BY <1>4, SwapStep, Zenon

\* wait() frees a zombie whose lock is free, hence one that runs nowhere.
LEMMA wait_reap_step ==
  ASSUME MinBelongs, IInv, TypeOK', NEW p \in Procs, wait_reap(p)
  PROVE  IInv'
<1> USE DEF IInv
<1>1. pc[p] = "wait_scan" /\ state[p] = "RUNNING" /\ Exec(p)
  BY AtRuns, Zenon DEF wait_reap
<1>2. PICK q \in Procs : q = Min(Unscanned(p)) /\ parent[q] = p
  BY UnscannedMin, Zenon DEF wait_reap
<1>3. q # initproc /\ q # p /\ state[q] = "ZOMBIE" /\ plock[q] = None /\ wait_lock = p
  BY <1>1, <1>2, Ids, Zenon DEF wait_reap, Free, InitLives, Locks, Waitlocked
<1>4. /\ \A x \in Procs : pc'[x] = IF x = p THEN "user" ELSE pc[x]
      /\ \A x \in Procs : state'[x] = IF x = q THEN "UNUSED" ELSE state[x]
      /\ \A x \in Procs : parent'[x] = IF x = q THEN None ELSE parent[x]
      /\ \A x \in Procs : chan'[x] = IF x = q THEN None ELSE chan[x]
      /\ wait_lock' = None
      /\ UNCHANGED <<plock, current, np, todo, wchan, back>>
      /\ \A x \in Procs : Exec(x)' <=> Exec(x)
  BY <1>2, Goes DEF wait_reap, Freed, cpuVars, Exec, TypeOK
<1>5. /\ pc'[p] = "user" /\ state'[p] = "RUNNING" /\ parent'[p] = parent[p]
      /\ pc'[q] = "exit_sched" /\ state'[q] = "UNUSED" /\ parent'[q] = None
      /\ \A x \in Procs \ {p, q} : /\ pc'[x] = pc[x] /\ state'[x] = state[x]
                                   /\ parent'[x] = parent[x] /\ chan'[x] = chan[x]
  BY <1>1, <1>2, <1>3, <1>4, Zenon DEF States
<1>6. \A x \in Procs : pc'[x] \notin Waitlocked
  BY <1>3, <1>5, Zenon DEF Locks, Waitlocked
<1>7. States' /\ Running'
  <2>1. States'
    BY <1>5, Zenon DEF States
  <2>2. \A x \in Procs : state[x] = "ZOMBIE" /\ plock[x] = x <=>
                           state'[x] = "ZOMBIE" /\ plock'[x] = x
    <3> TAKE x \in Procs
    <3>1. x = q => plock[x] # x /\ plock'[x] # x
      <4>1. plock' = plock BY <1>4, Zenon
      <4>2. plock[q] # q BY <1>3, Ids, Zenon
      <4> QED BY <4>1, <4>2, Zenon
    <3>2. x # q => state'[x] = state[x] /\ plock'[x] = plock[x]
      BY <1>4, Zenon
    <3> QED BY <3>1, <3>2, Zenon
  <2>3. \A x \in Procs : state[x] = "RUNNING" <=> state'[x] = "RUNNING"
    BY <1>1, <1>3, <1>5, Zenon
  <2>4. \A x \in Procs :
          Exec(x)' <=> state'[x] = "RUNNING" \/ (state'[x] = "ZOMBIE" /\ plock'[x] = x)
    BY <1>4, <2>2, <2>3, Zenon DEF Running
  <2> QED BY <1>4, <2>1, <2>4, Zenon DEF Running
<1>8. Locks'
  <2>1. \A x \in Procs : pc[x] \in {"sleep_sched", "exit_sched"} <=>
                           pc'[x] \in {"sleep_sched", "exit_sched"}
    BY <1>1, <1>2, <1>3, <1>4, <1>5, Zenon
  <2>2. \A x \in Procs :
          plock'[x] = x <=> pc'[x] \in {"sleep_sched", "exit_sched"} /\ Exec(x)'
    BY <1>4, <2>1, Zenon DEF Locks
  <2>3. \A x \in Procs : wait_lock' # x /\ plock'[x] \in {None, x}
    BY <1>4, Ids, Zenon DEF Locks
  <2> QED BY <1>6, <2>2, <2>3, Zenon DEF Locks
<1>9. InitLives'
  BY <1>1, <1>2, <1>3, <1>4, Ids, Zenon DEF InitLives, Exiting
<1>10. \A x \in Procs : pc'[x] \in {"fork_parent", "fork_run"} =>
         x # p /\ pc'[x] = pc[x] /\ np[x] \in Procs /\ state[np[x]] = "USED" /\ np[x] # q
  BY <1>3, <1>5, Zenon DEF Forking
<1>11. Forking'
  <2> SUFFICES ASSUME NEW x \in Procs, pc'[x] \in {"fork_parent", "fork_run"}
               PROVE  /\ np'[x] \in Procs /\ state'[np'[x]] = "USED"
                      /\ parent'[np'[x]] = IF pc'[x] = "fork_run" THEN x ELSE None
    BY Zenon DEF Forking
  <2>1. /\ np[x] \in Procs /\ state[np[x]] = "USED" /\ np[x] # q /\ pc'[x] = pc[x]
        /\ parent[np[x]] = IF pc[x] = "fork_run" THEN x ELSE None
    BY <1>10, Zenon DEF Forking
  <2>2. np'[x] = np[x] /\ state'[np[x]] = state[np[x]] /\ parent'[np[x]] = parent[np[x]]
    BY <1>4, <2>1, Zenon
  <2> QED BY <2>1, <2>2, Zenon
<1>12. ForkDistinct'
  BY <1>4, <1>10, Zenon DEF ForkDistinct
<1>13. Family'
  <2> SUFFICES ASSUME NEW x \in Procs
               PROVE  /\ parent'[x] # None =>
                           /\ state'[x] # "UNUSED"
                           /\ state'[parent'[x]] \in {"SLEEPING", "RUNNABLE", "RUNNING"}
                      /\ x # initproc /\ state'[x] \notin {"UNUSED", "USED"}
                           => parent'[x] # None
    BY Zenon DEF Family
  <2>1. CASE x = q
    BY <1>5, <2>1, Zenon
  <2>2. CASE x # q
    <3>1. parent'[x] = parent[x] /\ state'[x] = state[x]
      BY <1>4, <2>2, Zenon
    <3>2. ASSUME parent[x] # None
          PROVE  parent[x] \in Procs /\ parent[x] # q
                 /\ state'[parent[x]] \in {"SLEEPING", "RUNNABLE", "RUNNING"}
      <4>1. parent[x] \in Procs
            /\ state[parent[x]] \in {"SLEEPING", "RUNNABLE", "RUNNING"}
        BY <3>2, Parents, Zenon DEF Family
      <4>2. parent[x] # q
        BY <1>3, <4>1, Zenon
      <4> QED BY <1>4, <4>1, <4>2, Zenon
    <3> QED BY <3>1, <3>2, Zenon DEF Family
  <2> QED BY <2>1, <2>2, Zenon
<1>14. Exits' /\ LateExits' /\ Scanned'
  BY <1>6, Zenon DEF Exits, LateExits, LateExit, Scanned, Waitlocked
<1>15. NoneLost'
  <2> SUFFICES ASSUME NEW x \in Procs, NEW y \in Procs, SleepsOrWill(x)',
                      parent'[y] = x, state'[y] = "ZOMBIE"
               PROVE  FALSE
    BY Zenon DEF NoneLost
  <2>1. SleepsOrWill(x) /\ parent[y] = x /\ state[y] = "ZOMBIE"
    BY <1>4, <1>5, Ids, Zenon DEF SleepsOrWill
  <2>2. PICK r \in Procs : wait_lock = r /\ pc[r] = "wakeup"
    BY <2>1, Zenon DEF NoneLost
  <2> QED BY <1>1, <1>3, <2>2, Zenon
<1> QED BY <1>7, <1>8, <1>9, <1>11, <1>12, <1>13, <1>14, <1>15, Zenon

-----------------------------------------------------------------------------
(* Steps that change how the living processes run                          *)

\* swtch() takes exactly p off the CPUs and releases its lock.
LEMMA SwtchEffect ==
  ASSUME TypeOK, Running, NEW p \in Procs, Swtch(p)
  PROVE  /\ \A x \in Procs : Exec(x)' <=> Exec(x) /\ x # p
         /\ \A c, d \in CPUs : current'[c] = current'[d] /\ current'[c] # None => c = d
         /\ \A x \in Procs : plock'[x] = IF x = p THEN None ELSE plock[x]
<1>1. PICK c \in CPUs : current[c] = p /\ current' = [current EXCEPT ![c] = None]
  BY Zenon DEF Swtch
<1>2. \A d \in CPUs : current'[d] = IF d = c THEN None ELSE current[d]
  BY <1>1, Zenon DEF TypeOK
<1>3. \A x \in Procs : plock'[x] = IF x = p THEN None ELSE plock[x]
  BY Zenon DEF Swtch, TypeOK
<1> QED BY <1>1, <1>2, <1>3, Ids DEF Exec, Running

\* The switch to the scheduler leaves every process on one CPU at most and the
\* locks with those that the labels say.
LEMMA SwtchStep ==
  ASSUME IInv, NEW p \in Procs, Swtch(p), wait_lock' = wait_lock,
         \A x \in Procs \ {p} : state'[x] = state[x] /\ pc'[x] = pc[x],
         state'[p] # "RUNNING", pc[p] \notin Waitlocked, pc'[p] \notin Waitlocked
  PROVE  Running' /\ Locks'
<1>1. /\ \A x \in Procs : Exec(x)' <=> Exec(x) /\ x # p
      /\ \A c, d \in CPUs : current'[c] = current'[d] /\ current'[c] # None => c = d
      /\ \A x \in Procs : plock'[x] = IF x = p THEN None ELSE plock[x]
  BY SwtchEffect, Zenon DEF IInv
<1>2. \A x \in Procs :
         Exec(x)' <=> state'[x] = "RUNNING" \/ (state'[x] = "ZOMBIE" /\ plock'[x] = x)
  BY <1>1, Ids DEF IInv, Running
<1>3. Running'
  BY <1>1, <1>2, Zenon DEF Running
<1>4. Locks'
  BY <1>1, Ids DEF IInv, Locks
<1> QED BY <1>3, <1>4, Zenon

\* Living processes start or stop to run, or are woken up.  No process falls asleep
\* that was not on its way to, and none leaves the list of a wakeup() that is for
\* it while it sleeps.
Alive == {"SLEEPING", "RUNNABLE", "RUNNING"}

AliveMove ==
  /\ UNCHANGED <<parent, wait_lock, np, wchan, back>>
  /\ \A x \in Procs :
       /\ pc'[x] = pc[x] \/ (pc[x] = "sleep_sched" /\ pc'[x] = "wait")
       /\ state'[x] = state[x] \/ (state[x] \in Alive /\ state'[x] \in Alive)
       /\ SleepsOrWill(x)' => SleepsOrWill(x)
       /\ todo'[x] \subseteq todo[x]
       /\ wchan[x] \in todo[x] \ todo'[x] => ~SleepsOrWill(wchan[x])'

\* Such a step preserves the invariant.
LEMMA AliveStep ==
  ASSUME IInv, TypeOK', AliveMove, States', Running', Locks'
  PROVE  IInv'
<1>1. InitLives'
  BY Ids, Zenon DEF IInv, AliveMove, Alive, InitLives, Exiting
<1>2. Forking'
  <2> SUFFICES ASSUME NEW x \in Procs, pc'[x] \in {"fork_parent", "fork_run"}
               PROVE  /\ np'[x] \in Procs /\ state'[np'[x]] = "USED"
                      /\ parent'[np'[x]] = IF pc'[x] = "fork_run" THEN x ELSE None
    BY Zenon DEF Forking
  <2>1. pc'[x] = pc[x] /\ np' = np /\ parent' = parent
    BY Zenon DEF AliveMove
  <2>2. /\ np[x] \in Procs /\ state[np[x]] = "USED"
        /\ parent[np[x]] = IF pc[x] = "fork_run" THEN x ELSE None
    BY <2>1, Zenon DEF IInv, Forking
  <2>3. state'[np[x]] = "USED"
    BY <2>2, Zenon DEF AliveMove, Alive
  <2> QED BY <2>1, <2>2, <2>3, Zenon
<1>3. ForkDistinct'
  BY Zenon DEF IInv, AliveMove, ForkDistinct
<1>4. Family'
  <2>1. \A x \in Procs : /\ state'[x] = "UNUSED" => state[x] = "UNUSED"
                         /\ state'[x] \notin {"UNUSED", "USED"} =>
                              state[x] \notin {"UNUSED", "USED"}
                         /\ state[x] \in Alive => state'[x] \in Alive
    BY Zenon DEF AliveMove, Alive
  <2>2. UNCHANGED parent
    BY Zenon DEF AliveMove
  <2>3. \A x \in Procs : parent[x] # None => parent[x] \in Procs
    BY Parents, Zenon
  <2> QED BY <2>1, <2>2, <2>3, Zenon DEF IInv, Alive, Family
<1>5. Exits'
  BY Zenon DEF IInv, AliveMove, Exits
<1>6. LateExits'
  <2> SUFFICES ASSUME NEW p \in Procs, LateExit(p)'
               PROVE  /\ \A q \in Procs : parent'[q] # p
                      /\ wchan'[p] = parent'[p]
                      /\ parent'[p] \in todo'[p] \/ ~SleepsOrWill(parent[p])'
    <3>1. parent' = parent
      BY Zenon DEF AliveMove
    <3> QED BY <3>1, Zenon DEF LateExits
  <2>1. LateExit(p) /\ UNCHANGED <<parent, wchan>>
    BY Zenon DEF AliveMove, LateExit
  <2>2. /\ \A q \in Procs : parent[q] # p
        /\ wchan[p] = parent[p] /\ parent[p] \in Procs
        /\ parent[p] \in todo[p] \/ ~SleepsOrWill(parent[p])
    BY <2>1, Parents, Zenon DEF IInv, LateExits
  <2>3. ASSUME NEW q \in Procs, q = parent[p], q \notin todo'[p]
        PROVE  ~SleepsOrWill(q)'
    <3>1. /\ SleepsOrWill(q)' => SleepsOrWill(q)
          /\ wchan[p] \in todo[p] \ todo'[p] => ~SleepsOrWill(wchan[p])'
      BY Zenon DEF AliveMove
    <3> QED BY <2>1, <2>2, <2>3, <3>1, Zenon
  <2> QED BY <2>1, <2>2, <2>3, Zenon
<1>7. Scanned'
  BY DEF IInv, AliveMove, Alive, Scanned
<1>8. NoneLost'
  <2> SUFFICES ASSUME NEW p \in Procs, NEW q \in Procs, SleepsOrWill(p)',
                      parent[q] = p, state'[q] = "ZOMBIE"
               PROVE  \E r \in Procs : /\ wait_lock' = r /\ pc'[r] = "wakeup"
                                       /\ wchan'[r] = p /\ p \in todo'[r]
    BY DEF AliveMove, NoneLost
  <2>1. SleepsOrWill(p) /\ state[q] = "ZOMBIE"
    BY Zenon DEF AliveMove, Alive
  <2>2. PICK r \in Procs : wait_lock = r /\ pc[r] = "wakeup" /\ wchan[r] = p /\ p \in todo[r]
    BY <2>1, Zenon DEF IInv, NoneLost
  <2> QED BY <2>2, Zenon DEF AliveMove
<1> QED BY <1>1, <1>2, <1>3, <1>4, <1>5, <1>6, <1>7, <1>8, Zenon DEF IInv

\* A step that changes nothing the invariant speaks of preserves it.
LEMMA UnmovedStep ==
  ASSUME IInv, TypeOK', \A x \in Procs : state'[x] = state[x],
         \A x \in Procs : state[x] # "UNUSED" => chan'[x] = chan[x],
         UNCHANGED <<parent, plock, wait_lock, current, pc, np, todo, wchan, back>>
  PROVE  IInv'
<1>1. \A x \in Procs : Exec(x)' <=> Exec(x)
  BY Zenon DEF Exec
<1>2. States'
  BY Zenon DEF IInv, States
<1>3. Running' /\ Locks'
  BY <1>1, Zenon DEF IInv, Running, Locks
<1>4. AliveMove
  BY Zenon DEF AliveMove, SleepsOrWill
<1> QED BY <1>2, <1>3, <1>4, AliveStep, Zenon

\* A ZOMBIE switches to the scheduler and never runs again.
LEMMA exit_sched_step ==
  ASSUME IInv, TypeOK', NEW p \in Procs, exit_sched(p)
  PROVE  IInv'
<1>1. pc[p] = "exit_sched" /\ state[p] = "ZOMBIE" /\ Swtch(p)
  BY Zenon DEF IInv, exit_sched, At, Exec, Running, States
<1>2. UNCHANGED <<state, chan, parent, wait_lock, pc, np, todo, wchan, back>>
  BY Zenon DEF exit_sched, slotVars, threadVars
<1>3. Running' /\ Locks'
  BY <1>1, <1>2, SwtchStep, Zenon DEF Waitlocked
<1>4. States'
  BY <1>2, Zenon DEF IInv, States
<1>5. AliveMove
  BY <1>2, Zenon DEF AliveMove, SleepsOrWill
<1> QED BY <1>3, <1>4, <1>5, AliveStep, Zenon

\* A timer interrupt.
LEMMA yield_step ==
  ASSUME IInv, TypeOK', NEW p \in Procs, yield(p)
  PROVE  IInv'
<1>1. /\ pc[p] \in {"user", "fork_parent", "fork_run"} /\ state[p] = "RUNNING"
      /\ Swtch(p)
  BY Zenon DEF IInv, yield, Free, At, Exec, Running, States
<1>2. /\ \A x \in Procs : state'[x] = IF x = p THEN "RUNNABLE" ELSE state[x]
      /\ UNCHANGED <<chan, parent, wait_lock, pc, np, todo, wchan, back>>
  BY DEF IInv, yield, threadVars, TypeOK
<1>3. Running' /\ Locks'
  BY <1>1, <1>2, SwtchStep, Zenon DEF Waitlocked
<1>4. States'
  BY <1>1, <1>2, Zenon DEF IInv, States
<1>5. AliveMove
  BY <1>1, <1>2, Zenon DEF AliveMove, Alive, SleepsOrWill
<1> QED BY <1>3, <1>4, <1>5, AliveStep

\* sleep() marks the process SLEEPING and switches to the scheduler.
LEMMA sleep_sched_step ==
  ASSUME IInv, TypeOK', NEW p \in Procs, sleep_sched(p)
  PROVE  IInv'
<1>1. pc[p] = "sleep_sched" /\ state[p] = "RUNNING" /\ Swtch(p)
  BY AtRuns, Zenon DEF sleep_sched
<1>2. /\ \A x \in Procs : pc'[x] = IF x = p THEN "wait" ELSE pc[x]
      /\ \A x \in Procs : state'[x] = IF x = p THEN "SLEEPING" ELSE state[x]
      /\ \A x \in Procs : chan'[x] = IF x = p THEN p ELSE chan[x]
      /\ UNCHANGED <<parent, wait_lock, np, todo, wchan, back>>
  BY Goes DEF IInv, sleep_sched, TypeOK
<1>3. Running' /\ Locks'
  BY <1>1, <1>2, SwtchStep, Zenon DEF Waitlocked
<1>4. States'
  <2>1. /\ pc'[p] = "wait" /\ state'[p] = "SLEEPING" /\ chan'[p] = p
        /\ \A x \in Procs \ {p} : /\ pc'[x] = pc[x] /\ state'[x] = state[x]
                                  /\ chan'[x] = chan[x]
    BY <1>2, Zenon
  <2> QED BY <2>1, Zenon DEF IInv, States
<1>5. AliveMove
  BY <1>1, <1>2, Zenon DEF AliveMove, Alive, SleepsOrWill
<1> QED BY <1>3, <1>4, <1>5, AliveStep

\* The scheduler runs a RUNNABLE process, or goes on to the next slot.
LEMMA scheduler_step ==
  ASSUME IInv, TypeOK', NEW c \in CPUs, scheduler(c)
  PROVE  IInv'
<1>1. UNCHANGED <<parent, plock, wait_lock, pc, np, todo, wchan, back>>
  BY Zenon DEF scheduler, lockVars, threadVars
<1>2. CASE UNCHANGED <<state, current, chan>>
  BY <1>1, <1>2, UnmovedStep, Zenon
<1>3. ASSUME NEW p \in Procs, p = scan[c], state[p] = "RUNNABLE",
             state' = [state EXCEPT ![p] = "RUNNING"],
             current' = [current EXCEPT ![c] = p],
             chan' = [chan EXCEPT ![p] = None]
      PROVE  IInv'
  <2>1. /\ \A x \in Procs : state'[x] = IF x = p THEN "RUNNING" ELSE state[x]
        /\ \A x \in Procs : chan'[x] = IF x = p THEN None ELSE chan[x]
        /\ \A d \in CPUs : current'[d] = IF d = c THEN p ELSE current[d]
    BY <1>3 DEF IInv, TypeOK
  <2>2. /\ ~Exec(p) /\ current[c] = None /\ plock[p] = None
        /\ pc[p] \in {"user", "fork_parent", "fork_run", "wait"}
    BY <1>3, Zenon DEF IInv, scheduler, Free, Running, States
  <2>3. \A x \in Procs : Exec(x)' <=> Exec(x) \/ x = p
    BY <2>1, <2>2, Ids, Zenon DEF Exec
  <2>4. States'
    BY <1>1, <2>1, <2>2, Zenon DEF IInv, States
  <2>5. Running'
    <3>1. \A d, e \in CPUs : current'[d] = current'[e] /\ current'[d] # None => d = e
      BY <2>1, <2>2 DEF IInv, Running, Exec
    <3>2. \A x \in Procs :
             Exec(x)' <=> state'[x] = "RUNNING" \/ (state'[x] = "ZOMBIE" /\ plock'[x] = x)
      BY <1>1, <1>3, <2>1, <2>3 DEF IInv, Running
    <3> QED BY <3>1, <3>2, Zenon DEF Running
  <2>6. Locks'
    BY <1>1, <2>2, <2>3, Zenon DEF IInv, Locks
  <2>7. AliveMove
    BY <1>1, <1>3, <2>1, <2>2 DEF AliveMove, Alive, SleepsOrWill
  <2> QED BY <2>4, <2>5, <2>6, <2>7, AliveStep, Zenon
<1>4. scan[c] \in Procs
  BY Zenon DEF IInv, TypeOK
<1> QED BY <1>2, <1>3, <1>4, Zenon DEF scheduler

\* A sleeper, or none, becomes RUNNABLE under its lock.
LEMMA WakeStep ==
  ASSUME IInv, TypeOK', NEW q \in Procs, plock[q] = None, NEW b \in BOOLEAN,
         state' = IF state[q] = "SLEEPING" /\ b THEN [state EXCEPT ![q] = "RUNNABLE"] ELSE state,
         UNCHANGED <<chan, parent, plock, wait_lock, current, pc, np, wchan, back>>,
         \A x \in Procs : \/ todo'[x] = todo[x]
                          \/ /\ todo'[x] = todo[x] \ {q}
                             /\ wchan[x] = q /\ state[q] = "SLEEPING" => b
  PROVE  IInv'
<1>1. \A x \in Procs : state'[x] = IF x = q /\ state[q] = "SLEEPING" /\ b
                                     THEN "RUNNABLE" ELSE state[x]
  BY DEF IInv, TypeOK
<1>2. \A x \in Procs : Exec(x)' <=> Exec(x)
  BY Zenon DEF Exec
<1>3. pc[q] # "sleep_sched"
  <2>1. state[q] \in {"UNUSED", "USED", "SLEEPING", "RUNNABLE", "RUNNING", "ZOMBIE"}
    BY Zenon DEF IInv, TypeOK
  <2>2. pc[q] = "sleep_sched" => state[q] = "RUNNING"
    BY <2>1, Zenon DEF IInv, States
  <2> QED BY <2>2, Ids, Zenon DEF IInv, Locks, Running
<1>4. States'
  BY <1>1 DEF IInv, States
<1>5. Running'
  BY <1>1, <1>2 DEF IInv, Running
<1>6. Locks'
  BY <1>2, Zenon DEF IInv, Locks
<1>7. AliveMove
  BY <1>1, <1>3 DEF AliveMove, Alive, SleepsOrWill
<1> QED BY <1>4, <1>5, <1>6, <1>7, AliveStep, Zenon

\* wakeup(): one sleeper on the channel becomes RUNNABLE and leaves the list.
LEMMA wakeup_step ==
  ASSUME MinBelongs, IInv, TypeOK', NEW p \in Procs, wakeup(p)
  PROVE  IInv'
<1>1. PICK q \in Procs : q = Min(todo[p]) /\ q \in todo[p] /\ plock[q] = None
  BY TodoMin, Zenon DEF IInv, wakeup, Free
<1> DEFINE b == chan[q] = wchan[p]
<1>2. state' = IF state[q] = "SLEEPING" /\ b THEN [state EXCEPT ![q] = "RUNNABLE"] ELSE state
  BY <1>1, Zenon DEF wakeup
<1>3. UNCHANGED <<chan, parent, plock, wait_lock, current, pc, np, wchan, back>>
  BY Zenon DEF wakeup, lockVars, cpuVars
<1>4. \A x \in Procs : \/ todo'[x] = todo[x]
                       \/ /\ todo'[x] = todo[x] \ {q}
                          /\ wchan[x] = q /\ state[q] = "SLEEPING" => b
  BY <1>1 DEF IInv, TypeOK, wakeup, States
<1>5. b \in BOOLEAN
  OBVIOUS
<1> HIDE DEF b
<1> QED BY <1>1, <1>2, <1>3, <1>4, <1>5, WakeStep, Zenon

\* kill() wakes a sleeper up.
LEMMA kill_step ==
  ASSUME MinBelongs, IInv, TypeOK', NEW p \in Procs, NEW k \in KillPids, kill(p, k)
  PROVE  IInv'
<1>1. PICK q \in Procs : q = Min({x \in Procs : pid[x] = k}) /\ plock[q] = None
  BY PidMin, Zenon DEF kill, Free
<1> DEFINE b == TRUE
<1>2. state' = IF state[q] = "SLEEPING" /\ b THEN [state EXCEPT ![q] = "RUNNABLE"] ELSE state
  BY <1>1, Zenon DEF kill
<1>3. /\ UNCHANGED <<chan, parent, plock, wait_lock, current, pc, np, wchan, back>>
      /\ \A x \in Procs : todo'[x] = todo[x]
  BY Zenon DEF kill, lockVars, cpuVars, threadVars
<1>4. \A x \in Procs : \/ todo'[x] = todo[x]
                       \/ /\ todo'[x] = todo[x] \ {q}
                          /\ wchan[x] = q /\ state[q] = "SLEEPING" => b
  BY <1>3, Zenon
<1>5. b \in BOOLEAN
  OBVIOUS
<1> HIDE DEF b
<1> QED BY <1>1, <1>2, <1>3, <1>4, <1>5, WakeStep, Zenon

\* fork() fails and frees the slot again.
LEMMA fork_fail_step ==
  ASSUME IInv, TypeOK', NEW p \in Procs, NEW q \in Procs, fork_fail(p, q)
  PROVE  IInv'
<1>1. state[q] = "UNUSED" /\ parent[q] = None
  BY Zenon DEF IInv, fork_fail, Family
<1>2. /\ \A x \in Procs : state'[x] = state[x]
      /\ \A x \in Procs : state[x] # "UNUSED" => chan'[x] = chan[x]
      /\ UNCHANGED <<parent, plock, wait_lock, current, pc, np, todo, wchan, back>>
  BY <1>1 DEF IInv, fork_fail, Freed, lockVars, cpuVars, threadVars, TypeOK
<1> QED BY <1>2, UnmovedStep, Zenon

-----------------------------------------------------------------------------
(* Every step                                                              *)

\* Every step keeps the inductive invariant.
LEMMA InvStep ==
  ASSUME MinBelongs, IInv, [Next]_vars
  PROVE  IInv'
<1>1. TypeOK'
  BY TypeStep, Zenon DEF IInv
<1>2. ASSUME NEW p \in Procs, Kernel(p) PROVE IInv'
  <2>1. CASE \/ fork_parent(p) \/ fork_run(p) \/ wakeup(p) \/ wakeup_return(p)
             \/ reparent(p) \/ exit_wakeup(p) \/ exit_zombie(p) \/ exit_sched(p)
    BY <1>1, <2>1, fork_parent_step, fork_run_step, wakeup_step, wakeup_return_step,
       reparent_step, exit_wakeup_step, exit_zombie_step, exit_sched_step, Zenon
  <2>2. CASE \/ exit_acquire(p) \/ wait_acquire(p) \/ wait_skip(p) \/ wait_reap(p)
             \/ wait_copyout_fail(p) \/ wait_give_up(p) \/ wait_sleep(p)
             \/ sleep(p) \/ sleep_sched(p)
    BY <1>1, <2>2, exit_acquire_step, wait_acquire_step, wait_skip_step, wait_reap_step,
       wait_copyout_fail_step, wait_give_up_step, wait_sleep_step, sleep_step,
       sleep_sched_step, Zenon
  <2> QED BY <1>2, <2>1, <2>2, Zenon DEF Kernel
<1>3. ASSUME NEW p \in Procs, Call(p) PROVE IInv'
  BY <1>1, <1>3, fork_step, fork_fail_step, exit_step, wait_step, kill_step, Zenon
     DEF Call
<1>4. ASSUME NEW p \in Procs, yield(p) PROVE IInv'
  BY <1>1, <1>4, yield_step, Zenon
<1>5. ASSUME NEW c \in CPUs, scheduler(c) PROVE IInv'
  BY <1>1, <1>5, scheduler_step, Zenon
<1>6. CASE UNCHANGED vars
  <2>1. UNCHANGED <<state, chan, parent, plock, wait_lock, current, pc, np, todo, wchan, back>>
    BY <1>6, Zenon DEF vars, slotVars, lockVars, cpuVars, threadVars
  <2> QED BY <1>1, <2>1, UnmovedStep, Zenon
<1> QED BY <1>2, <1>3, <1>4, <1>5, <1>6, Zenon DEF Next

-----------------------------------------------------------------------------
(* The least slot of a set                                                 *)

INSTANCE WellFoundedInduction

\* The least element of a set of slots belongs to it.
LEMMA MinIn == MinBelongs
<1> SUFFICES ASSUME NEW S \in SUBSET Procs, S # {}
             PROVE  Min(S) \in S /\ \A x \in S : Min(S) <= x
  BY Zenon DEF MinBelongs
<1> DEFINE R == {ss \in Nat \X Nat : ss[1] < ss[2]}
<1>1. S \subseteq Nat BY ProcConstants DEF Procs
<1>2. IsWellFoundedOn(R, Nat) BY NatLessThanWellFounded, Zenon DEF OpToRel
<1>3. PICK x \in S : \A y \in S : ~(<<y, x>> \in R)
  <2> HIDE DEF R
  <2> QED BY <1>1, <1>2, WFMin, Zenon
<1>4. ASSUME NEW y \in S PROVE x <= y
  <2>1. <<y, x>> \notin R BY <1>3, Zenon
  <2>2. <<y, x>> \in Nat \X Nat BY <1>1, Zenon
  <2>3. ~(y < x) BY <2>1, <2>2, Zenon
  <2> QED BY <2>3, <1>1
<1> QED BY <1>4, Zenon DEF Min

-----------------------------------------------------------------------------
(* Theorems                                                                *)

\* The table of slots, the locks, the CPUs and the labels of the kernel threads
\* of proc.c stay in the relation IInv describes.
THEOREM ProcInvariant == Spec => []IInv
<1>1. IInv /\ [Next]_vars => IInv'
  BY InvStep, MinIn, Zenon
<1> QED BY <1>1, InvInit, PTL DEF Spec

\* Under p->lock a process is on one CPU at most, exactly while it is RUNNING or
\* leaving exit(); sched() is entered with p->lock and no other lock; wait() never
\* frees a child that is still on its kernel stack.
THEOREM ProcOneCPU == Spec => []OneCPU
<1>1. IInv => OneCPU
  <2> SUFFICES ASSUME IInv PROVE OneCPU
    OBVIOUS
  <2>1. SchedLocks
    BY Slots DEF IInv, SchedLocks, Locks, Waitlocked, Exec
  <2> QED BY <2>1, Zenon DEF IInv, OneCPU, Running, Exec
<1> QED BY <1>1, ProcInvariant, PTL

\* exit() and reparent(), under wait_lock, leave no started process without a
\* parent that can wait for it.
THEOREM ProcParentAlive == Spec => []ParentAlive
<1>1. IInv => ParentAlive
  BY Zenon DEF IInv, ParentAlive, Family
<1> QED BY <1>1, ProcInvariant, PTL

\* wait() does not sleep through the exit() of a child, however exit(), kill(),
\* sleep() and wakeup() interleave.
THEOREM ProcNoLostWakeup == Spec => []NoLostWakeup
<1>1. IInv => NoLostWakeup
  BY Zenon DEF IInv, NoLostWakeup, NoneLost, SleepsOrWill
<1> QED BY <1>1, ProcInvariant, PTL
=============================================================================
