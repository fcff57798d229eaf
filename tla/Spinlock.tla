------------------------------ MODULE Spinlock ------------------------------
(***************************************************************************)
(* kernel/spinlock.c: spin locks built on an atomic swap, and the nested   *)
(* interrupt disabling (push_off / pop_off) they rely on.                  *)
(*                                                                         *)
(* Each CPU runs one kernel thread, which acquires and releases locks in   *)
(* nested fashion, and takes interrupts whenever they are enabled; the     *)
(* interrupt handler (kerneltrap and the drivers) acquires locks as well.  *)
(* The two activities of a CPU are its contexts.  A step is one access to  *)
(* shared memory; accesses to the CPU's own struct cpu made with           *)
(* interrupts off belong to the step that makes them.                      *)
(***************************************************************************)
EXTENDS Integers, FiniteSets

CONSTANTS CPUs,       \* harts
          Locks,      \* spin locks; callers nest them in increasing order
          NoCPU       \* lk->cpu = 0

ASSUME SpinlockConstants == Locks \subseteq Nat /\ NoCPU \notin CPUs

Ctx == CPUs \X {"thread", "handler"}
cpu(t) == t[1]

VARIABLES
  locked,     \* lk->locked
  owner,      \* lk->cpu
  noff,       \* cpu->noff
  intena,     \* cpu->intena
  sie,        \* the CPU's interrupt-enable bit in sstatus
  run,        \* which context the CPU is executing
  pc,         \* where each context is in acquire() and release()
  lk,         \* lock that acquire() or release() was called with
  old,        \* local variable of push_off()
  held,       \* locks acquired and not released
  want        \* interrupt state the thread chose while it held no lock

lockVars == <<locked, owner>>
cpuVars == <<noff, intena, sie>>
ctxVars == <<pc, lk, old, held>>
vars == <<lockVars, cpuVars, run, ctxVars, want>>

Init ==
  /\ locked = [l \in Locks |-> FALSE]
  /\ owner = [l \in Locks |-> NoCPU]
  /\ noff = [c \in CPUs |-> 0]
  /\ intena = [c \in CPUs |-> FALSE]
  /\ sie = [c \in CPUs |-> FALSE]
  /\ run = [c \in CPUs |-> "thread"]
  /\ pc = [t \in Ctx |-> "idle"]
  /\ lk \in [Ctx -> Locks]
  /\ old = [t \in Ctx |-> FALSE]
  /\ held = [t \in Ctx |-> {}]
  /\ want = [c \in CPUs |-> FALSE]

\* Context t is the one its CPU is executing, and is at label a.
At(t, a) == run[cpu(t)] = t[2] /\ pc[t] = a
Goto(t, a) == pc' = [pc EXCEPT ![t] = a]

\* holding(l), evaluated on the CPU of t.
holding(t, l) == locked[l] /\ owner[l] = cpu(t)

-----------------------------------------------------------------------------
(* acquire()                                                               *)

\* push_off(): old = intr_get().  An interrupt may still come in after it.
acquire(t, l) ==
  /\ At(t, "idle")
  /\ \A h \in held[t] : h < l
  /\ lk' = [lk EXCEPT ![t] = l]
  /\ old' = [old EXCEPT ![t] = sie[cpu(t)]]
  /\ Goto(t, "push_off")
  /\ UNCHANGED <<lockVars, cpuVars, run, held, want>>

\* Mutant: it saves the interrupt state at every level of nesting.
push_off_overwrite(t) ==
  LET c == cpu(t)
  IN  /\ At(t, "push_off")
      /\ sie' = [sie EXCEPT ![c] = FALSE]
      /\ intena' = [intena EXCEPT ![c] = old[t]]
      /\ noff' = [noff EXCEPT ![c] = @ + 1]
      /\ Goto(t, "swap")
      /\ UNCHANGED <<lockVars, run, lk, old, held, want>>

\* The rest of push_off() runs with interrupts off.
push_off(t) ==
  LET c == cpu(t)
  IN  /\ At(t, "push_off")
      /\ sie' = [sie EXCEPT ![c] = FALSE]
      /\ intena' = IF noff[c] = 0 THEN [intena EXCEPT ![c] = old[t]] ELSE intena
      /\ noff' = [noff EXCEPT ![c] = @ + 1]
      /\ Goto(t, "swap")
      /\ UNCHANGED <<lockVars, run, lk, old, held, want>>

\* Mutant: the value that the swap returns is ignored.
swap_blind(t) ==
  /\ At(t, "swap")
  /\ ~holding(t, lk[t])
  /\ locked' = [locked EXCEPT ![lk[t]] = TRUE]
  /\ Goto(t, "set_cpu")
  /\ UNCHANGED <<owner, cpuVars, run, lk, old, held, want>>

\* The swap that finds the lock free; a swap that finds it taken writes back
\* the value that was there and is repeated.
swap(t) ==
  /\ At(t, "swap")
  /\ ~holding(t, lk[t])               \* else panic("acquire")
  /\ ~locked[lk[t]]
  /\ locked' = [locked EXCEPT ![lk[t]] = TRUE]
  /\ Goto(t, "set_cpu")
  /\ UNCHANGED <<owner, cpuVars, run, lk, old, held, want>>

set_cpu(t) ==
  /\ At(t, "set_cpu")
  /\ owner' = [owner EXCEPT ![lk[t]] = cpu(t)]
  /\ held' = [held EXCEPT ![t] = @ \cup {lk[t]}]
  /\ Goto(t, "idle")
  /\ UNCHANGED <<locked, cpuVars, run, lk, old, want>>

-----------------------------------------------------------------------------
(* release()                                                               *)

\* Locks need not be released in the order they were acquired: sleep() does not.
release(t, l) ==
  /\ At(t, "idle") /\ l \in held[t]
  /\ holding(t, l)                    \* else panic("release")
  /\ owner' = [owner EXCEPT ![l] = NoCPU]
  /\ lk' = [lk EXCEPT ![t] = l]
  /\ held' = [held EXCEPT ![t] = @ \ {l}]
  /\ Goto(t, "unlock")
  /\ UNCHANGED <<locked, cpuVars, run, old, want>>

unlock(t) ==
  /\ At(t, "unlock")
  /\ locked' = [locked EXCEPT ![lk[t]] = FALSE]
  /\ Goto(t, "pop_off")
  /\ UNCHANGED <<owner, cpuVars, run, lk, old, held, want>>

\* Mutant: interrupts are enabled at every level of nesting.
pop_off_eager(t) ==
  LET c == cpu(t)
  IN  /\ At(t, "pop_off")
      /\ ~sie[c] /\ noff[c] >= 1
      /\ noff' = [noff EXCEPT ![c] = @ - 1]
      /\ sie' = IF intena[c] THEN [sie EXCEPT ![c] = TRUE] ELSE sie
      /\ Goto(t, "idle")
      /\ UNCHANGED <<lockVars, intena, run, lk, old, held, want>>

pop_off(t) ==
  LET c == cpu(t)
  IN  /\ At(t, "pop_off")
      /\ ~sie[c] /\ noff[c] >= 1      \* else panic("pop_off")
      /\ noff' = [noff EXCEPT ![c] = @ - 1]
      /\ sie' = IF noff[c] = 1 /\ intena[c] THEN [sie EXCEPT ![c] = TRUE] ELSE sie
      /\ Goto(t, "idle")
      /\ UNCHANGED <<lockVars, intena, run, lk, old, held, want>>

-----------------------------------------------------------------------------
(* Interrupts                                                              *)

\* intr_on() and intr_off() outside any lock: scheduler(), usertrap(),
\* usertrapret().
set_intr(c, b) ==
  LET t == <<c, "thread">>
  IN  /\ At(t, "idle") /\ held[t] = {}
      /\ sie' = [sie EXCEPT ![c] = b]
      /\ want' = [want EXCEPT ![c] = b]
      /\ UNCHANGED <<lockVars, noff, intena, run, ctxVars>>

\* The hart clears sstatus.SIE as it enters kernelvec.
interrupt(c) ==
  /\ sie[c]
  /\ run[c] = "thread"
  /\ sie' = [sie EXCEPT ![c] = FALSE]
  /\ run' = [run EXCEPT ![c] = "handler"]
  /\ UNCHANGED <<lockVars, noff, intena, ctxVars, want>>

\* sret restores the SIE bit that was set when the interrupt came in.
kerneltrap_return(c) ==
  LET t == <<c, "handler">>
  IN  /\ At(t, "idle") /\ held[t] = {}
      /\ sie' = [sie EXCEPT ![c] = TRUE]
      /\ run' = [run EXCEPT ![c] = "thread"]
      /\ UNCHANGED <<lockVars, noff, intena, ctxVars, want>>

Next ==
  \/ \E t \in Ctx :
       \/ \E l \in Locks : acquire(t, l) \/ release(t, l)
       \/ push_off(t) \/ swap(t) \/ set_cpu(t) \/ unlock(t) \/ pop_off(t)
  \/ \E c \in CPUs : \/ \E b \in BOOLEAN : set_intr(c, b)
                     \/ interrupt(c) \/ kerneltrap_return(c)

Spec == Init /\ [][Next]_vars

-----------------------------------------------------------------------------
(* Properties                                                              *)

\* Every variable has its type.
TypeOK ==
  /\ locked \in [Locks -> BOOLEAN]
  /\ owner \in [Locks -> CPUs \cup {NoCPU}]
  /\ noff \in [CPUs -> Nat]
  /\ intena \in [CPUs -> BOOLEAN]
  /\ sie \in [CPUs -> BOOLEAN]
  /\ run \in [CPUs -> {"thread", "handler"}]
  /\ pc \in [Ctx -> {"idle", "push_off", "swap", "set_cpu", "unlock", "pop_off"}]
  /\ lk \in [Ctx -> Locks]
  /\ old \in [Ctx -> BOOLEAN]
  /\ held \in [Ctx -> SUBSET Locks]
  /\ want \in [CPUs -> BOOLEAN]

\* Context t is past the swap that took l and before the store that frees it.
Owns(t, l) ==
  l \in held[t] \/ (lk[t] = l /\ pc[t] \in {"set_cpu", "unlock"})

\* No two contexts, on different CPUs or on the same one, own a lock at once.
MutualExclusion ==
  \A l \in Locks : \A s, t \in Ctx : Owns(s, l) /\ Owns(t, l) => s = t

\* holding(), which reads lk->locked and lk->cpu without any lock, is exact: it
\* says yes on the CPU whose context holds the lock and on no other.
HoldingExact ==
  \A t \in Ctx, l \in Locks :
    At(t, "idle") => (holding(t, l) <=> \E x \in {"thread", "handler"} :
                                          l \in held[<<cpu(t), x>>])

\* Interrupts stay off from the swap of a lock to the end of its release(), so
\* that a handler never spins on a lock its own CPU holds.
InterruptsOff ==
  \A t \in Ctx : (held[t] # {} \/ pc[t] \notin {"idle", "push_off"}) =>
    ~sie[cpu(t)] /\ run[cpu(t)] = t[2]

\* No panic() of acquire(), release() or pop_off() is reached.
NoPanic ==
  \A t \in Ctx :
    /\ At(t, "swap") => ~holding(t, lk[t])
    /\ At(t, "idle") => \A l \in held[t] : holding(t, l)
    /\ At(t, "pop_off") => ~sie[cpu(t)] /\ noff[cpu(t)] >= 1

\* "If interrupts are initially off, then push_off, pop_off leaves them off",
\* and on if they were on; a handler never has them on.
IntrRestored ==
  \A t \in Ctx : At(t, "idle") /\ held[t] = {} =>
    sie[cpu(t)] = (t[2] = "thread" /\ want[cpu(t)])
=============================================================================
