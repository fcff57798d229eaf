------------------------------- MODULE Alarm -------------------------------
(***************************************************************************)
(* Traps from user space and the periodic alarm: uservec and userret       *)
(* (trampoline.S), usertrap() and usertrapret() (trap.c), syscall()        *)
(* (syscall.c), sys_sigalarm() and sys_sigreturn() (sysproc.c).            *)
(*                                                                         *)
(* One process is followed: its user registers, its trapframe, the copy of *)
(* the trapframe that sigreturn() goes back to, and its alarm fields, all  *)
(* private to the process.  Other processes appear as the possibility of   *)
(* being moved to another hart whenever the process can be preempted.      *)
(* The user registers are abstracted to the program counter, a0 (which     *)
(* carries system-call results) and s, which stands for all the others.    *)
(***************************************************************************)
EXTENDS Integers, Sequences

CONSTANTS Harts,
          Words,          \* contents of a register; 0 is one of them
          Intervals,      \* arguments of sigalarm(), in main or in the handler
          MAXDEPTH        \* bound on nested handler invocations

ASSUME AlarmConstants ==
  /\ 0 \in Words
  /\ Intervals \subseteq Int
  /\ MAXDEPTH \in Nat

\* Two instructions of the main program and one of the alarm handler.
PCs == {"main1", "main2", "handler"}
Regs == [pc : PCs, a0 : Words, s : Words]
Frames == [regs : Regs, hartid : Harts]   \* struct trapframe

\* An invocation of the handler: the registers at the point of interruption,
\* whether the handler has armed the alarm again, and whether another alarm has
\* come before it was finished.
Invocations == [regs : Regs, rearmed : BOOLEAN, overtaken : BOOLEAN]

Following(a) == CASE a = "main1" -> "main2" [] a = "main2" -> "main1"
                  [] OTHER -> "handler"

VARIABLES
  mode,         \* "user", or what the kernel is doing for the process
  regs,         \* the user registers, while in user space
  hart,         \* hart that runs the process
  trapframe,    \* p->trapframe: saved user registers, and kernel_hartid
  alarm_tf,     \* p->alarm_tf
  alarm_interval, ticks_since_alarm, in_alarm_handler,
  arg,          \* argument of the sigalarm() in progress
  interrupted   \* history: the unfinished invocations of the handler

alarmVars == <<alarm_tf, alarm_interval, ticks_since_alarm, in_alarm_handler>>
vars == <<mode, regs, hart, trapframe, alarmVars, arg, interrupted>>

\* allocproc() has zeroed the alarm fields; alarm_tf is a fresh page with
\* arbitrary contents.
Init ==
  /\ mode = "user"
  /\ regs = [pc |-> "main1", a0 |-> 0, s |-> 0]
  /\ hart \in Harts
  /\ trapframe = [regs |-> regs, hartid |-> hart]
  /\ alarm_tf \in Frames
  /\ alarm_interval = 0 /\ ticks_since_alarm = 0 /\ in_alarm_handler = FALSE
  /\ arg = 0
  /\ interrupted = << >>

-----------------------------------------------------------------------------
\* An instruction that is neither ecall nor the return of the handler.
user_step ==
  /\ mode = "user"
  /\ \E a, s \in Words :
       regs' = [pc |-> Following(regs.pc), a0 |-> a, s |-> s]
  /\ UNCHANGED <<mode, hart, trapframe, alarmVars, arg, interrupted>>

\* uservec saves the user registers; the kernel_* fields stay as they are.
Saved == [trapframe EXCEPT !.regs = regs]

\* userret loads the user registers from the trapframe.
userret(tf) == mode' = "user" /\ regs' = tf.regs

\* Mutant: kernel_hartid is left as it is.
usertrapret_stale(tf, h) == trapframe' = tf /\ userret(tf)

\* usertrapret() stamps the trapframe with the hart it runs on.
usertrapret(tf, h) == trapframe' = [tf EXCEPT !.hartid = h] /\ userret(tf)

-----------------------------------------------------------------------------
(* A timer interrupt in user space: usertrap() with which_dev == 2         *)

\* Mutants of the test in usertrap(): in_alarm_handler is ignored; > for >=.
AlarmDue_reentrant ==
  /\ alarm_interval > 0
  /\ ticks_since_alarm + 1 >= alarm_interval

AlarmDue_late ==
  /\ alarm_interval > 0 /\ ~in_alarm_handler
  /\ ticks_since_alarm + 1 > alarm_interval

AlarmDue ==
  /\ alarm_interval > 0 /\ ~in_alarm_handler
  /\ ticks_since_alarm + 1 >= alarm_interval

\* The history: an alarm overtakes the handler that runs; sigalarm(n) in the
\* handler arms the alarm again; sigreturn() finishes the last invocation.
Innermost(k) == k = Len(interrupted)
Overtaken ==
  Append([k \in DOMAIN interrupted |->
            [interrupted[k] EXCEPT !.overtaken = @ \/ Innermost(k)]],
         [regs |-> regs, rearmed |-> FALSE, overtaken |-> FALSE])
Rearmed(n) ==
  [k \in DOMAIN interrupted |->
     [interrupted[k] EXCEPT !.rearmed = @ \/ (Innermost(k) /\ n > 0)]]
Finished == SubSeq(interrupted, 1, Len(interrupted) - 1)

\* Mutant: epc is set before the trapframe is copied.
timer_alarm_swapped ==
  /\ mode = "user" /\ AlarmDue
  /\ Len(interrupted) < MAXDEPTH
  /\ ticks_since_alarm' = 0
  /\ alarm_tf' = [Saved EXCEPT !.regs.pc = "handler"]
  /\ trapframe' = [Saved EXCEPT !.regs.pc = "handler"]
  /\ in_alarm_handler' = TRUE
  /\ interrupted' = Overtaken
  /\ mode' = "yield"
  /\ UNCHANGED <<regs, hart, alarm_interval, arg>>

\* The handler is made to run when the process returns to user space.
timer_alarm ==
  /\ mode = "user" /\ AlarmDue
  /\ Len(interrupted) < MAXDEPTH
  /\ ticks_since_alarm' = 0
  /\ alarm_tf' = Saved
  /\ trapframe' = [Saved EXCEPT !.regs.pc = "handler"]
  /\ in_alarm_handler' = TRUE
  /\ interrupted' = Overtaken
  /\ mode' = "yield"
  /\ UNCHANGED <<regs, hart, alarm_interval, arg>>

timer_tick ==
  /\ mode = "user" /\ ~AlarmDue
  /\ ticks_since_alarm' = IF alarm_interval > 0 /\ ~in_alarm_handler
                            THEN ticks_since_alarm + 1 ELSE ticks_since_alarm
  /\ trapframe' = Saved
  /\ mode' = "yield"
  /\ UNCHANGED <<regs, hart, alarm_tf, alarm_interval, in_alarm_handler, arg,
                 interrupted>>

\* yield(): the process goes on, on whatever hart schedules it.
yield_return ==
  /\ mode = "yield"
  /\ \E h \in Harts : hart' = h /\ usertrapret(trapframe, h)
  /\ UNCHANGED <<alarmVars, arg, interrupted>>

-----------------------------------------------------------------------------
(* System calls.  The kernel can be preempted while it executes one.       *)

Ecall(call) ==
  /\ mode = "user"
  /\ trapframe' = [Saved EXCEPT !.regs.pc = Following(regs.pc)]
  /\ mode' = call
  /\ UNCHANGED <<regs, hart, alarmVars, interrupted>>

ecall_sigalarm(n) ==
  /\ arg' = n
  /\ Ecall("sigalarm")

ecall_sigreturn == UNCHANGED arg /\ Ecall("sigreturn")

ecall_other == UNCHANGED arg /\ Ecall("other")

\* kerneltrap() yields.
kernel_preempt ==
  /\ mode \in {"sigalarm", "sigreturn", "other"}
  /\ \E h \in Harts \ {hart} : hart' = h
  /\ UNCHANGED <<mode, regs, trapframe, alarmVars, arg, interrupted>>

\* syscall(): p->trapframe->a0 = the result, whatever the call did to the
\* trapframe; then usertrapret().
SyscallReturn(tf, result) ==
  /\ usertrapret([tf EXCEPT !.regs.a0 = result], hart)
  /\ UNCHANGED <<hart, arg>>

sys_sigalarm ==
  /\ mode = "sigalarm"
  /\ alarm_interval' = arg
  /\ ticks_since_alarm' = 0
  /\ in_alarm_handler' = FALSE
  /\ SyscallReturn(trapframe, 0)
  /\ interrupted' = Rearmed(arg)
  /\ UNCHANGED alarm_tf

\* Mutant: in_alarm_handler stays set.
sys_sigreturn_busy ==
  /\ mode = "sigreturn"
  /\ SyscallReturn(alarm_tf, 0)
  /\ interrupted' = Finished
  /\ UNCHANGED <<alarm_tf, alarm_interval, ticks_since_alarm, in_alarm_handler>>

\* memmove(p->trapframe, p->alarm_tf, PGSIZE)
sys_sigreturn ==
  /\ mode = "sigreturn"
  /\ in_alarm_handler' = FALSE
  /\ SyscallReturn(alarm_tf, 0)
  /\ interrupted' = Finished
  /\ UNCHANGED <<alarm_tf, alarm_interval, ticks_since_alarm>>

sys_other ==
  /\ mode = "other"
  /\ \E r \in Words : SyscallReturn(trapframe, r)
  /\ UNCHANGED <<alarmVars, interrupted>>

Next ==
  \/ user_step \/ timer_alarm \/ timer_tick \/ yield_return
  \/ (\E n \in Intervals : ecall_sigalarm(n))
  \/ ecall_sigreturn \/ ecall_other
  \/ kernel_preempt
  \/ sys_sigalarm \/ sys_sigreturn \/ sys_other

Spec == Init /\ [][Next]_vars

\* Timer interrupts keep coming, and the kernel finishes what it does for the
\* process.
Fairness ==
  /\ SF_vars(timer_alarm \/ timer_tick)
  /\ WF_vars(yield_return)
  /\ WF_vars(sys_sigalarm \/ sys_sigreturn \/ sys_other)

FairSpec == Spec /\ Fairness

-----------------------------------------------------------------------------
(* Properties                                                              *)

\* Every variable has its type.
TypeOK ==
  /\ mode \in {"user", "yield", "sigalarm", "sigreturn", "other"}
  /\ regs \in Regs
  /\ hart \in Harts
  /\ trapframe \in Frames /\ alarm_tf \in Frames
  /\ alarm_interval \in Intervals \cup {0}
  /\ ticks_since_alarm \in (IF alarm_interval > 0 THEN Nat ELSE {0})
  /\ in_alarm_handler \in BOOLEAN
  /\ arg \in Intervals \cup {0}
  /\ interrupted \in Seq(Invocations)

\* uservec makes tp hold the current hartid: in user space the trapframe names
\* the hart the process runs on, wherever preemption moved it and although
\* sigreturn() overwrites the trapframe with an older one.
HartidFresh == mode = "user" => trapframe.hartid = hart

\* "kernel does not allow reentrant alarm calls" (user/alarmtest.c): usertrap()
\* interrupts a handler by another call of it only if that handler has itself
\* armed the alarm again, whatever sigalarm() and sigreturn() are called with, and
\* where.
NoReentry ==
  \A k \in DOMAIN interrupted : interrupted[k].overtaken => interrupted[k].rearmed

\* The alarm is never overdue: while it is on, fewer ticks than the interval have
\* been counted since the last sigalarm() or the last call of the handler, also
\* when sigalarm() has shortened the interval.
AlarmOnTime == alarm_interval > 0 => ticks_since_alarm < alarm_interval

\* The step that ends a sigreturn() to the point r of interruption: nothing is
\* promised for a handler that another alarm has overtaken, as its copy of the
\* trapframe is overwritten.
Returns(r) ==
  /\ mode = "sigreturn" /\ mode' = "user" /\ interrupted # << >>
  /\ LET last == interrupted[Len(interrupted)]
     IN  ~last.overtaken /\ r = last.regs

\* When the handler returns, the program continues at the point where the timer
\* interrupt occurred with its registers, except for a0.
ContextRestored ==
  [][\A r \in Regs : Returns(r) => regs'.pc = r.pc /\ regs'.s = r.s]_vars

\* "all registers holding the same values they held when the interrupt
\* occurred" (user/alarmtest.c).
AllRestored == [][\A r \in Regs : Returns(r) => regs' = r]_vars

\* The alarm rings again and again, until sigalarm() is called again.
AlarmRepeats ==
  alarm_interval > 0 /\ interrupted = << >>
    ~> interrupted # << >> \/ alarm_interval <= 0 \/ mode = "sigalarm"
=============================================================================
