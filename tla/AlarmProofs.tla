----------------------------- MODULE AlarmProofs -----------------------------
(***************************************************************************)
(* Proofs about module Alarm, for any harts, register contents and         *)
(* intervals.                                                              *)
(***************************************************************************)
EXTENDS Alarm, SequenceTheorems, TLAPS

-----------------------------------------------------------------------------
(* Type correctness                                                        *)

\* An instruction stays in main or in the handler.
LEMMA FollowingFacts ==
  ASSUME NEW a \in PCs
  PROVE  Following(a) \in PCs /\ (Following(a) = "handler" <=> a = "handler")
BY Zenon DEF PCs, Following

\* A function on 1..m is a sequence.
LEMMA FunctionIsSeq ==
  ASSUME NEW S, NEW m \in Nat, NEW f \in [1..m -> S]
  PROVE  f \in Seq(S) /\ Len(f) = m /\ DOMAIN f = 1..m
<1>1. f \in Seq(S)
  BY SeqDef, Zenon
<1> QED BY <1>1

\* The history after an alarm, a sigalarm() and a sigreturn().
LEMMA HistoryFacts ==
  ASSUME TypeOK, NEW n
  PROVE  /\ Overtaken \in Seq(Invocations) /\ Rearmed(n) \in Seq(Invocations)
         /\ Finished \in Seq(Invocations)
         /\ Len(Overtaken) = Len(interrupted) + 1
         /\ Len(Rearmed(n)) = Len(interrupted)
         /\ interrupted # << >> => Len(Finished) = Len(interrupted) - 1
         /\ interrupted = << >> => Finished = << >>
         /\ \A k \in 1..Len(interrupted) :
              /\ Overtaken[k] = [interrupted[k] EXCEPT !.overtaken = @ \/ Innermost(k)]
              /\ Rearmed(n)[k] =
                   [interrupted[k] EXCEPT !.rearmed = @ \/ (Innermost(k) /\ n > 0)]
         /\ Overtaken[Len(interrupted) + 1] =
              [regs |-> regs, rearmed |-> FALSE, overtaken |-> FALSE]
         /\ \A k \in 1..(Len(interrupted) - 1) : Finished[k] = interrupted[k]
<1> DEFINE N == Len(interrupted)
           O == [k \in 1..N |-> [interrupted[k] EXCEPT !.overtaken = @ \/ Innermost(k)]]
           R == [k \in 1..N |->
                   [interrupted[k] EXCEPT !.rearmed = @ \/ (Innermost(k) /\ n > 0)]]
           e == [regs |-> regs, rearmed |-> FALSE, overtaken |-> FALSE]
<1>1. N \in Nat /\ DOMAIN interrupted = 1..N /\ interrupted \in Seq(Invocations)
  BY LenProperties, Zenon DEF TypeOK
<1>2. \A k \in 1..N : interrupted[k] \in Invocations
  BY <1>1, ElementOfSeq, Zenon
<1>3. e \in Invocations
  BY Zenon DEF TypeOK, Invocations
<1>4. \A k \in 1..N : O[k] \in Invocations /\ R[k] \in Invocations
  <2> TAKE k \in 1..N
  <2>1. PICK x \in Invocations : x = interrupted[k] BY <1>2, Zenon
  <2>2. PICK o \in BOOLEAN : o = (x.overtaken \/ Innermost(k)) BY Zenon
  <2>3. PICK r \in BOOLEAN : r = (x.rearmed \/ (Innermost(k) /\ n > 0)) BY Zenon
  <2>4. [x EXCEPT !.overtaken = o] \in Invocations /\ [x EXCEPT !.rearmed = r] \in Invocations
    BY Zenon DEF Invocations
  <2> QED BY <2>1, <2>2, <2>3, <2>4, Zenon
<1>5. /\ O \in Seq(Invocations) /\ Len(O) = N
      /\ R \in Seq(Invocations) /\ Len(R) = N
  <2>1. O \in [1..N -> Invocations] /\ R \in [1..N -> Invocations]
    BY <1>4, Zenon
  <2> HIDE DEF O, R
  <2> QED BY <1>1, <2>1, FunctionIsSeq, Zenon
<1>6. Overtaken = Append(O, e) /\ Rearmed(n) = R
  BY <1>1, Zenon DEF Overtaken, Rearmed
<1>7. /\ Append(O, e) \in Seq(Invocations) /\ Len(Append(O, e)) = N + 1
      /\ Append(O, e)[N + 1] = e /\ \A k \in 1..N : Append(O, e)[k] = O[k]
  <2> HIDE DEF O, e
  <2>1. PICK o \in Seq(Invocations) : o = O BY <1>5, Zenon
  <2>2. PICK x \in Invocations : x = e BY <1>3, Zenon
  <2>3. /\ Append(o, x) \in Seq(Invocations) /\ Len(Append(o, x)) = Len(o) + 1
        /\ Append(o, x)[Len(o) + 1] = x
        /\ \A k \in 1..Len(o) : Append(o, x)[k] = o[k]
    BY AppendProperties
  <2> QED BY <1>5, <2>1, <2>2, <2>3, Zenon
<1>8. \A k \in 1..(N - 1) : interrupted[k] \in Invocations
  BY <1>1, <1>2
<1>9. /\ Finished \in Seq(Invocations)
      /\ interrupted # << >> => Len(Finished) = N - 1
      /\ interrupted = << >> => Finished = << >>
      /\ \A k \in 1..(N - 1) : Finished[k] = interrupted[k]
  BY <1>1, <1>8, SubSeqProperties, EmptySeq DEF Finished
<1> QED BY <1>5, <1>6, <1>7, <1>9, Zenon

\* The initial state is well typed.
LEMMA InitTypeOK == Init => TypeOK
<1> SUFFICES ASSUME Init PROVE TypeOK
  BY Zenon
<1>1. regs \in Regs
  BY AlarmConstants, Zenon DEF Init, Regs, PCs
<1>2. trapframe \in Frames
  BY <1>1, Zenon DEF Init, Frames
<1>3. interrupted \in Seq(Invocations)
  BY EmptySeq, Zenon DEF Init
<1> QED
  BY <1>1, <1>2, <1>3, Zenon DEF Init, TypeOK

\* Traps, system calls and returns keep the types.
LEMMA NextTypeOK == TypeOK /\ [Next]_vars => TypeOK'
<1> SUFFICES ASSUME TypeOK, [Next]_vars PROVE TypeOK'
  BY Zenon
<1>0. Following(regs.pc) \in PCs /\ 0 \in Words /\ "handler" \in PCs
  BY FollowingFacts, AlarmConstants, Zenon DEF TypeOK, Regs, PCs
<1> USE <1>0 DEF TypeOK, alarmVars, Frames, Regs
<1>1. CASE user_step
  BY <1>1 DEF user_step
<1>2. CASE timer_alarm
  <2>1. Saved \in Frames /\ [Saved EXCEPT !.regs.pc = "handler"] \in Frames
    BY Zenon DEF Saved
  <2>2. Overtaken \in Seq(Invocations)
    BY HistoryFacts, Zenon
  <2> QED
    BY <1>2, <2>1, <2>2, Zenon DEF timer_alarm, AlarmDue
<1>3. CASE timer_tick
  BY <1>3 DEF timer_tick, Saved, AlarmDue
<1>4. CASE yield_return
  BY <1>4, Zenon DEF yield_return, usertrapret, userret
<1>5. ASSUME NEW n \in Intervals, ecall_sigalarm(n)
      PROVE  TypeOK'
  BY <1>5, Zenon DEF ecall_sigalarm, Ecall, Saved
<1>6. CASE ecall_sigreturn
  BY <1>6, Zenon DEF ecall_sigreturn, Ecall, Saved
<1>7. CASE ecall_other
  BY <1>7, Zenon DEF ecall_other, Ecall, Saved
<1>8. CASE kernel_preempt
  BY <1>8, Zenon DEF kernel_preempt
<1>9. CASE sys_sigalarm
  BY <1>9, HistoryFacts, Zenon DEF sys_sigalarm, SyscallReturn, usertrapret, userret
<1>10. CASE sys_sigreturn
  BY <1>10, HistoryFacts, Zenon DEF sys_sigreturn, SyscallReturn, usertrapret, userret
<1>11. CASE sys_other
  <2>1. PICK r \in Words : SyscallReturn(trapframe, r)
    BY <1>11, Zenon DEF sys_other
  <2> QED
    BY <1>11, <2>1, Zenon DEF sys_other, SyscallReturn, usertrapret, userret
<1>12. CASE UNCHANGED vars
  BY <1>12, Zenon DEF vars
<1> HIDE DEF TypeOK
<1> QED
  BY <1>1, <1>2, <1>3, <1>4, <1>5, <1>6, <1>7, <1>8, <1>9, <1>10, <1>11, <1>12, Zenon
     DEF Next

\* The trapframe, its copy and the alarm fields keep their types, and the count
\* of ticks stays 0 while the alarm is off.
THEOREM TypeCorrect == Spec => []TypeOK
BY InitTypeOK, NextTypeOK, PTL DEF Spec

-----------------------------------------------------------------------------
(* The hart id in the trapframe                                            *)

\* Whatever hart a process resumes on, uservec finds that hart's id in the
\* trapframe: every return to user space goes through usertrapret().
THEOREM HartidIsFresh == Spec => []HartidFresh
<1>1. Init => HartidFresh
  BY DEF Init, HartidFresh
<1>2. TypeOK /\ HartidFresh /\ [Next]_vars => HartidFresh'
  BY Zenon DEF TypeOK, Frames, HartidFresh, Next, vars, alarmVars, user_step,
     timer_alarm,
         timer_tick, yield_return, ecall_sigalarm, ecall_sigreturn, ecall_other,
         Ecall, kernel_preempt, sys_sigalarm, sys_sigreturn, sys_other,
         SyscallReturn, usertrapret, userret
<1> QED
  BY <1>1, <1>2, TypeCorrect, PTL DEF Spec

\* The alarm is never overdue: usertrap() calls the handler at the tick that
\* completes the interval, and sigalarm() starts the count again.
THEOREM AlarmIsOnTime == Spec => []AlarmOnTime
<1>1. Init => AlarmOnTime
  BY Zenon DEF Init, AlarmOnTime
<1>2. TypeOK /\ AlarmOnTime /\ [Next]_vars => AlarmOnTime'
  BY AlarmConstants
     DEF TypeOK, AlarmOnTime, AlarmDue, Next, vars, alarmVars, user_step, timer_alarm,
         timer_tick, yield_return, ecall_sigalarm, ecall_sigreturn, ecall_other,
         Ecall, kernel_preempt, sys_sigalarm, sys_sigreturn, sys_other,
         SyscallReturn
<1> QED
  BY <1>1, <1>2, TypeCorrect, PTL DEF Spec

-----------------------------------------------------------------------------
(* The interrupted context.  Unless a handler arms the alarm again nothing *)
(* overtakes it, and until something does, what sigreturn() goes back to   *)
(* is the copy that its own alarm has made.                                *)

AlarmInv ==
  /\ NoReentry
  /\ \A k \in 1..(Len(interrupted) - 1) : interrupted[k].overtaken
  /\ \A k \in 1..Len(interrupted) : Innermost(k) =>
       /\ ~interrupted[k].overtaken => alarm_tf.regs = interrupted[k].regs
       /\ ~interrupted[k].rearmed => in_alarm_handler \/ alarm_interval <= 0

\* What does not touch the history, the copy of the trapframe or in_alarm_handler.
LEMMA Irrelevant ==
  ASSUME AlarmInv, UNCHANGED <<interrupted, alarm_tf, in_alarm_handler, alarm_interval>>
  PROVE  AlarmInv'
BY Zenon DEF AlarmInv, NoReentry, Innermost

\* timer_alarm() in usertrap(): the handler that runs, if any, has armed the alarm.
LEMMA timer_alarm_inv ==
  ASSUME TypeOK, AlarmInv, timer_alarm
  PROVE  AlarmInv'
<1> DEFINE N == Len(interrupted)
<1>1. /\ interrupted' = Overtaken /\ alarm_tf'.regs = regs /\ in_alarm_handler'
      /\ alarm_interval > 0 /\ ~in_alarm_handler /\ alarm_interval \in Int
  BY AlarmConstants DEF timer_alarm, AlarmDue, Saved, TypeOK, Frames
<1>2. N \in Nat /\ DOMAIN interrupted = 1..N
  BY LenProperties, Zenon DEF TypeOK
<1>3. \A k \in 1..N : interrupted[k] \in Invocations
  BY ElementOfSeq, Zenon DEF TypeOK
<1>4. /\ Len(interrupted') = N + 1 /\ DOMAIN interrupted' = 1..(N + 1)
      /\ interrupted'[N + 1] = [regs |-> regs, rearmed |-> FALSE, overtaken |-> FALSE]
      /\ \A k \in 1..N :
           interrupted'[k] = [interrupted[k] EXCEPT !.overtaken = @ \/ Innermost(k)]
  BY <1>1, HistoryFacts, LenProperties, Zenon
<1>5. \A k \in 1..N : /\ interrupted'[k].rearmed = interrupted[k].rearmed
                       /\ interrupted'[k].overtaken = (interrupted[k].overtaken \/ k = N)
  BY <1>3, <1>4, Zenon DEF Invocations, Innermost
<1>6. ASSUME NEW k \in 1..N PROVE interrupted'[k].overtaken /\ interrupted'[k].rearmed
  <2>1. CASE k = N
    <3>1. ~(alarm_interval <= 0) BY <1>1
    <3> QED BY <1>1, <1>5, <2>1, <3>1, Zenon DEF AlarmInv, Innermost
  <2>2. CASE k # N
    <3> HIDE DEF N
    <3>1. k \in 1..(N - 1) BY <1>2, <2>2
    <3> QED BY <1>2, <1>5, <3>1, Zenon DEF AlarmInv, NoReentry, N
  <2> QED BY <2>1, <2>2, Zenon
<1>7. \A k \in 1..(N + 1) : k \in 1..N \/ k = N + 1
  BY <1>2
<1>10. interrupted'[N + 1].regs = regs /\ ~interrupted'[N + 1].overtaken
  <2> DEFINE x == interrupted'[N + 1]
  <2>1. x = [regs |-> regs, rearmed |-> FALSE, overtaken |-> FALSE] BY <1>4, Zenon
  <2> HIDE DEF x
  <2>2. x.regs = regs /\ ~x.overtaken BY <2>1, Zenon
  <2> QED BY <2>2, Zenon DEF x
<1>8. NoReentry'
  <2> SUFFICES ASSUME NEW k \in 1..(N + 1), interrupted'[k].overtaken
               PROVE  interrupted'[k].rearmed
    BY <1>4, Zenon DEF NoReentry
  <2> QED BY <1>6, <1>7, <1>10, Zenon
<1>9. \A k \in 1..(Len(interrupted') - 1) : interrupted'[k].overtaken
  <2>1. Len(interrupted') - 1 = N BY <1>2, <1>4
  <2> QED BY <1>6, <2>1, Zenon
<1> QED BY <1>1, <1>4, <1>8, <1>9, <1>10, Zenon DEF AlarmInv, Innermost

\* sigalarm() of the handler that runs.
LEMMA sys_sigalarm_inv ==
  ASSUME TypeOK, AlarmInv, sys_sigalarm
  PROVE  AlarmInv'
<1> DEFINE N == Len(interrupted)
<1>1. /\ interrupted' = Rearmed(arg) /\ alarm_tf' = alarm_tf /\ alarm_interval' = arg
      /\ arg \in Int
  BY AlarmConstants DEF sys_sigalarm, TypeOK
<1>2. N \in Nat /\ DOMAIN interrupted = 1..N
  BY LenProperties, Zenon DEF TypeOK
<1>3. \A k \in 1..N : interrupted[k] \in Invocations
  BY ElementOfSeq, Zenon DEF TypeOK
<1>4. /\ Len(interrupted') = N /\ DOMAIN interrupted' = 1..N
      /\ \A k \in 1..N : interrupted'[k] =
           [interrupted[k] EXCEPT !.rearmed = @ \/ (Innermost(k) /\ arg > 0)]
  <2>1. PICK n : n = arg BY Zenon
  <2>2. /\ Rearmed(n) \in Seq(Invocations) /\ Len(Rearmed(n)) = N
        /\ \A k \in 1..N : Rearmed(n)[k] =
             [interrupted[k] EXCEPT !.rearmed = @ \/ (Innermost(k) /\ n > 0)]
    BY HistoryFacts, Zenon
  <2>3. interrupted' = Rearmed(n) BY <1>1, <2>1, Zenon
  <2>4. DOMAIN Rearmed(n) = 1..N BY <2>2, LenProperties, Zenon
  <2> QED BY <2>1, <2>2, <2>3, <2>4, Zenon
<1>5. \A k \in 1..N :
        /\ interrupted'[k].rearmed = (interrupted[k].rearmed \/ (k = N /\ arg > 0))
        /\ interrupted'[k].overtaken = interrupted[k].overtaken
        /\ interrupted'[k].regs = interrupted[k].regs
  BY <1>3, <1>4, Zenon DEF Invocations, Innermost
<1>6. NoReentry'
  BY <1>2, <1>4, <1>5, Zenon DEF AlarmInv, NoReentry
<1>7. \A k \in 1..(N - 1) : k \in 1..N
  BY <1>2
<1>8. arg > 0 \/ arg <= 0
  BY <1>1
<1>9. \A k \in 1..(N - 1) : interrupted'[k].overtaken
  BY <1>5, <1>7, Zenon DEF AlarmInv
<1>10. ASSUME NEW k \in 1..N, k = N
       PROVE  /\ ~interrupted'[k].overtaken => alarm_tf'.regs = interrupted'[k].regs
              /\ ~interrupted'[k].rearmed => alarm_interval' <= 0
  BY <1>1, <1>5, <1>8, <1>10, Zenon DEF AlarmInv, Innermost
<1> QED BY <1>4, <1>6, <1>9, <1>10, Zenon DEF AlarmInv, Innermost

\* sigreturn(): the invocation below, if any, has been overtaken.
LEMMA sys_sigreturn_inv ==
  ASSUME TypeOK, AlarmInv, sys_sigreturn
  PROVE  AlarmInv'
<1> DEFINE N == Len(interrupted)
<1>1. interrupted' = Finished
  BY Zenon DEF sys_sigreturn
<1>2. N \in Nat /\ DOMAIN interrupted = 1..N
  BY LenProperties, Zenon DEF TypeOK
<1>3. CASE interrupted = << >>
  <2>1. interrupted' = << >> BY <1>1, <1>3, HistoryFacts, Zenon
  <2> QED BY <2>1 DEF AlarmInv, NoReentry
<1>4. CASE interrupted # << >>
  <2>1. /\ Len(interrupted') = N - 1 /\ DOMAIN interrupted' = 1..(N - 1)
        /\ \A k \in 1..(N - 1) : interrupted'[k] = interrupted[k]
    BY <1>1, <1>4, HistoryFacts, LenProperties, Zenon
  <2>2. \A k \in 1..(N - 1) : k \in 1..N
    BY <1>2
  <2>3. \A k \in 1..(N - 1) : interrupted'[k].overtaken /\ interrupted'[k].rearmed
    BY <1>2, <2>1, <2>2, Zenon DEF AlarmInv, NoReentry
  <2>4. \A k \in 1..(N - 1 - 1) : k \in 1..(N - 1)
    BY <1>2
  <2> QED BY <2>1, <2>3, <2>4, Zenon DEF AlarmInv, NoReentry
<1> QED BY <1>3, <1>4, Zenon

\* The inductive invariant holds in every reachable state.
LEMMA AlarmInvariant == Spec => []AlarmInv
<1>1. Init => AlarmInv
  BY DEF Init, AlarmInv, NoReentry
<1>2. TypeOK /\ AlarmInv /\ [Next]_vars => AlarmInv'
  <2> SUFFICES ASSUME TypeOK, AlarmInv, [Next]_vars PROVE AlarmInv'
    BY Zenon
  <2>1. CASE timer_alarm BY <2>1, timer_alarm_inv, Zenon
  <2>2. CASE sys_sigalarm BY <2>2, sys_sigalarm_inv, Zenon
  <2>3. CASE sys_sigreturn BY <2>3, sys_sigreturn_inv, Zenon
  <2>4. CASE \/ user_step \/ timer_tick \/ yield_return \/ ecall_sigreturn
             \/ (\E n \in Intervals : ecall_sigalarm(n))
             \/ ecall_other \/ kernel_preempt \/ sys_other \/ UNCHANGED vars
    <3>1. UNCHANGED <<interrupted, alarm_tf, in_alarm_handler, alarm_interval>>
      BY <2>4, Zenon DEF user_step, timer_tick, yield_return, ecall_sigreturn,
         ecall_sigalarm, ecall_other, Ecall, kernel_preempt, sys_other, vars, alarmVars
    <3> QED BY <3>1, Irrelevant, Zenon
  <2> QED BY <2>1, <2>2, <2>3, <2>4, Zenon DEF Next
<1> QED BY <1>1, <1>2, TypeCorrect, PTL DEF Spec

\* usertrap() does not call the handler while it runs, unless the handler itself
\* has passed a positive interval to sigalarm().
THEOREM NoReentrantAlarm == Spec => []NoReentry
<1>1. AlarmInv => NoReentry
  BY Zenon DEF AlarmInv
<1> QED BY <1>1, AlarmInvariant, PTL

\* sigreturn() goes back to where the timer interrupt occurred, with all registers
\* but a0 as they were, unless another alarm has come in between.
THEOREM ContextIsRestored == Spec => ContextRestored
<1>1. TypeOK /\ AlarmInv /\ [Next]_vars =>
        [\A r \in Regs : Returns(r) => regs'.pc = r.pc /\ regs'.s = r.s]_vars
  <2> SUFFICES ASSUME TypeOK, AlarmInv, [Next]_vars, NEW r \in Regs, Returns(r)
               PROVE  regs'.pc = r.pc /\ regs'.s = r.s
    BY Zenon
  <2>1. sys_sigreturn
    BY Zenon DEF Returns, Next, vars, user_step, timer_alarm, timer_tick, yield_return,
           ecall_sigalarm, ecall_sigreturn, ecall_other, Ecall, kernel_preempt,
           sys_sigalarm, sys_other
  <2>2. alarm_tf.regs = r
    <3>1. interrupted \in Seq(Invocations) /\ interrupted # << >>
      BY Zenon DEF Returns, TypeOK
    <3>2. Len(interrupted) \in 1..Len(interrupted)
      BY <3>1
    <3> QED BY <3>2, Zenon DEF AlarmInv, Innermost, Returns
  <2>3. regs' = [alarm_tf.regs EXCEPT !.a0 = 0]
    BY <2>1, Zenon DEF sys_sigreturn, SyscallReturn, usertrapret, userret, TypeOK,
       Frames
  <2> QED
    BY <2>2, <2>3, Zenon DEF Regs
<1> QED
  BY <1>1, AlarmInvariant, TypeCorrect, PTL DEF Spec, ContextRestored
=============================================================================
