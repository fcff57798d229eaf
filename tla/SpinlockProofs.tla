--------------------------- MODULE SpinlockProofs ---------------------------
(***************************************************************************)
(* Proofs about module Spinlock, for any number of CPUs and locks.         *)
(***************************************************************************)
EXTENDS Spinlock, FiniteSetTheorems, TLAPS

\* A context is determined by its CPU and its kind.
LEMMA CtxFacts ==
  /\ \A t \in Ctx : cpu(t) \in CPUs /\ t[2] \in {"thread", "handler"}
  /\ \A s, t \in Ctx : cpu(s) = cpu(t) /\ s[2] = t[2] => s = t
  /\ \A c \in CPUs, x \in {"thread", "handler"} :
       <<c, x>> \in Ctx /\ cpu(<<c, x>>) = c /\ <<c, x>>[2] = x
BY DEF Ctx, cpu

-----------------------------------------------------------------------------
(* Type correctness                                                        *)

\* The initial state is well typed.
LEMMA InitTypeOK == Init => TypeOK
BY SpinlockConstants DEF Init, TypeOK

\* Every step of acquire(), release() and the interrupt path keeps the types.
LEMMA NextTypeOK == TypeOK /\ [Next]_vars => TypeOK'
<1> SUFFICES ASSUME TypeOK, [Next]_vars PROVE TypeOK'
  BY Zenon
<1> USE CtxFacts DEF TypeOK, lockVars, cpuVars, ctxVars, At, Goto
<1>1. ASSUME NEW t \in Ctx, NEW l \in Locks, acquire(t, l) PROVE TypeOK'
  BY <1>1, Zenon DEF acquire
<1>2. ASSUME NEW t \in Ctx, push_off(t) PROVE TypeOK'
  BY <1>2 DEF push_off
<1>3. ASSUME NEW t \in Ctx, swap(t) PROVE TypeOK'
  BY <1>3, Zenon DEF swap
<1>4. ASSUME NEW t \in Ctx, set_cpu(t) PROVE TypeOK'
  BY <1>4 DEF set_cpu
<1>5. ASSUME NEW t \in Ctx, NEW l \in Locks, release(t, l) PROVE TypeOK'
  BY <1>5, Zenon DEF release
<1>6. ASSUME NEW t \in Ctx, unlock(t) PROVE TypeOK'
  BY <1>6, Zenon DEF unlock
<1>7. ASSUME NEW t \in Ctx, pop_off(t) PROVE TypeOK'
  BY <1>7 DEF pop_off
<1>8. ASSUME NEW c \in CPUs, NEW b \in BOOLEAN, set_intr(c, b) PROVE TypeOK'
  BY <1>8, Zenon DEF set_intr
<1>9. ASSUME NEW c \in CPUs, interrupt(c) PROVE TypeOK'
  BY <1>9, Zenon DEF interrupt
<1>10. ASSUME NEW c \in CPUs, kerneltrap_return(c) PROVE TypeOK'
  BY <1>10, Zenon DEF kerneltrap_return
<1>11. CASE UNCHANGED vars
  BY <1>11, Zenon DEF vars
<1> QED
  BY <1>1, <1>2, <1>3, <1>4, <1>5, <1>6, <1>7, <1>8, <1>9, <1>10, <1>11 DEF Next

\* The variables of the lock, the CPU and the two contexts keep their types.
THEOREM TypeCorrect == Spec => []TypeOK
BY InitTypeOK, NextTypeOK, PTL DEF Spec

-----------------------------------------------------------------------------
(* Mutual exclusion.  It is not inductive by itself: the swap is safe      *)
(* because a lock that some context owns has lk->locked set, and the store *)
(* that frees the lock because its context has no second claim to it.      *)

OwnedIsLocked == \A t \in Ctx, l \in Locks : Owns(t, l) => locked[l]

InTransit ==
  \A t \in Ctx : pc[t] \in {"push_off", "swap", "set_cpu", "unlock"} =>
    lk[t] \notin held[t]

ExclusionInv == TypeOK /\ OwnedIsLocked /\ InTransit /\ MutualExclusion

\* Every step keeps at most one context between the swap that takes a lock and
\* the store that frees it.
LEMMA NextExclusion == ExclusionInv /\ [Next]_vars => ExclusionInv'
<1> SUFFICES ASSUME ExclusionInv, [Next]_vars PROVE ExclusionInv'
  BY Zenon
<1>0. TypeOK /\ TypeOK'
  BY NextTypeOK, Zenon DEF ExclusionInv
<1> USE <1>0, CtxFacts
    DEF TypeOK, ExclusionInv, OwnedIsLocked, InTransit, MutualExclusion, Owns,
        lockVars, cpuVars, ctxVars, At, Goto
<1>1. ASSUME NEW t \in Ctx, NEW l \in Locks, acquire(t, l) PROVE ExclusionInv'
  BY <1>1, SpinlockConstants DEF acquire
<1>2. ASSUME NEW t \in Ctx, push_off(t) PROVE ExclusionInv'
  BY <1>2 DEF push_off
<1>3. ASSUME NEW t \in Ctx, swap(t) PROVE ExclusionInv'
  BY <1>3 DEF swap
<1>4. ASSUME NEW t \in Ctx, set_cpu(t) PROVE ExclusionInv'
  BY <1>4 DEF set_cpu
<1>5. ASSUME NEW t \in Ctx, NEW l \in Locks, release(t, l) PROVE ExclusionInv'
  BY <1>5 DEF release
<1>6. ASSUME NEW t \in Ctx, unlock(t) PROVE ExclusionInv'
  BY <1>6 DEF unlock
<1>7. ASSUME NEW t \in Ctx, pop_off(t) PROVE ExclusionInv'
  BY <1>7 DEF pop_off
<1>8. ASSUME NEW c \in CPUs, NEW b \in BOOLEAN, set_intr(c, b) PROVE ExclusionInv'
  BY <1>8 DEF set_intr
<1>9. ASSUME NEW c \in CPUs, interrupt(c) PROVE ExclusionInv'
  BY <1>9 DEF interrupt
<1>10. ASSUME NEW c \in CPUs, kerneltrap_return(c) PROVE ExclusionInv'
  BY <1>10 DEF kerneltrap_return
<1>11. CASE UNCHANGED vars
  BY <1>11 DEF vars
<1> HIDE DEF TypeOK, ExclusionInv, OwnedIsLocked, InTransit, MutualExclusion, Owns
<1> QED
  BY <1>1, <1>2, <1>3, <1>4, <1>5, <1>6, <1>7, <1>8, <1>9, <1>10, <1>11, Zenon DEF Next

\* acquire() and release() give mutual exclusion, between CPUs and between a
\* thread and the interrupt handler of its own CPU.
THEOREM Exclusion == Spec => []MutualExclusion
<1>1. Init => ExclusionInv
  BY InitTypeOK, CtxFacts, Zenon
     DEF Init, ExclusionInv, OwnedIsLocked, InTransit, MutualExclusion, Owns
<1>2. ExclusionInv => MutualExclusion
  BY Zenon DEF ExclusionInv
<1> QED
  BY <1>1, <1>2, NextExclusion, PTL DEF Spec

-----------------------------------------------------------------------------
(* Interrupts.  pop_off() enables them when noff[c] = 1, so the proof has  *)
(* to know that noff[c] counts the locks that the running context of CPU c *)
(* holds, is taking or is giving up, and that intena[c] is the interrupt   *)
(* state before the first of them.                                         *)

\* t is between push_off() and pop_off() of a lock that held[t] does not count.
Inside(t) == pc[t] \in {"swap", "set_cpu", "unlock", "pop_off"}
Depth(t) == Cardinality(held[t]) + IF Inside(t) THEN 1 ELSE 0
Busy(t) == held[t] # {} \/ Inside(t)

\* The interrupt state t has when it holds no lock.
Wants(t) == t[2] = "thread" /\ want[cpu(t)]

HeldFinite == \A t \in Ctx : IsFiniteSet(held[t])

BusyOff == \A t \in Ctx : Busy(t) => ~sie[cpu(t)] /\ run[cpu(t)] = t[2]

NoffCounts == \A t \in Ctx : run[cpu(t)] = t[2] => noff[cpu(t)] = Depth(t)

IntrState ==
  /\ \A t \in Ctx :
       /\ run[cpu(t)] = t[2] /\ ~Busy(t) => (sie[cpu(t)] <=> Wants(t))
       /\ Busy(t) => (intena[cpu(t)] <=> Wants(t))
       /\ pc[t] = "push_off" /\ held[t] = {} => (old[t] <=> Wants(t))
  /\ \A c \in CPUs : run[c] = "handler" => want[c]

IntrInv == HeldFinite /\ BusyOff /\ NoffCounts /\ IntrState

\* What the proofs need to know about the cardinality of held.
LEMMA CardFacts ==
  ASSUME NEW S, IsFiniteSet(S)
  PROVE  /\ Cardinality(S) \in Nat
         /\ Cardinality(S) = 0 <=> S = {}
         /\ \A l : l \notin S => /\ IsFiniteSet(S \cup {l})
                                 /\ Cardinality(S \cup {l}) = Cardinality(S) + 1
         /\ \A l : l \in S => /\ IsFiniteSet(S \ {l})
                              /\ Cardinality(S \ {l}) = Cardinality(S) - 1
BY FS_CardinalityType, FS_EmptySet, FS_AddElement, FS_RemoveElement, Zenon

\* A context that is not busy has depth 0.
LEMMA DepthFacts ==
  ASSUME HeldFinite, NEW t \in Ctx
  PROVE  Depth(t) \in Nat /\ (Depth(t) = 0 <=> ~Busy(t))
BY CardFacts DEF HeldFinite, Depth, Busy

\* Every step keeps interrupts off in a busy CPU, noff exact, and intena equal to
\* the interrupt state before the outermost push_off().
LEMMA NextIntr == ExclusionInv /\ IntrInv /\ [Next]_vars => IntrInv'
<1> SUFFICES ASSUME ExclusionInv, IntrInv, [Next]_vars PROVE IntrInv'
  BY Zenon
<1>0. TypeOK /\ TypeOK'
  BY NextTypeOK, Zenon DEF ExclusionInv
<1>a. HeldFinite /\ \A t \in Ctx : Depth(t) \in Nat /\ (Depth(t) = 0 <=> ~Busy(t))
  BY DepthFacts, Zenon DEF IntrInv
<1> USE CtxFacts DEF lockVars, cpuVars, ctxVars, At, Goto
<1>1. ASSUME NEW t \in Ctx, NEW l \in Locks, acquire(t, l) PROVE IntrInv'
  <2>1. \A s \in Ctx : Depth(s)' = Depth(s) /\ (Busy(s)' <=> Busy(s)) /\ (Wants(s)' <=> Wants(s))
    BY <1>0, <1>1 DEF acquire, Depth, Busy, Inside, Wants, TypeOK
  <2>2. HeldFinite' /\ BusyOff' /\ NoffCounts'
    BY <1>0, <1>1, <2>1 DEF acquire, IntrInv, HeldFinite, BusyOff, NoffCounts, TypeOK
  <2>3. IntrState'
    BY <1>0, <1>1, <2>1 DEF acquire, IntrInv, IntrState, TypeOK, Busy, Inside
  <2> QED
    BY <2>2, <2>3, Zenon DEF IntrInv
<1>2. ASSUME NEW t \in Ctx, push_off(t) PROVE IntrInv'
  <2>1. \A s \in Ctx : /\ Depth(s)' = IF s = t THEN Depth(s) + 1 ELSE Depth(s)
                       /\ Busy(s)' <=> s = t \/ Busy(s)
                       /\ (Wants(s)' <=> Wants(s))
    BY <1>0, <1>2, CardFacts
       DEF push_off, Depth, Busy, Inside, Wants, TypeOK, IntrInv, HeldFinite
  <2>2. HeldFinite' /\ BusyOff' /\ NoffCounts'
    BY <1>0, <1>2, <2>1 DEF push_off, IntrInv, HeldFinite, BusyOff, NoffCounts, TypeOK
  <2>3. noff[cpu(t)] = 0 <=> ~Busy(t)
    BY <1>a, <1>2, Zenon DEF push_off, IntrInv, NoffCounts
  <2>4. IntrState'
    BY <1>0, <1>2, <2>1, <2>3
       DEF push_off, IntrInv, BusyOff, IntrState, TypeOK, Busy, Inside
  <2> QED
    BY <2>2, <2>4, Zenon DEF IntrInv
<1>3. ASSUME NEW t \in Ctx, swap(t) PROVE IntrInv'
  <2>1. \A s \in Ctx : Depth(s)' = Depth(s) /\ (Busy(s)' <=> Busy(s)) /\ (Wants(s)' <=> Wants(s))
    BY <1>0, <1>3, CardFacts
       DEF swap, Depth, Busy, Inside, Wants, TypeOK, IntrInv, HeldFinite
  <2>2. HeldFinite' /\ BusyOff' /\ NoffCounts'
    BY <1>0, <1>3, <2>1, CardFacts
       DEF swap, IntrInv, HeldFinite, BusyOff, NoffCounts, TypeOK
  <2>3. IntrState'
    BY <1>0, <1>3, <2>1 DEF swap, IntrInv, IntrState, TypeOK, Busy, Inside
  <2> QED
    BY <2>2, <2>3, Zenon DEF IntrInv
<1>4. ASSUME NEW t \in Ctx, set_cpu(t) PROVE IntrInv'
  <2>1. held' = [held EXCEPT ![t] = @ \cup {lk[t]}]
    BY <1>4, Zenon DEF set_cpu
  <2>2. /\ IsFiniteSet(held'[t])
        /\ Cardinality(held'[t]) = Cardinality(held[t]) + 1
    BY <1>0, <1>a, <1>4, <2>1, CardFacts
       DEF set_cpu, TypeOK, HeldFinite, ExclusionInv, InTransit
  <2>3. \A s \in Ctx : s # t => held'[s] = held[s] /\ pc'[s] = pc[s]
    BY <1>0, <1>4 DEF set_cpu, TypeOK
  <2>4. /\ Depth(t)' = Depth(t) /\ Busy(t) /\ Busy(t)'
        /\ \A s \in Ctx : /\ s # t => Depth(s)' = Depth(s) /\ (Busy(s)' <=> Busy(s))
                          /\ Wants(s)' <=> Wants(s)
    <3>1. Cardinality(held[t]) \in Nat /\ (Inside(t) <=> ~Inside(t)')
      BY <1>0, <1>a, <1>4, CardFacts DEF set_cpu, Inside, TypeOK, HeldFinite
    <3>2. Busy(t) /\ Busy(t)'
      BY <1>0, <1>4, <2>1 DEF set_cpu, Busy, Inside, TypeOK
    <3>3. Depth(t)' = Depth(t)
      BY <1>0, <1>4, <2>2, <3>1 DEF set_cpu, Depth, Inside, TypeOK
    <3>4. \A s \in Ctx : /\ s # t => Depth(s)' = Depth(s) /\ (Busy(s)' <=> Busy(s))
                         /\ Wants(s)' <=> Wants(s)
      BY <1>4, <2>3, Zenon DEF set_cpu, Depth, Busy, Inside, Wants
    <3> QED
      BY <3>2, <3>3, <3>4, Zenon
  <2>5. HeldFinite'
    BY <1>a, <2>2, <2>3, Zenon DEF HeldFinite
  <2>6. BusyOff' /\ NoffCounts'
    BY <1>4, <2>4 DEF set_cpu, IntrInv, BusyOff, NoffCounts
  <2>7. IntrState'
    BY <1>0, <1>4, <2>3, <2>4 DEF set_cpu, IntrInv, IntrState, TypeOK
  <2> QED
    BY <2>5, <2>6, <2>7, Zenon DEF IntrInv
<1>5. ASSUME NEW t \in Ctx, NEW l \in Locks, release(t, l) PROVE IntrInv'
  <2>1. held' = [held EXCEPT ![t] = @ \ {l}]
    BY <1>5, Zenon DEF release
  <2>2. /\ IsFiniteSet(held'[t])
        /\ Cardinality(held'[t]) = Cardinality(held[t]) - 1
    BY <1>0, <1>a, <1>5, <2>1, CardFacts
       DEF release, TypeOK, HeldFinite
  <2>3. \A s \in Ctx : s # t => held'[s] = held[s] /\ pc'[s] = pc[s]
    BY <1>0, <1>5 DEF release, TypeOK
  <2>4. /\ Depth(t)' = Depth(t) /\ Busy(t) /\ Busy(t)'
        /\ \A s \in Ctx : /\ s # t => Depth(s)' = Depth(s) /\ (Busy(s)' <=> Busy(s))
                          /\ Wants(s)' <=> Wants(s)
    <3>1. Cardinality(held[t]) \in Nat /\ (Inside(t) <=> ~Inside(t)')
      BY <1>0, <1>a, <1>5, CardFacts DEF release, Inside, TypeOK, HeldFinite
    <3>2. Busy(t) /\ Busy(t)'
      BY <1>0, <1>5, <2>1 DEF release, Busy, Inside, TypeOK
    <3>3. Depth(t)' = Depth(t)
      BY <1>0, <1>5, <2>2, <3>1 DEF release, Depth, Inside, TypeOK
    <3>4. \A s \in Ctx : /\ s # t => Depth(s)' = Depth(s) /\ (Busy(s)' <=> Busy(s))
                         /\ Wants(s)' <=> Wants(s)
      BY <1>5, <2>3, Zenon DEF release, Depth, Busy, Inside, Wants
    <3> QED
      BY <3>2, <3>3, <3>4, Zenon
  <2>5. HeldFinite'
    BY <1>a, <2>2, <2>3, Zenon DEF HeldFinite
  <2>6. BusyOff' /\ NoffCounts'
    BY <1>5, <2>4 DEF release, IntrInv, BusyOff, NoffCounts
  <2>7. IntrState'
    BY <1>0, <1>5, <2>3, <2>4 DEF release, IntrInv, IntrState, TypeOK
  <2> QED
    BY <2>5, <2>6, <2>7, Zenon DEF IntrInv
<1>6. ASSUME NEW t \in Ctx, unlock(t) PROVE IntrInv'
  <2>1. \A s \in Ctx : Depth(s)' = Depth(s) /\ (Busy(s)' <=> Busy(s)) /\ (Wants(s)' <=> Wants(s))
    BY <1>0, <1>6, CardFacts
       DEF unlock, Depth, Busy, Inside, Wants, TypeOK, IntrInv, HeldFinite
  <2>2. HeldFinite' /\ BusyOff' /\ NoffCounts'
    BY <1>0, <1>6, <2>1, CardFacts
       DEF unlock, IntrInv, HeldFinite, BusyOff, NoffCounts, TypeOK
  <2>3. IntrState'
    BY <1>0, <1>6, <2>1 DEF unlock, IntrInv, IntrState, TypeOK, Busy, Inside
  <2> QED
    BY <2>2, <2>3, Zenon DEF IntrInv
<1>7. ASSUME NEW t \in Ctx, pop_off(t) PROVE IntrInv'
  <2>1. \A s \in Ctx : /\ Depth(s)' = IF s = t THEN Depth(s) - 1 ELSE Depth(s)
                       /\ Busy(s)' <=> IF s = t THEN held[t] # {} ELSE Busy(s)
                       /\ (Wants(s)' <=> Wants(s))
    BY <1>0, <1>7, CardFacts
       DEF pop_off, Depth, Busy, Inside, Wants, TypeOK, IntrInv, HeldFinite
  <2>2. noff[cpu(t)] = 1 <=> held[t] = {}
    <3>1. noff[cpu(t)] = Cardinality(held[t]) + 1
      BY <1>7, Zenon DEF pop_off, IntrInv, NoffCounts, Depth, Inside
    <3> QED
      BY <1>a, <3>1, CardFacts DEF HeldFinite
  <2>3. HeldFinite' /\ BusyOff' /\ NoffCounts'
    BY <1>0, <1>a, <1>7, <2>1, <2>2
       DEF pop_off, IntrInv, HeldFinite, BusyOff, NoffCounts, TypeOK
  <2>4. IntrState'
    BY <1>0, <1>7, <2>1, <2>2
       DEF pop_off, IntrInv, BusyOff, IntrState, TypeOK, Busy, Inside
  <2> QED
    BY <2>3, <2>4, Zenon DEF IntrInv
<1>8. ASSUME NEW c \in CPUs, NEW b \in BOOLEAN, set_intr(c, b) PROVE IntrInv'
  <2> DEFINE t == <<c, "thread">>
  <2>1. \A s \in Ctx : /\ Depth(s)' = Depth(s) /\ (Busy(s)' <=> Busy(s))
                       /\ cpu(s) # c => (Wants(s)' <=> Wants(s))
                       /\ cpu(s) = c => (Wants(s)' <=> s[2] = "thread" /\ b)
    BY <1>0, <1>8, Zenon DEF set_intr, Depth, Busy, Inside, Wants, TypeOK
  <2>2. t \in Ctx /\ cpu(t) = c /\ t[2] = "thread"
    BY Zenon
  <2>3. run[c] = "thread" /\ pc[t] = "idle" /\ ~Busy(t)
    BY <1>8, <2>2, Zenon DEF set_intr, Busy, Inside
  <2>4. \A s \in Ctx : cpu(s) = c => ~Busy(s)
    BY <2>2, <2>3 DEF IntrInv, BusyOff
  <2> HIDE DEF t
  <2>5. HeldFinite' /\ BusyOff' /\ NoffCounts'
    BY <1>0, <1>8, <2>1, <2>4
       DEF set_intr, IntrInv, HeldFinite, BusyOff, NoffCounts, TypeOK
  <2>6. /\ sie'[c] = b /\ want'[c] = b
        /\ \A d \in CPUs : d # c => sie'[d] = sie[d] /\ want'[d] = want[d]
        /\ UNCHANGED <<run, intena, pc, held, old>>
    BY <1>0, <1>8 DEF set_intr, TypeOK
  <2>7. ASSUME NEW s \in Ctx
        PROVE  /\ run'[cpu(s)] = s[2] /\ ~Busy(s)' => (sie'[cpu(s)] <=> Wants(s)')
               /\ Busy(s)' => (intena'[cpu(s)] <=> Wants(s)')
               /\ pc'[s] = "push_off" /\ held'[s] = {} => (old'[s] <=> Wants(s)')
    <3>1. CASE cpu(s) = c
      <4>1. CASE s[2] = "thread"
        <5>1. s = t
          BY <2>2, <3>1, <4>1
        <5> QED
          BY <2>1, <2>3, <2>4, <2>6, <3>1, <4>1, <5>1, Zenon
      <4>2. CASE s[2] # "thread"
        BY <2>1, <2>3, <2>4, <2>6, <3>1, <4>2, Zenon DEF IntrInv, IntrState, Wants
      <4> QED
        BY <4>1, <4>2, Zenon
    <3>2. CASE cpu(s) # c
      BY <2>1, <2>6, <3>2, Zenon DEF IntrInv, IntrState
    <3> QED
      BY <3>1, <3>2, Zenon
  <2>8. IntrState'
    BY <2>3, <2>6, <2>7, Zenon DEF IntrInv, IntrState
  <2> QED
    BY <2>5, <2>8, Zenon DEF IntrInv
<1>9. ASSUME NEW c \in CPUs, interrupt(c) PROVE IntrInv'
  <2> DEFINE t == <<c, "thread">>
  <2>1. \A s \in Ctx : Depth(s)' = Depth(s) /\ (Busy(s)' <=> Busy(s)) /\ (Wants(s)' <=> Wants(s))
    BY <1>0, <1>9, Zenon DEF interrupt, Depth, Busy, Inside, Wants, TypeOK
  <2>2. \A s \in Ctx : cpu(s) = c => ~Busy(s)
    BY <1>9, Zenon DEF interrupt, IntrInv, BusyOff
  <2>3. t \in Ctx /\ cpu(t) = c /\ t[2] = "thread"
    BY Zenon
  <2> HIDE DEF t
  <2>4. noff[c] = 0
    BY <1>a, <1>9, <2>2, <2>3, Zenon DEF interrupt, IntrInv, NoffCounts
  <2>5. want[c]
    BY <1>9, <2>2, <2>3, Zenon DEF interrupt, IntrInv, IntrState, Wants
  <2>6. HeldFinite' /\ BusyOff' /\ NoffCounts'
    BY <1>0, <1>a, <1>9, <2>1, <2>2, <2>4
       DEF interrupt, IntrInv, HeldFinite, BusyOff, NoffCounts, TypeOK
  <2>7. IntrState'
    BY <1>0, <1>9, <2>1, <2>2, <2>5 DEF interrupt, IntrInv, IntrState, TypeOK, Wants
  <2> QED
    BY <2>6, <2>7, Zenon DEF IntrInv
<1>10. ASSUME NEW c \in CPUs, kerneltrap_return(c) PROVE IntrInv'
  <2> DEFINE t == <<c, "handler">>
  <2>1. \A s \in Ctx : Depth(s)' = Depth(s) /\ (Busy(s)' <=> Busy(s)) /\ (Wants(s)' <=> Wants(s))
    BY <1>0, <1>10, Zenon DEF kerneltrap_return, Depth, Busy, Inside, Wants, TypeOK
  <2>2. t \in Ctx /\ cpu(t) = c /\ t[2] = "handler"
    BY Zenon
  <2>3. run[c] = "handler" /\ ~Busy(t)
    BY <1>10, <2>2, Zenon DEF kerneltrap_return, Busy, Inside
  <2>4. \A s \in Ctx : cpu(s) = c => ~Busy(s)
    BY <2>2, <2>3 DEF IntrInv, BusyOff
  <2> HIDE DEF t
  <2>5. noff[c] = 0
    BY <1>a, <2>2, <2>3, Zenon DEF IntrInv, NoffCounts
  <2>6. want[c]
    BY <2>3, Zenon DEF IntrInv, IntrState
  <2>7. HeldFinite' /\ BusyOff' /\ NoffCounts'
    BY <1>0, <1>a, <1>10, <2>1, <2>4, <2>5
       DEF kerneltrap_return, IntrInv, HeldFinite, BusyOff, NoffCounts, TypeOK
  <2>8. IntrState'
    BY <1>0, <1>10, <2>1, <2>4, <2>6
       DEF kerneltrap_return, IntrInv, IntrState, TypeOK, Wants
  <2> QED
    BY <2>7, <2>8, Zenon DEF IntrInv
<1>11. CASE UNCHANGED vars
  BY <1>11, Zenon DEF vars, IntrInv, HeldFinite, BusyOff, NoffCounts, IntrState,
               Depth, Busy, Inside, Wants
<1> QED
  BY <1>1, <1>2, <1>3, <1>4, <1>5, <1>6, <1>7, <1>8, <1>9, <1>10, <1>11, Zenon DEF Next

-----------------------------------------------------------------------------
(* lk->cpu, which holding() reads, and what follows from all the above     *)

\* lk->cpu names the CPU whose context has the lock in held.
OwnerInv ==
  \A l \in Locks, c \in CPUs :
    owner[l] = c <=> \E t \in Ctx : cpu(t) = c /\ l \in held[t]

IInv == ExclusionInv /\ IntrInv /\ OwnerInv

\* Only set_cpu and release() change lk->cpu or held, and they change both.
LEMMA NextOwner == ExclusionInv /\ OwnerInv /\ [Next]_vars => OwnerInv'
<1> SUFFICES ASSUME ExclusionInv, OwnerInv, [Next]_vars PROVE OwnerInv'
  BY Zenon
<1>0. TypeOK
  BY Zenon DEF ExclusionInv
<1>1. ASSUME NEW t \in Ctx, set_cpu(t) PROVE OwnerInv'
  <2>1. \A s \in Ctx : lk[t] \notin held[s]
    BY <1>0, <1>1, Zenon
       DEF set_cpu, At, ExclusionInv, InTransit, MutualExclusion, Owns, TypeOK
  <2> QED
    BY <1>0, <1>1, <2>1, CtxFacts DEF set_cpu, OwnerInv, TypeOK
<1>2. ASSUME NEW t \in Ctx, NEW l \in Locks, release(t, l) PROVE OwnerInv'
  <2>1. \A s \in Ctx : l \in held[s] => s = t
    BY <1>2, Zenon DEF release, ExclusionInv, MutualExclusion, Owns
  <2> QED
    BY <1>0, <1>2, <2>1, CtxFacts, SpinlockConstants DEF release, OwnerInv, TypeOK
<1>3. ASSUME UNCHANGED <<owner, held>> PROVE OwnerInv'
  BY <1>3, Zenon DEF OwnerInv
<1> QED
  BY <1>1, <1>2, <1>3, Zenon
     DEF Next, vars, lockVars, cpuVars, ctxVars, acquire, push_off, swap, unlock,
         pop_off, set_intr, interrupt, kerneltrap_return

\* The inductive invariant holds in every reachable state.
THEOREM Invariance == Spec => []IInv
<1>1. Init => IInv
  BY InitTypeOK, CtxFacts, FS_EmptySet, SpinlockConstants
     DEF Init, TypeOK, ExclusionInv, OwnedIsLocked, InTransit, MutualExclusion, Owns,
         IntrInv, HeldFinite, BusyOff, NoffCounts, IntrState, Depth, Busy, Inside,
         Wants, IInv, OwnerInv
<1>2. IInv /\ [Next]_vars => IInv'
  BY NextExclusion, NextIntr, NextOwner, Zenon DEF IInv
<1> QED
  BY <1>1, <1>2, PTL DEF Spec

\* Interrupts are off on a CPU from the first push_off() to the last pop_off().
THEOREM InterruptSafety == Spec => []InterruptsOff
<1>1. IInv => InterruptsOff
  BY CtxFacts
     DEF IInv, ExclusionInv, TypeOK, IntrInv, BusyOff, Busy, Inside, InterruptsOff
<1> QED
  BY <1>1, Invariance, PTL

\* push_off() and pop_off() leave interrupts as they were before the first lock.
THEOREM InterruptsRestored == Spec => []IntrRestored
<1>1. IInv => IntrRestored
  <2> SUFFICES ASSUME IInv, NEW t \in Ctx, At(t, "idle"), held[t] = {}
               PROVE  sie[cpu(t)] = (t[2] = "thread" /\ want[cpu(t)])
    BY Zenon DEF IntrRestored
  <2>1. sie[cpu(t)] <=> (t[2] = "thread" /\ want[cpu(t)])
    BY Zenon DEF IInv, IntrInv, IntrState, At, Busy, Inside, Wants
  <2>2. sie[cpu(t)] \in BOOLEAN
    BY CtxFacts, Zenon DEF IInv, ExclusionInv, TypeOK
  <2> QED
    BY <2>1, <2>2, Zenon
<1> QED
  BY <1>1, Invariance, PTL

\* holding() is exact, although it reads the lock without protection.
THEOREM HoldingIsExact == Spec => []HoldingExact
<1>1. IInv => HoldingExact
  <2> SUFFICES ASSUME IInv, NEW t \in Ctx, NEW l \in Locks
               PROVE  holding(t, l) <=> \E x \in {"thread", "handler"} :
                                          l \in held[<<cpu(t), x>>]
    BY Zenon DEF HoldingExact
  <2>1. \A s \in Ctx : l \in held[s] => locked[l]
    BY Zenon DEF IInv, ExclusionInv, OwnedIsLocked, Owns
  <2>2. owner[l] = cpu(t) <=> \E s \in Ctx : cpu(s) = cpu(t) /\ l \in held[s]
    BY CtxFacts, Zenon DEF IInv, OwnerInv
  <2>3. \A s \in Ctx : cpu(s) = cpu(t) => s = <<cpu(t), s[2]>>
    BY DEF Ctx, cpu
  <2> QED
    BY <2>1, <2>2, <2>3, CtxFacts DEF holding
<1> QED
  BY <1>1, Invariance, PTL

\* acquire() never meets a lock its own CPU holds, release() is never called
\* without the lock, and pop_off() never runs with interrupts on or noff = 0.
THEOREM PanicFree == Spec => []NoPanic
<1>1. IInv => NoPanic
  <2> SUFFICES ASSUME IInv, NEW t \in Ctx
               PROVE  /\ At(t, "swap") => ~holding(t, lk[t])
                      /\ At(t, "idle") => \A l \in held[t] : holding(t, l)
                      /\ At(t, "pop_off") => ~sie[cpu(t)] /\ noff[cpu(t)] >= 1
    BY Zenon DEF NoPanic
  <2>0. TypeOK
    BY Zenon DEF IInv, ExclusionInv
  <2>1. ASSUME At(t, "swap"), holding(t, lk[t]) PROVE FALSE
    <3>1. PICK s \in Ctx : cpu(s) = cpu(t) /\ lk[t] \in held[s]
      BY <2>0, <2>1, CtxFacts, Zenon DEF holding, IInv, OwnerInv, TypeOK
    <3>2. s = t
      BY <2>1, <3>1, CtxFacts DEF At, IInv, IntrInv, BusyOff, Busy
    <3> QED
      BY <2>1, <3>1, <3>2, Zenon DEF At, IInv, ExclusionInv, InTransit
  <2>2. ASSUME NEW l \in held[t] PROVE holding(t, l)
    BY <2>0, CtxFacts
       DEF holding, IInv, OwnerInv, ExclusionInv, OwnedIsLocked, Owns, TypeOK
  <2>3. ASSUME At(t, "pop_off") PROVE ~sie[cpu(t)] /\ noff[cpu(t)] >= 1
    <3>1. Busy(t)
      BY <2>3, Zenon DEF At, Busy, Inside
    <3>2. Depth(t) \in Nat /\ Depth(t) # 0
      BY <3>1, DepthFacts, Zenon DEF IInv, IntrInv
    <3> QED
      BY <2>3, <3>1, <3>2 DEF At, IInv, IntrInv, BusyOff, NoffCounts
  <2> QED
    BY <2>1, <2>2, <2>3, Zenon
<1> QED
  BY <1>1, Invariance, PTL
=============================================================================
