----------------------------- MODULE PipeProofs -----------------------------
(***************************************************************************)
(* Proofs about module Pipe, for any number of readers and writers, any    *)
(* PIPESIZE and any WRAP that is a multiple of it.                         *)
(***************************************************************************)
EXTENDS Pipe, SequenceTheorems, TLAPS

-----------------------------------------------------------------------------
(* Arithmetic of % with a symbolic modulus                                 *)

\* A number is determined by its quotient and its remainder.
LEMMA DivMod ==
  ASSUME NEW m \in Nat \ {0}, NEW x \in Int
  PROVE  /\ x = (x \div m) * m + (x % m)
         /\ x \div m \in Int /\ x % m \in 0..(m - 1)
  OBVIOUS

\* Quotient and remainder are unique.
LEMMA ModUnique ==
  ASSUME NEW m \in Nat \ {0}, NEW q \in Int, NEW x \in Int, NEW r \in 0..(m - 1),
         x = q * m + r
  PROVE  x % m = r
  OBVIOUS

\* Multiples of the modulus do not matter.
LEMMA ModShift ==
  ASSUME NEW m \in Nat \ {0}, NEW x \in Int, NEW k \in Int
  PROVE  (x + k * m) % m = x % m
<1> DEFINE q == x \div m + k  r == x % m  y == x + k * m
<1>1. q \in Int /\ r \in 0..(m - 1) /\ y \in Int
  BY DivMod
<1>2. y = q * m + r
  BY DivMod
<1> HIDE DEF q, r, y
<1>3. y % m = r
  BY <1>1, <1>2, ModUnique, Zenon
<1> QED BY <1>3, Zenon DEF r, y

\* Two numbers less than the modulus apart with the same remainder are equal.
LEMMA ModInjective ==
  ASSUME NEW m \in Nat \ {0}, NEW x \in Int, NEW y \in Int,
         x % m = y % m, x <= y, y < x + m
  PROVE  x = y
<1>1. PICK a \in Int : x = a * m + (x % m)
  BY DivMod, Zenon
<1>2. PICK b \in Int : y = b * m + (y % m)
  BY DivMod, Zenon
<1>3. y - x = (b - a) * m /\ y - x >= 0 /\ y - x < m
  BY <1>1, <1>2, DivMod
<1> QED BY <1>3

\* Counters that wrap around.
LEMMA IncWraps ==
  ASSUME NEW m \in Nat \ {0}, NEW x \in 0..(m - 1)
  PROVE  (x + 1) % m = IF x + 1 = m THEN 0 ELSE x + 1
  OBVIOUS

\* A difference of two counters without %.
LEMMA DiffWraps ==
  ASSUME NEW m \in Nat \ {0}, NEW x \in 0..(m - 1), NEW y \in 0..(m - 1)
  PROVE  (x - y) % m = IF x >= y THEN x - y ELSE x - y + m
  OBVIOUS

\* A sum of two counters without %.
LEMMA SumWraps ==
  ASSUME NEW m \in Nat \ {0}, NEW x \in 0..(m - 1), NEW y \in 0..(m - 1)
  PROVE  (x + y) % m = IF x + y < m THEN x + y ELSE x + y - m
  OBVIOUS

\* What PipeConstants says of the two sizes.
LEMMA Sizes ==
  /\ PIPESIZE \in Nat \ {0} /\ WRAP \in Nat \ {0} /\ 2 * PIPESIZE <= WRAP
  /\ \E k \in Int : WRAP = k * PIPESIZE
<1>1. PICK k \in 2..WRAP : WRAP = k * PIPESIZE
  BY PipeConstants, Zenon
<1>2. 2 * PIPESIZE <= k * PIPESIZE
  BY <1>1, PipeConstants
<1> QED BY <1>1, <1>2, PipeConstants

-----------------------------------------------------------------------------
(* The ring buffer, as operators on a buffer d and counters r and w        *)

Used(r, w) == (w - r) % WRAP

\* The bytes in the pipe, oldest first: the state of Fifo.
Queue(d, r, w) == [k \in 1..Used(r, w) |-> d[(r + k - 1) % PIPESIZE]]

\* At most PIPESIZE bytes are in the pipe.
RingOK(d, r, w) ==
  /\ d \in [0..(PIPESIZE - 1) -> Bytes]
  /\ r \in 0..(WRAP - 1) /\ w \in 0..(WRAP - 1)
  /\ Used(r, w) <= PIPESIZE

\* The bytes in the ring, when the counters have wrapped and when they have not.
LEMMA UsedProperties ==
  ASSUME NEW d, NEW r, NEW w, RingOK(d, r, w)
  PROVE  /\ Used(r, w) \in 0..PIPESIZE
         /\ Used(r, w) = IF w >= r THEN w - r ELSE w - r + WRAP
         /\ r = w <=> Used(r, w) = 0
         /\ w = (r + PIPESIZE) % WRAP <=> Used(r, w) = PIPESIZE
<1>1. Used(r, w) = IF w >= r THEN w - r ELSE w - r + WRAP
  BY Sizes, DiffWraps, Zenon DEF RingOK, Used
<1>2. (r + PIPESIZE) % WRAP =
        IF r + PIPESIZE < WRAP THEN r + PIPESIZE ELSE r + PIPESIZE - WRAP
  <2>1. PIPESIZE \in 0..(WRAP - 1)
    BY Sizes
  <2> QED BY Sizes, SumWraps, <2>1, Zenon DEF RingOK
<1> QED BY <1>1, <1>2, Sizes DEF RingOK

\* The ring holds a sequence of Used bytes.
LEMMA QueueIsSeq ==
  ASSUME NEW d, NEW r, NEW w, RingOK(d, r, w)
  PROVE  /\ Queue(d, r, w) \in Seq(Bytes) /\ Len(Queue(d, r, w)) = Used(r, w)
         /\ \A k \in 1..Used(r, w) : Queue(d, r, w)[k] = d[(r + k - 1) % PIPESIZE]
<1>1. Used(r, w) \in Nat
  BY UsedProperties, Sizes
<1>2. \A k \in 1..Used(r, w) : (r + k - 1) % PIPESIZE \in 0..(PIPESIZE - 1)
  BY Sizes, <1>1 DEF RingOK
<1>3. Queue(d, r, w) \in [1..Used(r, w) -> Bytes]
  BY <1>2, Zenon DEF RingOK, Queue
<1>4. Queue(d, r, w) \in Seq(Bytes)
  BY <1>1, <1>3, SeqDef, Zenon
<1> QED BY <1>1, <1>3, <1>4, LenProperties DEF Queue

\* A place of the buffer is the same one after the counters have wrapped around:
\* WRAP is a multiple of PIPESIZE.
LEMMA PlaceWraps ==
  ASSUME NEW x \in Int
  PROVE  (x - WRAP) % PIPESIZE = x % PIPESIZE
<1>1. PICK k \in Int : WRAP = k * PIPESIZE
  BY Sizes, Zenon
<1>2. PICK j \in Int : j = -k
  OBVIOUS
<1>3. (x + j * PIPESIZE) % PIPESIZE = x % PIPESIZE
  BY Sizes, ModShift, Zenon
<1>4. x + j * PIPESIZE = x - WRAP
  BY <1>1, <1>2, Sizes
<1> QED BY <1>3, <1>4, Zenon

\* The buffer with a byte b at the place of w.
Put(d, w, b) == [d EXCEPT ![w % PIPESIZE] = b]

\* A byte put at w is appended to the queue.
LEMMA PutAppends ==
  ASSUME NEW d, NEW r, NEW w, RingOK(d, r, w), w # (r + PIPESIZE) % WRAP,
         NEW b \in Bytes
  PROVE  /\ RingOK(Put(d, w, b), r, Inc(w))
         /\ Queue(Put(d, w, b), r, Inc(w)) = Append(Queue(d, r, w), b)
         /\ Len(Queue(d, r, w)) < PIPESIZE
<1> DEFINE u == Used(r, w)  e == Put(d, w, b)
<1>1. u \in 0..(PIPESIZE - 1) /\ u = IF w >= r THEN w - r ELSE w - r + WRAP
  BY UsedProperties, Sizes
<1>2. Inc(w) = IF w + 1 = WRAP THEN 0 ELSE w + 1
  BY Sizes, IncWraps, Zenon DEF RingOK, Inc
<1>3. Inc(w) \in 0..(WRAP - 1)
  BY <1>2, Sizes DEF RingOK
<1>4. Used(r, Inc(w)) = u + 1
  <2>1. Used(r, Inc(w)) = IF Inc(w) >= r THEN Inc(w) - r ELSE Inc(w) - r + WRAP
    BY <1>3, Sizes, DiffWraps, Zenon DEF Used, RingOK
  <2> HIDE DEF u
  <2> QED BY <2>1, <1>1, <1>2, Sizes DEF RingOK
<1>5. w % PIPESIZE \in 0..(PIPESIZE - 1)
  BY Sizes DEF RingOK
<1>6. /\ e \in [0..(PIPESIZE - 1) -> Bytes]
      /\ e[w % PIPESIZE] = b
      /\ \A j \in 0..(PIPESIZE - 1) : j # w % PIPESIZE => e[j] = d[j]
  BY <1>5, Zenon DEF RingOK, Put
<1>7. RingOK(e, r, Inc(w))
  <2> HIDE DEF u
  <2> QED BY <1>1, <1>3, <1>4, <1>6, Sizes DEF RingOK
<1>8. w % PIPESIZE = (r + u) % PIPESIZE
  <2> HIDE DEF u
  <2>1. PICK x \in Int : x = r + u
    BY <1>1, Sizes DEF RingOK
  <2>2. w = x \/ w = x - WRAP
    BY <1>1, <2>1, Sizes DEF RingOK
  <2>3. (x - WRAP) % PIPESIZE = x % PIPESIZE
    BY PlaceWraps, Zenon
  <2> QED BY <2>1, <2>2, <2>3, Zenon
<1>9. ASSUME NEW k \in 1..u
      PROVE  (r + k - 1) % PIPESIZE # w % PIPESIZE
  <2> HIDE DEF u
  <2>1. /\ r + k - 1 \in Int /\ r + u \in Int
        /\ r + k - 1 < r + u /\ r + u < (r + k - 1) + PIPESIZE
    BY <1>1, Sizes DEF RingOK
  <2> QED BY <2>1, <1>8, ModInjective, Sizes
<1> DEFINE q == Queue(d, r, w)  qq == Queue(e, r, Inc(w))
<1>10. q \in Seq(Bytes) /\ Len(q) = u /\ \A k \in 1..u : q[k] = d[(r + k - 1) % PIPESIZE]
  BY QueueIsSeq
<1>11. /\ qq \in Seq(Bytes) /\ Len(qq) = u + 1
       /\ \A k \in 1..(u + 1) : qq[k] = e[(r + k - 1) % PIPESIZE]
  <2>1. /\ qq \in Seq(Bytes) /\ Len(qq) = Used(r, Inc(w))
        /\ \A k \in 1..Used(r, Inc(w)) : qq[k] = e[(r + k - 1) % PIPESIZE]
    BY QueueIsSeq, <1>7
  <2> QED BY <2>1, <1>4, Zenon
<1> HIDE DEF u, q, qq, e
<1>12. /\ Append(q, b) \in Seq(Bytes) /\ Len(Append(q, b)) = u + 1
       /\ \A k \in 1..u : Append(q, b)[k] = q[k]
       /\ Append(q, b)[u + 1] = b
  BY <1>10, AppendProperties, <1>1
<1>13. ASSUME NEW k \in 1..u PROVE qq[k] = q[k]
  <2>1. k \in 1..(u + 1) /\ (r + k - 1) % PIPESIZE \in 0..(PIPESIZE - 1)
    BY <1>1, Sizes DEF RingOK
  <2> QED BY <2>1, <1>6, <1>9, <1>10, <1>11, Zenon
<1>14. qq[u + 1] = b
  <2>1. u + 1 \in 1..(u + 1) /\ r + (u + 1) - 1 = r + u
    BY <1>1, Sizes DEF RingOK
  <2> QED BY <2>1, <1>6, <1>8, <1>11, Zenon
<1>15. qq = Append(q, b)
  BY <1>1, <1>11, <1>12, <1>13, <1>14, SeqEqual
<1> QED BY <1>1, <1>7, <1>10, <1>15, Sizes DEF q, qq, e

\* A byte taken at r is the head of the queue.
LEMMA GetTakesHead ==
  ASSUME NEW d, NEW r, NEW w, RingOK(d, r, w), r # w
  PROVE  /\ RingOK(d, Inc(r), w)
         /\ Queue(d, r, w) # << >>
         /\ Queue(d, Inc(r), w) = Tail(Queue(d, r, w))
<1> DEFINE u == Used(r, w)
<1>1. u \in 1..PIPESIZE /\ u = IF w >= r THEN w - r ELSE w - r + WRAP
  BY UsedProperties, Sizes
<1>2. Inc(r) = IF r + 1 = WRAP THEN 0 ELSE r + 1
  BY Sizes, IncWraps, Zenon DEF RingOK, Inc
<1>3. Inc(r) \in 0..(WRAP - 1)
  BY <1>2, Sizes DEF RingOK
<1>4. Used(Inc(r), w) = u - 1
  <2>1. Used(Inc(r), w) = IF w >= Inc(r) THEN w - Inc(r) ELSE w - Inc(r) + WRAP
    BY <1>3, Sizes, DiffWraps DEF Used, RingOK
  <2> HIDE DEF u
  <2> QED BY <2>1, <1>1, <1>2, Sizes DEF RingOK
<1>5. RingOK(d, Inc(r), w)
  <2> HIDE DEF u
  <2> QED BY <1>1, <1>3, <1>4, Sizes DEF RingOK
<1>6. ASSUME NEW k \in 1..(u - 1)
      PROVE  (Inc(r) + k - 1) % PIPESIZE = (r + (k + 1) - 1) % PIPESIZE
  <2> HIDE DEF u
  <2>1. \/ Inc(r) + k - 1 = r + (k + 1) - 1
        \/ Inc(r) + k - 1 = (r + (k + 1) - 1) - WRAP
    BY <1>1, <1>2, Sizes DEF RingOK
  <2>2. ((r + (k + 1) - 1) - WRAP) % PIPESIZE = (r + (k + 1) - 1) % PIPESIZE
    BY <1>1, PlaceWraps DEF RingOK
  <2> QED BY <2>1, <2>2, Zenon
<1> DEFINE q == Queue(d, r, w)  qq == Queue(d, Inc(r), w)
<1>7. q \in Seq(Bytes) /\ Len(q) = u /\ \A k \in 1..u : q[k] = d[(r + k - 1) % PIPESIZE]
  BY QueueIsSeq
<1>8. /\ qq \in Seq(Bytes) /\ Len(qq) = u - 1
      /\ \A k \in 1..(u - 1) : qq[k] = d[(Inc(r) + k - 1) % PIPESIZE]
  <2> HIDE DEF u
  <2> QED BY QueueIsSeq, <1>5, <1>4
<1> HIDE DEF u, q, qq
<1>9. q # << >>
  BY <1>1, <1>7, EmptySeq
<1>10. /\ Tail(q) \in Seq(Bytes) /\ Len(Tail(q)) = u - 1
       /\ \A k \in 1..(u - 1) : Tail(q)[k] = q[k + 1]
  BY <1>7, <1>9, HeadTailProperties
<1>11. ASSUME NEW k \in 1..(u - 1) PROVE qq[k] = Tail(q)[k]
  <2>1. k + 1 \in 1..u
    BY <1>1
  <2> QED BY <2>1, <1>6, <1>7, <1>8, <1>10, Zenon
<1>12. qq = Tail(q)
  BY <1>1, <1>8, <1>10, <1>11, SeqEqual, Zenon
<1> QED BY <1>5, <1>9, <1>12, Zenon DEF q, qq

-----------------------------------------------------------------------------
(* The inductive invariant                                                 *)

\* A process is in the body of piperead() or pipewrite() exactly while it holds
\* pi->lock; outside it has no bytes transferred; an end of the pipe is closed only
\* when nobody uses it; a reader starts to copy only if there is something to read
\* or nobody can write.
Control ==
  /\ \A p \in Procs : pc[p] \in {"loop", "copy", "sleep"} <=> lock = p
  /\ \A p \in Procs : pc[p] = "out" => i[p] = 0
  /\ \A w \in Writers : pc[w] # "copy"
  /\ ~readopen => \A r \in Readers : pc[r] = "out"
  /\ ~writeopen => \A w \in Writers : pc[w] = "out"
  /\ \A r \in Readers : pc[r] = "copy" /\ i[r] = 0 => ~Empty \/ ~writeopen

PipeInv == TypeOK /\ RingOK(data, nread, nwrite) /\ Control

\* What wakeup() does to the labels.
LEMMA WokenType ==
  ASSUME NEW f \in [Procs -> {"out", "enter", "loop", "copy", "sleep", "asleep"}], NEW S
  PROVE  /\ Woken(f, S) \in [Procs -> {"out", "enter", "loop", "copy", "sleep", "asleep"}]
         /\ \A p \in Procs : Woken(f, S)[p] = IF p \in S /\ f[p] = "asleep" THEN "enter" ELSE f[p]
  BY Zenon DEF Woken

\* pipealloc() establishes the invariant.
LEMMA InitPipeInv == Init => PipeInv
<1> SUFFICES ASSUME Init PROVE PipeInv
  BY Zenon
<1>1. Used(nread, nwrite) = 0
  BY Sizes DEF Init, Used
<1>2. TypeOK
  <2>1. 0 \in 0..(WRAP - 1) /\ 0 \in Nat /\ 0 <= 0
    BY Sizes
  <2> QED BY <2>1, Zenon DEF Init, TypeOK
<1>3. RingOK(data, nread, nwrite)
  BY <1>1, Sizes DEF Init, RingOK
<1>4. Control
  BY PipeConstants, Zenon DEF Init, Control, Procs
<1> QED BY <1>2, <1>3, <1>4, Zenon DEF PipeInv

\* The counters and the buffer change by a Put or a Get, or are new, or not at all.
LEMMA RingStep ==
  ASSUME PipeInv, [Next]_vars
  PROVE  RingOK(data, nread, nwrite)'
<1> USE DEF PipeInv
<1>1. ASSUME NEW w \in Writers, write_byte(w) PROVE RingOK(data, nread, nwrite)'
  <2>1. PICK b \in Bytes : data' = Put(data, nwrite, b)
    BY <1>1, Zenon DEF write_byte, Put
  <2>2. RingOK(Put(data, nwrite, b), nread, Inc(nwrite))
    BY <1>1, PutAppends, Zenon DEF write_byte, Full
  <2> QED BY <2>1, <2>2, <1>1, Zenon DEF write_byte
<1>2. ASSUME NEW r \in Readers, read_byte(r) \/ read_fault(r) PROVE RingOK(data, nread, nwrite)'
  BY <1>2, GetTakesHead, Zenon DEF read_byte, read_fault, Empty
<1>3. CASE pipealloc
  <2>1. Used(0, 0) = 0
    BY Sizes DEF Used
  <2> QED BY <2>1, <1>3, Sizes DEF pipealloc, RingOK
<1>4. CASE UNCHANGED <<data, nread, nwrite>>
  BY <1>4, Zenon
<1> QED
  BY <1>1, <1>2, <1>3, <1>4, Zenon
  DEF Next, vars, pipeVars, Write, Read, call, acquire, sleep, kill, write_broken, write_full,
      write_done, read_killed, read_sleep, read_start, read_done, close_write, close_read

\* Every step keeps the types.
LEMMA TypeStep ==
  ASSUME PipeInv, RingOK(data, nread, nwrite)', [Next]_vars
  PROVE  TypeOK'
<1> DEFINE Labels == {"out", "enter", "loop", "copy", "sleep", "asleep"}
<1> USE DEF PipeInv
<1>0. (data \in [0..(PIPESIZE - 1) -> Bytes] /\ nread \in 0..(WRAP - 1) /\ nwrite \in 0..(WRAP - 1))'
  BY Zenon DEF RingOK
<1>a. \A p \in Procs : n[p] \in Nat /\ i[p] \in Nat /\ i[p] <= n[p]
  <2>1. Lengths \cup {0} \subseteq Nat
    BY PipeConstants
  <2>2. \A p \in Procs : n[p] \in Lengths \cup {0} /\ i[p] \in Nat /\ i[p] <= n[p]
    BY Zenon DEF TypeOK
  <2> QED BY <2>1, <2>2, Zenon
<1>1. ASSUME NEW p \in Procs, NEW k \in Lengths, call(p, k) PROVE TypeOK'
  <2>1. i[p] = 0 /\ k \in Nat
    BY <1>1, PipeConstants, Zenon DEF call, Control
  <2>2. n' \in [Procs -> Lengths \cup {0}] /\ \A q \in Procs : i[q] <= n'[q]
    BY <1>1, <1>a, <2>1 DEF call, TypeOK
  <2> QED BY <1>0, <1>1, <2>2, Zenon DEF call, TypeOK, pipeVars
<1>2. ASSUME NEW p \in Procs, acquire(p) PROVE TypeOK'
  BY <1>0, <1>2, Zenon DEF acquire, TypeOK, pipeVars
<1>3. ASSUME NEW p \in Procs, kill(p) PROVE TypeOK'
  <2>1. pc' \in [Procs -> Labels]
    BY <1>3, WokenType, Zenon DEF kill, TypeOK
  <2> QED BY <1>0, <1>3, <2>1, Zenon DEF kill, TypeOK, pipeVars
<1>4. ASSUME NEW p \in Procs, NEW S, Return(p, S), UNCHANGED <<readopen, writeopen>>,
             unannounced' \in BOOLEAN
      PROVE  TypeOK'
  <2>1. pc' \in [Procs -> Labels]
    BY <1>4, WokenType, Zenon DEF Return, TypeOK
  <2>2. n' \in [Procs -> Lengths \cup {0}] /\ i' \in [Procs -> Nat]
        /\ \A q \in Procs : i'[q] <= n'[q]
    BY <1>4, PipeConstants DEF Return, TypeOK
  <2> QED BY <1>0, <1>4, <2>1, <2>2, Zenon DEF Return, TypeOK
<1>5. ASSUME NEW p \in Procs, NEW S, CallSleep(p, S), UNCHANGED pipeVars,
             unannounced' \in BOOLEAN
      PROVE  TypeOK'
  <2>1. pc' \in [Procs -> Labels]
    BY <1>5, WokenType, Zenon DEF CallSleep, TypeOK
  <2> QED BY <1>0, <1>5, <2>1, Zenon DEF CallSleep, TypeOK, pipeVars
<1>11. ASSUME NEW p \in Procs, sleep(p) PROVE TypeOK'
  BY <1>0, <1>11, Zenon DEF sleep, TypeOK, pipeVars
<1>6. ASSUME NEW w \in Writers, Write(w) PROVE TypeOK'
  <2>1. w \in Procs
    BY Zenon DEF Procs
  <2>2. CASE write_byte(w)
    <3>1. i' \in [Procs -> Nat] /\ \A q \in Procs : i'[q] <= n'[q]
      BY <1>a, <2>1, <2>2 DEF write_byte, Writing, TypeOK
    <3> QED BY <1>0, <2>2, <3>1, Zenon DEF write_byte, TypeOK
  <2>3. unannounced' \in BOOLEAN
    BY <1>6, Zenon DEF Write, write_broken, write_full, write_byte, write_done, TypeOK
  <2> QED BY <1>4, <1>5, <1>6, <2>1, <2>2, <2>3, Zenon
      DEF Write, write_broken, write_full, write_done, pipeVars
<1>7. ASSUME NEW r \in Readers, Read(r) PROVE TypeOK'
  <2>1. r \in Procs
    BY Zenon DEF Procs
  <2>2. CASE read_byte(r)
    <3>1. i' \in [Procs -> Nat] /\ \A q \in Procs : i'[q] <= n'[q]
      BY <1>a, <2>1, <2>2 DEF read_byte, TypeOK
    <3> QED BY <1>0, <2>2, <3>1, Zenon DEF read_byte, TypeOK
  <2>3. CASE read_start(r)
    BY <1>0, <2>1, <2>3, Zenon DEF read_start, TypeOK, pipeVars
  <2>4. unannounced' \in BOOLEAN
    BY <1>7, Zenon DEF Read, read_killed, read_sleep, read_start, read_byte, read_fault,
       read_done, TypeOK
  <2> QED BY <1>4, <1>5, <1>7, <2>1, <2>2, <2>3, <2>4, Zenon
      DEF Read, read_killed, read_sleep, read_fault, read_done, pipeVars
<1>8. CASE close_write \/ close_read
  <2>1. pc' = Woken(pc, Readers) \/ pc' = Woken(pc, Writers)
    BY <1>8, Zenon DEF close_write, close_read
  <2>2. pc' \in [Procs -> Labels]
    BY <2>1, WokenType DEF TypeOK
  <2> QED BY <1>0, <1>8, <2>2, Zenon DEF close_write, close_read, TypeOK
<1>9. CASE pipealloc
  BY <1>0, <1>9, Zenon DEF pipealloc, TypeOK
<1>10. CASE UNCHANGED vars
  BY <1>10, Zenon DEF vars, pipeVars, TypeOK
<1> QED BY <1>1, <1>2, <1>3, <1>6, <1>7, <1>8, <1>9, <1>10, <1>11, Zenon DEF Next

\* Who is inside follows pi->lock, and Return and Sleep leave through it.
LEMMA ControlStep ==
  ASSUME PipeInv, TypeOK', [Next]_vars
  PROVE  Control'
<1> USE DEF PipeInv
<1>0. Readers \subseteq Procs /\ Writers \subseteq Procs
      /\ Readers \cap Writers = {} /\ NoProc \notin Procs
  BY PipeConstants, Zenon DEF Procs
<1>1. ASSUME NEW p \in Procs, NEW k \in Lengths, call(p, k) PROVE Control'
  BY <1>0, <1>1 DEF call, Control, TypeOK, pipeVars, Empty, Procs
<1>2. ASSUME NEW p \in Procs, acquire(p) PROVE Control'
  BY <1>0, <1>2 DEF acquire, Control, TypeOK, pipeVars, Empty
<1>3. ASSUME NEW p \in Procs, kill(p) PROVE Control'
  <2>1. \A q \in Procs : pc'[q] = IF q = p /\ pc[q] = "asleep" THEN "enter" ELSE pc[q]
    BY <1>3, WokenType DEF kill, TypeOK
  <2> QED BY <1>0, <1>3, <2>1, Zenon DEF kill, Control, pipeVars, Empty
<1>4. ASSUME NEW p \in Procs, NEW S, Return(p, S), lock = p,
             UNCHANGED <<readopen, writeopen>>
      PROVE  Control'
  <2>1. \A q \in Procs : pc'[q] = IF q = p THEN "out"
                                  ELSE IF q \in S /\ pc[q] = "asleep" THEN "enter" ELSE pc[q]
    BY <1>4, Zenon DEF Return, Woken, TypeOK
  <2>2. \A q \in Procs : q # p => i'[q] = i[q] /\ pc[q] \notin {"loop", "copy", "sleep"}
    BY <1>4 DEF Return, TypeOK, Control
  <2> QED BY <1>0, <1>4, <2>1, <2>2 DEF Return, Control, TypeOK
<1>5. ASSUME NEW p \in Procs, NEW S, CallSleep(p, S), lock = p, UNCHANGED pipeVars
      PROVE  Control'
  <2>1. \A q \in Procs : pc'[q] = IF q = p THEN "sleep"
                                  ELSE IF q \in S /\ pc[q] = "asleep" THEN "enter" ELSE pc[q]
    BY <1>5, WokenType DEF CallSleep, TypeOK
  <2>2. \A q \in Procs : q # p => pc[q] \notin {"loop", "copy", "sleep"}
    BY <1>5, Zenon DEF Control
  <2> QED BY <1>0, <1>5, <2>1, <2>2 DEF CallSleep, Control, TypeOK, pipeVars
<1>12. ASSUME NEW p \in Procs, sleep(p) PROVE Control'
  <2>1. \A q \in Procs : pc'[q] = IF q = p THEN "asleep" ELSE pc[q]
    BY <1>12, Zenon DEF sleep, TypeOK
  <2>2. lock = p /\ \A q \in Procs : q # p => pc[q] \notin {"loop", "copy", "sleep"}
    BY <1>12, Zenon DEF sleep, Control
  <2> QED BY <1>0, <1>12, <2>1, <2>2 DEF sleep, Control, pipeVars
<1>6. ASSUME NEW w \in Writers, Write(w) PROVE Control'
  <2>1. w \in Procs /\ lock = w
    BY <1>0, <1>6, Zenon DEF Write, write_broken, write_full, write_byte, write_done,
       Writing, Control
  <2>2. CASE write_byte(w)
    BY <1>0, <2>1, <2>2, Zenon DEF write_byte, Control, TypeOK
  <2> QED BY <1>4, <1>5, <1>6, <2>1, <2>2, Zenon
      DEF Write, write_broken, write_full, write_done, pipeVars
<1>7. ASSUME NEW r \in Readers, Read(r) PROVE Control'
  <2>1. r \in Procs /\ lock = r
    BY <1>0, <1>7, Zenon DEF Read, read_killed, read_sleep, read_start, read_byte,
       read_fault,
                      read_done, Waiting, Control
  <2>2. CASE read_byte(r)
    BY <1>0, <2>1, <2>2 DEF read_byte, Control, TypeOK
  <2>3. CASE read_start(r)
    BY <1>0, <2>1, <2>3 DEF read_start, Waiting, Control, TypeOK, pipeVars, Empty
  <2> QED BY <1>4, <1>5, <1>7, <2>1, <2>2, <2>3, Zenon
      DEF Read, read_killed, read_sleep, read_fault, read_done, pipeVars
<1>8. CASE close_write
  <2>1. pc' = Woken(pc, Readers)
    BY <1>8, Zenon DEF close_write
  <2>2. \A q \in Procs : pc'[q] = IF q \in Readers /\ pc[q] = "asleep" THEN "enter" ELSE pc[q]
    BY <2>1, Zenon DEF Woken
  <2> QED BY <1>0, <1>8, <2>2, Zenon DEF close_write, Control, Empty
<1>11. CASE close_read
  <2>1. pc' = Woken(pc, Writers)
    BY <1>11, Zenon DEF close_read
  <2>2. \A q \in Procs : pc'[q] = IF q \in Writers /\ pc[q] = "asleep" THEN "enter" ELSE pc[q]
    BY <2>1, Zenon DEF Woken
  <2> QED BY <1>0, <1>11, <2>2, Zenon DEF close_read, Control, Empty
<1>9. CASE pipealloc
  BY <1>0, <1>9, Zenon DEF pipealloc, Control, TypeOK
<1>10. CASE UNCHANGED vars
  BY <1>10, Zenon DEF vars, pipeVars, Control, Empty
<1> QED BY <1>1, <1>2, <1>3, <1>6, <1>7, <1>8, <1>9, <1>10, <1>11, <1>12, Zenon DEF Next

\* The counters, the ring of bytes, the lock and the labels of the readers and
\* writers of pipe.c stay in the relation PipeInv describes.
THEOREM PipeInvariant == Spec => []PipeInv
<1>1. PipeInv /\ [Next]_vars => PipeInv'
  BY RingStep, TypeStep, ControlStep, Zenon DEF PipeInv
<1> QED BY InitPipeInv, <1>1, PTL DEF Spec

-----------------------------------------------------------------------------
(* The pipe implements a bounded queue                                     *)

\* A new ring is empty.
LEMMA EmptyQueue == \A d : Queue(d, 0, 0) = << >>
<1>1. Used(0, 0) = 0
  BY Sizes DEF Used
<1> QED BY <1>1 DEF Queue

\* The queue that F is given.
LEMMA MappedQueue ==
  Queue(data, nread, nwrite) = [k \in 1..Count |-> data[(nread + k - 1) % PIPESIZE]]
  BY Zenon DEF Queue, Used, Count

\* A new pipe is an empty FIFO.
LEMMA FifoInit == Init => F!Init
<1> SUFFICES ASSUME Init PROVE F!Init
  BY Zenon
<1>1. Queue(data, nread, nwrite) = << >>
  BY EmptyQueue, Zenon DEF Init
<1> QED BY <1>1, MappedQueue, Zenon DEF Init, F!Init

\* Every step of the pipe is a step of the FIFO or leaves it alone.
LEMMA FifoStep ==
  ASSUME PipeInv, [Next]_vars
  PROVE  [F!Next]_(F!vars)
<1> DEFINE q == Queue(data, nread, nwrite)
<1>0. q = [k \in 1..Count |-> data[(nread + k - 1) % PIPESIZE]]
  BY MappedQueue, Zenon
<1>a. q' = [k \in 1..Count |-> data[(nread + k - 1) % PIPESIZE]]'
  BY Zenon DEF Queue, Used, Count
<1> HIDE DEF q
<1>1. ASSUME NEW w \in Writers, write_byte(w) PROVE F!Next
  <2>1. readopen /\ writeopen
    BY <1>1, Zenon DEF write_byte, Writing, PipeInv, Control
  <2>2. PICK b \in Bytes : data' = Put(data, nwrite, b)
    BY <1>1, Zenon DEF write_byte, Put
  <2>3. q' = Append(q, b) /\ Len(q) < PIPESIZE
    <3>1. RingOK(data, nread, nwrite) /\ nwrite # (nread + PIPESIZE) % WRAP
      BY <1>1, Zenon DEF write_byte, Full, PipeInv
    <3>2. /\ Queue(Put(data, nwrite, b), nread, Inc(nwrite)) = Append(q, b)
          /\ Len(q) < PIPESIZE
      BY <3>1, PutAppends DEF q
    <3>3. q' = Queue(Put(data, nwrite, b), nread, Inc(nwrite))
      BY <1>1, <2>2, Zenon DEF write_byte, q
    <3> QED BY <3>2, <3>3, Zenon
  <2>4. F!Put
    BY <1>0, <1>a, <1>1, <2>1, <2>3, Zenon DEF F!Put, write_byte
  <2> QED BY <2>4, Zenon DEF F!Next
<1>2. ASSUME NEW r \in Readers, read_byte(r) \/ read_fault(r) PROVE F!Next
  <2>1. readopen
    BY <1>2, Zenon DEF read_byte, read_fault, PipeInv, Control
  <2>2. q # << >> /\ q' = Tail(q)
    BY <1>2, GetTakesHead DEF read_byte, read_fault, Empty, PipeInv, q
  <2>3. F!Get
    BY <1>0, <1>a, <1>2, <2>1, <2>2, Zenon DEF F!Get, read_byte, read_fault
  <2> QED BY <2>3, Zenon DEF F!Next
<1>3. CASE pipealloc
  <2>1. q' = << >>
    BY <1>3, EmptyQueue, Zenon DEF pipealloc, q
  <2>2. F!Renew
    BY <1>a, <1>3, <2>1, Zenon DEF F!Renew, pipealloc
  <2> QED BY <2>2, Zenon DEF F!Next
<1>4. CASE UNCHANGED <<data, nread, nwrite>>
  <2>1. q' = q
    BY <1>4, Zenon DEF q
  <2>2. CASE close_write
    <3>1. F!CloseWrite
      BY <1>0, <1>a, <2>1, <2>2, Zenon DEF close_write, F!CloseWrite
    <3> QED BY <3>1, Zenon DEF F!Next
  <2>3. CASE close_read
    <3>1. F!CloseRead
      BY <1>0, <1>a, <2>1, <2>3, Zenon DEF close_read, F!CloseRead
    <3> QED BY <3>1, Zenon DEF F!Next
  <2>4. CASE UNCHANGED <<readopen, writeopen>>
    BY <1>0, <1>a, <2>1, <2>4, Zenon DEF F!vars
  <2>5. CASE pipealloc
    BY <2>5, <1>3, Zenon
  <2> QED
    BY <2>2, <2>3, <2>4, <2>5, Zenon
    DEF Next, vars, pipeVars, Write, Read, call, acquire, sleep, kill, write_broken,
    write_full,
        write_byte, write_done, read_killed, read_sleep, read_start, read_byte, read_fault,
        read_done
<1> QED
  BY <1>1, <1>2, <1>3, <1>4, Zenon
  DEF Next, vars, pipeVars, Write, Read, call, acquire, sleep, kill, write_broken, write_full,
      write_done, read_killed, read_sleep, read_start, read_done, close_write, close_read

\* pipe.c implements a bounded first-in first-out queue of bytes, for every
\* PIPESIZE, for counters that wrap around at any multiple of it, and for any
\* number of readers and writers that may be killed at any time; a reader gets 0
\* bytes only at the end of the file.
THEOREM PipeIsFifo == Spec => IsFifo
<1>1. PipeInv => \A r \in Readers : pc[r] = "copy" /\ i[r] = 0 /\ Empty => ~writeopen
  BY Zenon DEF PipeInv, Control
<1>2. PipeInv /\ [Next]_vars =>
        [\A r \in Readers :
           pc[r] = "copy" /\ pc'[r] = "out" /\ i[r] = 0 /\ Empty => ~writeopen]_vars
  BY <1>1, Zenon
<1>3. Spec => EndOfFile
  BY PipeInvariant, <1>2, PTL DEF Spec, EndOfFile
<1>4. Spec => F!Spec
  BY PipeInvariant, FifoInit, FifoStep, PTL DEF Spec, F!Spec
<1> QED BY <1>3, <1>4, Zenon DEF IsFifo

-----------------------------------------------------------------------------
(* No lost wakeup                                                          *)

\* NoLostWakeup made inductive: a writer has to wake the readers only for bytes it
\* has written; a reader in its waiting loop has taken nothing out, so the writers
\* need not be woken up by it; and what made a process call sleep() still holds
\* when it sleeps.
Asleep ==
  /\ \A r \in Readers : pc[r] = "asleep" =>
       \/ Empty /\ writeopen
       \/ \E w \in Writers : lock = w /\ pc[w] = "loop" /\ i[w] > 0
       \/ unannounced
  /\ \A w \in Writers : pc[w] = "asleep" =>
       (Full /\ readopen) \/ \E r \in Readers : lock = r /\ pc[r] = "copy"
  /\ \A r \in Readers : pc[r] = "sleep" => Empty /\ writeopen
  /\ \A w \in Writers : pc[w] = "sleep" =>
       Full /\ readopen /\ \A r \in Readers : pc[r] # "asleep"

\* A process falls asleep only when it has to, and a step that ends the reason wakes it.
LEMMA AsleepStep ==
  ASSUME PipeInv, PipeInv', Asleep, [Next]_vars
  PROVE  Asleep'
<1>0. /\ Readers \subseteq Procs /\ Writers \subseteq Procs
      /\ Readers \cap Writers = {} /\ NoProc \notin Procs
  BY PipeConstants, Zenon DEF Procs
<1>a. /\ \A p \in Procs : pc[p] \in {"loop", "copy", "sleep"} <=> lock = p
      /\ \A w \in Writers : pc[w] # "copy"
      /\ ~readopen => \A r \in Readers : pc[r] = "out"
  BY Zenon DEF PipeInv, Control
<1>b. pc \in [Procs -> {"out", "enter", "loop", "copy", "sleep", "asleep"}]
  BY Zenon DEF PipeInv, TypeOK
<1>1. ASSUME NEW p \in Procs, NEW k \in Lengths, call(p, k) PROVE Asleep'
  BY <1>0, <1>a, <1>b, <1>1, Zenon DEF call, Asleep, pipeVars, Empty, Full
<1>2. ASSUME NEW p \in Procs, acquire(p) PROVE Asleep'
  BY <1>0, <1>a, <1>b, <1>2, Zenon DEF acquire, Asleep, pipeVars, Empty, Full
<1>3. ASSUME NEW p \in Procs, kill(p) PROVE Asleep'
  <2>1. \A q \in Procs : pc'[q] = IF q = p /\ pc[q] = "asleep" THEN "enter" ELSE pc[q]
    BY <1>3, Zenon DEF kill, Woken
  <2>2. \A q \in Procs : pc[q] = "loop" \/ pc[q] = "copy" => pc'[q] = pc[q]
    BY <2>1, Zenon
  <2> QED BY <1>0, <1>3, <2>1, <2>2, Zenon DEF kill, Asleep, pipeVars, Empty, Full
<1>4. ASSUME NEW p \in Procs, NEW S, Return(p, S), lock = p
      PROVE  /\ \A q \in Procs : pc'[q] = "asleep" => pc[q] = "asleep" /\ q \notin S /\ q # p
             /\ \A q \in Procs : pc'[q] # "sleep"
             /\ lock' = NoProc
  <2>1. \A q \in Procs : q # p => pc[q] # "sleep"
    BY <1>4, <1>a, Zenon
  <2>2. \A q \in Procs : pc'[q] = IF q = p THEN "out"
                                  ELSE IF q \in S /\ pc[q] = "asleep" THEN "enter" ELSE pc[q]
    BY <1>4, <1>b, Zenon DEF Return, Woken
  <2>3. ASSUME NEW q \in Procs
        PROVE  /\ pc'[q] = "asleep" => pc[q] = "asleep" /\ q \notin S /\ q # p
               /\ pc'[q] # "sleep"
    <3>1. CASE q = p BY <2>2, <3>1, Zenon
    <3>2. CASE q # p BY <2>1, <2>2, <3>2, Zenon
    <3> QED BY <3>1, <3>2, Zenon
  <2>4. lock' = NoProc
    BY <1>4, Zenon DEF Return
  <2> QED BY <2>3, <2>4, Zenon
<1>11. ASSUME NEW p \in Procs, NEW S, CallSleep(p, S), lock = p
       PROVE  /\ \A q \in Procs : pc'[q] = "asleep" => pc[q] = "asleep" /\ q \notin S /\ q # p
              /\ \A q \in Procs : pc'[q] = "sleep" => q = p
  <2>1. \A q \in Procs : q # p => pc[q] # "sleep"
    BY <1>11, <1>a, Zenon
  <2>2. \A q \in Procs : pc'[q] = IF q = p THEN "sleep"
                                  ELSE IF q \in S /\ pc[q] = "asleep" THEN "enter" ELSE pc[q]
    BY <1>11, <1>b, Zenon DEF CallSleep, Woken
  <2> QED BY <2>1, <2>2, Zenon
<1>12. ASSUME NEW p \in Procs, sleep(p) PROVE Asleep'
  <2>1. \A q \in Procs : pc'[q] = IF q = p THEN "asleep" ELSE pc[q]
    BY <1>12, <1>b, Zenon DEF sleep
  <2>2. lock = p /\ lock' = NoProc /\ \A q \in Procs : q # p => pc[q] # "sleep"
    BY <1>12, <1>a, Zenon DEF sleep
  <2>3. Empty' = Empty /\ Full' = Full /\ UNCHANGED <<readopen, writeopen, unannounced>>
    BY <1>12, Zenon DEF sleep, pipeVars, Empty, Full
  <2>4. \A r \in Readers : pc'[r] = "asleep" => (Empty /\ writeopen) \/ unannounced
    BY <1>0, <1>12, <2>1, <2>2, Zenon DEF sleep, Asleep
  <2>5. \A w \in Writers : pc'[w] = "asleep" => Full /\ readopen
    BY <1>0, <1>12, <2>1, <2>2, Zenon DEF sleep, Asleep
  <2>6. \A q \in Procs : pc'[q] # "sleep"
    BY <2>1, <2>2, Zenon
  <2> QED BY <1>0, <2>3, <2>4, <2>5, <2>6, Zenon DEF Asleep
<1>5. ASSUME NEW w \in Writers, Write(w) PROVE Asleep'
  <2>1. w \in Procs /\ lock = w /\ w \notin Readers /\ pc[w] = "loop"
    BY <1>0, <1>a, <1>5, Zenon DEF Write, write_broken, write_full, write_byte,
       write_done, Writing
  <2>2. \A v \in Writers : pc[v] = "asleep" => Full /\ readopen
    BY <1>0, <2>1, Zenon DEF Asleep
  <2>3. CASE write_broken(w)
    <3>1. \A r \in Readers : pc[r] = "asleep" => (Empty /\ writeopen) \/ unannounced'
      <4> SUFFICES ASSUME NEW r \in Readers, pc[r] = "asleep", ~(Empty /\ writeopen)
                   PROVE  unannounced'
        BY Zenon
      <4>1. readopen
        BY <1>a, Zenon
      <4>2. unannounced \/ i[w] > 0
        BY <2>1, Zenon DEF Asleep
      <4> QED BY <2>3, <4>1, <4>2, Zenon DEF write_broken
    <3>2. Empty' = Empty /\ Full' = Full /\ UNCHANGED <<readopen, writeopen>>
      BY <2>3, Zenon DEF write_broken, pipeVars, Empty, Full
    <3>3. Return(w, {})
      BY <2>3, Zenon DEF write_broken
    <3> QED BY <1>0, <1>4, <2>1, <2>2, <3>1, <3>2, <3>3, Zenon DEF Asleep
  <2>4. CASE write_done(w)
    <3>1. Return(w, Readers) /\ Full' = Full /\ UNCHANGED readopen
      BY <2>4, Zenon DEF write_done, pipeVars, Full
    <3> QED BY <1>0, <1>4, <2>1, <2>2, <3>1, Zenon DEF Asleep
  <2>5. CASE write_full(w)
    <3>1. CallSleep(w, Readers) /\ Full /\ readopen /\ Full' = Full /\ UNCHANGED readopen
      BY <2>5, Zenon DEF write_full, pipeVars, Full
    <3> QED BY <1>0, <1>11, <2>1, <2>2, <3>1, Zenon DEF Asleep
  <2>6. CASE write_byte(w)
    <3>1. i'[w] > 0
      BY <2>1, <2>6 DEF write_byte, PipeInv, TypeOK
    <3>2. \A q \in Procs : pc[q] # "sleep"
      BY <2>1, <1>a, Zenon
    <3>3. \A v \in Writers : pc[v] # "asleep"
      BY <2>2, <2>6, Zenon DEF write_byte
    <3> QED BY <1>0, <2>1, <2>6, <3>1, <3>2, <3>3, Zenon DEF write_byte, Asleep
  <2> QED BY <1>5, <2>3, <2>4, <2>5, <2>6, Zenon DEF Write
<1>6. ASSUME NEW r \in Readers, Read(r) PROVE Asleep'
  <2>1. r \in Procs /\ lock = r /\ r \notin Writers /\ pc[r] # "sleep"
    BY <1>0, <1>a, <1>6, Zenon DEF Read, read_killed, read_sleep, read_start, read_byte,
                             read_fault, read_done, Waiting
  <2>2. \A x \in Readers : pc[x] = "asleep" => (Empty /\ writeopen) \/ unannounced
    BY <1>0, <2>1, Zenon DEF Asleep
  <2>3. pc[r] = "loop" => \A w \in Writers : pc[w] = "asleep" => Full /\ readopen
    BY <2>1, Zenon DEF Asleep
  <2>a. UNCHANGED <<writeopen, readopen, unannounced>>
    BY <1>6, Zenon DEF Read, read_killed, read_sleep, read_start, read_byte,
                             read_fault, read_done, pipeVars
  <2>b. \A q \in Procs : pc[q] # "sleep"
    BY <1>a, <2>1, Zenon
  <2>4. CASE read_killed(r)
    <3>1. Return(r, {}) /\ pc[r] = "loop" /\ Empty' = Empty /\ Full' = Full
      BY <2>4, Zenon DEF read_killed, Waiting, pipeVars, Empty, Full
    <3> QED BY <1>0, <1>4, <2>1, <2>2, <2>3, <2>a, <3>1, Zenon DEF Asleep
  <2>5. CASE read_sleep(r)
    <3>1. /\ CallSleep(r, {}) /\ pc[r] = "loop" /\ Empty' = Empty /\ Full' = Full
          /\ Empty /\ writeopen
      BY <2>5, Zenon DEF read_sleep, Waiting, pipeVars, Empty, Full
    <3> QED BY <1>0, <1>11, <2>1, <2>2, <2>3, <2>a, <3>1, Zenon DEF Asleep
  <2>6. CASE read_start(r)
    <3>1. /\ \A q \in Procs : pc'[q] = IF q = r THEN "copy" ELSE pc[q]
          /\ Empty' = Empty /\ Full' = Full /\ lock' = lock
      BY <1>b, <2>6, Zenon DEF read_start, pipeVars, Empty, Full
    <3> QED BY <1>0, <2>1, <2>2, <2>a, <2>b, <3>1, Zenon DEF Asleep
  <2>7. CASE read_byte(r)
    BY <1>0, <2>1, <2>2, <2>7, <2>b, Zenon DEF read_byte, Asleep
  <2>8. CASE read_fault(r)
    BY <1>0, <1>4, <2>1, <2>2, <2>8, Zenon DEF read_fault, Asleep
  <2>9. CASE read_done(r)
    <3>1. Return(r, Writers) /\ Empty' = Empty
      BY <2>9, Zenon DEF read_done, pipeVars, Empty
    <3> QED BY <1>0, <1>4, <2>1, <2>2, <2>a, <3>1, Zenon DEF Asleep
  <2> QED BY <1>6, <2>4, <2>5, <2>6, <2>7, <2>8, <2>9, Zenon DEF Read
<1>7. CASE close_write
  <2>1. \A q \in Procs : pc'[q] = IF q \in Readers /\ pc[q] = "asleep" THEN "enter" ELSE pc[q]
    BY <1>7, <1>b, Zenon DEF close_write, Woken
  <2>2. \A q \in Procs : pc[q] \notin {"loop", "copy", "sleep"}
    BY <1>0, <1>7, <1>a, Zenon DEF close_write
  <2>3. Full' = Full /\ UNCHANGED readopen
    BY <1>7, Zenon DEF close_write, Full
  <2> QED BY <1>0, <1>a, <2>1, <2>2, <2>3, Zenon DEF Asleep
<1>8. CASE close_read
  <2>1. \A q \in Procs : pc'[q] = IF q \in Writers /\ pc[q] = "asleep" THEN "enter" ELSE pc[q]
    BY <1>8, <1>b, Zenon DEF close_read, Woken
  <2>2. \A q \in Procs : pc[q] \notin {"loop", "copy", "sleep"}
    BY <1>0, <1>8, <1>a, Zenon DEF close_read
  <2>3. Empty' = Empty /\ UNCHANGED <<writeopen, unannounced>>
    BY <1>8, Zenon DEF close_read, Empty
  <2> QED BY <1>0, <1>a, <2>1, <2>2, <2>3, Zenon DEF Asleep
<1>9. CASE pipealloc
  <2>1. \A q \in Procs : pc[q] = "out"
    BY <1>9, Zenon DEF pipealloc, PipeInv, Control, Procs
  <2> QED BY <1>0, <1>9, <2>1, Zenon DEF pipealloc, Asleep
<1>10. CASE UNCHANGED vars
  BY <1>10, Zenon DEF vars, pipeVars, Asleep, Empty, Full
<1> QED BY <1>1, <1>2, <1>3, <1>5, <1>6, <1>7, <1>8, <1>9, <1>10, <1>12, Zenon DEF Next

\* Nobody sleeps on a pipe that has become ready, for any number of readers and
\* writers, whoever is killed and when, except beside bytes that a killed writer
\* has left without a wakeup().
THEOREM PipeNoLostWakeup == Spec => []NoLostWakeup
<1>1. Init => Asleep
  BY Zenon DEF Init, Asleep, Procs
<1>2. PipeInv /\ PipeInv' /\ Asleep /\ [Next]_vars => Asleep'
  BY AsleepStep, Zenon
<1>3. PipeInv /\ Asleep => NoLostWakeup
  BY Zenon DEF PipeInv, Asleep, NoLostWakeup
<1> QED BY PipeInvariant, <1>1, <1>2, <1>3, PTL DEF Spec
=============================================================================
