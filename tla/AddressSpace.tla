---------------------------- MODULE AddressSpace ----------------------------
(***************************************************************************)
(* What the system calls on memory promise: every process has an address   *)
(* space of its own, a sequence of bytes that only its own calls change.   *)
(* A call that fails leaves all address spaces as they were, except that a *)
(* copy into user memory stops at the first byte it may not write.         *)
(***************************************************************************)
EXTENDS Integers, Sequences, FiniteSetsExt

CONSTANTS Procs, PGSIZE, WRAP64, ALIGN, PTRSIZE, MAXARG,
          Guard,          \* a byte the program may not use
          Programs,       \* program headers and arguments
          Copies,         \* addresses and lengths that the kernel is given
          MaxBytes        \* bound on the size of an address space

None == << >>             \* the address space of an unused slot

VARIABLES space,          \* the bytes of each process, whole pages
          got             \* what the kernel read last, or <<-1>>

vars == <<space, got>>

Init == space = [p \in Procs |-> None] /\ got = << >>

Zeros(n) == [i \in 1..n * PGSIZE |-> 0]

\* A call of p that gives it the space s.
Set(p, s) == space'[p] = s /\ got' = << >> /\ \A q \in Procs \ {p} : space'[q] = space[q]

\* Bytes va .. va + n - 1 of a space can be used.
Usable(s, va, n) == \A i \in va + 1 .. va + n : i \in DOMAIN s /\ s[i] # Guard

Boot(p) == (\A q \in Procs : space[q] = None) /\ Set(p, Zeros(1))

Fork(p, q) == space[q] = None /\ Set(q, space[p])

Grow(p) == \E n \in 1..MaxBytes \div PGSIZE : Set(p, space[p] \o Zeros(n))

Shrink(p) == \E n \in 0..Len(space[p]) : n % PGSIZE = 0 /\ Set(p, SubSeq(space[p], 1, n))

\* The segments of a program.
Segments(g) == {g.segs[k] : k \in {j \in DOMAIN g.segs : g.segs[j].type = "load"}}

\* How far from the end of the stack the arguments reach: each string begins at an
\* aligned address, below the one before it, and the array of pointers to them,
\* with its null pointer, is below the last one.
Pieces(g) == Append(g.args, (Len(g.args) + 1) * PTRSIZE)
Reach(g) ==
  LET f[k \in 0..Len(Pieces(g))] ==
        IF k = 0 THEN 0
        ELSE ((f[k - 1] + Pieces(g)[k] + ALIGN - 1) \div ALIGN) * ALIGN
  IN  f

\* The byte that is x bytes from the end of the stack.
StackByte(g, x) ==
  LET In(k) == x \in Reach(g)[k] - Pieces(g)[k] + 1 .. Reach(g)[k]
  IN  IF In(Len(Pieces(g))) THEN 3 ELSE IF \E k \in DOMAIN g.args : In(k) THEN 1 ELSE 0

\* The image of a program: its segments, a guard page and a page of stack with
\* the arguments at its end.
Size(g) == Max({0} \cup {s.vaddr + s.memsz : s \in Segments(g)})
Text(g) == ((Size(g) + PGSIZE - 1) \div PGSIZE) * PGSIZE
Image(g) ==
  [i \in 1..Text(g) + 2 * PGSIZE |->
     IF i \in Text(g) + 1 .. Text(g) + PGSIZE THEN Guard
     ELSE IF i > Text(g) + PGSIZE THEN StackByte(g, Text(g) + 2 * PGSIZE + 1 - i)
     ELSE IF \E s \in Segments(g) : i - s.vaddr \in 1..s.filesz THEN 2
     ELSE 0]

Loadable(g) ==
  /\ Len(g.args) < MAXARG /\ \A k \in DOMAIN g.args : g.args[k] > 0
  /\ Reach(g)[Len(Pieces(g))] <= PGSIZE
  /\ \A k \in DOMAIN g.segs : g.segs[k].type # "unreadable"
  /\ \A s \in Segments(g) :
       /\ s.vaddr % PGSIZE = 0 /\ s.vaddr + s.memsz < WRAP64
       /\ s.filesz <= Min({s.memsz, s.infile})

Exec(p) == \E g \in Programs : Loadable(g) /\ Set(p, Image(g))

Free(p) == Set(p, None)

\* n bytes 1 are written at va, or those before the first byte that is not usable.
Write(p, va, n) ==
  \E k \in 0..n :
    /\ Usable(space[p], va, k) /\ (k = n \/ ~Usable(space[p], va, k + 1))
    /\ Set(p, [i \in DOMAIN space[p] |-> IF i \in va + 1 .. va + k THEN 1 ELSE space[p][i]])

Read(p, va, n) ==
  /\ got' = IF Usable(space[p], va, n) THEN SubSeq(space[p], va + 1, va + n) ELSE <<-1>>
  /\ UNCHANGED space

\* A string ends at its first null byte.
ReadString(p, va, n) ==
  LET Ends == {k \in 1..n : Usable(space[p], va, k) /\ space[p][va + k] = 0}
  IN  /\ got' = IF Ends = {} THEN <<-1>> ELSE SubSeq(space[p], va + 1, va + Min(Ends))
      /\ UNCHANGED space

Next ==
  \E p \in Procs :
    \/ Boot(p) \/ Grow(p) \/ Shrink(p) \/ Exec(p) \/ Free(p)
    \/ \E q \in Procs : Fork(p, q)
    \/ \E c \in Copies :
         Write(p, c[1], c[2]) \/ Read(p, c[1], c[2]) \/ ReadString(p, c[1], c[2])

Spec == Init /\ [][Next]_vars
=============================================================================
