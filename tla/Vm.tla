--------------------------------- MODULE Vm ---------------------------------
(***************************************************************************)
(* User memory: kalloc() and kfree() (kalloc.c), three-level page tables   *)
(* (vm.c), and what allocproc(), fork(), growproc(), freeproc() (proc.c)   *)
(* and exec() (exec.c, sysfile.c) do with them.                            *)
(*                                                                         *)
(* A page table belongs to one process, so a system call is one step.  The *)
(* free list is shared: other processes may empty it at any point of a     *)
(* call, so left bounds the calls of kalloc() that succeed in this one.    *)
(* The functions of the code are operators on a record m with the memory   *)
(* and the result of the last call.  Which page kalloc() returns does not  *)
(* matter to anybody; it is the lowest free one.  Addresses of pages are   *)
(* counted in pages, sizes in bytes.                                       *)
(*                                                                         *)
(* freeproc() leaves p->alarm_tf as it is, and allocproc() frees that page *)
(* again when its first kalloc() fails (stale_freed).  Then the page is in *)
(* the free list twice, or there and in use, and nothing can be said of    *)
(* memory any more: the model ends there.                                  *)
(***************************************************************************)
EXTENDS Integers, FiniteSets, FiniteSetsExt, SequencesExt

CONSTANTS NPAGES,         \* pages between end and PHYSTOP
          NPTE,           \* entries of a page-table page
          PGSIZE,
          WRAP,           \* 2^32, for uint sizes
          WRAP64,         \* 2^64, for addresses in program headers
          ALIGN, PTRSIZE, \* alignment of sp, size of a pointer
          MAXARG,
          Procs, Init1,   \* slots of the process table; the first process
          Sbrks,          \* arguments of sbrk()
          Copies,         \* addresses and lengths given to read() and write()
          Programs,       \* program headers of executable files, and arguments
          MaxBytes,       \* bound on the size of a process
          MaxCalls,       \* bound on the number of system calls
          MaxLeft         \* bound on kalloc() calls in one system call

ASSUME VmConstants ==
  /\ Init1 \in Procs /\ MaxBytes < WRAP
  /\ \A v \in 0..MaxBytes \div PGSIZE : v < NPTE^3 - 2

Null == 0
Pages == 1..NPAGES
trampoline == NPAGES + 1  \* the page of trampoline.S, in the kernel's text
TRAMPOLINE == NPTE^3 - 1
TRAPFRAME == TRAMPOLINE - 1

VARIABLES
  free,         \* how often each page is in kmem.freelist
  mem,          \* contents of each page: bytes or page-table entries
  proc,         \* the process table
  got,          \* what the kernel has read from user memory last
  panicked,
  stale_freed,  \* allocproc() has freed the alarm_tf of a process that is gone
  calls         \* system calls so far

vars == <<free, mem, proc, got, panicked, stale_freed, calls>>

Bytes(c) == [i \in 0..PGSIZE - 1 |-> c]
NoPTE == [pa |-> Null, flags |-> {}]
NoEntries == [i \in 0..NPTE - 1 |-> NoPTE]
Unused == [state |-> "UNUSED", trapframe |-> Null, alarm_tf |-> Null,
           pagetable |-> Null, sz |-> 0]

\* kinit() has freed every page; no slot is in use.
Init ==
  /\ free = [a \in Pages |-> 1]
  /\ mem = [a \in Pages |-> Bytes(5)]
  /\ proc = [p \in Procs |-> Unused]
  /\ got = << >>
  /\ panicked = FALSE /\ stale_freed = FALSE
  /\ calls = 0

-----------------------------------------------------------------------------
(* kalloc.c                                                                *)

\* The memory during a system call.
Memory(left) ==
  [free |-> free, mem |-> mem, left |-> left, ret |-> 0, panic |-> FALSE, stale |-> FALSE]

Ret(m, r) == [m EXCEPT !.ret = r]
Panic(m) == [m EXCEPT !.panic = TRUE]

OutOfMemory(m) == m.left = 0 \/ \A a \in Pages : m.free[a] = 0
kalloc(m) == Min({a \in Pages : m.free[a] > 0})

\* The page that kalloc() returns, with contents c.
Take(m, c) == LET a == kalloc(m)
              IN  [m EXCEPT !.free[a] = @ - 1, !.left = @ - 1, !.mem[a] = c]

\* Filled with junk.
kfree(m, a) == [m EXCEPT !.free[a] = @ + 1, !.mem[a] = Bytes(5)]

-----------------------------------------------------------------------------
(* vm.c                                                                    *)

PGROUNDUP(sz) == (sz + PGSIZE - 1) \div PGSIZE
PX(level, v) == (v \div NPTE^level) % NPTE
UserPage == {"R", "W", "X", "U"}

\* The page-table page t with the entry for page v, or Null.
RECURSIVE walk(_, _, _, _, _)
walk(m, t, v, level, alloc) ==
  LET pte == m.mem[t][PX(level, v)]
      new == kalloc(m)
  IN  IF level = 0 THEN [m |-> m, t |-> t]
      ELSE IF "V" \in pte.flags THEN walk(m, pte.pa, v, level - 1, alloc)
      ELSE IF ~alloc \/ OutOfMemory(m) THEN [m |-> m, t |-> Null]
      ELSE walk([Take(m, NoEntries) EXCEPT
                   !.mem[t][PX(level, v)] = [pa |-> new, flags |-> {"V"}]],
                new, v, level - 1, alloc)

\* The entry for page v, invalid if there is none.
Entry(m, root, v) ==
  LET w == walk(m, root, v, 2, FALSE)
  IN  IF w.t = Null THEN NoPTE ELSE m.mem[w.t][PX(0, v)]

SetEntry(m, root, v, pte) ==
  [m EXCEPT !.mem[walk(m, root, v, 2, FALSE).t][PX(0, v)] = pte]

\* 0, or the page of physical memory at page v of the user.
walkaddr(m, root, v) ==
  IF v < NPTE^3 /\ {"V", "U"} \subseteq Entry(m, root, v).flags
    THEN Entry(m, root, v).pa ELSE Null

\* mappages() of one page.
mappages(m, root, v, pa, perm) ==
  LET w == walk(m, root, v, 2, TRUE)
  IN  IF w.t = Null THEN Ret(w.m, -1)
      ELSE IF "V" \in Entry(w.m, root, v).flags THEN Panic(w.m)
      ELSE Ret(SetEntry(w.m, root, v, [pa |-> pa, flags |-> perm \cup {"V"}]), 0)

RECURSIVE uvmunmap(_, _, _, _, _)
uvmunmap(m, root, v, n, do_free) ==
  LET pte == Entry(m, root, v)
      m1 == IF do_free THEN kfree(m, pte.pa) ELSE m
  IN  IF n = 0 THEN m
      ELSE IF "V" \notin pte.flags \/ pte.flags = {"V"} THEN Panic(m)
      ELSE uvmunmap(SetEntry(m1, root, v, NoPTE), root, v + 1, n - 1, do_free)

uvmdealloc(m, root, oldsz, newsz) ==
  IF newsz >= oldsz THEN Ret(m, oldsz)
  ELSE Ret(uvmunmap(m, root, PGROUNDUP(newsz), PGROUNDUP(oldsz) - PGROUNDUP(newsz), TRUE),
           newsz)

\* The loop of uvmalloc() at page v, for an old size of v0 pages.
RECURSIVE Extend(_, _, _, _, _)
Extend(m, root, v0, v, newsz) ==
  LET a == kalloc(m)
      m1 == mappages(Take(m, Bytes(0)), root, v, a, UserPage)
  IN  IF v * PGSIZE >= newsz THEN Ret(m, newsz)
      ELSE IF OutOfMemory(m)
        THEN Ret(uvmdealloc(m, root, v * PGSIZE, v0 * PGSIZE), 0)
      ELSE IF m1.ret # 0
        THEN Ret(uvmdealloc(kfree(m1, a), root, v * PGSIZE, v0 * PGSIZE), 0)
      ELSE Extend(m1, root, v0, v + 1, newsz)

uvmalloc(m, root, oldsz, newsz) ==
  IF newsz < oldsz THEN Ret(m, oldsz)
  ELSE Extend(m, root, PGROUNDUP(oldsz), PGROUNDUP(oldsz), newsz)

RECURSIVE freewalk(_, _)
freewalk(m, t) ==
  LET Valid == {i \in 0..NPTE - 1 : "V" \in m.mem[t][i].flags}
  IN  IF \E i \in Valid : m.mem[t][i].flags # {"V"} THEN Panic(m)
      ELSE kfree(FoldSet(LAMBDA i, x : freewalk(x, m.mem[t][i].pa), m, Valid), t)

uvmfree(m, root, sz) == freewalk(uvmunmap(m, root, 0, PGROUNDUP(sz), TRUE), root)

\* The loop of uvmcopy() at page v.
RECURSIVE CopyFrom(_, _, _, _, _)
CopyFrom(m, old, new, v, sz) ==
  LET pte == Entry(m, old, v)
      a == kalloc(m)
      m1 == mappages(Take(m, m.mem[pte.pa]), new, v, a, pte.flags \ {"V"})
  IN  IF v * PGSIZE >= sz THEN Ret(m, 0)
      ELSE IF "V" \notin pte.flags THEN Panic(m)
      ELSE IF OutOfMemory(m) THEN Ret(uvmunmap(m, new, 0, v, TRUE), -1)
      ELSE IF m1.ret # 0 THEN Ret(uvmunmap(kfree(m1, a), new, 0, v, TRUE), -1)
      ELSE CopyFrom(m1, old, new, v + 1, sz)

uvmcopy(m, old, new, sz) == CopyFrom(m, old, new, 0, sz)

\* Mutant: the guard page stays accessible to the user.
uvmclear_not(m, root, v) == m

uvmclear(m, root, v) ==
  SetEntry(m, root, v, [Entry(m, root, v) EXCEPT !.flags = @ \ {"U"}])

\* copyout() of len bytes c to address va, page by page.
RECURSIVE copyout(_, _, _, _, _)
copyout(m, root, va, c, len) ==
  LET v == va \div PGSIZE
      pa == walkaddr(m, root, v)
      n == Min({PGSIZE - (va % PGSIZE), len})
  IN  IF len = 0 THEN Ret(m, 0)
      ELSE IF pa = Null THEN Ret(m, -1)
      ELSE copyout([m EXCEPT !.mem[pa] = [i \in 0..PGSIZE - 1 |->
                      IF i - (va % PGSIZE) \in 0..n - 1 THEN c ELSE @[i]]],
                   root, (v + 1) * PGSIZE, c, len - n)

\* The len bytes that copyin() reads at address va, page by page, or <<-1>>.
RECURSIVE copyin(_, _, _, _)
copyin(m, root, va, len) ==
  LET v == va \div PGSIZE
      pa == walkaddr(m, root, v)
      n == Min({PGSIZE - (va % PGSIZE), len})
      rest == copyin(m, root, (v + 1) * PGSIZE, len - n)
  IN  IF len = 0 THEN << >>
      ELSE IF pa = Null \/ rest = <<-1>> THEN <<-1>>
      ELSE [i \in 1..n |-> m.mem[pa][(va % PGSIZE) + i - 1]] \o rest

\* The string of at most max bytes, its null byte included, at address va, or <<-1>>.
RECURSIVE copyinstr(_, _, _, _)
copyinstr(m, root, va, max) ==
  LET pa == walkaddr(m, root, va \div PGSIZE)
      c == m.mem[pa][va % PGSIZE]
      rest == copyinstr(m, root, va + 1, max - 1)
  IN  IF max = 0 \/ pa = Null THEN <<-1>>
      ELSE IF c = 0 THEN <<0>>
      ELSE IF rest = <<-1>> THEN <<-1>> ELSE <<c>> \o rest

-----------------------------------------------------------------------------
(* proc.c                                                                  *)

\* ret is the page table, or 0.
proc_pagetable(m, trapframe) ==
  LET root == kalloc(m)
      m1 == mappages(Take(m, NoEntries), root, TRAMPOLINE, trampoline, {"R", "X"})
      m2 == mappages(m1, root, TRAPFRAME, trapframe, {"R", "W"})
  IN  IF OutOfMemory(m) THEN Ret(m, Null)
      ELSE IF m1.ret # 0 THEN Ret(uvmfree(m1, root, 0), Null)
      ELSE IF m2.ret # 0
        THEN Ret(uvmfree(uvmunmap(m2, root, TRAMPOLINE, 1, FALSE), root, 0), Null)
      ELSE Ret(m2, root)

proc_freepagetable(m, root, sz) ==
  uvmfree(uvmunmap(uvmunmap(m, root, TRAMPOLINE, 1, FALSE), root, TRAPFRAME, 1, FALSE),
          root, sz)

kfreeIf(m, a) == IF a = Null THEN m ELSE kfree(m, a)

\* Mutant: the alarm_tf page is lost.
FreeprocMemory_noalarm(m, r) ==
  LET m1 == kfreeIf(m, r.trapframe)
  IN  IF r.pagetable = Null THEN m1 ELSE proc_freepagetable(m1, r.pagetable, r.sz)

\* The memory after freeproc() of a slot r, and the slot: alarm_tf is not cleared.
FreeprocMemory(m, r) ==
  LET m1 == kfreeIf(kfreeIf(m, r.trapframe), r.alarm_tf)
  IN  IF r.pagetable = Null THEN m1 ELSE proc_freepagetable(m1, r.pagetable, r.sz)
FreeprocSlot(r) == [Unused EXCEPT !.alarm_tf = r.alarm_tf]

\* freeproc() of a slot r, as the memory and the slot it leaves.
freeproc(m, r) == [m |-> Ret(FreeprocMemory(m, r), -1), r |-> FreeprocSlot(r)]

\* allocproc() of a free slot r, in three steps; m.ret = 0 if it succeeds.
alloc_pagetable(m, r) ==
  IF m.ret = Null THEN freeproc(m, r) ELSE [m |-> Ret(m, 0), r |-> [r EXCEPT !.pagetable = m.ret]]

alloc_alarm(m, r) ==
  IF OutOfMemory(m) THEN freeproc(m, [r EXCEPT !.alarm_tf = Null])
  ELSE alloc_pagetable(proc_pagetable(Take(m, Bytes(5)), r.trapframe),
                       [r EXCEPT !.alarm_tf = kalloc(m)])

allocproc(m, r) ==
  IF OutOfMemory(m) THEN freeproc([m EXCEPT !.stale = r.alarm_tf # Null], r)
  ELSE alloc_alarm(Take(m, Bytes(5)), [r EXCEPT !.trapframe = kalloc(m)])

\* The end of a system call: the memory is m, the slot of p is r.
Done(m, p, r) ==
  /\ free' = m.free /\ mem' = m.mem /\ panicked' = m.panic
  /\ stale_freed' = m.stale
  /\ proc' = [proc EXCEPT ![p] = r]
  /\ got' = << >> /\ calls' = calls + 1

\* p can make a system call.
Live(p) == proc[p].state = "LIVE" /\ ~panicked /\ ~stale_freed /\ calls < MaxCalls

\* The first process, with one page that holds initcode.
userinit(p) ==
  /\ p = Init1 /\ proc[p] = Unused
  /\ \E n \in {allocproc(Memory(MaxLeft), proc[p])} :
       Done(mappages(Take(n.m, Bytes(0)), n.r.pagetable, 0, kalloc(n.m), UserPage), p,
            [n.r EXCEPT !.state = "LIVE", !.sz = PGSIZE])

\* What call(left) ends with, whatever left may be.
Outcomes(call(_)) == {[call(left) EXCEPT !.m.left = 0] : left \in 0..MaxLeft}

\* fork() after uvmcopy(): m is the memory, r the slot of the child.
Forked(m, r, sz) ==
  IF m.ret # 0 THEN freeproc(m, r)
  ELSE [m |-> m, r |-> [r EXCEPT !.state = "LIVE", !.sz = sz]]

\* n is what allocproc() has returned, parent the slot of the parent.
fork_copy(n, parent) ==
  IF n.m.ret # 0 THEN n
  ELSE Forked(uvmcopy(n.m, parent.pagetable, n.r.pagetable, parent.sz), n.r, parent.sz)

\* The child gets the slot q.
fork(p, q) ==
  LET call(left) == fork_copy(allocproc(Memory(left), proc[q]), proc[p])
  IN  /\ Live(p) /\ proc[q].state = "UNUSED"
      /\ \E n \in Outcomes(call) : Done(n.m, q, n.r)

\* sbrk() of n bytes; sz is an unsigned 32-bit number.
growproc(p, n) ==
  LET sz == proc[p].sz
      newsz == (sz + n) % WRAP
      root == proc[p].pagetable
      slot(m) == [proc[p] EXCEPT !.sz = IF n > 0 /\ m.ret = 0 THEN @ ELSE m.ret]
      grown(m) == [m |-> m, r |-> slot(m)]
      call(left) == grown(IF n > 0 THEN uvmalloc(Memory(left), root, sz, newsz)
                          ELSE uvmdealloc(Memory(left), root, sz, newsz))
  IN  /\ Live(p) /\ sz + n <= MaxBytes
      /\ \E x \in Outcomes(call) : Done(x.m, p, x.r)

\* exit() keeps the memory for the parent's wait(); init does not exit.
exit(p) ==
  /\ Live(p) /\ p # Init1
  /\ proc' = [proc EXCEPT ![p].state = "ZOMBIE"]
  /\ got' = << >> /\ calls' = calls + 1
  /\ UNCHANGED <<free, mem, panicked, stale_freed>>

\* wait(addr) of p finds its child q: the status, of n bytes, goes to addr if that
\* is not 0.
wait(p, q, addr, n) ==
  /\ Live(p) /\ proc[q].state = "ZOMBIE"
  /\ \E m \in {IF addr = 0 THEN Memory(0)
               ELSE copyout(Memory(0), proc[p].pagetable, addr, 1, n)} :
       IF m.ret < 0 THEN Done(m, q, proc[q])
       ELSE Done(FreeprocMemory(m, proc[q]), q, FreeprocSlot(proc[q]))

\* A system call that copies n bytes to address va of its process.
either_copyout(p, va, n) ==
  /\ Live(p)
  /\ Done(copyout(Memory(0), proc[p].pagetable, va, 1, n), p, proc[p])

\* A system call that reads n bytes, or a string, at address va of its process.
either_copyin(p, va, n) ==
  /\ Live(p)
  /\ got' \in {copyin(Memory(0), proc[p].pagetable, va, n),
               copyinstr(Memory(0), proc[p].pagetable, va, n)}
  /\ calls' = calls + 1
  /\ UNCHANGED <<free, mem, proc, panicked, stale_freed>>

-----------------------------------------------------------------------------
(* exec.c                                                                  *)

\* loadseg() of n bytes of the file; it fails if the file ends before.
RECURSIVE loadseg(_, _, _, _, _)
loadseg(m, root, va, n, infile) ==
  IF n <= 0 THEN Ret(m, 0)
  ELSE IF walkaddr(m, root, va \div PGSIZE) = Null THEN Panic(m)
  ELSE IF infile < Min({n, PGSIZE}) THEN Ret(m, -1)
  ELSE loadseg(copyout(m, root, va, 2, Min({n, PGSIZE})), root, va + PGSIZE,
               n - PGSIZE, infile - PGSIZE)

\* The loop over the program headers: a header that cannot be read, one that is not
\* to be loaded, and segments.  The size so far is sz.
RECURSIVE Load(_, _, _, _)
Load(m, root, sz, segs) ==
  LET ph == Head(segs)
      end == (ph.vaddr + ph.memsz) % WRAP64
      m1 == uvmalloc(m, root, sz, end)
      m2 == loadseg(m1, root, ph.vaddr, ph.filesz, ph.infile)
  IN  IF segs = << >> THEN [m |-> Ret(m, 0), sz |-> sz]
      ELSE IF ph.type = "unreadable" THEN [m |-> Ret(m, -1), sz |-> sz]
      ELSE IF ph.type # "load" THEN Load(m, root, sz, Tail(segs))
      ELSE IF ph.memsz < ph.filesz \/ end < ph.vaddr THEN [m |-> Ret(m, -1), sz |-> sz]
      ELSE IF m1.ret = 0 THEN [m |-> Ret(m1, -1), sz |-> sz]
      ELSE IF ph.vaddr % PGSIZE # 0 THEN [m |-> Ret(m1, -1), sz |-> m1.ret]
      ELSE IF m2.ret # 0 THEN [m |-> Ret(m2, -1), sz |-> m1.ret]
      ELSE Load(m2, root, m1.ret, Tail(segs))

\* exec() works on the memory and the slot r of its process, like allocproc().  At
\* bad, the new image is freed.
bad(m, root, sz, r) == [m |-> Ret(proc_freepagetable(m, root, sz), -1), r |-> r]

\* The image is complete: it takes the place of the old one.
exec_commit(m, root, sz, r) ==
  IF m.ret # 0 THEN bad(m, root, sz, r)
  ELSE [m |-> Ret(proc_freepagetable(m, r.pagetable, r.sz), 0),
        r |-> [r EXCEPT !.pagetable = root, !.sz = sz]]

\* sp after n more bytes.
Push(sp, n) == (sp - n) - ((sp - n) % ALIGN)

\* The argument strings, argc of which are on the stack already, and the array of
\* pointers to them; an argument is the size of a string.
RECURSIVE PushArgs(_, _, _, _, _, _)
PushArgs(m, root, stackbase, sp, argc, args) ==
  LET n == IF args = << >> THEN (argc + 1) * PTRSIZE ELSE Head(args)
      m1 == copyout(m, root, Push(sp, n), IF args = << >> THEN 3 ELSE 1, n)
  IN  IF args # << >> /\ argc >= MAXARG THEN Ret(m, -1)
      ELSE IF Push(sp, n) < stackbase THEN Ret(m, -1)
      ELSE IF m1.ret < 0 \/ args = << >> THEN m1
      ELSE PushArgs(m1, root, stackbase, Push(sp, n), argc + 1, Tail(args))

\* m is the memory after uvmalloc() of the guard page and the stack beyond sz.
exec_stack(m, root, sz, r, args) ==
  IF m.ret = 0 THEN bad(m, root, sz, r)
  ELSE exec_commit(PushArgs(uvmclear(m, root, sz \div PGSIZE), root, m.ret - PGSIZE,
                            m.ret, 0, args), root, m.ret, r)

\* l is the result of the loop over the program headers.
exec_loaded(l, root, r, args) ==
  LET sz == PGROUNDUP(l.sz) * PGSIZE
  IN  IF l.m.ret # 0 THEN bad(l.m, root, l.sz, r)
      ELSE exec_stack(uvmalloc(l.m, root, sz, sz + 2 * PGSIZE), root, sz, r, args)

\* m is the memory after proc_pagetable().
exec_load(m, r, g) ==
  IF m.ret = Null THEN [m |-> Ret(m, -1), r |-> r]
  ELSE exec_loaded(Load(m, m.ret, 0, g.segs), m.ret, r, g.args)

\* exec() of a file with program headers g.segs and with arguments g.args.  The new
\* image is built beside the old one.
exec(m, r, g) == exec_load(proc_pagetable(m, r.trapframe), r, g)

\* The loop of sys_exec(): a page for each argument that it copies from user
\* memory.  A size of -1 stands for a pointer that fetchaddr() cannot read, 0 for a
\* string that fetchstr() cannot.
RECURSIVE FetchArgs(_, _, _)
FetchArgs(m, args, argv) ==
  LET more == Append(argv, kalloc(m))
  IN  IF Len(argv) >= MAXARG THEN [m |-> Ret(m, -1), argv |-> argv]
      ELSE IF args = << >> THEN [m |-> Ret(m, 0), argv |-> argv]
      ELSE IF Head(args) = -1 \/ OutOfMemory(m) THEN [m |-> Ret(m, -1), argv |-> argv]
      ELSE IF Head(args) = 0 THEN [m |-> Ret(Take(m, Bytes(5)), -1), argv |-> more]
      ELSE FetchArgs(Take(m, Bytes(1)), Tail(args), more)

\* n is the memory and the slot after exec(), or after a failure before it.
FreeArgs(n, argv) == [n EXCEPT !.m = FoldLeft(kfree, n.m, argv)]

\* f is what FetchArgs has returned.
exec_fetched(f, r, g) ==
  FreeArgs(IF f.m.ret # 0 THEN [m |-> f.m, r |-> r] ELSE exec(f.m, r, g), f.argv)

sys_exec(p, g) ==
  LET call(left) == exec_fetched(FetchArgs(Memory(left), g.args, << >>), proc[p], g)
  IN  Live(p) /\ \E n \in Outcomes(call) : Done(n.m, p, n.r)

-----------------------------------------------------------------------------
Next ==
  \E p \in Procs :
    \/ userinit(p)
    \/ \E q \in Procs : fork(p, q)
    \/ \E n \in Sbrks : growproc(p, n)
    \/ exit(p)
    \/ \E q \in Procs, c \in Copies \cup {<<0, 0>>} : wait(p, q, c[1], c[2])
    \/ \E c \in Copies : either_copyout(p, c[1], c[2])
    \/ \E c \in Copies : either_copyin(p, c[1], c[2])
    \/ \E g \in Programs : sys_exec(p, g)

Spec == Init /\ [][Next]_vars

-----------------------------------------------------------------------------
(* Properties                                                              *)

\* The page-table pages of p.
Tables(p) ==
  LET Below(T) == UNION {{mem[t][i].pa : i \in {j \in 0..NPTE - 1 : mem[t][j].flags # {}}}
                         : t \in T}
      root == {proc[p].pagetable}
  IN  root \cup Below(root) \cup Below(Below(root))

\* How many places of p hold the page a.
Holds(p, a) ==
  LET r == proc[p]
  IN  Cardinality({f \in {"trapframe", "alarm_tf"} : r[f] = a})
      + (IF r.pagetable = a THEN 1 ELSE 0)
      + Cardinality({x \in Tables(p) \X (0..NPTE - 1) : mem[x[1]][x[2]].pa = a})
      - (IF Entry(Memory(0), r.pagetable, TRAPFRAME).pa = a THEN 1 ELSE 0)

InUse == {p \in Procs : proc[p].state # "UNUSED"}

\* No call panics: no remap in mappages(), no unmapped page or non-leaf in
\* uvmunmap(), no leaf left for freewalk(), no hole in uvmcopy() or loadseg().
NoPanic == ~panicked

\* The page tables, the free list and the process table agree on who owns a page.
Owned ==
  /\ \A a \in Pages : free[a] + MapThenSumSet(LAMBDA p : Holds(p, a), InUse) = 1
  /\ \A p \in InUse :
       /\ Entry(Memory(0), proc[p].pagetable, TRAPFRAME).pa = proc[p].trapframe
       /\ Entry(Memory(0), proc[p].pagetable, TRAMPOLINE).pa = trampoline
       /\ {v \in 0..TRAMPOLINE : "V" \in Entry(Memory(0), proc[p].pagetable, v).flags}
            = 0..PGROUNDUP(proc[p].sz) - 1 \cup {TRAPFRAME, TRAMPOLINE}

\* No call panics, and every page of memory is in the free list exactly once, or in
\* exactly one place of one process: as its trapframe, its alarm_tf, a page-table
\* page or a page of user memory.  So no failure in the middle of fork(), exec() or
\* sbrk(), at any call of kalloc(), loses a page or frees one twice (kalloc.c, vm.c,
\* proc.c, exec.c, sysfile.c), with one exception: allocproc() whose first kalloc()
\* fails in a slot that has been in use before.
PagesOwned == stale_freed \/ (NoPanic /\ Owned)

\* The bytes of the user memory of p.
Contents(p) ==
  LET leaf(v) == mem[mem[mem[proc[p].pagetable][PX(2, v)].pa][PX(1, v)].pa][PX(0, v)]
      page == [v \in 0..PGROUNDUP(proc[p].sz) - 1 |->
                 IF "U" \in leaf(v).flags THEN mem[leaf(v).pa] ELSE Bytes(-1)]
  IN  [i \in 1..PGROUNDUP(proc[p].sz) * PGSIZE |-> page[(i - 1) \div PGSIZE][(i - 1) % PGSIZE]]

AS == INSTANCE AddressSpace WITH
        Guard <- -1,
        space <- [p \in Procs |-> IF proc[p].state = "LIVE" /\ ~stale_freed
                                    THEN Contents(p) ELSE << >>]

\* The page tables implement separate address spaces: fork() gives the child a
\* copy that it shares with nobody, sbrk() adds zeroes, exec() makes exactly the
\* image that the program headers describe, and a call that fails changes nothing.
\* What a page that has been freed twice holds is anybody's.
IsAddressSpace == AS!Init /\ [][stale_freed' \/ AS!Next]_(AS!vars)
=============================================================================
