-------------------------------- MODULE MCVm --------------------------------
(* Two processes; pages of four bytes and page-table pages of two entries. *)
EXTENDS Vm

Header(t, v, m, f, i) == [type |-> t, vaddr |-> v, memsz |-> m, filesz |-> f, infile |-> i]
Seg(v, m, f, i) == Header("load", v, m, f, i)
Other == Header("other", 1, 0, 1, 0)
Unreadable == Header("unreadable", 0, 0, 0, 0)

MCSbrks == {5, -3}

\* Within a page, across pages, and at addresses that are not mapped.
MCCopies == {<<3, 2>>, <<32, 1>>}

Program(segs, args) == [segs |-> segs, args |-> args]

\* Two that can be executed; headers and files that are no good; arguments that are
\* too long, too many, or not in user memory.
MCPrograms ==
  {Program(<<Seg(0, 4, 2, 2)>>, <<1>>),
   Program(<<Seg(0, 4, 4, 4), Other, Seg(4, 1, 0, 0)>>, <<2>>),
   Program(<<Seg(0, 1, 1, 1), Seg(4, 1, 2, 2)>>, << >>),
   Program(<<Seg(0, 1, 1, 1), Seg(124, 8, 0, 0)>>, << >>),
   Program(<<Seg(1, 1, 1, 1)>>, << >>),
   Program(<<Seg(0, 5, 5, 4)>>, << >>),
   Program(<<Seg(0, 1, 1, 1), Unreadable>>, << >>),
   Program(<< >>, <<4>>),
   Program(<< >>, <<1, 4>>),
   Program(<< >>, <<1, 1, 1>>),
   Program(<< >>, <<1, 0>>),
   Program(<< >>, <<1, -1>>)}
=============================================================================
