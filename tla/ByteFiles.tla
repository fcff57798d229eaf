----------------------------- MODULE ByteFiles -----------------------------
(***************************************************************************)
(* What the calls on files promise: a file is a sequence of bytes, an open *)
(* file a position in one, and descriptors that were duplicated or         *)
(* inherited share the position.  A file lives as long as it has a name or *)
(* is open.                                                                *)
(*                                                                         *)
(* A write() that meets an address that is not mapped may have replaced    *)
(* bytes after those it has accounted for; the bytes so torn have either   *)
(* value, until they are written again.                                    *)
(***************************************************************************)
EXTENDS Integers, Sequences, FiniteSetsExt

CONSTANTS Procs, Fds, OpenFiles, Inodes,
          Data,           \* what the processes write
          Lengths,        \* of reads
          MaxWrite,       \* most bytes that are written in one step
          MaxSize         \* largest size of a file

VARIABLES contents,       \* of the files
          names,          \* the files that have a name
          fds,            \* the open file of each descriptor, or 0
          open,           \* file, position and mode of each open file, or << >>
          todo,           \* descriptor and rest of the data of a write(), or << >>
          torn,           \* <<file, index>> of the bytes torn
          got             \* what the last call has read

vars == <<contents, names, fds, open, todo, torn, got>>

Users(t, f) == {<<p, d>> \in Procs \X Fds : t[p][d] = f}
IsOpen(t, o, i) == \E f \in OpenFiles : Users(t, f) # {} /\ o[f][1] = i

\* A file without a name that is not open has no contents.
Live(t, o, n, c) == [i \in Inodes |-> IF i \in n \/ IsOpen(t, o, i) THEN c[i] ELSE << >>]
Keep(t, o) == [f \in OpenFiles |-> IF Users(t, f) = {} THEN << >> ELSE o[f]]

Fresh(i) == i \notin names /\ contents[i] = << >> /\ ~IsOpen(fds, open, i)
TornIn(i) == {x \in torn : x[1] = i}

Open(p, d, f, i, mode) ==
  /\ fds[p][d] = 0 /\ fds' = [fds EXCEPT ![p][d] = f]
  /\ open[f] = << >> /\ open' = [open EXCEPT ![f] = <<i, 0, mode>>]
  /\ i \in names \/ Fresh(i)
  /\ names' = names \cup {i}
  /\ \/ UNCHANGED <<contents, torn>>
     \/ contents' = [contents EXCEPT ![i] = << >>] /\ torn' = torn \ TornIn(i)
  /\ got' = << >> /\ UNCHANGED todo

\* An open() that fails may have created a file.
Create(i) ==
  /\ UNCHANGED <<fds, open, todo>> /\ names' = names \cup {i}
  /\ Fresh(i)
  /\ got' = << >> /\ UNCHANGED <<contents, torn>>

\* The descriptors become t and the files with a name n.
Settle(t, n) ==
  /\ fds' = t /\ names' = n /\ UNCHANGED todo
  /\ open' = Keep(t, open)
  /\ contents' = Live(t, open, n, contents)
  /\ torn' = {x \in torn : contents'[x[1]] # << >>}
  /\ got' = << >>

Close(p, d) == fds[p][d] # 0 /\ Settle([fds EXCEPT ![p][d] = 0], names)
Unlink(i) == i \in names /\ Settle(fds, names \ {i})
Dup(p, d, e) == fds[p][e] = 0 /\ Settle([fds EXCEPT ![p][e] = fds[p][d]], names)
Fork(p, q) == (\A d \in Fds : fds[q][d] = 0) /\ Settle([fds EXCEPT ![q] = fds[p]], names)

\* The bytes of c with s at off.
Splice(c, off, s) ==
  [k \in 1..Max({Len(c), off + Len(s)}) |-> IF k - off \in DOMAIN s THEN s[k - off] ELSE c[k]]

Call(p, d, s) ==
  /\ todo[p] = << >> /\ todo' = [todo EXCEPT ![p] = <<d, s>>]
  /\ fds[p][d] # 0 /\ open[fds[p][d]][3] # "r"
  /\ got' = << >>
  /\ UNCHANGED <<contents, names, fds, open, torn>>

\* The next n bytes go to the position, which moves; a byte that was torn may
\* become permanent.  If not all of them can be written the call fails.
Write(p, n, fails) ==
  LET d == todo[p][1]
      f == fds[p][d]
      i == open[f][1]
      off == open[f][2]
      s == todo[p][2]
      c == Splice(contents[i], off, SubSeq(s, 1, n))
      New == {<<i, k>> : k \in off + 1 .. off + n}
      Rest == {<<i, k>> : k \in off + n + 1 .. Min({off + MaxWrite, Len(contents[i])})}
  IN  /\ todo' = [todo EXCEPT ![p] = IF fails \/ n = Len(s) THEN << >>
                                    ELSE <<d, SubSeq(s, n + 1, Len(s))>>]
      /\ open' = [open EXCEPT ![f][2] = off + n]
      /\ got' = << >> /\ UNCHANGED <<names, fds>>
      /\ off <= Len(contents[i]) /\ Len(c) <= MaxSize
      /\ DOMAIN contents'[i] = DOMAIN c
      /\ \A k \in DOMAIN c : contents'[i][k] = c[k] \/ <<i, k>> \in torn \ New
      /\ \A j \in Inodes \ {i} : contents'[j] = contents[j]
      /\ torn' \subseteq (torn \ New) \cup (IF fails THEN Rest ELSE {})

\* The bytes from the position on, up to the end of the file.
Read(p, d, n) ==
  LET f == fds[p][d]
      i == open[f][1]
      off == open[f][2]
      end == Min({off + n, Len(contents[i])})
  IN  /\ f # 0 /\ UNCHANGED <<fds, todo>> /\ open[f][3] # "w"
      /\ Len(got') = Max({end - off, 0})
      /\ \A k \in DOMAIN got' : got'[k] = contents[i][off + k] \/ <<i, off + k>> \in torn
      /\ open' = [open EXCEPT ![f][2] = off + Len(got')]
      /\ UNCHANGED <<contents, names, torn>>

\* The torn bytes of a buffer are forgotten.
Forget ==
  /\ torn' \subseteq torn
  /\ UNCHANGED <<contents, names, fds, open, todo, got>>

\* A call fails.
Fail ==
  /\ got' = << >> /\ todo' \in {todo} \cup {[todo EXCEPT ![p] = << >>] : p \in Procs}
  /\ UNCHANGED <<contents, names, fds, open, torn>>

Init ==
  /\ names \subseteq Inodes /\ \A i \in Inodes \ names : contents[i] = << >>
  /\ fds = [p \in Procs |-> [d \in Fds |-> 0]]
  /\ open = [f \in OpenFiles |-> << >>]
  /\ todo = [p \in Procs |-> << >>]
  /\ torn = {} /\ got = << >>

Next ==
  \/ \E p \in Procs, d \in Fds :
       \/ \E f \in OpenFiles, i \in Inodes, mode \in {"r", "w", "rw"} : Open(p, d, f, i, mode)
       \/ Close(p, d)
       \/ \E e \in Fds : Dup(p, d, e)
       \/ \E s \in Data : Call(p, d, s)
       \/ \E n \in Lengths : Read(p, d, n)
  \/ \E p \in Procs : todo[p] # << >> /\
       \/ Write(p, Min({MaxWrite, Len(todo[p][2])}), FALSE)
       \/ \E n \in 0..MaxWrite - 1 : n < Len(todo[p][2]) /\ Write(p, n, TRUE)
  \/ \E i \in Inodes : Unlink(i) \/ Create(i)
  \/ \E p, q \in Procs : Fork(p, q)
  \/ Forget \/ Fail

Spec == Init /\ [][Next]_vars
=============================================================================
