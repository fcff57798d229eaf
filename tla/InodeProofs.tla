---------------------------- MODULE InodeProofs ----------------------------
(***************************************************************************)
(* Proofs about module Inode: the reference counts of the inode table are  *)
(* exact, iput() never sleeps with itable.lock held, and the copies in the *)
(* table agree with the disk.                                              *)
(***************************************************************************)
EXTENDS Inode, FiniteSetTheorems, TLAPS

-----------------------------------------------------------------------------
(* The inductive invariant                                                 *)

Putting == {"iput", "itrunc", "iput_unlock", "iput_drop"}

\* The labels at which ip is not set, nxt is set, and old is or may be set.
NoIp == {"idle", "existing", "hasexisting", "linked", "bad", "hasold"}
HasNxt == {"child", "haschild", "fresh", "hasfresh", "existing", "hasexisting"}
HasOld == {"nolink", "linked", "bad", "hasold"}
Walks == {"walk", "walking", "parent", "inparent"}
Labels == NoIp \cup HasNxt \cup HasOld \cup Walks
            \cup {"found", "have", "nounlink", "unlinked"}

\* The labels at which the inode that ip, nxt points to is locked.
LocksIp == {"walking", "have", "inparent", "child", "haschild", "fresh", "hasfresh",
            "nolink", "nounlink", "unlinked"}
LocksNxt == {"haschild", "hasfresh", "hasexisting"}

Dinodes == [type : Types, nlink : Int]

Domains ==
  /\ DOMAIN pc = Procs /\ DOMAIN cont = Procs /\ DOMAIN call = Procs
  /\ DOMAIN rest = Procs /\ DOMAIN ip = Procs /\ DOMAIN nxt = Procs
  /\ DOMAIN old = Procs /\ DOMAIN put = Procs /\ DOMAIN file = Procs
  /\ DOMAIN cwd = Procs
  /\ DOMAIN dinode = Inums /\ DOMAIN entries = Inums /\ DOMAIN ref = Inums
  /\ DOMAIN incore = Inums /\ DOMAIN lock = Inums

\* Where the call is, or goes on after iput().
at(p) == IF pc[p] \in Putting THEN cont[p] ELSE pc[p]

\* What a process points to is decided by where it is.
Shape(p) ==
  /\ pc[p] \in Labels \cup Putting /\ at(p) \in Labels
  /\ IF at(p) \in NoIp THEN ip[p] = Nil ELSE ip[p] \in Inums
  /\ IF at(p) \in HasNxt THEN nxt[p] \in Inums ELSE nxt[p] = Nil
  /\ IF pc[p] \in Putting THEN put[p] \in Inums ELSE put[p] = Nil
  /\ \/ old[p] = Nil /\ at(p) \notin HasOld
     \/ old[p] \in Inums /\ at(p) \in HasOld \cup Walks /\ call[p].op = "link"
  /\ file[p] \in Inums \cup {Nil} /\ cwd[p] \in Inums
  /\ at(p) # "idle" => /\ call[p] \in CallRecords
                       /\ call[p].op \in {"open", "create"} => file[p] = Nil
  /\ rest[p] \in Seq(AllNames)
  /\ at(p) \in {"walking", "parent", "inparent"} => rest[p] # << >>
  /\ at(p) \in {"parent", "inparent"} => nameiparent(p)

\* The inodes that a process has locked.
Holds(p, i) ==
  \/ ip[p] = i /\ at(p) \in LocksIp
  \/ nxt[p] = i /\ at(p) \in LocksNxt
  \/ old[p] = i /\ at(p) = "hasold"

Frees(p, i) == put[p] = i /\ pc[p] \in {"itrunc", "iput_unlock"}

\* A process has an inode locked exactly when it Holds it or Frees it, and never
\* for two reasons at once; what is locked has a valid copy.
Locks(p) ==
  /\ \A i \in Inums : lock[i] = p <=> Holds(p, i) \/ Frees(p, i)
  /\ \A i \in Inums : ~(Holds(p, i) /\ Frees(p, i))
  /\ at(p) \in {"haschild", "hasfresh"} => ip[p] # nxt[p]

\* A valid copy is what is on disk, and not free, but for the inode that a
\* process has just freed.
Table(i) ==
  /\ dinode[i] \in Dinodes /\ entries[i] \in [AllNames -> Inums \cup {0}]
  /\ lock[i] \in Procs \cup {Nil} /\ incore[i] \in Dinodes \cup {Nil}
  /\ lock[i] # Nil => incore[i] # Nil
  /\ \/ incore[i] = Nil
     \/ lock[i] # Nil /\ pc[lock[i]] = "iput_unlock" /\ put[lock[i]] = i
     \/ incore[i] = dinode[i] /\ incore[i].type # "free"

Pointers(i) ==
  Holders(ip, i) + Holders(nxt, i) + Holders(old, i)
    + Holders(put, i) + Holders(file, i) + Holders(cwd, i)

IInv ==
  /\ Domains
  /\ \A p \in Procs : Shape(p)
  /\ \A p \in Procs : Locks(p)
  /\ \A i \in Inums : Table(i)
  /\ \A i \in Inums : ref[i] = Pointers(i)

-----------------------------------------------------------------------------
(* Counting                                                                *)

One(x, i) == IF x = i THEN 1 ELSE 0

\* What a change of one pointer does to the number of pointers.
LEMMA CountMove ==
  ASSUME NEW p \in Procs, NEW i, NEW f, NEW g, \A q \in Procs \ {p} : g[q] = f[q]
  PROVE  /\ Holders(f, i) \in Nat /\ Holders(g, i) \in Nat
         /\ Holders(g, i) = Holders(f, i) + One(g[p], i) - One(f[p], i)
<1> DEFINE S == {q \in Procs \ {p} : f[q] = i}
           F == {q \in Procs : f[q] = i}
           G == {q \in Procs : g[q] = i}
<1>1. IsFiniteSet(S) /\ IsFiniteSet(F) /\ IsFiniteSet(G)
  BY InodeConstants, FS_Subset, Zenon
<1>2. Cardinality(S) \in Nat /\ Cardinality(F) \in Nat /\ Cardinality(G) \in Nat
  BY <1>1, FS_CardinalityType, Zenon
<1>3. Cardinality(S \cup {p}) = Cardinality(S) + 1
  BY <1>1, FS_AddElement, Zenon
<1>4. F = IF f[p] = i THEN S \cup {p} ELSE S
  OBVIOUS
<1>5. G = IF g[p] = i THEN S \cup {p} ELSE S
  OBVIOUS
<1>6. Holders(f, i) = Cardinality(F) /\ Holders(g, i) = Cardinality(G)
  BY Zenon DEF Holders
<1> HIDE DEF S, F, G
<1> QED BY <1>2, <1>3, <1>4, <1>5, <1>6 DEF One

\* Only process p has moved.
Others(p) ==
  \A q \in Procs \ {p} :
    /\ pc'[q] = pc[q] /\ cont'[q] = cont[q] /\ call'[q] = call[q] /\ rest'[q] = rest[q]
    /\ ip'[q] = ip[q] /\ nxt'[q] = nxt[q] /\ old'[q] = old[q] /\ put'[q] = put[q]
    /\ file'[q] = file[q] /\ cwd'[q] = cwd[q]

Sum(a, b, c, d, e, f, i) ==
  One(a, i) + One(b, i) + One(c, i) + One(d, i) + One(e, i) + One(f, i)

Own(p, i) == Sum(ip[p], nxt[p], old[p], put[p], file[p], cwd[p], i)

\* The counts stay exact if ref changes as the pointers of the process that moves.
LEMMA CountStep ==
  ASSUME NEW p \in Procs, Others(p), \A i \in Inums : ref[i] = Pointers(i),
         \A i \in Inums : ref'[i] = ref[i] + Own(p, i)' - Own(p, i)
  PROVE  \A i \in Inums : ref'[i] = Pointers(i)'
<1> TAKE i \in Inums
<1>1. /\ Holders(ip, i) \in Nat /\ Holders(ip', i) \in Nat
      /\ Holders(ip', i) = Holders(ip, i) + One(ip'[p], i) - One(ip[p], i)
  <2>1. \A q \in Procs \ {p} : ip'[q] = ip[q] BY Zenon DEF Others
  <2> QED BY <2>1, CountMove, Zenon
<1>2. /\ Holders(nxt, i) \in Nat /\ Holders(nxt', i) \in Nat
      /\ Holders(nxt', i) = Holders(nxt, i) + One(nxt'[p], i) - One(nxt[p], i)
  <2>1. \A q \in Procs \ {p} : nxt'[q] = nxt[q] BY Zenon DEF Others
  <2> QED BY <2>1, CountMove, Zenon
<1>3. /\ Holders(old, i) \in Nat /\ Holders(old', i) \in Nat
      /\ Holders(old', i) = Holders(old, i) + One(old'[p], i) - One(old[p], i)
  <2>1. \A q \in Procs \ {p} : old'[q] = old[q] BY Zenon DEF Others
  <2> QED BY <2>1, CountMove, Zenon
<1>4. /\ Holders(put, i) \in Nat /\ Holders(put', i) \in Nat
      /\ Holders(put', i) = Holders(put, i) + One(put'[p], i) - One(put[p], i)
  <2>1. \A q \in Procs \ {p} : put'[q] = put[q] BY Zenon DEF Others
  <2> QED BY <2>1, CountMove, Zenon
<1>5. /\ Holders(file, i) \in Nat /\ Holders(file', i) \in Nat
      /\ Holders(file', i) = Holders(file, i) + One(file'[p], i) - One(file[p], i)
  <2>1. \A q \in Procs \ {p} : file'[q] = file[q] BY Zenon DEF Others
  <2> QED BY <2>1, CountMove, Zenon
<1>6. /\ Holders(cwd, i) \in Nat /\ Holders(cwd', i) \in Nat
      /\ Holders(cwd', i) = Holders(cwd, i) + One(cwd'[p], i) - One(cwd[p], i)
  <2>1. \A q \in Procs \ {p} : cwd'[q] = cwd[q] BY Zenon DEF Others
  <2> QED BY <2>1, CountMove, Zenon
<1>7. \A x : One(x, i) \in Nat
  BY DEF One
<1>8. ref[i] = Pointers(i) /\ ref'[i] = ref[i] + Own(p, i)' - Own(p, i)
  BY Zenon
<1>9. Pointers(i)' = Holders(ip', i) + Holders(nxt', i) + Holders(old', i)
        + Holders(put', i) + Holders(file', i) + Holders(cwd', i)
  BY DEF Pointers, Holders
<1> HIDE DEF Holders, One
<1> QED BY <1>1, <1>2, <1>3, <1>4, <1>5, <1>6, <1>7, <1>8, <1>9 DEF Pointers, Own, Sum

\* A step of one process.
LEMMA Move ==
  ASSUME IInv, Domains', NEW p \in Procs, Others(p), Shape(p)', Locks(p)',
         \A i \in Inums : \/ lock'[i] = lock[i]
                          \/ lock[i] \in {p, Nil} /\ lock'[i] \in {p, Nil},
         \A i \in Inums : ref'[i] = ref[i] + Own(p, i)' - Own(p, i),
         \A i \in Inums : Table(i)'
  PROVE  IInv'
<1>1. \A i \in Inums : ref'[i] = Pointers(i)'
  BY CountStep, Zenon DEF IInv
<1>2. \A q \in Procs : Shape(q)'
  <2> TAKE q \in Procs
  <2>1. CASE q = p BY <2>1, Zenon
  <2>2. CASE q # p
    <3>1. Shape(q) BY Zenon DEF IInv
    <3> QED BY <2>2, <3>1, Zenon DEF Shape, at, Others, nameiparent, Creates
  <2> QED BY <2>1, <2>2
<1>3. \A q \in Procs : Locks(q)'
  <2> TAKE q \in Procs
  <2>1. CASE q = p BY <2>1, Zenon
  <2>2. CASE q # p
    <3>1. Locks(q) /\ q # Nil BY InodeConstants, Zenon DEF IInv
    <3>2. \A i \in Inums : lock'[i] = q <=> lock[i] = q
      BY <2>2, <3>1, Zenon
    <3>3. at(q)' = at(q) /\ ip'[q] = ip[q] /\ nxt'[q] = nxt[q]
      BY <2>2, Zenon DEF Others, at
    <3>4. \A i \in Inums : /\ (Holds(q, i)' <=> Holds(q, i))
                           /\ (Frees(q, i)' <=> Frees(q, i))
      BY <2>2, <3>3, Zenon DEF Holds, Frees, Others
    <3> QED BY <3>1, <3>2, <3>3, <3>4, Zenon DEF Locks
  <2> QED BY <2>1, <2>2
<1> QED BY <1>1, <1>2, <1>3, Zenon DEF IInv

\* A reference count is a number.
LEMMA RefType ==
  ASSUME IInv, NEW i \in Inums
  PROVE  ref[i] \in Nat
<1>1. \A f : Holders(f, i) \in Nat
  BY InodeConstants, FS_Subset, FS_CardinalityType, Zenon DEF Holders
<1> QED BY <1>1 DEF IInv, Pointers

\* Two processes that point to an inode make two pointers.
LEMMA CountTwo ==
  ASSUME NEW f, NEW i \in Inums, NEW p \in Procs, f[p] = i
  PROVE  /\ Holders(f, i) \in Nat /\ Holders(f, i) > 0
         /\ \A q \in Procs \ {p} : f[q] = i => Holders(f, i) > 1
<1> DEFINE g == [x \in Procs |-> IF x = p THEN Nil ELSE f[x]]
<1>1. \A x \in Procs \ {p} : g[x] = f[x] BY Zenon
<1>2. g[p] = Nil /\ Nil # i BY InodeConstants, Zenon
<1>3. /\ Holders(f, i) \in Nat /\ Holders(g, i) \in Nat
      /\ Holders(g, i) = Holders(f, i) + One(g[p], i) - One(f[p], i)
  BY <1>1, CountMove
<1>4. One(g[p], i) = 0 /\ One(f[p], i) = 1
  BY <1>2, Zenon DEF One
<1>5. ASSUME NEW q \in Procs \ {p}, f[q] = i PROVE Holders(g, i) > 0
  <2> DEFINE h == [x \in Procs |-> IF x = q THEN Nil ELSE g[x]]
  <2>1. \A x \in Procs \ {q} : h[x] = g[x] BY Zenon
  <2>2. h[q] = Nil /\ g[q] = i /\ Nil # i BY <1>5, InodeConstants, Zenon
  <2>3. /\ Holders(h, i) \in Nat
        /\ Holders(h, i) = Holders(g, i) + One(h[q], i) - One(g[q], i)
    BY <2>1, CountMove
  <2>4. One(h[q], i) = 0 /\ One(g[q], i) = 1
    BY <2>2, Zenon DEF One
  <2> HIDE DEF g, h
  <2> QED BY <1>3, <2>3, <2>4
<1> HIDE DEF g
<1> QED BY <1>3, <1>4, <1>5

\* The process that drops the last pointer finds the inode unlocked.
LEMMA Alone ==
  ASSUME IInv, NEW p \in Procs, pc[p] \in {"iput", "iput_drop"}, ref[put[p]] = 1
  PROVE  lock[put[p]] = Nil
<1> DEFINE i == put[p]
<1>1. i \in Inums
  BY Zenon DEF IInv, Shape, Putting
<1>2. SUFFICES ASSUME NEW q \in Procs, lock[i] = q PROVE FALSE
  BY <1>1, Zenon DEF IInv, Table
<1>3. Holds(q, i) \/ Frees(q, i)
  BY <1>1, <1>2, Zenon DEF IInv, Locks
<1>4. /\ Holders(ip, i) \in Nat /\ Holders(nxt, i) \in Nat /\ Holders(old, i) \in Nat
      /\ Holders(put, i) \in Nat /\ Holders(file, i) \in Nat /\ Holders(cwd, i) \in Nat
  BY CountMove, Zenon
<1>5. Holders(put, i) > 0 /\ (Frees(q, i) => Holders(put, i) > 1)
  <2>1. Frees(q, i) => q \in Procs \ {p} /\ put[q] = i
    BY Zenon DEF Frees
  <2> QED BY <1>1, <2>1, CountTwo, Zenon
<1>6. Holds(q, i) => Holders(ip, i) > 0 \/ Holders(nxt, i) > 0 \/ Holders(old, i) > 0
  BY <1>1, CountTwo, Zenon DEF Holds
<1>7. Pointers(i) = 1
  BY <1>1, Zenon DEF IInv
<1> QED BY <1>3, <1>4, <1>5, <1>6, <1>7 DEF Pointers

\* Nil is no inode number, process or dinode.
LEMMA NilNot == Nil \notin Inums /\ Nil \notin Procs /\ Nil \notin Dinodes
  BY InodeConstants, Zenon DEF Dinodes

\* What a step may do to inode i: leave it alone, write a copy through to the disk,
\* or allocate an inode that is free.
Writes(i) ==
  \/ incore'[i] = incore[i] /\ dinode'[i] = dinode[i]
  \/ incore'[i] = dinode'[i] /\ incore'[i] \in Dinodes /\ incore'[i].type # "free"
  \/ incore'[i] = incore[i] /\ dinode[i].type = "free" /\ dinode'[i] \in Dinodes

\* A step that takes no lock, is not at the end of iput() and writes through keeps
\* the copies in the table what they are.
LEMMA TableStep ==
  ASSUME IInv, NEW p \in Procs, Others(p), pc[p] # "iput_unlock",
         \A i \in Inums : entries'[i] \in [AllNames -> Inums \cup {0}],
         \A i \in Inums : \/ lock'[i] = lock[i]
                          \/ lock[i] = p /\ lock'[i] = Nil,
         \A i \in Inums : Writes(i)
  PROVE  \A i \in Inums : Table(i)'
<1> TAKE i \in Inums
<1>1. Table(i) /\ Writes(i) /\ p # Nil /\ Nil \notin Dinodes
  BY NilNot, Zenon DEF IInv
<1>2. /\ entries'[i] \in [AllNames -> Inums \cup {0}]
      /\ lock'[i] = lock[i] \/ (lock[i] = p /\ lock'[i] = Nil)
  BY Zenon
<1>3. lock'[i] \in Procs \cup {Nil} /\ (lock'[i] # Nil => incore'[i] # Nil)
  BY <1>1, <1>2, Zenon DEF Table, Writes
<1>4. dinode'[i] \in Dinodes /\ incore'[i] \in Dinodes \cup {Nil}
  BY <1>1, Zenon DEF Table, Writes
<1>5. ASSUME lock[i] # Nil, pc[lock[i]] = "iput_unlock", put[lock[i]] = i
      PROVE  lock'[i] = lock[i] /\ pc'[lock[i]] = "iput_unlock" /\ put'[lock[i]] = i
  BY <1>1, <1>2, <1>5, Zenon DEF Table, Others
<1>6. \/ incore'[i] = Nil
      \/ lock'[i] # Nil /\ pc'[lock'[i]] = "iput_unlock" /\ put'[lock'[i]] = i
      \/ incore'[i] = dinode'[i] /\ incore'[i].type # "free"
  BY <1>1, <1>5, Zenon DEF Table, Writes
<1> QED BY <1>2, <1>3, <1>4, <1>6, Zenon DEF Table

\* A step of a process that is not in iput(), takes no lock and writes only to
\* inodes that it has locked.
LEMMA Act ==
  ASSUME IInv, NEW p \in Procs, Others(p), Domains', Shape(p)',
         pc[p] \in Labels, pc'[p] \in Labels \cup {"iput"},
         at(p)' \notin {"haschild", "hasfresh"},
         \A i \in Inums : Holds(p, i)' => Holds(p, i),
         \A i \in Inums :
           lock'[i] = IF Holds(p, i) /\ ~Holds(p, i)' THEN Nil ELSE lock[i],
         \A i \in Inums : ref'[i] = ref[i] + Own(p, i)' - Own(p, i),
         \A i \in Inums : entries'[i] \in [AllNames -> Inums \cup {0}],
         \A i \in Inums : Writes(i)
  PROVE  IInv'
<1>1. Locks(p) /\ p # Nil /\ pc[p] \notin {"itrunc", "iput_unlock"}
  BY NilNot, Zenon DEF IInv, Labels, NoIp, HasNxt, HasOld, Walks
<1>2. pc'[p] \notin {"itrunc", "iput_unlock"}
  BY Zenon DEF Labels, NoIp, HasNxt, HasOld, Walks
<1>3. \A i \in Inums : ~Frees(p, i) /\ ~Frees(p, i)' /\ (lock[i] = p <=> Holds(p, i))
  BY <1>1, <1>2, Zenon DEF Frees, Locks
<1>4. Locks(p)'
  BY <1>1, <1>3, Zenon DEF Locks
<1>5. \A i \in Inums : lock'[i] = lock[i] \/ (lock[i] = p /\ lock'[i] = Nil)
  <2> TAKE i \in Inums
  <2>1. lock'[i] = IF Holds(p, i) /\ ~Holds(p, i)' THEN Nil ELSE lock[i] BY Zenon
  <2> QED BY <1>3, <2>1, Zenon
<1>6. \A i \in Inums : Table(i)'
  BY <1>1, <1>5, TableStep, Zenon
<1> QED BY <1>4, <1>5, <1>6, Move, Zenon

\* A process that is not in iput().
LEMMA Calling ==
  ASSUME IInv, NEW p \in Procs, pc[p] \in Labels
  PROVE  /\ Shape(p) /\ Locks(p) /\ Domains /\ p # Nil
         /\ pc[p] \notin Putting /\ at(p) = pc[p] /\ put[p] = Nil
<1>1. pc[p] \notin Putting
  BY Zenon DEF Putting, Labels, NoIp, HasNxt, HasOld, Walks
<1> QED BY <1>1, NilNot, Zenon DEF IInv, at, Shape

\* The copy of an inode that a process has locked.
LEMMA Valid ==
  ASSUME IInv, NEW p \in Procs, pc[p] \in Labels, NEW j \in Inums, Holds(p, j)
  PROVE  incore[j] \in Dinodes /\ incore[j] = dinode[j] /\ incore[j].type # "free"
<1>1. Locks(p) /\ p # Nil /\ pc[p] \notin Putting
  BY Calling, Zenon
<1>2. lock[j] = p BY <1>1, Zenon DEF Locks
<1>3. Table(j) BY Zenon DEF IInv
<1> QED BY <1>1, <1>2, <1>3, Zenon DEF Table, Putting

\* A dinode with another link count.
LEMMA NlinkSet ==
  ASSUME NEW r \in Dinodes, NEW n \in Int
  PROVE  /\ [r EXCEPT !.nlink = n] \in Dinodes
         /\ [r EXCEPT !.nlink = n].type = r.type
  BY DEF Dinodes

\* A step that writes neither to the disk nor to the copies.
LEMMA Unwritten ==
  ASSUME IInv, UNCHANGED <<diskVars, incore>>
  PROVE  /\ \A i \in Inums : entries'[i] \in [AllNames -> Inums \cup {0}]
         /\ \A i \in Inums : Writes(i)
         /\ DOMAIN dinode' = Inums /\ DOMAIN entries' = Inums /\ DOMAIN incore' = Inums
  BY Zenon DEF IInv, Table, Writes, diskVars, Domains

\* A change of the link count of a locked inode.
LEMMA Updated ==
  ASSUME IInv, NEW p \in Procs, pc[p] \in Labels, NEW j \in Inums, Holds(p, j),
         NEW n \in Int, Update(j, [incore[j] EXCEPT !.nlink = n])
  PROVE  /\ \A i \in Inums : Writes(i)
         /\ DOMAIN dinode' = Inums /\ DOMAIN incore' = Inums
<1> DEFINE d == [incore[j] EXCEPT !.nlink = n]
<1>1. d \in Dinodes /\ d.type # "free"
  BY Valid, NlinkSet, Zenon
<1>2. incore' = [incore EXCEPT ![j] = d] /\ dinode' = [dinode EXCEPT ![j] = d]
  BY Zenon DEF Update
<1>3. DOMAIN incore = Inums /\ DOMAIN dinode = Inums
  BY Zenon DEF IInv, Domains
<1> HIDE DEF d
<1> QED BY <1>1, <1>2, <1>3, Zenon DEF Writes

\* dirlookup() of the next element of the path finds an inode or nothing.
LEMMA Lookup ==
  ASSUME IInv, NEW p \in Procs, pc[p] \in {"walking", "inparent"}
  PROVE  /\ ip[p] \in Inums /\ dirlookup(ip[p], Head(rest[p])) \in Inums \cup {0}
         /\ Tail(rest[p]) \in Seq(AllNames)
<1>1. pc[p] \in Labels BY Zenon DEF Labels, Walks
<1>2. Shape(p) /\ at(p) \in {"walking", "inparent"} BY <1>1, Calling, Zenon
<1>3. ip[p] \in Inums /\ rest[p] \in Seq(AllNames) /\ rest[p] # << >>
  BY <1>2, Zenon DEF Shape, NoIp
<1>4. Head(rest[p]) \in AllNames /\ Tail(rest[p]) \in Seq(AllNames) BY <1>3
<1>5. entries[ip[p]] \in [AllNames -> Inums \cup {0}] BY <1>3, Zenon DEF IInv, Table
<1> QED BY <1>3, <1>4, <1>5, Zenon DEF dirlookup

\* iget() and idup().
LEMMA Gains ==
  ASSUME IInv, NEW n \in Inums, ref' = [ref EXCEPT ![n] = @ + 1]
  PROVE  DOMAIN ref' = Inums /\ \A i \in Inums : ref'[i] = ref[i] + One(n, i)
<1>1. DOMAIN ref = Inums BY Zenon DEF IInv, Domains
<1> QED BY <1>1, RefType DEF One

\* One pointer counts 0 or 1.
LEMMA OneType ==
  ASSUME NEW i \in Inums
  PROVE  One(Nil, i) = 0 /\ \A x : One(x, i) \in Nat
  BY NilNot DEF One

\* A step leaves the pointers of a process and ref alone, or adds one to both.
LEMMA Balance ==
  ASSUME IInv, NEW p \in Procs, NEW i \in Inums
  PROVE  /\ ref'[i] = ref[i] /\ Own(p, i)' = Own(p, i)
              => ref'[i] = ref[i] + Own(p, i)' - Own(p, i)
         /\ \A x : ref'[i] = ref[i] + One(x, i) /\ Own(p, i)' = Own(p, i) + One(x, i)
              => ref'[i] = ref[i] + Own(p, i)' - Own(p, i)
<1>1. Own(p, i) \in Nat /\ ref[i] \in Nat /\ \A x : One(x, i) \in Nat
  BY RefType DEF Own, Sum, One
<1> QED BY <1>1

\* A directory entry is written or erased.
LEMMA NameSet ==
  ASSUME IInv, NEW d, NEW n, NEW v \in Inums \cup {0},
         entries' = [entries EXCEPT ![d][n] = v], NEW i \in Inums
  PROVE  entries'[i] \in [AllNames -> Inums \cup {0}]
<1>1. entries[i] \in [AllNames -> Inums \cup {0}] /\ DOMAIN entries = Inums
  BY Zenon DEF IInv, Table, Domains
<1>2. entries'[i] = IF i = d THEN [entries[i] EXCEPT ![n] = v] ELSE entries[i]
  BY <1>1, Zenon
<1> QED BY <1>1, <1>2, Zenon

\* The empty path is a path.
LEMMA EmptyPath == << >> \in Seq(AllNames)
  OBVIOUS

\* The paths of a call are paths.
LEMMA CallType ==
  ASSUME NEW c \in CallRecords
  PROVE  c.path \in Seq(AllNames) /\ c.new \in Seq(AllNames)
<1>1. Names \cup {"."} \cup {".."} = AllNames BY Zenon DEF AllNames
<1> QED BY <1>1 DEF CallRecords

\* A process between two calls.
LEMMA Idle ==
  ASSUME IInv, NEW p \in Procs, pc[p] = "idle"
  PROVE  /\ at(p) = "idle" /\ pc[p] \in Labels
         /\ ip[p] = Nil /\ nxt[p] = Nil /\ old[p] = Nil /\ put[p] = Nil
         /\ \A i \in Inums : lock[i] # p
<1>1. pc[p] \in Labels BY Zenon DEF Labels, NoIp
<1>2. at(p) = "idle" /\ put[p] = Nil /\ Shape(p) /\ Locks(p) BY <1>1, Calling, Zenon
<1>3. /\ "idle" \in NoIp /\ "idle" \notin HasNxt /\ "idle" \notin HasOld \cup Walks
      /\ "idle" \notin LocksIp /\ "idle" \notin LocksNxt
  BY Zenon DEF NoIp, HasNxt, HasOld, Walks, LocksIp, LocksNxt
<1>4. \A i \in Inums : ~Holds(p, i) /\ ~Frees(p, i)
  BY <1>2, <1>3, Zenon DEF Holds, Frees
<1> QED BY <1>1, <1>2, <1>3, <1>4, Zenon DEF Shape, Locks

\* iput(ip), after iunlock(ip) if it is locked.
LEMMA PutIp ==
  ASSUME IInv, NEW p \in Procs, NEW k,
         pc[p] \in Labels \ (NoIp \cup HasNxt),
         IF old[p] = Nil THEN k = "idle" ELSE k \in {"bad", "linked"},
         Put(p, ip[p], k), ip' = [ip EXCEPT ![p] = Nil],
         UNCHANGED <<ref, call, rest, nxt, old, cwd, file>>,
         lock' = IF pc[p] \in LocksIp THEN [lock EXCEPT ![ip[p]] = Nil] ELSE lock,
         DOMAIN dinode' = Inums /\ DOMAIN incore' = Inums /\ DOMAIN entries' = Inums,
         \A i \in Inums : entries'[i] \in [AllNames -> Inums \cup {0}],
         \A i \in Inums : Writes(i)
  PROVE  IInv'
<1>1. pc[p] \in Labels /\ pc[p] \notin NoIp /\ pc[p] \notin HasNxt
  BY Zenon
<1>2. Shape(p) /\ Locks(p) /\ Domains /\ p # Nil /\ at(p) = pc[p] /\ put[p] = Nil
  BY <1>1, Calling, Zenon
<1>3. ip[p] \in Inums /\ nxt[p] = Nil
  BY <1>1, <1>2, Zenon DEF Shape
<1>4. Domains' /\ Others(p)
  BY <1>2, Zenon DEF Domains, Others, Put
<1>5. /\ pc'[p] = "iput" /\ cont'[p] = k /\ put'[p] = ip[p] /\ ip'[p] = Nil
      /\ nxt'[p] = Nil /\ old'[p] = old[p] /\ file'[p] = file[p]
      /\ cwd'[p] = cwd[p] /\ call'[p] = call[p] /\ rest'[p] = rest[p]
  BY <1>2, <1>3, Zenon DEF Domains, Put
<1>6. /\ at(p)' = k /\ at(p)' \notin {"haschild", "hasfresh"}
      /\ pc'[p] \in Labels \cup {"iput"}
  BY <1>5, Zenon DEF at, Putting, Labels, NoIp, HasNxt, HasOld, Walks
<1>7. Shape(p)'
  BY <1>1, <1>2, <1>3, <1>5, <1>6, Zenon
     DEF Shape, Putting, Labels, NoIp, HasNxt, HasOld, Walks
<1>8. /\ \A i \in Inums : Holds(p, i) <=> ip[p] = i /\ pc[p] \in LocksIp
      /\ \A i \in Inums : ~Holds(p, i)' 
  BY <1>1, <1>2, <1>3, <1>5, <1>6, Zenon DEF Holds, LocksIp, LocksNxt, HasNxt, NoIp
<1>9. \A i \in Inums : lock'[i] = IF Holds(p, i) /\ ~Holds(p, i)' THEN Nil ELSE lock[i]
  BY <1>2, <1>3, <1>8, Zenon DEF Domains, Put
<1>10. ASSUME NEW i \in Inums PROVE ref'[i] = ref[i] + Own(p, i)' - Own(p, i)
  <2>1. Own(p, i) = Sum(ip[p], Nil, old[p], Nil, file[p], cwd[p], i)
    BY <1>2, <1>3, Zenon DEF Own
  <2>2. Own(p, i)' = Sum(Nil, Nil, old[p], ip[p], file[p], cwd[p], i)
    BY <1>5, Zenon DEF Own
  <2>3. ref'[i] = ref[i]
    BY Zenon DEF Put
  <2>4. Sum(Nil, Nil, old[p], ip[p], file[p], cwd[p], i)
        = Sum(ip[p], Nil, old[p], Nil, file[p], cwd[p], i)
    BY OneType DEF Sum
  <2> QED BY <2>1, <2>2, <2>3, <2>4, Balance, Zenon
<1> QED BY <1>1, <1>4, <1>5, <1>6, <1>7, <1>8, <1>9, <1>10, Act, Zenon

\* iput(nxt), after iunlock(nxt).
LEMMA PutNxt ==
  ASSUME IInv, NEW p \in Procs, NEW k,
         \/ pc[p] = "haschild" /\ k = "nounlink"
         \/ pc[p] = "hasexisting" /\ k = "idle",
         Put(p, nxt[p], k), nxt' = [nxt EXCEPT ![p] = Nil], iunlock(nxt[p]),
         UNCHANGED <<diskVars, ref, incore, call, rest, ip, old, cwd, file>>
  PROVE  IInv'
<1>1. pc[p] \in Labels /\ pc[p] \in HasNxt /\ pc[p] \in LocksNxt
  BY Zenon DEF Labels, HasNxt, LocksNxt
<1>2. Shape(p) /\ Locks(p) /\ Domains /\ p # Nil /\ at(p) = pc[p] /\ put[p] = Nil
  BY <1>1, Calling, Zenon
<1>3. nxt[p] \in Inums /\ old[p] = Nil /\ (pc[p] = "haschild" => ip[p] # nxt[p])
  BY <1>1, <1>2, Zenon DEF Shape, HasOld, Walks, Locks
<1>4. Domains' /\ Others(p)
  BY <1>2, Zenon DEF Domains, Others, Put, iunlock, diskVars
<1>5. /\ pc'[p] = "iput" /\ cont'[p] = k /\ put'[p] = nxt[p] /\ ip'[p] = ip[p]
      /\ nxt'[p] = Nil /\ old'[p] = Nil /\ file'[p] = file[p] /\ cwd'[p] = cwd[p]
      /\ call'[p] = call[p] /\ rest'[p] = rest[p]
  BY <1>2, <1>3, Zenon DEF Domains, Put, iunlock, diskVars
<1>6. /\ at(p)' = k /\ at(p)' \notin {"haschild", "hasfresh"}
      /\ pc'[p] \in Labels \cup {"iput"}
  BY <1>5, Zenon DEF at, Putting, Labels, NoIp, HasNxt, HasOld, Walks
<1>7. Shape(p)'
  BY <1>1, <1>2, <1>3, <1>5, <1>6, Zenon
     DEF Shape, Putting, Labels, NoIp, HasNxt, HasOld, Walks
<1>8. \A i \in Inums : (Holds(p, i)' <=> Holds(p, i) /\ i # nxt[p]) /\ Holds(p, nxt[p])
  BY <1>1, <1>2, <1>3, <1>5, <1>6, Zenon DEF Holds, LocksIp, LocksNxt, HasNxt, NoIp
<1>9. \A i \in Inums : lock'[i] = IF Holds(p, i) /\ ~Holds(p, i)' THEN Nil ELSE lock[i]
  BY <1>2, <1>3, <1>8, Zenon DEF Domains, iunlock
<1>10. ASSUME NEW i \in Inums PROVE ref'[i] = ref[i] + Own(p, i)' - Own(p, i)
  <2>1. Own(p, i) = Sum(ip[p], nxt[p], Nil, Nil, file[p], cwd[p], i)
    BY <1>2, <1>3, Zenon DEF Own
  <2>2. Own(p, i)' = Sum(ip[p], Nil, Nil, nxt[p], file[p], cwd[p], i)
    BY <1>5, Zenon DEF Own
  <2>3. ref'[i] = ref[i]
    BY Zenon DEF Put
  <2>4. Sum(ip[p], Nil, Nil, nxt[p], file[p], cwd[p], i)
        = Sum(ip[p], nxt[p], Nil, Nil, file[p], cwd[p], i)
    BY OneType DEF Sum
  <2> QED BY <2>1, <2>2, <2>3, <2>4, Balance, Zenon
<1> QED BY <1>1, <1>4, <1>5, <1>6, <1>7, <1>8, <1>9, <1>10, Unwritten, Act, Zenon

\* iput(old), after iunlock(old) if it is locked.
LEMMA PutOld ==
  ASSUME IInv, NEW p \in Procs, pc[p] \in {"linked", "hasold"},
         Put(p, old[p], "idle"), old' = [old EXCEPT ![p] = Nil],
         UNCHANGED <<entries, ref, call, rest, nxt, ip, cwd, file>>,
         lock' = IF pc[p] = "hasold" THEN [lock EXCEPT ![old[p]] = Nil] ELSE lock,
         DOMAIN dinode' = Inums /\ DOMAIN incore' = Inums,
         \A i \in Inums : Writes(i)
  PROVE  IInv'
<1>1. pc[p] \in Labels /\ pc[p] \in HasOld /\ pc[p] \in NoIp
  BY Zenon DEF Labels, HasOld, NoIp
<1>2. Shape(p) /\ Locks(p) /\ Domains /\ p # Nil /\ at(p) = pc[p] /\ put[p] = Nil
  BY <1>1, Calling, Zenon
<1>3. old[p] \in Inums /\ ip[p] = Nil /\ nxt[p] = Nil
  BY <1>1, <1>2, Zenon DEF Shape, HasOld, NoIp, HasNxt
<1>4. Domains' /\ Others(p)
  BY <1>2, Zenon DEF Domains, Others, Put
<1>5. /\ pc'[p] = "iput" /\ cont'[p] = "idle" /\ put'[p] = old[p] /\ ip'[p] = Nil
      /\ nxt'[p] = Nil /\ old'[p] = Nil /\ file'[p] = file[p] /\ cwd'[p] = cwd[p]
      /\ call'[p] = call[p] /\ rest'[p] = rest[p]
  BY <1>2, <1>3, Zenon DEF Domains, Put
<1>6. /\ at(p)' = "idle" /\ at(p)' \notin {"haschild", "hasfresh"}
      /\ pc'[p] \in Labels \cup {"iput"}
  BY <1>5, Zenon DEF at, Putting, Labels, NoIp, HasNxt, HasOld, Walks
<1>7. Shape(p)'
  BY <1>1, <1>2, <1>3, <1>5, <1>6, Zenon
     DEF Shape, Putting, Labels, NoIp, HasNxt, HasOld, Walks
<1>8. /\ \A i \in Inums : Holds(p, i) <=> old[p] = i /\ pc[p] = "hasold"
      /\ \A i \in Inums : ~Holds(p, i)' 
  BY <1>1, <1>2, <1>3, <1>5, <1>6, Zenon DEF Holds, LocksIp, LocksNxt, HasNxt, NoIp
<1>9. \A i \in Inums : lock'[i] = IF Holds(p, i) /\ ~Holds(p, i)' THEN Nil ELSE lock[i]
  BY <1>2, <1>3, <1>8, Zenon DEF Domains, Put
<1>10. ASSUME NEW i \in Inums PROVE ref'[i] = ref[i] + Own(p, i)' - Own(p, i)
  <2>1. Own(p, i) = Sum(Nil, Nil, old[p], Nil, file[p], cwd[p], i)
    BY <1>2, <1>3, Zenon DEF Own
  <2>2. Own(p, i)' = Sum(Nil, Nil, Nil, old[p], file[p], cwd[p], i)
    BY <1>5, Zenon DEF Own
  <2>3. ref'[i] = ref[i]
    BY Zenon DEF Put
  <2>4. Sum(Nil, Nil, Nil, old[p], file[p], cwd[p], i)
        = Sum(Nil, Nil, old[p], Nil, file[p], cwd[p], i)
    BY OneType DEF Sum
  <2> QED BY <2>1, <2>2, <2>3, <2>4, Balance, Zenon
<1>11. \A i \in Inums : entries'[i] \in [AllNames -> Inums \cup {0}]
  BY Zenon DEF IInv, Table
<1> QED BY <1>1, <1>4, <1>5, <1>6, <1>7, <1>8, <1>9, <1>10, <1>11, Act, Zenon

-----------------------------------------------------------------------------
(* The steps that end with iput() of ip, nxt or old                        *)

\* nameiparent() of a path without elements keeps the invariant.
LEMMA namex_noparent_step ==
  ASSUME IInv, NEW p \in Procs, namex_noparent(p)
  PROVE  IInv'
<1>1. pc[p] = "walk"
  BY Zenon DEF namex_noparent
<1>2. pc[p] \in Labels \ (NoIp \cup HasNxt) /\ pc[p] \notin LocksIp
  BY <1>1, Zenon DEF Labels, NoIp, HasNxt, HasOld, Walks, LocksIp
<1>3. IF old[p] = Nil THEN NoPath(p) = "idle" ELSE NoPath(p) \in {"bad", "linked"}
  BY Zenon DEF NoPath
<1> QED BY <1>2, <1>3, Unwritten, PutIp, Zenon DEF namex_noparent, tableVars

\* namex() that meets a file, or a name that does not exist, keeps the invariant.
LEMMA namex_fail_step ==
  ASSUME IInv, NEW p \in Procs, namex_fail(p)
  PROVE  IInv'
<1>1. pc[p] = "walking"
  BY Zenon DEF namex_fail
<1>2. pc[p] \in Labels \ (NoIp \cup HasNxt) /\ pc[p] \in LocksIp
  BY <1>1, Zenon DEF Labels, NoIp, HasNxt, HasOld, Walks, LocksIp
<1>3. IF old[p] = Nil THEN NoPath(p) = "idle" ELSE NoPath(p) \in {"bad", "linked"}
  BY Zenon DEF NoPath
<1> QED BY <1>2, <1>3, Unwritten, PutIp, Zenon DEF namex_fail, iunlock

\* A call that fails with the inode locked keeps the invariant.
LEMMA iunlockput_step ==
  ASSUME IInv, NEW p \in Procs, iunlockput(p)
  PROVE  IInv'
<1>1. pc[p] = "have"
  BY Zenon DEF iunlockput
<1>2. pc[p] \in Labels \ (NoIp \cup HasNxt) /\ pc[p] \in LocksIp
  BY <1>1, Zenon DEF Labels, NoIp, HasNxt, HasOld, Walks, LocksIp
<1>3. old[p] = Nil
  BY <1>1, <1>2, Calling, Zenon DEF Shape, HasOld, Walks
<1> QED BY <1>2, <1>3, Unwritten, PutIp, Zenon DEF iunlockput, iunlock

\* dirlink() that fails keeps the invariant.
LEMMA link_fail_step ==
  ASSUME IInv, NEW p \in Procs, link_fail(p)
  PROVE  IInv'
<1>1. pc[p] = "nolink"
  BY Zenon DEF link_fail
<1>2. pc[p] \in Labels \ (NoIp \cup HasNxt) /\ pc[p] \in LocksIp
  BY <1>1, Zenon DEF Labels, NoIp, HasNxt, HasOld, Walks, LocksIp
<1>3. old[p] # Nil
  BY <1>1, <1>2, Calling, NilNot, Zenon DEF Shape, HasOld
<1> QED BY <1>2, <1>3, Unwritten, PutIp, Zenon DEF link_fail, iunlock

\* unlink() that fails keeps the invariant.
LEMMA unlink_fail_step ==
  ASSUME IInv, NEW p \in Procs, unlink_fail(p)
  PROVE  IInv'
<1>1. pc[p] \in {"inparent", "nounlink"}
  BY Zenon DEF unlink_fail
<1>2. pc[p] \in Labels \ (NoIp \cup HasNxt) /\ pc[p] \in LocksIp
  BY <1>1, Zenon DEF Labels, NoIp, HasNxt, HasOld, Walks, LocksIp
<1>3. old[p] = Nil
  BY <1>1, <1>2, Calling, Zenon DEF Shape, HasOld, Walks, unlink_fail
<1> QED BY <1>2, <1>3, Unwritten, PutIp, Zenon DEF unlink_fail, iunlock

\* unlink(): the link count of the file, and its reference, keep the invariant.
LEMMA unlink_dec_step ==
  ASSUME IInv, NEW p \in Procs, unlink_dec(p)
  PROVE  IInv'
<1>1. pc[p] = "unlinked"
  BY Zenon DEF unlink_dec
<1>2. pc[p] \in Labels \ (NoIp \cup HasNxt) /\ pc[p] \in LocksIp
  BY <1>1, Zenon DEF Labels, NoIp, HasNxt, HasOld, Walks, LocksIp
<1>3. old[p] = Nil /\ ip[p] \in Inums /\ Holds(p, ip[p])
  BY <1>1, <1>2, Calling, Zenon DEF Shape, HasOld, Walks, Holds
<1>4. incore[ip[p]].nlink - 1 \in Int
  BY <1>2, <1>3, Valid DEF Dinodes
<1>5. /\ \A i \in Inums : Writes(i)
      /\ DOMAIN dinode' = Inums /\ DOMAIN incore' = Inums /\ DOMAIN entries' = Inums
      /\ \A i \in Inums : entries'[i] \in [AllNames -> Inums \cup {0}]
  BY <1>2, <1>3, <1>4, Updated, Zenon DEF unlink_dec, IInv, Table, Domains
<1> QED BY <1>2, <1>3, <1>4, <1>5, Updated, PutIp, Zenon DEF unlink_dec, iunlock

\* link(): the new name keeps the invariant.
LEMMA link_entry_step ==
  ASSUME IInv, NEW p \in Procs, link_entry(p)
  PROVE  IInv'
<1>1. pc[p] = "inparent"
  BY Zenon DEF link_entry
<1>2. pc[p] \in Labels \ (NoIp \cup HasNxt) /\ pc[p] \in LocksIp
  BY <1>1, Zenon DEF Labels, NoIp, HasNxt, HasOld, Walks, LocksIp
<1>3. old[p] \in Inums /\ old[p] # Nil
  BY <1>1, <1>2, Calling, NilNot, Zenon DEF Shape, nameiparent, Creates, link_entry
<1>4. \A i \in Inums : entries'[i] \in [AllNames -> Inums \cup {0}]
  BY <1>3, NameSet, Zenon DEF link_entry
<1>5. /\ \A i \in Inums : Writes(i)
      /\ DOMAIN dinode' = Inums /\ DOMAIN incore' = Inums /\ DOMAIN entries' = Inums
  BY Zenon DEF link_entry, IInv, Domains, Writes
<1> QED BY <1>2, <1>3, <1>4, <1>5, Unwritten, PutIp, Zenon DEF link_entry, iunlock

\* unlink() of a directory that is not empty keeps the invariant.
LEMMA unlink_inuse_step ==
  ASSUME IInv, NEW p \in Procs, unlink_inuse(p)
  PROVE  IInv'
  BY PutNxt, Zenon DEF unlink_inuse

\* The iput() at the end of link() keeps the invariant.
LEMMA link_return_step ==
  ASSUME IInv, NEW p \in Procs, link_return(p)
  PROVE  IInv'
  BY PutOld, Unwritten, Zenon DEF link_return, diskVars, tableVars

\* link(): the link count taken back keeps the invariant.
LEMMA link_dec_step ==
  ASSUME IInv, NEW p \in Procs, link_dec(p)
  PROVE  IInv'
<1>1. pc[p] = "hasold" /\ pc[p] \in Labels
  BY Zenon DEF link_dec, Labels, HasOld
<1>2. old[p] \in Inums /\ Holds(p, old[p])
  BY <1>1, Calling, Zenon DEF Shape, HasOld, Holds
<1>3. incore[old[p]].nlink - 1 \in Int
  BY <1>1, <1>2, Valid DEF Dinodes
<1>4. /\ \A i \in Inums : Writes(i)
      /\ DOMAIN dinode' = Inums /\ DOMAIN incore' = Inums
  BY <1>1, <1>2, <1>3, Updated, Zenon DEF link_dec
<1> QED BY <1>1, <1>4, PutOld, Zenon DEF link_dec, iunlock

-----------------------------------------------------------------------------
(* namex()                                                                 *)

\* namei() at the end of the path keeps the invariant.
LEMMA namex_found_step ==
  ASSUME IInv, NEW p \in Procs, namex_found(p)
  PROVE  IInv'
<1>1. pc[p] \in Labels /\ pc[p] = "walk" /\ ~nameiparent(p)
  BY Zenon DEF namex_found, Labels, NoIp, HasNxt, HasOld, Walks, LocksIp
<1>2. Shape(p) /\ Locks(p) /\ Domains /\ p # Nil /\ at(p) = pc[p] /\ put[p] = Nil
  BY <1>1, Calling, Zenon
<1>3. ip[p] \in Inums /\ nxt[p] = Nil /\ old[p] = Nil
  BY <1>1, <1>2, Zenon DEF Shape, nameiparent, Creates, NoIp, HasNxt, HasOld, Walks
<1>4. Domains' /\ Others(p)
  BY <1>2, Zenon DEF Domains, Others, namex_found, tableVars, diskVars
<1>5. /\ pc'[p] = "found" /\ put'[p] = Nil /\ ip'[p] = ip[p] /\ nxt'[p] = Nil
      /\ old'[p] = Nil /\ file'[p] = file[p] /\ cwd'[p] = cwd[p]
      /\ call'[p] = call[p] /\ rest'[p] = rest[p]
  BY <1>2, <1>3, Zenon DEF Domains, namex_found, tableVars, diskVars
<1>6. /\ at(p)' = "found" /\ at(p)' \notin {"haschild", "hasfresh"}
      /\ pc'[p] \in Labels \cup {"iput"}
  BY <1>5, Zenon DEF at, Putting, Labels, NoIp, HasNxt, HasOld, Walks
<1>7. Shape(p)'
  BY <1>1, <1>2, <1>3, <1>5, <1>6, Zenon
     DEF Shape, Putting, Labels, NoIp, HasNxt, HasOld, Walks
<1>8. \A i \in Inums : ~Holds(p, i) /\ ~Holds(p, i)'
  BY <1>1, <1>2, <1>3, <1>5, <1>6, Zenon DEF Holds, LocksIp, LocksNxt, HasNxt, NoIp
<1>9. \A i \in Inums : lock'[i] = IF Holds(p, i) /\ ~Holds(p, i)' THEN Nil ELSE lock[i]
  BY <1>2, <1>3, <1>8, Zenon DEF Domains, namex_found, tableVars, diskVars
<1>10. ASSUME NEW i \in Inums PROVE ref'[i] = ref[i] + Own(p, i)' - Own(p, i)
  <2>1. Own(p, i) = Sum(ip[p], Nil, Nil, Nil, file[p], cwd[p], i)
    BY <1>2, <1>3, Zenon DEF Own
  <2>2. Own(p, i)' = Sum(ip[p], Nil, Nil, Nil, file[p], cwd[p], i)
    BY <1>5, Zenon DEF Own
  <2>3. ref'[i] = ref[i]
    BY Zenon DEF namex_found, tableVars
  <2>4. Sum(ip[p], Nil, Nil, Nil, file[p], cwd[p], i)
        = Sum(ip[p], Nil, Nil, Nil, file[p], cwd[p], i)
    BY OneType DEF Sum
  <2> QED BY <2>1, <2>2, <2>3, <2>4, Balance, Zenon
<1> QED BY <1>1, <1>4, <1>5, <1>6, <1>7, <1>8, <1>9, <1>10, Unwritten, Act, Zenon
  DEF namex_found, tableVars, diskVars

\* nameiparent() at the last element keeps the invariant.
LEMMA namex_parent_step ==
  ASSUME IInv, NEW p \in Procs, namex_parent(p)
  PROVE  IInv'
<1>1. pc[p] \in Labels /\ pc[p] = "walking" /\ nameiparent(p)
  BY Zenon DEF namex_parent, Labels, NoIp, HasNxt, HasOld, Walks, LocksIp, AtParent
<1>2. Shape(p) /\ Locks(p) /\ Domains /\ p # Nil /\ at(p) = pc[p] /\ put[p] = Nil
  BY <1>1, Calling, Zenon
<1>3. ip[p] \in Inums /\ nxt[p] = Nil
  BY <1>1, <1>2, Zenon DEF Shape, nameiparent, Creates, NoIp, HasNxt, HasOld, Walks
<1>4. Domains' /\ Others(p)
  BY <1>2, Zenon DEF Domains, Others, namex_parent, iunlock, diskVars
<1>5. /\ pc'[p] = "parent" /\ put'[p] = Nil /\ ip'[p] = ip[p] /\ nxt'[p] = Nil
      /\ old'[p] = old[p] /\ file'[p] = file[p] /\ cwd'[p] = cwd[p]
      /\ call'[p] = call[p] /\ rest'[p] = rest[p]
  BY <1>2, <1>3, Zenon DEF Domains, namex_parent, iunlock, diskVars
<1>6. /\ at(p)' = "parent" /\ at(p)' \notin {"haschild", "hasfresh"}
      /\ pc'[p] \in Labels \cup {"iput"}
  BY <1>5, Zenon DEF at, Putting, Labels, NoIp, HasNxt, HasOld, Walks
<1>7. Shape(p)'
  BY <1>1, <1>2, <1>3, <1>5, <1>6, Zenon
     DEF Shape, Putting, Labels, NoIp, HasNxt, HasOld, Walks, nameiparent, Creates
<1>8. \A i \in Inums : (Holds(p, i) <=> i = ip[p]) /\ ~Holds(p, i)'
  BY <1>1, <1>2, <1>3, <1>5, <1>6, Zenon DEF Holds, LocksIp, LocksNxt, HasNxt, NoIp
<1>9. \A i \in Inums : lock'[i] = IF Holds(p, i) /\ ~Holds(p, i)' THEN Nil ELSE lock[i]
  BY <1>2, <1>3, <1>8, Zenon DEF Domains, namex_parent, iunlock, diskVars
<1>10. ASSUME NEW i \in Inums PROVE ref'[i] = ref[i] + Own(p, i)' - Own(p, i)
  <2>1. Own(p, i) = Sum(ip[p], Nil, old[p], Nil, file[p], cwd[p], i)
    BY <1>2, <1>3, Zenon DEF Own
  <2>2. Own(p, i)' = Sum(ip[p], Nil, old[p], Nil, file[p], cwd[p], i)
    BY <1>5, Zenon DEF Own
  <2>3. ref'[i] = ref[i]
    BY Zenon DEF namex_parent
  <2>4. Sum(ip[p], Nil, old[p], Nil, file[p], cwd[p], i)
        = Sum(ip[p], Nil, old[p], Nil, file[p], cwd[p], i)
    BY OneType DEF Sum
  <2> QED BY <2>1, <2>2, <2>3, <2>4, Balance, Zenon
<1> QED BY <1>1, <1>4, <1>5, <1>6, <1>7, <1>8, <1>9, <1>10, Unwritten, Act, Zenon
  DEF namex_parent, iunlock, diskVars

\* The next directory of a path, and the reference to the last one, keep the
\* invariant.
LEMMA namex_next_step ==
  ASSUME IInv, NEW p \in Procs, namex_next(p)
  PROVE  IInv'
<1> DEFINE n == dirlookup(ip[p], Head(rest[p]))
<1>1. pc[p] \in Labels /\ pc[p] = "walking"
  BY Zenon DEF namex_next, Labels, NoIp, HasNxt, HasOld, Walks, LocksIp
<1>2. Shape(p) /\ Locks(p) /\ Domains /\ p # Nil /\ at(p) = pc[p] /\ put[p] = Nil
  BY <1>1, Calling, Zenon
<1>3. ip[p] \in Inums /\ nxt[p] = Nil /\ n \in Inums /\ Tail(rest[p]) \in Seq(AllNames)
  <2>1. n \in Inums /\ Tail(rest[p]) \in Seq(AllNames)
    BY <1>1, Lookup, Zenon DEF namex_next, Exists, name
  <2>2. ip[p] \in Inums /\ nxt[p] = Nil
    BY <1>1, <1>2, Zenon DEF Shape, nameiparent, Creates, NoIp, HasNxt, HasOld, Walks
  <2> QED BY <2>1, <2>2, Zenon
<1>4. Domains' /\ Others(p)
  BY <1>2, Zenon DEF Domains, Others, namex_next, iget, iunlock, Put, diskVars
<1>5. /\ pc'[p] = "iput" /\ cont'[p] = "walk" /\ put'[p] = ip[p] /\ ip'[p] = n
      /\ nxt'[p] = Nil /\ old'[p] = old[p] /\ file'[p] = file[p]
      /\ cwd'[p] = cwd[p] /\ call'[p] = call[p] /\ rest'[p] = Tail(rest[p])
  BY <1>2, <1>3, Zenon DEF Domains, namex_next, iget, iunlock, Put, diskVars
<1>6. /\ at(p)' = "walk" /\ at(p)' \notin {"haschild", "hasfresh"}
      /\ pc'[p] \in Labels \cup {"iput"}
  BY <1>5, Zenon DEF at, Putting, Labels, NoIp, HasNxt, HasOld, Walks
<1>7. Shape(p)'
  BY <1>1, <1>2, <1>3, <1>5, <1>6, Zenon
     DEF Shape, Putting, Labels, NoIp, HasNxt, HasOld, Walks
<1>8. \A i \in Inums : (Holds(p, i) <=> i = ip[p]) /\ ~Holds(p, i)'
  BY <1>1, <1>2, <1>3, <1>5, <1>6, Zenon DEF Holds, LocksIp, LocksNxt, HasNxt, NoIp
<1>9. \A i \in Inums : lock'[i] = IF Holds(p, i) /\ ~Holds(p, i)' THEN Nil ELSE lock[i]
  BY <1>2, <1>3, <1>8, Zenon DEF Domains, namex_next, iget, iunlock, Put, diskVars
<1>10. ASSUME NEW i \in Inums PROVE ref'[i] = ref[i] + Own(p, i)' - Own(p, i)
  <2>1. Own(p, i) = Sum(ip[p], Nil, old[p], Nil, file[p], cwd[p], i)
    BY <1>2, <1>3, Zenon DEF Own
  <2>2. Own(p, i)' = Sum(n, Nil, old[p], ip[p], file[p], cwd[p], i)
    BY <1>5, Zenon DEF Own
  <2>3. ref'[i] = ref[i] + One(n, i)
    BY <1>3, Gains, Zenon DEF namex_next, iget, iunlock, Put, diskVars
  <2>4. Sum(n, Nil, old[p], ip[p], file[p], cwd[p], i)
        = Sum(ip[p], Nil, old[p], Nil, file[p], cwd[p], i) + One(n, i)
    BY OneType DEF Sum
  <2> QED BY <2>1, <2>2, <2>3, <2>4, Balance, Zenon
<1> QED BY <1>1, <1>4, <1>5, <1>6, <1>7, <1>8, <1>9, <1>10, Unwritten, Act, Zenon
  DEF namex_next, iget, iunlock, Put, diskVars

-----------------------------------------------------------------------------
(* open(), close() and chdir()                                             *)

\* open(): the pointer moves to the file, and the invariant holds.
LEMMA sys_open_step ==
  ASSUME IInv, NEW p \in Procs, sys_open(p)
  PROVE  IInv'
<1>1. pc[p] \in Labels /\ pc[p] = "have" /\ call[p].op \in {"open", "create"}
  BY Zenon DEF sys_open, Labels, NoIp, HasNxt, HasOld, Walks, LocksIp
<1>2. Shape(p) /\ Locks(p) /\ Domains /\ p # Nil /\ at(p) = pc[p] /\ put[p] = Nil
  BY <1>1, Calling, Zenon
<1>3. ip[p] \in Inums /\ nxt[p] = Nil /\ old[p] = Nil /\ file[p] = Nil
  BY <1>1, <1>2, Zenon DEF Shape, nameiparent, Creates, NoIp, HasNxt, HasOld, Walks
<1>4. Domains' /\ Others(p)
  BY <1>2, Zenon DEF Domains, Others, sys_open, iunlock, Forget, diskVars
<1>5. /\ pc'[p] = "idle" /\ put'[p] = Nil /\ ip'[p] = Nil /\ nxt'[p] = Nil
      /\ old'[p] = Nil /\ file'[p] = ip[p] /\ cwd'[p] = cwd[p] /\ call'[p] = Nil
      /\ rest'[p] = << >>
  BY <1>2, <1>3, Zenon DEF Domains, sys_open, iunlock, Forget, diskVars
<1>6. /\ at(p)' = "idle" /\ at(p)' \notin {"haschild", "hasfresh"}
      /\ pc'[p] \in Labels \cup {"iput"}
  BY <1>5, Zenon DEF at, Putting, Labels, NoIp, HasNxt, HasOld, Walks
<1>7. Shape(p)'
  BY <1>1, <1>2, <1>3, <1>5, <1>6, EmptyPath, Zenon
     DEF Shape, Putting, Labels, NoIp, HasNxt, HasOld, Walks
<1>8. \A i \in Inums : (Holds(p, i) <=> i = ip[p]) /\ ~Holds(p, i)'
  BY <1>1, <1>2, <1>3, <1>5, <1>6, Zenon DEF Holds, LocksIp, LocksNxt, HasNxt, NoIp
<1>9. \A i \in Inums : lock'[i] = IF Holds(p, i) /\ ~Holds(p, i)' THEN Nil ELSE lock[i]
  BY <1>2, <1>3, <1>8, Zenon DEF Domains, sys_open, iunlock, Forget, diskVars
<1>10. ASSUME NEW i \in Inums PROVE ref'[i] = ref[i] + Own(p, i)' - Own(p, i)
  <2>1. Own(p, i) = Sum(ip[p], Nil, Nil, Nil, Nil, cwd[p], i)
    BY <1>2, <1>3, Zenon DEF Own
  <2>2. Own(p, i)' = Sum(Nil, Nil, Nil, Nil, ip[p], cwd[p], i)
    BY <1>5, Zenon DEF Own
  <2>3. ref'[i] = ref[i]
    BY Zenon DEF sys_open
  <2>4. Sum(Nil, Nil, Nil, Nil, ip[p], cwd[p], i)
        = Sum(ip[p], Nil, Nil, Nil, Nil, cwd[p], i)
    BY OneType DEF Sum
  <2> QED BY <2>1, <2>2, <2>3, <2>4, Balance, Zenon
<1> QED BY <1>1, <1>4, <1>5, <1>6, <1>7, <1>8, <1>9, <1>10, Unwritten, Act, Zenon
  DEF sys_open, iunlock, Forget, diskVars

\* close(): the pointer moves to iput(), and the invariant holds.
LEMMA fileclose_step ==
  ASSUME IInv, NEW p \in Procs, fileclose(p)
  PROVE  IInv'
<1>1. pc[p] \in Labels /\ pc[p] = "idle" /\ file[p] # Nil
  BY Zenon DEF fileclose, Labels, NoIp, HasNxt, HasOld, Walks, LocksIp
<1>2. Shape(p) /\ Locks(p) /\ Domains /\ p # Nil /\ at(p) = pc[p] /\ put[p] = Nil
  BY <1>1, Calling, Zenon
<1>3. file[p] \in Inums /\ ip[p] = Nil /\ nxt[p] = Nil /\ old[p] = Nil
  BY <1>1, <1>2, Zenon DEF Shape, nameiparent, Creates, NoIp, HasNxt, HasOld, Walks
<1>4. Domains' /\ Others(p)
  BY <1>2, Zenon DEF Domains, Others, fileclose, Put, tableVars, diskVars
<1>5. /\ pc'[p] = "iput" /\ cont'[p] = "idle" /\ put'[p] = file[p] /\ ip'[p] = Nil
      /\ nxt'[p] = Nil /\ old'[p] = Nil /\ file'[p] = Nil /\ cwd'[p] = cwd[p]
      /\ call'[p] = call[p] /\ rest'[p] = rest[p]
  BY <1>2, <1>3, Zenon DEF Domains, fileclose, Put, tableVars, diskVars
<1>6. /\ at(p)' = "idle" /\ at(p)' \notin {"haschild", "hasfresh"}
      /\ pc'[p] \in Labels \cup {"iput"}
  BY <1>5, Zenon DEF at, Putting, Labels, NoIp, HasNxt, HasOld, Walks
<1>7. Shape(p)'
  BY <1>1, <1>2, <1>3, <1>5, <1>6, Zenon
     DEF Shape, Putting, Labels, NoIp, HasNxt, HasOld, Walks
<1>8. \A i \in Inums : ~Holds(p, i) /\ ~Holds(p, i)'
  BY <1>1, <1>2, <1>3, <1>5, <1>6, Zenon DEF Holds, LocksIp, LocksNxt, HasNxt, NoIp
<1>9. \A i \in Inums : lock'[i] = IF Holds(p, i) /\ ~Holds(p, i)' THEN Nil ELSE lock[i]
  BY <1>2, <1>3, <1>8, Zenon DEF Domains, fileclose, Put, tableVars, diskVars
<1>10. ASSUME NEW i \in Inums PROVE ref'[i] = ref[i] + Own(p, i)' - Own(p, i)
  <2>1. Own(p, i) = Sum(Nil, Nil, Nil, Nil, file[p], cwd[p], i)
    BY <1>2, <1>3, Zenon DEF Own
  <2>2. Own(p, i)' = Sum(Nil, Nil, Nil, file[p], Nil, cwd[p], i)
    BY <1>5, Zenon DEF Own
  <2>3. ref'[i] = ref[i]
    BY Zenon DEF fileclose, tableVars
  <2>4. Sum(Nil, Nil, Nil, file[p], Nil, cwd[p], i)
        = Sum(Nil, Nil, Nil, Nil, file[p], cwd[p], i)
    BY OneType DEF Sum
  <2> QED BY <2>1, <2>2, <2>3, <2>4, Balance, Zenon
<1> QED BY <1>1, <1>4, <1>5, <1>6, <1>7, <1>8, <1>9, <1>10, Unwritten, Act, Zenon
  DEF fileclose, Put, tableVars, diskVars

\* chdir(): the old current directory goes to iput(), and the invariant holds.
LEMMA sys_chdir_step ==
  ASSUME IInv, NEW p \in Procs, sys_chdir(p)
  PROVE  IInv'
<1>1. pc[p] \in Labels /\ pc[p] = "have" /\ call[p].op = "chdir"
  BY Zenon DEF sys_chdir, Labels, NoIp, HasNxt, HasOld, Walks, LocksIp
<1>2. Shape(p) /\ Locks(p) /\ Domains /\ p # Nil /\ at(p) = pc[p] /\ put[p] = Nil
  BY <1>1, Calling, Zenon
<1>3. ip[p] \in Inums /\ cwd[p] \in Inums /\ nxt[p] = Nil /\ old[p] = Nil
  BY <1>1, <1>2, Zenon DEF Shape, nameiparent, Creates, NoIp, HasNxt, HasOld, Walks
<1>4. Domains' /\ Others(p)
  BY <1>2, Zenon DEF Domains, Others, sys_chdir, Put, iunlock, diskVars
<1>5. /\ pc'[p] = "iput" /\ cont'[p] = "idle" /\ put'[p] = cwd[p] /\ ip'[p] = Nil
      /\ nxt'[p] = Nil /\ old'[p] = Nil /\ file'[p] = file[p] /\ cwd'[p] = ip[p]
      /\ call'[p] = call[p] /\ rest'[p] = rest[p]
  BY <1>2, <1>3, Zenon DEF Domains, sys_chdir, Put, iunlock, diskVars
<1>6. /\ at(p)' = "idle" /\ at(p)' \notin {"haschild", "hasfresh"}
      /\ pc'[p] \in Labels \cup {"iput"}
  BY <1>5, Zenon DEF at, Putting, Labels, NoIp, HasNxt, HasOld, Walks
<1>7. Shape(p)'
  BY <1>1, <1>2, <1>3, <1>5, <1>6, Zenon
     DEF Shape, Putting, Labels, NoIp, HasNxt, HasOld, Walks
<1>8. \A i \in Inums : (Holds(p, i) <=> i = ip[p]) /\ ~Holds(p, i)'
  BY <1>1, <1>2, <1>3, <1>5, <1>6, Zenon DEF Holds, LocksIp, LocksNxt, HasNxt, NoIp
<1>9. \A i \in Inums : lock'[i] = IF Holds(p, i) /\ ~Holds(p, i)' THEN Nil ELSE lock[i]
  BY <1>2, <1>3, <1>8, Zenon DEF Domains, sys_chdir, Put, iunlock, diskVars
<1>10. ASSUME NEW i \in Inums PROVE ref'[i] = ref[i] + Own(p, i)' - Own(p, i)
  <2>1. Own(p, i) = Sum(ip[p], Nil, Nil, Nil, file[p], cwd[p], i)
    BY <1>2, <1>3, Zenon DEF Own
  <2>2. Own(p, i)' = Sum(Nil, Nil, Nil, cwd[p], file[p], ip[p], i)
    BY <1>5, Zenon DEF Own
  <2>3. ref'[i] = ref[i]
    BY Zenon DEF sys_chdir
  <2>4. Sum(Nil, Nil, Nil, cwd[p], file[p], ip[p], i)
        = Sum(ip[p], Nil, Nil, Nil, file[p], cwd[p], i)
    BY OneType DEF Sum
  <2> QED BY <2>1, <2>2, <2>3, <2>4, Balance, Zenon
<1> QED BY <1>1, <1>4, <1>5, <1>6, <1>7, <1>8, <1>9, <1>10, Unwritten, Act, Zenon
  DEF sys_chdir, Put, iunlock, diskVars

-----------------------------------------------------------------------------
(* Directory entries                                                       *)

\* create() of a name that exists keeps the invariant.
LEMMA create_exists_step ==
  ASSUME IInv, NEW p \in Procs, create_exists(p)
  PROVE  IInv'
<1> DEFINE n == dirlookup(ip[p], Head(rest[p]))
<1>1. pc[p] \in Labels /\ pc[p] = "inparent" /\ Creates(p)
  BY Zenon DEF create_exists, Labels, NoIp, HasNxt, HasOld, Walks, LocksIp
<1>2. Shape(p) /\ Locks(p) /\ Domains /\ p # Nil /\ at(p) = pc[p] /\ put[p] = Nil
  BY <1>1, Calling, Zenon
<1>3. ip[p] \in Inums /\ nxt[p] = Nil /\ old[p] = Nil /\ n \in Inums
  <2>1. n \in Inums /\ Tail(rest[p]) \in Seq(AllNames)
    BY <1>1, Lookup, Zenon DEF create_exists, Exists, name
  <2>2. ip[p] \in Inums /\ nxt[p] = Nil /\ old[p] = Nil
    BY <1>1, <1>2, Zenon DEF Shape, nameiparent, Creates, NoIp, HasNxt, HasOld, Walks
  <2> QED BY <2>1, <2>2, Zenon
<1>4. Domains' /\ Others(p)
  BY <1>2, Zenon DEF Domains, Others, create_exists, name, iget, iunlock, Put, diskVars
<1>5. /\ pc'[p] = "iput" /\ cont'[p] = "existing" /\ put'[p] = ip[p]
      /\ ip'[p] = Nil /\ nxt'[p] = n /\ old'[p] = Nil /\ file'[p] = file[p]
      /\ cwd'[p] = cwd[p] /\ call'[p] = call[p] /\ rest'[p] = rest[p]
  BY <1>2, <1>3, Zenon DEF Domains, create_exists, name, iget, iunlock, Put, diskVars
<1>6. /\ at(p)' = "existing" /\ at(p)' \notin {"haschild", "hasfresh"}
      /\ pc'[p] \in Labels \cup {"iput"}
  BY <1>5, Zenon DEF at, Putting, Labels, NoIp, HasNxt, HasOld, Walks
<1>7. Shape(p)'
  BY <1>1, <1>2, <1>3, <1>5, <1>6, Zenon
     DEF Shape, Putting, Labels, NoIp, HasNxt, HasOld, Walks
<1>8. \A i \in Inums : (Holds(p, i) <=> i = ip[p]) /\ ~Holds(p, i)'
  BY <1>1, <1>2, <1>3, <1>5, <1>6, Zenon DEF Holds, LocksIp, LocksNxt, HasNxt, NoIp
<1>9. \A i \in Inums : lock'[i] = IF Holds(p, i) /\ ~Holds(p, i)' THEN Nil ELSE lock[i]
  BY <1>2, <1>3, <1>8, Zenon DEF Domains, create_exists, name, iget, iunlock, Put,
     diskVars
<1>10. ASSUME NEW i \in Inums PROVE ref'[i] = ref[i] + Own(p, i)' - Own(p, i)
  <2>1. Own(p, i) = Sum(ip[p], Nil, Nil, Nil, file[p], cwd[p], i)
    BY <1>2, <1>3, Zenon DEF Own
  <2>2. Own(p, i)' = Sum(Nil, n, Nil, ip[p], file[p], cwd[p], i)
    BY <1>5, Zenon DEF Own
  <2>3. ref'[i] = ref[i] + One(n, i)
    BY <1>3, Gains, Zenon DEF create_exists, name, iget, iunlock, Put, diskVars
  <2>4. Sum(Nil, n, Nil, ip[p], file[p], cwd[p], i)
        = Sum(ip[p], Nil, Nil, Nil, file[p], cwd[p], i) + One(n, i)
    BY OneType DEF Sum
  <2> QED BY <2>1, <2>2, <2>3, <2>4, Balance, Zenon
<1> QED BY <1>1, <1>4, <1>5, <1>6, <1>7, <1>8, <1>9, <1>10, Unwritten, Act, Zenon
  DEF create_exists, name, iget, iunlock, Put, diskVars

\* link() to a name that exists keeps the invariant.
LEMMA link_exists_step ==
  ASSUME IInv, NEW p \in Procs, link_exists(p)
  PROVE  IInv'
<1> DEFINE n == dirlookup(ip[p], Head(rest[p]))
<1>1. pc[p] \in Labels /\ pc[p] = "inparent" /\ call[p].op = "link"
  BY Zenon DEF link_exists, Labels, NoIp, HasNxt, HasOld, Walks, LocksIp
<1>2. Shape(p) /\ Locks(p) /\ Domains /\ p # Nil /\ at(p) = pc[p] /\ put[p] = Nil
  BY <1>1, Calling, Zenon
<1>3. ip[p] \in Inums /\ nxt[p] = Nil /\ old[p] \in Inums /\ n \in Inums
  <2>1. n \in Inums /\ Tail(rest[p]) \in Seq(AllNames)
    BY <1>1, Lookup, Zenon DEF link_exists, Exists, name
  <2>2. ip[p] \in Inums /\ nxt[p] = Nil /\ old[p] \in Inums
    BY <1>1, <1>2, Zenon DEF Shape, nameiparent, Creates, NoIp, HasNxt, HasOld, Walks
  <2> QED BY <2>1, <2>2, Zenon
<1>4. Domains' /\ Others(p)
  BY <1>2, Zenon DEF Domains, Others, link_exists, name, iget, Put, diskVars
<1>5. /\ pc'[p] = "iput" /\ cont'[p] = "nolink" /\ put'[p] = n /\ ip'[p] = ip[p]
      /\ nxt'[p] = Nil /\ old'[p] = old[p] /\ file'[p] = file[p]
      /\ cwd'[p] = cwd[p] /\ call'[p] = call[p] /\ rest'[p] = rest[p]
  BY <1>2, <1>3, Zenon DEF Domains, link_exists, name, iget, Put, diskVars
<1>6. /\ at(p)' = "nolink" /\ at(p)' \notin {"haschild", "hasfresh"}
      /\ pc'[p] \in Labels \cup {"iput"}
  BY <1>5, Zenon DEF at, Putting, Labels, NoIp, HasNxt, HasOld, Walks
<1>7. Shape(p)'
  BY <1>1, <1>2, <1>3, <1>5, <1>6, Zenon
     DEF Shape, Putting, Labels, NoIp, HasNxt, HasOld, Walks
<1>8. \A i \in Inums : Holds(p, i)' <=> Holds(p, i)
  BY <1>1, <1>2, <1>3, <1>5, <1>6, Zenon DEF Holds, LocksIp, LocksNxt, HasNxt, NoIp
<1>9. \A i \in Inums : lock'[i] = IF Holds(p, i) /\ ~Holds(p, i)' THEN Nil ELSE lock[i]
  BY <1>2, <1>3, <1>8, Zenon DEF Domains, link_exists, name, iget, Put, diskVars
<1>10. ASSUME NEW i \in Inums PROVE ref'[i] = ref[i] + Own(p, i)' - Own(p, i)
  <2>1. Own(p, i) = Sum(ip[p], Nil, old[p], Nil, file[p], cwd[p], i)
    BY <1>2, <1>3, Zenon DEF Own
  <2>2. Own(p, i)' = Sum(ip[p], Nil, old[p], n, file[p], cwd[p], i)
    BY <1>5, Zenon DEF Own
  <2>3. ref'[i] = ref[i] + One(n, i)
    BY <1>3, Gains, Zenon DEF link_exists, name, iget, Put, diskVars
  <2>4. Sum(ip[p], Nil, old[p], n, file[p], cwd[p], i)
        = Sum(ip[p], Nil, old[p], Nil, file[p], cwd[p], i) + One(n, i)
    BY OneType DEF Sum
  <2> QED BY <2>1, <2>2, <2>3, <2>4, Balance, Zenon
<1> QED BY <1>1, <1>4, <1>5, <1>6, <1>7, <1>8, <1>9, <1>10, Unwritten, Act, Zenon
  DEF link_exists, name, iget, Put, diskVars

\* unlink() that finds the name keeps the invariant.
LEMMA unlink_lookup_step ==
  ASSUME IInv, NEW p \in Procs, unlink_lookup(p)
  PROVE  IInv'
<1> DEFINE n == dirlookup(ip[p], Head(rest[p]))
<1>1. pc[p] \in Labels /\ pc[p] = "inparent" /\ call[p].op = "unlink"
  BY Zenon DEF unlink_lookup, Labels, NoIp, HasNxt, HasOld, Walks, LocksIp
<1>2. Shape(p) /\ Locks(p) /\ Domains /\ p # Nil /\ at(p) = pc[p] /\ put[p] = Nil
  BY <1>1, Calling, Zenon
<1>3. ip[p] \in Inums /\ nxt[p] = Nil /\ old[p] = Nil /\ n \in Inums
  <2>1. n \in Inums /\ Tail(rest[p]) \in Seq(AllNames)
    BY <1>1, Lookup, Zenon DEF unlink_lookup, Exists, name
  <2>2. ip[p] \in Inums /\ nxt[p] = Nil /\ old[p] = Nil
    BY <1>1, <1>2, Zenon DEF Shape, nameiparent, Creates, NoIp, HasNxt, HasOld, Walks
  <2> QED BY <2>1, <2>2, Zenon
<1>4. Domains' /\ Others(p)
  BY <1>2, Zenon DEF Domains, Others, unlink_lookup, name, iget, diskVars
<1>5. /\ pc'[p] = "child" /\ put'[p] = Nil /\ ip'[p] = ip[p] /\ nxt'[p] = n
      /\ old'[p] = Nil /\ file'[p] = file[p] /\ cwd'[p] = cwd[p]
      /\ call'[p] = call[p] /\ rest'[p] = rest[p]
  BY <1>2, <1>3, Zenon DEF Domains, unlink_lookup, name, iget, diskVars
<1>6. /\ at(p)' = "child" /\ at(p)' \notin {"haschild", "hasfresh"}
      /\ pc'[p] \in Labels \cup {"iput"}
  BY <1>5, Zenon DEF at, Putting, Labels, NoIp, HasNxt, HasOld, Walks
<1>7. Shape(p)'
  BY <1>1, <1>2, <1>3, <1>5, <1>6, Zenon
     DEF Shape, Putting, Labels, NoIp, HasNxt, HasOld, Walks
<1>8. \A i \in Inums : Holds(p, i)' <=> Holds(p, i)
  BY <1>1, <1>2, <1>3, <1>5, <1>6, Zenon DEF Holds, LocksIp, LocksNxt, HasNxt, NoIp
<1>9. \A i \in Inums : lock'[i] = IF Holds(p, i) /\ ~Holds(p, i)' THEN Nil ELSE lock[i]
  BY <1>2, <1>3, <1>8, Zenon DEF Domains, unlink_lookup, name, iget, diskVars
<1>10. ASSUME NEW i \in Inums PROVE ref'[i] = ref[i] + Own(p, i)' - Own(p, i)
  <2>1. Own(p, i) = Sum(ip[p], Nil, Nil, Nil, file[p], cwd[p], i)
    BY <1>2, <1>3, Zenon DEF Own
  <2>2. Own(p, i)' = Sum(ip[p], n, Nil, Nil, file[p], cwd[p], i)
    BY <1>5, Zenon DEF Own
  <2>3. ref'[i] = ref[i] + One(n, i)
    BY <1>3, Gains, Zenon DEF unlink_lookup, name, iget, diskVars
  <2>4. Sum(ip[p], n, Nil, Nil, file[p], cwd[p], i)
        = Sum(ip[p], Nil, Nil, Nil, file[p], cwd[p], i) + One(n, i)
    BY OneType DEF Sum
  <2> QED BY <2>1, <2>2, <2>3, <2>4, Balance, Zenon
<1> QED BY <1>1, <1>4, <1>5, <1>6, <1>7, <1>8, <1>9, <1>10, Unwritten, Act, Zenon
  DEF unlink_lookup, name, iget, diskVars

\* create() that returns the file of that name keeps the invariant.
LEMMA create_existing_step ==
  ASSUME IInv, NEW p \in Procs, create_existing(p)
  PROVE  IInv'
<1>0. CASE ~(call[p].op = "create" /\ incore[nxt[p]].type \in {"file", "device"})
  <2>1. /\ pc[p] = "hasexisting" /\ Put(p, nxt[p], "idle") /\ iunlock(nxt[p])
        /\ nxt' = [nxt EXCEPT ![p] = Nil]
        /\ UNCHANGED <<diskVars, ref, incore, call, rest, ip, old, cwd, file>>
    BY <1>0, Zenon DEF create_existing
  <2> QED BY <2>1, PutNxt, Zenon
<1> SUFFICES ASSUME call[p].op = "create" /\ incore[nxt[p]].type \in {"file", "device"}
             PROVE  IInv'
  BY <1>0, Zenon
<1>1. pc[p] \in Labels /\ pc[p] = "hasexisting"
  BY Zenon DEF create_existing, Labels, NoIp, HasNxt, HasOld, Walks, LocksIp
<1>2. Shape(p) /\ Locks(p) /\ Domains /\ p # Nil /\ at(p) = pc[p] /\ put[p] = Nil
  BY <1>1, Calling, Zenon
<1>3. nxt[p] \in Inums /\ ip[p] = Nil /\ old[p] = Nil
  BY <1>1, <1>2, Zenon DEF Shape, nameiparent, Creates, NoIp, HasNxt, HasOld, Walks
<1>4. Domains' /\ Others(p)
  BY <1>2, Zenon DEF Domains, Others, create_existing, diskVars
<1>5. /\ pc'[p] = "have" /\ put'[p] = Nil /\ ip'[p] = nxt[p] /\ nxt'[p] = Nil
      /\ old'[p] = Nil /\ file'[p] = file[p] /\ cwd'[p] = cwd[p]
      /\ call'[p] = call[p] /\ rest'[p] = rest[p]
  BY <1>2, <1>3, Zenon DEF Domains, create_existing, diskVars
<1>6. /\ at(p)' = "have" /\ at(p)' \notin {"haschild", "hasfresh"}
      /\ pc'[p] \in Labels \cup {"iput"}
  BY <1>5, Zenon DEF at, Putting, Labels, NoIp, HasNxt, HasOld, Walks
<1>7. Shape(p)'
  BY <1>1, <1>2, <1>3, <1>5, <1>6, Zenon
     DEF Shape, Putting, Labels, NoIp, HasNxt, HasOld, Walks
<1>8. \A i \in Inums : Holds(p, i)' <=> Holds(p, i)
  BY <1>1, <1>2, <1>3, <1>5, <1>6, Zenon DEF Holds, LocksIp, LocksNxt, HasNxt, NoIp
<1>9. \A i \in Inums : lock'[i] = IF Holds(p, i) /\ ~Holds(p, i)' THEN Nil ELSE lock[i]
  BY <1>2, <1>3, <1>8, Zenon DEF Domains, create_existing
<1>10. ASSUME NEW i \in Inums PROVE ref'[i] = ref[i] + Own(p, i)' - Own(p, i)
  <2>1. Own(p, i) = Sum(Nil, nxt[p], Nil, Nil, file[p], cwd[p], i)
    BY <1>2, <1>3, Zenon DEF Own
  <2>2. Own(p, i)' = Sum(nxt[p], Nil, Nil, Nil, file[p], cwd[p], i)
    BY <1>5, Zenon DEF Own
  <2>3. ref'[i] = ref[i]
    BY Zenon DEF create_existing
  <2>4. Sum(nxt[p], Nil, Nil, Nil, file[p], cwd[p], i)
        = Sum(Nil, nxt[p], Nil, Nil, file[p], cwd[p], i)
    BY OneType DEF Sum
  <2> QED BY <2>1, <2>2, <2>3, <2>4, Balance, Zenon
<1> QED BY <1>1, <1>4, <1>5, <1>6, <1>7, <1>8, <1>9, <1>10, Unwritten, Act, Zenon
  DEF create_existing, diskVars

\* ialloc() finds a free inode if there is one.
LEMMA FreeMin ==
  ASSUME FreeInums # {}
  PROVE  Min(FreeInums) \in Inums /\ dinode[Min(FreeInums)].type = "free"
<1> DEFINE S == FreeInums
           R == {ss \in Nat \X Nat : ss[1] < ss[2]}
<1>1. S \subseteq Nat /\ S \subseteq Inums /\ \A x \in S : dinode[x].type = "free"
  BY InodeConstants DEF FreeInums, Inums
<1>2. IsWellFoundedOn(R, Nat) BY NatLessThanWellFounded, Zenon DEF OpToRel
<1>3. PICK x \in S : \A y \in S : ~(<<y, x>> \in R)
  <2> HIDE DEF R
  <2> QED BY <1>1, <1>2, WFMin, Zenon
<1>4. ASSUME NEW y \in S PROVE x <= y
  <2>1. x \in Nat /\ y \in Nat BY <1>1, Zenon
  <2>2. ~(y < x) BY <1>3, <2>1, Zenon
  <2> QED BY <2>1, <2>2
<1>5. Min(S) \in S BY <1>4, Zenon DEF Min
<1> QED BY <1>1, <1>5, Zenon

\* ialloc() of a free inode keeps the invariant.
LEMMA ialloc_step ==
  ASSUME IInv, NEW p \in Procs, ialloc(p)
  PROVE  IInv'
<1> DEFINE n == Min(FreeInums)
<1>1. pc[p] \in Labels /\ pc[p] = "inparent" /\ Creates(p)
  BY Zenon DEF ialloc, Labels, NoIp, HasNxt, HasOld, Walks, LocksIp
<1>2. Shape(p) /\ Locks(p) /\ Domains /\ p # Nil /\ at(p) = pc[p] /\ put[p] = Nil
  BY <1>1, Calling, Zenon
<1>3. /\ ip[p] \in Inums /\ nxt[p] = Nil /\ old[p] = Nil
      /\ n \in Inums /\ dinode[n].type = "free"
  BY <1>1, <1>2, FreeMin, Zenon DEF ialloc, Shape, Creates, NoIp, HasNxt, HasOld, Walks
<1>4. Domains' /\ Others(p)
  BY <1>2, Zenon DEF Domains, Others, ialloc, iget
<1>5. /\ pc'[p] = "fresh" /\ put'[p] = Nil /\ ip'[p] = ip[p] /\ nxt'[p] = n
      /\ old'[p] = Nil /\ file'[p] = file[p] /\ cwd'[p] = cwd[p]
      /\ call'[p] = call[p] /\ rest'[p] = rest[p]
  BY <1>2, <1>3, Zenon DEF Domains, ialloc, iget
<1>6. /\ at(p)' = "fresh" /\ at(p)' \notin {"haschild", "hasfresh"}
      /\ pc'[p] \in Labels \cup {"iput"}
  BY <1>5, Zenon DEF at, Putting, Labels, NoIp, HasNxt, HasOld, Walks
<1>7. Shape(p)'
  BY <1>1, <1>2, <1>3, <1>5, <1>6, Zenon
     DEF Shape, Putting, Labels, NoIp, HasNxt, HasOld, Walks
<1>8. \A i \in Inums : Holds(p, i)' <=> Holds(p, i)
  BY <1>1, <1>2, <1>3, <1>5, <1>6, Zenon DEF Holds, LocksIp, LocksNxt, HasNxt, NoIp
<1>9. \A i \in Inums : lock'[i] = IF Holds(p, i) /\ ~Holds(p, i)' THEN Nil ELSE lock[i]
  BY <1>2, <1>3, <1>8, Zenon DEF Domains, ialloc, iget
<1>10. ASSUME NEW i \in Inums PROVE ref'[i] = ref[i] + Own(p, i)' - Own(p, i)
  <2>1. Own(p, i) = Sum(ip[p], Nil, Nil, Nil, file[p], cwd[p], i)
    BY <1>2, <1>3, Zenon DEF Own
  <2>2. Own(p, i)' = Sum(ip[p], n, Nil, Nil, file[p], cwd[p], i)
    BY <1>5, Zenon DEF Own
  <2>3. ref'[i] = ref[i] + One(n, i)
    BY <1>3, Gains, Zenon DEF ialloc, iget
  <2>4. Sum(ip[p], n, Nil, Nil, file[p], cwd[p], i)
        = Sum(ip[p], Nil, Nil, Nil, file[p], cwd[p], i) + One(n, i)
    BY OneType DEF Sum
  <2> QED BY <2>1, <2>2, <2>3, <2>4, Balance, Zenon
<1>11. [type |-> NewType(p), nlink |-> 0] \in Dinodes
  BY DEF NewType, Dinodes, Types
<1>12. \A i \in Inums : Writes(i)
  BY <1>2, <1>3, <1>11, Zenon DEF ialloc, Domains, Writes
<1>13. \A i \in Inums : entries'[i] \in [AllNames -> Inums \cup {0}]
  BY Zenon DEF ialloc, IInv, Table
<1> QED BY <1>1, <1>4, <1>5, <1>6, <1>7, <1>8, <1>9, <1>10, <1>12, <1>13, Act, Zenon

\* create(): the new inode and its names keep the invariant.
LEMMA create_step ==
  ASSUME IInv, NEW p \in Procs, create(p)
  PROVE  IInv'
<1>1. pc[p] \in Labels /\ pc[p] = "hasfresh"
  BY Zenon DEF create, Labels, NoIp, HasNxt, HasOld, Walks, LocksIp
<1>2. Shape(p) /\ Locks(p) /\ Domains /\ p # Nil /\ at(p) = pc[p] /\ put[p] = Nil
  BY <1>1, Calling, Zenon
<1>3. /\ ip[p] \in Inums /\ nxt[p] \in Inums /\ ip[p] # nxt[p] /\ old[p] = Nil
      /\ Holds(p, ip[p]) /\ Holds(p, nxt[p])
  BY <1>1, <1>2, Zenon DEF Shape, Locks, Holds, NoIp, HasNxt, HasOld, Walks, LocksIp,
     LocksNxt
<1>4. Domains' /\ Others(p)
  BY <1>2, Zenon DEF Domains, Others, create, iunlock, Put
<1>5. /\ pc'[p] = "iput" /\ cont'[p] = "have" /\ put'[p] = ip[p] /\ ip'[p] = nxt[p]
      /\ nxt'[p] = Nil /\ old'[p] = Nil /\ file'[p] = file[p] /\ cwd'[p] = cwd[p]
      /\ call'[p] = call[p] /\ rest'[p] = rest[p]
  BY <1>2, <1>3, Zenon DEF Domains, create, iunlock, Put
<1>6. /\ at(p)' = "have" /\ at(p)' \notin {"haschild", "hasfresh"}
      /\ pc'[p] \in Labels \cup {"iput"}
  BY <1>5, Zenon DEF at, Putting, Labels, NoIp, HasNxt, HasOld, Walks
<1>7. Shape(p)'
  BY <1>1, <1>2, <1>3, <1>5, <1>6, Zenon
     DEF Shape, Putting, Labels, NoIp, HasNxt, HasOld, Walks
<1>8. \A i \in Inums : /\ (Holds(p, i) <=> i \in {ip[p], nxt[p]})
                       /\ (Holds(p, i)' <=> i = nxt[p])
  BY <1>1, <1>2, <1>3, <1>5, <1>6, Zenon DEF Holds, LocksIp, LocksNxt, HasNxt, NoIp
<1>9. \A i \in Inums : lock'[i] = IF Holds(p, i) /\ ~Holds(p, i)' THEN Nil ELSE lock[i]
  BY <1>2, <1>3, <1>8, Zenon DEF Domains, create, iunlock, Put
<1>10. ASSUME NEW i \in Inums PROVE ref'[i] = ref[i] + Own(p, i)' - Own(p, i)
  <2>1. Own(p, i) = Sum(ip[p], nxt[p], Nil, Nil, file[p], cwd[p], i)
    BY <1>2, <1>3, Zenon DEF Own
  <2>2. Own(p, i)' = Sum(nxt[p], Nil, Nil, ip[p], file[p], cwd[p], i)
    BY <1>5, Zenon DEF Own
  <2>3. ref'[i] = ref[i]
    BY Zenon DEF create
  <2>4. Sum(nxt[p], Nil, Nil, ip[p], file[p], cwd[p], i)
        = Sum(ip[p], nxt[p], Nil, Nil, file[p], cwd[p], i)
    BY OneType DEF Sum
  <2> QED BY <2>1, <2>2, <2>3, <2>4, Balance, Zenon
<1>11. \A i \in Inums : Writes(i)
  <2> DEFINE dp == ip[p]
             x == nxt[p]
             isdir == incore[x].type = "dir"
             parent == [incore[dp] EXCEPT !.nlink = IF isdir THEN @ + 1 ELSE @]
             inode == [incore[x] EXCEPT !.nlink = 1]
  <2>1. /\ incore' = [incore EXCEPT ![dp] = parent, ![x] = inode]
        /\ dinode' = [dinode EXCEPT ![dp] = parent, ![x] = inode]
    BY Zenon DEF create
  <2>2. /\ incore[dp] \in Dinodes /\ incore[dp].type # "free"
        /\ incore[x] \in Dinodes /\ incore[x].type # "free"
    BY <1>1, <1>3, Valid, Zenon
  <2>3. (IF isdir THEN incore[dp].nlink + 1 ELSE incore[dp].nlink) \in Int /\ 1 \in Int
    BY <2>2 DEF Dinodes
  <2>4. /\ parent \in Dinodes /\ parent.type # "free"
        /\ inode \in Dinodes /\ inode.type # "free"
    BY <2>2, <2>3, NlinkSet, Zenon
  <2> HIDE DEF parent, inode
  <2> QED BY <1>2, <1>3, <2>1, <2>4, Zenon DEF Domains, Writes
<1>12. \A i \in Inums : entries'[i] \in [AllNames -> Inums \cup {0}]
  <2> TAKE i \in Inums
  <2> DEFINE x == nxt[p]
  <2>1. entries'[i] = IF i = x THEN IF incore[x].type = "dir"
                          THEN [entries[x] EXCEPT !["."] = x, ![".."] = ip[p]]
                          ELSE entries[x]
                      ELSE IF i = ip[p] THEN [entries[i] EXCEPT ![name(p)] = x]
                      ELSE entries[i]
    BY <1>2, <1>3, Zenon DEF Domains, create
  <2>2. \A j \in Inums : entries[j] \in [AllNames -> Inums \cup {0}]
    BY Zenon DEF IInv, Table
  <2>3. [entries[x] EXCEPT !["."] = x, ![".."] = ip[p]] \in [AllNames -> Inums \cup {0}]
    BY <1>3, <2>2, Zenon
  <2>4. [entries[i] EXCEPT ![name(p)] = x] \in [AllNames -> Inums \cup {0}]
    BY <1>3, <2>2, Zenon
  <2> QED BY <1>3, <2>1, <2>2, <2>3, <2>4, Zenon
<1> QED BY <1>1, <1>4, <1>5, <1>6, <1>7, <1>8, <1>9, <1>10, <1>11, <1>12, Act, Zenon

\* unlink(): the name erased, and the directory put, keep the invariant.
LEMMA unlink_entry_step ==
  ASSUME IInv, NEW p \in Procs, unlink_entry(p)
  PROVE  IInv'
<1>1. pc[p] \in Labels /\ pc[p] = "haschild"
  BY Zenon DEF unlink_entry, Labels, NoIp, HasNxt, HasOld, Walks, LocksIp
<1>2. Shape(p) /\ Locks(p) /\ Domains /\ p # Nil /\ at(p) = pc[p] /\ put[p] = Nil
  BY <1>1, Calling, Zenon
<1>3. /\ ip[p] \in Inums /\ nxt[p] \in Inums /\ ip[p] # nxt[p] /\ old[p] = Nil
      /\ Holds(p, ip[p]) /\ Holds(p, nxt[p])
  BY <1>1, <1>2, Zenon DEF Shape, Locks, Holds, NoIp, HasNxt, HasOld, Walks, LocksIp,
     LocksNxt
<1>4. Domains' /\ Others(p)
  BY <1>2, Zenon DEF Domains, Others, unlink_entry, Update, iunlock, Put
<1>5. /\ pc'[p] = "iput" /\ cont'[p] = "unlinked" /\ put'[p] = ip[p]
      /\ ip'[p] = nxt[p] /\ nxt'[p] = Nil /\ old'[p] = Nil /\ file'[p] = file[p]
      /\ cwd'[p] = cwd[p] /\ call'[p] = call[p] /\ rest'[p] = rest[p]
  BY <1>2, <1>3, Zenon DEF Domains, unlink_entry, Update, iunlock, Put
<1>6. /\ at(p)' = "unlinked" /\ at(p)' \notin {"haschild", "hasfresh"}
      /\ pc'[p] \in Labels \cup {"iput"}
  BY <1>5, Zenon DEF at, Putting, Labels, NoIp, HasNxt, HasOld, Walks
<1>7. Shape(p)'
  BY <1>1, <1>2, <1>3, <1>5, <1>6, Zenon
     DEF Shape, Putting, Labels, NoIp, HasNxt, HasOld, Walks
<1>8. \A i \in Inums : /\ (Holds(p, i) <=> i \in {ip[p], nxt[p]})
                       /\ (Holds(p, i)' <=> i = nxt[p])
  BY <1>1, <1>2, <1>3, <1>5, <1>6, Zenon DEF Holds, LocksIp, LocksNxt, HasNxt, NoIp
<1>9. \A i \in Inums : lock'[i] = IF Holds(p, i) /\ ~Holds(p, i)' THEN Nil ELSE lock[i]
  BY <1>2, <1>3, <1>8, Zenon DEF Domains, unlink_entry, Update, iunlock, Put
<1>10. ASSUME NEW i \in Inums PROVE ref'[i] = ref[i] + Own(p, i)' - Own(p, i)
  <2>1. Own(p, i) = Sum(ip[p], nxt[p], Nil, Nil, file[p], cwd[p], i)
    BY <1>2, <1>3, Zenon DEF Own
  <2>2. Own(p, i)' = Sum(nxt[p], Nil, Nil, ip[p], file[p], cwd[p], i)
    BY <1>5, Zenon DEF Own
  <2>3. ref'[i] = ref[i]
    BY Zenon DEF unlink_entry
  <2>4. Sum(nxt[p], Nil, Nil, ip[p], file[p], cwd[p], i)
        = Sum(ip[p], nxt[p], Nil, Nil, file[p], cwd[p], i)
    BY OneType DEF Sum
  <2> QED BY <2>1, <2>2, <2>3, <2>4, Balance, Zenon
<1>11. \A i \in Inums : Writes(i)
  <2>1. incore[ip[p]].nlink - 1 \in Int
    BY <1>1, <1>3, Valid DEF Dinodes
  <2>2. CASE incore[nxt[p]].type = "dir"
    BY <1>1, <1>3, <2>1, <2>2, Updated, Zenon DEF unlink_entry
  <2>3. CASE incore[nxt[p]].type # "dir"
    BY <2>3, Zenon DEF unlink_entry, Writes
  <2> QED BY <2>2, <2>3, Zenon
<1>12. \A i \in Inums : entries'[i] \in [AllNames -> Inums \cup {0}]
  BY NameSet, Zenon DEF unlink_entry
<1> QED BY <1>1, <1>4, <1>5, <1>6, <1>7, <1>8, <1>9, <1>10, <1>11, <1>12, Act, Zenon

-----------------------------------------------------------------------------
(* The beginning of a call, and of the second path of link()               *)

\* namex() begins at the root or the current directory.
LEMMA Begins ==
  ASSUME IInv, NEW p \in Procs, NEW c, NEW path, WalkFrom(p, c, path)
  PROVE  \E s \in Inums : /\ ref' = [ref EXCEPT ![s] = @ + 1]
                          /\ ip' = [ip EXCEPT ![p] = s]
                          /\ rest' = [rest EXCEPT ![p] = path]
                          /\ pc' = [pc EXCEPT ![p] = "walk"]
<1>1. ROOTINO \in Inums /\ cwd[p] \in Inums
  BY InodeConstants DEF ROOTINO, Inums, IInv, Shape
<1> QED BY <1>1, Zenon DEF WalkFrom, iget, idup

\* The beginning of a call keeps the invariant.
LEMMA syscall_step ==
  ASSUME IInv, NEW p \in Procs, NEW c \in Calls[p], syscall(p, c)
  PROVE  IInv'
<1>0. PICK s \in Inums : /\ ref' = [ref EXCEPT ![s] = @ + 1]
                         /\ ip' = [ip EXCEPT ![p] = s]
                         /\ rest' = [rest EXCEPT ![p] = c.path]
                         /\ pc' = [pc EXCEPT ![p] = "walk"]
  BY Begins, Zenon DEF syscall
<1>1. pc[p] \in Labels /\ pc[p] = "idle"
  BY Zenon DEF syscall, Labels, NoIp, HasNxt, HasOld, Walks, LocksIp
<1>2. Shape(p) /\ Locks(p) /\ Domains /\ p # Nil /\ at(p) = pc[p] /\ put[p] = Nil
  BY <1>1, Calling, Zenon
<1>3. /\ ip[p] = Nil /\ nxt[p] = Nil /\ old[p] = Nil /\ c \in CallRecords
      /\ c.path \in Seq(AllNames) /\ (c.op \in {"open", "create"} => file[p] = Nil)
  <2>1. c \in CallRecords
    BY InodeConstants, Zenon
  <2>2. c.path \in Seq(AllNames)
    BY <2>1, CallType, Zenon
  <2>3. ip[p] = Nil /\ nxt[p] = Nil /\ old[p] = Nil
    BY <1>1, Idle, Zenon
  <2> QED BY <2>1, <2>2, <2>3, Zenon DEF syscall
<1>4. Domains' /\ Others(p)
  BY <1>0, <1>2, Zenon DEF Domains, Others, syscall, diskVars
<1>5. /\ pc'[p] = "walk" /\ put'[p] = Nil /\ ip'[p] = s /\ nxt'[p] = Nil
      /\ old'[p] = Nil /\ file'[p] = file[p] /\ cwd'[p] = cwd[p] /\ call'[p] = c
      /\ rest'[p] = c.path
  BY <1>0, <1>2, <1>3, Zenon DEF Domains, syscall, diskVars
<1>6. /\ at(p)' = "walk" /\ at(p)' \notin {"haschild", "hasfresh"}
      /\ pc'[p] \in Labels \cup {"iput"}
  BY <1>5, Zenon DEF at, Putting, Labels, NoIp, HasNxt, HasOld, Walks
<1>7. Shape(p)'
  BY <1>1, <1>2, <1>3, <1>5, <1>6, Zenon
     DEF Shape, Putting, Labels, NoIp, HasNxt, HasOld, Walks
<1>8. \A i \in Inums : ~Holds(p, i) /\ ~Holds(p, i)'
  BY <1>1, <1>2, <1>3, <1>5, <1>6, Zenon DEF Holds, LocksIp, LocksNxt, HasNxt, NoIp
<1>9. \A i \in Inums : lock'[i] = IF Holds(p, i) /\ ~Holds(p, i)' THEN Nil ELSE lock[i]
  BY <1>2, <1>3, <1>8, Zenon DEF Domains, syscall, diskVars
<1>10. ASSUME NEW i \in Inums PROVE ref'[i] = ref[i] + Own(p, i)' - Own(p, i)
  <2>1. Own(p, i) = Sum(Nil, Nil, Nil, Nil, file[p], cwd[p], i)
    BY <1>2, <1>3, Zenon DEF Own
  <2>2. Own(p, i)' = Sum(s, Nil, Nil, Nil, file[p], cwd[p], i)
    BY <1>5, Zenon DEF Own
  <2>3. ref'[i] = ref[i] + One(s, i)
    BY <1>0, Gains, Zenon DEF syscall, diskVars
  <2>4. Sum(s, Nil, Nil, Nil, file[p], cwd[p], i)
        = Sum(Nil, Nil, Nil, Nil, file[p], cwd[p], i) + One(s, i)
    BY OneType DEF Sum
  <2> QED BY <2>1, <2>2, <2>3, <2>4, Balance, Zenon
<1> QED BY <1>1, <1>4, <1>5, <1>6, <1>7, <1>8, <1>9, <1>10, Unwritten, Act, Zenon
  DEF syscall, diskVars

\* link(): the link count, and the beginning of the new path, keep the invariant.
LEMMA link_inc_step ==
  ASSUME IInv, NEW p \in Procs, link_inc(p)
  PROVE  IInv'
<1>0. PICK s \in Inums : /\ ref' = [ref EXCEPT ![s] = @ + 1]
                         /\ ip' = [ip EXCEPT ![p] = s]
                         /\ rest' = [rest EXCEPT ![p] = call[p].new]
                         /\ pc' = [pc EXCEPT ![p] = "walk"]
  BY Begins, Zenon DEF link_inc, LinkInc
<1>1. pc[p] \in Labels /\ pc[p] = "have" /\ call[p].op = "link"
  BY Zenon DEF link_inc, Labels, NoIp, HasNxt, HasOld, Walks, LocksIp, LinkInc
<1>2. Shape(p) /\ Locks(p) /\ Domains /\ p # Nil /\ at(p) = pc[p] /\ put[p] = Nil
  BY <1>1, Calling, Zenon
<1>3. /\ ip[p] \in Inums /\ nxt[p] = Nil /\ old[p] = Nil /\ Holds(p, ip[p])
      /\ call[p].new \in Seq(AllNames)
  BY <1>1, <1>2, CallType, Zenon DEF Shape, Holds, NoIp, HasNxt, HasOld, Walks, LocksIp
<1>4. Domains' /\ Others(p)
  BY <1>0, <1>2, Zenon DEF Domains, Others, link_inc, LinkInc, Update, iunlock
<1>5. /\ pc'[p] = "walk" /\ put'[p] = Nil /\ ip'[p] = s /\ nxt'[p] = Nil
      /\ old'[p] = ip[p] /\ file'[p] = file[p] /\ cwd'[p] = cwd[p]
      /\ call'[p] = call[p] /\ rest'[p] = call[p].new
  BY <1>0, <1>2, <1>3, Zenon DEF Domains, link_inc, LinkInc, Update, iunlock
<1>6. /\ at(p)' = "walk" /\ at(p)' \notin {"haschild", "hasfresh"}
      /\ pc'[p] \in Labels \cup {"iput"}
  BY <1>5, Zenon DEF at, Putting, Labels, NoIp, HasNxt, HasOld, Walks
<1>7. Shape(p)'
  BY <1>1, <1>2, <1>3, <1>5, <1>6, Zenon
     DEF Shape, Putting, Labels, NoIp, HasNxt, HasOld, Walks
<1>8. \A i \in Inums : (Holds(p, i) <=> i = ip[p]) /\ ~Holds(p, i)'
  BY <1>1, <1>2, <1>3, <1>5, <1>6, Zenon DEF Holds, LocksIp, LocksNxt, HasNxt, NoIp
<1>9. \A i \in Inums : lock'[i] = IF Holds(p, i) /\ ~Holds(p, i)' THEN Nil ELSE lock[i]
  BY <1>2, <1>3, <1>8, Zenon DEF Domains, link_inc, LinkInc, Update, iunlock
<1>10. ASSUME NEW i \in Inums PROVE ref'[i] = ref[i] + Own(p, i)' - Own(p, i)
  <2>1. Own(p, i) = Sum(ip[p], Nil, Nil, Nil, file[p], cwd[p], i)
    BY <1>2, <1>3, Zenon DEF Own
  <2>2. Own(p, i)' = Sum(s, Nil, ip[p], Nil, file[p], cwd[p], i)
    BY <1>5, Zenon DEF Own
  <2>3. ref'[i] = ref[i] + One(s, i)
    BY <1>0, Gains, Zenon DEF link_inc, LinkInc, Update, iunlock
  <2>4. Sum(s, Nil, ip[p], Nil, file[p], cwd[p], i)
        = Sum(ip[p], Nil, Nil, Nil, file[p], cwd[p], i) + One(s, i)
    BY OneType DEF Sum
  <2> QED BY <2>1, <2>2, <2>3, <2>4, Balance, Zenon
<1>11. incore[ip[p]].nlink + 1 \in Int
  BY <1>1, <1>3, Valid DEF Dinodes
<1>12. \A i \in Inums : Writes(i)
  BY <1>1, <1>3, <1>11, Updated, Zenon DEF link_inc, LinkInc
<1>13. \A i \in Inums : entries'[i] \in [AllNames -> Inums \cup {0}]
  BY Zenon DEF link_inc, LinkInc, IInv, Table
<1> QED BY <1>1, <1>4, <1>5, <1>6, <1>7, <1>8, <1>9, <1>10, <1>12, <1>13, Act, Zenon

-----------------------------------------------------------------------------
(* ilock() and iput()                                                      *)

\* Two labels at which a process has the same pointers.
Alike(l, k) ==
  /\ k \in Labels \ {"idle"} /\ (l \in NoIp <=> k \in NoIp)
  /\ (l \in HasNxt <=> k \in HasNxt) /\ (l \in HasOld <=> k \in HasOld)
  /\ (l \in Walks <=> k \in Walks)

\* At label k, process p has locked what it holds now, and j.
Takes(p, j, k) ==
  /\ \A i \in Inums :
       Holds(p, i) \/ i = j <=> \/ ip[p] = i /\ k \in LocksIp
                                \/ nxt[p] = i /\ k \in LocksNxt
                                \/ old[p] = i /\ k = "hasold"
  /\ k \in {"haschild", "hasfresh"} => j = nxt[p] /\ ip[p] \in Inums /\ Holds(p, ip[p])
  /\ k \in {"walking", "parent", "inparent"} => rest[p] # << >>
  /\ k \in {"parent", "inparent"} => nameiparent(p)

\* ilock(j) takes a process to a label at which it points to the same inodes.
LEMMA LockStep ==
  ASSUME IInv, NEW p \in Procs, ilock(p), pc[p] \in Labels \ {"idle"},
         NEW j \in Inums, NEW k, Wants(p) = j, Locked[pc[p]] = k,
         Alike(pc[p], k), Takes(p, j, k)
  PROVE  IInv'
<1>0. k \in Labels \ {"idle"}
  BY Zenon DEF Alike
<1>1. Shape(p) /\ Locks(p) /\ Domains /\ p # Nil /\ at(p) = pc[p] /\ put[p] = Nil
  BY Calling, Zenon
<1>2. k \notin Putting
  BY <1>0, Zenon DEF Labels, NoIp, HasNxt, HasOld, Walks, Putting
<1>3. Domains' /\ Others(p) /\ \A i \in Inums : Own(p, i)' = Own(p, i)
  BY <1>1, Zenon DEF ilock, Domains, Others, diskVars, Own
<1>4. /\ pc'[p] = k /\ at(p)' = k
      /\ UNCHANGED <<call, rest, ip, nxt, old, put, cwd, file>>
  BY <1>1, <1>2, Zenon DEF ilock, Domains, at
<1>5. Shape(p)'
  BY <1>1, <1>2, <1>4, Zenon DEF Shape, Alike, Takes, nameiparent, Creates
<1>6. /\ lock[j] = Nil /\ (incore[j] = Nil => dinode[j].type # "free")
      /\ \A i \in Inums : lock'[i] = IF i = j THEN p ELSE lock[i]
      /\ \A i \in Inums :
           incore'[i] = IF i = j /\ incore[j] = Nil THEN dinode[j] ELSE incore[i]
      /\ UNCHANGED <<dinode, entries, ref>>
  BY <1>1, Zenon DEF ilock, Domains, diskVars
<1>7. \A i \in Inums : /\ Holds(p, i)' <=> Holds(p, i) \/ i = j
                       /\ ~Frees(p, i) /\ ~Frees(p, i)'
  BY <1>0, <1>1, <1>2, <1>4, Zenon
     DEF Takes, Holds, Frees, Putting, Labels, NoIp, HasNxt, HasOld, Walks
<1>8. Locks(p)'
  <2>1. \A i \in Inums : lock'[i] = p <=> Holds(p, i)' \/ Frees(p, i)'
    <3> TAKE i \in Inums
    <3>1. lock[i] = p <=> Holds(p, i)
      BY <1>1, <1>7, Zenon DEF Locks
    <3>2. CASE i = j
      BY <1>6, <1>7, <3>2, Zenon
    <3>3. CASE i # j
      <4>1. lock'[i] = lock[i] /\ (Holds(p, i)' <=> Holds(p, i)) /\ ~Frees(p, i)'
        BY <1>6, <1>7, <3>3, Zenon
      <4> QED BY <3>1, <4>1, Zenon
    <3> QED BY <3>2, <3>3, Zenon
  <2>2. k \in {"haschild", "hasfresh"} => ip[p] # nxt[p]
    BY <1>1, <1>6, Zenon DEF Locks, Takes
  <2> QED BY <1>4, <1>7, <2>1, <2>2, Zenon DEF Locks
<1>9. ASSUME NEW i \in Inums PROVE ref'[i] = ref[i] + Own(p, i)' - Own(p, i)
  BY <1>3, <1>6, Balance, Zenon
<1>10. ASSUME NEW i \in Inums PROVE Table(i)'
  <2>1. Table(i) BY Zenon DEF IInv
  <2>2. CASE i = j
    <3>1. lock[i] = Nil /\ lock'[i] = p /\ UNCHANGED <<dinode, entries>>
      BY <1>6, <2>2, Zenon
    <3>2. incore'[i] = dinode[i] /\ dinode[i] # Nil /\ dinode[i].type # "free"
      BY <1>6, <2>1, <2>2, <3>1, NilNot, Zenon DEF Table
    <3> QED BY <1>1, <2>1, <3>1, <3>2, Zenon DEF Table
  <2>3. CASE i # j
    <3>1. lock'[i] = lock[i] /\ incore'[i] = incore[i] /\ UNCHANGED <<dinode, entries>>
      BY <1>6, <2>3, Zenon
    <3>2. lock[i] # Nil /\ pc[lock[i]] = "iput_unlock" => pc'[lock[i]] = "iput_unlock"
      BY <1>1, <1>3, <2>1, Zenon DEF Others, Table, Labels, NoIp, HasNxt, HasOld, Walks
    <3> QED BY <1>4, <2>1, <3>1, <3>2, Zenon DEF Table
  <2> QED BY <2>2, <2>3, Zenon
<1> QED BY <1>3, <1>5, <1>6, <1>8, <1>9, <1>10, Move, Zenon

\* Where ilock() takes a process.
LEMMA LockedIs ==
  /\ Locked["walk"] = "walking" /\ Locked["found"] = "have"
  /\ Locked["parent"] = "inparent" /\ Locked["child"] = "haschild"
  /\ Locked["fresh"] = "hasfresh" /\ Locked["existing"] = "hasexisting"
  /\ Locked["bad"] = "hasold"
  BY DEF Locked

\* ilock() keeps the invariant at each of the seven places that call it.
LEMMA ilock_step ==
  ASSUME IInv, NEW p \in Procs, ilock(p)
  PROVE  IInv'
<1>0. pc[p] \in {"walk", "found", "parent", "child", "fresh", "existing", "bad"}
  BY Zenon DEF ilock, NeedsLock, Wants
<1>1. pc[p] \in Labels \ {"idle"}
  BY <1>0, Zenon DEF Labels, NoIp, HasNxt, HasOld, Walks
<1>2. Shape(p) /\ at(p) = pc[p]
  BY <1>1, Calling, Zenon
<1>3. CASE pc[p] = "walk"
  <2>1. Wants(p) = ip[p] /\ Locked[pc[p]] = "walking" /\ rest[p] # << >>
    <3>1. Wants(p) = ip[p]
      BY <1>3, Zenon DEF Wants
    <3>2. Locked[pc[p]] = "walking"
      BY <1>3, LockedIs, Zenon
    <3> QED BY <1>3, <3>1, <3>2, Zenon DEF ilock, NeedsLock
  <2>2. ip[p] \in Inums
    BY <1>2, <1>3, Zenon DEF Shape, NoIp, HasNxt, HasOld, Walks
  <2>3. \A i \in Inums : Holds(p, i) <=> FALSE
    BY <1>2, <1>3, Zenon DEF Holds, Shape, LocksIp, LocksNxt, NoIp, HasNxt, HasOld,
       Walks
  <2>4. Alike(pc[p], "walking")
    BY <1>3, Zenon DEF Alike, Labels, NoIp, HasNxt, HasOld, Walks
  <2>5. Takes(p, ip[p], "walking")
    BY <1>2, <1>3, <2>1, <2>3, Zenon
    DEF Takes, Shape, LocksIp, LocksNxt, NoIp, HasNxt, HasOld, Walks
  <2> QED BY <1>1, <2>1, <2>2, <2>4, <2>5, LockStep, Zenon
<1>4. CASE pc[p] = "found"
  <2>1. Wants(p) = ip[p] /\ Locked[pc[p]] = "have"
    <3>1. Wants(p) = ip[p]
      BY <1>4, Zenon DEF Wants
    <3>2. Locked[pc[p]] = "have"
      BY <1>4, LockedIs, Zenon
    <3> QED BY <1>4, <3>1, <3>2, Zenon
  <2>2. ip[p] \in Inums
    BY <1>2, <1>4, Zenon DEF Shape, NoIp, HasNxt, HasOld, Walks
  <2>3. \A i \in Inums : Holds(p, i) <=> FALSE
    BY <1>2, <1>4, Zenon DEF Holds, Shape, LocksIp, LocksNxt, NoIp, HasNxt, HasOld,
       Walks
  <2>4. Alike(pc[p], "have")
    BY <1>4, Zenon DEF Alike, Labels, NoIp, HasNxt, HasOld, Walks
  <2>5. Takes(p, ip[p], "have")
    BY <1>2, <1>4, <2>1, <2>3, Zenon
    DEF Takes, Shape, LocksIp, LocksNxt, NoIp, HasNxt, HasOld, Walks
  <2> QED BY <1>1, <2>1, <2>2, <2>4, <2>5, LockStep, Zenon
<1>5. CASE pc[p] = "parent"
  <2>1. Wants(p) = ip[p] /\ Locked[pc[p]] = "inparent"
    <3>1. Wants(p) = ip[p]
      BY <1>5, Zenon DEF Wants
    <3>2. Locked[pc[p]] = "inparent"
      BY <1>5, LockedIs, Zenon
    <3> QED BY <1>5, <3>1, <3>2, Zenon
  <2>2. ip[p] \in Inums
    BY <1>2, <1>5, Zenon DEF Shape, NoIp, HasNxt, HasOld, Walks
  <2>3. \A i \in Inums : Holds(p, i) <=> FALSE
    BY <1>2, <1>5, Zenon DEF Holds, Shape, LocksIp, LocksNxt, NoIp, HasNxt, HasOld,
       Walks
  <2>4. Alike(pc[p], "inparent")
    BY <1>5, Zenon DEF Alike, Labels, NoIp, HasNxt, HasOld, Walks
  <2>5. Takes(p, ip[p], "inparent")
    BY <1>2, <1>5, <2>1, <2>3, Zenon
    DEF Takes, Shape, LocksIp, LocksNxt, NoIp, HasNxt, HasOld, Walks
  <2> QED BY <1>1, <2>1, <2>2, <2>4, <2>5, LockStep, Zenon
<1>6. CASE pc[p] = "child"
  <2>1. Wants(p) = nxt[p] /\ Locked[pc[p]] = "haschild"
    <3>1. Wants(p) = nxt[p]
      BY <1>6, Zenon DEF Wants
    <3>2. Locked[pc[p]] = "haschild"
      BY <1>6, LockedIs, Zenon
    <3> QED BY <1>6, <3>1, <3>2, Zenon
  <2>2. nxt[p] \in Inums
    BY <1>2, <1>6, Zenon DEF Shape, NoIp, HasNxt, HasOld, Walks
  <2>3. \A i \in Inums : Holds(p, i) <=> ip[p] = i
    BY <1>2, <1>6, Zenon DEF Holds, Shape, LocksIp, LocksNxt, NoIp, HasNxt, HasOld,
       Walks
  <2>4. Alike(pc[p], "haschild")
    BY <1>6, Zenon DEF Alike, Labels, NoIp, HasNxt, HasOld, Walks
  <2>5. Takes(p, nxt[p], "haschild")
    BY <1>2, <1>6, <2>1, <2>3, Zenon
    DEF Takes, Shape, LocksIp, LocksNxt, NoIp, HasNxt, HasOld, Walks
  <2> QED BY <1>1, <2>1, <2>2, <2>4, <2>5, LockStep, Zenon
<1>7. CASE pc[p] = "fresh"
  <2>1. Wants(p) = nxt[p] /\ Locked[pc[p]] = "hasfresh"
    <3>1. Wants(p) = nxt[p]
      BY <1>7, Zenon DEF Wants
    <3>2. Locked[pc[p]] = "hasfresh"
      BY <1>7, LockedIs, Zenon
    <3> QED BY <1>7, <3>1, <3>2, Zenon
  <2>2. nxt[p] \in Inums
    BY <1>2, <1>7, Zenon DEF Shape, NoIp, HasNxt, HasOld, Walks
  <2>3. \A i \in Inums : Holds(p, i) <=> ip[p] = i
    BY <1>2, <1>7, Zenon DEF Holds, Shape, LocksIp, LocksNxt, NoIp, HasNxt, HasOld,
       Walks
  <2>4. Alike(pc[p], "hasfresh")
    BY <1>7, Zenon DEF Alike, Labels, NoIp, HasNxt, HasOld, Walks
  <2>5. Takes(p, nxt[p], "hasfresh")
    BY <1>2, <1>7, <2>1, <2>3, Zenon
    DEF Takes, Shape, LocksIp, LocksNxt, NoIp, HasNxt, HasOld, Walks
  <2> QED BY <1>1, <2>1, <2>2, <2>4, <2>5, LockStep, Zenon
<1>8. CASE pc[p] = "existing"
  <2>1. Wants(p) = nxt[p] /\ Locked[pc[p]] = "hasexisting"
    <3>1. Wants(p) = nxt[p]
      BY <1>8, Zenon DEF Wants
    <3>2. Locked[pc[p]] = "hasexisting"
      BY <1>8, LockedIs, Zenon
    <3> QED BY <1>8, <3>1, <3>2, Zenon
  <2>2. nxt[p] \in Inums
    BY <1>2, <1>8, Zenon DEF Shape, NoIp, HasNxt, HasOld, Walks
  <2>3. \A i \in Inums : Holds(p, i) <=> FALSE
    BY <1>2, <1>8, Zenon DEF Holds, Shape, LocksIp, LocksNxt, NoIp, HasNxt, HasOld,
       Walks
  <2>4. Alike(pc[p], "hasexisting")
    BY <1>8, Zenon DEF Alike, Labels, NoIp, HasNxt, HasOld, Walks
  <2>5. Takes(p, nxt[p], "hasexisting")
    BY <1>2, <1>8, <2>1, <2>3, Zenon
    DEF Takes, Shape, LocksIp, LocksNxt, NoIp, HasNxt, HasOld, Walks
  <2> QED BY <1>1, <2>1, <2>2, <2>4, <2>5, LockStep, Zenon
<1>9. CASE pc[p] = "bad"
  <2>1. Wants(p) = old[p] /\ Locked[pc[p]] = "hasold"
    <3>1. Wants(p) = old[p]
      BY <1>9, Zenon DEF Wants
    <3>2. Locked[pc[p]] = "hasold"
      BY <1>9, LockedIs, Zenon
    <3> QED BY <1>9, <3>1, <3>2, Zenon
  <2>2. old[p] \in Inums
    BY <1>2, <1>9, Zenon DEF Shape, NoIp, HasNxt, HasOld, Walks
  <2>3. \A i \in Inums : Holds(p, i) <=> FALSE
    BY <1>2, <1>9, Zenon DEF Holds, Shape, LocksIp, LocksNxt, NoIp, HasNxt, HasOld,
       Walks
  <2>4. Alike(pc[p], "hasold")
    BY <1>9, Zenon DEF Alike, Labels, NoIp, HasNxt, HasOld, Walks
  <2>5. Takes(p, old[p], "hasold")
    BY <1>2, <1>9, <2>1, <2>3, Zenon
    DEF Takes, Shape, LocksIp, LocksNxt, NoIp, HasNxt, HasOld, Walks
  <2> QED BY <1>1, <2>1, <2>2, <2>4, <2>5, LockStep, Zenon
<1> QED BY <1>0, <1>3, <1>4, <1>5, <1>6, <1>7, <1>8, <1>9, Zenon

\* Inside iput().
LEMMA InPut ==
  ASSUME IInv, NEW p \in Procs, pc[p] \in Putting
  PROVE  /\ Shape(p) /\ Locks(p) /\ Domains /\ p # Nil
         /\ put[p] \in Inums /\ at(p) = cont[p] /\ cont[p] \in Labels
         /\ Table(put[p])
<1>1. Shape(p) /\ Locks(p) /\ Domains /\ p # Nil
  BY NilNot, Zenon DEF IInv
<1>2. put[p] \in Inums /\ at(p) = cont[p] /\ cont[p] \in Labels
  BY <1>1, Zenon DEF Shape, at
<1> QED BY <1>1, <1>2, Zenon DEF IInv

\* An inode that a step of p does not write.
LEMMA TableSame ==
  ASSUME IInv, NEW p \in Procs, Others(p), NEW i \in Inums,
         pc[p] = "iput_unlock" => put[p] # i,
         lock'[i] = lock[i], incore'[i] = incore[i], dinode'[i] = dinode[i],
         entries'[i] = entries[i]
  PROVE  Table(i)'
<1>1. Table(i) BY Zenon DEF IInv
<1>2. lock[i] # Nil /\ pc[lock[i]] = "iput_unlock" /\ put[lock[i]] = i
        => pc'[lock[i]] = "iput_unlock" /\ put'[lock[i]] = i
  BY <1>1, Zenon DEF Others, Table
<1> QED BY <1>1, <1>2, Zenon DEF Table

\* A step from one label of iput() to the next, that writes only the inode put.
LEMMA PutStep ==
  ASSUME IInv, NEW p \in Procs, pc[p] \in Putting, NEW k \in Putting,
         pc' = [pc EXCEPT ![p] = k],
         UNCHANGED <<ref, call, rest, ip, nxt, old, put, cont, cwd, file>>,
         DOMAIN dinode' = Inums, DOMAIN entries' = Inums, DOMAIN incore' = Inums,
         DOMAIN lock' = Inums,
         \A i \in Inums \ {put[p]} :
           /\ lock'[i] = lock[i] /\ incore'[i] = incore[i]
           /\ dinode'[i] = dinode[i] /\ entries'[i] = entries[i],
         lock[put[p]] \in {p, Nil}, ~Holds(p, put[p]),
         lock'[put[p]] = IF k \in {"itrunc", "iput_unlock"} THEN p ELSE Nil,
         Table(put[p])'
  PROVE  IInv'
<1>1. /\ Shape(p) /\ Locks(p) /\ Domains /\ p # Nil /\ put[p] \in Inums
      /\ at(p) = cont[p]
  BY InPut, Zenon
<1>2. Domains' /\ Others(p) /\ \A i \in Inums : Own(p, i)' = Own(p, i)
  BY <1>1, Zenon DEF Domains, Others, Own
<1>3. pc'[p] = k /\ at(p)' = cont[p]
  BY <1>1, Zenon DEF Domains, at
<1>4. Shape(p)'
  BY <1>1, <1>3, Zenon DEF Shape, nameiparent, Creates
<1>5. \A i \in Inums : /\ Holds(p, i)' <=> Holds(p, i)
                       /\ Frees(p, i)' <=> i = put[p] /\ k \in {"itrunc", "iput_unlock"}
  BY <1>1, <1>3, Zenon DEF Holds, Frees
<1>6. Locks(p)'
  <2>1. ASSUME NEW i \in Inums
        PROVE  /\ lock'[i] = p <=> Holds(p, i)' \/ Frees(p, i)'
               /\ ~(Holds(p, i)' /\ Frees(p, i)')
    <3>1. CASE i = put[p]
      <4>1. lock'[i] = p <=> k \in {"itrunc", "iput_unlock"}
        BY <1>1, <3>1, Zenon
      <4>2. ~Holds(p, i)' /\ (Frees(p, i)' <=> k \in {"itrunc", "iput_unlock"})
        BY <1>5, <3>1, Zenon
      <4> QED BY <4>1, <4>2, Zenon
    <3>2. CASE i # put[p]
      <4>1. lock'[i] = lock[i] /\ ~Frees(p, i) /\ ~Frees(p, i)'
        BY <1>5, <3>2, Zenon DEF Frees
      <4>2. lock[i] = p <=> Holds(p, i)
        BY <1>1, <4>1, Zenon DEF Locks
      <4> QED BY <1>5, <4>1, <4>2, Zenon
    <3> QED BY <3>1, <3>2, Zenon
  <2> QED BY <1>1, <1>3, <2>1, Zenon DEF Locks
<1>7. \A i \in Inums : ref'[i] = ref[i] + Own(p, i)' - Own(p, i)
  BY <1>2, Balance, Zenon
<1>8. \A i \in Inums : Table(i)'
  <2> TAKE i \in Inums
  <2>1. CASE i = put[p] BY <2>1, Zenon
  <2>2. CASE i # put[p] BY <1>2, <2>2, TableSame, Zenon
  <2> QED BY <2>1, <2>2, Zenon
<1>9. \A i \in Inums : \/ lock'[i] = lock[i]
                       \/ lock[i] \in {p, Nil} /\ lock'[i] \in {p, Nil}
  <2> TAKE i \in Inums
  <2> QED BY Zenon
<1> QED BY <1>2, <1>4, <1>6, <1>7, <1>8, <1>9, Move, Zenon

\* iput() of the last reference takes the lock and keeps the invariant.
LEMMA iput_lock_step ==
  ASSUME IInv, NEW p \in Procs, iput_lock(p)
  PROVE  IInv'
<1>1. pc[p] \in Putting /\ "itrunc" \in Putting
  BY Zenon DEF iput_lock, Putting
<1>2. Locks(p) /\ Domains /\ put[p] \in Inums /\ Table(put[p]) /\ p # Nil
  BY <1>1, InPut, Zenon
<1>3. /\ lock[put[p]] = Nil /\ incore[put[p]] # Nil
      /\ lock' = [lock EXCEPT ![put[p]] = p]
      /\ pc' = [pc EXCEPT ![p] = "itrunc"]
      /\ UNCHANGED <<dinode, entries, incore>>
      /\ UNCHANGED <<ref, call, rest, ip, nxt, old, put, cont, cwd, file>>
  BY Zenon DEF iput_lock, LastPut, diskVars
<1>4. lock'[put[p]] = p /\ \A i \in Inums \ {put[p]} : lock'[i] = lock[i]
  BY <1>2, <1>3, Zenon DEF Domains
<1>5. ~Holds(p, put[p])
  BY <1>2, <1>3, Zenon DEF Locks
<1>6. Table(put[p])'
  BY <1>2, <1>3, <1>4, Zenon DEF Table
<1>7. DOMAIN dinode' = Inums /\ DOMAIN entries' = Inums /\ DOMAIN incore' = Inums
      /\ DOMAIN lock' = Inums
  BY <1>2, <1>3, Zenon DEF Domains
<1> QED BY <1>1, <1>3, <1>4, <1>5, <1>6, <1>7, PutStep, Zenon

\* itrunc() and type = 0 keep the invariant.
LEMMA itrunc_step ==
  ASSUME IInv, NEW p \in Procs, itrunc(p)
  PROVE  IInv'
<1>1. pc[p] \in Putting /\ "iput_unlock" \in Putting
  BY Zenon DEF itrunc, Putting
<1>2. Locks(p) /\ Domains /\ put[p] \in Inums /\ Table(put[p]) /\ p # Nil
  BY <1>1, InPut, Zenon
<1> DEFINE d == [type |-> "free", nlink |-> 0]
<1>3. /\ pc[p] = "itrunc"
      /\ dinode' = [dinode EXCEPT ![put[p]] = d]
      /\ incore' = [incore EXCEPT ![put[p]] = d]
      /\ entries' = [entries EXCEPT ![put[p]] = NoEntries]
      /\ pc' = [pc EXCEPT ![p] = "iput_unlock"] /\ UNCHANGED lock
      /\ UNCHANGED <<ref, call, rest, ip, nxt, old, put, cont, cwd, file>>
  BY Zenon DEF itrunc, Update
<1>4. d \in Dinodes /\ NoEntries \in [AllNames -> Inums \cup {0}]
  BY DEF Dinodes, Types, NoEntries
<1> HIDE DEF d
<1>5. /\ dinode'[put[p]] = d /\ incore'[put[p]] = d /\ entries'[put[p]] = NoEntries
      /\ pc'[p] = "iput_unlock"
      /\ \A i \in Inums \ {put[p]} : /\ incore'[i] = incore[i] /\ dinode'[i] = dinode[i]
                                     /\ entries'[i] = entries[i]
  BY <1>2, <1>3, Zenon DEF Domains
<1>6. lock[put[p]] = p /\ ~Holds(p, put[p])
  BY <1>2, <1>3, Zenon DEF Locks, Frees
<1>7. Table(put[p])'
  <2>1. PICK i \in Inums : i = put[p]
    BY <1>2, Zenon
  <2>2. put'[p] = i /\ lock'[i] = p /\ d # Nil
    BY <1>3, <1>4, <1>6, <2>1, NilNot, Zenon
  <2>3. /\ dinode'[i] = d /\ incore'[i] = d /\ entries'[i] = NoEntries
        /\ pc'[p] = "iput_unlock"
    BY <1>5, <2>1, Zenon
  <2>4. Table(i)'
    BY <1>2, <1>4, <2>2, <2>3, Zenon DEF Table
  <2> QED BY <2>1, <2>2, <2>4, Zenon
<1>8. DOMAIN dinode' = Inums /\ DOMAIN entries' = Inums /\ DOMAIN incore' = Inums
      /\ DOMAIN lock' = Inums
  BY <1>2, <1>3, Zenon DEF Domains
<1> QED BY <1>1, <1>3, <1>5, <1>6, <1>7, <1>8, PutStep, Zenon

\* valid = 0 and releasesleep() keep the invariant.
LEMMA iput_unlock_step ==
  ASSUME IInv, NEW p \in Procs, iput_unlock(p)
  PROVE  IInv'
<1>1. pc[p] \in Putting /\ "iput_drop" \in Putting
      /\ "iput_drop" \notin {"itrunc", "iput_unlock"}
  BY Zenon DEF iput_unlock, Putting
<1>2. Locks(p) /\ Domains /\ put[p] \in Inums /\ Table(put[p]) /\ p # Nil
  BY <1>1, InPut, Zenon
<1>3. /\ pc[p] = "iput_unlock"
      /\ incore' = [incore EXCEPT ![put[p]] = Nil]
      /\ lock' = [lock EXCEPT ![put[p]] = Nil]
      /\ pc' = [pc EXCEPT ![p] = "iput_drop"] /\ UNCHANGED <<dinode, entries>>
      /\ UNCHANGED <<ref, call, rest, ip, nxt, old, put, cont, cwd, file>>
  BY Zenon DEF iput_unlock, iunlock, diskVars
<1>4. /\ incore'[put[p]] = Nil /\ lock'[put[p]] = Nil
      /\ \A i \in Inums \ {put[p]} : incore'[i] = incore[i] /\ lock'[i] = lock[i]
  BY <1>2, <1>3, Zenon DEF Domains
<1>5. lock[put[p]] = p /\ ~Holds(p, put[p])
  BY <1>2, <1>3, Zenon DEF Locks, Frees
<1>6. Table(put[p])'
  BY <1>2, <1>3, <1>4, Zenon DEF Table
<1>7. DOMAIN dinode' = Inums /\ DOMAIN entries' = Inums /\ DOMAIN incore' = Inums
      /\ DOMAIN lock' = Inums
  BY <1>2, <1>3, Zenon DEF Domains
<1> QED BY <1>1, <1>3, <1>4, <1>5, <1>6, <1>7, PutStep, Zenon

\* The reference goes, and the call goes on at cont.
LEMMA DropStep ==
  ASSUME IInv, NEW p \in Procs, pc[p] \in {"iput", "iput_drop"}, Drop(p)
  PROVE  IInv'
<1>0. pc[p] \in Putting
  BY Zenon DEF Putting
<1>1. /\ Shape(p) /\ Locks(p) /\ Domains /\ p # Nil /\ put[p] \in Inums
      /\ at(p) = cont[p] /\ cont[p] \in Labels /\ Table(put[p])
  BY <1>0, InPut, Zenon
<1>2. cont[p] \notin Putting
  BY <1>1, Zenon DEF Labels, NoIp, HasNxt, HasOld, Walks, Putting
<1>3. /\ pc' = [pc EXCEPT ![p] = cont[p]] /\ put' = [put EXCEPT ![p] = Nil]
      /\ cont' = [cont EXCEPT ![p] = Nil]
      /\ ref' = [ref EXCEPT ![put[p]] = ref[put[p]] - 1]
      /\ incore' = [incore EXCEPT ![put[p]] =
                      IF ref[put[p]] = 1 THEN Nil ELSE incore[put[p]]]
      /\ UNCHANGED <<dinode, entries, lock, ip, nxt, old, cwd, file>>
  BY <1>1, Zenon DEF Drop, diskVars, Domains
<1>4. /\ DOMAIN call' = Procs /\ DOMAIN rest' = Procs
      /\ \A q \in Procs \ {p} : call'[q] = call[q] /\ rest'[q] = rest[q]
      /\ cont[p] # "idle" => call'[p] = call[p] /\ rest'[p] = rest[p]
      /\ cont[p] = "idle" => rest'[p] = << >>
  <2>1. CASE cont[p] = "idle"
    <3>1. call' = [call EXCEPT ![p] = Nil] /\ rest' = [rest EXCEPT ![p] = << >>]
      BY <2>1, Zenon DEF Drop, Forget
    <3> QED BY <1>1, <2>1, <3>1, Zenon DEF Domains
  <2>2. CASE cont[p] # "idle"
    <3>1. call' = call /\ rest' = rest
      BY <2>2, Zenon DEF Drop, Forget
    <3> QED BY <1>1, <2>2, <3>1, Zenon DEF Domains
  <2> QED BY <2>1, <2>2, Zenon
<1>5. Domains' /\ Others(p)
  BY <1>1, <1>3, <1>4, Zenon DEF Domains, Others
<1>6. pc'[p] = cont[p] /\ put'[p] = Nil /\ at(p)' = cont[p]
  BY <1>1, <1>2, <1>3, Zenon DEF Domains, at
<1>7. Shape(p)'
  <2>1. CASE cont[p] = "idle"
    BY <1>1, <1>2, <1>3, <1>4, <1>6, <2>1, EmptyPath, Zenon DEF Shape, HasOld, Walks
  <2>2. CASE cont[p] # "idle"
    BY <1>1, <1>2, <1>3, <1>4, <1>6, <2>2, Zenon DEF Shape, nameiparent, Creates
  <2> QED BY <2>1, <2>2, Zenon
<1>8. \A i \in Inums : /\ Holds(p, i)' <=> Holds(p, i)
                       /\ ~Frees(p, i) /\ ~Frees(p, i)'
  BY <1>1, <1>2, <1>3, <1>6, Zenon DEF Holds, Frees, Putting
<1>9. Locks(p)'
  BY <1>1, <1>3, <1>6, <1>8, Zenon DEF Locks
<1>10. ASSUME NEW i \in Inums PROVE ref'[i] = ref[i] + Own(p, i)' - Own(p, i)
  <2>1. ref'[i] = ref[i] - One(put[p], i) /\ ref[i] \in Nat
    <3>1. i = put[p] => ref'[i] = ref[i] - 1
      BY <1>1, <1>3, Zenon DEF Domains
    <3>2. i # put[p] => ref'[i] = ref[i]
      BY <1>1, <1>3, Zenon DEF Domains
    <3>3. ref[i] \in Nat
      BY RefType, Zenon
    <3> QED BY <3>1, <3>2, <3>3 DEF One
  <2>2. One(Nil, i) = 0
    BY NilNot, Zenon DEF One
  <2>3. Own(p, i)' = Sum(ip[p], nxt[p], old[p], Nil, file[p], cwd[p], i)
    BY <1>3, <1>6, Zenon DEF Own
  <2> HIDE DEF One
  <2>4. Own(p, i)' = Own(p, i) - One(put[p], i) /\ Own(p, i) \in Nat
    BY <2>2, <2>3, OneType DEF Sum, Own
  <2>5. One(put[p], i) \in Nat
    BY OneType, Zenon
  <2> QED BY <2>1, <2>4, <2>5
<1>11. ASSUME NEW i \in Inums PROVE Table(i)'
  <2>1. CASE i = put[p] /\ ref[i] = 1
    <3>1. lock[i] = Nil /\ Table(i)
      BY <1>1, <2>1, Alone, Zenon
    <3>2. incore'[i] = Nil /\ UNCHANGED <<dinode, entries, lock>>
      BY <1>1, <1>3, <2>1, Zenon DEF Domains
    <3> QED BY <3>1, <3>2, Zenon DEF Table
  <2>2. CASE ~(i = put[p] /\ ref[i] = 1)
    <3>1. incore'[i] = incore[i] /\ UNCHANGED <<dinode, entries, lock>>
      BY <1>1, <1>3, <2>2, Zenon DEF Domains
    <3> QED BY <1>5, <3>1, TableSame, Zenon
  <2> QED BY <2>1, <2>2, Zenon
<1>12. \A i \in Inums : lock'[i] = lock[i]
  BY <1>3, Zenon
<1> QED BY <1>5, <1>7, <1>9, <1>10, <1>11, <1>12, Move, Zenon

-----------------------------------------------------------------------------
(* The invariant is inductive                                              *)

\* No process is in a call, no file is open, and the table is empty but for the
\* current directories: after mkfs, and after a power failure.
Booted ==
  /\ Domains
  /\ \A p \in Procs :
       /\ pc[p] = "idle" /\ rest[p] \in Seq(AllNames)
       /\ ip[p] = Nil /\ nxt[p] = Nil /\ old[p] = Nil /\ put[p] = Nil
       /\ file[p] = Nil /\ cwd[p] = ROOTINO
  /\ \A i \in Inums :
       /\ dinode[i] \in Dinodes /\ entries[i] \in [AllNames -> Inums \cup {0}]
       /\ incore[i] = Nil /\ lock[i] = Nil
       /\ ref[i] = IF i = ROOTINO THEN Cardinality(Procs) ELSE 0

\* A pointer that no process has.
LEMMA CountNone ==
  ASSUME NEW f, NEW i \in Inums, \A p \in Procs : f[p] # i
  PROVE  Holders(f, i) = 0
<1>1. {p \in Procs : f[p] = i} = {}
  BY Zenon
<1> QED BY <1>1, FS_EmptySet, Zenon DEF Holders

\* A pointer that every process has.
LEMMA CountAll ==
  ASSUME NEW f, NEW i, \A p \in Procs : f[p] = i
  PROVE  Holders(f, i) = Cardinality(Procs)
<1>1. {p \in Procs : f[p] = i} = Procs
  BY Zenon
<1> QED BY <1>1, Zenon DEF Holders

\* The invariant holds after mkfs and after a power failure.
LEMMA BootedInv == Booted => IInv
<1> SUFFICES ASSUME Booted PROVE IInv
  OBVIOUS
<1>0. ROOTINO \in Inums /\ Cardinality(Procs) \in Nat
  BY InodeConstants, FS_CardinalityType DEF ROOTINO, Inums
<1>1. ASSUME NEW p \in Procs PROVE Shape(p) /\ Locks(p)
  <2>1. at(p) = "idle" /\ pc[p] = "idle" /\ p # Nil
    BY NilNot, Zenon DEF Booted, at, Putting
  <2>2. Shape(p)
    BY <1>0, <2>1, Zenon DEF Booted, Shape, Labels, NoIp, HasNxt, HasOld, Walks, Putting
  <2>3. \A i \in Inums : lock[i] # p /\ ~Holds(p, i) /\ ~Frees(p, i)
    BY <2>1, NilNot, Zenon DEF Booted, Holds, Frees
  <2> QED BY <2>1, <2>2, <2>3, Zenon DEF Locks
<1>2. ASSUME NEW i \in Inums PROVE Table(i)
  BY Zenon DEF Booted, Table
<1>3. ASSUME NEW i \in Inums PROVE ref[i] = Pointers(i)
  <2>1. /\ Holders(ip, i) = 0 /\ Holders(nxt, i) = 0 /\ Holders(old, i) = 0
        /\ Holders(put, i) = 0 /\ Holders(file, i) = 0
    <3>1. \A p \in Procs : /\ ip[p] # i /\ nxt[p] # i /\ old[p] # i
                           /\ put[p] # i /\ file[p] # i
      BY NilNot, Zenon DEF Booted
    <3> QED BY <3>1, CountNone, Zenon
  <2>2. Holders(cwd, i) = IF i = ROOTINO THEN Cardinality(Procs) ELSE 0
    <3>1. \A p \in Procs : cwd[p] = ROOTINO
      BY Zenon DEF Booted
    <3>2. CASE i = ROOTINO
      BY <3>1, <3>2, CountAll, Zenon
    <3>3. CASE i # ROOTINO
      <4>1. \A p \in Procs : cwd[p] # i
        BY <3>1, <3>3, Zenon
      <4> QED BY <3>3, <4>1, CountNone, Zenon
    <3> QED BY <3>2, <3>3, Zenon
  <2>3. ref[i] = Holders(cwd, i) /\ Holders(cwd, i) \in Nat
    BY <1>0, <2>2 DEF Booted
  <2> QED BY <2>1, <2>3 DEF Pointers
<1> QED BY <1>1, <1>2, <1>3, Zenon DEF IInv, Booted

\* The same of the next state.
LEMMA BootedNext == Booted' => IInv'
  BY BootedInv, PTL

\* The counts are exact in the file system that mkfs makes.
LEMMA InvInit == Init => IInv
<1> SUFFICES ASSUME Init PROVE Booted
  BY BootedInv, Zenon
<1>0. ROOTINO \in Inums
  BY InodeConstants DEF ROOTINO, Inums
<1>1. Domains
  BY Zenon DEF Init, Domains
<1>2. ASSUME NEW p \in Procs
      PROVE  /\ pc[p] = "idle" /\ rest[p] \in Seq(AllNames)
             /\ ip[p] = Nil /\ nxt[p] = Nil /\ old[p] = Nil /\ put[p] = Nil
             /\ file[p] = Nil /\ cwd[p] = ROOTINO
  BY EmptyPath, Zenon DEF Init
<1>3. ASSUME NEW i \in Inums
      PROVE  /\ incore[i] = Nil /\ lock[i] = Nil
             /\ ref[i] = IF i = ROOTINO THEN Cardinality(Procs) ELSE 0
  BY Zenon DEF Init
<1>4. ASSUME NEW i \in Inums PROVE dinode[i] \in Dinodes
  <2>1. dinode[i] \in {[type |-> "dir", nlink |-> 1], [type |-> "free", nlink |-> 0]}
    BY Zenon DEF Init
  <2>2. /\ [type |-> "dir", nlink |-> 1] \in Dinodes
        /\ [type |-> "free", nlink |-> 0] \in Dinodes
    BY DEF Dinodes, Types
  <2> QED BY <2>1, <2>2, Zenon
<1>5. ASSUME NEW i \in Inums PROVE entries[i] \in [AllNames -> Inums \cup {0}]
  <2>1. NoEntries \in [AllNames -> Inums \cup {0}]
    BY Zenon DEF NoEntries
  <2>2. [NoEntries EXCEPT !["."] = ROOTINO, ![".."] = ROOTINO]
          \in [AllNames -> Inums \cup {0}]
    <3> DEFINE e == [NoEntries EXCEPT !["."] = ROOTINO]
    <3>1. e \in [AllNames -> Inums \cup {0}]
      BY <1>0, <2>1, Zenon
    <3> HIDE DEF e
    <3>2. [e EXCEPT ![".."] = ROOTINO]
          \in [AllNames -> Inums \cup {0}]
      BY <1>0, <3>1, Zenon
    <3> QED BY <3>2, Zenon DEF e
  <2>3. \/ entries[i] = NoEntries
        \/ entries[i] = [NoEntries EXCEPT !["."] = ROOTINO, ![".."] = ROOTINO]
    BY Zenon DEF Init
  <2> QED BY <2>1, <2>2, <2>3, Zenon
<1> QED BY <1>1, <1>2, <1>3, <1>4, <1>5, Zenon DEF Booted

\* A power failure keeps the invariant.
LEMMA crash_step ==
  ASSUME IInv, crash
  PROVE  IInv'
<1>1. Domains'
  BY Zenon DEF IInv, Domains, crash, diskVars
<1>2. ASSUME NEW p \in Procs
      PROVE  /\ pc'[p] = "idle" /\ rest'[p] \in Seq(AllNames)
             /\ ip'[p] = Nil /\ nxt'[p] = Nil /\ old'[p] = Nil /\ put'[p] = Nil
             /\ file'[p] = Nil /\ cwd'[p] = ROOTINO
  <2>1. pc[p] = "idle" /\ Shape(p)
    BY Zenon DEF IInv, crash
  <2>2. ip[p] = Nil /\ nxt[p] = Nil /\ old[p] = Nil /\ put[p] = Nil
    BY <2>1, Idle, Zenon
  <2> QED BY <2>1, <2>2, Zenon DEF crash, Shape
<1>3. ASSUME NEW i \in Inums
      PROVE  /\ dinode'[i] \in Dinodes /\ entries'[i] \in [AllNames -> Inums \cup {0}]
             /\ incore'[i] = Nil /\ lock'[i] = Nil
             /\ ref'[i] = IF i = ROOTINO THEN Cardinality(Procs) ELSE 0
  <2>1. Table(i)
    BY Zenon DEF IInv
  <2>2. lock[i] = Nil
    BY <2>1, Idle, Zenon DEF Table, crash
  <2> QED BY <2>1, <2>2, Zenon DEF crash, diskVars, Table
<1>4. Booted'
  BY <1>1, <1>2, <1>3, Zenon DEF Booted
<1> QED BY <1>4, BootedNext, Zenon

\* Every step of every process, and a power failure, keep the invariant.
LEMMA InvNext == IInv /\ [Next]_vars => IInv'
<1> SUFFICES ASSUME IInv, [Next]_vars PROVE IInv'
  OBVIOUS
<1>1. CASE UNCHANGED vars
  <2>1. UNCHANGED <<dinode, entries, ref, incore, lock, pc, call, rest, ip, nxt, old,
                    put, cont, cwd, file>>
    BY <1>1, Zenon DEF vars, diskVars, tableVars, procVars
  <2>2. Domains' /\ \A i \in Inums : Table(i)'
    BY <2>1, Zenon DEF IInv, Domains, Table
  <2>3. \A p \in Procs : Shape(p)'
    <3> TAKE p \in Procs
    <3>1. at(p)' = at(p) /\ Shape(p)
      BY <2>1, Zenon DEF IInv, at
    <3> QED BY <2>1, <3>1, Zenon DEF Shape, nameiparent, Creates
  <2>4. \A p \in Procs : Locks(p)'
    <3> TAKE p \in Procs
    <3>1. at(p)' = at(p) /\ Locks(p)
      BY <2>1, Zenon DEF IInv, at
    <3>2. \A i \in Inums : /\ (Holds(p, i)' <=> Holds(p, i))
                           /\ (Frees(p, i)' <=> Frees(p, i))
      BY <2>1, <3>1, Zenon DEF Holds, Frees
    <3> QED BY <2>1, <3>1, <3>2, Zenon DEF Locks
  <2>5. \A i \in Inums : ref'[i] = Pointers(i)'
    BY <2>1, Zenon DEF IInv, Pointers, Holders
  <2> QED BY <2>2, <2>3, <2>4, <2>5, Zenon DEF IInv
<1>2. ASSUME NEW p \in Procs, Step(p) PROVE IInv'
  <2>1. CASE ilock(p) BY <2>1, ilock_step, Zenon
  <2>2. CASE iput(p) BY <2>2, DropStep, Zenon DEF iput
  <2>3. CASE iput_lock(p) BY <2>3, iput_lock_step, Zenon
  <2>4. CASE itrunc(p) BY <2>4, itrunc_step, Zenon
  <2>5. CASE iput_unlock(p) BY <2>5, iput_unlock_step, Zenon
  <2>6. CASE iput_drop(p) BY <2>6, DropStep, Zenon DEF iput_drop
  <2>7. CASE namex_found(p) BY <2>7, namex_found_step, Zenon
  <2>8. CASE namex_noparent(p) BY <2>8, namex_noparent_step, Zenon
  <2>9. CASE namex_parent(p) BY <2>9, namex_parent_step, Zenon
  <2>10. CASE namex_fail(p) BY <2>10, namex_fail_step, Zenon
  <2>11. CASE namex_next(p) BY <2>11, namex_next_step, Zenon
  <2>12. CASE iunlockput(p) BY <2>12, iunlockput_step, Zenon
  <2>13. CASE sys_open(p) BY <2>13, sys_open_step, Zenon
  <2>14. CASE sys_chdir(p) BY <2>14, sys_chdir_step, Zenon
  <2>15. CASE create_exists(p) BY <2>15, create_exists_step, Zenon
  <2>16. CASE create_existing(p) BY <2>16, create_existing_step, Zenon
  <2>17. CASE ialloc(p) BY <2>17, ialloc_step, Zenon
  <2>18. CASE create(p) BY <2>18, create_step, Zenon
  <2>19. CASE link_inc(p) BY <2>19, link_inc_step, Zenon
  <2>20. CASE link_entry(p) BY <2>20, link_entry_step, Zenon
  <2>21. CASE link_exists(p) BY <2>21, link_exists_step, Zenon
  <2>22. CASE link_fail(p) BY <2>22, link_fail_step, Zenon
  <2>23. CASE link_dec(p) BY <2>23, link_dec_step, Zenon
  <2>24. CASE link_return(p) BY <2>24, link_return_step, Zenon
  <2>25. CASE unlink_lookup(p) BY <2>25, unlink_lookup_step, Zenon
  <2>26. CASE unlink_inuse(p) BY <2>26, unlink_inuse_step, Zenon
  <2>27. CASE unlink_fail(p) BY <2>27, unlink_fail_step, Zenon
  <2>28. CASE unlink_entry(p) BY <2>28, unlink_entry_step, Zenon
  <2>29. CASE unlink_dec(p) BY <2>29, unlink_dec_step, Zenon
  <2> QED
    BY <1>2, <2>1, <2>2, <2>3, <2>4, <2>5, <2>6, <2>7, <2>8, <2>9, <2>10, <2>11,
       <2>12, <2>13, <2>14, <2>15, <2>16, <2>17, <2>18, <2>19, <2>20, <2>21, <2>22,
       <2>23, <2>24, <2>25, <2>26, <2>27, <2>28, <2>29, Zenon
    DEF Step
<1>3. ASSUME NEW p \in Procs, NEW c \in Calls[p], syscall(p, c) PROVE IInv'
  BY <1>3, syscall_step, Zenon
<1>4. ASSUME NEW p \in Procs, fileclose(p) PROVE IInv'
  BY <1>4, fileclose_step, Zenon
<1>5. CASE crash
  BY <1>5, crash_step, Zenon
<1> QED BY <1>1, <1>2, <1>3, <1>4, <1>5, Zenon DEF Next

-----------------------------------------------------------------------------
(* Theorems                                                                *)

\* In every execution of the calls on paths, what a process points to and has locked
\* is decided by where it is in its call, a locked inode has a valid copy, a valid
\* copy is what iupdate() has written, and the counts are exact.
THEOREM InodeInvariant == Spec => []IInv
<1> QED BY InvInit, InvNext, PTL DEF Spec

\* ip->ref counts the pointers to the inode at every moment, whatever the paths, the
\* error returns and the interleavings of the calls; so iput() that meets ref == 1
\* never waits for the sleep lock while it holds itable.lock, and the copy of an
\* inode that nobody has locked is the inode on disk.
THEOREM InodeRefExact == Spec => []RefExact
<1>1. IInv => RefExact
  <2> SUFFICES ASSUME IInv PROVE RefExact
    OBVIOUS
  <2>1. PutNeverBlocks
    BY Alone, Zenon DEF PutNeverBlocks, LastPut
  <2>2. CacheCoherent
    BY Zenon DEF IInv, Table, CacheCoherent
  <2> QED BY <2>1, <2>2, Zenon DEF RefExact, IInv, Pointers
<1> QED BY <1>1, InodeInvariant, PTL
=============================================================================
