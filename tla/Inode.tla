------------------------------- MODULE Inode -------------------------------
(***************************************************************************)
(* Inodes, directories and the system calls on paths: the inode table and  *)
(* path walk of fs.c (iget, idup, ilock, iunlock, iput, ialloc, iupdate,   *)
(* dirlookup, dirlink, namex), the system calls of sysfile.c that use them *)
(* (open, mkdir, mknod, link, unlink, chdir) and the closing of a file in  *)
(* file.c.                                                                 *)
(*                                                                         *)
(* A process holds at most two inodes locked at a time and everything it   *)
(* does between an ilock() and the next lock, unlock or put is one action: *)
(* the locks protect what it touches.  A table entry is identified with    *)
(* the inode it is for, a path with the sequence of its elements, and the  *)
(* contents of a directory with a function from names to inode numbers.    *)
(* The contents of files, and the transaction around every call, which Log *)
(* models, are left out.  A process has one file open at most.             *)
(***************************************************************************)
EXTENDS Integers, Sequences, FiniteSets, FiniteSetsExt

CONSTANTS Procs,
          Names,     \* names of directory entries
          NINODES,   \* number of inodes on disk; 1 is the root directory
          NINODE,    \* number of entries of the inode table
          Calls,     \* system calls that each process makes
          Nil

\* A call: op, path, and the new path of link().  abs: the path begins with /.
CallRecords == [op : {"open", "create", "mkdir", "mknod", "link", "unlink", "chdir"},
                abs : BOOLEAN,
                path : Seq(Names \cup {"."} \cup {".."}),
                new : Seq(Names \cup {"."} \cup {".."})]

Inums == 1 .. NINODES
ROOTINO == 1
Types == {"free", "file", "dir", "device"}

\* There are at most NPROC processes; Nil is no process, inode number or dinode.
ASSUME InodeConstants ==
  /\ NINODES \in Nat \ {0} /\ NINODE \in Nat \ {0}
  /\ IsFiniteSet(Procs)
  /\ Calls \in [Procs -> SUBSET CallRecords]
  /\ {".", ".."} \cap Names = {}
  /\ Nil \notin Inums /\ Nil \notin Procs /\ Nil \notin [type : Types, nlink : Int]

AllNames == Names \cup {".", ".."}
NoEntries == [n \in AllNames |-> 0]

VARIABLES
  dinode,   \* struct dinode of every inode on disk: type and nlink
  entries,  \* contents of the directories; 0: no such entry
  ref,      \* inode table: references
  incore,   \* inode table: copy of type and nlink, Nil when not valid
  lock,     \* inode table: process that holds the sleep lock, or Nil
  pc,       \* where the process is in its call
  call,     \* the call
  rest,     \* rest of the path, in namex()
  ip, nxt,  \* inodes the call refers to: the one it has walked to, the one found
  old,      \* the inode that link() makes a new name for
  put,      \* argument of iput()
  cont,     \* where iput() returns to
  cwd, file \* current directory; inode of the open file

diskVars == <<dinode, entries>>
tableVars == <<ref, incore, lock>>
procVars == <<pc, call, rest, ip, nxt, old, put, cont, cwd, file>>
vars == <<diskVars, tableVars, procVars>>

\* The file system of mkfs with an empty root directory; userinit() has made it
\* the current directory of the first process, and fork() of the others.
Init ==
  /\ dinode = [i \in Inums |-> IF i = ROOTINO THEN [type |-> "dir", nlink |-> 1]
                               ELSE [type |-> "free", nlink |-> 0]]
  /\ entries = [i \in Inums |-> IF i = ROOTINO
                  THEN [NoEntries EXCEPT !["."] = ROOTINO, ![".."] = ROOTINO]
                  ELSE NoEntries]
  /\ ref = [i \in Inums |-> IF i = ROOTINO THEN Cardinality(Procs) ELSE 0]
  /\ incore = [i \in Inums |-> Nil]
  /\ lock = [i \in Inums |-> Nil]
  /\ pc = [p \in Procs |-> "idle"]
  /\ call = [p \in Procs |-> Nil]
  /\ rest = [p \in Procs |-> << >>]
  /\ ip = [p \in Procs |-> Nil] /\ nxt = [p \in Procs |-> Nil]
  /\ old = [p \in Procs |-> Nil]
  /\ put = [p \in Procs |-> Nil] /\ cont = [p \in Procs |-> Nil]
  /\ cwd = [p \in Procs |-> ROOTINO]
  /\ file = [p \in Procs |-> Nil]

-----------------------------------------------------------------------------
(* The inode table                                                         *)

\* iget() finds the entry of inode i or takes an unused one, and panics if there
\* is none.
HasEntry(i) == ref[i] > 0 \/ Cardinality({j \in Inums : ref[j] > 0}) < NINODE
iget(i) == HasEntry(i) /\ ref' = [ref EXCEPT ![i] = @ + 1]

idup(i) == ref' = [ref EXCEPT ![i] = @ + 1]

\* iupdate(): the new state d of a locked inode goes to the disk, too.
Update(i, d) ==
  /\ incore' = [incore EXCEPT ![i] = d]
  /\ dinode' = [dinode EXCEPT ![i] = d]

\* The processes that wait in ilock(), and for what.
Wants(p) ==
  CASE pc[p] \in {"walk", "found", "parent"} -> ip[p]
    [] pc[p] \in {"child", "fresh", "existing"} -> nxt[p]
    [] pc[p] = "bad" -> old[p]
    [] OTHER -> Nil

Locked == [walk |-> "walking", found |-> "have", parent |-> "inparent",
           child |-> "haschild", fresh |-> "hasfresh", existing |-> "hasexisting",
           bad |-> "hasold"]

\* At the end of a path namex() takes no lock.
NeedsLock(p) == Wants(p) # Nil /\ (pc[p] = "walk" => rest[p] # << >>)

\* ilock(): acquiresleep(), and the inode is read if the copy is not valid.
ilock(p) ==
  /\ NeedsLock(p)
  /\ LET i == Wants(p) IN
     /\ lock[i] = Nil
     /\ incore[i] = Nil => dinode[i].type # "free"     \* or panic: no type
     /\ lock' = [lock EXCEPT ![i] = p]
     /\ incore' = [incore EXCEPT ![i] = IF @ = Nil THEN dinode[i] ELSE @]
  /\ pc' = [pc EXCEPT ![p] = Locked[@]]
  /\ UNCHANGED <<diskVars, ref, call, rest, ip, nxt, old, put, cont, cwd, file>>

iunlock(i) == lock' = [lock EXCEPT ![i] = Nil]

\* The call goes on with iput(i), and then at k.
Put(p, i, k) ==
  /\ pc' = [pc EXCEPT ![p] = "iput"]
  /\ put' = [put EXCEPT ![p] = i]
  /\ cont' = [cont EXCEPT ![p] = k]

\* Mutant: other references are ignored.
LastPut_any(i) == incore[i] # Nil /\ incore[i].nlink = 0

\* The last reference to an inode without links is about to go.
LastPut(i) == ref[i] = 1 /\ incore[i] # Nil /\ incore[i].nlink = 0

\* A call that goes on at k = "idle" has returned.
Forget(p, k) ==
  /\ call' = IF k = "idle" THEN [call EXCEPT ![p] = Nil] ELSE call
  /\ rest' = IF k = "idle" THEN [rest EXCEPT ![p] = << >>] ELSE rest

\* ref--, and the return of iput().  An entry without references is recycled with
\* valid = 0.
Drop(p) ==
  /\ ref' = [ref EXCEPT ![put[p]] = @ - 1]
  /\ incore' = [incore EXCEPT ![put[p]] = IF ref[put[p]] = 1 THEN Nil ELSE @]
  /\ put' = [put EXCEPT ![p] = Nil]
  /\ cont' = [cont EXCEPT ![p] = Nil]
  /\ pc' = [pc EXCEPT ![p] = cont[p]]
  /\ Forget(p, cont[p])
  /\ UNCHANGED <<diskVars, lock, ip, nxt, old, cwd, file>>

\* iput() with other references or links.
iput(p) == pc[p] = "iput" /\ ~LastPut(put[p]) /\ Drop(p)

\* iput() of the last reference, under itable.lock: acquiresleep().
iput_lock(p) ==
  /\ pc[p] = "iput" /\ LastPut(put[p])
  /\ lock[put[p]] = Nil
  /\ lock' = [lock EXCEPT ![put[p]] = p]
  /\ pc' = [pc EXCEPT ![p] = "itrunc"]
  /\ UNCHANGED <<diskVars, ref, incore, call, rest, ip, nxt, old, put, cont, cwd, file>>

\* itrunc(), type = 0, iupdate()
itrunc(p) ==
  /\ pc[p] = "itrunc"
  /\ Update(put[p], [type |-> "free", nlink |-> 0])
  /\ entries' = [entries EXCEPT ![put[p]] = NoEntries]
  /\ pc' = [pc EXCEPT ![p] = "iput_unlock"]
  /\ UNCHANGED <<ref, lock, call, rest, ip, nxt, old, put, cont, cwd, file>>

\* valid = 0; releasesleep()
iput_unlock(p) ==
  /\ pc[p] = "iput_unlock"
  /\ incore' = [incore EXCEPT ![put[p]] = Nil]
  /\ iunlock(put[p])
  /\ pc' = [pc EXCEPT ![p] = "iput_drop"]
  /\ UNCHANGED <<diskVars, ref, call, rest, ip, nxt, old, put, cont, cwd, file>>

iput_drop(p) == pc[p] = "iput_drop" /\ Drop(p)

-----------------------------------------------------------------------------
(* Paths: namex()                                                          *)

dirlookup(d, n) == entries[d][n]

Creates(p) == call[p].op \in {"create", "mkdir", "mknod"}
nameiparent(p) == Creates(p) \/ call[p].op = "unlink" \/ old[p] # Nil

\* namex() begins at the root or at the current directory.
WalkFrom(p, c, path) ==
  LET i == IF c.abs THEN ROOTINO ELSE cwd[p] IN
  /\ IF c.abs THEN iget(i) ELSE idup(i)
  /\ ip' = [ip EXCEPT ![p] = i]
  /\ rest' = [rest EXCEPT ![p] = path]
  /\ pc' = [pc EXCEPT ![p] = "walk"]

\* A process makes system call c, and enters namex().
syscall(p, c) ==
  /\ pc[p] = "idle"
  /\ c.op \in {"open", "create"} => file[p] = Nil
  /\ call' = [call EXCEPT ![p] = c]
  /\ WalkFrom(p, c, c.path)
  /\ UNCHANGED <<diskVars, incore, lock, nxt, old, put, cont, cwd, file>>

\* Where a call goes on when a path does not exist.
NoPath(p) == IF old[p] # Nil THEN "bad" ELSE "idle"

\* The path is at its end: namei() has found the inode.
namex_found(p) ==
  /\ pc[p] = "walk" /\ rest[p] = << >> /\ ~nameiparent(p)
  /\ pc' = [pc EXCEPT ![p] = "found"]
  /\ UNCHANGED <<diskVars, tableVars, call, rest, ip, nxt, old, put, cont, cwd, file>>

\* nameiparent() of a path without elements.
namex_noparent(p) ==
  /\ pc[p] = "walk" /\ rest[p] = << >> /\ nameiparent(p)
  /\ Put(p, ip[p], NoPath(p))
  /\ ip' = [ip EXCEPT ![p] = Nil]
  /\ UNCHANGED <<diskVars, tableVars, call, rest, nxt, old, cwd, file>>

\* Stop one level early.
AtParent(p) == nameiparent(p) /\ Len(rest[p]) = 1

namex_parent(p) ==
  /\ pc[p] = "walking" /\ incore[ip[p]].type = "dir" /\ AtParent(p)
  /\ iunlock(ip[p])
  /\ pc' = [pc EXCEPT ![p] = "parent"]
  /\ UNCHANGED <<diskVars, ref, incore, call, rest, ip, nxt, old, put, cont, cwd, file>>

namex_fail(p) ==
  /\ pc[p] = "walking"
  /\ \/ incore[ip[p]].type # "dir"
     \/ ~AtParent(p) /\ dirlookup(ip[p], Head(rest[p])) = 0
  /\ iunlock(ip[p])
  /\ Put(p, ip[p], NoPath(p))
  /\ ip' = [ip EXCEPT ![p] = Nil]
  /\ UNCHANGED <<diskVars, ref, incore, call, rest, nxt, old, cwd, file>>

\* The next inode is referenced before the directory is unlocked and put.
namex_next(p) ==
  /\ pc[p] = "walking" /\ incore[ip[p]].type = "dir" /\ ~AtParent(p)
  /\ LET next == dirlookup(ip[p], Head(rest[p])) IN
     /\ next # 0
     /\ iget(next)
     /\ ip' = [ip EXCEPT ![p] = next]
  /\ iunlock(ip[p])
  /\ Put(p, ip[p], "walk")
  /\ rest' = [rest EXCEPT ![p] = Tail(@)]
  /\ UNCHANGED <<diskVars, incore, call, nxt, old, cwd, file>>

-----------------------------------------------------------------------------
(* System calls, once the path has been walked                             *)

\* The calls that give the locked inode up: open() of a directory for writing, or
\* without a free file or descriptor; mkdir() and mknod() at their end; link() of
\* a directory; chdir() to something else.
GivesUp(p) ==
  \/ call[p].op \in {"open", "create", "mkdir", "mknod"}
  \/ call[p].op = "link" /\ incore[ip[p]].type = "dir"
  \/ call[p].op = "chdir" /\ incore[ip[p]].type # "dir"

iunlockput(p) ==
  /\ pc[p] = "have" /\ GivesUp(p)
  /\ iunlock(ip[p])
  /\ Put(p, ip[p], "idle")
  /\ ip' = [ip EXCEPT ![p] = Nil]
  /\ UNCHANGED <<diskVars, ref, incore, call, rest, nxt, old, cwd, file>>

\* open() keeps its reference in the open file.
sys_open(p) ==
  /\ pc[p] = "have" /\ call[p].op \in {"open", "create"}
  /\ iunlock(ip[p])
  /\ file' = [file EXCEPT ![p] = ip[p]]
  /\ ip' = [ip EXCEPT ![p] = Nil]
  /\ pc' = [pc EXCEPT ![p] = "idle"]
  /\ Forget(p, "idle")
  /\ UNCHANGED <<diskVars, ref, incore, nxt, old, put, cont, cwd>>

fileclose(p) ==
  /\ pc[p] = "idle" /\ file[p] # Nil
  /\ Put(p, file[p], "idle")
  /\ file' = [file EXCEPT ![p] = Nil]
  /\ UNCHANGED <<diskVars, tableVars, call, rest, ip, nxt, old, cwd>>

sys_chdir(p) ==
  /\ pc[p] = "have" /\ call[p].op = "chdir" /\ incore[ip[p]].type = "dir"
  /\ iunlock(ip[p])
  /\ Put(p, cwd[p], "idle")
  /\ cwd' = [cwd EXCEPT ![p] = ip[p]]
  /\ ip' = [ip EXCEPT ![p] = Nil]
  /\ UNCHANGED <<diskVars, ref, incore, call, rest, nxt, old, file>>

\* The parent is locked; the last element of the path.
name(p) == Head(rest[p])
Exists(p) == dirlookup(ip[p], name(p)) # 0

create_exists(p) ==
  /\ pc[p] = "inparent" /\ Creates(p) /\ Exists(p)
  /\ iget(dirlookup(ip[p], name(p)))
  /\ nxt' = [nxt EXCEPT ![p] = dirlookup(ip[p], name(p))]
  /\ iunlock(ip[p])
  /\ Put(p, ip[p], "existing")
  /\ ip' = [ip EXCEPT ![p] = Nil]
  /\ UNCHANGED <<diskVars, incore, call, rest, old, cwd, file>>

\* Only open() accepts what is there, and only a file or a device.
create_existing(p) ==
  /\ pc[p] = "hasexisting"
  /\ nxt' = [nxt EXCEPT ![p] = Nil]
  /\ IF call[p].op = "create" /\ incore[nxt[p]].type \in {"file", "device"}
       THEN /\ ip' = [ip EXCEPT ![p] = nxt[p]]
            /\ pc' = [pc EXCEPT ![p] = "have"]
            /\ UNCHANGED <<lock, put, cont>>
       ELSE /\ iunlock(nxt[p])
            /\ Put(p, nxt[p], "idle")
            /\ UNCHANGED ip
  /\ UNCHANGED <<diskVars, ref, incore, call, rest, old, cwd, file>>

NewType(p) == CASE call[p].op = "create" -> "file" [] call[p].op = "mkdir" -> "dir"
                [] OTHER -> "device"

\* ialloc() takes the first free inode, and panics if there is none.
FreeInums == {i \in Inums : dinode[i].type = "free"}
ialloc(p) ==
  /\ pc[p] = "inparent" /\ Creates(p) /\ ~Exists(p)
  /\ FreeInums # {}
  /\ LET i == Min(FreeInums) IN
     /\ dinode' = [dinode EXCEPT ![i] = [type |-> NewType(p), nlink |-> 0]]
     /\ iget(i)
     /\ nxt' = [nxt EXCEPT ![p] = i]
  /\ pc' = [pc EXCEPT ![p] = "fresh"]
  /\ UNCHANGED <<entries, incore, lock, call, rest, ip, old, put, cont, cwd, file>>

\* The new inode i gets its name in dp; a directory, its own first entries.
create(p) ==
  /\ pc[p] = "hasfresh"
  /\ LET i == nxt[p]
         dp == ip[p]
         isdir == incore[i].type = "dir"
         parent == [incore[dp] EXCEPT !.nlink = IF isdir THEN @ + 1 ELSE @]
         inode == [incore[i] EXCEPT !.nlink = 1]
     IN  /\ incore' = [incore EXCEPT ![dp] = parent, ![i] = inode]
         /\ dinode' = [dinode EXCEPT ![dp] = parent, ![i] = inode]
         /\ entries' = [entries EXCEPT
              ![dp][name(p)] = i,
              ![i] = IF isdir THEN [@ EXCEPT !["."] = i, ![".."] = dp] ELSE @]
         /\ iunlock(dp)
         /\ Put(p, dp, "have")
         /\ ip' = [ip EXCEPT ![p] = i]
         /\ nxt' = [nxt EXCEPT ![p] = Nil]
  /\ UNCHANGED <<ref, call, rest, old, cwd, file>>

\* link(): the link count goes up by n first; then the new path is walked.
LinkInc(p, n) ==
  /\ pc[p] = "have" /\ call[p].op = "link" /\ incore[ip[p]].type # "dir"
  /\ Update(ip[p], [incore[ip[p]] EXCEPT !.nlink = @ + n])
  /\ iunlock(ip[p])
  /\ old' = [old EXCEPT ![p] = ip[p]]
  /\ WalkFrom(p, call[p], call[p].new)
  /\ UNCHANGED <<entries, call, nxt, put, cont, cwd, file>>

\* Mutant: the link count is left alone.
link_inc_none(p) == LinkInc(p, 0)

link_inc(p) == LinkInc(p, 1)

\* dirlink() writes the entry.
link_entry(p) ==
  /\ pc[p] = "inparent" /\ call[p].op = "link" /\ ~Exists(p)
  /\ entries' = [entries EXCEPT ![ip[p]][name(p)] = old[p]]
  /\ iunlock(ip[p])
  /\ Put(p, ip[p], "linked")
  /\ ip' = [ip EXCEPT ![p] = Nil]
  /\ UNCHANGED <<dinode, ref, incore, call, rest, nxt, old, cwd, file>>

\* Mutant: the inode that dirlookup() returned is not put.
link_exists_leak(p) ==
  /\ pc[p] = "inparent" /\ call[p].op = "link" /\ Exists(p)
  /\ iget(dirlookup(ip[p], name(p)))
  /\ pc' = [pc EXCEPT ![p] = "nolink"]
  /\ UNCHANGED <<diskVars, incore, lock, call, rest, ip, nxt, old, put, cont, cwd, file>>

\* dirlink() finds an entry of that name, and puts its inode.
link_exists(p) ==
  /\ pc[p] = "inparent" /\ call[p].op = "link" /\ Exists(p)
  /\ iget(dirlookup(ip[p], name(p)))
  /\ Put(p, dirlookup(ip[p], name(p)), "nolink")
  /\ UNCHANGED <<diskVars, incore, lock, call, rest, ip, nxt, old, cwd, file>>

link_fail(p) ==
  /\ pc[p] = "nolink"
  /\ iunlock(ip[p])
  /\ Put(p, ip[p], "bad")
  /\ ip' = [ip EXCEPT ![p] = Nil]
  /\ UNCHANGED <<diskVars, ref, incore, call, rest, nxt, old, cwd, file>>

\* bad: the link count goes down again.
link_dec(p) ==
  /\ pc[p] = "hasold"
  /\ Update(old[p], [incore[old[p]] EXCEPT !.nlink = @ - 1])
  /\ iunlock(old[p])
  /\ Put(p, old[p], "idle")
  /\ old' = [old EXCEPT ![p] = Nil]
  /\ UNCHANGED <<entries, ref, call, rest, ip, nxt, cwd, file>>

link_return(p) ==
  /\ pc[p] = "linked"
  /\ Put(p, old[p], "idle")
  /\ old' = [old EXCEPT ![p] = Nil]
  /\ UNCHANGED <<diskVars, tableVars, call, rest, ip, nxt, cwd, file>>

Dots == {".", ".."}

\* unlink() locks the inode while it holds the parent.
unlink_lookup(p) ==
  /\ pc[p] = "inparent" /\ call[p].op = "unlink" /\ name(p) \notin Dots /\ Exists(p)
  /\ iget(dirlookup(ip[p], name(p)))
  /\ nxt' = [nxt EXCEPT ![p] = dirlookup(ip[p], name(p))]
  /\ pc' = [pc EXCEPT ![p] = "child"]
  /\ UNCHANGED <<diskVars, incore, lock, call, rest, ip, old, put, cont, cwd, file>>

isdirempty(d) == \A n \in Names : entries[d][n] = 0
InUse(p) == incore[nxt[p]].type = "dir" /\ ~isdirempty(nxt[p])

unlink_inuse(p) ==
  /\ pc[p] = "haschild" /\ InUse(p)
  /\ iunlock(nxt[p])
  /\ Put(p, nxt[p], "nounlink")
  /\ nxt' = [nxt EXCEPT ![p] = Nil]
  /\ UNCHANGED <<diskVars, ref, incore, call, rest, ip, old, cwd, file>>

\* Mutant: iput(dp) for iunlockput(dp).
unlink_fail_locked(p) ==
  /\ \/ pc[p] = "inparent" /\ call[p].op = "unlink" /\ (name(p) \in Dots \/ ~Exists(p))
     \/ pc[p] = "nounlink"
  /\ Put(p, ip[p], "idle")
  /\ ip' = [ip EXCEPT ![p] = Nil]
  /\ UNCHANGED <<diskVars, tableVars, call, rest, nxt, old, cwd, file>>

\* bad: iunlockput(dp)
unlink_fail(p) ==
  /\ \/ pc[p] = "inparent" /\ call[p].op = "unlink" /\ (name(p) \in Dots \/ ~Exists(p))
     \/ pc[p] = "nounlink"
  /\ iunlock(ip[p])
  /\ Put(p, ip[p], "idle")
  /\ ip' = [ip EXCEPT ![p] = Nil]
  /\ UNCHANGED <<diskVars, ref, incore, call, rest, nxt, old, cwd, file>>

\* The entry is erased, the parent unlocked and put, the inode still locked.  The
\* parent of a directory loses the link of "..".
unlink_entry(p) ==
  /\ pc[p] = "haschild" /\ ~InUse(p)
  /\ incore[nxt[p]].nlink >= 1                   \* or panic
  /\ entries' = [entries EXCEPT ![ip[p]][name(p)] = 0]
  /\ IF incore[nxt[p]].type = "dir"
       THEN Update(ip[p], [incore[ip[p]] EXCEPT !.nlink = @ - 1])
       ELSE UNCHANGED <<dinode, incore>>
  /\ iunlock(ip[p])
  /\ Put(p, ip[p], "unlinked")
  /\ ip' = [ip EXCEPT ![p] = nxt[p]]
  /\ nxt' = [nxt EXCEPT ![p] = Nil]
  /\ UNCHANGED <<ref, call, rest, old, cwd, file>>

unlink_dec(p) ==
  /\ pc[p] = "unlinked"
  /\ Update(ip[p], [incore[ip[p]] EXCEPT !.nlink = @ - 1])
  /\ iunlock(ip[p])
  /\ Put(p, ip[p], "idle")
  /\ ip' = [ip EXCEPT ![p] = Nil]
  /\ UNCHANGED <<entries, ref, call, rest, nxt, old, cwd, file>>

-----------------------------------------------------------------------------
(* A step of a call that has begun *)
Step(p) ==
  \/ ilock(p)
  \/ iput(p) \/ iput_lock(p) \/ itrunc(p) \/ iput_unlock(p) \/ iput_drop(p)
  \/ namex_found(p) \/ namex_noparent(p) \/ namex_parent(p) \/ namex_fail(p)
  \/ namex_next(p)
  \/ iunlockput(p) \/ sys_open(p) \/ sys_chdir(p)
  \/ create_exists(p) \/ create_existing(p) \/ ialloc(p) \/ create(p)
  \/ link_inc(p) \/ link_entry(p) \/ link_exists(p) \/ link_fail(p)
  \/ link_dec(p) \/ link_return(p)
  \/ unlink_lookup(p) \/ unlink_inuse(p) \/ unlink_fail(p) \/ unlink_entry(p)
  \/ unlink_dec(p)

\* A power failure: the tables are lost, and nobody frees what was open without a
\* name.  The log takes back the calls in progress, so that it is as if there were
\* none.
crash ==
  /\ \A p \in Procs : pc[p] = "idle"
  /\ ref' = [i \in Inums |-> IF i = ROOTINO THEN Cardinality(Procs) ELSE 0]
  /\ incore' = [i \in Inums |-> Nil]
  /\ cwd' = [p \in Procs |-> ROOTINO]
  /\ file' = [p \in Procs |-> Nil]
  /\ UNCHANGED <<diskVars, lock, pc, call, rest, ip, nxt, old, put, cont>>

Next ==
  \/ \E p \in Procs : Step(p) \/ fileclose(p) \/ \E c \in Calls[p] : syscall(p, c)
  \/ crash

Spec == Init /\ [][Next]_vars

\* The scheduler runs every process, and a process that waits for a sleep lock
\* gets it if the lock is free again and again.
FairSpec == Spec /\ \A p \in Procs : SF_vars(Step(p))

-----------------------------------------------------------------------------
(* Properties                                                              *)

\* Every variable has its type.
TypeOK ==
  /\ dinode \in [Inums -> [type : Types, nlink : Nat]]
  /\ entries \in [Inums -> [AllNames -> Inums \cup {0}]]
  /\ ref \in [Inums -> Nat]
  /\ incore \in [Inums -> [type : Types, nlink : Nat] \cup {Nil}]
  /\ lock \in [Inums -> Procs \cup {Nil}]
  /\ \A p \in Procs : \A i \in {ip[p], nxt[p], old[p], put[p], file[p], cwd[p]} :
       i \in Inums \cup {Nil}

\* The processes whose variable v points to inode i.
Holders(v, i) == Cardinality({p \in Procs : v[p] = i})

\* A valid copy that nobody has locked agrees with the disk: every change is
\* followed by iupdate(), and a recycled entry is read again.
CacheCoherent ==
  \A i \in Inums : incore[i] # Nil /\ lock[i] = Nil => incore[i] = dinode[i]

\* "ref == 1 means no other process can have ip locked, so this acquiresleep()
\* won't block" (iput): it would sleep with itable.lock held.
PutNeverBlocks ==
  \A p \in Procs : pc[p] = "iput" /\ LastPut(put[p]) => lock[put[p]] = Nil

\* "Reference count" (file.h): the count of a table entry is the number of pointers
\* to it, through all the error paths of the system calls, so that no entry is lost
\* or recycled while in use; what iput() concludes from a count of 1 is true, and a
\* copy in the table is that of the inode on disk.
RefExact ==
  /\ \A i \in Inums :
       ref[i] = Holders(ip, i) + Holders(nxt, i) + Holders(old, i)
              + Holders(put, i) + Holders(file, i) + Holders(cwd, i)
  /\ PutNeverBlocks
  /\ CacheCoherent

\* The names of an inode.
NamesOf(i) ==
  {e \in Inums \X Names : dinode[e[1]].type = "dir" /\ entries[e[1]][e[2]] = i}

\* The variables have their types, and the link count on disk covers the names of
\* the inode whatever calls are in progress and after a power failure, so that
\* iput() frees no inode that still has a name, and none that is open or a current
\* directory.
LinksCover ==
  /\ TypeOK
  /\ \A i \in Inums : dinode[i].nlink >= Cardinality(NamesOf(i))
  /\ \A p \in Procs : \A i \in {file[p], cwd[p]} \ {Nil} : dinode[i].type # "free"

\* "If that was the last reference and the inode has no links to it, free the
\* inode (and its content) on disk" (iput).
FreedWhenUnused ==
  \A i \in Inums : ref[i] = 0 /\ dinode[i].nlink = 0 => dinode[i].type = "free"

\* An inode with links and no users has a name ("Number of links to inode in file
\* system", fs.h); true only as long as nothing is created in a directory that
\* another process is removing.
LinksNamed ==
  \A i \in Inums :
    dinode[i].nlink > 0 /\ ref[i] = 0 /\ i # ROOTINO => NamesOf(i) # {}

\* No call meets "ilock: no type" or "unlink: nlink < 1".
NoPanic ==
  \A p \in Procs :
    /\ NeedsLock(p) /\ lock[Wants(p)] = Nil /\ incore[Wants(p)] = Nil
         => dinode[Wants(p)].type # "free"
    /\ pc[p] = "haschild" => incore[nxt[p]].nlink >= 1

\* ialloc() finds no inode, and panics.
NoInodes ==
  \E p \in Procs : pc[p] = "inparent" /\ Creates(p) /\ ~Exists(p) /\ FreeInums = {}

\* Every call ends, unless a process stops in ialloc() for want of an inode: inodes
\* are locked in an order that admits no deadlock, and releasesleep() comes before
\* every wait, on the error paths, too.
CallEnds ==
  \A p \in Procs : (pc[p] # "idle" ~> pc[p] = "idle") \/ <>[]NoInodes
=============================================================================
