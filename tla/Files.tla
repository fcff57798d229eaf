------------------------------- MODULE Files -------------------------------
(***************************************************************************)
(* The contents of files: the block map, the allocation of blocks and      *)
(* reading and writing of fs.c, the open files of file.c, and the system   *)
(* calls on descriptors of sysfile.c, on a file system made by mkfs.c.     *)
(*                                                                         *)
(* What a process does between ilock() and iunlock() is one action: the    *)
(* sleep lock protects the inode and its blocks.  All files are in the     *)
(* root directory; the walk of a path is in Inode, the log in Log.  `disk' *)
(* is what has been given to log_write(), `cache' the buffers.             *)
(***************************************************************************)
EXTENDS Mkfs

CONSTANTS Procs, NOFILE, NFILE,
          BPB,            \* bits of a block of the bitmap
          MAXOPBLOCKS,
          Data,           \* what the processes write
          Lengths,        \* of reads
          Modes,          \* of open(): for reading, writing or both; and O_TRUNC
          MaxCalls        \* bound on the number of calls

ASSUME FilesConstants == BPB \in Nat \ {0} /\ MAXOPBLOCKS >= 6

Fds == 0..NOFILE - 1
OpenFiles == 1..NFILE

VARIABLES fs,             \* used blocks, cache, disk, inodes, and the blocks
                          \* logged in the last transaction
          ftable,         \* the open files
          ofile,          \* the descriptors of each process: an open file, or 0
          op,             \* descriptor and rest of the data of a write(), or << >>
          closing,        \* the inode that fileclose() has still to put, or 0
          got,            \* what the last call has read
          calls           \* number of calls so far

vars == <<fs, ftable, ofile, op, closing, got, calls>>

Closed == [ref |-> 0, ip |-> 0, off |-> 0, mode |-> "r"]

Init ==
  /\ fs = [used |-> Allocated, cache |-> Image.block, disk |-> Image.block,
           inode |-> Image.inode, log |-> {}]
  /\ ftable = [f \in OpenFiles |-> Closed]
  /\ ofile = [p \in Procs |-> [d \in Fds |-> 0]]
  /\ op = [p \in Procs |-> << >>]
  /\ closing = [p \in Procs |-> 0]
  /\ got = << >> /\ calls = 0

-----------------------------------------------------------------------------
(* Blocks                                                                  *)

\* log_write() of data block b, of the bitmap block of b, and of an inode.
Logged(x, blk) == [x EXCEPT !.log = @ \cup {blk}]
log_write(x, b) == Logged([x EXCEPT !.disk[b] = x.cache[b]], <<"data", b>>)
LogBitmap(x, b) == Logged(x, <<"bitmap", b \div BPB>>)
iupdate(x, i) == Logged(x, <<"inode", i>>)

FirstFree(x) == Min(Blocks \ x.used)

\* balloc() of block b, and bzero().
balloc(x, b) ==
  log_write(LogBitmap([x EXCEPT !.used = @ \cup {b}, !.cache[b] = Zeroes], b), b)

bfree(x, b) == LogBitmap([x EXCEPT !.used = @ \ {b}], b)

\* The block number bn of inode i, or 0.
Addr(x, i, bn) ==
  LET a == x.inode[i].addrs
  IN  IF bn < NDIRECT THEN a[bn]
      ELSE IF a[NDIRECT] = 0 THEN 0 ELSE x.cache[a[NDIRECT]][bn - NDIRECT]

\* Entry k of ip->addrs[] gets a block if it has none.
AllocDirect(x, i, k) ==
  IF x.inode[i].addrs[k] # 0 THEN x
  ELSE [balloc(x, FirstFree(x)) EXCEPT !.inode[i].addrs[k] = FirstFree(x)]

\* Mutant: the indirect block is not logged.
AllocIndirect_unlogged(x, a, k) ==
  IF x.cache[a][k] # 0 THEN x
  ELSE [balloc(x, FirstFree(x)) EXCEPT !.cache[a][k] = FirstFree(x)]

\* Entry k of the indirect block a.
AllocIndirect(x, a, k) ==
  IF x.cache[a][k] # 0 THEN x
  ELSE log_write([balloc(x, FirstFree(x)) EXCEPT !.cache[a][k] = FirstFree(x)], a)

\* The state after bmap(), which returns Addr(_, i, bn).
bmap(x, i, bn) ==
  IF bn < NDIRECT THEN AllocDirect(x, i, bn)
  ELSE LET y == AllocDirect(x, i, NDIRECT)
       IN  AllocIndirect(y, y.inode[i].addrs[NDIRECT], bn - NDIRECT)

\* The blocks of an inode: data, and the indirect block.
DataBlocks(x, i) == {Addr(x, i, bn) : bn \in 0..MAXFILE - 1} \ {0}
Owned(x, i) == DataBlocks(x, i) \cup ({x.inode[i].addrs[NDIRECT]} \ {0})

\* Mutant: the indirect block itself is not freed.
itrunc_noindirect(x, i) ==
  LET y == FoldSet(LAMBDA b, z : bfree(z, b), x, DataBlocks(x, i))
  IN  iupdate([y EXCEPT !.inode[i].addrs = NoBlocks, !.inode[i].size = 0], i)

itrunc(x, i) ==
  LET y == FoldSet(LAMBDA b, z : bfree(z, b), x, Owned(x, i))
  IN  iupdate([y EXCEPT !.inode[i].addrs = NoBlocks, !.inode[i].size = 0], i)

-----------------------------------------------------------------------------
(* readi() and writei()                                                    *)

readi(i, off, n) ==
  LET size == fs.inode[i].size
      end == Min({off + n, size})
  IN  IF off > size THEN << >>
      ELSE [k \in 1..end - off |->
              fs.cache[Addr(fs, i, (off + k - 1) \div BSIZE)][(off + k - 1) % BSIZE]]

\* Block bn with the bytes first .. last of s, which begins at off.
Filled(block, bn, off, s, first, last) ==
  [c \in 0..BSIZE - 1 |->
     LET k == bn * BSIZE + c - off + 1 IN IF k \in first..last THEN s[k] ELSE block[c]]

\* One turn of the loop of writei(): either_copyin() gets `good' bytes of s.  A
\* block that is not filled completely is not logged.
WriteBlock(x, i, off, s, good, bn) ==
  LET first == Max({bn * BSIZE - off, 0}) + 1
      last == Min({(bn + 1) * BSIZE - off, Len(s)})
      y == bmap(x, i, bn)
      b == Addr(y, i, bn)
      z == [y EXCEPT !.cache[b] = Filled(@, bn, off, s, first, Min({last, good}))]
  IN  IF good + 1 < first THEN x ELSE IF good < last THEN z ELSE log_write(z, b)

\* Bytes of s in the blocks before the one in which the copy fails.
Written(off, s, good) ==
  IF good = Len(s) THEN good ELSE Max({0, ((off + good) \div BSIZE) * BSIZE - off})

TooLarge(off, n) == off + n > MAXFILE * BSIZE

\* The state after the loop and the iupdate().
writei(x, i, off, s, good) ==
  LET bns == [k \in 1..(off + Len(s) - 1) \div BSIZE - off \div BSIZE + 1 |->
                off \div BSIZE + k - 1]
      y == FoldLeft(LAMBDA z, bn : WriteBlock(z, i, off, s, good, bn), x, bns)
  IN  iupdate([y EXCEPT !.inode[i].size = Max({@, off + Written(off, s, good)})], i)

-----------------------------------------------------------------------------
(* The root directory                                                      *)

\* The offsets of its entries, and the files they name.
Entries(x) ==
  [k \in 0..x.inode[ROOTINO].size - 1 |->
     x.cache[Addr(x, ROOTINO, k \div BSIZE)][k % BSIZE]]
OffsetsOf(x, i) == {k \in DOMAIN Entries(x) : Entries(x)[k] = i}
Linked(x) == {Entries(x)[k] : k \in DOMAIN Entries(x)} \ {0, ROOTINO}

\* dirlink() takes the first unused entry, or appends one.
dirlink(x, i) ==
  writei(x, ROOTINO, Min(OffsetsOf(x, 0) \cup {x.inode[ROOTINO].size}), <<i>>, 1)

\* ialloc() takes the first free inode, and panics if there is none.
FreeInums == {i \in Inums : fs.inode[i].type = "free"}
NextInum == {i \in FreeInums : \A j \in FreeInums : i <= j}
create(x, i) ==
  dirlink(iupdate([x EXCEPT !.inode[i] = [Free EXCEPT !.type = "file", !.nlink = 1]], i), i)

\* iput() by p of an inode that no open file and no other process refers to is the
\* last one.
Opened(i) == \E f \in OpenFiles : ftable[f].ref > 0 /\ ftable[f].ip = i
iput(x, p, i) ==
  IF x.inode[i].nlink > 0 \/ Opened(i) \/ \E q \in Procs \ {p} : closing[q] = i THEN x
  ELSE [itrunc(x, i) EXCEPT !.inode[i] = Free]

-----------------------------------------------------------------------------
(* System calls                                                            *)

begin_op == [fs EXCEPT !.log = {}]
Idle(p) == op[p] = << >> /\ closing[p] = 0
Call(p) == Idle(p) /\ calls < MaxCalls /\ calls' = calls + 1

FreeFds(p) == {d \in Fds : ofile[p][d] = 0}
Unused == {f \in OpenFiles : ftable[f].ref = 0}

\* open() of file i, which O_CREATE makes if there is none: filealloc(), fdalloc(),
\* and itrunc() for O_TRUNC.
sys_open(p, i, mode, trunc) ==
  LET x == IF i \in Linked(fs) THEN begin_op ELSE create(begin_op, i)
      f == Min(Unused)
  IN  /\ Call(p)
      /\ i \in Linked(fs) \cup NextInum
      /\ IF Unused = {} \/ FreeFds(p) = {} THEN fs' = x /\ UNCHANGED <<ftable, ofile>>
         ELSE /\ fs' = IF trunc THEN itrunc(x, i) ELSE x
              /\ ftable' = [ftable EXCEPT ![f] = [ref |-> 1, ip |-> i, off |-> 0, mode |-> mode]]
              /\ ofile' = [ofile EXCEPT ![p][Min(FreeFds(p))] = f]
      /\ got' = << >> /\ UNCHANGED <<op, closing>>

filedup(t, f) == [t EXCEPT ![f].ref = @ + 1]

sys_dup(p, d) ==
  /\ Call(p) /\ ofile[p][d] # 0 /\ FreeFds(p) # {}
  /\ ofile' = [ofile EXCEPT ![p][Min(FreeFds(p))] = ofile[p][d]]
  /\ ftable' = filedup(ftable, ofile[p][d])
  /\ got' = << >> /\ UNCHANGED <<fs, op, closing>>

\* The child q gets the descriptors of p.
fork(p, q) ==
  /\ Call(p) /\ q # p /\ Idle(q) /\ FreeFds(q) = Fds
  /\ ofile' = [ofile EXCEPT ![q] = ofile[p]]
  /\ ftable' = FoldSet(LAMBDA d, t : filedup(t, ofile[p][d]), ftable, Fds \ FreeFds(p))
  /\ got' = << >> /\ UNCHANGED <<fs, op, closing>>

\* The last close() clears the entry.
fileclose(t, f) == [t EXCEPT ![f] = IF @.ref = 1 THEN Closed ELSE [@ EXCEPT !.ref = @ - 1]]

\* The last one has still to put the inode.
sys_close(p, d) ==
  LET f == ofile[p][d]
  IN  /\ Call(p) /\ f # 0
      /\ ofile' = [ofile EXCEPT ![p][d] = 0]
      /\ ftable' = fileclose(ftable, f)
      /\ closing' = [closing EXCEPT ![p] = IF ftable[f].ref = 1 THEN ftable[f].ip ELSE 0]
      /\ got' = << >> /\ UNCHANGED <<fs, op>>

\* begin_op(), iput() and end_op() of fileclose().
close_iput(p) ==
  /\ closing[p] # 0
  /\ fs' = iput(begin_op, p, closing[p])
  /\ closing' = [closing EXCEPT ![p] = 0]
  /\ UNCHANGED <<ftable, ofile, op, got, calls>>

\* The entry is erased; the inode goes with its last reference.
sys_unlink(p, i) ==
  LET x == writei(begin_op, ROOTINO, Min(OffsetsOf(fs, i)), <<0>>, 1)
      y == iupdate([x EXCEPT !.inode[i].nlink = @ - 1], i)
  IN  /\ Call(p) /\ i \in Linked(fs)
      /\ fs' = iput(y, p, i)
      /\ got' = << >> /\ UNCHANGED <<ftable, ofile, op, closing>>

\* fileread(): with an address that is not mapped it fails, and the offset stays.
sys_read(p, d, n) ==
  LET f == ofile[p][d] IN
  /\ Call(p) /\ f # 0 /\ ftable[f].mode # "w"
  /\ \/ /\ got' = readi(ftable[f].ip, ftable[f].off, n)
        /\ ftable' = [ftable EXCEPT ![f].off = @ + Len(got')]
     \/ got' = << >> /\ UNCHANGED ftable
  /\ UNCHANGED <<fs, ofile, op, closing>>

sys_write(p, d, s) ==
  LET f == ofile[p][d] IN
  /\ Call(p) /\ f # 0 /\ ftable[f].mode # "r"
  /\ op' = [op EXCEPT ![p] = <<d, s>>]
  /\ got' = << >> /\ UNCHANGED <<fs, ftable, ofile, closing>>

\* Mutant: without the two blocks for writes that are not aligned.
max_slop(blocks) == ((blocks - 1 - 1) \div 2) * BSIZE

\* What filewrite() writes in one transaction.
max(blocks) == ((blocks - 1 - 1 - 2) \div 2) * BSIZE

\* One turn of the loop of filewrite(): begin_op() .. end_op().
filewrite(p) ==
  LET d == op[p][1]
      f == ofile[p][d]
      i == ftable[f].ip
      off == ftable[f].off
      s == SubSeq(op[p][2], 1, Min({Len(op[p][2]), max(MAXOPBLOCKS)}))
      rest == SubSeq(op[p][2], Len(s) + 1, Len(op[p][2]))
  IN  /\ op[p] # << >>
      /\ \/ /\ off > fs.inode[i].size \/ TooLarge(off, Len(s))
            /\ op' = [op EXCEPT ![p] = << >>]
            /\ fs' = begin_op /\ UNCHANGED ftable
         \/ /\ off <= fs.inode[i].size /\ ~TooLarge(off, Len(s))
            /\ \E good \in 0..Len(s) :
                 /\ fs' = writei(begin_op, i, off, s, good)
                 /\ ftable' = [ftable EXCEPT ![f].off = @ + Written(off, s, good)]
                 /\ op' = [op EXCEPT ![p] = IF good < Len(s) \/ rest = << >> THEN << >>
                                            ELSE <<d, rest>>]
      /\ got' = << >> /\ UNCHANGED <<ofile, closing, calls>>

\* A buffer is recycled, and read again.
recycle(b) ==
  /\ fs.cache[b] # fs.disk[b]
  /\ fs' = [fs EXCEPT !.cache[b] = fs.disk[b]]
  /\ UNCHANGED <<ftable, ofile, op, closing, got, calls>>

Next ==
  \/ \E p \in Procs :
       \/ \E i \in Inums, m \in Modes : sys_open(p, i, m[1], m[2])
       \/ \E d \in Fds : sys_dup(p, d) \/ sys_close(p, d)
       \/ \E d \in Fds, n \in Lengths : sys_read(p, d, n)
       \/ \E d \in Fds, s \in Data : sys_write(p, d, s)
       \/ \E i \in Inums : sys_unlink(p, i)
       \/ \E q \in Procs : fork(p, q)
       \/ filewrite(p) \/ close_iput(p)
  \/ \E b \in Blocks : recycle(b)

Spec == Init /\ [][Next]_vars

-----------------------------------------------------------------------------
(* Properties                                                              *)

\* A bit of the bitmap is set exactly for the blocks before the first data block
\* and those of the inodes; no block belongs to two inodes or twice to one; and
\* every byte within the size of a file has a block, so that readi() finds one and
\* does not allocate it outside of a transaction.
BlocksOwned ==
  LET Slots == {<<i, bn>> \in Inums \X (0..MAXFILE - 1) : Addr(fs, i, bn) # 0}
      Indirect == {i \in Inums : fs.inode[i].addrs[NDIRECT] # 0}
      All == UNION {Owned(fs, i) : i \in Inums}
  IN  /\ fs.used = 0..nmeta - 1 \cup All
      /\ Cardinality(All) = Cardinality(Slots) + Cardinality(Indirect)
      /\ All \cap (0..nmeta - 1) = {}
      /\ \A i \in Inums : \A k \in 0..fs.inode[i].size - 1 : Addr(fs, i, k \div BSIZE) # 0

\* "write a few blocks at a time to avoid exceeding the maximum log transaction
\* size" (filewrite): no write transaction logs more than MAXOPBLOCKS blocks,
\* whatever its alignment and wherever the bits of its new blocks are.
OpFits ==
  [][\A p \in Procs : op[p] # << >> /\ op'[p] # op[p] => Cardinality(fs'.log) <= MAXOPBLOCKS]_vars

\* The last close() of a file without a name has begun: only its iput() is to come.
Doomed(i) == (\E p \in Procs : closing[p] = i) /\ ~Opened(i) /\ i \notin Linked(fs)

\* The bytes of a file, as the disk has them.
Bytes(i) ==
  IF fs.inode[i].type = "free" \/ Doomed(i) THEN << >>
  ELSE [k \in 1..fs.inode[i].size |->
          fs.disk[Addr(fs, i, (k - 1) \div BSIZE)][(k - 1) % BSIZE]]

\* The bytes that a failed write() has changed in the cache only.
Torn ==
  IF fs.cache = fs.disk THEN {}
  ELSE {<<i, k>> \in (Inums \ {ROOTINO}) \X (1..MAXFILE * BSIZE) :
          /\ ~Doomed(i) /\ k <= fs.inode[i].size
          /\ LET b == Addr(fs, i, (k - 1) \div BSIZE)
             IN  fs.cache[b][(k - 1) % BSIZE] # fs.disk[b][(k - 1) % BSIZE]}

Abstract == INSTANCE ByteFiles WITH
  Inodes <- Inums \ {ROOTINO},
  MaxWrite <- max(MAXOPBLOCKS),
  MaxSize <- MAXFILE * BSIZE,
  contents <- [i \in Inums \ {ROOTINO} |-> Bytes(i)],
  names <- Linked(fs),
  fds <- ofile,
  open <- [f \in OpenFiles |-> IF ftable[f].ref = 0 THEN << >>
             ELSE <<ftable[f].ip, ftable[f].off, ftable[f].mode>>],
  todo <- op,
  torn <- Torn

\* The block map, the file table and the loops of readi() and writei() implement
\* byte files: a file lives as long as it has a name or is open, and iput() frees it
\* after that, even if the last close() and an unlink() overlap.
IsByteFiles == Abstract!Spec
=============================================================================
