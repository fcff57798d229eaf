-------------------------------- MODULE Mkfs --------------------------------
(***************************************************************************)
(* The file system that mkfs.c writes, and the layout of fs.h.             *)
(*                                                                         *)
(* A block has BSIZE cells: a cell is a byte of a file, an entry of a      *)
(* directory or a block number of an indirect block.  The entry of a file  *)
(* is its inode number, 0 for an unused one.                               *)
(***************************************************************************)
EXTENDS Integers, Sequences, SequencesExt, FiniteSetsExt

CONSTANTS BSIZE, NDIRECT, NINDIRECT,
          NINODES,        \* number of inodes
          nmeta,          \* blocks for boot, super block, log, inodes and bitmap
          FSSIZE,
          Files           \* the contents of the files given to mkfs

ASSUME MkfsConstants ==
  /\ {BSIZE, NDIRECT, NINDIRECT, NINODES, nmeta, FSSIZE} \subseteq Nat \ {0}
  /\ NINDIRECT <= BSIZE /\ nmeta < FSSIZE
  /\ Files \in Seq(Seq(Nat)) /\ Len(Files) < NINODES

ROOTINO == 1
MAXFILE == NDIRECT + NINDIRECT
Inums == 1..NINODES
Blocks == 0..FSSIZE - 1
Zeroes == [c \in 0..BSIZE - 1 |-> 0]
NoBlocks == [k \in 0..NDIRECT |-> 0]

Free == [type |-> "free", nlink |-> 0, size |-> 0, addrs |-> NoBlocks]

\* The image before the first ialloc().
Empty ==
  [freeblock |-> nmeta, freeinode |-> ROOTINO,
   block |-> [b \in Blocks |-> Zeroes], inode |-> [i \in Inums |-> Free]]

ialloc(img, type) ==
  [img EXCEPT !.freeinode = @ + 1,
              !.inode[img.freeinode] = [Free EXCEPT !.type = type, !.nlink = 1]]

\* The entry k of addrs[], or of the indirect block, gets a block if it has none.
NewDirect(img, i, k) ==
  IF img.inode[i].addrs[k] # 0 THEN img
  ELSE [img EXCEPT !.inode[i].addrs[k] = img.freeblock, !.freeblock = @ + 1]

NewIndirect(img, a, k) ==
  IF img.block[a][k] # 0 THEN img
  ELSE [img EXCEPT !.block[a][k] = img.freeblock, !.freeblock = @ + 1]

\* iappend() of one cell c: x is the block it goes to.
AppendCell(i, img, c) ==
  LET off == img.inode[i].size
      fbn == off \div BSIZE
      with == NewDirect(img, i, IF fbn < NDIRECT THEN fbn ELSE NDIRECT)
      a == with.inode[i].addrs[NDIRECT]
      all == IF fbn < NDIRECT THEN with ELSE NewIndirect(with, a, fbn - NDIRECT)
      x == IF fbn < NDIRECT THEN all.inode[i].addrs[fbn] ELSE all.block[a][fbn - NDIRECT]
  IN  [all EXCEPT !.block[x][off % BSIZE] = c, !.inode[i].size = off + 1]

iappend(img, i, cells) == FoldLeft(LAMBDA x, c : AppendCell(i, x, c), img, cells)

\* A file, and its entry in the root directory.
AddFile(img, cells) ==
  iappend(iappend(ialloc(img, "file"), ROOTINO, <<img.freeinode>>), img.freeinode, cells)

\* main(): the root directory begins with . and .. and ends with a full block.
Image ==
  LET root == iappend(ialloc(Empty, "dir"), ROOTINO, <<ROOTINO, ROOTINO>>)
      all == FoldLeft(AddFile, root, Files)
  IN  [all EXCEPT !.inode[ROOTINO].size = (@ \div BSIZE + 1) * BSIZE]

\* balloc(): the bitmap.
Allocated == 0..Image.freeblock - 1
=============================================================================
