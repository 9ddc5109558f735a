------------------------------ MODULE FileData ------------------------------
(***************************************************************************)
(* The contents of files: the blocks of an inode, direct and indirect, as  *)
(* mkfs.c lays them out and fs.c reads, extends and frees them, and the    *)
(* shared offset of a struct file (file.c).                                *)
(*                                                                         *)
(* A block has BSIZE cells; a cell holds a byte, a directory entry (its    *)
(* inode number) or a block number.  A transaction is atomic (Log), and an *)
(* inode is locked while it is read or written (FileSys), so a step is a   *)
(* transaction; write() is one step for each that filewrite() makes.       *)
(***************************************************************************)
EXTENDS Integers, SequencesExt, FiniteSetsExt

CONSTANTS FSSIZE,      \* blocks of the disk
          NMETA,       \* the first ones: boot, super, log, inode and bitmap blocks
          BSIZE, NDIRECT,
          MAXWRITE,    \* bytes that filewrite() gives to one transaction
          Images,      \* argument lists of mkfs: sequences of file contents
          Data,        \* what write() may be given
          Inums, ROOTINO,
          Writers      \* processes; all of them share one struct file of FILE
CONSTANT FILE          \* the inode the kernel's processes work on

NINDIRECT == BSIZE
MAXFILE == NDIRECT + NINDIRECT
Blocks == 0..FSSIZE-1

VARIABLES fs,       \* the disk: its blocks, the bitmap, and the inodes
          content,  \* history: the bytes each inode should have
          off,      \* f->off, or -1 if the file is not open; -2 before there is a file system
          todo      \* what the write() of each process still has to write

vars == <<fs, content, off, todo>>

Zero == [k \in 0..BSIZE-1 |-> 0]
din == [addrs |-> [k \in 0..NDIRECT |-> 0], size |-> 0]
-----------------------------------------------------------------------------
(* mkfs.c: img is the disk and the next free block *)

\* the block of the file that has byte number at, with what had to be allocated for it
mkfs_block(img, i, fbn) ==
  LET a == img.inode[i].addrs
      ind == IF a[NDIRECT] = 0 THEN img.freeblock ELSE a[NDIRECT]
      next == IF a[NDIRECT] = 0 THEN img.freeblock + 1 ELSE img.freeblock
  IN IF fbn < NDIRECT
     THEN IF a[fbn] # 0 THEN [img |-> img, x |-> a[fbn]]
          ELSE [img |-> [img EXCEPT !.inode[i].addrs[fbn] = img.freeblock,
                                    !.freeblock = @ + 1],
                x |-> img.freeblock]
     ELSE IF img.disk[ind][fbn - NDIRECT] # 0
          THEN [img |-> img, x |-> img.disk[ind][fbn - NDIRECT]]
          ELSE [img |-> [img EXCEPT !.inode[i].addrs[NDIRECT] = ind,
                                    !.disk[ind][fbn - NDIRECT] = next,
                                    !.freeblock = next + 1],
                x |-> next]

\* iappend() copies block by block; here byte by byte, each to where it belongs
iappend(img, i, data) ==
  LET Put(s, c) == LET at == s.inode[i].size
                       b == mkfs_block(s, i, at \div BSIZE)
                   IN [b.img EXCEPT !.disk[b.x][at % BSIZE] = c,
                                    !.inode[i].size = at + 1]
  IN FoldLeft(Put, img, data)

\* the entries of the root directory: ".", ".." and one for each file
Entries(files) == <<ROOTINO, ROOTINO>> \o [k \in 1..Len(files) |-> ROOTINO + k]

\* "fix size of root inode dir"
RootSize(size) == ((size \div BSIZE) + 1) * BSIZE

\* main() appends to the root directory and to the files in turn
mkfs(files) ==
  LET empty == [disk |-> [b \in Blocks |-> Zero], inode |-> [i \in Inums |-> din],
                freeblock |-> NMETA]
      root == iappend(empty, ROOTINO, <<ROOTINO, ROOTINO>>)
      Add(img, k) == iappend(iappend(img, ROOTINO, <<ROOTINO + k>>), ROOTINO + k, files[k])
      full == FoldLeft(Add, root, [k \in 1..Len(files) |-> k])
  IN [disk |-> full.disk,
      inode |-> [full.inode EXCEPT ![ROOTINO].size = RootSize(@)],
      bitmap |-> 0..full.freeblock-1]
-----------------------------------------------------------------------------
(* fs.c: operations on s, the disk *)

Free(s) == Blocks \ s.bitmap

\* mutant: the block is not zeroed
balloc_Dirty(s) == [s |-> [s EXCEPT !.bitmap = @ \union {Min(Free(s))}],
                    addr |-> Min(Free(s))]

\* the first free block, zeroed
balloc(s) ==
  LET b == Min(Free(s))
  IN [s |-> [s EXCEPT !.bitmap = @ \union {b}, !.disk[b] = Zero], addr |-> b]

bfree(s, b) == [s EXCEPT !.bitmap = @ \ {b}]

\* the address of block bn of inode i, and the disk after what had to be allocated
bmap(s, i, bn) ==
  IF bn < NDIRECT
  THEN LET new == balloc(s)
       IN IF s.inode[i].addrs[bn] # 0 THEN [s |-> s, addr |-> s.inode[i].addrs[bn]]
          ELSE [s |-> [new.s EXCEPT !.inode[i].addrs[bn] = new.addr], addr |-> new.addr]
  ELSE LET new == balloc(s)
           t == IF s.inode[i].addrs[NDIRECT] # 0 THEN s
                ELSE [new.s EXCEPT !.inode[i].addrs[NDIRECT] = new.addr]
           ind == t.inode[i].addrs[NDIRECT]
           a == t.disk[ind][bn - NDIRECT]
           data == balloc(t)
       IN IF a # 0 THEN [s |-> t, addr |-> a]
          ELSE [s |-> [data.s EXCEPT !.disk[ind][bn - NDIRECT] = data.addr],
                addr |-> data.addr]

\* mutant: the blocks that the indirect block lists stay allocated
itrunc_Direct(s, i) ==
  LET used == {s.inode[i].addrs[k] : k \in 0..NDIRECT} \ {0}
  IN [FoldSet(LAMBDA b, t : bfree(t, b), s, used) EXCEPT !.inode[i] = din]

itrunc(s, i) ==
  LET ind == s.inode[i].addrs[NDIRECT]
      used == ({s.inode[i].addrs[k] : k \in 0..NDIRECT}
               \union (IF ind = 0 THEN {} ELSE {s.disk[ind][k] : k \in 0..NINDIRECT-1}))
              \ {0}
  IN [FoldSet(LAMBDA b, t : bfree(t, b), s, used) EXCEPT !.inode[i] = din]

\* readi() of n bytes at position at: the disk afterwards (bmap() allocates what is
\* missing) and the bytes, or none at all
readi(s, i, at, n) ==
  LET last == Min({at + n, s.inode[i].size})
      Get(t, k) == LET b == bmap(t.s, i, k \div BSIZE)
                   IN [s |-> b.s, data |-> Append(t.data, b.s.disk[b.addr][k % BSIZE])]
      start == [s |-> s, data |-> <<>>]
  IN IF at > s.inode[i].size THEN start
     ELSE FoldLeft(Get, start, [k \in 1..last - at |-> at + k - 1])

\* writei(): the loop goes block by block, which is byte by byte to the same cells
writei(s, i, data, at) ==
  LET Put(t, k) == LET b == bmap(t, i, (at + k - 1) \div BSIZE)
                   IN [b.s EXCEPT !.disk[b.addr][(at + k - 1) % BSIZE] = data[k]]
      t == FoldLeft(Put, s, [k \in 1..Len(data) |-> k])
  IN [t EXCEPT !.inode[i].size = Max({@, at + Len(data)})]

writei_fits(s, i, data, at) ==
  at <= s.inode[i].size /\ at + Len(data) <= MAXFILE * BSIZE
-----------------------------------------------------------------------------
(* system calls on the file *)

open == off = -1 /\ off' = 0 /\ UNCHANGED <<fs, content, todo>>

read(n) ==
  LET got == readi(fs, FILE, off, n)
  IN /\ off >= 0
     /\ off' = off + Len(got.data) /\ fs' = got.s
     /\ UNCHANGED <<content, todo>>

\* sys_write() up to the loop of filewrite()
write(p, data) ==
  /\ off >= 0 /\ todo[p] = <<>>
  /\ todo' = [todo EXCEPT ![p] = data]
  /\ UNCHANGED <<fs, content, off>>

\* one transaction of filewrite()
filewrite(p) ==
  LET n1 == Min({Len(todo[p]), MAXWRITE})
      data == SubSeq(todo[p], 1, n1)
  IN /\ off >= 0 /\ todo[p] # <<>>
     /\ \/ /\ writei_fits(fs, FILE, data, off)
           /\ Cardinality(Free(fs)) > MAXWRITE + 1  \* otherwise balloc() may panic
           /\ fs' = writei(fs, FILE, data, off)
           /\ content' = [content EXCEPT ![FILE] =
                SubSeq(@, 1, off) \o data \o SubSeq(@, off + n1 + 1, Len(@))]
           /\ off' = off + n1
           /\ todo' = [todo EXCEPT ![p] = SubSeq(@, n1 + 1, Len(@))]
        \/ /\ ~writei_fits(fs, FILE, data, off)
           /\ todo' = [todo EXCEPT ![p] = <<>>]
           /\ UNCHANGED <<fs, content, off>>

close == off >= 0 /\ (\A p \in Writers : todo[p] = <<>>) /\ off' = -1
         /\ UNCHANGED <<fs, content, todo>>

\* the last iput() of an unlinked file; the inode is then used for a new one
iput ==
  /\ off = -1
  /\ fs' = itrunc(fs, FILE) /\ content' = [content EXCEPT ![FILE] = <<>>]
  /\ UNCHANGED <<off, todo>>

\* dirlookup() of a name that is not there reads the root directory to its end
dirlookup ==
  /\ off # -2
  /\ fs' = readi(fs, ROOTINO, 0, fs.inode[ROOTINO].size).s
  /\ UNCHANGED <<content, off, todo>>
-----------------------------------------------------------------------------
\* mkfs makes the disk and the machine boots
start(files) ==
  LET img == mkfs(files)
  IN /\ off = -2 /\ off' = -1
     /\ fs' = img
     /\ content' = [i \in Inums |->
          IF i = ROOTINO
          THEN LET entries == Entries(files)
               IN entries \o [k \in 1..img.inode[i].size - Len(entries) |-> 0]
          ELSE IF i - ROOTINO \in DOMAIN files THEN files[i - ROOTINO] ELSE <<>>]
     /\ UNCHANGED todo

Init ==
  /\ fs = [disk |-> [b \in Blocks |-> Zero], inode |-> [i \in Inums |-> din],
           bitmap |-> 0..NMETA-1]
  /\ content = [i \in Inums |-> <<>>]
  /\ off = -2 /\ todo = [p \in Writers |-> <<>>]

Next ==
  \/ \E files \in Images : start(files)
  \/ open \/ close \/ iput \/ dirlookup
  \/ \E n \in 1..2 * BSIZE : read(n)
  \/ \E p \in Writers : filewrite(p) \/ \E data \in Data : write(p, data)

Spec == Init /\ [][Next]_vars
-----------------------------------------------------------------------------
\* Wherever and however much a process reads, readi() gives it the bytes that were
\* last written there, through direct and indirect blocks, after the inode was freed
\* and its blocks reused, and on the image that mkfs made.  Reading a file allocates
\* no block; only the root directory may have a hole, as mkfs rounds its size up even
\* when its entries fill their blocks.
ReadsBack ==
  \A i \in Inums : \A at \in 0..Len(content[i]) : \A n \in {1, Len(content[i])} :
    LET got == readi(fs, i, at, n)
    IN /\ got.data = SubSeq(content[i], at + 1, Min({at + n, Len(content[i])}))
       /\ i # ROOTINO => got.s = fs

\* the places that hold the number of a block of inode i
Pointers(i) ==
  LET ind == fs.inode[i].addrs[NDIRECT]
  IN {<<i, k>> : k \in {j \in 0..NDIRECT : fs.inode[i].addrs[j] # 0}}
     \union (IF ind = 0 THEN {} ELSE
             {<<i, NDIRECT + 1 + k>> : k \in {j \in 0..NINDIRECT-1 : fs.disk[ind][j] # 0}})

Block(q) == IF q[2] <= NDIRECT THEN fs.inode[q[1]].addrs[q[2]]
            ELSE fs.disk[fs.inode[q[1]].addrs[NDIRECT]][q[2] - NDIRECT - 1]

\* The bitmap marks the blocks that mkfs keeps for the system and those that some inode
\* or indirect block points to, no others, and no block has two pointers to it: mkfs's
\* count of the blocks it used, balloc() by bmap() and the loops of itrunc() agree.
BlocksAccounted ==
  LET all == UNION {Pointers(i) : i \in Inums}
  IN /\ fs.bitmap = 0..NMETA-1 \union {Block(q) : q \in all}
     /\ \A q \in all : Block(q) >= NMETA
     /\ \A q, r \in all : Block(q) = Block(r) => q = r
=============================================================================
