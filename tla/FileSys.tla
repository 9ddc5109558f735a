------------------------------- MODULE FileSys -------------------------------
(***************************************************************************)
(* Inodes, directories and links of src/src/fs.c under the system calls of *)
(* src/src/sysfile.c: open(), close(), write(), link(), unlink(), mkdir()  *)
(* and chdir() of several processes, on a disk that may crash.             *)
(*                                                                         *)
(* A step runs from one acquiresleep() of an inode lock to the next one:   *)
(* what it does in between is under that lock, or under icache.lock.       *)
(* iput() is two steps, the test under ip->lock and the decrement of ref.  *)
(* A cache entry is named by its inode number.  A transaction that crashes *)
(* leaves no trace (Log), so a crash is a step between transactions.  The  *)
(* blocks of a directory are not counted, and a process has one            *)
(* descriptor.                                                             *)
(***************************************************************************)
EXTENDS Integers, Sequences, FiniteSetsExt

CONSTANTS Procs, Blocks, NULL,
          Names,   \* the names of directory entries other than "." and ".."
          Paths,   \* the paths of the system calls: absolute or not, a sequence of names
          NINODES, \* inodes on the disk
          NINODE,  \* entries of the inode cache
          MAXFILE, \* blocks of a file
          MaxCalls \* bound on the system calls of a behaviour

ROOTINO == 1
Inums == 1 .. NINODES
Dots == {".", ".."}

ASSUME FileSysAssumption ==
  /\ NINODES \in Nat \ {0} /\ NINODE \in Nat \ {0} /\ MAXFILE \in Nat /\ MaxCalls \in Nat
  /\ Blocks \subseteq Nat /\ Names \intersect Dots = {}
  /\ \A path \in Paths :
       path.abs \in BOOLEAN /\ path.names \in Seq(Names \union Dots) \ {<<>>}

VARIABLES dinode,  \* the inodes on the disk: type, nlink, addrs
          ents,    \* the contents of the directories: name -> inum, or 0
          bitmap,  \* the blocks in use
          inode,   \* the inode cache: ref, valid, type, nlink, lock
          file,    \* the inode behind a process's descriptor, or NULL
          cwd,
          l,       \* where a process is in its system call, and its locals
          panicked,
          calls    \* system calls so far

vars == <<dinode, ents, bitmap, inode, file, cwd, l, panicked, calls>>

\* op: the call; type: what it creates; path, new: what is left of its paths;
\* dp, ip: its inodes; puts: the iput()s to do next; unref: the one half done
Idle == [pc |-> "idle", op |-> NULL, type |-> NULL, path |-> <<>>, new |-> NULL,
         dp |-> NULL, ip |-> NULL, puts |-> <<>>, unref |-> NULL]

\* a call that has only the iput()s of S and end_op() left
Done(S) == [Idle EXCEPT !.puts = S]

At(p, pc) == l[p].pc = pc /\ l[p].puts = <<>> /\ l[p].unref = NULL /\ ~panicked
-----------------------------------------------------------------------------
(* The inode cache: operators on f, a value of inode *)

\* iget() and idup()
iget(f, i) ==
  [f EXCEPT ![i] = IF @.ref > 0 THEN [@ EXCEPT !.ref = @ + 1]
                                ELSE [@ EXCEPT !.ref = 1, !.valid = FALSE]]

\* what ilock() makes of the entry of i
Read(f, i) ==
  IF f[i].valid THEN f
  ELSE [f EXCEPT ![i] = [@ EXCEPT !.valid = TRUE, !.type = dinode[i].type,
                                  !.nlink = dinode[i].nlink]]

Held(f, i, p) == [f EXCEPT ![i].lock = p]

Nlink(f, i, d) == [f EXCEPT ![i].nlink = @ + d]

\* iupdate() of the inodes S
iupdate(f, S) ==
  [i \in Inums |-> IF i \in S THEN [dinode[i] EXCEPT !.type = f[i].type,
                                                     !.nlink = f[i].nlink]
                              ELSE dinode[i]]

\* the inodes ialloc() can find
Unallocated == {i \in Inums : dinode[i].type = "free"}

\* mutant: other references are not looked for
Frees_Shared(i) == inode[i].valid /\ inode[i].nlink = 0

\* no links, and no reference but the caller's
Frees(i) == inode[i].valid /\ inode[i].nlink = 0 /\ inode[i].ref = 1

\* mutant: the blocks are not given back
itrunc_Keeps(i) == bitmap

bfree(S) == bitmap \ S

itrunc(i) == bfree(dinode[i].addrs)

Invalid(i) == [inode EXCEPT ![i] = [@ EXCEPT !.type = "free", !.valid = FALSE]]

\* iput(): ip->lock is taken, and the inode is freed if nobody needs it ...
iput(p) ==
  /\ l[p].puts # <<>> /\ l[p].unref = NULL /\ ~panicked
  /\ LET i == Head(l[p].puts)
     IN /\ inode[i].lock = NULL
        /\ l' = [l EXCEPT ![p] = [@ EXCEPT !.puts = Tail(@), !.unref = i]]
        /\ IF Frees(i)
           THEN /\ bitmap' = itrunc(i)
                /\ ents' = [ents EXCEPT ![i] = [n \in DOMAIN @ |-> 0]]
                /\ dinode' = [dinode EXCEPT ![i] = [type |-> "free", nlink |-> 0, addrs |-> {}]]
                /\ inode' = Invalid(i)
           ELSE UNCHANGED <<bitmap, ents, dinode, inode>>
  /\ UNCHANGED <<file, cwd, panicked>>

\* ... then the count, under icache.lock
iput_unref(p) ==
  /\ l[p].unref # NULL /\ ~panicked
  /\ inode' = [inode EXCEPT ![l[p].unref].ref = @ - 1]
  /\ l' = [l EXCEPT ![p].unref = NULL]
  /\ UNCHANGED <<dinode, ents, bitmap, file, cwd, panicked>>
-----------------------------------------------------------------------------
(* ilock(), and what can panic under it *)

\* the labels at which a process locks its dp, and those at which it locks its ip
LocksDp == {"namex", "open", "chdir", "create", "unlink", "link", "link_entry"}
LocksIp == {"create_exists", "create_new", "unlink_ip", "link_bad"}

Wants(p) == IF l[p].pc \in LocksIp THEN l[p].ip ELSE l[p].dp

\* nameiparent() stops one level early
Parent(p) ==
  Len(l[p].path) = 1 /\ (l[p].op \in {"create", "unlink"} \/ (l[p].op = "link" /\ l[p].ip # NULL))

\* what dirlookup() finds in dp
Target(p) == ents[l[p].dp][Head(l[p].path)]

\* the inode that the step at p's label passes to iget(), or 0
Gets(p) ==
  CASE l[p].pc = "namex" -> IF Parent(p) THEN 0 ELSE Target(p)
    [] l[p].pc = "create" -> IF Target(p) # 0 THEN Target(p)
                             ELSE IF Unallocated = {} THEN 0 ELSE Min(Unallocated)
    [] l[p].pc = "unlink" -> IF Head(l[p].path) \in Dots THEN 0 ELSE Target(p)
    [] l[p].pc = "link_entry" -> Target(p)
    [] OTHER -> 0

\* iget() finds neither i nor an entry to recycle
CacheFull(i) == inode[i].ref = 0 /\ Cardinality({j \in Inums : inode[j].ref > 0}) = NINODE

NoType(i) == ~inode[i].valid /\ dinode[i].type = "free"

\* "ilock: no type", "iget: no inodes", "ialloc: no inodes", "unlink: nlink < 1"
Panics(p) ==
  \/ NoType(Wants(p))
  \/ Gets(p) # 0 /\ CacheFull(Gets(p))
  \/ l[p].pc = "create" /\ Target(p) = 0 /\ Unallocated = {}
  \/ l[p].pc = "unlink_ip" /\ Read(inode, Wants(p))[Wants(p)].nlink < 1

\* p is about to lock an inode that nobody has locked
Waits(p, pc) == At(p, pc) /\ inode[Wants(p)].lock = NULL

ilock(p, pc) == Waits(p, pc) /\ ~Panics(p)

panic(p) ==
  /\ l[p].pc \in LocksDp \union LocksIp
  /\ Waits(p, l[p].pc) /\ Panics(p)
  /\ panicked' = TRUE
  /\ UNCHANGED <<dinode, ents, bitmap, inode, file, cwd, l>>
-----------------------------------------------------------------------------
(* namex() *)

From(p, path) == IF path.abs THEN ROOTINO ELSE cwd[p]

\* begin_op(), and the first inode of the path
start(p, op, type, path, new) ==
  /\ At(p, "idle")
  /\ inode' = iget(inode, From(p, path))
  /\ l' = [l EXCEPT ![p] = [Idle EXCEPT !.pc = "namex", !.op = op, !.type = type, !.new = new,
                                        !.path = path.names, !.dp = From(p, path)]]
  /\ UNCHANGED <<dinode, ents, bitmap, file, cwd, panicked>>

\* where namex() returns to, with an inode or without
Found(p) == IF l[p].op = "link" /\ l[p].ip # NULL THEN "link_entry" ELSE l[p].op
NotFound(p, d) ==
  IF l[p].op = "link" /\ l[p].ip # NULL
  THEN [Done(<<d>>) EXCEPT !.pc = "link_bad", !.ip = l[p].ip] ELSE Done(<<d>>)

\* one level of the path
namex(p) ==
  /\ ilock(p, "namex")
  /\ LET d == l[p].dp
         f == Read(inode, d)
         isdir == f[d].type = "dir"
     IN \/ /\ isdir /\ Parent(p)
           /\ inode' = f
           /\ l' = [l EXCEPT ![p].pc = Found(p)]
        \/ /\ isdir /\ ~Parent(p) /\ Target(p) # 0
           /\ inode' = iget(f, Target(p))
           /\ l' = [l EXCEPT ![p] = [@ EXCEPT !.dp = Target(p), !.path = Tail(@), !.puts = <<d>>,
                       !.pc = IF Len(l[p].path) = 1 THEN Found(p) ELSE "namex"]]
        \/ /\ isdir => ~Parent(p) /\ Target(p) = 0
           /\ inode' = f
           /\ l' = [l EXCEPT ![p] = NotFound(p, d)]
  /\ UNCHANGED <<dinode, ents, bitmap, file, cwd, panicked>>
-----------------------------------------------------------------------------
(* open() of an inode that exists, close(), write() and chdir() *)

\* A directory may only be opened for reading.  The descriptor is set after end_op(),
\* which nobody else can see.
open(p) ==
  /\ ilock(p, "open")
  /\ LET i == l[p].dp
     IN /\ inode' = Read(inode, i)
        /\ \/ /\ file[p] = NULL
              /\ file' = [file EXCEPT ![p] = i]
              /\ l' = [l EXCEPT ![p] = Idle]
           \/ /\ file[p] # NULL \/ inode'[i].type = "dir"
              /\ l' = [l EXCEPT ![p] = Done(<<i>>)]
              /\ UNCHANGED file
  /\ UNCHANGED <<dinode, ents, bitmap, cwd, panicked>>

\* fileclose() of the last reference to an open file
close(p) ==
  /\ At(p, "idle") /\ file[p] # NULL
  /\ file' = [file EXCEPT ![p] = NULL]
  /\ l' = [l EXCEPT ![p] = Done(<<file[p]>>)]
  /\ UNCHANGED <<dinode, ents, bitmap, inode, cwd, panicked>>

\* the first block that is not in use
balloc == Min(Blocks \ bitmap)

\* a new block at the end of a file
bmap(i) == [dinode EXCEPT ![i].addrs = @ \union {balloc}]

\* writei() only refuses to go beyond MAXFILE blocks
writei_fits(i) == Cardinality(dinode[i].addrs) < MAXFILE

\* filewrite() that appends a block, or "balloc: out of blocks"
write(p) ==
  /\ At(p, "idle") /\ file[p] # NULL
  /\ LET i == file[p]
     IN /\ inode[i].lock = NULL /\ ~NoType(i)
        /\ inode' = Read(inode, i)
        /\ inode'[i].type = "file" /\ writei_fits(i)
        /\ \/ /\ bitmap # Blocks
              /\ bitmap' = bitmap \union {balloc}
              /\ dinode' = bmap(i)
              /\ UNCHANGED panicked
           \/ /\ bitmap = Blocks
              /\ panicked' = TRUE
              /\ UNCHANGED <<dinode, bitmap>>
  /\ UNCHANGED <<ents, file, cwd, l>>

\* the old current directory is put; the new one is set after end_op()
chdir(p) ==
  /\ ilock(p, "chdir")
  /\ LET i == l[p].dp
     IN /\ inode' = Read(inode, i)
        /\ IF inode'[i].type = "dir"
           THEN /\ l' = [l EXCEPT ![p] = Done(<<cwd[p]>>)]
                /\ cwd' = [cwd EXCEPT ![p] = i]
           ELSE l' = [l EXCEPT ![p] = Done(<<i>>)] /\ UNCHANGED cwd
  /\ UNCHANGED <<dinode, ents, bitmap, file, panicked>>
-----------------------------------------------------------------------------
(* create(), with the rest of open() and mkdir() *)

\* the entry exists: dp is given up; or ialloc() finds a free inode and dp stays locked
create(p) ==
  /\ ilock(p, "create")
  /\ LET d == l[p].dp
         i == Gets(p)
         f == iget(Read(inode, d), i)
     IN IF Target(p) # 0
        THEN /\ inode' = f
             /\ l' = [l EXCEPT ![p] = [@ EXCEPT !.ip = i, !.dp = NULL, !.path = <<>>,
                                                !.puts = <<d>>, !.pc = "create_exists"]]
             /\ UNCHANGED dinode
        ELSE /\ inode' = Held(f, d, p)
             /\ dinode' = [dinode EXCEPT ![i] = [type |-> l[p].type, nlink |-> 0, addrs |-> {}]]
             /\ l' = [l EXCEPT ![p] = [@ EXCEPT !.ip = i, !.pc = "create_new"]]
  /\ UNCHANGED <<ents, bitmap, file, cwd, panicked>>

\* mutant: an open() without a descriptor forgets the inode
Return_Forgets(p, opens) ==
  /\ file' = IF opens THEN [file EXCEPT ![p] = l[p].ip] ELSE file
  /\ l' = [l EXCEPT ![p] = Idle]

\* what the callers do with an inode: open() keeps it if it has a descriptor for it
Return(p, opens) ==
  /\ file' = IF opens THEN [file EXCEPT ![p] = l[p].ip] ELSE file
  /\ l' = [l EXCEPT ![p] = IF opens THEN Idle ELSE Done(<<l[p].ip>>)]

create_exists(p) ==
  /\ ilock(p, "create_exists")
  /\ inode' = Read(inode, l[p].ip)
  /\ Return(p, l[p].type = "file" /\ inode'[l[p].ip].type = "file" /\ file[p] = NULL)
  /\ UNCHANGED <<dinode, ents, bitmap, cwd, panicked>>

\* mutant: the ".." of a new directory is not counted
Dotdot_Uncounted(f, d, type) == f

\* dp->nlink++ for ".."
Dotdot(f, d, type) == IF type = "dir" THEN Nlink(f, d, 1) ELSE f

\* the new inode gets its link, its dots and its entry in dp, and stays locked
create_new(p) ==
  /\ ilock(p, "create_new")
  /\ LET i == l[p].ip
         d == l[p].dp
         isdir == l[p].type = "dir"
         f == Dotdot([Read(inode, i) EXCEPT ![i].nlink = 1], d, l[p].type)
         dots == [ents[i] EXCEPT !["."] = i, ![".."] = d]
     IN /\ dinode' = iupdate(f, {i, d})
        /\ inode' = Held(Held(f, i, p), d, NULL)
        /\ ents' = [ents EXCEPT ![d][Head(l[p].path)] = i, ![i] = IF isdir THEN dots ELSE @]
        /\ l' = [l EXCEPT ![p] = [@ EXCEPT !.dp = NULL, !.path = <<>>, !.puts = <<d>>,
                                           !.pc = "create_done"]]
  /\ UNCHANGED <<bitmap, file, cwd, panicked>>

create_done(p) ==
  /\ At(p, "create_done")
  /\ inode' = Held(inode, l[p].ip, NULL)
  /\ Return(p, l[p].type = "file" /\ file[p] = NULL)
  /\ UNCHANGED <<dinode, ents, bitmap, cwd, panicked>>
-----------------------------------------------------------------------------
(* unlink() *)

unlink(p) ==
  /\ ilock(p, "unlink")
  /\ LET d == l[p].dp
         f == Read(inode, d)
     IN IF Gets(p) = 0
        THEN /\ inode' = f
             /\ l' = [l EXCEPT ![p] = Done(<<d>>)]
        ELSE /\ inode' = Held(iget(f, Gets(p)), d, p)
             /\ l' = [l EXCEPT ![p] = [@ EXCEPT !.ip = Gets(p), !.pc = "unlink_ip"]]
  /\ UNCHANGED <<dinode, ents, bitmap, file, cwd, panicked>>

isdirempty(i) == \A n \in Names : ents[i][n] = 0

\* a directory must be empty; the entry is erased, and dp given up before ip
unlink_ip(p) ==
  /\ ilock(p, "unlink_ip")
  /\ LET i == l[p].ip
         d == l[p].dp
         f == Read(inode, i)
         isdir == f[i].type = "dir"
         g == IF isdir THEN Nlink(f, d, -1) ELSE f
     IN IF isdir /\ ~isdirempty(i)
        THEN /\ inode' = f
             /\ l' = [l EXCEPT ![p] = [Done(<<i>>) EXCEPT !.dp = d, !.pc = "unlink_bad"]]
             /\ UNCHANGED <<dinode, ents>>
        ELSE /\ inode' = Held(Held(g, i, p), d, NULL)
             /\ dinode' = iupdate(g, {d})
             /\ ents' = [ents EXCEPT ![d][Head(l[p].path)] = 0]
             /\ l' = [l EXCEPT ![p] = [Done(<<d>>) EXCEPT !.ip = i, !.pc = "unlink_done"]]
  /\ UNCHANGED <<bitmap, file, cwd, panicked>>

\* mutant: the reference is given up first, then the lock
dp_unlockput_PutsFirst(p, pc, next) ==
  /\ At(p, pc)
  /\ l' = [l EXCEPT ![p] = [Done(<<l[p].dp>>) EXCEPT !.ip = l[p].ip, !.pc = next]]
  /\ UNCHANGED <<dinode, ents, bitmap, inode, file, cwd, panicked>>

\* iunlockput(dp), and where the call goes on
dp_unlockput(p, pc, next) ==
  /\ At(p, pc)
  /\ inode' = Held(inode, l[p].dp, NULL)
  /\ l' = [l EXCEPT ![p] = [Done(<<l[p].dp>>) EXCEPT !.ip = l[p].ip, !.pc = next]]
  /\ UNCHANGED <<dinode, ents, bitmap, file, cwd, panicked>>

unlink_bad(p) == dp_unlockput(p, "unlink_bad", "idle")

unlink_done(p) ==
  /\ At(p, "unlink_done")
  /\ LET i == l[p].ip
         f == Nlink(inode, i, -1)
     IN /\ dinode' = iupdate(f, {i})
        /\ inode' = Held(f, i, NULL)
        /\ l' = [l EXCEPT ![p] = Done(<<i>>)]
  /\ UNCHANGED <<ents, bitmap, file, cwd, panicked>>
-----------------------------------------------------------------------------
(* link() *)

\* the link is counted first; then nameiparent(new) starts
link(p) ==
  /\ ilock(p, "link")
  /\ LET i == l[p].dp
         f == Nlink(Read(inode, i), i, 1)
     IN IF f[i].type = "dir"
        THEN /\ inode' = Read(inode, i)
             /\ l' = [l EXCEPT ![p] = Done(<<i>>)]
             /\ UNCHANGED dinode
        ELSE /\ dinode' = iupdate(f, {i})
             /\ inode' = iget(f, From(p, l[p].new))
             /\ l' = [l EXCEPT ![p] = [@ EXCEPT !.ip = i, !.dp = From(p, l[p].new), !.new = NULL,
                                                !.path = l[p].new.names, !.pc = "namex"]]
  /\ UNCHANGED <<ents, bitmap, file, cwd, panicked>>

\* dirlink(dp, name, ip): an entry that exists is put while dp is locked
link_entry(p) ==
  /\ ilock(p, "link_entry")
  /\ LET d == l[p].dp
         f == Read(inode, d)
     IN IF Target(p) # 0
        THEN /\ inode' = Held(iget(f, Target(p)), d, p)
             /\ l' = [l EXCEPT ![p] = [@ EXCEPT !.path = <<>>, !.puts = <<Target(p)>>,
                                                !.pc = "link_exists"]]
             /\ UNCHANGED ents
        ELSE /\ inode' = f
             /\ ents' = [ents EXCEPT ![d][Head(l[p].path)] = l[p].ip]
             /\ l' = [l EXCEPT ![p] = Done(<<d, l[p].ip>>)]
  /\ UNCHANGED <<dinode, bitmap, file, cwd, panicked>>

link_exists(p) == dp_unlockput(p, "link_exists", "link_bad")

link_bad(p) ==
  /\ ilock(p, "link_bad")
  /\ LET i == l[p].ip
         f == Nlink(Read(inode, i), i, -1)
     IN /\ dinode' = iupdate(f, {i})
        /\ inode' = f
        /\ l' = [l EXCEPT ![p] = Done(<<i>>)]
  /\ UNCHANGED <<ents, bitmap, file, cwd, panicked>>
-----------------------------------------------------------------------------
\* iinit(), and init in the root directory, where it stays
Cold == [i \in Inums |-> [ref |-> IF i = ROOTINO THEN 1 + Cardinality(Procs) ELSE 0,
                          valid |-> FALSE, type |-> "free", nlink |-> 0, lock |-> NULL]]

\* the disk that mkfs makes: an empty root directory
Init ==
  /\ dinode = [i \in Inums |-> [type |-> IF i = ROOTINO THEN "dir" ELSE "free",
                                nlink |-> IF i = ROOTINO THEN 1 ELSE 0, addrs |-> {}]]
  /\ ents = [i \in Inums |-> [n \in Names \union Dots |->
                               IF i = ROOTINO /\ n \in Dots THEN ROOTINO ELSE 0]]
  /\ bitmap = {}
  /\ inode = Cold
  /\ file = [p \in Procs |-> NULL]
  /\ cwd = [p \in Procs |-> ROOTINO]
  /\ l = [p \in Procs |-> Idle]
  /\ panicked = FALSE
  /\ calls = 0

Quiet == \A p \in Procs : l[p] = Idle

\* everything in memory is lost
Crash ==
  /\ Quiet
  /\ inode' = Cold
  /\ file' = [p \in Procs |-> NULL]
  /\ cwd' = [p \in Procs |-> ROOTINO]
  /\ panicked' = FALSE
  /\ UNCHANGED <<dinode, ents, bitmap, l>>

Call(p) ==
  \E path \in Paths :
    \/ \E op \in {"open", "chdir", "unlink"} : start(p, op, NULL, path, NULL)
    \/ \E type \in {"file", "dir"} : start(p, "create", type, path, NULL)
    \/ \E new \in Paths : start(p, "link", NULL, path, new)
    \/ close(p) \/ write(p)

Step(p) ==
  \/ namex(p) \/ iput(p) \/ iput_unref(p) \/ panic(p) \/ open(p) \/ chdir(p)
  \/ create(p) \/ create_exists(p) \/ create_new(p) \/ create_done(p)
  \/ unlink(p) \/ unlink_ip(p) \/ unlink_bad(p) \/ unlink_done(p)
  \/ link(p) \/ link_entry(p) \/ link_exists(p) \/ link_bad(p)

Next ==
  \/ calls < MaxCalls /\ calls' = calls + 1 /\ \E p \in Procs : Call(p)
  \/ UNCHANGED calls /\ ((\E p \in Procs : Step(p)) \/ Crash)

Spec == Init /\ [][Next]_vars
-----------------------------------------------------------------------------
(* Properties *)

\* what p refers to
Pointers(p) == <<l[p].dp, l[p].ip, l[p].unref, file[p], cwd[p]>> \o l[p].puts

\* Every variable has its type, and the cache holds at most NINODE inodes.
TypeOK ==
  /\ dinode \in [Inums -> [type : {"free", "file", "dir"}, nlink : Nat, addrs : SUBSET Blocks]]
  /\ ents \in [Inums -> [Names \union Dots -> 0 .. NINODES]]
  /\ bitmap \subseteq Blocks
  /\ inode \in [Inums -> [ref : Nat, valid : BOOLEAN, type : {"free", "file", "dir"},
                          nlink : Nat, lock : Procs \union {NULL}]]
  /\ Cardinality({i \in Inums : inode[i].ref > 0}) <= NINODE
  /\ file \in [Procs -> Inums \union {NULL}]
  /\ cwd \in [Procs -> Inums]
  /\ \A p \in Procs :
       /\ l[p].pc \in LocksDp \union LocksIp
                     \union {"idle", "create_done", "unlink_bad", "unlink_done", "link_exists"}
       /\ {l[p].dp, l[p].ip, l[p].unref} \subseteq Inums \union {NULL}
       /\ l[p].puts \in Seq(Inums)
  /\ panicked \in BOOLEAN
  /\ calls \in 0 .. MaxCalls

\* ref counts the C pointers to the entry: no path through a system call, failed or
\* not, loses a reference or gives one up twice.
RefCounts ==
  /\ TypeOK
  /\ \A i \in Inums :
       inode[i].ref =
         MapThenSumSet(LAMBDA p : Len(SelectSeq(Pointers(p), LAMBDA j : j = i)), Procs)
           + (IF i = ROOTINO THEN 1 ELSE 0)

\* The inode of an open file, of a current directory, of a directory entry and of every
\* process that is about to lock it is allocated: iput() frees nothing that somebody can
\* still reach, and the "no type" panic of ilock() is unreachable.
NothingFreedInUse ==
  /\ \A p \in Procs : /\ file[p] # NULL => dinode[file[p]].type # "free"
                      /\ dinode[cwd[p]].type = "dir"
                      /\ l[p].pc \in LocksDp \union LocksIp => dinode[Wants(p)].type # "free"
  /\ \A d \in Inums, n \in Names : ents[d][n] # 0 => dinode[ents[d][n]].type # "free"

\* An inode has at least as many links as there are entries that name it, with the ".."
\* entries of its own subdirectories; also after a crash.
LinksCovered ==
  \A i \in Inums :
    Cardinality({x \in Inums \X Names : ents[x[1]][x[2]] = i})
      + Cardinality({n \in Names : ents[i][n] # 0 /\ dinode[ents[i][n]].type = "dir"})
    <= dinode[i].nlink

\* A block in use belongs to exactly one allocated inode.
BlocksOwned ==
  /\ \A b \in Blocks : b \in bitmap <=> \E i \in Inums : b \in dinode[i].addrs
  /\ \A i, j \in Inums : i # j => dinode[i].addrs \intersect dinode[j].addrs = {}
  /\ \A i \in Inums : dinode[i].type = "free" => dinode[i].addrs = {}

\* the inode whose lock p is about to take, and the process that has it
Locking(p) == IF l[p].unref # NULL THEN NULL
              ELSE IF l[p].puts # <<>> THEN Head(l[p].puts)
              ELSE IF l[p].pc \in LocksDp \union LocksIp THEN Wants(p) ELSE NULL
WaitsOn(p, q) == Locking(p) # NULL /\ inode[Locking(p)].lock = q

\* create() and unlink() put the directory while they have the inode in it locked
PutsParent(p) == l[p].pc \in {"create_done", "unlink_done"} /\ l[p].puts # <<>>

\* Inode locks are taken from a directory to what is in it, so that no two processes wait
\* for each other and none for itself, except through iput(), which takes the lock again:
\* a process in a cycle is in the iput() of the directory at the end of create() or
\* unlink(), with its child locked, and the other has that directory in unlink() or
\* link(); and link() to a name "." puts the directory that it has locked.
LockOrder ==
  /\ \A p, q \in Procs : p # q /\ WaitsOn(p, q) /\ WaitsOn(q, p) =>
       \/ PutsParent(p) /\ l[q].pc \in {"unlink_ip", "link_exists"}
       \/ PutsParent(q) /\ l[p].pc \in {"unlink_ip", "link_exists"}
  /\ \A p \in Procs : WaitsOn(p, p) => l[p].pc = "link_exists" /\ Locking(p) = l[p].dp
=============================================================================
