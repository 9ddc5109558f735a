------------------------------- MODULE Shell -------------------------------
(***************************************************************************)
(* The shell that runs commands (runcmd() and main() of sh.c) and init     *)
(* (init.c), on the kernel's open files: the table of struct file          *)
(* (file.c), the descriptors of each process (sysfile.c), what fork(),     *)
(* exit() and wait() do with them (proc.c), and the two ends of a pipe     *)
(* (pipe.c).                                                               *)
(*                                                                         *)
(* A process has the calls it is still going to make.  runcmd() of a       *)
(* command is the sequence of its calls; the call fork has the calls of    *)
(* the child.  A command is                                                *)
(*   [type |-> "EXEC", prog |-> "cat", "echo" or "true"]                   *)
(*   [type |-> "REDIR", fd, cmd]   [type |-> "BACK", cmd]                  *)
(*   [type |-> "LIST" or "PIPE", left, right].                             *)
(* A call is atomic, except that read, write and wait block; Pipe and Proc *)
(* model how they sleep and are woken.  A pipe holds at most PIPESIZE      *)
(* bytes, which are only counted.                                          *)
(***************************************************************************)
EXTENDS Integers, SequencesExt, FiniteSetsExt

CONSTANTS NPROC, NFILE, NOFILE, NPIPE, PIPESIZE,
          Commands,   \* what the user may type
          MaxCmds     \* commands typed at most

VARIABLES proc, ftable, pipe,
          typed,      \* the commands typed so far
          failed      \* history: a fork() failed during the command that runs now

vars == <<proc, ftable, pipe, typed, failed>>

Procs == 1..NPROC
Files == 1..NFILE
Fds == 0..NOFILE-1
initproc == 1

unused == [state |-> "unused", parent |-> 0, ofile |-> [fd \in Fds |-> 0], code |-> <<>>,
           p |-> <<0, 0>>, pid |-> 0, back |-> FALSE]
-----------------------------------------------------------------------------
(* the calls that sh.c and init.c make *)

Do(op) == [op |-> op]
Fd(op, fd) == [op |-> op, fd |-> fd]      \* a descriptor that the program names
End(op, k) == [op |-> op, end |-> k]      \* the descriptor in p[k]
fork1(code) == [op |-> "fork", child |-> code, back |-> FALSE]
forkback(code) == [op |-> "fork", child |-> code, back |-> TRUE]

\* mutant: the shell keeps its write end of the pipe open
PipeCalls_KeepsWrite(left, right) ==
  <<Do("pipe"),
    fork1(<<Fd("close", 1), End("dup", 2), End("close", 1), End("close", 2)>> \o left),
    fork1(<<Fd("close", 0), End("dup", 1), End("close", 1), End("close", 2)>> \o right),
    End("close", 1), Do("wait"), Do("wait"), Do("exit")>>

\* mutant: the shell waits for one end of the pipeline
PipeCalls_WaitsOnce(left, right) ==
  <<Do("pipe"),
    fork1(<<Fd("close", 1), End("dup", 2), End("close", 1), End("close", 2)>> \o left),
    fork1(<<Fd("close", 0), End("dup", 1), End("close", 1), End("close", 2)>> \o right),
    End("close", 1), End("close", 2), Do("wait"), Do("exit")>>

\* case PIPE of runcmd(); the C array p[0], p[1] is p[1], p[2] here
PipeCalls(left, right) ==
  <<Do("pipe"),
    fork1(<<Fd("close", 1), End("dup", 2), End("close", 1), End("close", 2)>> \o left),
    fork1(<<Fd("close", 0), End("dup", 1), End("close", 1), End("close", 2)>> \o right),
    End("close", 1), End("close", 2), Do("wait"), Do("wait"), Do("exit")>>

RECURSIVE runcmd(_)
runcmd(cmd) ==
  CASE cmd.type = "EXEC" -> <<Do(cmd.prog), Do("exit")>>
    [] cmd.type = "REDIR" -> <<Fd("close", cmd.fd), Do("open")>> \o runcmd(cmd.cmd)
    [] cmd.type = "LIST" -> <<fork1(runcmd(cmd.left)), Do("wait")>> \o runcmd(cmd.right)
    [] cmd.type = "PIPE" -> PipeCalls(runcmd(cmd.left), runcmd(cmd.right))
    [] cmd.type = "BACK" -> <<forkback(runcmd(cmd.cmd)), Do("exit")>>
-----------------------------------------------------------------------------
(* file.c on the table t, and pipeclose() on the pipes *)

FreeFiles(t) == {f \in Files : t[f].ref = 0}
nofile == [ref |-> 0, type |-> "none", pipe |-> 0, writable |-> FALSE]

\* the descriptor that fdalloc() finds, or -1
fdalloc(ofile) == IF \E fd \in Fds : ofile[fd] = 0
                  THEN Min({fd \in Fds : ofile[fd] = 0}) ELSE -1

filedup(t, f) == [t EXCEPT ![f].ref = @ + 1]

\* mutant: fork() copies the descriptors and does not count them
forkfiles_Shares(t, ofile) == t

\* fork() duplicates each open file
forkfiles(t, ofile) ==
  FoldLeft(LAMBDA s, fd : IF ofile[fd] = 0 THEN s ELSE filedup(s, ofile[fd]),
           t, [k \in 1..NOFILE |-> k - 1])

\* s has the table and the pipes; the last reference closes this end of the pipe
fileclose(s, f) ==
  LET ff == s.ftable[f]
  IN IF ff.ref > 1 THEN [s EXCEPT !.ftable[f].ref = @ - 1]
     ELSE [ftable |-> [s.ftable EXCEPT ![f] = nofile],
           pipe |-> IF ff.type # "pipe" THEN s.pipe
                    ELSE IF ff.writable THEN [s.pipe EXCEPT ![ff.pipe].writeopen = FALSE]
                    ELSE [s.pipe EXCEPT ![ff.pipe].readopen = FALSE]]

Files0 == [ftable |-> ftable, pipe |-> pipe]

CloseAll(ofile) ==
  FoldLeft(LAMBDA s, fd : IF ofile[fd] = 0 THEN s ELSE fileclose(s, ofile[fd]),
           Files0, [k \in 1..NOFILE |-> k - 1])

\* a page for a new pipe; pipeclose() frees it when both ends are closed
FreePipes == {q \in 1..NPIPE : ~pipe[q].readopen /\ ~pipe[q].writeopen}
-----------------------------------------------------------------------------
(* system calls of process p *)

Call(p) == Head(proc[p].code)
Calls(p, op) == proc[p].state = "run" /\ proc[p].code # <<>> /\ Call(p).op = op
Rest(p) == Tail(proc[p].code)
Step(p) == [proc EXCEPT ![p].code = Rest(p)]

\* the descriptor that the call names
FdOf(p) == LET c == Call(p) IN IF "end" \in DOMAIN c THEN proc[p].p[c.end] ELSE c.fd

\* panic() of sh.c, and every exit that an error leads to
Exits == <<Do("exit")>>

sys_close(p) ==
  LET fd == FdOf(p)
      f == proc[p].ofile[fd]
      s == IF f = 0 THEN Files0 ELSE fileclose(Files0, f)
  IN /\ Calls(p, "close")
     /\ proc' = [Step(p) EXCEPT ![p].ofile[fd] = 0]
     /\ ftable' = s.ftable /\ pipe' = s.pipe
     /\ UNCHANGED <<typed, failed>>

sys_dup(p) ==
  LET f == proc[p].ofile[FdOf(p)]
      fd == fdalloc(proc[p].ofile)
      done == f # 0 /\ fd # -1
  IN /\ Calls(p, "dup")
     /\ proc' = IF done THEN [Step(p) EXCEPT ![p].ofile[fd] = f] ELSE Step(p)
     /\ ftable' = IF done THEN filedup(ftable, f) ELSE ftable
     /\ UNCHANGED <<pipe, typed, failed>>

\* open() of a file that may not exist; without a descriptor or a struct file it fails too.
\* runcmd() then exits; main() of sh.c goes on (its first open(), of the console)
sys_open(p) ==
  LET fd == fdalloc(proc[p].ofile)
      f == Min(FreeFiles(ftable))
  IN /\ Calls(p, "open") \/ Calls(p, "console")
     /\ \/ /\ FreeFiles(ftable) # {} /\ fd # -1
           /\ proc' = [Step(p) EXCEPT ![p].ofile[fd] = f]
           /\ ftable' = [ftable EXCEPT ![f] = [nofile EXCEPT !.ref = 1, !.type = "inode"]]
        \/ /\ proc' = IF Call(p).op = "open" THEN [proc EXCEPT ![p].code = Exits] ELSE Step(p)
           /\ ftable' = ftable
     /\ UNCHANGED <<pipe, typed, failed>>

\* pipealloc() and fdalloc() may fail, and then all that was allocated is given back
sys_pipe(p) ==
  LET rf == Min(FreeFiles(ftable))
      wf == Min(FreeFiles(ftable) \ {rf})
      q == Min(FreePipes)
      fd0 == fdalloc(proc[p].ofile)
      fd1 == fdalloc([proc[p].ofile EXCEPT ![fd0] = rf])
      room == /\ Cardinality(FreeFiles(ftable)) >= 2 /\ FreePipes # {}
              /\ Cardinality({fd \in Fds : proc[p].ofile[fd] = 0}) >= 2
  IN /\ Calls(p, "pipe")
     /\ \/ /\ room
           /\ proc' = [Step(p) EXCEPT ![p].ofile = [@ EXCEPT ![fd0] = rf, ![fd1] = wf],
                                      ![p].p = <<fd0, fd1>>]
           /\ ftable' = [ftable EXCEPT
                ![rf] = [ref |-> 1, type |-> "pipe", pipe |-> q, writable |-> FALSE],
                ![wf] = [ref |-> 1, type |-> "pipe", pipe |-> q, writable |-> TRUE]]
           /\ pipe' = [pipe EXCEPT ![q] = [n |-> 0, readopen |-> TRUE, writeopen |-> TRUE]]
        \/ /\ ~room
           /\ proc' = [proc EXCEPT ![p].code = Exits]
           /\ UNCHANGED <<ftable, pipe>>
     /\ UNCHANGED <<typed, failed>>

\* fork(), and fork1(), which exits when there is no process left
sys_fork(p) ==
  LET slots == {q \in Procs : proc[q].state = "unused"}
      np == Min(slots)
      child == [proc[p] EXCEPT !.parent = p, !.code = Call(p).child,
                               !.back = @ \/ Call(p).back]
  IN /\ Calls(p, "fork")
     /\ \/ /\ slots # {}
           /\ proc' = [Step(p) EXCEPT ![np] = child, ![p].pid = IF p = initproc THEN np ELSE 0]
           /\ ftable' = forkfiles(ftable, proc[p].ofile)
           /\ failed' = failed
        \/ /\ slots = {}
           /\ proc' = [proc EXCEPT ![p].code = Exits]
           /\ ftable' = ftable /\ failed' = TRUE
     /\ UNCHANGED <<pipe, typed>>

\* exit() closes all files and gives the children to init
sys_exit(p) ==
  LET s == CloseAll(proc[p].ofile)
  IN /\ Calls(p, "exit")
     /\ ftable' = s.ftable /\ pipe' = s.pipe
     /\ proc' = [q \in Procs |->
          IF q = p THEN [unused EXCEPT !.state = "zombie", !.parent = proc[p].parent,
                                       !.back = proc[p].back]
          ELSE IF proc[q].parent = p THEN [proc[q] EXCEPT !.parent = initproc]
          ELSE proc[q]]
     /\ UNCHANGED <<typed, failed>>

Children(p) == {q \in Procs : proc[q].state # "unused" /\ proc[q].parent = p}
Zombies(p) == {q \in Children(p) : proc[q].state = "zombie"}

\* wait() takes the first zombie of the table, and returns if there are no children
sys_wait(p) ==
  /\ Calls(p, "wait")
  /\ Zombies(p) # {} \/ Children(p) = {}
  /\ proc' = IF Zombies(p) = {} THEN Step(p)
             ELSE [Step(p) EXCEPT ![Min(Zombies(p))] = unused]
  /\ UNCHANGED <<ftable, pipe, typed, failed>>
-----------------------------------------------------------------------------
(* programs *)

File(p, fd) == ftable[proc[p].ofile[fd]]
IsPipe(p, fd) == proc[p].ofile[fd] # 0 /\ File(p, fd).type = "pipe"

\* a read of cat from descriptor 0: a byte, or none any more (always possible for a file
\* or the console; read() of a descriptor that is not open fails and ends cat too)
cat(p) ==
  LET q == File(p, 0).pipe
  IN /\ Calls(p, "cat")
     /\ \/ /\ IsPipe(p, 0) => pipe[q].n > 0
           /\ proc[p].ofile[0] # 0
           /\ pipe' = IF IsPipe(p, 0) THEN [pipe EXCEPT ![q].n = @ - 1] ELSE pipe
           /\ proc' = [proc EXCEPT ![p].code = <<Do("write")>> \o @]
        \/ /\ IsPipe(p, 0) => pipe[q].n = 0 /\ ~pipe[q].writeopen
           /\ pipe' = pipe /\ proc' = Step(p)
     /\ UNCHANGED <<ftable, typed, failed>>

\* echo writes one byte and ends
echo(p) ==
  /\ Calls(p, "echo")
  /\ proc' = [proc EXCEPT ![p].code = <<Do("write")>> \o Rest(p)]
  /\ UNCHANGED <<ftable, pipe, typed, failed>>

\* a program that neither reads nor writes
true(p) == Calls(p, "true") /\ proc' = Step(p) /\ UNCHANGED <<ftable, pipe, typed, failed>>

\* write() of a byte to descriptor 1; pipewrite() looks at readopen only when the pipe is
\* full, and the program exits when the write fails
write(p) ==
  LET q == File(p, 1).pipe
      full == pipe[q].n = PIPESIZE
  IN /\ Calls(p, "write")
     /\ \/ /\ IsPipe(p, 1) => ~full
           /\ pipe' = IF IsPipe(p, 1) THEN [pipe EXCEPT ![q].n = @ + 1] ELSE pipe
           /\ proc' = Step(p)
        \/ /\ IsPipe(p, 1) /\ full /\ ~pipe[q].readopen
           /\ pipe' = pipe /\ proc' = [proc EXCEPT ![p].code = Exits]
     /\ UNCHANGED <<ftable, typed, failed>>

\* main() of sh.c: a command, or the end of the input.  cd changes nothing that is modelled
\* here; the shell goes on to the next line
main(p) ==
  /\ Calls(p, "getcmd")
  /\ \/ /\ typed < MaxCmds
        /\ typed' = typed + 1 /\ failed' = FALSE
        /\ \E cmd \in Commands :
             proc' = [proc EXCEPT ![p].code = <<fork1(runcmd(cmd)), Do("wait"), Do("getcmd")>>]
     \/ /\ proc' = [proc EXCEPT ![p].code = Exits]
        /\ UNCHANGED <<typed, failed>>
  /\ UNCHANGED <<ftable, pipe>>

\* the loop of init: it starts a shell and waits until that one has ended.  The shell opens
\* the console until it gets descriptor 3, which is its first, and closes that again
init_start(p) ==
  /\ Calls(p, "init")
  /\ proc' = [proc EXCEPT ![p].code =
       <<fork1(<<Do("console"), Fd("close", 3), Do("getcmd")>>), Do("reap")>>]
  /\ UNCHANGED <<ftable, pipe, typed, failed>>

init_reap(p) ==
  LET z == Min(Zombies(p))
  IN /\ Calls(p, "reap") /\ Zombies(p) # {}
     /\ proc' = [proc EXCEPT ![z] = unused,
                             ![p].code = IF z = proc[p].pid THEN <<Do("init")>> ELSE @]
     /\ UNCHANGED <<ftable, pipe, typed, failed>>
-----------------------------------------------------------------------------
\* init has opened the console as 0, 1 and 2
Init ==
  /\ proc = [p \in Procs |-> IF p # initproc THEN unused ELSE
       [unused EXCEPT !.state = "run", !.ofile = [fd \in Fds |-> IF fd < 3 THEN 1 ELSE 0],
                      !.code = <<Do("init")>>]]
  /\ ftable = [f \in Files |-> IF f # 1 THEN nofile ELSE
                                 [nofile EXCEPT !.ref = 3, !.type = "inode"]]
  /\ pipe = [q \in 1..NPIPE |-> [n |-> 0, readopen |-> FALSE, writeopen |-> FALSE]]
  /\ typed = 0 /\ failed = FALSE

Next == \E p \in Procs :
  \/ sys_close(p) \/ sys_dup(p) \/ sys_open(p) \/ sys_pipe(p) \/ sys_fork(p)
  \/ sys_exit(p) \/ sys_wait(p) \/ cat(p) \/ echo(p) \/ true(p) \/ write(p)
  \/ main(p) \/ init_start(p) \/ init_reap(p)

Spec == Init /\ [][Next]_vars
-----------------------------------------------------------------------------
Running == {p \in Procs : proc[p].state = "run"}
Holders(f) == {x \in Running \X Fds : proc[x[1]].ofile[x[2]] = f}

\* The count of each struct file is the number of descriptors, of all processes, that
\* refer to it, through every fork(), dup(), close() and exit() of a pipeline and when
\* pipe() fails half way; and an end of a pipe is open exactly while some descriptor
\* refers to it, so end of file and "no reader" are reported neither early nor never.
RefsAreDescriptors ==
  /\ \A f \in Files : ftable[f].ref = Cardinality(Holders(f))
  /\ \A q \in 1..NPIPE : \A w \in BOOLEAN :
       (IF w THEN pipe[q].writeopen ELSE pipe[q].readopen)
       <=> \E f \in Files : ftable[f].type = "pipe" /\ ftable[f].pipe = q
                            /\ ftable[f].writable = w /\ ftable[f].ref > 0

\* the processes that have an end of the pipe q
Have(q, w) == {p \in Running : \E fd \in Fds :
                 IsPipe(p, fd) /\ File(p, fd).pipe = q /\ File(p, fd).writable = w}

\* the processes one of which has to act before p can go on; p itself if p can go on
WaitsFor(p) ==
  LET rq == File(p, 0).pipe
      wq == File(p, 1).pipe
  IN CASE Calls(p, "cat") /\ IsPipe(p, 0) /\ pipe[rq].n = 0 /\ pipe[rq].writeopen
            -> Have(rq, TRUE) \ {p}
       [] Calls(p, "write") /\ IsPipe(p, 1) /\ pipe[wq].n = PIPESIZE /\ pipe[wq].readopen
            -> Have(wq, FALSE) \ {p}
       [] Calls(p, "reap") \/ (Calls(p, "wait") /\ Children(p) # {})
            -> IF Zombies(p) = {} THEN Children(p) ELSE {p}
       [] OTHER -> {p}

\* No set of processes waits for one another for ever: whoever sleeps in a pipe or in
\* wait() does so for a process that can still run.  It is what all the close() calls of
\* runcmd() are for: a reader that kept the write end of its own pipe would never see
\* the end of its input.
NoneStuck ==
  LET CanRun == {p \in Running : p \in WaitsFor(p)}
      Sleepers == {p \in Running : p \notin CanRun}
  IN \A S \in SUBSET Sleepers : S # {} => \E p \in S : WaitsFor(p) \ S # {}

\* When the shell prompts again, every process of the commands so far has ended and been
\* waited for, except those started with "&": each wait() of runcmd() and main() gets the
\* child it was meant for.  (After a fork() that failed, what was started runs on.)
PromptAfterForeground ==
  \A p \in Running : Calls(p, "getcmd") /\ ~failed =>
    \A q \in Procs \ {initproc, p} : proc[q].state = "unused" \/ proc[q].back
=============================================================================
