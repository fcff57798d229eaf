-------------------------------- MODULE Shell --------------------------------
(***************************************************************************)
(* The shell, user/sh.c, and user/init.c, as processes.                    *)
(*                                                                         *)
(* The shell forks a process for each line; it parses the line and runs    *)
(* runcmd() on the tree, which forks further processes.  An action is what *)
(* a process does up to its next fork(), wait(), exec() or exit(): its     *)
(* calls of open(), close() and dup() in between concern nobody else.      *)
(* Programs are filters: one whose input is a pipe is sure to end only     *)
(* when no process has the write end open.                                 *)
(***************************************************************************)
EXTENDS ShellParser, TLC

CONSTANTS NPROC, NOFILE,
          Input           \* Input[k]: what may be typed as line k

Procs == 1..NPROC
Init1 == 1                \* the slot of init

VARIABLES proc,           \* the processes
          sh,             \* pid in init.c: the shell
          tree,           \* the lines so far: tokens, and the command they stand for
          lost            \* lines in which fork1() or pipe() has failed

vars == <<proc, sh, tree, lost>>

NoCmd == Panic.cmd

\* A process: what it does next; its command, and where that is in
\* the tree of which line; its files and its array p[2]; its parent;
\* and whether it runs in the background.
Unused ==
  [st |-> "UNUSED", cmd |-> NoCmd, path |-> << >>, line |-> 0, fds |-> << >>,
   p |-> <<0, 0>>, parent |-> Init1, bg |-> FALSE]

\* main() of init.c has opened the console; fork() comes next.
Init ==
  /\ proc = [p \in Procs |->
               IF p = Init1
                 THEN [Unused EXCEPT !.st = "init", !.fds = [d \in 0..2 |-> <<"console">>]]
                 ELSE Unused]
  /\ sh = 0 /\ tree = << >> /\ lost = {}

-----------------------------------------------------------------------------
(* System calls                                                            *)

\* The file descriptors after close(d), and after open() or dup() of a file x.
close(fds, d) == [i \in DOMAIN fds \ {d} |-> fds[i]]
Lowest(fds) == Min((0..NOFILE - 1) \ DOMAIN fds)
open(fds, x) == Lowest(fds) :> x @@ fds

At(p, st) == proc[p].st = st
Children(p) == {q \in Procs \ {p} : ~At(q, "UNUSED") /\ proc[q].parent = p}
FreeSlots == {q \in Procs : At(q, "UNUSED")}

\* p goes on as r; its child is c.
Fork(p, r, c) ==
  /\ FreeSlots # {}
  /\ proc' = [proc EXCEPT ![p] = r, ![Min(FreeSlots)] = [c EXCEPT !.parent = p]]

\* exit(): init gets the children.
Exit(p) ==
  proc' = [q \in Procs |->
             IF q = p THEN [Unused EXCEPT !.st = "ZOMBIE", !.parent = proc[p].parent]
             ELSE IF q \in Children(p) THEN [proc[q] EXCEPT !.parent = Init1]
             ELSE proc[q]]

\* wait(0) of p returns the child q; p goes on as r.
Wait(p, q, r) ==
  /\ q \in Children(p) /\ At(q, "ZOMBIE")
  /\ proc' = [proc EXCEPT ![p] = r, ![q] = Unused]

\* p at its next step, and p or its child with the subcommand number k.
Then(p, st) == [proc[p] EXCEPT !.st = st]
Sub(p, st, cmd, k) == [proc[p] EXCEPT !.st = st, !.cmd = cmd, !.path = Append(@, k)]

-----------------------------------------------------------------------------
(* init.c                                                                  *)

\* The child goes on with exec("sh").
init_fork(p) ==
  /\ At(p, "init")
  /\ Fork(p, Then(p, "wait"), Then(p, "execsh"))
  /\ sh' = Min(FreeSlots)
  /\ UNCHANGED <<tree, lost>>

\* fork() fails, for want of a slot or of memory: exit() of init is a panic of the
\* kernel.  Other processes may run until they print.
init_fork_fail(p) ==
  /\ At(p, "init")
  /\ proc' = [proc EXCEPT ![p].st = "panic"]
  /\ UNCHANGED <<sh, tree, lost>>

\* exec() of sh, which finds the console open as 0, 1 and 2; or exec() fails.
init_exec(p) ==
  /\ At(p, "execsh")
  /\ \E st \in {"prompt", "noexec"} : proc' = [proc EXCEPT ![p].st = st]
  /\ UNCHANGED <<sh, tree, lost>>

\* exit(1) after a failed exec().
init_noexec(p) ==
  /\ At(p, "noexec")
  /\ Exit(p)
  /\ UNCHANGED <<sh, tree, lost>>

\* wait(): the shell is started again, others are orphans.  The shell is a child of
\* init until then, so that wait() does not fail.
init_wait(p) ==
  /\ p = Init1 /\ At(p, "wait")
  /\ \E q \in Children(p) : Wait(p, q, Then(p, IF q = sh THEN "init" ELSE "wait"))
  /\ UNCHANGED <<sh, tree, lost>>

-----------------------------------------------------------------------------
(* main() of sh.c                                                          *)

\* getcmd() and fork1(); parsecmd() in the child.
main_line(p) ==
  /\ At(p, "prompt") /\ Len(tree) < Len(Input)
  /\ \E ts \in Input[Len(tree) + 1] :
       LET cmd == parsecmd(ts)
       IN  /\ Fork(p, Then(p, "shwait"),
                   [Then(p, "run") EXCEPT !.cmd = cmd, !.line = Len(tree) + 1])
           /\ tree' = Append(tree, [tokens |-> ts, cmd |-> cmd])
  /\ UNCHANGED <<sh, lost>>

\* "cd": the shell itself calls chdir().
main_cd(p) ==
  /\ At(p, "prompt") /\ Len(tree) < Len(Input)
  /\ tree' = Append(tree, [tokens |-> << >>, cmd |-> NoCmd])
  /\ UNCHANGED <<proc, sh, lost>>

main_wait(p) ==
  /\ At(p, "shwait")
  /\ \E q \in Children(p) : Wait(p, q, Then(p, "prompt"))
  /\ UNCHANGED <<sh, tree, lost>>

\* End of file, or fork1() fails.
main_exit(p) ==
  /\ At(p, "prompt")
  /\ Exit(p)
  /\ UNCHANGED <<sh, tree, lost>>

-----------------------------------------------------------------------------
(* runcmd()                                                                *)

Runs(p, type) == At(p, "run") /\ proc[p].cmd.type = type

\* fork1() or pipe() fails: panic().
Panicked(p) ==
  /\ Exit(p)
  /\ lost' = lost \cup {proc[p].line}
  /\ UNCHANGED <<sh, tree>>

ForkOrPanic(p, r, c) ==
  \/ Fork(p, r, c) /\ UNCHANGED <<sh, tree, lost>>
  \/ Panicked(p)

\* A syntax error; no command; or exec() or open() fails.
run_exit(p) ==
  /\ Runs(p, "none") \/ Runs(p, "EXEC") \/ Runs(p, "REDIR")
  /\ Exit(p)
  /\ UNCHANGED <<sh, tree, lost>>

run_exec(p) ==
  /\ Runs(p, "EXEC") /\ proc[p].cmd.argc > 0
  /\ proc' = [proc EXCEPT ![p].st = "prog"]
  /\ UNCHANGED <<sh, tree, lost>>

\* Mutant: the file is opened before the descriptor is closed.
redirect_late(fds, cmd) == close(open(fds, <<cmd.op>>), cmd.fd)

redirect(fds, cmd) == open(close(fds, cmd.fd), <<cmd.op>>)

run_redir(p) ==
  /\ Runs(p, "REDIR")
  /\ proc' = [proc EXCEPT ![p] = [Sub(p, "run", @.cmd.cmd, 0) EXCEPT
                                    !.fds = redirect(@, proc[p].cmd)]]
  /\ UNCHANGED <<sh, tree, lost>>

run_list(p) ==
  Runs(p, "LIST") /\ ForkOrPanic(p, Then(p, "listwait"), Sub(p, "run", proc[p].cmd.left, 1))

list_wait(p) ==
  /\ At(p, "listwait")
  /\ \E q \in Children(p) : Wait(p, q, Sub(p, "run", proc[p].cmd.right, 2))
  /\ UNCHANGED <<sh, tree, lost>>

\* pipe(p): its ends are files.
run_pipe(p) ==
  LET ends == <<proc[p].line, proc[p].path>>
      fds == open(proc[p].fds, <<"r", ends>>)
  IN  \/ /\ Runs(p, "PIPE")
         /\ proc' = [proc EXCEPT ![p].st = "pipe1",
                                 ![p].fds = open(fds, <<"w", ends>>),
                                 ![p].p = <<Lowest(proc[p].fds), Lowest(fds)>>]
         /\ UNCHANGED <<sh, tree, lost>>
      \/ Runs(p, "PIPE") /\ Panicked(p)

pipe_fork1(p) ==
  At(p, "pipe1") /\ ForkOrPanic(p, Then(p, "pipe2"), Sub(p, "left", proc[p].cmd.left, 1))

pipe_fork2(p) ==
  At(p, "pipe2") /\ ForkOrPanic(p, Then(p, "close"), Sub(p, "right", proc[p].cmd.right, 2))

\* Mutant: the write end stays open.
CloseBoth_one(fds, p) == close(fds, p[1])

\* close(p[0]); close(p[1])
CloseBoth(fds, p) == close(close(fds, p[1]), p[2])

\* The child: close(d); dup(p[k]); close(p[0]); close(p[1]).
pipe_child(p, st, d, k) ==
  /\ At(p, st)
  /\ LET fds == proc[p].fds
     IN  proc' = [proc EXCEPT
           ![p].st = "run",
           ![p].fds = CloseBoth(open(close(fds, d), fds[proc[p].p[k]]), proc[p].p)]
  /\ UNCHANGED <<sh, tree, lost>>

pipe_close(p) ==
  /\ At(p, "close")
  /\ proc' = [proc EXCEPT ![p].st = "wait2", ![p].fds = CloseBoth(@, proc[p].p)]
  /\ UNCHANGED <<sh, tree, lost>>

\* Mutant: the process of a pipe waits for one side only.
pipe_wait_once(p) ==
  /\ At(p, "wait2")
  /\ \E q \in Children(p) : Wait(p, q, Then(p, "done"))
  /\ UNCHANGED <<sh, tree, lost>>

pipe_wait(p) ==
  /\ At(p, "wait2") \/ At(p, "wait1")
  /\ \E q \in Children(p) : Wait(p, q, Then(p, IF At(p, "wait2") THEN "wait1" ELSE "done"))
  /\ UNCHANGED <<sh, tree, lost>>

run_back(p) ==
  /\ Runs(p, "BACK")
  /\ ForkOrPanic(p, Then(p, "done"), [Sub(p, "run", proc[p].cmd.cmd, 0) EXCEPT !.bg = TRUE])

\* exit(0) at the end of runcmd().
run_done(p) ==
  /\ At(p, "done")
  /\ Exit(p)
  /\ UNCHANGED <<sh, tree, lost>>

\* A program ends.
prog_exit(p) ==
  /\ At(p, "prog")
  /\ Exit(p)
  /\ UNCHANGED <<sh, tree, lost>>

-----------------------------------------------------------------------------
Run(p) ==
  \/ run_exit(p) \/ run_exec(p) \/ run_redir(p)
  \/ run_list(p) \/ list_wait(p) \/ run_back(p) \/ run_done(p)
  \/ run_pipe(p) \/ pipe_fork1(p) \/ pipe_fork2(p)
  \/ pipe_child(p, "left", 1, 2) \/ pipe_child(p, "right", 0, 1)
  \/ pipe_close(p) \/ pipe_wait(p)

Start(p) == init_fork(p) \/ init_fork_fail(p) \/ init_exec(p) \/ init_noexec(p)

Next ==
  \E p \in Procs :
    \/ Start(p) \/ init_wait(p)
    \/ main_line(p) \/ main_cd(p) \/ main_wait(p) \/ main_exit(p)
    \/ Run(p) \/ prog_exit(p)

Spec == Init /\ [][Next]_vars

\* Somebody has the write end of the pipe that p reads.
InputOpen(p) ==
  LET in == proc[p].fds[0]
  IN  /\ in[1] = "r"
      /\ \E q \in Procs : \E d \in DOMAIN proc[q].fds : proc[q].fds[d] = <<"w", in[2]>>

\* A step that a process does not wait for anybody to make.
Step ==
  \E p \in Procs :
    \/ Start(p) \/ init_wait(p) \/ main_wait(p) \/ Run(p)
    \/ At(p, "prog") /\ ~InputOpen(p) /\ prog_exit(p)

\* Some process that can run does run, and a program ends after its input does.
Fairness == WF_vars(Step)

FairSpec == Spec /\ Fairness

-----------------------------------------------------------------------------
(* Properties                                                              *)

\* parsecmd() finds the one command that the grammar gives to the line, or panics
\* if there is none.
ParsesLine ==
  [][\A p \in Procs : At(p, "UNUSED") /\ proc'[p].st = "run" /\ proc'[p].path = << >>
       => Lines(Last(tree').tokens) = {proc'[p].cmd} \ {NoCmd}]_vars

\* When the shell prompts, the processes of earlier lines have ended, except for
\* those in the background and those of lines in which a fork() has failed.
ForegroundDone ==
  \A s \in Procs : At(s, "prompt") =>
    \A p \in Procs \ {Init1, s} :
      ~At(p, "UNUSED") /\ ~At(p, "ZOMBIE") => proc[p].bg \/ proc[p].line \in lost

\* What the commands of a tree get as standard input and output, by their place
\* in the tree.
RECURSIVE Streams(_, _, _, _, _)
Streams(cmd, j, path, in, out) ==
  LET At1(k, c, i, o) == Streams(c, j, Append(path, k), i, o)
  IN  CASE cmd.type = "EXEC" -> {<<path, in, out>>}
        [] cmd.type = "REDIR" /\ cmd.fd = 0 -> At1(0, cmd.cmd, <<cmd.op>>, out)
        [] cmd.type = "REDIR" /\ cmd.fd = 1 -> At1(0, cmd.cmd, in, <<cmd.op>>)
        [] cmd.type = "BACK" -> At1(0, cmd.cmd, in, out)
        [] cmd.type = "LIST" -> At1(1, cmd.left, in, out) \cup At1(2, cmd.right, in, out)
        [] cmd.type = "PIPE" -> At1(1, cmd.left, in, <<"w", <<j, path>>>>)
                                  \cup At1(2, cmd.right, <<"r", <<j, path>>>>, out)

\* A program starts with exactly the descriptors 0, 1 and 2, and 0 and 1 are what
\* the redirections and pipes around it say: close() and then open() or dup() hit
\* the intended descriptor, and no end of a pipe leaks into a program.
ProgramFiles ==
  \A p \in Procs : At(p, "prog") =>
    /\ DOMAIN proc[p].fds = 0..2
    /\ <<proc[p].path, proc[p].fds[0], proc[p].fds[1]>>
         \in Streams(tree[proc[p].line].cmd, proc[p].line, << >>, <<"console">>, <<"console">>)

\* The prompt comes back again and again, unless the fork() of init fails, which is
\* a panic, or exec() of sh fails again and again: no pipeline waits for the end of
\* an input that one of its own processes keeps open, and init starts a shell that
\* has exited.
PromptReturns ==
  []<>(\E p \in Procs : At(p, "prompt") \/ At(p, "noexec") \/ At(p, "panic"))
=============================================================================
