--------------------------------- MODULE Sh ---------------------------------
(***************************************************************************)
(* The shell (sh.c) run by init (init.c): main() reads a line, forks a     *)
(* child that parses it and runs the command in runcmd(), and waits; a     *)
(* command forks further processes for its parts and joins them by pipes.  *)
(* Every system call that other processes can notice is a step of its own; *)
(* fork() fails when the process table is full.                            *)
(*                                                                         *)
(* The kernel is modelled by what the system calls do for these programs:  *)
(* a pipe is the number of bytes in it, its ends are open as long as some  *)
(* descriptor refers to them, wait() takes any zombie child, and the       *)
(* children of a process that exits go to init.  The programs are an echo, *)
(* which writes two bytes, and a cat, which copies its input to its end.   *)
(***************************************************************************)
EXTENDS ShParse, FiniteSets

CONSTANTS NPROC,      \* process slots; init is 1 and the first shell is 2
          NPIPE,      \* pipes the kernel has memory for
          PIPESIZE,   \* bytes a pipe holds
          Typed,      \* the lines that may be typed
          MaxLines    \* the lines typed before the input ends

VARIABLES pc,       \* pc[p]: what p does next, or "unused" or "zombie"
          parent,
          fds,      \* fds[p]: descriptor |-> what it refers to
          cmd,      \* cmd[p]: the command that p runs
          pfd,      \* pfd[p]: p[0] and p[1] of runcmd()
          bytes,    \* bytes[i]: the bytes in pipe i
          pid,      \* pid of init's main(): the shell it started
          typed,    \* the lines typed so far; MaxLines + 1 at the end of the input
          fg,       \* ghost: the processes that belong to no background command
          failed    \* ghost: some fork() or pipe() has failed

vars == <<pc, parent, fds, cmd, pfd, bytes, pid, typed, fg, failed>>

Slots == 1..NPROC
initproc == 1
Tty == <<"tty", 0>>
File == <<"file", 0>>
Rd(i) == <<"r", i>>
Wr(i) == <<"w", i>>

Used(p) == pc[p] # "unused"
Runs(p) == pc[p] \notin {"unused", "zombie"}
Open(end) == \E p \in Slots : \E n \in DOMAIN fds[p] : fds[p][n] = end
Children(p) == {c \in Slots : Used(c) /\ parent[c] = p}

\* Descriptor tables: fdalloc() takes the lowest free descriptor.
Lowest(f) == CHOOSE n \in 0..Cardinality(DOMAIN f) :
               n \notin DOMAIN f /\ \A m \in 0..(n - 1) : m \in DOMAIN f
With(f, x) == [m \in DOMAIN f \cup {Lowest(f)} |-> IF m \in DOMAIN f THEN f[m] ELSE x]
Without(f, ns) == [m \in DOMAIN f \ ns |-> f[m]]

Idle == execcmd(<<>>)

Init ==
  /\ pc = [p \in Slots |-> CASE p = initproc -> "wait_sh" [] p = 2 -> "getcmd"
                             [] OTHER -> "unused"]
  /\ parent = [p \in Slots |-> initproc]
  /\ fds = [p \in Slots |-> IF p <= 2 THEN [n \in 0..2 |-> Tty] ELSE <<>>]
  /\ cmd = [p \in Slots |-> Idle]
  /\ pfd = [p \in Slots |-> <<3, 4>>]
  /\ bytes = [i \in 1..NPIPE |-> 0]
  /\ pid = 2
  /\ typed = 0
  /\ fg = {initproc, 2}
  /\ failed = FALSE

-----------------------------------------------------------------------------

Goto(p, l) == pc' = [pc EXCEPT ![p] = l]

\* fork1(): the parent goes on at pl with the command pcmd, the child starts at
\* cl with ccmd; the parent panics, which ends it, when there is no slot.
fork1(p, pl, pcmd, cl, ccmd, foreground) ==
  \/ \E q \in Slots :
       /\ pc[q] = "unused"
       /\ \A r \in Slots : r < q => Used(r)
       /\ pc' = [pc EXCEPT ![p] = pl, ![q] = cl]
       /\ parent' = [parent EXCEPT ![q] = p]
       /\ fds' = [fds EXCEPT ![q] = fds[p]]
       /\ cmd' = [cmd EXCEPT ![p] = pcmd, ![q] = ccmd]
       /\ pfd' = [pfd EXCEPT ![q] = pfd[p]]
       /\ fg' = IF foreground /\ p \in fg THEN fg \cup {q} ELSE fg \ {q}
       /\ UNCHANGED failed
  \/ /\ \A q \in Slots : Used(q)
     /\ Goto(p, "exit")
     /\ failed' = TRUE
     /\ UNCHANGED <<parent, fds, cmd, pfd, fg>>

\* wait(): takes a zombie child, or returns at once when there is no child.  p
\* goes on at Return[z] when it took z, and at Return[0] when there was no child.
wait(p, Return) ==
  \/ \E z \in Children(p) :
       /\ pc[z] = "zombie"
       /\ pc' = [pc EXCEPT ![z] = "unused", ![p] = Return[z]]
       /\ fg' = fg \ {z}
       /\ parent' = [parent EXCEPT ![z] = initproc]
       /\ cmd' = [cmd EXCEPT ![z] = Idle]
       /\ pfd' = [pfd EXCEPT ![z] = <<3, 4>>]
  \/ /\ Children(p) = {}
     /\ Goto(p, Return[0])
     /\ UNCHANGED <<fg, parent, cmd, pfd>>

exit(p) ==
  /\ pc[p] = "exit"
  /\ Goto(p, "zombie")
  /\ fds' = [fds EXCEPT ![p] = <<>>]
  /\ parent' = [q \in Slots |-> IF parent[q] = p THEN initproc ELSE parent[q]]
  /\ UNCHANGED <<cmd, pfd, bytes, pid, typed, fg, failed>>

-----------------------------------------------------------------------------

\* main() of init: start a shell; reap until it is the shell that ended.
init_fork ==
  /\ pc[initproc] = "fork_sh"
  /\ fork1(initproc, "wait_sh", Idle, "getcmd", Idle, TRUE)
  /\ pid' = IF failed' # failed THEN pid
            ELSE CHOOSE q \in Slots : pc[q] = "unused" /\ pc'[q] = "getcmd"
  /\ UNCHANGED <<bytes, typed>>

init_wait ==
  /\ pc[initproc] = "wait_sh"
  /\ wait(initproc, [z \in {0} \cup Slots |-> IF z \in {0, pid} THEN "fork_sh" ELSE "wait_sh"])
  /\ UNCHANGED <<fds, bytes, pid, typed, failed>>

\* main() of the shell: getcmd() meets the end of the input, or reads a line
\* and the child parses it.
main(p) ==
  /\ pc[p] = "getcmd"
  /\ \/ /\ typed <= MaxLines
        /\ typed' = MaxLines + 1
        /\ Goto(p, "exit")
        /\ UNCHANGED <<parent, fds, cmd, pfd, fg, failed>>
     \/ \E line \in Typed :
          /\ typed < MaxLines
          /\ typed' = typed + 1
          /\ LET r == parsecmd(line)
             IN  IF r.ok THEN fork1(p, "wait_line", Idle, "runcmd", r.cmd, TRUE)
                         ELSE fork1(p, "wait_line", Idle, "exit", Idle, TRUE)
  /\ UNCHANGED <<bytes, pid>>

main_wait(p) ==
  /\ pc[p] = "wait_line"
  /\ wait(p, [z \in {0} \cup Slots |-> "getcmd"])
  /\ UNCHANGED <<fds, bytes, pid, typed, failed>>

-----------------------------------------------------------------------------

At(p, type) == pc[p] = "runcmd" /\ cmd[p].type = type

\* exec() replaces the program or fails.
runcmd_exec(p) ==
  /\ At(p, "EXEC")
  /\ \E l \in IF cmd[p].argv = <<>> THEN {"exit"} ELSE {"echo", "cat", "exit"} : Goto(p, l)
  /\ UNCHANGED <<parent, fds, cmd, pfd, bytes, pid, typed, fg, failed>>

runcmd_redir(p) ==
  LET f == Without(fds[p], {cmd[p].fd})
  IN  /\ At(p, "REDIR")
      /\ \/ /\ fds' = [fds EXCEPT ![p] = With(f, File)]
            /\ cmd' = [cmd EXCEPT ![p] = cmd[p].cmd]
            /\ UNCHANGED pc
         \/ /\ fds' = [fds EXCEPT ![p] = f]
            /\ Goto(p, "exit")
            /\ UNCHANGED cmd
      /\ UNCHANGED <<parent, pfd, bytes, pid, typed, fg, failed>>

runcmd_list(p) ==
  /\ At(p, "LIST")
  /\ fork1(p, "list_wait", cmd[p].right, "runcmd", cmd[p].left, TRUE)
  /\ UNCHANGED <<bytes, pid, typed>>

list_wait(p) ==
  /\ pc[p] = "list_wait"
  /\ wait(p, [z \in {0} \cup Slots |-> "runcmd"])
  /\ UNCHANGED <<fds, bytes, pid, typed, failed>>

runcmd_pipe(p) ==
  LET free == {i \in 1..NPIPE : ~Open(Rd(i)) /\ ~Open(Wr(i))}
      p0   == Lowest(fds[p])
  IN  /\ At(p, "PIPE")
      /\ \/ \E i \in free :
              /\ \A j \in free : i <= j
              /\ fds' = [fds EXCEPT ![p] = With(With(@, Rd(i)), Wr(i))]
              /\ pfd' = [pfd EXCEPT ![p] = <<p0, Lowest(With(fds[p], Rd(i)))>>]
              /\ bytes' = [bytes EXCEPT ![i] = 0]
              /\ Goto(p, "fork_left")
              /\ UNCHANGED failed
         \/ /\ free = {}
            /\ Goto(p, "exit")
            /\ failed' = TRUE
            /\ UNCHANGED <<fds, pfd, bytes>>
      /\ UNCHANGED <<parent, cmd, pid, typed, fg>>

fork_left(p) ==
  /\ pc[p] = "fork_left"
  /\ fork1(p, "fork_right", cmd[p], "left", cmd[p].left, TRUE)
  /\ UNCHANGED <<bytes, pid, typed>>

fork_right(p) ==
  /\ pc[p] = "fork_right"
  /\ fork1(p, "close_pipe", Idle, "right", cmd[p].right, TRUE)
  /\ UNCHANGED <<bytes, pid, typed>>

\* close(n); dup(p[i]); close(p[0]); close(p[1]), in the child.
Redirected_to(f, n, ps, i) ==
  LET g == Without(f, {n})
  IN  Without(With(g, g[ps[i]]), {ps[1], ps[2]})

pipe_child(p) ==
  /\ pc[p] \in {"left", "right"}
  /\ fds' = [fds EXCEPT ![p] = IF pc[p] = "left" THEN Redirected_to(@, 1, pfd[p], 2)
                                                 ELSE Redirected_to(@, 0, pfd[p], 1)]
  /\ Goto(p, "runcmd")
  /\ UNCHANGED <<parent, cmd, pfd, bytes, pid, typed, fg, failed>>

\* Mutant: the shell keeps the write end.
close_pipe_read(p) ==
  /\ pc[p] = "close_pipe"
  /\ fds' = [fds EXCEPT ![p] = Without(@, {pfd[p][1]})]
  /\ Goto(p, "pipe_wait")
  /\ UNCHANGED <<parent, cmd, pfd, bytes, pid, typed, fg, failed>>

\* The parent closes both ends.
close_pipe(p) ==
  /\ pc[p] = "close_pipe"
  /\ fds' = [fds EXCEPT ![p] = Without(@, {pfd[p][1], pfd[p][2]})]
  /\ Goto(p, "pipe_wait")
  /\ UNCHANGED <<parent, cmd, pfd, bytes, pid, typed, fg, failed>>

\* Mutant: one of the two children is waited for.
pipe_wait_once(p) ==
  /\ pc[p] \in {"pipe_wait", "pipe_wait2"}
  /\ wait(p, [z \in {0} \cup Slots |-> "exit"])
  /\ UNCHANGED <<fds, bytes, pid, typed, failed>>

\* wait(); wait();
pipe_wait(p) ==
  /\ pc[p] \in {"pipe_wait", "pipe_wait2"}
  /\ wait(p, [z \in {0} \cup Slots |-> IF pc[p] = "pipe_wait" THEN "pipe_wait2" ELSE "exit"])
  /\ UNCHANGED <<fds, bytes, pid, typed, failed>>

runcmd_back(p) ==
  /\ At(p, "BACK")
  /\ fork1(p, "exit", Idle, "runcmd", cmd[p].cmd, FALSE)
  /\ UNCHANGED <<bytes, pid, typed>>

-----------------------------------------------------------------------------

\* A write of one byte to descriptor 1: it waits for room in a pipe, and fails
\* when nobody can read the pipe any more.
Write(p, next, error) ==
  \/ /\ fds[p][1] \in {Tty, File}
     /\ Goto(p, next)
     /\ UNCHANGED bytes
  \/ \E i \in 1..NPIPE :
       /\ fds[p][1] = Wr(i)
       /\ \/ /\ ~Open(Rd(i))
             /\ Goto(p, error)
             /\ UNCHANGED bytes
          \/ /\ Open(Rd(i))
             /\ bytes[i] < PIPESIZE
             /\ bytes' = [bytes EXCEPT ![i] = @ + 1]
             /\ Goto(p, next)

echo(p) ==
  /\ \/ pc[p] = "echo" /\ Write(p, "echo2", "echo2")
     \/ pc[p] = "echo2" /\ Write(p, "exit", "exit")
  /\ UNCHANGED <<parent, fds, cmd, pfd, pid, typed, fg, failed>>

\* The console and the files are at their end at once.
cat(p) ==
  /\ \/ /\ pc[p] = "cat"
        /\ \/ /\ \/ fds[p][0] \in {Tty, File}
                 \/ \E i \in 1..NPIPE : fds[p][0] = Rd(i) /\ bytes[i] = 0 /\ ~Open(Wr(i))
              /\ Goto(p, "exit")
              /\ UNCHANGED bytes
           \/ \E i \in 1..NPIPE :
                /\ fds[p][0] = Rd(i)
                /\ bytes[i] > 0
                /\ bytes' = [bytes EXCEPT ![i] = @ - 1]
                /\ Goto(p, "cat_write")
     \/ pc[p] = "cat_write" /\ Write(p, "cat", "exit")
  /\ UNCHANGED <<parent, fds, cmd, pfd, pid, typed, fg, failed>>

-----------------------------------------------------------------------------

runcmd(p) ==
  \/ runcmd_exec(p) \/ runcmd_redir(p) \/ runcmd_list(p) \/ list_wait(p)
  \/ runcmd_pipe(p) \/ fork_left(p) \/ fork_right(p) \/ pipe_child(p)
  \/ close_pipe(p) \/ pipe_wait(p) \/ runcmd_back(p)

Step(p) == runcmd(p) \/ echo(p) \/ cat(p) \/ exit(p) \/ main_wait(p)

Next ==
  \/ init_fork \/ init_wait
  \/ \E p \in Slots : main(p) \/ Step(p)

\* Every process that can take a step is run at last; nothing makes the user
\* type a line.
Fairness ==
  /\ WF_vars(init_fork) /\ WF_vars(init_wait)
  /\ \A p \in Slots : WF_vars(Step(p))

Spec == Init /\ [][Next]_vars /\ Fairness

-----------------------------------------------------------------------------

\* When the shell prompts, no process of a foreground command is left: the
\* waits of main(), of a list and of the two sides of a pipe (sh.c:169, 96, 120)
\* join every process that the command forked, unless some fork() or pipe()
\* failed half way, when the process that forks panics without waiting.
ForegroundDone ==
  ~failed =>
    \A p \in Slots : pc[p] = "getcmd" => \A q \in fg : q \in {initproc, p}

\* Every process that the shell starts ends and is waited for, by the process
\* that forked it or by init: no reader of a pipe waits for the end of a stream
\* that some process still holds open, and no zombie stays behind.  The
\* exception is the end of init itself, when it cannot fork another shell.
EveryProcessReaped ==
  \A p \in Slots \ {initproc} :
    (Used(p) /\ pc[p] # "getcmd") ~>
      (~Used(p) \/ pc[p] = "getcmd" \/ ~Runs(initproc))
=============================================================================
