------------------------------- MODULE FTable -------------------------------
(***************************************************************************)
(* The table of open files (file.c) and the descriptors that refer to it   *)
(* (sysfile.c, fork() and exit() of proc.c).  What happens under           *)
(* ftable.lock is one action; a process's descriptors are touched by its   *)
(* own system calls only, so they change together with the next locked     *)
(* section.  Behind a file is a reference to an inode, or one end of a     *)
(* pipe; only their numbers are kept.                                      *)
(***************************************************************************)
EXTENDS Integers, Sequences, FiniteSets

CONSTANTS Procs, NFILE, NOFILE

Files == 1..NFILE
FDs   == 1..NOFILE
Null  == 0

ASSUME FTableAssumption ==
  /\ IsFiniteSet(Procs) /\ Procs # {}
  /\ NFILE \in Nat \ {0} /\ NOFILE \in Nat \ {0}

VARIABLES
  ref, type,   \* the fields of struct file
  ofile,       \* p->ofile
  pc,
  mine,        \* files a call has in hand: to be given a descriptor, or closed
  next,        \* what comes after the files in mine are closed
  child, fd,   \* fork(): the child and the next descriptor to copy
  inodes,      \* references to inodes that are held
  ends         \* pipe ends that are open

tab  == <<ref, type>>
vars == <<tab, ofile, pc, mine, next, child, fd, inodes, ends>>

first == CHOOSE p \in Procs : TRUE

Init ==
  /\ ref = [f \in Files |-> 0] /\ type = [f \in Files |-> "NONE"]
  /\ ofile = [p \in Procs |-> [d \in FDs |-> Null]]
  /\ pc = [p \in Procs |-> IF p = first THEN "user" ELSE "unused"]
  /\ mine = [p \in Procs |-> <<>>] /\ next = [p \in Procs |-> "user"]
  /\ child = [p \in Procs |-> p] /\ fd = [p \in Procs |-> 1]
  /\ inodes = 1 /\ ends = 0   \* the current directory of the first process

Goto(p, from, to) == pc[p] = from /\ pc' = [pc EXCEPT ![p] = to]

Least(S) == CHOOSE x \in S : \A y \in S : x <= y

FreeFiles == {f \in Files : ref[f] = 0}
FreeFDs(p) == {d \in FDs : ofile[p][d] = Null}

-----------------------------------------------------------------------------
(* file.c *)

\* filealloc() that succeeds; the new file is in hand
filealloc(p) ==
  /\ FreeFiles # {}
  /\ LET f == Least(FreeFiles)
     IN /\ ref' = [ref EXCEPT ![f] = 1]
        /\ mine' = [mine EXCEPT ![p] = Append(@, f)]
  /\ UNCHANGED type

Forget(f) == type' = [type EXCEPT ![f] = "NONE"]

\* fileclose() up to release(&ftable.lock), for the first file in hand
fileclose(p) ==
  LET f == Head(mine[p])
      last == ref[f] = 1
  IN /\ pc[p] = "close" /\ mine[p] # <<>>
     /\ ref' = [ref EXCEPT ![f] = @ - 1]
     /\ IF last THEN Forget(f) ELSE UNCHANGED type
     /\ mine' = [mine EXCEPT ![p] = Tail(@)]
     /\ pc' = [pc EXCEPT ![p] = IF last /\ type[f] = "INODE" THEN "iput"
                                ELSE IF last /\ type[f] = "PIPE" THEN "pipeclose" ELSE @]
     /\ UNCHANGED <<ofile, next, child, fd, inodes, ends>>

\* The end of fileclose() for the last reference: iput()
iput(p) ==
  /\ Goto(p, "iput", "close")
  /\ inodes' = inodes - 1
  /\ UNCHANGED <<tab, ofile, mine, next, child, fd, ends>>

pipeclose(p) ==
  /\ Goto(p, "pipeclose", "close")
  /\ ends' = ends - 1
  /\ UNCHANGED <<tab, ofile, mine, next, child, fd, inodes>>

\* Everything in hand is closed.
Closed(p) ==
  /\ mine[p] = <<>> /\ Goto(p, "close", next[p])
  /\ UNCHANGED <<tab, ofile, mine, next, child, fd, inodes, ends>>

-----------------------------------------------------------------------------
(* sysfile.c *)

\* sys_open(): namei() or create() has returned an inode
sys_open(p) ==
  /\ Goto(p, "user", "open")
  /\ inodes' = inodes + 1
  /\ UNCHANGED <<tab, ofile, mine, next, child, fd, ends>>

\* filealloc() and fdalloc(): a file and a descriptor, or a file to be
\* closed again
open_alloc(p) ==
  /\ filealloc(p)
  /\ IF FreeFDs(p) # {}
       THEN /\ Goto(p, "open", "open_set")
            /\ ofile' = [ofile EXCEPT ![p][Least(FreeFDs(p))] = mine'[p][1]]
            /\ UNCHANGED next
       ELSE /\ Goto(p, "open", "close")
            /\ next' = [next EXCEPT ![p] = "open_put"]
            /\ UNCHANGED ofile
  /\ UNCHANGED <<child, fd, inodes, ends>>

\* No file: iunlockput()
open_full(p) ==
  /\ FreeFiles = {}
  /\ Goto(p, "open", "user")
  /\ inodes' = inodes - 1
  /\ UNCHANGED <<tab, ofile, mine, next, child, fd, ends>>

\* The iunlockput() after the fileclose()
open_put(p) ==
  /\ Goto(p, "open_put", "user")
  /\ inodes' = inodes - 1
  /\ UNCHANGED <<tab, ofile, mine, next, child, fd, ends>>

\* f->type = FD_INODE, ...
open_set(p) ==
  /\ Goto(p, "open_set", "user")
  /\ type' = [type EXCEPT ![mine[p][1]] = "INODE"]
  /\ mine' = [mine EXCEPT ![p] = <<>>]
  /\ UNCHANGED <<ref, ofile, next, child, fd, inodes, ends>>

\* sys_dup(): the descriptor is set before filedup()
sys_dup(p, d) ==
  /\ ofile[p][d] # Null /\ FreeFDs(p) # {}
  /\ Goto(p, "user", "dup")
  /\ ofile' = [ofile EXCEPT ![p][Least(FreeFDs(p))] = ofile[p][d]]
  /\ mine' = [mine EXCEPT ![p] = <<ofile[p][d]>>]
  /\ UNCHANGED <<tab, next, child, fd, inodes, ends>>

\* Mutant: the new descriptor is not counted.
filedup_uncounted(p) ==
  /\ Goto(p, "dup", "user")
  /\ mine' = [mine EXCEPT ![p] = <<>>]
  /\ UNCHANGED <<tab, ofile, next, child, fd, inodes, ends>>

filedup(p) ==
  /\ Goto(p, "dup", "user")
  /\ ref' = [ref EXCEPT ![mine[p][1]] = @ + 1]
  /\ mine' = [mine EXCEPT ![p] = <<>>]
  /\ UNCHANGED <<type, ofile, next, child, fd, inodes, ends>>

sys_close(p, d) ==
  /\ ofile[p][d] # Null
  /\ Goto(p, "user", "close")
  /\ ofile' = [ofile EXCEPT ![p][d] = Null]
  /\ mine' = [mine EXCEPT ![p] = <<ofile[p][d]>>]
  /\ next' = [next EXCEPT ![p] = "user"]
  /\ UNCHANGED <<tab, child, fd, inodes, ends>>

\* sys_chdir(): namei() has returned an inode; it is released again if it is
\* not a directory, and otherwise the old p->cwd is
sys_chdir(p) ==
  /\ Goto(p, "user", "chdir")
  /\ inodes' = inodes + 1
  /\ UNCHANGED <<tab, ofile, mine, next, child, fd, ends>>

chdir_put(p) ==
  /\ Goto(p, "chdir", "user")
  /\ inodes' = inodes - 1
  /\ UNCHANGED <<tab, ofile, mine, next, child, fd, ends>>

\* pipealloc(): the two filealloc()
pipe_file(p) ==
  /\ Goto(p, "user", "pipe") \/ (Len(mine[p]) < 2 /\ Goto(p, "pipe", "pipe"))
  /\ filealloc(p)
  /\ UNCHANGED <<ofile, next, child, fd, inodes, ends>>

\* pipealloc() fails: no file, or no page; what is there is closed
pipe_fail(p) ==
  /\ Len(mine[p]) = 2 \/ FreeFiles = {}
  /\ Goto(p, "pipe", "close")
  /\ next' = [next EXCEPT ![p] = "user"]
  /\ UNCHANGED <<tab, ofile, mine, child, fd, inodes, ends>>

\* The rest of pipealloc(), and sys_pipe() with the descriptors it needs or
\* without
sys_pipe(p) ==
  LET rf == mine[p][1]
      wf == mine[p][2]
      d0 == Least(FreeFDs(p))
      d1 == Least(FreeFDs(p) \ {d0})
      enough == Cardinality(FreeFDs(p)) >= 2
  IN /\ Len(mine[p]) = 2
     /\ Goto(p, "pipe", IF enough THEN "user" ELSE "close")
     /\ type' = [type EXCEPT ![rf] = "PIPE", ![wf] = "PIPE"]
     /\ ends' = ends + 2
     /\ ofile' = IF enough THEN [ofile EXCEPT ![p][d0] = rf, ![p][d1] = wf] ELSE ofile
     /\ mine' = IF enough THEN [mine EXCEPT ![p] = <<>>] ELSE mine
     /\ next' = [next EXCEPT ![p] = "user"]
     /\ UNCHANGED <<ref, child, fd, inodes>>

-----------------------------------------------------------------------------
(* fork() and exit() of proc.c *)

fork(p, q) ==
  /\ pc[p] = "user" /\ pc[q] = "unused"
  /\ pc' = [pc EXCEPT ![p] = "fork", ![q] = "embryo"]
  /\ child' = [child EXCEPT ![p] = q] /\ fd' = [fd EXCEPT ![p] = 1]
  /\ UNCHANGED <<tab, ofile, mine, next, inodes, ends>>

\* One turn of the loop over curproc->ofile: filedup()
fork_file(p) ==
  LET f == ofile[p][fd[p]]
  IN /\ pc[p] = "fork" /\ fd[p] \in FDs
     /\ ref' = IF f # Null THEN [ref EXCEPT ![f] = @ + 1] ELSE ref
     /\ ofile' = [ofile EXCEPT ![child[p]][fd[p]] = f]
     /\ fd' = [fd EXCEPT ![p] = @ + 1]
     /\ UNCHANGED <<type, pc, mine, next, child, inodes, ends>>

\* idup(curproc->cwd), and the child is RUNNABLE
fork_done(p) ==
  /\ pc[p] = "fork" /\ fd[p] = NOFILE + 1
  /\ pc' = [pc EXCEPT ![p] = "user", ![child[p]] = "user"]
  /\ child' = [child EXCEPT ![p] = p] /\ fd' = [fd EXCEPT ![p] = 1]
  /\ inodes' = inodes + 1
  /\ UNCHANGED <<tab, ofile, mine, next, ends>>

exit(p) ==
  /\ p # first
  /\ Goto(p, "user", "exit")
  /\ UNCHANGED <<tab, ofile, mine, next, child, fd, inodes, ends>>

\* One turn of the loop of exit().  The code clears the descriptor after
\* fileclose(); nobody else reads it.  After the loop iput(curproc->cwd); the
\* slot is then free for fork() (Proc has what happens in between).
exit_file(p) ==
  LET open == FDs \ FreeFDs(p)
  IN /\ IF open # {}
          THEN /\ Goto(p, "exit", "close")
               /\ mine' = [mine EXCEPT ![p] = <<ofile[p][Least(open)]>>]
               /\ ofile' = [ofile EXCEPT ![p][Least(open)] = Null]
               /\ UNCHANGED inodes
          ELSE /\ Goto(p, "exit", "unused")
               /\ inodes' = inodes - 1
               /\ UNCHANGED <<mine, ofile>>
     /\ next' = [next EXCEPT ![p] = "exit"]
     /\ UNCHANGED <<tab, child, fd, ends>>

-----------------------------------------------------------------------------
Next ==
  \E p \in Procs :
    \/ fileclose(p) \/ iput(p) \/ pipeclose(p) \/ Closed(p)
    \/ sys_open(p) \/ open_alloc(p) \/ open_full(p) \/ open_put(p) \/ open_set(p)
    \/ filedup(p) \/ sys_chdir(p) \/ chdir_put(p) \/ pipe_file(p) \/ pipe_fail(p) \/ sys_pipe(p)
    \/ fork_file(p) \/ fork_done(p) \/ exit(p) \/ exit_file(p)
    \/ \E d \in FDs : sys_dup(p, d) \/ sys_close(p, d)
    \/ \E q \in Procs : fork(p, q)

Spec == Init /\ [][Next]_vars

-----------------------------------------------------------------------------
\* The points of fork(), of exit() and of the calls of sysfile.c
PCs == {"unused", "embryo", "user", "fork", "exit", "open", "open_set", "open_put", "chdir",
        "dup", "pipe", "close", "iput", "pipeclose"}

\* Type invariant of the file table.
TypeOK ==
  /\ ref \in [Files -> Nat]
  /\ type \in [Files -> {"NONE", "INODE", "PIPE"}]
  /\ ofile \in [Procs -> [FDs -> Files \cup {Null}]]
  /\ pc \in [Procs -> PCs] /\ next \in [Procs -> {"user", "exit", "open_put"}]
  /\ mine \in [Procs -> Seq(Files)]
  /\ child \in [Procs -> Procs] /\ fd \in [Procs -> 1..(NOFILE + 1)]
  /\ inodes \in Nat /\ ends \in Nat

\* file.c: f->ref counts the descriptors that refer to f and the calls that
\* have it in hand, whoever forks, dups, closes and exits in between.  So
\* panic("filedup") and panic("fileclose") are not reached and no descriptor
\* refers to a file that filealloc() may hand out again.
RefCounted ==
  \A f \in Files :
    LET fds  == {x \in Procs \X FDs : ofile[x[1]][x[2]] = f}
        hand == {x \in Procs \X {1, 2} :
                   /\ pc[x[1]] \in {"pipe", "close", "iput", "pipeclose"}
                   /\ x[2] <= Len(mine[x[1]]) /\ mine[x[1]][x[2]] = f}
        dups == {p \in Procs : pc[p] = "dup" /\ mine[p] = <<f>>}
    IN ref[f] = Cardinality(fds) + Cardinality(hand) - Cardinality(dups)

\* The last fileclose() gives back what is behind the file, once: inode
\* references and pipe ends are held by open files, by the current directory
\* of a process, or by a call that is about to store or release them.  The
\* references themselves are counted right (RefCounted).
NothingLeaks ==
  LET of(t) == {f \in Files : ref[f] > 0 /\ type[f] = t}
      at(S) == {p \in Procs : pc[p] \in S}
      putting == {p \in Procs : pc[p] = "close" /\ next[p] = "open_put"}
  IN /\ TypeOK /\ RefCounted
     /\ inodes = Cardinality(of("INODE")) + Cardinality(at({"open", "open_set", "open_put", "iput", "chdir"}))
                   + Cardinality(putting)
                   + Cardinality(Procs \ at({"unused", "embryo"}))
     /\ ends = Cardinality(of("PIPE")) + Cardinality(at({"pipeclose"}))
=============================================================================
