-------------------------------- MODULE Proc --------------------------------
(***************************************************************************)
(* The process table of proc.c: allocproc/fork, exit, wait, kill, sleep,   *)
(* wakeup, yield and the hand-over of CPUs by scheduler().                 *)
(*                                                                         *)
(* Everything proc.c does between acquire(&ptable.lock) and the matching   *)
(* release, or the swtch() that hands the lock over, is one action.  What  *)
(* allocproc() and fork() do after they have dropped the lock is split     *)
(* into steps: the new slot is filled in, or given back as UNUSED, while   *)
(* other processes run.                                                    *)
(*                                                                         *)
(* scheduler() is abstracted to "some RUNNABLE process": the three         *)
(* policies of the Makefile all choose one.  The time accounting of trap() *)
(* and the three stores of exit() into the parent's arrays (proc.c:265-269)*)
(* are left out: while pids differ by NREC at most, which ProcAssumption   *)
(* demands, they touch none of the fields modelled here; Times has them.   *)
(***************************************************************************)
EXTENDS Integers, FiniteSets

CONSTANTS NPROC,     \* slots of the process table
          CPUs,      \* processors
          Chans,     \* sleep channels other than a struct proc (wait())
          NoChan,
          MaxPid,    \* bound: pids handed out
          KillPids,  \* arguments kill() is called with
          AllocMayFail  \* kalloc() and copyuvm() can run out of memory

Slots == 1..NPROC
NREC  == 10          \* length of pwaiting_t, prunning_t, pturnaround_t
Init0 == 1           \* initproc, the slot userinit() takes
None  == 0           \* a null struct proc*

ASSUME ProcAssumption ==
  /\ NPROC \in Nat \ {0} /\ MaxPid \in Nat \ {0}
  /\ MaxPid - 1 <= NREC
  /\ IsFiniteSet(CPUs) /\ CPUs # {}
  /\ NoChan \notin Chans \cup Slots /\ Chans \cap Slots = {}
  /\ KillPids \subseteq 0..MaxPid
  /\ AllocMayFail \in BOOLEAN

VARIABLES
  state, pid, parent, killed, chan,  \* the fields of struct proc
  nextpid,
  cpu,       \* c->proc of every CPU, None in the scheduler
  pc,        \* what the kernel is doing for the process
  np,        \* the slot a fork() has allocated and not yet published
  panicked   \* panic("init exiting")

tbl  == <<state, pid, parent, killed, chan>>
vars == <<tbl, nextpid, cpu, pc, np, panicked>>

\* sleep_i: a loop around sleep() that gives up when p->killed (piperead,
\* pipewrite, consoleread, sys_sleep); sleep_u: one that does not
\* (acquiresleep, iderw, begin_op).
ForkPCs == {"fork_kstack", "fork_copy", "fork_publish"}
PCs     == {"user", "exit", "wait", "sleep_i", "sleep_u"} \cup ForkPCs

Live(s) == state[s] \in {"SLEEPING", "RUNNABLE", "RUNNING"}

\* Mutant: children that have exited already are overlooked.
Kids_live(s) == {q \in Slots : parent[q] = s /\ state[q] # "ZOMBIE"}

Kids(s) == {q \in Slots : parent[q] = s}

\* userinit() has run: the first process, pid 1, is RUNNABLE.
Init ==
  /\ state = [s \in Slots |-> IF s = Init0 THEN "RUNNABLE" ELSE "UNUSED"]
  /\ pid = [s \in Slots |-> IF s = Init0 THEN 1 ELSE 0]
  /\ parent = [s \in Slots |-> None]
  /\ killed = [s \in Slots |-> FALSE]
  /\ chan = [s \in Slots |-> NoChan]
  /\ nextpid = 2
  /\ cpu = [c \in CPUs |-> None]
  /\ pc = [s \in Slots |-> "user"]
  /\ np = [s \in Slots |-> None]
  /\ panicked = FALSE

Running(p) == ~ panicked /\ state[p] = "RUNNING"

Goto(p, from, to) ==
  /\ Running(p)
  /\ pc[p] = from
  /\ pc' = [pc EXCEPT ![p] = to]

\* A system call; trap() lets a killed process make none.
Syscall(p, to) == ~ killed[p] /\ Goto(p, "user", to)

\* p gives up its CPU: sched() and the second half of scheduler()
Leave(p) == cpu' = [c \in CPUs |-> IF cpu[c] = p THEN None ELSE cpu[c]]

-----------------------------------------------------------------------------
(* scheduler(), yield(), sleep(), wakeup() *)

\* A CPU switches to p.  A process that comes out of sleep() clears p->chan
\* before it drops ptable.lock.
Schedule(c, p) ==
  /\ ~ panicked
  /\ cpu[c] = None /\ state[p] = "RUNNABLE"
  /\ state' = [state EXCEPT ![p] = "RUNNING"]
  /\ cpu' = [cpu EXCEPT ![c] = p]
  /\ chan' = [chan EXCEPT ![p] = NoChan]
  /\ UNCHANGED <<pid, parent, killed, nextpid, pc, np, panicked>>

yield(p) ==
  /\ Running(p)
  /\ state' = [state EXCEPT ![p] = "RUNNABLE"]
  /\ Leave(p)
  /\ UNCHANGED <<pid, parent, killed, chan, nextpid, pc, np, panicked>>

\* sleep(): part of the action of whoever calls it
GoToSleep(p, ch) ==
  /\ state' = [state EXCEPT ![p] = "SLEEPING"]
  /\ chan' = [chan EXCEPT ![p] = ch]
  /\ Leave(p)

\* A system call, or exit() closing files, finds its condition false and
\* sleeps; so it does each time it is woken too early.
Block(p, ch, kind) ==
  /\ \/ kind # "exit" /\ Syscall(p, kind)
     \/ Goto(p, kind, kind) /\ (kind = "sleep_i" => ~ killed[p])
  /\ GoToSleep(p, ch)
  /\ UNCHANGED <<pid, parent, killed, nextpid, np, panicked>>

\* Mutant: the sleepers stay asleep.
Wakened_none(S) == state

\* wakeup1()
Wakened(S) == [s \in Slots |-> IF state[s] = "SLEEPING" /\ chan[s] \in S THEN "RUNNABLE" ELSE state[s]]

\* wakeup() by an interrupt handler or by a running process
wakeup(ch) ==
  /\ ~ panicked
  /\ state' = Wakened({ch})
  /\ UNCHANGED <<pid, parent, killed, chan, nextpid, cpu, pc, np, panicked>>

\* The system call ends; trap() then looks at p->killed.
Return(p) ==
  /\ \E kind \in {"sleep_i", "sleep_u"} : Goto(p, kind, IF killed[p] THEN "exit" ELSE "user")
  /\ UNCHANGED <<tbl, nextpid, cpu, np, panicked>>

-----------------------------------------------------------------------------
(* fork() *)

\* Mutant: a slot in the hands of another fork() is taken for a free one.
Unused_embryo == {s \in Slots : state[s] \in {"UNUSED", "EMBRYO"}}

Unused == {s \in Slots : state[s] = "UNUSED"}

First(S) == CHOOSE s \in S : \A t \in S : s <= t

\* Back in user space, unless trap() finds p->killed; init.c exits when its
\* fork() fails.
AfterFork(p, failed) == IF killed[p] \/ (failed /\ p = Init0) THEN "exit" ELSE "user"

\* allocproc() under ptable.lock
fork_alloc(p) ==
  /\ Unused # {} /\ nextpid <= MaxPid
  /\ Syscall(p, "fork_kstack")
  /\ LET s == First(Unused)
     IN /\ state' = [state EXCEPT ![s] = "EMBRYO"]
        /\ pid' = [pid EXCEPT ![s] = nextpid]
        /\ np' = [np EXCEPT ![p] = s]
  /\ nextpid' = nextpid + 1
  /\ UNCHANGED <<parent, killed, chan, cpu, panicked>>

\* The table is full: allocproc() and fork() fail.
fork_full(p) ==
  /\ Unused = {}
  /\ Syscall(p, AfterFork(p, TRUE))
  /\ UNCHANGED <<tbl, nextpid, cpu, np, panicked>>

\* kalloc() of the kernel stack, or copyuvm(), fails: the slot goes back with
\* a plain assignment, not under ptable.lock.
fork_fail(p) ==
  /\ AllocMayFail
  /\ \E from \in {"fork_kstack", "fork_copy"} : Goto(p, from, AfterFork(p, TRUE))
  /\ state' = [state EXCEPT ![np[p]] = "UNUSED"]
  /\ np' = [np EXCEPT ![p] = None]
  /\ UNCHANGED <<pid, parent, killed, chan, nextpid, cpu, panicked>>

fork_kstack(p) ==
  /\ Goto(p, "fork_kstack", "fork_copy")
  /\ UNCHANGED <<tbl, nextpid, cpu, np, panicked>>

\* copyuvm() succeeded; np->parent is set, still without the lock
fork_copy(p) ==
  /\ Goto(p, "fork_copy", "fork_publish")
  /\ parent' = [parent EXCEPT ![np[p]] = p]
  /\ UNCHANGED <<state, pid, killed, chan, nextpid, cpu, np, panicked>>

\* np->state = RUNNABLE under ptable.lock; the child starts in forkret()
fork_publish(p) ==
  /\ Running(p) /\ pc[p] = "fork_publish"
  /\ state' = [state EXCEPT ![np[p]] = "RUNNABLE"]
  /\ pc' = [pc EXCEPT ![p] = AfterFork(p, FALSE), ![np[p]] = "user"]
  /\ np' = [np EXCEPT ![p] = None]
  /\ UNCHANGED <<pid, parent, killed, chan, nextpid, cpu, panicked>>

-----------------------------------------------------------------------------
(* exit(), wait(), kill(), trap() *)

\* exit() is called by the program, or by trap() for a killed process.
CallExit(p) ==
  /\ p # Init0 \/ killed[p]
  /\ Goto(p, "user", "exit")
  /\ UNCHANGED <<tbl, nextpid, cpu, np, panicked>>

\* exit() from acquire(&ptable.lock) on, its files closed
exit(p) ==
  /\ p # Init0
  /\ Goto(p, "exit", "exit")
  /\ parent' = [s \in Slots |-> IF s \in Kids(p) THEN Init0 ELSE parent[s]]
  /\ LET orphanZombie == \E s \in Kids(p) : state[s] = "ZOMBIE"
     IN state' = [Wakened({parent[p]} \cup (IF orphanZombie THEN {Init0} ELSE {}))
                    EXCEPT ![p] = "ZOMBIE"]
  /\ Leave(p)
  /\ UNCHANGED <<pid, killed, chan, nextpid, np, panicked>>

exit_init ==
  /\ Running(Init0) /\ pc[Init0] = "exit"
  /\ panicked' = TRUE
  /\ UNCHANGED <<tbl, nextpid, cpu, pc, np>>

CallWait(p) ==
  /\ Syscall(p, "wait")
  /\ UNCHANGED <<tbl, nextpid, cpu, np, panicked>>

\* One turn of the loop of wait(): reap, give up, or sleep on itself.
wait(p) ==
  LET zombies == {s \in Kids(p) : state[s] = "ZOMBIE"}
      z       == First(zombies)
  IN \/ /\ zombies # {}
        /\ Goto(p, "wait", IF killed[p] THEN "exit" ELSE "user")
        /\ state' = [state EXCEPT ![z] = "UNUSED"]
        /\ pid' = [pid EXCEPT ![z] = 0]
        /\ parent' = [parent EXCEPT ![z] = None]
        /\ killed' = [killed EXCEPT ![z] = FALSE]
        /\ UNCHANGED <<chan, nextpid, cpu, np, panicked>>
     \/ /\ zombies = {} /\ (Kids(p) = {} \/ killed[p])
        /\ Goto(p, "wait", IF killed[p] THEN "exit" ELSE "user")
        /\ UNCHANGED <<tbl, nextpid, cpu, np, panicked>>
     \/ /\ zombies = {} /\ Kids(p) # {} /\ ~ killed[p]
        /\ Goto(p, "wait", "wait")
        /\ GoToSleep(p, p)
        /\ UNCHANGED <<pid, parent, killed, nextpid, np, panicked>>

\* Mutant: a sleeping process is marked but not woken.
kill_nowake(p, k) ==
  /\ Syscall(p, "user")
  /\ LET match == {s \in Slots : pid[s] = k}
     IN killed' = IF match = {} THEN killed ELSE [killed EXCEPT ![First(match)] = TRUE]
  /\ UNCHANGED <<state, pid, parent, chan, nextpid, cpu, np, panicked>>

\* kill(k): the first slot whose pid field is k, whatever its state
kill(p, k) ==
  /\ Syscall(p, "user")
  /\ LET match == {s \in Slots : pid[s] = k}
         s     == First(match)
     IN IF match = {}
          THEN UNCHANGED <<state, killed>>
          ELSE /\ killed' = [killed EXCEPT ![s] = TRUE]
               /\ state' = [state EXCEPT ![s] = IF @ = "SLEEPING" THEN "RUNNABLE" ELSE @]
  /\ UNCHANGED <<pid, parent, chan, nextpid, cpu, np, panicked>>

\* trap(): the program faults (init.c does not)
Fault(p) ==
  /\ p # Init0
  /\ Goto(p, "user", "exit")
  /\ killed' = [killed EXCEPT ![p] = TRUE]
  /\ UNCHANGED <<state, pid, parent, chan, nextpid, cpu, np, panicked>>

-----------------------------------------------------------------------------
Fork(p) ==
  \/ fork_alloc(p) \/ fork_full(p) \/ fork_fail(p)
  \/ fork_kstack(p) \/ fork_copy(p) \/ fork_publish(p)

Next ==
  \/ \E p \in Slots :
       \/ \E c \in CPUs : Schedule(c, p)
       \/ yield(p) \/ Return(p) \/ Fork(p)
       \/ CallExit(p) \/ exit(p) \/ CallWait(p) \/ wait(p) \/ Fault(p)
       \/ \E ch \in Chans, kind \in {"sleep_i", "sleep_u", "exit"} : Block(p, ch, kind)
       \/ \E k \in KillPids : kill(p, k)
  \/ \E ch \in Chans : wakeup(ch)
  \/ exit_init

Spec == Init /\ [][Next]_vars

\* The next step of a kernel path.
Kernel(p) ==
  \/ Return(p) \/ exit(p) \/ wait(p)
  \/ fork_fail(p) \/ fork_kstack(p) \/ fork_copy(p) \/ fork_publish(p)
  \/ killed[p] /\ CallExit(p)
  \/ p = Init0 /\ exit_init

\* Every RUNNABLE process gets a CPU again and again (scheduler() loops over
\* the table), the timer takes the CPU away again, a process in the kernel
\* gets on with it, and a device a sleeper waits for raises its interrupt.
Fairness ==
  /\ \A p \in Slots : SF_vars(\E c \in CPUs : Schedule(c, p)) /\ SF_vars(Kernel(p))
  /\ \A c \in CPUs : WF_vars(\E p \in Slots : cpu[c] = p /\ yield(p))
  /\ \A ch \in Chans : WF_vars(wakeup(ch))

FairSpec == Spec /\ Fairness

-----------------------------------------------------------------------------
(* Properties. *)

States == {"UNUSED", "EMBRYO", "SLEEPING", "RUNNABLE", "RUNNING", "ZOMBIE"}

\* Type invariant of the process table.
TypeOK ==
  /\ state \in [Slots -> States]
  /\ pid \in [Slots -> Nat]
  /\ parent \in [Slots -> Slots \cup {None}]
  /\ killed \in [Slots -> BOOLEAN]
  /\ chan \in [Slots -> Chans \cup Slots \cup {NoChan}]
  /\ nextpid \in Nat
  /\ cpu \in [CPUs -> Slots \cup {None}]
  /\ pc \in [Slots -> PCs]
  /\ np \in [Slots -> Slots \cup {None}]
  /\ panicked \in BOOLEAN

\* scheduler(), sched(): a RUNNING process is on exactly one CPU and a CPU
\* holds only RUNNING processes, so no kernel stack is used twice.
OneCPU ==
  /\ \A c \in CPUs : cpu[c] # None => state[cpu[c]] = "RUNNING"
  /\ \A p \in Slots : state[p] = "RUNNING" => \E c \in CPUs : cpu[c] = p
  /\ \A c, d \in CPUs : cpu[c] = cpu[d] /\ cpu[c] # None => c = d

\* fork(): a slot is EMBRYO exactly while one running or preempted fork()
\* owns it, so neither the unlocked writes of allocproc() and fork() nor
\* their unlocked "state = UNUSED" can hit a slot someone else is using.
EmbryoOwned ==
  /\ \A s \in Slots : state[s] = "EMBRYO" <=> \E p \in Slots : np[p] = s
  /\ \A p, q \in Slots : np[p] = np[q] /\ np[p] # None => p = q
  /\ \A p \in Slots : np[p] # None <=> pc[p] \in ForkPCs
  /\ \A p \in Slots : np[p] # None => Live(p)

\* exit(): every process but the first has a living parent, not itself, to
\* reap it, even when it is a ZOMBIE, and a slot nobody uses is nobody's
\* child, so wait() neither misses a child nor waits for a stale one.
ParentAlive ==
  /\ \A s \in Slots \ {Init0} :
       /\ parent[s] # s
       /\ Live(s) \/ state[s] = "ZOMBIE" => parent[s] # None /\ Live(parent[s])
       /\ state[s] = "UNUSED" => parent[s] = None
  /\ Live(Init0) /\ parent[Init0] = None

\* wait() against exit() and kill(): a parent asleep in wait() has a child
\* to wait for, none of its children is a ZOMBIE already, and it is not
\* killed.  No wakeup can be lost.
NoMissedExit ==
  \A p \in Slots :
    state[p] = "SLEEPING" /\ pc[p] = "wait" =>
      /\ chan[p] = p /\ ~ killed[p] /\ Kids(p) # {}
      /\ \A s \in Kids(p) : state[s] # "ZOMBIE"

\* allocproc(): two slots in use never have the same pid.
UniquePids ==
  \A s, t \in Slots \ Unused : pid[s] # 0 /\ (pid[s] = pid[t] => s = t)

\* What the induction needs besides (see ProcProofs): pids are handed out in
\* order, and a pid that a failed fork() left in a slot is not used again.
PidsFresh ==
  /\ \A s \in Slots : pid[s] < nextpid /\ (state[s] # "UNUSED" => pid[s] # 0)
  /\ \A s, t \in Slots : pid[s] = pid[t] /\ pid[s] # 0 => s = t

\* A slot in the hands of a fork() has no parent, and then that process.
EmbryoParent ==
  \A p \in Slots : np[p] # None =>
    parent[np[p]] = IF pc[p] = "fork_publish" THEN p ELSE None

IInv ==
  /\ TypeOK /\ OneCPU /\ EmbryoOwned /\ ParentAlive /\ NoMissedExit
  /\ PidsFresh /\ EmbryoParent

\* proc.c:520-522 and trap(): a killed process gets out of the kernel, out
\* of sleep() in particular, and exits.
KilledExits ==
  \A s \in Slots \ {Init0} : Live(s) /\ killed[s] ~> ~ Live(s) \/ panicked
=============================================================================
