------------------------------- MODULE Times -------------------------------
(***************************************************************************)
(* The times a process leaves to its parent: exit() stores them in the     *)
(* arrays of the parent's struct proc, indexed by the difference of the    *)
(* pids; runtime(), waittime() and turntime() read them back.              *)
(*                                                                         *)
(* No bound is checked, so the arrays are modelled where they are: ptable  *)
(* is a memory of words, each struct proc SIZE words, in the order of      *)
(* proc.h.  A pointer is 0 or not; a struct proc* is a slot number.        *)
(* System calls are atomic here: ptable.lock is held and NCPU is 1.        *)
(***************************************************************************)
EXTENDS Integers, FiniteSets

CONSTANTS NPROC,
          NREC,      \* length of pwaiting_t, prunning_t, pturnaround_t
          MaxPid,    \* bound: processes created
          MaxTicks   \* bound: clock ticks

VARIABLES mem, nextpid, ticks, panicked

vars == <<mem, nextpid, ticks, panicked>>

Slots == 1..NPROC

\* Offsets of the fields of struct proc; name, slot and the other fields in
\* between are not looked at.
sz == 0
pgdir == 1
kstack == 2
state == 3
pid == 4
parent == 5
killed == 9
ctime == 32
waiting_t == 33
running_t == 34
turnaround_t == 35
pwaiting_t == 36
prunning_t == pwaiting_t + NREC
pturnaround_t == prunning_t + NREC
pidtimes == pturnaround_t + NREC
SIZE == pidtimes + 1

UNUSED == 0
RUNNABLE == 3
ZOMBIE == 5

Words == 0..(NPROC * SIZE - 1)

Addr(s, off) == (s - 1) * SIZE + off

Field(s, off) == mem[Addr(s, off)]

\* The stores of a set of <<address, value>>; what lies behind ptable is not
\* modelled.
Store(m, W) == [a \in Words |-> IF \E w \in W : w[1] = a
                                  THEN (CHOOSE w \in W : w[1] = a)[2] ELSE m[a]]

\* userinit()
Init ==
  /\ mem = Store([a \in Words |-> 0],
                 {<<Addr(1, pgdir), 1>>, <<Addr(1, kstack), 1>>, <<Addr(1, state), RUNNABLE>>,
                  <<Addr(1, pid), 1>>, <<Addr(1, sz), 1>>})
  /\ nextpid = 2 /\ ticks = 0
  /\ panicked = FALSE

Live(p) == ~ panicked /\ Field(p, state) = RUNNABLE

First(S) == CHOOSE s \in S : \A t \in S : s <= t

-----------------------------------------------------------------------------
\* A clock tick while p runs, without preemption (trap.c, FCFS)
Tick(p) ==
  /\ Live(p) /\ ticks < MaxTicks
  /\ ticks' = ticks + 1
  /\ mem' = Store(mem, {<<Addr(p, running_t), Field(p, running_t) + 1>>})
  /\ UNCHANGED <<nextpid, panicked>>

\* allocproc() leaves turnaround_t and the three arrays as they are.
fork(p) ==
  LET free == {s \in Slots : Field(s, state) = UNUSED}
      s    == First(free)
  IN /\ Live(p) /\ free # {} /\ nextpid <= MaxPid
     /\ mem' = Store(mem, {<<Addr(s, state), RUNNABLE>>, <<Addr(s, pid), nextpid>>,
                           <<Addr(s, running_t), 0>>, <<Addr(s, waiting_t), 0>>,
                           <<Addr(s, ctime), ticks>>, <<Addr(s, pidtimes), 0>>,
                           <<Addr(s, kstack), 1>>, <<Addr(s, pgdir), 1>>,
                           <<Addr(s, sz), 1>>, <<Addr(s, parent), p>>})
     /\ nextpid' = nextpid + 1
     /\ UNCHANGED <<ticks, panicked>>

Index(c, p) == Field(c, pid) - Field(p, pid) - 1

\* exit(): at the parent's slot of the loop the three stores, one after the
\* other; at a child's slot the child goes to init.
Walk(m0, c) ==
  LET at(m, s, off) == m[Addr(s, off)]
      put(m, p) ==
        LET i  == Index(c, p)
            m1 == Store(m,  {<<Addr(p, pwaiting_t + i), at(m, c, waiting_t)>>})
            m2 == Store(m1, {<<Addr(p, prunning_t + i), at(m1, c, running_t)>>})
        IN Store(m2, {<<Addr(p, pturnaround_t + i), at(m2, c, turnaround_t)>>})
      walk[q \in 0..NPROC] ==
        IF q = 0 THEN m0
        ELSE LET m == walk[q - 1]
                 n == IF at(m, c, parent) = q THEN put(m, q) ELSE m
             IN IF at(n, q, parent) = c THEN Store(n, {<<Addr(q, parent), 1>>}) ELSE n
  IN Store(walk[NPROC], {<<Addr(c, state), ZOMBIE>>})

\* exit() by a system call
exit(c) ==
  /\ Live(c) /\ c # 1
  /\ mem' = Walk(mem, c)
  /\ UNCHANGED <<nextpid, ticks, panicked>>

\* exit() by trap() for a process killed in user space
exit_killed(c) ==
  LET turn == ticks - Field(c, ctime)
  IN /\ Live(c) /\ c # 1
     /\ mem' = Walk(Store(mem, {<<Addr(c, turnaround_t), turn>>,
                                <<Addr(c, waiting_t), turn - Field(c, running_t)>>}), c)
     /\ UNCHANGED <<nextpid, ticks, panicked>>

\* wait() for a ZOMBIE child; freevm() panics on a null page table
wait(p) ==
  LET zombies == {s \in Slots : Field(s, parent) = p /\ Field(s, state) = ZOMBIE}
      z       == First(zombies)
  IN /\ Live(p) /\ zombies # {}
     /\ panicked' = (Field(z, pgdir) = 0)
     /\ mem' = Store(mem, {<<Addr(z, kstack), 0>>, <<Addr(z, pid), 0>>, <<Addr(z, parent), 0>>,
                           <<Addr(z, killed), 0>>, <<Addr(z, ctime), 0>>,
                           <<Addr(z, state), UNUSED>>})
     /\ UNCHANGED <<nextpid, ticks>>

\* turntime(), which moves on to the next child; bound: NREC calls
turntime(p) ==
  /\ Live(p) /\ Field(p, pidtimes) < NREC
  /\ mem' = Store(mem, {<<Addr(p, pidtimes), Field(p, pidtimes) + 1>>})
  /\ UNCHANGED <<nextpid, ticks, panicked>>

Next ==
  \E p \in Slots :
    Tick(p) \/ fork(p) \/ exit(p) \/ exit_killed(p) \/ wait(p) \/ turntime(p)

Spec == Init /\ [][Next]_vars

-----------------------------------------------------------------------------
\* vm.c:288, panic("freevm: no pgdir"): wait() frees the page table of a
\* process that has one.
PageTableThere == ~ panicked
=============================================================================
