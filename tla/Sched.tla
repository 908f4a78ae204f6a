------------------------------- MODULE Sched -------------------------------
(***************************************************************************)
(* The scheduling policies of proc.c and trap.c on one CPU (NCPU is 1):    *)
(* DEFAULT and FRR preempt on the clock tick, FCFS does not.  scheduler()  *)
(* goes through the table and, when a process gives the CPU back, goes on  *)
(* with the slot after it.  Time accounting is the one of trap().          *)
(***************************************************************************)
EXTENDS Integers, FiniteSets

CONSTANTS NPROC,
          Policies,  \* values of SCHEDFLAG in the Makefile
          QUANTA,
          MaxPid,    \* bound: processes created
          MaxTicks   \* bound: the clock and the counters stop here

Slots == 1..NPROC
None  == 0

ASSUME SchedAssumption ==
  /\ NPROC \in Nat \ {0} /\ QUANTA \in Nat \ {0}
  /\ MaxPid \in Nat \ {0} /\ MaxTicks \in Nat
  /\ Policies \subseteq {"DEFAULT", "FRR", "FCFS"}

VARIABLES
  state, pid, slot, ctime, running_t,  \* fields of struct proc
  nextpid, ticks,
  cpu,      \* c->proc
  at,       \* the slot the loop of scheduler() was last at
  stint,    \* ticks since the process got the CPU
  policy    \* what the kernel was compiled for; never changes

vars == <<policy, state, pid, slot, ctime, running_t, nextpid, ticks, cpu, at, stint>>

Init ==
  /\ state = [s \in Slots |-> IF s = 1 THEN "RUNNABLE" ELSE "UNUSED"]
  /\ pid = [s \in Slots |-> IF s = 1 THEN 1 ELSE 0]
  /\ slot = [s \in Slots |-> 0]
  /\ ctime = [s \in Slots |-> 0] /\ running_t = [s \in Slots |-> 0]
  /\ nextpid = 2 /\ ticks = 0
  /\ cpu = None /\ at = 0 /\ stint = 0
  /\ policy \in Policies

Runnable == {s \in Slots : state[s] = "RUNNABLE"}

FirstOf(S) == CHOOSE s \in S : \A t \in S : s <= t

-----------------------------------------------------------------------------
(* scheduler() *)

\* Mutant: each pass starts again at the first slot.
Ahead_restart == Runnable

\* The RUNNABLE slots this pass over the table has still to come to
Ahead == {s \in Runnable : s > at}

\* firstCome is declared inside the loop, so it is compared with nothing
\* and p = firstCome leaves p where it is.
FirstCome(s) == IF policy = "FCFS" /\ pid[s] > 1 THEN s ELSE None

Chosen(s) == IF FirstCome(s) # None THEN FirstCome(s) ELSE s

Switch ==
  /\ cpu = None /\ Ahead # {}
  /\ LET p == Chosen(FirstOf(Ahead))
     IN /\ state' = [state EXCEPT ![p] = "RUNNING"]
        /\ cpu' = p /\ at' = p
  /\ stint' = 0
  /\ UNCHANGED <<pid, slot, ctime, running_t, nextpid, ticks>>

\* The pass ends; ptable.lock is dropped and a new pass begins.
NewPass ==
  /\ cpu = None /\ Ahead = {} /\ at # 0
  /\ at' = 0
  /\ UNCHANGED <<state, pid, slot, ctime, running_t, nextpid, ticks, cpu, stint>>

-----------------------------------------------------------------------------
(* trap() on a timer interrupt *)

Counting == ticks < MaxTicks
Clock == ticks' = IF Counting THEN ticks + 1 ELSE ticks
Later(t) == IF Counting THEN t + 1 ELSE t

\* Mutant: one tick too late.
Expired_late(p) == slot[p] >= QUANTA

Expired(p) == slot[p] + 1 >= QUANTA

IdleTick ==
  /\ cpu = None /\ Counting
  /\ Clock
  /\ UNCHANGED <<state, pid, slot, ctime, running_t, nextpid, cpu, at, stint>>

\* yield() from the timer interrupt
Preempt(p) ==
  /\ cpu = p
  /\ policy = "DEFAULT" \/ (policy = "FRR" /\ Expired(p))
  /\ Clock
  /\ slot' = [slot EXCEPT ![p] = 0]
  /\ state' = [state EXCEPT ![p] = "RUNNABLE"]
  /\ cpu' = None /\ stint' = 0
  /\ UNCHANGED <<pid, ctime, running_t, nextpid, at>>

\* The process goes on.
Tick(p) ==
  /\ cpu = p
  /\ policy = "FCFS" \/ (policy = "FRR" /\ ~ Expired(p))
  /\ Clock
  /\ slot' = IF policy = "FRR" THEN [slot EXCEPT ![p] = @ + 1] ELSE slot
  /\ running_t' = [running_t EXCEPT ![p] = Later(@)]
  /\ stint' = IF stint < QUANTA THEN stint + 1 ELSE stint
  /\ UNCHANGED <<state, pid, ctime, nextpid, cpu, at>>

-----------------------------------------------------------------------------
(* What processes do *)

\* Mutant: running_t is not reset.
fork_keep(p) ==
  /\ cpu = p /\ nextpid <= MaxPid
  /\ \E s \in Slots : state[s] = "UNUSED"
  /\ LET s == FirstOf({t \in Slots : state[t] = "UNUSED"})
     IN /\ state' = [state EXCEPT ![s] = "RUNNABLE"]
        /\ pid' = [pid EXCEPT ![s] = nextpid]
        /\ ctime' = [ctime EXCEPT ![s] = ticks]
  /\ nextpid' = nextpid + 1
  /\ UNCHANGED <<slot, running_t, ticks, cpu, at, stint>>

\* allocproc() and the rest of fork(); p->slot keeps what the last process left.
fork(p) ==
  /\ cpu = p /\ nextpid <= MaxPid
  /\ \E s \in Slots : state[s] = "UNUSED"
  /\ LET s == FirstOf({t \in Slots : state[t] = "UNUSED"})
     IN /\ state' = [state EXCEPT ![s] = "RUNNABLE"]
        /\ pid' = [pid EXCEPT ![s] = nextpid]
        /\ ctime' = [ctime EXCEPT ![s] = ticks]
        /\ running_t' = [running_t EXCEPT ![s] = 0]
  /\ nextpid' = nextpid + 1
  /\ UNCHANGED <<slot, ticks, cpu, at, stint>>

sleep(p) ==
  /\ cpu = p
  /\ state' = [state EXCEPT ![p] = "SLEEPING"]
  /\ cpu' = None /\ stint' = 0
  /\ UNCHANGED <<pid, slot, ctime, running_t, nextpid, ticks, at>>

\* By the running process, or by an interrupt
wakeup(p) ==
  /\ state[p] = "SLEEPING"
  /\ state' = [state EXCEPT ![p] = "RUNNABLE"]
  /\ UNCHANGED <<pid, slot, ctime, running_t, nextpid, ticks, cpu, at, stint>>

\* exit(), and the wait() of its parent
exit(p) ==
  /\ cpu = p /\ p # 1
  /\ state' = [state EXCEPT ![p] = "UNUSED"]
  /\ pid' = [pid EXCEPT ![p] = 0]
  /\ ctime' = [ctime EXCEPT ![p] = 0]
  /\ cpu' = None /\ stint' = 0
  /\ UNCHANGED <<slot, running_t, nextpid, ticks, at>>

-----------------------------------------------------------------------------
Next ==
  /\ \/ Switch \/ NewPass \/ IdleTick
     \/ \E p \in Slots : Preempt(p) \/ Tick(p) \/ fork(p) \/ sleep(p) \/ wakeup(p) \/ exit(p)
  /\ UNCHANGED policy

Spec == Init /\ [][Next]_vars

\* The CPU takes the next process, the clock ticks.  Without preemption
\* (FCFS) a process must give the CPU back by itself.
Fairness ==
  /\ WF_vars(Switch /\ UNCHANGED policy) /\ WF_vars(NewPass /\ UNCHANGED policy)
  /\ WF_vars((\E p \in Slots : Preempt(p) \/ Tick(p)) /\ UNCHANGED policy)
  /\ WF_vars(policy = "FCFS" /\ (\E p \in Slots : sleep(p) \/ exit(p)) /\ UNCHANGED policy)

FairSpec == Spec /\ Fairness

-----------------------------------------------------------------------------
\* Type invariant of the scheduler; cpu is the one RUNNING process.
TypeOK ==
  /\ state \in [Slots -> {"UNUSED", "SLEEPING", "RUNNABLE", "RUNNING"}]
  /\ pid \in [Slots -> 0..MaxPid] /\ nextpid \in 1..(MaxPid + 1)
  /\ slot \in [Slots -> 0..(QUANTA - 1)]
  /\ ctime \in [Slots -> 0..MaxTicks] /\ running_t \in [Slots -> 0..MaxTicks]
  /\ ticks \in 0..MaxTicks
  /\ cpu \in Slots \cup {None} /\ at \in Slots \cup {None}
  /\ stint \in 0..QUANTA /\ policy \in Policies
  /\ \A s \in Slots : state[s] = "RUNNING" <=> cpu = s

\* trap(): what a process is charged for fits in its life time, so
\* waiting_t = turnaround_t - running_t is never negative (trap.c:97).
ChargedTimeFits ==
  /\ TypeOK
  /\ \A s \in Slots : state[s] # "UNUSED" => running_t[s] <= ticks - ctime[s]

\* FRR (param.h:16): no process keeps the CPU for more than QUANTA ticks.
QuantumBound == policy = "FRR" => stint < QUANTA

\* scheduler(): every RUNNABLE process runs, however the others fork, sleep
\* and come back.
NoStarvation == \A p \in Slots : state[p] = "RUNNABLE" ~> state[p] = "RUNNING"
=============================================================================
