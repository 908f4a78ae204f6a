---------------------------- MODULE SchedProofs ----------------------------
(***************************************************************************)
(* The bounds on a process's time, for a table of any size, any QUANTA and *)
(* each of the policies.                                                   *)
(***************************************************************************)
EXTENDS Sched, WellFoundedInduction, TLAPS

\* trap() sets p->slot back to 0 only where it preempts p, so the ticks of the
\* present stint never exceed it: slot outlives sleep() and exit().
StintCounted ==
  /\ cpu = None => stint = 0
  /\ \A p \in Slots : policy = "FRR" /\ cpu = p => stint <= slot[p]

\* The inductive invariant.  ChargedTimeFits has the type invariant in it.
IInv == ChargedTimeFits /\ StintCounted

-----------------------------------------------------------------------------
\* The table is searched from its first slot on: what a search comes to first
\* is one of the slots it looks for.
LEMMA FirstIn ==
  ASSUME NEW S, S \subseteq Slots, S # {}
  PROVE  FirstOf(S) \in S
  <1> DEFINE R == OpToRel(<, Nat)
  <1>1. S \subseteq Nat
    BY SchedAssumption DEF Slots
  <1>2. IsWellFoundedOn(R, Nat)
    BY NatLessThanWellFounded
  <1>3. \A x, y \in Nat : <<y, x>> \in R <=> y < x
    BY DEF OpToRel
  <1> HIDE DEF R
  <1>4. PICK x \in S : \A y \in S : ~ (<<y, x>> \in R)
    BY <1>1, <1>2, WFMin, Zenon
  <1>5. ASSUME NEW y \in S PROVE x <= y
    <2>1. ~ (y < x)
      BY <1>1, <1>3, <1>4, Zenon
    <2> QED
      BY <1>1, <2>1
  <1> QED
    BY <1>5 DEF FirstOf

\* The null pointer is no slot, and 1 is the slot of init.
LEMMA NoneIsNoSlot == None \notin Slots /\ 1 \in Slots
  BY SchedAssumption DEF None, Slots

\* scheduler() gives the CPU to a process.
LEMMA Keeps_Switch ==
  ASSUME IInv, Switch, UNCHANGED policy
  PROVE  IInv'
  <1> USE SchedAssumption, NoneIsNoSlot DEF IInv, ChargedTimeFits
  <1> DEFINE s == FirstOf(Ahead)
  <1>0. s \in Slots /\ state[s] = "RUNNABLE" /\ Chosen(s) = s
    <2>1. Ahead \subseteq Slots /\ Ahead # {}
      BY DEF Switch, Ahead, Runnable
    <2> QED
      BY <2>1, FirstIn DEF Ahead, Runnable, Chosen, FirstCome
  <1>1. TypeOK'
    BY <1>0 DEF TypeOK, Switch
  <1>2. \A t \in Slots : (state[t] # "UNUSED" => running_t[t] <= ticks - ctime[t])'
    BY <1>0 DEF TypeOK, Switch
  <1>3. StintCounted'
    BY <1>0 DEF TypeOK, StintCounted, Switch
  <1> QED
    BY <1>1, <1>2, <1>3

\* scheduler() begins a new pass.
LEMMA Keeps_NewPass ==
  ASSUME IInv, NewPass, UNCHANGED policy
  PROVE  IInv'
  <1> USE SchedAssumption, NoneIsNoSlot DEF IInv, ChargedTimeFits
  <1>1. TypeOK'
    BY DEF TypeOK, NewPass, None
  <1>2. \A t \in Slots : (state[t] # "UNUSED" => running_t[t] <= ticks - ctime[t])'
    BY DEF TypeOK, NewPass
  <1>3. StintCounted'
    BY DEF TypeOK, StintCounted, NewPass
  <1> QED
    BY <1>1, <1>2, <1>3

\* The clock ticks while no process runs.
LEMMA Keeps_IdleTick ==
  ASSUME IInv, IdleTick, UNCHANGED policy
  PROVE  IInv'
  <1> USE SchedAssumption, NoneIsNoSlot DEF IInv, ChargedTimeFits
  <1>1. TypeOK'
    BY DEF TypeOK, IdleTick, Clock, Counting
  <1>2. \A t \in Slots : (state[t] # "UNUSED" => running_t[t] <= ticks - ctime[t])'
    BY DEF TypeOK, IdleTick, Clock, Counting
  <1>3. StintCounted'
    BY DEF TypeOK, StintCounted, IdleTick, Clock, Counting
  <1> QED
    BY <1>1, <1>2, <1>3

\* trap() preempts the process that runs.
LEMMA Keeps_Preempt ==
  ASSUME IInv, NEW p \in Slots, Preempt(p), UNCHANGED policy
  PROVE  IInv'
  <1> USE SchedAssumption, NoneIsNoSlot DEF IInv, ChargedTimeFits
  <1>1. TypeOK'
    BY DEF TypeOK, Preempt, Clock, Counting
  <1>2. \A t \in Slots : (state[t] # "UNUSED" => running_t[t] <= ticks - ctime[t])'
    BY DEF TypeOK, Preempt, Clock, Counting
  <1>3. StintCounted'
    BY DEF TypeOK, StintCounted, Preempt, Clock, Counting
  <1> QED
    BY <1>1, <1>2, <1>3

\* trap() charges the tick to the process that runs.
LEMMA Keeps_Tick ==
  ASSUME IInv, NEW p \in Slots, Tick(p), UNCHANGED policy
  PROVE  IInv'
  <1> USE SchedAssumption, NoneIsNoSlot DEF IInv, ChargedTimeFits
  <1>1. TypeOK'
    BY DEF TypeOK, Tick, Clock, Counting, Later, Expired
  <1>2. \A t \in Slots : (state[t] # "UNUSED" => running_t[t] <= ticks - ctime[t])'
    BY DEF TypeOK, Tick, Clock, Counting, Later, Expired
  <1>3. StintCounted'
    BY DEF TypeOK, StintCounted, Tick, Clock, Counting, Later, Expired
  <1> QED
    BY <1>1, <1>2, <1>3

\* fork() makes a process with no time charged to it.
LEMMA Keeps_fork ==
  ASSUME IInv, NEW p \in Slots, fork(p), UNCHANGED policy
  PROVE  IInv'
  <1> USE SchedAssumption, NoneIsNoSlot DEF IInv, ChargedTimeFits
  <1> DEFINE s == FirstOf({t \in Slots : state[t] = "UNUSED"})
  <1>0. s \in Slots /\ state[s] = "UNUSED"
    <2> DEFINE S == {t \in Slots : state[t] = "UNUSED"}
    <2>1. S \subseteq Slots /\ S # {}
      BY DEF fork
    <2>2. FirstOf(S) \in S
      BY <2>1, FirstIn
    <2> QED
      BY <2>2
  <1>1. TypeOK'
    BY <1>0 DEF TypeOK, fork
  <1>2. \A t \in Slots : (state[t] # "UNUSED" => running_t[t] <= ticks - ctime[t])'
    BY <1>0 DEF TypeOK, fork
  <1>3. StintCounted'
    BY <1>0 DEF TypeOK, StintCounted, fork
  <1> QED
    BY <1>1, <1>2, <1>3

\* sleep() gives up the CPU.
LEMMA Keeps_sleep ==
  ASSUME IInv, NEW p \in Slots, sleep(p), UNCHANGED policy
  PROVE  IInv'
  <1> USE SchedAssumption, NoneIsNoSlot DEF IInv, ChargedTimeFits
  <1>1. TypeOK'
    BY DEF TypeOK, sleep
  <1>2. \A t \in Slots : (state[t] # "UNUSED" => running_t[t] <= ticks - ctime[t])'
    BY DEF TypeOK, sleep
  <1>3. StintCounted'
    BY DEF TypeOK, StintCounted, sleep
  <1> QED
    BY <1>1, <1>2, <1>3

\* wakeup() moves a process to the RUNNABLE ones.
LEMMA Keeps_wakeup ==
  ASSUME IInv, NEW p \in Slots, wakeup(p), UNCHANGED policy
  PROVE  IInv'
  <1> USE SchedAssumption, NoneIsNoSlot DEF IInv, ChargedTimeFits
  <1>1. TypeOK'
    BY DEF TypeOK, wakeup
  <1>2. \A t \in Slots : (state[t] # "UNUSED" => running_t[t] <= ticks - ctime[t])'
    BY DEF TypeOK, wakeup
  <1>3. StintCounted'
    BY DEF TypeOK, StintCounted, wakeup
  <1> QED
    BY <1>1, <1>2, <1>3

\* exit() ends the process that runs.
LEMMA Keeps_exit ==
  ASSUME IInv, NEW p \in Slots, exit(p), UNCHANGED policy
  PROVE  IInv'
  <1> USE SchedAssumption, NoneIsNoSlot DEF IInv, ChargedTimeFits
  <1>1. TypeOK'
    BY DEF TypeOK, exit
  <1>2. \A t \in Slots : (state[t] # "UNUSED" => running_t[t] <= ticks - ctime[t])'
    BY DEF TypeOK, exit
  <1>3. StintCounted'
    BY DEF TypeOK, StintCounted, exit
  <1> QED
    BY <1>1, <1>2, <1>3

-----------------------------------------------------------------------------
\* The invariant holds at boot and every step of the scheduler, of trap() and
\* of the processes keeps it.
THEOREM Invariance == Spec => []IInv
  <1>1. Init => IInv
    BY SchedAssumption DEF Init, IInv, ChargedTimeFits, TypeOK, StintCounted, Slots, None
  <1>2. IInv /\ [Next]_vars => IInv'
    <2> SUFFICES ASSUME IInv, [Next]_vars PROVE IInv'
      OBVIOUS
    <2>1. CASE UNCHANGED vars
      BY <2>1 DEF IInv, ChargedTimeFits, TypeOK, StintCounted, vars
    <2>2. CASE Next
      BY <2>2, Keeps_Switch, Keeps_NewPass, Keeps_IdleTick, Keeps_Preempt, Keeps_Tick,
         Keeps_fork, Keeps_sleep, Keeps_wakeup, Keeps_exit DEF Next
    <2> QED
      BY <2>1, <2>2
  <1> QED
    BY <1>1, <1>2, PTL DEF Spec

\* trap.c:97: what a process is charged for fits in the time since its fork(),
\* so waiting_t = turnaround_t - running_t is never negative.
THEOREM ChargedTimeAlwaysFits == Spec => []ChargedTimeFits
  <1>1. IInv => ChargedTimeFits
    BY DEF IInv
  <1> QED
    BY <1>1, Invariance, PTL

\* trap.c, FRR: no process keeps the CPU for more than QUANTA ticks.
THEOREM QuantumIsBounded == Spec => []QuantumBound
  <1>1. IInv => QuantumBound
    <2> SUFFICES ASSUME IInv, policy = "FRR" PROVE stint < QUANTA
      BY DEF QuantumBound
    <2>1. CASE cpu = None
      BY <2>1, SchedAssumption DEF IInv, StintCounted
    <2>2. CASE cpu \in Slots
      BY <2>2, SchedAssumption DEF IInv, ChargedTimeFits, TypeOK, StintCounted
    <2> QED
      BY <2>1, <2>2 DEF IInv, ChargedTimeFits, TypeOK
  <1> QED
    BY <1>1, Invariance, PTL
=============================================================================
