-------------------------- MODULE SleepLockProofs --------------------------
(***************************************************************************)
(* Proofs about SleepLock, for any set of processes.                       *)
(*                                                                         *)
(* Mutual exclusion of the sleep lock rests on that of the spin lock       *)
(* lk->lk: what a process found in its test still holds when it acts on    *)
(* it.  IInv says which program points hold which lock, and NoLostWakeup   *)
(* with the two facts that make it inductive: a process between its test   *)
(* and release(lk) knows that the lock is still taken, and a process that  *)
(* calls wakeup() holds lk, so nobody is between the two.                  *)
(***************************************************************************)
EXTENDS SleepLock, TLAPS

HoldsLk == {"test", "sleep", "unlock_lk", "taken", "clear", "wakeup", "done"}
HoldsPt == {"unlock_lk", "sched"}

\* Which program points hold the spin locks, and where a process can sleep.
SpinInv ==
  /\ \A p \in Procs : pc[p] \in HoldsLk <=> lk = p
  /\ \A p \in Procs : pc[p] \in HoldsPt <=> ptable_lock = p
  /\ \A p \in Procs : state[p] = "SLEEPING" => pc[p] = "asleep"

\* lk->locked and lk->pid name the holder of the sleep lock.
OwnerInv ==
  /\ \A p \in Procs : pc[p] \in Holders <=> locked /\ pid = p
  /\ locked <=> pid # NoProc

\* A process on its way to sleep has seen the lock taken, and until it drops
\* lk nobody can have released it.
TestInv == \A p \in Procs : pc[p] \in {"sleep", "unlock_lk"} => locked

IInv == TypeOK /\ SpinInv /\ OwnerInv /\ TestInv /\ NoLostWakeup

USE SleepLockAssumption

\* The initial state satisfies the inductive invariant.
LEMMA InitIInv == Init => IInv
  BY DEF Init, IInv, TypeOK, SpinInv, OwnerInv, TestInv, NoLostWakeup, PCs, HoldsLk, HoldsPt, Holders

\* Every step of acquiresleep(), releasesleep() and kill() keeps the types.
LEMMA TypeStep == TypeOK /\ [Next]_vars => TypeOK'
<1> SUFFICES ASSUME TypeOK, [Next]_vars PROVE TypeOK'
  OBVIOUS
<1> USE DEF TypeOK, PCs, Goto, AcquireLk, ReleaseLk, AcquirePt, ReleasePt, Awake
<1>1. CASE UNCHANGED vars
  BY <1>1 DEF vars
<1>2. ASSUME NEW p \in Procs, Call(p) \/ Kill(p) PROVE TypeOK'
  BY <1>2 DEF Call, Kill
<1>3. ASSUME NEW p \in Procs,
             Acquire(p) \/ Test(p) \/ SleepLockPt(p) \/ SleepUnlock(p) \/ Sched(p) \/ Resume(p)
      PROVE  TypeOK'
  BY <1>3 DEF Acquire, Test, SleepLockPt, SleepUnlock, Sched, Resume
<1>4. ASSUME NEW p \in Procs, Reacquire(p) \/ Taken(p) \/ CallRelease(p) \/ Release(p) \/ Clear(p)
      PROVE  TypeOK'
  BY <1>4 DEF Reacquire, Taken, CallRelease, Release, Clear
<1>5. ASSUME NEW p \in Procs, Wakeup(p) \/ Done(p) PROVE TypeOK'
  BY <1>5 DEF Wakeup, Done
<1> QED
  BY <1>1, <1>2, <1>3, <1>4, <1>5 DEF Next, Step

\* The spin locks: only their holder passes a point that needs them.
LEMMA SpinStep == TypeOK /\ SpinInv /\ [Next]_vars => SpinInv'
<1> SUFFICES ASSUME TypeOK, SpinInv, [Next]_vars PROVE SpinInv'
  OBVIOUS
<1> USE DEF TypeOK, PCs, SpinInv, HoldsLk, HoldsPt, Goto, AcquireLk, ReleaseLk, AcquirePt, ReleasePt, Awake
<1>1. CASE UNCHANGED vars
  BY <1>1 DEF vars
<1>2. ASSUME NEW p \in Procs, Call(p) \/ Kill(p) PROVE SpinInv'
  BY <1>2 DEF Call, Kill
<1>3. ASSUME NEW p \in Procs, Acquire(p) \/ Test(p) \/ SleepLockPt(p) PROVE SpinInv'
  BY <1>3 DEF Acquire, Test, SleepLockPt
<1>4. ASSUME NEW p \in Procs, SleepUnlock(p) \/ Sched(p) \/ Resume(p) PROVE SpinInv'
  BY <1>4 DEF SleepUnlock, Sched, Resume
<1>5. ASSUME NEW p \in Procs, Reacquire(p) \/ Taken(p) \/ CallRelease(p) \/ Release(p)
      PROVE  SpinInv'
  BY <1>5 DEF Reacquire, Taken, CallRelease, Release
<1>6. ASSUME NEW p \in Procs, Clear(p) \/ Wakeup(p) \/ Done(p) PROVE SpinInv'
  BY <1>6 DEF Clear, Wakeup, Done
<1> QED
  BY <1>1, <1>2, <1>3, <1>4, <1>5, <1>6 DEF Next, Step

\* The sleep lock: the one process that has lk changes lk->locked.
LEMMA OwnerStep == TypeOK /\ SpinInv /\ OwnerInv /\ [Next]_vars => OwnerInv'
<1> SUFFICES ASSUME TypeOK, SpinInv, OwnerInv, [Next]_vars PROVE OwnerInv'
  OBVIOUS
<1> USE DEF TypeOK, PCs, OwnerInv, Holders, Goto
<1>1. CASE UNCHANGED vars
  BY <1>1 DEF vars
<1>2. ASSUME NEW p \in Procs, Call(p) \/ Kill(p) \/ Acquire(p) \/ SleepLockPt(p) \/ SleepUnlock(p)
      PROVE  OwnerInv'
  BY <1>2 DEF Call, Kill, Acquire, SleepLockPt, SleepUnlock
<1>3. ASSUME NEW p \in Procs, Test(p) PROVE OwnerInv'
  BY <1>3 DEF Test
<1>4. ASSUME NEW p \in Procs, Sched(p) \/ Resume(p) \/ Reacquire(p) \/ Taken(p) PROVE OwnerInv'
  BY <1>4 DEF Sched, Resume, Reacquire, Taken
<1>5. ASSUME NEW p \in Procs, CallRelease(p) \/ Release(p) \/ Wakeup(p) \/ Done(p) PROVE OwnerInv'
  BY <1>5 DEF CallRelease, Release, Wakeup, Done
<1>6. ASSUME NEW p \in Procs, Clear(p) PROVE OwnerInv'
  BY <1>6 DEF Clear
<1> QED
  BY <1>1, <1>2, <1>3, <1>4, <1>5, <1>6 DEF Next, Step

\* Between the test and release(lk) no other process can clear lk->locked:
\* Clear needs lk.
LEMMA TestStep == TypeOK /\ SpinInv /\ TestInv /\ [Next]_vars => TestInv'
<1> SUFFICES ASSUME TypeOK, SpinInv, TestInv, [Next]_vars PROVE TestInv'
  OBVIOUS
<1> USE DEF TypeOK, PCs, TestInv, Goto
<1>1. CASE UNCHANGED vars
  BY <1>1 DEF vars
<1>2. ASSUME NEW p \in Procs, Call(p) \/ Kill(p) \/ Acquire(p) \/ SleepLockPt(p) \/ SleepUnlock(p)
      PROVE  TestInv'
  BY <1>2 DEF Call, Kill, Acquire, SleepLockPt, SleepUnlock
<1>3. ASSUME NEW p \in Procs, Test(p) PROVE TestInv'
  BY <1>3 DEF Test
<1>4. ASSUME NEW p \in Procs, Sched(p) \/ Resume(p) \/ Reacquire(p) \/ Taken(p) PROVE TestInv'
  BY <1>4 DEF Sched, Resume, Reacquire, Taken
<1>5. ASSUME NEW p \in Procs, CallRelease(p) \/ Release(p) \/ Wakeup(p) \/ Done(p) PROVE TestInv'
  BY <1>5 DEF CallRelease, Release, Wakeup, Done
<1>6. ASSUME NEW p \in Procs, Clear(p) PROVE TestInv'
  BY <1>6 DEF Clear, SpinInv, HoldsLk
<1> QED
  BY <1>1, <1>2, <1>3, <1>4, <1>5, <1>6 DEF Next, Step

\* No wakeup is lost.  Clear turns "locked" into "a wakeup is to come"; the
\* wakeup() itself finds nobody on the way to sleep, because such a process
\* would hold lk or ptable.lock.
LEMMA WakeupStep ==
  TypeOK /\ SpinInv /\ TestInv /\ NoLostWakeup /\ [Next]_vars => NoLostWakeup'
<1> SUFFICES ASSUME TypeOK, SpinInv, TestInv, NoLostWakeup, [Next]_vars PROVE NoLostWakeup'
  OBVIOUS
<1> USE DEF TypeOK, PCs, NoLostWakeup, Goto
<1>1. CASE UNCHANGED vars
  BY <1>1 DEF vars
<1>2. ASSUME NEW p \in Procs, Call(p) \/ Kill(p) \/ Acquire(p) \/ SleepLockPt(p) \/ SleepUnlock(p)
      PROVE  NoLostWakeup'
  BY <1>2 DEF Call, Kill, Acquire, SleepLockPt, SleepUnlock
<1>3. ASSUME NEW p \in Procs, Test(p) PROVE NoLostWakeup'
  BY <1>3 DEF Test
<1>4. ASSUME NEW p \in Procs, Sched(p) PROVE NoLostWakeup'
  BY <1>4 DEF Sched
<1>5. ASSUME NEW p \in Procs, Resume(p) \/ Reacquire(p) \/ Taken(p) \/ CallRelease(p) \/ Release(p)
                              \/ Done(p)
      PROVE  NoLostWakeup'
  BY <1>5 DEF Resume, Reacquire, Taken, CallRelease, Release, Done
<1>6. ASSUME NEW p \in Procs, Clear(p) PROVE NoLostWakeup'
  BY <1>6 DEF Clear
<1>7. ASSUME NEW p \in Procs, Wakeup(p) PROVE NoLostWakeup'
  <2>1. \A q \in Procs : pc[q] \notin {"sleep", "unlock_lk", "sched"}
    BY <1>7 DEF Wakeup, SpinInv, HoldsLk, HoldsPt
  <2>2. \A q \in Procs : state'[q] # "SLEEPING"
    BY <1>7 DEF Wakeup, Awake
  <2> QED
    BY <1>7, <2>1, <2>2 DEF Wakeup
<1> QED
  BY <1>1, <1>2, <1>3, <1>4, <1>5, <1>6, <1>7 DEF Next, Step

\* The inductive invariant holds in every reachable state.
THEOREM Invariance == Spec => []IInv
<1>1. IInv /\ [Next]_vars => IInv'
  BY TypeStep, SpinStep, OwnerStep, TestStep, WakeupStep DEF IInv
<1> QED
  BY InitIInv, <1>1, PTL DEF Spec

\* acquiresleep() gives mutual exclusion, and lk->pid names the holder.
THEOREM MutualExclusionHolds == Spec => []MutualExclusion
<1>1. IInv => MutualExclusion
  BY DEF IInv, OwnerInv, MutualExclusion
<1> QED
  BY Invariance, <1>1, PTL

\* sleep() and wakeup() lose no wakeup of a sleep lock.
THEOREM NoLostWakeupHolds == Spec => []NoLostWakeup
<1>1. IInv => NoLostWakeup
  BY DEF IInv
<1> QED
  BY Invariance, <1>1, PTL

\* The sleep lock with its two spin locks implements the lock of Mutex.
THEOREM Refinement == Spec => ImplementsMutex
<1>1. Init => Lock!Init
  BY DEF Init, Lock!Init
<1>2. IInv /\ [Next]_vars => [Lock!Next]_pid
  <2> SUFFICES ASSUME IInv, [Next]_vars PROVE [Lock!Next]_pid
    OBVIOUS
  <2> USE DEF IInv, OwnerInv, Holders, Goto
  <2>1. CASE UNCHANGED vars
    BY <2>1 DEF vars
  <2>2. ASSUME NEW p \in Procs, Call(p) \/ Kill(p) \/ Acquire(p) \/ SleepLockPt(p) \/ SleepUnlock(p)
        PROVE  pid' = pid
    BY <2>2 DEF Call, Kill, Acquire, SleepLockPt, SleepUnlock
  <2>3. ASSUME NEW p \in Procs, Test(p) PROVE Lock!Acquire(p) \/ pid' = pid
    BY <2>3 DEF Test, Lock!Acquire
  <2>4. ASSUME NEW p \in Procs, Sched(p) \/ Resume(p) \/ Reacquire(p) \/ Taken(p) PROVE pid' = pid
    BY <2>4 DEF Sched, Resume, Reacquire, Taken
  <2>5. ASSUME NEW p \in Procs, CallRelease(p) \/ Release(p) \/ Wakeup(p) \/ Done(p)
        PROVE  pid' = pid
    BY <2>5 DEF CallRelease, Release, Wakeup, Done
  <2>6. ASSUME NEW p \in Procs, Clear(p) PROVE Lock!Release(p)
    BY <2>6 DEF Clear, Lock!Release
  <2> QED
    BY <2>1, <2>2, <2>3, <2>4, <2>5, <2>6 DEF Next, Step, Lock!Next
<1> QED
  BY Invariance, <1>1, <1>2, PTL DEF Spec, ImplementsMutex, Lock!Spec
=============================================================================
