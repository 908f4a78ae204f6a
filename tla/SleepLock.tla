----------------------------- MODULE SleepLock -----------------------------
(***************************************************************************)
(* One sleep lock (sleeplock.c) with sleep() and wakeup() (proc.c) spelled *)
(* out down to their two spin locks, lk->lk and ptable.lock, which are     *)
(* taken and dropped in separate steps.                                    *)
(*                                                                         *)
(* sched() hands ptable.lock to the scheduler, which drops it, and a       *)
(* process that is switched to again starts out holding it; both           *)
(* hand-overs happen inside one step here, sched and resume.               *)
(***************************************************************************)
EXTENDS Naturals, FiniteSets

CONSTANTS Procs,   \* processes that use the lock
          NoProc

ASSUME SleepLockAssumption == NoProc \notin Procs

VARIABLES
  locked, pid,  \* lk->locked and lk->pid (the process itself, or NoProc)
  lk,           \* holder of the spin lock lk->lk
  ptable_lock,  \* holder of ptable.lock
  state,        \* p->state; a sleeper is always on this lock's channel
  killed,       \* processes that a kill() has hit; bound: one each
  pc            \* next thing the process does

vars == <<locked, pid, lk, ptable_lock, state, killed, pc>>

PCs == {"idle",                                       \* neither has nor wants it
        "acquire", "test", "sleep", "unlock_lk", "sched", "asleep", "reacquire", "taken",
        "cs",                                         \* holds the sleep lock
        "release", "clear", "wakeup", "done"}         \* releasesleep()

Init ==
  /\ locked = FALSE /\ pid = NoProc
  /\ lk = NoProc /\ ptable_lock = NoProc
  /\ state = [p \in Procs |-> "RUNNABLE"]
  /\ killed = {}
  /\ pc = [p \in Procs |-> "idle"]

Goto(p, from, to) == pc[p] = from /\ pc' = [pc EXCEPT ![p] = to]

\* acquire() and release() of the two spin locks
AcquireLk(p)  == lk = NoProc /\ lk' = p
ReleaseLk(p)  == lk = p /\ lk' = NoProc
AcquirePt(p)  == ptable_lock = NoProc /\ ptable_lock' = p
ReleasePt(p)  == ptable_lock = p /\ ptable_lock' = NoProc

-----------------------------------------------------------------------------
(* acquiresleep() *)

\* acquiresleep() is called
Call(p) ==
  /\ Goto(p, "idle", "acquire")
  /\ UNCHANGED <<locked, pid, lk, ptable_lock, state, killed>>

Acquire(p) ==
  /\ Goto(p, "acquire", "test")
  /\ AcquireLk(p)
  /\ UNCHANGED <<locked, pid, ptable_lock, state, killed>>

\* Mutant: lk->locked is not tested.
Test_unchecked(p) ==
  /\ Goto(p, "test", "taken") /\ locked' = TRUE /\ pid' = p
  /\ UNCHANGED <<lk, ptable_lock, state, killed>>

\* while(lk->locked): sleep, or leave the loop and take the lock
Test(p) ==
  /\ \/ locked /\ Goto(p, "test", "sleep") /\ UNCHANGED <<locked, pid>>
     \/ ~ locked /\ Goto(p, "test", "taken") /\ locked' = TRUE /\ pid' = p
  /\ UNCHANGED <<lk, ptable_lock, state, killed>>

\* sleep(lk, &lk->lk): acquire(&ptable.lock), then release(lk)
SleepLockPt(p) ==
  /\ Goto(p, "sleep", "unlock_lk")
  /\ AcquirePt(p)
  /\ UNCHANGED <<locked, pid, lk, state, killed>>

SleepUnlock(p) ==
  /\ Goto(p, "unlock_lk", "sched")
  /\ ReleaseLk(p)
  /\ UNCHANGED <<locked, pid, ptable_lock, state, killed>>

\* p->state = SLEEPING; sched()
Sched(p) ==
  /\ Goto(p, "sched", "asleep")
  /\ state' = [state EXCEPT ![p] = "SLEEPING"]
  /\ ReleasePt(p)
  /\ UNCHANGED <<locked, pid, lk, killed>>

\* scheduler() comes back to p, which drops ptable.lock
Resume(p) ==
  /\ Goto(p, "asleep", "reacquire")
  /\ state[p] = "RUNNABLE" /\ ptable_lock = NoProc
  /\ UNCHANGED <<locked, pid, lk, ptable_lock, state, killed>>

Reacquire(p) ==
  /\ Goto(p, "reacquire", "test")
  /\ AcquireLk(p)
  /\ UNCHANGED <<locked, pid, ptable_lock, state, killed>>

Taken(p) ==
  /\ Goto(p, "taken", "cs")
  /\ ReleaseLk(p)
  /\ UNCHANGED <<locked, pid, ptable_lock, state, killed>>

-----------------------------------------------------------------------------
(* releasesleep() *)

CallRelease(p) ==
  /\ Goto(p, "cs", "release")
  /\ UNCHANGED <<locked, pid, lk, ptable_lock, state, killed>>

Release(p) ==
  /\ Goto(p, "release", "clear")
  /\ AcquireLk(p)
  /\ UNCHANGED <<locked, pid, ptable_lock, state, killed>>

Clear(p) ==
  /\ Goto(p, "clear", "wakeup")
  /\ locked' = FALSE /\ pid' = NoProc
  /\ UNCHANGED <<lk, ptable_lock, state, killed>>

Awake == [q \in Procs |-> IF state[q] = "SLEEPING" THEN "RUNNABLE" ELSE state[q]]

\* Mutant: no wakeup().
Wakeup_none(p) ==
  /\ Goto(p, "wakeup", "done")
  /\ UNCHANGED <<locked, pid, lk, ptable_lock, state, killed>>

\* wakeup(lk), which takes and drops ptable.lock
Wakeup(p) ==
  /\ Goto(p, "wakeup", "done")
  /\ ptable_lock = NoProc
  /\ state' = Awake
  /\ UNCHANGED <<locked, pid, lk, ptable_lock, killed>>

Done(p) ==
  /\ Goto(p, "done", "idle")
  /\ ReleaseLk(p)
  /\ UNCHANGED <<locked, pid, ptable_lock, state, killed>>

\* kill() wakes a sleeper whatever it waits for; acquiresleep() waits on.
Kill(p) ==
  /\ p \notin killed /\ ptable_lock = NoProc
  /\ killed' = killed \cup {p}
  /\ state' = [state EXCEPT ![p] = IF @ = "SLEEPING" THEN "RUNNABLE" ELSE @]
  /\ UNCHANGED <<locked, pid, lk, ptable_lock, pc>>

-----------------------------------------------------------------------------
Step(p) ==
  \/ Acquire(p) \/ Test(p) \/ SleepLockPt(p) \/ SleepUnlock(p) \/ Sched(p) \/ Resume(p)
  \/ Reacquire(p) \/ Taken(p)
  \/ CallRelease(p) \/ Release(p) \/ Clear(p) \/ Wakeup(p) \/ Done(p)

Next == \E p \in Procs : Call(p) \/ Step(p) \/ Kill(p)

Spec == Init /\ [][Next]_vars

\* Every process that can run does, a holder leaves its critical section in
\* the end, and only a process that is idle may stay where it is.
FairSpec == Spec /\ \A p \in Procs : WF_vars(Step(p))

-----------------------------------------------------------------------------
(* Properties. *)

Holders == {"taken", "cs", "release", "clear"}

\* Type invariant of the lock.
TypeOK ==
  /\ locked \in BOOLEAN
  /\ pid \in Procs \cup {NoProc}
  /\ lk \in Procs \cup {NoProc}
  /\ ptable_lock \in Procs \cup {NoProc}
  /\ state \in [Procs -> {"RUNNABLE", "SLEEPING"}]
  /\ killed \in SUBSET Procs
  /\ pc \in [Procs -> PCs]

\* acquiresleep(): at most one process is between acquiresleep() and
\* releasesleep(), a spurious wakeup by kill() notwithstanding, and
\* holdingsleep() is true for exactly that process.
MutualExclusion ==
  /\ \A p, q \in Procs : pc[p] \in Holders /\ pc[q] \in Holders => p = q
  /\ \A p \in Procs : pc[p] \in Holders <=> locked /\ pid = p

\* sleep() against wakeup(), proc.c:472-477, "guaranteed that we won't miss
\* any wakeup": a process that sleeps, or is on its way to sleep, has a
\* holder whose releasesleep() is still to come, or whose wakeup() is.
NoLostWakeup ==
  (\E p \in Procs : state[p] = "SLEEPING" \/ pc[p] \in {"sleep", "unlock_lk", "sched"})
     => locked \/ \E q \in Procs : pc[q] = "wakeup"

\* The sleep lock implements a lock: its holder is lk->pid.
Lock == INSTANCE Mutex WITH holder <- pid
ImplementsMutex == Lock!Spec

\* A process that sleeps in acquiresleep() is woken.
SleeperWakes == \A p \in Procs : state[p] = "SLEEPING" ~> state[p] = "RUNNABLE"
=============================================================================
