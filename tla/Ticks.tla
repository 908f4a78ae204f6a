-------------------------------- MODULE Ticks --------------------------------
(***************************************************************************)
(* The clock: the timer interrupt of trap(), which counts ticks and wakes  *)
(* the sleepers, and sys_sleep(), which waits for a number of ticks.       *)
(* What happens under tickslock is one action.  ticks is an unsigned       *)
(* integer that wraps around at UINT.  A process that was woken runs       *)
(* before MaxLate more ticks have passed (the scheduler goes round).       *)
(***************************************************************************)
EXTENDS Integers

CONSTANTS Procs, UINT, SleepArgs, MaxLate

VARIABLES
  ticks,
  at,        \* "user", "sleeping" on &ticks, or "woken" inside sys_sleep()
  killed,
  n, ticks0, \* the locals of sys_sleep()
  elapsed,   \* the ticks since the call began, up to UINT
  late,      \* the ticks since the process was woken
  answer     \* what sys_sleep() returned last

locals == <<at, n, ticks0, elapsed, late, answer>>
vars   == <<ticks, killed, locals>>

Init ==
  /\ ticks = UINT - 1 /\ at = [p \in Procs |-> "user"]
  /\ killed = [p \in Procs |-> FALSE] /\ n = [p \in Procs |-> 0]
  /\ ticks0 = [p \in Procs |-> 0] /\ elapsed = [p \in Procs |-> 0]
  /\ late = [p \in Procs |-> 0] /\ answer = [p \in Procs |-> "none"]

\* Mutant: the tick is counted but nobody is woken.
Awake_none == at

\* wakeup(&ticks)
Awake == [p \in Procs |-> IF at[p] = "sleeping" THEN "woken" ELSE at[p]]

\* case T_IRQ0 + IRQ_TIMER of trap(), on the CPU that counts
timer ==
  /\ \A p \in Procs : at[p] = "woken" => late[p] < MaxLate
  /\ ticks' = (ticks + 1) % UINT
  /\ at' = Awake
  /\ elapsed' = [p \in Procs |-> IF at[p] = "user" \/ elapsed[p] = UINT THEN elapsed[p]
                               ELSE elapsed[p] + 1]
  /\ late' = [p \in Procs |-> IF at[p] = "woken" THEN late[p] + 1 ELSE 0]
  /\ UNCHANGED <<killed, n, ticks0, answer>>

\* Mutant: the end is computed first, and compared.
Waiting_wrap(p, k, since) == ticks < (since + k) % UINT

\* The condition of the loop
Waiting(p, k, since) == (ticks - since) % UINT < k

\* The call, up to sleep() or the end
sys_sleep(p, k) ==
  LET more == Waiting(p, k, ticks)
  IN /\ at[p] = "user" /\ ~killed[p]
     /\ at' = [at EXCEPT ![p] = IF more THEN "sleeping" ELSE "user"]
     /\ n' = [n EXCEPT ![p] = k] /\ ticks0' = [ticks0 EXCEPT ![p] = ticks]
     /\ answer' = [answer EXCEPT ![p] = IF more THEN "none" ELSE "0"]
     /\ elapsed' = [elapsed EXCEPT ![p] = 0] /\ late' = [late EXCEPT ![p] = 0]
     /\ UNCHANGED <<ticks, killed>>

\* The return of sleep(): the loop goes on or ends
sys_sleep_woken(p) ==
  LET more == Waiting(p, n[p], ticks0[p])
  IN /\ at[p] = "woken"
     /\ at' = [at EXCEPT ![p] = IF more /\ ~killed[p] THEN "sleeping" ELSE "user"]
     /\ answer' = [answer EXCEPT ![p] = IF ~more THEN "0" ELSE IF killed[p] THEN "-1" ELSE @]
     /\ UNCHANGED <<ticks, killed, n, ticks0, elapsed, late>>

kill(p) ==
  /\ ~killed[p] /\ killed' = [killed EXCEPT ![p] = TRUE]
  /\ at' = [at EXCEPT ![p] = IF @ = "sleeping" THEN "woken" ELSE @]
  /\ late' = [late EXCEPT ![p] = IF at[p] = "sleeping" THEN 0 ELSE @]
  /\ UNCHANGED <<ticks, n, ticks0, elapsed, answer>>

Next == timer \/ \E p \in Procs : \/ \E k \in SleepArgs : sys_sleep(p, k)
                                  \/ sys_sleep_woken(p) \/ kill(p)

\* The timer keeps interrupting, and a process that can run is run.
Fairness == WF_vars(timer) /\ \A p \in Procs : WF_vars(sys_sleep_woken(p))

-----------------------------------------------------------------------------
(* Properties *)

\* sys_sleep(k) returns 0 after k ticks and not before, at most as late as
\* the process was scheduled, also when ticks wraps around in between.
SleepsInTime ==
  \A p \in Procs : /\ answer[p] = "0" => elapsed[p] \in n[p]..n[p] + MaxLate
                   /\ answer[p] = "-1" => killed[p]

\* Every call of sys_sleep() returns.
SleeperReturns == \A p \in Procs : at[p] # "user" ~> at[p] = "user"
=============================================================================
