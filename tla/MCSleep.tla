------------------------------ MODULE MCSleep ------------------------------
(***************************************************************************)
(* Three machines in which processes sleep and are woken, for TLC: the     *)
(* sleep lock (SleepLock, with sleep() and wakeup() in full), the clock    *)
(* (Ticks) and the log (Log), here with three system calls and room for    *)
(* two: one waits in begin_op() while the others run and commit.  They     *)
(* share nothing, so a behaviour runs one of them.                         *)
(***************************************************************************)
EXTENDS SleepLock

CONSTANTS
  Sleepers, UINT, SleepArgs, MaxLate,
  Blocks, Data, NoData, LOGSIZE, MAXOPBLOCKS, nlog, OpBlocks, Readers

VARIABLES
  ticks, at, doomed, n, ticks0, elapsed, late, answer,
  home, logblk, head, lh, outstanding, committing, buf, dirty, owner, op, wrote, tail, sys,
  machine    \* which of them runs

Clock   == INSTANCE Ticks WITH Procs <- Sleepers, killed <- doomed
Journal == INSTANCE Log WITH pc <- op

\* No sleep is so long that ticks comes round to ticks0 again before it ends.
ASSUME ClockAssumption ==
  /\ UINT \in Nat \ {0} /\ MaxLate \in 0..(UINT - 1)
  /\ \A k \in SleepArgs : k \in Nat /\ k + MaxLate < UINT

ASSUME JournalAssumption == Journal!LogAssumption

clock   == <<ticks, at, doomed, n, ticks0, elapsed, late, answer>>
journal == <<home, logblk, head, lh, outstanding, committing, buf, dirty, owner, op, wrote,
             tail, sys>>

MCInit == Init /\ Clock!Init /\ Journal!Init /\ machine \in {"lock", "clock", "log"}

MCNext ==
  /\ UNCHANGED machine
  /\ \/ machine = "lock" /\ Next /\ UNCHANGED <<clock, journal>>
     \/ machine = "clock" /\ Clock!Next /\ UNCHANGED <<vars, journal>>
     \/ machine = "log" /\ Journal!Next /\ UNCHANGED <<vars, clock>>

\* The fairness of SleepLock, of Ticks and of Log, for the behaviours that run
\* them
MCSpec ==
  /\ MCInit /\ [][MCNext]_<<vars, clock, journal, machine>>
  /\ \A p \in Procs : WF_vars(machine = "lock" /\ Step(p))
  /\ WF_clock(machine = "clock" /\ Clock!timer)
  /\ \A p \in Sleepers : WF_clock(machine = "clock" /\ Clock!sys_sleep_woken(p))
  /\ \A p \in Procs : /\ WF_journal(machine = "log" /\ Journal!Step(p) /\ op[p] # "idle")
                       /\ SF_journal(machine = "log" /\ Journal!end_op(p))
  /\ WF_journal(/\ machine = "log"
                /\ Journal!initlog \/ Journal!recover_install \/ Journal!recover_erase)

-----------------------------------------------------------------------------
\* sys_sleep() returns after the ticks it was asked for: see Ticks.
SleepsInTime == machine = "clock" => Clock!SleepsInTime

\* Every call of sys_sleep() returns: see Ticks.
SleeperReturns == Clock!SleeperReturns

\* A begin_op() that went to sleep on &log is woken, by the end_op() of a call
\* that runs beside the ones still outstanding too: see Log.
BeginWakes == Journal!SleeperWakes
=============================================================================
