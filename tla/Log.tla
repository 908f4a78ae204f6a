-------------------------------- MODULE Log --------------------------------
(***************************************************************************)
(* The write-ahead log of log.c, with the part of the buffer cache (bio.c) *)
(* and of the disk driver it relies on, and crashes at any moment.         *)
(*                                                                         *)
(* A section of code that runs under log.lock is one action: the lock is a *)
(* spinlock, and sleep() gives it up atomically.  What log.c does outside  *)
(* the lock is split at every point where another process can run: the     *)
(* two tests of log_write() (log.c:218-221), and every block that commit() *)
(* writes.  A crash can fall between any two actions; a block write itself *)
(* is one sector (BSIZE = SECTOR_SIZE) and is atomic.                      *)
(*                                                                         *)
(* The log's own blocks are changed only between a bread() and its         *)
(* bwrite(), so their cached copy always equals the disk's and only the    *)
(* disk's is kept.  For a home block the cached copy is buf[b], and        *)
(* NoData when the block is not cached.                                    *)
(***************************************************************************)
EXTENDS Integers, Sequences, FiniteSets

CONSTANTS Procs,        \* processes that make FS system calls
          Blocks,       \* home block numbers
          Data,         \* contents of a block
          NoData,       \* a home block that is not cached
          NoProc,       \* a buffer nobody has locked
          LOGSIZE,      \* param.h:11
          MAXOPBLOCKS,  \* param.h:10, what begin_op() reserves per call
          nlog,         \* superblock: blocks of the log, header included
          OpBlocks,     \* distinct blocks a system call really writes
          Readers       \* processes that also read outside of transactions

ASSUME LogAssumption ==
  /\ IsFiniteSet(Procs) /\ Readers \subseteq Procs /\ NoProc \notin Procs
  /\ IsFiniteSet(Blocks)
  /\ NoData \notin Data
  /\ LOGSIZE \in Nat /\ MAXOPBLOCKS \in Nat \ {0} /\ OpBlocks \in Nat /\ nlog \in Nat \ {0}
  /\ MAXOPBLOCKS <= LOGSIZE /\ OpBlocks <= MAXOPBLOCKS

VARIABLES
  home,         \* disk: home location of every block
  logblk,       \* disk: the LOGSIZE blocks after the header; from nlog on
                \*       they are no longer the log's
  head,         \* disk: log header, block numbers of a committed transaction
  lh,           \* memory: log.lh.block[0 .. log.lh.n-1]
  outstanding,  \* memory: log.outstanding
  committing,   \* memory: log.committing
  buf,          \* cached contents of every home block
  dirty,        \* home blocks whose buffer has B_DIRTY, pinned in the cache
  owner,        \* holder of every buffer's sleep lock
  pc,           \* where every process is
  wrote,        \* blocks the running system call of a process has changed
  tail,         \* loop counter of write_log() and install_trans()
  sys           \* "boot", "recover", "run" or "panic"

disk == <<home, logblk, head>>
log  == <<lh, outstanding, committing>>
bufs == <<buf, dirty, owner>>
vars == <<disk, log, bufs, pc, wrote, tail, sys>>

InOp    == {"op", "held", "modified", "checked", "logged"}
Commits == {"commit", "write_log", "write_head", "install", "erase", "done"}
PCs     == {"idle", "reading", "begin", "sleeping"} \cup InOp \cup Commits

Logged == {lh[i] : i \in 1..Len(lh)}

Init ==
  /\ home \in [Blocks -> Data]
  /\ \E d \in Data : logblk = [i \in 1..LOGSIZE |-> d]
  /\ head = <<>> /\ lh = <<>> /\ outstanding = 0 /\ committing = FALSE
  /\ buf = [b \in Blocks |-> NoData]
  /\ dirty = {}
  /\ owner = [b \in Blocks |-> NoProc]
  /\ pc = [p \in Procs |-> "idle"]
  /\ wrote = [p \in Procs |-> {}]
  /\ tail = 0
  /\ sys = "boot"

\* A running process moves from one program point to another.
Goto(p, from, to) ==
  /\ sys = "run"
  /\ pc[p] = from
  /\ pc' = [pc EXCEPT ![p] = to]

-----------------------------------------------------------------------------
(* The buffer cache, as far as the log depends on it. *)

\* bread(): lock the buffer and fill it from the disk unless it is cached.
Lock(p, b) ==
  /\ owner[b] = NoProc
  /\ owner' = [owner EXCEPT ![b] = p]
  /\ buf' = [buf EXCEPT ![b] = IF @ = NoData THEN home[b] ELSE @]
  /\ UNCHANGED dirty

bread(p, b) ==
  /\ Goto(p, "op", "held")
  /\ Lock(p, b)
  /\ UNCHANGED <<disk, log, wrote, tail, sys>>

\* A read that is not part of a transaction (fileread(), exec() of a path...).
breadOutside(p, b) ==
  /\ p \in Readers
  /\ Goto(p, "idle", "reading")
  /\ Lock(p, b)
  /\ UNCHANGED <<disk, log, wrote, tail, sys>>

brelse(p, b) ==
  /\ owner[b] = p
  /\ Goto(p, "held", "op") \/ Goto(p, "logged", "op") \/ Goto(p, "reading", "idle")
  /\ owner' = [owner EXCEPT ![b] = NoProc]
  /\ UNCHANGED <<disk, log, buf, dirty, wrote, tail, sys>>

\* bget() recycles a buffer that is neither in use nor dirty.
Recycle(b) ==
  /\ sys = "run"
  /\ owner[b] = NoProc /\ b \notin dirty /\ buf[b] # NoData
  /\ buf' = [buf EXCEPT ![b] = NoData]
  /\ UNCHANGED <<disk, log, dirty, owner, pc, wrote, tail, sys>>

\* The caller changes b->data before it calls log_write().  No system call
\* changes more than OpBlocks blocks.
Modify(p, b, d) ==
  /\ owner[b] = p
  /\ Goto(p, "held", "modified")
  /\ Cardinality(wrote[p] \cup {b}) <= OpBlocks
  /\ buf' = [buf EXCEPT ![b] = d]
  /\ wrote' = [wrote EXCEPT ![p] = @ \cup {b}]
  /\ UNCHANGED <<disk, log, dirty, owner, tail, sys>>

-----------------------------------------------------------------------------
(* Transactions. *)

\* Mutant: nobody is woken.
Woken_none(pcs) == pcs

\* wakeup(&log)
Woken(pcs) == [q \in Procs |-> IF pcs[q] = "sleeping" THEN "begin" ELSE pcs[q]]

CallBeginOp(p) ==
  /\ Goto(p, "idle", "begin")
  /\ UNCHANGED <<disk, log, bufs, wrote, tail, sys>>

NoRoom == Len(lh) + (outstanding + 1) * MAXOPBLOCKS > LOGSIZE

\* Mutant: log.committing is not looked at.
begin_op_anytime(p) ==
  /\ ~ NoRoom
  /\ Goto(p, "begin", "op")
  /\ outstanding' = outstanding + 1
  /\ UNCHANGED <<disk, lh, committing, bufs, wrote, tail, sys>>

\* One turn of the loop of begin_op().
begin_op(p) ==
  /\ \/ /\ committing \/ NoRoom
        /\ Goto(p, "begin", "sleeping")
        /\ UNCHANGED outstanding
     \/ /\ ~ committing /\ ~ NoRoom
        /\ Goto(p, "begin", "op")
        /\ outstanding' = outstanding + 1
  /\ UNCHANGED <<disk, lh, committing, bufs, wrote, tail, sys>>

\* The tests at the head of log_write(), made without log.lock.
log_write_check(p) ==
  /\ sys = "run" /\ pc[p] = "modified"
  /\ IF Len(lh) >= LOGSIZE \/ Len(lh) >= nlog - 1 \/ outstanding < 1
       THEN sys' = "panic" /\ UNCHANGED pc
       ELSE Goto(p, "modified", "checked") /\ UNCHANGED sys
  /\ UNCHANGED <<disk, log, bufs, wrote, tail>>

\* The rest of log_write(), under log.lock: absorb or append, then pin.
log_write(p, b) ==
  /\ owner[b] = p
  /\ Goto(p, "checked", "logged")
  /\ lh' = IF b \in Logged THEN lh ELSE Append(lh, b)
  /\ dirty' = dirty \cup {b}
  /\ UNCHANGED <<disk, outstanding, committing, buf, owner, wrote, tail, sys>>

\* Mutant: only the end of a commit wakes the sleepers.
end_op_quiet(p) ==
  /\ sys = "run" /\ pc[p] = "op"
  /\ outstanding' = outstanding - 1
  /\ committing' = (outstanding' = 0)
  /\ pc' = [pc EXCEPT ![p] = IF outstanding' = 0 THEN "commit" ELSE "idle"]
  /\ wrote' = [wrote EXCEPT ![p] = {}]
  /\ sys' = IF committing THEN "panic" ELSE sys
  /\ UNCHANGED <<disk, lh, bufs, tail>>

\* end_op() up to its first release(&log.lock).
end_op(p) ==
  /\ sys = "run" /\ pc[p] = "op"
  /\ outstanding' = outstanding - 1
  /\ IF outstanding' = 0
       THEN committing' = TRUE /\ pc' = [pc EXCEPT ![p] = "commit"]
       ELSE UNCHANGED committing /\ pc' = Woken([pc EXCEPT ![p] = "idle"])
  /\ wrote' = [wrote EXCEPT ![p] = {}]
  /\ sys' = IF committing THEN "panic" ELSE sys
  /\ UNCHANGED <<disk, lh, bufs, tail>>

\* The end of end_op(), after commit().
end_commit(p) ==
  /\ sys = "run" /\ pc[p] = "done"
  /\ committing' = FALSE
  /\ pc' = Woken([pc EXCEPT ![p] = "idle"])
  /\ UNCHANGED <<disk, lh, outstanding, bufs, wrote, tail, sys>>

-----------------------------------------------------------------------------
(* commit(), one action for each block it writes. *)

\* Mutant: the header is written before the blocks it names.
commit_head_first(p) ==
  /\ Goto(p, "commit", IF Len(lh) > 0 THEN "write_head" ELSE "done")
  /\ tail' = 0
  /\ UNCHANGED <<disk, log, bufs, wrote, sys>>

\* Mutant: a transaction of one block is taken for an empty one.
commit_off_by_one(p) ==
  /\ Goto(p, "commit", IF Len(lh) > 1 THEN "write_log" ELSE "done")
  /\ tail' = 0
  /\ UNCHANGED <<disk, log, bufs, wrote, sys>>

commit(p) ==
  /\ Goto(p, "commit", IF Len(lh) > 0 THEN "write_log" ELSE "done")
  /\ tail' = 0
  /\ UNCHANGED <<disk, log, bufs, wrote, sys>>

\* One turn of write_log(): the cached block is read through bread(), so
\* its buffer must be free for a moment.
write_log(p) ==
  LET b == lh[tail + 1] IN
  /\ sys = "run" /\ pc[p] = "write_log"
  /\ owner[b] = NoProc
  /\ buf' = [buf EXCEPT ![b] = IF @ = NoData THEN home[b] ELSE @]
  /\ logblk' = [logblk EXCEPT ![tail + 1] = buf'[b]]
  /\ tail' = tail + 1
  /\ pc' = [pc EXCEPT ![p] = IF tail' = Len(lh) THEN "write_head" ELSE @]
  /\ UNCHANGED <<home, head, log, dirty, owner, wrote, sys>>

\* write_head() with the transaction in lh: the commit point.
write_head(p) ==
  /\ Goto(p, "write_head", "install")
  /\ head' = lh
  /\ tail' = 0
  /\ UNCHANGED <<home, logblk, log, bufs, wrote, sys>>

\* One turn of install_trans(); bwrite() clears B_DIRTY.
Install ==
  LET b == lh[tail + 1] IN
  /\ owner[b] = NoProc
  /\ home' = [home EXCEPT ![b] = logblk[tail + 1]]
  /\ buf' = [buf EXCEPT ![b] = logblk[tail + 1]]
  /\ dirty' = dirty \ {b}
  /\ tail' = tail + 1
  /\ UNCHANGED <<logblk, head, owner>>

install_trans(p) ==
  /\ sys = "run" /\ pc[p] = "install"
  /\ Install
  /\ pc' = [pc EXCEPT ![p] = IF tail' = Len(lh) THEN "erase" ELSE @]
  /\ UNCHANGED <<log, wrote, sys>>

\* log.lh.n = 0; write_head()
Erase ==
  /\ lh' = <<>>
  /\ head' = <<>>
  /\ tail' = 0
  /\ UNCHANGED <<home, logblk, outstanding, committing, bufs, wrote>>

erase(p) ==
  /\ Goto(p, "erase", "done")
  /\ Erase
  /\ UNCHANGED sys

-----------------------------------------------------------------------------
(* Crash and recovery. *)

\* Power fails: the disk keeps what was written, memory is lost.
Crash ==
  /\ sys' = "boot"
  /\ lh' = <<>> /\ outstanding' = 0 /\ committing' = FALSE
  /\ buf' = [b \in Blocks |-> NoData]
  /\ dirty' = {}
  /\ owner' = [b \in Blocks |-> NoProc]
  /\ pc' = [p \in Procs |-> "idle"]
  /\ wrote' = [p \in Procs |-> {}]
  /\ tail' = 0
  /\ UNCHANGED disk

\* initlog(), called from forkret() before any process makes a system call
initlog ==
  /\ sys = "boot"
  /\ sys' = "recover"
  /\ lh' = head
  /\ tail' = 0
  /\ UNCHANGED <<disk, outstanding, committing, bufs, pc, wrote>>

recover_install ==
  /\ sys = "recover" /\ tail < Len(lh)
  /\ Install
  /\ UNCHANGED <<log, pc, wrote, sys>>

recover_erase ==
  /\ sys = "recover" /\ tail = Len(lh)
  /\ Erase
  /\ sys' = "run"
  /\ UNCHANGED pc

-----------------------------------------------------------------------------
Step(p) ==
  \/ CallBeginOp(p) \/ begin_op(p) \/ end_op(p) \/ end_commit(p)
  \/ \E b \in Blocks :
       \/ bread(p, b) \/ breadOutside(p, b) \/ brelse(p, b) \/ log_write(p, b)
       \/ \E d \in Data : Modify(p, b, d)
  \/ log_write_check(p)
  \/ commit(p) \/ write_log(p) \/ write_head(p) \/ install_trans(p) \/ erase(p)

Next ==
  \/ \E p \in Procs : Step(p)
  \/ \E b \in Blocks : Recycle(b)
  \/ Crash
  \/ initlog \/ recover_install \/ recover_erase

Spec == Init /\ [][Next]_vars

\* What the code's scheduling justifies.  A process that can run does run, a
\* system call makes finitely many bread() calls before its end_op(), and
\* recovery is run by the first process.
Fairness ==
  /\ \A p \in Procs :
       /\ WF_vars(Step(p) /\ pc[p] # "idle")
       /\ SF_vars(end_op(p))
  /\ WF_vars(initlog \/ recover_install \/ recover_erase)

FairSpec == Spec /\ Fairness

-----------------------------------------------------------------------------
(* Properties. *)

\* Type invariant of the log, the cache and the disk.
TypeOK ==
  /\ home \in [Blocks -> Data]
  /\ logblk \in [1..LOGSIZE -> Data]
  /\ head \in Seq(Blocks) /\ lh \in Seq(Blocks)
  /\ outstanding \in Nat /\ committing \in BOOLEAN
  /\ buf \in [Blocks -> Data \cup {NoData}]
  /\ dirty \in SUBSET Blocks
  /\ owner \in [Blocks -> Procs \cup {NoProc}]
  /\ pc \in [Procs -> PCs]
  /\ wrote \in [Procs -> SUBSET Blocks]
  /\ tail \in Nat
  /\ sys \in {"boot", "recover", "run", "panic"}

\* log_write() pins: a block of the transaction that is not yet home again is
\* cached and dirty, so bget() cannot recycle it, and no other block is dirty
\* (bio.c:79-80).
Pinned ==
  sys = "run" =>
    LET installed == IF \E p \in Procs : pc[p] = "install" THEN {lh[i] : i \in 1..tail}
                     ELSE IF \E p \in Procs : pc[p] \in {"erase", "done"} THEN Logged
                     ELSE {}
    IN /\ dirty = Logged \ installed
       /\ \A b \in dirty : buf[b] # NoData

\* log.c:11-15, "only commits when there are no FS system calls active":
\* while log.committing is set no process is between begin_op() and end_op(),
\* one process runs commit(), and log.outstanding counts the running calls.
\* What the transaction has changed stays pinned until then (Pinned).
CommitAlone ==
  /\ TypeOK
  /\ outstanding = Cardinality({p \in Procs : pc[p] \in InOp})
  /\ committing <=> \E p \in Procs : pc[p] \in Commits
  /\ \A p, q \in Procs : pc[p] \in Commits /\ pc[q] \in Commits \cup InOp => p = q
  /\ Pinned

Overlay(h) == [b \in Blocks |-> IF \E i \in 1..Len(h) : h[i] = b
                                  THEN logblk[CHOOSE i \in 1..Len(h) : h[i] = b]
                                  ELSE home[b]]
Durable == Overlay(head)
View    == [b \in Blocks |-> IF buf[b] # NoData THEN buf[b] ELSE home[b]]

\* The disk and the cache as the transactional disk of TxnDisk.
Txn == INSTANCE TxnDisk WITH mem    <- IF sys \in {"boot", "recover"} THEN Durable ELSE View,
                             dur    <- Durable,
                             active <- {p \in Procs : pc[p] \in InOp}

\* Crash atomicity: whatever the interleaving and the moment of a crash, a
\* second crash in recovery included, the log implements a disk that changes
\* by whole operations only (commit(), recover_from_log()).
ImplementsTxnDisk == Txn!Spec

\* When end_op() that committed returns (log.committing drops), every change
\* made so far would survive a crash.
DurableAtReturn ==
  [][committing /\ ~ committing' /\ sys' = "run" => Durable' = View']_vars

\* A begin_op() that went to sleep on &log is woken again: by the wakeup of
\* log.c:159-161 when other calls go on overlapping and no commit ever comes,
\* by the one of log.c:170 otherwise.
SleeperWakes ==
  \A p \in Procs : pc[p] = "sleeping" ~> pc[p] # "sleeping"
=============================================================================
