--------------------------- MODULE LogRefinement ---------------------------
(***************************************************************************)
(* The steps of commit(), of a crash and of recovery keep the invariant of *)
(* LogProofs, which therefore holds in every reachable state; and from it  *)
(* the write-ahead log of log.c implements the transactional disk of       *)
(* TxnDisk.  Only write_head() changes what a crash would leave, and it    *)
(* does so for all blocks at once; installing and recovering write what    *)
(* the header already promises.                                            *)
(***************************************************************************)
EXTENDS LogProofs


\* A step of commit() from one of its points to another.
LEMMA CommitStep ==
  ASSUME IInv, TypeOK', NEW p \in Procs, NEW to \in Commits,
         pc[p] \in Commits, pc' = [pc EXCEPT ![p] = to],
         UNCHANGED <<outstanding, committing, owner, wrote>>,
         \A b \in Blocks : buf[b] # NoData => buf'[b] # NoData
  PROVE  /\ Alone' /\ Holders'
         /\ \A q \in Procs : q # p => pc[q] \notin Commits /\ pc'[q] = pc[q]
         /\ pc'[p] = to /\ \A S \in SUBSET Commits : At(S)' <=> to \in S
         /\ \A q \in Procs : pc'[q] \notin InOp
         /\ \A b \in Blocks : ~ Unlogged(b) /\ ~ Unlogged(b)'
         /\ committing
  <1>1. \A q \in Procs : pc[q] \notin InOp /\ (q # p => pc[q] \notin Commits)
    BY Zenon DEF Alone, InOp, Commits, IInv
  <1>2. pc'[p] = to /\ \A q \in Procs : q # p => pc[q] \notin Commits /\ pc'[q] = pc[q]
    BY <1>1, Zenon DEF TypeOK
  <1>3. \A q \in Procs : pc'[q] \notin InOp
    BY <1>1 DEF InOp, Commits
  <1>4. \A S \in SUBSET Commits : At(S)' <=> to \in S
    BY <1>2 DEF At
  <1>5. committing /\ At(Commits)'
    BY DEF Alone, At, IInv
  <1>6. Alone'
    BY <1>1, <1>3, <1>5, CountKept DEF Alone
  <1>7. Holders'
    BY DEF Holders, Commits, InOp, IInv
  <1>8. \A b \in Blocks : ~ Unlogged(b) /\ ~ Unlogged(b)'
    BY <1>1, <1>3, Zenon DEF Unlogged, InOp
  <1> QED
    BY <1>2, <1>3, <1>4, <1>5, <1>6, <1>7, <1>8, Zenon

\* The blocks in lh fit in the log.
LEMMA LogFits ==
  ASSUME IInv
  PROVE  lh \in Seq(Blocks) /\ Len(lh) \in Nat /\ Len(lh) <= LOGSIZE /\ tail \in Nat
  BY CreditFinite, LogAssumption DEF IInv, Fits, TypeOK

\* When no call is running no room is set aside.
LEMMA FitsIdle ==
  ASSUME \A q \in Procs : pc'[q] \notin InOp,
         lh' \in Seq(Blocks), Distinct(lh'), Distinct(head'),
         Len(lh') <= LOGSIZE, Len(head') <= LOGSIZE
  PROVE  Fits'
  <1>1. Credit' = {}
    BY Zenon DEF Credit
  <1>2. Cardinality(Credit') = 0
    BY <1>1, FS_EmptySet
  <1>3. Len(lh') \in Nat
    OBVIOUS
  <1> QED
    BY <1>2 DEF Fits

\* commit() begins, or has nothing to do.
LEMMA Keeps_commit ==
  ASSUME IInv, NEW p \in Procs, commit(p)
  PROVE  IInv'
  <1> DEFINE to == IF Len(lh) > 0 THEN "write_log" ELSE "done"
  <1>0. /\ pc[p] = "commit" /\ pc' = [pc EXCEPT ![p] = to] /\ to \in Commits /\ sys = "run"
        /\ pc[p] \in Commits
    BY Zenon DEF commit, Goto, Commits
  <1>1. TypeOK'
    BY <1>0, Zenon DEF TypeOK, PCs, commit, IInv, disk, log, bufs
  <1> HIDE DEF to
  <1>2. /\ Alone' /\ Holders' /\ pc'[p] = to
        /\ \A S \in SUBSET Commits : At(S)' <=> to \in S
        /\ \A q \in Procs : pc'[q] \notin InOp
        /\ \A q \in Procs : q # p => pc[q] \notin Commits /\ pc'[q] = pc[q]
        /\ \A b \in Blocks : ~ Unlogged(b) /\ ~ Unlogged(b)'
    BY <1>0, <1>1, CommitStep, Zenon DEF commit, log, bufs
  <1>3. Fits'
    BY <1>1, <1>2, FitsKept, Zenon DEF commit, disk, log
  <1>4. CleanSame'
    BY <1>2, Zenon DEF CleanSame, commit, IInv, disk, bufs
  <1>5. \A S \in SUBSET Commits : At(S) <=> "commit" \in S
    BY <1>0, <1>2 DEF At
  <1>6. Len(lh) = 0 => lh = <<>> /\ Logged = {}
    BY DEF Logged
  <1>7. Logged' = Logged /\ Installed = {} /\ (to = "write_log" => Installed' = {})
    BY <1>2, <1>5 DEF Logged, Installed, Commits, commit, log
  <1>8. Pins'
    BY <1>6, <1>7 DEF Pins, commit, to, IInv, bufs
  <1>9. Phases'
    BY <1>0, <1>2, <1>5 DEF Phases, Commits, commit, to, IInv, disk, log
  <1> QED
    BY <1>1, <1>2, <1>3, <1>4, <1>8, <1>9 DEF IInv

\* write_log() copies a block of the cache to the log.
LEMMA Keeps_write_log ==
  ASSUME IInv, NEW p \in Procs, write_log(p)
  PROVE  IInv'
  <1> DEFINE to == IF tail + 1 = Len(lh) THEN "write_head" ELSE "write_log"
             b  == lh[tail + 1]
  <1>0. /\ pc[p] = "write_log" /\ pc' = [pc EXCEPT ![p] = to] /\ to \in Commits /\ sys = "run"
        /\ pc[p] \in Commits
    BY Zenon DEF write_log, Commits
  <1>1. /\ At({"write_log"}) /\ At({"write_log", "write_head"})
        /\ tail < Len(lh) /\ \A i \in 1..tail : logblk[i] = buf[lh[i]]
    BY <1>0, Zenon DEF At, Phases, IInv
  <1>2. tail + 1 \in 1..Len(lh) /\ tail + 1 \in 1..LOGSIZE /\ b \in Blocks
    BY <1>1, LogFits, LogAssumption
  <1>3. Installed = {} /\ b \in dirty /\ buf[b] # NoData
    BY <1>1, <1>2, InstalledSoFar, LoggedIsPinned, Zenon
  <1>4. UNCHANGED buf /\ logblk' = [logblk EXCEPT ![tail + 1] = buf[b]] /\ buf[b] \in Data
    BY <1>3, Zenon DEF write_log, TypeOK, IInv
  <1>5. TypeOK'
    BY <1>0, <1>2 DEF TypeOK, PCs, write_log, IInv, log
  <1> HIDE DEF to
  <1>6. /\ Alone' /\ Holders' /\ pc'[p] = to
        /\ \A S \in SUBSET Commits : At(S)' <=> to \in S
        /\ \A q \in Procs : pc'[q] \notin InOp
        /\ \A q \in Procs : q # p => pc[q] \notin Commits /\ pc'[q] = pc[q]
        /\ \A c \in Blocks : ~ Unlogged(c) /\ ~ Unlogged(c)'
    BY <1>0, <1>4, <1>5, CommitStep, Zenon DEF write_log, log
  <1>7. Fits'
    BY <1>5, <1>6, FitsKept, Zenon DEF write_log, log
  <1>8. CleanSame'
    BY <1>6 DEF CleanSame, write_log, IInv
  <1>9. to \in {"write_head", "write_log"} /\ Logged' = Logged /\ Installed' = {}
    BY <1>6 DEF Logged, Installed, Commits, write_log, log
  <1>10. Pins'
    BY <1>3, <1>9 DEF Pins, write_log, IInv
  <1>11. \A i \in 1..(tail + 1) : logblk'[i] = buf[lh[i]]
    BY <1>1, <1>2, <1>4 DEF TypeOK, IInv
  <1>12. \A S \in SUBSET Commits : At(S) <=> "write_log" \in S
    BY <1>0, <1>6 DEF At
  <1>13. Phases'
    <2>1. UNCHANGED <<lh, head, buf, sys, home, dirty, owner>> /\ tail' = tail + 1
      BY <1>4, Zenon DEF write_log, log
    <2>2. head = <<>>
      BY <1>0, <1>12 DEF Phases, Commits, IInv
    <2>3. to = "write_head" => tail + 1 = Len(lh) /\ Len(lh) > 0
      BY LogFits DEF to
    <2>4. to = "write_log" => tail + 1 < Len(lh)
      BY <1>1, LogFits DEF to
    <2>5. /\ ~ At({"install"})' /\ ~ At({"erase"})' /\ ~ At({"done"})'
          /\ At({"write_log"})' <=> to = "write_log"
          /\ At({"write_head"})' <=> to = "write_head"
      BY <1>6, <1>9 DEF Commits
    <2> QED
      BY <1>0, <1>11, <2>1, <2>2, <2>3, <2>4, <2>5, Zenon DEF Phases
  <1> QED
    BY <1>5, <1>6, <1>7, <1>8, <1>10, <1>13 DEF IInv

\* write_head() commits.
LEMMA Keeps_write_head ==
  ASSUME IInv, NEW p \in Procs, write_head(p)
  PROVE  IInv'
  <1>0. /\ pc[p] = "write_head" /\ pc' = [pc EXCEPT ![p] = "install"] /\ sys = "run"
        /\ pc[p] \in Commits /\ "install" \in Commits
    BY DEF write_head, Goto, Commits
  <1>1. At({"write_head"}) /\ At({"write_log", "write_head"})
    BY <1>0 DEF At
  <1>2. TypeOK'
    BY <1>0, Zenon DEF TypeOK, PCs, write_head, IInv, log, bufs
  <1>3. /\ Alone' /\ Holders' /\ pc'[p] = "install"
        /\ \A S \in SUBSET Commits : At(S)' <=> "install" \in S
        /\ \A q \in Procs : pc'[q] \notin InOp
        /\ \A q \in Procs : q # p => pc[q] \notin Commits /\ pc'[q] = pc[q]
        /\ \A c \in Blocks : ~ Unlogged(c) /\ ~ Unlogged(c)'
    BY <1>0, <1>2, CommitStep, Zenon DEF write_head, log, bufs
  <1>4. Fits'
    BY <1>3, FitsIdle, LogFits, Zenon DEF Fits, write_head, IInv, log
  <1>5. CleanSame'
    BY <1>3, Zenon DEF CleanSame, write_head, IInv, bufs
  <1>6. Pins'
    <2>1. Installed = {}
      BY <1>1, InstalledSoFar
    <2>2. Installed' = {} /\ Logged' = Logged
      BY <1>3 DEF Installed, Logged, Commits, write_head, log
    <2> QED
      BY <2>1, <2>2 DEF Pins, write_head, IInv, bufs
  <1>7. Phases'
    BY <1>0, <1>1, <1>3 DEF Phases, Commits, write_head, IInv, log, bufs
  <1> QED
    BY <1>2, <1>3, <1>4, <1>5, <1>6, <1>7 DEF IInv

\* install_trans() brings a block home; its buffer holds the same data.
LEMMA Keeps_install_trans ==
  ASSUME IInv, NEW p \in Procs, install_trans(p)
  PROVE  IInv'
  <1> DEFINE to == IF tail + 1 = Len(lh) THEN "erase" ELSE "install"
             b  == lh[tail + 1]
  <1>0. /\ pc[p] = "install" /\ pc' = [pc EXCEPT ![p] = to] /\ to \in Commits /\ sys = "run"
        /\ pc[p] \in Commits
    BY Zenon DEF install_trans, Install, Commits
  <1>1. /\ At({"install"}) /\ head = lh /\ tail < Len(lh)
        /\ \A i \in 1..tail : home[lh[i]] = logblk[i]
        /\ \A i \in (tail + 1)..Len(lh) : logblk[i] = buf[lh[i]]
    BY <1>0, Zenon DEF At, Phases, IInv
  <1>2. tail + 1 \in 1..Len(lh) /\ tail + 1 \in 1..LOGSIZE /\ b \in Blocks
    BY <1>1, LogFits, LogAssumption
  <1>3. logblk[tail + 1] = buf[b] /\ logblk[tail + 1] \in Data
    BY <1>1, <1>2 DEF TypeOK, IInv
  <1>4. /\ UNCHANGED <<buf, lh, head, logblk, owner, outstanding, committing, wrote, sys>>
        /\ home' = [home EXCEPT ![b] = buf[b]]
        /\ dirty' = dirty \ {b} /\ tail' = tail + 1
    BY <1>3, Zenon DEF install_trans, Install, TypeOK, log, IInv
  <1>5. TypeOK'
    BY <1>0, <1>2, <1>3, <1>4 DEF TypeOK, PCs, IInv
  <1> HIDE DEF to
  <1>6. /\ Alone' /\ Holders' /\ pc'[p] = to
        /\ \A S \in SUBSET Commits : At(S)' <=> to \in S
        /\ \A q \in Procs : pc'[q] \notin InOp
        /\ \A q \in Procs : q # p => pc[q] \notin Commits /\ pc'[q] = pc[q]
        /\ \A c \in Blocks : ~ Unlogged(c) /\ ~ Unlogged(c)'
    BY <1>0, <1>4, <1>5, CommitStep, Zenon
  <1>7. Fits'
    BY <1>4, <1>5, <1>6, FitsKept, Zenon
  <1>8. CleanSame'
    BY <1>4, <1>6, Zenon DEF CleanSame, TypeOK, IInv
  <1>9. /\ to \in {"install", "erase"}
        /\ to = "erase" => tail + 1 = Len(lh)
        /\ to = "install" => tail + 1 < Len(lh)
    BY <1>1, LogFits DEF to
  <1>10. /\ At({"install"})' <=> to = "install"
         /\ At({"erase"})' <=> to = "erase"
         /\ At({"erase", "done"})' <=> to = "erase"
         /\ ~ At({"write_log"})' /\ ~ At({"write_head"})' /\ ~ At({"done"})'
    BY <1>6, <1>9 DEF Commits
  <1>11. Installed = {lh[i] : i \in 1..tail} /\ Logged' = Logged
    BY <1>1, <1>4, Zenon DEF Installed, Logged
  <1>12. Installed' = {lh[i] : i \in 1..(tail + 1)}
    BY <1>4, <1>9, <1>10, Zenon DEF Installed, Logged
  <1>13. Installed' = Installed \cup {b}
    BY <1>11, <1>12, LogFits
  <1>14. Pins'
    BY <1>4, <1>11, <1>13, Zenon DEF Pins, IInv
  <1>15. \A i \in 1..(tail + 1) : home'[lh[i]] = logblk[i]
    BY <1>1, <1>4 DEF TypeOK, Fits, Distinct, IInv
  <1>16. Phases'
    <2>1. \A i \in (tail + 2)..Len(lh) : logblk[i] = buf[lh[i]]
      BY <1>1, LogFits
    <2>2. to = "install" => /\ tail' < Len(lh) /\ \A i \in 1..tail' : home'[lh[i]] = logblk[i]
                            /\ \A i \in (tail' + 1)..Len(lh) : logblk[i] = buf[lh[i]]
      BY <1>4, <1>9, <1>15, <2>1, LogFits
    <2>3. to = "erase" => \A i \in 1..Len(lh) : home'[lh[i]] = logblk[i]
      BY <1>9, <1>15
    <2>4. At({"install", "erase"})'
      BY <1>6, <1>9 DEF Commits
    <2> QED
      BY <1>0, <1>1, <1>4, <1>10, <2>2, <2>3, <2>4, Zenon DEF Phases
  <1> QED
    BY <1>5, <1>6, <1>7, <1>8, <1>14, <1>16 DEF IInv

\* The header is cleared once every block is home.
LEMMA Keeps_erase ==
  ASSUME IInv, NEW p \in Procs, erase(p)
  PROVE  IInv'
  <1>0. /\ pc[p] = "erase" /\ pc' = [pc EXCEPT ![p] = "done"] /\ sys = "run"
        /\ pc[p] \in Commits /\ "done" \in Commits
    BY DEF erase, Goto, Commits
  <1>1. /\ lh' = <<>> /\ head' = <<>> /\ tail' = 0
        /\ UNCHANGED <<home, logblk, outstanding, committing, buf, dirty, owner, wrote, sys>>
    BY DEF erase, Erase, bufs
  <1>2. TypeOK'
    BY <1>0, <1>1 DEF TypeOK, PCs, IInv
  <1>3. /\ Alone' /\ Holders' /\ pc'[p] = "done"
        /\ \A S \in SUBSET Commits : At(S)' <=> "done" \in S
        /\ \A q \in Procs : pc'[q] \notin InOp
        /\ \A q \in Procs : q # p => pc[q] \notin Commits /\ pc'[q] = pc[q]
        /\ \A c \in Blocks : ~ Unlogged(c) /\ ~ Unlogged(c)'
    BY <1>0, <1>1, <1>2, CommitStep, Zenon
  <1>4. Fits'
    BY <1>1, <1>3, FitsIdle, LogAssumption DEF Distinct
  <1>5. CleanSame'
    BY <1>1, <1>3, Zenon DEF CleanSame, IInv
  <1>6. At({"erase", "done"}) /\ ~ At({"install"})
    BY <1>0, <1>3, Zenon DEF At, Commits
  <1>7. dirty = {} /\ Logged' = {}
    BY <1>0, <1>1, <1>6 DEF Pins, Installed, Logged, IInv
  <1>8. Pins'
    BY <1>1, <1>7 DEF Pins
  <1>9. Phases'
    BY <1>0, <1>1, <1>3 DEF Phases, Commits
  <1> QED
    BY <1>2, <1>3, <1>4, <1>5, <1>8, <1>9 DEF IInv

\* A crash forgets everything but the disk.
LEMMA Keeps_Crash ==
  ASSUME IInv, Crash
  PROVE  IInv'
  <1>1. TypeOK'
    <2>1. /\ home' \in [Blocks -> Data] /\ logblk' \in [1..LOGSIZE -> Data]
          /\ head' \in Seq(Blocks) /\ lh' \in Seq(Blocks)
      BY DEF TypeOK, IInv, Crash, disk
    <2>2. /\ buf' \in [Blocks -> Data \cup {NoData}]
          /\ owner' \in [Blocks -> Procs \cup {NoProc}]
          /\ dirty' \in SUBSET Blocks
      BY DEF Crash
    <2>3. /\ pc' \in [Procs -> PCs] /\ wrote' \in [Procs -> SUBSET Blocks]
      BY DEF PCs, Crash
    <2> QED
      BY <2>1, <2>3, Zenon DEF TypeOK, Crash
  <1>2. \A S : "idle" \notin S => ~ At(S)'
    BY DEF At, Crash
  <1>3. \A q \in Procs : pc'[q] \notin InOp \cup Commits
    BY DEF InOp, Commits, Crash
  <1>4. Alone'
    <2>1. Active' = {}
      BY <1>3 DEF Active
    <2>2. Cardinality(Active') = 0
      BY <2>1, FS_EmptySet
    <2> QED
      BY <2>2, <1>2 DEF Alone, Commits, Crash
  <1>5. Fits'
    BY <1>3, FitsIdle, LogAssumption DEF Fits, Distinct, IInv, Crash, disk
  <1>6. Holders'
    BY FS_EmptySet, LogAssumption DEF Holders, Crash
  <1>7. CleanSame' /\ Pins'
    BY DEF CleanSame, Pins, Crash
  <1>8. Phases'
    BY <1>2, Zenon DEF Phases, Crash
  <1> QED
    BY <1>1, <1>4, <1>5, <1>6, <1>7, <1>8 DEF IInv

\* Before the file system runs nobody is in a call and nothing is dirty.
LEMMA Booting ==
  ASSUME IInv, sys \in {"boot", "recover"}, UNCHANGED <<pc, owner, outstanding, committing, wrote>>
  PROVE  /\ \A q \in Procs : pc[q] = "idle" /\ pc'[q] \notin InOp \cup Commits
         /\ dirty = {} /\ \A b \in Blocks : owner[b] = NoProc /\ ~ Unlogged(b) /\ ~ Unlogged(b)'
         /\ \A S : "idle" \notin S => ~ At(S) /\ ~ At(S)'
         /\ Alone' /\ Holders'
  <1>1. /\ \A q \in Procs : pc[q] = "idle"
        /\ dirty = {} /\ \A b \in Blocks : owner[b] = NoProc
    BY Zenon DEF Phases, IInv
  <1>2. \A q \in Procs : pc'[q] \notin InOp \cup Commits
    BY <1>1 DEF InOp, Commits
  <1>3. \A S : "idle" \notin S => ~ At(S) /\ ~ At(S)'
    BY <1>1 DEF At
  <1>4. Active' = Active
    BY DEF Active
  <1>5. Alone'
    BY <1>4 DEF Alone, At, IInv
  <1>6. Holders'
    BY <1>1, Zenon DEF Holders, IInv
  <1> QED
    BY <1>1, <1>2, <1>3, <1>5, <1>6, Zenon DEF Unlogged

\* initlog() reads the header.
LEMMA Keeps_initlog ==
  ASSUME IInv, initlog
  PROVE  IInv'
  <1>1. TypeOK'
    BY Zenon DEF TypeOK, IInv, initlog, disk, bufs
  <1>2. /\ Alone' /\ Holders' /\ dirty = {} /\ \A b \in Blocks : owner[b] = NoProc
        /\ \A q \in Procs : pc[q] = "idle" /\ pc'[q] \notin InOp
        /\ \A S : "idle" \notin S => ~ At(S)'
        /\ \A b \in Blocks : ~ Unlogged(b)
    BY Booting, Zenon DEF initlog, bufs
  <1>3. Fits'
    BY <1>2, FitsIdle, Zenon DEF Fits, TypeOK, IInv, initlog, disk
  <1>4. CleanSame' /\ Pins'
    BY <1>2, Zenon DEF CleanSame, Pins, IInv, initlog, disk, bufs
  <1>5. Len(head) \in Nat /\ Len(lh') = Len(head)
    BY DEF initlog
  <1>6. Phases'
    BY <1>2 DEF Phases, initlog, disk, bufs
  <1> QED
    BY <1>1, <1>2, <1>3, <1>4, <1>6 DEF IInv

\* recover_from_log() installs what the header on the disk names.
LEMMA Keeps_recover_install ==
  ASSUME IInv, recover_install
  PROVE  IInv'
  <1> DEFINE b == lh[tail + 1]
  <1>0. /\ sys = "recover" /\ tail < Len(lh) /\ lh = head
        /\ \A i \in 1..tail : home[lh[i]] = logblk[i]
    BY Zenon DEF recover_install, Phases, IInv
  <1>1. tail + 1 \in 1..Len(lh) /\ tail + 1 \in 1..LOGSIZE /\ b \in Blocks
    BY <1>0, LogFits, LogAssumption
  <1>2. logblk[tail + 1] \in Data
    BY <1>1, LogAssumption, Zenon DEF TypeOK, IInv
  <1>3. /\ UNCHANGED <<lh, head, logblk, owner, outstanding, committing, wrote, sys, pc>>
        /\ home' = [home EXCEPT ![b] = logblk[tail + 1]]
        /\ buf' = [buf EXCEPT ![b] = logblk[tail + 1]]
        /\ dirty' = dirty \ {b} /\ tail' = tail + 1
    BY Zenon DEF recover_install, Install, log
  <1>4. TypeOK'
    BY <1>1, <1>2, <1>3 DEF TypeOK, IInv
  <1>5. /\ Alone' /\ Holders' /\ dirty = {} /\ \A c \in Blocks : owner[c] = NoProc
        /\ \A q \in Procs : pc[q] = "idle" /\ pc'[q] \notin InOp
        /\ \A S : "idle" \notin S => ~ At(S)'
        /\ \A c \in Blocks : ~ Unlogged(c) /\ ~ Unlogged(c)'
    BY <1>0, <1>3, Booting, Zenon
  <1>6. Fits'
    BY <1>3, <1>4, FitsKept, Zenon
  <1>7. CleanSame'
    BY <1>3, <1>5, Zenon DEF CleanSame, TypeOK, IInv
  <1>8. Pins'
    BY <1>0, <1>3, Zenon DEF Pins
  <1>9. \A i \in 1..(tail + 1) : home'[lh[i]] = logblk[i]
    <2>1. home'[b] = logblk[tail + 1]
      BY <1>1, <1>3, Zenon DEF TypeOK, IInv
    <2>2. ASSUME NEW i \in 1..tail PROVE home'[lh[i]] = logblk[i]
      <3>1. i \in 1..Len(lh) /\ i # tail + 1
        BY <1>0, LogFits
      <3>2. lh[i] # b /\ lh[i] \in Blocks
        BY <1>1, LogFits DEF Fits, Distinct, IInv
      <3> QED
        BY <1>0, <1>3, <3>2
    <2> QED
      BY <2>1, <2>2, LogFits
  <1>10. Phases'
    <2>1. tail' <= Len(lh)
      BY <1>0, <1>3, LogFits
    <2> QED
      BY <1>0, <1>3, <1>5, <1>9, <2>1, Zenon DEF Phases
  <1> QED
    BY <1>4, <1>5, <1>6, <1>7, <1>8, <1>10 DEF IInv

\* The end of recover_from_log(): nothing is left to install.
LEMMA Keeps_recover_erase ==
  ASSUME IInv, recover_erase
  PROVE  IInv'
  <1>0. sys = "recover" /\ sys' = "run"
    BY DEF recover_erase
  <1>1. /\ lh' = <<>> /\ head' = <<>> /\ tail' = 0
        /\ UNCHANGED <<home, logblk, outstanding, committing, buf, dirty, owner, wrote, pc>>
    BY DEF recover_erase, Erase, bufs
  <1>2. TypeOK'
    BY <1>0, <1>1 DEF TypeOK, IInv
  <1>3. /\ Alone' /\ Holders' /\ dirty = {} /\ \A b \in Blocks : owner[b] = NoProc
        /\ \A q \in Procs : pc[q] = "idle" /\ pc'[q] \notin InOp
        /\ \A S : "idle" \notin S => ~ At(S)'
        /\ \A b \in Blocks : ~ Unlogged(b) /\ ~ Unlogged(b)'
    BY <1>0, <1>1, Booting, Zenon
  <1>4. Fits'
    BY <1>1, <1>3, FitsIdle, LogAssumption DEF Distinct
  <1>5. CleanSame'
    BY <1>1, <1>3, Zenon DEF CleanSame, IInv
  <1>6. Logged' = {}
    BY <1>1 DEF Logged
  <1>7. Pins'
    BY <1>1, <1>3, <1>6 DEF Pins
  <1>8. Phases'
    BY <1>1, <1>3 DEF Phases
  <1> QED
    BY <1>2, <1>3, <1>4, <1>5, <1>7, <1>8 DEF IInv

\* The machine boots with an empty header.
LEMMA InitOK == Init => IInv
  <1> SUFFICES ASSUME Init PROVE IInv
    OBVIOUS
  <1>1. TypeOK
    <2>1. /\ home \in [Blocks -> Data] /\ logblk \in [1..LOGSIZE -> Data]
          /\ head \in Seq(Blocks) /\ lh \in Seq(Blocks)
      BY DEF Init
    <2>2. /\ buf \in [Blocks -> Data \cup {NoData}]
          /\ owner \in [Blocks -> Procs \cup {NoProc}]
          /\ dirty \in SUBSET Blocks
      BY DEF Init
    <2>3. /\ pc \in [Procs -> PCs] /\ wrote \in [Procs -> SUBSET Blocks]
      BY DEF PCs, Init
    <2> QED
      BY <2>1, <2>3, Zenon DEF TypeOK, Init
  <1>2. \A S : "idle" \notin S => ~ At(S)
    BY DEF At, Init
  <1>3. \A q \in Procs : pc[q] \notin InOp \cup Commits
    BY DEF InOp, Commits, Init
  <1>4. Active = {} /\ Credit = {}
    BY <1>3 DEF Active, Credit
  <1>5. Cardinality(Active) = 0 /\ Cardinality(Credit) = 0
    BY <1>4, FS_EmptySet
  <1>6. Alone /\ Fits
    BY <1>2, <1>5, LogAssumption DEF Alone, Fits, Distinct, Commits, Init
  <1>7. Holders
    BY FS_EmptySet, LogAssumption DEF Holders, Init
  <1>8. CleanSame /\ Pins /\ Phases
    BY <1>2, Zenon DEF CleanSame, Pins, Phases, Init
  <1> QED
    BY <1>1, <1>6, <1>7, <1>8 DEF IInv

\* Every step keeps IInv.
LEMMA NextOK == IInv /\ [Next]_vars => IInv'
  <1> SUFFICES ASSUME IInv, [Next]_vars PROVE IInv'
    OBVIOUS
  <1>1. ASSUME NEW p \in Procs, Step(p) PROVE IInv'
    BY <1>1, Keeps_CallBeginOp, Keeps_begin_op, Keeps_end_op, Keeps_end_commit, Keeps_bread,
       Keeps_breadOutside, Keeps_brelse, Keeps_log_write, Keeps_Modify, Keeps_log_write_check,
       Keeps_commit, Keeps_write_log, Keeps_write_head, Keeps_install_trans, Keeps_erase, Zenon
       DEF Step
  <1>2. ASSUME NEW b \in Blocks, Recycle(b) PROVE IInv'
    BY <1>2, Keeps_Recycle
  <1>3. ASSUME UNCHANGED vars PROVE IInv'
    <2>1. UNCHANGED <<home, logblk, head, lh, outstanding, committing, buf, dirty, owner, pc, wrote, tail, sys>>
      BY <1>3 DEF vars, disk, log, bufs
    <2>2. Logged' = Logged /\ Active' = Active /\ \A S : At(S)' <=> At(S)
      BY <2>1 DEF Logged, Active, At
    <2>3. Credit' = Credit /\ Installed' = Installed /\ \A b : Unlogged(b)' <=> Unlogged(b)
      BY <2>1, <2>2, Zenon DEF Credit, Installed, Unlogged
    <2>4. TypeOK' /\ Fits' /\ Alone'
      BY <2>1, <2>2, <2>3, Zenon DEF IInv, TypeOK, Fits, Alone
    <2>5. Holders' /\ Pins' /\ CleanSame'
      BY <2>1, <2>2, <2>3 DEF IInv, Holders, Pins, CleanSame
    <2>6. Phases'
      BY <2>1, <2>2, Zenon DEF IInv, Phases
    <2> QED
      BY <2>4, <2>5, <2>6 DEF IInv
  <1> QED
    BY <1>1, <1>2, <1>3, Keeps_Crash, Keeps_initlog, Keeps_recover_install, Keeps_recover_erase
       DEF Next

\* IInv is an inductive invariant of the logging layer: it holds in every
\* reachable state, for any number of processes, blocks and log sizes.
THEOREM Invariance == Spec => []IInv
  <1>1. Init => IInv
    BY InitOK
  <1>2. IInv /\ [Next]_vars => IInv'
    BY NextOK
  <1> QED
    BY <1>1, <1>2, PTL DEF Spec

\* end_op() commits alone: no call is between begin_op() and end_op() while
\* log.committing is set, one process runs commit(), log.outstanding is the
\* number of running calls, and what the transaction changed is pinned.
THEOREM CommitsAlone == Spec => []CommitAlone
  <1>1. IInv => CommitAlone
    <2> SUFFICES ASSUME IInv PROVE CommitAlone
      OBVIOUS
    <2>1. Pinned
      BY Zenon DEF IInv, Pins, Pinned, Installed, At
    <2> QED
      BY <2>1 DEF IInv, Alone, CommitAlone, Active, At
  <1> QED
    BY <1>1, Invariance, PTL

-----------------------------------------------------------------------------
(* The refinement.                                                           *)


\* The home blocks H with the log blocks L of the header h over them
Over(H, L, h) == [b \in Blocks |-> IF \E i \in 1..Len(h) : h[i] = b
                                     THEN L[CHOOSE i \in 1..Len(h) : h[i] = b]
                                     ELSE H[b]]

\* A disk on which each block has at most one place in the log
Journal(H, L, h) ==
  /\ H \in [Blocks -> Data] /\ L \in [1..LOGSIZE -> Data] /\ h \in Seq(Blocks)
  /\ Distinct(h) /\ Len(h) <= LOGSIZE

\* The blocks that the header does not name are the same in F and in H.
Beside(F, H, h) ==
  /\ F \in [Blocks -> Data]
  /\ \A b \in Blocks : (\A i \in 1..Len(h) : h[i] # b) => F[b] = H[b]

\* What recovery would make of the disk, block by block.
LEMMA OverValue ==
  ASSUME NEW H, NEW L, NEW h, Journal(H, L, h)
  PROVE  /\ Over(H, L, h) \in [Blocks -> Data]
         /\ \A i \in 1..Len(h) : h[i] \in Blocks /\ Over(H, L, h)[h[i]] = L[i]
         /\ \A b \in Blocks : (\A i \in 1..Len(h) : h[i] # b) => Over(H, L, h)[b] = H[b]
  <1>1. \A i \in 1..Len(h) : h[i] \in Blocks /\ i \in 1..LOGSIZE /\ L[i] \in Data
    BY LogAssumption DEF Journal
  <1>2. ASSUME NEW i \in 1..Len(h)
        PROVE  Over(H, L, h)[h[i]] = L[i]
    <2>1. (CHOOSE j \in 1..Len(h) : h[j] = h[i]) = i
      BY DEF Journal, Distinct
    <2> QED
      BY <1>1, <2>1, Zenon DEF Over
  <1>3. ASSUME NEW b \in Blocks, \A i \in 1..Len(h) : h[i] # b
        PROVE  Over(H, L, h)[b] = H[b]
    BY <1>3 DEF Over
  <1>4. ASSUME NEW b \in Blocks PROVE Over(H, L, h)[b] \in Data
    <2>1. CASE \E i \in 1..Len(h) : h[i] = b
      BY <2>1, <1>1, <1>2
    <2>2. CASE \A i \in 1..Len(h) : h[i] # b
      BY <2>2, <1>3 DEF Journal
    <2> QED
      BY <2>1, <2>2
  <1> QED
    BY <1>1, <1>2, <1>3, <1>4, Zenon DEF Over

\* What recovery makes of a disk.
LEMMA SameOver ==
  ASSUME NEW H, NEW L, NEW h, Journal(H, L, h), NEW F, Beside(F, H, h),
         \A i \in 1..Len(h) : F[h[i]] = L[i]
  PROVE  Over(H, L, h) = F
  <1>1. ASSUME NEW b \in Blocks PROVE Over(H, L, h)[b] = F[b]
    <2>1. ASSUME NEW i \in 1..Len(h), h[i] = b PROVE Over(H, L, h)[b] = F[b]
      <3>1. Over(H, L, h)[h[i]] = L[i]
        BY OverValue
      <3> QED
        BY <2>1, <3>1
    <2>2. CASE \A i \in 1..Len(h) : h[i] # b
      BY <2>2, OverValue DEF Beside
    <2> QED
      BY <2>1, <2>2, Zenon
  <1>2. Over(H, L, h) \in [Blocks -> Data] /\ F \in [Blocks -> Data]
    BY OverValue, Zenon DEF Beside
  <1> QED
    BY <1>1, <1>2

\* What the home blocks that the header names hold does not matter.
LEMMA HomeHidden ==
  ASSUME NEW H, NEW L, NEW h, Journal(H, L, h), NEW G, Beside(G, H, h)
  PROVE  Over(G, L, h) = Over(H, L, h)
  BY DEF Over, Beside

\* Durable is such an overlay, before a step and after it.
LEMMA DurableOver ==
  ASSUME IInv, IInv'
  PROVE  /\ Durable = Over(home, logblk, head) /\ Durable' = Over(home', logblk', head')
         /\ Journal(home, logblk, head) /\ Journal(home', logblk', head')
  <1>1. Durable = Over(home, logblk, head) /\ Durable' = Over(home', logblk', head')
    BY DEF Durable, Overlay, Over
  <1>2. /\ home \in [Blocks -> Data] /\ home' \in [Blocks -> Data]
        /\ logblk \in [1..LOGSIZE -> Data] /\ logblk' \in [1..LOGSIZE -> Data]
        /\ head \in Seq(Blocks) /\ head' \in Seq(Blocks)
    BY Zenon DEF IInv, TypeOK
  <1>3. Distinct(head) /\ Distinct(head') /\ Len(head) <= LOGSIZE /\ Len(head') <= LOGSIZE
    BY DEF IInv, Fits
  <1> QED
    BY <1>1, <1>2, <1>3 DEF Journal

Mem == IF sys \in {"boot", "recover"} THEN Durable ELSE View

\* A step that changes no block of the disk, seen from above.
LEMMA DiskKept ==
  ASSUME UNCHANGED disk
  PROVE  Durable' = Durable
  BY DEF disk, Durable, Overlay

\* A running process reads or drops a block that is clean.
LEMMA ViewKept ==
  ASSUME UNCHANGED home, \A b \in Blocks : \/ buf'[b] = buf[b]
                                           \/ buf[b] = NoData /\ buf'[b] = home[b]
                                           \/ buf[b] = home[b] /\ buf'[b] = NoData
  PROVE  View' = View
  BY DEF View

\* A step that changes nothing the file system sees.
LEMMA Stutters ==
  ASSUME Mem' = Mem, Durable' = Durable, Active' = Active
  PROVE  UNCHANGED Txn!vars
  BY DEF Mem, Active, Txn!vars

\* Reading, logging and releasing a buffer, and waiting, are not seen.
LEMMA Sees_Step ==
  ASSUME IInv, NEW p \in Procs,
         \/ CallBeginOp(p) \/ end_commit(p) \/ commit(p) \/ log_write_check(p)
         \/ (begin_op(p) /\ UNCHANGED outstanding)
         \/ \E b \in Blocks : bread(p, b) \/ breadOutside(p, b) \/ brelse(p, b) \/ log_write(p, b)
  PROVE  UNCHANGED Txn!vars
  <1>1. UNCHANGED disk
    BY Zenon DEF CallBeginOp, end_commit, commit, log_write_check, begin_op, bread,
       breadOutside, brelse, log_write
  <1>2. sys = "run" /\ sys' \in {"run", "panic"}
    BY Zenon DEF CallBeginOp, end_commit, commit, log_write_check, begin_op, bread,
       breadOutside, brelse, log_write, Goto
  <1>3. \A b \in Blocks : buf'[b] = buf[b] \/ (buf[b] = NoData /\ buf'[b] = home[b])
    <2>1. CASE \E b \in Blocks : bread(p, b) \/ breadOutside(p, b)
      BY <2>1 DEF bread, breadOutside, Lock, TypeOK, IInv
    <2>2. CASE \/ CallBeginOp(p) \/ end_commit(p) \/ commit(p) \/ log_write_check(p)
               \/ begin_op(p) \/ \E b \in Blocks : brelse(p, b) \/ log_write(p, b)
      BY <2>2, Zenon DEF CallBeginOp, end_commit, commit, log_write_check, begin_op, brelse,
         log_write, bufs
    <2> QED
      BY <2>1, <2>2, Zenon
  <1>4. View' = View
    BY <1>1, <1>3, ViewKept, Zenon DEF disk
  <1>5. \A q \in Procs : pc'[q] \in InOp <=> pc[q] \in InOp
    <2>1. CASE CallBeginOp(p)
      BY <2>1 DEF CallBeginOp, InOp, Goto
    <2>2. CASE end_commit(p)
      BY <2>2 DEF end_commit, Woken, InOp
    <2>3. CASE commit(p)
      BY <2>3 DEF commit, InOp, Goto
    <2>4. CASE log_write_check(p)
      BY <2>4, Zenon DEF log_write_check, TypeOK, InOp, IInv, Goto
    <2>5. CASE begin_op(p) /\ UNCHANGED outstanding
      <3>1. pc' = [pc EXCEPT ![p] = "sleeping"] /\ pc[p] = "begin"
        BY <2>5 DEF begin_op, TypeOK, IInv, Goto
      <3> QED
        BY <3>1 DEF InOp
    <2>6. ASSUME NEW b \in Blocks, bread(p, b) \/ breadOutside(p, b) \/ log_write(p, b)
          PROVE  \A q \in Procs : pc'[q] \in InOp <=> pc[q] \in InOp
      BY <2>6, Zenon DEF bread, breadOutside, log_write, TypeOK, InOp, IInv, Goto
    <2>7. ASSUME NEW b \in Blocks, brelse(p, b)
          PROVE  \A q \in Procs : pc'[q] \in InOp <=> pc[q] \in InOp
      BY <2>7, Zenon DEF brelse, TypeOK, InOp, IInv, Goto
    <2> QED
      BY <2>1, <2>2, <2>3, <2>4, <2>5, <2>6, <2>7, Zenon
  <1>6. Active' = Active
    BY <1>5 DEF Active
  <1>7. Mem' = Mem
    BY <1>2, <1>4 DEF Mem
  <1> QED
    BY <1>1, <1>6, <1>7, DiskKept, Stutters

\* begin_op() that does not sleep begins an operation.
LEMMA Sees_begin_op ==
  ASSUME IInv, IInv', NEW p \in Procs, begin_op(p), outstanding' # outstanding
  PROVE  Txn!Begin(p)
  <1>1. /\ pc[p] = "begin" /\ pc' = [pc EXCEPT ![p] = "op"]
        /\ sys = "run" /\ UNCHANGED <<disk, buf, sys>>
    BY DEF begin_op, Goto, bufs
  <1>2. p \notin Active /\ Active' = Active \cup {p}
    BY <1>1 DEF Active, TypeOK, InOp, IInv
  <1>3. Mem' = Mem /\ Durable' = Durable
    BY <1>1, DiskKept DEF Mem, View, disk
  <1> QED
    BY <1>2, <1>3 DEF Txn!Begin, Active, Mem

\* end_op() ends one.
LEMMA Sees_end_op ==
  ASSUME IInv, IInv', NEW p \in Procs, end_op(p)
  PROVE  Txn!End(p)
  <1>1. /\ pc[p] = "op" /\ pc' \in {[pc EXCEPT ![p] = "commit"], Woken([pc EXCEPT ![p] = "idle"])}
        /\ sys = "run" /\ sys' \in {"run", "panic"} /\ UNCHANGED <<disk, buf>>
    BY Zenon DEF end_op, bufs
  <1>2. p \in Active /\ Active' = Active \ {p}
    <2>1. CASE pc' = [pc EXCEPT ![p] = "commit"]
      BY <1>1, <2>1, Zenon DEF Active, TypeOK, InOp, IInv
    <2>2. CASE pc' = Woken([pc EXCEPT ![p] = "idle"])
      BY <1>1, Zenon DEF Active, TypeOK, InOp, Woken, IInv
    <2> QED
      BY <1>1, <2>1, <2>2
  <1>3. Mem' = Mem /\ Durable' = Durable
    BY <1>1, DiskKept DEF Mem, View, disk
  <1> QED
    BY <1>2, <1>3 DEF Txn!End, Active, Mem

\* A change of b->data is a write of the operation.
LEMMA Sees_Modify ==
  ASSUME IInv, IInv', NEW p \in Procs, NEW b \in Blocks, NEW d \in Data, Modify(p, b, d)
  PROVE  Txn!Write(p, b, d)
  <1>1. /\ pc[p] = "held" /\ pc' = [pc EXCEPT ![p] = "modified"]
        /\ buf' = [buf EXCEPT ![b] = d]
        /\ sys = "run" /\ UNCHANGED <<disk, sys>>
    BY DEF Modify, Goto
  <1>2. p \in Active /\ Active' = Active
    BY <1>1 DEF Active, InOp
  <1>3. View' = [View EXCEPT ![b] = d]
    BY <1>1, LogAssumption, Zenon DEF View, disk, TypeOK, IInv
  <1>4. Mem' = [Mem EXCEPT ![b] = d] /\ Durable' = Durable
    BY <1>1, <1>3, DiskKept DEF Mem
  <1> QED
    BY <1>2, <1>4 DEF Txn!Write, Active, Mem

\* The header in memory is cleared and the blocks of the log are rewritten
\* while the header on the disk names none.
LEMMA Sees_write_log ==
  ASSUME IInv, IInv', NEW p \in Procs, write_log(p)
  PROVE  UNCHANGED Txn!vars
  <1>1. /\ pc[p] = "write_log" /\ sys = "run" /\ UNCHANGED <<home, head, sys>>
        /\ \A q \in Procs : q # p => pc'[q] = pc[q]
        /\ pc'[p] \in {"write_log", "write_head"}
    BY DEF write_log
  <1>2. At({"write_log"}) /\ ~ At({"install", "erase"})
    BY <1>1, Zenon DEF At, Alone, Commits, IInv
  <1>3. head = <<>>
    BY <1>1, <1>2, Zenon DEF Phases, IInv
  <1>4. Durable = home /\ Durable' = home
    <2>1. Durable = Over(home, logblk, head) /\ Durable' = Over(home, logblk', head)
      BY <1>1, DurableOver
    <2>2. Journal(home, logblk, head) /\ Journal(home, logblk', head)
      BY <1>1, DurableOver
    <2>3. 1..Len(head) = {} /\ Beside(home, home, head)
      BY <1>3, <2>2 DEF Beside, Journal
    <2>4. Over(home, logblk, head) = home
      BY <2>2, <2>3, SameOver
    <2>5. Over(home, logblk', head) = home
      BY <2>2, <2>3, SameOver
    <2> QED
      BY <2>1, <2>4, <2>5
  <1>5. View' = View
    <2>1. tail + 1 \in 1..Len(lh) /\ lh[tail + 1] \in Blocks
      <3>1. tail < Len(lh)
        BY <1>2, Zenon DEF Phases, IInv
      <3> QED
        BY <3>1, LogFits
    <2>2. \A b \in Blocks : buf'[b] = buf[b] \/ (buf[b] = NoData /\ buf'[b] = home[b])
      BY DEF write_log
    <2> QED
      BY <1>1, <2>2, ViewKept
  <1>6. Active' = Active
    BY <1>1 DEF Active, InOp
  <1> QED
    BY <1>1, <1>4, <1>5, <1>6, Stutters DEF Mem

\* The commit point: what recovery would restore becomes what the cache shows.
LEMMA Sees_write_head ==
  ASSUME IInv, IInv', NEW p \in Procs, write_head(p)
  PROVE  Txn!Commit
  <1>1. /\ pc[p] = "write_head" /\ pc' = [pc EXCEPT ![p] = "install"]
        /\ sys = "run" /\ head' = lh
        /\ UNCHANGED <<home, logblk, lh, buf, dirty, owner, sys>>
    BY DEF write_head, Goto, log, bufs
  <1>2. At({"write_head"}) /\ At({"write_log", "write_head"}) /\ \A q \in Procs : pc[q] \notin InOp
    BY <1>1, Zenon DEF At, Alone, Commits, InOp, IInv
  <1>3. Active = {} /\ Active' = {}
    BY <1>1, <1>2 DEF Active, InOp
  <1>4. dirty = Logged /\ \A i \in 1..Len(lh) : logblk[i] = buf[lh[i]] /\ buf[lh[i]] # NoData
    <2>1. dirty = Logged /\ \A b \in dirty : buf[b] # NoData
      <3>1. Installed = {} /\ sys \in {"run", "panic"}
        BY <1>2, InstalledSoFar, Zenon
      <3>2. dirty = Logged \ Installed /\ \A b \in dirty : buf[b] # NoData
        BY <3>1, Zenon DEF Pins, IInv
      <3> QED
        BY <3>1, <3>2, Zenon
    <2>2. \A i \in 1..Len(lh) : logblk[i] = buf[lh[i]]
      BY <1>2, Zenon DEF Phases, IInv
    <2>3. \A i \in 1..Len(lh) : lh[i] \in Logged
      BY Zenon DEF Logged
    <2> QED
      BY <2>1, <2>2, <2>3, Zenon
  <1>5. \A b \in Blocks : ~ Unlogged(b)
    BY <1>2 DEF Unlogged, InOp
  <1>6. View \in [Blocks -> Data]
    BY Zenon DEF View, TypeOK, IInv
  <1>7. \A i \in 1..Len(lh) : View[lh[i]] = logblk[i]
    BY <1>4 DEF View, TypeOK, IInv
  <1>8. \A b \in Blocks : (\A i \in 1..Len(lh) : lh[i] # b) => View[b] = home[b]
    BY <1>4, <1>5, Zenon DEF View, CleanSame, Logged, IInv
  <1>9. Durable' = View
    <2>1. Durable' = Over(home, logblk, lh)
      BY <1>1, DurableOver
    <2>2. Journal(home, logblk, lh)
      BY LogFits, Zenon DEF TypeOK, Fits, IInv, Journal
    <2>3. Beside(View, home, lh)
      BY <1>6, <1>8 DEF Beside
    <2> QED
      BY <1>7, <2>1, <2>2, <2>3, SameOver
  <1>10. Mem = View /\ Mem' = View
    BY <1>1 DEF Mem, View
  <1> QED
    BY <1>3, <1>9, <1>10 DEF Txn!Commit, Active, Mem

\* A block the header names may be written home at any time.
LEMMA InstallHidden ==
  ASSUME IInv, IInv', head = lh, UNCHANGED <<head, logblk>>, tail + 1 \in 1..Len(lh),
         home' = [home EXCEPT ![lh[tail + 1]] = logblk[tail + 1]]
  PROVE  Durable' = Durable
  <1>1. /\ Durable = Over(home, logblk, head) /\ Durable' = Over(home', logblk, head)
        /\ Journal(home, logblk, head)
    BY DurableOver, Zenon
  <1>2. Beside(home', home, head)
    BY Zenon DEF Beside, IInv, TypeOK
  <1>3. Over(home', logblk, head) = Over(home, logblk, head)
    BY <1>1, <1>2, HomeHidden
  <1> QED
    BY <1>1, <1>3, Zenon

\* The header may be cleared once every block it names is home.
LEMMA EraseHidden ==
  ASSUME IInv, IInv', head = lh, head' = <<>>, UNCHANGED home,
         \A i \in 1..Len(lh) : home[lh[i]] = logblk[i]
  PROVE  Durable = home /\ Durable' = home
  <1>1. /\ Durable = Over(home, logblk, head) /\ Durable' = Over(home, logblk', head')
        /\ Journal(home, logblk, head) /\ Journal(home, logblk', head')
    BY DurableOver
  <1>2. Beside(home, home, head) /\ Beside(home, home, head')
    BY <1>1, Zenon DEF Beside, Journal
  <1>3. Over(home, logblk, head) = home
    BY <1>1, <1>2, SameOver, Zenon
  <1>4. \A i \in 1..Len(head') : home[head'[i]] = logblk'[i]
    OBVIOUS
  <1>5. Over(home, logblk', head') = home
    BY <1>1, <1>2, <1>4, SameOver
  <1> QED
    BY <1>1, <1>3, <1>5

\* install_trans() is not seen.
LEMMA Sees_install_trans ==
  ASSUME IInv, IInv', NEW p \in Procs, install_trans(p)
  PROVE  UNCHANGED Txn!vars
  <1> DEFINE b == lh[tail + 1]
  <1>1. /\ pc[p] = "install" /\ sys = "run" /\ UNCHANGED <<logblk, head, lh, sys>>
        /\ home' = [home EXCEPT ![b] = logblk[tail + 1]]
        /\ buf' = [buf EXCEPT ![b] = logblk[tail + 1]]
        /\ \A q \in Procs : q # p => pc'[q] = pc[q]
        /\ pc'[p] \in {"install", "erase"}
    BY DEF install_trans, Install, log
  <1>2. /\ head = lh /\ tail < Len(lh)
        /\ \A i \in (tail + 1)..Len(lh) : logblk[i] = buf[lh[i]]
    BY <1>1, Zenon DEF At, Phases, IInv
  <1>3. tail + 1 \in 1..Len(lh) /\ tail + 1 \in (tail + 1)..Len(lh) /\ tail + 1 \in 1..LOGSIZE /\ b \in Blocks
    BY <1>2, LogFits, LogAssumption
  <1>4. Durable' = Durable
    BY <1>1, <1>2, <1>3, InstallHidden, Zenon
  <1>5. buf[b] # NoData /\ buf' = buf
    <2>1. logblk[tail + 1] = buf[b] /\ logblk[tail + 1] \in Data
      BY <1>2, <1>3, LogAssumption, Zenon DEF TypeOK, IInv
    <2>2. buf \in [Blocks -> Data \cup {NoData}]
      BY Zenon DEF TypeOK, IInv
    <2> HIDE DEF b
    <2>3. buf[b] # NoData
      BY <2>1, LogAssumption, Zenon
    <2> QED
      BY <1>1, <1>3, <2>1, <2>2, <2>3, Zenon
  <1>6. View' = View
    BY <1>1, <1>5 DEF View
  <1>7. Active' = Active
    BY <1>1, Zenon DEF Active, InOp
  <1> QED
    BY <1>1, <1>4, <1>6, <1>7, Stutters, Zenon DEF Mem

\* Nor is the clearing of the header.
LEMMA Sees_erase ==
  ASSUME IInv, IInv', NEW p \in Procs, erase(p)
  PROVE  UNCHANGED Txn!vars
  <1>1. /\ pc[p] = "erase" /\ pc' = [pc EXCEPT ![p] = "done"] /\ sys = "run"
        /\ head' = <<>> /\ UNCHANGED <<home, buf, sys>>
    BY DEF erase, Goto, Erase, bufs
  <1>2. head = lh /\ \A i \in 1..Len(lh) : home[lh[i]] = logblk[i]
    BY <1>1, Zenon DEF At, Phases, IInv
  <1>3. Durable' = Durable
    BY <1>1, <1>2, EraseHidden
  <1>4. Active' = Active
    BY <1>1 DEF Active, InOp
  <1> QED
    BY <1>1, <1>3, <1>4, Stutters DEF Mem, View

\* Nor is the recycling of a clean buffer.
LEMMA Sees_Recycle ==
  ASSUME IInv, NEW b \in Blocks, Recycle(b)
  PROVE  UNCHANGED Txn!vars
  <1>1. /\ UNCHANGED <<disk, home, pc, sys>> /\ buf' = [buf EXCEPT ![b] = NoData]
        /\ owner[b] = NoProc /\ b \notin dirty /\ buf[b] # NoData
    BY DEF Recycle, disk
  <1>2. ~ Unlogged(b)
    BY <1>1, LogAssumption DEF Unlogged
  <1>3. buf[b] = home[b]
    BY <1>1, <1>2 DEF CleanSame, IInv
  <1>4. \A c \in Blocks : buf'[c] = buf[c] \/ (buf[c] = home[c] /\ buf'[c] = NoData)
    BY <1>1, <1>3
  <1>5. View' = View
    BY <1>1, <1>4, ViewKept
  <1>6. Active' = Active
    BY <1>1 DEF Active
  <1> QED
    BY <1>1, <1>5, <1>6, DiskKept, Stutters DEF Mem

\* A crash takes the system back to the last commit.
LEMMA Sees_Crash ==
  ASSUME IInv, Crash
  PROVE  Txn!Crash
  <1>1. UNCHANGED disk /\ sys' = "boot" /\ pc' = [p \in Procs |-> "idle"]
    BY DEF Crash
  <1>2. Active' = {}
    BY <1>1 DEF Active, InOp
  <1>3. Mem' = Durable' /\ Durable' = Durable
    BY <1>1, DiskKept DEF Mem
  <1> QED
    BY <1>2, <1>3 DEF Txn!Crash, Mem, Active

\* Recovery changes nothing that can be seen.
LEMMA Sees_recovery ==
  ASSUME IInv, IInv', initlog \/ recover_install \/ recover_erase
  PROVE  UNCHANGED Txn!vars
  <1>1. UNCHANGED pc /\ sys \in {"boot", "recover"}
    BY DEF initlog, recover_install, recover_erase
  <1>2. Active' = Active
    BY <1>1 DEF Active
  <1>3. CASE initlog
    BY <1>2, <1>3, DiskKept, Stutters DEF initlog, Mem
  <1>4. CASE recover_install
    <2>1. /\ head = lh /\ UNCHANGED <<head, logblk, sys>> /\ tail < Len(lh)
          /\ home' = [home EXCEPT ![lh[tail + 1]] = logblk[tail + 1]]
      BY <1>4, Zenon DEF recover_install, Install, Phases, IInv
    <2>2. tail + 1 \in 1..Len(lh)
      BY <2>1, LogFits
    <2> QED
      BY <1>1, <1>2, <2>1, <2>2, InstallHidden, Stutters DEF Mem
  <1>5. CASE recover_erase
    <2>1. /\ head = lh /\ head' = <<>> /\ UNCHANGED <<home, buf, dirty, owner>> /\ sys' = "run"
          /\ \A i \in 1..Len(lh) : home[lh[i]] = logblk[i]
      BY <1>5, Zenon DEF recover_erase, Erase, bufs, Phases, IInv
    <2>2. dirty = {} /\ \A b \in Blocks : ~ Unlogged(b)
      BY <1>1, Zenon DEF Phases, Unlogged, IInv
    <2>3. View' = home
      BY <2>1, <2>2, Zenon DEF View, CleanSame, TypeOK, IInv
    <2>4. Durable = home /\ Durable' = home
      BY <2>1, EraseHidden
    <2> QED
      BY <1>1, <1>2, <2>3, <2>4, Stutters DEF Mem
  <1> QED
    BY <1>3, <1>4, <1>5

\* The write-ahead log implements the transactional disk: whatever the calls
\* do, and wherever a crash falls, commit() and recover_from_log() show whole
\* operations or nothing of them.
THEOREM Refinement == Spec => ImplementsTxnDisk
  <1>1. Init => Txn!Init
    <2> SUFFICES ASSUME Init PROVE Txn!Init
      OBVIOUS
    <2>1. home \in [Blocks -> Data] /\ head = <<>> /\ sys = "boot" /\ pc = [p \in Procs |-> "idle"]
      BY DEF Init
    <2>2. Durable = home
      BY <2>1 DEF Durable, Overlay
    <2>3. Active = {}
      BY <2>1 DEF Active, InOp
    <2> QED
      BY <2>1, <2>2, <2>3 DEF Txn!Init, Active
  <1>2. IInv /\ [Next]_vars => [Txn!Next]_(Txn!vars)
    <2> SUFFICES ASSUME IInv, [Next]_vars PROVE [Txn!Next]_(Txn!vars)
      OBVIOUS
    <2>0. IInv'
      BY NextOK
    <2>1. CASE UNCHANGED vars
      <3>1. UNCHANGED disk /\ UNCHANGED <<home, buf, pc, sys>>
        BY <2>1 DEF vars, disk, bufs
      <3> QED
        BY <3>1, DiskKept, Stutters DEF Mem, View, Active
    <2>2. ASSUME NEW p \in Procs, Step(p) PROVE Txn!Next \/ UNCHANGED Txn!vars
      <3>1. CASE begin_op(p) /\ outstanding' # outstanding
        BY <2>0, <3>1, Sees_begin_op DEF Txn!Next
      <3>2. CASE end_op(p)
        BY <2>0, <3>2, Sees_end_op DEF Txn!Next
      <3>3. ASSUME NEW b \in Blocks, NEW d \in Data, Modify(p, b, d) PROVE Txn!Next
        BY <2>0, <3>3, Sees_Modify DEF Txn!Next
      <3>4. CASE write_log(p)
        BY <2>0, <3>4, Sees_write_log
      <3>5. CASE write_head(p)
        BY <2>0, <3>5, Sees_write_head DEF Txn!Next
      <3>6. CASE install_trans(p) \/ erase(p)
        BY <2>0, <3>6, Sees_install_trans, Sees_erase
      <3> QED
        BY <2>2, <3>1, <3>2, <3>3, <3>4, <3>5, <3>6, Sees_Step, Zenon DEF Step
    <2>3. ASSUME NEW b \in Blocks, Recycle(b) PROVE UNCHANGED Txn!vars
      BY <2>3, Sees_Recycle
    <2>4. CASE Crash
      BY <2>4, Sees_Crash DEF Txn!Next
    <2>5. CASE initlog \/ recover_install \/ recover_erase
      BY <2>0, <2>5, Sees_recovery
    <2> QED
      BY <2>1, <2>2, <2>3, <2>4, <2>5 DEF Next
  <1> QED
    BY Invariance, <1>1, <1>2, PTL DEF Spec, ImplementsTxnDisk, Txn!Spec

\* When the end_op() that committed clears log.committing, everything written
\* so far survives a crash.
THEOREM DurableOnReturn == Spec => DurableAtReturn
  <1>1. ASSUME IInv, IInv', [Next]_vars, committing, ~ committing', sys' = "run"
        PROVE  Durable' = View'
    <2>1. PICK p \in Procs : end_commit(p)
      <3>1. CASE UNCHANGED vars
        BY <1>1, <3>1 DEF vars, log
      <3>2. ASSUME NEW p \in Procs, Step(p), ~ end_commit(p) PROVE FALSE
        BY <1>1, <3>2, Zenon DEF Step, CallBeginOp, begin_op, end_op, bread, breadOutside,
           brelse, log_write, Modify, log_write_check, commit, write_log, write_head,
           install_trans, erase, Erase, log
      <3>3. ASSUME NEW b \in Blocks, Recycle(b) PROVE FALSE
        BY <1>1, <3>3 DEF Recycle, log
      <3>4. CASE Crash \/ initlog
        BY <1>1, <3>4 DEF Crash, initlog
      <3>5. CASE recover_install \/ recover_erase
        BY <1>1, <3>5, Zenon DEF recover_install, recover_erase, Erase
      <3> QED
        BY <1>1, <3>1, <3>2, <3>3, <3>4, <3>5 DEF Next
    <2>2. /\ pc[p] = "done" /\ sys = "run"
          /\ UNCHANGED <<disk, home, logblk, head, lh, buf, dirty>>
      BY <2>1 DEF end_commit, disk, bufs
    <2>3. At({"done"}) /\ ~ At({"install", "erase"}) /\ \A q \in Procs : pc[q] \notin InOp
      BY <1>1, <2>2, Zenon DEF At, Alone, Commits, InOp, IInv
    <2>4. lh = <<>> /\ head = <<>>
      BY <1>1, <2>2, <2>3, Zenon DEF Phases, IInv
    <2>5. dirty = {}
      BY <1>1, <2>2, <2>4 DEF Pins, Logged, IInv
    <2>6. \A b \in Blocks : ~ Unlogged(b)
      BY <2>3 DEF Unlogged, InOp
    <2>7. View' = home
      BY <1>1, <2>2, <2>5, <2>6, Zenon DEF View, CleanSame, TypeOK, IInv
    <2>8. Durable' = home
      BY <1>1, <2>2, <2>4, EraseHidden
    <2> QED
      BY <2>7, <2>8
  <1>2. IInv /\ IInv' /\ [Next]_vars
          => [committing /\ ~ committing' /\ sys' = "run" => Durable' = View']_vars
    BY <1>1
  <1> QED
    BY Invariance, <1>2, PTL DEF Spec, DurableAtReturn
=============================================================================
