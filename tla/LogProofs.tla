----------------------------- MODULE LogProofs -----------------------------
(***************************************************************************)
(* Crash atomicity of the log, for any number of processes and blocks and  *)
(* any sizes: log.c implements the transactional disk of TxnDisk.          *)
(***************************************************************************)
EXTENDS Log, FiniteSetTheorems, TLAPS

Active == {p \in Procs : pc[p] \in InOp}

At(S) == \E p \in Procs : pc[p] \in S

\* The caller of log_write() has changed b->data and not yet logged it.
Unlogged(b) == \E p \in Procs : owner[b] = p /\ pc[p] \in {"modified", "checked"}

Distinct(s) == \A i, j \in 1..Len(s) : s[i] = s[j] => i = j

\* What the running calls may still append to the log: begin_op() set aside
\* MAXOPBLOCKS blocks for each, and a block is logged once.
Credit ==
  {x \in Procs \X (1..MAXOPBLOCKS) :
     /\ pc[x[1]] \in InOp
     /\ x[2] <= MAXOPBLOCKS - Cardinality(wrote[x[1]] \cap Logged)}

Fits ==
  /\ Distinct(lh) /\ Distinct(head) /\ Len(head) <= LOGSIZE
  /\ Len(lh) + Cardinality(Credit) <= LOGSIZE

Alone ==
  /\ outstanding = Cardinality(Active)
  /\ committing <=> At(Commits)
  /\ \A p, q \in Procs : pc[p] \in Commits /\ pc[q] \in Commits \cup InOp => p = q

Holders ==
  \A p \in Procs :
    /\ \A b, c \in Blocks : owner[b] = p /\ owner[c] = p => b = c
    /\ \A b \in Blocks : owner[b] = p =>
         /\ pc[p] \in {"reading", "held", "modified", "checked", "logged"}
         /\ buf[b] # NoData
         /\ pc[p] \in {"modified", "checked"} => b \in wrote[p]
    /\ pc[p] \notin InOp => wrote[p] = {}
    /\ Cardinality(wrote[p]) <= OpBlocks

Installed == IF At({"install"}) THEN {lh[i] : i \in 1..tail}
             ELSE IF At({"erase", "done"}) THEN Logged ELSE {}

Pins ==
  sys \in {"run", "panic"} => /\ dirty = Logged \ Installed
                              /\ \A b \in dirty : buf[b] # NoData

\* A cached block that neither the log nor a caller has changed is as on the
\* disk.
CleanSame ==
  \A b \in Blocks : buf[b] # NoData /\ b \notin dirty /\ ~ Unlogged(b) => buf[b] = home[b]

\* Up to where commit() and recover_from_log() have come
Phases ==
  /\ sys \in {"boot", "recover"} =>
       /\ \A p \in Procs : pc[p] = "idle"
       /\ dirty = {} /\ \A b \in Blocks : owner[b] = NoProc
  /\ sys = "recover" => /\ lh = head /\ tail <= Len(lh)
                        /\ \A i \in 1..tail : home[lh[i]] = logblk[i]
  /\ sys \in {"run", "panic"} /\ ~ At({"install", "erase"}) => head = <<>>
  /\ At({"write_log"}) => tail < Len(lh) /\ \A i \in 1..tail : logblk[i] = buf[lh[i]]
  /\ At({"write_head"}) => Len(lh) > 0 /\ \A i \in 1..Len(lh) : logblk[i] = buf[lh[i]]
  /\ At({"install"}) => /\ head = lh /\ tail < Len(lh)
                        /\ \A i \in 1..tail : home[lh[i]] = logblk[i]
                        /\ \A i \in (tail + 1)..Len(lh) : logblk[i] = buf[lh[i]]
  /\ At({"erase"}) => head = lh /\ \A i \in 1..Len(lh) : home[lh[i]] = logblk[i]
  /\ At({"done"}) => lh = <<>>

IInv == TypeOK /\ Fits /\ Alone /\ Holders /\ Pins /\ CleanSame /\ Phases

-----------------------------------------------------------------------------
(* The room in the log *)

\* The room set aside is counted by a finite set.
LEMMA CreditFinite ==
  /\ IsFiniteSet(Procs \X (1..MAXOPBLOCKS))
  /\ Cardinality(Procs \X (1..MAXOPBLOCKS)) = Cardinality(Procs) * MAXOPBLOCKS
  /\ Cardinality(Procs) \in Nat
  /\ IsFiniteSet(Credit) /\ Cardinality(Credit) \in Nat
  <1>1. IsFiniteSet(1..MAXOPBLOCKS) /\ Cardinality(1..MAXOPBLOCKS) = MAXOPBLOCKS
    <2>1. /\ IsFiniteSet(1..MAXOPBLOCKS)
          /\ Cardinality(1..MAXOPBLOCKS) = IF 1 > MAXOPBLOCKS THEN 0 ELSE MAXOPBLOCKS - 1 + 1
      BY FS_Interval, LogAssumption
    <2> QED
      BY <2>1, LogAssumption
  <1>2. /\ IsFiniteSet(Procs \X (1..MAXOPBLOCKS))
        /\ Cardinality(Procs \X (1..MAXOPBLOCKS)) = Cardinality(Procs) * Cardinality(1..MAXOPBLOCKS)
    BY <1>1, FS_Product, LogAssumption, Zenon
  <1>3. Credit \in SUBSET (Procs \X (1..MAXOPBLOCKS))
    BY DEF Credit
  <1>4. IsFiniteSet(Credit)
    BY <1>2, <1>3, FS_Subset
  <1> QED
    BY <1>1, <1>2, <1>4, FS_CardinalityType, LogAssumption, Zenon

\* A step that logs nothing and starts no call leaves the room there is.
LEMMA FitsKept ==
  ASSUME IInv, TypeOK', UNCHANGED <<lh, head>>,
         \A p \in Procs : pc'[p] \in InOp => pc[p] \in InOp /\ wrote[p] \subseteq wrote'[p]
  PROVE  Fits'
  <1>1. \A p \in Procs : /\ IsFiniteSet(wrote[p] \cap Logged) /\ IsFiniteSet(wrote'[p] \cap Logged)
                         /\ Cardinality(wrote[p] \cap Logged) \in Nat
                         /\ Cardinality(wrote'[p] \cap Logged) \in Nat
    <2>1. \A S \in SUBSET Blocks : IsFiniteSet(S \cap Logged) /\ Cardinality(S \cap Logged) \in Nat
      BY FS_Subset, FS_CardinalityType, LogAssumption, Zenon
    <2> QED
      BY <2>1, Zenon DEF TypeOK, IInv
  <1>2. ASSUME NEW p \in Procs, pc'[p] \in InOp
        PROVE  Cardinality(wrote[p] \cap Logged) <= Cardinality(wrote'[p] \cap Logged)
    <2>1. wrote[p] \cap Logged \in SUBSET (wrote'[p] \cap Logged)
      BY <1>2
    <2> QED
      BY <1>1, <2>1, FS_Subset, Zenon
  <1>3. Logged' = Logged
    BY DEF Logged
  <1>4. Credit' \in SUBSET Credit
    <2>1. ASSUME NEW p \in Procs, NEW n \in 1..MAXOPBLOCKS, pc'[p] \in InOp,
                 n <= MAXOPBLOCKS - Cardinality(wrote'[p] \cap Logged)
          PROVE  pc[p] \in InOp /\ n <= MAXOPBLOCKS - Cardinality(wrote[p] \cap Logged)
      <3>1. /\ Cardinality(wrote[p] \cap Logged) \in Nat /\ Cardinality(wrote'[p] \cap Logged) \in Nat
            /\ Cardinality(wrote[p] \cap Logged) <= Cardinality(wrote'[p] \cap Logged)
        BY <1>1, <1>2, <2>1, Zenon
      <3>2. pc[p] \in InOp /\ n \in Nat /\ MAXOPBLOCKS \in Nat
        BY <2>1, LogAssumption
      <3> QED
        BY <2>1, <3>1, <3>2
    <2>2. ASSUME NEW x \in Credit' PROVE x \in Credit
      <3>1. /\ x[1] \in Procs /\ x[2] \in 1..MAXOPBLOCKS /\ x \in Procs \X (1..MAXOPBLOCKS)
            /\ pc'[x[1]] \in InOp /\ x[2] <= MAXOPBLOCKS - Cardinality(wrote'[x[1]] \cap Logged)
        BY <1>3, Zenon DEF Credit
      <3> QED
        BY <2>1, <3>1, Zenon DEF Credit
    <2> QED
      BY <2>2
  <1>5. Cardinality(Credit') <= Cardinality(Credit) /\ Cardinality(Credit') \in Nat
    BY <1>4, CreditFinite, FS_Subset, FS_CardinalityType, Zenon
  <1>6. Len(lh) \in Nat
    OBVIOUS
  <1> QED
    BY <1>5, CreditFinite, LogAssumption DEF Fits, IInv

\* A step that leaves the set of running calls alone leaves it counted.
LEMMA CountKept ==
  ASSUME IInv, UNCHANGED outstanding, \A p \in Procs : pc'[p] \in InOp <=> pc[p] \in InOp
  PROVE  outstanding' = Cardinality(Active')
  <1>1. Active' = Active
    BY DEF Active
  <1> QED
    BY <1>1, Zenon DEF IInv, Alone

-----------------------------------------------------------------------------
(* Where commit() is *)

\* What is logged and not yet installed is pinned in the cache.
LEMMA LoggedIsPinned ==
  ASSUME IInv, sys \in {"run", "panic"}, NEW i \in 1..Len(lh), lh[i] \notin Installed
  PROVE  lh[i] \in dirty /\ buf[lh[i]] # NoData
  BY Zenon DEF IInv, Pins, Logged

\* At the commit point and before it nothing is installed; install_trans()
\* has done the first tail blocks.
LEMMA InstalledSoFar ==
  ASSUME IInv
  PROVE  /\ At({"write_log", "write_head"}) => Installed = {} /\ sys \in {"run", "panic"}
         /\ At({"install"}) => /\ sys \in {"run", "panic"}
                               /\ \A i \in (tail + 1)..Len(lh) : lh[i] \notin Installed
  <1>1. ASSUME At({"write_log", "write_head"})
        PROVE  ~ At({"install"}) /\ ~ At({"erase", "done"}) /\ sys \in {"run", "panic"}
    BY <1>1, Zenon DEF At, Alone, Phases, TypeOK, IInv, Commits
  <1>2. ASSUME At({"install"}) PROVE sys \in {"run", "panic"} /\ Len(lh) \in Nat /\ tail \in Nat
    BY <1>2 DEF At, Phases, TypeOK, IInv
  <1>3. ASSUME At({"install"}), NEW i \in (tail + 1)..Len(lh) PROVE lh[i] \notin Installed
    BY <1>2, <1>3 DEF Installed, Fits, Distinct, IInv
  <1> QED
    BY <1>1, <1>2, <1>3, Zenon DEF Installed

\* A step of a process that is not in commit(), of a kind that does not log.
LEMMA QuietStep ==
  ASSUME IInv, UNCHANGED <<disk, lh, tail, dirty>>,
         sys \in {"run", "panic"}, sys' \in {"run", "panic"},
         \A p \in Procs : pc[p] \in Commits \/ pc'[p] \in Commits => pc'[p] = pc[p],
         \A c \in dirty : buf'[c] # NoData,
         At(Commits) => \A c \in dirty : buf'[c] = buf[c]
  PROVE  Pins' /\ Phases'
  <1>1. \A x \in Commits : At({x})' <=> At({x})
    BY DEF At
  <1>2. /\ At({"install", "erase"})' <=> At({"install", "erase"})
        /\ At({"erase", "done"})' <=> At({"erase", "done"})
    BY DEF At, Commits
  <1>3. Logged' = Logged /\ Installed' = Installed
    BY <1>1, <1>2 DEF Logged, Installed, Commits
  <1>4. Pins'
    BY <1>3, Zenon DEF Pins, IInv
  <1>5. ASSUME At({"write_log", "write_head"}), NEW i \in 1..Len(lh) PROVE buf'[lh[i]] = buf[lh[i]]
    BY <1>5, InstalledSoFar, LoggedIsPinned, Zenon DEF At, Commits
  <1>6. ASSUME At({"install"}), NEW i \in (tail + 1)..Len(lh) PROVE buf'[lh[i]] = buf[lh[i]]
    <2>1. i \in 1..Len(lh) /\ At(Commits)
      BY <1>6 DEF At, Commits, TypeOK, IInv
    <2> QED
      BY <1>6, <2>1, InstalledSoFar, LoggedIsPinned, Zenon
  <1>7. Phases'
    <2>1. /\ At({"write_log"}) => \A i \in 1..tail : logblk[i] = buf'[lh[i]]
          /\ At({"write_head"}) => \A i \in 1..Len(lh) : logblk[i] = buf'[lh[i]]
      <3>1. At({"write_log"}) => \A i \in 1..tail : i \in 1..Len(lh)
        BY DEF Phases, TypeOK, IInv
      <3> QED
        BY <1>5, <3>1 DEF Phases, At, IInv
    <2>2. At({"install"}) => \A i \in (tail + 1)..Len(lh) : logblk[i] = buf'[lh[i]]
      BY <1>6, Zenon DEF Phases, IInv
    <2> QED
      BY <1>1, <1>2, <2>1, <2>2, Zenon DEF Phases, Commits, IInv, disk
  <1> QED
    BY <1>4, <1>7

-----------------------------------------------------------------------------
(* The steps keep the invariant *)

\* A call of begin_op().
LEMMA Keeps_CallBeginOp ==
  ASSUME IInv, NEW p \in Procs, CallBeginOp(p)
  PROVE  IInv'
  <1>1. TypeOK'
    BY Zenon DEF TypeOK, PCs, CallBeginOp, Goto, IInv, disk, log, bufs
  <1>2. Fits'
    BY <1>1, FitsKept DEF CallBeginOp, Goto, disk, log, InOp
  <1>3. Alone'
    BY CountKept DEF Alone, At, CallBeginOp, Goto, IInv, log, InOp, Commits
  <1>4. Holders'
    BY DEF Holders, CallBeginOp, Goto, IInv, bufs, InOp
  <1>5. Pins' /\ Phases'
    BY QuietStep DEF Pins, CallBeginOp, Goto, IInv, log, bufs, Commits
  <1>6. CleanSame'
    BY DEF CleanSame, Unlogged, CallBeginOp, Goto, IInv, disk, bufs
  <1> QED
    BY <1>1, <1>2, <1>3, <1>4, <1>5, <1>6 DEF IInv

\* bread() inside a transaction.
LEMMA Keeps_bread ==
  ASSUME IInv, NEW p \in Procs, NEW b \in Blocks, bread(p, b)
  PROVE  IInv'
  <1>1. TypeOK'
    BY Zenon DEF TypeOK, PCs, bread, Goto, Lock, IInv, disk, log, InOp
  <1>2. Fits'
    BY <1>1, FitsKept DEF bread, Goto, disk, log, InOp
  <1>3. Alone'
    BY CountKept DEF Alone, At, bread, Goto, IInv, log, InOp, Commits
  <1>4. Holders'
    BY LogAssumption DEF Holders, TypeOK, bread, Goto, Lock, IInv, InOp
  <1>5. Pins' /\ Phases'
    BY QuietStep DEF Pins, bread, Goto, Lock, IInv, log, Commits
  <1>6. CleanSame'
    BY LogAssumption DEF CleanSame, Unlogged, bread, Goto, Lock, IInv, disk
  <1> QED
    BY <1>1, <1>2, <1>3, <1>4, <1>5, <1>6 DEF IInv

\* bread() outside of transactions.
LEMMA Keeps_breadOutside ==
  ASSUME IInv, NEW p \in Procs, NEW b \in Blocks, breadOutside(p, b)
  PROVE  IInv'
  <1>1. TypeOK'
    BY Zenon DEF TypeOK, PCs, breadOutside, Goto, Lock, IInv, disk, log
  <1>2. Fits'
    BY <1>1, FitsKept DEF breadOutside, Goto, disk, log, InOp
  <1>3. Alone'
    BY CountKept DEF Alone, At, breadOutside, Goto, IInv, log, InOp, Commits
  <1>4. Holders'
    BY LogAssumption DEF Holders, TypeOK, breadOutside, Goto, Lock, IInv, InOp
  <1>5. Pins' /\ Phases'
    BY QuietStep DEF Pins, breadOutside, Goto, Lock, IInv, log, Commits
  <1>6. CleanSame'
    BY LogAssumption DEF CleanSame, Unlogged, Holders, TypeOK, breadOutside, Goto, Lock, IInv,
       disk
  <1> QED
    BY <1>1, <1>2, <1>3, <1>4, <1>5, <1>6 DEF IInv

\* brelse().
LEMMA Keeps_brelse ==
  ASSUME IInv, NEW p \in Procs, NEW b \in Blocks, brelse(p, b)
  PROVE  IInv'
  <1>1. TypeOK'
    BY LogAssumption DEF TypeOK, PCs, brelse, Goto, IInv, disk, log, bufs, InOp, Commits
  <1>2. Fits'
    BY <1>1, FitsKept DEF TypeOK, brelse, Goto, disk, log, InOp
  <1>3. Alone'
    BY CountKept DEF Alone, At, TypeOK, brelse, Goto, IInv, log, InOp, Commits
  <1>4. Holders'
    BY LogAssumption DEF Holders, TypeOK, brelse, Goto, IInv, InOp
  <1>5. Pins' /\ Phases'
    BY QuietStep, Zenon DEF Pins, TypeOK, brelse, Goto, IInv, log, Commits
  <1>6. CleanSame'
    BY DEF CleanSame, Unlogged, Holders, TypeOK, brelse, Goto, IInv, disk
  <1> QED
    BY <1>1, <1>2, <1>3, <1>4, <1>5, <1>6 DEF IInv

\* The tests of log_write(), which may panic.
LEMMA Keeps_log_write_check ==
  ASSUME IInv, NEW p \in Procs, log_write_check(p)
  PROVE  IInv'
  <1>1. TypeOK'
    BY Zenon DEF TypeOK, PCs, log_write_check, Goto, IInv, disk, log, bufs, InOp
  <1>2. Fits'
    BY <1>1, FitsKept, Zenon DEF TypeOK, log_write_check, Goto, disk, log, InOp
  <1>3. Alone'
    BY CountKept DEF Alone, At, TypeOK, log_write_check, Goto, IInv, log, InOp, Commits
  <1>4. Holders'
    BY DEF Holders, TypeOK, log_write_check, Goto, IInv, bufs, InOp
  <1>5. Pins' /\ Phases'
    BY QuietStep, Zenon DEF Pins, TypeOK, log_write_check, Goto, IInv, log, bufs, Commits
  <1>6. CleanSame'
    BY Zenon DEF CleanSame, Unlogged, TypeOK, log_write_check, Goto, IInv, disk, bufs
  <1> QED
    BY <1>1, <1>2, <1>3, <1>4, <1>5, <1>6 DEF IInv

\* begin_op() sleeps, or sets MAXOPBLOCKS blocks of the log aside.
LEMMA Keeps_begin_op ==
  ASSUME IInv, NEW p \in Procs, begin_op(p)
  PROVE  IInv'
  <1>1. TypeOK'
    <2>1. outstanding' \in Nat
      BY DEF TypeOK, begin_op, IInv
    <2>2. pc' \in [Procs -> PCs]
      BY Zenon DEF TypeOK, PCs, begin_op, Goto, IInv, bufs, InOp, Commits
    <2> QED
      BY <2>2 DEF TypeOK, begin_op, IInv, disk, bufs
  <1>2. CASE UNCHANGED outstanding
    <2>1. pc' = [pc EXCEPT ![p] = "sleeping"] /\ pc[p] = "begin"
      BY <1>2 DEF begin_op, Goto, TypeOK, IInv
    <2>2. Fits'
      BY <1>1, <2>1, FitsKept DEF begin_op, disk, InOp
    <2>3. Alone'
      BY <1>2, <2>1, CountKept DEF Alone, At, begin_op, IInv, InOp, Commits
    <2>4. Holders' /\ CleanSame'
      BY <2>1 DEF Holders, CleanSame, Unlogged, begin_op, IInv, disk, bufs, InOp
    <2>5. Pins' /\ Phases'
      BY <2>1, QuietStep DEF Pins, begin_op, Goto, IInv, bufs, Commits
    <2> QED
      BY <1>1, <2>2, <2>3, <2>4, <2>5 DEF IInv
  <1>3. CASE ~ committing /\ ~ NoRoom /\ outstanding' = outstanding + 1 /\ Goto(p, "begin", "op")
    <2>1. pc' = [pc EXCEPT ![p] = "op"] /\ pc[p] = "begin"
      BY <1>3 DEF Goto
    <2>2. Active' = Active \cup {p} /\ p \notin Active
      BY <2>1, Zenon DEF Active, TypeOK, IInv, InOp
    <2>3. IsFiniteSet(Active) /\ IsFiniteSet(Active')
      BY FS_Subset, LogAssumption, Zenon DEF Active
    <2>4. outstanding' = Cardinality(Active')
      BY <1>3, <2>2, <2>3, FS_AddElement, Zenon DEF Alone, IInv
    <2>5. Alone'
      BY <1>3, <2>1, <2>4 DEF Alone, At, begin_op, IInv, Commits
    <2>6. Fits'
      <3>1. Credit' \in SUBSET (Active' \X (1..MAXOPBLOCKS))
        BY Zenon DEF Credit, Active
      <3>2. /\ IsFiniteSet(Active' \X (1..MAXOPBLOCKS))
            /\ Cardinality(Active' \X (1..MAXOPBLOCKS)) = outstanding' * MAXOPBLOCKS
        <4>1. IsFiniteSet(1..MAXOPBLOCKS) /\ Cardinality(1..MAXOPBLOCKS) = MAXOPBLOCKS
          BY FS_Interval, LogAssumption
        <4> QED
          BY <2>3, <2>4, <4>1, FS_Product, Zenon
      <3>3. IsFiniteSet(Credit') /\ Cardinality(Credit') <= outstanding' * MAXOPBLOCKS
        BY <3>1, <3>2, FS_Subset
      <3>4. Cardinality(Credit') \in Nat /\ Len(lh) \in Nat /\ outstanding' * MAXOPBLOCKS \in Nat
        <4>1. Cardinality(Credit') \in Nat /\ Len(lh) \in Nat
          BY <3>3, FS_CardinalityType
        <4>2. Cardinality(Active' \X (1..MAXOPBLOCKS)) \in Nat
          BY <3>2, FS_CardinalityType
        <4> QED
          BY <3>2, <4>1, <4>2
      <3>5. Len(lh) + outstanding' * MAXOPBLOCKS <= LOGSIZE
        BY <1>3, LogAssumption DEF NoRoom
      <3>6. Len(lh) + Cardinality(Credit') <= LOGSIZE
        BY <3>3, <3>4, <3>5, LogAssumption
      <3> QED
        BY <3>6, Zenon DEF Fits, begin_op, IInv, disk
    <2>7. Holders' /\ CleanSame'
      BY <2>1 DEF Holders, CleanSame, Unlogged, begin_op, IInv, disk, bufs, InOp
    <2>8. Pins' /\ Phases'
      BY <2>1, QuietStep DEF Pins, begin_op, Goto, IInv, bufs, Commits
    <2> QED
      BY <1>1, <2>5, <2>6, <2>7, <2>8 DEF IInv
  <1> QED
    BY <1>2, <1>3 DEF begin_op

\* bget() recycles the buffer of a block.
LEMMA Keeps_Recycle ==
  ASSUME IInv, NEW b \in Blocks, Recycle(b)
  PROVE  IInv'
  <1>1. TypeOK'
    BY Zenon DEF TypeOK, Recycle, IInv, disk, log
  <1>2. Fits'
    BY <1>1, FitsKept, Zenon DEF Recycle, disk, log
  <1>3. Alone'
    BY CountKept, Zenon DEF Alone, At, Recycle, IInv, log
  <1>4. Holders' /\ CleanSame'
    BY LogAssumption DEF Holders, CleanSame, Unlogged, Recycle, IInv, disk
  <1>5. Pins' /\ Phases'
    BY QuietStep DEF Pins, Recycle, IInv, log
  <1> QED
    BY <1>1, <1>2, <1>3, <1>4, <1>5 DEF IInv

\* The caller changes a block it has locked.
LEMMA Keeps_Modify ==
  ASSUME IInv, NEW p \in Procs, NEW b \in Blocks, NEW d \in Data, Modify(p, b, d)
  PROVE  IInv'
  <1>1. TypeOK'
    BY DEF TypeOK, PCs, Modify, Goto, IInv, disk, log, InOp
  <1>2. Fits'
    BY <1>1, FitsKept DEF Modify, Goto, disk, log, InOp
  <1>3. Alone'
    BY CountKept DEF Alone, At, Commits, Modify, Goto, IInv, log, InOp
  <1>4. Holders'
    BY LogAssumption DEF Holders, TypeOK, Modify, Goto, IInv, InOp
  <1>5. Unlogged(b)' /\ \A c \in Blocks : Unlogged(c) => Unlogged(c)'
    BY Zenon DEF Unlogged, TypeOK, Modify, Goto, IInv
  <1>6. CleanSame'
    BY <1>5 DEF CleanSame, Modify, IInv, disk
  <1>7. ~ At(Commits)
    BY Zenon DEF At, Alone, Modify, Goto, Commits, IInv, InOp
  <1>8. Pins' /\ Phases'
    BY <1>7, QuietStep, LogAssumption DEF Pins, Commits, Modify, Goto, IInv, log
  <1> QED
    BY <1>1, <1>2, <1>3, <1>4, <1>6, <1>8 DEF IInv

\* log_write() under log.lock: the block is absorbed, or appended at the
\* expense of the caller's credit, and pinned.
LEMMA Keeps_log_write ==
  ASSUME IInv, NEW p \in Procs, NEW b \in Blocks, log_write(p, b)
  PROVE  IInv'
  <1>0. /\ pc[p] = "checked" /\ pc' = [pc EXCEPT ![p] = "logged"] /\ owner[b] = p
        /\ b \in wrote[p] /\ buf[b] # NoData /\ lh \in Seq(Blocks) /\ Len(lh) \in Nat
    BY DEF log_write, Goto, Holders, TypeOK, IInv
  <1>1. TypeOK'
    <2>1. lh' \in Seq(Blocks) /\ dirty' \in SUBSET Blocks
      BY DEF TypeOK, log_write, IInv
    <2>2. pc' \in [Procs -> PCs]
      BY <1>0, Zenon DEF TypeOK, PCs, IInv, InOp
    <2> QED
      BY <2>2 DEF TypeOK, log_write, IInv, disk
  <1>2. Logged' = Logged \cup {b}
    <2>1. CASE b \in Logged
      BY DEF Logged, log_write
    <2>2. CASE b \notin Logged
      <3>1. /\ lh' = Append(lh, b) /\ Len(lh') = Len(lh) + 1 /\ lh'[Len(lh) + 1] = b
            /\ \A i \in 1..Len(lh) : lh'[i] = lh[i]
        BY <2>2 DEF log_write
      <3> QED
        BY <3>1 DEF Logged
    <2> QED
      BY <2>1, <2>2
  <1>3. Fits'
    <2>1. CASE b \in Logged
      BY <1>0, <1>1, <2>1, FitsKept DEF log_write, disk, InOp
    <2>2. CASE b \notin Logged
      <3> DEFINE used == [q \in Procs |-> Cardinality(wrote[q] \cap Logged)]
                 more == [q \in Procs |-> Cardinality(wrote[q] \cap (Logged \cup {b}))]
                 x == <<p, MAXOPBLOCKS - used[p]>>
      <3>1. ASSUME NEW q \in Procs
            PROVE  /\ used[q] \in Nat /\ more[q] \in Nat /\ used[q] <= more[q]
                   /\ IsFiniteSet(wrote[q]) /\ IsFiniteSet(wrote[q] \cap Logged)
        <4>1. IsFiniteSet(wrote[q])
          BY FS_Subset, LogAssumption, Zenon DEF TypeOK, IInv
        <4>2. IsFiniteSet(wrote[q] \cap Logged) /\ IsFiniteSet(wrote[q] \cap (Logged \cup {b}))
          BY <4>1, FS_Intersection, Zenon
        <4>3. wrote[q] \cap Logged \in SUBSET (wrote[q] \cap (Logged \cup {b}))
          OBVIOUS
        <4> QED
          BY <4>1, FS_Subset, FS_CardinalityType
      <3>2. more[p] = used[p] + 1
        <4>1. wrote[p] \cap (Logged \cup {b}) = (wrote[p] \cap Logged) \cup {b}
          BY <1>0
        <4>2. b \notin wrote[p] \cap Logged
          BY <2>2
        <4> QED
          BY <3>1, <4>1, <4>2, FS_AddElement, Zenon
      <3>3. more[p] <= MAXOPBLOCKS
        <4>1. wrote[p] \cap (Logged \cup {b}) \in SUBSET wrote[p]
          OBVIOUS
        <4>2. more[p] <= Cardinality(wrote[p]) /\ Cardinality(wrote[p]) \in Nat
          BY <3>1, FS_Subset, FS_CardinalityType, Zenon
        <4>3. Cardinality(wrote[p]) <= OpBlocks /\ more[p] \in Nat
          BY <3>1, Zenon DEF Holders, IInv
        <4> HIDE DEF more
        <4> QED
          BY <4>2, <4>3, LogAssumption
      <3>4. /\ Credit = {y \in Procs \X (1..MAXOPBLOCKS) :
                           pc[y[1]] \in InOp /\ y[2] <= MAXOPBLOCKS - used[y[1]]}
            /\ Credit' = {y \in Procs \X (1..MAXOPBLOCKS) :
                            pc'[y[1]] \in InOp /\ y[2] <= MAXOPBLOCKS - more[y[1]]}
        BY <1>2, Zenon DEF Credit, log_write
      <3>5. /\ used \in [Procs -> Nat] /\ more \in [Procs -> Nat]
            /\ \A q \in Procs : used[q] <= more[q] /\ (pc'[q] \in InOp => pc[q] \in InOp)
        BY <1>0, <3>1, Zenon DEF TypeOK, IInv, InOp
      <3> HIDE DEF used, more
      <3>6. Cardinality(Credit') <= Cardinality(Credit) - 1 /\ Cardinality(Credit') \in Nat
        <4>1. MAXOPBLOCKS - used[p] \in 1..MAXOPBLOCKS
          BY <3>2, <3>3, <3>5, LogAssumption
        <4>2. x \in Credit
          BY <1>0, <3>4, <4>1 DEF InOp
        <4>3. ASSUME NEW q \in Procs, NEW n \in 1..MAXOPBLOCKS, n <= MAXOPBLOCKS - more[q]
              PROVE  n <= MAXOPBLOCKS - used[q] /\ ~ (q = p /\ n = MAXOPBLOCKS - used[p])
          <5>1. used[q] \in Nat /\ more[q] \in Nat /\ used[q] <= more[q] /\ used[p] \in Nat
            BY <3>5
          <5> QED
            BY <3>2, <4>3, <5>1, LogAssumption
        <4>4. Credit' \in SUBSET (Credit \ {x})
          <5> SUFFICES ASSUME NEW y \in Credit' PROVE y \in Credit \ {x}
            OBVIOUS
          <5>1. /\ y[1] \in Procs /\ y[2] \in 1..MAXOPBLOCKS /\ y \in Procs \X (1..MAXOPBLOCKS)
                /\ pc'[y[1]] \in InOp /\ y[2] <= MAXOPBLOCKS - more[y[1]]
            BY <3>4, Zenon
          <5>2. y \in Credit
            BY <3>4, <3>5, <4>3, Zenon
          <5>3. y # x
            BY <4>3, <5>1
          <5> QED
            BY <5>2, <5>3
        <4> HIDE DEF x
        <4>5. IsFiniteSet(Credit \ {x}) /\ Cardinality(Credit \ {x}) = Cardinality(Credit) - 1
          BY <4>2, CreditFinite, FS_RemoveElement, Zenon
        <4> QED
          BY <4>4, <4>5, FS_Subset, FS_CardinalityType
      <3>7. /\ Len(lh') = Len(lh) + 1 /\ lh'[Len(lh) + 1] = b
            /\ \A i \in 1..Len(lh) : lh'[i] = lh[i] /\ lh[i] # b
        BY <2>2 DEF log_write, Logged
      <3>8. Distinct(lh')
        BY <3>7 DEF Distinct, Fits, IInv
      <3>9. Len(lh') + Cardinality(Credit') <= LOGSIZE
        BY <1>0, <3>6, <3>7, CreditFinite, LogAssumption DEF Fits, IInv, disk, InOp
      <3> QED
        BY <3>8, <3>9, Zenon DEF Fits, log_write, IInv, disk
    <2> QED
      BY <2>1, <2>2
  <1>4. Alone'
    BY <1>0, CountKept DEF Alone, At, Commits, log_write, IInv, InOp
  <1>5. Holders'
    BY <1>0 DEF Holders, log_write, IInv, InOp
  <1>6. CleanSame'
    <2>1. \A c \in Blocks : Unlogged(c) => Unlogged(c)' \/ c = b
      BY <1>0 DEF Unlogged, Holders, log_write, IInv
    <2> QED
      BY <2>1, Zenon DEF CleanSame, log_write, IInv, disk
  <1>7. ~ At(Commits) /\ ~ At(Commits)' /\ sys = "run" /\ sys' = sys
    BY DEF At, Alone, Commits, log_write, Goto, IInv, InOp
  <1>8. Pins'
    <2>1. Installed = {} /\ Installed' = {}
      BY <1>7, Zenon DEF Installed, At, Commits
    <2> QED
      BY <1>0, <1>2, <2>1, Zenon DEF Pins, log_write, IInv
  <1>9. Phases'
    BY <1>7, Zenon DEF Phases, At, Commits, log_write, IInv, disk
  <1> QED
    BY <1>1, <1>3, <1>4, <1>5, <1>6, <1>8, <1>9 DEF IInv

\* end_op() up to its first release(): the last call out begins the commit.
LEMMA Keeps_end_op ==
  ASSUME IInv, NEW p \in Procs, end_op(p)
  PROVE  IInv'
  <1>0. /\ pc[p] = "op" /\ sys = "run" /\ sys' = "run" /\ ~ committing /\ ~ At(Commits)
        /\ \A b \in Blocks : owner[b] # p
    BY Zenon DEF end_op, Alone, At, Commits, Holders, IInv, InOp
  <1>1. Active' = Active \ {p} /\ p \in Active
    BY DEF Active, end_op, Woken, TypeOK, IInv, InOp
  <1>2. IsFiniteSet(Active) /\ IsFiniteSet(Active')
    BY FS_Subset, LogAssumption, Zenon DEF Active
  <1>3. outstanding' = Cardinality(Active') /\ outstanding' \in Nat
    <2>1. Cardinality(Active \ {p}) = Cardinality(Active) - 1
      BY <1>1, <1>2, FS_RemoveElement
    <2>2. outstanding' = Cardinality(Active')
      BY <1>1, <2>1, Zenon DEF Alone, end_op, IInv
    <2> QED
      BY <1>2, <2>2, FS_CardinalityType
  <1>4. /\ \A q \in Procs \ {p} : pc'[q] = pc[q] \/ (pc[q] = "sleeping" /\ pc'[q] = "begin")
        /\ pc'[p] = IF outstanding' = 0 THEN "commit" ELSE "idle"
        /\ pc' \in [Procs -> PCs]
    BY DEF end_op, Woken, TypeOK, PCs, Commits, IInv, bufs
  <1>5. TypeOK'
    BY <1>3, <1>4, Zenon DEF TypeOK, end_op, IInv, disk, bufs
  <1>6. Fits'
    BY <1>4, <1>5, FitsKept DEF end_op, disk, InOp
  <1>7. Alone'
    <2>1. committing' <=> At(Commits)'
      BY <1>0, <1>4, Zenon DEF At, Commits, end_op
    <2>2. outstanding' = 0 => \A q \in Procs : pc'[q] \notin InOp
      BY <1>2, <1>3, FS_EmptySet, Zenon DEF Active
    <2>3. \A q \in Procs : pc'[q] \in Commits => q = p /\ outstanding' = 0
      BY <1>0, <1>4 DEF At, Commits
    <2> QED
      BY <1>3, <2>1, <2>2, <2>3 DEF Alone
  <1>8. Holders'
    <2>1. wrote'[p] = {} /\ Cardinality({}) = 0 /\ pc'[p] \notin InOp
      BY <1>4, FS_EmptySet, Zenon DEF end_op, TypeOK, IInv, InOp
    <2>2. \A q \in Procs \ {p} : wrote'[q] = wrote[q]
      BY DEF end_op
    <2> QED
      BY <1>4, <2>1, LogAssumption DEF Holders, end_op, IInv, bufs, InOp
  <1>9. CleanSame'
    <2>1. \A b \in Blocks : Unlogged(b) => Unlogged(b)'
      BY <1>4, Zenon DEF Unlogged, end_op, bufs
    <2> QED
      BY <2>1, Zenon DEF CleanSame, end_op, IInv, disk, bufs
  <1>10. \A S \in SUBSET (Commits \ {"commit"}) : ~ At(S) /\ ~ At(S)'
    BY <1>0, <1>4, Zenon DEF At, Commits
  <1>11. Pins'
    <2>1. Installed = {} /\ Installed' = {} /\ Logged' = Logged
      BY <1>10, Zenon DEF Installed, Commits, Logged, end_op
    <2> QED
      BY <2>1, Zenon DEF Pins, end_op, IInv, bufs
  <1>12. Phases'
    BY <1>10, Zenon DEF Phases, Commits, end_op, IInv, disk
  <1> QED
    BY <1>5, <1>6, <1>7, <1>8, <1>9, <1>11, <1>12 DEF IInv

\* The end of end_op() that committed.
LEMMA Keeps_end_commit ==
  ASSUME IInv, NEW p \in Procs, end_commit(p)
  PROVE  IInv'
  <1>1. /\ \A q \in Procs \ {p} : pc'[q] = pc[q] \/ (pc[q] = "sleeping" /\ pc'[q] = "begin")
        /\ pc[p] = "done" /\ pc'[p] = "idle" /\ pc' \in [Procs -> PCs]
    BY Zenon DEF end_commit, Woken, TypeOK, PCs, IInv
  <1>2. TypeOK'
    BY <1>1, Zenon DEF TypeOK, end_commit, IInv, disk, bufs
  <1>3. Fits'
    BY <1>1, <1>2, FitsKept, Zenon DEF end_commit, disk, InOp
  <1>4. \A q \in Procs : pc'[q] \notin Commits
    BY <1>1, Zenon DEF Alone, Commits, IInv
  <1>5. Alone'
    BY <1>1, <1>4, CountKept, Zenon DEF Alone, At, end_commit, InOp
  <1>6. Holders'
    <2>1. UNCHANGED <<owner, buf, wrote>>
      BY DEF end_commit, bufs
    <2>2. \A b \in Blocks : owner[b] # p
      BY <1>1, Zenon DEF Holders, IInv
    <2>3. \A q \in Procs : pc'[q] \notin InOp => pc[q] \notin InOp
      BY <1>1 DEF InOp
    <2>4. \A q \in Procs : pc[q] \in {"reading", "held", "modified", "checked", "logged"} =>
            pc'[q] = pc[q]
      BY <1>1
    <2> QED
      BY <1>1, <2>1, <2>2, <2>3, <2>4 DEF Holders, IInv
  <1>7. CleanSame'
    <2>1. \A b \in Blocks : Unlogged(b) => Unlogged(b)'
      BY <1>1, Zenon DEF Unlogged, end_commit, bufs
    <2> QED
      BY <2>1, Zenon DEF CleanSame, end_commit, IInv, disk, bufs
  <1>8. lh = <<>> /\ Logged = {} /\ Logged' = {} /\ head = <<>> /\ sys = "run"
    BY DEF Phases, At, Logged, end_commit, IInv
  <1>9. Pins'
    BY <1>8, Zenon DEF Pins, end_commit, IInv, bufs
  <1>10. Phases'
    BY <1>4, <1>8, Zenon DEF Phases, At, Commits, end_commit, disk
  <1> QED
    BY <1>2, <1>3, <1>5, <1>6, <1>7, <1>9, <1>10 DEF IInv
=============================================================================
