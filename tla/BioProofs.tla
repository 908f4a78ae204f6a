----------------------------- MODULE BioProofs -----------------------------
(***************************************************************************)
(* Proofs about the buffer cache: its books are right and bread() returns  *)
(* what was last stored, for any number of processes, buffers and blocks.  *)
(***************************************************************************)
EXTENDS Bio, FiniteSetTheorems, SequenceTheorems, WellFoundedInduction, TLAPS

Users(b) == {p \in Procs : cur[p] = b}

Queued(b) == \E i \in 1..Len(idequeue) : idequeue[i] = b

\* A process waits in iderw() for buffer b
Waited(b) == \E p \in Procs : pc[p] \in {"asleep", "woken"} /\ cur[p] = b /\ owner[b] = p

\* Every buffer is on the list, so the two searches of bget() see them all.
ListComplete == \A b \in Bufs : \E i \in Bufs : list[i] = b

Counted == \A b \in Bufs : refcnt[b] = Cardinality(Users(b))

\* What a process may rely on at each point of bread(), bwrite() and iderw()
Holding ==
  \A p \in Procs :
    /\ pc[p] = "idle" <=> cur[p] = NoBuf
    /\ cur[p] # NoBuf => blockno[cur[p]] # NoBlock
    /\ pc[p] \in {"rw", "asleep", "woken", "have"} => owner[cur[p]] = p
    /\ pc[p] = "have" => valid[cur[p]]
    /\ pc[p] = "rw" => ~ valid[cur[p]] \/ dirty[cur[p]]
    /\ pc[p] = "woken" => Queued(cur[p]) \/ (valid[cur[p]] /\ ~ dirty[cur[p]])

\* A request that is queued has still to be served.
QueuePending == \A b \in Bufs : Queued(b) => ~ valid[b] \/ dirty[b]

\* Where the latest contents of a block are: in its buffer if that is valid,
\* and on the disk unless that buffer is dirty
Contents ==
  /\ \A b \in Bufs :
       /\ dirty[b] => valid[b] /\ b \notin failed
       /\ valid[b] => blockno[b] # NoBlock
       /\ valid[b] /\ b \notin failed => data[b] = latest[blockno[b]]
  /\ \A k \in Blocks :
       (\A b \in Bufs : blockno[b] = k => ~ dirty[b]) => disk[k] = latest[k]

\* bget() panics only when every buffer is in use or pinned.
PanicJustified == panicked => \A b \in Bufs : dirty[b] \/ Users(b) # {}

IInv ==
  /\ TypeOK /\ ListComplete /\ OneBufferPerBlock /\ Counted /\ Holding
  /\ QueueOwned /\ QueuePending /\ Contents /\ PanicJustified
-----------------------------------------------------------------------------
\* The invariant is about the buffers and the processes: as long as these stay
\* as they are, only a panic has to be justified.
LEMMA SameKept ==
  ASSUME IInv,
         UNCHANGED <<list, blockno, refcnt, valid, dirty, data, owner, idequeue,
                     disk, pc, cur, latest, failed>>,
         panicked' \in BOOLEAN, panicked' => \A b \in Bufs : dirty[b] \/ Users(b) # {}
  PROVE  IInv'
  <1>1. TypeOK'
    BY Zenon DEF IInv, TypeOK
  <1>2. ListComplete' /\ OneBufferPerBlock'
    BY Zenon DEF IInv, ListComplete, OneBufferPerBlock
  <1>3. \A b : Users(b)' = Users(b) /\ Queued(b)' = Queued(b)
    BY Zenon DEF Users, Queued
  <1>4. Counted' /\ PanicJustified'
    BY <1>3, Zenon DEF IInv, Counted, PanicJustified
  <1>5. Holding' /\ QueuePending'
    BY <1>3, Zenon DEF IInv, Holding, QueuePending
  <1>6. QueueOwned'
    BY DEF IInv, QueueOwned
  <1>7. Contents'
    BY Zenon DEF IInv, Contents
  <1> QED
    BY <1>1, <1>2, <1>4, <1>5, <1>6, <1>7, Zenon DEF IInv

-----------------------------------------------------------------------------
(* The searches of bget(), and the list *)

\* A search from the front of the list ends at the first place it looks for.
LEMMA FirstPlace ==
  ASSUME NEW S, S \subseteq Bufs, S # {}
  PROVE  \E i \in S : \A j \in S : i <= j
  <1> DEFINE R == OpToRel(<, Nat)
  <1>1. S \subseteq Nat
    BY DEF Bufs
  <1>2. IsWellFoundedOn(R, Nat)
    BY NatLessThanWellFounded, Zenon
  <1>3. \A x, y \in Nat : <<y, x>> \in R <=> y < x
    BY DEF OpToRel
  <1> HIDE DEF R
  <1>4. PICK x \in S : \A y \in S : ~ (<<y, x>> \in R)
    BY <1>1, <1>2, WFMin, Zenon
  <1>5. ASSUME NEW y \in S PROVE x <= y
    <2>1. ~ (y < x)
      BY <1>1, <1>3, <1>4, Zenon
    <2> QED
      BY <1>1, <2>1
  <1> QED
    BY <1>5

\* A search from the back ends at the last one.
LEMMA LastPlace ==
  ASSUME NEW S, S \subseteq Bufs, S # {}
  PROVE  \E i \in S : \A j \in S : j <= i
  <1> DEFINE T == {NBUF + 1 - i : i \in S}
  <1>0. \A i \in Bufs : NBUF + 1 - i \in Bufs
    BY BioAssumption DEF Bufs
  <1>1. T \subseteq Bufs /\ T # {}
    BY <1>0, Zenon
  <1>2. PICK t \in T : \A j \in T : t <= j
    BY <1>1, FirstPlace, Zenon
  <1>3. PICK i \in S : t = NBUF + 1 - i
    OBVIOUS
  <1>4. ASSUME NEW j \in S PROVE j <= i
    <2>1. NBUF + 1 - j \in T
      BY Zenon
    <2>2. t <= NBUF + 1 - j
      BY <1>2, <2>1, Zenon
    <2>3. i \in Nat /\ j \in Nat /\ NBUF \in Nat
      BY BioAssumption DEF Bufs
    <2> QED
      BY <1>3, <2>2, <2>3
  <1> QED
    BY <1>4

\* The null pointer is no buffer.
LEMMA NoBufIsNone == NoBuf \notin Bufs
  BY DEF NoBuf, Bufs

\* brelse() puts b before the others and leaves no buffer out.
LEMMA ToFrontKeeps ==
  ASSUME TypeOK, ListComplete, NEW b \in Bufs
  PROVE  /\ ToFront(b) \in Seq(Bufs) /\ Len(ToFront(b)) = NBUF
         /\ \A i, j \in Bufs : ToFront(b)[i] = ToFront(b)[j] => i = j
         /\ \A c \in Bufs : \E i \in Bufs : ToFront(b)[i] = c
  <1> DEFINE at == CHOOSE i \in Bufs : list[i] = b
             old == <<b>> \o SubSeq(list, 1, at - 1)
             rest == SubSeq(list, at + 1, NBUF)
             new == old \o rest
  <1>1. at \in 1..NBUF /\ list[at] = b
    BY DEF ListComplete, Bufs
  <1>2. \A i \in 1..NBUF : list[i] \in Bufs
    BY DEF TypeOK
  <1> HIDE DEF at
  <1>3. /\ rest \in Seq(Bufs) /\ Len(rest) = NBUF - at
        /\ \A i \in 1..(NBUF - at) : rest[i] = list[at + i]
    <2>1. /\ SubSeq(list, at + 1, NBUF) \in Seq(Bufs)
          /\ Len(SubSeq(list, at + 1, NBUF)) = IF at + 1 <= NBUF THEN NBUF - (at + 1) + 1 ELSE 0
          /\ \A i \in 1..(NBUF - (at + 1) + 1) :
               SubSeq(list, at + 1, NBUF)[i] = list[(at + 1) + i - 1]
      BY <1>1, <1>2, BioAssumption
    <2> QED
      BY <1>1, <2>1
  <1>4. /\ old \in Seq(Bufs) /\ Len(old) = at
        /\ \A i \in 1..at : old[i] = IF i = 1 THEN b ELSE list[i - 1]
    <2> DEFINE init == SubSeq(list, 1, at - 1)
    <2>1. /\ init \in Seq(Bufs) /\ Len(init) = IF 1 <= at - 1 THEN (at - 1) - 1 + 1 ELSE 0
          /\ \A i \in 1..((at - 1) - 1 + 1) : init[i] = list[1 + i - 1]
      BY <1>1, <1>2, BioAssumption
    <2> HIDE DEF init
    <2>2. <<b>> \in Seq(Bufs) /\ Len(<<b>>) = 1 /\ <<b>>[1] = b
      OBVIOUS
    <2>3. /\ <<b>> \o init \in Seq(Bufs) /\ Len(<<b>> \o init) = 1 + Len(init)
          /\ \A i \in 1..1 + Len(init) : (<<b>> \o init)[i] = IF i <= 1 THEN <<b>>[i] ELSE init[i - 1]
      BY <2>1
    <2>4. Len(init) = at - 1 /\ \A i \in 1..(at - 1) : init[i] = list[i]
      BY <1>1, <2>1
    <2>5. <<b>> \o init \in Seq(Bufs) /\ Len(<<b>> \o init) = at
      BY <1>1, <2>3, <2>4
    <2>6. ASSUME NEW i \in 1..at
          PROVE  (<<b>> \o init)[i] = IF i = 1 THEN b ELSE list[i - 1]
      BY <1>1, <2>4
    <2> QED
      BY <2>5 DEF init
  <1> HIDE DEF old, rest
  <1>5. /\ new \in Seq(Bufs) /\ Len(new) = Len(old) + Len(rest)
        /\ \A i \in 1..Len(old) + Len(rest) :
             new[i] = IF i <= Len(old) THEN old[i] ELSE rest[i - Len(old)]
    <2>1. old \in Seq(Bufs) /\ rest \in Seq(Bufs)
      BY <1>3, <1>4
    <2> QED
      BY <2>1, ConcatProperties, Zenon
  <1> HIDE DEF new
  <1>6. ASSUME NEW i \in Bufs
        PROVE  new[i] = IF i = 1 THEN b ELSE IF i <= at THEN list[i - 1] ELSE list[i]
    <2>1. i \in 1..Len(old) + Len(rest)
      BY <1>3, <1>4, BioAssumption DEF Bufs
    <2>2. new[i] = IF i <= Len(old) THEN old[i] ELSE rest[i - Len(old)]
      BY <1>5, <2>1
    <2>3. CASE i <= at
      BY <1>4, <2>2, <2>3 DEF Bufs
    <2>4. CASE i > at
      <3>1. i - at \in 1..(NBUF - at) /\ at + (i - at) = i /\ ~ (i <= at) /\ i # 1
        BY <1>1, <2>4, BioAssumption DEF Bufs
      <3> QED
        BY <1>3, <1>4, <2>2, <3>1
    <2> QED
      BY <1>1, <2>3, <2>4 DEF Bufs
  <1>7. ASSUME NEW i \in Bufs, NEW j \in Bufs, new[i] = new[j] PROVE i = j
    <2> DEFINE from(k) == IF k = 1 THEN at ELSE IF k <= at THEN k - 1 ELSE k
    <2>1. \A k \in Bufs : from(k) \in Bufs /\ new[k] = list[from(k)]
      BY <1>1, <1>6, BioAssumption DEF Bufs
    <2> HIDE DEF from
    <2>2. from(i) = from(j)
      <3>1. \A u, v \in Bufs : list[u] = list[v] => u = v
        BY Zenon DEF TypeOK
      <3> QED
        BY <1>7, <2>1, <3>1, Zenon
    <2> QED
      BY <1>1, <2>2 DEF Bufs, from
  <1>8. ASSUME NEW c \in Bufs PROVE \E i \in Bufs : new[i] = c
    <2>1. PICK j \in Bufs : list[j] = c
      BY DEF ListComplete
    <2>2. CASE j = at
      BY <1>1, <1>6, <2>1, BioAssumption DEF Bufs
    <2>3. CASE j < at
      <3>1. j + 1 \in Bufs /\ j + 1 # 1 /\ j + 1 <= at /\ (j + 1) - 1 = j
        BY <1>1, <2>3, BioAssumption DEF Bufs
      <3> QED
        BY <1>6, <2>1, <3>1
    <2>4. CASE j > at
      <3>1. j # 1 /\ ~ (j <= at)
        BY <1>1, <2>4 DEF Bufs
      <3> QED
        BY <1>6, <2>1, <3>1
    <2> QED
      BY <1>1, <2>2, <2>3, <2>4 DEF Bufs
  <1>9. ToFront(b) = new
    BY DEF ToFront, at, old, rest, new
  <1>10. Len(new) = NBUF
    BY <1>3, <1>4, <1>5, BioAssumption
  <1> QED
    BY <1>5, <1>7, <1>8, <1>9, <1>10

-----------------------------------------------------------------------------
(* What the steps keep *)

\* A step that leaves the list, b->blockno, b->refcnt and the buffers the
\* processes work on alone keeps the books.
LEMMA BooksKept ==
  ASSUME IInv, UNCHANGED <<cache, cur>>
  PROVE  ListComplete' /\ OneBufferPerBlock' /\ Counted'
  BY DEF IInv, cache, ListComplete, OneBufferPerBlock, Counted, Users

\* Who sleeps in iderw() has a request in the queue, and a request has
\* somebody who waits for it.
LEMMA QueueFacts ==
  ASSUME QueueOwned
  PROVE  /\ \A b : Queued(b) => Waited(b)
         /\ \A p \in Procs : pc[p] = "asleep" => Queued(cur[p])
  BY DEF QueueOwned, Queued, Waited

\* A step that leaves the queue alone keeps it in order.
LEMMA QueueKept ==
  ASSUME QueueOwned, UNCHANGED idequeue,
         \A b : Queued(b) /\ Waited(b) => Waited(b)',
         \A p \in Procs : pc'[p] = "asleep" => Queued(cur'[p])
  PROVE  QueueOwned'
  <1>1. \A i \in 1..Len(idequeue) : Waited(idequeue[i])'
    BY QueueFacts DEF Queued
  <1>2. \A i \in 1..Len(idequeue) : \E p \in Procs :
          pc'[p] \in {"asleep", "woken"} /\ cur'[p] = idequeue[i] /\ owner'[cur'[p]] = p
    BY <1>1 DEF Waited
  <1>3. \A p \in Procs : pc'[p] = "asleep" => \E i \in 1..Len(idequeue) : idequeue[i] = cur'[p]
    BY DEF Queued
  <1> QED
    BY <1>2, <1>3 DEF QueueOwned

\* acquiresleep() of bget(), and the test of bread().
LEMMA Keeps_bread ==
  ASSUME IInv, NEW p \in Procs, bread(p)
  PROVE  IInv'
  <1>1. TypeOK'
    BY Zenon DEF TypeOK, bread, Goto, cache, IInv, flags
  <1>2. ListComplete' /\ OneBufferPerBlock' /\ Counted'
    BY BooksKept, Zenon DEF bread
  <1>3. PanicJustified'
    BY Zenon DEF PanicJustified, bread, Goto
  <1>4. \A b : Queued(b)' <=> Queued(b)
    BY Zenon DEF Queued, bread
  <1>5. Holding'
    BY <1>4, BioAssumption DEF Holding, TypeOK, bread, Goto, cache, IInv, flags
  <1>6. QueueOwned'
    <2>1. \A b : Waited(b) => Waited(b)'
      BY BioAssumption DEF Waited, bread, Goto
    <2>2. \A q \in Procs : pc'[q] = "asleep" => Queued(cur'[q])
      BY QueueFacts DEF bread, Goto, IInv
    <2> QED
      BY <2>1, <2>2, QueueKept, Zenon DEF bread, IInv
  <1>7. QueuePending'
    BY <1>4, Zenon DEF QueuePending, bread, IInv, flags
  <1>8. Contents'
    BY Zenon DEF Contents, bread, cache, IInv, flags
  <1> QED
    BY <1>1, <1>2, <1>3, <1>5, <1>6, <1>7, <1>8 DEF IInv

\* releasesleep() of brelse().
LEMMA Keeps_brelse ==
  ASSUME IInv, NEW p \in Procs, brelse(p)
  PROVE  IInv'
  <1>1. TypeOK'
    BY Zenon DEF TypeOK, brelse, Goto, cache, IInv, flags
  <1>2. ListComplete' /\ OneBufferPerBlock' /\ Counted'
    BY BooksKept DEF brelse
  <1>3. PanicJustified'
    BY DEF PanicJustified, brelse, Goto
  <1>4. \A b : Queued(b)' <=> Queued(b)
    BY DEF Queued, brelse
  <1>5. Holding'
    BY <1>4 DEF Holding, TypeOK, brelse, Goto, cache, IInv, flags
  <1>6. QueueOwned'
    <2>1. \A b : Waited(b) => Waited(b)'
      BY DEF Waited, Holding, brelse, Goto, IInv
    <2>2. \A q \in Procs : pc'[q] = "asleep" => Queued(cur'[q])
      BY QueueFacts DEF brelse, Goto, IInv
    <2> QED
      BY <2>1, <2>2, QueueKept, Zenon DEF brelse, IInv
  <1>7. QueuePending'
    BY <1>4, Zenon DEF QueuePending, brelse, IInv, flags
  <1>8. Contents'
    BY Zenon DEF Contents, brelse, cache, IInv, flags
  <1> QED
    BY <1>1, <1>2, <1>3, <1>5, <1>6, <1>7, <1>8 DEF IInv

\* The loop of iderw() is left, or goes on.
LEMMA Keeps_iderw_done ==
  ASSUME IInv, NEW p \in Procs, iderw_done(p)
  PROVE  IInv'
  <1>1. TypeOK'
    BY Zenon DEF TypeOK, iderw_done, Goto, cache, IInv, flags
  <1>2. ListComplete' /\ OneBufferPerBlock' /\ Counted'
    BY BooksKept DEF iderw_done
  <1>3. PanicJustified'
    BY Zenon DEF PanicJustified, iderw_done, Goto
  <1>4. \A b : Queued(b)' <=> Queued(b)
    BY Zenon DEF Queued, iderw_done
  <1>5. Holding'
    BY <1>4 DEF Holding, iderw_done, Goto, cache, IInv, flags
  <1>6. QueueOwned'
    <2>1. \A b : Queued(b) /\ Waited(b) => Waited(b)'
      BY DEF Waited, QueuePending, Holding, TypeOK, iderw_done, Goto, IInv
    <2>2. \A q \in Procs : pc'[q] = "asleep" => Queued(cur'[q])
      BY QueueFacts DEF Holding, iderw_done, Goto, IInv
    <2> QED
      BY <2>1, <2>2, QueueKept, Zenon DEF iderw_done, IInv
  <1>7. QueuePending'
    BY <1>4, Zenon DEF QueuePending, iderw_done, IInv, flags
  <1>8. Contents'
    BY Zenon DEF Contents, iderw_done, cache, IInv, flags
  <1> QED
    BY <1>1, <1>2, <1>3, <1>5, <1>6, <1>7, <1>8 DEF IInv

\* kill() of a process that waits for the disk.
LEMMA Keeps_kill ==
  ASSUME IInv, NEW p \in Procs, kill(p)
  PROVE  IInv'
  <1>1. TypeOK'
    BY Zenon DEF TypeOK, kill, Goto, cache, IInv, flags
  <1>2. ListComplete' /\ OneBufferPerBlock' /\ Counted'
    BY BooksKept DEF kill
  <1>3. PanicJustified'
    BY DEF PanicJustified, kill, Goto
  <1>4. \A b : Queued(b)' <=> Queued(b)
    BY DEF Queued, kill
  <1>5. Holding'
    BY <1>4, QueueFacts DEF Holding, kill, Goto, cache, IInv, flags
  <1>6. QueueOwned'
    <2>1. \A b : Waited(b) => Waited(b)'
      BY DEF Waited, kill, Goto
    <2>2. \A q \in Procs : pc'[q] = "asleep" => Queued(cur'[q])
      BY QueueFacts DEF kill, Goto, IInv
    <2> QED
      BY <2>1, <2>2, QueueKept, Zenon DEF kill, IInv
  <1>7. QueuePending'
    BY <1>4, Zenon DEF QueuePending, kill, IInv, flags
  <1>8. Contents'
    BY Zenon DEF Contents, kill, cache, IInv, flags
  <1> QED
    BY <1>1, <1>2, <1>3, <1>5, <1>6, <1>7, <1>8 DEF IInv

\* A store and bwrite().
LEMMA Keeps_bwrite ==
  ASSUME IInv, NEW p \in Procs, NEW d \in Data, bwrite(p, d)
  PROVE  IInv'
  <1>1. TypeOK'
    BY Zenon DEF TypeOK, bwrite, Goto, cache, IInv
  <1>2. ListComplete' /\ OneBufferPerBlock' /\ Counted'
    BY BooksKept, Zenon DEF bwrite
  <1>3. PanicJustified'
    BY Zenon DEF PanicJustified, bwrite, Goto
  <1>4. \A b : Queued(b)' <=> Queued(b)
    BY Zenon DEF Queued, bwrite
  <1>5. Holding'
    BY <1>4 DEF Holding, TypeOK, bwrite, Goto, cache, IInv
  <1>6. QueueOwned'
    <2>1. \A b : Waited(b) => Waited(b)'
      BY DEF Waited, bwrite, Goto
    <2>2. \A q \in Procs : pc'[q] = "asleep" => Queued(cur'[q])
      BY QueueFacts DEF bwrite, Goto, IInv
    <2> QED
      BY <2>1, <2>2, QueueKept, Zenon DEF bwrite, IInv
  <1>7. QueuePending'
    BY <1>4 DEF QueuePending, bwrite, IInv
  <1>8. Contents'
    BY DEF Contents, Holding, OneBufferPerBlock, TypeOK, bwrite, Goto, cache, IInv
  <1> QED
    BY <1>1, <1>2, <1>3, <1>5, <1>6, <1>7, <1>8 DEF IInv

\* A store and log_write().
LEMMA Keeps_log_write ==
  ASSUME IInv, NEW p \in Procs, NEW d \in Data, log_write(p, d)
  PROVE  IInv'
  <1>1. TypeOK'
    BY Zenon DEF TypeOK, log_write, Goto, cache, IInv
  <1>2. ListComplete' /\ OneBufferPerBlock' /\ Counted'
    BY BooksKept, Zenon DEF log_write
  <1>3. PanicJustified'
    BY Zenon DEF PanicJustified, log_write, Goto
  <1>4. \A b : Queued(b)' <=> Queued(b)
    BY Zenon DEF Queued, log_write
  <1>5. Holding'
    BY <1>4 DEF Holding, log_write, Goto, cache, IInv
  <1>6. QueueOwned'
    <2>1. \A b : Waited(b) => Waited(b)'
      BY DEF Waited, log_write, Goto
    <2>2. \A q \in Procs : pc'[q] = "asleep" => Queued(cur'[q])
      BY QueueFacts DEF log_write, Goto, IInv
    <2> QED
      BY <2>1, <2>2, QueueKept, Zenon DEF log_write, IInv
  <1>7. QueuePending'
    BY <1>4 DEF QueuePending, log_write, IInv
  <1>8. Contents'
    BY DEF Contents, Holding, OneBufferPerBlock, TypeOK, log_write, Goto, cache, IInv
  <1> QED
    BY <1>1, <1>2, <1>3, <1>5, <1>6, <1>7, <1>8 DEF IInv

\* The request is queued by iderw().
LEMMA Keeps_iderw ==
  ASSUME IInv, NEW p \in Procs, iderw(p)
  PROVE  IInv'
  <1> DEFINE b == cur[p]
  <1>0. b \in Bufs /\ owner[b] = p
    BY Zenon DEF Holding, TypeOK, iderw, Goto, IInv
  <1>1. TypeOK'
    BY <1>0 DEF TypeOK, iderw, Goto, cache, IInv, flags
  <1>2. ListComplete' /\ OneBufferPerBlock' /\ Counted'
    BY BooksKept DEF iderw
  <1>3. PanicJustified'
    BY DEF PanicJustified, iderw, Goto
  <1>4. /\ Len(idequeue') = Len(idequeue) + 1 /\ idequeue'[Len(idequeue) + 1] = b
        /\ \A i \in 1..Len(idequeue) : idequeue'[i] = idequeue[i]
    BY DEF iderw
  <1>5. \A c : Queued(c)' <=> Queued(c) \/ c = b
    <2>1. Len(idequeue) \in Nat
      OBVIOUS
    <2> QED
      BY <1>4 DEF Queued
  <1>6. Holding'
    BY <1>5 DEF Holding, iderw, Goto, cache, IInv, flags
  <1>7. ~ Queued(b)
    <2>1. pc[p] = "rw"
      BY DEF iderw, Goto
    <2> QED
      BY <1>0, <2>1, QueueFacts DEF Waited, IInv
  <1>8. QueueOwned'
    <2>1. \A c : Waited(c) => Waited(c)'
      BY DEF Waited, iderw, Goto
    <2>2. \A q \in Procs : pc'[q] = "asleep" => Queued(cur[q])'
      BY <1>5, QueueFacts DEF iderw, Goto, IInv
    <2>3. \A i, j \in 1..Len(idequeue') : idequeue'[i] = idequeue'[j] => i = j
      <3>1. Len(idequeue) \in Nat
        OBVIOUS
      <3> QED
        BY <1>4, <1>7 DEF Queued, QueueOwned, IInv
    <2>4. \A i \in 1..Len(idequeue') : \E q \in Procs :
            pc'[q] \in {"asleep", "woken"} /\ cur'[q] = idequeue'[i] /\ owner'[cur'[q]] = q
      <3>1. \A i \in 1..Len(idequeue) : Waited(idequeue[i])
        BY QueueFacts DEF Queued, IInv
      <3>2. \A i \in 1..Len(idequeue) : \E q \in Procs :
              pc'[q] \in {"asleep", "woken"} /\ cur'[q] = idequeue[i] /\ owner'[cur'[q]] = q
        BY <2>1, <3>1 DEF Waited
      <3>3. \E q \in Procs : pc'[q] \in {"asleep", "woken"} /\ cur'[q] = b /\ owner'[cur'[q]] = q
        BY <1>0, Zenon DEF TypeOK, iderw, Goto, IInv
      <3>4. \A i \in 1..Len(idequeue') : i \in 1..Len(idequeue) \/ i = Len(idequeue) + 1
        BY <1>4
      <3> QED
        BY <1>4, <3>2, <3>3
    <2>5. \A q \in Procs : pc'[q] = "asleep" => \E i \in 1..Len(idequeue') : idequeue'[i] = cur'[q]
      BY <2>2 DEF Queued
    <2> QED
      BY <2>3, <2>4, <2>5 DEF QueueOwned
  <1>9. QueuePending'
    BY <1>5, Zenon DEF QueuePending, Holding, iderw, Goto, IInv, flags
  <1>10. Contents'
    BY Zenon DEF Contents, iderw, cache, IInv, flags
  <1> QED
    BY <1>1, <1>2, <1>3, <1>6, <1>8, <1>9, <1>10 DEF IInv

\* The disk interrupt.
LEMMA Keeps_ideintr ==
  ASSUME IInv, ideintr
  PROVE  IInv'
  <1> DEFINE b == Head(idequeue)
  <1>0. /\ b \in Bufs /\ idequeue # <<>> /\ Len(idequeue) \in Nat \ {0}
        /\ idequeue[1] = b /\ idequeue' \in Seq(Bufs) /\ Len(idequeue') = Len(idequeue) - 1
        /\ \A i \in 1..Len(idequeue') : idequeue'[i] = idequeue[i + 1]
    BY DEF TypeOK, ideintr, IInv
  <1>1. Queued(b) /\ \A c : Queued(c)' <=> Queued(c) /\ c # b
    <2>1. Queued(b)
      BY <1>0 DEF Queued
    <2>2. ASSUME NEW c, Queued(c)' PROVE Queued(c) /\ c # b
      <3>1. PICK i \in 1..Len(idequeue') : idequeue'[i] = c
        BY <2>2 DEF Queued
      <3>2. i + 1 \in 1..Len(idequeue) /\ idequeue[i + 1] = c /\ i + 1 # 1 /\ 1 \in 1..Len(idequeue)
        BY <1>0, <3>1
      <3> QED
        BY <3>2 DEF Queued, QueueOwned, IInv
    <2>3. ASSUME NEW c, Queued(c), c # b PROVE Queued(c)'
      <3>1. PICK i \in 1..Len(idequeue) : idequeue[i] = c
        BY <2>3 DEF Queued
      <3>2. i - 1 \in 1..Len(idequeue') /\ idequeue'[i - 1] = c
        BY <1>0, <2>3, <3>1
      <3> QED
        BY <3>2 DEF Queued
    <2> QED
      BY <2>1, <2>2, <2>3
  <1>2. PICK p \in Procs : pc[p] \in {"asleep", "woken"} /\ cur[p] = b /\ owner[b] = p
    BY <1>1, QueueFacts, Zenon DEF Waited, IInv
  <1>3. blockno[b] \in Blocks
    BY <1>2 DEF Holding, TypeOK, IInv
  <1>4. TypeOK'
    <2>1. disk' \in [Blocks -> Data] /\ data' \in [Bufs -> Data]
      <3>1. data[b] \in Data /\ disk[blockno[b]] \in Data
        BY <1>0, <1>3, Zenon DEF TypeOK, IInv
      <3>2. /\ disk' = disk \/ disk' = [disk EXCEPT ![blockno[b]] = data[b]]
            /\ data' = data \/ data' = [data EXCEPT ![b] = disk[blockno[b]]]
        BY Zenon DEF ideintr
      <3> HIDE DEF b
      <3> QED
        BY <3>1, <3>2, Zenon DEF TypeOK, IInv
    <2>2. valid' \in [Bufs -> BOOLEAN] /\ dirty' \in [Bufs -> BOOLEAN]
      BY Zenon DEF TypeOK, ideintr, Clean, IInv
    <2>3. pc' \in [Procs -> {"idle", "lock", "rw", "asleep", "woken", "have", "release"}]
      BY Zenon DEF TypeOK, ideintr, Woken, IInv
    <2>4. failed' \subseteq Bufs
      BY <1>0 DEF TypeOK, ideintr, IInv
    <2>5. latest' \in [Blocks -> Data]
      <3>1. latest' = latest \/ latest' = [latest EXCEPT ![blockno[b]] = disk[blockno[b]]]
        BY Zenon DEF ideintr
      <3> HIDE DEF b
      <3> QED
        BY <1>3, <3>1, Zenon DEF TypeOK, IInv
    <2> QED
      BY <1>0, <2>1, <2>2, <2>3, <2>4, <2>5, Zenon DEF TypeOK, ideintr, cache, IInv
  <1>5. ListComplete' /\ OneBufferPerBlock' /\ Counted'
    BY BooksKept, Zenon DEF ideintr
  <1>6. PanicJustified'
    BY Zenon DEF PanicJustified, ideintr
  <1>7. Holding'
    <2>1. \A q \in Procs : pc[q] = "have" \/ pc[q] = "rw" => cur[q] # b
      BY <1>2, Zenon DEF Holding, IInv
    <2>2. valid'[b] /\ ~ dirty'[b] /\ \A c \in Bufs \ {b} : valid'[c] = valid[c] /\ dirty'[c] = dirty[c]
      BY <1>0, Zenon DEF TypeOK, ideintr, Clean, IInv
    <2>3. UNCHANGED <<cur, blockno, owner>>
      BY Zenon DEF ideintr, cache
    <2> SUFFICES ASSUME NEW q \in Procs
                 PROVE  /\ pc'[q] = "idle" <=> cur[q] = NoBuf
                        /\ cur[q] # NoBuf => blockno[cur[q]] # NoBlock
                        /\ pc'[q] \in {"rw", "asleep", "woken", "have"} => owner[cur[q]] = q
                        /\ pc'[q] = "have" => valid'[cur[q]]
                        /\ pc'[q] = "rw" => ~ valid'[cur[q]] \/ dirty'[cur[q]]
                        /\ pc'[q] = "woken" =>
                             Queued(cur[q])' \/ (valid'[cur[q]] /\ ~ dirty'[cur[q]])
      BY <2>3, Zenon DEF Holding
    <2>4. CASE pc[q] = "asleep" /\ cur[q] = b
      <3>1. pc'[q] = "woken"
        BY <2>4, Zenon DEF ideintr, Woken
      <3> QED
        BY <2>2, <2>4, <3>1, Zenon DEF Holding, IInv
    <2>5. CASE ~ (pc[q] = "asleep" /\ cur[q] = b)
      <3>1. pc'[q] = pc[q] /\ cur[q] \in Bufs \cup {NoBuf}
        BY <2>5, Zenon DEF TypeOK, ideintr, Woken, IInv
      <3> QED
        BY <1>1, <2>1, <2>2, <2>3, <3>1 DEF Holding, IInv
    <2> QED
      BY <2>4, <2>5, Zenon
  <1>8. QueueOwned'
    <2>1. \A c : Waited(c) => Waited(c)'
      BY Zenon DEF Waited, ideintr, Woken
    <2>2. \A i \in 1..Len(idequeue') : Waited(idequeue[i])'
      BY <1>1, <2>1, QueueFacts, BioAssumption, Zenon DEF Queued, IInv
    <2>3. \A i \in 1..Len(idequeue') : \E q \in Procs :
            pc'[q] \in {"asleep", "woken"} /\ cur'[q] = idequeue'[i] /\ owner'[cur'[q]] = q
      BY <2>2 DEF Waited
    <2>4. \A q \in Procs : pc'[q] = "asleep" => Queued(cur[q])'
      BY <1>1, QueueFacts, Zenon DEF ideintr, Woken, IInv
    <2>5. \A q \in Procs : pc'[q] = "asleep" => \E i \in 1..Len(idequeue') : idequeue'[i] = cur'[q]
      BY <2>4 DEF Queued
    <2>6. ASSUME NEW i \in 1..Len(idequeue'), NEW j \in 1..Len(idequeue'), idequeue'[i] = idequeue'[j]
          PROVE  i = j
      <3>1. i + 1 \in 1..Len(idequeue) /\ j + 1 \in 1..Len(idequeue)
            /\ idequeue[i + 1] = idequeue[j + 1]
        BY <1>0, <2>6
      <3>2. i + 1 = j + 1
        BY <3>1, Zenon DEF QueueOwned, IInv
      <3> QED
        BY <3>2
    <2> QED
      BY <2>3, <2>5, <2>6 DEF QueueOwned
  <1>9. QueuePending'
    BY <1>1 DEF QueuePending, ideintr, Clean, IInv
  <1>10. Contents'
    <2>1. \A c \in Bufs : blockno[c] = blockno[b] => c = b
      BY <1>0, <1>3, BioAssumption DEF OneBufferPerBlock, IInv
    <2>2. /\ valid' = [valid EXCEPT ![b] = TRUE] /\ dirty' = [dirty EXCEPT ![b] = FALSE]
          /\ UNCHANGED blockno
      BY Zenon DEF ideintr, Clean, cache
    <2>3. CASE dirty[b]
      <3>1. CASE /\ disk' = [disk EXCEPT ![blockno[b]] = data[b]]
                 /\ UNCHANGED <<data, latest, failed>>
        BY <1>0, <1>3, <2>1, <2>2, <2>3, <3>1 DEF Contents, TypeOK, IInv
      <3>2. CASE /\ failed' = failed \cup {b}
                 /\ latest' = [latest EXCEPT ![blockno[b]] = disk[blockno[b]]]
                 /\ UNCHANGED <<data, disk>>
        BY <1>0, <1>3, <2>1, <2>2, <2>3, <3>2 DEF Contents, TypeOK, IInv
      <3> QED
        BY <2>3, <3>1, <3>2, Zenon DEF ideintr
    <2>4. CASE ~ dirty[b]
      <3>1. disk[blockno[b]] = latest[blockno[b]]
        BY <1>3, <2>1, <2>4, Zenon DEF Contents, IInv
      <3> QED
        BY <1>3, <3>1, BioAssumption DEF Contents, TypeOK, ideintr, Clean, cache, IInv
    <2> QED
      BY <2>3, <2>4
  <1> QED
    BY <1>4, <1>5, <1>6, <1>7, <1>8, <1>9, <1>10 DEF IInv

-----------------------------------------------------------------------------
(* The steps that count *)

\* A process takes a reference: the users of the buffer are one more.
LEMMA OneMore ==
  ASSUME IInv, NEW p \in Procs, NEW b \in Bufs, cur[p] = NoBuf,
         cur' = [cur EXCEPT ![p] = b], refcnt' = [refcnt EXCEPT ![b] = @ + 1]
  PROVE  Counted' /\ refcnt' \in [Bufs -> 0..Cardinality(Procs)]
  <1>1. Users(b)' = Users(b) \cup {p} /\ p \notin Users(b)
    BY NoBufIsNone DEF Users, IInv, TypeOK
  <1>2. \A c \in Bufs \ {b} : Users(c)' = Users(c)
    BY NoBufIsNone DEF Users
  <1>3. IsFiniteSet(Users(b)) /\ Cardinality(Users(b)) \in Nat
    BY FS_Subset, FS_CardinalityType, BioAssumption, Zenon DEF Users
  <1>4. Cardinality(Users(b)') = Cardinality(Users(b)) + 1
    BY <1>1, <1>3, FS_AddElement, Zenon
  <1>5. Cardinality(Users(b)') <= Cardinality(Procs) /\ Cardinality(Procs) \in Nat
    <2>1. Users(b)' \in SUBSET Procs
      BY DEF Users
    <2> QED
      BY <2>1, FS_Subset, FS_CardinalityType, BioAssumption, Zenon
  <1>6. Counted'
    <2>1. refcnt'[b] = Cardinality(Users(b)')
      BY <1>4, Zenon DEF Counted, IInv, TypeOK
    <2>2. ASSUME NEW c \in Bufs \ {b} PROVE refcnt'[c] = Cardinality(Users(c)')
      BY <1>2 DEF Counted, IInv
    <2> QED
      BY <2>1, <2>2 DEF Counted
  <1> QED
    BY <1>5, <1>6 DEF Counted, IInv, TypeOK

\* A process gives its reference back: the users of the buffer are one less.
LEMMA OneLess ==
  ASSUME IInv, NEW p \in Procs, NEW b \in Bufs, cur[p] = b,
         cur' = [cur EXCEPT ![p] = NoBuf], refcnt' = [refcnt EXCEPT ![b] = @ - 1]
  PROVE  Counted' /\ refcnt' \in [Bufs -> 0..Cardinality(Procs)]
  <1>1. Users(b)' = Users(b) \ {p} /\ p \in Users(b)
    BY NoBufIsNone, Zenon DEF Users, IInv, TypeOK
  <1>2. \A c \in Bufs \ {b} : Users(c)' = Users(c)
    BY NoBufIsNone DEF Users
  <1>3. IsFiniteSet(Users(b)) /\ Cardinality(Users(b)) \in Nat
    BY FS_Subset, FS_CardinalityType, BioAssumption, Zenon DEF Users
  <1>4. Cardinality(Users(b)') = Cardinality(Users(b)) - 1
    <2>1. Cardinality(Users(b) \ {p}) = Cardinality(Users(b)) - 1
      BY <1>1, <1>3, FS_RemoveElement, Zenon
    <2> QED
      BY <1>1, <2>1
  <1>5. Cardinality(Users(b)) # 0 /\ Cardinality(Procs) \in Nat
    BY <1>1, <1>3, FS_EmptySet, FS_CardinalityType, BioAssumption, Zenon
  <1>6. Counted'
    <2>1. refcnt'[b] = Cardinality(Users(b)')
      BY <1>4, Zenon DEF Counted, IInv, TypeOK
    <2>2. ASSUME NEW c \in Bufs \ {b} PROVE refcnt'[c] = Cardinality(Users(c)')
      BY <1>2 DEF Counted, IInv
    <2> QED
      BY <2>1, <2>2 DEF Counted
  <1> QED
    BY <1>5, <1>6 DEF Counted, IInv, TypeOK

\* refcnt is 0 when, and only when, nobody uses the buffer.
LEMMA UnusedIsZero ==
  ASSUME IInv, NEW b \in Bufs
  PROVE  refcnt[b] = 0 <=> Users(b) = {}
  <1>1. IsFiniteSet(Users(b))
    BY BioAssumption, FS_Subset DEF Users
  <1> QED
    BY <1>1, FS_EmptySet DEF IInv, Counted

\* The second half of brelse(), under bcache.lock.
LEMMA Keeps_brelse_put ==
  ASSUME IInv, NEW p \in Procs, brelse_put(p)
  PROVE  IInv'
  <1> DEFINE b == cur[p]
  <1>0. b \in Bufs
    BY Zenon DEF Holding, TypeOK, brelse_put, Goto, IInv
  <1>1. Counted' /\ refcnt' \in [Bufs -> 0..Cardinality(Procs)]
    BY <1>0, OneLess, Zenon DEF brelse_put
  <1>2. /\ list' \in Seq(Bufs) /\ Len(list') = NBUF
        /\ \A i, j \in Bufs : list'[i] = list'[j] => i = j
        /\ ListComplete'
    <2>1. CASE list' = ToFront(b)
      <3>1. /\ ToFront(b) \in Seq(Bufs) /\ Len(ToFront(b)) = NBUF
            /\ \A i, j \in Bufs : ToFront(b)[i] = ToFront(b)[j] => i = j
            /\ \A c \in Bufs : \E i \in Bufs : ToFront(b)[i] = c
        BY <1>0, ToFrontKeeps, Zenon DEF IInv
      <3> QED
        BY <2>1, <3>1, Zenon DEF ListComplete
    <2>2. CASE list' = list
      BY <2>2, Zenon DEF TypeOK, ListComplete, IInv
    <2> QED
      BY <2>1, <2>2, Zenon DEF brelse_put
  <1>3. TypeOK'
    BY <1>1, <1>2, Zenon DEF TypeOK, brelse_put, Goto, IInv, flags
  <1>4. OneBufferPerBlock' /\ PanicJustified'
    BY Zenon DEF OneBufferPerBlock, PanicJustified, brelse_put, Goto, IInv
  <1>5. \A c : Queued(c)' <=> Queued(c)
    BY Zenon DEF Queued, brelse_put
  <1>6. Holding'
    BY <1>5 DEF Holding, TypeOK, brelse_put, Goto, IInv, flags
  <1>7. QueueOwned'
    <2>1. \A c : Waited(c) => Waited(c)'
      BY DEF Waited, brelse_put, Goto
    <2>2. \A q \in Procs : pc'[q] = "asleep" => Queued(cur'[q])
      BY QueueFacts DEF brelse_put, Goto, IInv
    <2> QED
      BY <2>1, <2>2, QueueKept, Zenon DEF brelse_put, IInv
  <1>8. QueuePending' /\ Contents'
    BY <1>5, Zenon DEF QueuePending, Contents, brelse_put, IInv, flags
  <1> QED
    BY <1>1, <1>2, <1>3, <1>4, <1>6, <1>7, <1>8 DEF IInv

\* bget() that finds the block in buffer b.
LEMMA Keeps_hit ==
  ASSUME IInv, NEW p \in Procs, NEW b \in Bufs, pc[p] = "idle", blockno[b] # NoBlock, ~ panicked,
         refcnt' = [refcnt EXCEPT ![b] = @ + 1],
         cur' = [cur EXCEPT ![p] = b], pc' = [pc EXCEPT ![p] = "lock"],
         UNCHANGED <<blockno, flags, failed, panicked, list, data, owner, idequeue, disk, latest>>
  PROVE  IInv'
  <1>1. Counted' /\ refcnt' \in [Bufs -> 0..Cardinality(Procs)]
    BY OneMore, Zenon DEF Holding, IInv
  <1>2. TypeOK'
    BY <1>1, Zenon DEF TypeOK, IInv, flags
  <1>3. ListComplete' /\ OneBufferPerBlock' /\ PanicJustified'
    BY Zenon DEF ListComplete, OneBufferPerBlock, PanicJustified, IInv
  <1>4. \A c : Queued(c)' <=> Queued(c)
    BY Zenon DEF Queued
  <1>5. Holding'
    BY <1>4, NoBufIsNone DEF Holding, TypeOK, IInv, flags
  <1>6. QueueOwned'
    <2>1. \A c : Waited(c) => Waited(c)'
      BY DEF Waited
    <2>2. \A q \in Procs : pc'[q] = "asleep" => Queued(cur'[q])
      BY QueueFacts DEF IInv
    <2> QED
      BY <2>1, <2>2, QueueKept, Zenon DEF IInv
  <1>7. QueuePending' /\ Contents'
    BY <1>4, Zenon DEF QueuePending, Contents, IInv, flags
  <1> QED
    BY <1>1, <1>2, <1>3, <1>5, <1>6, <1>7, Zenon DEF IInv

\* bget() that recycles buffer b for block k, which no buffer holds.
LEMMA Keeps_recycle ==
  ASSUME IInv, NEW p \in Procs, NEW b \in Bufs, NEW k \in Blocks,
         pc[p] = "idle", Free(b), \A c \in Bufs : blockno[c] # k, ~ panicked,
         blockno' = [blockno EXCEPT ![b] = k],
         valid' = [valid EXCEPT ![b] = FALSE], dirty' = [dirty EXCEPT ![b] = FALSE],
         refcnt' = [refcnt EXCEPT ![b] = 1],
         cur' = [cur EXCEPT ![p] = b], pc' = [pc EXCEPT ![p] = "lock"],
         failed' = failed \ {b},
         UNCHANGED <<panicked, list, data, owner, idequeue, disk, latest>>
  PROVE  IInv'
  <1>1. \A q \in Procs : cur[q] # b
    BY UnusedIsZero, Zenon DEF Users, Free
  <1>2. Counted' /\ refcnt' \in [Bufs -> 0..Cardinality(Procs)]
    <2>1. refcnt' = [refcnt EXCEPT ![b] = @ + 1]
      BY DEF Free
    <2> QED
      BY <2>1, OneMore, Zenon DEF Holding, IInv
  <1>3. TypeOK'
    BY <1>2, Zenon DEF TypeOK, IInv
  <1>4. ListComplete' /\ OneBufferPerBlock' /\ PanicJustified'
    <2>1. ListComplete' /\ PanicJustified'
      BY Zenon DEF ListComplete, PanicJustified, IInv
    <2>2. \A c \in Bufs : blockno'[c] = IF c = b THEN k ELSE blockno[c]
      BY Zenon DEF IInv, TypeOK
    <2>3. ASSUME NEW c \in Bufs, NEW d \in Bufs, blockno'[c] = blockno'[d], blockno'[c] # NoBlock
          PROVE  c = d
      <3>1. \/ blockno[c] = blockno[d] /\ blockno[c] # NoBlock
            \/ c = b /\ d = b
        BY <2>2, <2>3, Zenon
      <3> QED
        BY <3>1, Zenon DEF OneBufferPerBlock, IInv
    <2>4. OneBufferPerBlock'
      BY <2>3, Zenon DEF OneBufferPerBlock
    <2> QED
      BY <2>1, <2>4
  <1>5. (\A c : Queued(c)' <=> Queued(c)) /\ ~ Queued(b)
    BY <1>1, QueueFacts, Zenon DEF Queued, Waited, IInv
  <1>6. Holding'
    BY <1>1, <1>5, BioAssumption DEF Holding, TypeOK, IInv
  <1>7. QueueOwned'
    <2>1. \A c : Waited(c) => Waited(c)'
      BY DEF Waited
    <2>2. \A q \in Procs : pc'[q] = "asleep" => Queued(cur'[q])
      BY QueueFacts DEF IInv
    <2> QED
      BY <2>1, <2>2, QueueKept, Zenon DEF IInv
  <1>8. QueuePending'
    BY <1>5 DEF QueuePending, IInv
  <1>9. Contents'
    <2>1. \A c \in Bufs \ {b} : /\ blockno'[c] = blockno[c] /\ valid'[c] = valid[c]
                                /\ dirty'[c] = dirty[c] /\ (c \in failed' <=> c \in failed)
      OBVIOUS
    <2>2. ~ valid'[b] /\ ~ dirty'[b] /\ ~ dirty[b]
      BY Zenon DEF TypeOK, IInv, Free
    <2>3. ASSUME NEW j \in Blocks, \A c \in Bufs : blockno'[c] = j => ~ dirty'[c]
          PROVE  disk[j] = latest[j]
      BY <2>2, <2>3 DEF Contents, IInv
    <2> QED
      BY <2>2 DEF Contents, IInv
  <1> QED
    BY <1>2, <1>3, <1>4, <1>6, <1>7, <1>8, <1>9, Zenon DEF IInv

\* bget() up to acquiresleep(), or its panic.
LEMMA Keeps_bget ==
  ASSUME IInv, NEW p \in Procs, NEW k \in Blocks, bget(p, k)
  PROVE  IInv'
  <1> DEFINE hits == {i \in Bufs : Hit(list[i], k)}
             free == {i \in Bufs : Free(list[i])}
             hit  == list[CHOOSE i \in hits : \A j \in hits : i <= j]
             old  == list[CHOOSE i \in free : \A j \in free : j <= i]
  <1>1. \A i \in Bufs : list[i] \in Bufs
    BY DEF IInv, TypeOK, Bufs
  <1>2. hits = {} => \A b \in Bufs : blockno[b] # k
    BY DEF IInv, ListComplete, Hit
  <1>3. free = {} => \A b \in Bufs : ~ Free(b)
    BY DEF IInv, ListComplete
  <1>4. hits # {} => hit \in Bufs /\ blockno[hit] = k
    <2>1. hits # {} => \E i \in hits : \A j \in hits : i <= j
      BY FirstPlace, Zenon
    <2> QED
      BY <1>1, <2>1, Zenon DEF Hit
  <1>5. free # {} => old \in Bufs /\ Free(old)
    <2>1. free # {} => \E i \in free : \A j \in free : j <= i
      BY LastPlace, Zenon
    <2> QED
      BY <1>1, <2>1
  <1>6. /\ pc[p] = "idle" /\ ~ panicked
        /\ \/ /\ hits # {}
              /\ refcnt' = [refcnt EXCEPT ![hit] = @ + 1]
              /\ cur' = [cur EXCEPT ![p] = hit] /\ pc' = [pc EXCEPT ![p] = "lock"]
              /\ UNCHANGED <<blockno, flags, failed, panicked>>
           \/ /\ hits = {} /\ free # {}
              /\ blockno' = [blockno EXCEPT ![old] = k]
              /\ valid' = [valid EXCEPT ![old] = FALSE] /\ dirty' = [dirty EXCEPT ![old] = FALSE]
              /\ refcnt' = [refcnt EXCEPT ![old] = 1]
              /\ cur' = [cur EXCEPT ![p] = old] /\ pc' = [pc EXCEPT ![p] = "lock"]
              /\ failed' = failed \ {old}
              /\ UNCHANGED panicked
           \/ /\ hits = {} /\ free = {}
              /\ panicked' = TRUE
              /\ UNCHANGED <<blockno, refcnt, flags, cur, pc, failed>>
        /\ UNCHANGED <<list, data, owner, idequeue, disk, latest>>
    BY Zenon DEF bget
  <1> HIDE DEF hits, free, hit, old
  <1>7. CASE hits # {}
    BY <1>4, <1>6, <1>7, Keeps_hit, BioAssumption, Zenon
  <1>8. CASE hits = {} /\ free # {}
    BY <1>2, <1>5, <1>6, <1>8, Keeps_recycle, Zenon
  <1>9. CASE hits = {} /\ free = {}
    <2>1. \A b \in Bufs : dirty[b] \/ Users(b) # {}
      BY <1>3, <1>9, UnusedIsZero DEF Free
    <2>2. panicked' = TRUE /\ UNCHANGED <<blockno, refcnt, valid, dirty, cur, pc, failed>>
      BY <1>6, <1>9, Zenon DEF flags
    <2> QED
      BY <1>6, <2>1, <2>2, SameKept, Zenon
  <1> QED
    BY <1>7, <1>8, <1>9

-----------------------------------------------------------------------------
\* The books, the queue and the places of the contents stay right through
\* every step of the processes and of the disk.
THEOREM Invariance == Spec => []IInv
  <1>1. Init => IInv
    <2> SUFFICES ASSUME Init PROVE IInv
      OBVIOUS
    <2>1. \A b \in Bufs : Users(b) = {}
      BY NoBufIsNone DEF Init, Users
    <2>2. Cardinality(Procs) \in Nat /\ Cardinality({}) = 0
      BY FS_CardinalityType, FS_EmptySet, BioAssumption
    <2>3. /\ list \in Seq(Bufs) /\ Len(list) = NBUF /\ ListComplete
          /\ \A i, j \in Bufs : list[i] = list[j] => i = j
      <3>1. \A i \in Bufs : NBUF + 1 - i \in Bufs /\ NBUF + 1 - (NBUF + 1 - i) = i
        BY BioAssumption DEF Bufs
      <3>2. list \in [1..NBUF -> Bufs] /\ \A i \in Bufs : list[i] = NBUF + 1 - i
        BY <3>1, Zenon DEF Init, Bufs
      <3>3. list \in Seq(Bufs) /\ Len(list) = NBUF
        BY <3>2, BioAssumption
      <3>4. ListComplete
        BY <3>1, <3>2 DEF ListComplete
      <3> QED
        BY <3>2, <3>3, <3>4 DEF Bufs
    <2>4. TypeOK
      <3>1. data \in [Bufs -> Data] /\ disk \in [Blocks -> Data] /\ latest \in [Blocks -> Data]
        BY DEF Init
      <3>2. refcnt \in [Bufs -> 0..Cardinality(Procs)]
        BY <2>2 DEF Init
      <3>3. /\ valid \in [Bufs -> BOOLEAN] /\ dirty \in [Bufs -> BOOLEAN]
            /\ failed \subseteq Bufs /\ panicked \in BOOLEAN
        BY Zenon DEF Init
      <3>4. /\ blockno \in [Bufs -> Blocks \cup {NoBlock}] /\ owner \in [Bufs -> Procs \cup {NoProc}]
            /\ pc \in [Procs -> {"idle", "lock", "rw", "asleep", "woken", "have", "release"}]
            /\ cur \in [Procs -> Bufs \cup {NoBuf}]
        BY DEF Init
      <3>5. idequeue \in Seq(Bufs)
        BY DEF Init
      <3> QED
        BY <2>3, <3>1, <3>2, <3>3, <3>4, <3>5, Zenon DEF TypeOK
    <2>5. Counted
      BY <2>1, <2>2, Zenon DEF Init, Counted
    <2>6. OneBufferPerBlock /\ Holding /\ PanicJustified /\ Contents
      BY Zenon DEF Init, OneBufferPerBlock, Holding, PanicJustified, Contents
    <2>7. QueueOwned /\ QueuePending
      BY DEF Init, QueueOwned, QueuePending
    <2> QED
      BY <2>3, <2>4, <2>5, <2>6, <2>7 DEF IInv
  <1>2. IInv /\ [Next]_vars => IInv'
    <2> SUFFICES ASSUME IInv, [Next]_vars PROVE IInv'
      OBVIOUS
    <2>1. CASE UNCHANGED vars
      <3>1. UNCHANGED <<list, blockno, refcnt, valid, dirty, data, owner, idequeue,
                        disk, pc, cur, latest, failed, panicked>>
        BY <2>1, Zenon DEF vars, cache, flags
      <3>2. panicked \in BOOLEAN /\ (panicked => \A b \in Bufs : dirty[b] \/ Users(b) # {})
        BY Zenon DEF IInv, TypeOK, PanicJustified
      <3> QED
        BY <3>1, <3>2, SameKept, Zenon
    <2>2. CASE Next
      BY <2>2, Keeps_bget, Keeps_bwrite, Keeps_log_write, Keeps_bread, Keeps_brelse,
         Keeps_brelse_put, Keeps_iderw, Keeps_iderw_done, Keeps_kill, Keeps_ideintr, Zenon DEF
         Next
    <2> QED
      BY <2>1, <2>2
  <1> QED
    BY <1>1, <1>2, PTL DEF Spec

\* bio.c: a block has one buffer, refcnt counts the processes that use it,
\* idequeue belongs to the sleepers, and bget() panics only when every buffer
\* is in use or pinned by the log.
THEOREM BooksAreRight == Spec => []BuffersAccounted
  <1>1. IInv => BuffersAccounted
    BY DEF IInv, BuffersAccounted, Counted, PanicJustified, Users
  <1> QED
    BY <1>1, Invariance, PTL

\* bio.c:95: bread() returns a locked buffer with what was last stored in the
\* block, through eviction, write-back and the pins of the log.
THEOREM ReadsAreLatest == Spec => []ReadsLatest
  <1>1. IInv => ReadsLatest
    BY Zenon DEF IInv, TypeOK, Holding, Contents, ReadsLatest
  <1> QED
    BY <1>1, Invariance, PTL
=============================================================================
