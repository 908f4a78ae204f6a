-------------------------------- MODULE Bio --------------------------------
(***************************************************************************)
(* The buffer cache (bio.c) above the disk driver (ide.c).  What happens   *)
(* under bcache.lock, and what happens under idelock, is one action; the   *)
(* sleep lock of a buffer is its owner.  Data are abstracted to values,    *)
(* one per block.                                                          *)
(***************************************************************************)
EXTENDS Integers, Sequences, FiniteSets

CONSTANTS Procs, NoProc,
          NBUF,
          Blocks, NoBlock,
          Data,
          MaxPinned,    \* bound: buffers log_write() keeps B_DIRTY
          BadBlocks     \* blocks whose transfers may fail

Bufs == 1..NBUF

ASSUME BioAssumption ==
  /\ IsFiniteSet(Procs) /\ NoProc \notin Procs
  /\ NBUF \in Nat \ {0} /\ MaxPinned \in Nat
  /\ NoBlock \notin Blocks /\ Blocks # {} /\ Data # {}
  /\ BadBlocks \subseteq Blocks

VARIABLES
  list,                                    \* bcache.head.next, ..., head.prev
  blockno, valid, dirty, data, refcnt,     \* the fields of struct buf
  owner,                                   \* holder of b->lock
  idequeue,
  disk,
  pc, cur,                                 \* cur[p]: the buffer p works on
  latest,                                  \* what was last stored in a block and not lost
  failed,                                  \* B_VALID buffers whose transfer failed
  panicked                                 \* panic("bget: no buffers")

cache == <<list, blockno, refcnt>>
flags == <<valid, dirty>>
vars  == <<cache, flags, data, owner, idequeue, disk, pc, cur, latest, failed, panicked>>

NoBuf == 0

Init ==
  /\ list = [i \in Bufs |-> NBUF + 1 - i]  \* binit()
  /\ blockno = [b \in Bufs |-> NoBlock] /\ refcnt = [b \in Bufs |-> 0]
  /\ valid = [b \in Bufs |-> FALSE] /\ dirty = [b \in Bufs |-> FALSE]
  /\ disk \in [Blocks -> Data] /\ latest = disk
  /\ \E d \in Data : data = [b \in Bufs |-> d]
  /\ owner = [b \in Bufs |-> NoProc]
  /\ idequeue = <<>>
  /\ pc = [p \in Procs |-> "idle"] /\ cur = [p \in Procs |-> NoBuf]
  /\ failed = {} /\ panicked = FALSE

Goto(p, from, to) ==
  /\ ~ panicked /\ pc[p] = from
  /\ pc' = [pc EXCEPT ![p] = to]

-----------------------------------------------------------------------------
(* bio.c *)

\* Mutant: a buffer that log_write() pinned is taken for a free one.
Free_pinned(b) == refcnt[b] = 0

\* A buffer bget() may recycle
Free(b) == refcnt[b] = 0 /\ ~ dirty[b]

Hit(b, k) == blockno[b] = k

\* bget() up to the acquiresleep(): a hit in list order, else the free
\* buffer nearest to the end of the list.
bget(p, k) ==
  LET hits == {i \in Bufs : Hit(list[i], k)}
      free == {i \in Bufs : Free(list[i])}
      hit  == list[CHOOSE i \in hits : \A j \in hits : i <= j]
      old  == list[CHOOSE i \in free : \A j \in free : j <= i]
  IN /\ pc[p] = "idle" /\ ~ panicked
     /\ \/ /\ hits # {}
           /\ refcnt' = [refcnt EXCEPT ![hit] = @ + 1]
           /\ cur' = [cur EXCEPT ![p] = hit] /\ pc' = [pc EXCEPT ![p] = "lock"]
           /\ UNCHANGED <<blockno, flags, failed, panicked>>
        \/ /\ hits = {} /\ free # {}
           /\ blockno' = [blockno EXCEPT ![old] = k]
           /\ valid' = [valid EXCEPT ![old] = FALSE] /\ dirty' = [dirty EXCEPT ![old] = FALSE]
           /\ refcnt' = [refcnt EXCEPT ![old] = 1]
           /\ cur' = [cur EXCEPT ![p] = old] /\ pc' = [pc EXCEPT ![p] = "lock"]
           /\ failed' = failed \ {old}
           /\ UNCHANGED panicked
        \/ /\ hits = {} /\ free = {}
           /\ panicked' = TRUE
           /\ UNCHANGED <<blockno, refcnt, flags, cur, pc, failed>>
     /\ UNCHANGED <<list, data, owner, idequeue, disk, latest>>

\* acquiresleep(&b->lock) at the end of bget(), and the test of bread()
bread(p) ==
  /\ Goto(p, "lock", IF valid[cur[p]] THEN "have" ELSE "rw")
  /\ owner[cur[p]] = NoProc
  /\ owner' = [owner EXCEPT ![cur[p]] = p]
  /\ UNCHANGED <<cache, flags, data, idequeue, disk, cur, latest, failed, panicked>>

\* The caller stores into b->data and calls bwrite().
bwrite(p, d) ==
  /\ Goto(p, "have", "rw")
  /\ data' = [data EXCEPT ![cur[p]] = d]
  /\ latest' = [latest EXCEPT ![blockno[cur[p]]] = d]
  /\ dirty' = [dirty EXCEPT ![cur[p]] = TRUE]
  /\ failed' = failed \ {cur[p]}
  /\ UNCHANGED <<cache, valid, owner, idequeue, disk, cur, panicked>>

\* The caller stores into b->data and calls log_write(), which keeps the
\* buffer B_DIRTY until the bwrite() of install_trans().
log_write(p, d) ==
  /\ Goto(p, "have", "have")
  /\ data' = [data EXCEPT ![cur[p]] = d]
  /\ latest' = [latest EXCEPT ![blockno[cur[p]]] = d]
  /\ dirty' = [dirty EXCEPT ![cur[p]] = TRUE]
  /\ Cardinality({b \in Bufs : dirty'[b]}) <= MaxPinned
  /\ failed' = failed \ {cur[p]}
  /\ UNCHANGED <<cache, valid, owner, idequeue, disk, cur, panicked>>

\* brelse(): releasesleep(), then refcnt under bcache.lock
brelse(p) ==
  /\ Goto(p, "have", "release")
  /\ owner' = [owner EXCEPT ![cur[p]] = NoProc]
  /\ UNCHANGED <<cache, flags, data, idequeue, disk, cur, latest, failed, panicked>>

\* Mutant: the reference is not given back.
brelse_put_leak(p) ==
  /\ Goto(p, "release", "idle")
  /\ cur' = [cur EXCEPT ![p] = NoBuf]
  /\ UNCHANGED <<cache, flags, data, owner, idequeue, disk, latest, failed, panicked>>

\* The list with b moved to its front
ToFront(b) ==
  LET at == CHOOSE i \in Bufs : list[i] = b
  IN <<b>> \o SubSeq(list, 1, at - 1) \o SubSeq(list, at + 1, NBUF)

brelse_put(p) ==
  LET b == cur[p] IN
  /\ Goto(p, "release", "idle")
  /\ refcnt' = [refcnt EXCEPT ![b] = @ - 1]
  /\ list' = IF refcnt[b] = 1 THEN ToFront(b) ELSE list
  /\ cur' = [cur EXCEPT ![p] = NoBuf]
  /\ UNCHANGED <<blockno, flags, data, owner, idequeue, disk, latest, failed, panicked>>

-----------------------------------------------------------------------------
(* ide.c *)

\* iderw() up to sleep(): the request is queued, and started if it is the
\* only one.
iderw(p) ==
  /\ Goto(p, "rw", "asleep")
  /\ idequeue' = Append(idequeue, cur[p])
  /\ UNCHANGED <<cache, flags, data, owner, disk, cur, latest, failed, panicked>>

\* wakeup(b)
Woken(b) == [p \in Procs |-> IF pc[p] = "asleep" /\ cur[p] = b THEN "woken" ELSE pc[p]]

\* Mutant: B_DIRTY stays set.
Clean_not(b) == UNCHANGED dirty

Clean(b) == dirty' = [dirty EXCEPT ![b] = FALSE]

\* The interrupt that ends the active request, the first of the queue: what
\* idestart() sent is on the disk, or the data are read now.  If the disk
\* reports an error nothing is read, and nobody looks whether a write went
\* wrong; B_VALID and B_DIRTY do not show it.  The next request is started.
ideintr ==
  LET b == Head(idequeue)
      k == blockno[b]
  IN /\ idequeue # <<>> /\ ~ panicked
     /\ \/ /\ disk' = IF dirty[b] THEN [disk EXCEPT ![k] = data[b]] ELSE disk
           /\ data' = IF dirty[b] THEN data ELSE [data EXCEPT ![b] = disk[k]]
           /\ UNCHANGED <<latest, failed>>
        \/ /\ k \in BadBlocks
           /\ failed' = failed \cup {b}
           /\ latest' = IF dirty[b] THEN [latest EXCEPT ![k] = disk[k]] ELSE latest
           /\ UNCHANGED <<data, disk>>
     /\ valid' = [valid EXCEPT ![b] = TRUE]
     /\ Clean(b)
     /\ pc' = Woken(b)
     /\ idequeue' = Tail(idequeue)
     /\ UNCHANGED <<cache, owner, cur, panicked>>

\* The loop of iderw() ends, or sleeps again.
iderw_done(p) ==
  /\ Goto(p, "woken", IF valid[cur[p]] /\ ~ dirty[cur[p]] THEN "have" ELSE "asleep")
  /\ UNCHANGED <<cache, flags, data, owner, idequeue, disk, cur, latest, failed, panicked>>

\* kill() wakes a process whatever it sleeps for.
kill(p) ==
  /\ Goto(p, "asleep", "woken")
  /\ UNCHANGED <<cache, flags, data, owner, idequeue, disk, cur, latest, failed, panicked>>

-----------------------------------------------------------------------------
Step(p) == bread(p) \/ brelse_put(p) \/ iderw(p) \/ iderw_done(p)

Next ==
  \/ \E p \in Procs :
       \/ \E k \in Blocks : bget(p, k)
       \/ \E d \in Data : bwrite(p, d) \/ log_write(p, d)
       \/ bread(p) \/ brelse(p) \/ brelse_put(p) \/ iderw(p) \/ iderw_done(p) \/ kill(p)
  \/ ideintr

Spec == Init /\ [][Next]_vars

\* The disk answers every request, and a process that can go on does.
Fairness == WF_vars(ideintr) /\ \A p \in Procs : WF_vars(Step(p))

FairSpec == Spec /\ Fairness

-----------------------------------------------------------------------------
\* Type invariant of the cache and the request queue.
TypeOK ==
  /\ list \in Seq(Bufs) /\ Len(list) = NBUF
  /\ \A i, j \in Bufs : list[i] = list[j] => i = j
  /\ blockno \in [Bufs -> Blocks \cup {NoBlock}]
  /\ valid \in [Bufs -> BOOLEAN] /\ dirty \in [Bufs -> BOOLEAN]
  /\ data \in [Bufs -> Data] /\ disk \in [Blocks -> Data] /\ latest \in [Blocks -> Data]
  /\ refcnt \in [Bufs -> 0..Cardinality(Procs)]
  /\ owner \in [Bufs -> Procs \cup {NoProc}]
  /\ idequeue \in Seq(Bufs)
  /\ pc \in [Procs -> {"idle", "lock", "rw", "asleep", "woken", "have", "release"}]
  /\ cur \in [Procs -> Bufs \cup {NoBuf}]
  /\ failed \subseteq Bufs /\ panicked \in BOOLEAN

\* bio.c:6, "a synchronization point for disk blocks used by multiple
\* processes": two buffers never hold the same block, or two processes could
\* hold different copies of it locked.
OneBufferPerBlock ==
  \A a, b \in Bufs : blockno[a] = blockno[b] /\ blockno[a] # NoBlock => a = b

\* bread() returns "a locked buf with the contents of the indicated block"
\* (bio.c:95): what was last stored in it, whether it was read from the
\* disk, found in the cache, or written out and read again after the buffer
\* was recycled.  The exception is a transfer the disk reported an error for:
\* ideintr() skips insl() and sets B_VALID all the same, so what the buffer
\* held before stands for the block; and it does not look at the status of a
\* write (ide.c:117-122), so what was stored is lost when the buffer is
\* recycled, and the block is again what the disk has.
ReadsLatest ==
  \A p \in Procs : pc[p] = "have" =>
    /\ owner[cur[p]] = p
    /\ cur[p] \notin failed => data[cur[p]] = latest[blockno[cur[p]]]

\* The requests in idequeue are those of the processes that sleep in
\* iderw(), or were woken by kill() and will sleep again, each holding the
\* lock of its buffer; no buffer is queued twice.
QueueOwned ==
  /\ \A i \in 1..Len(idequeue) :
       \E p \in Procs : pc[p] \in {"asleep", "woken"} /\ cur[p] = idequeue[i] /\ owner[cur[p]] = p
  /\ \A p \in Procs : pc[p] = "asleep" => \E i \in 1..Len(idequeue) : idequeue[i] = cur[p]
  /\ \A i, j \in 1..Len(idequeue) : idequeue[i] = idequeue[j] => i = j

\* The books of the cache agree: a block has one buffer, b->refcnt is the
\* number of processes that use b, however hits, misses and releases
\* interleave, and idequeue belongs to the sleepers.  So a buffer bget()
\* cannot recycle is one a process works on or one the log has pinned, and
\* panic("bget: no buffers") (bio.c:92) strikes only when every buffer is.
BuffersAccounted ==
  /\ TypeOK /\ OneBufferPerBlock /\ QueueOwned
  /\ \A b \in Bufs : refcnt[b] = Cardinality({p \in Procs : cur[p] = b})
  /\ panicked => \A b \in Bufs : dirty[b] \/ \E p \in Procs : cur[p] = b

\* iderw(): a process that waits for the disk gets its block, in whatever
\* order the requests came and however often kill() wakes it, unless bget()
\* has stopped the kernel for want of a buffer.
RequestServed == \A p \in Procs : pc[p] = "asleep" ~> pc[p] = "have" \/ panicked
=============================================================================
