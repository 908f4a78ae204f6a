-------------------------------- MODULE Pipe --------------------------------
(***************************************************************************)
(* A pipe (pipe.c) between processes that share its two ends through       *)
(* file.c.  Everything between acquire(&p->lock) and the sleep() or        *)
(* release() that ends it is one action: pipewrite() and piperead() copy   *)
(* in bursts.  A process that decided to sleep still holds p->lock until   *)
(* sleep() has taken ptable.lock: kill(), which takes only ptable.lock,    *)
(* can come in between on a second CPU.  fileclose() gives the reference   *)
(* back in one step and calls pipeclose() in a later one.                  *)
(*                                                                         *)
(* nread and nwrite are unsigned ints that wrap: here at UINT, a multiple  *)
(* of PIPESIZE as 2^32 is of 512.                                          *)
(***************************************************************************)
EXTENDS Integers, Sequences, FiniteSets

CONSTANTS Readers, Writers,  \* processes that have the read, the write end open
          PIPESIZE, UINT,
          Bytes,
          Chunks,            \* byte strings that are written
          ReadSizes,         \* numbers of bytes that are asked for
          Killable,          \* processes that kill() may hit
          NCPU               \* with one CPU nothing runs while p->lock is held

Procs == Readers \cup Writers

ASSUME PipeAssumption ==
  /\ Readers \cap Writers = {} /\ Readers # {} /\ Writers # {}
  /\ IsFiniteSet(Procs)
  /\ PIPESIZE \in Nat \ {0} /\ UINT \in Nat
  /\ UINT > PIPESIZE /\ UINT % PIPESIZE = 0
  /\ Chunks \subseteq Seq(Bytes) /\ ReadSizes \subseteq Nat \ {0}
  /\ Killable \subseteq Procs /\ NCPU \in Nat \ {0}

VARIABLES
  data, nread, nwrite,   \* the ring buffer
  readopen, writeopen,
  freed,                 \* kfree() of the pipe
  refs,                  \* processes that have their end open
  pc,
  todo,                  \* writer: bytes of addr[i..n-1]; reader: <<>>
  want,                  \* reader: n
  killed,
  aborted                \* bytes came that no reader was woken for: a pipewrite() gave up

ring == <<data, nread, nwrite>>
vars == <<ring, readopen, writeopen, freed, refs, pc, todo, want, killed, aborted>>

Count == (nwrite - nread) % UINT

Min2(a, b) == IF a <= b THEN a ELSE b

\* pipealloc(), and the fork()s that share the ends
Init ==
  /\ \E b \in Bytes : data = [i \in 0..(PIPESIZE - 1) |-> b]
  /\ nread = 0 /\ nwrite = 0
  /\ readopen = TRUE /\ writeopen = TRUE /\ freed = FALSE
  /\ refs = Procs
  /\ pc = [p \in Procs |-> "idle"]
  /\ todo = [p \in Procs |-> <<>>]
  /\ want = [p \in Procs |-> 0]
  /\ killed = {} /\ aborted = FALSE

Goto(p, from, to) == pc[p] = from /\ pc' = [pc EXCEPT ![p] = to]

\* Mutant: only processes that sleep on the other channel are woken.
Woken_other(S, pcs) == [p \in Procs |-> IF p \notin S /\ pcs[p] = "asleep" THEN "run" ELSE pcs[p]]

\* Mutant: no wakeup.
Woken_none(S, pcs) == pcs

\* wakeup(&p->nread) wakes readers, wakeup(&p->nwrite) writers
Woken(S, pcs) == [p \in Procs |-> IF p \in S /\ pcs[p] = "asleep" THEN "run" ELSE pcs[p]]

\* nwrite == nread + PIPESIZE: no room
Room == PIPESIZE - Count

\* Mutant: the copy of piperead() does not stop at nwrite.
Available_any(n) == n

\* nread == nwrite: nothing more to copy
Available(n) == Min2(n, Count)

Locked == \E q \in Procs : pc[q] = "tosleep"

\* sleep(): ptable.lock is held, p->lock released, the process is asleep
Sleep(p) ==
  /\ Goto(p, "tosleep", "asleep")
  /\ UNCHANGED <<ring, readopen, writeopen, freed, refs, todo, want, killed, aborted>>

-----------------------------------------------------------------------------
CallWrite(p, s) ==
  /\ p \in Writers \cap refs /\ p \notin killed
  /\ Goto(p, "idle", "run")
  /\ todo' = [todo EXCEPT ![p] = s]
  /\ UNCHANGED <<ring, readopen, writeopen, freed, refs, want, killed, aborted>>

\* Fill the pipe; then return, give up, or wake the readers and sleep.
pipewrite(p) ==
  LET k    == Min2(Room, Len(todo[p]))
      rest == SubSeq(todo[p], k + 1, Len(todo[p]))
      slot(i) == ((nwrite + i - 1) % UINT) % PIPESIZE
      quit == rest # <<>> /\ (~ readopen \/ p \in killed)
  IN /\ p \in Writers /\ pc[p] = "run" /\ ~ Locked
     /\ data' = [j \in DOMAIN data |-> IF \E i \in 1..k : slot(i) = j
                                         THEN todo[p][CHOOSE i \in 1..k : slot(i) = j]
                                         ELSE data[j]]
     /\ nwrite' = (nwrite + k) % UINT
     /\ todo' = [todo EXCEPT ![p] = IF quit THEN <<>> ELSE rest]
     /\ pc' = IF quit THEN [pc EXCEPT ![p] = "idle"]
              ELSE Woken(Readers, [pc EXCEPT ![p] = IF rest = <<>> THEN "idle" ELSE "tosleep"])
     /\ aborted' = (quit /\ (aborted \/ (readopen /\ k > 0)))
     /\ UNCHANGED <<nread, readopen, writeopen, freed, refs, want, killed>>

CallRead(p, n) ==
  /\ p \in Readers \cap refs /\ p \notin killed
  /\ Goto(p, "idle", "run")
  /\ want' = [want EXCEPT ![p] = n]
  /\ UNCHANGED <<ring, readopen, writeopen, freed, refs, todo, killed, aborted>>

\* Sleep while the pipe is empty and can still be written, else copy what
\* there is and wake the writers.
piperead(p) ==
  /\ p \in Readers /\ pc[p] = "run" /\ ~ Locked
  /\ IF nread = nwrite /\ writeopen
       THEN /\ pc' = [pc EXCEPT ![p] = IF p \in killed THEN "idle" ELSE "tosleep"]
            /\ want' = [want EXCEPT ![p] = IF p \in killed THEN 0 ELSE @]
            /\ UNCHANGED nread
       ELSE /\ nread' = (nread + Available(want[p])) % UINT
            /\ want' = [want EXCEPT ![p] = 0]
            /\ pc' = Woken(Writers, [pc EXCEPT ![p] = "idle"])
  /\ UNCHANGED <<data, nwrite, readopen, writeopen, freed, refs, todo, killed, aborted>>

-----------------------------------------------------------------------------
\* Mutant: the first close of an end goes on to pipeclose().
fileclose_first(p) ==
  /\ p \in refs
  /\ refs' = refs \ {p}
  /\ Goto(p, "idle", "close")
  /\ UNCHANGED <<ring, readopen, writeopen, freed, todo, want, killed, aborted>>

\* fileclose(): the last reference to an end goes on to pipeclose()
fileclose(p) ==
  /\ p \in refs
  /\ refs' = refs \ {p}
  /\ LET end == IF p \in Readers THEN Readers ELSE Writers
     IN Goto(p, "idle", IF refs' \cap end = {} THEN "close" ELSE "gone")
  /\ UNCHANGED <<ring, readopen, writeopen, freed, todo, want, killed, aborted>>

pipeclose(p) ==
  /\ pc[p] = "close" /\ ~ Locked
  /\ IF p \in Writers
       THEN /\ writeopen' = FALSE /\ UNCHANGED readopen
            /\ pc' = Woken(Readers, [pc EXCEPT ![p] = "gone"])
       ELSE /\ readopen' = FALSE /\ UNCHANGED writeopen
            /\ pc' = Woken(Writers, [pc EXCEPT ![p] = "gone"])
  /\ freed' = (~ readopen' /\ ~ writeopen')
  /\ UNCHANGED <<ring, refs, todo, want, killed, aborted>>

\* kill() of a process, which is woken if it sleeps
kill(p) ==
  /\ p \in Killable \ killed
  /\ Locked => NCPU > 1
  /\ killed' = killed \cup {p}
  /\ pc' = Woken({p}, pc)
  /\ UNCHANGED <<ring, readopen, writeopen, freed, refs, todo, want, aborted>>

\* Another pipe is made in the page that was freed.
pipealloc ==
  /\ freed /\ freed' = FALSE
  /\ nread' = 0 /\ nwrite' = 0
  /\ readopen' = TRUE /\ writeopen' = TRUE
  /\ refs' = Procs
  /\ pc' = [p \in Procs |-> "idle"]
  /\ killed' = {} /\ aborted' = FALSE
  /\ UNCHANGED <<data, todo, want>>

Run(p) == pipewrite(p) \/ piperead(p) \/ Sleep(p) \/ pipeclose(p)

Next ==
  \/ \E p \in Procs :
       \/ \E s \in Chunks : CallWrite(p, s)
       \/ \E n \in ReadSizes : CallRead(p, n)
       \/ pipewrite(p)
       \/ piperead(p)
       \/ Sleep(p)
       \/ fileclose(p)
       \/ pipeclose(p)
       \/ kill(p)
  \/ pipealloc

Spec == Init /\ [][Next]_vars

\* A runnable process gets the CPU and p->lock in the end, strongly because
\* others may hold the lock time and again.  No process has to call read() or
\* write() again, or to close its end.
Fairness == \A p \in Procs : SF_vars(Run(p))

FairSpec == Spec /\ Fairness

-----------------------------------------------------------------------------
\* Type invariant of the pipe; there are never more than PIPESIZE bytes in it.
TypeOK ==
  /\ data \in [0..(PIPESIZE - 1) -> Bytes]
  /\ nread \in 0..(UINT - 1) /\ nwrite \in 0..(UINT - 1)
  /\ Count <= PIPESIZE
  /\ readopen \in BOOLEAN /\ writeopen \in BOOLEAN /\ freed \in BOOLEAN
  /\ aborted \in BOOLEAN
  /\ refs \subseteq Procs /\ killed \subseteq Procs
  /\ pc \in [Procs -> {"idle", "run", "tosleep", "asleep", "close", "gone"}]
  /\ todo \in [Procs -> Seq(Bytes)]
  /\ want \in [Procs -> ReadSizes \cup {0}]

(* Nobody sleeps on the pipe without a reason.  A writer sleeps only while   *)
(* the pipe is full and somebody can still read from it, a reader only while *)
(* it is empty and may still be written, and neither when killed: no read,   *)
(* write, close or kill() goes by without waking them.  One exception:       *)
(* pipewrite() returns -1 for a killed writer (pipe.c:86) without a wakeup   *)
(* for the bytes it has just copied.  On two CPUs kill() could come between  *)
(* the test of p->killed and the sleep().                                    *)
SleepsWithReason ==
  \A p \in Procs : pc[p] \in {"tosleep", "asleep"} =>
    /\ p \in Writers => Count = PIPESIZE /\ readopen
    /\ p \in Readers => (Count = 0 \/ aborted) /\ writeopen
    /\ NCPU = 1 => p \notin killed

(* The page of a pipe is given to kfree() only when no process is inside     *)
(* pipewrite(), piperead() or pipeclose(), or has an end open; until then    *)
(* the two counters are never more than PIPESIZE apart (TypeOK).             *)
NotUsedAfterFree ==
  /\ TypeOK
  /\ freed => \A p \in Procs : p \notin refs /\ pc[p] = "gone"

(* The ring buffer, with counters that wrap, is a FIFO queue: every burst of *)
(* pipewrite() appends the next bytes of its write(), every burst of         *)
(* piperead() removes from the front.  What is left when both ends are       *)
(* closed goes with the page.                                                *)
Contents == IF freed THEN <<>> ELSE [i \in 1..Count |-> data[((nread + i - 1) % UINT) % PIPESIZE]]

Queue == INSTANCE Fifo WITH queue <- Contents, Capacity <- PIPESIZE,
                            offered <- [w \in Writers |-> todo[w]]

ImplementsFifo == Queue!Spec

InCall(p) == pc[p] \in {"run", "tosleep", "asleep"}

\* What the loops of pipe.c:84-91 and 106-112 wait for has not happened; with
\* the exception of SleepsWithReason.
MustWait(p) ==
  /\ p \notin killed
  /\ p \in Writers => Count = PIPESIZE /\ readopen
  /\ p \in Readers => (Count = 0 \/ aborted) /\ writeopen

(* No wakeup is lost for good: a read() or write() returns, or comes to wait *)
(* for something that has not happened yet, whatever the others do or leave  *)
(* undone: a full pipe that may still be read, an empty one that may still   *)
(* be written.  Bytes that are put in or taken out, the close of the other   *)
(* end and kill() each get a sleeper going again (pipe.c:66-69, 89, 95, 118  *)
(* and proc.c:557).                                                          *)
CallsReturn == \A p \in Procs : InCall(p) ~> (~ InCall(p) \/ MustWait(p))
=============================================================================
