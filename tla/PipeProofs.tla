----------------------------- MODULE PipeProofs -----------------------------
(***************************************************************************)
(* Proofs about the pipe (Pipe.tla), for any number of readers and         *)
(* writers, any size of the ring and any number of CPUs.  The page of a    *)
(* pipe is not freed while it is used, nobody sleeps on it without a       *)
(* reason, and the ring with counters that wrap is a queue.  At the end,   *)
(* with constants and variables of its own, the input ring of the console  *)
(* (Console.tla): nobody sleeps on it without a reason either.             *)
(*                                                                         *)
(* That no wakeup is missed rests on who can still call pipewrite(),       *)
(* piperead() and pipeclose(): the inductive invariant relates the         *)
(* references counted in file.c to readopen and writeopen (EndsOpen).      *)
(***************************************************************************)
EXTENDS Pipe, SequenceTheorems, WellFoundedInduction, TLAPS

\* The other processes that share p's end of the pipe.
Sharers(p) == {q \in Procs \ {p} : q \in Readers <=> p \in Readers}

(* A process that has given its reference back is on its way to pipeclose()  *)
(* or done with the pipe; one that is on its way is the last of its end; an  *)
(* end counts as open until the last process is done with it, and the page   *)
(* is freed with the second end.                                             *)
EndsOpen ==
  /\ \A p \in Procs : p \in refs <=> pc[p] \notin {"close", "gone"}
  /\ \A p \in Procs : pc[p] = "close" => \A q \in Sharers(p) : pc[q] = "gone"
  /\ readopen = FALSE <=> \A p \in Readers : pc[p] = "gone"
  /\ writeopen = FALSE <=> \A p \in Writers : pc[p] = "gone"
  /\ freed = TRUE <=> readopen = FALSE /\ writeopen = FALSE

IInv == TypeOK /\ SleepsWithReason /\ EndsOpen

-----------------------------------------------------------------------------
(* Arithmetic of the two counters, which wrap at U.                          *)

(* An unsigned counter that is advanced by less than U.                      *)
LEMMA WrapUp ==
  ASSUME NEW U \in Nat \ {0}, NEW n \in 0..(U - 1), NEW k \in 0..(U - 1)
  PROVE  /\ (n + k) % U = IF n + k < U THEN n + k ELSE (n + k) - U
         /\ (n + k) % U \in 0..(U - 1)
<1>1. CASE n + k < U
  BY <1>1
<1>2. CASE n + k >= U
  <2> (n + k) - U \in 0..(U - 1)
    BY <1>2
  <2> (n + k) % U = (n + k) - U
    BY <1>2
  <2> QED BY <1>2
<1> QED BY <1>1, <1>2

(* The difference of two unsigned counters.                                  *)
LEMMA WrapDown ==
  ASSUME NEW U \in Nat \ {0}, NEW n \in 0..(U - 1), NEW r \in 0..(U - 1)
  PROVE  /\ (n - r) % U = IF r <= n THEN n - r ELSE n - r + U
         /\ (n - r) % U \in 0..(U - 1)
<1>1. CASE r <= n
  BY <1>1
<1>2. CASE r > n
  <2> (n - r) % U = n - r + U
    BY <1>2
  <2> QED BY <1>2
<1> QED BY <1>1, <1>2

(* The pipe is empty when nread == nwrite and only then (pipe.c:106).        *)
LEMMA EmptyWhenEqual ==
  ASSUME NEW U \in Nat \ {0}, NEW n \in 0..(U - 1), NEW r \in 0..(U - 1)
  PROVE  (n - r) % U = 0 <=> n = r
BY WrapDown

(* Advancing nwrite by k puts k more bytes into the pipe.                    *)
LEMMA CountWritten ==
  ASSUME NEW U \in Nat \ {0}, NEW n \in 0..(U - 1), NEW r \in 0..(U - 1),
         NEW k \in Nat, ((n - r) % U) + k < U
  PROVE  /\ (n + k) % U \in 0..(U - 1)
         /\ (((n + k) % U) - r) % U = ((n - r) % U) + k
<1> DEFINE m == (n + k) % U
           c == (n - r) % U
           d == (m - r) % U
<1>1. c \in 0..(U - 1) /\ c = IF r <= n THEN n - r ELSE n - r + U
  BY WrapDown, Zenon
<1>2. k \in 0..(U - 1)
  BY <1>1
<1>3. m \in 0..(U - 1) /\ m = IF n + k < U THEN n + k ELSE (n + k) - U
  BY <1>2, WrapUp, Zenon
<1>4. d = IF r <= m THEN m - r ELSE m - r + U
  <2> HIDE DEF m
  <2> QED BY <1>3, WrapDown, Zenon
<1>5. c + k < U
  OBVIOUS
<1> HIDE DEF m, c, d
<1>6. d = c + k
  BY <1>1, <1>2, <1>3, <1>4, <1>5
<1> QED BY <1>3, <1>6, Zenon DEF m, c, d

(* Advancing nread by k takes k bytes out of it.                             *)
LEMMA CountRead ==
  ASSUME NEW U \in Nat \ {0}, NEW n \in 0..(U - 1), NEW r \in 0..(U - 1),
         NEW k \in Nat, k <= (n - r) % U
  PROVE  /\ (r + k) % U \in 0..(U - 1)
         /\ (n - ((r + k) % U)) % U = ((n - r) % U) - k
<1> DEFINE m == (r + k) % U
           c == (n - r) % U
           d == (n - m) % U
<1>1. c \in 0..(U - 1) /\ c = IF r <= n THEN n - r ELSE n - r + U
  BY WrapDown
<1>2. k \in 0..(U - 1)
  BY <1>1
<1>3. m \in 0..(U - 1) /\ m = IF r + k < U THEN r + k ELSE (r + k) - U
  BY <1>2, WrapUp, Zenon
<1>4. d = IF m <= n THEN n - m ELSE n - m + U
  <2> HIDE DEF m
  <2> QED BY <1>3, WrapDown
<1>5. k <= c
  OBVIOUS
<1> HIDE DEF m, c, d
<1>6. d = c - k
  BY <1>1, <1>2, <1>3, <1>4, <1>5
<1> QED BY <1>3, <1>6, Zenon DEF m, c, d
-----------------------------------------------------------------------------
(* One lemma for each action: it keeps the inductive invariant.              *)

(* The assumptions on the sizes, by themselves.                              *)
LEMMA Sizes ==
  /\ PIPESIZE \in Nat \ {0} /\ UINT \in Nat \ {0} /\ UINT > PIPESIZE
  /\ UINT % PIPESIZE = 0
BY PipeAssumption

(* The number of bytes in the pipe, and the room that is left.               *)
LEMMA CountType ==
  ASSUME TypeOK
  PROVE  Count \in 0..PIPESIZE /\ Room \in 0..PIPESIZE
BY Sizes, WrapDown DEF TypeOK, Count, Room

(* pipealloc() starts with an empty pipe that everybody has open.            *)
LEMMA InitIInv == Init => IInv
<1> SUFFICES ASSUME Init PROVE IInv
  OBVIOUS
<1>1. Count = 0
  BY Sizes, EmptyWhenEqual DEF Init, Count
<1>2. TypeOK
  BY <1>1, Sizes DEF Init, TypeOK
<1>3. SleepsWithReason
  BY DEF Init, SleepsWithReason
<1>4. EndsOpen
  BY PipeAssumption, Zenon DEF Init, EndsOpen, Sharers, Procs
<1> QED BY <1>2, <1>3, <1>4 DEF IInv

(* A call of pipewrite() begins.                                             *)
LEMMA Keeps_CallWrite ==
  ASSUME IInv, NEW p \in Procs, NEW s \in Chunks, CallWrite(p, s)
  PROVE  IInv'
<1> Count' = Count
  BY Zenon DEF Count, ring, IInv, CallWrite, Goto
<1>1. TypeOK'
  BY PipeAssumption, Zenon DEF TypeOK, ring, IInv, CallWrite, Goto
<1>2. SleepsWithReason'
  BY Zenon DEF TypeOK, SleepsWithReason, IInv, CallWrite, Goto
<1>3. EndsOpen'
  BY Zenon DEF TypeOK, EndsOpen, Sharers, Procs, IInv, CallWrite, Goto
<1> QED BY <1>1, <1>2, <1>3 DEF IInv, CallWrite, Goto

(* A call of piperead() begins.                                              *)
LEMMA Keeps_CallRead ==
  ASSUME IInv, NEW p \in Procs, NEW n \in ReadSizes, CallRead(p, n)
  PROVE  IInv'
<1> Count' = Count
  BY DEF Count, ring, IInv, CallRead, Goto
<1>1. TypeOK'
  BY Zenon DEF TypeOK, ring, IInv, CallRead, Goto
<1>2. SleepsWithReason'
  BY Zenon DEF TypeOK, SleepsWithReason, IInv, CallRead, Goto
<1>3. EndsOpen'
  BY Zenon DEF TypeOK, EndsOpen, Sharers, Procs, IInv, CallRead, Goto
<1> QED BY <1>1, <1>2, <1>3 DEF IInv, CallRead, Goto

(* sleep() lets go of p->lock.                                               *)
LEMMA Keeps_Sleep ==
  ASSUME IInv, NEW p \in Procs, Sleep(p)
  PROVE  IInv'
<1> Count' = Count
  BY DEF Count, ring, IInv, Sleep, Goto
<1>1. TypeOK'
  BY Zenon DEF TypeOK, ring, IInv, Sleep, Goto
<1>2. SleepsWithReason'
  BY Zenon DEF TypeOK, SleepsWithReason, IInv, Sleep, Goto
<1>3. EndsOpen'
  BY Zenon DEF TypeOK, EndsOpen, Sharers, Procs, IInv, Sleep, Goto
<1> QED BY <1>1, <1>2, <1>3 DEF IInv, Sleep, Goto

(* fileclose() gives a reference back; the last one goes on to pipeclose().  *)
LEMMA Keeps_fileclose ==
  ASSUME IInv, NEW p \in Procs, fileclose(p)
  PROVE  IInv'
<1> Count' = Count
  BY Zenon DEF Count, ring, IInv, fileclose, Goto
<1>1. TypeOK'
  BY Zenon DEF TypeOK, ring, IInv, fileclose, Goto
<1>2. SleepsWithReason'
  BY Zenon DEF TypeOK, SleepsWithReason, IInv, fileclose, Goto
<1>3. EndsOpen'
  BY PipeAssumption DEF TypeOK, EndsOpen, Sharers, Procs, IInv, fileclose, Goto
<1> QED BY <1>1, <1>2, <1>3 DEF IInv, fileclose, Goto

(* pipeclose() of one end wakes whoever sleeps on the other.                 *)
LEMMA Keeps_pipeclose ==
  ASSUME IInv, NEW p \in Procs, pipeclose(p)
  PROVE  IInv'
<1> Count' = Count
  BY Zenon DEF Count, ring, IInv, pipeclose
<1>1. TypeOK'
  BY Zenon DEF TypeOK, ring, Woken, IInv, pipeclose
<1>2. SleepsWithReason'
  BY PipeAssumption DEF TypeOK, SleepsWithReason, EndsOpen, Sharers, Procs, Woken, Locked, IInv,
     pipeclose
<1>3. \A q \in Procs : pc'[q] \in {"close", "gone"} <=> pc[q] \in {"close", "gone"}
  BY Zenon DEF TypeOK, Woken, IInv, pipeclose
<1>4. \A q \in Procs : pc'[q] = "close" => q # p /\ pc[q] = "close"
  BY DEF TypeOK, Woken, IInv, pipeclose
<1>5. \A q \in Procs : pc[q] = "gone" \/ q = p => pc'[q] = "gone"
  BY Zenon DEF TypeOK, Woken, IInv, pipeclose
<1>6. \A q \in Procs : pc'[q] = "gone" => pc[q] = "gone" \/ q = p
  BY Zenon DEF TypeOK, Woken, IInv, pipeclose
<1>7. \A q \in Sharers(p) : pc[q] = "gone"
  BY Zenon DEF EndsOpen, IInv, pipeclose
<1>8. EndsOpen'
  <2>1. \A q \in Procs : q \in refs' <=> pc'[q] \notin {"close", "gone"}
    BY <1>3, Zenon DEF EndsOpen, IInv, pipeclose
  <2>2. \A q \in Procs : pc'[q] = "close" => \A r \in Sharers(q) : pc'[r] = "gone"
    BY <1>4, <1>5, Zenon DEF EndsOpen, Sharers, IInv, pipeclose
  <2>3. readopen' = FALSE <=> \A q \in Readers : pc'[q] = "gone"
    BY <1>5, <1>6, <1>7, PipeAssumption DEF EndsOpen, Sharers, Procs, IInv, pipeclose
  <2>4. writeopen' = FALSE <=> \A q \in Writers : pc'[q] = "gone"
    BY <1>5, <1>6, <1>7, PipeAssumption DEF EndsOpen, Sharers, Procs, IInv, pipeclose
  <2>5. freed' = TRUE <=> readopen' = FALSE /\ writeopen' = FALSE
    BY <1>1, Zenon DEF TypeOK, IInv, pipeclose
  <2> QED BY <2>1, <2>2, <2>3, <2>4, <2>5, Zenon DEF EndsOpen, Sharers
<1> QED BY <1>1, <1>2, <1>8 DEF IInv, pipeclose

(* kill() wakes a process that sleeps; while p->lock is held it comes only   *)
(* from another CPU.                                                         *)
LEMMA Keeps_kill ==
  ASSUME IInv, NEW p \in Procs, kill(p)
  PROVE  IInv'
<1> Count' = Count
  BY DEF Count, ring, IInv, kill
<1>1. TypeOK'
  BY PipeAssumption, Zenon DEF TypeOK, ring, Woken, IInv, kill
<1>2. SleepsWithReason'
  BY PipeAssumption DEF TypeOK, SleepsWithReason, Woken, Locked, IInv, kill
<1>3. EndsOpen'
  BY Zenon DEF TypeOK, EndsOpen, Sharers, Procs, Woken, IInv, kill
<1> QED BY <1>1, <1>2, <1>3 DEF IInv, kill

(* pipealloc() in the page that was freed starts afresh.                     *)
LEMMA Keeps_pipealloc ==
  ASSUME IInv, pipealloc
  PROVE  IInv'
<1>0. Count' = 0
  BY Sizes, EmptyWhenEqual DEF Count, IInv, pipealloc
<1>1. TypeOK'
  <2>1. Count' <= PIPESIZE
    BY <1>0, Sizes
  <2>2. nread' \in 0..(UINT - 1) /\ nwrite' \in 0..(UINT - 1)
    BY Sizes DEF IInv, pipealloc
  <2> QED BY <2>1, <2>2, Zenon DEF TypeOK, IInv, pipealloc
<1>2. SleepsWithReason'
  BY Zenon DEF SleepsWithReason, IInv, pipealloc
<1>3. EndsOpen'
  BY PipeAssumption, Zenon DEF EndsOpen, Sharers, Procs, IInv, pipealloc
<1> QED BY <1>1, <1>2, <1>3 DEF IInv, pipealloc

(* What a burst of pipewrite() leaves to write, and the bytes it puts in.    *)
Burst(p) == Min2(Room, Len(todo[p]))
Rest(p)  == SubSeq(todo[p], Burst(p) + 1, Len(todo[p]))

(* A burst of pipewrite() ends at the end of addr[], or with a full pipe.    *)
LEMMA BurstFacts ==
  ASSUME TypeOK, NEW p \in Procs
  PROVE  /\ Burst(p) \in 0..Room /\ Burst(p) <= Len(todo[p])
         /\ Rest(p) \in Seq(Bytes)
         /\ Rest(p) # <<>> => Burst(p) = Room
<1>1. todo[p] \in Seq(Bytes) /\ Len(todo[p]) \in Nat
  BY LenProperties, Zenon DEF TypeOK
<1>2. Burst(p) \in 0..Room /\ Burst(p) <= Len(todo[p])
  BY <1>1, CountType DEF Burst, Min2
<1>3. Rest(p) \in Seq(Bytes)
  BY <1>1, <1>2, CountType, SubSeqProperties DEF Rest
<1>4. ASSUME Burst(p) # Room
      PROVE  Rest(p) = <<>>
  <2>1. Burst(p) = Len(todo[p])
    BY <1>4 DEF Burst, Min2
  <2> QED BY <1>1, <2>1, SubSeqProperties DEF Rest
<1> QED BY <1>2, <1>3, <1>4

(* pipewrite() changes nwrite so that the bytes of the burst are counted.    *)
LEMMA WriteCounted ==
  ASSUME TypeOK, NEW p \in Procs, pipewrite(p)
  PROVE  nwrite' \in 0..(UINT - 1) /\ Count' = Count + Burst(p)
<1>1. Burst(p) \in Nat /\ Count + Burst(p) < UINT
  BY Sizes, CountType, BurstFacts DEF Room
<1>2. nwrite' = (nwrite + Burst(p)) % UINT /\ nread' = nread
  BY Zenon DEF pipewrite, Burst
<1> HIDE DEF Burst
<1>3. nwrite \in 0..(UINT - 1) /\ nread \in 0..(UINT - 1)
  BY DEF TypeOK
<1>4. /\ (nwrite + Burst(p)) % UINT \in 0..(UINT - 1)
      /\ (((nwrite + Burst(p)) % UINT) - nread) % UINT = ((nwrite - nread) % UINT) + Burst(p)
  <2> DEFINE k == Burst(p)
  <2>1. k \in Nat /\ ((nwrite - nread) % UINT) + k < UINT
    BY <1>1 DEF Count
  <2>2. UINT \in Nat \ {0}
    BY Sizes
  <2> HIDE DEF k
  <2>3. /\ (nwrite + k) % UINT \in 0..(UINT - 1)
        /\ (((nwrite + k) % UINT) - nread) % UINT = ((nwrite - nread) % UINT) + k
    BY <1>3, <2>1, <2>2, CountWritten
  <2> QED BY <2>3, Zenon DEF k
<1> QED BY <1>2, <1>4, Zenon DEF Count

(* A burst of pipewrite(): a writer that goes to sleep has filled the pipe   *)
(* and woken the readers; one that gives up after it has put bytes in did so *)
(* because it was killed (aborted), or nobody reads any more.                *)
LEMMA Keeps_pipewrite ==
  ASSUME IInv, NEW p \in Procs, pipewrite(p)
  PROVE  IInv'
<1> DEFINE quit == Rest(p) # <<>> /\ (~ readopen \/ p \in killed)
<1>1. /\ nwrite' \in 0..(UINT - 1) /\ Count' = Count + Burst(p)
      /\ Count \in 0..PIPESIZE /\ Room = PIPESIZE - Count
      /\ Burst(p) \in 0..Room /\ Rest(p) \in Seq(Bytes)
      /\ Rest(p) # <<>> => Burst(p) = Room
  BY WriteCounted, CountType, BurstFacts, Zenon DEF Room, IInv
<1>2. /\ p \in Writers /\ pc[p] = "run" /\ ~ Locked
      /\ todo' = [todo EXCEPT ![p] = IF quit THEN <<>> ELSE Rest(p)]
      /\ pc' = IF quit THEN [pc EXCEPT ![p] = "idle"]
               ELSE Woken(Readers, [pc EXCEPT ![p] = IF Rest(p) = <<>> THEN "idle" ELSE "tosleep"])
      /\ aborted' = (quit /\ (aborted \/ (readopen /\ Burst(p) > 0)))
      /\ UNCHANGED <<nread, readopen, writeopen, freed, refs, want, killed>>
  BY Zenon DEF pipewrite, Burst, Rest, IInv
<1>3. data' \in [0..(PIPESIZE - 1) -> Bytes]
  <2> DEFINE slot(i) == ((nwrite + i - 1) % UINT) % PIPESIZE
  <2>1. data' = [j \in DOMAIN data |-> IF \E i \in 1..Burst(p) : slot(i) = j
                                         THEN todo[p][CHOOSE i \in 1..Burst(p) : slot(i) = j]
                                         ELSE data[j]]
    BY Zenon DEF pipewrite, Burst
  <2>2. \A i \in 1..Burst(p) : todo[p][i] \in Bytes
    BY BurstFacts, ElementOfSeq, LenProperties DEF TypeOK, IInv
  <2>3. ASSUME NEW j \in 0..(PIPESIZE - 1), \E i \in 1..Burst(p) : slot(i) = j
        PROVE  todo[p][CHOOSE i \in 1..Burst(p) : slot(i) = j] \in Bytes
    <3> HIDE DEF slot
    <3> (CHOOSE i \in 1..Burst(p) : slot(i) = j) \in 1..Burst(p)
      BY <2>3
    <3> QED BY <2>2
  <2> HIDE DEF slot
  <2> QED BY <2>1, <2>3, Zenon DEF TypeOK, IInv
<1> HIDE DEF quit
<1>4. aborted' \in BOOLEAN
  BY <1>2, Zenon
<1>5. pc' \in [Procs -> {"idle", "run", "tosleep", "asleep", "close", "gone"}]
  BY <1>2, Zenon DEF TypeOK, Woken, IInv
<1>6. todo' \in [Procs -> Seq(Bytes)]
  BY <1>1, <1>2 DEF TypeOK, IInv
<1> Count' <= PIPESIZE
  BY <1>1, Sizes DEF IInv
<1>7. TypeOK'
  BY <1>1, <1>2, <1>3, <1>4, <1>5, <1>6, Zenon DEF TypeOK, IInv
<1>8. EndsOpen'
  BY <1>2, Zenon DEF TypeOK, EndsOpen, Sharers, Procs, Woken, IInv
<1>9. SleepsWithReason'
  <2> SUFFICES ASSUME NEW q \in Procs, pc'[q] \in {"tosleep", "asleep"}
               PROVE  /\ q \in Writers => Count' = PIPESIZE /\ readopen'
                      /\ q \in Readers => (Count' = 0 \/ aborted') /\ writeopen'
                      /\ NCPU = 1 => q \notin killed'
    BY Zenon DEF SleepsWithReason
  <2>1. CASE q = p
    <3>1. Rest(p) # <<>> /\ readopen /\ p \notin killed
      BY <1>2, <2>1, Zenon DEF TypeOK, quit, Woken, IInv
    <3> QED BY <1>1, <1>2, <2>1, <3>1, PipeAssumption
  <2>2. CASE q # p /\ q \in Writers
    <3>1. pc[q] = "asleep"
      BY <1>2, <2>2, PipeAssumption, Zenon DEF TypeOK, Woken, Locked, IInv
    <3>2. Count = PIPESIZE /\ readopen /\ (NCPU = 1 => q \notin killed)
      BY <2>2, <3>1 DEF SleepsWithReason, IInv
    <3> QED BY <1>1, <1>2, <2>2, <3>2, PipeAssumption
  <2>3. CASE q \in Readers
    <3>1. pc[q] = "asleep" /\ quit /\ pc[q] # "gone"
      BY <1>2, <2>3, PipeAssumption, Zenon DEF TypeOK, Woken, Locked, IInv
    <3>2. readopen
      BY <2>3, <3>1, Zenon DEF EndsOpen, TypeOK, IInv
    <3>3. (Count = 0 \/ aborted) /\ writeopen /\ (NCPU = 1 => q \notin killed)
      BY <2>3, <3>1, Zenon DEF SleepsWithReason, IInv
    <3>4. Burst(p) > 0 \/ Count' = Count
      BY <1>1
    <3> QED BY <1>2, <2>3, <3>1, <3>2, <3>3, <3>4, PipeAssumption, Zenon
  <2> QED BY <2>1, <2>2, <2>3, Zenon DEF Procs
<1> QED BY <1>7, <1>8, <1>9 DEF IInv

(* piperead() takes at most what is there.                                   *)
LEMMA AvailableFacts ==
  ASSUME TypeOK, NEW p \in Procs
  PROVE  /\ Available(want[p]) \in 0..Count
         /\ (nread + Available(want[p])) % UINT \in 0..(UINT - 1)
         /\ (nwrite - ((nread + Available(want[p])) % UINT)) % UINT
              = ((nwrite - nread) % UINT) - Available(want[p])
<1> DEFINE k == Available(want[p])
<1>1. want[p] \in Nat
  <2>1. want[p] \in ReadSizes \/ want[p] = 0
    BY DEF TypeOK
  <2>2. \A n \in ReadSizes : n \in Nat
    BY PipeAssumption
  <2> QED BY <2>1, <2>2
<1>2. k \in 0..Count
  BY <1>1, CountType DEF Available, Min2
<1>3. nwrite \in 0..(UINT - 1) /\ nread \in 0..(UINT - 1)
  BY DEF TypeOK
<1>4. k \in Nat /\ k <= (nwrite - nread) % UINT
  BY <1>2, CountType DEF Count
<1>5. UINT \in Nat \ {0}
  BY Sizes
<1> HIDE DEF k
<1>6. /\ (nread + k) % UINT \in 0..(UINT - 1)
      /\ (nwrite - ((nread + k) % UINT)) % UINT = ((nwrite - nread) % UINT) - k
  BY <1>3, <1>4, <1>5, CountRead
<1> QED BY <1>2, <1>6, Zenon DEF k

(* piperead() changes nread so that what it took is no longer counted.       *)
LEMMA ReadCounted ==
  ASSUME TypeOK, NEW p \in Procs, nread' = (nread + Available(want[p])) % UINT,
         nwrite' = nwrite
  PROVE  /\ Available(want[p]) \in 0..Count
         /\ nread' \in 0..(UINT - 1) /\ Count' = Count - Available(want[p])
BY AvailableFacts, Zenon DEF Count

(* A step of piperead(): a reader goes to sleep only on an empty pipe that   *)
(* can still be written, and one that takes bytes wakes the writers.         *)
LEMMA Keeps_piperead ==
  ASSUME IInv, NEW p \in Procs, piperead(p)
  PROVE  IInv'
<1>1. CASE nread = nwrite /\ writeopen
  <2>1. /\ p \in Readers /\ pc[p] = "run" /\ ~ Locked
        /\ pc' = [pc EXCEPT ![p] = IF p \in killed THEN "idle" ELSE "tosleep"]
        /\ want' = [want EXCEPT ![p] = IF p \in killed THEN 0 ELSE @]
        /\ UNCHANGED <<nread, data, nwrite, readopen, writeopen, freed, refs, todo, killed, aborted>>
    BY <1>1, Zenon DEF piperead
  <2>2. Count' = Count /\ Count = 0
    BY <1>1, <2>1, Sizes, EmptyWhenEqual DEF Count, TypeOK, IInv
  <2>3. TypeOK'
    BY <2>1, <2>2, Zenon DEF TypeOK, IInv
  <2>4. SleepsWithReason'
    BY <1>1, <2>1, <2>2, PipeAssumption DEF TypeOK, SleepsWithReason, Locked, IInv
  <2>5. EndsOpen'
    BY <2>1, Zenon DEF TypeOK, EndsOpen, Sharers, Procs, IInv
  <2> QED BY <2>3, <2>4, <2>5 DEF IInv
<1>2. CASE ~ (nread = nwrite /\ writeopen)
  <2>1. /\ p \in Readers /\ pc[p] = "run" /\ ~ Locked
        /\ nread' = (nread + Available(want[p])) % UINT
        /\ want' = [want EXCEPT ![p] = 0]
        /\ pc' = Woken(Writers, [pc EXCEPT ![p] = "idle"])
        /\ UNCHANGED <<data, nwrite, readopen, writeopen, freed, refs, todo, killed, aborted>>
    BY <1>2, Zenon DEF piperead
  <2>2. /\ Available(want[p]) \in 0..Count /\ nread' \in 0..(UINT - 1)
        /\ Count' = Count - Available(want[p]) /\ Count \in 0..PIPESIZE
    BY <2>1, ReadCounted, CountType, Zenon DEF IInv
  <2>3. pc' \in [Procs -> {"idle", "run", "tosleep", "asleep", "close", "gone"}]
    BY <2>1, Zenon DEF TypeOK, Woken, IInv
  <2> Count' <= PIPESIZE
    BY <2>2, Sizes
  <2>4. TypeOK'
    BY <2>1, <2>2, <2>3, Zenon DEF TypeOK, IInv
  <2>5. \A q \in Procs : pc'[q] \in {"tosleep", "asleep"} => q \in Readers /\ pc[q] = "asleep"
    BY <2>1, PipeAssumption, Zenon DEF TypeOK, Woken, Locked, Procs, IInv
  <2>6. Count = 0 => Count' = 0
    BY <2>2
  <2>7. SleepsWithReason'
    BY <2>1, <2>5, <2>6, PipeAssumption, Zenon DEF SleepsWithReason, IInv
  <2>8. EndsOpen'
    BY <2>1, Zenon DEF TypeOK, EndsOpen, Sharers, Procs, Woken, IInv
  <2> QED BY <2>4, <2>7, <2>8 DEF IInv
<1> QED BY <1>1, <1>2

(* Every step keeps the inductive invariant.                                 *)
LEMMA NextIInv == IInv /\ [Next]_vars => IInv'
<1> SUFFICES ASSUME IInv, [Next]_vars PROVE IInv'
  OBVIOUS
<1>1. CASE UNCHANGED vars
  BY <1>1, Zenon DEF vars, ring, IInv, TypeOK, SleepsWithReason, EndsOpen, Count, Sharers
<1>2. CASE Next
  BY <1>2, Keeps_CallWrite, Keeps_CallRead, Keeps_pipewrite, Keeps_piperead, Keeps_Sleep,
     Keeps_fileclose, Keeps_pipeclose, Keeps_kill, Keeps_pipealloc, Zenon DEF Next
<1> QED BY <1>1, <1>2

(* The inductive invariant holds whatever the readers and writers, closes    *)
(* and kills do.                                                             *)
THEOREM Invariance == Spec => []IInv
BY InitIInv, NextIInv, PTL DEF Spec

(* Nobody sleeps in pipewrite() or piperead() without a reason: no read,     *)
(* write, close or kill() goes by without the wakeup it owes.                *)
THEOREM NoLostWakeup == Spec => []SleepsWithReason
<1>1. IInv => SleepsWithReason
  BY DEF IInv
<1> QED BY <1>1, Invariance, PTL

(* pipeclose() gives the page to kfree() only when no process has an end     *)
(* open or is inside a call on the pipe, and the counters are never more     *)
(* than PIPESIZE apart.                                                      *)
THEOREM FreedUnused == Spec => []NotUsedAfterFree
<1>1. IInv => NotUsedAfterFree
  BY Zenon DEF IInv, EndsOpen, NotUsedAfterFree, TypeOK, Procs
<1> QED BY <1>1, Invariance, PTL
-----------------------------------------------------------------------------
(* The ring buffer as a sequence.                                            *)

(* Numbers with the same remainder differ by a multiple.                     *)
LEMMA SameRemainder ==
  ASSUME NEW P \in Nat \ {0}, NEW a \in Int, NEW b \in Int, a % P = b % P
  PROVE  (a - b) % P = 0
OBVIOUS

(* What is left without the remainder is a multiple.                         *)
LEMMA LessRemainder ==
  ASSUME NEW P \in Nat \ {0}, NEW a \in Int
  PROVE  a % P \in 0..(P - 1) /\ (a - (a % P)) % P = 0
<1>1. a % P \in 0..(P - 1)
  OBVIOUS
<1>2. (a - (a % P)) % P = 0
  OBVIOUS
<1> QED BY <1>1, <1>2

(* Two remainders that differ by a multiple are equal.                       *)
LEMMA EqualRemainders ==
  ASSUME NEW P \in Nat \ {0}, NEW s \in 0..(P - 1), NEW r \in 0..(P - 1), (s - r) % P = 0
  PROVE  s = r
<1>1. CASE s >= r
  <2> s - r \in 0..(P - 1)
    BY <1>1
  <2> (s - r) % P = s - r
    OBVIOUS
  <2> QED OBVIOUS
<1>2. CASE s < r
  <2> r - s \in 0..(P - 1)
    BY <1>2
  <2>1. 0 % P = 0
    OBVIOUS
  <2>2. (0 - (s - r)) % P = 0
    BY <2>1, SameRemainder
  <2>3. (r - s) % P = r - s
    OBVIOUS
  <2> QED BY <2>2, <2>3
<1> QED BY <1>1, <1>2

(* As the counters wrap at a multiple of the size of the ring, wrapping      *)
(* leaves the slot as it is.                                                 *)
LEMMA WrapKeepsSlot ==
  ASSUME NEW P \in Nat \ {0}, NEW U \in Nat, U % P = 0, NEW y \in Int
  PROVE  (y - U) % P = y % P
<1> DEFINE z == y - U
           s == z % P
           r == y % P
           a == z - s
           b == y - r
           c == b - a
<1>1. z \in Int /\ z = y - U
  OBVIOUS
<1> HIDE DEF z
<1>2. s \in 0..(P - 1) /\ (z - s) % P = 0
  BY <1>1, LessRemainder, Zenon
<1>3. r \in 0..(P - 1) /\ (y - r) % P = 0
  BY LessRemainder, Zenon
<1> HIDE DEF s, r
<1>4. a \in Int /\ b \in Int /\ a % P = b % P /\ a = z - s /\ b = y - r
  BY <1>1, <1>2, <1>3
<1> HIDE DEF a, b
<1>5. c - U = s - r
  BY <1>1, <1>2, <1>3, <1>4
<1>c. c \in Int /\ U \in Int
  BY <1>4
<1>a. (b - a) % P = 0
  BY <1>4, SameRemainder
<1>b. c % P = U % P
  BY <1>a
<1> HIDE DEF c
<1>6. (c - U) % P = 0
  BY <1>b, <1>c, SameRemainder, Zenon
<1>7. s = r
  BY <1>2, <1>3, <1>5, <1>6, EqualRemainders
<1> QED BY <1>7 DEF s, r, z

(* Slots less than the size of the ring apart are different slots.           *)
LEMMA SlotsDiffer ==
  ASSUME NEW P \in Nat \ {0}, NEW x \in Nat, NEW i \in 0..(P - 1), NEW j \in 0..(P - 1),
         (x + i) % P = (x + j) % P
  PROVE  i = j
<1> DEFINE a == x + i
           b == x + j
<1>1. a \in Int /\ b \in Int /\ a - b = i - j /\ a % P = b % P
  OBVIOUS
<1> HIDE DEF a, b
<1>2. (a - b) % P = 0
  BY <1>1, SameRemainder, Zenon
<1> QED BY <1>1, <1>2, EqualRemainders

\* The slot of the i-th byte from a counter x on.
Slot(x, i) == ((x + i - 1) % UINT) % PIPESIZE

(* The slot without the wrap of the counter.                                 *)
LEMMA SlotUnwrapped ==
  ASSUME NEW x \in 0..(UINT - 1), NEW i \in 1..UINT
  PROVE  Slot(x, i) = ((x + i) - 1) % PIPESIZE /\ Slot(x, i) \in 0..(PIPESIZE - 1)
<1> DEFINE k == i - 1
<1>1. k \in 0..(UINT - 1) /\ (x + i) - 1 = x + k /\ UINT \in Nat \ {0}
  BY Sizes
<1> HIDE DEF k
<1>2. x + k \in Int
  BY <1>1
<1>3. (x + k) % UINT = x + k \/ (x + k) % UINT = (x + k) - UINT
  BY <1>1, WrapUp, Zenon
<1>4. \A y \in Int : (y - UINT) % PIPESIZE = y % PIPESIZE
  BY Sizes, WrapKeepsSlot, Zenon
<1>5. \A y \in Int : y % PIPESIZE \in 0..(PIPESIZE - 1)
  BY Sizes, LessRemainder
<1>6. ((x + k) % UINT) % PIPESIZE = (x + k) % PIPESIZE
  <2>1. ((x + k) - UINT) % PIPESIZE = (x + k) % PIPESIZE
    BY <1>2, <1>4, Zenon
  <2> QED BY <1>3, <2>1, Zenon
<1> QED BY <1>1, <1>2, <1>5, <1>6 DEF Slot

(* The slots after c bytes, counted from nwrite or from nread.               *)
LEMMA SlotShifted ==
  ASSUME NEW x \in 0..(UINT - 1), NEW c \in 0..PIPESIZE, NEW i \in 1..PIPESIZE,
         c + i <= UINT
  PROVE  Slot((x + c) % UINT, i) = Slot(x, c + i)
<1> DEFINE n == (x + c) % UINT
<1>1. c \in 0..(UINT - 1) /\ i \in 1..UINT /\ c + i \in 1..UINT
  BY Sizes
<1>2. n \in 0..(UINT - 1) /\ n = IF x + c < UINT THEN x + c ELSE (x + c) - UINT
  <2>1. UINT \in Nat \ {0}
    BY Sizes, Zenon
  <2> QED
    BY <1>1, <2>1, WrapUp, Zenon
<1> HIDE DEF n
<1> DEFINE y == (x + (c + i)) - 1
<1>3. Slot(n, i) = ((n + i) - 1) % PIPESIZE
  BY <1>1, <1>2, SlotUnwrapped, Zenon
<1>4. Slot(x, c + i) = y % PIPESIZE
  BY <1>1, SlotUnwrapped
<1>5. y \in Int /\ ((n + i) - 1 = y \/ (n + i) - 1 = y - UINT)
  BY <1>1, <1>2, Sizes
<1> HIDE DEF y
<1>6. (y - UINT) % PIPESIZE = y % PIPESIZE
  BY <1>5, Sizes, WrapKeepsSlot, Zenon
<1>7. Slot(n, i) = Slot(x, c + i)
  BY <1>3, <1>4, <1>5, <1>6
<1> QED BY <1>7 DEF n

\* The c bytes in the ring d from the counter r on.
RingSeq(d, r, c) == [i \in 1..c |-> d[((r + i - 1) % UINT) % PIPESIZE]]

(* The ring holds a sequence of bytes.                                       *)
LEMMA RingSeqType ==
  ASSUME NEW d \in [0..(PIPESIZE - 1) -> Bytes], NEW r \in 0..(UINT - 1), NEW c \in 0..PIPESIZE
  PROVE  /\ RingSeq(d, r, c) \in Seq(Bytes) /\ Len(RingSeq(d, r, c)) = c
         /\ \A i \in 1..c : RingSeq(d, r, c)[i] = d[Slot(r, i)]
<1>1. \A i \in 1..c : Slot(r, i) \in 0..(PIPESIZE - 1)
  BY Sizes, SlotUnwrapped
<1>2. RingSeq(d, r, c) = [i \in 1..c |-> d[Slot(r, i)]]
  BY DEF RingSeq, Slot
<1>3. RingSeq(d, r, c) \in [1..c -> Bytes]
  BY <1>1, <1>2
<1>4. RingSeq(d, r, c) \in Seq(Bytes) /\ Len(RingSeq(d, r, c)) = c
  BY <1>3
<1> QED BY <1>2, <1>4

(* piperead(): advancing nread by k takes the first k bytes.                 *)
LEMMA RingTake ==
  ASSUME NEW d \in [0..(PIPESIZE - 1) -> Bytes], NEW r \in 0..(UINT - 1), NEW c \in 0..PIPESIZE,
         NEW k \in 0..c
  PROVE  RingSeq(d, (r + k) % UINT, c - k) = SubSeq(RingSeq(d, r, c), k + 1, c)
<1> DEFINE m == (r + k) % UINT
           s == RingSeq(d, r, c)
           t == RingSeq(d, m, c - k)
           u == SubSeq(s, k + 1, c)
<1>1. m \in 0..(UINT - 1)
  <2>1. k \in 0..(UINT - 1) /\ UINT \in Nat \ {0}
    BY Sizes
  <2> QED BY <2>1, WrapUp, Zenon
<1>2. \A i \in 1..(c - k) : Slot(m, i) = Slot(r, k + i)
  <2>1. \A i \in 1..(c - k) : k \in 0..PIPESIZE /\ i \in 1..PIPESIZE /\ k + i <= UINT
    BY Sizes
  <2> QED BY <2>1, SlotShifted
<1> HIDE DEF m
<1>3. c - k \in 0..PIPESIZE
  BY Sizes
<1>4. s \in Seq(Bytes) /\ Len(s) = c /\ \A i \in 1..c : s[i] = d[Slot(r, i)]
  BY RingSeqType, Zenon
<1>5. t \in Seq(Bytes) /\ Len(t) = c - k /\ \A i \in 1..(c - k) : t[i] = d[Slot(m, i)]
  BY <1>1, <1>3, RingSeqType, Zenon
<1> HIDE DEF s, t
<1>6. u \in Seq(Bytes) /\ Len(u) = c - k /\ \A i \in 1..(c - k) : u[i] = s[k + i]
  <2>1. \A i \in (k + 1)..c : s[i] \in Bytes
    BY <1>4, ElementOfSeq
  <2>2. /\ u \in Seq(Bytes)
        /\ Len(u) = IF k + 1 <= c THEN c - (k + 1) + 1 ELSE 0
        /\ \A i \in 1..(c - (k + 1) + 1) : u[i] = s[(k + 1) + i - 1]
    BY <2>1, SubSeqProperties
  <2> HIDE DEF u
  <2>3. c - (k + 1) + 1 = c - k /\ \A i \in 1..(c - k) : (k + 1) + i - 1 = k + i
    OBVIOUS
  <2>4. Len(u) = c - k
    BY <2>2, <2>3
  <2> QED BY <2>2, <2>3, <2>4
<1> HIDE DEF u
<1>7. \A i \in 1..(c - k) : t[i] = u[i]
  BY <1>2, <1>4, <1>5, <1>6
<1>8. t = u
  BY <1>5, <1>6, <1>7, SeqEqual, Zenon
<1> QED BY <1>8, Zenon DEF t, u, s, m

(* Different bytes of the pipe, and different free slots, are different      *)
(* slots of the ring.                                                        *)
LEMMA SlotInjective ==
  ASSUME NEW r \in 0..(UINT - 1), NEW i \in 1..PIPESIZE, NEW j \in 1..PIPESIZE,
         Slot(r, i) = Slot(r, j)
  PROVE  i = j
<1> DEFINE a == i - 1
           b == j - 1
<1>1. a \in 0..(PIPESIZE - 1) /\ b \in 0..(PIPESIZE - 1) /\ (r + i) - 1 = r + a /\ (r + j) - 1 = r + b
  BY Sizes
<1>2. i \in 1..UINT /\ j \in 1..UINT
  BY Sizes
<1>3. Slot(r, i) = ((r + i) - 1) % PIPESIZE /\ Slot(r, j) = ((r + j) - 1) % PIPESIZE
  BY <1>2, SlotUnwrapped
<1>4. (r + a) % PIPESIZE = (r + b) % PIPESIZE
  BY <1>1, <1>3, Zenon
<1> HIDE DEF a, b
<1>5. r \in Nat /\ PIPESIZE \in Nat \ {0}
  BY Sizes
<1>6. a = b
  BY <1>1, <1>4, <1>5, SlotsDiffer, Zenon
<1> QED BY <1>6 DEF a, b

(* e is the ring d, which holds c bytes from the counter r on, with the      *)
(* bytes s copied in after them.                                             *)
Copied(d, e, r, c, s) ==
  /\ d \in [0..(PIPESIZE - 1) -> Bytes] /\ e \in [0..(PIPESIZE - 1) -> Bytes]
  /\ r \in 0..(UINT - 1) /\ c \in 0..PIPESIZE
  /\ s \in Seq(Bytes) /\ Len(s) \in 0..(PIPESIZE - c)
  /\ \A j \in 0..(PIPESIZE - 1) :
       \/ \E i \in 1..Len(s) : Slot((r + c) % UINT, i) = j /\ e[j] = s[i]
       \/ (\A i \in 1..Len(s) : Slot((r + c) % UINT, i) # j) /\ e[j] = d[j]

(* The copy of pipewrite() leaves the bytes that are in the pipe, and fills  *)
(* the slots after them in order.                                            *)
LEMMA PutSlots ==
  ASSUME NEW d, NEW e, NEW r, NEW c, NEW s, Copied(d, e, r, c, s)
  PROVE  /\ \A i \in 1..c : e[Slot(r, i)] = d[Slot(r, i)]
         /\ \A i \in 1..Len(s) : e[Slot(r, c + i)] = s[i]
<1> DEFINE n == (r + c) % UINT
           k == Len(s)
<1>0. /\ r \in 0..(UINT - 1) /\ c \in 0..PIPESIZE /\ k \in 0..(PIPESIZE - c)
      /\ \A j \in 0..(PIPESIZE - 1) : \/ \E i \in 1..k : Slot(n, i) = j /\ e[j] = s[i]
                                      \/ (\A i \in 1..k : Slot(n, i) # j) /\ e[j] = d[j]
  BY Zenon DEF Copied
<1> HIDE DEF k
<1>1. \A i \in 1..k : Slot(n, i) = Slot(r, c + i)
  <2>1. \A i \in 1..k : i \in 1..PIPESIZE /\ c + i <= UINT
    BY <1>0, Sizes
  <2> QED BY <1>0, <2>1, SlotShifted
<1> HIDE DEF n
<1>2. \A i \in 1..(c + k) : Slot(r, i) \in 0..(PIPESIZE - 1) /\ i \in 1..PIPESIZE
  BY <1>0, Sizes, SlotUnwrapped
<1>3. \A i, j \in 1..(c + k) : Slot(r, i) = Slot(r, j) => i = j
  BY <1>0, <1>2, SlotInjective, Zenon
<1> HIDE DEF Slot
<1>4. ASSUME NEW i \in 1..c
      PROVE  e[Slot(r, i)] = d[Slot(r, i)]
  <2>1. \A j \in 1..k : Slot(n, j) # Slot(r, i)
    <3> SUFFICES ASSUME NEW j \in 1..k, Slot(n, j) = Slot(r, i) PROVE FALSE
      OBVIOUS
    <3>1. Slot(r, c + j) = Slot(r, i) /\ c + j \in 1..(c + k) /\ i \in 1..(c + k) /\ c + j # i
      BY <1>0, <1>1
    <3> QED BY <1>3, <3>1
  <2>2. Slot(r, i) \in 0..(PIPESIZE - 1)
    BY <1>0, <1>2
  <2> QED BY <1>0, <2>1, <2>2
<1>5. ASSUME NEW i \in 1..k
      PROVE  e[Slot(r, c + i)] = s[i]
  <2>1. \A j \in 1..k : Slot(n, j) = Slot(r, c + i) => j = i
    <3> SUFFICES ASSUME NEW j \in 1..k, Slot(n, j) = Slot(r, c + i) PROVE j = i
      OBVIOUS
    <3>1. Slot(r, c + j) = Slot(r, c + i) /\ c + j \in 1..(c + k) /\ c + i \in 1..(c + k)
      BY <1>0, <1>1
    <3>2. c + j = c + i
      BY <1>3, <3>1
    <3> QED BY <1>0, <3>2
  <2>2. Slot(n, i) = Slot(r, c + i) /\ Slot(r, c + i) \in 0..(PIPESIZE - 1)
    BY <1>0, <1>1, <1>2
  <2> QED BY <1>0, <2>1, <2>2, Zenon
<1> QED BY <1>4, <1>5 DEF k

(* pipewrite(): the bytes that are put in at nwrite come after those that    *)
(* are there, and overwrite none of them.                                    *)
LEMMA RingPut ==
  ASSUME NEW d, NEW e, NEW r, NEW c, NEW s, Copied(d, e, r, c, s)
  PROVE  RingSeq(e, r, c + Len(s)) = RingSeq(d, r, c) \o s
<1> DEFINE k == Len(s)
           t == RingSeq(e, r, c + k)
           u == RingSeq(d, r, c)
           w == u \o s
<1>1. \A i \in 1..c : e[Slot(r, i)] = d[Slot(r, i)]
  BY PutSlots
<1>2. \A i \in 1..k : e[Slot(r, c + i)] = s[i]
  BY PutSlots
<1>3. /\ d \in [0..(PIPESIZE - 1) -> Bytes] /\ e \in [0..(PIPESIZE - 1) -> Bytes]
      /\ r \in 0..(UINT - 1) /\ c \in 0..PIPESIZE
      /\ s \in Seq(Bytes) /\ k \in 0..(PIPESIZE - c)
  BY Zenon DEF Copied
<1>5. k = Len(s)
  OBVIOUS
<1> HIDE DEF k
<1>6. t \in Seq(Bytes) /\ Len(t) = c + k /\ \A i \in 1..(c + k) : t[i] = e[Slot(r, i)]
  <2> c + k \in 0..PIPESIZE
    BY <1>3, Sizes
  <2> QED BY <1>3, RingSeqType, Zenon
<1>7. u \in Seq(Bytes) /\ Len(u) = c /\ \A i \in 1..c : u[i] = d[Slot(r, i)]
  BY <1>3, RingSeqType, Zenon
<1> HIDE DEF t, u
<1>9. /\ w \in Seq(Bytes) /\ Len(w) = c + k
      /\ \A i \in 1..(c + k) : w[i] = IF i <= c THEN u[i] ELSE s[i - c]
  <2>1. /\ w \in Seq(Bytes) /\ Len(w) = Len(u) + Len(s)
        /\ \A i \in 1..(Len(u) + Len(s)) : w[i] = IF i <= Len(u) THEN u[i] ELSE s[i - Len(u)]
    BY <1>3, <1>7, ConcatProperties, Zenon
  <2> QED BY <1>5, <1>7, <2>1, Zenon
<1> HIDE DEF w
<1>10. ASSUME NEW i \in 1..(c + k)
       PROVE  t[i] = w[i]
  <2>1. CASE i <= c
    <3>1. i \in 1..c /\ e[Slot(r, i)] = d[Slot(r, i)]
      BY <1>1, <1>3, <2>1
    <3> QED BY <1>6, <1>7, <1>9, <2>1, <3>1, Zenon
  <2>2. CASE i > c
    <3>1. i - c \in 1..k /\ c + (i - c) = i
      BY <1>3, <2>2
    <3>2. e[Slot(r, i)] = s[i - c]
      BY <1>2, <3>1
    <3> QED BY <1>3, <1>6, <1>9, <2>2, <3>2
  <2> QED BY <1>3, <2>1, <2>2
<1>11. t = w
  BY <1>6, <1>9, <1>10, SeqEqual
<1> QED BY <1>11, Zenon DEF k, t, u, w

-----------------------------------------------------------------------------
(* What the calls do to the queue of bytes.                                  *)

(* nwrite is Count ahead of nread.                                           *)
LEMMA WriteEnd ==
  ASSUME NEW U \in Nat \ {0}, NEW n \in 0..(U - 1), NEW r \in 0..(U - 1)
  PROVE  (r + ((n - r) % U)) % U = n
<1> DEFINE c == (n - r) % U
<1>1. c \in 0..(U - 1) /\ c = IF r <= n THEN n - r ELSE n - r + U
  BY WrapDown, Zenon
<1> HIDE DEF c
<1>2. (r + c) % U = IF r + c < U THEN r + c ELSE (r + c) - U
  BY <1>1, WrapUp, Zenon
<1>3. (r + c) % U = n
  BY <1>1, <1>2
<1> QED BY <1>3 DEF c

(* The pipe as a sequence of bytes.                                          *)
LEMMA ContentsType ==
  ASSUME TypeOK
  PROVE  /\ Contents \in Seq(Bytes) /\ Len(Contents) <= PIPESIZE
         /\ freed = FALSE => Contents = RingSeq(data, nread, Count) /\ Len(Contents) = Count
<1>1. Count \in 0..PIPESIZE
  BY CountType
<1>2. data \in [0..(PIPESIZE - 1) -> Bytes] /\ nread \in 0..(UINT - 1) /\ freed \in BOOLEAN
  BY DEF TypeOK
<1>3. RingSeq(data, nread, Count) \in Seq(Bytes) /\ Len(RingSeq(data, nread, Count)) = Count
  BY <1>1, <1>2, RingSeqType
<1>4. CASE freed = TRUE
  <2>1. Contents = <<>>
    BY <1>4 DEF Contents
  <2> QED BY <1>4, <2>1, Sizes
<1>5. CASE freed = FALSE
  <2>1. Contents = RingSeq(data, nread, Count)
    BY <1>5 DEF Contents, RingSeq
  <2> QED BY <1>1, <1>3, <2>1, Sizes
<1> QED BY <1>2, <1>4, <1>5, Zenon

(* The ring of a process that is inside a call has not been freed.           *)
LEMMA RunningNotFreed ==
  ASSUME IInv, NEW p \in Procs, pc[p] # "gone"
  PROVE  freed = FALSE
BY Zenon DEF IInv, TypeOK, EndsOpen, Procs

(* A burst of pipewrite() appends its bytes, in order.                       *)
LEMMA Appends ==
  ASSUME IInv, NEW p \in Procs, pipewrite(p)
  PROVE  /\ Contents' = Contents \o SubSeq(todo[p], 1, Burst(p))
         /\ SubSeq(todo[p], 1, Burst(p)) \in Seq(Bytes)
         /\ Len(Contents) + Len(SubSeq(todo[p], 1, Burst(p))) <= PIPESIZE
<1> DEFINE k == Burst(p)
           s == SubSeq(todo[p], 1, k)
<1>1. IInv'
  BY Keeps_pipewrite
<1>2. TypeOK /\ TypeOK'
  BY <1>1 DEF IInv
<1>3. freed = FALSE /\ freed' = FALSE
  BY RunningNotFreed, Zenon DEF pipewrite
<1>4. /\ Count \in 0..PIPESIZE /\ k \in 0..(PIPESIZE - Count) /\ k <= Len(todo[p])
      /\ Count' = Count + k /\ nread' = nread
  BY <1>2, CountType, BurstFacts, WriteCounted, Zenon DEF Room, pipewrite
<1>5. /\ data \in [0..(PIPESIZE - 1) -> Bytes] /\ data' \in [0..(PIPESIZE - 1) -> Bytes]
      /\ nread \in 0..(UINT - 1) /\ nwrite \in 0..(UINT - 1) /\ todo[p] \in Seq(Bytes)
  BY <1>2, Zenon DEF TypeOK
<1>6. nwrite = (nread + Count) % UINT
  <2>1. UINT \in Nat \ {0}
    BY Sizes
  <2> QED BY <1>5, <2>1, WriteEnd, Zenon DEF Count
<1>7. data' = [j \in 0..(PIPESIZE - 1) |-> IF \E i \in 1..k : Slot(nwrite, i) = j
                                             THEN todo[p][CHOOSE i \in 1..k : Slot(nwrite, i) = j]
                                             ELSE data[j]]
  BY <1>5, Zenon DEF pipewrite, Burst, Slot
<1> HIDE DEF k
<1>8. s \in Seq(Bytes) /\ Len(s) = k /\ \A i \in 1..k : s[i] = todo[p][i]
  <2>1. \A i \in 1..k : todo[p][i] \in Bytes
    BY <1>4, <1>5, ElementOfSeq, LenProperties
  <2>2. /\ s \in Seq(Bytes)
        /\ Len(s) = IF 1 <= k THEN k - 1 + 1 ELSE 0
        /\ \A i \in 1..(k - 1 + 1) : s[i] = todo[p][1 + i - 1]
    BY <1>4, <2>1, SubSeqProperties
  <2> HIDE DEF s
  <2>3. k - 1 + 1 = k /\ \A i \in 1..k : 1 + i - 1 = i
    BY <1>4
  <2> QED BY <1>4, <2>2, <2>3
<1> HIDE DEF s
<1>9. ASSUME NEW j \in 0..(PIPESIZE - 1)
      PROVE  \/ \E i \in 1..k : Slot(nwrite, i) = j /\ data'[j] = s[i]
             \/ (\A i \in 1..k : Slot(nwrite, i) # j) /\ data'[j] = data[j]
  BY <1>7, <1>8, Zenon
<1>10. Copied(data, data', nread, Count, s)
  BY <1>4, <1>5, <1>6, <1>8, <1>9, Zenon DEF Copied
<1>11. RingSeq(data', nread, Count + Len(s)) = RingSeq(data, nread, Count) \o s
  BY <1>10, RingPut
<1>12. Contents = RingSeq(data, nread, Count) /\ Len(Contents) = Count
  BY <1>2, <1>3, ContentsType, Zenon
<1>13. Contents' = RingSeq(data', nread', Count')
  BY <1>3 DEF Contents, RingSeq
<1>14. Len(Contents) + Len(s) <= PIPESIZE
  BY <1>4, <1>8, <1>12, Sizes
<1>15. Contents' = Contents \o s
  BY <1>4, <1>8, <1>11, <1>12, <1>13, Zenon
<1> QED BY <1>8, <1>14, <1>15, Zenon DEF s, k

(* piperead() takes its bytes from the front, or sleeps or returns and takes *)
(* none.                                                                     *)
LEMMA Takes ==
  ASSUME IInv, NEW p \in Procs, piperead(p)
  PROVE  \/ Contents' = Contents
         \/ /\ Available(want[p]) \in 0..Len(Contents)
            /\ Contents' = SubSeq(Contents, Available(want[p]) + 1, Len(Contents))
<1>1. TypeOK /\ freed = FALSE /\ freed' = FALSE /\ data' = data
  BY RunningNotFreed, Zenon DEF piperead, IInv
<1>2. CASE nread = nwrite /\ writeopen
  <2>1. UNCHANGED <<data, nread, nwrite, freed>>
    BY <1>2 DEF piperead
  <2> QED BY <2>1 DEF Contents, Count
<1>3. CASE ~ (nread = nwrite /\ writeopen)
  <2> DEFINE k == Available(want[p])
  <2>1. nread' = (nread + k) % UINT /\ nwrite' = nwrite
    BY <1>3, Zenon DEF piperead
  <2>2. k \in 0..Count /\ Count' = Count - k /\ Count \in 0..PIPESIZE
    BY <1>1, <2>1, ReadCounted, CountType, Zenon
  <2>3. data \in [0..(PIPESIZE - 1) -> Bytes] /\ nread \in 0..(UINT - 1)
    BY <1>1 DEF TypeOK
  <2>4. Contents = RingSeq(data, nread, Count) /\ Len(Contents) = Count
    BY <1>1, ContentsType, Zenon
  <2>5. Contents' = RingSeq(data', nread', Count')
    BY <1>1 DEF Contents, RingSeq
  <2> HIDE DEF k
  <2>6. RingSeq(data, (nread + k) % UINT, Count - k) = SubSeq(RingSeq(data, nread, Count), k + 1, Count)
    BY <2>2, <2>3, RingTake, Zenon
  <2> QED BY <1>1, <2>1, <2>2, <2>4, <2>5, <2>6, Zenon DEF k
<1> QED BY <1>2, <1>3, Zenon

(* Removing k bytes from the front is a Take, or nothing.                    *)
LEMMA TakeOrSame ==
  ASSUME NEW q \in Seq(Bytes), NEW k \in 0..Len(q)
  PROVE  \/ SubSeq(q, k + 1, Len(q)) = q
         \/ k \in 1..Len(q)
<1>1. CASE k = 0
  BY <1>1, SubSeqFull
<1>2. CASE k # 0
  BY <1>2, LenProperties
<1> QED BY <1>1, <1>2

(* A write() that has returned has nothing left to put in.                   *)
WriteOver == \A p \in Writers : pc[p] \in {"idle", "close", "gone"} => todo[p] = <<>>

(* pipewrite() returns when it has copied all its bytes, or gives the rest   *)
(* up; nobody is inside it when the page is used for another pipe.           *)
LEMMA NextWriteOver == IInv /\ WriteOver /\ [Next]_vars => WriteOver'
<1> SUFFICES ASSUME IInv, WriteOver, [Next]_vars, NEW w \in Writers,
                    pc'[w] \in {"idle", "close", "gone"}
             PROVE  todo'[w] = <<>>
  BY DEF WriteOver
<1>0. w \in Procs /\ w \notin Readers /\ pc \in [Procs -> {"idle", "run", "tosleep", "asleep", "close", "gone"}]
      /\ todo \in [Procs -> Seq(Bytes)]
  BY PipeAssumption DEF Procs, IInv, TypeOK
<1>1. ASSUME NEW p \in Procs, NEW s \in Chunks, CallWrite(p, s) PROVE todo'[w] = <<>>
  BY <1>0, <1>1 DEF CallWrite, Goto, WriteOver
<1>2. ASSUME NEW p \in Procs, NEW n \in ReadSizes, CallRead(p, n) PROVE todo'[w] = <<>>
  BY <1>0, <1>2 DEF CallRead, Goto, WriteOver
<1>3. ASSUME NEW p \in Procs, pipewrite(p) PROVE todo'[w] = <<>>
  <2> DEFINE rest == SubSeq(todo[p], Min2(Room, Len(todo[p])) + 1, Len(todo[p]))
             quit == rest # <<>> /\ (~ readopen \/ p \in killed)
  <2>1. /\ p \in Writers
        /\ todo' = [todo EXCEPT ![p] = IF quit THEN <<>> ELSE rest]
        /\ pc' = IF quit THEN [pc EXCEPT ![p] = "idle"]
                 ELSE Woken(Readers, [pc EXCEPT ![p] = IF rest = <<>> THEN "idle" ELSE "tosleep"])
    BY <1>3, Zenon DEF pipewrite
  <2> HIDE DEF rest
  <2> QED BY <1>0, <2>1 DEF Woken, WriteOver
<1>4. ASSUME NEW p \in Procs, piperead(p) PROVE todo'[w] = <<>>
  <2>1. p # w /\ UNCHANGED todo /\ (pc'[w] = pc[w] \/ pc'[w] = "run")
    BY <1>0, <1>4 DEF piperead, Woken
  <2> QED BY <2>1 DEF WriteOver
<1>5. ASSUME NEW p \in Procs, Sleep(p) \/ fileclose(p) PROVE todo'[w] = <<>>
  BY <1>0, <1>5 DEF Sleep, fileclose, Goto, WriteOver
<1>6. ASSUME NEW p \in Procs, pipeclose(p) PROVE todo'[w] = <<>>
  BY <1>0, <1>6 DEF pipeclose, Woken, WriteOver
<1>7. ASSUME NEW p \in Procs, kill(p) PROVE todo'[w] = <<>>
  BY <1>0, <1>7 DEF kill, Woken, WriteOver
<1>8. CASE pipealloc
  BY <1>0, <1>8 DEF pipealloc, WriteOver, IInv, EndsOpen, TypeOK
<1>9. CASE UNCHANGED vars
  BY <1>9 DEF vars, WriteOver
<1> QED BY <1>1, <1>2, <1>3, <1>4, <1>5, <1>6, <1>7, <1>8, <1>9 DEF Next

(* What the callers of pipewrite() have still to put in, as Fifo sees it.    *)
Offered == [w \in Writers |-> todo[w]]

(* A burst of pipewrite() puts the next bytes of its write() into the queue, *)
(* as many as there is room for, and keeps the rest or gives it up.          *)
LEMMA WritePuts ==
  ASSUME IInv, NEW p \in Procs, pipewrite(p)
  PROVE  p \in Writers /\ Queue!Put(p)
<1> DEFINE k == Burst(p)
           rest == SubSeq(todo[p], k + 1, Len(todo[p]))
<1>1. /\ p \in Writers /\ todo \in [Procs -> Seq(Bytes)] /\ Writers \subseteq Procs
      /\ \E t \in {rest, <<>>} : todo' = [todo EXCEPT ![p] = t]
  BY Zenon DEF pipewrite, Burst, IInv, TypeOK, Procs
<1>2. k \in 0..Len(todo[p])
  <2>1. Burst(p) \in 0..Room /\ Burst(p) <= Len(todo[p]) /\ Room \in Nat
    BY BurstFacts, CountType DEF Room, IInv
  <2>2. Len(todo[p]) \in Nat
    BY <1>1, LenProperties, Zenon
  <2> QED BY <2>1, <2>2
<1>3. /\ Contents' = Contents \o SubSeq(todo[p], 1, k)
      /\ Contents \in Seq(Bytes) /\ SubSeq(todo[p], 1, k) \in Seq(Bytes)
      /\ Len(Contents) + Len(SubSeq(todo[p], 1, k)) <= PIPESIZE
  BY Appends, ContentsType, Zenon DEF IInv
<1> HIDE DEF k, rest
<1>4. Len(Contents') <= PIPESIZE
  BY <1>3, ConcatProperties
<1>5. \E t \in {rest, <<>>} : Offered' = [Offered EXCEPT ![p] = t]
  BY <1>1 DEF Offered
<1>6. Offered[p] = todo[p] /\ rest = Queue!From(todo[p], k)
  BY <1>1, Zenon DEF Offered, rest, Queue!From
<1> QED BY <1>1, <1>2, <1>3, <1>4, <1>5, <1>6, Zenon DEF Queue!Put, Offered

(* The pipe is a FIFO queue of at most PIPESIZE bytes: pipewrite() puts the  *)
(* bytes of its write() in, in order and without a gap, piperead() takes the *)
(* oldest out, and the counters may wrap in between.  What is left when both *)
(* ends are closed goes with the page.                                       *)
THEOREM Refinement == Spec => ImplementsFifo
<1>1. Init => Queue!Init /\ WriteOver
  <2> SUFFICES ASSUME Init PROVE Contents = <<>> /\ Offered = [w \in Writers |-> <<>>] /\ WriteOver
    BY DEF Queue!Init, Offered
  <2>1. Count = 0 /\ freed = FALSE
    BY Sizes, EmptyWhenEqual DEF Init, Count
  <2>2. \A w \in Writers : todo[w] = <<>>
    BY DEF Init, Procs
  <2> QED BY <2>1, <2>2 DEF Contents, Offered, WriteOver
<1>2. IInv /\ WriteOver /\ [Next]_vars => [Queue!Next]_(Queue!vars)
  <2> DEFINE Same == Contents' = Contents /\ Offered' = Offered
  <2> SUFFICES ASSUME IInv, WriteOver, [Next]_vars PROVE Queue!Next \/ Same
    BY DEF Queue!vars, Offered
  <2>1. Contents \in Seq(Bytes) /\ Len(Contents) \in Nat
    BY ContentsType, LenProperties DEF IInv
  <2>2. ASSUME UNCHANGED <<ring, freed, todo>> PROVE Same
    BY <2>2 DEF ring, Contents, Count, Offered
  <2>3. ASSUME NEW p \in Procs, pipewrite(p) PROVE Queue!Next
    BY <2>3, WritePuts, Zenon DEF Queue!Next
  <2>4. ASSUME NEW p \in Procs, NEW s \in Chunks, CallWrite(p, s) PROVE Queue!Next
    <3>1. /\ p \in Writers /\ Writers \subseteq Procs /\ todo[p] = <<>> /\ s \in Seq(Bytes)
          /\ todo \in [Procs -> Seq(Bytes)] /\ todo' = [todo EXCEPT ![p] = s]
      BY <2>4, PipeAssumption DEF CallWrite, Goto, WriteOver, IInv, TypeOK, Procs
    <3>2. Offered[p] = <<>> /\ Offered'[p] = s /\ Offered' = [Offered EXCEPT ![p] = s]
      BY <3>1 DEF Offered
    <3>3. Contents' = Contents
      BY <2>4 DEF CallWrite, ring, Contents, Count
    <3>4. Queue!Offer(p)
      BY <3>1, <3>2, <3>3, Zenon DEF Queue!Offer, Offered
    <3> QED BY <3>1, <3>4, Zenon DEF Queue!Next
  <2>5. ASSUME NEW k \in 0..Len(Contents), Contents' = SubSeq(Contents, k + 1, Len(Contents)),
               UNCHANGED todo
        PROVE  Queue!Next \/ Same
    <3>1. Offered' = Offered
      BY <2>5 DEF Offered
    <3> QED BY <2>1, <2>5, <3>1, TakeOrSame, Zenon DEF Queue!Next, Queue!Take, Queue!From, Offered
  <2>6. ASSUME NEW p \in Procs, piperead(p) PROVE Queue!Next \/ Same
    BY <2>5, <2>6, Takes, Zenon DEF piperead, Offered
  <2>7. ASSUME NEW p \in Procs, pipeclose(p) PROVE Queue!Next \/ Same
    <3>1. freed = FALSE /\ freed' \in BOOLEAN /\ UNCHANGED <<ring, todo>>
      BY <2>7, RunningNotFreed, Zenon DEF pipeclose
    <3>2. CASE freed' = FALSE
      BY <2>2, <3>1, <3>2
    <3>3. CASE freed' = TRUE
      <4>1. Contents' = <<>>
        BY <3>3 DEF Contents
      <4>2. SubSeq(Contents, Len(Contents) + 1, Len(Contents)) = <<>>
        BY <2>1, SubSeqEmpty
      <4>3. Len(Contents) \in 0..Len(Contents)
        BY <2>1
      <4> QED BY <2>5, <3>1, <4>1, <4>2, <4>3, Zenon
    <3> QED BY <3>1, <3>2, <3>3, Zenon
  <2>8. CASE pipealloc
    <3>1. freed = TRUE /\ freed' = FALSE /\ Count' = 0 /\ UNCHANGED todo
      BY <2>8, Sizes, EmptyWhenEqual DEF pipealloc, Count, IInv, TypeOK
    <3>2. Contents = <<>>
      BY <3>1 DEF Contents
    <3>3. Contents' = <<>>
      BY <3>1 DEF Contents
    <3> QED BY <3>1, <3>2, <3>3 DEF Offered
  <2>9. ASSUME NEW p \in Procs,
               (\E n \in ReadSizes : CallRead(p, n)) \/ Sleep(p) \/ fileclose(p) \/ kill(p)
        PROVE  Same
    BY <2>2, <2>9, Zenon DEF CallRead, Sleep, fileclose, kill
  <2>10. CASE UNCHANGED vars
    BY <2>2, <2>10, Zenon DEF vars
  <2> HIDE DEF Same
  <2> QED BY <2>3, <2>4, <2>6, <2>7, <2>8, <2>9, <2>10, Zenon DEF Next
<1> QED BY <1>1, <1>2, Invariance, NextWriteOver, PTL DEF Spec, ImplementsFifo, Queue!Spec

-----------------------------------------------------------------------------
(***************************************************************************)
(* The input ring of Console, for any number of readers and any size of    *)
(* the ring; UWRAP is where its unsigned indices wrap around, Users are    *)
(* the processes that read and reader is where each of them is.            *)
(***************************************************************************)
CONSTANTS Users, Chars, NL, EOF, INPUT_BUF, UWRAP, ReadLens
VARIABLES cbuf, r, w, e, reader, left, target, line, doomed

Cons == INSTANCE Console
  WITH Procs <- Users, UINT <- UWRAP, ReadSizes <- ReadLens, buf <- cbuf, pc <- reader, n <- left,
       got <- line, killed <- doomed

\* The indices of struct input and the locals of consoleread().
RingTypes ==
  /\ r \in 0..(UWRAP - 1) /\ w \in 0..(UWRAP - 1) /\ e \in 0..(UWRAP - 1)
  /\ reader \in [Users -> {"user", "read", "sleep"}]
  /\ left \in [Users -> Nat] /\ doomed \in [Users -> BOOLEAN]

RingInv == RingTypes /\ Cons!ReaderSleeps

\* The least of a set of numbers is one of them.
LEMMA RingLeast == ASSUME NEW S \in SUBSET Nat, S # {} PROVE Cons!Min(S) \in S
<1> DEFINE R == OpToRel(<, Nat)
<1>1. IsWellFoundedOn(R, Nat)
  BY NatLessThanWellFounded, Zenon
<1>2. \A x, y \in Nat : <<y, x>> \in R <=> y < x
  BY DEF OpToRel
<1> HIDE DEF R
<1>3. PICK x \in S : \A y \in S : ~ (<<y, x>> \in R)
  BY <1>1, WFMin, Zenon
<1>4. ASSUME NEW y \in S PROVE x <= y
  <2>1. ~ (y < x)
    BY <1>2, <1>3, Zenon
  <2> QED
    BY <2>1
<1> QED
  BY <1>4, Zenon DEF Cons!Min

\* Unsigned indices: sums and differences stay in range, and an index that is
\* advanced by its distance to another arrives there.
LEMMA RingIndices ==
  ASSUME NEW U \in Nat \ {0}
  PROVE  /\ \A x, y \in Int : (x + y) % U \in 0..(U - 1) /\ (x - y) % U \in 0..(U - 1)
         /\ \A x, y \in 0..(U - 1) : (x + ((y - x) % U)) % U = y
<1>1. \A x \in Int : x % U \in 0..(U - 1)
  OBVIOUS
<1>2. ASSUME NEW x \in 0..(U - 1), NEW y \in 0..(U - 1) PROVE (x + ((y - x) % U)) % U = y
  <2>1. CASE x <= y
    <3>1. (y - x) % U = y - x
      BY <2>1
    <3> QED
      OBVIOUS
  <2>2. CASE x > y
    <3>1. (y - x) % U = y - x + U
      BY <2>2
    <3>2. x + (y - x + U) = y + U /\ (y + U) % U = y
      OBVIOUS
    <3> QED
      OBVIOUS
  <2> QED
    OBVIOUS
<1>3. ASSUME NEW x \in Int, NEW y \in Int
      PROVE (x + y) % U \in 0..(U - 1) /\ (x - y) % U \in 0..(U - 1)
  <2>1. x + y \in Int /\ x - y \in Int
    OBVIOUS
  <2> QED
    BY <1>1, <2>1, Zenon
<1> QED
  BY <1>2, <1>3, Zenon

\* What the loop of consoleread() takes: as much as it was asked for, up to the
\* end of a line, or all that was entered.
LEMMA TakenPart ==
  ASSUME Cons!ConsoleAssumption, RingTypes, NEW p \in Users
  PROVE  /\ Cons!Down(w, r) \in Nat /\ Len(Cons!Taken(p)) \in 0..Cons!Down(w, r)
         /\ Cons!Taken(p) # <<>> => Len(Cons!Taken(p)) > 0
         /\ \/ left[p] = Len(Cons!Taken(p))
            \/ Cons!Taken(p) # <<>> /\ Cons!Last(Cons!Taken(p)) \in {NL, EOF}
            \/ Len(Cons!Taken(p)) = Cons!Down(w, r) /\ left[p] > Cons!Down(w, r)
<1> DEFINE K == Cons!Down(w, r)
           ready == Cons!Ring(r, K)
           stops == {i \in DOMAIN ready : ready[i] \in {NL, EOF} \/ i = left[p]}
           taken == Cons!Taken(p)
<1>1. K \in Nat
  BY DEF RingTypes, Cons!ConsoleAssumption, Cons!Down
<1>2. CASE left[p] = 0
  BY <1>1, <1>2 DEF Cons!Taken
<1>3. CASE left[p] # 0
  <2>1. taken = SubSeq(ready, 1, IF stops = {} THEN Len(ready) ELSE Cons!Min(stops))
    BY <1>3, Zenon DEF Cons!Taken
  <2>2. DOMAIN ready = 1..K /\ ready = [i \in 1..K |-> ready[i]]
    BY DEF Cons!Ring
  <2> HIDE DEF K, ready, taken
  <2>3. Len(ready) = K
    BY <1>1, <2>2
  <2>4. CASE stops # {}
    <3>1. PICK m \in 1..K : m = Cons!Min(stops) /\ (ready[m] \in {NL, EOF} \/ m = left[p])
      <4>1. stops \in SUBSET Nat /\ stops \in SUBSET (1..K)
        BY <2>2
      <4>2. Cons!Min(stops) \in stops
        BY <2>4, <4>1, RingLeast, Zenon
      <4> QED
        BY <4>1, <4>2, Zenon
    <3>2. taken = SubSeq(ready, 1, m)
      BY <2>1, <2>4, <3>1, Zenon
    <3>3. Len(taken) = m /\ taken[m] = ready[m] /\ taken # <<>>
      BY <2>2, <3>2
    <3> QED
      BY <1>1, <3>1, <3>3 DEF Cons!Last, K, taken
  <2>5. CASE stops = {}
    <3>1. Len(taken) = K /\ (taken # <<>> => Len(taken) > 0)
      <4>1. taken = SubSeq(ready, 1, K)
        BY <2>1, <2>3, <2>5, Zenon
      <4> QED
        BY <1>1, <4>1
    <3>2. left[p] \in Nat /\ left[p] > K
      <4>1. left[p] \in Nat
        BY DEF RingTypes
      <4>2. left[p] \notin 1..K
        BY <2>2, <2>5, Zenon
      <4> QED
        BY <1>1, <1>3, <4>1, <4>2
    <3> QED
      BY <3>1, <3>2 DEF K, taken
  <2> QED
    BY <2>4, <2>5
<1> QED
  BY <1>2, <1>3

\* A character is typed: either all readers are woken, or w stays.
LEMMA Cons_char ==
  ASSUME Cons!ConsoleAssumption, RingInv, NEW c, Cons!intr_char(c)
  PROVE  RingInv'
<1>1. UWRAP \in Nat \ {0} /\ e \in Int
  BY DEF RingInv, RingTypes, Cons!ConsoleAssumption
<1>2. Cons!Up(e, 1) \in 0..(UWRAP - 1)
  BY <1>1 DEF Cons!Up
<1>3. RingTypes'
  BY <1>2 DEF RingInv, RingTypes, Cons!intr_char, Cons!wakeup
<1>4. Cons!ReaderSleeps'
  BY DEF RingInv, RingTypes, Cons!ReaderSleeps, Cons!intr_char, Cons!wakeup
<1> QED
  BY <1>3, <1>4 DEF RingInv

\* Editing moves e only.
LEMMA Cons_edit ==
  ASSUME Cons!ConsoleAssumption, RingInv,
         Cons!intr_backspace \/ Cons!intr_kill_line
  PROVE  RingInv'
<1>1. UWRAP \in Nat \ {0} /\ e \in Int /\ w \in Int
  BY DEF RingInv, RingTypes, Cons!ConsoleAssumption
<1>2. \A k \in Int : Cons!Down(e, k) \in 0..(UWRAP - 1)
  BY <1>1, RingIndices, Zenon DEF Cons!Down
<1>3. \E k \in Int : e' = Cons!Down(e, k)
  <2>1. CASE Cons!intr_backspace
    BY <2>1 DEF Cons!intr_backspace
  <2>2. CASE Cons!intr_kill_line
    <3> DEFINE K == Cons!Down(e, w)
               stops == {k \in 0..K : k = K \/ cbuf[Cons!Down(e, k + 1) % INPUT_BUF] = NL}
    <3>1. e' = Cons!Down(e, Cons!Min(stops))
      BY <2>2, Zenon DEF Cons!intr_kill_line
    <3>2. K \in Nat
      BY <1>1, <1>2
    <3> HIDE DEF K
    <3>3. stops \in SUBSET Nat /\ K \in stops
      BY <3>2
    <3>4. Cons!Min(stops) \in stops
      BY <3>3, RingLeast, Zenon
    <3>5. Cons!Min(stops) \in Int
      BY <3>4
    <3> QED
      BY <3>1, <3>5, Zenon
  <2> QED
    BY <2>1, <2>2
<1>4. UNCHANGED <<r, w, reader, left, doomed>>
  BY DEF Cons!intr_backspace, Cons!intr_kill_line, Cons!calls
<1> QED
  BY <1>2, <1>3, <1>4 DEF RingInv, RingTypes, Cons!ReaderSleeps

\* consoleread(): while somebody else sleeps there is nothing to take.
LEMMA Cons_read ==
  ASSUME Cons!ConsoleAssumption, RingInv, NEW p \in Users, Cons!consoleread(p)
  PROVE  RingInv'
<1>0. RingTypes /\ Cons!ReaderSleeps /\ UWRAP \in Nat \ {0} /\ reader[p] = "read"
  BY DEF RingInv, Cons!ConsoleAssumption, Cons!consoleread
<1> DEFINE K == Cons!Down(w, r)
           taken == Cons!Taken(p)
           used == Cons!Used(p, taken)
           ends(c) == taken # <<>> /\ Cons!Last(taken) = c
           keep == IF ends(EOF) THEN Cons!Front(taken) ELSE taken
<1>2. /\ K \in Nat /\ Len(taken) \in 0..K /\ (taken # <<>> => Len(taken) > 0)
      /\ \/ left[p] = Len(taken)
         \/ taken # <<>> /\ Cons!Last(taken) \in {NL, EOF}
         \/ Len(taken) = K /\ left[p] > K
  BY <1>0, TakenPart, Zenon
<1>3. r' = Cons!Up(r, used) /\ UNCHANGED <<w, e, doomed>>
  BY Zenon DEF Cons!consoleread
<1>4. \/ reader' = [reader EXCEPT ![p] = "user"] /\ left' = [left EXCEPT ![p] = 0]
      \/ /\ reader' = [reader EXCEPT ![p] = "sleep"] /\ left' = [left EXCEPT ![p] = @ - Len(taken)]
         /\ Len(taken) = K /\ left[p] > K /\ used = K /\ ~ doomed[p]
  <2>1. CASE left[p] = Len(keep) \/ ends(NL) \/ ends(EOF) \/ doomed[p]
    BY <2>1, Zenon DEF Cons!consoleread, Cons!Return
  <2>2. CASE ~ (left[p] = Len(keep) \/ ends(NL) \/ ends(EOF) \/ doomed[p])
    <3>1. keep = taken /\ used = Len(taken)
      BY <2>2, Zenon DEF Cons!Used
    <3>2. /\ reader' = [reader EXCEPT ![p] = "sleep"] /\ left' = [left EXCEPT ![p] = @ - Len(keep)]
      BY <2>2, Zenon DEF Cons!consoleread
    <3>3. Len(taken) = K /\ left[p] > K
      BY <1>2, <2>2, Zenon
    <3> QED
      BY <2>2, <3>1, <3>2, <3>3, Zenon
  <2> QED
    BY <2>1, <2>2, Zenon
<1>5. used \in 0..K
  <2>1. used = Len(taken) \/ (taken # <<>> /\ used = Len(taken) - 1)
    BY Zenon DEF Cons!Used
  <2> HIDE DEF K, taken, used
  <2> QED
    BY <1>2, <2>1
<1>6. /\ r \in 0..(UWRAP - 1) /\ w \in 0..(UWRAP - 1) /\ K = (w - r) % UWRAP
      /\ r' = (r + used) % UWRAP
  BY <1>0, <1>3, Zenon DEF RingTypes, Cons!Up, Cons!Down
<1> HIDE DEF K, taken, used
<1>7. RingTypes'
  <2>1. r' \in 0..(UWRAP - 1)
    BY <1>0, <1>5, <1>6
  <2>2. left' \in [Users -> Nat]
    BY <1>0, <1>4 DEF RingTypes
  <2> QED
    BY <1>0, <1>3, <1>4, <2>1, <2>2, Zenon DEF RingTypes
<1>8. used = K => r' = w
  <2>1. (r + ((w - r) % UWRAP)) % UWRAP = w
    BY <1>0, <1>6, RingIndices, Zenon
  <2> QED
    BY <1>6, <2>1, Zenon
<1>9. r = w => r' = w
  <2>1. r = w => K = 0
    BY <1>0, <1>6
  <2> QED
    BY <1>0, <1>5, <1>8, <2>1
<1>10. Cons!ReaderSleeps'
  BY <1>0, <1>3, <1>4, <1>8, <1>9 DEF RingTypes, Cons!ReaderSleeps
<1> QED
  BY <1>7, <1>10 DEF RingInv

\* ReaderSleeps, for any number of readers and any size of the ring: a reader
\* sleeps on &input.r only while nothing is entered, and never when killed
\* (console.c).
THEOREM ReaderAlwaysAwake ==
  ASSUME Cons!ConsoleAssumption
  PROVE  Cons!Spec => []Cons!ReaderSleeps
<1>1. Cons!Init => RingInv
  BY DEF Cons!Init, RingInv, RingTypes, Cons!ReaderSleeps, Cons!ConsoleAssumption
<1>2. RingInv /\ [Cons!Next]_(Cons!vars) => RingInv'
  <2> SUFFICES ASSUME RingInv, [Cons!Next]_(Cons!vars) PROVE RingInv'
    OBVIOUS
  <2>1. ASSUME NEW p \in Users, NEW k \in ReadLens, Cons!read(p, k) PROVE RingInv'
    BY <2>1 DEF RingInv, RingTypes, Cons!ReaderSleeps, Cons!ConsoleAssumption, Cons!read,
       Cons!input
  <2>2. ASSUME NEW p \in Users, Cons!kill(p) \/ Cons!exit(p) PROVE RingInv'
    BY <2>2, Zenon DEF RingInv, RingTypes, Cons!ReaderSleeps, Cons!kill, Cons!exit, Cons!input,
       Cons!calls
  <2>3. CASE UNCHANGED Cons!vars
    BY <2>3 DEF RingInv, RingTypes, Cons!ReaderSleeps, Cons!vars, Cons!input, Cons!calls
  <2> QED
    BY <2>1, <2>2, <2>3, Cons_char, Cons_edit, Cons_read DEF Cons!Next
<1>3. RingInv => Cons!ReaderSleeps
  BY DEF RingInv
<1> QED
  BY <1>1, <1>2, <1>3, PTL DEF Cons!Spec
=============================================================================
