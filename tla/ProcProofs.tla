----------------------------- MODULE ProcProofs -----------------------------
(***************************************************************************)
(* Proofs about the process table: the safety invariants of Proc for every *)
(* size of the table and every number of CPUs.                             *)
(***************************************************************************)
EXTENDS Proc, WellFoundedInduction, TLAPS

\* A loop over the table that looks for a slot finds the first one.
LEMMA FirstIn ==
  ASSUME NEW S, S \subseteq Slots, S # {}
  PROVE  First(S) \in S /\ \A t \in S : First(S) <= t
  <1> DEFINE R == OpToRel(<, Nat)
  <1>1. S \subseteq Nat
    BY ProcAssumption DEF Slots
  <1>2. IsWellFoundedOn(R, Nat)
    BY NatLessThanWellFounded
  <1>3. \A x, y \in Nat : <<y, x>> \in R <=> y < x
    BY DEF OpToRel
  <1> HIDE DEF R
  <1>4. PICK x \in S : \A y \in S : ~ (<<y, x>> \in R)
    BY <1>1, <1>2, WFMin, Zenon
  <1>5. ASSUME NEW y \in S PROVE x <= y
    <2>1. ~ (y < x)
      BY <1>1, <1>3, <1>4, Zenon
    <2>2. x \in Nat /\ y \in Nat
      BY <1>1
    <2> QED
      BY <2>1, <2>2
  <1> QED
    BY <1>5 DEF First

\* The null pointer is no slot, initproc is one, and neither a slot nor a
\* sleep channel is NoChan.
LEMMA SlotFacts ==
  /\ Init0 \in Slots /\ None \notin Slots /\ NoChan \notin Slots
  /\ \A ch \in Chans : ch \notin Slots /\ ch # NoChan
  BY ProcAssumption DEF Slots, Init0, None

\* A running process that goes from one program point to another, neither
\* into fork(), out of it nor up to its end, keeps the invariant.
LEMMA KeepsMove ==
  ASSUME IInv, NEW p \in Slots, NEW from \in PCs, NEW to \in PCs, Goto(p, from, to),
         from \in ForkPCs <=> to \in ForkPCs,
         from # "fork_publish", to # "fork_publish",
         UNCHANGED <<tbl, nextpid, cpu, np, panicked>>
  PROVE  IInv'
  <1> USE DEF IInv, Goto, Running, tbl
  <1>1. TypeOK'
    BY DEF TypeOK
  <1>2. OneCPU' /\ ParentAlive' /\ PidsFresh'
    BY DEF OneCPU, ParentAlive, PidsFresh, Live
  <1>3. EmbryoOwned'
    BY DEF EmbryoOwned, Live
  <1>4. NoMissedExit'
    BY DEF NoMissedExit, Kids
  <1>5. EmbryoParent'
    BY DEF EmbryoParent, TypeOK
  <1> QED
    BY <1>1, <1>2, <1>3, <1>4, <1>5

\* scheduler() and the end of sleep() keep the invariant: the CPU was free and
\* the process on no CPU.
LEMMA Keeps_Schedule ==
  ASSUME IInv, NEW p \in Slots, NEW c \in CPUs, Schedule(c, p)
  PROVE  IInv'
  <1> USE SlotFacts DEF IInv
  <1>1. TypeOK'
    BY DEF TypeOK, States, Schedule
  <1>2. OneCPU'
    BY DEF OneCPU, TypeOK, Schedule
  <1>3. EmbryoOwned'
    BY DEF EmbryoOwned, TypeOK, Live, Schedule
  <1>4. ParentAlive'
    BY DEF ParentAlive, TypeOK, Live, Schedule
  <1>5. NoMissedExit'
    BY DEF NoMissedExit, TypeOK, Kids, Schedule
  <1>6. PidsFresh'
    BY DEF PidsFresh, TypeOK, Schedule
  <1>7. EmbryoParent'
    BY DEF EmbryoParent, TypeOK, Schedule
  <1> QED
    BY <1>1, <1>2, <1>3, <1>4, <1>5, <1>6, <1>7

\* yield() keeps the invariant.
LEMMA Keeps_yield ==
  ASSUME IInv, NEW p \in Slots, yield(p)
  PROVE  IInv'
  <1> USE SlotFacts DEF IInv
  <1>1. TypeOK'
    BY DEF TypeOK, States, yield, Leave
  <1>2. OneCPU'
    BY DEF OneCPU, TypeOK, yield, Leave
  <1>3. EmbryoOwned'
    BY DEF EmbryoOwned, TypeOK, Live, yield, Running
  <1>4. ParentAlive'
    BY DEF ParentAlive, TypeOK, Live, yield, Running
  <1>5. NoMissedExit'
    BY DEF NoMissedExit, TypeOK, Kids, yield
  <1>6. PidsFresh'
    BY DEF PidsFresh, TypeOK, yield, Running
  <1>7. EmbryoParent'
    BY DEF EmbryoParent, TypeOK, yield
  <1> QED
    BY <1>1, <1>2, <1>3, <1>4, <1>5, <1>6, <1>7

\* A system call that returns through trap() keeps the invariant.
LEMMA Keeps_Return ==
  ASSUME IInv, NEW p \in Slots, Return(p)
  PROVE  IInv'
  BY KeepsMove DEF Return, PCs, ForkPCs

\* The locked part of allocproc() keeps the invariant: the slot it takes was
\* nobody's, and the pid it stores is above all others.
LEMMA Keeps_fork_alloc ==
  ASSUME IInv, NEW p \in Slots, fork_alloc(p)
  PROVE  IInv'
  <1> USE SlotFacts DEF IInv
  <1> DEFINE s == First(Unused)
  <1>a. s \in Slots /\ state[s] = "UNUSED"
    BY FirstIn DEF fork_alloc, Unused
  <1>b. /\ nextpid <= MaxPid /\ Syscall(p, "fork_kstack")
        /\ state' = [state EXCEPT ![s] = "EMBRYO"]
        /\ pid' = [pid EXCEPT ![s] = nextpid]
        /\ np' = [np EXCEPT ![p] = s]
        /\ nextpid' = nextpid + 1
        /\ UNCHANGED <<parent, killed, chan, cpu, panicked>>
    BY DEF fork_alloc
  <1> HIDE DEF s
  <1>1. TypeOK'
    BY <1>a, <1>b DEF TypeOK, States, PCs, ForkPCs, Syscall, Goto
  <1>2. OneCPU'
    BY <1>a, <1>b DEF OneCPU, TypeOK
  <1>3. EmbryoOwned'
    BY <1>a, <1>b DEF EmbryoOwned, TypeOK, Live, ForkPCs, Syscall, Goto, Running
  <1>4. ParentAlive'
    BY <1>a, <1>b DEF ParentAlive, TypeOK, Live
  <1>5. NoMissedExit'
    BY <1>a, <1>b DEF NoMissedExit, TypeOK, Kids, Syscall, Goto
  <1>6. PidsFresh'
    BY <1>a, <1>b DEF PidsFresh, TypeOK
  <1>7. EmbryoParent'
    BY <1>a, <1>b DEF EmbryoParent, TypeOK, ParentAlive, Syscall, Goto
  <1> QED
    BY <1>1, <1>2, <1>3, <1>4, <1>5, <1>6, <1>7

\* A fork() that finds the table full keeps the invariant.
LEMMA Keeps_fork_full ==
  ASSUME IInv, NEW p \in Slots, fork_full(p)
  PROVE  IInv'
  BY KeepsMove DEF fork_full, Syscall, AfterFork, PCs, ForkPCs

\* The unlocked state = UNUSED of allocproc() and fork() keeps the invariant:
\* the slot is still this fork()'s own.
LEMMA Keeps_fork_fail ==
  ASSUME IInv, NEW p \in Slots, fork_fail(p)
  PROVE  IInv'
  <1> USE SlotFacts DEF IInv
  <1>1. TypeOK'
    BY DEF TypeOK, States, PCs, ForkPCs, fork_fail, Goto, Running, AfterFork
  <1>2. OneCPU'
    BY DEF OneCPU, TypeOK, EmbryoOwned, fork_fail
  <1>3. EmbryoOwned'
    BY DEF EmbryoOwned, TypeOK, Live, ForkPCs, fork_fail, Goto, AfterFork
  <1>4. ParentAlive'
    BY DEF ParentAlive, EmbryoOwned, TypeOK, Live, EmbryoParent, fork_fail, Goto
  <1>5. NoMissedExit'
    BY DEF NoMissedExit, TypeOK, Kids, fork_fail, Goto, AfterFork
  <1>6. PidsFresh'
    BY DEF PidsFresh, TypeOK, fork_fail
  <1>7. EmbryoParent'
    BY DEF EmbryoParent, TypeOK, fork_fail, Goto, AfterFork
  <1> QED
    BY <1>1, <1>2, <1>3, <1>4, <1>5, <1>6, <1>7

\* The rest of allocproc() keeps the invariant.
LEMMA Keeps_fork_kstack ==
  ASSUME IInv, NEW p \in Slots, fork_kstack(p)
  PROVE  IInv'
  BY KeepsMove DEF fork_kstack, PCs, ForkPCs

\* The unlocked np->parent = curproc of fork() keeps the invariant: the slot
\* was nobody's child before.
LEMMA Keeps_fork_copy ==
  ASSUME IInv, NEW p \in Slots, fork_copy(p)
  PROVE  IInv'
  <1> USE SlotFacts DEF IInv
  <1>1. TypeOK'
    BY DEF TypeOK, States, PCs, ForkPCs, fork_copy, Goto, Running
  <1>2. OneCPU'
    BY DEF OneCPU, TypeOK, fork_copy
  <1>3. EmbryoOwned'
    BY DEF EmbryoOwned, TypeOK, Live, ForkPCs, fork_copy, Goto
  <1>4. ParentAlive'
    BY DEF ParentAlive, TypeOK, EmbryoOwned, Live, fork_copy
  <1>5. NoMissedExit'
    BY DEF NoMissedExit, TypeOK, Kids, EmbryoParent, fork_copy, Goto
  <1>6. PidsFresh'
    BY DEF PidsFresh, TypeOK, fork_copy
  <1>7. EmbryoParent'
    BY DEF EmbryoParent, EmbryoOwned, TypeOK, fork_copy, Goto
  <1> QED
    BY <1>1, <1>2, <1>3, <1>4, <1>5, <1>6, <1>7

\* The end of fork() keeps the invariant.
LEMMA Keeps_fork_publish ==
  ASSUME IInv, NEW p \in Slots, fork_publish(p)
  PROVE  IInv'
  <1> USE SlotFacts DEF IInv
  <1>1. TypeOK'
    BY DEF TypeOK, States, PCs, ForkPCs, fork_publish, Running, AfterFork
  <1>2. OneCPU'
    BY DEF OneCPU, TypeOK, EmbryoOwned, fork_publish
  <1>3. EmbryoOwned'
    BY DEF EmbryoOwned, TypeOK, Live, ForkPCs, fork_publish, AfterFork
  <1>4. ParentAlive'
    BY DEF ParentAlive, TypeOK, Live, EmbryoParent, fork_publish, Running
  <1>5. NoMissedExit'
    BY DEF NoMissedExit, TypeOK, Kids, fork_publish, AfterFork
  <1>6. PidsFresh'
    BY DEF PidsFresh, TypeOK, EmbryoOwned, fork_publish
  <1>7. EmbryoParent'
    BY DEF EmbryoParent, EmbryoOwned, TypeOK, Live, fork_publish
  <1> QED
    BY <1>1, <1>2, <1>3, <1>4, <1>5, <1>6, <1>7

\* Entering exit() keeps the invariant.
LEMMA Keeps_CallExit ==
  ASSUME IInv, NEW p \in Slots, CallExit(p)
  PROVE  IInv'
  BY KeepsMove DEF CallExit, PCs, ForkPCs

\* exit() keeps the invariant.  The parent in wait() is woken, and so is
\* initproc if it inherits a zombie.
LEMMA Keeps_exit ==
  ASSUME IInv, NEW p \in Slots, exit(p)
  PROVE  IInv'
  <1> USE SlotFacts DEF IInv
  <1>a. p # Init0 /\ state[p] = "RUNNING" /\ pc[p] = "exit"
    BY DEF exit, Goto, Running
  <1>b. /\ parent' = [s \in Slots |-> IF parent[s] = p THEN Init0 ELSE parent[s]]
        /\ pc' = [pc EXCEPT ![p] = "exit"]
        /\ cpu' = [c \in CPUs |-> IF cpu[c] = p THEN None ELSE cpu[c]]
        /\ UNCHANGED <<pid, killed, chan, nextpid, np, panicked>>
    BY DEF exit, Goto, Leave, Kids
  <1>c. /\ state' \in [Slots -> States] /\ state'[p] = "ZOMBIE"
        /\ \A s \in Slots \ {p} :
             \/ state'[s] = state[s]
             \/ state[s] = "SLEEPING" /\ state'[s] = "RUNNABLE"
    BY DEF exit, Wakened, Goto, TypeOK, States
  <1>1. TypeOK'
    BY <1>b, <1>c DEF TypeOK, PCs, ForkPCs
  <1>2. OneCPU'
    BY <1>a, <1>b, <1>c DEF OneCPU, TypeOK
  <1>3. EmbryoOwned'
    BY <1>a, <1>b, <1>c DEF EmbryoOwned, TypeOK, Live, ForkPCs
  <1>4. ParentAlive'
    BY <1>a, <1>b, <1>c DEF ParentAlive, TypeOK, Live
  <1>5. NoMissedExit'
    <2> SUFFICES ASSUME NEW q \in Slots, state'[q] = "SLEEPING", pc'[q] = "wait"
                 PROVE  /\ chan'[q] = q /\ ~ killed'[q] /\ Kids(q)' # {}
                        /\ \A s \in Kids(q)' : state'[s] # "ZOMBIE"
      BY DEF NoMissedExit, TypeOK
    <2>1. q # p /\ state[q] = "SLEEPING" /\ pc[q] = "wait"
      BY <1>a, <1>b, <1>c DEF TypeOK
    <2>2. /\ chan[q] = q /\ ~ killed[q] /\ Kids(q) # {}
          /\ \A s \in Kids(q) : state[s] # "ZOMBIE"
      BY <2>1 DEF NoMissedExit, TypeOK
    \* q was asleep and stays asleep: exit() woke neither its channel ...
    <2>3. parent[p] # q
      BY <2>1, <2>2 DEF exit, Wakened
    \* ... nor, if q is initproc, were there zombies to hand over to it.
    <2>4. q = Init0 => \A s \in Slots : parent[s] = p => state[s] # "ZOMBIE"
      BY <2>1, <2>2 DEF exit, Wakened, Kids, TypeOK
    <2>5. Kids(q)' # {}
      BY <1>b, <2>1, <2>2 DEF Kids, TypeOK
    <2>6. ASSUME NEW s \in Kids(q)' PROVE state'[s] # "ZOMBIE"
      <3>1. s \in Slots /\ s # p
        BY <1>a, <1>b, <2>1, <2>3 DEF Kids, ParentAlive
      <3>2. state[s] # "ZOMBIE"
        BY <1>b, <2>2, <2>4, <3>1 DEF Kids, TypeOK
      <3> QED
        BY <1>c, <3>1, <3>2
    <2> QED
      BY <1>b, <2>2, <2>5, <2>6
  <1>6. PidsFresh'
    BY <1>a, <1>b, <1>c DEF PidsFresh, TypeOK
  <1>7. EmbryoParent'
    BY <1>a, <1>b, <1>c DEF EmbryoParent, TypeOK
  <1> QED
    BY <1>1, <1>2, <1>3, <1>4, <1>5, <1>6, <1>7

\* Entering wait() keeps the invariant.
LEMMA Keeps_CallWait ==
  ASSUME IInv, NEW p \in Slots, CallWait(p)
  PROVE  IInv'
  BY KeepsMove DEF CallWait, Syscall, PCs, ForkPCs

\* A turn of the loop of wait() that finds a zombie.  The zombie has no
\* children, because ParentAlive asks for a living parent.
LEMMA Keeps_reap ==
  ASSUME IInv, NEW p \in Slots, NEW z \in Slots, NEW to \in {"exit", "user"},
         state[z] = "ZOMBIE", parent[z] = p, Goto(p, "wait", to),
         state' = [state EXCEPT ![z] = "UNUSED"],
         pid' = [pid EXCEPT ![z] = 0],
         parent' = [parent EXCEPT ![z] = None],
         killed' = [killed EXCEPT ![z] = FALSE],
         UNCHANGED <<chan, nextpid, cpu, np, panicked>>
  PROVE  IInv'
  <1> USE SlotFacts DEF IInv
  <1>a. state[p] = "RUNNING" /\ pc[p] = "wait" /\ pc' = [pc EXCEPT ![p] = to]
    BY DEF Goto, Running
  <1>b. z # Init0 /\ z # p /\ (\A s \in Slots : state[s] # "EMBRYO" => parent[s] # z)
    BY <1>a DEF ParentAlive, TypeOK, States, Live
  <1>1. TypeOK'
    BY <1>a DEF TypeOK, States, PCs
  <1>2. OneCPU'
    BY <1>a DEF OneCPU, TypeOK
  <1>3. EmbryoOwned'
    BY <1>a DEF EmbryoOwned, TypeOK, Live, ForkPCs
  <1>4. ParentAlive'
    BY <1>a, <1>b DEF ParentAlive, TypeOK, Live
  <1>5. NoMissedExit'
    BY <1>a, <1>b DEF NoMissedExit, TypeOK, Kids
  <1>6. PidsFresh'
    BY <1>a DEF PidsFresh, TypeOK
  <1>7. EmbryoParent'
    BY <1>a DEF EmbryoParent, TypeOK
  <1> QED
    BY <1>1, <1>2, <1>3, <1>4, <1>5, <1>6, <1>7

\* One turn of the loop of wait() keeps the invariant: it reaps, gives up, or
\* sleeps with a child left and no zombie among its children.
LEMMA Keeps_wait ==
  ASSUME IInv, NEW p \in Slots, wait(p)
  PROVE  IInv'
  <1> USE SlotFacts DEF IInv
  <1> DEFINE zombies == {s \in Kids(p) : state[s] = "ZOMBIE"}
             z       == First(zombies)
             to      == IF killed[p] THEN "exit" ELSE "user"
  <1>1. CASE /\ zombies # {} /\ Goto(p, "wait", to)
             /\ state' = [state EXCEPT ![z] = "UNUSED"]
             /\ pid' = [pid EXCEPT ![z] = 0]
             /\ parent' = [parent EXCEPT ![z] = None]
             /\ killed' = [killed EXCEPT ![z] = FALSE]
             /\ UNCHANGED <<chan, nextpid, cpu, np, panicked>>
    <2>1. z \in Slots /\ state[z] = "ZOMBIE" /\ parent[z] = p
      BY <1>1, FirstIn DEF Kids
    <2>2. to \in {"exit", "user"}
      OBVIOUS
    <2> HIDE DEF z, to, zombies
    <2> QED
      BY <1>1, <2>1, <2>2, Keeps_reap
  <1>2. CASE Goto(p, "wait", to) /\ UNCHANGED <<tbl, nextpid, cpu, np, panicked>>
    BY <1>2, KeepsMove DEF PCs, ForkPCs
  <1>3. CASE /\ zombies = {} /\ Kids(p) # {} /\ ~ killed[p]
             /\ Goto(p, "wait", "wait") /\ GoToSleep(p, p)
             /\ UNCHANGED <<pid, parent, killed, nextpid, np, panicked>>
    <2> USE DEF Goto, Running, GoToSleep, Leave
    <2>1. TypeOK'
      BY <1>3 DEF TypeOK, States
    <2>2. OneCPU'
      BY <1>3 DEF OneCPU, TypeOK
    <2>3. EmbryoOwned' /\ EmbryoParent'
      BY <1>3 DEF EmbryoOwned, TypeOK, EmbryoParent, Live
    <2>4. ParentAlive' /\ PidsFresh'
      BY <1>3 DEF ParentAlive, TypeOK, PidsFresh, Live
    <2>5. NoMissedExit'
      BY <1>3 DEF NoMissedExit, TypeOK, Kids
    <2> QED
      BY <2>1, <2>2, <2>3, <2>4, <2>5
  <1> QED
    BY <1>1, <1>2, <1>3 DEF wait

\* The fault case of trap() keeps the invariant.
LEMMA Keeps_Fault ==
  ASSUME IInv, NEW p \in Slots, Fault(p)
  PROVE  IInv'
  <1> USE SlotFacts DEF IInv
  <1>1. TypeOK'
    BY DEF TypeOK, PCs, Fault, Goto
  <1>2. OneCPU'
    BY DEF OneCPU, TypeOK, Fault
  <1>3. EmbryoOwned'
    BY DEF EmbryoOwned, TypeOK, Live, ForkPCs, Fault, Goto
  <1>4. ParentAlive'
    BY DEF ParentAlive, TypeOK, Live, Fault
  <1>5. NoMissedExit'
    BY DEF NoMissedExit, TypeOK, Kids, Fault, Goto
  <1>6. PidsFresh'
    BY DEF PidsFresh, TypeOK, Fault
  <1>7. EmbryoParent'
    BY DEF EmbryoParent, TypeOK, Fault, Goto
  <1> QED
    BY <1>1, <1>2, <1>3, <1>4, <1>5, <1>6, <1>7

\* sleep() on a channel that is no struct proc keeps the invariant.
LEMMA Keeps_Block ==
  ASSUME IInv, NEW p \in Slots, NEW ch \in Chans,
         NEW kind \in {"sleep_i", "sleep_u", "exit"}, Block(p, ch, kind)
  PROVE  IInv'
  <1> USE SlotFacts DEF IInv
  <1>1. TypeOK'
    BY DEF TypeOK, States, PCs, Block, Syscall, Goto, GoToSleep, Leave
  <1>2. OneCPU'
    BY DEF OneCPU, TypeOK, Block, GoToSleep, Leave
  <1>3. EmbryoOwned'
    BY DEF EmbryoOwned, TypeOK, Live, ForkPCs, Block, Syscall, Goto, Running, GoToSleep
  <1>4. ParentAlive'
    BY DEF ParentAlive, TypeOK, Live, Block, Syscall, Goto, Running, GoToSleep
  <1>5. NoMissedExit'
    BY DEF NoMissedExit, TypeOK, Kids, Block, Syscall, Goto, GoToSleep
  <1>6. PidsFresh'
    BY DEF PidsFresh, TypeOK, Block, Syscall, Goto, Running, GoToSleep
  <1>7. EmbryoParent'
    BY DEF EmbryoParent, TypeOK, Block, Syscall, Goto
  <1> QED
    BY <1>1, <1>2, <1>3, <1>4, <1>5, <1>6, <1>7

\* kill() keeps the invariant: whoever it marks is not left asleep.
LEMMA Keeps_kill ==
  ASSUME IInv, NEW p \in Slots, NEW k \in KillPids, kill(p, k)
  PROVE  IInv'
  <1> USE SlotFacts DEF IInv
  <1> DEFINE match == {s \in Slots : pid[s] = k}
             s     == First(match)
  <1>a. match # {} => s \in Slots
    BY FirstIn
  <1>b. /\ Syscall(p, "user")
        /\ \/ UNCHANGED <<state, killed>>
           \/ /\ match # {} /\ killed' = [killed EXCEPT ![s] = TRUE]
              /\ state' = [state EXCEPT ![s] = IF @ = "SLEEPING" THEN "RUNNABLE" ELSE @]
        /\ UNCHANGED <<pid, parent, chan, nextpid, cpu, np, panicked>>
    BY DEF kill
  <1> HIDE DEF s, match
  <1>1. TypeOK'
    BY <1>a, <1>b DEF TypeOK, States, PCs, ForkPCs, Syscall, Goto, Running
  <1>2. OneCPU'
    BY <1>a, <1>b DEF OneCPU, TypeOK
  <1>3. EmbryoOwned'
    BY <1>a, <1>b DEF EmbryoOwned, TypeOK, Live, Syscall, Goto
  <1>4. ParentAlive'
    BY <1>a, <1>b DEF ParentAlive, TypeOK, Live
  <1>5. NoMissedExit'
    BY <1>a, <1>b DEF NoMissedExit, TypeOK, Kids, Syscall, Goto
  <1>6. PidsFresh'
    BY <1>a, <1>b DEF PidsFresh, TypeOK
  <1>7. EmbryoParent'
    BY <1>a, <1>b DEF EmbryoParent, TypeOK, Syscall, Goto
  <1> QED
    BY <1>1, <1>2, <1>3, <1>4, <1>5, <1>6, <1>7

\* wakeup() keeps the invariant.
LEMMA Keeps_wakeup ==
  ASSUME IInv, NEW ch \in Chans, wakeup(ch)
  PROVE  IInv'
  <1> USE SlotFacts DEF IInv
  <1>1. TypeOK'
    BY DEF TypeOK, States, wakeup, Wakened
  <1>2. OneCPU'
    BY DEF OneCPU, TypeOK, wakeup, Wakened
  <1>3. EmbryoOwned'
    BY DEF EmbryoOwned, TypeOK, Live, wakeup, Wakened
  <1>4. ParentAlive'
    BY DEF ParentAlive, TypeOK, Live, wakeup, Wakened
  <1>5. NoMissedExit'
    BY DEF NoMissedExit, TypeOK, Kids, wakeup, Wakened
  <1>6. PidsFresh'
    BY DEF PidsFresh, TypeOK, wakeup, Wakened
  <1>7. EmbryoParent'
    BY DEF EmbryoParent, TypeOK, wakeup
  <1> QED
    BY <1>1, <1>2, <1>3, <1>4, <1>5, <1>6, <1>7

\* panic("init exiting") keeps the invariant.
LEMMA Keeps_exit_init ==
  ASSUME IInv, exit_init
  PROVE  IInv'
  <1> USE SlotFacts DEF IInv
  <1>1. TypeOK'
    BY DEF TypeOK, exit_init, tbl
  <1>2. OneCPU'
    BY DEF OneCPU, TypeOK, exit_init, tbl
  <1>3. EmbryoOwned'
    BY DEF EmbryoOwned, TypeOK, Live, exit_init, tbl
  <1>4. ParentAlive'
    BY DEF ParentAlive, TypeOK, Live, exit_init, tbl
  <1>5. NoMissedExit'
    BY DEF NoMissedExit, TypeOK, Kids, exit_init, tbl
  <1>6. PidsFresh'
    BY DEF PidsFresh, TypeOK, exit_init, tbl
  <1>7. EmbryoParent'
    BY DEF EmbryoParent, TypeOK, exit_init, tbl
  <1> QED
    BY <1>1, <1>2, <1>3, <1>4, <1>5, <1>6, <1>7

-----------------------------------------------------------------------------
\* The state userinit() leaves satisfies the invariant.
LEMMA InitIInv == Init => IInv
  <1> SUFFICES ASSUME Init PROVE IInv
    OBVIOUS
  <1> USE SlotFacts DEF Init
  <1>1. TypeOK
    BY ProcAssumption DEF TypeOK, States, PCs
  <1>2. OneCPU /\ EmbryoOwned /\ EmbryoParent
    BY DEF OneCPU, EmbryoOwned, EmbryoParent, ForkPCs
  <1>3. ParentAlive /\ NoMissedExit
    BY DEF ParentAlive, NoMissedExit, Live
  <1>4. PidsFresh
    BY DEF PidsFresh
  <1> QED
    BY <1>1, <1>2, <1>3, <1>4 DEF IInv

\* Every critical section of proc.c, and every unlocked step of fork(), keeps
\* the invariant.
LEMMA NextIInv == IInv /\ [Next]_vars => IInv'
  <1> SUFFICES ASSUME IInv, [Next]_vars PROVE IInv'
    OBVIOUS
  <1>1. CASE \E ch \in Chans : wakeup(ch)
    BY <1>1, Keeps_wakeup
  <1>2. CASE exit_init
    BY <1>2, Keeps_exit_init
  <1>3. ASSUME NEW p \in Slots, Fork(p) PROVE IInv'
    BY <1>3, Keeps_fork_alloc, Keeps_fork_full, Keeps_fork_fail, Keeps_fork_kstack,
       Keeps_fork_copy, Keeps_fork_publish DEF Fork
  <1>4. ASSUME NEW p \in Slots,
               \/ \E c \in CPUs : Schedule(c, p)
               \/ yield(p) \/ Return(p)
               \/ \E ch \in Chans, kind \in {"sleep_i", "sleep_u", "exit"} : Block(p, ch, kind)
               \/ \E k \in KillPids : kill(p, k)
        PROVE  IInv'
    BY <1>4, Keeps_Schedule, Keeps_yield, Keeps_Return, Keeps_Block, Keeps_kill
  <1>5. ASSUME NEW p \in Slots, CallExit(p) \/ exit(p) \/ CallWait(p) \/ wait(p) \/ Fault(p)
        PROVE  IInv'
    BY <1>5, Keeps_CallExit, Keeps_exit, Keeps_CallWait, Keeps_wait, Keeps_Fault
  <1>6. CASE UNCHANGED vars
    BY <1>6 DEF vars, tbl, IInv, TypeOK, OneCPU, EmbryoOwned, ParentAlive, NoMissedExit,
       PidsFresh, EmbryoParent, Live, Kids
  <1> QED
    BY <1>1, <1>2, <1>3, <1>4, <1>5, <1>6 DEF Next

\* The inductive invariant holds in every reachable state of the table.
THEOREM Invariance == Spec => []IInv
  BY InitIInv, NextIInv, PTL DEF Spec

\* The fields of struct proc keep their types.
THEOREM TypeCorrect == Spec => []TypeOK
  <1>1. IInv => TypeOK
    BY DEF IInv
  <1> QED
    BY <1>1, Invariance, PTL

\* scheduler() and sched(): no process is ever on two CPUs.
THEOREM NeverOnTwoCPUs == Spec => []OneCPU
  <1>1. IInv => OneCPU
    BY DEF IInv
  <1> QED
    BY <1>1, Invariance, PTL

\* fork(): the slot it writes without ptable.lock is its own.
THEOREM ForkOwnsItsSlot == Spec => []EmbryoOwned
  <1>1. IInv => EmbryoOwned
    BY DEF IInv
  <1> QED
    BY <1>1, Invariance, PTL

\* exit(): every process has a living parent that can reap it.
THEOREM NobodyIsOrphaned == Spec => []ParentAlive
  <1>1. IInv => ParentAlive
    BY DEF IInv
  <1> QED
    BY <1>1, Invariance, PTL

\* wait() and exit(): a parent never sleeps through the exit of a child, and
\* initproc never through a zombie it has inherited.
THEOREM NoExitIsMissed == Spec => []NoMissedExit
  <1>1. IInv => NoMissedExit
    BY DEF IInv
  <1> QED
    BY <1>1, Invariance, PTL

\* allocproc(): pids in use are unique.
THEOREM PidsAreUnique == Spec => []UniquePids
  <1>1. IInv => UniquePids
    BY DEF IInv, PidsFresh, UniquePids, Unused
  <1> QED
    BY <1>1, Invariance, PTL
=============================================================================
