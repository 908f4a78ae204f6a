--------------------------------- MODULE Vm ---------------------------------
(***************************************************************************)
(* Physical pages and address spaces: kalloc.c, the user half of vm.c, and *)
(* the callers that build and free page tables: sbrk (growproc()), fork(), *)
(* exec() and wait().  Every kalloc() is a step of its own, so processes   *)
(* compete for the last pages and any allocation may be the one that       *)
(* fails; what a failure path gives back is given back in one step.  The   *)
(* order of the free list is left out: kalloc() hands out some free page.  *)
(* A page table is a record: the page of the directory, the pages of the   *)
(* second-level tables (the last one is the kernel's half), the page that  *)
(* each user page number maps to, and the pages user code may touch.       *)
(***************************************************************************)
EXTENDS Integers, Sequences, FiniteSets, FiniteSetsExt

CONSTANTS
  NPROC, NFRAME,    \* process slots, physical pages
  PGSIZE, NPTE,     \* bytes of a page, entries of a second-level table
  KERNBASE,         \* the first address that is not user memory
  Deltas,           \* arguments of sbrk()
  Stores,           \* pages that user code writes to
  Programs,         \* what exec() loads: sequences of program headers
  ArgSizes,         \* bytes that the arguments of exec() take on the stack
  MaxCalls          \* bound on the system calls of a behaviour

Slots  == 1..NPROC
Frames == 1..NFRAME
Vpns   == 0..(KERNBASE \div PGSIZE)-1
NPDE   == KERNBASE \div (PGSIZE * NPTE)
Null   == 0
initproc == 1
Vals   == {0, 1}
Junk   == 2       \* what kfree() fills a page with

\* What the constants of an instance must satisfy
VmAssumption ==
  /\ NPROC \in Nat \ {0} /\ NFRAME \in Nat /\ NFRAME >= 5
  /\ PGSIZE \in Nat \ {0} /\ NPTE \in Nat \ {0} /\ KERNBASE % (PGSIZE * NPTE) = 0

VARIABLES
  free,        \* the pages on kmem.freelist
  data,        \* what a page holds
  state, parent, kstack, sz, pgdir,   \* the fields of struct proc
  job,         \* the locals of the system call a process is in
  calls,       \* how many system calls were made
  panicked

procs == <<state, parent, kstack, sz, pgdir>>
vars  == <<free, data, procs, job, calls, panicked>>

NoSpace == [dir |-> Null, tab |-> [i \in 0..NPDE |-> Null],
            pte |-> [v \in Vpns |-> Null], user |-> {}]

Idle == [call |-> "none", at |-> "user", new |-> NoSpace, mem |-> Null, a |-> 0,
         old |-> 0, top |-> 0, np |-> Null, prog |-> <<>>, i |-> 1]

PGROUNDUP(x)   == ((x + PGSIZE - 1) \div PGSIZE) * PGSIZE
PGROUNDDOWN(x) == (x \div PGSIZE) * PGSIZE
PDX(va)        == va \div (PGSIZE * NPTE)
Vpn(va)        == va \div PGSIZE

Mapped(s) == {v \in Vpns : s.pte[v] # Null}
Entries(f) == {f[x] : x \in DOMAIN f} \ {Null}

-----------------------------------------------------------------------------
(* kalloc.c *)

\* kfree() of one page after the other
kfree_all(pages) ==
  /\ free' = free \cup pages
  /\ data' = [f \in Frames |-> IF f \in pages THEN Junk ELSE data[f]]

\* freerange(): the pages that lie in a range entirely
freerange(vstart, vend) ==
  {f \in Frames : f * PGSIZE >= PGROUNDUP(vstart) /\ f * PGSIZE + PGSIZE <= vend}

NoPage == free = {}
Page   == CHOOSE f \in free : TRUE   \* what kalloc() returns if there is one

-----------------------------------------------------------------------------
(* vm.c *)

\* deallocuvm(): the user pages that go, and the table without them
Dropped(s, oldsz, newsz) ==
  {v \in Mapped(s) : PGROUNDUP(newsz) <= v * PGSIZE /\ v * PGSIZE < oldsz}

deallocuvm(s, oldsz, newsz) ==
  LET gone == Dropped(s, oldsz, newsz)
  IN [s EXCEPT !.pte = [v \in Vpns |-> IF v \in gone THEN Null ELSE @[v]],
               !.user = @ \ gone]

\* freevm(): user pages, tables and the directory
freevm(s) ==
  {s.pte[v] : v \in Dropped(s, KERNBASE, 0)} \cup Entries(s.tab) \cup {s.dir}

\* The pages of a range of addresses that uva2ka() finds for copyout()
copyout(s, va, len) ==
  \A v \in Vpns : Vpn(va) <= v /\ v * PGSIZE < va + len => v \in Mapped(s) \cap s.user

-----------------------------------------------------------------------------
(* The boot: kinit1(), kinit2() and userinit() *)

\* allocproc() takes page 1 for the kernel stack, setupkvm() 2 and 3,
\* inituvm() page 4 for the program and 5 for its table.
Init ==
  LET one == [NoSpace EXCEPT !.dir = 2, !.tab[NPDE] = 3, !.pte[0] = 4,
                             !.tab[0] = 5, !.user = {0}]
  IN /\ free = freerange(PGSIZE, (NFRAME + 1) * PGSIZE) \ 1..5
     /\ data = [f \in Frames |-> IF f = 4 THEN 1 ELSE Junk]
     /\ state = [s \in Slots |-> IF s = initproc THEN "RUNNABLE" ELSE "UNUSED"]
     /\ parent = [s \in Slots |-> Null]
     /\ kstack = [s \in Slots |-> IF s = initproc THEN 1 ELSE Null]
     /\ sz = [s \in Slots |-> IF s = initproc THEN PGSIZE ELSE 0]
     /\ pgdir = [s \in Slots |-> IF s = initproc THEN one ELSE NoSpace]
     /\ job = [s \in Slots |-> Idle] /\ calls = 0 /\ panicked = FALSE

\* In user mode, on a page that is there (otherwise the next instruction faults)
InUser(p) == state[p] = "RUNNABLE" /\ job[p].at = "user" /\ pgdir[p].pte[0] # Null

At(p, label) == job[p].at = label /\ ~panicked

Return(p) == job' = [job EXCEPT ![p] = Idle]

\* A user instruction stores a value.
store(p, v, x) ==
  /\ InUser(p) /\ v \in Mapped(pgdir[p]) \cap pgdir[p].user
  /\ data' = [data EXCEPT ![pgdir[p].pte[v]] = x]
  /\ UNCHANGED <<free, procs, job, panicked>>

-----------------------------------------------------------------------------
(* sys_sbrk() and growproc() *)

\* growproc() with n > 0: allocuvm() up to its loop; what is too large is refused
sbrk_grow(p, n) ==
  /\ InUser(p) /\ n > 0 /\ sz[p] + n < KERNBASE
  /\ job' = [job EXCEPT ![p] = [Idle EXCEPT !.call = "sbrk", !.at = "alloc",
               !.old = sz[p], !.top = sz[p] + n, !.a = PGROUNDUP(sz[p])]]
  /\ UNCHANGED <<free, data, procs, panicked>>

\* growproc() with n < 0: sz + n is unsigned, a negative result is a huge one
\* and deallocuvm() leaves everything; with 0 it returns -1 and sz stays (the
\* process then faults and exits, which the first process must never do).
sbrk_shrink(p, n) ==
  /\ InUser(p) /\ n < 0 /\ sz[p] + n >= 0 /\ (p = initproc => sz[p] + n > 0)
  /\ LET newsz == sz[p] + n
     IN /\ kfree_all({pgdir[p].pte[v] : v \in Dropped(pgdir[p], sz[p], newsz)})
        /\ pgdir' = [pgdir EXCEPT ![p] = deallocuvm(@, sz[p], newsz)]
        /\ sz' = [sz EXCEPT ![p] = IF newsz = 0 THEN @ ELSE newsz]
  /\ UNCHANGED <<state, parent, kstack, job, panicked>>

-----------------------------------------------------------------------------
(* fork(): allocproc() and copyuvm() *)

fork(p) ==
  /\ InUser(p) /\ \E c \in Slots : state[c] = "UNUSED"
  /\ LET np == Min({c \in Slots : state[c] = "UNUSED"})
     IN /\ state' = [state EXCEPT ![np] = "EMBRYO"]
        /\ job' = [job EXCEPT ![p] = [Idle EXCEPT !.call = "fork", !.at = "kstack",
                     !.np = np, !.top = sz[p]]]
  /\ UNCHANGED <<free, data, parent, kstack, sz, pgdir, panicked>>

\* The rest of allocproc(): no page for the kernel stack, no process
fork_kstack(p) ==
  LET np == job[p].np
  IN /\ At(p, "kstack")
     /\ IF NoPage
        THEN /\ state' = [state EXCEPT ![np] = "UNUSED"] /\ Return(p)
             /\ UNCHANGED <<free, kstack>>
        ELSE /\ kstack' = [kstack EXCEPT ![np] = Page] /\ free' = free \ {Page}
             /\ job' = [job EXCEPT ![p].at = "dir"] /\ UNCHANGED state
     /\ UNCHANGED <<data, parent, sz, pgdir, panicked>>

\* The table under construction is freed, with a page that is not in it yet.
Discard(p, held) ==
  (IF job[p].new.dir = Null THEN {} ELSE freevm(job[p].new)) \cup held

\* Mutant: fork() forgets the kernel stack.
bad_stack(p, held) ==
  LET np == job[p].np
  IN /\ kfree_all(Discard(p, held))
     /\ IF job[p].call = "fork"
        THEN /\ kstack' = [kstack EXCEPT ![np] = Null]
             /\ state' = [state EXCEPT ![np] = "UNUSED"]
        ELSE UNCHANGED <<kstack, state>>
     /\ Return(p) /\ UNCHANGED <<parent, sz, pgdir, panicked>>

\* The failure paths of fork() (which also frees the kernel stack) and exec()
bad(p, held) ==
  LET np == job[p].np
  IN /\ IF job[p].call = "fork"
        THEN /\ kfree_all(Discard(p, held) \cup {kstack[np]})
             /\ kstack' = [kstack EXCEPT ![np] = Null]
             /\ state' = [state EXCEPT ![np] = "UNUSED"]
        ELSE kfree_all(Discard(p, held)) /\ UNCHANGED <<kstack, state>>
     /\ Return(p) /\ UNCHANGED <<parent, sz, pgdir, panicked>>

\* setupkvm(): the directory
setupkvm(p) ==
  /\ At(p, "dir")
  /\ IF NoPage THEN bad(p, {})
     ELSE /\ free' = free \ {Page}
          /\ job' = [job EXCEPT ![p].new.dir = Page, ![p].at = "ktab"]
          /\ UNCHANGED <<data, procs, panicked>>

\* setupkvm(): mappages() of the kernel half
setupkvm_map(p) ==
  /\ At(p, "ktab")
  /\ IF NoPage THEN bad(p, {})
     ELSE /\ free' = free \ {Page}
          /\ job' = [job EXCEPT ![p].new.tab[NPDE] = Page,
                       ![p].at = IF job[p].call = "fork" THEN "copy" ELSE "segment"]
          /\ UNCHANGED <<data, procs, panicked>>

\* copyuvm(): the next page of the parent, or the end of fork()
copyuvm(p) ==
  LET j == job[p]
      pa == pgdir[p].pte[Vpn(j.a)]
  IN /\ At(p, "copy") /\ j.a < j.top
     /\ IF pa = Null THEN panicked' = TRUE /\ UNCHANGED <<free, data, procs, job>>
        ELSE IF NoPage THEN bad(p, {})
        ELSE /\ free' = free \ {Page} /\ data' = [data EXCEPT ![Page] = data[pa]]
             /\ job' = [job EXCEPT ![p].mem = Page, ![p].at = "map"]
             /\ UNCHANGED <<procs, panicked>>

fork_done(p) ==
  LET np == job[p].np
  IN /\ At(p, "copy") /\ job[p].a >= job[p].top
     /\ pgdir' = [pgdir EXCEPT ![np] = job[p].new] /\ sz' = [sz EXCEPT ![np] = sz[p]]
     /\ parent' = [parent EXCEPT ![np] = p]
     /\ state' = [state EXCEPT ![np] = "RUNNABLE"]
     /\ Return(p) /\ UNCHANGED <<free, data, kstack, panicked>>

-----------------------------------------------------------------------------
(* allocuvm() and mappages(), for growproc() and exec() *)

\* The table that the call works on
Table(p) == IF job[p].call = "sbrk" THEN pgdir[p] ELSE job[p].new

\* allocuvm() fails: back to oldsz; exec() then frees the whole table
allocuvm_fail(p, held) ==
  IF job[p].call # "sbrk" THEN bad(p, held)
  ELSE LET s == pgdir[p]
       IN /\ kfree_all(held \cup {s.pte[v] : v \in Dropped(s, job[p].top, job[p].old)})
          /\ pgdir' = [pgdir EXCEPT ![p] = deallocuvm(s, job[p].top, job[p].old)]
          /\ Return(p) /\ UNCHANGED <<state, parent, kstack, sz, panicked>>

\* Mutant: no memset().
allocuvm_dirty(p) ==
  /\ At(p, "alloc") /\ job[p].a < job[p].top
  /\ IF NoPage THEN allocuvm_fail(p, {})
     ELSE /\ free' = free \ {Page}
          /\ job' = [job EXCEPT ![p].mem = Page, ![p].at = "map"]
          /\ UNCHANGED <<data, procs, panicked>>

\* kalloc() and memset() of the loop in allocuvm()
allocuvm(p) ==
  /\ At(p, "alloc") /\ job[p].a < job[p].top
  /\ IF NoPage THEN allocuvm_fail(p, {})
     ELSE /\ free' = free \ {Page} /\ data' = [data EXCEPT ![Page] = 0]
          /\ job' = [job EXCEPT ![p].mem = Page, ![p].at = "map"]
          /\ UNCHANGED <<procs, panicked>>

\* mappages() of the page in hand: a second-level table may be needed first
mappages(p) ==
  LET j == job[p]
      s == Table(p)
      v == Vpn(j.a)
      missing == s.tab[PDX(j.a)] = Null
      mapped == [s EXCEPT !.tab[PDX(j.a)] = IF missing THEN Page ELSE @, !.pte[v] = j.mem,
                   !.user = IF j.call = "fork" /\ v \notin pgdir[p].user THEN @ ELSE @ \cup {v}]
      on == [j EXCEPT !.mem = Null, !.a = @ + PGSIZE,
                      !.at = IF j.call = "fork" THEN "copy" ELSE "alloc"]
  IN /\ At(p, "map")
     /\ IF missing /\ NoPage
        THEN IF j.call = "fork" THEN bad(p, {j.mem}) ELSE allocuvm_fail(p, {j.mem})
        ELSE IF s.pte[v] # Null
        THEN panicked' = TRUE /\ UNCHANGED <<free, data, procs, job>>
        ELSE /\ free' = IF missing THEN free \ {Page} ELSE free
             /\ IF j.call = "sbrk"
                THEN pgdir' = [pgdir EXCEPT ![p] = mapped] /\ job' = [job EXCEPT ![p] = on]
                ELSE /\ job' = [job EXCEPT ![p] = [on EXCEPT !.new = mapped]]
                     /\ UNCHANGED pgdir
             /\ UNCHANGED <<data, state, parent, kstack, sz, panicked>>

\* allocuvm() returns newsz: to growproc() or to exec()
alloc_done(p) ==
  LET j == job[p]
  IN /\ At(p, "alloc") /\ j.a >= j.top
     /\ IF j.call = "sbrk"
        THEN sz' = [sz EXCEPT ![p] = j.top] /\ Return(p)
             /\ UNCHANGED <<free, data, state, parent, kstack, pgdir, panicked>>
        ELSE IF j.top = 0 THEN bad(p, {})
        ELSE /\ job' = [job EXCEPT ![p].at = IF j.i <= Len(j.prog) THEN "load" ELSE "args"]
             /\ UNCHANGED <<free, data, procs, panicked>>

-----------------------------------------------------------------------------
(* exec() *)

exec(p, prog) ==
  /\ InUser(p)
  /\ job' = [job EXCEPT ![p] = [Idle EXCEPT !.call = "exec", !.at = "dir",
                                            !.prog = prog]]
  /\ UNCHANGED <<free, data, procs, panicked>>

\* The next program header, or the two pages of guard and stack: up to the
\* loop of allocuvm().  The sum ph.vaddr + ph.memsz stays below 2^32 here, so
\* that the test for its overflow never fires.
exec_segment(p) ==
  LET j == job[p]
      more == j.i <= Len(j.prog)
      ph == j.prog[j.i]
      old == IF more THEN j.old ELSE PGROUNDUP(j.old)
      new == IF more THEN ph.vaddr + ph.memsz ELSE old + 2 * PGSIZE
  IN /\ At(p, "segment")
     /\ IF (more /\ ph.memsz < ph.filesz) \/ new >= KERNBASE
        THEN bad(p, {})
        ELSE /\ job' = [job EXCEPT ![p].at = "alloc", ![p].old = old, ![p].a = PGROUNDUP(old),
                                   ![p].top = IF new < old THEN old ELSE new]
             /\ UNCHANGED <<free, data, procs, panicked>>

\* loaduvm() into the pages of the segment; readi() may find a short file
exec_load(p, short) ==
  LET j == job[p]
      ph == j.prog[j.i]
      into == {v \in Vpns : ph.vaddr <= v * PGSIZE /\ v * PGSIZE < ph.vaddr + ph.filesz}
  IN /\ At(p, "load")
     /\ IF ph.vaddr % PGSIZE # 0 \/ short
        THEN bad(p, {})
        ELSE IF \E v \in into : j.new.pte[v] = Null
        THEN panicked' = TRUE /\ UNCHANGED <<free, data, procs, job>>
        ELSE /\ data' = [f \in Frames |-> IF \E v \in into : j.new.pte[v] = f THEN 1 ELSE data[f]]
             /\ job' = [job EXCEPT ![p].i = @ + 1, ![p].old = j.top, ![p].at = "segment"]
             /\ UNCHANGED <<free, procs, panicked>>

\* clearpteu() of the guard page, copyout() of the arguments, and the commit:
\* the new table takes the place of the old one, which is freed
exec_commit(p, args) ==
  LET j == job[p]
      s == [j.new EXCEPT !.user = @ \ {Vpn(j.top - 2 * PGSIZE)}]
      sp == j.top - args
      stack == {v \in Vpns : Vpn(sp) <= v /\ v * PGSIZE < j.top /\ args > 0}
      old == freevm(pgdir[p])
  IN /\ At(p, "args")
     /\ IF ~copyout(s, sp, args)
        THEN bad(p, {})
        ELSE /\ free' = free \cup old
             /\ data' = [f \in Frames |-> IF f \in old THEN Junk
                                          ELSE IF \E v \in stack : s.pte[v] = f THEN 1 ELSE data[f]]
             /\ pgdir' = [pgdir EXCEPT ![p] = s] /\ sz' = [sz EXCEPT ![p] = j.top]
             /\ Return(p) /\ UNCHANGED <<state, parent, kstack, panicked>>

-----------------------------------------------------------------------------
(* exit() and wait() *)

exit(p) ==
  /\ p # initproc /\ state[p] = "RUNNABLE" /\ At(p, "user")
  /\ state' = [state EXCEPT ![p] = "ZOMBIE"]
  /\ parent' = [s \in Slots |-> IF parent[s] = p THEN initproc ELSE parent[s]]
  /\ UNCHANGED <<free, data, kstack, sz, pgdir, job, panicked>>

\* wait() finds a zombie (p->pgdir dangles until the slot is used again)
wait(p, c) ==
  /\ InUser(p) /\ parent[c] = p /\ state[c] = "ZOMBIE"
  /\ kfree_all({kstack[c]} \cup freevm(pgdir[c]))
  /\ kstack' = [kstack EXCEPT ![c] = Null] /\ parent' = [parent EXCEPT ![c] = Null]
  /\ state' = [state EXCEPT ![c] = "UNUSED"]
  /\ pgdir' = [pgdir EXCEPT ![c] = NoSpace] /\ sz' = [sz EXCEPT ![c] = 0]
  /\ UNCHANGED <<job, panicked>>

\* A system call, counted; what the calls do next; what user code does itself
Call(p) ==
  /\ calls < MaxCalls /\ calls' = calls + 1
  /\ \/ \E n \in Deltas : sbrk_grow(p, n) \/ sbrk_shrink(p, n)
     \/ fork(p)
     \/ \E prog \in Programs : exec(p, prog)
     \/ exit(p)
     \/ \E c \in Slots : wait(p, c)

Step(p) ==
  /\ UNCHANGED calls
  /\ \/ fork_kstack(p) \/ setupkvm(p) \/ setupkvm_map(p) \/ copyuvm(p) \/ fork_done(p)
     \/ allocuvm(p) \/ mappages(p) \/ alloc_done(p)
     \/ exec_segment(p) \/ \E short \in BOOLEAN : exec_load(p, short)
     \/ \E n \in ArgSizes : exec_commit(p, n)
     \/ \E v \in Stores, x \in Vals : store(p, v, x)

Next == \E p \in Slots : Call(p) \/ Step(p)

Spec == Init /\ [][Next]_vars

-----------------------------------------------------------------------------
(* Properties *)

\* Where a page is: a set of <<page, place>>
SpacePlaces(s, who) ==
  {<<s.pte[v], "user", v, who>> : v \in Mapped(s)}
    \cup {<<s.tab[i], "table", i, who>> : i \in {i \in 0..NPDE : s.tab[i] # Null}}
    \cup (IF s.dir = Null THEN {} ELSE {<<s.dir, "dir", 0, who>>})

Places ==
  {<<f, "free">> : f \in free}
    \cup {<<kstack[s], "kstack", s>> : s \in {s \in Slots : kstack[s] # Null}}
    \cup {<<job[s].mem, "mem", s>> : s \in {s \in Slots : job[s].mem # Null}}
    \cup UNION {SpacePlaces(pgdir[s], <<"pgdir", s>>) \cup SpacePlaces(job[s].new, <<"new", s>>)
                  : s \in Slots}

\* p->sz says what is mapped: outside of system calls a process has exactly
\* the pages below p->sz, so that copyuvm() finds every page it copies and
\* mappages() never maps twice.  The exception is a process that gave back
\* everything with sbrk(-sz): growproc() fails, sz stays, no page is left.
SizeMapped ==
  /\ ~panicked
  /\ \A p \in Slots : state[p] = "RUNNABLE" /\ job[p].call # "sbrk" =>
       Mapped(pgdir[p]) \in {{}, {v \in Vpns : v * PGSIZE < sz[p]}}

\* Every physical page is in exactly one place: on the free list, in one page
\* table (as a user page, a table or the directory), as one kernel stack, or
\* in the hands of one call.  No failure path of fork(), exec() or sbrk leaks
\* a page or frees one twice, no page is shared between processes, and the
\* tables cover what p->sz says (SizeMapped).
PagesOwned ==
  /\ {x[1] : x \in Places} = Frames /\ Cardinality(Places) = NFRAME
  /\ SizeMapped

\* The image that exec() makes of a program: what was in the file, zeroes
\* behind it, the guard page and the stack with the arguments
Image(prog, args) ==
  LET size == Max({0} \cup {prog[i].vaddr + prog[i].memsz : i \in DOMAIN prog})
      n == Vpn(PGROUNDUP(size))
      filled(v) == \E i \in DOMAIN prog : /\ prog[i].vaddr <= v * PGSIZE
                                          /\ v * PGSIZE < prog[i].vaddr + prog[i].filesz
  IN [v \in 0..n+1 |-> IF (v < n /\ filled(v)) \/ (v = n + 1 /\ args > 0) THEN 1 ELSE 0]

Seen(p) ==
  IF state[p] # "RUNNABLE" THEN <<>>
  ELSE [v \in {v \in Mapped(pgdir[p]) : v * PGSIZE < sz[p]} |-> data[pgdir[p].pte[v]]]

Abstract == INSTANCE AddrSpace
  WITH Zero <- 0, Sizes <- 0..Cardinality(Vpns), memory <- [p \in Slots |-> Seen(p)],
       Images <- {Image(prog, n) : prog \in Programs, n \in ArgSizes}

\* What a process reads is what it wrote: fork() gives the child a copy,
\* exec() an image that depends on the file only, sbrk zeroes, a failed call
\* changes nothing, and no step of one process changes the memory of another.
ImplementsAddrSpace == Abstract!Spec
=============================================================================
