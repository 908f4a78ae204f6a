------------------------------ MODULE Umalloc ------------------------------
(***************************************************************************)
(* The memory allocator of user programs (umalloc.c).  Memory is measured  *)
(* in Headers, the unit of the allocator: an address is the index of a     *)
(* Header, base is the address 0, and the heap that sbrk() hands out       *)
(* starts at 1.  A free block is a Header, whose ptr is the next free      *)
(* block and whose size counts the Header itself, and size - 1 Headers     *)
(* after it.                                                               *)
(***************************************************************************)
EXTENDS Naturals, FiniteSets

CONSTANTS HEADER,    \* sizeof(Header), in bytes
          NMORE,     \* the least number of units morecore() asks for (4096)
          LIMIT,     \* the address that sbrk() cannot go past
          Requests,  \* the sizes in bytes that the program asks for
          Gaps       \* the units the program may take from sbrk() itself

VARIABLES ptr,      \* ptr[a]: the next free block, for base and the free blocks
          size,     \* size[a]: the units of the block at a, free or in use
          freep,    \* where the next search starts
          brk,      \* the end of the memory that sbrk() gave
          owned,    \* ghost: block in use |-> bytes asked for
          gaps      \* ghost: units of the heap that the program took itself

vars == <<ptr, size, freep, brk, owned, gaps>>

base == 0
NULL == LIMIT + 1

Init ==
  /\ ptr = [a \in {base} |-> base]
  /\ size = [a \in {base} |-> 0]
  /\ freep = NULL
  /\ brk = 1
  /\ owned = <<>>
  /\ gaps = {}

-----------------------------------------------------------------------------

\* A heap h is the Headers and freep.
Heap == [ptr |-> ptr, size |-> size, freep |-> freep]

\* Where free() stops: bp lies between p and the next free block, or p is the
\* last block of the list and bp lies outside it.
RECURSIVE Place(_, _, _)
Place(h, bp, p) ==
  IF \/ bp > p /\ bp < h.ptr[p]
     \/ p >= h.ptr[p] /\ (bp > p \/ bp < h.ptr[p])
  THEN p
  ELSE Place(h, bp, h.ptr[p])

\* Mutant: the block joins neither of its neighbours.
free_block_apart(h, bp) ==
  LET p == Place(h, bp, h.freep)
  IN  [ptr   |-> [a \in DOMAIN h.ptr \cup {bp} |->
                    CASE a = p -> bp [] a = bp -> h.ptr[p] [] OTHER -> h.ptr[a]],
       size  |-> h.size,
       freep |-> p]

\* free(): the block joins the free block after it and the one before it.
free_block(h, bp) ==
  LET p    == Place(h, bp, h.freep)
      next == h.ptr[p]
      up   == bp + h.size[bp] = next
      down == p + h.size[p] = bp
      gone == (IF up THEN {next} ELSE {}) \cup (IF down THEN {bp} ELSE {})
      bsz  == IF up THEN h.size[bp] + h.size[next] ELSE h.size[bp]
      bnx  == IF up THEN h.ptr[next] ELSE next
  IN  [ptr   |-> [a \in (DOMAIN h.ptr \cup {bp}) \ gone |->
                    CASE a = p -> IF down THEN bnx ELSE bp
                      [] a = bp -> bnx
                      [] OTHER -> h.ptr[a]],
       size  |-> [a \in DOMAIN h.size \ gone |->
                    CASE a = p -> IF down THEN h.size[p] + bsz ELSE h.size[p]
                      [] a = bp -> bsz
                      [] OTHER -> h.size[a]],
       freep |-> p]

free(bp) ==
  LET h == free_block(Heap, bp)
  IN  /\ bp \in DOMAIN owned
      /\ ptr' = h.ptr /\ size' = h.size /\ freep' = h.freep
      /\ owned' = [a \in DOMAIN owned \ {bp} |-> owned[a]]
      /\ UNCHANGED <<brk, gaps>>

-----------------------------------------------------------------------------

\* The first use of malloc() makes the list of base alone.
Started(h) == IF h.freep = NULL THEN [h EXCEPT !.freep = base] ELSE h

\* The block before the first one with room, in the order malloc() looks at
\* them; NULL when the search is back at freep.
RECURSIVE Found(_, _, _)
Found(h, prevp, n) ==
  LET p == h.ptr[prevp]
  IN  IF h.size[p] >= n THEN prevp
      ELSE IF p = h.freep THEN NULL
      ELSE Found(h, p, n)

\* A block of n units out of the free block after prevp: all of it, or its tail.
Carved(h, prevp, n) ==
  LET p == h.ptr[prevp]
      a == p + h.size[p] - n
  IN  [addr  |-> a,
       ptr   |-> IF a # p THEN h.ptr
                 ELSE [b \in DOMAIN h.ptr \ {p} |-> IF b = prevp THEN h.ptr[p] ELSE h.ptr[b]],
       size  |-> [b \in DOMAIN h.size \cup {a} |->
                    CASE b = a -> n [] b = p /\ b # a -> h.size[p] - n [] OTHER -> h.size[b]],
       freep |-> prevp]

morecore(h, nu) ==
  free_block([h EXCEPT !.size = [a \in DOMAIN @ \cup {brk} |-> IF a = brk THEN nu ELSE @[a]]],
             brk)

Greater(m, n) == IF m < n THEN n ELSE m

malloc(nbytes) ==
  LET n     == ((nbytes + HEADER - 1) \div HEADER) + 1
      h     == Started(Heap)
      hit   == Found(h, h.freep, n)
      nu    == Greater(n, NMORE)
      more  == morecore(h, nu)
      again == Found(more, more.freep, n)
      Take(r) == /\ ptr' = r.ptr /\ size' = r.size /\ freep' = r.freep
                 /\ owned' = [a \in DOMAIN owned \cup {r.addr} |->
                                IF a = r.addr THEN nbytes ELSE owned[a]]
  IN  /\ \/ /\ hit # NULL
            /\ Take(Carved(h, hit, n))
            /\ UNCHANGED brk
         \/ /\ hit = NULL
            /\ brk + nu <= LIMIT + 1
            /\ brk' = brk + nu
            /\ Take(Carved(more, again, n))
         \/ /\ hit = NULL
            /\ brk + nu > LIMIT + 1
            /\ ptr' = h.ptr /\ size' = h.size /\ freep' = h.freep
            /\ UNCHANGED <<brk, owned>>
      /\ UNCHANGED gaps

\* The program moves the break itself.
sbrk(n) ==
  /\ brk + n <= LIMIT + 1
  /\ brk' = brk + n
  /\ gaps' = gaps \cup brk..(brk + n - 1)
  /\ UNCHANGED <<ptr, size, freep, owned>>

Next ==
  \/ \E n \in Requests : malloc(n)
  \/ \E bp \in DOMAIN owned : free(bp)
  \/ \E n \in Gaps : sbrk(n)

Spec == Init /\ [][Next]_vars

-----------------------------------------------------------------------------

FreeBlocks == DOMAIN ptr \ {base}
Units(a) == a..(a + size[a] - 1)

\* The heap is sound after any sequence of calls: every unit that malloc() got
\* from sbrk() belongs to exactly one block, in use or free, and to none that the
\* program took itself; a block in use has room for what was asked for; the free
\* list goes round in the order of addresses, has freep on it and holds no two
\* blocks that free() should have joined (umalloc.c:33-43, 75-83).
HeapSound ==
  LET blocks == FreeBlocks \cup DOMAIN owned
  IN  /\ FreeBlocks \cap DOMAIN owned = {}
      /\ \A a, b \in blocks : a < b => a + size[a] <= b
      /\ UNION {Units(a) : a \in blocks} = (1..(brk - 1)) \ gaps
      /\ \A a \in DOMAIN owned : (size[a] - 1) * HEADER >= owned[a]
      /\ freep \in DOMAIN ptr \cup {NULL}
      /\ \A a \in DOMAIN ptr :
           \/ ptr[a] = base /\ \A b \in DOMAIN ptr : b <= a
           \/ ptr[a] \in DOMAIN ptr /\ ptr[a] > a + size[a]
              /\ \A b \in DOMAIN ptr : b <= a \/ b >= ptr[a]
=============================================================================
