------------------------------ MODULE AddrSpace ------------------------------
(***************************************************************************)
(* What virtual memory promises: every process has a memory of its own.    *)
(* A memory is a function from page numbers to contents; a process that    *)
(* is not there has none.  A system call that fails changes nothing.       *)
(***************************************************************************)
EXTENDS Integers

CONSTANTS Slots, Vals, Zero, Sizes, Images   \* Images: what exec() can load

VARIABLE memory

vars == <<memory>>

Pages(n) == 0..n-1

Init == \E p \in Slots, v \in Vals :
          memory = [s \in Slots |-> IF s = p THEN [i \in Pages(1) |-> v] ELSE <<>>]

Store(p, i, v) ==
  i \in DOMAIN memory[p] /\ memory' = [memory EXCEPT ![p][i] = v]

\* The memory changes its size; what was there stays, what is new is zero.
Resize(p, n) ==
  memory' = [memory EXCEPT ![p] =
               [i \in Pages(n) |-> IF i \in DOMAIN @ THEN @[i] ELSE Zero]]

Fork(p, c) == memory[c] = <<>> /\ memory' = [memory EXCEPT ![c] = memory[p]]

Exec(p, im) == memory' = [memory EXCEPT ![p] = im]

Exit(p) == memory' = [memory EXCEPT ![p] = <<>>]

Next == \E p \in Slots :
          /\ memory[p] # <<>>
          /\ \/ \E i \in DOMAIN memory[p], v \in Vals : Store(p, i, v)
             \/ \E n \in Sizes : Resize(p, n)
             \/ \E c \in Slots : Fork(p, c)
             \/ \E im \in Images : Exec(p, im)
             \/ Exit(p)

Spec == Init /\ [][Next]_vars
=============================================================================
