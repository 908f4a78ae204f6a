------------------------------- MODULE Console -------------------------------
(***************************************************************************)
(* Console input (console.c): consoleintr() puts the characters of the     *)
(* keyboard and the serial line into the ring input.buf, consoleread()     *)
(* takes them out.  What happens under cons.lock is one action; getc()     *)
(* yields one character per interrupt.  r, w and e are unsigned integers   *)
(* that wrap around at UINT, a multiple of INPUT_BUF as 2^32 is.           *)
(***************************************************************************)
EXTENDS Integers, SequencesExt, FiniteSetsExt

CONSTANTS
  Procs,        \* processes that read from the console
  Chars,        \* ordinary characters
  NL, EOF,      \* '\n' and C('D')
  INPUT_BUF, UINT,
  ReadSizes     \* arguments of read()

\* What the constants of an instance must satisfy
ConsoleAssumption ==
  /\ INPUT_BUF \in Nat \ {0} /\ UINT \in Nat /\ UINT % INPUT_BUF = 0 /\ UINT > INPUT_BUF
  /\ {NL, EOF} \cap Chars = {} /\ ReadSizes \subseteq Nat

VARIABLES
  buf, r, w, e,   \* struct input
  pc,             \* "user", "read" (runnable in consoleread()) or "sleep"
  n, target,      \* the locals of consoleread()
  got,            \* what was stored through dst
  killed

input == <<buf, r, w, e>>
calls == <<pc, n, target, got>>
vars  == <<input, calls, killed>>

Input == Chars \cup {NL, EOF}

Init ==
  /\ buf = [i \in 0..INPUT_BUF-1 |-> NL] /\ r = 0 /\ w = 0 /\ e = 0
  /\ pc = [p \in Procs |-> "user"] /\ killed = [p \in Procs |-> FALSE]
  /\ n = [p \in Procs |-> 0] /\ target = [p \in Procs |-> 0]
  /\ got = [p \in Procs |-> <<>>]

Up(x, k)   == (x + k) % UINT
Down(x, k) == (x - k) % UINT

\* The k characters from index x on
Ring(x, k) == [i \in 1..k |-> buf[Up(x, i - 1) % INPUT_BUF]]

-----------------------------------------------------------------------------
(* consoleintr() *)

\* Mutant: a wakeup of one reader only.
wakeup_one ==
  pc' = IF \E p \in Procs : pc[p] = "sleep"
        THEN [pc EXCEPT ![CHOOSE p \in Procs : pc[p] = "sleep"] = "read"] ELSE pc

wakeup == pc' = [p \in Procs |-> IF pc[p] = "sleep" THEN "read" ELSE pc[p]]

\* default: an ordinary character, if there is room
intr_char(c) ==
  /\ Down(e, r) < INPUT_BUF
  /\ buf' = [buf EXCEPT ![e % INPUT_BUF] = c] /\ e' = Up(e, 1)
  /\ IF c \in {NL, EOF} \/ e' = Up(r, INPUT_BUF)
     THEN w' = e' /\ wakeup
     ELSE UNCHANGED <<w, pc>>
  /\ UNCHANGED <<r, n, target, got, killed>>

\* case C('H'), '\x7f'
intr_backspace ==
  /\ e # w /\ e' = Down(e, 1) /\ UNCHANGED <<buf, r, w, calls, killed>>

\* case C('U'): back to the start of the line
intr_kill_line ==
  LET stops == {k \in 0..Down(e, w) : k = Down(e, w) \/ buf[Down(e, k + 1) % INPUT_BUF] = NL}
  IN /\ e # w /\ e' = Down(e, Min(stops))
     /\ UNCHANGED <<buf, r, w, calls, killed>>

-----------------------------------------------------------------------------
(* consoleread() *)

read(p, k) ==
  /\ pc[p] = "user"
  /\ pc' = [pc EXCEPT ![p] = "read"] /\ n' = [n EXCEPT ![p] = k]
  /\ target' = [target EXCEPT ![p] = k] /\ got' = [got EXCEPT ![p] = <<>>]
  /\ UNCHANGED <<input, killed>>

\* The call returns: the number of characters in got, or -1 if it was killed
Return(p) ==
  /\ pc' = [pc EXCEPT ![p] = "user"] /\ n' = [n EXCEPT ![p] = 0]
  /\ target' = [target EXCEPT ![p] = 0]

\* The characters that the loop takes before it stops or has to wait
Taken(p) ==
  LET ready == IF n[p] = 0 THEN <<>> ELSE Ring(r, Down(w, r))
      stops == {i \in DOMAIN ready : ready[i] \in {NL, EOF} \/ i = n[p]}
  IN SubSeq(ready, 1, IF stops = {} THEN Len(ready) ELSE Min(stops))

\* Mutant: an end of file is used up even when characters came before it.
Used_eof(p, taken) == Len(taken)

\* How far r moves: C('D') is left for the next call, which will get nothing,
\* unless this call got nothing itself
Used(p, taken) ==
  IF taken # <<>> /\ Last(taken) = EOF /\ n[p] - (Len(taken) - 1) < target[p]
  THEN Len(taken) - 1 ELSE Len(taken)

\* From acquire() or the return of sleep() to the next sleep() or the end
consoleread(p) ==
  LET taken == Taken(p)
      ends(c) == taken # <<>> /\ Last(taken) = c
      keep == IF ends(EOF) THEN Front(taken) ELSE taken
  IN /\ pc[p] = "read"
     /\ r' = Up(r, Used(p, taken)) /\ got' = [got EXCEPT ![p] = @ \o keep]
     /\ IF n[p] = Len(keep) \/ ends(NL) \/ ends(EOF) \/ killed[p]
        THEN Return(p)
        ELSE /\ n' = [n EXCEPT ![p] = @ - Len(keep)] /\ pc' = [pc EXCEPT ![p] = "sleep"]
             /\ UNCHANGED target
     /\ UNCHANGED <<buf, w, e, killed>>

\* kill() of proc.c: a sleeper becomes RUNNABLE
kill(p) ==
  /\ ~killed[p] /\ killed' = [killed EXCEPT ![p] = TRUE]
  /\ pc' = [pc EXCEPT ![p] = IF @ = "sleep" THEN "read" ELSE @]
  /\ UNCHANGED <<input, n, target, got>>

\* On its way to user mode a killed process exits; a new one takes its place.
exit(p) ==
  /\ killed[p] /\ pc[p] = "user" /\ killed' = [killed EXCEPT ![p] = FALSE]
  /\ UNCHANGED <<input, calls>>

Next ==
  \/ \E c \in Input : intr_char(c)
  \/ intr_backspace \/ intr_kill_line
  \/ \E p \in Procs : \/ ~killed[p] /\ \E k \in ReadSizes : read(p, k)
                      \/ consoleread(p) \/ kill(p) \/ exit(p)

Spec == Init /\ [][Next]_vars

-----------------------------------------------------------------------------
(* Properties *)

\* A reader sleeps on &input.r only while there is nothing entered to read,
\* however the readers and the interrupts interleave.
ReaderSleeps == \A p \in Procs : pc[p] = "sleep" => r = w /\ ~killed[p]

Abstract == INSTANCE LineFifo
  WITH Chars <- Input, Capacity <- INPUT_BUF,
       done <- Ring(r, Down(w, r)), edit <- Ring(w, Down(e, w))

\* The ring with its three indices is a queue of entered lines with one line
\* under edit behind it: nothing entered is lost, repeated, reordered or
\* edited, across the wrap of the indices and when the ring is full.
ImplementsLineFifo == Abstract!Spec
=============================================================================
