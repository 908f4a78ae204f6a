------------------------------ MODULE ByteFile ------------------------------
(***************************************************************************)
(* What read() and write() promise: a file is a sequence of bytes, and     *)
(* every open file has an offset that a read or a write moves on.  A write *)
(* of more than max bytes is done in pieces of max bytes, and other calls  *)
(* may come between two pieces, not inside one.                            *)
(***************************************************************************)
EXTENDS Naturals, Sequences

CONSTANTS Procs, Files, MaxSize, max

VARIABLES content,  \* the bytes of the file
          off,      \* off[f]: the offset of open file f
          got       \* what the last read returned

vars == <<content, off, got>>

Init ==
  /\ content = <<>>
  /\ off = [f \in Files |-> 0]
  /\ got = <<>>

Greater(a, b) == IF a > b THEN a ELSE b
Least(a, b) == IF a < b THEN a ELSE b

\* The bytes past the offset are replaced or appended; there are no holes.
Piece(f, n, byte) ==
  LET o == off[f]
      c == content
  IN  /\ o + n <= MaxSize
      /\ off' = [off EXCEPT ![f] = o + n]
      /\ UNCHANGED got
      /\ content' = [i \in 1..Greater(Len(c), o + n) |->
                       IF o < i /\ i <= o + n THEN byte ELSE c[i]]

Read(f, n) ==
  LET o == off[f]
      c == content
  IN  /\ off' = [off EXCEPT ![f] = Least(Len(c), o + n)]
      /\ got' = SubSeq(c, o + 1, off'[f])
      /\ content' = c

Next == \E f \in Files : \/ \E n \in 1..max, p \in Procs : Piece(f, n, p)
                         \/ \E n \in 0..MaxSize : Read(f, n)

Spec == Init /\ [][Next]_vars
=============================================================================
