------------------------------ MODULE LineFifo ------------------------------
(***************************************************************************)
(* What the console promises to its readers: the line that is being typed  *)
(* can be edited, a line that was entered cannot, and entered characters   *)
(* reach the readers once each and in order.  An end of file is never      *)
(* delivered as a character: it ends the read of someone who got nothing.  *)
(***************************************************************************)
EXTENDS Integers, Sequences

CONSTANTS Procs, Chars, NL, EOF, Capacity

VARIABLES
  done,   \* entered and not read yet
  edit,   \* the line being typed
  got     \* what a reader has received in its call

vars == <<done, edit, got>>

Init == done = <<>> /\ edit = <<>> /\ got = [p \in Procs |-> <<>>]

\* A character is typed; one that ends a line, or takes the last room, enters it.
Type(c) ==
  /\ UNCHANGED got
  /\ LET line == Append(edit, c)
         room == Capacity - Len(done) - Len(line)
     IN /\ room >= 0
        /\ IF c \in {NL, EOF} \/ room = 0
           THEN edit' = <<>> /\ done' = done \o line
           ELSE edit' = line /\ UNCHANGED done

\* The last character or the whole line is erased.
Erase ==
  /\ UNCHANGED got /\ edit' \in {<<>>, SubSeq(edit, 1, Len(edit) - 1)} /\ UNCHANGED done

Call(p) == got' = [got EXCEPT ![p] = <<>>] /\ UNCHANGED <<done, edit>>

\* A reader receives a part of one line.
Take(p) ==
  \E k \in 1..Capacity :
    LET all == done
        part == SubSeq(all, 1, k)
    IN /\ k <= Len(all) /\ got' = [got EXCEPT ![p] = @ \o part]
       /\ \A i \in 1..k : part[i] # EOF /\ (i < k => part[i] # NL)
       /\ done' = SubSeq(all, k + 1, Len(all)) /\ UNCHANGED edit

TakeEOF(p) ==
  /\ UNCHANGED got /\ got[p] = <<>>
  /\ done # <<>> /\ Head(done) = EOF /\ done' = Tail(done) /\ UNCHANGED edit

Next ==
  \/ \E c \in Chars : Type(c)
  \/ Erase
  \/ \E p \in Procs : Call(p) \/ TakeEOF(p) \/ Take(p)

Spec == Init /\ [][Next]_vars
=============================================================================
