-------------------------------- MODULE Fifo --------------------------------
(* What a pipe promises while it is open: the bytes its writers offer come   *)
(* out in the order they went in, those of one write() unbroken by a gap,    *)
(* none made up or repeated, and at most Capacity are held.  The end of what *)
(* a write() offers may be given up.                                         *)
EXTENDS Naturals, Sequences

CONSTANTS Bytes, Capacity, Writers

VARIABLES queue,
          offered   \* what the write() of each writer has still to put in

vars == <<queue, offered>>

From(s, k) == SubSeq(s, k + 1, Len(s))

Init == queue = <<>> /\ offered = [w \in Writers |-> <<>>]

Offer(w) ==
  /\ offered[w] = <<>>
  /\ offered'[w] \in Seq(Bytes)
  /\ offered' = [offered EXCEPT ![w] = offered'[w]]
  /\ UNCHANGED queue

Put(w) ==
  \E k \in 0..Len(offered[w]) :
    /\ queue' = queue \o SubSeq(offered[w], 1, k)
    /\ Len(queue') <= Capacity
    /\ \E rest \in {From(offered[w], k), <<>>} : offered' = [offered EXCEPT ![w] = rest]

Take ==
  /\ \E k \in 1..Len(queue) : queue' = From(queue, k)
  /\ UNCHANGED offered

Next == Take \/ \E w \in Writers : Offer(w) \/ Put(w)

Spec == Init /\ [][Next]_vars
=============================================================================
