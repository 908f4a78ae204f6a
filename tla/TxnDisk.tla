------------------------------ MODULE TxnDisk ------------------------------
(***************************************************************************)
(* What the logging layer of log.c promises to the file system above it:   *)
(* a disk whose blocks change by transactions.                             *)
(*                                                                         *)
(* Operations (FS system calls between begin_op() and end_op()) change     *)
(* the contents mem that every process sees.  The durable contents dur     *)
(* move to mem in one step, and only while no operation is active: a       *)
(* commit never holds half of an operation.  A crash takes the system back *)
(* to the last commit.                                                     *)
(***************************************************************************)
CONSTANTS Procs,    \* processes that run operations
          Blocks,   \* home block numbers
          Data      \* contents of a block

VARIABLES mem,      \* contents as seen through the buffer cache
          dur,      \* contents a crash leaves
          active    \* processes between begin_op() and end_op()

vars == <<mem, dur, active>>

Init ==
  /\ mem \in [Blocks -> Data]
  /\ dur = mem
  /\ active = {}

Begin(p) ==
  /\ p \notin active
  /\ active' = active \cup {p}
  /\ UNCHANGED <<mem, dur>>

Write(p, b, d) ==
  /\ p \in active
  /\ mem' = [mem EXCEPT ![b] = d]
  /\ UNCHANGED <<dur, active>>

End(p) ==
  /\ p \in active
  /\ active' = active \ {p}
  /\ UNCHANGED <<mem, dur>>

Commit ==
  /\ active = {}
  /\ dur' = mem
  /\ UNCHANGED <<mem, active>>

Crash ==
  /\ mem' = dur
  /\ active' = {}
  /\ UNCHANGED dur

Next ==
  \/ \E p \in Procs : Begin(p) \/ End(p) \/ (\E b \in Blocks, d \in Data : Write(p, b, d))
  \/ Commit
  \/ Crash

Spec == Init /\ [][Next]_vars
=============================================================================
