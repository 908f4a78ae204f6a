------------------------------- MODULE Mutex -------------------------------
(* What acquiresleep() and releasesleep() promise: one holder at a time,    *)
(* and only the holder gives the lock up.                                   *)
CONSTANTS Procs, NoProc

VARIABLE holder

Init == holder = NoProc

Acquire(p) == holder = NoProc /\ holder' = p

Release(p) == holder = p /\ holder' = NoProc

Next == \E p \in Procs : Acquire(p) \/ Release(p)

Spec == Init /\ [][Next]_holder
=============================================================================
