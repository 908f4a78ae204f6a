------------------------------ MODULE MCTimes ------------------------------
(* Instances of the time records for TLC. *)
EXTENDS Times
=============================================================================
