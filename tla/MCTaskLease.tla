---------------------------- MODULE MCTaskLease ----------------------------
(* Instances of TaskLease for TLC. *)
EXTENDS TaskLease, TLC
=============================================================================
