---------------------------- MODULE MCLifecycle ----------------------------
(* Instances of Lifecycle for TLC. *)
EXTENDS Lifecycle, TLC

\* Commands are interchangeable.
Symmetry == Permutations(Clis) \cup Permutations(Profiles)
=============================================================================
