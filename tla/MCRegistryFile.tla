--------------------------- MODULE MCRegistryFile ---------------------------
(* Instances of RegistryFile for TLC. *)
EXTENDS RegistryFile, TLC

\* Processes are interchangeable, and so are names.
Symmetry == Permutations(Procs) \cup Permutations(Names)

=============================================================================
