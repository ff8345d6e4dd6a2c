------------------------------ MODULE MCKernel ------------------------------
(* Small instances of Kernel for TLC. *)
EXTENDS Kernel, TLC

\* Nothing in the specification tells one process id from another.
IdSymmetry == Permutations(Id)

=============================================================================
