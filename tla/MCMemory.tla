------------------------------ MODULE MCMemory ------------------------------
(* Small instances of Memory for TLC. *)
EXTENDS Memory, TLC

\* Nothing in the specification tells one process id from another.
IdSymmetry == Permutations(Id)

\* No action reads what the sections hold; only LoadedInPlace does.
AllButContent ==
  <<slots, table, procs, started, stale, physical, maps, current, load, lost, cpu>>

=============================================================================
