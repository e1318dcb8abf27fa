----------------------------- MODULE MCDiskWriter -----------------------------
(* Bounded instances of DiskWriter for TLC. *)
EXTENDS DiskWriterInvariant, TLC

Symmetry == Permutations(Tasks) \cup Permutations(Chunks)
===============================================================================
