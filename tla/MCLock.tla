------------------------------- MODULE MCLock -------------------------------
(* Instances of IndexWriteLock for TLC. *)
EXTENDS IndexWriteLock, TLC

Symmetry == Permutations(Rebuilder)
=============================================================================
