----------------------------- MODULE MCWatcher -----------------------------
(* Instances of WatcherBridge for TLC. *)
EXTENDS WatcherBridge, TLC

\* Objects and callers are interchangeable.
Symmetry == Permutations(Slot) \cup Permutations(Caller)
              \cup {p @@ q : p \in Permutations(Slot), q \in Permutations(Caller)}
=============================================================================
