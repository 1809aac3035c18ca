------------------------------- MODULE MCLane -------------------------------
(* Instances of RebuildLane for TLC. *)
EXTENDS RebuildLane, TLC

\* Callers, and options, are interchangeable.
LaneSymmetry ==
  Permutations(Caller) \cup Permutations(Options)
    \cup {p @@ q : p \in Permutations(Caller), q \in Permutations(Options)}
=============================================================================
