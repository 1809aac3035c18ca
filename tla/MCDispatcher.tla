---------------------------- MODULE MCDispatcher ----------------------------
(* Instances of RebuildDispatcher for TLC. *)
EXTENDS RebuildDispatcher, TLC

CONSTANTS ka, s1, s2, l1

\* One workspace; with two slot objects an unload and a reload give the key
\* a second one while a runner still holds the first.
OneSlotKeyOf     == s1 :> ka
TwoSlotsKeyOf    == s1 :> ka @@ s2 :> ka
OneLoaderKey     == l1 :> ka

\* Requests and graphs are interchangeable.
RunnerSymmetry ==
  Permutations(Runner) \cup Permutations(Graph)
    \cup {p @@ q : p \in Permutations(Runner), q \in Permutations(Graph)}
=============================================================================
