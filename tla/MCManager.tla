------------------------------ MODULE MCManager ------------------------------
(* Instances of WorkspaceManager for TLC. *)
EXTENDS WorkspaceManager, TLC

CONSTANTS ka, kb, s1, s2, l1, l2

\* Two workspaces, one slot and one loader each: loads, evictions and
\* publications of different slots meet in the ledger.
TwoKeysKeyOf     == s1 :> ka @@ s2 :> kb
TwoKeysLoaderKey == l1 :> ka @@ l2 :> kb

\* One workspace with two objects and two loaders: an unload and a reload
\* give the key a second object, and two loads may race on one slot.
OneKeyKeyOf      == s1 :> ka @@ s2 :> ka
OneKeyLoaderKey  == l1 :> ka @@ l2 :> ka
OneSlotKeyOf     == s1 :> ka
OneLoaderKey     == l1 :> ka

GraphSymmetry == Permutations(Graph)

\* The two workspaces of the first instance are interchangeable, each with
\* its slot and its loader.
Exchange == ka :> kb @@ kb :> ka @@ s1 :> s2 @@ s2 :> s1 @@ l1 :> l2 @@ l2 :> l1
TwoKeysSymmetry ==
  GraphSymmetry \cup {Exchange @@ p : p \in GraphSymmetry}

\* Two loaders of one key are interchangeable.
OneKeySymmetry ==
  Permutations(Loader) \cup {q @@ p : p \in GraphSymmetry, q \in Permutations(Loader)}
=============================================================================
