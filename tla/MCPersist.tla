----------------------------- MODULE MCPersist -----------------------------
(* Instances of PersistTransaction for TLC. *)
EXTENDS PersistTransaction
=============================================================================
