------------------------------ MODULE MCSyncer ------------------------------
(* Model-checking instances of Syncer.                                     *)
EXTENDS Syncer, TLC

Symmetric == Permutations(Backend) \cup Permutations(Hash) \cup Permutations(Val)
=============================================================================
