--------------------------- MODULE MCOfflineSync ---------------------------
(* Finite instances of OfflineSync. *)
EXTENDS OfflineSync, TLC

Symmetric == Permutations(Changes) \cup Permutations(Runs) \cup Permutations(Slots)

=============================================================================
