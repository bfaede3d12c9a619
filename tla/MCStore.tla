------------------------------ MODULE MCStore ------------------------------
(* Small instances of SusuStore. *)
EXTENDS SusuStore, TLC

Symmetry == Permutations(Key) \cup Permutations(Data)
=============================================================================
