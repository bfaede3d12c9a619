----------------------------- MODULE MCReplace -----------------------------
(* Small instances of SusuReplace. *)
EXTENDS SusuReplace, TLC

Symmetry == Permutations(Writer) \cup Permutations(TempName)
=============================================================================
