------------------------------ MODULE MCApply ------------------------------
(* Small instances of SusuApply. *)
EXTENDS SusuApply
=============================================================================
