----------------------------- MODULE MCLimits -----------------------------
(* Two files; a unit of 256 MiB, in which base64 adds a third.             *)
EXTENDS SusuLimits

MCFiles == {1, 2}
MCSealed == [n \in 0..MaxSize |-> (4 * n + 2) \div 3]
===========================================================================
