------------------------------ MODULE MCLocks ------------------------------
(* Small instances of SusuLocks. *)
EXTENDS SusuLocks

CONSTANTS p1, p2, p3, homeA, homeB, main, linked, other, gitX, gitY

\* Two processes of one installation and one of another.
MCHome == [p \in Process |-> IF p = p3 THEN homeB ELSE homeA]

\* A worktree and its linked worktree share a Git common directory.
MCCommon == [r \in Root |-> IF r = other THEN gitY ELSE gitX]

\* homeB lies inside the linked worktree.
MCOutside == (StateHome \X Root) \ {<<homeB, linked>>}
=============================================================================
