----------------------------- MODULE SusuSerial -----------------------------
(***************************************************************************)
(* What susu's locking promises its user, with no lock in sight: every     *)
(* command behaves as if it ran alone.  A repository's manifest comes into *)
(* being once, a command's change is added to the manifest as it stands at *)
(* that moment, and it goes to the repository its installation is bound to *)
(* at that moment.                                                         *)
(*                                                                         *)
(* SusuLocks implements this specification (SusuLocks!Serial).             *)
(***************************************************************************)
CONSTANTS Process,    \* invocations of the susu command
          StateHome,  \* installations: XDG state homes, each with one binding
          Root,       \* canonical Git worktree roots
          Home,       \* the installation each process runs under
          Outside,    \* <<home, root>> pairs whose directories do not overlap
          Absent,     \* the manifest of a worktree susu was never run in
          Unbound     \* the binding of an installation without a state file

VARIABLES manifest,   \* [Root -> Absent or the set of changes it contains]
          binding     \* [StateHome -> Root or Unbound]

svars == <<manifest, binding>>

Init ==
    /\ manifest \in [Root -> {Absent, {}}]
    /\ binding \in [StateHome -> Root \cup {Unbound}]

\* An empty manifest appears where there was none.
Scaffold(r) ==
    /\ manifest[r] = Absent
    /\ manifest' = [manifest EXCEPT ![r] = {}]
    /\ UNCHANGED binding

\* An installation is bound to a repository that has a manifest.
Bind(h, r) ==
    /\ manifest[r] # Absent
    /\ <<h, r>> \in Outside
    /\ binding' = [binding EXCEPT ![h] = r]
    /\ UNCHANGED manifest

\* One command's change is added, and nothing that was there is lost.
Commit(p, r) ==
    /\ manifest[r] # Absent
    /\ binding[Home[p]] = r
    /\ manifest' = [manifest EXCEPT ![r] = @ \cup {p}]
    /\ UNCHANGED binding

Next ==
    \/ \E r \in Root : Scaffold(r)
    \/ \E h \in StateHome, r \in Root : Bind(h, r)
    \/ \E p \in Process, r \in Root : Commit(p, r)

Spec == Init /\ [][Next]_svars
=============================================================================
