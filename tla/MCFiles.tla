------------------------------ MODULE MCFiles ------------------------------
(***************************************************************************)
(* The files susu keeps for itself: the local binding, and the stored      *)
(* sources with the directories above them.  The two share neither files   *)
(* nor locks, so a behaviour is one of either part while the other rests.  *)
(* In the first, two saves race with a lockless reader, staging names may  *)
(* be used again, and one of the two paths is not valid UTF-8; in the      *)
(* second, two sources share a subdirectory.                               *)
(***************************************************************************)
EXTENDS SusuBinding, Sequences, TLC

CONSTANTS
    w1, w2, r1, n1, n2, a, b,
    Node, Root, Outside, Absent, Symlink, File, Name, Sources, MaxChanges

(* Directories, and what else an entry may be, are different things; a     *)
(* source is in a directory of its own.                                    *)
ASSUME DirectoriesAssumption ==
    /\ Root \notin Node /\ Outside \notin Node \cup {Root}
    /\ (Node \cup {Root, Outside}) \cap {Absent, Symlink, File} = {}
    /\ Absent # Symlink /\ Absent # File /\ Symlink # File
    /\ Sources \subseteq Seq(Name) /\ \A s \in Sources : Len(s) >= 2
    /\ MaxChanges \in Nat

MCWriters == {w1, w2}
MCReaders == {r1}
MCNames == {n1, n2}
MCRepos == {a, b}
MCRaw == {a}

MCName == {"public", "a", "f", "g"}
MCSources == {<<"public", "a", "f">>, <<"public", "a", "g">>}

VARIABLES
    part,   \* the part that runs
    tree, survives, used, listed, listedDisk, pc, op, source, depth, descriptor,
    changes, excused, vanished

stored == <<tree, survives, used, listed, listedDisk, pc, op, source, depth,
            descriptor, changes, excused, vanished>>

Stored == INSTANCE SusuDirectories
    WITH dir <- tree, disk <- survives, at <- descriptor

DirectoriesRest ==
    /\ tree = [d \in Stored!Directory |-> [n \in Name |-> Absent]]
    /\ survives = [d \in Stored!Directory |-> [n \in Name |-> {Absent}]]
    /\ used = {} /\ listed = {} /\ listedDisk = {{}}
    /\ pc = "idle" /\ op = "write" /\ source = CHOOSE s \in Sources : TRUE
    /\ depth = 0 /\ descriptor = Root
    /\ changes = 0 /\ excused = {} /\ vanished = {}

MCInit ==
    /\ Init
    /\ \/ part = "binding" /\ DirectoriesRest
       \/ part = "directories" /\ Stored!Init

MCNext ==
    \/ part = "binding" /\ Next /\ UNCHANGED <<part, stored>>
    \/ part = "directories" /\ Stored!Next /\ UNCHANGED <<part, vars>>

MCSpec == MCInit /\ [][MCNext]_<<part, vars, stored>>

MCSymmetry == Permutations(MCWriters) \union Permutations(MCNames)
              \union Permutations(Node)

-----------------------------------------------------------------------------
(* Types of the part that runs; the state lock is held by the writer that  *)
(* runs.                                                                   *)
TypesOK == IF part = "binding" THEN TypeOK ELSE Stored!TypeOK

(* No entry of susu.json is without its source, unless another program     *)
(* displaced it or a power loss took its whole directory.                  *)
NoDanglingSource == Stored!NoDangling

(* Whatever links appear on the way and whenever, no add or rm makes,      *)
(* links or unlinks anything outside the repository.                       *)
StaysInside == Stored!StaysInside
============================================================================
