-------------------------- MODULE SusuDirectories --------------------------
(***************************************************************************)
(* A stored source and the directories above it: the descriptor-relative   *)
(* walk of safefs.OpenParent, and what WriteNewSource, RemoveSource and    *)
(* the manifest's Save make of it.  One add or rm of one source at a time  *)
(* (the repository is locked).  Other programs make, remove and redirect   *)
(* directories at every step, and power may be lost: an entry of a         *)
(* directory is sure to survive only when that directory has been synced.  *)
(* Staging files and file contents are the subject of SusuReplace.         *)
(***************************************************************************)
EXTENDS Naturals, Sequences, FiniteSets

CONSTANTS
    Node,       \* directories below the root; bounds how many are ever made
    Root,       \* the repository's root directory
    Outside,    \* the directory that symbolic links lead to
    Name,       \* the names in directories
    Sources,    \* stored sources: sequences of names, two at least
    Absent, Symlink, File,  \* no entry, a link to Outside, a regular file
    MaxChanges  \* bound on removals, redirections and power losses

Directory == Node \cup {Root, Outside}
Entry == Directory \cup {Absent, Symlink, File}

VARIABLES
    dir,        \* [Directory -> [Name -> Entry]]: the entries now
    disk,       \* [Directory -> [Name -> entries a power loss may leave]]
    used,       \* the nodes that have come to be
    listed,     \* the sources susu.json refers to
    listedDisk, \* the values of listed that a power loss may leave
    pc,         \* where the command is
    op,         \* what it walks to the source's directory for
    source,     \* its source
    depth,      \* components of the source opened so far
    at,         \* the descriptor of the last of them
    changes,    \* removals and redirections by other programs, and power
                \* losses (history)
    excused,    \* sources displaced by others, or removed after a failed sync
                \* of susu.json's directory (history)
    vanished    \* sources whose directory a power loss took (history)

files   == <<dir, disk, used>>
saved   == <<listed, listedDisk>>
command == <<pc, op, source, depth, at>>
history == <<changes, excused, vanished>>
vars    == <<files, saved, command, history>>

Leaf(s) == s[Len(s)]

\* Where the first i components of s lead from the root; links lead nowhere.
Way(entries, s) ==
    LET to[i \in 0 .. Len(s)] ==
            IF i = 0 THEN Root
            ELSE IF to[i - 1] \in Node \cup {Root} THEN entries[to[i - 1]][s[i]] ELSE Absent
    IN to

Walk(s) == Way(dir, s)

Parent(s) == Walk(s)[Len(s) - 1]
Stored(s) == Walk(s)[Len(s)] = File

Init ==
    /\ \E top \in Node, s \in Sources :
          /\ used = {top}
          /\ dir = [d \in Directory |-> [n \in Name |->
                       IF d = Root /\ n = Head(s) THEN top
                       ELSE IF d = Outside /\ n = Leaf(s) THEN File ELSE Absent]]
    /\ disk = [d \in Directory |-> [n \in Name |-> {dir[d][n]}]]
    /\ listed = {} /\ listedDisk = {{}}
    /\ pc = "idle" /\ op = "write" /\ source \in Sources /\ depth = 0 /\ at = Root
    /\ changes = 0 /\ excused = {} /\ vanished = {}

Goto(label) == pc' = label

Put(d, n, entry) ==
    /\ dir' = [dir EXCEPT ![d][n] = entry]
    /\ disk' = [disk EXCEPT ![d][n] = @ \cup {entry}]

\* fsync of directory d: its entries survive, whatever they are.
Sync(d) == disk' = [disk EXCEPT ![d] = [n \in Name |-> {dir[d][n]}]]

\* A directory n comes to be under name m of d.
Make(d, m, n) ==
    /\ n \in Node \ used
    /\ used' = used \cup {n}
    /\ Put(d, m, n)

-----------------------------------------------------------------------------
(* OpenParent.                                                             *)

\* The command returns and closes its descriptor.
End == Goto("idle") /\ op' = "write" /\ depth' = 0 /\ at' = Root /\ UNCHANGED source

StartWalk(operation, s) ==
    /\ Goto("walk") /\ op' = operation /\ source' = s /\ depth' = 0 /\ at' = Root

Here == dir[at][source[depth + 1]]   \* what the next component is

\* Fault: the walk opens the last component like a directory too.
ArrivedAtLeaf == depth = Len(source)

Arrived == depth = Len(source) - 1

\* Fault: openat without O_NOFOLLOW.
OpenFollowing ==
    /\ pc \in {"walk", "reopen"} /\ ~Arrived
    /\ Here \in Directory \cup {Symlink}
    /\ at' = IF Here = Symlink THEN Outside ELSE Here
    /\ depth' = depth + 1 /\ Goto("walk")
    /\ UNCHANGED <<files, saved, op, source, history>>

\* openat(O_DIRECTORY|O_NOFOLLOW) below the descriptor opened last.
Open ==
    /\ pc \in {"walk", "reopen"} /\ ~Arrived
    /\ Here \in Directory
    /\ at' = Here /\ depth' = depth + 1 /\ Goto("walk")
    /\ UNCHANGED <<files, saved, op, source, history>>

\* ENOENT: only WriteNewSource asks for missing directories.
Missing ==
    /\ pc = "walk" /\ ~Arrived
    /\ Here = Absent /\ op = "write"
    /\ Goto("mkdir")
    /\ UNCHANGED <<files, saved, op, source, depth, at, history>>

\* mkdirat; somebody else may have been faster (EEXIST).
Mkdir ==
    /\ pc = "mkdir"
    /\ IF Here = Absent
         THEN \E n \in Node : Make(at, source[depth + 1], n)
         ELSE UNCHANGED files
    /\ Goto("reopen")
    /\ UNCHANGED <<saved, op, source, depth, at, history>>

\* The component is a link or a file, or is missing and not to be made, or
\* missing again right after it was made.
Blocked ==
    /\ pc \in {"walk", "reopen"} /\ ~Arrived
    /\ \/ Here \in {Symlink, File}
       \/ Here = Absent /\ (op # "write" \/ pc = "reopen")
    /\ End
    /\ UNCHANGED <<files, saved, history>>

-----------------------------------------------------------------------------
(* add of one new source: WriteNewSource, then Save.                       *)

BeginAdd(s) ==
    /\ pc = "idle" /\ s \notin listed
    /\ StartWalk("write", s)
    /\ UNCHANGED <<files, saved, history>>

\* The complete and synced staging file is linked; nothing is replaced.
Link ==
    /\ pc = "walk" /\ Arrived /\ op = "write"
    /\ IF Here = Absent
         THEN /\ Put(at, Leaf(source), File)
              /\ Goto("linked") /\ UNCHANGED <<used, op, source, depth, at>>
         ELSE End /\ UNCHANGED files
    /\ UNCHANGED <<saved, history>>

\* Fault: the directory of the new source is not synced.
SyncSourceSkipped ==
    /\ pc = "linked"
    /\ Goto("commit")
    /\ UNCHANGED <<files, saved, op, source, depth, at, history>>

\* The staging name is unlinked, and the directory is synced: the directory
\* itself, and none of those above it that Mkdir made.
SyncSource ==
    /\ pc = "linked"
    /\ Sync(at) /\ Goto("commit")
    /\ UNCHANGED <<dir, used, saved, op, source, depth, at, history>>

\* The unlink or the sync fails: the leaf is removed by name, if that works.
LinkUndone ==
    /\ pc = "linked"
    /\ \/ Here \notin Directory /\ Put(at, Leaf(source), Absent) /\ UNCHANGED used
       \/ UNCHANGED files
    /\ End
    /\ UNCHANGED <<saved, history>>

Save(sources) ==
    /\ listed' = sources
    /\ listedDisk' = listedDisk \cup {sources}

\* The new susu.json is renamed into place.
CommitAddition ==
    /\ pc = "commit" /\ op = "write"
    /\ Save(listed \cup {source}) /\ Goto("committed")
    /\ UNCHANGED <<files, op, source, depth, at, history>>

\* Save fails before its rename, or the preflight before it does: the rollback
\* of add removes the new source.
CommitFails ==
    /\ pc = "commit" /\ op = "write"
    /\ StartWalk("remove", source)
    /\ UNCHANGED <<files, saved, history>>

\* After the commit rm goes on to delete, and add is done.
Committed == IF op = "inspect" THEN StartWalk("remove", source)
             ELSE End

\* The root directory is synced: susu.json, and its other entries with it.
SyncManifest ==
    /\ pc = "committed"
    /\ Sync(Root) /\ listedDisk' = {listed}
    /\ Committed
    /\ UNCHANGED <<dir, used, listed, history>>

\* ErrCommitted: rm goes on to delete although the old susu.json may return,
\* add keeps its new source.
SyncManifestFails ==
    /\ pc = "committed"
    /\ excused' = IF op = "inspect" THEN excused \cup {source} ELSE excused
    /\ Committed
    /\ UNCHANGED <<files, saved, changes, vanished>>

-----------------------------------------------------------------------------
(* rm of one source: OpenSource, Save, RemoveSource.                       *)

BeginRemove(s) ==
    /\ pc = "idle" /\ s \in listed
    /\ StartWalk("inspect", s)
    /\ UNCHANGED <<files, saved, history>>

\* OpenRegular of the leaf, without following a link.
Inspect ==
    /\ pc = "walk" /\ Arrived /\ op \in {"inspect", "remove"}
    /\ IF Here = File
         THEN /\ Goto(IF op = "remove" THEN "unlink" ELSE "commit")
              /\ UNCHANGED <<op, source, depth, at>>
         ELSE End
    /\ UNCHANGED <<files, saved, history>>

CommitRemoval ==
    /\ pc = "commit" /\ op = "inspect"
    /\ \/ /\ Save(listed \ {source})
          /\ Goto("committed") /\ UNCHANGED <<op, source, depth, at>>
       \/ End /\ UNCHANGED saved
    /\ UNCHANGED <<files, history>>

\* Whatever has the name by now, unless it is a directory or gone.
Unlink ==
    /\ pc = "unlink"
    /\ IF Here \in {File, Symlink}
         THEN /\ Put(at, Leaf(source), Absent)
              /\ Goto("unlinked") /\ UNCHANGED <<used, op, source, depth, at>>
         ELSE End /\ UNCHANGED files
    /\ UNCHANGED <<saved, history>>

SyncRemoval ==
    /\ pc = "unlinked"
    /\ \/ Sync(at)
       \/ UNCHANGED disk
    /\ End
    /\ UNCHANGED <<dir, used, saved, history>>

-----------------------------------------------------------------------------
(* Everybody else.  What they do off the way to any source is left out.    *)

\* Sources that lie under entry n of d.
Under(d, n) == {s \in Sources : \E i \in 1 .. Len(s) : Walk(s)[i - 1] = d /\ s[i] = n}

\* Another program, git for one, makes a directory; it does not sync either.
OthersMake ==
    \E d \in used \cup {Root}, m \in Name, n \in Node :
        /\ dir[d][m] = Absent /\ Under(d, m) # {}
        /\ Make(d, m, n)
        /\ UNCHANGED <<saved, command, history>>

\* Another program moves an entry away, and may leave a link in its place.
Displace ==
    \E d \in used \cup {Root}, n \in Name, entry \in {Absent, Symlink} :
        /\ changes < MaxChanges
        /\ dir[d][n] # entry /\ Under(d, n) # {}
        /\ Put(d, n, entry)
        /\ changes' = changes + 1
        /\ excused' = excused \cup Under(d, n)
        /\ UNCHANGED <<used, saved, command, vanished>>

Kill ==
    /\ pc # "idle"
    /\ End
    /\ UNCHANGED <<files, saved, history>>

Unsettled == {e \in Directory \X Name : disk[e[1]][e[2]] # {dir[e[1]][e[2]]}}

\* Each entry that was not synced may be any it has been since.
PowerLoss ==
    /\ changes < MaxChanges /\ changes' = changes + 1
    /\ \E left \in [Unsettled -> UNION {disk[e[1]][e[2]] : e \in Unsettled}] :
          /\ \A e \in Unsettled : left[e] \in disk[e[1]][e[2]]
          /\ dir' = [d \in Directory |-> [n \in Name |->
                        IF <<d, n>> \in Unsettled THEN left[<<d, n>>] ELSE dir[d][n]]]
    /\ disk' = [d \in Directory |-> [n \in Name |-> {dir'[d][n]}]]
    /\ listed' \in listedDisk /\ listedDisk' = {listed'}
    /\ vanished' = vanished \cup {s \in Sources : Parent(s)' \notin Node}
    /\ End
    /\ UNCHANGED <<used, excused>>

Next ==
    \/ \E s \in Sources : BeginAdd(s) \/ BeginRemove(s)
    \/ Open \/ Missing \/ Mkdir \/ Blocked
    \/ Link \/ SyncSource \/ LinkUndone
    \/ CommitAddition \/ CommitFails \/ SyncManifest \/ SyncManifestFails
    \/ Inspect \/ CommitRemoval \/ Unlink \/ SyncRemoval
    \/ OthersMake \/ Displace \/ Kill \/ PowerLoss

Spec == Init /\ [][Next]_vars

-----------------------------------------------------------------------------
(* Properties.                                                             *)

\* Descriptors are directories of the repository and what is on disk may be
\* what is in memory.
TypeOK ==
    /\ dir \in [Directory -> [Name -> Entry]]
    /\ disk \in [Directory -> [Name -> SUBSET Entry]]
    /\ used \subseteq Node
    /\ listed \subseteq Sources /\ listedDisk \subseteq SUBSET Sources
    /\ pc \in {"idle", "walk", "mkdir", "reopen", "linked", "commit", "committed",
               "unlink", "unlinked"}
    /\ op \in {"write", "inspect", "remove"}
    /\ source \in Sources
    /\ depth \in 0 .. Len(source) - 1
    /\ at \in Directory
    /\ changes \in 0 .. MaxChanges
    /\ excused \subseteq Sources /\ vanished \subseteq Sources
    /\ \A d \in Directory, n \in Name : dir[d][n] \in disk[d][n]

\* Whatever links appear on the way and whenever, no add or rm makes, links or
\* unlinks anything in a directory outside the repository (O_NOFOLLOW at every
\* component, relative to the descriptor of the one before).
StaysInside == [][dir'[Outside] = dir[Outside]]_vars

\* susu.json refers to no source that is missing, unless another program
\* displaced it or a power loss took its whole directory: where the directory
\* survives, the source does, for its link was synced before susu.json could
\* refer to it.
NoDangling == \A s \in listed \ (excused \cup vanished) : Stored(s)
=============================================================================
