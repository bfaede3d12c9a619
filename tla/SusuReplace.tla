----------------------------- MODULE SusuReplace -----------------------------
(***************************************************************************)
(* How one file is put in place of another (app.atomicReplaceRooted, used  *)
(* by apply for destinations and by add for updated sources): a staging    *)
(* file with a random name in the destination's directory is written,      *)
(* synced, closed and renamed over the destination, and the directory is   *)
(* synced.                                                                 *)
(*                                                                         *)
(* Several writers may replace the same destination at once: installations *)
(* bound to different repositories share a home directory and no lock.     *)
(* Other programs create and delete files of their own in the directory    *)
(* and may replace the destination.  Files are named by who made them.     *)
(***************************************************************************)
CONSTANTS Writer,     \* calls of atomicReplaceRooted
          Leaf,       \* the destination's name
          TempName,   \* the staging names the random source may produce
          Old,        \* the file the destination was before
          Foreign,    \* a file of another program
          None        \* no file under a name

ASSUME ReplaceAssumption ==
    /\ Leaf \notin TempName
    /\ Writer \cap {Old, Foreign, None} = {}
    /\ Old # Foreign /\ Old # None /\ Foreign # None

Name == TempName \cup {Leaf}
File == Writer \cup {Old, Foreign}

VARIABLES
    dir,       \* [Name -> File or None]: the directory now
    dirDisk,   \* [Name -> what the name may refer to after a power loss]
    data,      \* [Writer -> how much of its content is in the file]
    dataDisk,  \* [Writer -> how much of it may be left after a power loss]
    pc,        \* where each writer is
    temp,      \* the staging name each writer created, or None
    committed, \* the first result of each writer's call
    failed,    \* whether its second result is an error
    residue    \* writers whose staging file is known to be left (history)

vars == <<dir, dirDisk, data, dataDisk, pc, temp, committed, failed, residue>>

Ended == {"returned", "killed"}

Init ==
    /\ dir \in {[n \in Name |-> IF n = Leaf THEN f ELSE None] : f \in {Old, None}}
    /\ dirDisk = [n \in Name |-> {dir[n]}]
    /\ data = [w \in Writer |-> "empty"]
    /\ dataDisk = [w \in Writer |-> {"empty"}]
    /\ pc = [w \in Writer |-> "create"]
    /\ temp = [w \in Writer |-> None]
    /\ committed = [w \in Writer |-> FALSE]
    /\ failed = [w \in Writer |-> FALSE]
    /\ residue = {}

At(w, l)   == pc[w] = l
Goto(w, l) == pc' = [pc EXCEPT ![w] = l]

\* The name n refers to f from now on; the change is not on disk yet.
Refer(n, f) ==
    /\ dir' = [dir EXCEPT ![n] = f]
    /\ dirDisk' = [dirDisk EXCEPT ![n] = @ \cup {f}]

-----------------------------------------------------------------------------
\* MkdirAll, OpenParent or CreateTempExcluding fails.
OpenFails(w) ==
    /\ At(w, "create")
    /\ failed' = [failed EXCEPT ![w] = TRUE]
    /\ Goto(w, "returned")
    /\ UNCHANGED <<dir, dirDisk, data, dataDisk, temp, committed, residue>>

\* O_EXCL: a name that is taken is tried no further.
CreateTemp(w) ==
    /\ At(w, "create")
    /\ \E n \in TempName :
          /\ dir[n] = None
          /\ Refer(n, w)
          /\ temp' = [temp EXCEPT ![w] = n]
    /\ Goto(w, "write")
    /\ UNCHANGED <<data, dataDisk, committed, failed, residue>>

\* Some of the content, then the rest; either write may be the last.
Write(w) ==
    /\ At(w, "write")
    /\ data' = [data EXCEPT ![w] = IF @ = "empty" THEN "part" ELSE "full"]
    /\ dataDisk' = [dataDisk EXCEPT ![w] = @ \cup {data'[w]}]
    /\ Goto(w, IF data'[w] = "full" THEN "sync" ELSE "write")
    /\ UNCHANGED <<dir, dirDisk, temp, committed, failed, residue>>

\* Fault: the file is renamed without having been synced.
SyncFileSkipped(w) ==
    /\ At(w, "sync")
    /\ Goto(w, "rename")
    /\ UNCHANGED <<dir, dirDisk, data, dataDisk, temp, committed, failed, residue>>

\* fsync of the file; close follows and changes nothing.
SyncFile(w) ==
    /\ At(w, "sync")
    /\ dataDisk' = [dataDisk EXCEPT ![w] = {data[w]}]
    /\ Goto(w, "rename")
    /\ UNCHANGED <<dir, dirDisk, data, temp, committed, failed, residue>>

\* write, sync, close or rename fails and the deferred clean-up follows; or the
\* chmod right after the creation fails and createTemp itself cleans up.
StageFails(w) ==
    /\ pc[w] \in {"write", "sync", "rename"}
    /\ failed' = [failed EXCEPT ![w] = TRUE]
    /\ Goto(w, "cleanup")
    /\ UNCHANGED <<dir, dirDisk, data, dataDisk, temp, committed, residue>>

\* Fault: the staging name is still cleaned up after the rename.
RenameKeepsOwnership(w) ==
    /\ At(w, "rename")
    /\ dir' = [dir EXCEPT ![Leaf] = w, ![temp[w]] = None]
    /\ dirDisk' = [dirDisk EXCEPT ![Leaf] = @ \cup {w}, ![temp[w]] = @ \cup {None}]
    /\ committed' = [committed EXCEPT ![w] = TRUE]
    /\ Goto(w, "cleanup")
    /\ UNCHANGED <<data, dataDisk, temp, failed, residue>>

\* renameat, from where on the call has committed and owns no staging name.
Rename(w) ==
    /\ At(w, "rename")
    /\ dir' = [dir EXCEPT ![Leaf] = w, ![temp[w]] = None]
    /\ dirDisk' = [dirDisk EXCEPT ![Leaf] = @ \cup {w}, ![temp[w]] = @ \cup {None}]
    /\ committed' = [committed EXCEPT ![w] = TRUE]
    /\ temp' = [temp EXCEPT ![w] = None]
    /\ Goto(w, "syncDirectory")
    /\ UNCHANGED <<data, dataDisk, failed, residue>>

\* Fault: the error of the directory sync is dropped.
SyncDirectoryIgnored(w) ==
    /\ At(w, "syncDirectory")
    /\ Goto(w, "returned")
    /\ UNCHANGED <<dir, dirDisk, data, dataDisk, temp, committed, failed, residue>>

\* fsync of the directory: every name in it is on disk as it is now; or it
\* fails and is reported although the destination was replaced.
SyncDirectory(w) ==
    /\ At(w, "syncDirectory")
    /\ \/ /\ dirDisk' = [n \in Name |-> {dir[n]}]
          /\ UNCHANGED failed
       \/ /\ failed' = [failed EXCEPT ![w] = TRUE]
          /\ UNCHANGED dirDisk
    /\ Goto(w, "returned")
    /\ UNCHANGED <<dir, data, dataDisk, temp, committed, residue>>

\* Fault: a failed call leaves its staging file behind.
CleanupForgotten(w) ==
    /\ At(w, "cleanup")
    /\ Goto(w, "returned")
    /\ UNCHANGED <<dir, dirDisk, data, dataDisk, temp, committed, failed, residue>>

\* The deferred unlink of exactly the name that was created; its error is
\* ignored.
Cleanup(w) ==
    /\ At(w, "cleanup")
    /\ \/ /\ Refer(temp[w], None)
          /\ UNCHANGED residue
       \/ /\ residue' = residue \cup {w}
          /\ UNCHANGED <<dir, dirDisk>>
    /\ Goto(w, "returned")
    /\ UNCHANGED <<data, dataDisk, temp, committed, failed>>

Step(w) ==
    \/ OpenFails(w) \/ CreateTemp(w) \/ Write(w) \/ SyncFile(w) \/ StageFails(w)
    \/ Rename(w) \/ SyncDirectory(w) \/ Cleanup(w)

-----------------------------------------------------------------------------
\* Another program creates a file under a free name, or replaces the
\* destination; it deletes what is its own.  It leaves names in use alone.
ForeignCreate(n) ==
    /\ dir[n] = None \/ n = Leaf
    /\ Refer(n, Foreign)
    /\ UNCHANGED <<data, dataDisk, pc, temp, committed, failed, residue>>

ForeignRemove(n) ==
    /\ dir[n] = Foreign
    /\ Refer(n, None)
    /\ UNCHANGED <<data, dataDisk, pc, temp, committed, failed, residue>>

\* One writer's process is killed.
Kill(w) ==
    /\ pc[w] \notin Ended
    /\ Goto(w, "killed")
    /\ residue' = residue \cup {w}
    /\ UNCHANGED <<dir, dirDisk, data, dataDisk, temp, committed, failed>>

\* Every call has ended.
AllEnded ==
    /\ \A w \in Writer : pc[w] \in Ended
    /\ UNCHANGED vars

Next ==
    \/ \E w \in Writer : Step(w) \/ Kill(w)
    \/ \E n \in Name : ForeignCreate(n) \/ ForeignRemove(n)
    \/ AllEnded

Spec == Init /\ [][Next]_vars

-----------------------------------------------------------------------------
TypeOK ==
    /\ dir \in [Name -> File \cup {None}]
    /\ dirDisk \in [Name -> SUBSET (File \cup {None})]
    /\ data \in [Writer -> {"empty", "part", "full"}]
    /\ dataDisk \in [Writer -> SUBSET {"empty", "part", "full"}]
    /\ pc \in [Writer -> {"create", "write", "sync", "rename", "syncDirectory",
                          "cleanup"} \cup Ended]
    /\ temp \in [Writer -> TempName \cup {None}]
    /\ \A w \in Writer : pc[w] \in {"write", "sync", "rename"}
                            => dir[temp[w]] = w
    /\ committed \in [Writer -> BOOLEAN]
    /\ failed \in [Writer -> BOOLEAN]
    /\ residue \subseteq Writer

\* Whoever reads the destination, now or after a power loss at any moment, finds
\* a whole file: what was there before, or everything some call meant to write.
DestinationIsWhole ==
    /\ \A w \in Writer : dir[Leaf] = w => data[w] = "full"
    /\ \A w \in Writer : w \in dirDisk[Leaf] => dataDisk[w] = {"full"}

\* The results tell what happened: a call that says it did not commit has never
\* been visible under the destination's name and cannot come back; one that says
\* so without an error has made sure the old file cannot come back.
ResultsHonest ==
    \A w \in Writer : pc[w] = "returned" =>
        /\ ~committed[w] => failed[w] /\ w \notin dirDisk[Leaf]
        /\ committed[w] /\ ~failed[w] => Old \notin dirDisk[Leaf]

\* A call removes from the directory nothing but its own staging file: not
\* another call's, and not a file that someone created under a staging name.
OnlyOwnStagingRemoved ==
    [][\A w \in Writer, n \in TempName :
          Step(w) /\ dir[n] \notin {w, None} => dir'[n] = dir[n]]_vars

\* A staging file, which may hold plaintext, outlives its call only where the
\* unlink failed or the process was killed.
NoSilentResidue ==
    \A w \in Writer :
        pc[w] = "returned" /\ (\E n \in TempName : dir[n] = w) => w \in residue
=============================================================================
