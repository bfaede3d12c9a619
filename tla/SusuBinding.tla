---------------------------- MODULE SusuBinding ----------------------------
(***************************************************************************)
(* How state.Store keeps the local binding: Save stages a file, syncs and  *)
(* renames it and syncs the directory, under the state lock; Load reads    *)
(* without the lock when a command starts.  Writers fail at any call and   *)
(* are killed at any moment, and the power fails.                          *)
(*                                                                         *)
(* The directory is a function from names to files, files are numbered in  *)
(* the order they are created in, and kept is the set of directories that  *)
(* may be found after a power loss.  The state directory itself is taken   *)
(* to survive one.                                                         *)
(***************************************************************************)
EXTENDS Integers

CONSTANTS
    Writers,   \* processes that run Init
    Readers,   \* processes that run openLocked
    Repos,     \* repositories, by the path Save is given
    Raw,       \* those whose path is not valid UTF-8
    Names,     \* staging names: .state-*.tmp
    MaxSaves   \* bound of the model: files ever created

Leaf == "state.json"
Other == "another path"

ASSUME NameAssumption == {Leaf, "none"} \intersect Names = {}
ASSUME WriterAssumption == "none" \notin Writers
ASSUME RepoAssumption ==
    /\ Raw \subseteq Repos
    /\ {"none", "empty", "part", Other} \intersect Repos = {}
ASSUME BoundAssumption == MaxSaves \in Nat

VARIABLES
    dir, kept,       \* names in the directory; what a power loss may leave
    data, synced,    \* contents of each file; files whose contents are synced
    created,         \* number of files created
    lock,            \* writer that holds the state lock, or "none"
    at, repo, name, node,   \* of each writer: step, input, staging file
    reported,        \* newest file a Save has reported success for
    orphans,         \* staging names nobody will remove
    step, open, seen,       \* of each reader: step, descriptor, result
    during           \* bindings there were while each reader ran

disk == <<dir, kept, data, synced, created>>
writer == <<at, repo, name, node, reported, orphans>>
reader == <<step, open, seen, during>>
vars == <<disk, lock, writer, reader>>

NoFile == 0
Files == 1..MaxSaves
Contents == Repos \union {Other, "empty", "part"}
Empty == [n \in Names \union {Leaf} |-> NoFile]

Binding(d) == IF d[Leaf] = NoFile THEN "none" ELSE data[d[Leaf]]

Init ==
    /\ dir = Empty /\ kept = {Empty}
    /\ data = [f \in Files |-> "empty"] /\ synced = {} /\ created = 0
    /\ lock = "none"
    /\ at = [w \in Writers |-> "Idle"]
    /\ repo = [w \in Writers |-> "none"]
    /\ name = [w \in Writers |-> "none"]
    /\ node = [w \in Writers |-> NoFile]
    /\ reported = NoFile /\ orphans = {}
    /\ step = [r \in Readers |-> "Idle"]
    /\ open = [r \in Readers |-> NoFile]
    /\ seen = [r \in Readers |-> "none"]
    /\ during = [r \in Readers |-> {"none"}]

Goto(w, label) == at' = [at EXCEPT ![w] = label]

(* The directory becomes d; until it is synced, either may be found.       *)
Change(d) == /\ dir' = d /\ kept' = kept \union {d}

-----------------------------------------------------------------------------
(* Init: the lock, then Save with the root of the repository.              *)

TakeLock(w) ==
    /\ at[w] = "Idle" /\ lock = "none"
    /\ lock' = w /\ Goto(w, "Create")
    /\ repo' \in {[repo EXCEPT ![w] = x] : x \in Repos}
    /\ UNCHANGED <<disk, name, node, reported, orphans, reader>>

(* Fault: the file is created under its final name.                        *)
CreateInPlace(w) ==
    /\ at[w] = "Create" /\ created < MaxSaves
    /\ created' = created + 1
    /\ \E n \in Names :
          /\ dir[n] = NoFile
          /\ Change([dir EXCEPT ![n] = created', ![Leaf] = created'])
          /\ name' = [name EXCEPT ![w] = n]
    /\ node' = [node EXCEPT ![w] = created'] /\ Goto(w, "Write")
    /\ UNCHANGED <<data, synced, lock, repo, reported, orphans, reader>>

(* os.CreateTemp takes a random name that does not exist.                  *)
Create(w) ==
    /\ at[w] = "Create" /\ created < MaxSaves
    /\ created' = created + 1
    /\ \E n \in Names :
          /\ dir[n] = NoFile
          /\ Change([dir EXCEPT ![n] = created'])
          /\ name' = [name EXCEPT ![w] = n]
    /\ node' = [node EXCEPT ![w] = created'] /\ Goto(w, "Write")
    /\ UNCHANGED <<data, synced, lock, repo, reported, orphans, reader>>

CreateFails(w) ==
    /\ at[w] = "Create"
    /\ Goto(w, "Unlock")
    /\ UNCHANGED <<disk, lock, repo, name, node, reported, orphans, reader>>

(* encoding/json replaces the bytes of a path that are not UTF-8.          *)
Encode(path) == IF path \in Raw THEN Other ELSE path

Write(w) ==
    /\ at[w] = "Write"
    /\ data' = [data EXCEPT ![node[w]] = Encode(repo[w])]
    /\ Goto(w, "SyncFile")
    /\ UNCHANGED <<dir, kept, synced, created, lock, repo, name, node,
                   reported, orphans, reader>>

(* Chmod or Write fails, Write after a part of the contents.               *)
WriteFails(w) ==
    /\ at[w] = "Write"
    /\ \E c \in {"empty", "part"} : data' = [data EXCEPT ![node[w]] = c]
    /\ Goto(w, "Discard")
    /\ UNCHANGED <<dir, kept, synced, created, lock, repo, name, node,
                   reported, orphans, reader>>

(* Fault: the file is renamed without having been synced.                  *)
SyncFileSkipped(w) ==
    /\ at[w] = "SyncFile"
    /\ Goto(w, "Rename")
    /\ UNCHANGED <<disk, lock, repo, name, node, reported, orphans, reader>>

SyncFile(w) ==
    /\ at[w] = "SyncFile"
    /\ synced' = synced \union {node[w]}
    /\ Goto(w, "Rename")
    /\ UNCHANGED <<dir, kept, data, created, lock, repo, name, node, reported,
                   orphans, reader>>

Rename(w) ==
    /\ at[w] = "Rename" /\ dir[name[w]] # NoFile
    /\ Change([dir EXCEPT ![Leaf] = dir[name[w]], ![name[w]] = NoFile])
    /\ during' = [r \in Readers |-> IF step[r] = "Idle" THEN during[r]
                    ELSE during[r] \union {data[dir[name[w]]]}]
    /\ Goto(w, "SyncDirectory")
    /\ UNCHANGED <<data, synced, created, lock, repo, name, node, reported,
                   orphans, step, open, seen>>

(* Sync, Close or Rename fails.                                            *)
CommitFails(w) ==
    /\ at[w] \in {"SyncFile", "Rename"}
    /\ Goto(w, "Discard")
    /\ UNCHANGED <<disk, lock, repo, name, node, reported, orphans, reader>>

SyncDirectory(w) ==
    /\ at[w] = "SyncDirectory"
    /\ kept' = {dir}
    /\ reported' = node[w]
    /\ Goto(w, "Discard")
    /\ UNCHANGED <<dir, data, synced, created, lock, repo, name, node, orphans,
                   reader>>

(* The binding has changed, and Save returns an error.                     *)
SyncDirectoryFails(w) ==
    /\ at[w] = "SyncDirectory"
    /\ Goto(w, "Discard")
    /\ UNCHANGED <<disk, lock, repo, name, node, reported, orphans, reader>>

(* The deferred Remove runs on every return, after the rename too, and     *)
(* names the file: whatever has the name is removed.                       *)
Discard(w) ==
    /\ at[w] = "Discard"
    /\ \/ /\ dir[name[w]] # NoFile
          /\ Change([dir EXCEPT ![name[w]] = NoFile])
       \/ /\ dir[name[w]] = NoFile
          /\ UNCHANGED <<dir, kept>>
    /\ Goto(w, "Unlock")
    /\ UNCHANGED <<data, synced, created, lock, repo, name, node, reported,
                   orphans, reader>>

(* Its error is ignored.                                                   *)
DiscardFails(w) ==
    /\ at[w] = "Discard" /\ dir[name[w]] # NoFile
    /\ orphans' = orphans \union {name[w]}
    /\ Goto(w, "Unlock")
    /\ UNCHANGED <<disk, lock, repo, name, node, reported, reader>>

(* The process is over, and the kernel has released what it held.          *)
Over(w) ==
    /\ lock' = IF lock = w THEN "none" ELSE lock
    /\ Goto(w, "Idle")
    /\ repo' = [repo EXCEPT ![w] = "none"]
    /\ name' = [name EXCEPT ![w] = "none"]
    /\ node' = [node EXCEPT ![w] = NoFile]

Unlock(w) ==
    /\ at[w] = "Unlock"
    /\ Over(w)
    /\ UNCHANGED <<disk, reported, orphans, reader>>

Kill(w) ==
    /\ at[w] # "Idle"
    /\ orphans' = orphans \union {n \in {name[w]} \intersect Names :
                                    dir[n] = node[w]}
    /\ Over(w)
    /\ UNCHANGED <<disk, reported, reader>>

-----------------------------------------------------------------------------
(* Load.  It holds no lock: Lstat, Open and Read see what there is.        *)
Lstat(r) ==
    /\ step[r] = "Idle"
    /\ during' = [during EXCEPT ![r] = {Binding(dir)}]
    /\ \/ /\ dir[Leaf] = NoFile
          /\ seen' = [seen EXCEPT ![r] = "none"]
          /\ UNCHANGED step
       \/ /\ dir[Leaf] # NoFile
          /\ step' = [step EXCEPT ![r] = "Open"]
          /\ UNCHANGED seen
    /\ UNCHANGED <<disk, lock, writer, open>>

Open(r) ==
    /\ step[r] = "Open"
    /\ open' = [open EXCEPT ![r] = dir[Leaf]]
    /\ step' = [step EXCEPT ![r] = "Read"]
    /\ UNCHANGED <<disk, lock, writer, seen, during>>

Read(r) ==
    /\ step[r] = "Read"
    /\ seen' = [seen EXCEPT ![r] = data[open[r]]]
    /\ step' = [step EXCEPT ![r] = "Idle"]
    /\ open' = [open EXCEPT ![r] = NoFile]
    /\ UNCHANGED <<disk, lock, writer, during>>

-----------------------------------------------------------------------------
(* Every process ends; a directory that may be found is found, and a file  *)
(* that was not synced may be empty or cut.                                *)
PowerLoss ==
    /\ dir' \in kept /\ kept' = {dir'}
    /\ \E cut \in [Files \ synced -> {"empty", "part", "same"}] :
          data' = [f \in Files |-> IF f \in synced \/ cut[f] = "same"
                                   THEN data[f] ELSE cut[f]]
    /\ synced' = Files
    /\ orphans' = {n \in Names : dir'[n] # NoFile}
    /\ lock' = "none"
    /\ at' = [w \in Writers |-> "Idle"]
    /\ repo' = [w \in Writers |-> "none"]
    /\ name' = [w \in Writers |-> "none"]
    /\ node' = [w \in Writers |-> NoFile]
    /\ step' = [r \in Readers |-> "Idle"]
    /\ seen' = [r \in Readers |-> "none"]
    /\ during' = [r \in Readers |-> {"none"}]
    /\ open' = [r \in Readers |-> NoFile]
    /\ UNCHANGED <<created, reported>>

Next ==
    \/ \E w \in Writers :
          \/ TakeLock(w) \/ Create(w) \/ CreateFails(w)
          \/ Write(w) \/ WriteFails(w) \/ SyncFile(w) \/ Rename(w)
          \/ CommitFails(w) \/ SyncDirectory(w) \/ SyncDirectoryFails(w)
          \/ Discard(w) \/ DiscardFails(w) \/ Unlock(w) \/ Kill(w)
    \/ \E r \in Readers : Lstat(r) \/ Open(r) \/ Read(r)
    \/ PowerLoss

Spec == Init /\ [][Next]_vars

-----------------------------------------------------------------------------
Directories == [Names \union {Leaf} -> 0..MaxSaves]

(* Types of the variables; the state lock is held by the writer that runs. *)
TypeOK ==
    /\ dir \in Directories /\ kept \subseteq Directories
    /\ data \in [Files -> Contents] /\ synced \subseteq Files
    /\ created \in 0..MaxSaves
    /\ lock \in Writers \union {"none"}
    /\ at \in [Writers -> {"Idle", "Create", "Write", "SyncFile", "Rename",
                           "SyncDirectory", "Discard", "Unlock"}]
    /\ \A w \in Writers : at[w] # "Idle" <=> lock = w
    /\ repo \in [Writers -> Repos \union {"none"}]
    /\ name \in [Writers -> Names \union {"none"}]
    /\ node \in [Writers -> 0..MaxSaves]
    /\ reported \in 0..MaxSaves /\ orphans \subseteq Names
    /\ step \in [Readers -> {"Idle", "Open", "Read"}]
    /\ open \in [Readers -> 0..MaxSaves]
    /\ seen \in [Readers -> Contents \union {"none"}]
    /\ during \in [Readers -> SUBSET (Contents \union {"none"})]

(* A command that reads the binding without the lock, while init replaces  *)
(* it (openLocked, app.go:772), gets a whole binding that was in force at  *)
(* some moment of the read.                                                *)
ReadsAreWhole == \A r \in Readers : step[r] = "Idle" => seen[r] \in during[r]

(* After a power loss there is the old binding or the new one, never a     *)
(* torn one: the contents are synced before the rename (state.go:114).     *)
NeverTorn ==
    \A d \in kept : d[Leaf] # NoFile =>
        d[Leaf] \in synced /\ data[d[Leaf]] \notin {"empty", "part"}

(* A binding Save has reported survives a power loss, or a later one does  *)
(* (state.go:125).                                                         *)
ReportedIsDurable == \A d \in kept : d[Leaf] >= reported

(* Whatever is killed, fails or loses power between the steps of Save: the *)
(* binding that is found afterwards is whole, and none older than the last *)
(* that was reported.                                                      *)
SurvivesPowerLoss == NeverTorn /\ ReportedIsDurable

(* The deferred Remove, which goes by the name, never takes the staging    *)
(* file of another Save: it runs before the lock is released.              *)
StagingIsOwn ==
    \A w \in Writers :
        at[w] \in {"Write", "SyncFile", "Rename"} => dir[name[w]] = node[w]

(* On ordinary error paths the staging file is removed; what stays behind  *)
(* a kill, a power loss or a failed Remove left (docs/design.md:413).      *)
NoResidue ==
    \A n \in Names : dir[n] # NoFile =>
        \/ n \in orphans
        \/ \E w \in Writers : /\ at[w] \notin {"Idle", "Create", "Unlock"}
                              /\ name[w] = n

(* What Load returns after a Save that succeeds is the repository the Save *)
(* was given ("Load returns the configured repository", state.go:174).      *)
SavedIsLoaded ==
    \A w \in Writers :
        at[w] = "Discard" /\ reported = node[w] => Binding(dir) = repo[w]
============================================================================
