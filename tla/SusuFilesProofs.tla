-------------------------- MODULE SusuFilesProofs ---------------------------
(***************************************************************************)
(* Proofs about SusuBinding, for any writers, readers, repositories and    *)
(* staging names, and any number of saves.  The idea: only the holder of   *)
(* the state lock stages a file, the file it stages is newer than every    *)
(* file a directory entry state.json can lead to, now or after a power     *)
(* loss, and it is written and synced before it gets that name.            *)
(*                                                                         *)
(* And about SusuDirectories, for any names and sources of any depth, and  *)
(* any number of directories, displacements and power losses.  The idea:   *)
(* a directory has one place for ever, so the command's descriptor is the  *)
(* directory its source leads to, or that was displaced; an entry on the   *)
(* way to a source is made only where nothing was, so what a power loss    *)
(* puts back is the same directory or none; and what susu.json refers to   *)
(* was synced in that directory before.                                    *)
(***************************************************************************)
EXTENDS MCFiles, WellFoundedInduction, TLAPS

Staging == {"Write", "SyncFile", "Rename"}
Busy == Staging \union {"SyncDirectory", "Discard"}

(* What the steps of writers and readers rely on.                          *)
Typed ==
    /\ TypeOK
    /\ \A w \in Writers :
          /\ at[w] # "Idle" => repo[w] \in Repos
          /\ at[w] \in Busy => name[w] \in Names /\ node[w] \in Files
    /\ \A r \in Readers :
          /\ step[r] = "Open" => dir[Leaf] # NoFile
          /\ step[r] = "Read" => open[r] \in Files

(* What the writer that holds the lock works on.                           *)
Session ==
    \A w \in Writers :
        /\ at[w] \in Busy => node[w] = created /\ dir[name[w]] \in {node[w], NoFile}
        /\ at[w] \in Staging => dir[name[w]] = node[w]
        /\ at[w] = "SyncDirectory" => dir[Leaf] = node[w]

(* The files that state.json may lead to are older than the one staged.    *)
Order ==
    /\ dir \in kept
    /\ \A d \in kept : reported =< d[Leaf] /\ d[Leaf] =< created
    /\ \A w \in Writers : at[w] \in Staging => \A d \in kept : d[Leaf] < node[w]

(* The staged file has its contents before they are synced, and both       *)
(* before it gets its name.                                                *)
Staged ==
    \A w \in Writers :
        /\ at[w] \in {"SyncFile", "Rename"} => data[node[w]] = Encode(repo[w])
        /\ at[w] = "Rename" => node[w] \in synced

(* A reader that found a binding still finds one, of those that were in    *)
(* force since; what it has opened is not being written.                   *)
Reading ==
    \A r \in Readers :
        /\ step[r] = "Idle" => seen[r] \in during[r]
        /\ step[r] = "Open" => dir[Leaf] # NoFile
        /\ step[r] # "Idle" /\ dir[Leaf] # NoFile => data[dir[Leaf]] \in during[r]
        /\ step[r] = "Read" =>
              /\ open[r] \in Files /\ open[r] =< created
              /\ data[open[r]] \in during[r]
              /\ \A w \in Writers : at[w] \in Staging => open[r] < node[w]

(* What a save that is about to report success, or has, has saved.         *)
Saved ==
    \A w \in Writers :
        /\ at[w] \in Staging \union {"SyncDirectory"} => reported < node[w]
        /\ \/ at[w] = "SyncDirectory"
           \/ at[w] = "Discard" /\ reported = node[w]
           => dir[Leaf] = node[w] /\ data[node[w]] = Encode(repo[w])

-----------------------------------------------------------------------------
(* Facts about the constants.                                              *)

(* No staging name is the name of the binding, nor the mark for "no name". *)
LEMMA NamesApart == Leaf \notin Names /\ "none" \notin Names
BY NameAssumption

(* What is encoded for a repository is whole contents.                     *)
LEMMA EncodeWhole ==
    ASSUME NEW x \in Repos
    PROVE  Encode(x) \in Contents /\ Encode(x) \notin {"empty", "part", "none"}
BY RepoAssumption DEF Encode, Contents, Other

(* While a writer is past its first step, the others are at theirs.        *)
LEMMA OneWriter ==
    ASSUME TypeOK, NEW w \in Writers, at[w] # "Idle"
    PROVE  \A v \in Writers : v # w => at[v] = "Idle"
BY DEF TypeOK

(* Changing one name of a directory leaves a directory.                    *)
LEMMA Renamed ==
    ASSUME NEW d \in Directories, NEW n \in Names \union {Leaf}, NEW f \in 0..MaxSaves
    PROVE  [d EXCEPT ![n] = f] \in Directories
BY DEF Directories

(* The directory after a rename over the binding.                          *)
LEMMA RenameChange ==
    ASSUME dir \in Directories, kept \subseteq Directories,
           NEW n \in Names, dir[n] \in 1..MaxSaves,
           Change([dir EXCEPT ![Leaf] = dir[n], ![n] = NoFile])
    PROVE  /\ dir' \in Directories /\ kept' = kept \union {dir'}
           /\ kept' \subseteq Directories
           /\ dir'[Leaf] = dir[n] /\ dir'[Leaf] # 0
<1> DEFINE d == [dir EXCEPT ![Leaf] = dir[n], ![n] = 0]
<1>1. dir[n] \in 0..MaxSaves
  BY BoundAssumption
<1>2. d \in Directories /\ d[Leaf] = dir[n]
  BY <1>1, NamesApart, BoundAssumption DEF Directories
<1>3. dir' = d /\ kept' = kept \union {d}
  BY DEF Change, NoFile
<1> HIDE DEF d
<1> QED BY <1>2, <1>3

-----------------------------------------------------------------------------
(* Types                                                                   *)

(* The initial state is well-typed.                                        *)
LEMMA TypedInit == Init => Typed
<1> SUFFICES ASSUME Init PROVE Typed
    OBVIOUS
<1> USE BoundAssumption DEF Init, NoFile
<1>1. dir \in Directories /\ kept \subseteq Directories
  BY DEF Empty, Directories
<1>2. data \in [Files -> Contents]
  BY DEF Contents
<1>3. TypeOK
  BY <1>1, <1>2, WriterAssumption DEF TypeOK
<1> QED BY <1>3 DEF Typed, Busy, Staging

(* A writer's step that changes no directory entry and keeps its session   *)
(* keeps the types.                                                        *)
LEMMA TypedSteps ==
    ASSUME Typed, NEW w \in Writers,
           \/ TakeLock(w) \/ CreateFails(w) \/ SyncFile(w)
           \/ CommitFails(w) \/ SyncDirectory(w) \/ SyncDirectoryFails(w)
           \/ DiscardFails(w) \/ Unlock(w) \/ Kill(w)
    PROVE  Typed'
<1> USE WriterAssumption, BoundAssumption
    DEF Typed, TypeOK, disk, writer, reader, Goto, NoFile, Files, Busy, Staging, Over
<1>1. CASE TakeLock(w)
  BY <1>1 DEF TakeLock
<1>2. CASE CreateFails(w)
  BY <1>2 DEF CreateFails
<1>3. CASE SyncFile(w)
  BY <1>3 DEF SyncFile
<1>4. CASE CommitFails(w)
  BY <1>4 DEF CommitFails
<1>5. CASE SyncDirectory(w)
  BY <1>5 DEF SyncDirectory
<1>6. CASE SyncDirectoryFails(w)
  BY <1>6 DEF SyncDirectoryFails
<1>7. CASE DiscardFails(w)
  BY <1>7 DEF DiscardFails
<1>8. CASE Unlock(w)
  BY <1>8 DEF Unlock
<1>9. CASE Kill(w)
  BY <1>9 DEF Kill
<1> QED BY <1>1, <1>2, <1>3, <1>4, <1>5, <1>6, <1>7, <1>8, <1>9

(* So do the steps of a writer that change the directory or a file.        *)
LEMMA TypedChanges ==
    ASSUME Typed, NEW w \in Writers,
           Create(w) \/ Write(w) \/ WriteFails(w) \/ Rename(w) \/ Discard(w)
    PROVE  Typed'
<1> USE WriterAssumption, BoundAssumption
    DEF Typed, TypeOK, disk, writer, reader, Goto, NoFile, Files, Busy, Staging
<1>1. CASE Create(w)
  <2> PICK n \in Names : Change([dir EXCEPT ![n] = created'])
                         /\ name' = [name EXCEPT ![w] = n]
    BY <1>1 DEF Create
  <2>1. created' \in 0..MaxSaves /\ created' \in Files
    BY <1>1 DEF Create
  <2>d. [dir EXCEPT ![n] = created'] \in Directories
    BY <2>1, Renamed
  <2>2. dir' \in Directories /\ kept' \subseteq Directories
    BY <2>d DEF Change
  <2>3. dir'[Leaf] = dir[Leaf]
    BY NamesApart DEF Change, Directories
  <2> QED BY <1>1, <2>1, <2>2, <2>3 DEF Create
<1>2. CASE Write(w)
  <2>1. Encode(repo[w]) \in Contents
    BY <1>2, EncodeWhole DEF Write
  <2> QED BY <1>2, <2>1 DEF Write
<1>3. CASE WriteFails(w)
  BY <1>3 DEF WriteFails, Contents
<1>4. CASE Rename(w)
  <2>1. name[w] \in Names /\ dir[name[w]] \in 1..MaxSaves
    BY <1>4 DEF Rename, Directories
  <2>2. Change([dir EXCEPT ![Leaf] = dir[name[w]], ![name[w]] = NoFile])
    BY <1>4 DEF Rename
  <2>3. dir \in Directories /\ kept \subseteq Directories
    OBVIOUS
  <2>4. dir' \in Directories /\ kept' \subseteq Directories /\ dir'[Leaf] # 0
    BY <2>1, <2>2, <2>3, RenameChange
  <2>5. during' \in [Readers -> SUBSET (Contents \union {"none"})]
    BY <1>4, <2>1 DEF Rename
  <2> QED BY <1>4, <2>4, <2>5 DEF Rename
<1>5. CASE Discard(w)
  <2>1. name[w] \in Names
    BY <1>5 DEF Discard
  <2>2. dir' \in Directories /\ kept' \subseteq Directories /\ dir'[Leaf] = dir[Leaf]
    <3>1. CASE UNCHANGED <<dir, kept>>
      BY <3>1
    <3>2. CASE Change([dir EXCEPT ![name[w]] = 0])
      <4>1. [dir EXCEPT ![name[w]] = 0] \in Directories
        BY <2>1, Renamed
      <4>2. [dir EXCEPT ![name[w]] = 0][Leaf] = dir[Leaf]
        BY <2>1, NamesApart DEF Directories
      <4> QED BY <3>2, <4>1, <4>2 DEF Change
    <3> QED BY <1>5, <3>1, <3>2 DEF Discard
  <2> QED BY <1>5, <2>2 DEF Discard
<1> QED BY <1>1, <1>2, <1>3, <1>4, <1>5

(* So do a reader's steps and a power loss.                                *)
LEMMA TypedReads ==
    ASSUME Typed, PowerLoss \/ \E r \in Readers : Lstat(r) \/ Open(r) \/ Read(r)
    PROVE  Typed'
<1> USE WriterAssumption, BoundAssumption
    DEF Typed, TypeOK, disk, writer, reader, NoFile, Files, Busy, Staging
<1>1. ASSUME NEW r \in Readers, Lstat(r) PROVE Typed'
  <2>1. Binding(dir) \in Contents \union {"none"}
    BY DEF Binding, Directories
  <2>2. /\ UNCHANGED <<dir, kept, data, synced, created, lock, at, repo, name, node,
                     reported, orphans, open>>
        /\ during' = [during EXCEPT ![r] = {Binding(dir)}]
        /\ \/ dir[Leaf] = 0 /\ seen' = [seen EXCEPT ![r] = "none"] /\ step' = step
           \/ dir[Leaf] # 0 /\ step' = [step EXCEPT ![r] = "Open"] /\ seen' = seen
    BY <1>1 DEF Lstat
  <2>3. TypeOK'
    BY <2>1, <2>2
  <2>4. \A q \in Readers : /\ step'[q] = "Open" => dir'[Leaf] # NoFile
                           /\ step'[q] = "Read" => open'[q] \in Files
    BY <2>2
  <2> QED BY <2>2, <2>3, <2>4
<1>2. ASSUME NEW r \in Readers, Open(r) PROVE Typed'
  <2>1. dir[Leaf] \in 1..MaxSaves
    BY <1>2 DEF Open, Directories
  <2> QED BY <1>2, <2>1 DEF Open
<1>3. ASSUME NEW r \in Readers, Read(r) PROVE Typed'
  BY <1>3 DEF Read
<1>4. CASE PowerLoss
  <2>1. data' \in [Files -> Contents]
    <3> PICK cut \in [Files \ synced -> {"empty", "part", "same"}] :
             data' = [f \in Files |-> IF f \in synced \/ cut[f] = "same"
                                      THEN data[f] ELSE cut[f]]
      BY <1>4 DEF PowerLoss
    <3>1. \A f \in Files : f \notin synced /\ cut[f] # "same" => cut[f] \in {"empty", "part"}
      OBVIOUS
    <3> QED BY <3>1 DEF Contents
  <2>2. dir' \in Directories /\ kept' \subseteq Directories
    BY <1>4 DEF PowerLoss
  <2> QED BY <1>4, <2>1, <2>2 DEF PowerLoss
<1> QED BY <1>1, <1>2, <1>3, <1>4

(* Every step keeps the types.                                             *)
LEMMA TypedNext == Typed /\ [Next]_vars => Typed'
<1> SUFFICES ASSUME Typed, [Next]_vars PROVE Typed'
    OBVIOUS
<1>1. CASE UNCHANGED vars
  BY <1>1 DEF vars, disk, writer, reader, Typed, TypeOK
<1> QED BY <1>1, TypedSteps, TypedChanges, TypedReads DEF Next

(* Types of the variables of SusuBinding, for any processes and any number *)
(* of saves; the writer that is past its first step holds the state lock.  *)
THEOREM TypeCorrect == Spec => []TypeOK
<1>1. Typed => TypeOK
  BY DEF Typed
<1> QED BY <1>1, TypedInit, TypedNext, PTL DEF Spec

-----------------------------------------------------------------------------
(* The invariant                                                           *)

Inv == Typed /\ Session /\ Order /\ Staged /\ Reading /\ Saved /\ NeverTorn /\ NoResidue

(* The initial state satisfies the invariant.                              *)
LEMMA InvInit == Init => Inv
<1> SUFFICES ASSUME Init PROVE Inv
    OBVIOUS
<1>1. Typed
  BY TypedInit
<1>2. \A d \in kept : d[Leaf] = 0
  BY DEF Init, Empty, NoFile
<1>3. dir \in kept /\ reported = 0 /\ created = 0
  BY DEF Init, NoFile
<1>4. \A w \in Writers : at[w] = "Idle"
  BY DEF Init
<1>5. Session /\ Staged /\ Saved
  BY <1>4 DEF Session, Staged, Saved, Busy, Staging
<1>6. Order
  BY <1>2, <1>3, <1>4 DEF Order, Staging
<1>7. Reading
  BY DEF Init, Reading
<1>8. NeverTorn
  BY <1>2 DEF NeverTorn, NoFile
<1>9. NoResidue
  BY NamesApart DEF NoResidue, Init, Empty
<1> QED BY <1>1, <1>5, <1>6, <1>7, <1>8, <1>9 DEF Inv

(* A new staging file has a number of its own.                             *)
LEMMA InvCreate ==
    ASSUME Inv, NEW w \in Writers, Create(w), Typed'
    PROVE  Inv'
<1> USE DEF Busy, Staging, Goto
<1>t. TypeOK /\ TypeOK' /\ BoundAssumption
  BY BoundAssumption DEF Inv, Typed
<1>u. \A v \in Writers : v # w => at[v] = "Idle" /\ at'[v] = "Idle"
  BY <1>t, OneWriter DEF Create, TypeOK
<1>w. at' = [at EXCEPT ![w] = "Write"] /\ node' = [node EXCEPT ![w] = created']
      /\ created' = created + 1 /\ created \in Nat
      /\ at'[w] = "Write" /\ node'[w] = created'
  BY <1>t DEF Create, TypeOK
<1> PICK n \in Names : /\ dir[n] = NoFile
                       /\ Change([dir EXCEPT ![n] = created'])
                       /\ name' = [name EXCEPT ![w] = n]
  BY DEF Create
<1>d. /\ dir' = [dir EXCEPT ![n] = created'] /\ kept' = kept \union {dir'}
      /\ dir'[Leaf] = dir[Leaf] /\ dir'[n] = created' /\ name'[w] = n
      /\ \A k \in Names : k # n => dir'[k] = dir[k]
  BY <1>t, NamesApart DEF Change, TypeOK, Directories
<1>r. UNCHANGED <<data, synced, repo, reported, orphans, step, open, seen, during>>
  BY DEF Create, reader
<1>1. Session'
  BY <1>t, <1>u, <1>w, <1>d DEF Session
<1>2. Order'
  <2>1. \A d \in kept : d[Leaf] \in Nat
    BY <1>t DEF TypeOK, Directories
  <2>2. dir \in kept /\ \A d \in kept : reported =< d[Leaf] /\ d[Leaf] =< created
    BY DEF Inv, Order
  <2>3. \A d \in kept' : d \in kept \/ d = dir'
    BY <1>d
  <2>4. \A d \in kept' : reported =< d[Leaf] /\ d[Leaf] =< created /\ d[Leaf] \in Nat
    BY <1>d, <2>1, <2>2, <2>3
  <2>5. dir' \in kept'
    BY <1>d
  <2>6. \A v \in Writers : at'[v] \in Staging => node'[v] = created + 1
    BY <1>u, <1>w
  <2> QED BY <1>w, <1>r, <2>4, <2>5, <2>6 DEF Order
<1>3. Staged'
  BY <1>u, <1>w DEF Staged
<1>4. Reading'
  <2>1. \A r \in Readers : open[r] \in Nat
    BY <1>t DEF TypeOK
  <2> QED BY <1>t, <1>u, <1>w, <1>d, <1>r, <2>1 DEF Reading, Inv
<1>5. Saved'
  <2>1. reported < node'[w]
    BY <1>t, <1>w DEF Inv, Order, TypeOK, Directories
  <2> QED BY <1>u, <1>w, <1>r, <2>1 DEF Saved
<1>6. NeverTorn'
  BY <1>d, <1>r DEF Inv, Order, NeverTorn
<1>7. NoResidue'
  <2>1. at[w] = "Create"
    BY DEF Create
  <2>2. \A k \in Names : dir[k] # NoFile => k \in orphans
    BY <1>u, <2>1 DEF Inv, NoResidue
  <2>3. \A k \in Names : dir'[k] # NoFile => k = n \/ k \in orphans'
    BY <1>d, <1>r, <2>2
  <2> QED BY <1>w, <1>d, <2>3 DEF NoResidue
<1> QED BY <1>1, <1>2, <1>3, <1>4, <1>5, <1>6, <1>7 DEF Inv

(* What is written is a file nobody can find as the binding.               *)
LEMMA InvWrite ==
    ASSUME Inv, NEW w \in Writers, Write(w) \/ WriteFails(w), Typed'
    PROVE  Inv'
<1> USE DEF Busy, Staging, Goto
<1>t. TypeOK /\ TypeOK'
  BY DEF Inv, Typed
<1>a. /\ at[w] = "Write"
      /\ \/ at' = [at EXCEPT ![w] = "SyncFile"] /\ data'[node[w]] = Encode(repo[w])
         \/ at' = [at EXCEPT ![w] = "Discard"]
      /\ \A f \in Files : f # node[w] => data'[f] = data[f]
  BY <1>t DEF Write, WriteFails, Inv, Typed, TypeOK
<1>u. \A v \in Writers : v # w => at[v] = "Idle" /\ at'[v] = "Idle"
  BY <1>t, <1>a, OneWriter DEF TypeOK
<1>w. at'[w] = "Discard" \/ (at'[w] = "SyncFile" /\ data'[node[w]] = Encode(repo[w]))
  BY <1>t, <1>a DEF TypeOK
<1>r. UNCHANGED <<dir, kept, synced, created, repo, name, node, reported, orphans, step, open, seen, during>>
  BY DEF Write, WriteFails, reader
<1>n. node[w] \in Nat /\ node[w] = created /\ dir[name[w]] = node[w]
  BY <1>t, <1>a DEF TypeOK, Inv, Session
<1>k. \A d \in kept : d[Leaf] \in 0..MaxSaves /\ d[Leaf] < node[w]
  BY <1>t, <1>a DEF TypeOK, Directories, Inv, Order
<1>d. \A d \in kept : d[Leaf] # NoFile => data'[d[Leaf]] = data[d[Leaf]]
  BY <1>a, <1>n, <1>k, BoundAssumption DEF Files, NoFile
<1>e. dir \in kept
  BY DEF Inv, Order
<1>1. Session'
  BY <1>u, <1>w, <1>a, <1>n, <1>r DEF Inv, Session
<1>2. Order'
  BY <1>u, <1>w, <1>a, <1>r DEF Inv, Order
<1>3. Staged'
  BY <1>u, <1>w, <1>r DEF Staged
<1>4. Reading'
  <2>1. \A r \in Readers : step[r] = "Read" =>
            open[r] \in Files /\ open[r] < node[w] /\ open[r] \in Nat
    BY <1>t, <1>a DEF Inv, Reading, TypeOK
  <2>2. \A r \in Readers : step[r] = "Read" => data'[open[r]] = data[open[r]]
    BY <2>1, <1>a, <1>n
  <2> QED BY <1>u, <1>w, <1>a, <1>r, <1>d, <1>e, <2>2 DEF Inv, Reading
<1>5. Saved'
  <2>1. reported < node[w] /\ reported \in Nat
    BY <1>t, <1>a DEF Inv, Saved, TypeOK
  <2> QED BY <1>u, <1>w, <1>n, <1>r, <2>1 DEF Saved
<1>6. NeverTorn'
  BY <1>r, <1>d DEF Inv, NeverTorn
<1>7. NoResidue'
  BY <1>u, <1>w, <1>a, <1>r DEF Inv, NoResidue
<1> QED BY <1>1, <1>2, <1>3, <1>4, <1>5, <1>6, <1>7 DEF Inv

(* What becomes the binding is whole, synced, and the newest there is.     *)
LEMMA InvRename ==
    ASSUME Inv, NEW w \in Writers, Rename(w), Typed'
    PROVE  Inv'
<1> USE DEF Busy, Staging, Goto
<1>t. TypeOK /\ TypeOK'
  BY DEF Inv, Typed
<1>a. at[w] = "Rename" /\ at' = [at EXCEPT ![w] = "SyncDirectory"] /\ at'[w] = "SyncDirectory"
  BY <1>t DEF Rename, TypeOK
<1>u. \A v \in Writers : v # w => at[v] = "Idle" /\ at'[v] = "Idle"
  BY <1>t, <1>a, OneWriter DEF TypeOK
<1>n. /\ node[w] \in Files /\ node[w] = created /\ dir[name[w]] = node[w]
      /\ name[w] \in Names /\ repo[w] \in Repos
      /\ node[w] \in synced /\ data[node[w]] = Encode(repo[w])
  BY <1>a DEF Inv, Typed, Session, Staged
<1>d. /\ dir' \in Directories /\ kept' = kept \union {dir'}
      /\ dir'[Leaf] = node[w] /\ node[w] # NoFile
      /\ \A k \in Names : dir'[k] = IF k = name[w] THEN NoFile ELSE dir[k]
  <2>1. Change([dir EXCEPT ![Leaf] = dir[name[w]], ![name[w]] = NoFile])
    BY DEF Rename
  <2>2. dir \in Directories /\ kept \subseteq Directories
    BY <1>t DEF TypeOK
  <2>3. node[w] \in 1..MaxSaves
    BY <1>n DEF Files
  <2>4. /\ dir' \in Directories /\ kept' = kept \union {dir'}
        /\ dir'[Leaf] = dir[name[w]] /\ dir'[Leaf] # 0
    BY <1>n, <2>1, <2>2, <2>3, RenameChange
  <2>5. \A k \in Names : dir'[k] = IF k = name[w] THEN NoFile ELSE dir[k]
    BY <1>n, <2>1, <2>2, NamesApart DEF Change, Directories
  <2> QED BY <1>n, <2>4, <2>5 DEF NoFile
<1>r. /\ UNCHANGED <<data, synced, created, repo, name, node, reported, orphans, step, open, seen>>
      /\ \A r \in Readers :
            /\ during[r] \subseteq during'[r]
            /\ step[r] # "Idle" => data[node[w]] \in during'[r]
  BY <1>n DEF Rename
<1>o. reported < node[w] /\ \A d \in kept : d[Leaf] < node[w]
  BY <1>a DEF Inv, Order, Saved
<1>1. Session'
  BY <1>u, <1>a, <1>n, <1>d, <1>r DEF Session
<1>2. Order'
  <2>1. reported \in Nat /\ created \in Nat
    BY <1>t DEF TypeOK
  <2>2. \A d \in kept' : d \in kept \/ d = dir'
    BY <1>d
  <2>3. \A d \in kept' : reported =< d[Leaf] /\ d[Leaf] =< created
    BY <1>d, <1>n, <1>o, <2>1, <2>2 DEF Inv, Order
  <2>4. \A v \in Writers : at'[v] \notin Staging
    BY <1>u, <1>a
  <2> QED BY <1>d, <1>r, <2>3, <2>4 DEF Order
<1>3. Staged'
  BY <1>u, <1>a DEF Staged
<1>4. Reading'
  <2>1. \A v \in Writers : at'[v] \notin Staging
    BY <1>u, <1>a
  <2> QED BY <1>d, <1>r, <2>1 DEF Inv, Reading
<1>5. Saved'
  BY <1>u, <1>a, <1>n, <1>d, <1>r, <1>o DEF Saved
<1>6. NeverTorn'
  BY <1>n, <1>d, <1>r, EncodeWhole DEF Inv, NeverTorn
<1>7. NoResidue'
  <2>1. \A k \in Names : dir'[k] # NoFile => k \in orphans
    BY <1>u, <1>d DEF Inv, NoResidue
  <2> QED BY <1>r, <2>1 DEF NoResidue
<1> QED BY <1>1, <1>2, <1>3, <1>4, <1>5, <1>6, <1>7 DEF Inv

(* Steps that change neither the directory nor a file's contents, before   *)
(* the rename or after the clean-up.                                       *)
LEMMA InvQuiet ==
    ASSUME Inv, NEW w \in Writers, Typed',
           \/ TakeLock(w) \/ CreateFails(w) \/ SyncFile(w) \/ CommitFails(w)
           \/ DiscardFails(w) \/ Unlock(w) \/ Kill(w)
    PROVE  Inv'
<1> USE DEF Busy, Staging, Goto
<1>t. TypeOK /\ TypeOK'
  BY DEF Inv, Typed
<1>r. UNCHANGED <<dir, kept, data, created, reported, step, open, seen, during>>
  BY DEF TakeLock, CreateFails, SyncFile, CommitFails, DiscardFails, Unlock, Kill, disk, reader
<1>y. synced \subseteq synced' /\ orphans \subseteq orphans'
  BY DEF TakeLock, CreateFails, SyncFile, CommitFails, DiscardFails, Unlock, Kill, disk
<1>a. \/ at'[w] \in {"Idle", "Create", "Unlock"}
      \/ /\ at'[w] \in {"Rename", "Discard"} /\ at[w] \in {"SyncFile", "Rename"}
         /\ repo'[w] = repo[w] /\ name'[w] = name[w] /\ node'[w] = node[w]
         /\ at'[w] = "Rename" => at[w] = "SyncFile" /\ node[w] \in synced'
  BY <1>t DEF TypeOK, TakeLock, CreateFails, SyncFile, CommitFails, DiscardFails, Unlock, Kill, Over
<1>u. \A v \in Writers : v # w => at[v] = "Idle" /\ at'[v] = "Idle"
  BY <1>t DEF TypeOK, TakeLock, CreateFails, SyncFile, CommitFails, DiscardFails, Unlock, Kill, Over
<1>1. Session'
  BY <1>u, <1>a, <1>r DEF Inv, Session
<1>2. Order'
  BY <1>u, <1>a, <1>r DEF Inv, Order
<1>3. Staged'
  BY <1>u, <1>a, <1>r DEF Inv, Staged
<1>4. Reading'
  BY <1>u, <1>a, <1>r DEF Inv, Reading
<1>5. Saved'
  <2>1. at'[w] = "Discard" => reported < node[w] /\ reported \in Nat
    BY <1>t, <1>a DEF Inv, Saved, TypeOK
  <2> QED BY <1>u, <1>a, <1>r, <2>1 DEF Inv, Saved
<1>6. NeverTorn'
  BY <1>r, <1>y DEF Inv, NeverTorn
<1>7. NoResidue'
  <2> SUFFICES ASSUME NEW k \in Names, dir[k] # NoFile, k \notin orphans'
               PROVE  at'[w] \notin {"Idle", "Create", "Unlock"} /\ name'[w] = k
      BY <1>r DEF NoResidue
  <2>1. at[w] \notin {"Idle", "Create", "Unlock"} /\ name[w] = k
    BY <1>u, <1>y DEF Inv, NoResidue
  <2>2. at[w] \in Busy
    BY <1>t, <2>1 DEF TypeOK
  <2>3. dir[name[w]] = node[w]
    BY <2>1, <2>2 DEF Inv, Session
  <2>4. ~Kill(w)
    BY <2>1, <2>3 DEF Kill
  <2>5. ~DiscardFails(w)
    BY <2>1 DEF DiscardFails
  <2>6. SyncFile(w) \/ CommitFails(w)
    BY <2>1, <2>4, <2>5 DEF TakeLock, CreateFails, Unlock
  <2>7. at'[w] \in {"Rename", "Discard"} /\ name'[w] = name[w]
    BY <1>t, <2>6 DEF SyncFile, CommitFails, TypeOK
  <2> QED BY <2>1, <2>7
<1> QED BY <1>1, <1>2, <1>3, <1>4, <1>5, <1>6, <1>7 DEF Inv

(* After the sync of the directory, only one directory can be found.       *)
LEMMA InvSyncDirectory ==
    ASSUME Inv, NEW w \in Writers, Typed', SyncDirectory(w) \/ SyncDirectoryFails(w)
    PROVE  Inv'
<1> USE DEF Busy, Staging, Goto
<1>t. TypeOK /\ TypeOK'
  BY DEF Inv, Typed
<1>a. at[w] = "SyncDirectory" /\ at'[w] = "Discard"
  BY <1>t DEF SyncDirectory, SyncDirectoryFails, TypeOK
<1>u. \A v \in Writers : v # w => at[v] = "Idle" /\ at'[v] = "Idle"
  BY <1>t, <1>a, OneWriter DEF SyncDirectory, SyncDirectoryFails, TypeOK
<1>r. UNCHANGED <<dir, data, synced, created, repo, name, node, orphans, step, open, seen, during>>
  BY DEF SyncDirectory, SyncDirectoryFails, disk, reader
<1>k. \/ kept' = {dir} /\ reported' = node[w]
      \/ UNCHANGED <<kept, reported>>
  BY DEF SyncDirectory, SyncDirectoryFails, disk
<1>n. /\ node[w] = created /\ dir[Leaf] = node[w] /\ reported < node[w]
      /\ data[node[w]] = Encode(repo[w]) /\ dir \in kept
      /\ dir[name[w]] \in {node[w], NoFile}
  BY <1>a DEF Inv, Session, Order, Saved
<1>1. Session'
  BY <1>u, <1>a, <1>n, <1>r DEF Session
<1>2. Order'
  BY <1>t, <1>u, <1>a, <1>r, <1>n, <1>k DEF Inv, Order, TypeOK
<1>3. Staged'
  BY <1>u, <1>a DEF Staged
<1>4. Reading'
  BY <1>u, <1>a, <1>r DEF Inv, Reading
<1>5. Saved'
  BY <1>u, <1>a, <1>n, <1>r DEF Saved
<1>6. NeverTorn'
  BY <1>r, <1>k, <1>n DEF Inv, NeverTorn
<1>7. NoResidue'
  BY <1>u, <1>a, <1>r DEF Inv, NoResidue
<1> QED BY <1>1, <1>2, <1>3, <1>4, <1>5, <1>6, <1>7 DEF Inv

(* The deferred Remove never touches the binding.                          *)
LEMMA InvDiscard ==
    ASSUME Inv, NEW w \in Writers, Typed', Discard(w)
    PROVE  Inv'
<1> USE DEF Busy, Staging, Goto
<1>t. TypeOK /\ TypeOK'
  BY DEF Inv, Typed
<1>a. at[w] = "Discard" /\ at'[w] = "Unlock" /\ name[w] \in Names
  BY <1>t DEF Discard, Inv, Typed, TypeOK
<1>u. \A v \in Writers : v # w => at[v] = "Idle" /\ at'[v] = "Idle"
  BY <1>t, <1>a, OneWriter DEF Discard, TypeOK
<1>r. UNCHANGED <<data, synced, created, repo, name, node, reported, orphans, step, open, seen, during>>
  BY DEF Discard, reader
<1>d. /\ dir'[Leaf] = dir[Leaf] /\ kept' = kept \union {dir'}
      /\ \A k \in Names : dir'[k] # NoFile => dir[k] # NoFile /\ k # name[w]
  <2>1. CASE dir[name[w]] = NoFile /\ UNCHANGED <<dir, kept>>
    BY <2>1 DEF Inv, Order
  <2>2. CASE Change([dir EXCEPT ![name[w]] = NoFile])
    BY <1>t, <1>a, <2>2, NamesApart DEF Change, TypeOK, Directories, NoFile
  <2> QED BY <2>1, <2>2 DEF Discard
<1>k. dir \in kept /\ \A d \in kept' : d \in kept \/ d = dir'
  BY <1>d DEF Inv, Order
<1>1. Session'
  BY <1>u, <1>a DEF Session
<1>2. Order'
  BY <1>u, <1>a, <1>r, <1>d, <1>k DEF Inv, Order
<1>3. Staged'
  BY <1>u, <1>a DEF Staged
<1>4. Reading'
  BY <1>u, <1>a, <1>r, <1>d DEF Inv, Reading
<1>5. Saved'
  BY <1>u, <1>a DEF Saved
<1>6. NeverTorn'
  BY <1>r, <1>d, <1>k DEF Inv, NeverTorn
<1>7. NoResidue'
  <2>1. \A k \in Names : dir'[k] # NoFile => k \in orphans
    BY <1>u, <1>a, <1>d DEF Inv, NoResidue
  <2> QED BY <1>r, <2>1 DEF NoResidue
<1> QED BY <1>1, <1>2, <1>3, <1>4, <1>5, <1>6, <1>7 DEF Inv

(* What a reader finds, opens and reads was in force meanwhile.            *)
LEMMA InvRead ==
    ASSUME Inv, NEW r \in Readers, Typed', Lstat(r) \/ Open(r) \/ Read(r)
    PROVE  Inv'
<1>t. TypeOK /\ TypeOK'
  BY DEF Inv, Typed
<1>r. UNCHANGED <<dir, kept, data, synced, created, lock, at, repo, name, node, reported, orphans>>
  BY DEF Lstat, Open, Read, disk, writer
<1>o. \A q \in Readers : q # r => step'[q] = step[q] /\ open'[q] = open[q]
                                  /\ seen'[q] = seen[q] /\ during'[q] = during[q]
  BY <1>t DEF Lstat, Open, Read, TypeOK
<1>1. Reading'
  <2>1. CASE Lstat(r)
    <3>1. \/ seen'[r] \in during'[r] /\ step'[r] = "Idle"
          \/ dir[Leaf] # NoFile /\ step'[r] = "Open" /\ data[dir[Leaf]] \in during'[r]
      BY <1>t, <2>1 DEF Lstat, Binding, TypeOK
    <3>2. step'[r] = "Idle" => dir[Leaf] = NoFile \/ step'[r] # step[r]
      BY <1>t, <2>1, <3>1 DEF Lstat, TypeOK
    <3> QED BY <1>o, <1>r, <3>1, <3>2 DEF Inv, Reading
  <2>2. CASE Open(r)
    <3>1. /\ step[r] = "Open" /\ step'[r] = "Read" /\ open'[r] = dir[Leaf]
          /\ during'[r] = during[r] /\ dir[Leaf] # NoFile /\ data[dir[Leaf]] \in during[r]
      BY <1>t, <2>2 DEF Open, TypeOK, Inv, Reading
    <3>2. open'[r] \in Files /\ open'[r] =< created
      BY <1>t, <3>1, BoundAssumption DEF TypeOK, Directories, Files, NoFile, Inv, Order
    <3>3. \A w \in Writers : at[w] \in Staging => open'[r] < node[w]
      BY <3>1 DEF Inv, Order
    <3> QED BY <1>o, <1>r, <3>1, <3>2, <3>3 DEF Inv, Reading
  <2>3. CASE Read(r)
    <3>1. step'[r] = "Idle" /\ seen'[r] \in during'[r]
      BY <1>t, <2>3 DEF Read, TypeOK, Inv, Reading
    <3> QED BY <1>o, <1>r, <3>1 DEF Inv, Reading
  <2> QED BY <2>1, <2>2, <2>3
<1>2. Session' /\ Order' /\ Staged' /\ Saved' /\ NeverTorn' /\ NoResidue'
  BY <1>r DEF Inv, Session, Order, Staged, Saved, NeverTorn, NoResidue
<1> QED BY <1>1, <1>2 DEF Inv

(* What a power loss can leave is in order.                                *)
LEMMA InvPowerLoss ==
    ASSUME Inv, Typed', PowerLoss
    PROVE  Inv'
<1>1. dir' \in kept /\ kept' = {dir'} /\ UNCHANGED <<created, reported>>
  BY DEF PowerLoss
<1>2. \A w \in Writers : at'[w] = "Idle"
  BY DEF PowerLoss
<1>3. Session' /\ Staged' /\ Saved'
  BY <1>2 DEF Session, Staged, Saved, Busy, Staging
<1>4. Order'
  BY <1>1, <1>2 DEF Inv, Order, Staging
<1>5. Reading'
  BY DEF PowerLoss, Reading
<1>6. NeverTorn'
  <2>1. \A f \in Files : f \in synced => data'[f] = data[f]
    BY DEF PowerLoss
  <2>2. synced' = Files /\ synced \subseteq Files
    BY DEF PowerLoss, Inv, Typed, TypeOK
  <2> QED BY <1>1, <2>1, <2>2 DEF Inv, NeverTorn
<1>7. NoResidue'
  BY DEF PowerLoss, NoResidue
<1> QED BY <1>3, <1>4, <1>5, <1>6, <1>7 DEF Inv

(* Every step keeps the invariant.                                         *)
LEMMA InvNext == Inv /\ [Next]_vars => Inv'
<1> SUFFICES ASSUME Inv, [Next]_vars PROVE Inv'
    OBVIOUS
<1>1. Typed'
  BY TypedNext DEF Inv
<1>2. CASE UNCHANGED vars
  <2>1. UNCHANGED <<dir, kept, data, synced, created, lock, at, repo, name, node,
                    reported, orphans, step, open, seen, during>>
    BY <1>2 DEF vars, disk, writer, reader
  <2>2. Session' /\ Order' /\ Staged' /\ Saved' /\ NeverTorn' /\ NoResidue'
    BY <2>1 DEF Inv, Session, Order, Staged, Saved, NeverTorn, NoResidue
  <2>3. Reading'
    BY <2>1 DEF Inv, Reading
  <2> QED BY <1>1, <2>2, <2>3 DEF Inv
<1> QED BY <1>1, <1>2, InvCreate, InvWrite, InvRename, InvQuiet, InvSyncDirectory,
           InvDiscard, InvRead, InvPowerLoss DEF Next

(* The invariant holds in every reachable state.                           *)
LEMMA Invariance == Spec => []Inv
BY InvInit, InvNext, PTL DEF Spec

-----------------------------------------------------------------------------
(* Results                                                                 *)

(* A command that reads the binding without the lock while any number of   *)
(* inits replace it gets a whole binding that was in force during the read *)
(* (openLocked, app.go:772).                                               *)
THEOREM WholeReads == Spec => []ReadsAreWhole
<1>1. Inv => ReadsAreWhole
  BY DEF Inv, Reading, ReadsAreWhole
<1> QED BY <1>1, Invariance, PTL

(* Whatever is killed, fails or loses power between the steps of Save, the *)
(* binding found afterwards is whole and none older than the last that was *)
(* reported (state.go:103-127).                                            *)
THEOREM Survival == Spec => []SurvivesPowerLoss
<1>1. Inv => SurvivesPowerLoss
  <2> SUFFICES ASSUME Inv PROVE SurvivesPowerLoss
      OBVIOUS
  <2>1. \A d \in kept : d[Leaf] \in Nat /\ reported \in Nat
    BY BoundAssumption DEF Inv, Typed, TypeOK, Directories
  <2>2. ReportedIsDurable
    BY <2>1 DEF Inv, Order, ReportedIsDurable
  <2> QED BY <2>2 DEF Inv, SurvivesPowerLoss
<1> QED BY <1>1, Invariance, PTL

(* The deferred Remove, which goes by the name, never takes the staging    *)
(* file of another Save, and what stays behind a kill, a power loss or a   *)
(* failed Remove left (state.go:101-104).                                  *)
THEOREM OwnStaging == Spec => [](StagingIsOwn /\ NoResidue)
<1>1. Inv => StagingIsOwn /\ NoResidue
  BY DEF Inv, Session, StagingIsOwn, Staging
<1> QED BY <1>1, Invariance, PTL

(* What Load returns after a Save that succeeds is what Save was given, as *)
(* long as every path is valid UTF-8 (state.go:82, state.go:174).          *)
THEOREM LoadsWhatIsSaved ==
    ASSUME Raw = {}
    PROVE  Spec => []SavedIsLoaded
<1>1. Inv => SavedIsLoaded
  <2> SUFFICES ASSUME Inv, NEW w \in Writers, at[w] = "Discard", reported = node[w]
               PROVE  Binding(dir) = repo[w]
      BY DEF SavedIsLoaded
  <2>1. dir[Leaf] = node[w] /\ data[node[w]] = Encode(repo[w]) /\ node[w] \in Files
    BY DEF Inv, Saved, Typed, Busy
  <2>2. node[w] # NoFile
    BY <2>1 DEF Files, NoFile
  <2> QED BY <2>1, <2>2 DEF Binding, Encode
<1> QED BY <1>1, Invariance, PTL

-----------------------------------------------------------------------------
(* Stored sources and their directories: SusuDirectories                   *)

Inner == Node \cup {Root}
Inside == Node \cup {Absent, Symlink, File}

(* No entry leads to the root or out of the repository, and nothing is     *)
(* changed in the directory that links lead to.                            *)
FilesOK ==
    /\ tree \in [Stored!Directory -> [Name -> Stored!Entry]]
    /\ survives \in [Stored!Directory -> [Name -> SUBSET Inside]]
    /\ used \subseteq Node
    /\ \A d \in Stored!Directory, n \in Name : tree[d][n] \in survives[d][n]
    /\ \A n \in Name : survives[Outside][n] = {tree[Outside][n]}

CommandOK ==
    /\ listed \subseteq Sources /\ listedDisk \subseteq SUBSET Sources
    /\ pc \in {"idle", "walk", "mkdir", "reopen", "linked", "commit", "committed",
               "unlink", "unlinked"}
    /\ op \in {"write", "inspect", "remove"}
    /\ source \in Sources /\ depth \in 0..(Len(source) - 1)
    /\ pc \in {"mkdir", "reopen"} => depth # Len(source) - 1
    /\ descriptor \in Inner
    /\ changes \in 0..MaxChanges
    /\ excused \subseteq Sources /\ vanished \subseteq Sources

(* A directory has one place, for ever; one that has yet to be made has    *)
(* none, and nothing in it.                                                *)
OnePlace ==
    /\ \A d, e \in Stored!Directory, m, n \in Name :
          \A x \in Node : x \in survives[d][m] /\ x \in survives[e][n] => d = e /\ m = n
    /\ \A x \in Node \ used :
          /\ \A d \in Stored!Directory, n \in Name : x \notin survives[d][n]
          /\ \A n \in Name : survives[x][n] = {Absent}

(* The descriptor is where the source's walk has come to, unless that was  *)
(* displaced, and no other way leads there.                                *)
OneWay ==
    /\ descriptor \in used \cup {Root}
    /\ source \notin excused => Stored!Walk(source)[depth] = descriptor
    /\ \A s \in Sources : \A j \in 0..Len(s) :
          Stored!Walk(s)[j] = descriptor =>
              j = depth /\ \A i \in 1..depth : s[i] = source[i]

(* On the way to a source no directory but the one there may come back.    *)
Settled ==
    \A s \in Sources \ excused : \A i \in 1..(Len(s) - 1) :
        Stored!Walk(s)[i - 1] \in Inner =>
            survives[Stored!Walk(s)[i - 1]][s[i]] \cap Node \subseteq {Stored!Walk(s)[i]}

(* What susu.json may refer to after a power loss, and has to be there.    *)
Owed == (UNION listedDisk) \ (excused \cup vanished)

(* It is stored for good.                                                  *)
Durable ==
    \A s \in Owed :
        Stored!Stored(s) /\ survives[Stored!Parent(s)][Stored!Leaf(s)] = {File}

(* What a command that writes, or removes, has made sure of.               *)
Writing == pc = "linked" \/ (pc = "commit" /\ op = "write")

Underway ==
    /\ listed \in listedDisk
    /\ Writing \/ op = "remove" => source \notin Owed
    /\ pc = "committed" /\ op = "inspect" => source \notin listed
    /\ pc \in {"linked", "commit", "unlink", "unlinked"} => depth = Len(source) - 1
    /\ pc \in {"mkdir", "reopen"} => op = "write"
    /\ pc = "linked" => op = "write"
    /\ pc \in {"unlink", "unlinked"} => op = "remove"
    /\ Writing /\ source \notin excused =>
          /\ tree[descriptor][Stored!Leaf(source)] = File
          /\ pc = "commit" => survives[descriptor][Stored!Leaf(source)] = {File}

DirectoriesInv == FilesOK /\ CommandOK /\ OnePlace /\ OneWay /\ Settled /\ Durable /\ Underway

-----------------------------------------------------------------------------
(* Where a source's way leads                                              *)

(* Every nonempty set of numbers has a least element.                      *)
LEMMA Least ==
    ASSUME NEW T \in SUBSET Nat, T # {}
    PROVE  \E x \in T : \A y \in T : x =< y
<1>1. PICK x \in T : \A y \in T : <<y, x>> \notin OpToRel(<, Nat)
  BY NatLessThanWellFounded, WFMin, Zenon
<1>2. \A y \in Nat : y < x => <<y, x>> \in OpToRel(<, Nat)
  BY DEF OpToRel
<1>3. \A y \in T : ~(y < x)
  BY <1>1, <1>2, Zenon
<1> QED BY <1>3

(* Induction up to a bound.                                                *)
LEMMA UpTo ==
    ASSUME NEW k \in Nat, NEW S, 0 \in S, \A i \in 0..k : i \in S /\ i < k => i + 1 \in S
    PROVE  0..k \subseteq S
<1> SUFFICES ASSUME (0..k) \ S # {} PROVE FALSE
  OBVIOUS
<1>1. PICK x \in (0..k) \ S : \A y \in (0..k) \ S : x =< y
  <2>1. (0..k) \ S \in SUBSET Nat
    OBVIOUS
  <2> QED BY <2>1, Least
<1>2. x - 1 \in 0..k /\ x - 1 \in S
  BY <1>1
<1> QED BY <1>1, <1>2

(* The function that Way defines exists.                                   *)
LEMMA WayExists ==
    ASSUME NEW t, NEW s \in Seq(Name)
    PROVE  \E g : g = [i \in 0..Len(s) |->
                          IF i = 0 THEN Root
                          ELSE IF g[i - 1] \in Inner THEN t[g[i - 1]][s[i]] ELSE Absent]
<1> DEFINE Next1(g, i) == IF g[i - 1] \in Inner THEN t[g[i - 1]][s[i]] ELSE Absent
           IsWay(g, k) == g = [i \in 0..k |-> IF i = 0 THEN Root ELSE Next1(g, i)]
           S == {k \in 0..Len(s) : \E g : IsWay(g, k)}
<1>1. 0 \in S
  <2> DEFINE g == [i \in 0..0 |-> Root]
  <2>1. g = [i \in 0..0 |-> IF i = 0 THEN Root ELSE Next1(g, i)]
    OBVIOUS
  <2> HIDE DEF g
  <2> QED BY <2>1
<1>2. ASSUME NEW k \in 0..Len(s), k \in S, k < Len(s) PROVE k + 1 \in S
  <2>1. PICK g : IsWay(g, k)
    BY <1>2
  <2> DEFINE h == [i \in 0..(k + 1) |-> IF i <= k THEN g[i] ELSE Next1(g, k + 1)]
  <2>2. \A i \in 0..k : h[i] = g[i]
    OBVIOUS
  <2>3. h[0] = Root
    BY <2>1, <2>2
  <2>4. \A i \in 1..k : h[i] = Next1(h, i)
    <3> HIDE DEF h
    <3>1. \A i \in 1..k : g[i] = Next1(g, i)
      BY <2>1
    <3> QED BY <2>2, <3>1
  <2>5. h[k + 1] = Next1(h, k + 1)
    BY <2>2
  <2>6. \A i \in 0..(k + 1) : h[i] = IF i = 0 THEN Root ELSE Next1(h, i)
    <3> HIDE DEF h, Next1
    <3> QED BY <2>3, <2>4, <2>5
  <2>7. h = [i \in 0..(k + 1) |-> h[i]]
    OBVIOUS
  <2> HIDE DEF h, Next1
  <2>8. IsWay(h, k + 1)
    BY <2>6, <2>7
  <2> QED BY <2>8
<1>3. 0..Len(s) \subseteq S
  <2> HIDE DEF S
  <2> QED BY <1>1, <1>2, UpTo
<1>4. PICK g : IsWay(g, Len(s))
  <2>1. Len(s) \in 0..Len(s)
    OBVIOUS
  <2> QED BY <1>3, <2>1
<1> QED BY <1>4

(* A way begins at the root, and goes from entry to entry.                 *)
LEMMA WayIs ==
    ASSUME NEW t, NEW s \in Seq(Name)
    PROVE  /\ Stored!Way(t, s)[0] = Root
           /\ \A i \in 1..Len(s) :
                 Stored!Way(t, s)[i] =
                    IF Stored!Way(t, s)[i - 1] \in Inner
                    THEN t[Stored!Way(t, s)[i - 1]][s[i]] ELSE Absent
<1> DEFINE w == Stored!Way(t, s)
       P(g) == g = [i \in 0..Len(s) |->
                        IF i = 0 THEN Root
                        ELSE IF g[i - 1] \in Node \cup {Root}
                             THEN t[g[i - 1]][s[i]] ELSE Absent]
<1>1. P(w)
  <2>1. \E g : P(g)
    BY WayExists DEF Inner
  <2>2. w = CHOOSE g : P(g)
    BY DEF Stored!Way
  <2> HIDE DEF P, w
  <2> QED BY <2>1, <2>2, Zenon
<1> HIDE DEF w
<1>2. w[0] = Root
  BY <1>1
<1>3. \A i \in 1..Len(s) : w[i] = IF w[i - 1] \in Inner THEN t[w[i - 1]][s[i]] ELSE Absent
  BY <1>1 DEF Inner
<1> QED BY <1>2, <1>3 DEF w

(* A way that has come to a directory has come through directories.        *)
LEMMA WayThrough ==
    ASSUME NEW t, NEW s \in Seq(Name), NEW k \in 0..Len(s),
           Absent \notin Inner, Stored!Way(t, s)[k] \in Inner
    PROVE  \A i \in 0..k : Stored!Way(t, s)[i] \in Inner
<1> DEFINE w == Stored!Way(t, s)
           S == {n \in 0..k : w[k - n] \in Inner}
<1>1. \A i \in 1..Len(s) : w[i] \in Inner => w[i - 1] \in Inner
  BY WayIs
<1> HIDE DEF w
<1>2. 0 \in S
  BY DEF w
<1>3. ASSUME NEW n \in 0..k, n \in S, n < k PROVE n + 1 \in S
  <2>1. k - n \in 1..Len(s) /\ k - (n + 1) = (k - n) - 1 /\ n + 1 \in 0..k
    BY <1>3
  <2> QED BY <1>1, <1>3, <2>1
<1>4. 0..k \subseteq S
  <2> HIDE DEF S
  <2> QED BY <1>2, <1>3, UpTo
<1>5. \A i \in 0..k : k - i \in 0..k /\ k - (k - i) = i
  OBVIOUS
<1> QED BY <1>4, <1>5 DEF w

(* Two trees that agree on the entries on a way lead it to the same place. *)
LEMMA WayAgrees ==
    ASSUME NEW t, NEW u, NEW s \in Seq(Name), NEW k \in 0..Len(s),
           \A i \in 1..k : LET d == Stored!Way(t, s)[i - 1]
                           IN d \in Inner => u[d][s[i]] = t[d][s[i]]
    PROVE  \A i \in 0..k : Stored!Way(u, s)[i] = Stored!Way(t, s)[i]
<1> DEFINE v == Stored!Way(t, s)
           w == Stored!Way(u, s)
           S == {i \in 0..k : w[i] = v[i]}
<1>1. v[0] = Root /\ w[0] = Root
  BY WayIs
<1>2. \A i \in 1..Len(s) : /\ v[i] = IF v[i - 1] \in Inner THEN t[v[i - 1]][s[i]] ELSE Absent
                           /\ w[i] = IF w[i - 1] \in Inner THEN u[w[i - 1]][s[i]] ELSE Absent
  BY WayIs
<1>3. \A i \in 1..k : v[i - 1] \in Inner => u[v[i - 1]][s[i]] = t[v[i - 1]][s[i]]
  OBVIOUS
<1> HIDE DEF v, w
<1>4. 0 \in S
  BY <1>1
<1>5. ASSUME NEW i \in 0..k, i \in S, i < k PROVE i + 1 \in S
  <2>1. i + 1 \in 1..k /\ i + 1 \in 1..Len(s) /\ (i + 1) - 1 = i /\ w[i] = v[i]
    BY <1>5
  <2>2. w[i + 1] = v[i + 1]
    BY <1>2, <1>3, <2>1
  <2> QED BY <2>1, <2>2
<1>6. 0..k \subseteq S
  <2>1. k \in Nat
    OBVIOUS
  <2> HIDE DEF S
  <2> QED BY <1>4, <1>5, <2>1, UpTo
<1> QED BY <1>6 DEF v, w

-----------------------------------------------------------------------------
(* Steps stay inside the repository                                        *)

LEMMA KindsApart ==
    /\ Inner \subseteq Stored!Directory /\ Inside \subseteq Stored!Entry
    /\ Outside \notin Inner /\ Outside \in Stored!Directory /\ Root \in Inner
    /\ Root \notin Node /\ Node \subseteq Inner /\ Node \subseteq Inside
    /\ Absent \in Inside /\ Symlink \in Inside /\ File \in Inside
    /\ Absent \notin Stored!Directory /\ File \notin Stored!Directory
    /\ Symlink \notin Stored!Directory
    /\ Inside \cap Stored!Directory = Node
    /\ Absent # Symlink /\ Absent # File /\ Symlink # File
BY DirectoriesAssumption DEF Inner, Inside, Stored!Directory, Stored!Entry

LEMMA SourceIs ==
    ASSUME NEW s \in Sources
    PROVE  /\ s \in Seq(Name) /\ Len(s) \in Nat /\ Len(s) >= 2
           /\ \A i \in 1..Len(s) : s[i] \in Name
           /\ Stored!Leaf(s) \in Name /\ Stored!Leaf(s) = s[Len(s)]
<1>1. s \in Seq(Name) /\ Len(s) >= 2
  BY DirectoriesAssumption
<1> QED BY <1>1 DEF Stored!Leaf

LEMMA TypesFollow == FilesOK /\ CommandOK => Stored!TypeOK
<1> SUFFICES ASSUME FilesOK, CommandOK PROVE Stored!TypeOK
  OBVIOUS
<1>1. survives \in [Stored!Directory -> [Name -> SUBSET Stored!Entry]]
  BY KindsApart DEF FilesOK
<1> QED BY <1>1, KindsApart DEF FilesOK, CommandOK, Stored!TypeOK

(* What an entry of the repository is.                                     *)
LEMMA EntryIs ==
    ASSUME FilesOK, NEW d \in Stored!Directory, NEW n \in Name
    PROVE  tree[d][n] \in Inside /\ tree[d][n] \in survives[d][n]
           /\ (tree[d][n] \in Stored!Directory => tree[d][n] \in Node)
<1>1. tree[d][n] \in survives[d][n] /\ survives[d][n] \subseteq Inside
  BY DEF FilesOK
<1> QED BY <1>1, KindsApart

LEMMA HereIs ==
    ASSUME FilesOK, CommandOK
    PROVE  /\ source[depth + 1] \in Name /\ Stored!Leaf(source) \in Name
           /\ descriptor \in Stored!Directory
           /\ Stored!Here = tree[descriptor][source[depth + 1]]
           /\ Stored!Here \in Inside
           /\ Stored!Here \in Stored!Directory => Stored!Here \in Node
           /\ depth = Len(source) - 1 => source[depth + 1] = Stored!Leaf(source)
<1>1. source \in Sources /\ depth \in 0..(Len(source) - 1) /\ descriptor \in Inner
  BY DEF CommandOK
<1>2. Len(source) \in Nat /\ \A i \in 1..Len(source) : source[i] \in Name
  BY <1>1, SourceIs
<1>3. depth + 1 \in 1..Len(source)
  BY <1>1, <1>2
<1>4. descriptor \in Stored!Directory
  BY <1>1, KindsApart
<1>5. source[depth + 1] \in Name
  BY <1>2, <1>3
<1>6. depth = Len(source) - 1 => source[depth + 1] = Stored!Leaf(source)
  BY <1>1, <1>2 DEF Stored!Leaf
<1> QED BY <1>1, <1>4, <1>5, <1>6, EntryIs, SourceIs DEF Stored!Here

(* The effect of one change of an entry.                                   *)
EntryChanges(d, n, entry) ==
    \A e \in Stored!Directory, m \in Name :
        /\ tree'[e][m] = IF e = d /\ m = n THEN entry ELSE tree[e][m]
        /\ survives'[e][m] = IF e = d /\ m = n THEN survives[e][m] \cup {entry}
                             ELSE survives[e][m]

LEMMA PutIs ==
    ASSUME FilesOK, NEW d \in Stored!Directory, NEW n \in Name, NEW entry \in Inside,
           Stored!Put(d, n, entry)
    PROVE  /\ tree' \in [Stored!Directory -> [Name -> Stored!Entry]]
           /\ survives' \in [Stored!Directory -> [Name -> SUBSET Inside]]
           /\ EntryChanges(d, n, entry)
           /\ \A e \in Stored!Directory : e # d => tree'[e] = tree[e]
<1>1. /\ tree \in [Stored!Directory -> [Name -> Stored!Entry]]
      /\ survives \in [Stored!Directory -> [Name -> SUBSET Inside]]
      /\ tree' = [tree EXCEPT ![d][n] = entry]
      /\ survives' = [survives EXCEPT ![d][n] = @ \cup {entry}]
  BY DEF FilesOK, Stored!Put
<1>2. entry \in Stored!Entry
  BY KindsApart
<1>3. tree' \in [Stored!Directory -> [Name -> Stored!Entry]]
  BY <1>1, <1>2
<1>4. survives' \in [Stored!Directory -> [Name -> SUBSET Inside]]
  BY <1>1
<1>5. \A e \in Stored!Directory, m \in Name :
         tree'[e][m] = IF e = d /\ m = n THEN entry ELSE tree[e][m]
  BY <1>1
<1>6. \A e \in Stored!Directory, m \in Name :
         survives'[e][m] = IF e = d /\ m = n THEN survives[e][m] \cup {entry}
                           ELSE survives[e][m]
  BY <1>1
<1>7. \A e \in Stored!Directory : e # d => tree'[e] = tree[e]
  BY <1>1
<1> QED BY <1>3, <1>4, <1>5, <1>6, <1>7 DEF EntryChanges

LEMMA PutInside ==
    ASSUME FilesOK, NEW d \in Inner, NEW n \in Name, NEW entry \in Inside,
           Stored!Put(d, n, entry), used' \subseteq Node
    PROVE  FilesOK' /\ tree'[Outside] = tree[Outside]
<1>1. d \in Stored!Directory /\ d # Outside /\ Outside \in Stored!Directory
  BY KindsApart
<1>2. /\ tree' \in [Stored!Directory -> [Name -> Stored!Entry]]
      /\ survives' \in [Stored!Directory -> [Name -> SUBSET Inside]]
      /\ EntryChanges(d, n, entry)
      /\ \A e \in Stored!Directory : e # d => tree'[e] = tree[e]
  BY <1>1, PutIs
<1>3. tree'[Outside] = tree[Outside]
  BY <1>1, <1>2
<1>4. \A m \in Name : survives'[Outside][m] = survives[Outside][m]
  BY <1>1, <1>2 DEF EntryChanges
<1>5. \A e \in Stored!Directory, m \in Name : tree[e][m] \in survives[e][m]
  BY DEF FilesOK
<1>6. \A e \in Stored!Directory, m \in Name : tree'[e][m] \in survives'[e][m]
  BY <1>2, <1>5 DEF EntryChanges
<1> QED BY <1>2, <1>3, <1>4, <1>6 DEF FilesOK

LEMMA SyncInside ==
    ASSUME FilesOK, NEW d \in Stored!Directory, Stored!Sync(d), UNCHANGED <<tree, used>>
    PROVE  /\ FilesOK'
           /\ \A e \in Stored!Directory, m \in Name :
                 survives'[e][m] = IF e = d THEN {tree[e][m]} ELSE survives[e][m]
<1>1. /\ survives \in [Stored!Directory -> [Name -> SUBSET Inside]]
      /\ survives' = [survives EXCEPT ![d] = [n \in Name |-> {tree[d][n]}]]
  BY DEF FilesOK, Stored!Sync
<1>2. \A e \in Stored!Directory, m \in Name :
         survives'[e][m] = IF e = d THEN {tree[e][m]} ELSE survives[e][m]
  BY <1>1
<1>3. [n \in Name |-> {tree[d][n]}] \in [Name -> SUBSET Inside]
  BY EntryIs
<1>4. survives' \in [Stored!Directory -> [Name -> SUBSET Inside]]
  BY <1>1, <1>3
<1>5. \A e \in Stored!Directory, m \in Name : tree[e][m] \in survives'[e][m]
  BY <1>2 DEF FilesOK
<1>6. \A m \in Name : survives'[Outside][m] = {tree[Outside][m]}
  BY <1>2, KindsApart DEF FilesOK
<1> QED BY <1>2, <1>4, <1>5, <1>6 DEF FilesOK

(* What a power loss leaves is what may survive.                           *)
LEMMA PowerLossIs ==
    ASSUME FilesOK, Stored!PowerLoss
    PROVE  /\ FilesOK' /\ tree'[Outside] = tree[Outside] /\ used' = used
           /\ \A d \in Stored!Directory, n \in Name :
                 tree'[d][n] \in survives[d][n] /\ survives'[d][n] = {tree'[d][n]}
<1>1. PICK left \in [Stored!Unsettled ->
                        UNION {survives[e[1]][e[2]] : e \in Stored!Unsettled}] :
         /\ \A e \in Stored!Unsettled : left[e] \in survives[e[1]][e[2]]
         /\ tree' = [d \in Stored!Directory |-> [n \in Name |->
                        IF <<d, n>> \in Stored!Unsettled THEN left[<<d, n>>] ELSE tree[d][n]]]
  BY DEF Stored!PowerLoss
<1>2. survives' = [d \in Stored!Directory |-> [n \in Name |-> {tree'[d][n]}]] /\ used' = used
  BY DEF Stored!PowerLoss
<1>3. ASSUME NEW d \in Stored!Directory, NEW n \in Name
      PROVE  tree'[d][n] \in survives[d][n] /\ survives'[d][n] = {tree'[d][n]}
  <2>1. tree'[d][n] = IF <<d, n>> \in Stored!Unsettled THEN left[<<d, n>>] ELSE tree[d][n]
    BY <1>1
  <2>2. <<d, n>> \in Stored!Unsettled => left[<<d, n>>] \in survives[d][n]
    BY <1>1
  <2> QED BY <1>2, <2>1, <2>2 DEF FilesOK
<1>4. \A d \in Stored!Directory, n \in Name : survives[d][n] \subseteq Inside
  BY DEF FilesOK
<1>5. tree' \in [Stored!Directory -> [Name -> Stored!Entry]]
  <2>1. \A d \in Stored!Directory, n \in Name : tree'[d][n] \in Stored!Entry
    BY <1>3, <1>4, KindsApart
  <2>2. tree' = [d \in Stored!Directory |-> [n \in Name |-> tree'[d][n]]]
    BY <1>1
  <2> QED BY <2>1, <2>2
<1>6. survives' \in [Stored!Directory -> [Name -> SUBSET Inside]]
  BY <1>2, <1>3, <1>4
<1>7. tree'[Outside] = tree[Outside]
  <2>1. \A n \in Name : tree'[Outside][n] = tree[Outside][n]
    BY <1>3, KindsApart DEF FilesOK
  <2>2. tree[Outside] \in [Name -> Stored!Entry] /\ tree'[Outside] \in [Name -> Stored!Entry]
    BY <1>5, KindsApart DEF FilesOK
  <2> QED BY <2>1, <2>2
<1>8. \A n \in Name : survives'[Outside][n] = {tree'[Outside][n]}
  BY <1>3, KindsApart
<1> QED BY <1>2, <1>3, <1>5, <1>6, <1>7, <1>8 DEF FilesOK

LEMMA ContainedInit == Stored!Init => FilesOK /\ CommandOK
<1> SUFFICES ASSUME Stored!Init PROVE FilesOK /\ CommandOK
  OBVIOUS
<1>1. PICK top \in Node, s \in Sources :
         /\ used = {top}
         /\ tree = [d \in Stored!Directory |-> [n \in Name |->
                       IF d = Root /\ n = Head(s) THEN top
                       ELSE IF d = Outside /\ n = Stored!Leaf(s) THEN File ELSE Absent]]
  BY DEF Stored!Init
<1>2. survives = [d \in Stored!Directory |-> [n \in Name |-> {tree[d][n]}]]
  BY DEF Stored!Init
<1>3. \A d \in Stored!Directory, n \in Name : tree[d][n] \in Inside
  BY <1>1, KindsApart
<1>4. tree \in [Stored!Directory -> [Name -> Stored!Entry]]
  BY <1>1, KindsApart
<1>5. survives \in [Stored!Directory -> [Name -> SUBSET Inside]]
  BY <1>2, <1>3
<1>6. FilesOK
  BY <1>1, <1>2, <1>4, <1>5, KindsApart DEF FilesOK
<1>7. Len(source) \in Nat /\ Len(source) >= 2
  BY SourceIs DEF Stored!Init
<1>8. CommandOK
  BY <1>7, KindsApart, DirectoriesAssumption DEF Stored!Init, CommandOK
<1> QED BY <1>6, <1>8

(* Commands that end, begin or go on without a change of the files.        *)
LEMMA CommandEnds ==
    ASSUME CommandOK, Stored!End,
           listed' \subseteq Sources, listedDisk' \subseteq SUBSET Sources,
           changes' \in 0..MaxChanges, excused' \subseteq Sources, vanished' \subseteq Sources
    PROVE  CommandOK'
<1>1. Len(source) \in Nat /\ Len(source) >= 2
  BY SourceIs DEF CommandOK
<1> QED BY <1>1, KindsApart DEF CommandOK, Stored!End, Stored!Goto

LEMMA CommandWalks ==
    ASSUME CommandOK, NEW s \in Sources, NEW o \in {"write", "inspect", "remove"},
           Stored!StartWalk(o, s),
           listed' \subseteq Sources, listedDisk' \subseteq SUBSET Sources,
           changes' \in 0..MaxChanges, excused' \subseteq Sources, vanished' \subseteq Sources
    PROVE  CommandOK'
<1>1. Len(s) \in Nat /\ Len(s) >= 2
  BY SourceIs
<1> QED BY <1>1, KindsApart DEF CommandOK, Stored!StartWalk, Stored!Goto

LEMMA CommandStays ==
    ASSUME CommandOK, UNCHANGED <<op, source, depth, descriptor>>,
           pc' \in {"linked", "commit", "committed", "unlink", "unlinked", pc},
           listed' \subseteq Sources, listedDisk' \subseteq SUBSET Sources,
           changes' \in 0..MaxChanges, excused' \subseteq Sources, vanished' \subseteq Sources
    PROVE  CommandOK'
BY DEF CommandOK

(* The walk of OpenParent.                                                 *)
LEMMA ContainedWalk ==
    ASSUME FilesOK, CommandOK,
           \/ Stored!Open \/ Stored!Missing \/ Stored!Mkdir \/ Stored!Blocked
    PROVE  FilesOK' /\ CommandOK' /\ tree'[Outside] = tree[Outside]
<1> USE DEF Stored!files, Stored!saved, Stored!history, Stored!Goto
<1>1. source \in Sources /\ Len(source) \in Nat /\ Len(source) >= 2
      /\ depth \in 0..(Len(source) - 1) /\ descriptor \in Inner
  BY SourceIs DEF CommandOK
<1>2. CASE Stored!Open
  <2>1. /\ depth # Len(source) - 1 /\ Stored!Here \in Stored!Directory
        /\ descriptor' = Stored!Here /\ depth' = depth + 1 /\ pc' = "walk"
        /\ UNCHANGED <<tree, survives, used, listed, listedDisk, op, source,
                       changes, excused, vanished>>
    BY <1>2 DEF Stored!Open, Stored!Arrived
  <2>2. descriptor' \in Inner /\ depth' \in 0..(Len(source) - 1)
    BY <1>1, <2>1, HereIs, KindsApart
  <2> QED BY <2>1, <2>2 DEF FilesOK, CommandOK
<1>3. CASE Stored!Missing
  <2>1. /\ depth # Len(source) - 1 /\ pc' = "mkdir"
        /\ UNCHANGED <<tree, survives, used, listed, listedDisk, op, source, depth,
                       descriptor, changes, excused, vanished>>
    BY <1>3 DEF Stored!Missing, Stored!Arrived
  <2> QED BY <2>1 DEF FilesOK, CommandOK
<1>4. CASE Stored!Mkdir
  <2>1. /\ pc = "mkdir" /\ pc' = "reopen"
        /\ UNCHANGED <<listed, listedDisk, op, source, depth, descriptor, changes,
                       excused, vanished>>
    BY <1>4 DEF Stored!Mkdir
  <2>2. CommandOK'
    BY <2>1 DEF CommandOK
  <2>3. CASE UNCHANGED <<tree, survives, used>>
    BY <2>2, <2>3 DEF FilesOK
  <2>4. CASE \E n \in Node : Stored!Make(descriptor, source[depth + 1], n)
    <3>1. PICK n \in Node : Stored!Make(descriptor, source[depth + 1], n)
      BY <2>4
    <3>2. used' \subseteq Node /\ n \in Inside
      BY <3>1, KindsApart DEF Stored!Make, FilesOK
    <3> QED BY <1>1, <2>2, <3>1, <3>2, HereIs, PutInside DEF Stored!Make
  <2> QED BY <1>4, <2>3, <2>4 DEF Stored!Mkdir
<1>5. CASE Stored!Blocked
  <2>1. Stored!End /\ UNCHANGED <<tree, survives, used, listed, listedDisk, changes,
                                  excused, vanished>>
    BY <1>5 DEF Stored!Blocked
  <2>2. CommandOK'
    BY <2>1, CommandEnds DEF CommandOK
  <2> QED BY <2>1, <2>2 DEF FilesOK
<1> QED BY <1>2, <1>3, <1>4, <1>5

(* The steps of add.                                                       *)
LEMMA ContainedAdd ==
    ASSUME FilesOK, CommandOK,
           \/ \E s \in Sources : Stored!BeginAdd(s)
           \/ Stored!Link \/ Stored!SyncSource \/ Stored!LinkUndone
           \/ Stored!CommitAddition \/ Stored!CommitFails
    PROVE  FilesOK' /\ CommandOK' /\ tree'[Outside] = tree[Outside]
<1> USE DEF Stored!files, Stored!saved, Stored!history, Stored!Goto
<1>1. /\ source \in Sources /\ descriptor \in Inner /\ descriptor \in Stored!Directory
      /\ Stored!Leaf(source) \in Name /\ File \in Inside /\ Absent \in Inside
      /\ listed \subseteq Sources /\ listedDisk \subseteq SUBSET Sources
      /\ changes \in 0..MaxChanges /\ excused \subseteq Sources /\ vanished \subseteq Sources
      /\ used \subseteq Node
  BY HereIs, KindsApart DEF CommandOK, FilesOK
<1>2. ASSUME NEW s \in Sources, Stored!BeginAdd(s)
      PROVE  FilesOK' /\ CommandOK' /\ tree'[Outside] = tree[Outside]
  <2>1. Stored!StartWalk("write", s)
        /\ UNCHANGED <<tree, survives, used, listed, listedDisk, changes, excused, vanished>>
    BY <1>2 DEF Stored!BeginAdd
  <2>2. CommandOK'
    BY <1>1, <2>1, CommandWalks
  <2> QED BY <2>1, <2>2 DEF FilesOK
<1>3. CASE Stored!Link
  <2>1. UNCHANGED <<listed, listedDisk, changes, excused, vanished>>
    BY <1>3 DEF Stored!Link
  <2>2. CASE Stored!End /\ UNCHANGED <<tree, survives, used>>
    <3>1. CommandOK'
      BY <1>1, <2>1, <2>2, CommandEnds
    <3> QED BY <2>2, <3>1 DEF FilesOK
  <2>3. CASE /\ Stored!Put(descriptor, Stored!Leaf(source), File)
             /\ pc' = "linked" /\ UNCHANGED <<used, op, source, depth, descriptor>>
    <3>1. CommandOK'
      BY <1>1, <2>1, <2>3, CommandStays
    <3> QED BY <1>1, <2>3, <3>1, PutInside
  <2> QED BY <1>3, <2>2, <2>3 DEF Stored!Link
<1>4. CASE Stored!SyncSource
  <2>1. Stored!Sync(descriptor) /\ pc' = "commit"
        /\ UNCHANGED <<tree, used, listed, listedDisk, op, source, depth, descriptor,
                       changes, excused, vanished>>
    BY <1>4 DEF Stored!SyncSource
  <2>2. CommandOK'
    BY <1>1, <2>1, CommandStays
  <2> QED BY <1>1, <2>1, <2>2, SyncInside
<1>5. CASE Stored!LinkUndone
  <2>1. Stored!End /\ UNCHANGED <<listed, listedDisk, changes, excused, vanished>>
    BY <1>5 DEF Stored!LinkUndone
  <2>2. CommandOK'
    BY <1>1, <2>1, CommandEnds
  <2>3. CASE UNCHANGED <<tree, survives, used>>
    BY <2>2, <2>3 DEF FilesOK
  <2>4. CASE Stored!Put(descriptor, Stored!Leaf(source), Absent) /\ UNCHANGED used
    BY <1>1, <2>2, <2>4, PutInside
  <2> QED BY <1>5, <2>3, <2>4 DEF Stored!LinkUndone
<1>6. CASE Stored!CommitAddition
  <2>1. /\ listed' = listed \cup {source} /\ listedDisk' = listedDisk \cup {listed'}
        /\ pc' = "committed"
        /\ UNCHANGED <<tree, survives, used, op, source, depth, descriptor, changes,
                       excused, vanished>>
    BY <1>6 DEF Stored!CommitAddition, Stored!Save
  <2>2. CommandOK'
    BY <1>1, <2>1, CommandStays
  <2> QED BY <2>1, <2>2 DEF FilesOK
<1>7. CASE Stored!CommitFails
  <2>1. Stored!StartWalk("remove", source)
        /\ UNCHANGED <<tree, survives, used, listed, listedDisk, changes, excused, vanished>>
    BY <1>7 DEF Stored!CommitFails
  <2>2. CommandOK'
    BY <1>1, <2>1, CommandWalks
  <2> QED BY <2>1, <2>2 DEF FilesOK
<1> QED BY <1>2, <1>3, <1>4, <1>5, <1>6, <1>7

(* The steps of rm, and the sync of susu.json's directory.                 *)
LEMMA ContainedRemove ==
    ASSUME FilesOK, CommandOK,
           \/ \E s \in Sources : Stored!BeginRemove(s)
           \/ Stored!SyncManifest \/ Stored!SyncManifestFails
           \/ Stored!Inspect \/ Stored!CommitRemoval \/ Stored!Unlink
           \/ Stored!SyncRemoval \/ Stored!Kill
    PROVE  FilesOK' /\ CommandOK' /\ tree'[Outside] = tree[Outside]
<1> USE DEF Stored!files, Stored!saved, Stored!history, Stored!Goto
<1>1. /\ source \in Sources /\ descriptor \in Inner /\ descriptor \in Stored!Directory
      /\ Stored!Leaf(source) \in Name /\ File \in Inside /\ Absent \in Inside
      /\ listed \subseteq Sources /\ listedDisk \subseteq SUBSET Sources
      /\ changes \in 0..MaxChanges /\ excused \subseteq Sources /\ vanished \subseteq Sources
      /\ used \subseteq Node /\ Root \in Stored!Directory
  BY HereIs, KindsApart DEF CommandOK, FilesOK
<1>2. ASSUME NEW s \in Sources, Stored!BeginRemove(s)
      PROVE  FilesOK' /\ CommandOK' /\ tree'[Outside] = tree[Outside]
  <2>1. Stored!StartWalk("inspect", s)
        /\ UNCHANGED <<tree, survives, used, listed, listedDisk, changes, excused, vanished>>
    BY <1>2 DEF Stored!BeginRemove
  <2>2. CommandOK'
    BY <1>1, <2>1, CommandWalks
  <2> QED BY <2>1, <2>2 DEF FilesOK
<1>3. ASSUME Stored!Committed, listed' \subseteq Sources, listedDisk' \subseteq SUBSET Sources,
             changes' \in 0..MaxChanges, excused' \subseteq Sources, vanished' \subseteq Sources
      PROVE  CommandOK'
  BY <1>1, <1>3, CommandEnds, CommandWalks DEF Stored!Committed
<1>4. CASE Stored!SyncManifest
  <2>1. /\ Stored!Sync(Root) /\ listedDisk' = {listed} /\ Stored!Committed
        /\ UNCHANGED <<tree, used, listed, changes, excused, vanished>>
    BY <1>4 DEF Stored!SyncManifest
  <2>2. CommandOK'
    BY <1>1, <1>3, <2>1
  <2> QED BY <1>1, <2>1, <2>2, SyncInside
<1>5. CASE Stored!SyncManifestFails
  <2>1. /\ excused' \subseteq excused \cup {source} /\ Stored!Committed
        /\ UNCHANGED <<tree, survives, used, listed, listedDisk, changes, vanished>>
    BY <1>5 DEF Stored!SyncManifestFails
  <2>2. CommandOK'
    BY <1>1, <1>3, <2>1
  <2> QED BY <2>1, <2>2 DEF FilesOK
<1>6. CASE Stored!Inspect
  <2>1. UNCHANGED <<tree, survives, used, listed, listedDisk, changes, excused, vanished>>
    BY <1>6 DEF Stored!Inspect
  <2>2. \/ Stored!End
        \/ pc' \in {"unlink", "commit"} /\ UNCHANGED <<op, source, depth, descriptor>>
    BY <1>6 DEF Stored!Inspect
  <2>3. CommandOK'
    BY <1>1, <2>1, <2>2, CommandEnds, CommandStays
  <2> QED BY <2>1, <2>3 DEF FilesOK
<1>7. CASE Stored!CommitRemoval
  <2>1. /\ UNCHANGED <<tree, survives, used, changes, excused, vanished>>
        /\ listed' \subseteq listed /\ listedDisk' \subseteq listedDisk \cup {listed'}
    BY <1>7 DEF Stored!CommitRemoval, Stored!Save
  <2>2. \/ Stored!End
        \/ pc' = "committed" /\ UNCHANGED <<op, source, depth, descriptor>>
    BY <1>7 DEF Stored!CommitRemoval
  <2>3. CommandOK'
    BY <1>1, <2>1, <2>2, CommandEnds, CommandStays
  <2> QED BY <2>1, <2>3 DEF FilesOK
<1>8. CASE Stored!Unlink
  <2>1. UNCHANGED <<listed, listedDisk, changes, excused, vanished>>
    BY <1>8 DEF Stored!Unlink
  <2>2. CASE Stored!End /\ UNCHANGED <<tree, survives, used>>
    <3>1. CommandOK'
      BY <1>1, <2>1, <2>2, CommandEnds
    <3> QED BY <2>2, <3>1 DEF FilesOK
  <2>3. CASE /\ Stored!Put(descriptor, Stored!Leaf(source), Absent)
             /\ pc' = "unlinked" /\ UNCHANGED <<used, op, source, depth, descriptor>>
    <3>1. CommandOK'
      BY <1>1, <2>1, <2>3, CommandStays
    <3> QED BY <1>1, <2>3, <3>1, PutInside
  <2> QED BY <1>8, <2>2, <2>3 DEF Stored!Unlink
<1>9. CASE Stored!SyncRemoval
  <2>1. /\ Stored!End
        /\ Stored!Sync(descriptor) \/ UNCHANGED survives
        /\ UNCHANGED <<tree, used, listed, listedDisk, changes, excused, vanished>>
    BY <1>9 DEF Stored!SyncRemoval
  <2>2. CommandOK'
    BY <1>1, <1>9, <2>1, CommandEnds DEF Stored!SyncRemoval
  <2>3. CASE Stored!Sync(descriptor)
    BY <1>1, <2>1, <2>2, <2>3, SyncInside
  <2>4. CASE UNCHANGED survives
    BY <2>1, <2>2, <2>4 DEF FilesOK
  <2> QED BY <2>1, <2>3, <2>4
<1>10. CASE Stored!Kill
  <2>1. Stored!End
        /\ UNCHANGED <<tree, survives, used, listed, listedDisk, changes, excused, vanished>>
    BY <1>10 DEF Stored!Kill
  <2>2. CommandOK'
    BY <1>1, <2>1, CommandEnds
  <2> QED BY <2>1, <2>2 DEF FilesOK
<1> QED BY <1>2, <1>4, <1>5, <1>6, <1>7, <1>8, <1>9, <1>10

(* Everybody else.                                                         *)
LEMMA ContainedOthers ==
    ASSUME FilesOK, CommandOK,
           Stored!OthersMake \/ Stored!Displace \/ Stored!PowerLoss
    PROVE  FilesOK' /\ CommandOK' /\ tree'[Outside] = tree[Outside]
<1> USE DEF Stored!saved, Stored!history, Stored!command, Stored!Goto
<1>1. /\ used \subseteq Node /\ used \cup {Root} \subseteq Inner
      /\ changes \in 0..MaxChanges /\ excused \subseteq Sources /\ vanished \subseteq Sources
      /\ listed \subseteq Sources /\ listedDisk \subseteq SUBSET Sources
  BY KindsApart DEF FilesOK, CommandOK
<1>2. CASE Stored!OthersMake
  <2>1. PICK d \in used \cup {Root}, m \in Name, n \in Node :
           Stored!Make(d, m, n)
           /\ UNCHANGED <<listed, listedDisk, pc, op, source, depth, descriptor,
                          changes, excused, vanished>>
    BY <1>2 DEF Stored!OthersMake
  <2>2. used' \subseteq Node /\ n \in Inside /\ d \in Inner /\ Stored!Put(d, m, n)
    BY <1>1, <2>1, KindsApart DEF Stored!Make
  <2>3. CommandOK'
    BY <2>1 DEF CommandOK
  <2> QED BY <2>2, <2>3, PutInside
<1>3. CASE Stored!Displace
  <2>1. PICK d \in used \cup {Root}, n \in Name, entry \in {Absent, Symlink} :
           /\ changes < MaxChanges /\ changes' = changes + 1
           /\ Stored!Put(d, n, entry) /\ excused' = excused \cup Stored!Under(d, n)
           /\ UNCHANGED <<used, listed, listedDisk, pc, op, source, depth, descriptor,
                          vanished>>
    BY <1>3 DEF Stored!Displace
  <2>2. d \in Inner /\ entry \in Inside
    BY <1>1, KindsApart
  <2>3. changes' \in 0..MaxChanges /\ excused' \subseteq Sources
    BY <1>1, <2>1, DirectoriesAssumption DEF Stored!Under
  <2>4. CommandOK'
    BY <2>1, <2>3 DEF CommandOK
  <2> QED BY <1>1, <2>1, <2>2, <2>4, PutInside
<1>4. CASE Stored!PowerLoss
  <2>1. /\ changes < MaxChanges /\ changes' = changes + 1 /\ Stored!End
        /\ listed' \in listedDisk /\ listedDisk' = {listed'} /\ excused' = excused
        /\ vanished' \subseteq vanished \cup Sources
    BY <1>4 DEF Stored!PowerLoss
  <2>2. CommandOK'
    BY <1>1, <2>1, DirectoriesAssumption, CommandEnds
  <2> QED BY <1>4, <2>2, PowerLossIs
<1> QED BY <1>2, <1>3, <1>4

LEMMA ContainedNext ==
    ASSUME FilesOK, CommandOK, Stored!Next
    PROVE  FilesOK' /\ CommandOK' /\ tree'[Outside] = tree[Outside]
BY ContainedWalk, ContainedAdd, ContainedRemove, ContainedOthers DEF Stored!Next

-----------------------------------------------------------------------------
(* How ways change                                                         *)

(* One entry of a directory that there is changes, to none or to a         *)
(* directory that is new.                                                  *)
PutStep(d, m, entry) ==
    /\ Stored!Put(d, m, entry)
    /\ \/ entry \in {Absent, Symlink, File} /\ used' = used
       \/ entry \in Node \ used /\ used' = used \cup {entry}

LEMMA StepOnWay ==
    ASSUME NEW s \in Sources, NEW t
    PROVE  /\ Stored!Way(t, s)[0] = Root
           /\ \A i \in 1..Len(s) :
                 Stored!Way(t, s)[i] =
                    IF Stored!Way(t, s)[i - 1] \in Inner
                    THEN t[Stored!Way(t, s)[i - 1]][s[i]] ELSE Absent
BY WayIs, SourceIs

(* On a way to a directory every component is one, and a node but for the  *)
(* root.                                                                   *)
LEMMA OnWay ==
    ASSUME FilesOK, NEW s \in Sources, NEW k \in 0..Len(s), Stored!Walk(s)[k] \in Inner
    PROVE  /\ \A i \in 0..k : Stored!Walk(s)[i] \in Inner
           /\ \A i \in 1..k : /\ Stored!Walk(s)[i - 1] \in Inner
                              /\ Stored!Walk(s)[i] = tree[Stored!Walk(s)[i - 1]][s[i]]
                              /\ Stored!Walk(s)[i] \in Node
<1> DEFINE w == Stored!Walk(s)
<1>1. s \in Seq(Name) /\ Len(s) \in Nat /\ \A i \in 1..Len(s) : s[i] \in Name
  BY SourceIs
<1>2. \A i \in 0..k : w[i] \in Inner
  BY <1>1, WayThrough, KindsApart DEF Stored!Walk
<1>3. \A i \in 1..Len(s) : w[i] = IF w[i - 1] \in Inner THEN tree[w[i - 1]][s[i]] ELSE Absent
  BY StepOnWay DEF Stored!Walk
<1> HIDE DEF w
<1>4. ASSUME NEW i \in 1..k
      PROVE  w[i - 1] \in Inner /\ w[i] = tree[w[i - 1]][s[i]] /\ w[i] \in Node
  <2>1. i \in 1..Len(s) /\ i - 1 \in 0..k /\ i \in 0..k
    BY <1>1
  <2>2. w[i - 1] \in Inner /\ w[i] \in Inner
    BY <1>2, <2>1
  <2>3. w[i] = tree[w[i - 1]][s[i]]
    BY <1>3, <2>1, <2>2
  <2>4. w[i - 1] \in Stored!Directory /\ s[i] \in Name /\ w[i] \in Stored!Directory
    BY <1>1, <2>1, <2>2, KindsApart
  <2>5. w[i] \in Node
    BY <2>3, <2>4, EntryIs
  <2> QED BY <2>2, <2>3, <2>5
<1> QED BY <1>2, <1>4 DEF w

(* Only the way of nothing leads to the root.                              *)
LEMMA RootIsFirst ==
    ASSUME FilesOK, NEW s \in Sources, NEW j \in 0..Len(s), Stored!Walk(s)[j] = Root
    PROVE  j = 0
<1> SUFFICES ASSUME j # 0 PROVE FALSE
  OBVIOUS
<1>1. j \in 1..j
  BY SourceIs
<1>2. Stored!Walk(s)[j] \in Node
  BY <1>1, OnWay, KindsApart
<1> QED BY <1>2, KindsApart

(* A change of an entry that leads to no directory, or is not on the way,  *)
(* leaves a way to a directory as it is.                                   *)
LEMMA WayKept ==
    ASSUME FilesOK, NEW d \in Stored!Directory, NEW m \in Name, NEW entry \in Inside,
           Stored!Put(d, m, entry), NEW s \in Sources, NEW k \in 0..Len(s),
           tree[d][m] \notin Node \/ s \notin Stored!Under(d, m),
           Stored!Walk(s)[k] \in Inner
    PROVE  \A i \in 0..k : Stored!Way(tree', s)[i] = Stored!Walk(s)[i]
<1> DEFINE w == Stored!Walk(s)
<1>1. s \in Seq(Name) /\ Len(s) \in Nat /\ \A i \in 1..Len(s) : s[i] \in Name
  BY SourceIs
<1>2. \A i \in 1..k : /\ w[i - 1] \in Inner /\ w[i] = tree[w[i - 1]][s[i]] /\ w[i] \in Node
  BY OnWay
<1>3. s \notin Stored!Under(d, m) => \A i \in 1..Len(s) : ~(w[i - 1] = d /\ s[i] = m)
  BY DEF Stored!Under
<1> HIDE DEF w
<1>4. \A i \in 1..k : ~(w[i - 1] = d /\ s[i] = m)
  BY <1>1, <1>2, <1>3
<1>5. ASSUME NEW i \in 1..k PROVE tree'[w[i - 1]][s[i]] = tree[w[i - 1]][s[i]]
  <2>1. w[i - 1] \in Stored!Directory /\ s[i] \in Name
    BY <1>1, <1>2, KindsApart
  <2>2. EntryChanges(d, m, entry)
    BY PutIs
  <2> QED BY <1>4, <2>1, <2>2 DEF EntryChanges
<1>6. \A i \in 1..k : LET e == Stored!Way(tree, s)[i - 1]
                      IN e \in Inner => tree'[e][s[i]] = tree[e][s[i]]
  BY <1>5 DEF w, Stored!Walk
<1>7. \A i \in 0..k : Stored!Way(tree', s)[i] = Stored!Way(tree, s)[i]
  BY <1>1, <1>6, WayAgrees
<1> QED BY <1>7 DEF Stored!Walk

(* A change of one entry opens no new way to a directory that was there.   *)
LEMMA NoNewWay ==
    ASSUME FilesOK, FilesOK', OnePlace,
           NEW d \in used \cup {Root}, NEW m \in Name, NEW entry, PutStep(d, m, entry),
           NEW s \in Sources, NEW k \in 0..Len(s),
           Stored!Way(tree', s)[k] \in used \cup {Root}
    PROVE  Stored!Walk(s)[k] = Stored!Way(tree', s)[k]
<1> DEFINE w == Stored!Way(tree', s)
<1>1. s \in Seq(Name) /\ Len(s) \in Nat /\ \A i \in 1..Len(s) : s[i] \in Name
  BY SourceIs
<1>2. used \subseteq Node /\ d \in Stored!Directory /\ entry \in Inside /\ d \in Inner
  BY KindsApart DEF FilesOK, PutStep
<1>3. w[k] \in Inner /\ w = Stored!Walk(s)'
  BY <1>2, KindsApart DEF Stored!Walk, Inner
<1>4. \A i \in 0..k : w[i] \in Inner
  BY <1>1, <1>3, WayThrough, KindsApart
<1>5. \A i \in 1..Len(s) : w[i] = IF w[i - 1] \in Inner THEN tree'[w[i - 1]][s[i]] ELSE Absent
  BY StepOnWay
<1>6. \A e \in Stored!Directory, n \in Name :
         tree'[e][n] = IF e = d /\ n = m THEN entry ELSE tree[e][n]
  <2>1. Stored!Put(d, m, entry)
    BY DEF PutStep
  <2>2. EntryChanges(d, m, entry)
    BY <1>2, <2>1, PutIs
  <2> QED BY <2>2 DEF EntryChanges
<1>7. w[k] \in used \cup {Root}
  OBVIOUS
<1> HIDE DEF w
<1>8. ASSUME NEW i \in 1..k PROVE ~(w[i - 1] = d /\ s[i] = m)
  <2> SUFFICES ASSUME w[i - 1] = d, s[i] = m PROVE FALSE
    OBVIOUS
  <2>1. i \in 1..Len(s) /\ i \in 0..k
    BY <1>1
  <2>2. w[i] = entry /\ entry \in Inner
    BY <1>2, <1>4, <1>5, <1>6, <2>1
  <2>3. entry \in Node \ used
    BY <2>2, KindsApart DEF PutStep, Inside, Inner
  <2>4. entry # d /\ entry # Root /\ entry \in Stored!Directory
    BY <1>2, <2>3, KindsApart
  <2>5. i # k
    BY <1>7, <2>2, <2>3, <2>4
  <2>6. i + 1 \in 1..Len(s) /\ i + 1 \in 0..k /\ (i + 1) - 1 = i
    BY <1>1, <2>5
  <2>7. w[i + 1] = tree'[entry][s[i + 1]]
    BY <1>5, <2>2, <2>6
  <2>8. w[i + 1] = tree[entry][s[i + 1]]
    BY <1>1, <1>6, <2>4, <2>6, <2>7
  <2>9. tree[entry][s[i + 1]] = Absent
    BY <1>1, <2>3, <2>4, <2>6, EntryIs DEF OnePlace
  <2> QED BY <1>4, <2>6, <2>8, <2>9, KindsApart
<1>9. \A i \in 1..k : LET e == Stored!Way(tree', s)[i - 1]
                      IN e \in Inner => tree[e][s[i]] = tree'[e][s[i]]
  <2> SUFFICES ASSUME NEW i \in 1..k, w[i - 1] \in Inner
               PROVE  tree[w[i - 1]][s[i]] = tree'[w[i - 1]][s[i]]
    BY DEF w
  <2>1. w[i - 1] \in Stored!Directory /\ s[i] \in Name
    BY <1>1, KindsApart
  <2> QED BY <1>6, <1>8, <2>1
<1>10. \A i \in 0..k : Stored!Way(tree, s)[i] = Stored!Way(tree', s)[i]
  BY <1>1, <1>9, WayAgrees
<1> QED BY <1>1, <1>10 DEF Stored!Walk

-----------------------------------------------------------------------------
(* How the files change                                                    *)

LEMMA ShrinkKeeps ==
    ASSUME FilesOK, FilesOK', OnePlace, Settled, UNCHANGED <<tree, used>>,
           excused \subseteq excused',
           \A d \in Stored!Directory, n \in Name : survives'[d][n] \subseteq survives[d][n]
    PROVE  OnePlace' /\ Settled'
<1>1. \A d \in Stored!Directory, n \in Name : tree[d][n] \in survives'[d][n]
  BY DEF FilesOK
<1>2. Node \subseteq Stored!Directory
  BY KindsApart
<1>3. \A x \in Node \ used' : \A n \in Name : survives'[x][n] = {Absent}
  BY <1>1, <1>2 DEF OnePlace
<1>4. OnePlace'
  BY <1>3 DEF OnePlace
<1>5. Settled'
  <2> SUFFICES ASSUME NEW s \in Sources \ excused', NEW i \in 1..(Len(s) - 1),
                      Stored!Walk(s)[i - 1] \in Inner
               PROVE  survives'[Stored!Walk(s)[i - 1]][s[i]] \cap Node \subseteq {Stored!Walk(s)[i]}
    BY DEF Settled, Stored!Walk
  <2>1. survives[Stored!Walk(s)[i - 1]][s[i]] \cap Node \subseteq {Stored!Walk(s)[i]}
    BY DEF Settled
  <2>2. s[i] \in Name /\ Stored!Walk(s)[i - 1] \in Stored!Directory
    BY SourceIs, KindsApart
  <2> QED BY <2>1, <2>2
<1> QED BY <1>4, <1>5

(* Where a source is stored.                                               *)
LEMMA StoredIs ==
    ASSUME NEW s \in Sources, Stored!Stored(s)
    PROVE  /\ Stored!Parent(s) \in Inner /\ Stored!Parent(s) \in Stored!Directory
           /\ Stored!Leaf(s) \in Name /\ Len(s) - 1 \in 0..Len(s) /\ Len(s) \in 1..Len(s)
           /\ Stored!Parent(s) = Stored!Walk(s)[Len(s) - 1]
           /\ tree[Stored!Parent(s)][Stored!Leaf(s)] = File
<1>1. Len(s) \in 1..Len(s) /\ Len(s) - 1 \in 0..Len(s)
  BY SourceIs
<1>2. Stored!Walk(s)[Len(s)] = IF Stored!Walk(s)[Len(s) - 1] \in Inner
                               THEN tree[Stored!Walk(s)[Len(s) - 1]][s[Len(s)]] ELSE Absent
  BY <1>1, StepOnWay DEF Stored!Walk
<1>3. Stored!Walk(s)[Len(s)] = File /\ File # Absent
  BY KindsApart DEF Stored!Stored
<1> QED BY <1>1, <1>2, <1>3, SourceIs, KindsApart DEF Stored!Parent

LEMMA ShrinkDurable ==
    ASSUME FilesOK, FilesOK', Durable, UNCHANGED <<tree, used>>,
           \A d \in Stored!Directory, n \in Name : survives'[d][n] \subseteq survives[d][n],
           listedDisk \subseteq SUBSET Sources,
           Owed' \subseteq Owed
    PROVE  Durable'
<1> SUFFICES ASSUME NEW s \in Owed
             PROVE  Stored!Stored(s)' /\ survives'[Stored!Parent(s)'][Stored!Leaf(s)] = {File}
  BY DEF Durable
<1>1. s \in Sources /\ Stored!Stored(s) /\ survives[Stored!Parent(s)][Stored!Leaf(s)] = {File}
  BY DEF Durable, Owed
<1>2. Stored!Stored(s)' /\ Stored!Parent(s)' = Stored!Parent(s)
  BY <1>1 DEF Stored!Stored, Stored!Parent, Stored!Walk
<1>3. Stored!Parent(s) \in Stored!Directory /\ Stored!Leaf(s) \in Name
      /\ tree[Stored!Parent(s)][Stored!Leaf(s)] = File
  BY <1>1, StoredIs
<1>4. File \in survives'[Stored!Parent(s)][Stored!Leaf(s)]
  BY <1>3 DEF FilesOK
<1> QED BY <1>1, <1>2, <1>3, <1>4

(* A change of an entry under which no source is whose directory there has *)
(* to be; entries that lead to no directory may change.                    *)
Harmless(d, m) ==
    \A s \in Sources \ excused' :
        \/ s \notin Stored!Under(d, m)
        \/ /\ tree[d][m] \notin Node
           /\ s \in Owed => ~(Stored!Parent(s) = d /\ Stored!Leaf(s) = m)

LEMMA PutStepIs ==
    ASSUME FilesOK, NEW d \in used \cup {Root}, NEW m \in Name, NEW entry,
           PutStep(d, m, entry)
    PROVE  /\ d \in Inner /\ d \in Stored!Directory /\ entry \in Inside
           /\ used \subseteq used' /\ used \subseteq Node /\ used' \subseteq Node
           /\ entry \in Node => entry \notin used /\ entry \in used' /\ entry # d
           /\ Stored!Put(d, m, entry) /\ EntryChanges(d, m, entry)
<1>1. used \subseteq Node /\ Stored!Put(d, m, entry)
  BY DEF FilesOK, PutStep
<1>2. d \in Inner /\ d \in Stored!Directory
  BY <1>1, KindsApart
<1>3. entry \in Inside
  BY KindsApart DEF PutStep
<1>4. entry \in Node => entry \in Stored!Directory
  BY KindsApart
<1>5. entry \in Node => entry \notin used /\ entry \in used'
  BY <1>4, KindsApart DEF PutStep
<1>6. entry \in Node => entry # d
  BY <1>5, KindsApart
<1>7. used \subseteq used' /\ used' \subseteq Node
  BY <1>1 DEF PutStep
<1>8. EntryChanges(d, m, entry)
  BY <1>1, <1>2, <1>3, PutIs
<1> QED BY <1>1, <1>2, <1>3, <1>5, <1>6, <1>7, <1>8

LEMMA PutOnePlace ==
    ASSUME FilesOK, OnePlace, NEW d \in used \cup {Root}, NEW m \in Name, NEW entry,
           PutStep(d, m, entry)
    PROVE  OnePlace'
<1>1. /\ d \in Stored!Directory /\ used \subseteq used' /\ Node \subseteq Stored!Directory
      /\ Root \notin Node
      /\ entry \in Node => entry \notin used /\ entry \in used'
  BY PutStepIs, KindsApart
<1>2. \A e \in Stored!Directory, n \in Name :
         /\ e = d /\ n = m => survives'[e][n] = survives[e][n] \cup {entry}
         /\ ~(e = d /\ n = m) => survives'[e][n] = survives[e][n]
  <2>1. EntryChanges(d, m, entry)
    BY PutStepIs
  <2> QED BY <2>1 DEF EntryChanges
<1>3. ASSUME NEW x \in Node,
             NEW e \in Stored!Directory, NEW f \in Stored!Directory,
             NEW n \in Name, NEW o \in Name,
             x \in survives'[e][n], x \in survives'[f][o]
      PROVE  e = f /\ n = o
  <2>1. CASE x = entry
    <3>1. x \notin survives[e][n] /\ x \notin survives[f][o]
      BY <1>1, <2>1 DEF OnePlace
    <3> QED BY <1>2, <1>3, <3>1
  <2>2. CASE x # entry
    <3>1. x \in survives[e][n] /\ x \in survives[f][o]
      BY <1>2, <1>3, <2>2
    <3> QED BY <3>1 DEF OnePlace
  <2> QED BY <2>1, <2>2
<1>4. ASSUME NEW x \in Node \ used'
      PROVE  /\ \A e \in Stored!Directory, n \in Name : x \notin survives'[e][n]
             /\ \A n \in Name : survives'[x][n] = {Absent}
  <2>1. x \in Node \ used /\ x # entry /\ x # d /\ x \in Stored!Directory
    BY <1>1
  <2>2. /\ \A e \in Stored!Directory, n \in Name : x \notin survives[e][n]
        /\ \A n \in Name : survives[x][n] = {Absent}
    BY <2>1 DEF OnePlace
  <2> QED BY <1>2, <2>1, <2>2
<1> QED BY <1>3, <1>4 DEF OnePlace

LEMMA PutSettled ==
    ASSUME FilesOK, FilesOK', OnePlace, Settled, excused \subseteq excused',
           NEW d \in used \cup {Root}, NEW m \in Name, NEW entry,
           PutStep(d, m, entry), Harmless(d, m)
    PROVE  Settled'
<1> SUFFICES ASSUME NEW s \in Sources \ excused', NEW i \in 1..(Len(s) - 1),
                    Stored!Way(tree', s)[i - 1] \in Inner
             PROVE  survives'[Stored!Way(tree', s)[i - 1]][s[i]] \cap Node
                       \subseteq {Stored!Way(tree', s)[i]}
  BY DEF Settled, Stored!Walk
<1> DEFINE w == Stored!Way(tree', s)
           v == Stored!Walk(s)
           e == w[i - 1]
<1>1. s[i] \in Name /\ i \in 1..Len(s) /\ i - 1 \in 0..Len(s) /\ e \in Stored!Directory
  BY SourceIs, KindsApart
<1>2. w[i] = tree'[e][s[i]] /\ (v[i - 1] \in Inner => v[i] = tree[v[i - 1]][s[i]])
  BY <1>1, StepOnWay DEF Stored!Walk
<1>3. \A f \in Stored!Directory, n \in Name :
         /\ tree'[f][n] = IF f = d /\ n = m THEN entry ELSE tree[f][n]
         /\ survives'[f][n] = IF f = d /\ n = m THEN survives[f][n] \cup {entry}
                              ELSE survives[f][n]
  <2>1. EntryChanges(d, m, entry)
    BY PutStepIs
  <2> QED BY <2>1 DEF EntryChanges
<1>4. CASE e \in used \cup {Root}
  <2>1. v[i - 1] = e
    BY <1>1, <1>4, NoNewWay
  <2>2. v[i] = tree[e][s[i]]
    BY <1>2, <2>1
  <2>3. survives[e][s[i]] \cap Node \subseteq {v[i]}
    BY <2>1 DEF Settled
  <2>4. e = d /\ s[i] = m => s \in Stored!Under(d, m)
    BY <1>1, <2>1 DEF Stored!Under
  <2>5. e = d /\ s[i] = m => tree[e][s[i]] \notin Node
    BY <2>4 DEF Harmless
  <2> HIDE DEF e, v, w
  <2>6. CASE e = d /\ s[i] = m
    <3>1. survives[e][s[i]] \cap Node = {}
      BY <2>2, <2>3, <2>5, <2>6
    <3>2. survives'[e][s[i]] = survives[e][s[i]] \cup {entry} /\ w[i] = entry
      BY <1>1, <1>2, <1>3, <2>6
    <3> QED BY <3>1, <3>2 DEF e, w
  <2>7. CASE ~(e = d /\ s[i] = m)
    <3>1. survives'[e][s[i]] = survives[e][s[i]] /\ tree'[e][s[i]] = tree[e][s[i]]
      BY <1>1, <1>3, <2>7
    <3>2. w[i] = v[i]
      BY <1>2, <2>2, <3>1
    <3> QED BY <2>3, <3>1, <3>2 DEF e, w
  <2> QED BY <2>6, <2>7
<1>5. CASE e \notin used \cup {Root}
  <2>1. e \in Node \ used /\ e # d
    BY <1>5 DEF Inner
  <2>2. survives'[e][s[i]] = survives[e][s[i]]
    BY <1>1, <1>3, <2>1
  <2>3. survives[e][s[i]] = {Absent}
    BY <1>1, <2>1 DEF OnePlace
  <2> HIDE DEF e
  <2>4. survives'[e][s[i]] \cap Node = {}
    BY <2>2, <2>3, KindsApart
  <2> QED BY <2>4 DEF e
<1> QED BY <1>4, <1>5

LEMMA PutDurable ==
    ASSUME FilesOK, FilesOK', Durable, Owed' \subseteq Owed,
           listedDisk \subseteq SUBSET Sources, Owed' \cap excused' = {},
           NEW d \in used \cup {Root}, NEW m \in Name, NEW entry,
           PutStep(d, m, entry), Harmless(d, m)
    PROVE  Durable'
<1> SUFFICES ASSUME NEW s \in Owed'
             PROVE  Stored!Stored(s)' /\ survives'[Stored!Parent(s)'][Stored!Leaf(s)] = {File}
  BY DEF Durable
<1> DEFINE w == Stored!Way(tree', s)
           e == Stored!Parent(s)
           n == Stored!Leaf(s)
<1>1. s \in Sources \ excused' /\ s \in Owed
  BY DEF Owed
<1>2. Stored!Stored(s) /\ survives[e][n] = {File}
  BY <1>1 DEF Durable
<1>3. /\ e \in Inner /\ e \in Stored!Directory /\ n \in Name
      /\ Len(s) - 1 \in 0..Len(s) /\ Len(s) \in 1..Len(s) /\ n = s[Len(s)]
      /\ e = Stored!Walk(s)[Len(s) - 1] /\ tree[e][n] = File
  BY <1>1, <1>2, StoredIs, SourceIs
<1>4. s \notin Stored!Under(d, m) => ~(e = d /\ n = m)
  <2>1. e = d /\ n = m => \E i \in 1..Len(s) : Stored!Walk(s)[i - 1] = d /\ s[i] = m
    BY <1>3
  <2> QED BY <1>1, <2>1 DEF Stored!Under
<1>5. ~(e = d /\ n = m)
  BY <1>1, <1>4 DEF Harmless
<1>6. tree[d][m] \notin Node \/ s \notin Stored!Under(d, m)
  BY <1>1 DEF Harmless
<1>7. /\ d \in Stored!Directory /\ entry \in Inside /\ Stored!Put(d, m, entry)
      /\ EntryChanges(d, m, entry)
  BY PutStepIs
<1>8. s \in Sources
  BY <1>1
<1>9. w[Len(s) - 1] = e
  <2>1. Stored!Walk(s)[Len(s) - 1] \in Inner
    BY <1>3
  <2>2. \A i \in 0..(Len(s) - 1) : Stored!Way(tree', s)[i] = Stored!Walk(s)[i]
    BY <1>3, <1>6, <1>7, <1>8, <2>1, WayKept
  <2>3. Len(s) - 1 \in 0..(Len(s) - 1)
    BY <1>3
  <2> QED BY <1>3, <2>2, <2>3
<1>10. tree'[e][n] = File /\ survives'[e][n] = {File}
  <2> HIDE DEF e, n
  <2> QED BY <1>2, <1>3, <1>5, <1>7 DEF EntryChanges
<1>11. w[Len(s)] = tree'[e][n]
  BY <1>3, <1>8, <1>9, StepOnWay
<1> QED BY <1>9, <1>10, <1>11 DEF Stored!Stored, Stored!Parent, Stored!Walk, Stored!Leaf

(* A power loss leaves the ways to what is stored for good.                *)
LEMMA PowerLossKeeps ==
    ASSUME FilesOK, OnePlace, Settled, Durable, Stored!PowerLoss,
           listedDisk \subseteq SUBSET Sources
    PROVE  OnePlace' /\ Settled' /\ Durable'
<1>1. /\ FilesOK' /\ used' = used
      /\ \A d \in Stored!Directory, n \in Name :
            tree'[d][n] \in survives[d][n] /\ survives'[d][n] = {tree'[d][n]}
  BY PowerLossIs
<1>2. Node \subseteq Stored!Directory /\ Inner \subseteq Stored!Directory
  BY KindsApart
<1>3. OnePlace'
  <2>1. \A d \in Stored!Directory, n \in Name : survives'[d][n] \subseteq survives[d][n]
    BY <1>1
  <2>2. \A x \in Node \ used' : \A n \in Name : survives'[x][n] = {Absent}
    BY <1>1, <1>2 DEF OnePlace
  <2> QED BY <1>1, <2>1, <2>2 DEF OnePlace
<1>4. Settled'
  <2> SUFFICES ASSUME NEW s \in Sources, NEW i \in 1..(Len(s) - 1),
                      Stored!Way(tree', s)[i - 1] \in Inner
               PROVE  survives'[Stored!Way(tree', s)[i - 1]][s[i]]
                         \subseteq {Stored!Way(tree', s)[i]}
    BY DEF Settled, Stored!Walk
  <2>1. s[i] \in Name /\ i \in 1..Len(s)
    BY SourceIs
  <2>2. Stored!Way(tree', s)[i] = tree'[Stored!Way(tree', s)[i - 1]][s[i]]
    BY <2>1, StepOnWay
  <2> QED BY <1>1, <1>2, <2>1, <2>2
<1>5. ASSUME NEW s \in Owed'
      PROVE  Stored!Stored(s)' /\ survives'[Stored!Parent(s)'][Stored!Leaf(s)] = {File}
  <2> DEFINE w == Stored!Way(tree', s)
             v == Stored!Walk(s)
             k == Len(s) - 1
  <2>1. s \in UNION listedDisk /\ s \notin excused /\ s \notin vanished'
        /\ vanished' = vanished \cup {q \in Sources : Stored!Parent(q)' \notin Node}
    BY <1>5 DEF Owed, Stored!PowerLoss
  <2>2. s \in Sources \ excused /\ s \in Owed
    BY <2>1 DEF Owed
  <2>3. Stored!Stored(s) /\ survives[Stored!Parent(s)][Stored!Leaf(s)] = {File}
    BY <2>2 DEF Durable
  <2>4. /\ s \in Seq(Name) /\ Len(s) \in Nat /\ k \in Nat /\ k \in 0..Len(s)
        /\ \A i \in 1..Len(s) : s[i] \in Name
        /\ Stored!Leaf(s) = s[Len(s)] /\ Stored!Leaf(s) \in Name /\ Len(s) \in 1..Len(s)
        /\ \A i \in 0..k : i < k => i + 1 \in 1..k /\ i + 1 \in 1..Len(s) /\ (i + 1) - 1 = i
                                    /\ i + 1 \in 1..(Len(s) - 1) /\ i + 1 \in 0..k
                                    /\ i + 1 \in 0..Len(s)
        /\ 0 \in 0..k /\ k \in 0..k
    BY <2>2, SourceIs
  <2>5. w[k] \in Inner
    <3>1. Stored!Parent(s)' \in Node
      BY <2>1, <2>2
    <3>2. Stored!Parent(s)' = w[k]
      BY DEF Stored!Parent, Stored!Walk
    <3> QED BY <3>1, <3>2, KindsApart
  <2>6. \A i \in 0..k : w[i] \in Inner
    BY <2>4, <2>5, WayThrough, KindsApart
  <2>7. v[k] \in Inner /\ v[k] = Stored!Parent(s)
    BY <2>2, <2>3, StoredIs
  <2>8. \A i \in 0..k : v[i] \in Inner
    BY <2>4, <2>7, WayThrough, KindsApart DEF Stored!Walk
  <2>9. /\ w[0] = Root /\ v[0] = Root
        /\ \A i \in 1..Len(s) : w[i] = IF w[i - 1] \in Inner THEN tree'[w[i - 1]][s[i]] ELSE Absent
    BY <2>2, StepOnWay DEF Stored!Walk
  <2>10. \A i \in 1..k : v[i - 1] \in Inner => survives[v[i - 1]][s[i]] \cap Node \subseteq {v[i]}
    BY <2>2 DEF Settled
  <2>11. \A d \in Stored!Directory, n \in Name : tree'[d][n] \in Inner => tree'[d][n] \in Node
    BY <1>1, <1>2, EntryIs, KindsApart DEF FilesOK
  <2> HIDE DEF w, v, k
  <2> DEFINE S == {i \in 0..k : w[i] = v[i]}
  <2>12. 0 \in S
    BY <2>4, <2>9
  <2>13. ASSUME NEW i \in 0..k, i \in S, i < k PROVE i + 1 \in S
    <3>1. w[i] = v[i] /\ w[i] \in Inner /\ w[i + 1] \in Inner /\ w[i] \in Stored!Directory
          /\ s[i + 1] \in Name
      BY <1>2, <2>4, <2>6, <2>13
    <3>2. w[i + 1] = tree'[w[i]][s[i + 1]]
      BY <2>4, <2>9, <2>13, <3>1
    <3>3. w[i + 1] \in survives[v[i]][s[i + 1]] \cap Node
      BY <1>1, <2>11, <3>1, <3>2
    <3>4. w[i + 1] = v[i + 1]
      BY <2>4, <2>10, <2>13, <3>1, <3>3
    <3> QED BY <2>4, <2>13, <3>4
  <2>14. 0..k \subseteq S
    <3> HIDE DEF S
    <3> QED BY <2>4, <2>12, <2>13, UpTo
  <2>15. w[k] = Stored!Parent(s)
    BY <2>4, <2>7, <2>14
  <2>16. tree'[w[k]][s[Len(s)]] = File /\ survives'[w[k]][s[Len(s)]] = {File}
    BY <1>1, <1>2, <2>3, <2>4, <2>5, <2>15
  <2>17. w[Len(s)] = File
    BY <2>4, <2>5, <2>9, <2>16 DEF k
  <2> QED BY <2>4, <2>16, <2>17 DEF w, k, Stored!Stored, Stored!Parent, Stored!Walk
<1>6. Durable'
  BY <1>5 DEF Durable
<1> QED BY <1>3, <1>4, <1>6

-----------------------------------------------------------------------------
(* The descriptor                                                          *)

LEMMA OneWayAtRoot ==
    ASSUME FilesOK', source' \in Sources, depth' = 0, descriptor' = Root
    PROVE  OneWay'
<1>1. Stored!Way(tree', source')[0] = Root
  BY StepOnWay
<1>2. ASSUME NEW s \in Sources, NEW j \in 0..Len(s), Stored!Way(tree', s)[j] = Root
      PROVE  j = 0
  <2> SUFFICES ASSUME j # 0 PROVE FALSE
    OBVIOUS
  <2>1. s \in Seq(Name) /\ Len(s) \in Nat /\ \A i \in 1..Len(s) : s[i] \in Name
    BY SourceIs
  <2>2. j \in 1..Len(s) /\ j - 1 \in 0..j /\ j - 1 \in 0..Len(s)
    BY <2>1
  <2>3. Stored!Way(tree', s)[j - 1] \in Inner
    BY <1>2, <2>1, <2>2, WayThrough, KindsApart
  <2>4. Stored!Way(tree', s)[j] = tree'[Stored!Way(tree', s)[j - 1]][s[j]]
    BY <2>2, <2>3, StepOnWay
  <2>5. \A d \in Stored!Directory, n \in Name : tree'[d][n] \in Inside
    BY DEF FilesOK
  <2>6. Stored!Way(tree', s)[j] \in Inside
    BY <2>1, <2>2, <2>3, <2>4, <2>5, KindsApart
  <2> QED BY <1>2, <2>6, KindsApart
<1>3. \A s \in Sources : \A j \in 0..Len(s) :
         Stored!Way(tree', s)[j] = Root => j = 0 /\ \A i \in 1..0 : s[i] = source'[i]
  BY <1>2
<1> QED BY <1>1, <1>3 DEF OneWay, Stored!Walk

(* The way of the command's source may only be cut off.                    *)
LEMMA OneWayStays ==
    ASSUME OneWay, UNCHANGED <<source, depth, descriptor>>,
           used \subseteq used', excused \subseteq excused',
           source \notin excused' => Stored!Way(tree', source)[depth] = descriptor,
           \A s \in Sources : \A j \in 0..Len(s) :
               Stored!Way(tree', s)[j] = descriptor => Stored!Walk(s)[j] = descriptor
    PROVE  OneWay'
<1>1. /\ descriptor' \in used' \cup {Root}
      /\ source' \notin excused' => Stored!Way(tree', source')[depth'] = descriptor'
  BY DEF OneWay
<1>2. \A s \in Sources : \A j \in 0..Len(s) :
         Stored!Way(tree', s)[j] = descriptor =>
             j = depth /\ \A i \in 1..depth : s[i] = source[i]
  BY DEF OneWay
<1>3. \A s \in Sources : \A j \in 0..Len(s) :
         Stored!Walk(s)'[j] = descriptor' =>
             j = depth' /\ \A i \in 1..(depth') : s[i] = source'[i]
  BY <1>2 DEF Stored!Walk
<1> QED BY <1>1, <1>3 DEF OneWay, Stored!Walk

LEMMA OneWayRests ==
    ASSUME OneWay, UNCHANGED <<tree, source, depth, descriptor>>,
           used \subseteq used', excused \subseteq excused'
    PROVE  OneWay'
<1>1. source \notin excused' => Stored!Way(tree', source)[depth] = descriptor
  BY DEF OneWay, Stored!Walk
<1>2. \A s \in Sources : \A j \in 0..Len(s) :
         Stored!Way(tree', s)[j] = descriptor => Stored!Walk(s)[j] = descriptor
  BY DEF Stored!Walk
<1> QED BY <1>1, <1>2, OneWayStays

LEMMA OneWayPut ==
    ASSUME FilesOK, FilesOK', CommandOK, OnePlace, OneWay, excused \subseteq excused',
           UNCHANGED <<source, depth, descriptor>>,
           NEW d \in used \cup {Root}, NEW m \in Name, NEW entry,
           PutStep(d, m, entry), Harmless(d, m)
    PROVE  OneWay'
<1>1. /\ d \in Stored!Directory /\ entry \in Inside /\ Stored!Put(d, m, entry)
      /\ used \subseteq used'
  BY PutStepIs
<1>2. /\ source \in Sources /\ depth \in 0..Len(source) /\ depth \in 0..depth
      /\ descriptor \in Inner
  BY SourceIs DEF CommandOK
<1>3. ASSUME source \notin excused'
      PROVE  Stored!Way(tree', source)[depth] = descriptor
  <2>1. Stored!Walk(source)[depth] = descriptor
    BY <1>3 DEF OneWay
  <2>2. tree[d][m] \notin Node \/ source \notin Stored!Under(d, m)
    BY <1>2, <1>3 DEF Harmless
  <2>3. \A i \in 0..depth : Stored!Way(tree', source)[i] = Stored!Walk(source)[i]
    BY <1>1, <1>2, <2>1, <2>2, WayKept
  <2> QED BY <1>2, <2>1, <2>3
<1>4. ASSUME NEW s \in Sources, NEW j \in 0..Len(s), Stored!Way(tree', s)[j] = descriptor
      PROVE  Stored!Walk(s)[j] = descriptor
  <2>1. Stored!Way(tree', s)[j] \in used \cup {Root}
    BY <1>4 DEF OneWay
  <2> QED BY <1>4, <2>1, NoNewWay
<1> QED BY <1>1, <1>3, <1>4, OneWayStays

(* Another component is opened.                                            *)
LEMMA OneWayOpen ==
    ASSUME FilesOK, CommandOK, OnePlace, OneWay, Stored!Open
    PROVE  OneWay'
<1> DEFINE h == Stored!Here
           c == source[depth + 1]
<1>1. /\ depth # Len(source) - 1 /\ h \in Stored!Directory
      /\ descriptor' = h /\ depth' = depth + 1
      /\ UNCHANGED <<tree, survives, used, source, excused>>
  BY DEF Stored!Open, Stored!Arrived, Stored!files, Stored!history
<1>2. /\ source \in Sources /\ Len(source) \in Nat /\ depth \in 0..(Len(source) - 1)
      /\ depth + 1 \in 1..Len(source) /\ (depth + 1) - 1 = depth /\ depth \in Nat
  BY <1>1, SourceIs DEF CommandOK
<1>3. /\ c \in Name /\ descriptor \in Stored!Directory /\ h = tree[descriptor][c]
      /\ h \in Node /\ h \in survives[descriptor][c] /\ descriptor \in Inner
  <2>1. c \in Name /\ descriptor \in Stored!Directory /\ h = tree[descriptor][c] /\ h \in Node
    BY <1>1, HereIs
  <2> QED BY <2>1, EntryIs DEF CommandOK
<1>4. h \in used
  BY <1>3 DEF OnePlace
<1>5. source \notin excused => Stored!Walk(source)[depth + 1] = h
  <2> SUFFICES ASSUME source \notin excused PROVE Stored!Walk(source)[depth + 1] = h
    OBVIOUS
  <2>1. Stored!Walk(source)[depth] = descriptor
    BY DEF OneWay
  <2>2. Stored!Walk(source)[depth + 1] = tree[descriptor][c]
    BY <1>2, <1>3, <2>1, StepOnWay DEF Stored!Walk
  <2> QED BY <1>3, <2>2
<1> HIDE DEF h, c
<1>6. ASSUME NEW s \in Sources, NEW j \in 0..Len(s), Stored!Walk(s)[j] = h
      PROVE  j = depth + 1 /\ \A i \in 1..(depth + 1) : s[i] = source[i]
  <2>1. s \in Seq(Name) /\ Len(s) \in Nat /\ \A i \in 1..Len(s) : s[i] \in Name
    BY SourceIs
  <2>2. j # 0
    <3>1. Stored!Walk(s)[0] = Root
      BY StepOnWay DEF Stored!Walk
    <3> QED BY <1>3, <1>6, <3>1, KindsApart
  <2>3. j \in 1..j /\ j \in 1..Len(s) /\ j - 1 \in 0..Len(s) /\ j \in Nat
    BY <2>1, <2>2
  <2>4. Stored!Walk(s)[j] \in Inner
    BY <1>3, <1>6, KindsApart
  <2>5. /\ Stored!Walk(s)[j - 1] \in Inner
        /\ Stored!Walk(s)[j] = tree[Stored!Walk(s)[j - 1]][s[j]]
    BY <2>3, <2>4, OnWay
  <2> DEFINE e == Stored!Walk(s)[j - 1]
  <2>6. e \in Stored!Directory /\ s[j] \in Name /\ h = tree[e][s[j]]
    BY <1>6, <2>1, <2>3, <2>5, KindsApart
  <2>7. h \in survives[e][s[j]]
    BY <2>6, EntryIs
  <2>8. e = descriptor /\ s[j] = c
    <3> HIDE DEF e
    <3> QED BY <1>3, <2>6, <2>7 DEF OnePlace
  <2>9. j - 1 = depth /\ \A i \in 1..depth : s[i] = source[i]
    BY <2>3, <2>8 DEF OneWay
  <2>10. j = depth + 1 /\ s[depth + 1] = source[depth + 1]
    <3>1. j = depth + 1
      BY <1>2, <2>3, <2>9
    <3> QED BY <2>8, <3>1 DEF c
  <2> QED BY <1>2, <2>9, <2>10
<1>7. \A s \in Sources : \A j \in 0..Len(s) :
         Stored!Walk(s)'[j] = descriptor' =>
             j = depth' /\ \A i \in 1..(depth') : s[i] = source'[i]
  BY <1>1, <1>6 DEF Stored!Walk, h
<1>8. source' \notin excused' => Stored!Walk(source)'[depth'] = descriptor'
  BY <1>1, <1>5 DEF Stored!Walk, h
<1>9. descriptor' \in used' \cup {Root}
  BY <1>1, <1>4 DEF h
<1> QED BY <1>7, <1>8, <1>9 DEF OneWay, Stored!Walk

(* The command's directory is that of its source alone.                    *)
LEMMA LeafIsOwn ==
    ASSUME CommandOK, OneWay, depth = Len(source) - 1,
           NEW s \in Sources, Stored!Parent(s) = descriptor,
           Stored!Leaf(s) = Stored!Leaf(source)
    PROVE  s = source
<1>1. /\ source \in Seq(Name) /\ Len(source) \in Nat /\ s \in Seq(Name) /\ Len(s) \in Nat
      /\ Len(s) >= 2 /\ Len(source) >= 2
      /\ s[Len(s)] = source[Len(source)]
  BY SourceIs DEF CommandOK
<1>2. Len(s) - 1 \in 0..Len(s) /\ Stored!Walk(s)[Len(s) - 1] = descriptor
  BY <1>1 DEF Stored!Parent
<1>3. Len(s) - 1 = depth /\ \A i \in 1..depth : s[i] = source[i]
  BY <1>2 DEF OneWay
<1>4. Len(s) = Len(source) /\ \A i \in 1..Len(s) : s[i] = source[i]
  BY <1>1, <1>3
<1> QED BY <1>1, <1>4

(* An entry where nothing is may come to be anything.                      *)
LEMMA AbsentIsHarmless ==
    ASSUME FilesOK, CommandOK, Durable,
           NEW d, NEW m, tree[d][m] = Absent
    PROVE  Harmless(d, m)
<1>1. Absent \notin Node /\ Absent # File
  BY KindsApart
<1>2. ASSUME NEW s \in Owed PROVE ~(Stored!Parent(s) = d /\ Stored!Leaf(s) = m)
  <2>1. s \in Sources /\ Stored!Stored(s)
    BY <1>2 DEF Owed, Durable, CommandOK
  <2>2. tree[Stored!Parent(s)][Stored!Leaf(s)] = File
    BY <2>1, StoredIs
  <2> QED BY <1>1, <2>2
<1> QED BY <1>1, <1>2 DEF Harmless

-----------------------------------------------------------------------------
(* What susu.json refers to is there                                       *)

LEMMA UnderwayEnds ==
    ASSUME Stored!End, listed' \in listedDisk'
    PROVE  Underway'
BY DEF Underway, Writing, Stored!End, Stored!Goto

LEMMA UnderwayWalks ==
    ASSUME NEW o \in {"write", "inspect", "remove"}, NEW s, Stored!StartWalk(o, s),
           listed' \in listedDisk', o = "remove" => s \notin Owed'
    PROVE  Underway'
BY DEF Underway, Writing, Stored!StartWalk, Stored!Goto

(* The parts of the invariant about files and the saved susu.json, and     *)
(* about the command.                                                      *)
SourcesOK == OnePlace /\ Settled /\ Durable

LEMMA SourcesRest ==
    ASSUME SourcesOK, UNCHANGED <<tree, survives, used>>, excused \subseteq excused',
           Owed' \subseteq Owed
    PROVE  SourcesOK'
<1>1. OnePlace'
  BY DEF SourcesOK, OnePlace
<1>2. Settled'
  BY DEF SourcesOK, Settled, Stored!Walk
<1>3. Durable'
  BY DEF SourcesOK, Durable, Stored!Stored, Stored!Parent, Stored!Walk
<1> QED BY <1>1, <1>2, <1>3 DEF SourcesOK

LEMMA SourcesSync ==
    ASSUME FilesOK, FilesOK', CommandOK, SourcesOK, NEW d \in Stored!Directory, Stored!Sync(d),
           UNCHANGED <<tree, used>>, excused \subseteq excused', Owed' \subseteq Owed
    PROVE  SourcesOK'
<1>1. \A e \in Stored!Directory, m \in Name :
         survives'[e][m] = IF e = d THEN {tree[e][m]} ELSE survives[e][m]
  BY SyncInside
<1>2. \A e \in Stored!Directory, m \in Name : survives'[e][m] \subseteq survives[e][m]
  <2> SUFFICES ASSUME NEW e \in Stored!Directory, NEW m \in Name
               PROVE  survives'[e][m] \subseteq survives[e][m]
    OBVIOUS
  <2>1. tree[e][m] \in survives[e][m]
    BY DEF FilesOK
  <2>2. survives'[e][m] = {tree[e][m]} \/ survives'[e][m] = survives[e][m]
    BY <1>1
  <2> QED BY <2>1, <2>2
<1>3. OnePlace' /\ Settled'
  BY <1>2, ShrinkKeeps DEF SourcesOK
<1>4. Durable'
  BY <1>2, ShrinkDurable DEF SourcesOK, CommandOK
<1> QED BY <1>3, <1>4 DEF SourcesOK

LEMMA SourcesPut ==
    ASSUME FilesOK, FilesOK', CommandOK, SourcesOK, excused \subseteq excused',
           Owed' \subseteq Owed,
           NEW d \in used \cup {Root}, NEW m \in Name, NEW entry,
           PutStep(d, m, entry), Harmless(d, m)
    PROVE  SourcesOK'
<1>1. OnePlace' /\ Settled'
  BY PutOnePlace, PutSettled DEF SourcesOK
<1>2. Owed' \cap excused' = {} /\ listedDisk \subseteq SUBSET Sources
  BY DEF Owed, CommandOK
<1>3. Durable'
  BY <1>2, PutDurable DEF SourcesOK
<1> QED BY <1>1, <1>3 DEF SourcesOK

(* The walk of OpenParent.                                                 *)
LEMMA SafeWalk ==
    ASSUME FilesOK, FilesOK', CommandOK, SourcesOK, OneWay, Underway,
           \/ Stored!Open \/ Stored!Missing \/ Stored!Mkdir \/ Stored!Blocked
    PROVE  SourcesOK' /\ OneWay' /\ Underway'
<1> USE DEF Stored!files, Stored!saved, Stored!history, Stored!Goto
<1>1. source \in Sources /\ listed \in listedDisk
  BY DEF CommandOK, Underway
<1>2. CASE Stored!Open
  <2>1. /\ pc \in {"walk", "reopen"} /\ pc' = "walk"
        /\ UNCHANGED <<tree, survives, used, listed, listedDisk, op, source,
                       excused, vanished>>
    BY <1>2 DEF Stored!Open
  <2>2. Owed' = Owed
    BY <2>1 DEF Owed
  <2>3. Underway'
    BY <2>1, <2>2 DEF Underway, Writing
  <2> QED BY <1>2, <2>1, <2>2, <2>3, SourcesRest, OneWayOpen DEF SourcesOK
<1>3. CASE Stored!Missing
  <2>1. /\ op = "write" /\ pc' = "mkdir"
        /\ UNCHANGED <<tree, survives, used, listed, listedDisk, op, source, depth,
                       descriptor, excused, vanished>>
    BY <1>3 DEF Stored!Missing
  <2>2. Owed' = Owed
    BY <2>1 DEF Owed
  <2>3. Underway'
    BY <2>1, <2>2 DEF Underway, Writing
  <2> QED BY <2>1, <2>2, <2>3, SourcesRest, OneWayRests
<1>4. CASE Stored!Mkdir
  <2>1. /\ pc = "mkdir" /\ pc' = "reopen"
        /\ UNCHANGED <<listed, listedDisk, op, source, depth, descriptor, excused, vanished>>
    BY <1>4 DEF Stored!Mkdir
  <2>2. Owed' = Owed
    BY <2>1 DEF Owed
  <2>3. Underway'
    BY <2>1, <2>2 DEF Underway, Writing
  <2>4. CASE UNCHANGED <<tree, survives, used>>
    BY <2>1, <2>2, <2>3, <2>4, SourcesRest, OneWayRests
  <2>5. CASE /\ Stored!Here = Absent
             /\ \E n \in Node : Stored!Make(descriptor, source[depth + 1], n)
    <3>1. PICK n \in Node : Stored!Make(descriptor, source[depth + 1], n)
      BY <2>5
    <3>2. PutStep(descriptor, source[depth + 1], n)
      BY <3>1 DEF Stored!Make, PutStep
    <3>3. source[depth + 1] \in Name /\ tree[descriptor][source[depth + 1]] = Absent
          /\ descriptor \in used \cup {Root}
      BY <2>5, HereIs DEF OneWay
    <3>4. Harmless(descriptor, source[depth + 1])
      BY <3>3, AbsentIsHarmless DEF SourcesOK
    <3>5. SourcesOK'
      BY <2>1, <2>2, <3>2, <3>3, <3>4, SourcesPut
    <3>6. OneWay'
      BY <2>1, <3>2, <3>3, <3>4, OneWayPut DEF SourcesOK
    <3> QED BY <2>3, <3>5, <3>6
  <2> QED BY <1>4, <2>4, <2>5 DEF Stored!Mkdir
<1>5. CASE Stored!Blocked
  <2>1. Stored!End /\ UNCHANGED <<tree, survives, used, listed, listedDisk, excused, vanished>>
    BY <1>5 DEF Stored!Blocked
  <2>2. Owed' = Owed
    BY <2>1 DEF Owed
  <2>3. SourcesOK'
    BY <2>1, <2>2, SourcesRest
  <2>4. OneWay'
    BY <1>1, <2>1, OneWayAtRoot DEF Stored!End
  <2> QED BY <1>1, <2>1, <2>3, <2>4, UnderwayEnds
<1> QED BY <1>2, <1>3, <1>4, <1>5

(* The new source: linked where nothing was, synced before it is listed.   *)
LEMMA SafeLink ==
    ASSUME FilesOK, FilesOK', CommandOK, SourcesOK, OneWay, Underway,
           Stored!Link \/ Stored!SyncSource \/ Stored!LinkUndone
    PROVE  SourcesOK' /\ OneWay' /\ Underway'
<1> USE DEF Stored!files, Stored!saved, Stored!history, Stored!Goto
<1> DEFINE leaf == Stored!Leaf(source)
<1>1. /\ source \in Sources /\ descriptor \in used \cup {Root} /\ listed \in listedDisk
      /\ leaf \in Name /\ descriptor \in Stored!Directory
      /\ Stored!Here = tree[descriptor][source[depth + 1]]
      /\ depth = Len(source) - 1 => source[depth + 1] = leaf
  BY HereIs DEF CommandOK, OneWay, Underway
<1> HIDE DEF leaf
<1>2. UNCHANGED <<listed, listedDisk, excused, vanished>>
  BY DEF Stored!Link, Stored!SyncSource, Stored!LinkUndone
<1>3. Owed' = Owed
  BY <1>2 DEF Owed
<1>4. CASE Stored!End /\ UNCHANGED <<tree, survives, used>>
  <2>1. SourcesOK'
    BY <1>2, <1>3, <1>4, SourcesRest
  <2>2. OneWay'
    BY <1>1, <1>4, OneWayAtRoot DEF Stored!End
  <2> QED BY <1>1, <1>2, <1>4, <2>1, <2>2, UnderwayEnds
<1>5. CASE Stored!Link
  <2>1. depth = Len(source) - 1 /\ op = "write"
    BY <1>5 DEF Stored!Link, Stored!Arrived
  <2>2. CASE /\ Stored!Here = Absent
             /\ Stored!Put(descriptor, leaf, File)
             /\ pc' = "linked" /\ UNCHANGED <<used, op, source, depth, descriptor>>
    <3>1. tree[descriptor][leaf] = Absent
      BY <1>1, <2>1, <2>2
    <3>2. PutStep(descriptor, leaf, File)
      BY <2>2 DEF PutStep
    <3>3. Harmless(descriptor, leaf)
      BY <3>1, AbsentIsHarmless DEF SourcesOK
    <3>4. SourcesOK'
      BY <1>1, <1>2, <1>3, <3>2, <3>3, SourcesPut
    <3>5. OneWay'
      BY <1>1, <1>2, <2>2, <3>2, <3>3, OneWayPut DEF SourcesOK
    <3>6. source \notin Owed
      <4> SUFFICES ASSUME source \in Owed PROVE FALSE
        OBVIOUS
      <4>1. Stored!Stored(source) /\ source \notin excused
        BY DEF SourcesOK, Durable, Owed
      <4>2. Stored!Parent(source) = descriptor
        BY <2>1, <4>1 DEF OneWay, Stored!Parent
      <4>3. tree[descriptor][leaf] = File
        BY <1>1, <4>1, <4>2, StoredIs DEF leaf
      <4> QED BY <3>1, <4>3, KindsApart
    <3>7. tree'[descriptor][leaf] = File
      <4>1. EntryChanges(descriptor, leaf, File)
        BY <1>1, <3>2, PutStepIs
      <4> QED BY <1>1, <4>1 DEF EntryChanges
    <3>8. Underway'
      BY <1>1, <1>2, <1>3, <2>1, <2>2, <3>6, <3>7 DEF Underway, Writing, leaf
    <3> QED BY <3>4, <3>5, <3>8
  <2> QED BY <1>4, <1>5, <2>2 DEF Stored!Link, leaf
<1>6. CASE Stored!SyncSource
  <2>1. /\ pc = "linked" /\ pc' = "commit" /\ Stored!Sync(descriptor)
        /\ UNCHANGED <<tree, used, op, source, depth, descriptor>>
    BY <1>6 DEF Stored!SyncSource
  <2>2. SourcesOK' /\ OneWay'
    BY <1>1, <1>2, <1>3, <2>1, SourcesSync, OneWayRests
  <2>3. survives'[descriptor][leaf] = {tree[descriptor][leaf]}
    <3>1. \A e \in Stored!Directory, m \in Name :
             survives'[e][m] = IF e = descriptor THEN {tree[e][m]} ELSE survives[e][m]
      BY <1>1, <2>1, SyncInside
    <3> QED BY <1>1, <3>1
  <2>4. Underway'
    BY <1>1, <1>2, <1>3, <2>1, <2>3 DEF Underway, Writing, leaf
  <2> QED BY <2>2, <2>4
<1>7. CASE Stored!LinkUndone
  <2>1. pc = "linked" /\ Stored!End
    BY <1>7 DEF Stored!LinkUndone
  <2>2. CASE Stored!Here \notin Stored!Directory /\ Stored!Put(descriptor, leaf, Absent)
             /\ UNCHANGED used
    <3>1. depth = Len(source) - 1 /\ source \notin Owed
      BY <2>1 DEF Underway, Writing
    <3>2. tree[descriptor][leaf] \notin Node
      BY <1>1, <2>2, <3>1, KindsApart
    <3>3. Harmless(descriptor, leaf)
      <4>1. \A s \in Sources : Stored!Parent(s) = descriptor /\ Stored!Leaf(s) = leaf => s = source
        BY <3>1, LeafIsOwn DEF leaf
      <4> QED BY <3>1, <3>2, <4>1 DEF Harmless
    <3>4. PutStep(descriptor, leaf, Absent)
      BY <2>2 DEF PutStep
    <3>5. SourcesOK'
      BY <1>1, <1>2, <1>3, <3>3, <3>4, SourcesPut
    <3>6. OneWay'
      BY <1>1, <2>1, OneWayAtRoot DEF Stored!End
    <3> QED BY <1>1, <1>2, <2>1, <3>5, <3>6, UnderwayEnds
  <2> QED BY <1>4, <1>7, <2>1, <2>2 DEF Stored!LinkUndone, leaf
<1> QED BY <1>5, <1>6, <1>7

(* The commit of an addition, and what ends a command without a change.    *)
LEMMA SafeCommit ==
    ASSUME FilesOK, FilesOK', CommandOK, SourcesOK, OneWay, Underway,
           Stored!CommitAddition \/ Stored!CommitFails
    PROVE  SourcesOK' /\ OneWay' /\ Underway'
<1> USE DEF Stored!files, Stored!saved, Stored!history, Stored!Goto
<1>1. /\ pc = "commit" /\ op = "write" /\ source \notin Owed /\ listed \in listedDisk
      /\ source \in Sources /\ depth = Len(source) - 1
      /\ UNCHANGED <<tree, survives, used, excused, vanished>>
  BY DEF Stored!CommitAddition, Stored!CommitFails, Underway, Writing, CommandOK
<1>2. CASE Stored!CommitAddition
  <2>1. /\ listed' = listed \cup {source} /\ listedDisk' = listedDisk \cup {listed'}
        /\ pc' = "committed"
        /\ UNCHANGED <<tree, survives, used, op, source, depth, descriptor, excused, vanished>>
    BY <1>2 DEF Stored!CommitAddition, Stored!Save
  <2>2. OneWay'
    BY <2>1, OneWayRests
  <2>3. Underway'
    BY <1>1, <2>1 DEF Underway, Writing
  <2>4. Owed' \subseteq Owed \cup {source} /\ (source \in Owed' => source \notin excused)
    BY <1>1, <2>1 DEF Owed
  <2>5. ASSUME source \notin excused
        PROVE  Stored!Stored(source)
               /\ survives[Stored!Parent(source)][Stored!Leaf(source)] = {File}
    <3>1. /\ tree[descriptor][Stored!Leaf(source)] = File
          /\ survives[descriptor][Stored!Leaf(source)] = {File}
      BY <1>1, <2>5 DEF Underway, Writing
    <3>2. Stored!Walk(source)[Len(source) - 1] = descriptor /\ descriptor \in Inner
      BY <1>1, <2>5 DEF OneWay, CommandOK
    <3>3. Len(source) \in 1..Len(source)
      BY <1>1, SourceIs
    <3>4. Stored!Walk(source)[Len(source)] = File
      BY <1>1, <3>1, <3>2, <3>3, StepOnWay DEF Stored!Walk, Stored!Leaf
    <3> QED BY <3>1, <3>2, <3>4 DEF Stored!Stored, Stored!Parent
  <2>6. \A s \in Owed' : Stored!Stored(s) /\ survives[Stored!Parent(s)][Stored!Leaf(s)] = {File}
    BY <2>4, <2>5 DEF SourcesOK, Durable
  <2>7. Durable'
    BY <2>1, <2>6 DEF Durable, Stored!Stored, Stored!Parent, Stored!Walk
  <2>8. OnePlace' /\ Settled'
    BY <2>1 DEF SourcesOK, OnePlace, Settled, Stored!Walk
  <2> QED BY <2>2, <2>3, <2>7, <2>8 DEF SourcesOK
<1>3. CASE Stored!CommitFails
  <2>1. Stored!StartWalk("remove", source) /\ UNCHANGED <<listed, listedDisk>>
    BY <1>3 DEF Stored!CommitFails
  <2>2. Owed' = Owed
    BY <1>1, <2>1 DEF Owed
  <2>3. SourcesOK'
    BY <1>1, <2>2, SourcesRest
  <2>4. OneWay'
    BY <1>1, <2>1, OneWayAtRoot DEF Stored!StartWalk
  <2>5. Underway'
    BY <1>1, <2>1, <2>2, UnderwayWalks
  <2> QED BY <2>3, <2>4, <2>5
<1> QED BY <1>2, <1>3

(* Commands begin; and the steps of rm up to its commit.                   *)
LEMMA SafeBegin ==
    ASSUME FilesOK, FilesOK', CommandOK, SourcesOK, OneWay, Underway,
           \/ \E s \in Sources : Stored!BeginAdd(s) \/ Stored!BeginRemove(s)
           \/ Stored!Inspect \/ Stored!CommitRemoval \/ Stored!Kill
    PROVE  SourcesOK' /\ OneWay' /\ Underway'
<1> USE DEF Stored!files, Stored!saved, Stored!history, Stored!Goto
<1>1. source \in Sources /\ listed \in listedDisk
  BY DEF CommandOK, Underway
<1>2. UNCHANGED <<tree, survives, used, excused, vanished>>
  BY DEF Stored!BeginAdd, Stored!BeginRemove, Stored!Inspect, Stored!CommitRemoval, Stored!Kill
<1>3. /\ Owed' \subseteq Owed /\ listed' \in listedDisk'
      /\ UNCHANGED <<listed, listedDisk>> \/ Stored!CommitRemoval
  <2>1. CASE UNCHANGED <<listed, listedDisk>>
    BY <1>1, <1>2, <2>1 DEF Owed
  <2>2. CASE Stored!CommitRemoval /\ Stored!Save(listed \ {source})
    BY <1>1, <1>2, <2>2 DEF Owed, Stored!Save
  <2> QED BY <2>1, <2>2
          DEF Stored!BeginAdd, Stored!BeginRemove, Stored!Inspect, Stored!CommitRemoval, Stored!Kill
<1>4. SourcesOK'
  BY <1>2, <1>3, SourcesRest
<1>5. ASSUME NEW s \in Sources, Stored!BeginAdd(s) \/ Stored!BeginRemove(s)
      PROVE  OneWay' /\ Underway'
  <2>1. PICK o \in {"write", "inspect"} : Stored!StartWalk(o, s)
    BY <1>5 DEF Stored!BeginAdd, Stored!BeginRemove
  <2>2. OneWay'
    BY <2>1, OneWayAtRoot DEF Stored!StartWalk
  <2>3. o \in {"write", "inspect", "remove"} /\ o # "remove"
    BY <2>1
  <2>4. Underway'
    BY <1>3, <2>1, <2>3, UnderwayWalks
  <2> QED BY <2>2, <2>4
<1>6. ASSUME Stored!End PROVE OneWay' /\ Underway'
  <2>1. OneWay'
    BY <1>1, <1>6, OneWayAtRoot DEF Stored!End
  <2> QED BY <1>3, <1>6, <2>1, UnderwayEnds
<1>7. CASE Stored!Inspect
  <2>1. depth = Len(source) - 1 /\ op \in {"inspect", "remove"} /\ UNCHANGED <<listed, listedDisk>>
    BY <1>7 DEF Stored!Inspect, Stored!Arrived
  <2>2. CASE /\ pc' = IF op = "remove" THEN "unlink" ELSE "commit"
             /\ UNCHANGED <<op, source, depth, descriptor>>
    <3>1. OneWay'
      BY <1>2, <2>2, OneWayRests
    <3>2. Owed' = Owed
      BY <1>2, <2>1 DEF Owed
    <3>3. Underway'
      BY <1>1, <1>2, <2>1, <2>2, <3>2 DEF Underway, Writing
    <3> QED BY <1>4, <3>1, <3>3
  <2> QED BY <1>4, <1>6, <1>7, <2>2 DEF Stored!Inspect
<1>8. CASE Stored!CommitRemoval
  <2>1. op = "inspect"
    BY <1>8 DEF Stored!CommitRemoval
  <2>2. CASE /\ Stored!Save(listed \ {source}) /\ pc' = "committed"
             /\ UNCHANGED <<op, source, depth, descriptor>>
    <3>1. OneWay'
      BY <1>2, <2>2, OneWayRests
    <3>2. source' \notin listed'
      BY <2>2 DEF Stored!Save
    <3>3. Underway'
      BY <1>3, <2>1, <2>2, <3>2 DEF Underway, Writing
    <3> QED BY <1>4, <3>1, <3>3
  <2> QED BY <1>4, <1>6, <1>8, <2>2 DEF Stored!CommitRemoval
<1>9. CASE Stored!Kill
  BY <1>4, <1>6, <1>9 DEF Stored!Kill
<1> QED BY <1>4, <1>5, <1>7, <1>8, <1>9

(* The sync of susu.json's directory, and the removal after it.            *)
LEMMA SafeRemove ==
    ASSUME FilesOK, FilesOK', CommandOK, SourcesOK, OneWay, Underway,
           \/ Stored!SyncManifest \/ Stored!SyncManifestFails
           \/ Stored!Unlink \/ Stored!SyncRemoval
    PROVE  SourcesOK' /\ OneWay' /\ Underway'
<1> USE DEF Stored!files, Stored!saved, Stored!history, Stored!Goto
<1> DEFINE leaf == Stored!Leaf(source)
<1>1. /\ source \in Sources /\ descriptor \in used \cup {Root} /\ listed \in listedDisk
      /\ leaf \in Name /\ descriptor \in Stored!Directory /\ Root \in Stored!Directory
      /\ Stored!Here = tree[descriptor][source[depth + 1]]
      /\ depth = Len(source) - 1 => source[depth + 1] = leaf
  BY HereIs, KindsApart DEF CommandOK, OneWay, Underway
<1> HIDE DEF leaf
<1>2. /\ excused \subseteq excused' /\ UNCHANGED <<used, listed, vanished>>
      /\ listedDisk' = listedDisk \/ listedDisk' = {listed}
  BY DEF Stored!SyncManifest, Stored!SyncManifestFails, Stored!Unlink, Stored!SyncRemoval
<1>3. Owed' \subseteq Owed /\ listed' \in listedDisk'
  BY <1>1, <1>2 DEF Owed
<1>4. ASSUME Stored!End PROVE OneWay' /\ Underway'
  <2>1. OneWay'
    BY <1>1, <1>4, OneWayAtRoot DEF Stored!End
  <2> QED BY <1>3, <1>4, <2>1, UnderwayEnds
<1>5. ASSUME Stored!Committed, op = "inspect" => source \notin Owed'
      PROVE  OneWay' /\ Underway'
  <2>1. CASE op = "inspect" /\ Stored!StartWalk("remove", source)
    <3>1. OneWay'
      BY <1>1, <2>1, OneWayAtRoot DEF Stored!StartWalk
    <3>2. Underway'
      BY <1>3, <1>5, <2>1, UnderwayWalks
    <3> QED BY <3>1, <3>2
  <2> QED BY <1>4, <1>5, <2>1 DEF Stored!Committed
<1>6. CASE Stored!SyncManifest
  <2>1. /\ pc = "committed" /\ Stored!Sync(Root) /\ listedDisk' = {listed} /\ Stored!Committed
        /\ UNCHANGED <<tree, used, listed, excused, vanished>>
    BY <1>6 DEF Stored!SyncManifest
  <2>2. SourcesOK'
    BY <1>1, <1>2, <1>3, <2>1, SourcesSync
  <2>3. op = "inspect" => source \notin Owed'
    BY <2>1 DEF Underway, Owed
  <2> QED BY <1>5, <2>1, <2>2, <2>3
<1>7. CASE Stored!SyncManifestFails
  <2>1. /\ Stored!Committed /\ UNCHANGED <<tree, survives, used>>
        /\ op = "inspect" => source \in excused'
    BY <1>7 DEF Stored!SyncManifestFails
  <2>2. SourcesOK'
    BY <1>2, <1>3, <2>1, SourcesRest
  <2>3. op = "inspect" => source \notin Owed'
    BY <2>1 DEF Owed
  <2> QED BY <1>5, <2>1, <2>2, <2>3
<1>8. CASE Stored!Unlink
  <2>1. /\ pc = "unlink" /\ UNCHANGED <<listed, listedDisk, excused, vanished>>
        /\ depth = Len(source) - 1 /\ op = "remove" /\ source \notin Owed
    BY <1>8 DEF Stored!Unlink, Underway
  <2>2. CASE Stored!End /\ UNCHANGED <<tree, survives, used>>
    <3>1. SourcesOK'
      BY <1>2, <1>3, <2>2, SourcesRest
    <3> QED BY <1>4, <2>2, <3>1
  <2>3. CASE /\ Stored!Here \in {File, Symlink}
             /\ Stored!Put(descriptor, leaf, Absent)
             /\ pc' = "unlinked" /\ UNCHANGED <<used, op, source, depth, descriptor>>
    <3>1. tree[descriptor][leaf] \notin Node
      BY <1>1, <2>1, <2>3, KindsApart
    <3>2. Harmless(descriptor, leaf)
      <4>1. \A s \in Sources : Stored!Parent(s) = descriptor /\ Stored!Leaf(s) = leaf => s = source
        BY <2>1, LeafIsOwn DEF leaf
      <4> QED BY <2>1, <3>1, <4>1 DEF Harmless
    <3>3. PutStep(descriptor, leaf, Absent)
      BY <2>3 DEF PutStep
    <3>4. SourcesOK'
      BY <1>1, <1>2, <1>3, <3>2, <3>3, SourcesPut
    <3>5. OneWay'
      BY <1>1, <1>2, <2>3, <3>2, <3>3, OneWayPut DEF SourcesOK
    <3>6. Owed' = Owed
      BY <2>1 DEF Owed
    <3>7. Underway'
      BY <1>1, <2>1, <2>3, <3>6 DEF Underway, Writing
    <3> QED BY <3>4, <3>5, <3>7
  <2> QED BY <1>8, <2>2, <2>3 DEF Stored!Unlink, leaf
<1>9. CASE Stored!SyncRemoval
  <2>1. /\ Stored!End
        /\ Stored!Sync(descriptor) \/ UNCHANGED survives
        /\ UNCHANGED <<tree, used, listed, listedDisk, excused, vanished>>
    BY <1>9 DEF Stored!SyncRemoval
  <2>2. CASE Stored!Sync(descriptor)
    <3>1. SourcesOK'
      BY <1>1, <1>2, <1>3, <2>1, <2>2, SourcesSync
    <3> QED BY <1>4, <2>1, <3>1
  <2>3. CASE UNCHANGED survives
    <3>1. SourcesOK'
      BY <1>2, <1>3, <2>1, <2>3, SourcesRest
    <3> QED BY <1>4, <2>1, <3>1
  <2> QED BY <2>1, <2>2, <2>3
<1> QED BY <1>6, <1>7, <1>8, <1>9

(* Everybody else.                                                         *)
LEMMA SafeOthers ==
    ASSUME FilesOK, FilesOK', CommandOK, SourcesOK, OneWay, Underway,
           Stored!OthersMake \/ Stored!Displace \/ Stored!PowerLoss
    PROVE  SourcesOK' /\ OneWay' /\ Underway'
<1> USE DEF Stored!saved, Stored!history, Stored!command
<1> DEFINE leaf == Stored!Leaf(source)
<1>1. /\ source \in Sources /\ listed \in listedDisk
      /\ leaf \in Name /\ descriptor \in Stored!Directory
  BY HereIs DEF CommandOK, Underway
<1> HIDE DEF leaf
<1>2. CASE Stored!OthersMake
  <2>1. PICK d \in used \cup {Root}, m \in Name, n \in Node :
           /\ tree[d][m] = Absent /\ Stored!Make(d, m, n)
           /\ UNCHANGED <<listed, listedDisk, pc, op, source, depth, descriptor,
                          excused, vanished>>
    BY <1>2 DEF Stored!OthersMake
  <2>2. Owed' = Owed
    BY <2>1 DEF Owed
  <2>3. PutStep(d, m, n)
    BY <2>1 DEF Stored!Make, PutStep
  <2>4. Harmless(d, m)
    BY <2>1, AbsentIsHarmless DEF SourcesOK
  <2>5. SourcesOK'
    BY <2>1, <2>2, <2>3, <2>4, SourcesPut
  <2>6. OneWay'
    BY <2>1, <2>3, <2>4, OneWayPut DEF SourcesOK
  <2>7. EntryChanges(d, m, n)
    BY <2>3, PutStepIs
  <2>8. tree[descriptor][leaf] = File =>
           /\ tree'[descriptor][leaf] = File
           /\ survives'[descriptor][leaf] = survives[descriptor][leaf]
    BY <1>1, <2>1, <2>7, KindsApart DEF EntryChanges
  <2>9. Underway'
    BY <2>1, <2>2, <2>8 DEF Underway, Writing, leaf
  <2> QED BY <2>5, <2>6, <2>9
<1>3. CASE Stored!Displace
  <2>1. PICK d \in used \cup {Root}, m \in Name, entry \in {Absent, Symlink} :
           /\ Stored!Put(d, m, entry) /\ excused' = excused \cup Stored!Under(d, m)
           /\ UNCHANGED <<used, listed, listedDisk, pc, op, source, depth, descriptor,
                          vanished>>
    BY <1>3 DEF Stored!Displace
  <2>2. Owed' \subseteq Owed
    BY <2>1 DEF Owed
  <2>3. PutStep(d, m, entry)
    BY <2>1 DEF PutStep
  <2>4. Harmless(d, m)
    BY <2>1 DEF Harmless
  <2>5. SourcesOK'
    BY <2>1, <2>2, <2>3, <2>4, SourcesPut
  <2>6. OneWay'
    BY <2>1, <2>3, <2>4, OneWayPut DEF SourcesOK
  <2>7. EntryChanges(d, m, entry)
    BY <2>3, PutStepIs
  <2>8. ASSUME Writing, source \notin excused' PROVE ~(d = descriptor /\ m = leaf)
    <3>1. depth = Len(source) - 1 /\ Stored!Walk(source)[depth] = descriptor
      BY <2>1, <2>8 DEF Writing, Underway, OneWay
    <3>2. Len(source) \in 1..Len(source) /\ leaf = source[Len(source)]
      BY <1>1, SourceIs DEF leaf
    <3>3. source \notin Stored!Under(d, m)
      BY <2>1, <2>8
    <3> QED BY <1>1, <3>1, <3>2, <3>3 DEF Stored!Under
  <2>9. Writing' /\ source' \notin excused' =>
           /\ tree'[descriptor][leaf] = tree[descriptor][leaf]
           /\ survives'[descriptor][leaf] = survives[descriptor][leaf]
           /\ Writing /\ source \notin excused
    BY <1>1, <2>1, <2>7, <2>8 DEF EntryChanges, Writing
  <2>10. Underway'
    BY <2>1, <2>2, <2>9 DEF Underway, Writing, leaf
  <2> QED BY <2>5, <2>6, <2>10
<1>4. CASE Stored!PowerLoss
  <2>1. SourcesOK'
    BY <1>4, PowerLossKeeps DEF SourcesOK, CommandOK
  <2>2. Stored!End /\ listed' \in listedDisk'
    BY <1>4 DEF Stored!PowerLoss
  <2>3. OneWay'
    BY <1>1, <2>2, OneWayAtRoot DEF Stored!End
  <2> QED BY <2>1, <2>2, <2>3, UnderwayEnds
<1> QED BY <1>2, <1>3, <1>4

LEMMA DirectoriesInit == Stored!Init => DirectoriesInv
<1> SUFFICES ASSUME Stored!Init PROVE DirectoriesInv
  OBVIOUS
<1>1. FilesOK /\ CommandOK
  BY ContainedInit
<1>2. PICK top \in Node, h \in Name :
         /\ used = {top}
         /\ \A d \in Stored!Directory, n \in Name :
               tree[d][n] = IF d = Root /\ n = h THEN top
                            ELSE IF d = Outside THEN tree[d][n] ELSE Absent
  <2>1. PICK top \in Node, s \in Sources :
           /\ used = {top}
           /\ tree = [d \in Stored!Directory |-> [n \in Name |->
                         IF d = Root /\ n = Head(s) THEN top
                         ELSE IF d = Outside /\ n = Stored!Leaf(s) THEN File ELSE Absent]]
    BY DEF Stored!Init
  <2>2. \A d \in Stored!Directory, n \in Name :
           tree[d][n] = IF d = Root /\ n = Head(s) THEN top
                        ELSE IF d = Outside THEN tree[d][n] ELSE Absent
    BY <2>1
  <2>3. Head(s) \in Name
    BY SourceIs
  <2> QED BY <2>1, <2>2, <2>3
<1>3. /\ survives = [d \in Stored!Directory |-> [n \in Name |-> {tree[d][n]}]]
      /\ pc = "idle" /\ op = "write" /\ source \in Sources /\ depth = 0 /\ descriptor = Root
      /\ listed = {} /\ listedDisk = {{}}
  BY DEF Stored!Init
<1>4. Root \in Stored!Directory /\ Node \subseteq Stored!Directory /\ Outside \notin Inner
      /\ Inner \subseteq Stored!Directory /\ Absent \notin Stored!Directory
      /\ Root \notin Node /\ Node \subseteq Inner
  BY KindsApart
<1>5. \A d \in Stored!Directory, n \in Name : survives[d][n] = {tree[d][n]}
  BY <1>3
<1>6. \A d \in Stored!Directory, n \in Name, x \in Node :
         x = tree[d][n] => x = top /\ d = Root /\ n = h
  <2> SUFFICES ASSUME NEW d \in Stored!Directory, NEW n \in Name, tree[d][n] \in Node,
                      ~(d = Root /\ n = h)
               PROVE  FALSE
    BY <1>2
  <2>1. d # Outside
    <3> SUFFICES ASSUME d = Outside PROVE FALSE
      OBVIOUS
    <3>1. PICK s \in Sources :
             tree = [e \in Stored!Directory |-> [o \in Name |->
                         IF e = Root /\ o = Head(s) THEN CHOOSE t \in used : TRUE
                         ELSE IF e = Outside /\ o = Stored!Leaf(s) THEN File ELSE Absent]]
      <4>1. PICK t \in Node, s \in Sources :
               /\ used = {t}
               /\ tree = [e \in Stored!Directory |-> [o \in Name |->
                         IF e = Root /\ o = Head(s) THEN t
                         ELSE IF e = Outside /\ o = Stored!Leaf(s) THEN File ELSE Absent]]
        BY DEF Stored!Init
      <4>2. t = CHOOSE u \in used : TRUE
        BY <4>1
      <4> QED BY <4>1, <4>2
    <3>2. tree[Outside][n] \in {File, Absent}
      BY <3>1, <1>4, KindsApart
    <3> QED BY <3>2, <1>4, KindsApart
  <2> QED BY <1>2, <1>4, <2>1
<1>7. OnePlace
  <2>1. ASSUME NEW x \in Node \ used
        PROVE  /\ \A d \in Stored!Directory, n \in Name : x \notin survives[d][n]
               /\ \A n \in Name : survives[x][n] = {Absent}
    <3>1. x # top /\ x # Root /\ x # Outside /\ x \in Stored!Directory
      BY <1>2, <1>4
    <3>2. \A n \in Name : tree[x][n] = Absent
      BY <1>2, <3>1
    <3> QED BY <1>5, <1>6, <3>1, <3>2
  <2> QED BY <1>5, <1>6, <2>1 DEF OnePlace
<1>8. OneWay
  <2>1. Stored!Walk(source)[0] = Root
    BY <1>3, StepOnWay DEF Stored!Walk
  <2>2. \A s \in Sources : \A j \in 0..Len(s) : Stored!Walk(s)[j] = Root => j = 0
    BY <1>1, RootIsFirst
  <2> QED BY <1>3, <2>1, <2>2 DEF OneWay
<1>9. Settled
  <2> SUFFICES ASSUME NEW s \in Sources, NEW i \in 1..(Len(s) - 1),
                      Stored!Walk(s)[i - 1] \in Inner
               PROVE  survives[Stored!Walk(s)[i - 1]][s[i]] \subseteq {Stored!Walk(s)[i]}
    BY DEF Settled
  <2>1. s[i] \in Name /\ i \in 1..Len(s)
    BY SourceIs
  <2>2. Stored!Walk(s)[i] = tree[Stored!Walk(s)[i - 1]][s[i]]
    BY <2>1, StepOnWay DEF Stored!Walk
  <2> QED BY <1>4, <1>5, <2>1, <2>2
<1>10. Durable /\ Underway
  BY <1>3 DEF Durable, Owed, Underway, Writing
<1> QED BY <1>1, <1>7, <1>8, <1>9, <1>10 DEF DirectoriesInv

LEMMA DirectoriesNext ==
    ASSUME DirectoriesInv, Stored!Next
    PROVE  DirectoriesInv' /\ tree'[Outside] = tree[Outside]
<1>1. FilesOK /\ CommandOK /\ SourcesOK /\ OneWay /\ Underway
  BY DEF DirectoriesInv, SourcesOK
<1>2. FilesOK' /\ CommandOK' /\ tree'[Outside] = tree[Outside]
  BY <1>1, ContainedNext
<1>3. SourcesOK' /\ OneWay' /\ Underway'
  <2>1. CASE \E s \in Sources : Stored!BeginAdd(s) \/ Stored!BeginRemove(s)
    BY <1>1, <1>2, <2>1, SafeBegin
  <2>2. CASE Stored!Open \/ Stored!Missing \/ Stored!Mkdir \/ Stored!Blocked
    BY <1>1, <1>2, <2>2, SafeWalk
  <2>3. CASE Stored!Link \/ Stored!SyncSource \/ Stored!LinkUndone
    BY <1>1, <1>2, <2>3, SafeLink
  <2>4. CASE Stored!CommitAddition \/ Stored!CommitFails
    BY <1>1, <1>2, <2>4, SafeCommit
  <2>5. CASE Stored!Inspect \/ Stored!CommitRemoval \/ Stored!Kill
    BY <1>1, <1>2, <2>5, SafeBegin
  <2>6. CASE \/ Stored!SyncManifest \/ Stored!SyncManifestFails
             \/ Stored!Unlink \/ Stored!SyncRemoval
    BY <1>1, <1>2, <2>6, SafeRemove
  <2>7. CASE Stored!OthersMake \/ Stored!Displace \/ Stored!PowerLoss
    BY <1>1, <1>2, <2>7, SafeOthers
  <2> QED BY <2>1, <2>2, <2>3, <2>4, <2>5, <2>6, <2>7 DEF Stored!Next
<1> QED BY <1>2, <1>3 DEF DirectoriesInv, SourcesOK

-----------------------------------------------------------------------------
(* The two parts together                                                  *)

(* While the binding runs susu.json refers to nothing.                     *)
PartsInv ==
    \/ part = "binding" /\ listed = {}
    \/ part = "directories" /\ DirectoriesInv

LEMMA PartsInit == MCInit => PartsInv
BY DirectoriesInit DEF MCInit, DirectoriesRest, PartsInv

LEMMA PartsNext ==
    ASSUME PartsInv, [MCNext]_<<part, vars, stored>>
    PROVE  PartsInv' /\ (tree'[Outside] = tree[Outside] \/ UNCHANGED stored)
<1>1. CASE UNCHANGED <<part, stored>>
  <2>1. UNCHANGED <<part, tree, survives, used, listed, listedDisk, pc, op, source, depth,
                    descriptor, changes, excused, vanished>>
    BY <1>1 DEF stored
  <2>2. FilesOK /\ CommandOK => FilesOK' /\ CommandOK'
    BY <2>1 DEF FilesOK, CommandOK
  <2>3. Owed' = Owed
    BY <2>1 DEF Owed
  <2>4. OnePlace /\ Settled /\ Durable => OnePlace' /\ Settled' /\ Durable'
    BY <2>1, <2>3, SourcesRest DEF SourcesOK
  <2>5. OneWay => OneWay'
    BY <2>1, OneWayRests
  <2>6. Underway => Underway'
    BY <2>1, <2>3 DEF Underway, Writing
  <2> QED BY <1>1, <2>1, <2>2, <2>4, <2>5, <2>6 DEF PartsInv, DirectoriesInv
<1>2. CASE part = "directories" /\ Stored!Next /\ UNCHANGED part
  BY <1>2, DirectoriesNext DEF PartsInv
<1> QED BY <1>1, <1>2 DEF MCNext

LEMMA PartsInvariance == MCSpec => []PartsInv
<1>1. PartsInv /\ [MCNext]_<<part, vars, stored>> => PartsInv'
  BY PartsNext
<1> QED BY <1>1, PartsInit, PTL DEF MCSpec

(* Types of the part that runs; the state lock is held by the writer that  *)
(* runs (state.go:135, safefs_unix.go:41).                                  *)
THEOREM TypesCorrect == MCSpec => []TypesOK
<1>1. MCSpec => Spec
  <2>1. MCInit => Init
    BY DEF MCInit
  <2>2. [MCNext]_<<part, vars, stored>> => [Next]_vars
    BY DEF MCNext
  <2> QED BY <2>1, <2>2, PTL DEF MCSpec, Spec
<1>2. PartsInv /\ TypeOK => TypesOK
  BY TypesFollow DEF PartsInv, DirectoriesInv, TypesOK
<1> QED BY <1>1, <1>2, TypeCorrect, PartsInvariance, PTL

(* No entry of susu.json is without its source, unless another program     *)
(* displaced it or a power loss took its whole directory: the link of a    *)
(* new source is synced before susu.json refers to it, and removed only    *)
(* after susu.json no longer does (repository.go:236, app.go:452).         *)
THEOREM NoneDangles == MCSpec => []NoDanglingSource
<1>1. PartsInv => NoDanglingSource
  BY DEF PartsInv, DirectoriesInv, Underway, Durable, Owed, NoDanglingSource, Stored!NoDangling
<1> QED BY <1>1, PartsInvariance, PTL

(* Whatever links appear on the way and whenever, no add or rm makes,      *)
(* links or unlinks anything outside the repository (safefs_unix.go:56).   *)
THEOREM NothingOutside == MCSpec => StaysInside
<1>1. PartsInv /\ [MCNext]_<<part, vars, stored>> =>
         [tree'[Outside] = tree[Outside]]_(Stored!vars)
  BY PartsNext DEF stored, Stored!vars, Stored!files, Stored!saved, Stored!command, Stored!history
<1> QED BY <1>1, PartsInvariance, PTL DEF MCSpec, StaysInside, Stored!StaysInside
============================================================================
