------------------------------ MODULE SusuStore ------------------------------
(***************************************************************************)
(* The repository that `susu add` and `susu rm` keep: susu.json and the    *)
(* stored sources under public/ and encrypted/, changed one file-system    *)
(* call at a time by commands that may fail, be killed or lose power       *)
(* between any two calls (app.Service.addWithHooks and Remove, over        *)
(* repository.WriteNewSource, RemoveSource, SaveManifest and               *)
(* atomicReplaceRooted).                                                   *)
(*                                                                         *)
(* SusuLocks shows that one command at a time is between loading the       *)
(* manifest and giving up its locks, so there is one command here, or      *)
(* none.  Users edit their own files at any moment.                        *)
(*                                                                         *)
(* A path is its rank in the sorted order in which the code visits paths.  *)
(* Distinct paths are distinct physical files: hard-linked candidates are  *)
(* out of this module's scope.  A directory entry has a current value and  *)
(* the set of values a power loss may leave on disk; a directory sync      *)
(* makes the current value the only one.                                   *)
(***************************************************************************)
EXTENDS Naturals

CONSTANTS Path,           \* logical paths, as ranks
          Data,           \* contents of a user's file
          Key,            \* master keys cryptox.Initialize may draw
          NoKey,          \* no crypto metadata; the "key" of a plaintext
          Missing,        \* no such file
          Unmanaged,      \* no such entry
          PowerMayFail,   \* whether the machine may lose power
          ManifestSyncMayFail \* whether syncing susu.json's directory may fail

ASSUME StoreAssumption ==
    /\ Path \subseteq Nat
    /\ NoKey \notin Key
    /\ Missing \notin Data
    /\ Unmanaged \notin {"public", "sensitive"}
    /\ \A k \in Key \cup {NoKey}, d \in Data :
          /\ Missing # [key |-> k, data |-> d]
          /\ \A c \in {"public", "sensitive"} :
                Unmanaged # [class |-> c, key |-> k, data |-> d]
    /\ PowerMayFail \in BOOLEAN
    /\ ManifestSyncMayFail \in BOOLEAN

Class    == {"public", "sensitive"}
Source   == Class \X Path
Content  == [key : Key \cup {NoKey}, data : Data]
Manifest == [entries : [Path -> Class \cup {Unmanaged}], key : Key \cup {NoKey}]

VARIABLES
    manifest,      \* susu.json as a process reads it now
    manifestDisk,  \* what susu.json may be after a power loss
    stored,        \* [Source -> Content or Missing]: the stored sources now
    storedDisk,    \* [Source -> what the source may be after a power loss]
    local,         \* [Path -> Data or Missing]: the user's files
    phase,         \* where the running command is, or "idle"
    current,       \* the manifest the command loaded
    draft,         \* the manifest the command is going to save
    sessionKey,    \* the master key the command holds
    request,       \* the candidates of an add, the entries an rm removes
    todo,          \* those not processed yet
    created,       \* new sources this add installed and would roll back
    added, updated, removed, error,  \* what the command reports
    residue        \* sources whose cleanup failed or never ran (history)

repoVars    == <<manifest, manifestDisk, stored, storedDisk>>
reportVars  == <<added, updated, removed, error>>
sessionVars == <<phase, current, draft, sessionKey, request, todo, created>>
vars == <<repoVars, local, sessionVars, reportVars, residue>>

-----------------------------------------------------------------------------
Managed(m)    == {p \in Path : m.entries[p] # Unmanaged}
SourceOf(m, p) == <<m.entries[p], p>>

\* Sources susu.json does not refer to.
Orphans == {s \in Source : /\ stored[s] # Missing
                           /\ manifest.entries[s[2]] # s[1]}

IsUpdate(p) == p \in Managed(current)
NewPaths    == request \ Managed(current)

\* p is the first of S in sorted order.
IsFirst(p, S) == p \in S /\ \A q \in S : p <= q

\* What the command would store for p now; Encrypt seals with the session key.
Sealed(p) == [key  |-> IF draft.entries[p] = "sensitive" THEN sessionKey ELSE NoKey,
              data |-> local[p]]

\* Keys that occur anywhere: a fresh random key is none of them.
UsedKeys == {manifest.key} \cup {m.key : m \in manifestDisk}
            \cup {c.key : c \in UNION {storedDisk[s] : s \in Source} \ {Missing}}

\* Every candidate can be opened, every update has its regular source.
Preflight ==
    \A p \in request : /\ local[p] # Missing
                       /\ IsUpdate(p) => stored[SourceOf(current, p)] # Missing

\* What may be on disk once value v has been written and not yet synced.
Cached(onDisk, v) == IF PowerMayFail THEN onDisk \cup {v} ELSE {v}

\* The two ways a directory entry changes.
Put(s, c) ==
    /\ stored' = [stored EXCEPT ![s] = c]
    /\ storedDisk' = [storedDisk EXCEPT ![s] = Cached(@, c)]

PutSynced(s, c) ==
    /\ stored' = [stored EXCEPT ![s] = c]
    /\ storedDisk' = [storedDisk EXCEPT ![s] = {c}]

Goto(l) == phase' = l

EmptyManifest == [entries |-> [p \in Path |-> Unmanaged], key |-> NoKey]

ClearSession ==
    /\ phase' = "idle"
    /\ current' = EmptyManifest
    /\ draft' = EmptyManifest
    /\ sessionKey' = NoKey
    /\ request' = {} /\ todo' = {} /\ created' = {}
    /\ added' = {} /\ updated' = {} /\ removed' = {}
    /\ error' = FALSE

Init ==
    /\ manifest = EmptyManifest
    /\ manifestDisk = {EmptyManifest}
    /\ stored = [s \in Source |-> Missing]
    /\ storedDisk = [s \in Source |-> {Missing}]
    /\ local \in [Path -> Data \cup {Missing}]
    /\ phase = "idle"
    /\ current = EmptyManifest
    /\ draft = EmptyManifest
    /\ sessionKey = NoKey
    /\ request = {} /\ todo = {} /\ created = {}
    /\ added = {} /\ updated = {} /\ removed = {}
    /\ error = FALSE
    /\ residue = {}

-----------------------------------------------------------------------------
(* add *)

\* Fault: a managed candidate takes the class of the flag.
BeginAddReclassifies(P, cls) ==
    /\ phase = "idle"
    /\ P # {}
    /\ \A p \in P : local[p] # Missing
    /\ current' = manifest
    /\ draft' = [manifest EXCEPT !.entries =
                    [p \in Path |-> IF p \in P THEN cls ELSE @[p]]]
    /\ request' = P
    /\ todo' = P
    /\ Goto(IF cls = "sensitive" THEN "password" ELSE "write")
    /\ UNCHANGED <<repoVars, local, sessionKey, created, reportVars, residue>>

\* LoadManifest, candidate classification, the first Validate and preflight.
\* A managed candidate keeps its class whatever the flag says; a new one gets
\* the class of the flag.  A command that fails here has changed nothing.
BeginAdd(P, cls) ==
    /\ phase = "idle"
    /\ P # {}
    /\ \A p \in P : /\ local[p] # Missing
                    /\ p \in Managed(manifest)
                          => stored[SourceOf(manifest, p)] # Missing
    /\ current' = manifest
    /\ draft' = [manifest EXCEPT !.entries =
                    [p \in Path |-> IF p \in P \ Managed(manifest)
                                    THEN cls ELSE @[p]]]
    /\ request' = P
    /\ todo' = P
    /\ Goto(IF \E p \in P : draft'.entries[p] = "sensitive"
            THEN "password" ELSE "write")
    /\ UNCHANGED <<repoVars, local, sessionKey, created, reportVars, residue>>

\* The password is created when the manifest has no crypto metadata, and must
\* unlock the metadata when it has.  Then Validate and preflight again.
Password ==
    /\ phase = "password"
    /\ Preflight
    /\ IF current.key = NoKey
         THEN \E k \in Key \ UsedKeys :
                 /\ sessionKey' = k
                 /\ draft' = [draft EXCEPT !.key = k]
         ELSE /\ sessionKey' = current.key
              /\ UNCHANGED draft
    /\ Goto("write")
    /\ UNCHANGED <<repoVars, local, current, request, todo, created,
                   reportVars, residue>>

\* Wrong, empty or unconfirmed password, or a candidate that went away.
PasswordFails ==
    /\ phase = "password"
    /\ Goto("report")
    /\ error' = TRUE
    /\ UNCHANGED <<repoVars, local, current, draft, sessionKey, request, todo,
                   created, added, updated, removed, residue>>

\* An exact update: replaceAddSource up to and including the rename.
ReplaceSource(p) ==
    /\ IsFirst(p, todo)
    /\ phase = "write"
    /\ IsUpdate(p)
    /\ Preflight
    /\ Put(SourceOf(draft, p), Sealed(p))
    /\ updated' = updated \cup {p}
    /\ Goto("writeSync")
    /\ UNCHANGED <<manifest, manifestDisk, local, current, draft, sessionKey,
                   request, todo, created, added, removed, error, residue>>

\* Fault: a new source is renamed into place like an update.
LinkSourceReplaces(p) ==
    /\ IsFirst(p, todo)
    /\ phase = "write"
    /\ ~IsUpdate(p)
    /\ Preflight
    /\ Put(SourceOf(draft, p), Sealed(p))
    /\ Goto("writeSync")
    /\ UNCHANGED <<manifest, manifestDisk, local, current, draft, sessionKey,
                   request, todo, created, reportVars, residue>>

\* A new source: WriteNewSource up to and including the no-replace link.
LinkSource(p) ==
    /\ IsFirst(p, todo)
    /\ phase = "write"
    /\ ~IsUpdate(p)
    /\ Preflight
    /\ stored[SourceOf(draft, p)] = Missing
    /\ Put(SourceOf(draft, p), Sealed(p))
    /\ Goto("writeSync")
    /\ UNCHANGED <<manifest, manifestDisk, local, current, draft, sessionKey,
                   request, todo, created, reportVars, residue>>

\* Preflight, the read, the staging file, ErrSourceExists or the final call.
WriteFails ==
    /\ phase = "write" /\ todo # {}
    /\ Goto("rollback")
    /\ error' = TRUE
    /\ UNCHANGED <<repoVars, local, current, draft, sessionKey, request, todo,
                   created, added, updated, removed, residue>>

\* Fault: the directory of a new source is not synced.
SyncSourceSkipped(p) ==
    /\ IsFirst(p, todo)
    /\ phase = "writeSync"
    /\ todo' = todo \ {p}
    /\ created' = created \cup ({p} \ Managed(current))
    /\ added' = added \cup ({p} \ Managed(current))
    /\ Goto("write")
    /\ UNCHANGED <<repoVars, local, current, draft, sessionKey,
                   request, updated, removed, error, residue>>

\* The directory sync (for a new source also the unlink of its temporary name).
SyncSource(p) ==
    /\ IsFirst(p, todo)
    /\ phase = "writeSync"
    /\ PutSynced(SourceOf(draft, p), stored[SourceOf(draft, p)])
    /\ todo' = todo \ {p}
    /\ IF IsUpdate(p)
         THEN UNCHANGED <<created, added>>
         ELSE /\ created' = created \cup {p}
              /\ added' = added \cup {p}
    /\ Goto("write")
    /\ UNCHANGED <<manifest, manifestDisk, local, current, draft, sessionKey,
                   request, updated, removed, error, residue>>

\* It fails: an update stays, a new source is unlinked on a best-effort basis.
SyncSourceFails(p) ==
    LET s == SourceOf(draft, p) IN
    /\ IsFirst(p, todo)
    /\ phase = "writeSync"
    /\ \/ /\ ~IsUpdate(p)
          /\ Put(s, Missing)
          /\ UNCHANGED residue
       \/ /\ residue' = IF IsUpdate(p) THEN residue ELSE residue \cup {s}
          /\ UNCHANGED <<stored, storedDisk>>
    /\ Goto("rollback")
    /\ error' = TRUE
    /\ UNCHANGED <<manifest, manifestDisk, local, current, draft, sessionKey,
                   request, todo, created, added, updated, removed>>

\* Only updates: susu.json is left alone.
FinishUpdates ==
    /\ phase = "write" /\ todo = {}
    /\ Preflight
    /\ created = {}
    /\ Goto("report")
    /\ UNCHANGED <<repoVars, local, current, draft, sessionKey, request, todo,
                   created, reportVars, residue>>

\* manifest.Save up to and including the rename.
CommitAdditions ==
    /\ phase = "write" /\ todo = {}
    /\ Preflight
    /\ created # {}
    /\ manifest' = draft
    /\ manifestDisk' = Cached(manifestDisk, draft)
    /\ Goto("commitSync")
    /\ UNCHANGED <<stored, storedDisk, local, current, draft, sessionKey,
                   request, todo, created, reportVars, residue>>

\* Fault: a failed save returns without rolling the new sources back.
CommitFailsSilently ==
    /\ phase = "write" /\ todo = {}
    /\ Goto("report")
    /\ error' = TRUE
    /\ added' = {}
    /\ UNCHANGED <<repoVars, local, current, draft, sessionKey, request, todo,
                   created, updated, removed, residue>>

\* The last preflight or the save fails before the rename.
CommitFails ==
    /\ phase = "write" /\ todo = {}
    /\ Goto("rollback")
    /\ error' = TRUE
    /\ UNCHANGED <<repoVars, local, current, draft, sessionKey, request, todo,
                   created, added, updated, removed, residue>>

\* The sync after the rename; ErrCommitted is reported and nothing is undone.
SyncAdditions ==
    /\ phase = "commitSync"
    /\ \/ manifestDisk' = {manifest} /\ UNCHANGED error
       \/ ManifestSyncMayFail /\ error' = TRUE /\ UNCHANGED manifestDisk
    /\ Goto("report")
    /\ UNCHANGED <<manifest, stored, storedDisk, local, current, draft,
                   sessionKey, request, todo, created, added, updated,
                   removed, residue>>

\* rollback removes each created source and ignores what RemoveSource returns.
RollbackSource(p) ==
    LET s == SourceOf(draft, p) IN
    /\ IsFirst(p, created)
    /\ phase = "rollback"
    /\ created' = created \ {p}
    /\ \/ /\ Put(s, Missing) \/ PutSynced(s, Missing)
          /\ UNCHANGED residue
       \/ /\ residue' = residue \cup {s}
          /\ UNCHANGED <<stored, storedDisk>>
    /\ UNCHANGED <<manifest, manifestDisk, local, phase, current, draft,
                   sessionKey, request, todo, reportVars>>

\* Fault: the additions stay in the result.
RollbackDoneKeepsAdded ==
    /\ phase = "rollback" /\ created = {}
    /\ Goto("report")
    /\ UNCHANGED <<repoVars, local, current, draft, sessionKey, request, todo,
                   created, reportVars, residue>>

RollbackDone ==
    /\ phase = "rollback" /\ created = {}
    /\ added' = {}
    /\ Goto("report")
    /\ UNCHANGED <<repoVars, local, current, draft, sessionKey, request, todo,
                   created, updated, removed, error, residue>>

-----------------------------------------------------------------------------
(* rm *)

\* Every requested path is managed and its source opens, or nothing happens.
BeginRemove(P) ==
    /\ phase = "idle"
    /\ P # {} /\ P \subseteq Managed(manifest)
    /\ \A p \in P : stored[SourceOf(manifest, p)] # Missing
    /\ current' = manifest
    /\ draft' = [manifest EXCEPT !.entries =
                    [p \in Path |-> IF p \in P THEN Unmanaged ELSE @[p]]]
    /\ request' = P
    /\ todo' = P
    /\ Goto("forget")
    /\ UNCHANGED <<repoVars, local, sessionKey, created, reportVars, residue>>

CommitRemoval ==
    /\ phase = "forget"
    /\ manifest' = draft
    /\ manifestDisk' = Cached(manifestDisk, draft)
    /\ removed' = request
    /\ Goto("forgetSync")
    /\ UNCHANGED <<stored, storedDisk, local, current, draft, sessionKey,
                   request, todo, created, added, updated, error, residue>>

RemovalFails ==
    /\ phase = "forget"
    /\ error' = TRUE
    /\ Goto("report")
    /\ UNCHANGED <<repoVars, local, current, draft, sessionKey, request, todo,
                   created, added, updated, removed, residue>>

\* Fault: the repository directory is not synced after the rename.
SyncRemovalSkipped ==
    /\ phase = "forgetSync"
    /\ Goto("delete")
    /\ UNCHANGED <<repoVars, local, current, draft, sessionKey, request, todo,
                   created, reportVars, residue>>

\* Deletion goes on whether or not the directory could be synced.
SyncRemoval ==
    /\ phase = "forgetSync"
    /\ \/ manifestDisk' = {manifest} /\ UNCHANGED error
       \/ ManifestSyncMayFail /\ error' = TRUE /\ UNCHANGED manifestDisk
    /\ Goto("delete")
    /\ UNCHANGED <<manifest, stored, storedDisk, local, current, draft,
                   sessionKey, request, todo, created, added, updated,
                   removed, residue>>

\* RemoveSource: done and synced, done without the sync, or not done.
DeleteSource(p) ==
    LET s == SourceOf(current, p) IN
    /\ IsFirst(p, todo)
    /\ phase = "delete"
    /\ todo' = todo \ {p}
    /\ \/ /\ PutSynced(s, Missing)
          /\ UNCHANGED <<error, residue>>
       \/ /\ Put(s, Missing)
          /\ error' = TRUE
          /\ UNCHANGED residue
       \/ /\ error' = TRUE
          /\ residue' = residue \cup {s}
          /\ UNCHANGED <<stored, storedDisk>>
    /\ UNCHANGED <<manifest, manifestDisk, local, phase, current, draft,
                   sessionKey, request, created, added, updated, removed>>

DeletesDone ==
    /\ phase = "delete" /\ todo = {}
    /\ Goto("report")
    /\ UNCHANGED <<repoVars, local, current, draft, sessionKey, request, todo,
                   created, reportVars, residue>>

-----------------------------------------------------------------------------
(* Around the commands. *)

\* The result is printed and the process ends.
Finish ==
    /\ phase = "report"
    /\ ClearSession
    /\ UNCHANGED <<repoVars, local, residue>>

\* The user edits, creates or deletes a file.
Edit(p) ==
    /\ \E d \in Data \cup {Missing} : local' = [local EXCEPT ![p] = d]
    /\ UNCHANGED <<repoVars, sessionVars, reportVars, residue>>

\* The kernel writes back what nobody synced.
Flush ==
    /\ PowerMayFail
    /\ manifestDisk' = {manifest}
    /\ storedDisk' = [s \in Source |-> {stored[s]}]
    /\ UNCHANGED <<manifest, stored, local, sessionVars, reportVars, residue>>

\* The documented remedy for what a crash left: remove it by hand.  A person
\* does so long after the kernel has written susu.json back.
CleanUp(s) ==
    /\ phase = "idle"
    /\ s \in Orphans
    /\ manifestDisk = {manifest}
    /\ Put(s, Missing)
    /\ residue' = residue \ {s}
    /\ UNCHANGED <<manifest, manifestDisk, local, sessionVars, reportVars>>

\* The process is killed; the file system lives on.
Crash ==
    /\ phase # "idle"
    /\ ClearSession
    /\ residue' = residue \cup Orphans
    /\ UNCHANGED <<repoVars, local>>

\* The machine stops; each directory entry is one of those it may have been.
PowerLoss ==
    /\ PowerMayFail
    /\ \E m \in manifestDisk :
          /\ manifest' = m
          /\ manifestDisk' = {m}
    /\ stored' \in {f \in [Source -> UNION {storedDisk[s] : s \in Source}] :
                       \A s \in Source : f[s] \in storedDisk[s]}
    /\ storedDisk' = [s \in Source |-> {stored'[s]}]
    /\ ClearSession
    /\ residue' = Orphans'
    /\ UNCHANGED local

Add ==
    \/ \E P \in SUBSET Path, cls \in Class : BeginAdd(P, cls)
    \/ Password \/ PasswordFails
    \/ \E p \in Path : \/ ReplaceSource(p) \/ LinkSource(p)
                      \/ SyncSource(p) \/ SyncSourceFails(p) \/ RollbackSource(p)
    \/ WriteFails \/ FinishUpdates \/ CommitAdditions \/ CommitFails
    \/ SyncAdditions \/ RollbackDone

Remove ==
    \/ \E P \in SUBSET Path : BeginRemove(P)
    \/ CommitRemoval \/ RemovalFails \/ SyncRemoval \/ DeletesDone
    \/ \E p \in Path : DeleteSource(p)

Environment ==
    \/ \E p \in Path : Edit(p)
    \/ \E s \in Source : CleanUp(s)
    \/ Crash \/ Flush \/ PowerLoss

Next == Add \/ Remove \/ Finish \/ Environment

Spec == Init /\ [][Next]_vars

-----------------------------------------------------------------------------
Phases == {"idle", "password", "write", "writeSync", "commitSync", "rollback",
           "forget", "forgetSync", "delete", "report"}

TypeOK ==
    /\ manifest \in Manifest
    /\ manifestDisk \subseteq Manifest /\ manifest \in manifestDisk
    /\ stored \in [Source -> Content \cup {Missing}]
    /\ storedDisk \in [Source -> SUBSET (Content \cup {Missing})]
    /\ \A s \in Source : stored[s] \in storedDisk[s]
    /\ local \in [Path -> Data \cup {Missing}]
    /\ phase \in Phases
    /\ current \in Manifest /\ draft \in Manifest
    /\ sessionKey \in Key \cup {NoKey}
    /\ request \subseteq Path /\ todo \subseteq request
    /\ created \subseteq NewPaths /\ added \subseteq NewPaths
    /\ updated \subseteq request \cap Managed(current)
    /\ removed \subseteq request
    /\ error \in BOOLEAN
    /\ residue \subseteq Source

\* susu.json never refers to a source that is not there, at any moment of any
\* command, whatever fails and wherever the process is killed.
NoDangling ==
    \A p \in Managed(manifest) : stored[SourceOf(manifest, p)] # Missing

\* Every sensitive entry is sealed under the one key susu.json can unlock, and
\* public entries are stored as they are.
Decryptable ==
    \A p \in Managed(manifest) :
        stored[SourceOf(manifest, p)] # Missing =>
            IF manifest.entries[p] = "sensitive"
            THEN /\ manifest.key # NoKey
                 /\ stored[SourceOf(manifest, p)].key = manifest.key
            ELSE stored[SourceOf(manifest, p)].key = NoKey

\* The result says what happened to susu.json: Added and Removed are exactly the
\* paths whose management changed, whether or not an error comes with them, and
\* without an error everything requested was done.
ReportHonest ==
    phase = "report" =>
        /\ added = Managed(manifest) \ Managed(current)
        /\ removed = Managed(current) \ Managed(manifest)
        /\ ~error => /\ todo = {}
                     /\ manifest.entries = draft.entries
                     /\ removed = {} => added \cup updated = request

\* A source nobody refers to is left behind only where a clean-up failed or the
\* process was killed; an add that reports an error otherwise undid its installs,
\* so repeating it does not run into ErrSourceExists.
NoSilentOrphans ==
    phase \in {"idle", "report"} => Orphans \subseteq residue

\* A stored source that exists is overwritten only as a reported update of the
\* entry that owns it; an unreferenced file is never replaced.
OnlyUpdatesOverwrite ==
    [][\A s \in Source :
          stored[s] # Missing /\ stored'[s] \notin {Missing, stored[s]}
              => /\ manifest.entries[s[2]] = s[1]
                 /\ s[2] \in updated']_vars

\* Once there is crypto metadata it is never replaced or dropped, not even when
\* the last sensitive entry goes.
KeyIsForever ==
    [][manifest.key # NoKey => manifest'.key = manifest.key]_vars

\* A user who sees only susu.json and what its entries hold sees additions appear
\* all at once, updates one file at a time, removals all at once, and no other
\* change: the store implements the ledger.
Snapshot ==
    [p \in Path |->
        IF p \notin Managed(manifest) THEN Unmanaged
        ELSE IF stored[SourceOf(manifest, p)] = Missing THEN Missing
        ELSE [class |-> manifest.entries[p],
              key   |-> stored[SourceOf(manifest, p)].key,
              data  |-> stored[SourceOf(manifest, p)].data]]

Ledger == INSTANCE SusuLedger WITH key <- manifest.key, snapshot <- Snapshot
ImplementsLedger == Ledger!Spec

\* docs/design.md:408, of rm: "The manifest stops referencing entries before
\* deletion": no manifest that a power loss can bring back refers to a source rm
\* has deleted.
ManifestForgetsFirst ==
    phase = "delete" =>
        \A p \in request \ todo :
            stored[SourceOf(current, p)] = Missing =>
                \A m \in manifestDisk : m.entries[p] # current.entries[p]
=============================================================================
