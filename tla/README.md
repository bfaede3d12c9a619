# A verification of susu in TLA+

`susu` copies selected dotfiles of a user's home into a Git worktree and back,
encrypting the sensitive ones. It is a command line program, but several of its
processes run at once, it keeps three kinds of files consistent that it can only
change one system call at a time, and it promises things about errors, kills and
power loss (`src/docs/design.md`, "Transaction, atomicity, and failure behavior"
and "Locking and concurrency"). This project models that part of the code, checks
it with TLC on small instances, and proves it with TLAPS where that is possible.

## Inventory

| Part | State | Operations | What is hard |
| --- | --- | --- | --- |
| application service, `internal/app/app.go` | none of its own between commands | `Init`, `Add`, `Remove`, `Overview`, `List`, `Show`, `Apply`; all but `Init` through `openLocked` | two locks, a binding that may move, a prompt of any length between read and write, rollback, partial results |
| local binding, `internal/state` | `state.json` and `lock` per installation | `Load`, `Save`, `Lock` | read before the lock, read again under it |
| repository, `internal/repository` | stored sources under `public/` and `encrypted/`; `susu.lock` in the Git common directory | `Initialize`, `Open`, `Lock`, `OpenSource`, `ReadSource`, `WriteNewSource`, `RemoveSource` | linked worktrees and several installations share one repository |
| manifest, `internal/manifest` | `susu.json` | `Load`, `Save`, `Validate`, `SourceFor` | rename before directory sync: `ErrCommitted` is an error after the fact |
| safe file system, `internal/safefs` | open descriptors | `OpenParent`, `CreateTempExcluding`, `Link`, `Rename`, `Remove`, `Sync` | crash points, names taken by others, directories replaced during the walk |
| atomic replacement, `app.atomicReplaceRooted` | staging file, destination | one call | concurrent writers without a common lock, ownership of the staging name |
| encryption, `internal/cryptox` | none | `Initialize`, `Unlock`, `Encrypt`, `Decrypt` | a key drawn in one command must be the one later commands unlock; metadata and envelopes come from Git |
| logical paths, `internal/paths` | home and XDG roots | `Normalize`, `SplitLogical`, `Resolve`, `ComparisonKey` | a path must mean the same here and on the next machine |
| candidate collection, ignore policy, control boundaries | identities of files seen earlier, roots to keep out | `collectCandidates`, `preflightCandidates`, `readCandidate`, `ensureOutside` | files replaced between inspection and use, many names for one file |
| limits, in `app` and `manifest` | none | lengths checked before and after reading | files that grow while they are read, two limits for one file |
| command line, `internal/cli`, `cmd/susu` | password, key and text in memory | parsing, prompting, reporting | where flags end, what was committed when a call fails, secrets on every error exit |

How they interact: the command line calls one method of the service. `Init` calls
`repository.Initialize` (under the repository lock) and then `state.Save` (under the
state lock). Every other command calls `openLocked`: load the binding, open the
repository, take the state lock, load and open again, take the repository lock, load
the manifest. `Add` and `Remove` then change sources and the manifest, `Apply` writes
destinations through `atomicReplaceRooted`, which `Add` uses for updates too. There
are no callbacks but the password provider and no threads inside a process; processes
meet in the file system and in two `flock` locks.

Correctness, part by part: one command at a time per repository, on the repository
that is bound now (locking); no manifest entry without its source, no key lost,
reports that tell what happened (store, directories); whole files at the destination
and in the state directory (replacement, binding); nothing written before everything is
authenticated (apply); each file stored once, whole, from outside the control roots
(candidates, boundary, limits); sources that form a tree and paths that keep their
meaning (paths, manifest); nothing printed but what was sealed for that path, and no
secret left behind (vault); `--sensitive` and errors never lost (command line).

## Modules

| Module | What it is |
| --- | --- |
| `SusuLocks` | processes, installations, repositories, the two locks: `Service.Init`, `Service.openLocked` and what follows it |
| `SusuSerial` | abstract: commands run one at a time. `SusuLocks` implements it |
| `SusuStore` | `Add` and `Remove` over `susu.json` and the stored sources, one system call at a time, with failures, kills and power loss |
| `SusuLedger` | abstract: a table of snapshots changed by whole additions, single updates and whole removals. `SusuStore` implements it |
| `SusuDirectories` | the directories above stored sources: `OpenParent`'s walk under `WriteNewSource`, `RemoveSource` and `Save`, other programs, power loss |
| `SusuReplace` | `atomicReplaceRooted`, several writers at once |
| `SusuApply` | `Apply` while sources and symbolic links change under it |
| `SusuBinding` | `state.Store`: `Save`, the lockless `Load`, `Lock` |
| `SusuPaths` | operators: `NewResolverAt`, `Normalize`, `Resolve`, `ComparisonKey`, `SourceFor`, `Validate` |
| `SusuManifest` | one manifest on several machines: `Add`, `Rm`, `Apply`, and Git carrying it |
| `SusuCandidates` | what `add` reads while names lead to other files between any two of its calls |
| `SusuBoundary` | what `add` keeps out and picks up in a tree with links, moves and case folding |
| `SusuLimits` | lengths: what is read of files that grow, what `apply` holds, how large `susu.json` becomes |
| `SusuVault` | encryption, the prompt, and the life of every secret in memory |
| `SusuCommandLine` | one process from its arguments to its exit status |
| `SusuLocksProofs`, `SusuStoreProofs`, `SusuReplaceProofs`, `SusuApplyProofs`, `SusuManifestProofs` | proofs about the module of that name |
| `SusuFilesProofs`, `SusuSecretsProofs`, `SusuCollectionProofs` | proofs about `SusuBinding` and `SusuDirectories`, `SusuVault` and `SusuLimits`, `SusuCandidates`, `SusuBoundary` and `SusuCommandLine` |
| `MCLocks`, `MCStore`, `MCReplace`, `MCApply`, `MCManifest`, `MCLimits` | constants and symmetry for TLC |
| `MCFiles`, `MCSecrets`, `MCCollection` | the same for several modules in one run |

How they fit: `SusuLocks` treats a command's work as one step and shows that nobody
else touches the repository meanwhile. That is what lets `SusuStore`, `SusuDirectories`,
`SusuApply`, `SusuLimits` and `SusuVault` have one command at a time. `SusuLocks` takes
`state.Save` and `Load` as one step each, which is what `SusuBinding` shows of them.
`SusuApply` in turn takes the replacement of one destination as one step with three
outcomes (not done, done, done with an error), which is what `SusuReplace` shows of it.
`SusuStore` takes the candidates of an `add` as given; which files they are is the
subject of `SusuCandidates` (in time) and `SusuBoundary` (in space), and how the command
line chose them that of `SusuCommandLine`. `SusuStore` takes the paths as distinct
physical files with distinct sources, which is what `SusuManifest` shows.

`MCFiles`, `MCSecrets` and `MCCollection` each check several modules in one run. The
modules share no files and no locks in the code, so a behaviour picks one `part` in its
initial state and the others rest: nothing is gained by interleaving them, and their
state spaces add instead of multiplying.

In all of them, operators whose comment starts with "Fault:" are not part of the
specification. Each is the definition below it with a plausible bug, and serves to see
that the properties notice (`PROJECT.json`, "mutants").

### SusuLocks

`pc[p]` is where a process is. `target[p]` is the repository it opened last: the local
variable `configuredRoot` / `repo`. `stateLock` and `repoLock` are the holders of the
`flock` locks. `manifest[r]` is the set of processes whose change `susu.json` contains,
or `Absent` before `init`: the model is about losing a change, not about what it is.
`Home`, `Common` and `Outside` say which installation a process runs under, which
worktrees share a Git directory, and which pairs `ensureStateOutsideRepository` accepts.

One action is one system call or one decision: `Peek`, `OpenPeeked`, `LockState`,
`Reload`, `Reopen`, `LockRepo`, `LoadManifest` are `openLocked` in order; `SaveManifest`
and `OnlyRead` are the two kinds of commands; `UnlockRepo` and `UnlockState` are
`combinedRelease`. `StartInit` to `SaveBinding` are `Init`. `Fail` leaves any of these
with an error by the releases on that return path (`ErrorExit`), and `Crash` kills the
process, whose locks the kernel releases. Saves may change the file and fail.

Runs: `locks` (three processes under two installations; a worktree and its linked
worktree) checks exclusion and that `SusuSerial` is implemented, whose steps say that a
change lands in the repository that is bound, on the manifest there is, and that `init`
never overwrites one. The invariants `NoStaleBinding` and `CreateIsFirst` state the same
without the abstraction and are proved. Two installations are needed for two
processes to hold state locks at once, a third process for one to come between the
other two, two worktrees of one Git directory for the lock's place to matter. Lock
actions read and write only one process and the locks of its own home and repository,
so further independent homes or repositories add no new conflict; the proofs do not
depend on the bound anyway.
`locks_live` checks `EveryInvocationEnds` with three processes and one repository,
enough for a circle through both kinds of locks.

Fairness: `WF_vars(Progress(p))` for each process. The operating system runs every
process that can run, and a process waiting for a lock that *stays* free gets it. No
more is needed, because each process takes finitely many steps and so eventually leaves
the lock alone; strong fairness of `flock` is not assumed. That a command's work ends
assumes that the user answers the prompt. `Fail` and `Crash` are not fair.

### SusuStore

`manifest` and `stored` are the directory entries as a process reads them.
`manifestDisk` and `storedDisk` are what they may be after a power loss: a change adds
a value, a directory sync leaves only the current one. `phase` is where the command
is; `current`, `draft`, `created`, `added`, `updated`, `removed`, `error` are the local
variables `current`, `updated` (renamed), `created` and the result. `residue` is a
history variable: sources whose clean-up is known to have failed or never run.

An add is `BeginAdd` (classification and first preflight), `Password`, then for each
candidate in sorted order `ReplaceSource` or `LinkSource` and `SyncSource`, then
`CommitAdditions` and `SyncAdditions`; a failure goes through `RollbackSource` to
`RollbackDone`. A removal is `BeginRemove`, `CommitRemoval`, `SyncRemoval`, then
`DeleteSource` for each entry. A read of a candidate and the installation of what was
read are one step: user edits between them can be moved after it, since nothing else
depends on the user's file.

Paths are ranks in sorted order, because the code visits them in that order. Contents
are two values; what matters is under which key they are sealed. AES-GCM and Argon2id
are ideal, and `Password` is the one step that draws a key. Distinct paths are distinct
physical files.

Power loss: a rename or link may or may not survive until the directory is synced. A
source whose directory is synced is taken to be durable. In the code that directory
may itself be new (`OpenParent` creates it) and its parent is not synced; what follows
from that is in `SusuDirectories`. `Flush` lets the kernel write back early. `CleanUp` is
the user removing an orphan by hand, which the documentation recommends, with no
command running and `susu.json` on disk; a user who deletes files within seconds of a
failed sync and then loses power is outside the model.

Runs: `store` has two paths, two contents, two keys, errors and kills anywhere, no power
loss. Two paths give mixed adds (one update and one addition), partial rollbacks and
partial deletions; two keys let a wrong second key exist. `store_power` adds power loss
with one content and one key, and assumes that the sync of `susu.json`'s directory does
not fail (every other sync may). `rm_unsynced` drops that assumption and finds the
divergence below. Symmetry over keys and contents is used only in `store`, whose
properties do not distinguish them. `Decryptable` and `KeyIsForever` follow from the
refinement and are proved, so the runs do not repeat them; `NoDangling` is run under
power loss, where no refinement holds.

`ImplementsLedger` is the refinement: `key` is `manifest.key`, and a path's snapshot is
what its entry's source holds. Additions appear at the rename of `susu.json`, all
together; updates appear one at a time; a removal is one step, and the deletions after
it are invisible.

### SusuReplace

`dir` is one directory: the destination's name and the staging names. Files are
named by the writer that made them. `data` and `dataDisk` are how much of its content a
file has, and may have after a power loss. `CreateTemp`, `Write`, `SyncFile`, `Rename`,
`SyncDirectory` and `Cleanup` are the calls in order. Staging names are only two for two
writers, and other programs take them as well, so collisions happen. Other programs
leave names in use alone, except the destination. Two writers are two installations
bound to different repositories that restore the same destination: they share no lock.

Run: `replace`, with two writers, two staging names and one foreign program's file. Two
writers are enough for each to meet the other's staging file in every state of its own,
and the proofs hold for any number.

### SusuApply

`stored` is what a source's file is: `good`, `bad` or `missing`. `unsafe` is the verdict
of `ensureApplyDestinationsSafe` at this moment; `Relink` changes it any time, `Swap` and
`Rewrite` change sources any time. `prepared` is the plaintext in memory, or what the open
descriptor of a public source reads. Three entries, two of them sensitive, put a public
one between sensitive ones and leave something to do after a failure in the middle
(run `apply`).

### SusuDirectories

`dir[d][n]` is the entry `n` of directory `d`; `disk[d][n]` are the entries that a power
loss may leave there, and syncing `d` leaves only the present one. Directories are nodes;
`Outside` is where any symbolic link leads. `at` is the descriptor that `OpenParent` holds
and `depth` how far it got: `Open`, `Missing`, `Mkdir` (which tolerates that another
program was faster) and `Blocked` are one turn of its loop. `Link`, `SyncSource`,
`CommitAddition` and `SyncManifest` continue an addition, `Inspect`, `CommitRemoval`,
`Unlink` and `SyncRemoval` a removal. `OthersMake` and `Displace` are other programs at
any step, `PowerLoss` chooses an entry independently for every one that was not synced.

Part of the run `files`: three nodes, two sources in one subdirectory, one disturbance.
Two sources in one directory are needed for one to be stored where the other made the
directory; a single displacement is enough to redirect each step of the walk once. The
bound on disturbances does not limit `Kill` or failures.
`NoDanglingSource` is weaker than the promise of the documentation, by exactly the two
history variables it names; see "Results".

### SusuBinding

`dir` is the state directory as processes see it, `kept` the set of directories a power
loss may leave, `data` and `synced` the files by number of creation. A writer takes the
lock, then `Create`, `Write`, `SyncFile`, `Rename`, `SyncDirectory`, and the deferred
`Discard`, which goes by name and runs after the rename too, then `Unlock`. A reader is
`Lstat`, `Open`, `Read` without a lock. Contents are the repository's path, `empty` or
`part`; `Encode` is what JSON makes of the path.

The other part of `files`: two writers, one reader, two staging names, two repositories
of which one has a path that is not UTF-8, two saves. With two saves a reader can begin
in one, sleep over the second and end after it.

### SusuPaths and SusuManifest

A path is the sequence of its components. `SusuPaths` translates the pure functions:
`Clean`, `Resolver`, `Expand`, `Normalize`, `IsLogical`, `Resolve`, `Canonical`,
`ComparisonKey`, `SourceFor`, `Validate`. The errors are the empty sequence. Components
are a constant set on which `Enc` (the `.enc` suffix) and `Fold` (case) act.

`SusuManifest` uses them as the commands do. `Add` takes arguments, makes candidates,
refuses protected ones, leaves out aliases of managed files (`Owners`) and saves if
`Validate` accepts; `Rm` and `Apply` follow; `Pull` is Git with any manifest of a set,
which `Load` validates; `Move` takes the repository to another machine. `restored` is
what the last apply left at each place of the file system, which is not the same as the
destination where roots are linked or case is folded.

Run `manifest`: six environments (XDG unset, beneath HOME with a link in it, unclean,
outside HOME and linked back into it, equal to HOME on a file system that folds case,
malformed), thirteen arguments and four pairs of them, seven pulled manifests. The
conflicts between entries are about two of them, so `MaxEntries` is two. Commands that
find nothing to do are not steps, hence no deadlock check.

### SusuCandidates and SusuBoundary

`SusuCandidates` has `view[p]`, the file a path leads to now and where it lies. `Change`
gives a path another file or place before any call. `CheckName`, `Open` and `Verified`
are `openCandidate`: by name, without following, then by descriptor. The passes
`phase` goes through are collection, loading of the managed identities, the preflights
before every read and before the commit, and the reads. `identity` is what collection
recorded and everything later compares with.

Run part `candidates` of `collection`: two paths, three inodes of which one is a state
file, two changes. Two changes let a path lead elsewhere and back, which a comparison at
one moment would not notice.

`SusuBoundary` has a tree: `parent` and `name` of each node, `target` of links, `folds`
for file systems that ignore case. `Load` is `loadControlBoundary`, `Check` is
`ensureOutside` of one path, `Collect` the walk of one directory. `Canonical` is
`canonicalProspectivePath` (missing tails included), `AncestorIs`
`physicalAncestorMatches`. The properties compare the answer with `Overlaps`, which is
defined by the nodes and not by names. Files below the state directory, and whatever links
in it lead to, are refused by identity (`StateFiles`). Run part `boundary`: ten nodes, links into the
repository, into the state directory and to the home itself, one move at any time.
`BoundaryIsExact` also asks that nothing is refused without a reason, because a test
that refuses everything would pass otherwise.

The policy knows the cache by its path and, if that is a directory, by what `os.Lstat`
finds there (`Cache`). `WalkIsExact` therefore says what is left out under `CacheIsKnown`:
a regular file in the place of the cache is ignored under that spelling only, and when a
root (`HOME`, an XDG directory) is a link into the cache, a walk below that root passes
neither the cache's path nor its directory. That nothing protected is picked up does not
depend on it.

### SusuLimits

A file is its length. The steps of a read are `Stat` (the length is checked), `Read`
(what the `LimitReader` lets pass of what is there now) and `EndOfFile`; between them
`Write` and `Pull` change the lengths. `Total` is the aggregate limit of `apply`.
Part of the run `secrets`, in units of 256 MiB: limits 2, 4 and 4, two files of length up
to 4, so that a length lies below, at and above every limit. `Sealed` is the length of
the envelope: base64 adds a third. The cap of `susu.json` is in units of entries.
`limits_manifest` is the same module with room for one entry.

### SusuVault

Cryptography is ideal: what is sealed is a record of key, associated data and text, and
opens under the same key and data only; a key-encryption key is its password, salt and
parameters. `Begin` loads and validates metadata, for an add, the update of a stored
file or a show; `Prompt`, `Confirm`, `Confirmed`, `Mismatch`, `Initialize`, `Wrap`,
`Unlock`, `Open`, `Read`, `Encrypt`, `Save`, `Decrypt`, `Write` follow the code, each with
its failure. `password`, `confirmation`, `kek`, `key` and `text` are the buffers the code
erases. `deferred` is what the functions on the stack have deferred to erase; a step
that ends the command names what it erases on the spot (`Return`), and a buffer that
neither covers stays. `PullMetadata` and `PullSource` put in any metadata and any
envelope ever sealed, whole or with one malformed field. The library's preconditions are
modelled: a broken one is `Panic`.

The other part of `secrets`: two paths, two passwords, two master keys, two seals, ten
sets of Argon2id parameters on both sides of each limit. Two keys and two paths are what
an envelope can be exchanged between.

### SusuCommandLine

`Help`, `Environment`, `Dispatch` (flags end at the first operand or at `--`), `Call`,
`Completion` and `Report` are `main` and the `run...` functions. The service commits
any number of paths in each group and fails or not; the report is written line by line
and standard output may break at any line. Part of `collection`: every command line of
up to four words from twelve. Four words hold a command, a flag, a path and another
flag. The process ends, and `collection` therefore has no deadlock check.

## Results

All invariants and properties of the passing runs hold. Each is there for a hazard that
`PROJECT.json` lists at its line; type invariants that are proved are not run again
for their own sake.

`rm_unsynced` shows a disagreement with the documentation. `Remove` handles
`manifest.ErrCommitted` (the rename happened, the directory sync failed) by going on to
delete the sources. `src/docs/design.md:408` says "The manifest stops referencing entries
before deletion", and line 413 that the ordering favors orphans over "a manifest that
intentionally references a missing file". When the sync fails, the new `susu.json` need
not be on disk. The sources are then unlinked and those directories synced. After a power
loss, the old `susu.json` may refer to sources that are gone. TLC's trace is: add a file,
remove it, sync of the repository directory fails, the source is deleted while the old
manifest is still one of those the disk may hold.

`limits_manifest` shows another. `src/docs/security-model.md:499` says "The 16 MiB manifest
cap eventually bounds serialized entry metadata". `Load` has that cap
(`internal/manifest/manifest.go:70`) and `Save` (line 110) has none: an `add` that takes
`susu.json` beyond it succeeds, and every later command fails when it loads the file,
`rm` included.

Smaller differences that came up while the modules were written. They have no run of
their own; the modules say what the code does:

- `src/docs/design.md:413` speaks of orphans, not of missing sources, after a power loss.
  `OpenParent` (`internal/safefs/safefs_unix.go:60`) makes directories whose parents
  nobody syncs, so a new subdirectory may vanish with the sources in it. `SusuDirectories`
  records those in `vanished`, and `NoDanglingSource` holds for all others. No property
  covers these: the hazard is listed without one. Likewise
  `state.Save` makes the state directory without syncing its parent (`state.go:89`).
- `src/docs/design.md:92` includes case aliases in the protection of the roots.
  `pathsOverlap` (`app.go:1433`) compares canonical names and the physical ancestors of
  the path as given. A symbolic link that leads below a root and spells the root in
  another case is seen by neither. `SusuBoundary` separates these (`SpelledAlike`).
- `src/docs/security-model.md:432` says that `rm` can remove a legacy entry beneath a
  control root. `rm` normalises its argument first (`app.go:407`); on a machine whose
  XDG_CONFIG_HOME lies beneath HOME, `~/.config/a` becomes `${XDG_CONFIG_HOME}/a`, and
  an entry that Git brought under the first name cannot be named. `NamedAsAdded` is
  therefore about what was added on this machine.
- `state.Load` "returns the configured repository" (`state.go:174`). A path that is not
  valid UTF-8 is changed by JSON when it is saved (`state.go:82`). `SavedIsLoaded` is
  therefore proved for paths that are (`Raw = {}`).
- `src/docs/security-model.md:362` says that the owned buffers of plaintext are erased. When
  reading a managed file fails or exceeds the limit (`app.go:1098`), the part that was
  read is dropped without being erased; `NothingStays` excludes that case by `cut`.

## Proofs

TLAPS checks all proofs; they hold for every value of the constants that satisfies the
named `ASSUME`s of the modules. Most of these say little more than that distinguished
values are distinct and bounds are numbers. Those that say more:

- `PathsAssumption`, `ManifestAssumption`: names are no special components and `.enc` is
  injective on them; machines, arguments and pulled manifests are made of components,
  an argument has at least one, and only Darwin's file systems fold names.
- `DirectoriesAssumption`: a source lies in a directory of its class, so its path has at
  least two components.
- `LimitsAssumption`: what `add` may read, and the envelope it makes of that, is within
  what `show` and `apply` may read (256 MiB, and 1 GiB for stored sources).
- `CommandLineAssumption`: no file is called `--sensitive`.
- `BoundaryAssumption`: the nodes are finitely many and a tree at the start (whatever is
  closed under taking parents contains the top), entries of a directory differ also where
  case is ignored, and paths are sequences of names. That moves keep this is proved.

`SusuLocksProofs`: the invariant `IInv` adds to the type invariant that whoever is between
acquisition and release is the recorded holder (`LockOwners`: exclusion alone is not
inductive, since it does not say why a second process cannot get in); that the target is
the binding from the reload to the release (`BindingCurrent`, which needs the state lock's
exclusion against `SaveBinding`); that the manifest a command computes from is the current
one (`LoadedCurrent`, which needs the repository lock's exclusion against every other
writer); and that `init` binds only initialised repositories (`BindsInitialized`). From it
follow type correctness, `RepositoryExclusion`, `NoStaleBinding`, `CreateIsFirst`, and
that every step of `SusuLocks` is a step of `SusuSerial` or changes nothing there
(`ImplementsSerial`).

`SusuStoreProofs` has an invariant of two layers. The first is about the variables of the
command only: `Session` says what they mean at each place of the code. Up to the commit
`current` is still `susu.json`; `draft` is `current` plus the new paths, all of one class
(`AddDraft`), or `current` less the requested ones (`RemoveDraft`); `created` and
`updated` are what the loop has passed (`Progress`); and whoever gets as far as writing a
sensitive candidate holds the key that `draft` has (`SealingKey`). Together with `TypeOK`
it is inductive, and `ReportHonest` is inductive relative to it.

The second adds the disk (`DiskInv`). `NoDangling` is about `susu.json` as it is now, but
a power loss can make any manifest in `manifestDisk` current, so the invariant speaks of
all of them: every value a source may have is under the key every such manifest expects
(`DiskKeys`), and may not be missing (`DiskPresent`). For those to survive a commit, the
sources it publishes must be on disk (`Installed`); to survive a rollback, no manifest may
name what is rolled back (`Unreferenced`: here the no-replace link and `DiskPresent`
meet); to survive a deletion, only the new manifest may be left (`ForgottenOnDisk`). The
last one is where the sync of `susu.json`'s directory is needed, and why `NeverDangling`
and `ForgetsFirst` exclude a machine that both fails that sync and loses power
(`rm_unsynced` shows `ManifestForgetsFirst` violated there). `AlwaysDecryptable` and
`OrphansExplained` need no such exclusion. The latter's invariant is `OrphansKnown`: an
orphan is in `residue` or among the sources the running command still has to deal with.
`OverwritesOnlyUpdates`, `KeyStays` and the refinement `StoreImplementsLedger` assume that
power is not lost: a power loss may bring back an older `susu.json`, with an older key and
older entries, as the file system allows.

`SusuReplaceProofs`: `IInv` says that a staging name refers to its owner's file until
rename or clean-up (`StagingOwned`), that a staging file is under no other name and
outlives its call only by a kill or a failed unlink (`StagingKnown`), that content is on
disk before the rename (`WrittenFirst`), and that only committed writers are or may be
under the destination (`CommitsOnly`). The four properties of the run and type correctness
follow.

`SusuApplyProofs`: `IInv` says that replacements begin when everything is prepared
(`PreparedFirst`), and that each starts from destinations found safe with nothing exposed
so far (`ExposureBounded`). The four properties of the run and type correctness follow.

`SusuFilesProofs`, on `SusuBinding`: `Session` says that the holder of the state lock owns
the newest file under its staging name, `Order` that whatever `state.json` leads to, now
or after a power loss, is older than that file, and `Staged` that contents are written and
synced before the rename. Torn bindings are excluded by `Order` and `Staged`; that
reported bindings survive needs `Saved`, which follows a file from the rename to the sync
of the directory. `Reading` is about a reader: what it has opened is not being written,
because it is older, and was in force while the reader ran. `SavedIsLoaded` is proved
under `Raw = {}`.

`SusuSecretsProofs`, on `SusuVault`: `Session` says which secrets are in memory at each
step and what they belong to; `Provenance` that everything sealed names the path it was
sealed for. From these follow `OutputIsAuthentic`, `MetadataIsHarmless` (valid metadata is
checked before it is derived from, at each of the two places). `NothingStays` follows from
`Accounted`: between steps, memory holds nothing but what the code has deferred
(`Deferred`) and what the step that comes next has to erase if it fails (`Bare`).

`SusuCollectionProofs`, on `SusuCandidates`: `Snapshots` says that what was read of a path
is the file collection recorded for it, no state file, and that what the first preflight
has passed is recorded once; `Current` relates what a pass has opened so far to what each
path was since the pass began, and `Aliased` the identities of managed paths to every
moment since the descriptor was opened. `OneSnapshotEach` and `ReadsAreCurrent` follow.

`SusuManifestProofs` rests on two lemmas about `filepath.Clean`: it leaves no component it
would change (`CleanPlain`), so it keeps what it has made, with or without the leading
slash (`CleanKeeps`). Hence a name's destination is named as before (`NormalizeAgain`),
which is `NamedAsAdded`. `RestoresEverything` needs that the keys `apply` compares tell
apart what the file system tells apart, and keep what lies inside what also where they
fold names and the file system does not (`FoldedStrictPrefix`). `ManifestInv` adds to the
properties only what a manifest is made of. The five properties of the run are proved.

`SusuFilesProofs`, on `SusuDirectories`: `OnePlace` says that a directory has one place,
now and after any power loss, which is what makes a path lead to it in one way only.
`OneWay` relates the descriptor of the command to its source: it is where the walk has
come to unless that was displaced, and no other way leads there. `Settled` says that on
the way to a source a power loss brings back the directory that is there or none.
`Durable`, the strengthening of `NoDanglingSource`, speaks of every `susu.json` that a
power loss may bring back and of the disk instead of the present tree; `Underway` is what
a command has made sure of at each step, and carries `Durable` over the commit. That a
change elsewhere leaves a walk alone is proved by induction along the walk.

`SusuSecretsProofs`, on `SusuLimits`: `Reader` says that a reader is never ahead of a
source that `add` stored, and `Lengths` that such a source is within the limit of a
managed file; so a reader that finds more than its limit reads something newer.

`SusuCollectionProofs`, on `SusuCommandLine`: `Asked` relates what was asked to the words
of the command line, wherever flags end; `Reported` what was printed to the lines of the
result. A file called `--sensitive` could be meant by that word, hence the assumption.

`SusuCollectionProofs`, on `SusuBoundary`: `Tree` is kept by every move. That following
`parent` reaches the top within as many steps as there are nodes is proved by counting
(`TopAbove`), and gives an induction on trees (`TreeInduction`) by which the path of a
node leads to it (`PathOfLeads`) and nothing else does under its spelling (`OnlyPathOf`).
The names `EvalSymlinks` returns lead to the same node as the prefix they stand for
(`NamesLead`), and a node above the end of a path was passed on the way or its own path
begins these names (`PassedOrSpelled`), which is where links must be spelled alike. Hence
an overlap is noticed (`Detected`) and what is noticed is one (`Justified`). `BoundaryInv`
adds that the recorded roots are protected directories and that a verdict is the answer in
the tree as it is. For walks, the path to a file passes through every directory between it
and the input (`Descent`), and below a root without links every directory above the input
is above the root or was passed (`BelowRoot`); so a file below the cache is ignored, and
only such a file.

Recursive functions over numbers (`Through`, `Way`, the report's lines) are reasoned about
with two lemmas that the modules repeat: a nonempty set of numbers has a least element
(`Least`, from the well-foundedness of `<`), and what holds of 0 and passes from `i` to `i
+ 1` holds up to a bound (`UpTo`). Induction is first-order that way: the sets are given.
The recursive functions of `SusuBoundary` are `CHOOSE`s to the prover; that they exist is
a lemma of its own (`Recursion`).

Every property of a passing run but one is a theorem. Only model-checked is
`EveryInvocationEnds`, since liveness and `ENABLED` are beyond the prover.

## Not modelled

- Git itself. `git rev-parse` finds the roots that `Root` and `Common` stand for, and
  the repository component is "partly" modelled for that reason. The two storage
  directories are taken to exist after `Initialize`; where they do not, commands refuse.
- JSON syntax, duplicate keys and unknown fields: a pulled manifest is one that parses.
- Wording, `AbbreviateHome`, shell completion scripts.
- The durability of the state directory itself, which `SusuBinding` takes to survive.
- Cryptographic strength and encodings. A malformed field is a form of its own.
- `safefs_unsupported.go`, which returns an error from every call.
- The number of inputs, entries of directories and public bytes, which have no limit.

## Plan

1. Done: `SusuLocks` with `SusuSerial`, `SusuStore` with `SusuLedger`, `SusuReplace`,
   `SusuApply`, all with proofs.
2. Done: `SusuPaths` and `SusuManifest`; `SusuDirectories`; `SusuBoundary`; `SusuLimits`;
   `SusuCommandLine`; and, with proofs, `SusuBinding`, `SusuCandidates`, `SusuVault`.
3. Open: the composition of `SusuLocks` and `SusuStore`, in which the commands of two
   processes are the store's. Each is checked under what the other shows:
   `SerialCommands` is the assumption under which `SusuStore` has one command at a time.
4. Done: proofs about `SusuManifest`, `SusuDirectories`, `SusuLimits`, `SusuCommandLine`
   and `SusuBoundary`.
