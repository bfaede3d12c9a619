------------------------------ MODULE SusuLocks ------------------------------
(***************************************************************************)
(* How concurrent susu processes are serialised: the two advisory locks,   *)
(* the active-repository binding of each installation, and the order in    *)
(* which `susu init` (app.Service.Init) and every other repository command *)
(* (app.Service.openLocked and its callers) take, use and release them.    *)
(*                                                                         *)
(* A process is one invocation of the command line program.  Its locks are *)
(* flock(2) locks on descriptors it owns, so they vanish with the process. *)
(* The contents of a manifest are abstracted to the set of processes whose *)
(* change it contains: what is at stake here is whether a change is lost,  *)
(* goes to the wrong repository, or never gets its turn.                   *)
(***************************************************************************)
CONSTANTS Process,    \* invocations of the susu command
          StateHome,  \* installations: XDG state homes, each with a lock and a binding
          Root,       \* canonical Git worktree roots
          GitDir,     \* Git common directories; linked worktrees share one
          Home,       \* the installation each process runs under
          Common,     \* the Git common directory of each root
          Outside,    \* <<home, root>> pairs whose directories do not overlap
          Absent,     \* the manifest of a worktree without susu.json
          Unbound,    \* the binding of an installation without state.json
          Nobody      \* holder of a free lock

ASSUME LocksAssumption ==
    /\ Home \in [Process -> StateHome]
    /\ Common \in [Root -> GitDir]
    /\ Outside \subseteq StateHome \X Root
    /\ Nobody \notin Process
    /\ Unbound \notin Root
    /\ \A s \in SUBSET Process : Absent # s

VARIABLES
    manifest,    \* [Root -> Absent or the set of changes in susu.json]
    binding,     \* [StateHome -> Root or Unbound]: state.json
    stateLock,   \* [StateHome -> the holder]: <state home>/susu/lock
    repoLock,    \* [GitDir -> the holder]: <common dir>/susu.lock
    pc,          \* where each process is
    target,      \* the repository each process opened last
    loaded,      \* the manifest each process read under its locks
    result       \* how each invocation is going to end

vars == <<manifest, binding, stateLock, repoLock, pc, target, loaded, result>>

-----------------------------------------------------------------------------
CommandSteps == {"peeked", "stateWait", "reload", "reopen", "repoWait",
                 "load", "work", "unlockRepo"}
InitSteps    == {"scaffoldWait", "inspect", "create", "unlockScaffold",
                 "scaffolded", "bindWait", "bind"}
Ended        == {"done", "crashed"}
Location     == CommandSteps \cup InitSteps \cup Ended
                    \cup {"start", "unlockState"}

\* The places between a lock's acquisition and its release in the code.
HoldsState(p) == pc[p] \in {"reload", "reopen", "repoWait", "load", "work",
                            "unlockRepo", "bind", "unlockState"}
HoldsRepo(p)  == pc[p] \in {"load", "work", "unlockRepo",
                            "inspect", "create", "unlockScaffold"}

Init ==
    /\ manifest \in [Root -> {Absent, {}}]
    /\ binding \in [StateHome -> Root \cup {Unbound}]
    /\ stateLock = [h \in StateHome |-> Nobody]
    /\ repoLock = [g \in GitDir |-> Nobody]
    /\ pc = [p \in Process |-> "start"]
    /\ target = [p \in Process |-> Unbound]
    /\ loaded = [p \in Process |-> Absent]
    /\ result = [p \in Process |-> "none"]

At(p, l)   == pc[p] = l
Goto(p, l) == pc' = [pc EXCEPT ![p] = l]
Set(p, s)  == result' = [result EXCEPT ![p] = s]

\* The process leaves for l with an error to report.
Abort(p, l) == /\ Goto(p, l)
               /\ Set(p, "error")

\* repository.Open finds the scaffold, and ensureStateOutsideRepository
\* accepts the pair.
Opens(p, r) == /\ manifest[r] # Absent
               /\ <<Home[p], r>> \in Outside

-----------------------------------------------------------------------------
(* The two flocks: the caller blocks until the lock is free. *)

TakeState(p) ==
    /\ stateLock[Home[p]] = Nobody
    /\ stateLock' = [stateLock EXCEPT ![Home[p]] = p]

\* Fault: a lock file per worktree instead of one per Git repository.
TakeRepoPerWorktree(p) ==
    /\ \A q \in Process : HoldsRepo(q) => target[q] # target[p]
    /\ repoLock' = [repoLock EXCEPT ![Common[target[p]]] = p]

TakeRepo(p) ==
    /\ repoLock[Common[target[p]]] = Nobody
    /\ repoLock' = [repoLock EXCEPT ![Common[target[p]]] = p]

DropState(p) == stateLock' = [stateLock EXCEPT ![Home[p]] = Nobody]
DropRepo(p)  == repoLock' = [repoLock EXCEPT ![Common[target[p]]] = Nobody]

-----------------------------------------------------------------------------
(* Every command but init: openLocked, the command's own work, release. *)

\* state.Load, before any lock is held.
Peek(p) ==
    /\ At(p, "start")
    /\ IF binding[Home[p]] = Unbound
         THEN Abort(p, "done") /\ UNCHANGED target
         ELSE /\ target' = [target EXCEPT ![p] = binding[Home[p]]]
              /\ Goto(p, "peeked")
              /\ UNCHANGED result
    /\ UNCHANGED <<manifest, binding, stateLock, repoLock, loaded>>

\* repository.Open and ensureStateOutsideRepository on what Peek read.  The
\* result only decides whether to create the lock file there.
OpenPeeked(p) ==
    /\ At(p, "peeked")
    /\ IF Opens(p, target[p])
         THEN Goto(p, "stateWait") /\ UNCHANGED result
         ELSE Abort(p, "done")
    /\ UNCHANGED <<manifest, binding, stateLock, repoLock, target, loaded>>

LockState(p) ==
    /\ At(p, "stateWait")
    /\ TakeState(p)
    /\ Goto(p, "reload")
    /\ UNCHANGED <<manifest, binding, repoLock, target, loaded, result>>

\* state.Load again: the binding may have moved while the lock was awaited.
Reload(p) ==
    /\ At(p, "reload")
    /\ IF binding[Home[p]] = Unbound
         THEN Abort(p, "unlockState") /\ UNCHANGED target
         ELSE /\ target' = [target EXCEPT ![p] = binding[Home[p]]]
              /\ Goto(p, "reopen")
              /\ UNCHANGED result
    /\ UNCHANGED <<manifest, binding, stateLock, repoLock, loaded>>

Reopen(p) ==
    /\ At(p, "reopen")
    /\ IF Opens(p, target[p])
         THEN Goto(p, "repoWait") /\ UNCHANGED result
         ELSE Abort(p, "unlockState")
    /\ UNCHANGED <<manifest, binding, stateLock, repoLock, target, loaded>>

\* Fault: the lock of the installation is taken to be enough.
LockRepoSkipped(p) ==
    /\ At(p, "repoWait")
    /\ Goto(p, "load")
    /\ UNCHANGED <<manifest, binding, stateLock, repoLock, target, loaded, result>>

LockRepo(p) ==
    /\ At(p, "repoWait")
    /\ TakeRepo(p)
    /\ Goto(p, "load")
    /\ UNCHANGED <<manifest, binding, stateLock, target, loaded, result>>

LoadManifest(p) ==
    /\ At(p, "load")
    /\ loaded' = [loaded EXCEPT ![p] = manifest[target[p]]]
    /\ Goto(p, "work")
    /\ UNCHANGED <<manifest, binding, stateLock, repoLock, target, result>>

\* add or remove replaces susu.json by what it computed from the manifest it
\* loaded.  The save may have replaced the file and still return an error.
SaveManifest(p) ==
    /\ At(p, "work")
    /\ manifest' = [manifest EXCEPT ![target[p]] = loaded[p] \cup {p}]
    /\ Goto(p, "unlockRepo")
    /\ \E s \in {"ok", "error"} : Set(p, s)
    /\ UNCHANGED <<binding, stateLock, repoLock, target, loaded>>

\* show, apply, list, the overview, and an add of managed files only: the
\* manifest is read and never replaced.
OnlyRead(p) ==
    /\ At(p, "work")
    /\ Goto(p, "unlockRepo")
    /\ Set(p, "ok")
    /\ UNCHANGED <<manifest, binding, stateLock, repoLock, target, loaded>>

\* combinedRelease: first the repository lock, then the state lock.
UnlockRepo(p) ==
    /\ At(p, "unlockRepo")
    /\ DropRepo(p)
    /\ Goto(p, "unlockState")
    /\ UNCHANGED <<manifest, binding, stateLock, target, loaded, result>>

UnlockState(p) ==
    /\ At(p, "unlockState")
    /\ DropState(p)
    /\ Goto(p, "done")
    /\ UNCHANGED <<manifest, binding, repoLock, target, loaded, result>>

-----------------------------------------------------------------------------
(* init: the scaffold under the repository lock alone, then the binding    *)
(* under the state lock alone.                                             *)

StartInit(p, r) ==
    /\ At(p, "start")
    /\ target' = [target EXCEPT ![p] = r]
    /\ Goto(p, "scaffoldWait")
    /\ UNCHANGED <<manifest, binding, stateLock, repoLock, loaded, result>>

LockScaffold(p) ==
    /\ At(p, "scaffoldWait")
    /\ TakeRepo(p)
    /\ Goto(p, "inspect")
    /\ UNCHANGED <<manifest, binding, stateLock, target, loaded, result>>

\* Lstat of susu.json decides whether one is created.
InspectManifest(p) ==
    /\ At(p, "inspect")
    /\ Goto(p, IF manifest[target[p]] = Absent THEN "create" ELSE "unlockScaffold")
    /\ UNCHANGED <<manifest, binding, stateLock, repoLock, target, loaded, result>>

\* manifest.Save(manifest.New()) replaces whatever is there.
CreateManifest(p) ==
    /\ At(p, "create")
    /\ manifest' = [manifest EXCEPT ![target[p]] = {}]
    /\ Goto(p, "unlockScaffold")
    /\ \E s \in {"none", "error"} : Set(p, s)
    /\ UNCHANGED <<binding, stateLock, repoLock, target, loaded>>

\* Fault: init keeps the repository lock until the binding is saved.
UnlockScaffoldLate(p) ==
    /\ At(p, "unlockScaffold")
    /\ IF result[p] = "error"
         THEN DropRepo(p) /\ Goto(p, "done")
         ELSE Goto(p, "scaffolded") /\ UNCHANGED repoLock
    /\ UNCHANGED <<manifest, binding, stateLock, target, loaded, result>>

\* The deferred release when Initialize returns.
UnlockScaffold(p) ==
    /\ At(p, "unlockScaffold")
    /\ DropRepo(p)
    /\ Goto(p, IF result[p] = "error" THEN "done" ELSE "scaffolded")
    /\ UNCHANGED <<manifest, binding, stateLock, target, loaded, result>>

CheckOutside(p) ==
    /\ At(p, "scaffolded")
    /\ IF <<Home[p], target[p]>> \in Outside
         THEN Goto(p, "bindWait") /\ UNCHANGED result
         ELSE Abort(p, "done")
    /\ UNCHANGED <<manifest, binding, stateLock, repoLock, target, loaded>>

LockBinding(p) ==
    /\ At(p, "bindWait")
    /\ TakeState(p)
    /\ Goto(p, "bind")
    /\ UNCHANGED <<manifest, binding, repoLock, target, loaded, result>>

\* state.Save: as with the manifest, an error may follow the replacement.
SaveBinding(p) ==
    /\ At(p, "bind")
    /\ binding' = [binding EXCEPT ![Home[p]] = target[p]]
    /\ Goto(p, "unlockState")
    /\ \E s \in {"ok", "error"} : Set(p, s)
    /\ UNCHANGED <<manifest, stateLock, repoLock, target, loaded>>

-----------------------------------------------------------------------------
(* Errors and crashes. *)

\* Where an error met at each place takes the process: the release calls on
\* that return path.
ErrorExit(l) ==
    CASE l \in {"load", "work"}                -> "unlockRepo"
      [] l \in {"inspect", "create"}           -> "unlockScaffold"
      [] l \in {"reload", "reopen", "repoWait", "bind"} -> "unlockState"
      [] OTHER                                 -> "done"

\* Any system call may fail before it changed anything.
Fail(p) ==
    /\ pc[p] \notin Ended \cup {"unlockRepo", "unlockScaffold", "unlockState"}
    /\ Abort(p, ErrorExit(pc[p]))
    /\ UNCHANGED <<manifest, binding, stateLock, repoLock, target, loaded>>

\* The process is killed; the kernel closes its descriptors.
Crash(p) ==
    /\ pc[p] \notin Ended
    /\ Goto(p, "crashed")
    /\ stateLock' = [h \in StateHome |->
                        IF stateLock[h] = p THEN Nobody ELSE stateLock[h]]
    /\ repoLock' = [g \in GitDir |->
                        IF repoLock[g] = p THEN Nobody ELSE repoLock[g]]
    /\ UNCHANGED <<manifest, binding, target, loaded, result>>

-----------------------------------------------------------------------------
Command(p) ==
    \/ Peek(p) \/ OpenPeeked(p) \/ LockState(p) \/ Reload(p) \/ Reopen(p)
    \/ LockRepo(p) \/ LoadManifest(p) \/ SaveManifest(p) \/ OnlyRead(p)
    \/ UnlockRepo(p) \/ UnlockState(p)

Initialize(p) ==
    \/ \E r \in Root : StartInit(p, r)
    \/ LockScaffold(p) \/ InspectManifest(p) \/ CreateManifest(p)
    \/ UnlockScaffold(p) \/ CheckOutside(p) \/ LockBinding(p) \/ SaveBinding(p)

Progress(p) == Command(p) \/ Initialize(p)

\* Every invocation is over.
AllEnded ==
    /\ \A p \in Process : pc[p] \in Ended
    /\ UNCHANGED vars

Next ==
    \/ \E p \in Process : Progress(p) \/ Fail(p) \/ Crash(p)
    \/ AllEnded

Spec == Init /\ [][Next]_vars

\* The operating system runs every process that is not blocked; a lock that
\* stays free is handed to someone who waits for it.  Nothing is assumed of
\* Fail and Crash.
FairSpec == Spec /\ \A p \in Process : WF_vars(Progress(p))

-----------------------------------------------------------------------------
TypeOK ==
    /\ manifest \in [Root -> (SUBSET Process) \cup {Absent}]
    /\ binding \in [StateHome -> Root \cup {Unbound}]
    /\ stateLock \in [StateHome -> Process \cup {Nobody}]
    /\ repoLock \in [GitDir -> Process \cup {Nobody}]
    /\ pc \in [Process -> Location]
    /\ target \in [Process -> Root \cup {Unbound}]
    /\ \A p \in Process : pc[p] \in {"start", "done", "crashed"} \/ target[p] \in Root
    /\ loaded \in [Process -> (SUBSET Process) \cup {Absent}]
    /\ result \in [Process -> {"none", "ok", "error"}]

\* repository.Lock serialises every process that touches a Git repository,
\* whichever installation it runs under and through whichever linked worktree:
\* no two of them are between acquisition and release.
RepositoryExclusion ==
    \A p, q \in Process :
        /\ HoldsRepo(p) /\ HoldsRepo(q)
        /\ Common[target[p]] = Common[target[q]]
        => p = q

\* A command reads and writes the repository its installation is bound to now,
\* not the one that was bound when it started to wait: it re-reads the binding
\* under the state lock, and init cannot move it until the command is done.
NoStaleBinding ==
    \A p \in Process :
        pc[p] \in {"load", "work", "unlockRepo"}
            => /\ target[p] = binding[Home[p]]
               /\ Opens(p, target[p])

\* init decides under the repository lock that there is no susu.json, so the
\* empty one it then writes never replaces another process's manifest.
CreateIsFirst ==
    \A p \in Process : pc[p] = "create" => manifest[target[p]] = Absent

\* Seen from outside, commands run one at a time: each change lands on the
\* current manifest of the bound repository, none is lost, and a binding is only
\* ever moved to a repository that has been initialised.
Serial == INSTANCE SusuSerial
SerialCommands == Serial!Spec

\* Every invocation comes to an end: processes that wait for one another's
\* locks never wait in a circle, because init gives up the repository lock
\* before it asks for the state lock and the others take them the other way.
EveryInvocationEnds ==
    \A p \in Process : pc[p] # "start" ~> pc[p] \in Ended
=============================================================================
