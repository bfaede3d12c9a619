--------------------------- MODULE SusuLocksProofs ---------------------------
(***************************************************************************)
(* Proofs about SusuLocks for any number of processes, installations and   *)
(* repositories: type correctness, exclusion, the binding is never stale,  *)
(* and the specification implements SusuSerial.                            *)
(***************************************************************************)
EXTENDS SusuLocks, TLAPS

\* Whoever is between acquisition and release is the lock's recorded holder.
LockOwners ==
    \A p \in Process :
        /\ HoldsState(p) => stateLock[Home[p]] = p
        /\ HoldsRepo(p)  => repoLock[Common[target[p]]] = p

\* From Reload to the release of the repository lock, the target is the
\* binding; from Reopen on, it is a repository the command may work on.
BindingCurrent ==
    \A p \in Process :
        /\ pc[p] \in {"reopen", "repoWait", "load", "work", "unlockRepo"}
              => target[p] = binding[Home[p]]
        /\ pc[p] \in {"repoWait", "load", "work", "unlockRepo"}
              => Opens(p, target[p])

\* The manifest a command computes from is still the one in susu.json.
LoadedCurrent ==
    \A p \in Process : pc[p] = "work" => loaded[p] = manifest[target[p]]

\* init binds only to what it found or made initialised.
BindsInitialized ==
    \A p \in Process :
        /\ pc[p] = "unlockScaffold" /\ result[p] # "error"
              => manifest[target[p]] # Absent
        /\ pc[p] \in {"scaffolded", "bindWait", "bind"}
              => manifest[target[p]] # Absent
        /\ pc[p] \in {"bindWait", "bind"} => <<Home[p], target[p]>> \in Outside

IInv ==
    /\ TypeOK
    /\ LockOwners
    /\ BindingCurrent
    /\ LoadedCurrent
    /\ CreateIsFirst
    /\ BindsInitialized

-----------------------------------------------------------------------------
LEMMA InitIInv == Init => IInv
BY LocksAssumption
   DEF Init, IInv, TypeOK, Location, LockOwners, HoldsState, HoldsRepo,
       BindingCurrent, LoadedCurrent, CreateIsFirst, BindsInitialized

LEMMA CommandStep ==
    ASSUME IInv, NEW p \in Process, Command(p)
    PROVE  IInv'
<1> USE LocksAssumption
    DEF IInv, TypeOK, Location, CommandSteps, InitSteps, Ended, LockOwners,
        HoldsState, HoldsRepo, BindingCurrent, LoadedCurrent, CreateIsFirst,
        BindsInitialized, At, Goto, Set, Abort, Opens, TakeState, TakeRepo,
        DropState, DropRepo
<1>1. CASE Peek(p)
  BY <1>1 DEF Peek
<1>2. CASE OpenPeeked(p)
  BY <1>2 DEF OpenPeeked
<1>3. CASE LockState(p)
  BY <1>3 DEF LockState
<1>4. CASE Reload(p)
  BY <1>4 DEF Reload
<1>5. CASE Reopen(p)
  BY <1>5 DEF Reopen
<1>6. CASE LockRepo(p)
  BY <1>6 DEF LockRepo
<1>7. CASE LoadManifest(p)
  BY <1>7 DEF LoadManifest
<1>8. CASE SaveManifest(p)
  <2>1. /\ target[p] \in Root
        /\ loaded[p] \cup {p} \in SUBSET Process
        /\ repoLock[Common[target[p]]] = p
    <3>1. /\ target[p] \in Root
          /\ repoLock[Common[target[p]]] = p
          /\ loaded[p] = manifest[target[p]]
          /\ manifest[target[p]] # Absent
      BY <1>8 DEF SaveManifest
    <3>2. manifest[target[p]] \in (SUBSET Process) \cup {Absent}
      BY <3>1
    <3>3. loaded[p] \in SUBSET Process
      BY <3>1, <3>2
    <3>4. QED
      BY <3>1, <3>3
  <2>2. TypeOK'
    BY <1>8, <2>1 DEF SaveManifest
  <2>3. LockOwners'
    BY <1>8 DEF SaveManifest
  <2>4. \A q \in Process : q # p /\ HoldsRepo(q) => target[q] # target[p]
    BY <2>1
  <2>5. BindingCurrent' /\ BindsInitialized'
    BY <1>8, <2>1 DEF SaveManifest
  <2>6. LoadedCurrent' /\ CreateIsFirst'
    BY <1>8, <2>1, <2>4 DEF SaveManifest
  <2>7. QED
    BY <2>2, <2>3, <2>5, <2>6
<1>9. CASE OnlyRead(p)
  BY <1>9 DEF OnlyRead
<1>10. CASE UnlockRepo(p)
  BY <1>10 DEF UnlockRepo
<1>11. CASE UnlockState(p)
  BY <1>11 DEF UnlockState
<1>12. QED
  BY <1>1, <1>2, <1>3, <1>4, <1>5, <1>6, <1>7, <1>8, <1>9, <1>10, <1>11
     DEF Command

LEMMA InitializeStep ==
    ASSUME IInv, NEW p \in Process, Initialize(p)
    PROVE  IInv'
<1> USE LocksAssumption
    DEF IInv, TypeOK, Location, CommandSteps, InitSteps, Ended, LockOwners,
        HoldsState, HoldsRepo, BindingCurrent, LoadedCurrent, CreateIsFirst,
        BindsInitialized, At, Goto, Set, Abort, Opens, TakeState, TakeRepo,
        DropState, DropRepo
<1>1. ASSUME NEW r \in Root, StartInit(p, r) PROVE IInv'
  BY <1>1 DEF StartInit
<1>2. CASE LockScaffold(p)
  BY <1>2 DEF LockScaffold
<1>3. CASE InspectManifest(p)
  BY <1>3 DEF InspectManifest
<1>4. CASE CreateManifest(p)
  <2>1. /\ target[p] \in Root
        /\ repoLock[Common[target[p]]] = p
    BY <1>4 DEF CreateManifest
  <2>2. \A q \in Process : q # p /\ HoldsRepo(q) => target[q] # target[p]
    BY <2>1
  <2>3. TypeOK' /\ LockOwners'
    BY <1>4 DEF CreateManifest
  <2>4. BindingCurrent' /\ BindsInitialized'
    BY <1>4, <2>1 DEF CreateManifest
  <2>5. LoadedCurrent' /\ CreateIsFirst'
    BY <1>4, <2>1, <2>2 DEF CreateManifest
  <2>6. QED
    BY <2>3, <2>4, <2>5
<1>5. CASE UnlockScaffold(p)
  BY <1>5 DEF UnlockScaffold
<1>6. CASE CheckOutside(p)
  BY <1>6 DEF CheckOutside
<1>7. CASE LockBinding(p)
  BY <1>7 DEF LockBinding
<1>8. CASE SaveBinding(p)
  BY <1>8 DEF SaveBinding
<1>9. QED
  BY <1>1, <1>2, <1>3, <1>4, <1>5, <1>6, <1>7, <1>8 DEF Initialize

LEMMA FailStep ==
    ASSUME IInv, NEW p \in Process, Fail(p)
    PROVE  IInv'
BY LocksAssumption
   DEF Fail, ErrorExit, Abort, Goto, Set, IInv, TypeOK, Location, CommandSteps,
       InitSteps, Ended, LockOwners, HoldsState, HoldsRepo, BindingCurrent,
       LoadedCurrent, CreateIsFirst, BindsInitialized, Opens

LEMMA CrashStep ==
    ASSUME IInv, NEW p \in Process, Crash(p)
    PROVE  IInv'
<1> USE DEF Crash, Goto, Ended
<1>1. /\ pc' = [pc EXCEPT ![p] = "crashed"]
      /\ UNCHANGED <<manifest, binding, target, loaded, result>>
  OBVIOUS
<1>2. TypeOK'
  BY LocksAssumption DEF IInv, TypeOK, Location
<1>3. LockOwners'
  <2>1. ASSUME NEW q \in Process, HoldsState(q)' PROVE stateLock'[Home[q]] = q
    BY <2>1, LocksAssumption DEF IInv, TypeOK, LockOwners, HoldsState
  <2>2. ASSUME NEW q \in Process, HoldsRepo(q)'
        PROVE  repoLock'[Common[target'[q]]] = q
    <3>1. q # p /\ HoldsRepo(q)
      BY <2>2 DEF IInv, TypeOK, HoldsRepo
    <3>2. target[q] \in Root /\ target'[q] = target[q]
      BY <3>1 DEF IInv, TypeOK, HoldsRepo
    <3>3. QED
      BY <3>1, <3>2, LocksAssumption DEF IInv, LockOwners
  <2>3. QED
    BY <2>1, <2>2 DEF LockOwners
<1>4. BindingCurrent' /\ LoadedCurrent' /\ CreateIsFirst' /\ BindsInitialized'
  BY <1>1
     DEF IInv, TypeOK, BindingCurrent, LoadedCurrent, CreateIsFirst,
         BindsInitialized, Opens
<1>5. QED
  BY <1>2, <1>3, <1>4 DEF IInv

LEMMA StutterStep ==
    ASSUME IInv, UNCHANGED vars
    PROVE  IInv'
BY DEF vars, IInv, TypeOK, LockOwners, HoldsState, HoldsRepo, BindingCurrent,
       LoadedCurrent, CreateIsFirst, BindsInitialized, Opens

\* IInv is inductive.
LEMMA NextIInv == IInv /\ [Next]_vars => IInv'
BY CommandStep, InitializeStep, FailStep, CrashStep, StutterStep
   DEF Next, Progress, AllEnded

\* IInv holds in every reachable state of any number of processes.
THEOREM Inductive == Spec => []IInv
BY InitIInv, NextIInv, PTL DEF Spec

-----------------------------------------------------------------------------
\* Every variable keeps its type; past its first step a process that is not
\* over has a repository for a target.
THEOREM TypeCorrect == Spec => []TypeOK
<1>1. IInv => TypeOK
  BY DEF IInv
<1>2. QED
  BY <1>1, Inductive, PTL

\* repository.Lock: at most one process is between acquiring and releasing the
\* lock of a Git repository, through any of its linked worktrees.
THEOREM Exclusion == Spec => []RepositoryExclusion
<1>1. IInv => RepositoryExclusion
  BY DEF IInv, LockOwners, RepositoryExclusion
<1>2. QED
  BY <1>1, Inductive, PTL

\* openLocked: a command that holds its locks works on the repository its
\* installation is bound to at that moment.
THEOREM BindingNeverStale == Spec => []NoStaleBinding
<1>1. IInv => NoStaleBinding
  BY DEF IInv, BindingCurrent, NoStaleBinding
<1>2. QED
  BY <1>1, Inductive, PTL

\* Initialize: an empty manifest is only ever written where there is none.
THEOREM ScaffoldIsFirst == Spec => []CreateIsFirst
<1>1. IInv => CreateIsFirst
  BY DEF IInv
<1>2. QED
  BY <1>1, Inductive, PTL

-----------------------------------------------------------------------------
(* Refinement: three actions change the manifest or a binding, and each of *)
(* them is the abstract action of the same meaning.                        *)

LEMMA SaveManifestIsCommit ==
    ASSUME IInv, NEW p \in Process, SaveManifest(p)
    PROVE  Serial!Commit(p, target[p]) /\ target[p] \in Root
BY DEF IInv, TypeOK, BindingCurrent, LoadedCurrent, Opens, SaveManifest, At,
       Serial!Commit

LEMMA CreateManifestIsScaffold ==
    ASSUME IInv, NEW p \in Process, CreateManifest(p)
    PROVE  Serial!Scaffold(target[p]) /\ target[p] \in Root
BY DEF IInv, TypeOK, CreateIsFirst, CreateManifest, At, Serial!Scaffold

LEMMA SaveBindingIsBind ==
    ASSUME IInv, NEW p \in Process, SaveBinding(p)
    PROVE  Serial!Bind(Home[p], target[p]) /\ target[p] \in Root
BY DEF IInv, TypeOK, BindsInitialized, SaveBinding, At, Serial!Bind

LEMMA StepRefines == IInv /\ [Next]_vars => [Serial!Next]_Serial!svars
<1> SUFFICES ASSUME IInv, [Next]_vars PROVE [Serial!Next]_Serial!svars
  OBVIOUS
<1>1. ASSUME NEW p \in Process, Progress(p)
      PROVE  [Serial!Next]_Serial!svars
  <2>1. CASE SaveManifest(p)
    BY <2>1, SaveManifestIsCommit DEF Serial!Next
  <2>2. CASE CreateManifest(p)
    BY <2>2, CreateManifestIsScaffold DEF Serial!Next
  <2>3. CASE SaveBinding(p)
    BY <2>3, SaveBindingIsBind, LocksAssumption DEF Serial!Next
  <2>4. CASE ~(SaveManifest(p) \/ CreateManifest(p) \/ SaveBinding(p))
    BY <1>1, <2>4
       DEF Progress, Command, Initialize, Peek, OpenPeeked, LockState, Reload,
           Reopen, LockRepo, LoadManifest, OnlyRead, UnlockRepo, UnlockState,
           StartInit, LockScaffold, InspectManifest, UnlockScaffold,
           CheckOutside, LockBinding, Serial!svars
  <2>5. QED
    BY <2>1, <2>2, <2>3, <2>4
<1>2. ASSUME NEW p \in Process, Fail(p) \/ Crash(p)
      PROVE  UNCHANGED Serial!svars
  BY <1>2 DEF Fail, Crash, Serial!svars
<1>3. ASSUME UNCHANGED vars
      PROVE  UNCHANGED Serial!svars
  BY <1>3 DEF vars, Serial!svars
<1>4. QED
  BY <1>1, <1>2, <1>3 DEF Next, AllEnded

\* Every behaviour of the locking protocol is one in which commands run one at
\* a time: no change is lost and none reaches a repository that is not bound.
THEOREM ImplementsSerial == Spec => SerialCommands
<1>1. Init => Serial!Init
  BY DEF Init, Serial!Init
<1>2. QED
  BY <1>1, StepRefines, Inductive, PTL DEF Spec, SerialCommands, Serial!Spec
=============================================================================
