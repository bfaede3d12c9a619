-------------------------- MODULE SusuReplaceProofs --------------------------
(***************************************************************************)
(* Proofs about SusuReplace for any number of concurrent writers and any   *)
(* staging names: the destination is whole, results are honest, no staging *)
(* file is left behind silently and none but its owner removes it.         *)
(***************************************************************************)
EXTENDS SusuReplace, TLAPS

\* A writer that has a staging file is the one its staging name refers to.
StagingOwned ==
    \A w \in Writer : pc[w] \in {"write", "sync", "rename", "cleanup"}
        => temp[w] \in TempName /\ dir[temp[w]] = w

\* A staging file is under no other name, and left only by a writer that was
\* killed or could not unlink it.
StagingKnown ==
    \A w \in Writer, n \in TempName : dir[n] = w =>
        /\ n = temp[w]
        /\ \/ pc[w] \in {"write", "sync", "rename", "cleanup", "killed"}
           \/ pc[w] = "returned" /\ w \in residue

\* Content is complete before the sync, and on disk before the rename.
WrittenFirst ==
    \A w \in Writer :
        /\ pc[w] = "sync" => data[w] = "full"
        /\ pc[w] = "rename" \/ committed[w]
              => data[w] = "full" /\ dataDisk[w] = {"full"}

\* Only committed writers are or may be under the destination's name, where the
\* old file does not come back.
CommitsOnly ==
    /\ dir[Leaf] \in dirDisk[Leaf]
    /\ \A w \in Writer :
          /\ w \in dirDisk[Leaf] => committed[w]
          /\ committed[w] => /\ pc[w] \in {"syncDirectory"} \cup Ended
                             /\ dir[Leaf] # Old
          /\ pc[w] = "cleanup" => failed[w]
          /\ pc[w] = "syncDirectory" => committed[w]

IInv ==
    /\ TypeOK
    /\ StagingOwned
    /\ StagingKnown
    /\ WrittenFirst
    /\ CommitsOnly
    /\ ResultsHonest

-----------------------------------------------------------------------------
LEMMA InitIInv == Init => IInv
BY ReplaceAssumption
   DEF Init, IInv, TypeOK, Name, File, Ended, StagingOwned, StagingKnown,
       WrittenFirst, CommitsOnly, ResultsHonest

LEMMA WriterStep ==
    ASSUME IInv, NEW w \in Writer, Step(w)
    PROVE  IInv'
<1> USE ReplaceAssumption DEF IInv, Name, File, Ended, At, Goto, Refer
<1>1. CASE OpenFails(w)
  BY <1>1 DEF OpenFails, TypeOK, StagingOwned, StagingKnown, WrittenFirst,
              CommitsOnly, ResultsHonest
<1>2. CASE CreateTemp(w)
  <2> USE DEF CreateTemp
  <2>1. PICK n \in TempName : /\ dir[n] = None
                              /\ Refer(n, w)
                              /\ temp' = [temp EXCEPT ![w] = n]
    BY <1>2
  <2>2. TypeOK'
    BY <1>2, <2>1 DEF TypeOK, StagingOwned
  <2>3. StagingOwned'
    BY <1>2, <2>1 DEF TypeOK, StagingOwned
  <2>4. StagingKnown'
    BY <1>2, <2>1 DEF TypeOK, StagingKnown
  <2>5. WrittenFirst' /\ CommitsOnly' /\ ResultsHonest'
    BY <1>2, <2>1 DEF TypeOK, WrittenFirst, CommitsOnly, ResultsHonest
  <2>6. QED
    BY <2>2, <2>3, <2>4, <2>5
<1>3. CASE Write(w)
  BY <1>3 DEF Write, TypeOK, StagingOwned, StagingKnown, WrittenFirst,
              CommitsOnly, ResultsHonest
<1>4. CASE SyncFile(w)
  BY <1>4 DEF SyncFile, TypeOK, StagingOwned, StagingKnown, WrittenFirst,
              CommitsOnly, ResultsHonest
<1>5. CASE StageFails(w)
  BY <1>5 DEF StageFails, TypeOK, StagingOwned, StagingKnown, WrittenFirst,
              CommitsOnly, ResultsHonest
<1>6. CASE Rename(w)
  <2> USE DEF Rename
  <2>1. /\ temp[w] \in TempName /\ temp[w] # Leaf /\ dir[temp[w]] = w
        /\ \A v \in Writer : pc[v] \in {"write", "sync", "rename", "cleanup"} /\ v # w
              => temp[v] # temp[w]
    BY <1>6 DEF StagingOwned
  <2>2. TypeOK'
    BY <1>6, <2>1 DEF TypeOK, StagingOwned
  <2>3. StagingOwned'
    BY <1>6, <2>1 DEF TypeOK, StagingOwned
  <2>4. StagingKnown'
    BY <1>6, <2>1 DEF TypeOK, StagingKnown
  <2>5. WrittenFirst' /\ CommitsOnly' /\ ResultsHonest'
    BY <1>6, <2>1 DEF TypeOK, WrittenFirst, CommitsOnly, ResultsHonest
  <2>6. QED
    BY <2>2, <2>3, <2>4, <2>5
<1>7. CASE SyncDirectory(w)
  <2> USE DEF SyncDirectory
  <2>1. CASE dirDisk' = [n \in Name |-> {dir[n]}] /\ UNCHANGED failed
    <3>1. TypeOK'
      BY <1>7, <2>1 DEF TypeOK
    <3>2. StagingOwned' /\ StagingKnown' /\ WrittenFirst'
      BY <1>7 DEF TypeOK, StagingOwned, StagingKnown, WrittenFirst
    <3>3. dirDisk'[Leaf] = {dir'[Leaf]} /\ dirDisk'[Leaf] \subseteq dirDisk[Leaf]
      BY <1>7, <2>1 DEF CommitsOnly
    <3>4. CommitsOnly'
      BY <1>7, <2>1, <3>3 DEF TypeOK, CommitsOnly
    <3>5. ResultsHonest'
      BY <1>7, <2>1, <3>3 DEF TypeOK, CommitsOnly, ResultsHonest
    <3>6. QED
      BY <3>1, <3>2, <3>4, <3>5
  <2>2. CASE failed' = [failed EXCEPT ![w] = TRUE] /\ UNCHANGED dirDisk
    <3>1. TypeOK'
      BY <1>7, <2>2 DEF TypeOK
    <3>2. StagingOwned' /\ StagingKnown' /\ WrittenFirst'
      BY <1>7 DEF TypeOK, StagingOwned, StagingKnown, WrittenFirst
    <3>3. CommitsOnly' /\ ResultsHonest'
      BY <1>7, <2>2 DEF TypeOK, CommitsOnly, ResultsHonest
    <3>4. QED
      BY <3>1, <3>2, <3>3
  <2>3. QED
    BY <1>7, <2>1, <2>2
<1>8. CASE Cleanup(w)
  <2> USE DEF Cleanup
  <2>1. /\ temp[w] \in TempName /\ temp[w] # Leaf /\ dir[temp[w]] = w
        /\ \A v \in Writer : pc[v] \in {"write", "sync", "rename", "cleanup"} /\ v # w
              => temp[v] # temp[w]
    BY <1>8 DEF StagingOwned
  <2>2. TypeOK'
    <3>1. CASE Refer(temp[w], None) /\ UNCHANGED residue
      <4>1. /\ dir' \in [Name -> File \cup {None}]
            /\ dirDisk' \in [Name -> SUBSET (File \cup {None})]
        BY <2>1, <3>1 DEF TypeOK
      <4>2. \A v \in Writer : pc'[v] \in {"write", "sync", "rename"}
                                 => dir'[temp[v]] = v
        BY <1>8, <2>1, <3>1 DEF TypeOK, StagingOwned
      <4>3. QED
        BY <1>8, <3>1, <4>1, <4>2 DEF TypeOK
    <3>2. CASE residue' = residue \cup {w} /\ UNCHANGED <<dir, dirDisk>>
      BY <1>8, <3>2 DEF TypeOK
    <3>3. QED
      BY <1>8, <3>1, <3>2
  <2>3. StagingOwned'
    BY <1>8, <2>1 DEF TypeOK, StagingOwned
  <2>4. StagingKnown'
    BY <1>8, <2>1 DEF TypeOK, StagingKnown
  <2>5. WrittenFirst' /\ CommitsOnly' /\ ResultsHonest'
    BY <1>8, <2>1 DEF TypeOK, WrittenFirst, CommitsOnly, ResultsHonest
  <2>6. QED
    BY <2>2, <2>3, <2>4, <2>5
<1>9. QED
  BY <1>1, <1>2, <1>3, <1>4, <1>5, <1>6, <1>7, <1>8 DEF Step

LEMMA KillStep ==
    ASSUME IInv, NEW w \in Writer, Kill(w)
    PROVE  IInv'
BY ReplaceAssumption
   DEF Kill, IInv, Name, File, Ended, Goto, TypeOK, StagingOwned, StagingKnown,
       WrittenFirst, CommitsOnly, ResultsHonest

LEMMA ForeignStep ==
    ASSUME IInv, NEW n \in Name, ForeignCreate(n) \/ ForeignRemove(n)
    PROVE  IInv'
<1> USE ReplaceAssumption
    DEF IInv, Name, File, Ended, Refer, TypeOK, StagingOwned, StagingKnown,
        WrittenFirst, CommitsOnly, ResultsHonest
<1>1. CASE ForeignCreate(n)
  BY <1>1 DEF ForeignCreate
<1>2. CASE ForeignRemove(n)
  BY <1>2 DEF ForeignRemove
<1>3. QED
  BY <1>1, <1>2

LEMMA NextIInv == IInv /\ [Next]_vars => IInv'
<1> SUFFICES ASSUME IInv, [Next]_vars PROVE IInv'
  OBVIOUS
<1>1. CASE UNCHANGED vars
  BY <1>1 DEF vars, IInv, Name, File, Ended, TypeOK, StagingOwned, StagingKnown,
              WrittenFirst, CommitsOnly, ResultsHonest
<1>2. CASE Next
  BY <1>1, <1>2, WriterStep, KillStep, ForeignStep DEF Next, AllEnded
<1>3. QED
  BY <1>1, <1>2

\* The inductive invariant holds of every run of writers and other programs.
THEOREM Inductive == Spec => []IInv
BY InitIInv, NextIInv, PTL DEF Spec

-----------------------------------------------------------------------------
\* Type correctness; a staging name refers to its owner's file until the rename.
THEOREM TypeCorrect == Spec => []TypeOK
BY Inductive, PTL DEF IInv

\* Whoever reads the destination, now or after a power loss, finds a whole file.
THEOREM WholeDestination == Spec => []DestinationIsWhole
<1>1. IInv => DestinationIsWhole
  BY DEF IInv, CommitsOnly, WrittenFirst, DestinationIsWhole
<1>2. QED
  BY Inductive, <1>1, PTL

\* What a call returns tells whether it committed.
THEOREM Honest == Spec => []ResultsHonest
BY Inductive, PTL DEF IInv

\* A staging file outlives its call only by a kill or a failed unlink.
THEOREM ResidueKnown == Spec => []NoSilentResidue
<1>1. IInv => NoSilentResidue
  BY DEF IInv, StagingKnown, NoSilentResidue
<1>2. QED
  BY Inductive, <1>1, PTL

\* A call removes nothing from the directory but its own staging file.
THEOREM RemovesOwnOnly == Spec => OnlyOwnStagingRemoved
<1> DEFINE Own == \A w \in Writer, n \in TempName :
                     Step(w) /\ dir[n] \notin {w, None} => dir'[n] = dir[n]
<1>1. IInv => Own
  <2> SUFFICES ASSUME IInv, NEW w \in Writer, NEW n \in TempName,
                      Step(w), dir[n] \notin {w, None}
               PROVE  dir'[n] = dir[n]
    OBVIOUS
  <2> USE ReplaceAssumption DEF IInv, TypeOK, Name, Refer, At
  <2>1. CASE CreateTemp(w)
    BY <2>1 DEF CreateTemp
  <2>2. CASE Rename(w)
    BY <2>2 DEF Rename, StagingOwned
  <2>3. CASE Cleanup(w)
    BY <2>3 DEF Cleanup, StagingOwned
  <2>4. CASE OpenFails(w) \/ Write(w) \/ SyncFile(w) \/ StageFails(w) \/ SyncDirectory(w)
    BY <2>4 DEF OpenFails, Write, SyncFile, StageFails, SyncDirectory
  <2>5. QED
    BY <2>1, <2>2, <2>3, <2>4 DEF Step
<1>2. IInv /\ [Next]_vars => [Own]_vars
  BY <1>1
<1>3. QED
  BY Inductive, <1>2, PTL DEF Spec, OnlyOwnStagingRemoved
=============================================================================
