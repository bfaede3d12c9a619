--------------------------- MODULE SusuApplyProofs ---------------------------
(***************************************************************************)
(* Proofs about SusuApply for any set of managed paths, any of them        *)
(* sensitive: what is written is what was authenticated, nothing is        *)
(* written before everything is prepared, the result is honest, and at     *)
(* most one file is written after the destinations became unsafe.          *)
(***************************************************************************)
EXTENDS SusuApply, FiniteSetTheorems, TLAPS

\* Replacements begin only when every source is prepared.
PreparedFirst ==
    pc \in {"checkNext", "replace"} \/ applied # {} => Unprepared = {}

\* Each replacement starts from destinations that were found safe, so nothing is
\* exposed yet; one that is then exposed is the last.
ExposureBounded ==
    /\ ~unsafe => exposed = {}
    /\ pc = "replace" => exposed = {}
    /\ exposed = {} \/ \E p \in Path : exposed = {p}

IInv ==
    /\ TypeOK
    /\ SensitiveAuthentic
    /\ PreparedFirst
    /\ AppliedHonest
    /\ ExposureBounded

-----------------------------------------------------------------------------
LEMMA InitIInv == Init => IInv
BY ApplyAssumption
   DEF Init, IInv, TypeOK, Stored, SensitiveAuthentic, PreparedFirst,
       Unprepared, AppliedHonest, ExposureBounded

\* The steps that only move the command along, or end it.
LEMMA ControlStep ==
    ASSUME IInv,
           \/ CheckFirst \/ Unlock \/ CheckUnlocked \/ CheckPrepared
           \/ CheckNext \/ Fails \/ Kill
    PROVE  IInv'
<1> USE ApplyAssumption
    DEF IInv, TypeOK, SensitiveAuthentic, PreparedFirst, Unprepared, Remaining,
        AppliedHonest, ExposureBounded, Return, Goto
<1>1. CASE CheckFirst
  BY <1>1 DEF CheckFirst
<1>2. CASE Unlock
  BY <1>2 DEF Unlock
<1>3. CASE CheckUnlocked
  BY <1>3 DEF CheckUnlocked
<1>4. CASE CheckPrepared
  BY <1>4 DEF CheckPrepared
<1>5. CASE CheckNext
  BY <1>5 DEF CheckNext
<1>6. CASE Fails
  BY <1>6 DEF Fails
<1>7. CASE Kill
  BY <1>7 DEF Kill
<1>8. QED
  BY <1>1, <1>2, <1>3, <1>4, <1>5, <1>6, <1>7

\* A sensitive source that is accepted is authentic.
LEMMA PrepareStep ==
    ASSUME IInv, NEW p \in Path, Prepare(p)
    PROVE  IInv'
<1> USE ApplyAssumption
    DEF IInv, TypeOK, Stored, IsFirst, Unprepared, Return, Goto
<1>1. p \in Unprepared /\ pc = "prepare" /\ applied = {}
  BY DEF Prepare, PreparedFirst
<1>2. TypeOK'
  BY <1>1 DEF Prepare
<1>3. SensitiveAuthentic'
  BY <1>1 DEF Prepare, SensitiveAuthentic
<1>4. PreparedFirst'
  BY <1>1 DEF Prepare, PreparedFirst
<1>5. AppliedHonest' /\ ExposureBounded'
  BY <1>1 DEF Prepare, AppliedHonest, ExposureBounded
<1>6. QED
  BY <1>2, <1>3, <1>4, <1>5

\* What is written is what was prepared.
LEMMA ReplaceStep ==
    ASSUME IInv, NEW p \in Path, Replace(p)
    PROVE  IInv'
<1> USE ApplyAssumption
    DEF IInv, TypeOK, IsFirst, Unprepared, Remaining, Return, Goto
<1>1. /\ pc = "replace" /\ Unprepared = {} /\ exposed = {}
      /\ prepared[p] \in {"good", "bad"}
      /\ p \in Sensitive => prepared[p] = "good"
  BY DEF Replace, PreparedFirst, ExposureBounded, SensitiveAuthentic
<1>2. TypeOK'
  BY <1>1 DEF Replace
<1>3. SensitiveAuthentic'
  BY <1>1 DEF Replace, SensitiveAuthentic
<1>4. PreparedFirst'
  BY <1>1 DEF Replace, PreparedFirst
<1>5. AppliedHonest'
  BY <1>1 DEF Replace, AppliedHonest
<1>6. ExposureBounded'
  BY <1>1 DEF Replace, ExposureBounded
<1>7. QED
  BY <1>2, <1>3, <1>4, <1>5, <1>6

\* What others do to the repository and to symbolic links.
LEMMA OutsideStep ==
    ASSUME IInv, Relink \/ \E p \in Path : Swap(p) \/ Rewrite(p)
    PROVE  IInv'
<1> USE ApplyAssumption
    DEF IInv, TypeOK, Stored, SensitiveAuthentic, PreparedFirst, Unprepared,
        AppliedHonest, ExposureBounded
<1>1. CASE Relink
  BY <1>1 DEF Relink
<1>2. ASSUME NEW p \in Path, Swap(p) PROVE IInv'
  BY <1>2 DEF Swap
<1>3. ASSUME NEW p \in Path, Rewrite(p) PROVE IInv'
  <2>1. Unprepared' = Unprepared
    BY <1>3 DEF Rewrite
  <2>2. QED
    BY <1>3, <2>1 DEF Rewrite
<1>4. QED
  BY <1>1, <1>2, <1>3

LEMMA NextIInv == IInv /\ [Next]_vars => IInv'
<1> SUFFICES ASSUME IInv, [Next]_vars PROVE IInv'
  OBVIOUS
<1>1. CASE Next
  BY <1>1, ControlStep, PrepareStep, ReplaceStep, OutsideStep DEF Next, Command
<1>2. CASE UNCHANGED vars
  BY <1>2
     DEF vars, IInv, TypeOK, Stored, SensitiveAuthentic, PreparedFirst,
         Unprepared, AppliedHonest, ExposureBounded
<1>3. QED
  BY <1>1, <1>2

\* The inductive invariant holds of every apply.
THEOREM Inductive == Spec => []IInv
BY InitIInv, NextIInv, PTL DEF Spec

-----------------------------------------------------------------------------
\* Type correctness.
THEOREM TypeCorrect == Spec => []TypeOK
BY Inductive, PTL DEF IInv

\* A sensitive destination only ever receives authenticated plaintext.
THEOREM Authentic == Spec => []SensitiveAuthentic
BY Inductive, PTL DEF IInv

\* A missing or corrupt source found by the preflight leaves every destination
\* as it was.
THEOREM AllPreparedFirst == Spec => []NothingHalfApplied
<1>1. IInv => NothingHalfApplied
  BY DEF IInv, PreparedFirst, AppliedHonest, NothingHalfApplied
<1>2. QED
  BY Inductive, <1>1, PTL

\* The result lists exactly what was replaced.
THEOREM Honest == Spec => []AppliedHonest
BY Inductive, PTL DEF IInv

\* At most one file is written after the destinations became unsafe.
THEOREM ExposureIsBounded == Spec => []AtMostOneExposed
<1>1. IInv => AtMostOneExposed
  <2> SUFFICES ASSUME IInv PROVE Cardinality(exposed) <= 1
    BY DEF AtMostOneExposed
  <2>1. CASE exposed = {}
    BY <2>1, FS_EmptySet
  <2>2. ASSUME NEW p \in Path, exposed = {p} PROVE Cardinality(exposed) <= 1
    <3>1. Cardinality({p}) = 1
      BY FS_Singleton, Zenon
    <3>2. QED
      BY <2>2, <3>1
  <2>3. QED
    BY <2>1, <2>2 DEF IInv, ExposureBounded
<1>2. QED
  BY Inductive, <1>1, PTL
=============================================================================
