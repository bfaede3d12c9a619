------------------------ MODULE SusuCollectionProofs ------------------------
(***************************************************************************)
(* Proofs about SusuCandidates, for any paths and files and any number of  *)
(* changes.  The idea: once collected, a candidate is opened under its     *)
(* identity or not at all, so distinct identities, which the first         *)
(* preflight establishes, stay distinct; and what a preflight has opened   *)
(* was at its path after the preflight began.                              *)
(*                                                                         *)
(* And about SusuCommandLine, for any words and any results of a call.     *)
(* The idea: a --sensitive among the words became the flag or an operand,  *)
(* and add stores nothing when an operand is no file; the report is        *)
(* printed line by line, so what is printed begins what it has to say.     *)
(*                                                                         *)
(* And about SusuBoundary, for any tree of directories, files and links,   *)
(* any paths and any number of moves.  The idea: names lead to the same    *)
(* node as the prefixes that were made canonical, so a path into or above  *)
(* a directory either passes through it or is spelled below its path; and  *)
(* a walk comes to a file through the directories between them.            *)
(***************************************************************************)
EXTENDS MCCollection, Sequences, SequenceTheorems, FiniteSetTheorems,
        WellFoundedInduction, TLAPS

(* Types, and what each step relies on.                                    *)
Typed ==
    /\ TypeOK
    /\ pc \in {"open", "verify"} => item \in todo
    /\ phase = "read" /\ pc = "load" => item \in todo
    /\ pc = "verify" \/ (phase = "read" /\ pc = "load") => opened \in Inode
    /\ phase \in {"preflight", "read"} => todo \subseteq ops
    /\ phase = "classify" => pc = "load"
    /\ phase = "password" => pc = "name" /\ todo = {}
    /\ phase \in {"done", "failed"} => pc = "end"

(* Candidates a preflight has passed have distinct identities, and so have *)
(* all of them after the first preflight.                                  *)
Distinct(paths) == \A p, q \in paths : p # q => identity[p] # identity[q]

Snapshots ==
    /\ phase \in {"collect", "classify"} => \A p \in Path : captured[p] = NoFile
    /\ \A p \in Path : captured[p] # NoFile =>
          p \in ops /\ captured[p] = identity[p] /\ captured[p] \notin StateFile
    /\ phase = "preflight" => /\ \A p \in ops \ todo : identity[p] \in seen
                              /\ Distinct(ops \ todo)
    /\ \/ phase \in {"password", "read"}
       \/ phase = "preflight" /\ after # "password"
       => Distinct(ops)
    /\ phase = "read" /\ pc = "load" => opened = identity[item] /\ opened \notin StateFile

SeenAgain(p) == identity[p] \in lately[p].file /\ "outside" \in lately[p].place

(* What has been seen since the last reset.                                *)
Current ==
    /\ \A p \in Path : view[p].file \in lately[p].file /\ view[p].place \in lately[p].place
    /\ phase = "preflight" => \A p \in ops \ todo : SeenAgain(p)
    /\ phase = "read" => \A p \in ops : SeenAgain(p)
    /\ phase = "preflight" /\ pc \in {"open", "verify"} => "outside" \in lately[item].place
    /\ phase = "preflight" /\ pc = "verify" => opened \in lately[item].file

(* Aliases there are now, and of those whose path was loaded since the     *)
(* descriptor was opened, the loaded identities know.                      *)
Aliased ==
    /\ aliases \subseteq Identities(view, managed)
    /\ phase = "read" /\ pc = "load" => \A a \in aliases : a \in known \/ a[1] \in unlisted

Inv == Typed /\ Snapshots /\ OneSnapshotEach /\ Current /\ Aliased

-----------------------------------------------------------------------------
(* Lemmas about the operators                                              *)

(* The identities of some paths are pairs of one of them and its file.     *)
LEMMA IdentitiesAre ==
    ASSUME NEW v \in [Path -> View], NEW paths \in SUBSET Path
    PROVE  /\ Identities(v, paths) \subseteq paths \X Inode
           /\ \A a \in Identities(v, paths) : a[1] \in paths /\ a[2] = v[a[1]].file
           /\ \A m \in paths : v[m].file # NoFile => <<m, v[m].file>> \in Identities(v, paths)
BY DEF Identities, View

(* What the file system is now, as a history of one moment.                *)
LEMMA NowIs ==
    ASSUME view \in [Path -> View]
    PROVE  /\ Now \in [Path -> [file : SUBSET (Inode \cup {NoFile}), place : SUBSET Place]]
           /\ \A p \in Path : view[p].file \in Now[p].file /\ view[p].place \in Now[p].place
BY DEF Now, View

-----------------------------------------------------------------------------
(* Types                                                                   *)

(* The initial state is well-typed.                                        *)
LEMMA TypedInit == Init => Typed
<1> SUFFICES ASSUME Init PROVE Typed
    OBVIOUS
<1>1. lately \in [Path -> [file : SUBSET (Inode \cup {NoFile}), place : SUBSET Place]]
  BY NowIs DEF Init
<1>2. TypeOK
  BY <1>1, CandidatesAssumption DEF Init, TypeOK
<1> QED BY <1>2 DEF Init, Typed

(* What follows a preflight that is over.                                  *)
LEMMA PassOver ==
    ASSUME Typed, PreflightDone, after # "begin"
    PROVE  \/ after = "password" /\ phase' = "password" /\ pc' = "name" /\ todo' = {}
           \/ after = "read" /\ phase' = "read" /\ pc' = "name" /\ todo' \subseteq ops
           \/ after = "commit" /\ phase' = "done" /\ pc' = "end" /\ todo' = {}
<1>1. after \in {"password", "read", "commit"}
  BY DEF Typed, TypeOK
<1>2. CASE after = "password"
  BY <1>2 DEF PreflightDone, Goto
<1>3. CASE after = "read"
  <2>1. phase' = "read" /\ pc' = "name" /\ todo' \in {{p} : p \in Unread}
    BY <1>3 DEF PreflightDone, Goto
  <2>2. Unread \subseteq ops
    BY DEF Unread
  <2> QED BY <1>3, <2>1, <2>2
<1>4. CASE after = "commit"
  BY <1>4 DEF PreflightDone, Goto
<1> QED BY <1>1, <1>2, <1>3, <1>4

(* The start of a preflight of all that is to be stored.                   *)
LEMMA TypedPreflight ==
    ASSUME Typed, NEW c \in SUBSET Path, NEW r \in {"password", "begin", "read", "commit"},
           Preflight(c, r), ops' = c, \A p \in c : identity'[p] # NoFile,
           UNCHANGED <<environment, item, identity>>,
           opened' \in Inode \cup {NoFile},
           captured' \in [Path -> Inode \cup {NoFile}]
    PROVE  Typed'
<1>1. lately' \in [Path -> [file : SUBSET (Inode \cup {NoFile}), place : SUBSET Place]]
  BY NowIs DEF Typed, TypeOK, Preflight
<1>2. TypeOK'
  BY <1>1 DEF Typed, TypeOK, Preflight, StartLoading, Goto, environment
<1> QED BY <1>2 DEF Typed, Preflight, StartLoading, Goto

(* Every step keeps the types.                                             *)
LEMMA TypedOpenings ==
    ASSUME Typed,
           \/ \E p \in Path : CheckName(p) \/ Load(p)
           \/ Open \/ Collected \/ Loaded \/ Preflighted \/ Reopened \/ Fail
    PROVE  Typed'
<1> USE DEF environment, knowledge, history, Goto, Step
<1>1. ASSUME NEW p \in Path, CheckName(p) PROVE Typed'
  BY <1>1 DEF CheckName, Typed, TypeOK
<1>2. ASSUME NEW p \in Path, Load(p) PROVE Typed'
  <2>1. Identities(view, {p}) \subseteq managed \X Inode
    BY <1>2, IdentitiesAre DEF Load, Typed, TypeOK
  <2> QED BY <1>2, <2>1 DEF Load, Typed, TypeOK
<1>3. CASE Open
  <2>1. opened' \in Inode
    BY <1>3 DEF Open, Typed, TypeOK, View
  <2>2. aliases' \subseteq managed \X Inode
    BY <1>3, IdentitiesAre DEF Open, Typed, TypeOK
  <2> QED BY <1>3, <2>1, <2>2 DEF Open, Typed, TypeOK
<1>4. CASE Collected
  <2>1. opened \in Inode /\ item \in Path /\ opened # NoFile
    BY <1>4, CandidatesAssumption DEF Collected, Verified, Typed, TypeOK
  <2> QED BY <1>4, <2>1 DEF Collected, Verified, StartLoading, Typed, TypeOK
<1>5. CASE Loaded
  BY <1>5 DEF Loaded, Typed, TypeOK
<1>6. CASE Preflighted
  <2>1. opened \in Inode
    BY <1>6 DEF Preflighted, Verified, Typed
  <2> QED BY <1>6, <2>1 DEF Preflighted, Typed, TypeOK
<1>7. CASE Reopened
  <2>1. opened \in Inode /\ item \in todo
    BY <1>7 DEF Reopened, Verified, Typed
  <2> QED BY <1>7, <2>1 DEF Reopened, StartLoading, Typed, TypeOK
<1>8. CASE Fail
  BY <1>8 DEF Fail, Typed, TypeOK
<1> QED BY <1>1, <1>2, <1>3, <1>4, <1>5, <1>6, <1>7, <1>8

(* So do the steps from one pass to another, and other programs.           *)
LEMMA TypedPasses ==
    ASSUME Typed,
           \/ Classify \/ PreflightDone \/ Password \/ Read
           \/ \E p \in Path, v \in View : Change(p, v)
    PROVE  Typed'
<1> USE DEF environment, knowledge, history, Goto, Step
<1>1. CASE Classify
  <2>1. ops' \subseteq ops /\ UNCHANGED <<environment, item, opened, identity, captured>>
    BY <1>1 DEF Classify
  <2>2. CASE Preflight(ops', "password")
    BY <2>1, <2>2, TypedPreflight DEF Typed, TypeOK
  <2>3. CASE Goto("done", "end") /\ UNCHANGED <<unlisted, known, todo, seen, after, history>>
    BY <2>1, <2>3 DEF Typed, TypeOK
  <2> QED BY <1>1, <2>2, <2>3 DEF Classify
<1>2. CASE PreflightDone
  <2>1. UNCHANGED <<environment, item, opened, identity, ops, captured>>
    BY <1>2 DEF PreflightDone
  <2>2. CASE after = "begin"
    <3>1. Preflight(ops, "read")
      BY <1>2, <2>2 DEF PreflightDone
    <3> QED BY <2>1, <3>1, TypedPreflight DEF Typed, TypeOK
  <2>3. CASE after # "begin"
    <3>1. UNCHANGED <<after, unlisted, known, seen, history>>
      BY <1>2, <2>3 DEF PreflightDone
    <3>2. \/ phase' = "password" /\ pc' = "name" /\ todo' = {}
          \/ phase' = "read" /\ pc' = "name" /\ todo' \subseteq ops
          \/ phase' = "done" /\ pc' = "end" /\ todo' = {}
      BY <1>2, <2>3, PassOver
    <3> QED BY <2>1, <3>1, <3>2 DEF Typed, TypeOK
  <2> QED BY <2>2, <2>3
<1>3. CASE Password
  <2>1. UNCHANGED <<environment, item, opened, identity, ops, captured>> /\ Preflight(ops, "begin")
    BY <1>3 DEF Password
  <2> QED BY <2>1, TypedPreflight DEF Typed, TypeOK
<1>4. CASE Read
  <2>1. UNCHANGED <<environment, item, identity, ops>> /\ opened' = NoFile
    BY <1>4 DEF Read
  <2>2. captured' \in [Path -> Inode \cup {NoFile}]
    BY <1>4 DEF Read, Typed, TypeOK
  <2>3. Preflight(ops, "commit") \/ Preflight(ops, "read")
    BY <1>4 DEF Read
  <2> QED BY <2>1, <2>2, <2>3, TypedPreflight DEF Typed, TypeOK
<1>5. ASSUME NEW p \in Path, NEW v \in View, Change(p, v) PROVE Typed'
  <2>1. view' \in [Path -> View] /\ changes' \in 0 .. MaxChanges
    BY <1>5, CandidatesAssumption DEF Change, Typed, TypeOK
  <2>2. v.file \in Inode \cup {NoFile} /\ v.place \in Place
    BY DEF View
  <2>3. lately' \in [Path -> [file : SUBSET (Inode \cup {NoFile}), place : SUBSET Place]]
    BY <1>5, <2>2 DEF Change, Typed, TypeOK
  <2> QED BY <1>5, <2>1, <2>3 DEF Change, Typed, TypeOK
<1> QED BY <1>1, <1>2, <1>3, <1>4, <1>5

(* Every step keeps the types.                                             *)
LEMMA TypedNext == Typed /\ [Next]_vars => Typed'
<1> SUFFICES ASSUME Typed, [Next]_vars PROVE Typed'
    OBVIOUS
<1>1. CASE UNCHANGED vars
  BY <1>1 DEF vars, environment, knowledge, history, Typed, TypeOK
<1> QED BY <1>1, TypedOpenings, TypedPasses DEF Next

-----------------------------------------------------------------------------
(* What was captured                                                       *)

(* A candidate that is opened again is the file that was collected.        *)
LEMMA VerifiedIs ==
    ASSUME Typed, Verified, phase \in {"preflight", "read"}
    PROVE  /\ item \in todo /\ item \in ops
           /\ opened = identity[item] /\ opened \notin StateFile /\ opened # NoFile
BY CandidatesAssumption DEF Typed, TypeOK, Verified, IsState

(* Steps that capture nothing and stay within their pass.                  *)
LEMMA SnapshotsSteps ==
    ASSUME Typed, Snapshots,
           \/ \E p \in Path : CheckName(p) \/ Load(p)
           \/ Open \/ Collected \/ Loaded \/ Preflighted \/ Reopened \/ Fail
           \/ \E p \in Path, v \in View : Change(p, v)
    PROVE  Snapshots'
<1> USE DEF environment, knowledge, history, Goto, Step
<1>1. ASSUME UNCHANGED <<phase, todo, after, identity, seen, ops, captured>>,
             phase = "read" /\ pc' = "load" => opened' = identity[item'] /\ opened' \notin StateFile
      PROVE  Snapshots'
  BY <1>1 DEF Snapshots, Distinct
<1>2. ASSUME NEW p \in Path, CheckName(p) PROVE Snapshots'
  BY <1>1, <1>2 DEF CheckName
<1>3. ASSUME NEW p \in Path, Load(p) PROVE Snapshots'
  BY <1>1, <1>3 DEF Load, Snapshots
<1>4. CASE Open
  BY <1>1, <1>4 DEF Open
<1>5. CASE Loaded
  BY <1>1, <1>5 DEF Loaded
<1>6. CASE Reopened
  BY <1>1, <1>6, VerifiedIs DEF Reopened, StartLoading
<1>7. ASSUME NEW p \in Path, NEW v \in View, Change(p, v) PROVE Snapshots'
  BY <1>1, <1>7 DEF Change, Snapshots
<1>8. CASE Collected
  <2>1. \A p \in Path : captured'[p] = NoFile
    BY <1>8 DEF Collected, Snapshots
  <2>2. phase' \in {"collect", "classify"}
    BY <1>8 DEF Collected, StartLoading
  <2> QED BY <2>1, <2>2 DEF Snapshots
<1>9. CASE Preflighted
  <2>1. /\ item \in todo /\ item \in ops /\ opened = identity[item]
        /\ opened \notin seen /\ seen' = seen \cup {opened} /\ todo' = todo \ {item}
        /\ phase = "preflight" /\ UNCHANGED <<phase, after, identity, ops, captured>>
    BY <1>9, VerifiedIs DEF Preflighted
  <2>2. /\ \A p \in ops \ todo : identity[p] \in seen
        /\ \A p, q \in ops \ todo : p # q => identity[p] # identity[q]
    BY <2>1 DEF Snapshots, Distinct
  <2>3. ops \ todo' = (ops \ todo) \cup {item}
    BY <2>1
  <2>4. \A p \in ops \ todo' : identity[p] \in seen'
    BY <2>1, <2>2, <2>3
  <2>5. \A p, q \in ops \ todo' : p # q => identity[p] # identity[q]
    BY <2>1, <2>2, <2>3
  <2> QED BY <2>1, <2>4, <2>5 DEF Snapshots, Distinct
<1>f. CASE Fail
  BY <1>f DEF Fail, Snapshots
<1> QED BY <1>2, <1>3, <1>4, <1>5, <1>6, <1>7, <1>8, <1>9, <1>f

(* Steps from one pass to the next.                                        *)
LEMMA SnapshotsPasses ==
    ASSUME Typed, Snapshots, Classify \/ PreflightDone \/ Password \/ Read
    PROVE  Snapshots'
<1> USE DEF environment, knowledge, history, Goto, Step
<1>1. ASSUME UNCHANGED <<identity, captured, ops>>,
             NEW r \in {"begin", "read"}, Preflight(ops, r), Distinct(ops),
             phase \in {"password", "preflight"}
      PROVE  Snapshots'
  BY <1>1 DEF Preflight, StartLoading, Snapshots, Distinct
<1>2. CASE Classify
  <2>1. \A p \in Path : captured'[p] = NoFile
    BY <1>2 DEF Classify, Snapshots
  <2>2. \/ phase' = "preflight" /\ after' = "password" /\ todo' = ops'
        \/ phase' = "done"
    BY <1>2 DEF Classify, Preflight, StartLoading
  <2> QED BY <2>1, <2>2 DEF Snapshots, Distinct
<1>3. CASE PreflightDone
  <2>1. Distinct(ops)
    BY <1>3 DEF PreflightDone, Snapshots, Distinct
  <2>2. phase = "preflight" /\ UNCHANGED <<item, opened, identity, ops, captured>>
    BY <1>3 DEF PreflightDone
  <2>3. CASE after = "begin"
    BY <1>1, <1>3, <2>1, <2>2, <2>3 DEF PreflightDone
  <2>4. CASE after # "begin"
    <3>1. phase' \in {"password", "read", "done"} /\ pc' # "load"
      BY <1>3, <2>4, PassOver
    <3> QED BY <2>1, <2>2, <3>1 DEF Snapshots, Distinct
  <2> QED BY <2>3, <2>4
<1>4. CASE Password
  BY <1>1, <1>4 DEF Password, Snapshots
<1>5. CASE Read
  <2>1. /\ phase = "read" /\ item \in ops /\ item \in Path
        /\ opened = identity[item] /\ opened \notin StateFile /\ Distinct(ops)
    BY <1>5 DEF Read, Typed, TypeOK, Snapshots
  <2>2. /\ UNCHANGED <<identity, ops>> /\ captured' = [captured EXCEPT ![item] = opened]
        /\ phase' = "preflight" /\ todo' = ops
    BY <1>5 DEF Read, Preflight, StartLoading
  <2>3. \A p \in Path : captured'[p] = IF p = item THEN opened ELSE captured[p]
    BY <2>2 DEF Typed, TypeOK
  <2>4. \A p \in Path : captured'[p] # NoFile =>
            p \in ops /\ captured'[p] = identity[p] /\ captured'[p] \notin StateFile
    BY <2>1, <2>3 DEF Snapshots
  <2> QED BY <2>1, <2>2, <2>4 DEF Snapshots, Distinct
<1> QED BY <1>2, <1>3, <1>4, <1>5

(* What is captured is one snapshot of each file.                          *)
LEMMA OneSnapshotNext ==
    ASSUME Typed, Snapshots, OneSnapshotEach, Next, Snapshots'
    PROVE  OneSnapshotEach'
<1>1. CASE Read
  <2>1. Distinct(ops) /\ UNCHANGED <<identity, ops>>
    BY <1>1 DEF Read, Snapshots
  <2>2. \A p \in Path : captured'[p] # NoFile =>
            p \in ops /\ captured'[p] = identity[p] /\ captured'[p] \notin StateFile
    BY <2>1 DEF Snapshots
  <2>3. \A p, q \in Path : captured'[p] # NoFile /\ captured'[q] # NoFile /\ p # q
            => captured'[p] # captured'[q]
    BY <2>1, <2>2 DEF Distinct
  <2>4. \A p, q \in Path : captured'[p] # NoFile /\ q # p => captured'[q] # captured'[p]
    BY <2>3
  <2> QED BY <2>1, <2>2, <2>4 DEF OneSnapshotEach
<1>2. CASE Collected
  BY <1>2 DEF Collected, Snapshots, OneSnapshotEach
<1>3. CASE UNCHANGED <<identity, captured>>
  BY <1>3 DEF OneSnapshotEach
<1>4. ASSUME NEW p \in Path, CheckName(p) \/ Load(p) PROVE UNCHANGED <<identity, captured>>
  BY <1>4 DEF CheckName, Load, knowledge
<1>5. ASSUME NEW p \in Path, NEW v \in View, Change(p, v) PROVE UNCHANGED <<identity, captured>>
  BY <1>5 DEF Change, knowledge
<1>6. CASE Open \/ Classify \/ Loaded \/ Preflighted \/ PreflightDone \/ Password \/ Reopened \/ Fail
  BY <1>3, <1>6 DEF Open, Classify, Loaded, Preflighted, PreflightDone, Password, Reopened,
     Fail, knowledge
<1> QED BY <1>1, <1>2, <1>3, <1>4, <1>5, <1>6 DEF Next

-----------------------------------------------------------------------------
(* What was seen                                                           *)

(* The initial state is in order.                                          *)
LEMMA CurrentInit == Init => Current /\ Aliased
<1> SUFFICES ASSUME Init PROVE Current /\ Aliased
    OBVIOUS
<1>1. \A p \in Path : view[p].file \in lately[p].file /\ view[p].place \in lately[p].place
  BY NowIs DEF Init
<1> QED BY <1>1 DEF Init, Current, Aliased

(* At the start of a preflight nothing has been seen again.                *)
LEMMA CurrentPreflight ==
    ASSUME Typed, NEW c, NEW r, Preflight(c, r), ops' = c, UNCHANGED view
    PROVE  Current'
<1>1. \A p \in Path : view'[p].file \in lately'[p].file /\ view'[p].place \in lately'[p].place
  BY NowIs DEF Preflight, Typed, TypeOK
<1>2. phase' = "preflight" /\ pc' = "load" /\ todo' = ops'
  BY DEF Preflight, StartLoading, Goto
<1> QED BY <1>1, <1>2 DEF Current

(* Steps of add within a pass.                                             *)
LEMMA CurrentSteps ==
    ASSUME Typed, Current,
           \/ \E p \in Path : CheckName(p) \/ Load(p)
           \/ Open \/ Collected \/ Loaded \/ Preflighted \/ Reopened \/ Fail
    PROVE  Current'
<1> USE DEF environment, knowledge, history, Goto, Step
<1>1. ASSUME NEW p \in Path, CheckName(p) PROVE Current'
  <2>1. "outside" \in lately[p].place
    BY <1>1 DEF CheckName, Current
  <2> QED BY <1>1, <2>1 DEF CheckName, Current, SeenAgain
<1>2. ASSUME NEW p \in Path, Load(p) PROVE Current'
  BY <1>2 DEF Load, Current, SeenAgain
<1>3. CASE Open
  <2>1. opened' \in lately[item].file
    BY <1>3 DEF Open, Current, Typed, TypeOK
  <2> QED BY <1>3, <2>1 DEF Open, Current, SeenAgain
<1>4. CASE Collected
  <2>1. phase' \in {"collect", "classify"} /\ UNCHANGED <<view, lately>>
    BY <1>4 DEF Collected, StartLoading
  <2> QED BY <2>1 DEF Current
<1>5. CASE Loaded
  BY <1>5 DEF Loaded, Current, SeenAgain
<1>6. CASE Preflighted
  <2>1. /\ item \in todo /\ item \in ops /\ opened = identity[item]
        /\ todo' = todo \ {item} /\ phase = "preflight" /\ pc = "verify" /\ pc' = "name"
        /\ UNCHANGED <<phase, view, lately, identity, ops>>
    BY <1>6, VerifiedIs DEF Preflighted, Verified
  <2>2. SeenAgain(item)
    BY <2>1 DEF Current, SeenAgain
  <2>3. \A p \in ops \ todo' : SeenAgain(p)
    BY <2>1, <2>2 DEF Current
  <2> QED BY <2>1, <2>3 DEF Current, SeenAgain
<1>7. CASE Reopened
  BY <1>7 DEF Reopened, StartLoading, Current, SeenAgain
<1>8. CASE Fail
  BY <1>8 DEF Fail, Current
<1> QED BY <1>1, <1>2, <1>3, <1>4, <1>5, <1>6, <1>7, <1>8

(* Steps from one pass to the next, and other programs.                    *)
LEMMA CurrentPasses ==
    ASSUME Typed, Current,
           \/ Classify \/ PreflightDone \/ Password \/ Read
           \/ \E p \in Path, v \in View : Change(p, v)
    PROVE  Current'
<1> USE DEF environment, knowledge, history, Goto, Step
<1>1. CASE Classify
  <2>1. CASE Preflight(ops', "password")
    BY <1>1, <2>1, CurrentPreflight DEF Classify
  <2>2. CASE phase' = "done" /\ UNCHANGED <<view, lately>>
    BY <2>2 DEF Current
  <2> QED BY <1>1, <2>1, <2>2 DEF Classify
<1>2. CASE PreflightDone
  <2>1. CASE after = "begin"
    BY <1>2, <2>1, CurrentPreflight DEF PreflightDone
  <2>2. CASE after # "begin"
    <3>1. phase' \in {"password", "read", "done"}
      BY <1>2, <2>2, PassOver
    <3>2. \A p \in ops : SeenAgain(p)
      BY <1>2 DEF PreflightDone, Current
    <3>3. UNCHANGED <<view, lately, identity, ops>>
      BY <1>2, <2>2 DEF PreflightDone
    <3> QED BY <3>1, <3>2, <3>3 DEF Current, SeenAgain
  <2> QED BY <2>1, <2>2
<1>3. CASE Password
  BY <1>3, CurrentPreflight DEF Password
<1>4. CASE Read
  BY <1>4, CurrentPreflight DEF Read
<1>5. ASSUME NEW p \in Path, NEW v \in View, Change(p, v) PROVE Current'
  <2>1. /\ \A q \in Path : lately[q].file \subseteq lately'[q].file
                           /\ lately[q].place \subseteq lately'[q].place
        /\ v.file \in lately'[p].file /\ v.place \in lately'[p].place
    BY <1>5 DEF Change, Typed, TypeOK
  <2>2. \A q \in Path : view'[q] = IF q = p THEN v ELSE view[q]
    BY <1>5 DEF Change, Typed, TypeOK
  <2>3. UNCHANGED <<phase, pc, todo, item, opened, identity, ops>>
    BY <1>5 DEF Change
  <2>4. ops \subseteq Path /\ item \in Path
    BY DEF Typed, TypeOK
  <2>5. \A q \in Path : view'[q].file \in lately'[q].file /\ view'[q].place \in lately'[q].place
    BY <2>1, <2>2 DEF Current
  <2>6. \A q \in ops : SeenAgain(q) => SeenAgain(q)'
    BY <2>1, <2>3, <2>4 DEF SeenAgain
  <2> QED BY <2>1, <2>3, <2>4, <2>5, <2>6 DEF Current
<1> QED BY <1>1, <1>2, <1>3, <1>4, <1>5

(* Aliases are only what has been all the time.                            *)
LEMMA AliasedNext ==
    ASSUME Typed, Aliased, Next
    PROVE  Aliased'
<1> USE DEF environment, knowledge, history, Goto, Step
<1>1. CASE /\ UNCHANGED <<view, managed, aliases>>
           /\ phase' = "read" => pc' # "load"
  BY <1>1 DEF Aliased
<1>2. ASSUME NEW p \in Path, CheckName(p) PROVE Aliased'
  BY <1>1, <1>2 DEF CheckName
<1>3. ASSUME NEW m \in Path, Load(m) PROVE Aliased'
  <2>1. /\ UNCHANGED <<view, managed, aliases, phase, pc>> /\ unlisted' = unlisted \ {m}
        /\ known' = known \cup Identities(view, {m}) /\ m \in managed
    BY <1>3 DEF Load, Typed, TypeOK
  <2>2. \A a \in aliases : a[1] = m => a \in Identities(view, {m})
    BY DEF Aliased, Identities
  <2> QED BY <2>1, <2>2 DEF Aliased
<1>4. CASE Open
  BY <1>4 DEF Open, Aliased
<1>5. CASE Reopened
  <2>1. \A a \in aliases : a[1] \in managed
    BY IdentitiesAre DEF Aliased, Typed, TypeOK
  <2> QED BY <1>5, <2>1 DEF Reopened, StartLoading, Aliased
<1>6. CASE Collected \/ Classify \/ Password \/ Read
  BY <1>1, <1>6 DEF Collected, Classify, Password, Read, StartLoading, Preflight
<1>7. CASE PreflightDone
  BY <1>1, <1>7, PassOver DEF PreflightDone, Preflight, StartLoading
<1>8. CASE Loaded \/ Preflighted \/ Fail
  BY <1>1, <1>8 DEF Loaded, Preflighted, Fail
<1>9. ASSUME NEW p \in Path, NEW v \in View, Change(p, v) PROVE Aliased'
  BY <1>9 DEF Change, Aliased
<1> QED BY <1>2, <1>3, <1>4, <1>5, <1>6, <1>7, <1>8, <1>9 DEF Next

-----------------------------------------------------------------------------
(* The invariant                                                           *)

(* The initial state satisfies the invariant.                              *)
LEMMA InvInit == Init => Inv
<1>1. Init => Snapshots /\ OneSnapshotEach
  BY DEF Init, Snapshots, OneSnapshotEach
<1> QED BY <1>1, TypedInit, CurrentInit DEF Inv

(* Every step keeps the invariant.                                         *)
LEMMA InvNext == Inv /\ [Next]_vars => Inv'
<1> SUFFICES ASSUME Inv, [Next]_vars PROVE Inv'
    OBVIOUS
<1>1. Typed'
  BY TypedNext DEF Inv
<1>2. CASE UNCHANGED vars
  <2>1. UNCHANGED <<view, changes, managed, phase, pc, todo, item, opened, after,
                    identity, unlisted, known, seen, ops, captured, lately, aliases>>
    BY <1>2 DEF vars, environment, knowledge, history
  <2>2. Snapshots' /\ OneSnapshotEach'
    BY <2>1 DEF Inv, Snapshots, Distinct, OneSnapshotEach
  <2>3. Current' /\ Aliased'
    BY <2>1 DEF Inv, Current, SeenAgain, Aliased, Identities
  <2> QED BY <1>1, <2>2, <2>3 DEF Inv
<1>3. CASE Next
  <2>1. Snapshots'
    BY <1>3, SnapshotsSteps, SnapshotsPasses DEF Inv, Next
  <2>2. Current'
    BY <1>3, CurrentSteps, CurrentPasses DEF Inv, Next
  <2> QED BY <1>1, <1>3, <2>1, <2>2, OneSnapshotNext, AliasedNext DEF Inv
<1> QED BY <1>2, <1>3

(* The invariant holds in every reachable state.                           *)
LEMMA Invariance == Spec => []Inv
BY InvInit, InvNext, PTL DEF Spec

-----------------------------------------------------------------------------
(* Every nonempty set of numbers has a least element.                      *)
LEMMA Least ==
    ASSUME NEW T \in SUBSET Nat, T # {}
    PROVE  \E x \in T : \A y \in T : x =< y
<1>1. PICK x \in T : \A y \in T : <<y, x>> \notin OpToRel(<, Nat)
  BY NatLessThanWellFounded, WFMin, Zenon
<1>2. \A y \in Nat : y < x => <<y, x>> \in OpToRel(<, Nat)
  BY DEF OpToRel
<1>3. \A y \in T : ~(y < x)
  BY <1>1, <1>2, Zenon
<1> QED BY <1>3

-----------------------------------------------------------------------------
(* The command line: SusuCommandLine                                       *)

(* What holds of a process at each step: where --sensitive stood becomes a *)
(* flag or a path, nothing is printed before the report, and the report is *)
(* a prefix of what it has to say.                                         *)
ProcessTyped ==
    /\ CommandLine!TypeOK
    /\ argv # <<>> /\ (at = "Call" \/ call # "none") => argv[1] \in CommandLine!Commands

Asked ==
    /\ (at = "Call" \/ call # "none") /\ argv # <<>> /\ argv[1] = "add" =>
          \A i \in DOMAIN argv : argv[i] = "--sensitive" =>
              sensitive \/ \E j \in DOMAIN operands : operands[j] = "--sensitive"
    /\ call # "none" => call = CommandLine!Command
    /\ call = "add" /\ ~CommandLine!AllExist => result["added"] = 0

Reported ==
    /\ at \in {"Start", "Dispatch", "Call"} =>
          call = "none" /\ printed = <<>> /\ ~broken /\ ~failed /\ status = 0
    /\ at = "Report" =>
          /\ ~broken /\ status = 0
          /\ Len(printed) <= Len(CommandLine!Lines(result))
          /\ printed = SubSeq(CommandLine!Lines(result), 1, Len(printed))
    /\ CommandLine!StatusTellsAll

ProcessInv == ProcessTyped /\ Asked /\ Reported

LEMMA GroupsAre ==
    CommandLine!Range(CommandLine!Groups) = {"added", "updated", "already managed"}
<1>1. /\ DOMAIN CommandLine!Groups = {1, 2, 3} /\ CommandLine!Groups[1] = "added"
      /\ CommandLine!Groups[2] = "updated" /\ CommandLine!Groups[3] = "already managed"
  BY DEF CommandLine!Groups
<1> QED BY <1>1, Zenon DEF CommandLine!Range

LEMMA ArgumentsAre ==
    ASSUME NEW a \in CommandLine!SeqOf(Words, MaxArgs)
    PROVE  a \in Seq(Words)
<1>1. PICK m \in 0..MaxArgs : a \in [1..m -> Words]
  BY DEF CommandLine!SeqOf
<1> QED BY <1>1, CommandLineAssumption

LEMMA LinesAre ==
    ASSUME NEW r \in [CommandLine!Range(CommandLine!Groups) -> 0..MaxDone]
    PROVE  CommandLine!Lines(r) \in Seq(CommandLine!Range(CommandLine!Groups))
<1> DEFINE G == CommandLine!Range(CommandLine!Groups)
<1>1. ASSUME NEW g \in G PROVE CommandLine!LinesOf(r, g) \in Seq(G)
  BY CommandLineAssumption DEF CommandLine!LinesOf
<1>2. {"added", "updated", "already managed"} = G
  BY GroupsAre
<1>3. ASSUME NEW x \in Seq(G), NEW y \in Seq(G) PROVE x \o y \in Seq(G)
  OBVIOUS
<1> HIDE DEF G
<1>4. /\ CommandLine!LinesOf(r, "added") \in Seq(G)
      /\ CommandLine!LinesOf(r, "updated") \in Seq(G)
      /\ CommandLine!LinesOf(r, "already managed") \in Seq(G)
  BY <1>1, <1>2
<1>5. CommandLine!Lines(r) \in Seq(G)
  BY <1>3, <1>4 DEF CommandLine!Lines
<1> QED BY <1>5 DEF G

(* Rest is the index of the first argument after the flags.                *)
LEMMA RestIs ==
    ASSUME argv \in Seq(Words), argv # <<>>
    PROVE  /\ CommandLine!Rest \in 2..(Len(argv) + 1)
           /\ \A j \in 2..(CommandLine!Rest - 1) : CommandLine!IsFlag(argv[j])
           /\ CommandLine!Rest <= Len(argv) =>
                 ~CommandLine!IsFlag(argv[CommandLine!Rest])
<1> DEFINE T == {i \in 2..(Len(argv) + 1) : i <= Len(argv) => ~CommandLine!IsFlag(argv[i])}
<1>1. Len(argv) + 1 \in T /\ T \in SUBSET Nat
  OBVIOUS
<1>2. PICK x \in T : \A y \in T : x =< y
  BY <1>1, Least
<1>3. \A j \in 2..(x - 1) : CommandLine!IsFlag(argv[j])
  BY <1>2
<1> QED BY <1>2, <1>3 DEF CommandLine!Rest

(* The arguments after the flags are the operands.                         *)
LEMMA OperandsAre ==
    ASSUME argv \in Seq(Words), argv # <<>>
    PROVE  /\ CommandLine!Operands \in Seq(Words)
           /\ \A i \in DOMAIN argv :
                 argv[i] = "--sensitive" /\ i # 1 =>
                    \/ "--sensitive" \in CommandLine!Flags
                    \/ \E j \in DOMAIN CommandLine!Operands :
                          CommandLine!Operands[j] = "--sensitive"
<1> DEFINE first == IF CommandLine!Rest <= Len(argv) /\ argv[CommandLine!Rest] = "--"
                    THEN CommandLine!Rest + 1 ELSE CommandLine!Rest
<1>1. first \in 2..(Len(argv) + 2) /\ (first = Len(argv) + 2 => FALSE)
  BY RestIs
<1>2. CommandLine!Operands = SubSeq(argv, first, Len(argv))
  BY DEF CommandLine!Operands
<1>3. CommandLine!Rest \in Nat /\ (first = CommandLine!Rest \/
          (first = CommandLine!Rest + 1 /\ argv[CommandLine!Rest] = "--"))
  BY RestIs
<1> HIDE DEF first
<1>4. CommandLine!Operands \in Seq(Words)
  BY <1>1, <1>2
<1>5. ASSUME NEW i \in DOMAIN argv, argv[i] = "--sensitive", i # 1, i >= first
      PROVE  \E j \in DOMAIN CommandLine!Operands :
                CommandLine!Operands[j] = "--sensitive"
  <2>1. i - first + 1 \in 1..(Len(argv) - first + 1)
    BY <1>1, <1>5
  <2>2. Len(CommandLine!Operands) = Len(argv) - first + 1
        /\ CommandLine!Operands[i - first + 1] = argv[i]
    BY <1>1, <1>2, <1>5, <2>1
  <2>3. i - first + 1 \in DOMAIN CommandLine!Operands
    BY <1>4, <2>1, <2>2
  <2> QED BY <1>5, <2>2, <2>3
<1>6. ASSUME NEW i \in DOMAIN argv, argv[i] = "--sensitive", i # 1, i < first
      PROVE  "--sensitive" \in CommandLine!Flags
  <2>1. i < CommandLine!Rest
    BY <1>1, <1>3, <1>6
  <2> QED BY <1>3, <1>6, <2>1 DEF CommandLine!Flags
<1> QED BY <1>1, <1>4, <1>5, <1>6

LEMMA ProcessInit == CommandLine!Init => ProcessInv
<1> SUFFICES ASSUME CommandLine!Init PROVE ProcessInv
  OBVIOUS
<1>1. argv \in Seq(Words)
  BY ArgumentsAre DEF CommandLine!Init
<1>2. result \in [CommandLine!Range(CommandLine!Groups) -> 0..MaxDone] /\ result["added"] = 0
  <2> DEFINE G == CommandLine!Range(CommandLine!Groups)
  <2>1. result = [g \in G |-> 0]
    BY Zenon DEF CommandLine!Init, CommandLine!Nothing
  <2>2. "added" \in G
    BY GroupsAre
  <2>3. 0 \in 0..MaxDone
    BY CommandLineAssumption
  <2> HIDE DEF G
  <2>4. result \in [G -> 0..MaxDone] /\ result["added"] = 0
    BY <2>1, <2>2, <2>3
  <2> QED BY <2>4 DEF G
<1>3. ProcessTyped
  <2>1. <<>> \in Seq(CommandLine!Range(CommandLine!Groups)) /\ <<>> \in Seq(Words)
    OBVIOUS
  <2>2. at = "Start" /\ call = "none" /\ status = 0 /\ home \in BOOLEAN
        /\ sensitive \in BOOLEAN /\ failed \in BOOLEAN /\ broken \in BOOLEAN
        /\ operands = <<>> /\ printed = <<>>
    BY DEF CommandLine!Init
  <2> QED BY <1>1, <1>2, <2>1, <2>2 DEF ProcessTyped, CommandLine!TypeOK
<1>4. Asked
  BY <1>1, <1>2 DEF CommandLine!Init, Asked
<1>5. Reported
  BY DEF CommandLine!Init, Reported, CommandLine!StatusTellsAll
<1> QED BY <1>3, <1>4, <1>5 DEF ProcessInv

(* Steps that end a process before it calls the service, or begin nothing. *)
LEMMA ProcessEarly ==
    ASSUME ProcessInv, at \in {"Start", "Dispatch", "Call"},
           UNCHANGED <<argv, home, sensitive, operands, call, result, failed,
                       printed, broken>>,
           \/ at' = "Dispatch" /\ status' = status
           \/ at' = "Exited" /\ status' \in 0..1
    PROVE  ProcessInv'
<1>1. ProcessTyped'
  BY DEF ProcessInv, ProcessTyped, CommandLine!TypeOK, CommandLine!Command
<1>2. Asked'
  BY DEF ProcessInv, Asked, Reported, CommandLine!AllExist
<1>3. Reported'
  BY DEF ProcessInv, Reported, CommandLine!StatusTellsAll
<1> QED BY <1>1, <1>2, <1>3 DEF ProcessInv

LEMMA ProcessDispatch ==
    ASSUME ProcessInv, CommandLine!Dispatch
    PROVE  ProcessInv'
<1> USE DEF CommandLine!parsed, CommandLine!service, CommandLine!Fails,
            CommandLine!Succeeds, CommandLine!Exit
<1>0. argv \in Seq(Words) /\ at = "Dispatch" /\ operands \in Seq(Words)
  BY DEF ProcessInv, ProcessTyped, CommandLine!TypeOK, CommandLine!Dispatch
<1>1. CASE CommandLine!Fails \/ CommandLine!Succeeds
  BY <1>0, <1>1, ProcessEarly
<1>2. CASE argv = <<>> /\ at' = "Call" /\ UNCHANGED <<argv, home, sensitive, operands, call,
                              result, failed, printed, broken, status>>
  <2>1. ProcessTyped'
    BY <1>2 DEF ProcessInv, ProcessTyped, CommandLine!TypeOK, CommandLine!Command
  <2>2. Asked' /\ Reported'
    BY <1>0, <1>2 DEF ProcessInv, Asked, Reported, CommandLine!StatusTellsAll
  <2> QED BY <2>1, <2>2 DEF ProcessInv
<1>3. CASE /\ argv # <<>> /\ argv[1] \in CommandLine!Commands
           /\ CommandLine!Arity(argv[1], Len(CommandLine!Operands))
           /\ operands' = CommandLine!Operands
           /\ sensitive' = ("--sensitive" \in CommandLine!Flags)
           /\ at' = "Call"
           /\ UNCHANGED <<argv, home, call, result, failed, printed, broken, status>>
  <2>1. operands' \in Seq(Words)
    BY <1>0, <1>3, OperandsAre
  <2>2. /\ argv[1] \in {"init", "show"} => Len(operands') = 1
        /\ argv[1] \in {"apply", "ls"} => Len(operands') = 0
    BY <1>3 DEF CommandLine!Arity
  <2>3. ProcessTyped'
    <3>1. sensitive' \in BOOLEAN
      BY <1>3
    <3>2. Len(operands') = 0 => operands' = <<>>
      BY <2>1
    <3> QED BY <1>3, <2>1, <2>2, <3>1, <3>2
            DEF ProcessInv, ProcessTyped, CommandLine!TypeOK, CommandLine!Command
  <2>4. Asked'
    <3>1. call = "none"
      BY <1>0 DEF ProcessInv, Reported
    <3>2. \A i \in DOMAIN argv : argv[1] = "add" /\ argv[i] = "--sensitive" =>
              sensitive' \/ \E j \in DOMAIN operands' : operands'[j] = "--sensitive"
      BY <1>0, <1>3, OperandsAre
    <3> QED BY <1>3, <3>1, <3>2 DEF Asked
  <2>5. Reported'
    BY <1>0, <1>3 DEF ProcessInv, Reported, CommandLine!StatusTellsAll
  <2> QED BY <2>3, <2>4, <2>5 DEF ProcessInv
<1> QED BY <1>1, <1>2, <1>3 DEF CommandLine!Dispatch

LEMMA ProcessCall ==
    ASSUME ProcessInv, CommandLine!Call
    PROVE  ProcessInv'
<1>1. /\ at = "Call" /\ at' = "Report" /\ call' = CommandLine!Command
      /\ result' \in [CommandLine!Range(CommandLine!Groups) -> 0..MaxDone]
      /\ failed' \in BOOLEAN
      /\ CommandLine!Command = "add" /\ ~CommandLine!AllExist
            => result' = CommandLine!Nothing
      /\ UNCHANGED <<argv, home, sensitive, operands, printed, broken, status>>
  BY DEF CommandLine!Call, CommandLine!parsed
<1>2. CommandLine!Command \in CommandLine!Commands \union {"overview"}
  BY <1>1 DEF ProcessInv, ProcessTyped, CommandLine!Command
<1>3. ProcessTyped'
  BY <1>1, <1>2 DEF ProcessInv, ProcessTyped, CommandLine!TypeOK, CommandLine!Command
<1>4. CommandLine!Nothing["added"] = 0
  BY GroupsAre DEF CommandLine!Nothing
<1>5. Asked'
  BY <1>1, <1>4 DEF ProcessInv, Asked, CommandLine!AllExist, CommandLine!Command
<1>6. printed = <<>> /\ ~broken /\ status = 0
  BY <1>1 DEF ProcessInv, Reported
<1>7. /\ Len(printed') <= Len(CommandLine!Lines(result'))
      /\ printed' = SubSeq(CommandLine!Lines(result'), 1, Len(printed'))
  <2>1. CommandLine!Lines(result') \in Seq(CommandLine!Range(CommandLine!Groups))
    BY <1>1, LinesAre
  <2>2. printed' = <<>>
    BY <1>1, <1>6
  <2> HIDE DEF CommandLine!Lines
  <2> QED BY <2>1, <2>2
<1>8. Reported'
  BY <1>1, <1>6, <1>7 DEF Reported, CommandLine!Lines, CommandLine!LinesOf, CommandLine!StatusTellsAll
<1> QED BY <1>3, <1>5, <1>8 DEF ProcessInv

(* The script of a shell is printed; no call is made.                      *)
LEMMA ProcessCompletion ==
    ASSUME ProcessInv, CommandLine!Completion
    PROVE  ProcessInv'
<1>1. at = "Call"
  BY DEF CommandLine!Completion
<1>2. CASE CommandLine!Fails
  BY <1>1, <1>2, ProcessEarly
     DEF CommandLine!Fails, CommandLine!Exit, CommandLine!parsed, CommandLine!service
<1>3. CASE ~CommandLine!Fails
  <2>1. /\ at' = "Report" /\ result' = [CommandLine!Nothing EXCEPT !["added"] = 1]
        /\ UNCHANGED <<argv, home, sensitive, operands, call, failed, printed, broken,
                       status>>
    BY <1>3 DEF CommandLine!Completion, CommandLine!parsed
  <2> DEFINE G == CommandLine!Range(CommandLine!Groups)
  <2>2. CommandLine!Nothing = [g \in G |-> 0]
    BY Zenon DEF CommandLine!Nothing
  <2>3. 0 \in 0..MaxDone /\ 1 \in 0..MaxDone
    BY CommandLineAssumption
  <2> HIDE DEF G
  <2>4. result' \in [G -> 0..MaxDone]
    BY <2>1, <2>2, <2>3
  <2>5. ProcessTyped'
    BY <2>1, <2>4 DEF G, ProcessInv, ProcessTyped, CommandLine!TypeOK, CommandLine!Command
  <2>6. call = "none" /\ printed = <<>> /\ ~broken /\ status = 0
    BY <1>1 DEF ProcessInv, Reported
  <2>7. Asked'
    BY <1>1, <2>1, <2>6 DEF ProcessInv, Asked
  <2>8. CommandLine!Lines(result') \in Seq(G)
    BY <2>4, LinesAre DEF G
  <2>9. /\ Len(printed') <= Len(CommandLine!Lines(result'))
        /\ printed' = SubSeq(CommandLine!Lines(result'), 1, Len(printed'))
    <3>1. printed' = <<>>
      BY <2>1, <2>6
    <3> HIDE DEF CommandLine!Lines
    <3> QED BY <2>8, <3>1
  <2>10. Reported'
    BY <2>1, <2>6, <2>9
       DEF Reported, CommandLine!Lines, CommandLine!LinesOf, CommandLine!StatusTellsAll
  <2> QED BY <2>5, <2>7, <2>10 DEF ProcessInv
<1> QED BY <1>2, <1>3

(* Lines of the report are written until one fails, then the process ends. *)
LEMMA ProcessReport ==
    ASSUME ProcessInv, CommandLine!Report
    PROVE  ProcessInv'
<1> DEFINE G == CommandLine!Range(CommandLine!Groups)
           all == CommandLine!Lines(result)
<1>1. all \in Seq(G) /\ printed \in Seq(G)
  BY LinesAre DEF ProcessInv, ProcessTyped, CommandLine!TypeOK
<1>2. /\ at = "Report" /\ ~broken /\ status = 0
      /\ Len(printed) <= Len(all) /\ printed = SubSeq(all, 1, Len(printed))
      /\ call # "none" => call = CommandLine!Command
  BY DEF ProcessInv, Reported, Asked, CommandLine!Report
<1>3. UNCHANGED <<argv, home, sensitive, operands, call, result, failed>>
  BY DEF CommandLine!Report, CommandLine!parsed, CommandLine!service
<1>4. all' = all
  BY <1>3 DEF CommandLine!Lines, CommandLine!LinesOf
<1> HIDE DEF G, all
<1>5. Asked'
  <2>1. at' # "Call"
    BY <1>2 DEF CommandLine!Report, CommandLine!Exit
  <2> QED BY <1>2, <1>3, <2>1 DEF ProcessInv, Asked, CommandLine!AllExist, CommandLine!Command
<1>6. ASSUME printed' \in Seq(G), at' \in {"Report", "Exited"},
             broken' \in BOOLEAN, status' \in 0..1
      PROVE  ProcessTyped'
  BY <1>2, <1>3, <1>6
     DEF ProcessInv, ProcessTyped, CommandLine!TypeOK, CommandLine!Command, G
<1>7. broken \in BOOLEAN /\ failed \in BOOLEAN
  BY DEF ProcessInv, ProcessTyped, CommandLine!TypeOK
<1>8. CASE /\ Len(printed) < Len(all) /\ printed' = SubSeq(all, 1, Len(printed) + 1)
           /\ UNCHANGED <<at, broken, status>>
  <2>1. /\ printed' \in Seq(G) /\ Len(printed') <= Len(all)
        /\ printed' = SubSeq(all, 1, Len(printed'))
    BY <1>1, <1>8
  <2>2. Reported'
    BY <1>2, <1>4, <1>8, <2>1 DEF Reported, CommandLine!StatusTellsAll, all
  <2> QED BY <1>2, <1>5, <1>6, <1>7, <1>8, <2>1, <2>2 DEF ProcessInv
<1>9. CASE broken' = TRUE /\ at' = "Exited" /\ status' = 1 /\ UNCHANGED printed
  <2>1. Reported'
    BY <1>9 DEF Reported, CommandLine!StatusTellsAll
  <2> QED BY <1>1, <1>5, <1>6, <1>9, <2>1 DEF ProcessInv
<1>10. CASE /\ Len(printed) = Len(all)
            /\ at' = "Exited" /\ status' = (IF failed THEN 1 ELSE 0)
            /\ UNCHANGED <<printed, broken>>
  <2>1. printed = all
    BY <1>1, <1>2, <1>10
  <2>2. Reported'
    BY <1>2, <1>3, <1>4, <1>7, <1>10, <2>1 DEF Reported, CommandLine!StatusTellsAll, all
  <2> QED BY <1>1, <1>5, <1>6, <1>7, <1>10, <2>2 DEF ProcessInv
<1> QED BY <1>8, <1>9, <1>10 DEF CommandLine!Report, CommandLine!Exit, all

LEMMA ProcessNext == ProcessInv /\ [CommandLine!Next]_(CommandLine!vars) => ProcessInv'
<1> SUFFICES ASSUME ProcessInv, [CommandLine!Next]_(CommandLine!vars) PROVE ProcessInv'
  OBVIOUS
<1>1. CASE UNCHANGED CommandLine!vars
  <2>1. UNCHANGED <<argv, home, at, sensitive, operands, call, result, failed, printed,
                    broken, status>>
    BY <1>1 DEF CommandLine!vars
  <2> QED BY <2>1 DEF ProcessInv, ProcessTyped, Asked, Reported, CommandLine!TypeOK,
               CommandLine!Command, CommandLine!AllExist, CommandLine!StatusTellsAll,
               CommandLine!Lines, CommandLine!LinesOf
<1>2. CASE CommandLine!Help
  BY <1>2, ProcessEarly DEF CommandLine!Help, CommandLine!Succeeds, CommandLine!Exit,
     CommandLine!parsed, CommandLine!service
<1>3. CASE CommandLine!Environment
  BY <1>3, ProcessEarly DEF CommandLine!Environment, CommandLine!Fails, CommandLine!Exit,
     CommandLine!parsed, CommandLine!service
<1> QED BY <1>1, <1>2, <1>3, ProcessDispatch, ProcessCall, ProcessCompletion,
           ProcessReport DEF CommandLine!Next

LEMMA ProcessInvariance == CommandLine!Spec => []ProcessInv
BY ProcessInit, ProcessNext, PTL DEF CommandLine!Spec

-----------------------------------------------------------------------------
(* The boundary: SusuBoundary                                              *)

(* The nodes are a tree: whatever is closed under directories contains the *)
(* top. Names are distinct in each directory.                              *)
Tree ==
    /\ parent \in [Boundary!Movable -> Boundary!Directories]
    /\ name \in [Boundary!Movable -> DOMAIN Fold]
    /\ target \in [Boundary!Links -> Targets] /\ folds \in BOOLEAN
    /\ \A C \in SUBSET Boundary!Node :
          C # {} /\ (\A n \in C \ {Top} : parent[n] \in C) => Top \in C
    /\ \A n \in Boundary!Movable : Boundary!Children(parent[n], name[n]) = {n}

(* Induction up to a bound.                                                *)
LEMMA UpTo ==
    ASSUME NEW k \in Nat, NEW S, 0 \in S, \A i \in 0..k : i \in S /\ i < k => i + 1 \in S
    PROVE  0..k \subseteq S
<1> SUFFICES ASSUME (0..k) \ S # {} PROVE FALSE
  OBVIOUS
<1>1. PICK x \in (0..k) \ S : \A y \in (0..k) \ S : x =< y
  <2>1. (0..k) \ S \in SUBSET Nat
    OBVIOUS
  <2> QED BY <2>1, Least
<1>2. x - 1 \in 0..k /\ x - 1 \in S
  BY <1>1
<1> QED BY <1>1, <1>2

LEMMA SameCardinality == \A S : Boundary!Cardinality(S) = Cardinality(S)
  BY DEF Boundary!Cardinality, Cardinality

LEMMA NodesAre ==
    /\ Boundary!Movable = Boundary!Node \ {Top}
    /\ Top \in Boundary!Directories /\ Boundary!Directories \subseteq Boundary!Node
    /\ Boundary!Links \cap Boundary!Directories = {}
    /\ Boundary!Links \subseteq Boundary!Node /\ Boundary!Regular \subseteq Boundary!Node
    /\ "missing" \notin Boundary!Node /\ "notdir" \notin Boundary!Node
    /\ Boundary!Failures = {"missing", "notdir"}
    /\ Cardinality(Boundary!Node) \in Nat /\ IsFiniteSet(Boundary!Node)
    /\ Protected \cup {StateDir} \subseteq Boundary!Directories
    /\ Targets \subseteq Seq(DOMAIN Fold) /\ Paths \subseteq Seq(DOMAIN Fold)
<1>1. IsFiniteSet(Boundary!Node)
  BY BoundaryAssumption DEF Boundary!Node
<1>2. Cardinality(Boundary!Node) \in Nat
  BY <1>1, FS_CardinalityType
<1> QED BY <1>1, <1>2, BoundaryAssumption
        DEF Boundary!Node, Boundary!Movable, Boundary!Directories, Boundary!Links,
            Boundary!Regular, Boundary!Failures

(* The function that Above defines exists.                                 *)
IsAbove(g, x, k) ==
    g = [i \in 0..k |-> IF i = 0 THEN x ELSE IF g[i - 1] = Top THEN Top ELSE parent[g[i - 1]]]

LEMMA AboveExists ==
    ASSUME NEW k \in Nat, NEW x
    PROVE  \E g : IsAbove(g, x, k)
<1> DEFINE Next1(y) == IF y = Top THEN Top ELSE parent[y]
           Is(g, j) == g = [i \in 0..j |-> IF i = 0 THEN x ELSE Next1(g[i - 1])]
           S == {j \in 0..k : \E g : Is(g, j)}
<1>1. 0 \in S
  <2> DEFINE g == [i \in 0..0 |-> x]
  <2> HIDE DEF Next1
  <2>1. g = [i \in 0..0 |-> IF i = 0 THEN x ELSE Next1(g[i - 1])]
    OBVIOUS
  <2> HIDE DEF g
  <2> QED BY <2>1
<1>2. ASSUME NEW j \in 0..k, j \in S, j < k PROVE j + 1 \in S
  <2>1. PICK g : Is(g, j)
    BY <1>2
  <2> DEFINE h == [i \in 0..(j + 1) |-> IF i <= j THEN g[i] ELSE Next1(g[j])]
  <2> HIDE DEF Next1
  <2>2. \A i \in 0..j : h[i] = g[i]
    OBVIOUS
  <2>3. h[0] = x
    BY <2>1, <2>2
  <2>4. \A i \in 1..j : h[i] = Next1(h[i - 1])
    <3> HIDE DEF h
    <3>1. \A i \in 1..j : g[i] = Next1(g[i - 1])
      BY <2>1
    <3> QED BY <2>2, <3>1
  <2>5. h[j + 1] = Next1(h[j])
    BY <2>2
  <2>6. \A i \in 0..(j + 1) : h[i] = IF i = 0 THEN x ELSE Next1(h[i - 1])
    <3> HIDE DEF h
    <3> QED BY <2>3, <2>4, <2>5
  <2>7. h = [i \in 0..(j + 1) |-> h[i]]
    OBVIOUS
  <2> HIDE DEF h
  <2>8. [i \in 0..(j + 1) |-> h[i]]
           = [i \in 0..(j + 1) |-> IF i = 0 THEN x ELSE Next1(h[i - 1])]
    BY <2>6
  <2>9. Is(h, j + 1)
    BY <2>7, <2>8
  <2> QED BY <1>2, <2>9
<1>3. 0..k \subseteq S
  <2> HIDE DEF S
  <2> QED BY <1>1, <1>2, UpTo
<1>4. PICK g : Is(g, k)
  BY <1>3
<1>5. IsAbove(g, x, k)
  BY <1>4 DEF IsAbove
<1> QED BY <1>5

(* The directories above a node, one after the other.                      *)
LEMMA AboveIs ==
    ASSUME NEW x
    PROVE  LET K == Cardinality(Boundary!Node) IN
           /\ Boundary!Above(x)[0] = x
           /\ \A i \in 1..K : Boundary!Above(x)[i]
                 = IF Boundary!Above(x)[i - 1] = Top THEN Top ELSE parent[Boundary!Above(x)[i - 1]]
<1> DEFINE K == Cardinality(Boundary!Node)
           w == Boundary!Above(x)
<1>1. K \in Nat
  BY NodesAre
<1> HIDE DEF K
<1>2. IsAbove(w, x, K)
  <2>1. \E g : IsAbove(g, x, K)
    BY <1>1, AboveExists
  <2>2. w = CHOOSE g : IsAbove(g, x, K)
    <3>1. K = Boundary!Cardinality(Boundary!Node)
      BY SameCardinality DEF K
    <3> QED BY <3>1, Zenon DEF Boundary!Above, IsAbove
  <2> HIDE DEF w
  <2> QED BY <2>1, <2>2, Zenon
<1> HIDE DEF w
<1>3. w[0] = x
  BY <1>1, <1>2 DEF IsAbove
<1>4. \A i \in 1..K : w[i] = IF w[i - 1] = Top THEN Top ELSE parent[w[i - 1]]
  <2> SUFFICES ASSUME NEW i \in 1..K
               PROVE  w[i] = IF w[i - 1] = Top THEN Top ELSE parent[w[i - 1]]
    OBVIOUS
  <2>1. i \in 0..K /\ i # 0
    BY <1>1
  <2> QED BY <1>2, <2>1 DEF IsAbove
<1> QED BY <1>3, <1>4 DEF w, K

(* They are nodes, and once at the top stay there.                         *)
LEMMA AboveNodes ==
    ASSUME Tree, NEW n \in Boundary!Node
    PROVE  LET K == Cardinality(Boundary!Node) IN
           /\ \A i \in 0..K : Boundary!Above(n)[i] \in Boundary!Node
           /\ \A i, j \in 0..K : i <= j /\ Boundary!Above(n)[i] = Top => Boundary!Above(n)[j] = Top
<1> DEFINE K == Cardinality(Boundary!Node)
           w == Boundary!Above(n)
<1>1. K \in Nat
  BY NodesAre
<1>2. w[0] = n /\ \A i \in 1..K : w[i] = IF w[i - 1] = Top THEN Top ELSE parent[w[i - 1]]
  BY AboveIs
<1>3. \A m \in Boundary!Node \ {Top} : parent[m] \in Boundary!Node
  BY NodesAre DEF Tree
<1>4. Top \in Boundary!Node
  BY NodesAre
<1> HIDE DEF w, K
<1> DEFINE S == {i \in 0..K : w[i] \in Boundary!Node}
<1>5. 0..K \subseteq S
  <2>1. 0 \in S
    BY <1>1, <1>2
  <2>2. ASSUME NEW i \in 0..K, i \in S, i < K PROVE i + 1 \in S
    <3>1. i + 1 \in 1..K /\ (i + 1) - 1 = i /\ i + 1 \in 0..K
      BY <1>1, <2>2
    <3>2. w[i + 1] = IF w[i] = Top THEN Top ELSE parent[w[i]]
      BY <1>2, <3>1
    <3> QED BY <1>3, <1>4, <2>2, <3>1, <3>2
  <2> HIDE DEF S
  <2> QED BY <1>1, <2>1, <2>2, UpTo
<1>6. ASSUME NEW i \in 0..K, NEW j \in 0..K, i <= j, w[i] = Top PROVE w[j] = Top
  <2> DEFINE T == {l \in 0..K : i <= l => w[l] = Top}
  <2>1. 0 \in T
    BY <1>1, <1>6
  <2>2. ASSUME NEW l \in 0..K, l \in T, l < K PROVE l + 1 \in T
    <3>1. l + 1 \in 1..K /\ (l + 1) - 1 = l /\ l + 1 \in 0..K
      BY <1>1, <2>2
    <3>2. w[l + 1] = IF w[l] = Top THEN Top ELSE parent[w[l]]
      BY <1>2, <3>1
    <3>3. CASE i <= l
      BY <2>2, <3>1, <3>2, <3>3
    <3>4. CASE i = l + 1
      BY <1>6, <3>1, <3>4
    <3>5. CASE i > l + 1
      BY <3>1, <3>5
    <3> QED BY <2>2, <3>3, <3>4, <3>5
  <2>3. 0..K \subseteq T
    <3> HIDE DEF T
    <3> QED BY <1>1, <2>1, <2>2, UpTo
  <2> QED BY <1>6, <2>3
<1> QED BY <1>5, <1>6 DEF w, K

(* The top is above every node: a way that does not end within as many     *)
(* steps as there are nodes comes to a node twice, and never ends.         *)
LEMMA TopAbove ==
    ASSUME Tree, NEW n \in Boundary!Node
    PROVE  \E i \in 0..Cardinality(Boundary!Node) : Boundary!Above(n)[i] = Top
<1> DEFINE K == Cardinality(Boundary!Node)
           w == Boundary!Above(n)
<1>1. K \in Nat
  BY NodesAre
<1>2. \A i \in 0..K : w[i] \in Boundary!Node
  BY AboveNodes
<1>3. \A i \in 1..K : w[i] = IF w[i - 1] = Top THEN Top ELSE parent[w[i - 1]]
  BY AboveIs
<1> HIDE DEF w, K
<1> SUFFICES ASSUME \A i \in 0..K : w[i] # Top PROVE FALSE
  BY DEF w, K
<1>4. \A i \in 1..K : w[i] = parent[w[i - 1]]
  <2> SUFFICES ASSUME NEW i \in 1..K PROVE w[i] = parent[w[i - 1]]
    OBVIOUS
  <2>1. i - 1 \in 0..K
    BY <1>1
  <2> QED BY <1>3, <2>1
<1>5. PICK i \in 0..K, j \in 0..K : i < j /\ w[i] = w[j]
  <2> DEFINE f == [l \in 0..K |-> w[l]]
             S == 0..K
  <2>1. f \in [S -> Boundary!Node]
    BY <1>2
  <2>2. IsFiniteSet(S) /\ Cardinality(S) = K + 1
    <3>1. 0 \in Int /\ K \in Int /\ ~(0 > K) /\ K - 0 + 1 = K + 1
      BY <1>1
    <3> QED BY <3>1, FS_Interval
  <2>3. IsFiniteSet(Boundary!Node) /\ Cardinality(Boundary!Node) < K + 1
    BY <1>1, NodesAre DEF K
  <2>4. \E x, y \in S : x # y /\ f[x] = f[y]
    <3> HIDE DEF f, S
    <3> QED BY <2>1, <2>2, <2>3, FS_PigeonHole
  <2>5. PICK x \in 0..K, y \in 0..K : x # y /\ w[x] = w[y]
    BY <2>4
  <2>6. CASE x < y
    BY <2>5, <2>6
  <2>7. CASE y < x
    BY <2>5, <2>7
  <2> QED BY <1>1, <2>5, <2>6, <2>7
<1> DEFINE C == {w[l] : l \in i..(j - 1)}
<1>6. C \in SUBSET Boundary!Node /\ C # {}
  <2>1. \A l \in i..(j - 1) : l \in 0..K
    BY <1>1
  <2>2. i \in i..(j - 1)
    BY <1>1, <1>5
  <2> QED BY <1>2, <2>1, <2>2
<1>7. ASSUME NEW m \in C PROVE parent[m] \in C
  <2>1. PICK l \in i..(j - 1) : m = w[l]
    BY <1>7
  <2>2. l + 1 \in 1..K /\ (l + 1) - 1 = l
    BY <1>1, <2>1
  <2>3. parent[m] = w[l + 1]
    BY <1>4, <2>1, <2>2
  <2>4. CASE l + 1 = j
    <3>1. i \in i..(j - 1)
      BY <1>1, <1>5
    <3> QED BY <1>5, <2>3, <2>4, <3>1
  <2>5. CASE l + 1 # j
    <3>1. l + 1 \in i..(j - 1)
      BY <1>1, <2>1, <2>5
    <3> QED BY <2>3, <3>1
  <2> QED BY <2>4, <2>5
<1>8. Top \notin C
  <2>1. \A l \in i..(j - 1) : l \in 0..K
    BY <1>1
  <2> QED BY <2>1
<1> HIDE DEF C
<1> QED BY <1>6, <1>7, <1>8 DEF Tree

(* A node's ancestors are the least set with the node that is closed under *)
(* directories.                                                            *)
LEMMA AncestorsAre ==
    ASSUME Tree, NEW n \in Boundary!Node
    PROVE  LET A == Boundary!Ancestors(n) IN
           /\ A \subseteq Boundary!Node /\ n \in A /\ Top \in A
           /\ \A m \in A \ {Top} : parent[m] \in A
           /\ \A C : n \in C /\ (\A m \in C \ {Top} : parent[m] \in C) => A \subseteq C
<1> DEFINE K == Cardinality(Boundary!Node)
           w == Boundary!Above(n)
           A == Boundary!Ancestors(n)
<1>1. K \in Nat
  BY NodesAre
<1>2. /\ \A i \in 0..K : w[i] \in Boundary!Node
      /\ \A i, j \in 0..K : i <= j /\ w[i] = Top => w[j] = Top
      /\ w[0] = n /\ \A i \in 1..K : w[i] = IF w[i - 1] = Top THEN Top ELSE parent[w[i - 1]]
  BY AboveNodes, AboveIs
<1>3. A = {w[i] : i \in 0..K}
  BY SameCardinality DEF Boundary!Ancestors
<1>4. PICK t \in 0..K : w[t] = Top
  BY TopAbove
<1> HIDE DEF w, K, A
<1>5. A \subseteq Boundary!Node /\ n \in A /\ Top \in A
  <2>1. 0 \in 0..K
    BY <1>1
  <2> QED BY <1>2, <1>3, <1>4, <2>1
<1>6. ASSUME NEW m \in A \ {Top} PROVE parent[m] \in A
  <2>1. PICK i \in 0..K : m = w[i]
    BY <1>3
  <2>2. i < K
    BY <1>1, <1>2, <1>4, <1>6, <2>1
  <2>3. i + 1 \in 1..K /\ (i + 1) - 1 = i /\ i + 1 \in 0..K
    BY <1>1, <2>1, <2>2
  <2>4. w[i + 1] = parent[m]
    BY <1>2, <1>6, <2>1, <2>3
  <2> QED BY <1>3, <2>3, <2>4
<1>7. ASSUME NEW C, n \in C, \A m \in C \ {Top} : parent[m] \in C PROVE A \subseteq C
  <2> DEFINE S == {i \in 0..K : w[i] \in C}
  <2>1. 0 \in S
    BY <1>1, <1>2, <1>7
  <2>2. ASSUME NEW i \in 0..K, i \in S, i < K PROVE i + 1 \in S
    <3>1. i + 1 \in 1..K /\ (i + 1) - 1 = i /\ i + 1 \in 0..K
      BY <1>1, <2>2
    <3>2. w[i + 1] = IF w[i] = Top THEN Top ELSE parent[w[i]]
      BY <1>2, <3>1
    <3> QED BY <1>7, <2>2, <3>1, <3>2
  <2>3. 0..K \subseteq S
    <3> HIDE DEF S
    <3> QED BY <1>1, <2>1, <2>2, UpTo
  <2> QED BY <1>3, <2>3
<1> QED BY <1>5, <1>6, <1>7 DEF A

(* What holds of the top and passes from directories to what is in them    *)
(* holds of every node.                                                    *)
LEMMA TreeInduction ==
    ASSUME Tree, NEW S, Top \in S, \A n \in Boundary!Movable : parent[n] \in S => n \in S
    PROVE  Boundary!Node \subseteq S
<1> DEFINE C == Boundary!Node \ S
<1>1. \A n \in C \ {Top} : parent[n] \in C
  BY NodesAre DEF Tree
<1>2. Top \notin C /\ C \in SUBSET Boundary!Node
  OBVIOUS
<1>3. C = {}
  <2> HIDE DEF C
  <2> QED BY <1>1, <1>2 DEF Tree
<1> QED BY <1>3

(* The path of a node is that of its directory and its name.               *)
LEMMA PathOfIs ==
    ASSUME Tree
    PROVE  /\ Boundary!PathOf(Top) = <<>>
           /\ \A n \in Boundary!Movable :
                 Boundary!PathOf(parent[n]) \in Seq(DOMAIN Fold) =>
                    Boundary!PathOf(n) = Append(Boundary!PathOf(parent[n]), name[n])
<1> DEFINE K == Cardinality(Boundary!Node)
           D(n) == Boundary!Depth(n)
           w(n) == Boundary!Above(n)
           IsDepth(n, i) == w(n)[i] = Top /\ \A j \in 0..(i - 1) : w(n)[j] # Top
<1>1. K \in Nat
  BY NodesAre
<1>2. \A n : D(n) = CHOOSE i \in 0..K : IsDepth(n, i)
  <2>1. K = Boundary!Cardinality(Boundary!Node)
    BY SameCardinality
  <2> HIDE DEF K
  <2> QED BY <2>1, Zenon DEF Boundary!Depth
<1>3. \A n : /\ w(n)[0] = n
             /\ \A i \in 1..K : w(n)[i] = IF w(n)[i - 1] = Top THEN Top ELSE parent[w(n)[i - 1]]
  BY AboveIs
<1>4. \A n \in Boundary!Node : \E i \in 0..K : w(n)[i] = Top
  BY TopAbove
<1>5. \A n : Boundary!PathOf(n) = [j \in 1..D(n) |-> name[w(n)[D(n) - j]]]
  BY DEF Boundary!PathOf
<1> HIDE DEF K, D, w
(* The depth is the least number of steps to the top.                      *)
<1>6. ASSUME NEW n \in Boundary!Node PROVE D(n) \in 0..K /\ IsDepth(n, D(n))
  <2> DEFINE T == {i \in 0..K : w(n)[i] = Top}
  <2>1. PICK x \in T : \A y \in T : x <= y
    <3>1. T \in SUBSET Nat /\ T # {}
      BY <1>1, <1>4
    <3> HIDE DEF T
    <3> QED BY <3>1, Least
  <2>2. \E i \in 0..K : IsDepth(n, i)
    BY <1>1, <2>1
  <2> HIDE DEF IsDepth
  <2> QED BY <1>2, <2>2
<1>7. ASSUME NEW n \in Boundary!Node, NEW i \in 0..K, IsDepth(n, i) PROVE D(n) = i
  <2>1. D(n) \in 0..K /\ IsDepth(n, D(n))
    BY <1>6
  <2> QED BY <1>1, <1>7, <2>1
<1>8. Boundary!PathOf(Top) = <<>>
  <2>1. D(Top) = 0
    <3>1. Top \in Boundary!Node /\ 0 \in 0..K /\ IsDepth(Top, 0)
      BY <1>1, <1>3, NodesAre
    <3> QED BY <1>7, <3>1
  <2> QED BY <1>5, <2>1
<1>9. ASSUME NEW n \in Boundary!Movable, Boundary!PathOf(parent[n]) \in Seq(DOMAIN Fold)
      PROVE  Boundary!PathOf(n) = Append(Boundary!PathOf(parent[n]), name[n])
  <2> DEFINE p == parent[n]
             d == D(n) - 1
  <2>1. n \in Boundary!Node /\ n # Top /\ p \in Boundary!Node
    BY NodesAre DEF Tree
  <2>2. D(n) \in 0..K /\ IsDepth(n, D(n))
    BY <1>6, <2>1
  <2>3. D(n) \in 1..K /\ d \in 0..K
    BY <1>1, <1>3, <2>1, <2>2
  <2>4. w(n)[0] = n /\ w(p)[0] = p
    BY <1>3
  <2> DEFINE S == {i \in 0..d : w(p)[i] = w(n)[i + 1]}
  <2>5. 0..d \subseteq S
    <3>1. 0 \in S
      <4>1. 0 \in 0..d /\ 1 \in 1..K /\ 1 - 1 = 0 /\ 0 + 1 = 1
        BY <1>1, <2>3
      <4>2. w(n)[1] = p
        BY <1>3, <2>1, <2>4, <4>1
      <4> QED BY <2>4, <4>1, <4>2
    <3>2. ASSUME NEW i \in 0..d, i \in S, i < d PROVE i + 1 \in S
      <4>1. /\ i + 1 \in 1..K /\ (i + 1) - 1 = i /\ i + 1 \in 0..d
            /\ (i + 1) + 1 \in 1..K /\ ((i + 1) + 1) - 1 = i + 1
        BY <1>1, <2>3, <3>2
      <4>2. w(p)[i] = w(n)[i + 1]
        BY <3>2
      <4>3. w(p)[i + 1] = IF w(p)[i] = Top THEN Top ELSE parent[w(p)[i]]
        BY <1>3, <4>1
      <4>4. w(n)[(i + 1) + 1] = IF w(n)[i + 1] = Top THEN Top ELSE parent[w(n)[i + 1]]
        BY <1>3, <4>1
      <4> QED BY <4>1, <4>2, <4>3, <4>4
    <3>3. d \in Nat
      BY <1>1, <2>3
    <3> HIDE DEF S, d
    <3> QED BY <3>1, <3>2, <3>3, UpTo
  <2>6. D(p) = d
    <3>1. w(p)[d] = Top
      <4>1. d \in 0..d /\ d + 1 = D(n)
        BY <1>1, <2>3
      <4> QED BY <2>2, <2>5, <4>1
    <3>2. ASSUME NEW j \in 0..(d - 1) PROVE w(p)[j] # Top
      <4>1. j \in 0..d /\ j + 1 \in 0..(D(n) - 1)
        BY <1>1, <2>3
      <4> QED BY <2>2, <2>5, <4>1
    <3> QED BY <1>7, <2>1, <2>3, <3>1, <3>2
  <2> DEFINE s == Boundary!PathOf(p)
             t == Boundary!PathOf(n)
             a == Append(s, name[n])
  <2>7. s = [j \in 1..d |-> name[w(p)[d - j]]] /\ t = [j \in 1..(d + 1) |-> name[w(n)[(d + 1) - j]]]
    <3>1. D(n) = d + 1
      BY <1>1, <2>3
    <3> QED BY <1>5, <2>6, <3>1
  <2>8. Len(s) = d
    <3>1. DOMAIN s = 1..Len(s) /\ Len(s) \in Nat /\ d \in Nat
      BY <1>1, <1>9, <2>3, LenProperties
    <3>2. DOMAIN s = 1..d
      BY <2>7
    <3>3. \A x, y \in Nat : 1..x = 1..y => x = y
      <4> SUFFICES ASSUME NEW x \in Nat, NEW y \in Nat, 1..x = 1..y, x # y PROVE FALSE
        OBVIOUS
      <4>1. CASE x < y
        <5>1. y \in 1..y
          BY <4>1
        <5> QED BY <4>1, <5>1
      <4>2. CASE y < x
        <5>1. x \in 1..x
          BY <4>2
        <5> QED BY <4>2, <5>1
      <4> QED BY <4>1, <4>2
    <3> HIDE DEF s, d
    <3> QED BY <3>1, <3>2, <3>3
  <2>9. a \in Seq(DOMAIN Fold) /\ Len(a) = d + 1
        /\ \A j \in 1..(d + 1) : a[j] = IF j <= d THEN s[j] ELSE name[n]
    <3>1. s \in Seq(DOMAIN Fold) /\ name[n] \in DOMAIN Fold
      BY <1>9 DEF Tree
    <3>2. /\ Append(s, name[n]) \in Seq(DOMAIN Fold) /\ Len(Append(s, name[n])) = Len(s) + 1
          /\ \A j \in 1..Len(s) : Append(s, name[n])[j] = s[j]
          /\ Append(s, name[n])[Len(s) + 1] = name[n]
      <4> HIDE DEF s
      <4> QED BY <3>1, AppendProperties
    <3>3. d \in Nat
      BY <1>1, <2>3
    <3> HIDE DEF s, d
    <3> QED BY <2>8, <3>2, <3>3
  <2>10. a = [j \in 1..(d + 1) |-> a[j]]
    <3>1. a \in [1..Len(a) -> DOMAIN Fold]
      BY <2>9, LenProperties
    <3> HIDE DEF a, d
    <3> QED BY <2>9, <3>1
  <2>11. ASSUME NEW j \in 1..(d + 1) PROVE a[j] = name[w(n)[(d + 1) - j]]
    <3>1. d \in Nat
      BY <1>1, <2>3
    <3>2. CASE j <= d
      <4>1. d - j \in 0..d /\ (d - j) + 1 = (d + 1) - j /\ j \in 1..d
        BY <3>1, <3>2
      <4>2. w(p)[d - j] = w(n)[(d - j) + 1]
        BY <2>5, <4>1
      <4>3. s[j] = name[w(p)[d - j]]
        BY <2>7, <4>1
      <4> QED BY <2>9, <3>2, <4>1, <4>2, <4>3
    <3>3. CASE j = d + 1
      <4>1. (d + 1) - j = 0 /\ ~(j <= d)
        BY <3>1, <3>3
      <4> QED BY <2>4, <2>9, <4>1
    <3>4. j <= d \/ j = d + 1
      BY <3>1
    <3> QED BY <3>2, <3>3, <3>4
  <2> HIDE DEF a, d
  <2>12. a = t
    BY <2>7, <2>10, <2>11
  <2> QED BY <2>12 DEF a
<1> QED BY <1>8, <1>9

(* What the components of a path lead to: a node, or a failure.            *)
Found == Boundary!Node \cup Boundary!Failures

LEMMA SameIs ==
    /\ \A a : Boundary!Same(a, a)
    /\ \A a, b : Boundary!Same(a, b) => Boundary!Same(b, a)
    /\ \A a, b, c : Boundary!Same(a, b) /\ Boundary!Same(b, c) => Boundary!Same(a, c)
  BY DEF Boundary!Same

(* A directory has one entry by each name, in whatever case.               *)
LEMMA EntryIs ==
    ASSUME Tree, NEW dir \in Found, NEW n
    PROVE  /\ Boundary!Entry(dir, n) \in Boundary!Movable \cup Boundary!Failures
           /\ Boundary!Entry(dir, n) \in Found
           /\ dir \in Boundary!Failures => Boundary!Entry(dir, n) = dir
           /\ Boundary!Entry(dir, n) \in Boundary!Node =>
                 /\ dir \in Boundary!Directories
                 /\ parent[Boundary!Entry(dir, n)] = dir
                 /\ Boundary!Same(name[Boundary!Entry(dir, n)], n)
           /\ \A c \in Boundary!Movable :
                 parent[c] = dir /\ Boundary!Same(name[c], n) => Boundary!Entry(dir, n) = c
<1> DEFINE e == Boundary!Entry(dir, n)
           Ch == Boundary!Children(dir, n)
<1>1. Ch = {c \in Boundary!Movable : parent[c] = dir /\ Boundary!Same(name[c], n)}
  BY DEF Boundary!Children
<1>2. e = IF dir \in Boundary!Failures THEN dir
          ELSE IF dir \notin Boundary!Directories THEN "notdir"
          ELSE IF Ch = {} THEN "missing" ELSE CHOOSE c \in Ch : TRUE
  BY DEF Boundary!Entry
<1>3. Ch # {} => (CHOOSE c \in Ch : TRUE) \in Ch
  OBVIOUS
<1>4. Boundary!Failures \cap Boundary!Node = {} /\ {"missing", "notdir"} \subseteq Boundary!Failures
  BY NodesAre
<1>5. Boundary!Movable \subseteq Boundary!Node
  BY NodesAre
<1> HIDE DEF e, Ch
<1>6. e \in Boundary!Movable \cup Boundary!Failures
  BY <1>1, <1>2, <1>3, <1>4
<1>7. e \in Found
  BY <1>5, <1>6 DEF Found
<1>8. e \in Boundary!Node =>
         dir \in Boundary!Directories /\ parent[e] = dir /\ Boundary!Same(name[e], n)
  BY <1>1, <1>2, <1>3, <1>4
<1>9. ASSUME NEW c \in Boundary!Movable, parent[c] = dir, Boundary!Same(name[c], n)
      PROVE  e = c
  <2>1. dir \in Boundary!Directories /\ dir \notin Boundary!Failures
    BY <1>4, <1>9, NodesAre DEF Tree
  <2>2. c \in Ch
    BY <1>1, <1>9
  <2>3. e \in Ch
    BY <1>2, <1>3, <2>1, <2>2
  <2>4. e \in Boundary!Movable /\ parent[e] = dir /\ Boundary!Same(name[e], n)
    BY <1>1, <2>3
  <2>5. Boundary!Same(name[e], name[c])
    BY <1>9, <2>4, SameIs
  <2>6. e \in Boundary!Children(parent[c], name[c])
    BY <1>9, <2>4, <2>5 DEF Boundary!Children
  <2>7. Boundary!Children(parent[c], name[c]) = {c}
    BY <1>9 DEF Tree
  <2> QED BY <2>6, <2>7
<1>10. dir \in Boundary!Failures => e = dir
  BY <1>2
<1> QED BY <1>6, <1>7, <1>8, <1>9, <1>10 DEF e

(* The function that recursion along a path defines exists.                *)
Recurs(g, k, D, x, F) ==
    g \in [0..k -> D] /\ g[0] = x /\ \A i \in 1..k : g[i] = F[i][g[i - 1]]

LEMMA Recursion ==
    ASSUME NEW k \in Nat, NEW D, NEW x \in D, NEW F \in [1..k -> [D -> D]]
    PROVE  \E g : Recurs(g, k, D, x, F)
<1> DEFINE Is(g, j) == g \in [0..j -> D] /\ g[0] = x /\ \A i \in 1..j : g[i] = F[i][g[i - 1]]
           S == {j \in 0..k : \E g : Is(g, j)}
<1>1. 0 \in S
  <2> DEFINE g == [i \in 0..0 |-> x]
  <2>1. Is(g, 0)
    OBVIOUS
  <2> HIDE DEF g
  <2> QED BY <2>1
<1>2. ASSUME NEW j \in 0..k, j \in S, j < k PROVE j + 1 \in S
  <2>1. PICK g : Is(g, j)
    BY <1>2
  <2> DEFINE h == [i \in 0..(j + 1) |-> IF i <= j THEN g[i] ELSE F[j + 1][g[j]]]
  <2>2. \A i \in 0..j : h[i] = g[i]
    OBVIOUS
  <2>3. h[j + 1] = F[j + 1][g[j]] /\ j \in 0..j /\ j + 1 \in 1..k
    BY <1>2
  <2>4. F[j + 1][g[j]] \in D
    BY <2>1, <2>3
  <2>5. h \in [0..(j + 1) -> D]
    BY <2>1, <2>4
  <2> HIDE DEF h
  <2>6. h[0] = x
    BY <2>1, <2>2
  <2>7. ASSUME NEW i \in 1..(j + 1) PROVE h[i] = F[i][h[i - 1]]
    <3>1. CASE i = j + 1
      BY <2>2, <2>3, <3>1
    <3>2. CASE i # j + 1
      <4>1. i \in 1..j /\ i \in 0..j /\ i - 1 \in 0..j
        BY <3>2
      <4> QED BY <2>1, <2>2, <4>1
    <3> QED BY <3>1, <3>2
  <2>8. Is(h, j + 1)
    BY <2>5, <2>6, <2>7
  <2> QED BY <1>2, <2>8
<1>3. 0..k \subseteq S
  <2> HIDE DEF S
  <2> QED BY <1>1, <1>2, UpTo
<1>4. k \in S
  BY <1>3
<1> QED BY <1>4 DEF Recurs

(* What the prefixes of a path lead to, links left alone.                  *)
IsStraight(g, path) ==
    g = [i \in 0..Len(path) |-> IF i = 0 THEN Top ELSE Boundary!Entry(g[i - 1], path[i])]

LEMMA StraightIs ==
    ASSUME Tree, NEW path, Len(path) \in Nat
    PROVE  /\ Boundary!Straight(path)[0] = Top
           /\ \A i \in 1..Len(path) : Boundary!Straight(path)[i]
                 = Boundary!Entry(Boundary!Straight(path)[i - 1], path[i])
           /\ \A i \in 0..Len(path) : Boundary!Straight(path)[i] \in Found
<1> DEFINE k == Len(path)
           w == Boundary!Straight(path)
           F == [i \in 1..k |-> [a \in Found |-> Boundary!Entry(a, path[i])]]
<1>1. Top \in Found
  BY NodesAre DEF Found
<1>2. F \in [1..k -> [Found -> Found]]
  BY EntryIs
<1>3. \E g : IsStraight(g, path)
  <2>0. PICK g : Recurs(g, k, Found, Top, F)
    <3>1. k \in Nat
      OBVIOUS
    <3> HIDE DEF F, k
    <3> QED BY <1>1, <1>2, <3>1, Recursion
  <2>1. g \in [0..k -> Found] /\ g[0] = Top /\ \A i \in 1..k : g[i] = F[i][g[i - 1]]
    BY <2>0 DEF Recurs
  <2>2. \A i \in 1..k : g[i] = Boundary!Entry(g[i - 1], path[i])
    <3>1. \A i \in 1..k : g[i - 1] \in Found
      BY <2>1
    <3> QED BY <2>1, <3>1
  <2>3. g = [i \in 0..k |-> IF i = 0 THEN Top ELSE Boundary!Entry(g[i - 1], path[i])]
    <3>1. \A i \in 0..k : g[i] = IF i = 0 THEN Top ELSE Boundary!Entry(g[i - 1], path[i])
      BY <2>1, <2>2
    <3>2. g = [i \in 0..k |-> g[i]]
      BY <2>1
    <3> QED BY <3>1, <3>2
  <2> QED BY <2>3 DEF IsStraight
<1>4. IsStraight(w, path)
  <2>1. w = CHOOSE g : IsStraight(g, path)
    BY Zenon DEF Boundary!Straight, IsStraight
  <2> HIDE DEF w
  <2> QED BY <1>3, <2>1, Zenon
<1> HIDE DEF w, F
<1>5. w[0] = Top
  BY <1>4 DEF IsStraight
<1>6. \A i \in 1..k : w[i] = Boundary!Entry(w[i - 1], path[i])
  <2> SUFFICES ASSUME NEW i \in 1..k PROVE w[i] = Boundary!Entry(w[i - 1], path[i])
    OBVIOUS
  <2>1. i \in 0..k /\ i # 0
    OBVIOUS
  <2> QED BY <1>4, <2>1 DEF IsStraight
<1>7. \A i \in 0..k : w[i] \in Found
  <2> DEFINE S == {i \in 0..k : w[i] \in Found}
  <2>1. 0 \in S
    BY <1>1, <1>5
  <2>2. ASSUME NEW i \in 0..k, i \in S, i < k PROVE i + 1 \in S
    <3>1. i + 1 \in 1..k /\ (i + 1) - 1 = i /\ i + 1 \in 0..k
      BY <2>2
    <3> QED BY <1>6, <2>2, <3>1, EntryIs
  <2>3. 0..k \subseteq S
    <3> HIDE DEF S
    <3> QED BY <2>1, <2>2, UpTo
  <2> QED BY <2>3
<1> QED BY <1>5, <1>6, <1>7 DEF w

LEMMA FollowIs ==
    ASSUME Tree, NEW e \in Found
    PROVE  /\ Boundary!Follow(e) \in Found
           /\ e \notin Boundary!Links => Boundary!Follow(e) = e
           /\ e \in Boundary!Links => /\ Boundary!Follow(e) = Boundary!Lstat(target[e])
                                      /\ target[e] \in Seq(DOMAIN Fold)
           /\ e \in Boundary!Failures => Boundary!Follow(e) = e
<1>1. e \in Boundary!Links => target[e] \in Seq(DOMAIN Fold) /\ Len(target[e]) \in Nat
  BY NodesAre DEF Tree
<1>2. e \in Boundary!Links => Boundary!Lstat(target[e]) \in Found
  BY <1>1, StraightIs DEF Boundary!Lstat
<1>3. e \in Boundary!Failures => e \notin Boundary!Links
  BY NodesAre
<1> QED BY <1>1, <1>2, <1>3 DEF Boundary!Follow

(* The same where links are followed.                                      *)
IsPrefixes(g, path) ==
    g = [i \in 0..Len(path) |->
            IF i = 0 THEN Top ELSE Boundary!Follow(Boundary!Entry(g[i - 1], path[i]))]

LEMMA PrefixesIs ==
    ASSUME Tree, NEW path, Len(path) \in Nat
    PROVE  /\ Boundary!Prefixes(path)[0] = Top
           /\ \A i \in 1..Len(path) : Boundary!Prefixes(path)[i]
                 = Boundary!Follow(Boundary!Entry(Boundary!Prefixes(path)[i - 1], path[i]))
           /\ \A i \in 0..Len(path) : Boundary!Prefixes(path)[i] \in Found
<1> DEFINE k == Len(path)
           w == Boundary!Prefixes(path)
           F == [i \in 1..k |-> [a \in Found |-> Boundary!Follow(Boundary!Entry(a, path[i]))]]
<1>1. Top \in Found
  BY NodesAre DEF Found
<1>2. F \in [1..k -> [Found -> Found]]
  BY EntryIs, FollowIs
<1>3. \E g : IsPrefixes(g, path)
  <2>0. PICK g : Recurs(g, k, Found, Top, F)
    <3>1. k \in Nat
      OBVIOUS
    <3> HIDE DEF F, k
    <3> QED BY <1>1, <1>2, <3>1, Recursion
  <2>1. g \in [0..k -> Found] /\ g[0] = Top /\ \A i \in 1..k : g[i] = F[i][g[i - 1]]
    BY <2>0 DEF Recurs
  <2>2. \A i \in 1..k : g[i] = Boundary!Follow(Boundary!Entry(g[i - 1], path[i]))
    <3>1. \A i \in 1..k : g[i - 1] \in Found
      BY <2>1
    <3> QED BY <2>1, <3>1
  <2>3. g = [i \in 0..k |-> IF i = 0 THEN Top ELSE Boundary!Follow(Boundary!Entry(g[i - 1], path[i]))]
    <3>1. \A i \in 0..k :
             g[i] = IF i = 0 THEN Top ELSE Boundary!Follow(Boundary!Entry(g[i - 1], path[i]))
      BY <2>1, <2>2
    <3>2. g = [i \in 0..k |-> g[i]]
      BY <2>1
    <3> QED BY <3>1, <3>2
  <2> QED BY <2>3 DEF IsPrefixes
<1>4. IsPrefixes(w, path)
  <2>1. w = CHOOSE g : IsPrefixes(g, path)
    BY Zenon DEF Boundary!Prefixes, IsPrefixes
  <2> HIDE DEF w
  <2> QED BY <1>3, <2>1, Zenon
<1> HIDE DEF w, F
<1>5. w[0] = Top
  BY <1>4 DEF IsPrefixes
<1>6. \A i \in 1..k : w[i] = Boundary!Follow(Boundary!Entry(w[i - 1], path[i]))
  <2> SUFFICES ASSUME NEW i \in 1..k
               PROVE  w[i] = Boundary!Follow(Boundary!Entry(w[i - 1], path[i]))
    OBVIOUS
  <2>1. i \in 0..k /\ i # 0
    OBVIOUS
  <2> QED BY <1>4, <2>1 DEF IsPrefixes
<1>7. \A i \in 0..k : w[i] \in Found
  <2> DEFINE S == {i \in 0..k : w[i] \in Found}
  <2>1. 0 \in S
    BY <1>1, <1>5
  <2>2. ASSUME NEW i \in 0..k, i \in S, i < k PROVE i + 1 \in S
    <3>1. i + 1 \in 1..k /\ (i + 1) - 1 = i /\ i + 1 \in 0..k
      BY <2>2
    <3> QED BY <1>6, <2>2, <3>1, EntryIs, FollowIs
  <2>3. 0..k \subseteq S
    <3> HIDE DEF S
    <3> QED BY <2>1, <2>2, UpTo
  <2> QED BY <2>3
<1> QED BY <1>5, <1>6, <1>7 DEF w

(* Sequences of names.                                                     *)
Spelled == Seq(DOMAIN Fold)

LEMMA PrefixIs ==
    ASSUME NEW p \in Spelled, NEW i \in 0..Len(p)
    PROVE  /\ Len(p) \in Nat
           /\ Boundary!Prefix(p, i) \in Spelled /\ Len(Boundary!Prefix(p, i)) = i
           /\ \A j \in 1..i : Boundary!Prefix(p, i)[j] = p[j]
           /\ Boundary!Rest(p, i) \in Spelled /\ Len(Boundary!Rest(p, i)) = Len(p) - i
           /\ \A j \in 1..(Len(p) - i) : Boundary!Rest(p, i)[j] = p[i + j]
           /\ i = Len(p) => Boundary!Prefix(p, i) = p /\ Boundary!Rest(p, i) = <<>>
<1>1. Len(p) \in Nat /\ \A j \in 1..Len(p) : p[j] \in DOMAIN Fold
  BY LenProperties, ElementOfSeq DEF Spelled
<1>2. /\ SubSeq(p, 1, i) \in Spelled
      /\ Len(SubSeq(p, 1, i)) = IF 1 <= i THEN i - 1 + 1 ELSE 0
      /\ \A j \in 1..(i - 1 + 1) : SubSeq(p, 1, i)[j] = p[1 + j - 1]
  <2>1. 1 \in Int /\ i \in Int /\ \A j \in 1..i : p[j] \in DOMAIN Fold
    BY <1>1
  <2> QED BY <2>1, SubSeqProperties DEF Spelled
<1>3. /\ SubSeq(p, i + 1, Len(p)) \in Spelled
      /\ Len(SubSeq(p, i + 1, Len(p))) = IF i + 1 <= Len(p) THEN Len(p) - (i + 1) + 1 ELSE 0
      /\ \A j \in 1..(Len(p) - (i + 1) + 1) : SubSeq(p, i + 1, Len(p))[j] = p[(i + 1) + j - 1]
  <2>1. i + 1 \in Int /\ Len(p) \in Int /\ \A j \in (i + 1)..Len(p) : p[j] \in DOMAIN Fold
    BY <1>1
  <2> QED BY <2>1, SubSeqProperties DEF Spelled
<1>4. i = Len(p) => SubSeq(p, 1, i) = p
  BY SubSeqFull DEF Spelled
<1>5. i = Len(p) => SubSeq(p, i + 1, Len(p)) = <<>>
  <2>1. i + 1 \in Int /\ Len(p) \in Int
    BY <1>1
  <2>2. i = Len(p) => Len(p) < i + 1
    BY <1>1
  <2> QED BY <2>1, <2>2, SubSeqEmpty
<1>6. Boundary!Prefix(p, i) = SubSeq(p, 1, i) /\ Boundary!Rest(p, i) = SubSeq(p, i + 1, Len(p))
  BY DEF Boundary!Prefix, Boundary!Rest
<1>7. /\ Len(SubSeq(p, 1, i)) = i /\ \A j \in 1..i : SubSeq(p, 1, i)[j] = p[j]
  <2>1. (IF 1 <= i THEN i - 1 + 1 ELSE 0) = i /\ i - 1 + 1 = i /\ \A j \in 1..i : 1 + j - 1 = j
    OBVIOUS
  <2> QED BY <1>2, <2>1
<1>8. /\ Len(SubSeq(p, i + 1, Len(p))) = Len(p) - i
      /\ \A j \in 1..(Len(p) - i) : SubSeq(p, i + 1, Len(p))[j] = p[i + j]
  <2>1. /\ (IF i + 1 <= Len(p) THEN Len(p) - (i + 1) + 1 ELSE 0) = Len(p) - i
        /\ Len(p) - (i + 1) + 1 = Len(p) - i
        /\ \A j \in 1..(Len(p) - i) : (i + 1) + j - 1 = i + j
    BY <1>1
  <2> QED BY <1>3, <2>1
<1> QED BY <1>1, <1>2, <1>3, <1>4, <1>5, <1>6, <1>7, <1>8

LEMMA WithinIs ==
    ASSUME NEW r \in Spelled, NEW p \in Spelled
    PROVE  Boundary!Within(r, p) <=> Len(r) <= Len(p) /\ \A j \in 1..Len(r) : r[j] = p[j]
<1>1. Len(r) \in Nat /\ Len(p) \in Nat
  BY LenProperties DEF Spelled
<1>2. ASSUME Len(r) <= Len(p)
      PROVE  /\ Boundary!Prefix(p, Len(r)) \in Spelled /\ Len(Boundary!Prefix(p, Len(r))) = Len(r)
             /\ \A j \in 1..Len(r) : Boundary!Prefix(p, Len(r))[j] = p[j]
  <2>1. Len(r) \in 0..Len(p)
    BY <1>1, <1>2
  <2> QED BY <2>1, PrefixIs
<1>3. ASSUME Len(r) <= Len(p), \A j \in 1..Len(r) : r[j] = p[j]
      PROVE  Boundary!Prefix(p, Len(r)) = r
  BY <1>2, <1>3, SeqEqual DEF Spelled
<1> QED BY <1>2, <1>3 DEF Boundary!Within

LEMMA WithinOrder ==
    /\ \A p \in Spelled : Boundary!Within(p, p)
    /\ \A p, q, r \in Spelled : Boundary!Within(p, q) /\ Boundary!Within(q, r) => Boundary!Within(p, r)
    /\ \A p, q \in Spelled : p \o q \in Spelled /\ Boundary!Within(p, p \o q)
    /\ \A p \in Spelled, n \in DOMAIN Fold :
          Append(p, n) \in Spelled /\ Boundary!Within(p, Append(p, n))
<1>1. \A p \in Spelled : Len(p) \in Nat
  BY LenProperties DEF Spelled
<1>2. \A p \in Spelled : Boundary!Within(p, p)
  BY <1>1, WithinIs
<1>3. ASSUME NEW p \in Spelled, NEW q \in Spelled, NEW r \in Spelled,
             Boundary!Within(p, q), Boundary!Within(q, r)
      PROVE  Boundary!Within(p, r)
  <2>1. Len(p) <= Len(q) /\ \A j \in 1..Len(p) : p[j] = q[j]
    BY <1>3, WithinIs
  <2>2. Len(q) <= Len(r) /\ \A j \in 1..Len(q) : q[j] = r[j]
    BY <1>3, WithinIs
  <2>3. Len(p) <= Len(r) /\ \A j \in 1..Len(p) : p[j] = r[j]
    BY <1>1, <2>1, <2>2
  <2> QED BY <2>3, WithinIs
<1>4. ASSUME NEW p \in Spelled, NEW q \in Spelled
      PROVE  p \o q \in Spelled /\ Boundary!Within(p, p \o q)
  <2>1. /\ p \o q \in Spelled /\ Len(p \o q) = Len(p) + Len(q)
        /\ \A i \in 1..(Len(p) + Len(q)) : (p \o q)[i] = IF i <= Len(p) THEN p[i] ELSE q[i - Len(p)]
    BY ConcatProperties DEF Spelled
  <2>2. Len(p) <= Len(p \o q) /\ \A j \in 1..Len(p) : p[j] = (p \o q)[j]
    BY <1>1, <2>1
  <2> QED BY <2>1, <2>2, WithinIs
<1>5. ASSUME NEW p \in Spelled, NEW n \in DOMAIN Fold
      PROVE  Append(p, n) \in Spelled /\ Boundary!Within(p, Append(p, n))
  <2>1. /\ Append(p, n) \in Spelled /\ Len(Append(p, n)) = Len(p) + 1
        /\ \A i \in 1..Len(p) : Append(p, n)[i] = p[i]
    BY AppendProperties DEF Spelled
  <2>2. Len(p) <= Len(Append(p, n)) /\ \A j \in 1..Len(p) : p[j] = Append(p, n)[j]
    BY <1>1, <2>1
  <2> QED BY <2>1, <2>2, WithinIs
<1> QED BY <1>2, <1>3, <1>4, <1>5

(* The names EvalSymlinks gives the prefixes of a path.                    *)
IsNames(g, path) ==
    g = [i \in 0..Len(path) |->
            IF i = 0 THEN <<>>
            ELSE LET n == Boundary!Entry(Boundary!Prefixes(path)[i - 1], path[i])
                 IN IF n \in Boundary!Links THEN target[n] ELSE Append(g[i - 1], path[i])]

Names(path) == CHOOSE g : IsNames(g, path)

LEMMA NamesIs ==
    ASSUME Tree, NEW path \in Spelled
    PROVE  /\ Boundary!EvalSymlinks(path) = Names(path)[Len(path)]
           /\ Names(path)[0] = <<>>
           /\ \A i \in 1..Len(path) :
                 LET n == Boundary!Entry(Boundary!Prefixes(path)[i - 1], path[i])
                 IN Names(path)[i]
                       = IF n \in Boundary!Links THEN target[n] ELSE Append(Names(path)[i - 1], path[i])
           /\ \A i \in 0..Len(path) : Names(path)[i] \in Spelled
<1> DEFINE k == Len(path)
           w == Names(path)
           E(i) == Boundary!Entry(Boundary!Prefixes(path)[i - 1], path[i])
           F == [i \in 1..k |-> [a \in Spelled |->
                    IF E(i) \in Boundary!Links THEN target[E(i)] ELSE Append(a, path[i])]]
<1>1. k \in Nat /\ <<>> \in Spelled /\ \A i \in 1..k : path[i] \in DOMAIN Fold
  BY LenProperties, ElementOfSeq, EmptySeq DEF Spelled
<1>2. \A n \in Boundary!Links : target[n] \in Spelled
  BY NodesAre DEF Tree, Spelled
<1>3. \A i \in 1..k, a \in Spelled :
         (IF E(i) \in Boundary!Links THEN target[E(i)] ELSE Append(a, path[i])) \in Spelled
  BY <1>1, <1>2, WithinOrder
<1>4. F \in [1..k -> [Spelled -> Spelled]]
  <2> HIDE DEF E
  <2> QED BY <1>3
<1>5. \E g : IsNames(g, path)
  <2>0. PICK g : Recurs(g, k, Spelled, <<>>, F)
    <3> HIDE DEF F, k
    <3> QED BY <1>1, <1>4, Recursion
  <2>1. g \in [0..k -> Spelled] /\ g[0] = <<>> /\ \A i \in 1..k : g[i] = F[i][g[i - 1]]
    BY <2>0 DEF Recurs
  <2>2. \A i \in 1..k :
           g[i] = IF E(i) \in Boundary!Links THEN target[E(i)] ELSE Append(g[i - 1], path[i])
    <3>1. \A i \in 1..k : g[i - 1] \in Spelled
      BY <2>1
    <3> HIDE DEF E
    <3> QED BY <2>1, <3>1
  <2>3. g = [i \in 0..k |-> IF i = 0 THEN <<>>
                             ELSE IF E(i) \in Boundary!Links THEN target[E(i)]
                                  ELSE Append(g[i - 1], path[i])]
    <3> HIDE DEF E, F
    <3>1. \A i \in 0..k : g[i] = IF i = 0 THEN <<>>
                                 ELSE IF E(i) \in Boundary!Links THEN target[E(i)]
                                      ELSE Append(g[i - 1], path[i])
      <4> SUFFICES ASSUME NEW i \in 0..k
                   PROVE  g[i] = IF i = 0 THEN <<>>
                                 ELSE IF E(i) \in Boundary!Links THEN target[E(i)]
                                      ELSE Append(g[i - 1], path[i])
        OBVIOUS
      <4>1. CASE i = 0
        BY <2>1, <4>1
      <4>2. CASE i # 0
        <5>1. i \in 1..k
          BY <4>2
        <5> QED BY <2>2, <4>2, <5>1
      <4> QED BY <4>1, <4>2
    <3>2. g = [i \in 0..k |-> g[i]]
      BY <2>1
    <3> QED BY <3>1, <3>2
  <2> QED BY <2>3 DEF IsNames
<1>6. IsNames(w, path)
  BY <1>5, Zenon DEF Names
<1>7. Boundary!EvalSymlinks(path) = w[Len(path)]
  BY Zenon DEF Boundary!EvalSymlinks, Names, IsNames
<1> HIDE DEF w, F
<1>8. w[0] = <<>>
  BY <1>1, <1>6 DEF IsNames
<1>9. \A i \in 1..k : w[i] = IF E(i) \in Boundary!Links THEN target[E(i)] ELSE Append(w[i - 1], path[i])
  <2> SUFFICES ASSUME NEW i \in 1..k
               PROVE  w[i] = IF E(i) \in Boundary!Links THEN target[E(i)] ELSE Append(w[i - 1], path[i])
    OBVIOUS
  <2>1. i \in 0..k /\ i # 0
    OBVIOUS
  <2> QED BY <1>6, <2>1 DEF IsNames
<1>10. \A i \in 0..k : w[i] \in Spelled
  <2> DEFINE S == {i \in 0..k : w[i] \in Spelled}
  <2>1. 0 \in S
    BY <1>1, <1>8
  <2>2. ASSUME NEW i \in 0..k, i \in S, i < k PROVE i + 1 \in S
    <3>1. i + 1 \in 1..k /\ (i + 1) - 1 = i /\ i + 1 \in 0..k
      BY <2>2
    <3> HIDE DEF E
    <3> QED BY <1>3, <1>9, <2>2, <3>1
  <2>3. 0..k \subseteq S
    <3> HIDE DEF S
    <3> QED BY <1>1, <2>1, <2>2, UpTo
  <2> QED BY <2>3
<1> QED BY <1>7, <1>8, <1>9, <1>10 DEF w

(* What a prefix leads to does not depend on what follows it.              *)
LEMMA Local ==
    ASSUME Tree, NEW p \in Spelled, NEW q \in Spelled, NEW i \in Nat,
           i <= Len(p), i <= Len(q), \A j \in 1..i : p[j] = q[j]
    PROVE  \A j \in 0..i : /\ Boundary!Straight(p)[j] = Boundary!Straight(q)[j]
                           /\ Boundary!Prefixes(p)[j] = Boundary!Prefixes(q)[j]
                           /\ Names(p)[j] = Names(q)[j]
<1> DEFINE S == {j \in 0..i : /\ Boundary!Straight(p)[j] = Boundary!Straight(q)[j]
                              /\ Boundary!Prefixes(p)[j] = Boundary!Prefixes(q)[j]
                              /\ Names(p)[j] = Names(q)[j]}
<1>1. Len(p) \in Nat /\ Len(q) \in Nat
  BY LenProperties DEF Spelled
<1>2. 0 \in S
  BY <1>1, StraightIs, PrefixesIs, NamesIs
<1>3. ASSUME NEW j \in 0..i, j \in S, j < i PROVE j + 1 \in S
  <2>1. /\ j + 1 \in 1..Len(p) /\ j + 1 \in 1..Len(q) /\ j + 1 \in 1..i /\ (j + 1) - 1 = j
        /\ j + 1 \in 0..i
    BY <1>1, <1>3
  <2>2. p[j + 1] = q[j + 1]
    BY <2>1
  <2>3. Boundary!Straight(p)[j + 1] = Boundary!Straight(q)[j + 1]
    BY <1>1, <1>3, <2>1, <2>2, StraightIs
  <2>4. Boundary!Prefixes(p)[j + 1] = Boundary!Prefixes(q)[j + 1]
    BY <1>1, <1>3, <2>1, <2>2, PrefixesIs
  <2>5. Names(p)[j + 1] = Names(q)[j + 1]
    <3> DEFINE n == Boundary!Entry(Boundary!Prefixes(p)[j], p[j + 1])
    <3>1. n = Boundary!Entry(Boundary!Prefixes(q)[j], q[j + 1])
      BY <1>3, <2>2
    <3>2. Names(p)[j + 1] = IF n \in Boundary!Links THEN target[n] ELSE Append(Names(p)[j], p[j + 1])
      BY <2>1, NamesIs
    <3>3. Names(q)[j + 1] = IF n \in Boundary!Links THEN target[n] ELSE Append(Names(q)[j], q[j + 1])
      BY <2>1, <3>1, NamesIs
    <3> QED BY <1>3, <2>2, <3>2, <3>3
  <2> QED BY <2>1, <2>3, <2>4, <2>5
<1>4. 0..i \subseteq S
  <2> HIDE DEF S
  <2> QED BY <1>2, <1>3, UpTo
<1> QED BY <1>4

LEMMA OfPrefix ==
    ASSUME Tree, NEW p \in Spelled, NEW i \in 0..Len(p)
    PROVE  /\ Boundary!Lstat(Boundary!Prefix(p, i)) = Boundary!Straight(p)[i]
           /\ Boundary!Stat(Boundary!Prefix(p, i)) = Boundary!Prefixes(p)[i]
           /\ Boundary!EvalSymlinks(Boundary!Prefix(p, i)) = Names(p)[i]
<1> DEFINE q == Boundary!Prefix(p, i)
<1>1. Len(p) \in Nat /\ q \in Spelled /\ Len(q) = i /\ \A j \in 1..i : q[j] = p[j]
  BY PrefixIs
<1>2. /\ i \in 0..i /\ i \in Nat /\ i <= Len(p) /\ i <= Len(q)
  BY <1>1
<1> HIDE DEF q
<1>3. /\ Boundary!Straight(q)[i] = Boundary!Straight(p)[i]
      /\ Boundary!Prefixes(q)[i] = Boundary!Prefixes(p)[i]
      /\ Names(q)[i] = Names(p)[i]
  BY <1>1, <1>2, Local
<1>4. Boundary!EvalSymlinks(q) = Names(q)[i]
  BY <1>1, NamesIs
<1> QED BY <1>1, <1>3, <1>4 DEF Boundary!Lstat, Boundary!Stat, q

LEMMA LstatAppend ==
    ASSUME Tree, NEW s \in Spelled, NEW n \in DOMAIN Fold
    PROVE  Boundary!Lstat(Append(s, n)) = Boundary!Entry(Boundary!Lstat(s), n)
<1> DEFINE a == Append(s, n)
<1>1. /\ Len(s) \in Nat /\ a \in Spelled /\ Len(a) = Len(s) + 1
      /\ \A j \in 1..Len(s) : s[j] = a[j]
      /\ a[Len(s) + 1] = n
  BY AppendProperties, LenProperties DEF Spelled
<1> HIDE DEF a
<1>2. Boundary!Straight(s)[Len(s)] = Boundary!Straight(a)[Len(s)]
  <2>1. Len(s) <= Len(a) /\ Len(s) <= Len(s) /\ Len(s) \in 0..Len(s)
    BY <1>1
  <2> QED BY <1>1, <2>1, Local
<1>3. Boundary!Straight(a)[Len(s) + 1] = Boundary!Entry(Boundary!Straight(a)[Len(s)], n)
  <2>1. Len(s) + 1 \in 1..Len(a) /\ (Len(s) + 1) - 1 = Len(s) /\ Len(a) \in Nat
    BY <1>1
  <2> QED BY <1>1, <2>1, StraightIs
<1> QED BY <1>1, <1>2, <1>3 DEF Boundary!Lstat, a

LEMMA LstatFound ==
    ASSUME Tree, NEW s \in Spelled
    PROVE  Boundary!Lstat(s) \in Found /\ Boundary!Lstat(<<>>) = Top
<1>1. Len(s) \in Nat /\ Len(s) \in 0..Len(s)
  BY LenProperties DEF Spelled
<1>2. Boundary!Lstat(s) \in Found
  BY <1>1, StraightIs DEF Boundary!Lstat
<1>3. Boundary!Lstat(<<>>) = Top
  <2>1. Len(<<>>) = 0
    BY EmptySeq
  <2>2. Boundary!Straight(<<>>)[0] = Top
    BY <2>1, StraightIs
  <2> QED BY <2>1, <2>2 DEF Boundary!Lstat
<1> QED BY <1>2, <1>3

(* The names of a path lead, without links, to what the path leads to.     *)
LEMMA NamesLead ==
    ASSUME Tree, NEW p \in Spelled
    PROVE  \A i \in 0..Len(p) : Boundary!Lstat(Names(p)[i]) = Boundary!Prefixes(p)[i]
<1> DEFINE S == {i \in 0..Len(p) : Boundary!Lstat(Names(p)[i]) = Boundary!Prefixes(p)[i]}
<1>1. Len(p) \in Nat /\ \A i \in 1..Len(p) : p[i] \in DOMAIN Fold
  BY LenProperties, ElementOfSeq DEF Spelled
<1>2. 0 \in S
  BY <1>1, NamesIs, PrefixesIs, LstatFound
<1>3. ASSUME NEW i \in 0..Len(p), i \in S, i < Len(p) PROVE i + 1 \in S
  <2>1. i + 1 \in 1..Len(p) /\ (i + 1) - 1 = i /\ i + 1 \in 0..Len(p)
    BY <1>1, <1>3
  <2> DEFINE n == Boundary!Entry(Boundary!Prefixes(p)[i], p[i + 1])
  <2>2. Boundary!Prefixes(p)[i] \in Found /\ n \in Found
    BY <1>1, PrefixesIs, EntryIs
  <2>3. Boundary!Prefixes(p)[i + 1] = Boundary!Follow(n)
    BY <1>1, <2>1, PrefixesIs
  <2>4. Names(p)[i + 1] = IF n \in Boundary!Links THEN target[n] ELSE Append(Names(p)[i], p[i + 1])
    BY <2>1, NamesIs
  <2>5. Names(p)[i] \in Spelled /\ p[i + 1] \in DOMAIN Fold
    BY <1>1, <2>1, NamesIs
  <2>6. Boundary!Lstat(Append(Names(p)[i], p[i + 1]))
           = Boundary!Entry(Boundary!Lstat(Names(p)[i]), p[i + 1])
    BY <2>5, LstatAppend
  <2> HIDE DEF n
  <2>7. CASE n \in Boundary!Links
    <3>1. Boundary!Follow(n) = Boundary!Lstat(target[n])
      BY <2>2, <2>7, FollowIs
    <3> QED BY <2>1, <2>3, <2>4, <2>7, <3>1
  <2>8. CASE n \notin Boundary!Links
    <3>1. Boundary!Follow(n) = n
      BY <2>2, <2>8, FollowIs
    <3> QED BY <1>3, <2>1, <2>3, <2>4, <2>6, <2>8, <3>1 DEF n
  <2> QED BY <2>7, <2>8
<1>4. 0..Len(p) \subseteq S
  <2> HIDE DEF S
  <2> QED BY <1>1, <1>2, <1>3, UpTo
<1> QED BY <1>4

LEMMA AncestorsOf ==
    ASSUME Tree
    PROVE  /\ Boundary!Ancestors(Top) = {Top}
           /\ \A c \in Boundary!Movable :
                 Boundary!Ancestors(c) = {c} \cup Boundary!Ancestors(parent[c])
           /\ \A x \in Boundary!Node : x \in Boundary!Ancestors(x) /\ Boundary!Ancestors(x) \subseteq Boundary!Node
           /\ \A x \in Boundary!Node : Boundary!Ancestors(x) \ {x} \subseteq Boundary!Directories
<1>1. Boundary!Ancestors(Top) = {Top}
  <2>1. Top \in Boundary!Node
    BY NodesAre
  <2>2. Boundary!Ancestors(Top) \subseteq {Top}
    BY <2>1, AncestorsAre
  <2> QED BY <2>1, <2>2, AncestorsAre
<1>2. ASSUME NEW c \in Boundary!Movable
      PROVE  Boundary!Ancestors(c) = {c} \cup Boundary!Ancestors(parent[c])
  <2> DEFINE A == Boundary!Ancestors(c)
             B == Boundary!Ancestors(parent[c])
  <2>1. c \in Boundary!Node /\ c # Top /\ parent[c] \in Boundary!Node
    BY NodesAre DEF Tree
  <2>2. /\ c \in A /\ (\A m \in A \ {Top} : parent[m] \in A)
        /\ \A C : c \in C /\ (\A m \in C \ {Top} : parent[m] \in C) => A \subseteq C
    BY <2>1, AncestorsAre
  <2>3. /\ parent[c] \in B /\ (\A m \in B \ {Top} : parent[m] \in B)
        /\ \A C : parent[c] \in C /\ (\A m \in C \ {Top} : parent[m] \in C) => B \subseteq C
    BY <2>1, AncestorsAre
  <2> HIDE DEF A, B
  <2>4. B \subseteq A
    BY <2>1, <2>2, <2>3
  <2>5. A \subseteq {c} \cup B
    <3> DEFINE C == {c} \cup B
    <3>1. c \in C /\ \A m \in C \ {Top} : parent[m] \in C
      BY <2>3
    <3> HIDE DEF C
    <3>2. A \subseteq C
      BY <2>2, <3>1
    <3> QED BY <3>2 DEF C
  <2> QED BY <2>2, <2>4, <2>5 DEF A, B
<1>3. ASSUME NEW x \in Boundary!Node
      PROVE  x \in Boundary!Ancestors(x) /\ Boundary!Ancestors(x) \subseteq Boundary!Node
  BY AncestorsAre
<1>4. ASSUME NEW x \in Boundary!Node, NEW a, a \in Boundary!Ancestors(x), a # x
      PROVE  a \in Boundary!Directories
  <2> DEFINE C == {x} \cup Boundary!Directories
  <2>1. x \in C /\ \A m \in C \ {Top} : parent[m] \in C
    BY NodesAre DEF Tree
  <2>2. Boundary!Ancestors(x) \subseteq C
    <3> HIDE DEF C
    <3> QED BY <2>1, AncestorsAre
  <2> QED BY <1>4, <2>2
<1> QED BY <1>1, <1>2, <1>3, <1>4

(* A path without links passes through the ancestors of what it leads to,  *)
(* and through nothing else.                                               *)
LEMMA StraightAncestors ==
    ASSUME Tree, NEW s \in Spelled
    PROVE  \A i \in 0..Len(s) : Boundary!Straight(s)[i] \in Boundary!Node =>
              Boundary!Ancestors(Boundary!Straight(s)[i]) = {Boundary!Straight(s)[j] : j \in 0..i}
<1> DEFINE w == Boundary!Straight(s)
           S == {i \in 0..Len(s) : w[i] \in Boundary!Node =>
                    Boundary!Ancestors(w[i]) = {w[j] : j \in 0..i}}
<1>1. Len(s) \in Nat
  BY LenProperties DEF Spelled
<1>2. /\ w[0] = Top /\ (\A i \in 1..Len(s) : w[i] = Boundary!Entry(w[i - 1], s[i]))
      /\ \A i \in 0..Len(s) : w[i] \in Found
  BY <1>1, StraightIs
<1> HIDE DEF w
<1>3. 0 \in S
  BY <1>1, <1>2, AncestorsOf
<1>4. ASSUME NEW i \in 0..Len(s), i \in S, i < Len(s) PROVE i + 1 \in S
  <2>1. i + 1 \in 1..Len(s) /\ (i + 1) - 1 = i /\ i + 1 \in 0..Len(s)
    BY <1>1, <1>4
  <2> SUFFICES ASSUME w[i + 1] \in Boundary!Node
               PROVE  Boundary!Ancestors(w[i + 1]) = {w[j] : j \in 0..(i + 1)}
    BY <2>1
  <2>2. w[i + 1] = Boundary!Entry(w[i], s[i + 1])
    BY <1>2, <2>1
  <2>3. w[i + 1] \in Boundary!Movable /\ w[i] \in Boundary!Directories /\ parent[w[i + 1]] = w[i]
    <3>1. w[i] \in Found
      BY <1>2
    <3> QED BY <2>2, <3>1, EntryIs, NodesAre
  <2>4. Boundary!Ancestors(w[i]) = {w[j] : j \in 0..i}
    BY <1>4, <2>3, NodesAre
  <2>5. Boundary!Ancestors(w[i + 1]) = {w[i + 1]} \cup {w[j] : j \in 0..i}
    BY <2>3, <2>4, AncestorsOf
  <2>6. 0..(i + 1) = {i + 1} \cup 0..i
    OBVIOUS
  <2> QED BY <2>5, <2>6
<1>5. 0..Len(s) \subseteq S
  <2> HIDE DEF S
  <2> QED BY <1>1, <1>3, <1>4, UpTo
<1> QED BY <1>5 DEF w

(* The path of a node leads to it.                                         *)
LEMMA PathOfLeads ==
    ASSUME Tree, NEW x \in Boundary!Node
    PROVE  Boundary!PathOf(x) \in Spelled /\ Boundary!Lstat(Boundary!PathOf(x)) = x
<1> DEFINE S == {n \in Boundary!Node :
                    Boundary!PathOf(n) \in Spelled /\ Boundary!Lstat(Boundary!PathOf(n)) = n}
<1>1. Top \in S
  <2>1. <<>> \in Spelled
    BY EmptySeq DEF Spelled
  <2> QED BY <2>1, PathOfIs, LstatFound, NodesAre
<1>2. ASSUME NEW n \in Boundary!Movable, parent[n] \in S PROVE n \in S
  <2> DEFINE p == Boundary!PathOf(parent[n])
  <2>1. p \in Spelled /\ Boundary!Lstat(p) = parent[n] /\ name[n] \in DOMAIN Fold
    BY <1>2 DEF Tree
  <2>2. Boundary!PathOf(n) = Append(p, name[n])
    BY <2>1, PathOfIs DEF Spelled
  <2> HIDE DEF p
  <2>3. Boundary!Lstat(Append(p, name[n])) = Boundary!Entry(parent[n], name[n])
    BY <2>1, LstatAppend
  <2>4. Boundary!Entry(parent[n], name[n]) = n
    <3>1. parent[n] \in Found
      BY NodesAre DEF Found, Tree
    <3> QED BY <3>1, EntryIs, SameIs
  <2>5. Append(p, name[n]) \in Spelled
    BY <2>1, WithinOrder
  <2> QED BY <2>2, <2>3, <2>4, <2>5, NodesAre
<1>3. Boundary!Node \subseteq S
  <2> HIDE DEF S
  <2> QED BY <1>1, <1>2, TreeInduction
<1> QED BY <1>3

LEMMA PrefixAppend ==
    ASSUME NEW s \in Spelled, NEW i \in 0..Len(s), i < Len(s)
    PROVE  Boundary!Prefix(s, i + 1) = Append(Boundary!Prefix(s, i), s[i + 1])
<1> DEFINE a == Append(Boundary!Prefix(s, i), s[i + 1])
           b == Boundary!Prefix(s, i + 1)
<1>1. b \in Spelled /\ Len(b) = i + 1 /\ \A j \in 1..(i + 1) : b[j] = s[j]
  <2>1. i + 1 \in 0..Len(s)
    BY PrefixIs
  <2> QED BY <2>1, PrefixIs
<1>2. /\ Boundary!Prefix(s, i) \in Spelled /\ Len(Boundary!Prefix(s, i)) = i
      /\ \A j \in 1..i : Boundary!Prefix(s, i)[j] = s[j]
  BY PrefixIs
<1>3. s[i + 1] \in DOMAIN Fold
  <2>1. i + 1 \in 1..Len(s)
    BY PrefixIs
  <2> QED BY <2>1, ElementOfSeq DEF Spelled
<1>4. /\ a \in Spelled /\ Len(a) = i + 1 /\ a[i + 1] = s[i + 1]
      /\ \A j \in 1..i : a[j] = Boundary!Prefix(s, i)[j]
  BY <1>2, <1>3, AppendProperties DEF Spelled
<1> HIDE DEF a, b
<1>5. \A j \in 1..(i + 1) : a[j] = b[j]
  <2> SUFFICES ASSUME NEW j \in 1..(i + 1) PROVE a[j] = b[j]
    OBVIOUS
  <2>1. j \in 1..i \/ j = i + 1
    OBVIOUS
  <2> QED BY <1>1, <1>2, <1>4, <2>1
<1>6. a = b
  BY <1>1, <1>4, <1>5, SeqEqual DEF Spelled
<1> QED BY <1>6 DEF a, b

(* Where case counts there is no other path to it without links.           *)
LEMMA OnlyPathOf ==
    ASSUME Tree, ~folds, NEW s \in Spelled, Boundary!Lstat(s) \in Boundary!Node
    PROVE  s = Boundary!PathOf(Boundary!Lstat(s))
<1> DEFINE w == Boundary!Straight(s)
           S == {i \in 0..Len(s) : w[i] \in Boundary!Node => Boundary!Prefix(s, i) = Boundary!PathOf(w[i])}
<1>1. Len(s) \in Nat /\ \A i \in 1..Len(s) : s[i] \in DOMAIN Fold
  BY LenProperties, ElementOfSeq DEF Spelled
<1>2. /\ w[0] = Top /\ (\A i \in 1..Len(s) : w[i] = Boundary!Entry(w[i - 1], s[i]))
      /\ \A i \in 0..Len(s) : w[i] \in Found
  BY <1>1, StraightIs
<1>3. Boundary!Lstat(s) = w[Len(s)]
  BY DEF Boundary!Lstat
<1> HIDE DEF w
<1>4. 0 \in S
  <2>1. Boundary!Prefix(s, 0) = <<>>
    <3>1. 0 \in 0..Len(s)
      BY <1>1
    <3>2. Boundary!Prefix(s, 0) \in Spelled /\ Len(Boundary!Prefix(s, 0)) = 0
      BY <3>1, PrefixIs
    <3> QED BY <3>2, EmptySeq DEF Spelled
  <2> QED BY <1>1, <1>2, <2>1, PathOfIs
<1>5. ASSUME NEW i \in 0..Len(s), i \in S, i < Len(s) PROVE i + 1 \in S
  <2>1. i + 1 \in 1..Len(s) /\ (i + 1) - 1 = i /\ i + 1 \in 0..Len(s)
    BY <1>1, <1>5
  <2> SUFFICES ASSUME w[i + 1] \in Boundary!Node
               PROVE  Boundary!Prefix(s, i + 1) = Boundary!PathOf(w[i + 1])
    BY <2>1
  <2>2. w[i + 1] = Boundary!Entry(w[i], s[i + 1])
    BY <1>2, <2>1
  <2>3. /\ w[i + 1] \in Boundary!Movable /\ w[i] \in Boundary!Directories /\ parent[w[i + 1]] = w[i]
        /\ Boundary!Same(name[w[i + 1]], s[i + 1])
    <3>1. w[i] \in Found
      BY <1>2
    <3> QED BY <2>2, <3>1, EntryIs, NodesAre
  <2>4. name[w[i + 1]] = s[i + 1]
    BY <2>3 DEF Boundary!Same
  <2>5. Boundary!Prefix(s, i) = Boundary!PathOf(w[i]) /\ Boundary!Prefix(s, i) \in Spelled
    BY <1>5, <2>3, NodesAre, PrefixIs
  <2>6. Boundary!PathOf(w[i + 1]) = Append(Boundary!Prefix(s, i), s[i + 1])
    BY <2>3, <2>4, <2>5, PathOfIs DEF Spelled
  <2>7. Boundary!Prefix(s, i + 1) = Append(Boundary!Prefix(s, i), s[i + 1])
    BY <1>5, PrefixAppend
  <2> QED BY <2>6, <2>7
<1>6. 0..Len(s) \subseteq S
  <2> HIDE DEF S
  <2> QED BY <1>1, <1>4, <1>5, UpTo
<1>7. Len(s) \in S
  BY <1>1, <1>6
<1>8. Len(s) \in 0..Len(s)
  BY <1>1
<1>9. Boundary!Prefix(s, Len(s)) = s
  BY <1>8, PrefixIs
<1> QED BY <1>3, <1>7, <1>9

(* Directories are above what their paths are within, and the other way    *)
(* round.                                                                  *)
LEMMA PathOfWithin ==
    ASSUME Tree, NEW x \in Boundary!Node, NEW d \in Boundary!Ancestors(x)
    PROVE  Boundary!Within(Boundary!PathOf(d), Boundary!PathOf(x))
<1> DEFINE S == {n \in Boundary!Node : \A a \in Boundary!Ancestors(n) :
                    Boundary!Within(Boundary!PathOf(a), Boundary!PathOf(n))}
<1>1. Top \in S
  <2>1. Boundary!PathOf(Top) \in Spelled /\ Top \in Boundary!Node
    BY PathOfLeads, NodesAre
  <2> QED BY <2>1, AncestorsOf, WithinOrder
<1>2. ASSUME NEW n \in Boundary!Movable, parent[n] \in S PROVE n \in S
  <2>1. n \in Boundary!Node /\ parent[n] \in Boundary!Node /\ name[n] \in DOMAIN Fold
    BY NodesAre DEF Tree
  <2>2. Boundary!PathOf(n) \in Spelled /\ Boundary!PathOf(parent[n]) \in Spelled
    BY <2>1, PathOfLeads
  <2>3. Boundary!PathOf(n) = Append(Boundary!PathOf(parent[n]), name[n])
    BY <2>2, PathOfIs DEF Spelled
  <2>4. Boundary!Within(Boundary!PathOf(parent[n]), Boundary!PathOf(n))
    BY <2>1, <2>2, <2>3, WithinOrder
  <2>5. ASSUME NEW a \in Boundary!Ancestors(n)
        PROVE  Boundary!Within(Boundary!PathOf(a), Boundary!PathOf(n))
    <3>1. CASE a = n
      BY <2>2, <3>1, WithinOrder
    <3>2. CASE a # n
      <4>1. a \in Boundary!Ancestors(parent[n])
        BY <2>5, <3>2, AncestorsOf
      <4>2. a \in Boundary!Node
        BY <2>1, <4>1, AncestorsOf
      <4>3. Boundary!Within(Boundary!PathOf(a), Boundary!PathOf(parent[n]))
        BY <1>2, <4>1
      <4>4. Boundary!PathOf(a) \in Spelled
        BY <4>2, PathOfLeads
      <4> QED BY <2>2, <2>4, <4>3, <4>4, WithinOrder
    <3> QED BY <3>1, <3>2
  <2> QED BY <2>1, <2>5
<1>3. Boundary!Node \subseteq S
  <2> HIDE DEF S
  <2> QED BY <1>1, <1>2, TreeInduction
<1> QED BY <1>3

LEMMA WithinLeads ==
    ASSUME Tree, NEW q \in Spelled, NEW s \in Spelled, Boundary!Within(q, s),
           Boundary!Lstat(s) \in Boundary!Node
    PROVE  /\ Boundary!Straight(s)[Len(q)] = Boundary!Lstat(q)
           /\ Boundary!Lstat(q) \in Boundary!Ancestors(Boundary!Lstat(s))
<1>1. Len(q) \in Nat /\ Len(s) \in Nat /\ Len(q) <= Len(s) /\ \A j \in 1..Len(q) : q[j] = s[j]
  BY WithinIs, LenProperties DEF Spelled
<1>2. Boundary!Straight(s)[Len(q)] = Boundary!Straight(q)[Len(q)]
  <2>1. Len(q) <= Len(q) /\ Len(q) \in 0..Len(q)
    BY <1>1
  <2> QED BY <1>1, <2>1, Local
<1>3. Len(s) \in 0..Len(s) /\ Len(q) \in 0..Len(s)
  BY <1>1
<1>4. Boundary!Ancestors(Boundary!Straight(s)[Len(s)]) = {Boundary!Straight(s)[j] : j \in 0..Len(s)}
  BY <1>3, StraightAncestors DEF Boundary!Lstat
<1> QED BY <1>2, <1>3, <1>4 DEF Boundary!Lstat

(* The way to a directory, without links, is a way of directories.         *)
LEMMA Plain ==
    ASSUME Tree, NEW s \in Spelled, Boundary!Lstat(s) \in Boundary!Directories
    PROVE  \A i \in 0..Len(s) : /\ Boundary!Straight(s)[i] \in Boundary!Directories
                                /\ Boundary!Prefixes(s)[i] = Boundary!Straight(s)[i]
                                /\ Names(s)[i] = Boundary!Prefix(s, i)
<1> DEFINE w == Boundary!Straight(s)
           S == {i \in 0..Len(s) : Boundary!Prefixes(s)[i] = w[i] /\ Names(s)[i] = Boundary!Prefix(s, i)}
<1>1. Len(s) \in Nat /\ \A i \in 1..Len(s) : s[i] \in DOMAIN Fold
  BY LenProperties, ElementOfSeq DEF Spelled
<1>2. w[0] = Top /\ \A i \in 1..Len(s) : w[i] = Boundary!Entry(w[i - 1], s[i])
  BY <1>1, StraightIs
<1>3. \A i \in 0..Len(s) : w[i] \in Boundary!Directories
  <2>1. Boundary!Lstat(s) = w[Len(s)] /\ Len(s) \in 0..Len(s)
    BY <1>1 DEF Boundary!Lstat
  <2>2. w[Len(s)] \in Boundary!Node
    BY <2>1, NodesAre
  <2>3. Boundary!Ancestors(w[Len(s)]) = {w[j] : j \in 0..Len(s)}
    BY <2>1, <2>2, StraightAncestors
  <2> QED BY <2>1, <2>2, <2>3, AncestorsOf
<1> HIDE DEF w
<1>4. 0 \in S
  <2>1. 0 \in 0..Len(s)
    BY <1>1
  <2>2. Boundary!Prefix(s, 0) = <<>>
    <3>1. Boundary!Prefix(s, 0) \in Spelled /\ Len(Boundary!Prefix(s, 0)) = 0
      BY <2>1, PrefixIs
    <3> QED BY <3>1, EmptySeq DEF Spelled
  <2> QED BY <1>1, <1>2, <2>1, <2>2, PrefixesIs, NamesIs
<1>5. ASSUME NEW i \in 0..Len(s), i \in S, i < Len(s) PROVE i + 1 \in S
  <2>1. i + 1 \in 1..Len(s) /\ (i + 1) - 1 = i /\ i + 1 \in 0..Len(s)
    BY <1>1, <1>5
  <2>2. w[i + 1] = Boundary!Entry(w[i], s[i + 1]) /\ w[i + 1] \in Boundary!Directories
    BY <1>2, <1>3, <2>1
  <2>3. w[i + 1] \notin Boundary!Links /\ w[i + 1] \in Found
    BY <2>2, NodesAre DEF Found
  <2>4. Boundary!Prefixes(s)[i + 1] = w[i + 1]
    <3>1. Boundary!Prefixes(s)[i + 1] = Boundary!Follow(Boundary!Entry(Boundary!Prefixes(s)[i], s[i + 1]))
      BY <1>1, <2>1, PrefixesIs
    <3>2. Boundary!Prefixes(s)[i + 1] = Boundary!Follow(w[i + 1])
      BY <1>5, <2>2, <3>1
    <3> QED BY <2>3, <3>2, FollowIs
  <2>5. Names(s)[i + 1] = Append(Boundary!Prefix(s, i), s[i + 1])
    <3> DEFINE n == Boundary!Entry(Boundary!Prefixes(s)[i], s[i + 1])
    <3>1. Names(s)[i + 1] = IF n \in Boundary!Links THEN target[n] ELSE Append(Names(s)[i], s[i + 1])
      BY <2>1, NamesIs
    <3>2. n = w[i + 1]
      BY <1>5, <2>2
    <3> QED BY <1>5, <2>3, <3>1, <3>2
  <2>6. Append(Boundary!Prefix(s, i), s[i + 1]) = Boundary!Prefix(s, i + 1)
    BY <1>5, <2>1, PrefixAppend
  <2> QED BY <2>1, <2>4, <2>5, <2>6
<1>6. 0..Len(s) \subseteq S
  <2> HIDE DEF S
  <2> QED BY <1>1, <1>4, <1>5, UpTo
<1> QED BY <1>3, <1>6 DEF w

(* The longest prefix of a path that leads somewhere.                      *)
LEMMA ExistingIs ==
    ASSUME Tree, NEW p \in Spelled
    PROVE  LET e == Boundary!Existing(p) IN
           /\ e \in 0..Len(p) /\ Len(p) \in Nat
           /\ \A i \in 0..e : Boundary!Prefixes(p)[i] \in Boundary!Node
           /\ \A i \in (e + 1)..Len(p) : Boundary!Prefixes(p)[i] \notin Boundary!Node
           /\ Boundary!Stat(p) \in Boundary!Node <=> e = Len(p)
           /\ Boundary!Canonical(p) = Names(p)[e] \o Boundary!Rest(p, e)
<1> DEFINE w == Boundary!Prefixes(p)
           k == Len(p)
           e == Boundary!Existing(p)
           Is(i) == w[i] \in Boundary!Node /\ \A j \in (i + 1)..k : w[j] \notin Boundary!Node
<1>1. k \in Nat
  BY LenProperties DEF Spelled
<1>2. /\ w[0] = Top /\ (\A i \in 1..k : w[i] = Boundary!Follow(Boundary!Entry(w[i - 1], p[i])))
      /\ \A i \in 0..k : w[i] \in Found
  BY <1>1, PrefixesIs
<1>3. e = CHOOSE i \in 0..k : Is(i)
  BY Zenon DEF Boundary!Existing
<1>4. Boundary!Stat(p) = w[k]
  BY DEF Boundary!Stat
<1> HIDE DEF w, k
<1>5. \E i \in 0..k : Is(i)
  <2> DEFINE T == {m \in 0..k : w[k - m] \in Boundary!Node}
  <2>1. T \in SUBSET Nat /\ T # {}
    <3>1. k \in T
      <4>1. k \in 0..k /\ k - k = 0
        BY <1>1
      <4> QED BY <1>2, <4>1, NodesAre
    <3> QED BY <1>1, <3>1
  <2>2. PICK m \in T : \A y \in T : m <= y
    <3> HIDE DEF T
    <3> QED BY <2>1, Least
  <2>3. k - m \in 0..k /\ w[k - m] \in Boundary!Node
    BY <1>1, <2>2
  <2>4. ASSUME NEW j \in (k - m + 1)..k PROVE w[j] \notin Boundary!Node
    <3>1. k - j \in 0..k /\ ~(m <= k - j) /\ k - (k - j) = j
      BY <1>1, <2>2, <2>4
    <3> QED BY <2>2, <3>1
  <2> QED BY <2>3, <2>4
<1>6. e \in 0..k /\ Is(e)
  <2> HIDE DEF Is, e
  <2> QED BY <1>3, <1>5
<1> HIDE DEF e
<1>7. \A i \in 0..e : w[i] \in Boundary!Node
  <2> DEFINE S == {m \in 0..e : w[e - m] \in Boundary!Node}
  <2>1. 0 \in S
    BY <1>6
  <2>2. ASSUME NEW m \in 0..e, m \in S, m < e PROVE m + 1 \in S
    <3> DEFINE i == e - m
    <3>1. i \in 1..k /\ i - 1 = e - (m + 1) /\ m + 1 \in 0..e /\ i - 1 \in 0..k
      BY <1>1, <1>6, <2>2
    <3>2. w[i] \in Boundary!Node /\ w[i] = Boundary!Follow(Boundary!Entry(w[i - 1], p[i]))
      BY <1>2, <2>2, <3>1
    <3>3. w[i - 1] \in Found
      BY <1>2, <3>1
    <3> HIDE DEF i
    <3>4. w[i - 1] \notin Boundary!Failures
      <4> SUFFICES ASSUME w[i - 1] \in Boundary!Failures PROVE FALSE
        OBVIOUS
      <4>1. Boundary!Entry(w[i - 1], p[i]) = w[i - 1]
        BY <3>3, EntryIs
      <4>2. w[i] = w[i - 1]
        BY <3>2, <3>3, <4>1, FollowIs
      <4> QED BY <3>2, <4>2, NodesAre
    <3>5. w[i - 1] \in Boundary!Node
      BY <3>3, <3>4 DEF Found
    <3> QED BY <3>1, <3>5
  <2>3. 0..e \subseteq S
    <3> HIDE DEF S
    <3> QED BY <1>6, <2>1, <2>2, UpTo
  <2> SUFFICES ASSUME NEW i \in 0..e PROVE w[i] \in Boundary!Node
    OBVIOUS
  <2>4. e - i \in 0..e /\ e - (e - i) = i
    BY <1>1, <1>6
  <2> QED BY <2>3, <2>4
<1>8. w[k] \in Boundary!Node <=> e = k
  <2>1. CASE e = k
    BY <1>6, <2>1
  <2>2. CASE e # k
    <3>1. k \in (e + 1)..k
      BY <1>1, <1>6, <2>2
    <3> QED BY <1>6, <2>2, <3>1
  <2> QED BY <2>1, <2>2
<1>9. Boundary!Canonical(p) = Names(p)[e] \o Boundary!Rest(p, e)
  <2>1. Boundary!Canonical(p) = Boundary!EvalSymlinks(Boundary!Prefix(p, e)) \o Boundary!Rest(p, e)
    BY Zenon DEF Boundary!Canonical, e
  <2>2. e \in 0..Len(p)
    BY <1>6 DEF k
  <2> QED BY <2>1, <2>2, OfPrefix
<1> QED BY <1>1, <1>4, <1>6, <1>7, <1>8, <1>9 DEF w, k, e

(* Of the path of a directory.                                             *)
LEMMA OfPathOf ==
    ASSUME Tree, NEW d \in Boundary!Directories
    PROVE  LET q == Boundary!PathOf(d) IN
           /\ q \in Spelled /\ Boundary!Lstat(q) = d
           /\ Boundary!Stat(q) = d /\ Boundary!Existing(q) = Len(q) /\ Boundary!Canonical(q) = q
           /\ Boundary!Ancestors(d) = {Boundary!Prefixes(q)[i] : i \in 0..Len(q)}
           /\ \A i \in 0..Len(q) : Boundary!Straight(q)[i] \in Boundary!Directories
<1> DEFINE q == Boundary!PathOf(d)
<1>1. q \in Spelled /\ Boundary!Lstat(q) = d /\ d \in Boundary!Node
  BY PathOfLeads, NodesAre
<1> HIDE DEF q
<1>2. Len(q) \in Nat /\ Len(q) \in 0..Len(q)
  BY <1>1, LenProperties DEF Spelled
<1>3. \A i \in 0..Len(q) : /\ Boundary!Straight(q)[i] \in Boundary!Directories
                           /\ Boundary!Prefixes(q)[i] = Boundary!Straight(q)[i]
                           /\ Names(q)[i] = Boundary!Prefix(q, i)
  BY <1>1, Plain
<1>4. Boundary!Stat(q) = d
  BY <1>1, <1>2, <1>3 DEF Boundary!Stat, Boundary!Lstat
<1>5. Boundary!Existing(q) = Len(q)
  BY <1>1, <1>4, ExistingIs
<1>6. Boundary!Canonical(q) = q
  <2>1. Boundary!Canonical(q) = Names(q)[Len(q)] \o Boundary!Rest(q, Len(q))
    BY <1>1, <1>5, ExistingIs
  <2>2. Names(q)[Len(q)] = q /\ Boundary!Rest(q, Len(q)) = <<>>
    BY <1>1, <1>2, <1>3, PrefixIs
  <2> QED BY <1>1, <2>1, <2>2, ConcatEmptySeq DEF Spelled
<1>7. Boundary!Ancestors(d) = {Boundary!Prefixes(q)[i] : i \in 0..Len(q)}
  <2>1. Boundary!Straight(q)[Len(q)] = d
    BY <1>1 DEF Boundary!Lstat
  <2>2. Boundary!Ancestors(d) = {Boundary!Straight(q)[i] : i \in 0..Len(q)}
    BY <1>1, <1>2, <2>1, StraightAncestors
  <2> QED BY <1>3, <2>2
<1> QED BY <1>1, <1>3, <1>4, <1>5, <1>6, <1>7 DEF q

(* Links spell names as directories have them.                             *)
LinksAlike ==
    \A l \in Boundary!Links : Boundary!Lstat(target[l]) \in Boundary!Node =>
        Boundary!PathOf(Boundary!Lstat(target[l])) = target[l]

(* On the way along a path every ancestor of what is reached was passed, or *)
(* is spelled out in the names of the prefix.                              *)
LEMMA PassedOrSpelled ==
    ASSUME Tree, LinksAlike, NEW p \in Spelled
    PROVE  \A i \in 0..Boundary!Existing(p) : \A a \in Boundary!Ancestors(Boundary!Prefixes(p)[i]) :
              \/ \E j \in 0..i : Boundary!Prefixes(p)[j] = a
              \/ Boundary!Within(Boundary!PathOf(a), Names(p)[i])
<1> DEFINE e == Boundary!Existing(p)
           w == Boundary!Prefixes(p)
           Q(i) == \A a \in Boundary!Ancestors(w[i]) :
                      (\E j \in 0..i : w[j] = a) \/ Boundary!Within(Boundary!PathOf(a), Names(p)[i])
           S == {i \in 0..e : Q(i)}
<1>1. Len(p) \in Nat /\ e \in 0..Len(p) /\ \A i \in 1..Len(p) : p[i] \in DOMAIN Fold
  BY ExistingIs, ElementOfSeq DEF Spelled
<1>2. /\ w[0] = Top /\ (\A i \in 1..Len(p) : w[i] = Boundary!Follow(Boundary!Entry(w[i - 1], p[i])))
      /\ \A i \in 0..Len(p) : w[i] \in Found
  BY <1>1, PrefixesIs
<1>3. \A i \in 0..e : w[i] \in Boundary!Node
  BY ExistingIs
<1> HIDE DEF w, e
<1>4. 0 \in S
  BY <1>1, <1>2, AncestorsOf
<1>5. ASSUME NEW i \in 0..e, i \in S, i < e PROVE i + 1 \in S
  <2>1. /\ i + 1 \in 1..Len(p) /\ (i + 1) - 1 = i /\ i + 1 \in 0..e /\ i \in 0..Len(p)
        /\ i + 1 \in 0..Len(p)
    BY <1>1, <1>5
  <2> DEFINE y == Boundary!Entry(w[i], p[i + 1])
  <2>2. w[i] \in Boundary!Node /\ w[i] \in Found /\ w[i + 1] \in Boundary!Node
    BY <1>2, <1>3, <2>1
  <2>3. y \in Found /\ w[i + 1] = Boundary!Follow(y)
    BY <1>2, <2>1, <2>2, EntryIs
  <2>4. Names(p)[i + 1] = IF y \in Boundary!Links THEN target[y] ELSE Append(Names(p)[i], p[i + 1])
    BY <2>1, NamesIs DEF w
  <2>5. Names(p)[i] \in Spelled
    BY <2>1, NamesIs
  <2>6. CASE y \in Boundary!Links
    <3>1. w[i + 1] = Boundary!Lstat(target[y])
      BY <2>3, <2>6, FollowIs
    <3>2. Boundary!PathOf(w[i + 1]) = target[y]
      BY <2>2, <2>6, <3>1 DEF LinksAlike
    <3>3. \A a \in Boundary!Ancestors(w[i + 1]) : Boundary!Within(Boundary!PathOf(a), Names(p)[i + 1])
      BY <2>2, <2>4, <2>6, <3>2, PathOfWithin
    <3> QED BY <2>1, <3>3
  <2>7. CASE y \notin Boundary!Links
    <3>1. w[i + 1] = y
      BY <2>3, <2>7, FollowIs
    <3>2. y \in Boundary!Movable /\ parent[y] = w[i]
      BY <2>2, <3>1, EntryIs, NodesAre
    <3>3. ASSUME NEW a \in Boundary!Ancestors(w[i + 1])
          PROVE  (\E j \in 0..(i + 1) : w[j] = a) \/ Boundary!Within(Boundary!PathOf(a), Names(p)[i + 1])
      <4>1. CASE a = y
        <5>1. i + 1 \in 0..(i + 1)
          BY <2>1
        <5> QED BY <3>1, <4>1, <5>1
      <4>2. CASE a \in Boundary!Ancestors(w[i])
        <5>1. CASE \E j \in 0..i : w[j] = a
          BY <2>1, <5>1
        <5>2. CASE Boundary!Within(Boundary!PathOf(a), Names(p)[i])
          <6>1. Boundary!PathOf(a) \in Spelled
            BY <2>2, <4>2, AncestorsOf, PathOfLeads
          <6>2. /\ Boundary!Within(Names(p)[i], Names(p)[i + 1]) /\ Names(p)[i + 1] \in Spelled
            <7>1. Names(p)[i + 1] = Append(Names(p)[i], p[i + 1])
              BY <2>4, <2>7
            <7>2. p[i + 1] \in DOMAIN Fold
              BY <1>1, <2>1
            <7> QED BY <2>5, <7>1, <7>2, WithinOrder
          <6> QED BY <2>5, <5>2, <6>1, <6>2, WithinOrder
        <5>3. (\E j \in 0..i : w[j] = a) \/ Boundary!Within(Boundary!PathOf(a), Names(p)[i])
          BY <1>5, <4>2
        <5> QED BY <5>1, <5>2, <5>3
      <4>3. a = y \/ a \in Boundary!Ancestors(w[i])
        BY <3>1, <3>2, <3>3, AncestorsOf
      <4> QED BY <4>1, <4>2, <4>3
    <3> QED BY <2>1, <3>3
  <2> QED BY <2>6, <2>7
<1>6. 0..e \subseteq S
  <2>1. e \in Nat
    BY <1>1
  <2> HIDE DEF S
  <2> QED BY <1>4, <1>5, <2>1, UpTo
<1> QED BY <1>6 DEF w, e

LEMMA AncestorIsIs ==
    ASSUME Tree, NEW p \in Spelled, NEW n
    PROVE  Boundary!AncestorIs(n, p) <=> \E i \in 0..Boundary!Existing(p) : Boundary!Prefixes(p)[i] = n
<1>1. Boundary!Existing(p) \in 0..Len(p) /\ Len(p) \in Nat
  BY ExistingIs
<1>2. \A i \in 0..Boundary!Existing(p) : i \in 0..Len(p)
  BY <1>1
<1>3. \A i \in 0..Boundary!Existing(p) : Boundary!Stat(Boundary!Prefix(p, i)) = Boundary!Prefixes(p)[i]
  BY <1>2, OfPrefix
<1> QED BY <1>3 DEF Boundary!AncestorIs

LEMMA OverlapsIs ==
    ASSUME Tree, NEW p \in Spelled, NEW d
    PROVE  Boundary!Overlaps(d, p) <=>
              \/ d \in Boundary!Ancestors(Boundary!Prefixes(p)[Boundary!Existing(p)])
              \/ Boundary!Stat(p) \in Boundary!Ancestors(d)
<1>1. Boundary!Existing(p) \in 0..Len(p)
  BY ExistingIs
<1>2. Boundary!Stat(Boundary!Prefix(p, Boundary!Existing(p)))
         = Boundary!Prefixes(p)[Boundary!Existing(p)]
  BY <1>1, OfPrefix
<1> QED BY <1>2 DEF Boundary!Overlaps

(* What overlaps a directory of the boundary as the tree has it is found:  *)
(* by its path or by one of the directories it passes through.             *)
LEMMA Detected ==
    ASSUME Tree, NEW d \in Boundary!Directories, NEW q \in Spelled, Boundary!Stat(q) = d,
           folds => LinksAlike /\ q = Boundary!PathOf(d),
           NEW p \in Spelled, Boundary!Overlaps(d, p)
    PROVE  Boundary!Overlap(q, p)
<1> DEFINE e == Boundary!Existing(p)
           x == Boundary!Prefixes(p)[e]
           C(s) == Boundary!Canonical(s)
<1>1. /\ e \in 0..Len(p) /\ Len(p) \in Nat /\ x \in Boundary!Node
      /\ Boundary!Stat(p) \in Boundary!Node <=> e = Len(p)
      /\ C(p) = Names(p)[e] \o Boundary!Rest(p, e)
      /\ Names(p)[e] \in Spelled /\ Boundary!Rest(p, e) \in Spelled
  <2>1. e \in 0..Len(p) /\ Len(p) \in Nat
    BY ExistingIs
  <2>2. e \in 0..e
    BY <2>1
  <2> QED BY <2>1, <2>2, ExistingIs, NamesIs, PrefixIs
<1>2. d \in Boundary!Node /\ Boundary!PathOf(d) \in Spelled
  BY NodesAre, PathOfLeads
(* Both paths are named as the tree has them, or end at the same place.    *)
<1>3. C(q) = Boundary!PathOf(d)
  <2>1. CASE folds
    BY <2>1, OfPathOf
  <2>2. CASE ~folds
    <3> DEFINE k == Len(q)
    <3>1. Boundary!Existing(q) = k /\ k \in 0..k /\ k \in Nat
      BY <1>2, ExistingIs
    <3>2. Boundary!Lstat(Names(q)[k]) = d /\ Names(q)[k] \in Spelled
      BY <3>1, NamesLead, NamesIs DEF Boundary!Stat
    <3>3. Names(q)[k] = Boundary!PathOf(d)
      BY <1>2, <2>2, <3>2, OnlyPathOf
    <3>4. C(q) = Names(q)[k] \o Boundary!Rest(q, k)
      BY <3>1, ExistingIs
    <3>5. Boundary!Rest(q, k) = <<>>
      BY <3>1, PrefixIs
    <3> QED BY <3>2, <3>3, <3>4, <3>5, ConcatEmptySeq DEF Spelled
  <2> QED BY <2>1, <2>2
<1>4. ~folds => Names(p)[e] = Boundary!PathOf(x)
  BY <1>1, NamesLead, OnlyPathOf
<1>5. CASE d \in Boundary!Ancestors(x)
  <2>1. SUFFICES ASSUME ~Boundary!AncestorIs(d, p)
                 PROVE  Boundary!Within(C(q), C(p))
    BY <1>2 DEF Boundary!Overlap
  <2>2. Boundary!Within(Boundary!PathOf(d), Names(p)[e])
    <3>1. CASE folds
      <4>1. e \in 0..e
        BY <1>1
      <4>2. (\E j \in 0..e : Boundary!Prefixes(p)[j] = d) \/ Boundary!Within(Boundary!PathOf(d), Names(p)[e])
        BY <1>5, <3>1, <4>1, PassedOrSpelled
      <4> QED BY <2>1, <4>2, AncestorIsIs
    <3>2. CASE ~folds
      BY <1>1, <1>4, <1>5, <3>2, PathOfWithin
    <3> QED BY <3>1, <3>2
  <2>3. Boundary!Within(Names(p)[e], C(p)) /\ C(p) \in Spelled
    BY <1>1, WithinOrder
  <2> QED BY <1>1, <1>2, <1>3, <2>2, <2>3, WithinOrder
<1>6. CASE Boundary!Stat(p) \in Boundary!Ancestors(d)
  <2>1. Boundary!Stat(p) \in Boundary!Node /\ e = Len(p) /\ x = Boundary!Stat(p)
    BY <1>1, <1>2, <1>6, AncestorsOf DEF Boundary!Stat
  <2>2. CASE folds
    <3>1. PICK i \in 0..Len(q) : Boundary!Stat(p) = Boundary!Prefixes(q)[i]
      BY <1>6, <2>2, OfPathOf
    <3>2. Boundary!Existing(q) = Len(q)
      BY <2>2, OfPathOf
    <3>3. Boundary!AncestorIs(Boundary!Stat(p), q)
      BY <3>1, <3>2, AncestorIsIs
    <3> QED BY <2>1, <3>3 DEF Boundary!Overlap
  <2>3. CASE ~folds
    <3>1. C(p) = Boundary!PathOf(x)
      <4>1. Boundary!Rest(p, e) = <<>>
        BY <1>1, <2>1, PrefixIs
      <4> QED BY <1>1, <1>4, <2>3, <4>1, ConcatEmptySeq DEF Spelled
    <3>2. Boundary!Within(C(p), C(q))
      BY <1>2, <1>3, <1>6, <2>1, <3>1, PathOfWithin
    <3> QED BY <3>2 DEF Boundary!Overlap
  <2> QED BY <2>2, <2>3
<1>7. d \in Boundary!Ancestors(x) \/ Boundary!Stat(p) \in Boundary!Ancestors(d)
  BY OverlapsIs
<1> QED BY <1>5, <1>6, <1>7

(* What is found for the path of a directory overlaps it, or passes        *)
(* through it.                                                             *)
LEMMA Justified ==
    ASSUME Tree, NEW d \in Boundary!Directories, NEW p \in Spelled,
           Boundary!Overlap(Boundary!PathOf(d), p)
    PROVE  Boundary!Overlaps(d, p) \/ Boundary!AncestorIs(d, p)
<1> DEFINE q == Boundary!PathOf(d)
           e == Boundary!Existing(p)
           x == Boundary!Prefixes(p)[e]
           m == Names(p)[e]
           r == Boundary!Rest(p, e)
<1>1. /\ q \in Spelled /\ Boundary!Lstat(q) = d /\ Boundary!Stat(q) = d
      /\ Boundary!Existing(q) = Len(q) /\ Boundary!Canonical(q) = q
      /\ Boundary!Ancestors(d) = {Boundary!Prefixes(q)[i] : i \in 0..Len(q)}
      /\ \A i \in 0..Len(q) : Boundary!Straight(q)[i] \in Boundary!Directories
  BY OfPathOf
<1>2. /\ e \in 0..Len(p) /\ Len(p) \in Nat /\ x \in Boundary!Node
      /\ Boundary!Stat(p) \in Boundary!Node <=> e = Len(p)
      /\ Boundary!Canonical(p) = m \o r
      /\ m \in Spelled /\ r \in Spelled
      /\ Len(r) = Len(p) - e /\ \A j \in 1..(Len(p) - e) : r[j] = p[e + j]
      /\ Boundary!Lstat(m) = x
  <2>1. e \in 0..Len(p) /\ Len(p) \in Nat
    BY ExistingIs
  <2>2. e \in 0..e
    BY <2>1
  <2>3. /\ x \in Boundary!Node
        /\ Boundary!Stat(p) \in Boundary!Node <=> e = Len(p)
        /\ Boundary!Canonical(p) = m \o r
    BY <2>2, ExistingIs
  <2>4. m \in Spelled
    BY <2>1, NamesIs
  <2>5. /\ r \in Spelled /\ Len(r) = Len(p) - e
        /\ \A j \in 1..(Len(p) - e) : r[j] = p[e + j]
    BY <2>1, PrefixIs
  <2>6. Boundary!Lstat(m) = x
    BY <2>1, NamesLead
  <2> QED BY <2>1, <2>3, <2>4, <2>5, <2>6
<1>3. d \in Boundary!Node
  BY NodesAre
<1>4. \A i \in (e + 1)..Len(p) : Boundary!Prefixes(p)[i] \notin Boundary!Node
  BY ExistingIs
<1>5. e < Len(p) => Boundary!Prefixes(p)[e + 1] = Boundary!Follow(Boundary!Entry(x, p[e + 1]))
  <2>1. e < Len(p) => e + 1 \in 1..Len(p) /\ (e + 1) - 1 = e
    BY <1>2
  <2> QED BY <1>2, <2>1, PrefixesIs
<1> HIDE DEF q, e, x, m, r
<1>6. /\ Len(q) \in Nat /\ Len(m) \in Nat /\ Len(r) \in Nat
      /\ m \o r \in Spelled /\ Len(m \o r) = Len(m) + Len(r)
      /\ \A i \in 1..(Len(m) + Len(r)) : (m \o r)[i] = IF i <= Len(m) THEN m[i] ELSE r[i - Len(m)]
  <2>1. q \in Seq(DOMAIN Fold) /\ m \in Seq(DOMAIN Fold) /\ r \in Seq(DOMAIN Fold)
    BY <1>1, <1>2 DEF Spelled
  <2> QED BY <2>1, LenProperties, ConcatProperties DEF Spelled
(* Where the names of the prefix begin the path of the directory, nothing  *)
(* of the path is left: the prefix would not be the longest.               *)
<1>7. ASSUME Boundary!Within(m, q),
             e < Len(p) => Len(m) < Len(q) /\ q[Len(m) + 1] = p[e + 1]
      PROVE  e = Len(p) /\ x \in Boundary!Ancestors(d)
  <2>1. Boundary!Straight(q)[Len(m)] = x /\ x \in Boundary!Ancestors(d)
    BY <1>1, <1>2, <1>3, <1>7, WithinLeads
  <2> SUFFICES ASSUME e < Len(p) PROVE FALSE
    BY <1>2, <2>1
  <2>2. Len(m) + 1 \in 1..Len(q) /\ (Len(m) + 1) - 1 = Len(m) /\ Len(m) + 1 \in 0..Len(q)
    BY <1>6, <1>7
  <2>3. Boundary!Straight(q)[Len(m) + 1] = Boundary!Entry(x, p[e + 1])
    BY <1>6, <1>7, <2>1, <2>2, StraightIs
  <2>4. Boundary!Entry(x, p[e + 1]) \in Boundary!Directories
    BY <1>1, <2>2, <2>3
  <2>5. Boundary!Follow(Boundary!Entry(x, p[e + 1])) = Boundary!Entry(x, p[e + 1])
    BY <2>4, FollowIs, NodesAre DEF Found
  <2>6. e + 1 \in (e + 1)..Len(p)
    BY <1>2
  <2> QED BY <1>4, <1>5, <2>4, <2>5, <2>6, NodesAre
<1>8. CASE Boundary!Within(q, m \o r)
  <2>1. Len(q) <= Len(m) + Len(r) /\ \A j \in 1..Len(q) : q[j] = (m \o r)[j]
    BY <1>1, <1>6, <1>8, WithinIs
  <2>2. CASE Len(q) <= Len(m)
    <3>1. \A j \in 1..Len(q) : q[j] = m[j]
      BY <1>6, <2>1, <2>2
    <3>2. Boundary!Within(q, m)
      BY <1>1, <1>2, <2>2, <3>1, WithinIs
    <3>3. d \in Boundary!Ancestors(x)
      BY <1>1, <1>2, <3>2, WithinLeads
    <3> QED BY <3>3, OverlapsIs DEF x, e
  <2>3. CASE Len(q) > Len(m)
    <3>1. \A j \in 1..Len(m) : m[j] = q[j]
      BY <1>6, <2>1, <2>3
    <3>2. Boundary!Within(m, q)
      BY <1>1, <1>2, <1>6, <2>3, <3>1, WithinIs
    <3>3. Len(m) < Len(q) /\ q[Len(m) + 1] = p[e + 1]
      <4>1. /\ Len(m) + 1 \in 1..Len(q) /\ Len(m) + 1 \in 1..(Len(m) + Len(r))
            /\ ~(Len(m) + 1 <= Len(m)) /\ (Len(m) + 1) - Len(m) = 1 /\ 1 \in 1..(Len(p) - e)
        BY <1>2, <1>6, <2>1, <2>3
      <4>2. q[Len(m) + 1] = r[1]
        BY <1>6, <2>1, <4>1
      <4> QED BY <1>2, <1>6, <2>3, <4>1, <4>2
    <3>4. e = Len(p)
      BY <1>7, <3>2, <3>3
    <3> QED BY <1>2, <1>6, <2>1, <2>3, <3>4
  <2> QED BY <1>6, <2>2, <2>3
<1>9. CASE Boundary!Within(m \o r, q)
  <2>1. Len(m) + Len(r) <= Len(q) /\ \A j \in 1..(Len(m) + Len(r)) : (m \o r)[j] = q[j]
    BY <1>1, <1>6, <1>9, WithinIs
  <2>2. Boundary!Within(m, q)
    <3>1. Len(m) <= Len(q) /\ \A j \in 1..Len(m) : m[j] = q[j]
      BY <1>6, <2>1
    <3> QED BY <1>1, <1>2, <3>1, WithinIs
  <2>3. e < Len(p) => Len(m) < Len(q) /\ q[Len(m) + 1] = p[e + 1]
    <3> SUFFICES ASSUME e < Len(p) PROVE Len(m) < Len(q) /\ q[Len(m) + 1] = p[e + 1]
      OBVIOUS
    <3>1. /\ Len(m) + 1 \in 1..(Len(m) + Len(r)) /\ ~(Len(m) + 1 <= Len(m))
          /\ (Len(m) + 1) - Len(m) = 1 /\ 1 \in 1..(Len(p) - e) /\ Len(m) < Len(q)
      BY <1>2, <1>6, <2>1
    <3>2. q[Len(m) + 1] = r[1]
      BY <1>6, <2>1, <3>1
    <3> QED BY <1>2, <3>1, <3>2
  <2>4. e = Len(p) /\ x \in Boundary!Ancestors(d)
    BY <1>7, <2>2, <2>3
  <2>5. Boundary!Stat(p) = x
    BY <2>4 DEF Boundary!Stat, x
  <2> QED BY <2>4, <2>5, OverlapsIs
<1>10. CASE Boundary!Stat(p) \in Boundary!Node /\ Boundary!AncestorIs(Boundary!Stat(p), q)
  <2>1. PICK i \in 0..Len(q) : Boundary!Prefixes(q)[i] = Boundary!Stat(p)
    BY <1>1, <1>10, AncestorIsIs
  <2>2. Boundary!Stat(p) \in Boundary!Ancestors(d)
    BY <1>1, <2>1
  <2> QED BY <2>2, OverlapsIs
<1>11. \/ Boundary!Within(q, m \o r) \/ Boundary!Within(m \o r, q)
       \/ Boundary!AncestorIs(d, p)
       \/ Boundary!Stat(p) \in Boundary!Node /\ Boundary!AncestorIs(Boundary!Stat(p), q)
  BY <1>1, <1>2 DEF Boundary!Overlap, q
<1> QED BY <1>8, <1>9, <1>10, <1>11

(* The answer to a question depends on the tree and the boundary only.     *)
LEMMA SameAnswers ==
    ASSUME UNCHANGED <<parent, name, target, folds, boundary>>
    PROVE  /\ \A p : Boundary!EnsureOutside(p)' <=> Boundary!EnsureOutside(p)
           /\ \A p : Boundary!NoLinks(p)' <=> Boundary!NoLinks(p)
           /\ \A p : Boundary!Visited(p)' = Boundary!Visited(p)
           /\ \A p : Boundary!Picked(p)' = Boundary!Picked(p)
<1>1. \A a, n : Boundary!Entry(a, n)' = Boundary!Entry(a, n)
  BY DEF Boundary!Entry, Boundary!Children, Boundary!Same
<1>2. \A p : Boundary!Straight(p)' = Boundary!Straight(p)
  BY <1>1 DEF Boundary!Straight
<1>3. \A n : Boundary!Follow(n)' = Boundary!Follow(n)
  BY <1>2 DEF Boundary!Follow, Boundary!Lstat
<1>4. \A p : Boundary!Prefixes(p)' = Boundary!Prefixes(p)
  BY <1>1, <1>3 DEF Boundary!Prefixes
<1>5. \A p : Boundary!Stat(p)' = Boundary!Stat(p)
  BY <1>4 DEF Boundary!Stat
<1>6. \A p : Boundary!EvalSymlinks(p)' = Boundary!EvalSymlinks(p)
  BY <1>1, <1>4 DEF Boundary!EvalSymlinks
<1>7. \A p : Boundary!Existing(p)' = Boundary!Existing(p)
  BY <1>4 DEF Boundary!Existing
<1>8. \A p : Boundary!Canonical(p)' = Boundary!Canonical(p)
  BY <1>6, <1>7 DEF Boundary!Canonical
<1>9. \A n, p : Boundary!AncestorIs(n, p)' <=> Boundary!AncestorIs(n, p)
  BY <1>5, <1>7 DEF Boundary!AncestorIs
<1>10. \A p, q : Boundary!Overlap(p, q)' <=> Boundary!Overlap(p, q)
  BY <1>5, <1>8, <1>9 DEF Boundary!Overlap
<1>11. \A p : Boundary!EnsureOutside(p)' <=> Boundary!EnsureOutside(p)
  BY <1>5, <1>10 DEF Boundary!EnsureOutside, Boundary!RootInPlace
<1>12. \A p : Boundary!NoLinks(p)' <=> Boundary!NoLinks(p)
  BY <1>1, <1>4, <1>5 DEF Boundary!NoLinks
<1>13. \A n : Boundary!Above(n)' = Boundary!Above(n)
  BY DEF Boundary!Above
<1>14. \A n : Boundary!Ancestors(n)' = Boundary!Ancestors(n) /\ Boundary!Depth(n)' = Boundary!Depth(n)
  BY <1>13 DEF Boundary!Ancestors, Boundary!Depth
<1>15. \A n : Boundary!PathOf(n)' = Boundary!PathOf(n)
  BY <1>13, <1>14 DEF Boundary!PathOf
<1>16. \A p : Boundary!Below(p)' = Boundary!Below(p)
  BY <1>5, <1>14, <1>15 DEF Boundary!Below
<1>17. \A p : Boundary!Ignores(p)' <=> Boundary!Ignores(p)
  BY <1>1, <1>4, <1>9 DEF Boundary!Ignores, Boundary!Cache
<1>18. \A p : Boundary!Visited(p)' = Boundary!Visited(p)
  BY <1>16, <1>17 DEF Boundary!Visited
<1>19. \A p : Boundary!Picked(p)' = Boundary!Picked(p)
  BY <1>17, <1>18 DEF Boundary!Picked
<1> QED BY <1>11, <1>12, <1>18, <1>19

(* The boundary, once it is found, is the paths of protected directories.  *)
BoundaryFound ==
    boundary # <<>> =>
        /\ boundary.state \in Spelled
        /\ \A d \in Protected : \E root \in boundary.roots : root.node = d
        /\ \A root \in boundary.roots : root.node \in Protected /\ root.path \in Spelled

Answered ==
    verdict # <<>> => /\ boundary # <<>> /\ verdict.path \in Paths
                      /\ verdict.outside <=> Boundary!EnsureOutside(verdict.path)

(* A walk has asked about every file it came to.                           *)
Walked ==
    picked # {} =>
        /\ verdict # <<>> /\ picked = Boundary!Picked(verdict.path) /\ Boundary!NoLinks(verdict.path)
        /\ \A f \in Boundary!Visited(verdict.path) :
              f.node \in Boundary!Regular => Boundary!EnsureOutside(f.path)

BoundaryInv ==
    /\ Tree /\ moves \in 0..MaxMoves /\ picked \subseteq Boundary!Regular
    /\ BoundaryFound /\ Answered /\ Walked

LEMMA TreeInit == Boundary!Init => Tree
<1> SUFFICES ASSUME Boundary!Init PROVE Tree
  OBVIOUS
<1>1. parent = Layout /\ name = Spelling
  BY DEF Boundary!Init
<1>2. ASSUME NEW n \in Boundary!Movable PROVE Boundary!Children(parent[n], name[n]) = {n}
  <2>1. n \in Boundary!Children(parent[n], name[n])
    BY SameIs DEF Boundary!Children
  <2>2. ASSUME NEW c \in Boundary!Children(parent[n], name[n]) PROVE c = n
    <3>1. c \in Boundary!Movable /\ Layout[c] = Layout[n] /\ Boundary!Same(Spelling[c], Spelling[n])
      BY <1>1, <2>2 DEF Boundary!Children
    <3>2. Fold[Spelling[c]] = Fold[Spelling[n]]
      BY <3>1 DEF Boundary!Same
    <3> QED BY <3>1, <3>2, BoundaryAssumption
  <2> QED BY <2>1, <2>2
<1>3. \A C \in SUBSET Boundary!Node :
         C # {} /\ (\A n \in C \ {Top} : parent[n] \in C) => Top \in C
  BY <1>1, BoundaryAssumption DEF Boundary!Node
<1> QED BY <1>1, <1>2, <1>3, BoundaryAssumption DEF Tree, Boundary!Init

(* What is moved is not moved below itself, nor to a name that is taken.   *)
LEMMA TreeMove ==
    ASSUME Tree, NEW n \in Boundary!Movable, NEW d \in Boundary!Directories,
           NEW m \in DOMAIN Fold, Boundary!Move(n, d, m)
    PROVE  Tree'
<1>1. /\ parent' = [parent EXCEPT ![n] = d] /\ name' = [name EXCEPT ![n] = m]
      /\ n \notin Boundary!Ancestors(d) /\ Boundary!Children(d, m) \ {n} = {}
      /\ UNCHANGED <<target, folds>>
  BY DEF Boundary!Move
<1>2. parent \in [Boundary!Movable -> Boundary!Directories] /\ name \in [Boundary!Movable -> DOMAIN Fold]
  BY DEF Tree
<1>3. /\ parent' \in [Boundary!Movable -> Boundary!Directories]
      /\ name' \in [Boundary!Movable -> DOMAIN Fold]
      /\ \A c \in Boundary!Movable : /\ parent'[c] = IF c = n THEN d ELSE parent[c]
                                     /\ name'[c] = IF c = n THEN m ELSE name[c]
  BY <1>1, <1>2
<1>4. ASSUME NEW C \in SUBSET Boundary!Node, C # {}, \A c \in C \ {Top} : parent'[c] \in C
      PROVE  Top \in C
  <2>1. \A c \in C \ {Top} : c \in Boundary!Movable
    BY NodesAre
  <2>2. CASE n \notin C
    <3>1. \A c \in C \ {Top} : parent[c] \in C
      BY <1>3, <1>4, <2>1, <2>2
    <3> QED BY <1>4, <3>1 DEF Tree
  <2>3. CASE n \in C
    <3> DEFINE A == Boundary!Ancestors(d)
               B == C \cap A
    <3>1. d \in A /\ \A c \in A \ {Top} : parent[c] \in A
      BY NodesAre, AncestorsAre
    <3>2. d \in C
      BY <1>3, <1>4, <2>3, NodesAre
    <3>3. \A c \in B \ {Top} : parent[c] \in B
      BY <1>1, <1>3, <1>4, <2>1, <3>1
    <3>4. B \in SUBSET Boundary!Node /\ B # {}
      BY <3>1, <3>2
    <3>5. Top \in B
      <4> HIDE DEF B
      <4> QED BY <3>3, <3>4 DEF Tree
    <3> QED BY <3>5
  <2> QED BY <2>2, <2>3
<1>5. ASSUME NEW c \in Boundary!Movable
      PROVE  {b \in Boundary!Movable : parent'[b] = parent'[c] /\ Boundary!Same(name'[b], name'[c])} = {c}
  <2>1. Boundary!Same(name'[c], name'[c])
    BY SameIs
  <2>2. ASSUME NEW b \in Boundary!Movable, parent'[b] = parent'[c], Boundary!Same(name'[b], name'[c]),
               b # c
        PROVE  FALSE
    <3>1. CASE b # n /\ c # n
      <4>1. b \in Boundary!Children(parent[c], name[c])
        BY <1>3, <2>2, <3>1 DEF Boundary!Children
      <4> QED BY <2>2, <4>1 DEF Tree
    <3>2. CASE c = n
      <4>1. b \in Boundary!Children(d, m)
        BY <1>3, <2>2, <3>2 DEF Boundary!Children
      <4> QED BY <1>1, <2>2, <3>2, <4>1
    <3>3. CASE b = n
      <4>1. Boundary!Same(name'[c], name'[b])
        BY <2>2, SameIs
      <4>2. c \in Boundary!Children(d, m)
        BY <1>3, <2>2, <3>3, <4>1 DEF Boundary!Children
      <4> QED BY <1>1, <2>2, <3>3, <4>2
    <3> QED BY <3>1, <3>2, <3>3
  <2> QED BY <2>1, <2>2
<1>6. \A c \in Boundary!Movable : Boundary!Children(parent[c], name[c])' = {c}
  BY <1>1, <1>5 DEF Boundary!Children, Boundary!Same
<1> QED BY <1>1, <1>3, <1>4, <1>6 DEF Tree

LEMMA BoundaryInit == Boundary!Init => BoundaryInv
  BY TreeInit, BoundaryAssumption DEF Boundary!Init, BoundaryInv, BoundaryFound, Answered, Walked

LEMMA BoundaryNext == BoundaryInv /\ [Boundary!Next]_(Boundary!vars) => BoundaryInv'
<1> SUFFICES ASSUME BoundaryInv, [Boundary!Next]_(Boundary!vars) PROVE BoundaryInv'
  OBVIOUS
<1>1. ASSUME UNCHANGED <<parent, name, target, folds, moves>>
      PROVE  Tree' /\ moves' \in 0..MaxMoves
  BY <1>1 DEF BoundaryInv, Tree, Boundary!Children, Boundary!Same
<1>2. CASE UNCHANGED Boundary!vars
  <2>1. UNCHANGED <<parent, name, target, folds, moves, boundary, verdict, picked>>
    BY <1>2 DEF Boundary!vars, Boundary!tree
  <2>2. Answered' /\ Walked'
    BY <2>1, SameAnswers DEF BoundaryInv, Answered, Walked
  <2> QED BY <1>1, <2>1, <2>2 DEF BoundaryInv, BoundaryFound
<1>3. CASE Boundary!Load
  <2>1. /\ boundary = <<>> /\ UNCHANGED <<parent, name, target, folds, moves, verdict, picked>>
        /\ boundary' = [roots |-> {[path |-> Boundary!PathOf(n), node |-> n] : n \in Protected},
                        state |-> Boundary!PathOf(StateDir), files |-> Boundary!StateFiles]
    BY <1>3 DEF Boundary!Load, Boundary!tree
  <2>2. \A n \in Protected \cup {StateDir} : Boundary!PathOf(n) \in Spelled
    BY PathOfLeads, NodesAre DEF BoundaryInv
  <2>3. BoundaryFound'
    <3> DEFINE R(n) == [path |-> Boundary!PathOf(n), node |-> n]
    <3>1. boundary'.state = Boundary!PathOf(StateDir) /\ boundary'.roots = {R(n) : n \in Protected}
      BY <2>1
    <3>2. \A n \in Protected : R(n).node = n /\ R(n).path \in Spelled /\ R(n) \in boundary'.roots
      BY <2>2, <3>1
    <3>3. \A root \in boundary'.roots : \E n \in Protected : root = R(n)
      BY <3>1
    <3> HIDE DEF R
    <3> QED BY <2>2, <3>1, <3>2, <3>3 DEF BoundaryFound
  <2>4. Answered' /\ Walked'
    BY <2>1 DEF BoundaryInv, Answered, Walked
  <2> QED BY <1>1, <2>1, <2>3, <2>4 DEF BoundaryInv
<1>4. ASSUME NEW p \in Paths, Boundary!Check(p) PROVE BoundaryInv'
  <2>1. /\ boundary # <<>> /\ UNCHANGED <<parent, name, target, folds, moves, boundary>>
        /\ verdict' = [path |-> p, outside |-> Boundary!EnsureOutside(p)] /\ picked' = {}
    BY <1>4 DEF Boundary!Check, Boundary!Ready, Boundary!tree
  <2>2. Answered'
    BY <2>1, SameAnswers DEF Answered
  <2> QED BY <1>1, <2>1, <2>2 DEF BoundaryInv, BoundaryFound, Walked
<1>5. ASSUME NEW p \in Paths, Boundary!Collect(p) PROVE BoundaryInv'
  <2>1. /\ boundary # <<>> /\ UNCHANGED <<parent, name, target, folds, moves, boundary>>
        /\ verdict' = [path |-> p, outside |-> TRUE] /\ picked' = Boundary!Picked(p)
        /\ Boundary!EnsureOutside(p) /\ Boundary!NoLinks(p)
        /\ \A f \in Boundary!Visited(p) : f.node \in Boundary!Regular => Boundary!EnsureOutside(f.path)
    BY <1>5 DEF Boundary!Collect, Boundary!Ready, Boundary!tree
  <2>2. Answered'
    BY <2>1, SameAnswers DEF Answered
  <2>3. Boundary!Picked(p) \subseteq Boundary!Regular
    BY DEF Boundary!Picked
  <2>4. Walked'
    <3>1. verdict'.path = p /\ verdict' # <<>>
      BY <2>1
    <3> QED BY <2>1, <3>1, SameAnswers DEF Walked
  <2> QED BY <1>1, <2>1, <2>2, <2>3, <2>4 DEF BoundaryInv, BoundaryFound
<1>6. ASSUME NEW n \in Boundary!Movable, NEW d \in Boundary!Directories, NEW m \in DOMAIN Fold,
             Boundary!Move(n, d, m)
      PROVE  BoundaryInv'
  <2>1. /\ moves < MaxMoves /\ moves' = moves + 1 /\ verdict = <<>>
        /\ UNCHANGED <<boundary, verdict, picked>>
    BY <1>6 DEF Boundary!Move
  <2>2. moves' \in 0..MaxMoves
    BY <2>1, BoundaryAssumption DEF BoundaryInv
  <2> QED BY <1>6, <2>1, <2>2, TreeMove DEF BoundaryInv, BoundaryFound, Answered, Walked
<1> QED BY <1>2, <1>3, <1>4, <1>5, <1>6 DEF Boundary!Next

LEMMA BoundaryInvariance == Boundary!Spec => []BoundaryInv
BY BoundaryInit, BoundaryNext, PTL DEF Boundary!Spec

(* What passes is outside.                                                 *)
LEMMA Outside ==
    ASSUME BoundaryInv, boundary # <<>>, folds => Boundary!SpelledAlike,
           NEW p \in Spelled, Boundary!EnsureOutside(p)
    PROVE  /\ \A d \in Protected : ~Boundary!Overlaps(d, p)
           /\ Boundary!StateInPlace => ~Boundary!Overlaps(StateDir, p)
           /\ Boundary!Stat(p) \notin boundary.files
<1>1. /\ Tree /\ boundary.state \in Spelled
      /\ \A d \in Protected : \E root \in boundary.roots : root.node = d
      /\ \A root \in boundary.roots : root.node \in Protected /\ root.path \in Spelled
  BY DEF BoundaryInv, BoundaryFound
<1>2. /\ ~Boundary!Overlap(boundary.state, p) /\ Boundary!Stat(p) \notin boundary.files
      /\ \A root \in boundary.roots :
            Boundary!Stat(root.path) = root.node /\ ~Boundary!Overlap(root.path, p)
  BY DEF Boundary!EnsureOutside, Boundary!RootInPlace
<1>3. folds => LinksAlike
  BY DEF Boundary!SpelledAlike, LinksAlike
<1>4. ASSUME NEW d \in Protected PROVE ~Boundary!Overlaps(d, p)
  <2>1. PICK root \in boundary.roots : root.node = d
    BY <1>1
  <2>2. folds => root.path = Boundary!PathOf(d)
    BY <2>1 DEF Boundary!SpelledAlike
  <2>3. d \in Boundary!Directories /\ root.path \in Spelled
    BY <1>1, NodesAre
  <2> QED BY <1>1, <1>2, <1>3, <2>1, <2>2, <2>3, Detected
<1>5. ASSUME Boundary!StateInPlace PROVE ~Boundary!Overlaps(StateDir, p)
  <2>1. boundary.state = Boundary!PathOf(StateDir) /\ StateDir \in Boundary!Directories
    BY <1>5, NodesAre DEF Boundary!StateInPlace
  <2>2. Boundary!Stat(boundary.state) = StateDir
    BY <1>1, <2>1, OfPathOf
  <2> QED BY <1>1, <1>2, <1>3, <2>1, <2>2, Detected
<1> QED BY <1>2, <1>4, <1>5

LEMMA BoundaryTypes == BoundaryInv => Boundary!TypeOK
<1> SUFFICES ASSUME BoundaryInv PROVE Boundary!TypeOK
  OBVIOUS
<1>1. \A n \in Boundary!Node : Top \in Boundary!Ancestors(n)
  BY AncestorsAre DEF BoundaryInv
<1> QED BY <1>1 DEF BoundaryInv, Tree, Boundary!TypeOK

(* Where a walk from path finds n.                                         *)
Way(path, n) ==
    path \o Boundary!Rest(Boundary!PathOf(n), Len(Boundary!PathOf(Boundary!Stat(path))))

(* The path of a file below a directory passes through what is between.    *)
LEMMA Descent ==
    ASSUME Tree, NEW path \in Spelled, Boundary!Stat(path) \in Boundary!Node,
           NEW n \in Boundary!Node \ Boundary!Links, Boundary!Stat(path) \in Boundary!Ancestors(n)
    PROVE  /\ Way(path, n) \in Spelled /\ Len(path) \in 0..Len(Way(path, n)) /\ Len(Way(path, n)) \in Nat
           /\ \A k \in 1..Len(path) : Way(path, n)[k] = path[k]
           /\ \A k \in 0..Len(path) : Boundary!Prefixes(Way(path, n))[k] = Boundary!Prefixes(path)[k]
           /\ \A k \in (Len(path) + 1)..Len(Way(path, n)) :
                 /\ Boundary!Prefixes(Way(path, n))[k]
                      = Boundary!Entry(Boundary!Prefixes(Way(path, n))[k - 1], Way(path, n)[k])
                 /\ Boundary!Prefixes(Way(path, n))[k] \in Boundary!Ancestors(n)
           /\ Boundary!Stat(Way(path, n)) = n
           /\ \A a \in Boundary!Ancestors(n) :
                 \/ a \in Boundary!Ancestors(Boundary!Stat(path))
                 \/ \E k \in Len(path)..Len(Way(path, n)) : Boundary!Prefixes(Way(path, n))[k] = a
<1> DEFINE d == Boundary!Stat(path)
           f == Way(path, n)
           s == Boundary!PathOf(n)
           q == Boundary!PathOf(d)
           t == Boundary!Rest(s, Len(q))
           w == Boundary!Straight(s)
           v == Boundary!Prefixes(f)
           L == Len(path)
           m == Len(s) - Len(q)
<1>1. /\ s \in Spelled /\ q \in Spelled /\ Boundary!Lstat(s) = n /\ Boundary!Lstat(q) = d
      /\ Boundary!Within(q, s)
  BY PathOfLeads, PathOfWithin
<1> HIDE DEF d, s, q, f
<1>2. Len(s) \in Nat /\ Len(q) \in Nat /\ L \in Nat /\ Len(q) <= Len(s) /\ Len(q) \in 0..Len(s)
      /\ m \in Nat
  BY <1>1, WithinIs, LenProperties DEF Spelled
<1>3. w[Len(q)] = d /\ w[Len(s)] = n
  BY <1>1, WithinLeads DEF Boundary!Lstat
<1>4. /\ \A i \in 1..Len(s) : w[i] = Boundary!Entry(w[i - 1], s[i])
      /\ \A i \in 0..Len(s) : w[i] \in Found
  BY <1>1, <1>2, StraightIs
<1>5. Boundary!Ancestors(n) = {w[j] : j \in 0..Len(s)} /\ Boundary!Ancestors(d) = {w[j] : j \in 0..Len(q)}
  <2>1. d \in Boundary!Node
    BY DEF d
  <2>2. Len(s) \in 0..Len(s)
    BY <1>2
  <2> QED BY <1>1, <1>2, <1>3, <2>1, <2>2, StraightAncestors
<1>6. /\ t \in Spelled /\ Len(t) = m /\ \A j \in 1..m : t[j] = s[Len(q) + j]
  BY <1>1, <1>2, PrefixIs
<1> HIDE DEF t
<1>7. /\ f \in Spelled /\ Len(f) = L + m
      /\ \A i \in 1..(L + m) : f[i] = IF i <= L THEN path[i] ELSE t[i - L]
  <2>1. f = path \o t
    BY DEF d, s, q, t, f, Way
  <2>2. path \in Seq(DOMAIN Fold) /\ t \in Seq(DOMAIN Fold)
    BY <1>6 DEF Spelled
  <2>3. /\ path \o t \in Seq(DOMAIN Fold) /\ Len(path \o t) = Len(path) + Len(t)
        /\ \A i \in 1..(Len(path) + Len(t)) :
              (path \o t)[i] = IF i <= Len(path) THEN path[i] ELSE t[i - Len(path)]
    BY <2>2, ConcatProperties
  <2> HIDE DEF m
  <2> QED BY <1>6, <2>1, <2>3 DEF Spelled
<1>8. \A k \in 1..L : f[k] = path[k]
  BY <1>2, <1>7
<1>9. \A k \in 1..m : f[L + k] = s[Len(q) + k]
  <2> SUFFICES ASSUME NEW k \in 1..m PROVE f[L + k] = s[Len(q) + k]
    OBVIOUS
  <2>1. L + k \in 1..(L + m) /\ ~(L + k <= L) /\ (L + k) - L = k
    BY <1>2
  <2> QED BY <1>6, <1>7, <2>1
<1>10. \A k \in 0..L : v[k] = Boundary!Prefixes(path)[k]
  <2>1. L <= Len(f) /\ L <= L
    BY <1>2, <1>7
  <2> QED BY <1>2, <1>7, <1>8, <2>1, Local
<1>11. \A k \in 1..Len(f) : v[k] = Boundary!Follow(Boundary!Entry(v[k - 1], f[k]))
  <2>1. Len(f) \in Nat
    BY <1>2, <1>7
  <2> QED BY <2>1, PrefixesIs
<1>12. \A j \in 0..Len(s) : w[j] \notin Boundary!Links
  BY <1>5, AncestorsOf, NodesAre
<1> HIDE DEF w, v, L, m
<1> DEFINE S == {k \in 0..m : v[L + k] = w[Len(q) + k]}
<1>13. ASSUME NEW k \in 0..m, k \in S, k < m
       PROVE  /\ k + 1 \in S
              /\ v[L + k + 1] = Boundary!Entry(v[L + k], f[L + k + 1])
  <2>1. /\ k + 1 \in 1..m /\ k + 1 \in 0..m /\ L + (k + 1) \in 1..Len(f) /\ (L + (k + 1)) - 1 = L + k
        /\ Len(q) + (k + 1) \in 1..Len(s) /\ (Len(q) + (k + 1)) - 1 = Len(q) + k
        /\ Len(q) + (k + 1) \in 0..Len(s) /\ L + k + 1 = L + (k + 1)
    <3>1. Len(f) = L + m /\ k \in 0..m /\ k < m /\ Len(s) = Len(q) + m
      BY <1>2, <1>7, <1>13 DEF m
    <3> QED BY <1>2, <3>1
  <2> DEFINE y == Boundary!Entry(v[L + k], f[L + (k + 1)])
  <2>2. y = w[Len(q) + (k + 1)]
    BY <1>4, <1>9, <1>13, <2>1
  <2>3. v[L + (k + 1)] = Boundary!Follow(y)
    BY <1>11, <2>1
  <2>4. y \in Found /\ y \notin Boundary!Links
    BY <1>4, <1>12, <2>1, <2>2
  <2> HIDE DEF y
  <2>5. v[L + (k + 1)] = y
    BY <2>3, <2>4, FollowIs
  <2> QED BY <2>1, <2>2, <2>5 DEF y
<1>14. 0..m \subseteq S
  <2>1. 0 \in S
    <3>1. L \in 0..L /\ L + 0 = L /\ Len(q) + 0 = Len(q) /\ 0 \in 0..m
      BY <1>2
    <3>2. v[L] = d
      BY <1>10, <3>1 DEF d, L, Boundary!Stat
    <3> QED BY <1>3, <3>1, <3>2
  <2> HIDE DEF S
  <2> QED BY <1>2, <1>13, <2>1, UpTo
<1>15. ASSUME NEW k \in (L + 1)..Len(f)
       PROVE  v[k] = Boundary!Entry(v[k - 1], f[k]) /\ v[k] \in Boundary!Ancestors(n)
  <2> DEFINE i == k - L - 1
  <2>1. /\ i \in 0..m /\ i < m /\ L + i + 1 = k /\ L + i = k - 1 /\ i + 1 \in 0..m
        /\ L + (i + 1) = k /\ Len(q) + (i + 1) \in 0..Len(s)
    BY <1>2, <1>7 DEF m
  <2> HIDE DEF i
  <2>2. v[k] = Boundary!Entry(v[k - 1], f[k])
    BY <1>13, <1>14, <2>1
  <2>3. v[k] = w[Len(q) + (i + 1)]
    BY <1>14, <2>1
  <2> QED BY <1>5, <2>1, <2>2, <2>3
<1>16. Boundary!Stat(f) = n
  <2>1. m \in 0..m /\ L + m = Len(f) /\ Len(q) + m = Len(s)
    BY <1>2, <1>7 DEF m
  <2> QED BY <1>3, <1>14, <2>1 DEF Boundary!Stat, v
<1>17. ASSUME NEW a \in Boundary!Ancestors(n)
       PROVE  a \in Boundary!Ancestors(d) \/ \E k \in L..Len(f) : v[k] = a
  <2>1. PICK j \in 0..Len(s) : a = w[j]
    BY <1>5
  <2>2. CASE j <= Len(q)
    <3>1. j \in 0..Len(q)
      BY <1>2, <2>2
    <3> QED BY <1>5, <2>1, <3>1
  <2>3. CASE j > Len(q)
    <3>1. /\ j - Len(q) \in 0..m /\ Len(q) + (j - Len(q)) = j
          /\ L + (j - Len(q)) \in L..Len(f)
      BY <1>2, <1>7, <2>3 DEF m
    <3>2. v[L + (j - Len(q))] = a
      BY <1>14, <2>1, <3>1
    <3> QED BY <3>1, <3>2
  <2> QED BY <1>2, <2>2, <2>3
<1>18. L \in 0..Len(f) /\ Len(f) \in Nat
  BY <1>2, <1>7
<1> QED BY <1>7, <1>8, <1>10, <1>15, <1>16, <1>17, <1>18 DEF L, v, d, f

(* Without links below a root, what is above the place a path leads to is  *)
(* above the root or was passed.                                           *)
LEMMA BelowRoot ==
    ASSUME Tree, NEW path \in Spelled, NEW root \in Spelled, Boundary!Within(root, path),
           Boundary!Stat(root) \in Boundary!Node,
           \A i \in (Len(root) + 1)..Len(path) :
              Boundary!Entry(Boundary!Prefixes(path)[i - 1], path[i]) \in Boundary!Node \ Boundary!Links
    PROVE  /\ Boundary!Stat(path) \in Boundary!Node
           /\ \A a \in Boundary!Ancestors(Boundary!Stat(path)) :
                 \/ a \in Boundary!Ancestors(Boundary!Stat(root))
                 \/ \E k \in 0..Len(path) : Boundary!Prefixes(path)[k] = a
<1> DEFINE w == Boundary!Prefixes(path)
           r == Boundary!Stat(root)
           R == Len(root)
           m == Len(path) - Len(root)
           Q(i) == /\ w[i] \in Boundary!Node
                   /\ \A a \in Boundary!Ancestors(w[i]) :
                         a \in Boundary!Ancestors(r) \/ \E k \in 0..i : w[k] = a
           S == {k \in 0..m : Q(R + k)}
<1>1. /\ R \in Nat /\ Len(path) \in Nat /\ R <= Len(path) /\ \A j \in 1..R : root[j] = path[j]
  BY WithinIs, LenProperties DEF Spelled
<1>2. /\ \A i \in 1..Len(path) : w[i] = Boundary!Follow(Boundary!Entry(w[i - 1], path[i]))
      /\ \A i \in 0..Len(path) : w[i] \in Found
  BY <1>1, PrefixesIs
<1>3. w[R] = r
  <2>1. R <= R /\ R \in 0..R
    BY <1>1
  <2> QED BY <1>1, <2>1, Local DEF Boundary!Stat
<1>4. \A i \in (R + 1)..Len(path) : Boundary!Entry(w[i - 1], path[i]) \in Boundary!Node \ Boundary!Links
  OBVIOUS
<1>5. r \in Boundary!Node /\ m \in Nat /\ R + m = Len(path)
  BY <1>1
<1> HIDE DEF w, r, R, m
<1>6. 0 \in S
  <2>1. R + 0 = R /\ 0 \in 0..m
    BY <1>1, <1>5
  <2> QED BY <1>3, <1>5, <2>1
<1>7. ASSUME NEW k \in 0..m, k \in S, k < m PROVE k + 1 \in S
  <2> DEFINE i == R + (k + 1)
             y == Boundary!Entry(w[R + k], path[i])
  <2>1. /\ i \in 1..Len(path) /\ i - 1 = R + k /\ i \in (R + 1)..Len(path) /\ k + 1 \in 0..m
        /\ R + k \in 0..Len(path) /\ i \in 0..i /\ \A j \in 0..(R + k) : j \in 0..i
    BY <1>1, <1>5, <1>7
  <2>2. w[i] = Boundary!Follow(y) /\ y \in Boundary!Node \ Boundary!Links
    BY <1>2, <1>4, <2>1
  <2> HIDE DEF i
  <2>3. w[R + k] \in Found /\ y \in Found
    BY <1>2, <2>1, EntryIs
  <2>4. y \in Boundary!Movable /\ parent[y] = w[R + k]
    BY <2>2, <2>3, EntryIs, NodesAre
  <2> HIDE DEF y
  <2>5. w[i] = y
    BY <2>2, <2>3, FollowIs
  <2>6. Boundary!Ancestors(w[i]) = {w[i]} \cup Boundary!Ancestors(w[R + k])
    BY <2>4, <2>5, AncestorsOf
  <2>7. Q(R + k)
    BY <1>7
  <2>8. Q(i)
    BY <2>1, <2>2, <2>5, <2>6, <2>7
  <2> QED BY <2>1, <2>8 DEF i
<1>8. m \in S
  <2>1. 0..m \subseteq S
    <3> HIDE DEF S
    <3> QED BY <1>5, <1>6, <1>7, UpTo
  <2> QED BY <1>5, <2>1
<1>9. Q(Len(path))
  BY <1>5, <1>8
<1>10. Boundary!Stat(path) = w[Len(path)]
  BY DEF Boundary!Stat, w
<1> QED BY <1>9, <1>10 DEF w, r

(* A prefix is ignored for its names or for what it passes through.        *)
LEMMA IgnoresIs ==
    ASSUME Tree, NEW f \in Spelled, Boundary!Stat(f) \in Boundary!Node, NEW i \in 0..Len(f)
    PROVE  Boundary!Ignores(Boundary!Prefix(f, i)) <=>
              \/ Len(CachePath) <= i /\ \A j \in 1..Len(CachePath) : CachePath[j] = f[j]
              \/ /\ Boundary!Cache \in Boundary!Directories
                 /\ \E k \in 0..i : Boundary!Prefixes(f)[k] = Boundary!Cache
<1> DEFINE q == Boundary!Prefix(f, i)
<1>1. Len(f) \in Nat /\ q \in Spelled /\ Len(q) = i /\ \A j \in 1..i : q[j] = f[j]
  BY PrefixIs
<1>2. CachePath \in Spelled /\ Len(CachePath) \in Nat
  BY BoundaryAssumption, LenProperties DEF Spelled
<1>3. i <= Len(f) /\ i <= Len(q) /\ i \in Nat
  BY <1>1
<1>4. Boundary!Stat(q) = Boundary!Prefixes(f)[i]
  BY OfPrefix
<1> HIDE DEF q
<1>5. \A k \in 0..i : Boundary!Prefixes(q)[k] = Boundary!Prefixes(f)[k]
  BY <1>1, <1>3, Local
<1>6. Boundary!Existing(q) = i
  <2>1. i \in 0..Boundary!Existing(f)
    BY ExistingIs
  <2>2. Boundary!Stat(q) \in Boundary!Node
    BY <1>4, <2>1, ExistingIs
  <2> QED BY <1>1, <2>2, ExistingIs
<1>7. Boundary!AncestorIs(Boundary!Cache, q) <=> \E k \in 0..i : Boundary!Prefixes(f)[k] = Boundary!Cache
  BY <1>1, <1>5, <1>6, AncestorIsIs
<1>8. Boundary!Within(CachePath, q) <=>
         Len(CachePath) <= i /\ \A j \in 1..Len(CachePath) : CachePath[j] = f[j]
  <2>1. Boundary!Within(CachePath, q) <=>
           Len(CachePath) <= i /\ \A j \in 1..Len(CachePath) : CachePath[j] = q[j]
    BY <1>1, <1>2, WithinIs
  <2>2. Len(CachePath) <= i => \A j \in 1..Len(CachePath) : q[j] = f[j]
    BY <1>1, <1>2
  <2> QED BY <2>1, <2>2
<1> QED BY <1>7, <1>8 DEF Boundary!Ignores, q

LEMMA IgnoredFurther ==
    ASSUME Tree, NEW f \in Spelled, Boundary!Stat(f) \in Boundary!Node,
           NEW i \in 0..Len(f), NEW j \in i..Len(f), Boundary!Ignores(Boundary!Prefix(f, i))
    PROVE  Boundary!Ignores(Boundary!Prefix(f, j)) /\ Boundary!Ignores(f)
<1>1. Len(f) \in Nat /\ Len(CachePath) \in Nat
  BY BoundaryAssumption, LenProperties DEF Spelled
<1>2. ASSUME NEW k \in i..Len(f) PROVE Boundary!Ignores(Boundary!Prefix(f, k))
  <2>1. k \in 0..Len(f) /\ i <= k
    BY <1>1
  <2>2. \/ Len(CachePath) <= i /\ \A l \in 1..Len(CachePath) : CachePath[l] = f[l]
        \/ /\ Boundary!Cache \in Boundary!Directories
           /\ \E l \in 0..i : Boundary!Prefixes(f)[l] = Boundary!Cache
    BY IgnoresIs
  <2>3. Len(CachePath) <= i => Len(CachePath) <= k
    BY <1>1, <2>1
  <2>4. \A l \in 0..i : l \in 0..k
    BY <2>1
  <2> QED BY <2>1, <2>2, <2>3, <2>4, IgnoresIs
<1>3. Len(f) \in i..Len(f) /\ Len(f) \in 0..Len(f)
  BY <1>1
<1>4. Boundary!Prefix(f, Len(f)) = f
  BY <1>3, PrefixIs
<1> QED BY <1>2, <1>3, <1>4

LEMMA PickedIs ==
    ASSUME Tree, NEW p \in Spelled, Boundary!Stat(p) \in Boundary!Node
    PROVE  \A n : n \in Boundary!Picked(p) <=>
              /\ n \in Boundary!Regular /\ Boundary!Stat(p) \in Boundary!Ancestors(n)
              /\ ~Boundary!Ignores(Way(p, n))
              /\ \E f \in Boundary!Visited(p) : f.node = n /\ f.path = Way(p, n)
<1> DEFINE d == Boundary!Stat(p)
           F(n) == [node |-> n, path |-> Way(p, n)]
           M == {n \in Boundary!Regular \cup Boundary!Links : d \in Boundary!Ancestors(n)}
<1>1. Boundary!Below(p) = {F(n) : n \in M}
  BY DEF Boundary!Below, Way
<1>2. Boundary!Visited(p) = {f \in Boundary!Below(p) :
                               \A i \in Len(p)..(Len(f.path) - 1) : ~Boundary!Ignores(Boundary!Prefix(f.path, i))}
  BY DEF Boundary!Visited
<1>3. \A n : F(n).node = n /\ F(n).path = Way(p, n)
  OBVIOUS
<1>4. \A f \in Boundary!Visited(p) : f.path = Way(p, f.node) /\ f.node \in M
  <2> HIDE DEF F, M
  <2> QED BY <1>1, <1>2, <1>3
<1>5. Boundary!Picked(p)
         = {f.node : f \in {g \in Boundary!Visited(p) :
                               g.node \in Boundary!Regular /\ ~Boundary!Ignores(g.path)}}
  BY DEF Boundary!Picked
<1> SUFFICES ASSUME NEW n
             PROVE  n \in Boundary!Picked(p) <=>
                       /\ n \in Boundary!Regular /\ d \in Boundary!Ancestors(n)
                       /\ ~Boundary!Ignores(Way(p, n))
                       /\ \E f \in Boundary!Visited(p) : f.node = n /\ f.path = Way(p, n)
  OBVIOUS
<1> HIDE DEF F
<1>6. ASSUME n \in Boundary!Picked(p)
      PROVE  /\ n \in Boundary!Regular /\ d \in Boundary!Ancestors(n)
             /\ ~Boundary!Ignores(Way(p, n))
             /\ \E f \in Boundary!Visited(p) : f.node = n /\ f.path = Way(p, n)
  <2>1. PICK f \in Boundary!Visited(p) :
           f.node = n /\ f.node \in Boundary!Regular /\ ~Boundary!Ignores(f.path)
    BY <1>5, <1>6
  <2> QED BY <1>4, <2>1
<1>7. ASSUME n \in Boundary!Regular, ~Boundary!Ignores(Way(p, n)),
             NEW f \in Boundary!Visited(p), f.node = n, f.path = Way(p, n)
      PROVE  n \in Boundary!Picked(p)
  BY <1>5, <1>7
<1> QED BY <1>6, <1>7

(* What is not ignored is visited.                                         *)
LEMMA VisitedIs ==
    ASSUME Tree, NEW p \in Spelled, Boundary!Stat(p) \in Boundary!Node,
           NEW n \in Boundary!Regular, Boundary!Stat(p) \in Boundary!Ancestors(n),
           ~Boundary!Ignores(Way(p, n))
    PROVE  \E f \in Boundary!Visited(p) : f.node = n /\ f.path = Way(p, n)
<1> DEFINE w == Way(p, n)
           f == [node |-> n, path |-> w]
<1>1. f \in Boundary!Below(p)
  BY DEF Boundary!Below, Way
<1>2. n \in Boundary!Node \ Boundary!Links
  BY DEF Boundary!Regular, Boundary!Links
<1>3. w \in Spelled /\ Len(p) \in 0..Len(w) /\ Len(w) \in Nat /\ Boundary!Stat(w) \in Boundary!Node
  BY <1>2, Descent
<1>4. f.node = n /\ f.path = w
  OBVIOUS
<1> HIDE DEF f, w
<1>5. ASSUME NEW i \in Len(p)..(Len(w) - 1) PROVE ~Boundary!Ignores(Boundary!Prefix(w, i))
  <2>1. i \in 0..Len(w) /\ Len(w) \in i..Len(w)
    BY <1>3
  <2> QED BY <1>3, <2>1, IgnoredFurther DEF w
<1>6. f \in Boundary!Visited(p)
  BY <1>1, <1>4, <1>5 DEF Boundary!Visited
<1> QED BY <1>4, <1>6 DEF w

(* Where the cache is known, what is ignored of a walk that picks anything *)
(* is what is below the cache.                                             *)
LEMMA IgnoredIsCached ==
    ASSUME Tree, Boundary!CacheIsKnown, NEW p \in Spelled, Boundary!NoLinks(p),
           Boundary!Stat(p) \in Boundary!Node, ~Boundary!Ignores(p),
           NEW n \in Boundary!Regular, Boundary!Stat(p) \in Boundary!Ancestors(n)
    PROVE  Boundary!Ignores(Way(p, n)) <=> Boundary!Cache \in Boundary!Ancestors(n)
<1> DEFINE w == Way(p, n)
           v == Boundary!Prefixes(w)
           c == Boundary!Cache
           K == Len(CachePath)
<1>1. n \in Boundary!Node \ Boundary!Links
  BY DEF Boundary!Regular, Boundary!Links
<1>2. /\ w \in Spelled /\ Len(p) \in 0..Len(w) /\ Len(w) \in Nat
      /\ \A k \in 1..Len(p) : w[k] = p[k]
      /\ \A k \in 0..Len(p) : v[k] = Boundary!Prefixes(p)[k]
      /\ \A k \in (Len(p) + 1)..Len(w) :
            v[k] = Boundary!Entry(v[k - 1], w[k]) /\ v[k] \in Boundary!Ancestors(n)
      /\ Boundary!Stat(w) = n
      /\ \A a \in Boundary!Ancestors(n) :
            a \in Boundary!Ancestors(Boundary!Stat(p)) \/ \E k \in Len(p)..Len(w) : v[k] = a
  BY <1>1, Descent
<1>3. CachePath \in Spelled /\ K \in Nat /\ K >= 1
  BY BoundaryAssumption, EmptySeq, LenProperties DEF Spelled
<1> HIDE DEF w, v, c
<1>4. Boundary!Ignores(w) <=>
         \/ K <= Len(w) /\ \A j \in 1..K : CachePath[j] = w[j]
         \/ c \in Boundary!Directories /\ \E k \in 0..Len(w) : v[k] = c
  <2>1. Len(w) \in 0..Len(w) /\ Boundary!Prefix(w, Len(w)) = w
    BY <1>2, PrefixIs
  <2> QED BY <1>1, <1>2, <2>1, IgnoresIs DEF v, c
<1>5. Boundary!Ignores(p) <=>
         \/ K <= Len(p) /\ \A j \in 1..K : CachePath[j] = p[j]
         \/ c \in Boundary!Directories /\ \E k \in 0..Len(p) : Boundary!Prefixes(p)[k] = c
  <2>1. Len(p) \in 0..Len(p) /\ Boundary!Prefix(p, Len(p)) = p
    BY <1>2, PrefixIs
  <2> QED BY <2>1, IgnoresIs DEF c
<1>6. ASSUME c \in Boundary!Ancestors(n) PROVE Boundary!Ignores(w)
  <2>1. c \in Boundary!Directories
    BY <1>1, <1>6, AncestorsOf DEF Boundary!CacheIsKnown, c
  <2>2. CASE \E k \in Len(p)..Len(w) : v[k] = c
    <3>1. \A k \in Len(p)..Len(w) : k \in 0..Len(w)
      BY <1>2
    <3> QED BY <1>4, <2>1, <2>2, <3>1
  <2>3. CASE c \in Boundary!Ancestors(Boundary!Stat(p))
    <3>1. PICK root \in RootPaths :
             /\ Boundary!Within(root, p) /\ Boundary!Stat(root) \in Boundary!Directories
             /\ \A i \in (Len(root) + 1)..Len(p) :
                   Boundary!Entry(Boundary!Prefixes(p)[i - 1], p[i]) \in Boundary!Node \ Boundary!Links
      BY DEF Boundary!NoLinks
    <3>2. root \in Spelled /\ Boundary!Stat(root) \in Boundary!Node
      BY <3>1, BoundaryAssumption, NodesAre DEF Spelled
    <3>3. CASE \E k \in 0..Len(p) : Boundary!Prefixes(p)[k] = c
      BY <1>5, <2>1, <3>3
    <3>4. CASE c \in Boundary!Ancestors(Boundary!Stat(root))
      <4>1. Boundary!Ignores(root)
        BY <3>1, <3>4 DEF Boundary!CacheIsKnown, c
      <4>2. Boundary!Prefix(p, Len(root)) = root /\ Len(root) \in 0..Len(p) /\ Len(p) \in Len(root)..Len(p)
        <5>1. Len(root) \in Nat /\ Len(p) \in Nat
          BY <3>2, LenProperties DEF Spelled
        <5> QED BY <3>1, <5>1 DEF Boundary!Within
      <4>3. Boundary!Ignores(p)
        BY <4>1, <4>2, IgnoredFurther
      <4> QED BY <4>3
    <3> QED BY <2>3, <3>1, <3>2, <3>3, <3>4, BelowRoot
  <2> QED BY <1>2, <1>6, <2>2, <2>3
<1>7. ASSUME Boundary!Ignores(w) PROVE c \in Boundary!Ancestors(n)
  <2>1. CASE K <= Len(w) /\ \A j \in 1..K : CachePath[j] = w[j]
    <3>1. K > Len(p)
      <4> SUFFICES ASSUME K <= Len(p) PROVE FALSE
        BY <1>2, <1>3
      <4>1. \A j \in 1..K : j \in 1..Len(p)
        BY <1>2, <1>3
      <4> QED BY <1>2, <1>5, <2>1, <4>1
    <3>2. K \in (Len(p) + 1)..Len(w) /\ K - 1 \in 0..K /\ K \in 1..K /\ K <= K
      BY <1>2, <1>3, <2>1, <3>1
    <3>3. Boundary!Prefixes(CachePath)[K - 1] = v[K - 1]
      BY <1>2, <1>3, <2>1, <3>2, Local DEF v
    <3>4. c = Boundary!Entry(v[K - 1], w[K])
      BY <2>1, <3>2, <3>3 DEF c, Boundary!Cache
    <3> QED BY <1>2, <3>2, <3>4
  <2>2. CASE c \in Boundary!Directories /\ \E k \in 0..Len(w) : v[k] = c
    <3>1. PICK k \in 0..Len(w) : v[k] = c
      BY <2>2
    <3>2. CASE k <= Len(p)
      <4>1. k \in 0..Len(p)
        BY <1>2, <3>2
      <4> QED BY <1>2, <1>5, <2>2, <3>1, <4>1
    <3>3. CASE k > Len(p)
      <4>1. k \in (Len(p) + 1)..Len(w)
        BY <1>2, <3>3
      <4> QED BY <1>2, <3>1, <4>1
    <3> QED BY <1>2, <3>2, <3>3
  <2> QED BY <1>4, <1>7, <2>1, <2>2
<1> QED BY <1>6, <1>7 DEF w, c

-----------------------------------------------------------------------------
(* Results                                                                 *)

(* Types of the variables; candidates past collection have an identity to  *)
(* be compared with (candidate.identity, app.go:114).                      *)
THEOREM TypeCorrect == Spec => []TypeOK
<1>1. Inv => TypeOK
  BY DEF Inv, Typed
<1> QED BY <1>1, Invariance, PTL

(* Whatever is renamed or linked and however often, what is stored for a   *)
(* path is the file collected for it, no file is stored for two paths, and *)
(* none of the state directory (openCandidate, app.go:1104-1128).          *)
THEOREM SnapshotsAreOwn == Spec => []OneSnapshotEach
<1>1. Inv => OneSnapshotEach
  BY DEF Inv
<1> QED BY <1>1, Invariance, PTL

(* A file is read, and susu.json committed, only after a look at every     *)
(* candidate that is newer than the password and the last read, and never  *)
(* another entry's file is read (addWithHooks, app.go:298-323).            *)
THEOREM LooksAreCurrent == Spec => ReadsAreCurrent
<1> DEFINE Step1 == captured' # captured \/ (phase = "preflight" /\ phase' = "done")
                    => NotAnothersFile /\ AllSeenAgain
<1>1. Inv /\ [Next]_vars => [Step1]_vars
  <2> SUFFICES ASSUME Inv, Next, captured' # captured \/ (phase = "preflight" /\ phase' = "done")
               PROVE  NotAnothersFile /\ AllSeenAgain
      OBVIOUS
  <2>1. Read \/ PreflightDone
    BY DEF Next, CheckName, Load, Open, Collected, Classify, Loaded, Preflighted, Password,
       Reopened, Fail, Change, Goto, Step, StartLoading, Preflight, knowledge
  <2>2. CASE Read
    <3>1. AllSeenAgain
      BY <2>2 DEF Read, Inv, Current, SeenAgain, AllSeenAgain
    <3>2. /\ captured' = [captured EXCEPT ![item] = opened] /\ unlisted = {}
          /\ ~Conflict(item, opened) /\ phase = "read" /\ pc = "load"
      BY <2>2 DEF Read
    <3>3. \A p \in Path : captured'[p] # captured[p] => p = item /\ captured'[p] = opened
      BY <3>2 DEF Inv, Typed, TypeOK
    <3>4. \A m \in managed \ {item} : <<m, opened>> \notin aliases
      BY <3>2 DEF Inv, Aliased, Conflict
    <3>5. NotAnothersFile
      BY <3>3, <3>4 DEF NotAnothersFile
    <3> QED BY <3>1, <3>5
  <2>3. CASE PreflightDone
    <3>1. UNCHANGED captured
      BY <2>3 DEF PreflightDone
    <3>2. NotAnothersFile
      BY <3>1 DEF NotAnothersFile
    <3>3. AllSeenAgain
      BY <2>3 DEF PreflightDone, Inv, Current, SeenAgain, AllSeenAgain
    <3> QED BY <3>2, <3>3
  <2> QED BY <2>1, <2>2, <2>3
<1> QED BY <1>1, Invariance, PTL DEF Spec, ReadsAreCurrent

-----------------------------------------------------------------------------
(* A behaviour of the parts is one of each part.                           *)
LEMMA CommandLinePart == MCSpec => CommandLine!Spec
<1>1. MCInit => CommandLine!Init
  BY DEF MCInit
<1>2. [MCNext]_<<part, vars, tree, process>> => [CommandLine!Next]_(CommandLine!vars)
  BY DEF MCNext, process, CommandLine!vars
<1> QED BY <1>1, <1>2, PTL DEF MCSpec, CommandLine!Spec

LEMMA BoundaryPart == MCSpec => Boundary!Spec
<1>1. MCInit => Boundary!Init
  BY DEF MCInit
<1>2. [MCNext]_<<part, vars, tree, process>> => [Boundary!Next]_(Boundary!vars)
  BY DEF MCNext, tree, Boundary!vars, Boundary!tree
<1> QED BY <1>1, <1>2, PTL DEF MCSpec, Boundary!Spec

LEMMA CandidatesPart == MCSpec => Spec
<1>1. MCInit => Init
  BY DEF MCInit
<1>2. [MCNext]_<<part, vars, tree, process>> => [Next]_vars
  BY DEF MCNext
<1> QED BY <1>1, <1>2, PTL DEF MCSpec, Spec

(* It is one part throughout.                                              *)
OnePart == part \in {"candidates", "boundary", "command line"}

LEMMA WhichPart == MCSpec => []OnePart
<1>1. MCInit => OnePart
  BY DEF MCInit, OnePart
<1>2. OnePart /\ [MCNext]_<<part, vars, tree, process>> => OnePart'
  BY DEF MCNext, OnePart
<1> QED BY <1>1, <1>2, PTL DEF MCSpec

(* Wherever --sensitive stands on the command line of add, and however     *)
(* long that is, nothing is stored in public (runAdd, cli.go:165-205).     *)
THEOREM NeverPublic == MCSpec => []SensitiveIsNeverPublic
<1>1. ProcessInv => SensitiveIsNeverPublic
  <2> SUFFICES ASSUME ProcessInv, Len(argv) > 1, call = "add", result["added"] > 0,
                      NEW i \in DOMAIN argv, argv[i] = "--sensitive"
               PROVE  sensitive
      BY DEF SensitiveIsNeverPublic, CommandLine!SensitiveIsNeverPublic
  <2>1. CommandLine!AllExist
    BY DEF ProcessInv, Asked
  <2>2. argv # <<>> /\ argv[1] = "add"
    BY DEF ProcessInv, Asked, CommandLine!Command
  <2>3. \A j \in DOMAIN operands : operands[j] # "--sensitive"
    BY <2>1, CommandLineAssumption DEF CommandLine!AllExist
  <2> QED BY <2>2, <2>3 DEF ProcessInv, Asked
<1> QED BY <1>1, CommandLinePart, ProcessInvariance, PTL

(* What a call committed is reported in full unless the output fails, and  *)
(* status 0 means that nothing failed (cli.go:188-205, main.go).           *)
THEOREM StatusIsComplete == MCSpec => []StatusTellsAll
<1>1. ProcessInv => StatusTellsAll
  BY DEF ProcessInv, Reported, StatusTellsAll
<1> QED BY <1>1, CommandLinePart, ProcessInvariance, PTL

(* Whatever links, moves and case are between a path and the boundary, a   *)
(* path that passes leads neither into nor above a protected directory and *)
(* to no file of the state, and one that is refused is so for a reason     *)
(* (ensureOutside and pathsOverlap, app.go).                               *)
THEOREM BoundaryHolds == MCSpec => []BoundaryIsExact
<1>1. BoundaryInv => BoundaryIsExact
  <2> SUFFICES ASSUME BoundaryInv, verdict # <<>>
               PROVE  Boundary!PassedIsOutside /\ Boundary!RefusedForAReason
      BY DEF BoundaryIsExact, Boundary!BoundaryIsExact, Boundary!PassedIsOutside,
             Boundary!RefusedForAReason
  <2> DEFINE p == verdict.path
  <2>1. /\ Tree /\ boundary # <<>> /\ p \in Spelled /\ boundary.state \in Spelled
        /\ verdict.outside <=> Boundary!EnsureOutside(p)
        /\ \A d \in Protected : \E root \in boundary.roots : root.node = d
        /\ \A root \in boundary.roots : root.node \in Protected /\ root.path \in Spelled
    BY NodesAre DEF BoundaryInv, BoundaryFound, Answered, Spelled
  <2>2. ASSUME verdict.outside, folds => Boundary!SpelledAlike
        PROVE  Boundary!PassedIsOutsideInAnyCase
    BY <2>1, <2>2, Outside DEF Boundary!PassedIsOutsideInAnyCase
  <2>3. ASSUME ~verdict.outside, Boundary!Stat(p) \notin boundary.files \cup {"notdir"},
               Boundary!StateInPlace, \A root \in boundary.roots : Boundary!PathOf(root.node) = root.path
        PROVE  \E d \in Protected \cup {StateDir} : Boundary!Overlaps(d, p) \/ Boundary!AncestorIs(d, p)
    <3>1. boundary.state = Boundary!PathOf(StateDir) /\ StateDir \in Boundary!Directories
      BY <2>3, NodesAre DEF Boundary!StateInPlace
    <3>2. Boundary!Stat(boundary.state) = StateDir /\ StateDir # "notdir"
      BY <2>1, <3>1, OfPathOf, NodesAre
    <3>3. \A root \in boundary.roots :
             root.node \in Boundary!Directories /\ root.path = Boundary!PathOf(root.node)
             /\ Boundary!Stat(root.path) = root.node
      BY <2>1, <2>3, OfPathOf, NodesAre
    <3>4. \/ Boundary!Overlap(boundary.state, p)
          \/ \E root \in boundary.roots : Boundary!Overlap(root.path, p)
      BY <2>1, <2>3, <3>2, <3>3 DEF Boundary!EnsureOutside, Boundary!RootInPlace
    <3>5. CASE Boundary!Overlap(boundary.state, p)
      BY <2>1, <3>1, <3>5, Justified
    <3>6. ASSUME NEW root \in boundary.roots, Boundary!Overlap(root.path, p)
          PROVE  \E d \in Protected : Boundary!Overlaps(d, p) \/ Boundary!AncestorIs(d, p)
      BY <2>1, <3>3, <3>6, Justified
    <3> QED BY <3>4, <3>5, <3>6
  <2> HIDE DEF p
  <2>4. Boundary!PassedIsOutside
    BY <2>2 DEF Boundary!PassedIsOutside, Boundary!PassedIsOutsideInAnyCase
  <2>5. Boundary!RefusedForAReason
    BY <2>3 DEF Boundary!RefusedForAReason, p
  <2> QED BY <2>4, <2>5
<1> QED BY <1>1, BoundaryPart, BoundaryInvariance, PTL

(* A walk picks up what is below its input and not below the cache, and    *)
(* nothing that is protected (collectCandidates, app.go).                  *)
THEOREM WalksAreExact == MCSpec => []WalkIsExact
<1>1. BoundaryInv => WalkIsExact
  <2> SUFFICES ASSUME BoundaryInv, picked # {}
               PROVE  /\ Boundary!CacheIsKnown =>
                            picked = {n \in Boundary!Regular :
                                        /\ Boundary!Stat(verdict.path) \in Boundary!Ancestors(n)
                                        /\ Boundary!Cache \notin Boundary!Ancestors(n)}
                      /\ (folds => Boundary!SpelledAlike) =>
                            \A n \in picked : n \notin boundary.files
                                              /\ Boundary!Ancestors(n) \cap Protected = {}
      BY DEF WalkIsExact, Boundary!WalkIsExact
  <2> DEFINE p == verdict.path
  <2>1. /\ Tree /\ boundary # <<>> /\ p \in Spelled
        /\ picked = Boundary!Picked(p) /\ Boundary!NoLinks(p)
        /\ \A f \in Boundary!Visited(p) :
              f.node \in Boundary!Regular => Boundary!EnsureOutside(f.path)
    BY NodesAre DEF BoundaryInv, Answered, Walked, Spelled
  <2> HIDE DEF p
  <2>2. Boundary!Stat(p) \in Boundary!Node
    <3>1. PICK root \in RootPaths :
             /\ Boundary!Within(root, p) /\ Boundary!Stat(root) \in Boundary!Directories
             /\ \A i \in (Len(root) + 1)..Len(p) :
                   Boundary!Entry(Boundary!Prefixes(p)[i - 1], p[i]) \in Boundary!Node \ Boundary!Links
      BY <2>1 DEF Boundary!NoLinks
    <3>2. root \in Spelled /\ Boundary!Stat(root) \in Boundary!Node
      BY <3>1, BoundaryAssumption, NodesAre DEF Spelled
    <3> QED BY <2>1, <3>1, <3>2, BelowRoot
  <2>3. \A n \in picked : /\ n \in Boundary!Regular /\ Boundary!Stat(p) \in Boundary!Ancestors(n)
                          /\ ~Boundary!Ignores(Way(p, n))
                          /\ \E f \in Boundary!Visited(p) : f.node = n /\ f.path = Way(p, n)
    BY <2>1, <2>2, PickedIs
  <2>4. \A n \in Boundary!Regular :
           Boundary!Stat(p) \in Boundary!Ancestors(n) /\ ~Boundary!Ignores(Way(p, n)) => n \in picked
    BY <2>1, <2>2, PickedIs, VisitedIs
  <2>5. \A n \in Boundary!Regular : n \in Boundary!Node \ Boundary!Links
    BY DEF Boundary!Regular, Boundary!Links
  <2>6. ~Boundary!Ignores(p)
    <3>1. PICK n \in picked : TRUE
      OBVIOUS
    <3> DEFINE w == Way(p, n)
    <3>2. /\ w \in Spelled /\ Len(p) \in 0..Len(w) /\ Len(w) \in Nat
          /\ \A k \in 1..Len(p) : w[k] = p[k]
          /\ Boundary!Stat(w) \in Boundary!Node
      BY <2>1, <2>2, <2>3, <2>5, Descent
    <3> HIDE DEF w
    <3>3. Boundary!Prefix(w, Len(p)) = p
      <4>1. /\ Boundary!Prefix(w, Len(p)) \in Spelled /\ Len(Boundary!Prefix(w, Len(p))) = Len(p)
            /\ \A k \in 1..Len(p) : Boundary!Prefix(w, Len(p))[k] = p[k]
        BY <3>2, PrefixIs
      <4> QED BY <2>1, <4>1, SeqEqual DEF Spelled
    <3>4. Boundary!Ignores(p) => Boundary!Ignores(w)
      <4>1. Len(w) \in Len(p)..Len(w)
        BY <3>2
      <4> QED BY <2>1, <3>2, <3>3, <4>1, IgnoredFurther
    <3> QED BY <2>3, <3>4 DEF w
  <2>7. ASSUME Boundary!CacheIsKnown
        PROVE  picked = {n \in Boundary!Regular : /\ Boundary!Stat(p) \in Boundary!Ancestors(n)
                                                  /\ Boundary!Cache \notin Boundary!Ancestors(n)}
    <3>1. \A n \in Boundary!Regular : Boundary!Stat(p) \in Boundary!Ancestors(n) =>
             (Boundary!Ignores(Way(p, n)) <=> Boundary!Cache \in Boundary!Ancestors(n))
      BY <2>1, <2>2, <2>6, <2>7, IgnoredIsCached
    <3> QED BY <2>3, <2>4, <3>1
  <2>8. ASSUME folds => Boundary!SpelledAlike, NEW n \in picked
        PROVE  n \notin boundary.files /\ Boundary!Ancestors(n) \cap Protected = {}
    <3> DEFINE w == Way(p, n)
    <3>1. w \in Spelled /\ Boundary!Stat(w) = n /\ n \in Boundary!Node
      BY <2>1, <2>2, <2>3, <2>5, Descent
    <3>2. Boundary!EnsureOutside(w)
      BY <2>1, <2>3
    <3> HIDE DEF w
    <3>3. /\ \A d \in Protected : ~Boundary!Overlaps(d, w)
          /\ Boundary!Stat(w) \notin boundary.files
      BY <2>1, <2>8, <3>1, <3>2, Outside
    <3>4. Boundary!Prefixes(w)[Boundary!Existing(w)] = n
      BY <2>1, <3>1, ExistingIs DEF Boundary!Stat
    <3>5. \A d \in Protected : d \notin Boundary!Ancestors(n)
      BY <2>1, <3>1, <3>3, <3>4, OverlapsIs
    <3> QED BY <3>1, <3>3, <3>5
  <2> QED BY <2>7, <2>8 DEF p
<1> QED BY <1>1, BoundaryPart, BoundaryInvariance, PTL

(* The parts have the types they should have, the tree is a tree, and a    *)
(* command that is called has as many operands as it takes                 *)
(* (cli.go:114-205, walkCandidates and controlBoundary, app.go).           *)
THEOREM TypesAreCorrect == MCSpec => []TypesOK
<1>1. Inv => TypeOK
  BY DEF Inv, Typed
<1>2. ProcessInv => CommandLine!TypeOK
  BY DEF ProcessInv, ProcessTyped
<1>3. OnePart /\ Inv /\ BoundaryInv /\ ProcessInv => TypesOK
  BY <1>1, <1>2, BoundaryTypes DEF OnePart, TypesOK
<1> QED BY <1>3, WhichPart, CandidatesPart, Invariance, BoundaryPart, BoundaryInvariance,
           CommandLinePart, ProcessInvariance, PTL
=============================================================================
