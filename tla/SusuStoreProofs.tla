--------------------------- MODULE SusuStoreProofs ---------------------------
(***************************************************************************)
(* Proofs about SusuStore, for any paths, contents and keys, in two layers *)
(* as the invariant has them.  First the session: the types, what the      *)
(* local variables of a command mean at each place, and what it reports.   *)
(* Then the disk, and what follows for susu.json and the sources it refers *)
(* to.  What depends on the disk after a power loss holds where power loss *)
(* or failures of the sync of susu.json's directory are excluded           *)
(* (NoLostSync); the run rm_unsynced shows why not with both.              *)
(***************************************************************************)
EXTENDS SusuStore, TLAPS

\* The key that m says p is sealed with.
KeyOf(m, p) == IF m.entries[p] = "sensitive" THEN m.key ELSE NoKey

-----------------------------------------------------------------------------
(* The session: what the local variables of a command mean at each place.  *)

\* What an add is going to save: the manifest it loaded and the new paths.
AddDraft ==
    /\ \A p \in Path : p \in NewPaths => draft.entries[p] # Unmanaged
    /\ \A p \in Path : p \notin NewPaths => draft.entries[p] = current.entries[p]
    /\ \A p, q \in NewPaths : draft.entries[p] = draft.entries[q]
    /\ removed = {}

\* What a removal is going to save.
RemoveDraft ==
    /\ request # {} /\ request \subseteq Managed(current)
    /\ draft.key = current.key
    /\ \A p \in Path : draft.entries[p] = IF p \in request THEN Unmanaged
                                          ELSE current.entries[p]
    /\ added = {} /\ updated = {} /\ created = {}

\* The first sensitive candidate has made sure that there is a key.
SealingKey ==
    /\ current.key # NoKey => draft.key = current.key
    /\ \A p \in request : draft.entries[p] = "sensitive"
                             => sessionKey = draft.key /\ draft.key # NoKey

\* What has been done of an add so far.
Progress ==
    /\ created = NewPaths \ todo
    /\ added = created
    /\ (request \ todo) \ NewPaths \subseteq updated
    /\ error = FALSE

Session ==
    /\ phase = "idle" =>
          /\ request = {} /\ todo = {} /\ created = {}
          /\ added = {} /\ updated = {} /\ removed = {} /\ error = FALSE
    /\ phase \in {"password", "write", "writeSync", "rollback", "forget"}
          => current = manifest
    /\ phase \in {"password", "write", "writeSync", "rollback", "commitSync"}
          => AddDraft
    /\ phase \in {"forget", "forgetSync", "delete"} => RemoveDraft
    /\ phase \in {"commitSync", "forgetSync", "delete"} => manifest = draft
    /\ phase = "password" => draft.key = current.key /\ todo = request
    /\ phase \in {"write", "writeSync"} => SealingKey
    /\ phase \in {"password", "write", "writeSync", "commitSync"} => Progress
    /\ phase = "writeSync" =>
          \A p \in request : IsFirst(p, todo) /\ IsUpdate(p) => p \in updated
    /\ phase = "commitSync" => todo = {}
    /\ phase = "rollback" => error = TRUE
    /\ phase = "forget" => removed = {} /\ error = FALSE
    /\ phase \in {"forget", "forgetSync"} => todo = request
    /\ phase \in {"forgetSync", "delete"} => removed = request

-----------------------------------------------------------------------------
(* Facts about the operators. *)

LEMMA SourceTyped ==
    ASSUME NEW m \in Manifest, NEW p \in Managed(m)
    PROVE  SourceOf(m, p) \in Source
BY DEF Manifest, Managed, SourceOf, Source, Class

LEMMA FirstUnique ==
    ASSUME NEW S \in SUBSET Path, NEW p, NEW q, IsFirst(p, S), IsFirst(q, S)
    PROVE  p = q
BY StoreAssumption DEF IsFirst

\* The part of TypeOK that a change of a source may disturb.
SourcesTyped ==
    /\ stored \in [Source -> Content \cup {Missing}]
    /\ storedDisk \in [Source -> SUBSET (Content \cup {Missing})]
    /\ \A s \in Source : stored[s] \in storedDisk[s]

LEMMA PutTyped ==
    ASSUME SourcesTyped, NEW s \in Source, NEW c \in Content \cup {Missing},
           Put(s, c) \/ PutSynced(s, c)
    PROVE  /\ SourcesTyped'
           /\ stored'[s] = c
           /\ \A t \in Source \ {s} : stored'[t] = stored[t] /\ storedDisk'[t] = storedDisk[t]
           /\ storedDisk'[s] \subseteq storedDisk[s] \cup {c}
           /\ Put(s, c) => storedDisk'[s] = Cached(storedDisk[s], c)
           /\ PutSynced(s, c) => storedDisk'[s] = {c}
BY DEF SourcesTyped, Put, PutSynced, Cached

LEMMA SealedTyped ==
    ASSUME TypeOK, NEW p \in request, Preflight, SealingKey
    PROVE  /\ Sealed(p) \in Content /\ Sealed(p) # Missing
           /\ Sealed(p).key = KeyOf(draft, p)
<1>1. local[p] \in Data
  BY DEF TypeOK, Preflight
<1>2. Sealed(p) = [key |-> KeyOf(draft, p), data |-> local[p]]
  BY DEF SealingKey, Sealed, KeyOf
<1>3. KeyOf(draft, p) \in Key \cup {NoKey}
  BY DEF KeyOf, TypeOK, Manifest
<1>4. QED
  BY <1>1, <1>2, <1>3, StoreAssumption DEF Content

-----------------------------------------------------------------------------
(* First layer: types and what the variables of the session mean.          *)

RestTyped ==
    /\ manifest \in Manifest
    /\ manifestDisk \subseteq Manifest /\ manifest \in manifestDisk
    /\ local \in [Path -> Data \cup {Missing}]
    /\ phase \in Phases
    /\ current \in Manifest /\ draft \in Manifest
    /\ sessionKey \in Key \cup {NoKey}
    /\ request \subseteq Path /\ todo \subseteq request
    /\ created \subseteq NewPaths /\ added \subseteq NewPaths
    /\ updated \subseteq request \cap Managed(current)
    /\ removed \subseteq request
    /\ error \in BOOLEAN
    /\ residue \subseteq Source

LEMMA TypeParts == TypeOK <=> SourcesTyped /\ RestTyped
BY DEF TypeOK, SourcesTyped, RestTyped

LEMMA DraftFacts ==
    ASSUME RestTyped, Session, NEW p \in request
    PROVE  /\ p \in Path
           /\ AddDraft => draft.entries[p] # Unmanaged /\ SourceOf(draft, p) \in Source
           /\ RemoveDraft => SourceOf(current, p) \in Source
<1>1. /\ p \in Path /\ draft.entries[p] \in Class \cup {Unmanaged}
      /\ current.entries[p] \in Class \cup {Unmanaged}
  BY DEF RestTyped, Manifest
<1>2. AddDraft => draft.entries[p] # Unmanaged
  BY <1>1 DEF AddDraft, NewPaths, Managed
<1>3. RemoveDraft => current.entries[p] # Unmanaged
  BY <1>1 DEF RemoveDraft, Managed
<1>4. QED
  BY <1>1, <1>2, <1>3 DEF SourceOf, Source

\* A process that ends forgets its session.
LEMMA CleanSession ==
    ASSUME ClearSession
    PROVE  /\ Session'
           /\ phase' = "idle" /\ phase' \in Phases
           /\ current' \in Manifest /\ draft' \in Manifest
           /\ sessionKey' \in Key \cup {NoKey}
           /\ request' = {} /\ todo' = {} /\ created' = {}
           /\ added' = {} /\ updated' = {} /\ removed' = {} /\ error' = FALSE
<1>1. EmptyManifest \in Manifest
  BY DEF EmptyManifest, Manifest
<1>2. QED
  BY <1>1 DEF ClearSession, Session, Phases

\* What the steps that leave the loaded manifest alone keep for granted.
LEMMA SameSession ==
    ASSUME UNCHANGED <<current, request>>
    PROVE  NewPaths' = NewPaths /\ Managed(current)' = Managed(current)
BY DEF NewPaths, Managed

LEMMA NextSession ==
    ASSUME TypeOK, Session, Next
    PROVE  TypeOK' /\ Session'
<1> USE StoreAssumption DEF Goto
<1>a. SourcesTyped /\ RestTyped
  BY TypeParts
<1>b. SUFFICES SourcesTyped' /\ RestTyped' /\ Session'
  BY TypeParts DEF TypeOK, SourcesTyped, RestTyped, NewPaths, Managed
<1>1. ASSUME NEW P \in SUBSET Path, NEW cls \in Class, BeginAdd(P, cls)
      PROVE  SourcesTyped' /\ RestTyped' /\ Session'
  <2> DEFINE entries == [p \in Path |-> IF p \in P \ Managed(manifest) THEN cls
                                        ELSE manifest.entries[p]]
  <2>1. manifest.entries \in [Path -> Class \cup {Unmanaged}]
        /\ manifest.key \in Key \cup {NoKey}
    BY <1>a DEF RestTyped, Manifest
  <2>2. entries \in [Path -> Class \cup {Unmanaged}]
    BY <2>1
  <2>3. draft' = [manifest EXCEPT !.entries = entries]
    BY <1>1 DEF BeginAdd
  <2>4. /\ draft' = [entries |-> entries, key |-> manifest.key]
        /\ draft' \in Manifest
    BY <2>1, <2>2, <2>3, <1>a DEF Manifest, RestTyped
  <2>5. draft'.entries = entries /\ draft'.key = manifest.key
    BY <2>4
  <2>6. current' = manifest /\ request' = P /\ todo' = P /\ P # {}
        /\ phase' \in {"password", "write"} /\ phase = "idle"
        /\ NewPaths' = P \ Managed(manifest)
        /\ UNCHANGED <<repoVars, local, sessionKey, created, reportVars, residue>>
    BY <1>1 DEF BeginAdd, NewPaths, Managed
  <2>7. created = {} /\ added = {} /\ updated = {} /\ removed = {} /\ error = FALSE
    BY <2>6 DEF Session
  <2>8. RestTyped'
    BY <1>a, <2>4, <2>6, <2>7 DEF RestTyped, repoVars, reportVars, Phases
  <2>9. AddDraft'
    <3>1. \A p \in Path : p \in NewPaths' => draft'.entries[p] = cls
      BY <2>5, <2>6
    <3>2. \A p \in Path : p \notin NewPaths' => draft'.entries[p] = manifest.entries[p]
      BY <2>5, <2>6
    <3>3. QED
      BY <3>1, <3>2, <2>6, <2>7 DEF AddDraft, Class, reportVars
  <2>10. Progress'
    BY <2>6, <2>7 DEF Progress, reportVars
  <2>11. phase' = "write" => \A p \in P : draft'.entries[p] # "sensitive"
    BY <1>1 DEF BeginAdd
  <2>12. SealingKey' \/ phase' # "write"
    BY <2>5, <2>6, <2>11 DEF SealingKey
  <2>13. SourcesTyped'
    BY <2>6, <1>a DEF SourcesTyped, repoVars
  <2>14. Session'
    BY <2>5, <2>6, <2>7, <2>9, <2>10, <2>12 DEF Session, repoVars, reportVars
  <2>15. QED
    BY <2>8, <2>13, <2>14
<1>2. CASE Password
  <2>1. /\ phase = "password" /\ phase' = "write" /\ current = manifest
        /\ draft.key = current.key /\ todo = request /\ AddDraft /\ Progress
        /\ UNCHANGED <<manifest, manifestDisk, stored, storedDisk, local, current,
                       request, todo, created, added, updated, removed, error, residue>>
        /\ NewPaths' = NewPaths /\ Managed(current)' = Managed(current)
    BY <1>2, SameSession DEF Password, Session, repoVars, reportVars
  <2>2. /\ draft'.entries = draft.entries /\ draft' \in Manifest
        /\ sessionKey' \in Key \cup {NoKey}
        /\ sessionKey' = draft'.key /\ draft'.key # NoKey
        /\ current.key # NoKey => draft'.key = current.key
    <3>1. CASE current.key = NoKey
      <4>1. PICK k \in Key : sessionKey' = k /\ draft' = [draft EXCEPT !.key = k]
        BY <1>2, <3>1 DEF Password
      <4>2. draft' = [entries |-> draft.entries, key |-> k]
        BY <4>1, <1>a DEF RestTyped, Manifest
      <4>3. QED
        BY <3>1, <4>1, <4>2, <1>a DEF RestTyped, Manifest
    <3>2. CASE current.key # NoKey
      BY <1>2, <3>2, <2>1, <1>a DEF Password, RestTyped, Manifest
    <3>3. QED
      BY <3>1, <3>2
  <2>3. RestTyped' /\ SourcesTyped'
    BY <1>a, <2>1, <2>2 DEF RestTyped, SourcesTyped, Phases
  <2>4. AddDraft' /\ Progress' /\ SealingKey'
    BY <2>1, <2>2 DEF AddDraft, Progress, SealingKey
  <2>5. QED
    BY <2>1, <2>3, <2>4 DEF Session
<1>3. CASE PasswordFails
  BY <1>3, <1>a, SameSession
     DEF PasswordFails, RestTyped, SourcesTyped, Session, Phases, repoVars
<1>4. ASSUME NEW p \in Path, ReplaceSource(p) \/ LinkSource(p)
      PROVE  SourcesTyped' /\ RestTyped' /\ Session'
  <2>1. /\ phase = "write" /\ phase' = "writeSync" /\ current = manifest
        /\ p \in todo /\ IsFirst(p, todo) /\ Preflight
        /\ AddDraft /\ SealingKey /\ Progress
        /\ UNCHANGED <<manifest, manifestDisk, local, current, draft, sessionKey,
                       request, todo, created, added, removed, error, residue>>
        /\ NewPaths' = NewPaths /\ Managed(current)' = Managed(current)
        /\ updated' = IF IsUpdate(p) THEN updated \cup {p} ELSE updated
        /\ Put(SourceOf(draft, p), Sealed(p))
    BY <1>4, SameSession DEF ReplaceSource, LinkSource, Session, repoVars, reportVars, IsFirst
  <2>2. p \in request /\ SourceOf(draft, p) \in Source
    BY <2>1, <1>a, DraftFacts DEF RestTyped
  <2>3. Sealed(p) \in Content \cup {Missing}
    BY <2>1, <2>2, SealedTyped
  <2>4. SourcesTyped'
    BY <2>1, <2>2, <2>3, <1>a, PutTyped
  <2>5. RestTyped'
    BY <2>1, <2>2, <1>a DEF RestTyped, Phases, IsUpdate
  <2>6. AddDraft' /\ SealingKey' /\ Progress'
    BY <2>1 DEF AddDraft, SealingKey, Progress
  <2>7. \A q \in request : IsFirst(q, todo) /\ IsUpdate(q) => q \in updated'
    BY <2>1, <1>a, FirstUnique DEF RestTyped
  <2>8. QED
    BY <2>1, <2>4, <2>5, <2>6, <2>7 DEF Session, IsFirst, IsUpdate
<1>5. CASE WriteFails
  BY <1>5, <1>a, SameSession
     DEF WriteFails, RestTyped, SourcesTyped, Session, Phases, repoVars, AddDraft
<1>6. ASSUME NEW p \in Path, SyncSource(p)
      PROVE  SourcesTyped' /\ RestTyped' /\ Session'
  <2> DEFINE s == SourceOf(draft, p)
  <2>1. /\ phase = "writeSync" /\ phase' = "write" /\ current = manifest
        /\ p \in todo /\ IsFirst(p, todo)
        /\ AddDraft /\ SealingKey /\ Progress
        /\ UNCHANGED <<manifest, manifestDisk, local, current, draft, sessionKey,
                       request, updated, removed, error, residue>>
        /\ NewPaths' = NewPaths /\ Managed(current)' = Managed(current)
        /\ todo' = todo \ {p}
        /\ PutSynced(s, stored[s])
    BY <1>6, SameSession DEF SyncSource, Session, IsFirst
  <2>2. p \in request /\ s \in Source
    BY <2>1, <1>a, DraftFacts DEF RestTyped
  <2>3. stored[s] \in Content \cup {Missing}
    BY <2>2, <1>a DEF SourcesTyped
  <2>4. SourcesTyped'
    BY <2>1, <2>2, <2>3, <1>a, PutTyped
  <2>5. /\ IsUpdate(p) => /\ p \notin NewPaths /\ p \in updated
                          /\ created' = created /\ added' = added
        /\ ~IsUpdate(p) => /\ p \in NewPaths
                           /\ created' = created \cup {p} /\ added' = added \cup {p}
    BY <1>6, <2>1, <2>2 DEF SyncSource, IsUpdate, NewPaths, Session
  <2>6. RestTyped'
    BY <2>1, <2>2, <2>5, <1>a DEF RestTyped, Phases
  <2>7. AddDraft' /\ SealingKey'
    BY <2>1 DEF AddDraft, SealingKey
  <2>8. Progress'
    BY <2>1, <2>2, <2>5, <1>a DEF Progress, RestTyped
  <2>9. QED
    BY <2>1, <2>4, <2>6, <2>7, <2>8 DEF Session
<1>7. ASSUME NEW p \in Path, SyncSourceFails(p)
      PROVE  SourcesTyped' /\ RestTyped' /\ Session'
  <2> DEFINE s == SourceOf(draft, p)
  <2>1. /\ phase = "writeSync" /\ phase' = "rollback" /\ error' = TRUE
        /\ current = manifest /\ p \in todo /\ AddDraft
        /\ UNCHANGED <<manifest, manifestDisk, local, current, draft, sessionKey,
                       request, todo, created, added, updated, removed>>
        /\ NewPaths' = NewPaths /\ Managed(current)' = Managed(current)
        /\ Put(s, Missing) \/ UNCHANGED <<stored, storedDisk>>
        /\ residue' = residue \/ residue' = residue \cup {s}
    BY <1>7, SameSession DEF SyncSourceFails, Session, IsFirst
  <2>2. p \in request /\ s \in Source
    BY <2>1, <1>a, DraftFacts DEF RestTyped
  <2>3. SourcesTyped'
    BY <2>1, <2>2, <1>a, PutTyped DEF SourcesTyped
  <2>4. RestTyped'
    BY <2>1, <2>2, <1>a DEF RestTyped, Phases
  <2>5. QED
    BY <2>1, <2>3, <2>4 DEF Session, AddDraft
<1>8. CASE FinishUpdates
  BY <1>8, <1>a, SameSession
     DEF FinishUpdates, RestTyped, SourcesTyped, Session, Phases, repoVars, reportVars
<1>9. CASE CommitAdditions
  <2>1. /\ phase = "write" /\ phase' = "commitSync" /\ todo = {}
        /\ manifest' = draft /\ manifestDisk' = Cached(manifestDisk, draft)
        /\ AddDraft /\ Progress
        /\ UNCHANGED <<stored, storedDisk, local, current, draft, sessionKey,
                       request, todo, created, reportVars, residue>>
        /\ NewPaths' = NewPaths /\ Managed(current)' = Managed(current)
    BY <1>9, SameSession DEF CommitAdditions, Session
  <2>2. RestTyped' /\ SourcesTyped'
    BY <2>1, <1>a DEF RestTyped, SourcesTyped, Phases, Cached, reportVars
  <2>3. AddDraft' /\ Progress'
    BY <2>1 DEF AddDraft, Progress, reportVars
  <2>4. QED
    BY <2>1, <2>2, <2>3 DEF Session
<1>10. CASE CommitFails
  BY <1>10, <1>a, SameSession
     DEF CommitFails, RestTyped, SourcesTyped, Session, Phases, repoVars, AddDraft
<1>11. CASE SyncAdditions
  BY <1>11, <1>a, SameSession
     DEF SyncAdditions, RestTyped, SourcesTyped, Session, Phases
<1>12. ASSUME NEW p \in Path, RollbackSource(p)
       PROVE  SourcesTyped' /\ RestTyped' /\ Session'
  <2> DEFINE s == SourceOf(draft, p)
  <2>1. /\ phase = "rollback" /\ phase' = phase /\ error = TRUE
        /\ current = manifest /\ p \in created /\ AddDraft
        /\ created' = created \ {p}
        /\ UNCHANGED <<manifest, manifestDisk, local, phase, current, draft,
                       sessionKey, request, todo, reportVars>>
        /\ NewPaths' = NewPaths /\ Managed(current)' = Managed(current)
        /\ Put(s, Missing) \/ PutSynced(s, Missing) \/ UNCHANGED <<stored, storedDisk>>
        /\ residue' = residue \/ residue' = residue \cup {s}
    BY <1>12, SameSession DEF RollbackSource, Session, IsFirst
  <2>2. p \in request /\ s \in Source
    BY <2>1, <1>a, DraftFacts DEF RestTyped, NewPaths
  <2>3. SourcesTyped'
    BY <2>1, <2>2, <1>a, PutTyped DEF SourcesTyped
  <2>4. RestTyped'
    BY <2>1, <2>2, <1>a DEF RestTyped, Phases, reportVars
  <2>5. QED
    BY <2>1, <2>3, <2>4 DEF Session, AddDraft, reportVars
<1>13. CASE RollbackDone
  BY <1>13, <1>a, SameSession
     DEF RollbackDone, RestTyped, SourcesTyped, Session, Phases, repoVars
<1>14. ASSUME NEW P \in SUBSET Path, BeginRemove(P)
       PROVE  SourcesTyped' /\ RestTyped' /\ Session'
  <2> DEFINE entries == [p \in Path |-> IF p \in P THEN Unmanaged
                                        ELSE manifest.entries[p]]
  <2>1. manifest.entries \in [Path -> Class \cup {Unmanaged}]
        /\ manifest.key \in Key \cup {NoKey}
    BY <1>a DEF RestTyped, Manifest
  <2>2. draft' = [manifest EXCEPT !.entries = entries]
    BY <1>14 DEF BeginRemove
  <2>3. draft' = [entries |-> entries, key |-> manifest.key] /\ draft' \in Manifest
    BY <2>1, <2>2, <1>a DEF Manifest, RestTyped
  <2>4. draft'.entries = entries /\ draft'.key = manifest.key
    BY <2>3
  <2>5. /\ current' = manifest /\ request' = P /\ todo' = P /\ P # {}
        /\ P \subseteq Managed(manifest)
        /\ phase' = "forget" /\ phase = "idle"
        /\ UNCHANGED <<repoVars, local, sessionKey, created, reportVars, residue>>
    BY <1>14 DEF BeginRemove
  <2>6. created = {} /\ added = {} /\ updated = {} /\ removed = {} /\ error = FALSE
    BY <2>5 DEF Session
  <2>7. RestTyped' /\ SourcesTyped'
    BY <1>a, <2>3, <2>5, <2>6 DEF RestTyped, SourcesTyped, repoVars, reportVars, Phases
  <2>8. RemoveDraft'
    <3>1. request' \subseteq Managed(current)' /\ request' # {}
      BY <2>5 DEF Managed
    <3>2. \A p \in Path : draft'.entries[p] = IF p \in request' THEN Unmanaged
                                              ELSE current'.entries[p]
      BY <2>4, <2>5
    <3>3. QED
      BY <3>1, <3>2, <2>4, <2>5, <2>6 DEF RemoveDraft, reportVars
  <2>9. QED
    BY <2>5, <2>6, <2>7, <2>8 DEF Session, repoVars, reportVars
<1>15. CASE CommitRemoval
  <2>1. /\ phase = "forget" /\ phase' = "forgetSync"
        /\ manifest' = draft /\ manifestDisk' = Cached(manifestDisk, draft)
        /\ removed' = request /\ RemoveDraft /\ todo = request
        /\ UNCHANGED <<stored, storedDisk, local, current, draft, sessionKey,
                       request, todo, created, added, updated, error, residue>>
        /\ NewPaths' = NewPaths /\ Managed(current)' = Managed(current)
    BY <1>15, SameSession DEF CommitRemoval, Session
  <2>2. RestTyped' /\ SourcesTyped'
    BY <2>1, <1>a DEF RestTyped, SourcesTyped, Phases, Cached
  <2>3. RemoveDraft'
    BY <2>1 DEF RemoveDraft
  <2>4. QED
    BY <2>1, <2>2, <2>3 DEF Session
<1>16. CASE RemovalFails
  BY <1>16, <1>a, SameSession
     DEF RemovalFails, RestTyped, SourcesTyped, Session, Phases, repoVars
<1>17. CASE SyncRemoval
  BY <1>17, <1>a, SameSession
     DEF SyncRemoval, RestTyped, SourcesTyped, Session, Phases, RemoveDraft
<1>18. ASSUME NEW p \in Path, DeleteSource(p)
       PROVE  SourcesTyped' /\ RestTyped' /\ Session'
  <2> DEFINE s == SourceOf(current, p)
  <2>1. /\ phase = "delete" /\ phase' = phase /\ p \in todo /\ RemoveDraft
        /\ manifest = draft /\ removed = request
        /\ todo' = todo \ {p}
        /\ UNCHANGED <<manifest, manifestDisk, local, phase, current, draft,
                       sessionKey, request, created, added, updated, removed>>
        /\ NewPaths' = NewPaths /\ Managed(current)' = Managed(current)
        /\ Put(s, Missing) \/ PutSynced(s, Missing) \/ UNCHANGED <<stored, storedDisk>>
        /\ residue' = residue \/ residue' = residue \cup {s}
        /\ error' = error \/ error' = TRUE
    BY <1>18, SameSession DEF DeleteSource, Session, IsFirst
  <2>2. p \in request /\ s \in Source
    BY <2>1, <1>a, DraftFacts DEF RestTyped
  <2>3. SourcesTyped'
    BY <2>1, <2>2, <1>a, PutTyped DEF SourcesTyped
  <2>4. RestTyped'
    BY <2>1, <2>2, <1>a DEF RestTyped
  <2>5. RemoveDraft'
    BY <2>1 DEF RemoveDraft
  <2>6. QED
    BY <2>1, <2>3, <2>4, <2>5 DEF Session
<1>19. CASE DeletesDone
  BY <1>19, <1>a, SameSession
     DEF DeletesDone, RestTyped, SourcesTyped, Session, Phases, repoVars, reportVars
<1>20. CASE Finish
  <2>1. ClearSession /\ UNCHANGED <<repoVars, local, residue>>
    BY <1>20 DEF Finish
  <2>2. QED
    BY <2>1, <1>a, CleanSession DEF RestTyped, SourcesTyped, repoVars
<1>21. ASSUME NEW p \in Path, Edit(p)
       PROVE  SourcesTyped' /\ RestTyped' /\ Session'
  <2>1. local' \in [Path -> Data \cup {Missing}]
    BY <1>21, <1>a DEF Edit, RestTyped
  <2>2. UNCHANGED <<repoVars, sessionVars, reportVars, residue>>
    BY <1>21 DEF Edit
  <2>3. UNCHANGED <<NewPaths, AddDraft, RemoveDraft, SealingKey, Progress, Session,
                    Managed(current)>>
    BY <2>2 DEF repoVars, sessionVars, reportVars, NewPaths, Managed, AddDraft,
                RemoveDraft, SealingKey, Progress, Session, IsUpdate, IsFirst
  <2>4. QED
    BY <2>1, <2>2, <2>3, <1>a DEF RestTyped, SourcesTyped, repoVars, sessionVars, reportVars
<1>22. ASSUME NEW s \in Source, CleanUp(s)
       PROVE  SourcesTyped' /\ RestTyped' /\ Session'
  <2>1. /\ Put(s, Missing) /\ residue' = residue \ {s}
        /\ UNCHANGED <<manifest, manifestDisk, local, sessionVars, reportVars>>
        /\ phase = "idle" /\ phase' = "idle"
    BY <1>22 DEF CleanUp, sessionVars
  <2>2. NewPaths' = NewPaths /\ Managed(current)' = Managed(current)
    BY <2>1, SameSession DEF sessionVars
  <2>3. SourcesTyped'
    BY <2>1, <1>a, PutTyped
  <2>4. RestTyped'
    BY <2>1, <2>2, <1>a DEF RestTyped, sessionVars, reportVars
  <2>5. QED
    BY <2>1, <2>3, <2>4 DEF Session, sessionVars, reportVars
<1>23. CASE Crash
  <2>1. ClearSession /\ residue' \subseteq Source /\ UNCHANGED <<repoVars, local>>
    BY <1>23, <1>a DEF Crash, Orphans, RestTyped
  <2>2. QED
    BY <2>1, <1>a, CleanSession DEF RestTyped, SourcesTyped, repoVars
<1>24. CASE Flush
  <2>1. /\ manifestDisk' = {manifest}
        /\ storedDisk' = [s \in Source |-> {stored[s]}]
        /\ UNCHANGED <<manifest, stored, local, sessionVars, reportVars, residue>>
    BY <1>24 DEF Flush
  <2>2. UNCHANGED <<NewPaths, AddDraft, RemoveDraft, SealingKey, Progress, Session,
                    Managed(current)>>
    BY <2>1 DEF sessionVars, reportVars, NewPaths, Managed, AddDraft,
                RemoveDraft, SealingKey, Progress, Session, IsUpdate, IsFirst
  <2>3. SourcesTyped'
    BY <2>1, <1>a DEF SourcesTyped
  <2>4. QED
    BY <2>1, <2>2, <2>3, <1>a DEF RestTyped, sessionVars, reportVars
<1>25. CASE PowerLoss
  <2>1. ClearSession /\ residue' \subseteq Source /\ UNCHANGED local
    BY <1>25 DEF PowerLoss, Orphans
  <2>2. manifest' \in Manifest /\ manifestDisk' = {manifest'}
    BY <1>25, <1>a DEF PowerLoss, RestTyped
  <2>3. SourcesTyped'
    <3> DEFINE fs == {f \in [Source -> UNION {storedDisk[s] : s \in Source}] :
                        \A s \in Source : f[s] \in storedDisk[s]}
    <3>1. PICK f \in fs : stored' = f
      BY <1>25 DEF PowerLoss
    <3>2. storedDisk' = [s \in Source |-> {stored'[s]}]
      BY <1>25 DEF PowerLoss
    <3>3. stored' \in [Source -> Content \cup {Missing}]
      <4>1. \A s \in Source : f[s] \in Content \cup {Missing}
        BY <3>1, <1>a DEF SourcesTyped
      <4>2. f \in [Source -> UNION {storedDisk[s] : s \in Source}]
        BY <3>1
      <4>3. QED
        BY <3>1, <4>1, <4>2
    <3>4. QED
      BY <3>2, <3>3 DEF SourcesTyped
  <2>4. QED
    BY <2>1, <2>2, <2>3, <1>a, CleanSession DEF RestTyped
<1>26. QED
  BY <1>1, <1>2, <1>3, <1>4, <1>5, <1>6, <1>7, <1>8, <1>9, <1>10, <1>11, <1>12,
     <1>13, <1>14, <1>15, <1>16, <1>17, <1>18, <1>19, <1>20, <1>21, <1>22, <1>23,
     <1>24, <1>25 DEF Next, Add, Remove, Environment

LEMMA InitSession == Init => TypeOK /\ Session /\ ReportHonest
<1> SUFFICES ASSUME Init PROVE TypeOK /\ Session /\ ReportHonest
  OBVIOUS
<1> USE StoreAssumption DEF Init, EmptyManifest
<1>1. EmptyManifest \in Manifest
  BY DEF Manifest
<1>2. SourcesTyped /\ RestTyped
  BY <1>1 DEF SourcesTyped, RestTyped, Phases
<1>3. Session /\ ReportHonest
  BY DEF Session, ReportHonest
<1>4. QED
  BY <1>2, <1>3, TypeParts

LEMMA StutterSession ==
    ASSUME TypeOK, Session, ReportHonest, UNCHANGED vars
    PROVE  TypeOK' /\ Session' /\ ReportHonest'
BY DEF vars, repoVars, reportVars, sessionVars, TypeOK, Session, ReportHonest,
       NewPaths, Managed, IsUpdate, IsFirst, AddDraft, RemoveDraft, SealingKey,
       Progress

-----------------------------------------------------------------------------
(* The report.                                                             *)

LEMMA DraftEntries ==
    ASSUME TypeOK, AddDraft
    PROVE  /\ Managed(draft) = Managed(current) \cup NewPaths
           /\ NewPaths = {} => draft.entries = current.entries
<1>1. /\ draft.entries \in [Path -> Class \cup {Unmanaged}]
      /\ current.entries \in [Path -> Class \cup {Unmanaged}]
      /\ NewPaths \subseteq Path
  BY DEF TypeOK, Manifest, NewPaths
<1>2. QED
  BY <1>1 DEF AddDraft, Managed, NewPaths

LEMMA NextReport ==
    ASSUME TypeOK, Session, ReportHonest, Next
    PROVE  ReportHonest'
<1> USE DEF Goto
<1>1. SUFFICES ASSUME phase' = "report" PROVE ReportHonest'
  BY DEF ReportHonest
<1>2. CASE PasswordFails
  <2>1. current = manifest /\ created = {} /\ added = {} /\ removed = {}
    BY <1>2 DEF PasswordFails, Session, Progress, AddDraft, NewPaths, TypeOK
  <2>2. QED
    BY <1>2, <2>1 DEF PasswordFails, ReportHonest, repoVars, Managed
<1>3. CASE FinishUpdates
  <2>1. /\ current = manifest /\ created = {} /\ todo = {} /\ added = {}
        /\ removed = {} /\ NewPaths = {} /\ request \subseteq updated
        /\ AddDraft
    BY <1>3 DEF FinishUpdates, Session, Progress, AddDraft
  <2>2. draft.entries = manifest.entries /\ updated = request
    BY <2>1, DraftEntries DEF TypeOK
  <2>3. QED
    BY <1>3, <2>1, <2>2 DEF FinishUpdates, ReportHonest, repoVars, reportVars, Managed
<1>4. CASE SyncAdditions
  <2>1. /\ manifest = draft /\ todo = {} /\ added = NewPaths /\ removed = {}
        /\ request \ NewPaths \subseteq updated /\ AddDraft
    BY <1>4 DEF SyncAdditions, Session, Progress, AddDraft
  <2>2. Managed(manifest) = Managed(current) \cup NewPaths
    BY <2>1, DraftEntries
  <2>3. added \cup updated = request
    BY <2>1 DEF TypeOK, NewPaths
  <2>4. added = Managed(manifest) \ Managed(current)
    BY <2>1, <2>2 DEF NewPaths
  <2>5. removed = Managed(current) \ Managed(manifest)
    BY <2>1, <2>2
  <2>6. QED
    BY <1>4, <2>1, <2>3, <2>4, <2>5 DEF SyncAdditions, ReportHonest, Managed
<1>5. CASE RollbackDone
  <2>1. current = manifest /\ error = TRUE /\ removed = {}
    BY <1>5 DEF RollbackDone, Session, AddDraft
  <2>2. QED
    BY <1>5, <2>1 DEF RollbackDone, ReportHonest, repoVars, Managed
<1>6. CASE RemovalFails
  <2>1. current = manifest /\ removed = {} /\ added = {}
    BY <1>6 DEF RemovalFails, Session, RemoveDraft
  <2>2. QED
    BY <1>6, <2>1 DEF RemovalFails, ReportHonest, repoVars, Managed
<1>7. CASE DeletesDone
  <2>1. /\ manifest = draft /\ removed = request /\ added = {} /\ removed # {}
        /\ RemoveDraft /\ todo = {}
    BY <1>7 DEF DeletesDone, Session, RemoveDraft
  <2>2. Managed(manifest) = Managed(current) \ request
    BY <2>1 DEF RemoveDraft, Managed
  <2>3. removed = Managed(current) \ Managed(manifest)
    BY <2>1, <2>2 DEF RemoveDraft
  <2>4. added = Managed(manifest) \ Managed(current)
    BY <2>1, <2>2
  <2>5. QED
    BY <1>7, <2>1, <2>3, <2>4 DEF DeletesDone, ReportHonest, repoVars, reportVars, Managed
<1>8. CASE phase = "report"
  <2>1. CASE Finish \/ Crash \/ PowerLoss
    BY <2>1, <1>1 DEF Finish, Crash, PowerLoss, ClearSession
  <2>2. ASSUME NEW p \in Path, Edit(p) PROVE ReportHonest'
    BY <2>2 DEF Edit, ReportHonest, repoVars, sessionVars, reportVars, Managed
  <2>3. CASE Flush
    BY <2>3 DEF Flush, ReportHonest, sessionVars, reportVars, Managed
  <2>4. QED
    BY <1>8, <2>1, <2>2, <2>3
       DEF Next, Add, Remove, Environment, BeginAdd, Password, PasswordFails,
           ReplaceSource, LinkSource, SyncSource, SyncSourceFails, RollbackSource,
           WriteFails, FinishUpdates, CommitAdditions, CommitFails, SyncAdditions,
           RollbackDone, BeginRemove, CommitRemoval, RemovalFails, SyncRemoval,
           DeletesDone, DeleteSource, CleanUp
<1>9. CASE phase # "report" /\ ~(PasswordFails \/ FinishUpdates \/ SyncAdditions
                                 \/ RollbackDone \/ RemovalFails \/ DeletesDone)
  BY <1>1, <1>9
     DEF Next, Add, Remove, Environment, BeginAdd, Password,
         ReplaceSource, LinkSource, SyncSource, SyncSourceFails, RollbackSource,
         WriteFails, CommitAdditions, CommitFails, BeginRemove, CommitRemoval,
         SyncRemoval, DeleteSource, Finish, Edit, CleanUp, Crash, Flush,
         PowerLoss, ClearSession, sessionVars
<1>10. QED
  BY <1>2, <1>3, <1>4, <1>5, <1>6, <1>7, <1>8, <1>9

-----------------------------------------------------------------------------
LEMMA SessionInductive == Spec => [](TypeOK /\ Session /\ ReportHonest)
<1>1. TypeOK /\ Session /\ ReportHonest /\ [Next]_vars
         => TypeOK' /\ Session' /\ ReportHonest'
  BY NextSession, NextReport, StutterSession
<1>2. QED
  BY <1>1, InitSession, PTL DEF Spec

\* Every variable of the store keeps its type, whatever fails.
THEOREM TypeCorrect == Spec => []TypeOK
BY SessionInductive, PTL

\* Result of Add and Remove: it names exactly the entries of susu.json that
\* appeared and disappeared, and no error means that all of it was done.
THEOREM Honest == Spec => []ReportHonest
BY SessionInductive, PTL

-----------------------------------------------------------------------------
NoLostSync == ~(PowerMayFail /\ ManifestSyncMayFail)

\* The candidate that is in place but not yet synced.
IsCurrentTodo(p) == phase = "writeSync" /\ IsFirst(p, todo)

-----------------------------------------------------------------------------
(* The disk: what holds of every manifest a power loss can bring back.     *)

\* Whatever a source may be, it is under the key that every manifest expects.
DiskKeys ==
    \A m \in manifestDisk :
        /\ m.key \in {NoKey, manifest.key}
        /\ \A p \in Managed(m) :
              /\ m.entries[p] = "sensitive" => m.key # NoKey
              /\ \A c \in storedDisk[SourceOf(m, p)] :
                    c # Missing => c.key = KeyOf(m, p)

\* It is there for every manifest that refers to it.
DiskPresent ==
    NoLostSync =>
        \A m \in manifestDisk : \A p \in Managed(m) :
            Missing \notin storedDisk[SourceOf(m, p)]

\* Without power loss there is no difference between now and the disk.
DiskIsNow ==
    ~PowerMayFail => /\ manifestDisk = {manifest}
                     /\ \A s \in Source : storedDisk[s] = {stored[s]}

\* Sources an add has installed are complete on disk before susu.json names
\* them.
Installed ==
    phase \in {"write", "writeSync"} =>
        /\ \A p \in created : \A c \in storedDisk[SourceOf(draft, p)] :
              c # Missing /\ c.key = KeyOf(draft, p)
        /\ \A p \in Path : IsCurrentTodo(p) =>
              /\ stored[SourceOf(draft, p)] # Missing
              /\ stored[SourceOf(draft, p)].key = KeyOf(draft, p)

\* What an add may have to roll back, no manifest refers to.
Unreferenced ==
    phase \in {"write", "writeSync", "rollback"} /\ NoLostSync =>
        \A m \in manifestDisk : \A p \in NewPaths :
            p \in created \/ IsCurrentTodo(p) => m.entries[p] # draft.entries[p]

\* Deletion starts when susu.json without the entries is on disk.
ForgottenOnDisk ==
    phase = "delete" /\ NoLostSync => manifestDisk = {manifest}

DiskInv ==
    /\ DiskKeys /\ DiskPresent /\ DiskIsNow
    /\ Installed /\ Unreferenced /\ ForgottenOnDisk

-----------------------------------------------------------------------------
(* Ways in which the disk changes. *)

\* The disk forgets values; susu.json stays or becomes one of those remembered.
LEMMA DiskShrinks ==
    ASSUME TypeOK, TypeOK', DiskKeys, DiskPresent,
           manifestDisk' \subseteq manifestDisk,
           manifest' = manifest \/ manifestDisk' = {manifest'},
           \A s \in Source : storedDisk'[s] \subseteq storedDisk[s]
    PROVE  DiskKeys' /\ DiskPresent'
<1>1. ASSUME NEW m \in manifestDisk', NEW p \in Managed(m)
      PROVE  /\ m \in manifestDisk /\ SourceOf(m, p) \in Source
             /\ storedDisk'[SourceOf(m, p)] \subseteq storedDisk[SourceOf(m, p)]
  BY <1>1, SourceTyped DEF TypeOK
<1>2. \A m \in manifestDisk' : m.key \in {NoKey, manifest'.key}
  BY DEF DiskKeys
<1>3. DiskKeys'
  BY <1>1, <1>2 DEF DiskKeys, Managed, SourceOf, KeyOf
<1>4. DiskPresent'
  BY <1>1 DEF DiskPresent, NoLostSync, Managed, SourceOf
<1>5. QED
  BY <1>3, <1>4

\* A source that no manifest refers to changes.
LEMMA SourceUnseen ==
    ASSUME TypeOK, DiskPresent, NEW s \in Source, UNCHANGED manifestDisk,
           \A t \in Source \ {s} : storedDisk'[t] = storedDisk[t],
           NoLostSync => \A m \in manifestDisk : \A p \in Managed(m) : SourceOf(m, p) # s
    PROVE  DiskPresent'
<1>1. SUFFICES ASSUME NoLostSync, NEW m \in manifestDisk, NEW p \in Managed(m)
               PROVE  Missing \notin storedDisk'[SourceOf(m, p)]
  BY DEF DiskPresent, NoLostSync, Managed, SourceOf
<1>2. SourceOf(m, p) \in Source \ {s}
  BY <1>1, SourceTyped DEF TypeOK
<1>3. QED
  BY <1>1, <1>2 DEF DiskPresent

\* A value with the right key, or none, is written to one source.
LEMMA SourceWritten ==
    ASSUME TypeOK, DiskKeys, NEW s \in Source, NEW c, UNCHANGED <<manifest, manifestDisk>>,
           \A t \in Source \ {s} : storedDisk'[t] = storedDisk[t],
           storedDisk'[s] \subseteq storedDisk[s] \cup {c},
           c # Missing => \A m \in manifestDisk : \A p \in Managed(m) :
                              SourceOf(m, p) = s => c.key = KeyOf(m, p)
    PROVE  DiskKeys'
<1>1. ASSUME NEW m \in manifestDisk, NEW p \in Managed(m), NEW d \in storedDisk'[SourceOf(m, p)],
             d # Missing
      PROVE  d.key = KeyOf(m, p)
  <2>1. SourceOf(m, p) \in Source
    BY <1>1, SourceTyped DEF TypeOK
  <2>2. CASE d \in storedDisk[SourceOf(m, p)]
    BY <1>1, <2>2 DEF DiskKeys
  <2>3. CASE d \notin storedDisk[SourceOf(m, p)]
    BY <1>1, <2>1, <2>3
  <2>4. QED
    BY <2>2, <2>3
<1>2. QED
  BY <1>1 DEF DiskKeys, Managed, SourceOf, KeyOf

\* What the command stores for a candidate has the key every manifest expects.
LEMMA SealedExpected ==
    ASSUME TypeOK, Session, DiskKeys, phase = "write", NEW p \in request, Preflight,
           NEW m \in manifestDisk, NEW q \in Managed(m),
           SourceOf(m, q) = SourceOf(draft, p)
    PROVE  Sealed(p).key = KeyOf(m, q)
<1>1. current = manifest /\ SealingKey
  BY DEF Session
<1>2. Sealed(p).key = KeyOf(draft, p)
  BY <1>1, SealedTyped
<1>3. q = p /\ m.entries[p] = draft.entries[p]
  BY DEF SourceOf
<1>4. m.key \in {NoKey, manifest.key} /\ (m.entries[p] = "sensitive" => m.key # NoKey)
  BY <1>3 DEF DiskKeys
<1>5. m.entries[p] = "sensitive" => m.key = draft.key
  BY <1>1, <1>4 DEF SealingKey
<1>6. QED
  BY <1>2, <1>3, <1>5 DEF KeyOf

-----------------------------------------------------------------------------
(* Sources are written, synced and deleted. *)

LEMMA WriteDisk ==
    ASSUME TypeOK, Session, DiskInv, NEW p \in Path, ReplaceSource(p) \/ LinkSource(p)
    PROVE  DiskInv'
<1> DEFINE s == SourceOf(draft, p)
<1> USE DEF Goto
<1>1. /\ phase = "write" /\ phase' = "writeSync" /\ current = manifest
      /\ p \in todo /\ p \in request /\ IsFirst(p, todo) /\ Preflight
      /\ AddDraft /\ SealingKey /\ Progress
      /\ UNCHANGED <<manifest, manifestDisk, local, current, draft, sessionKey,
                     request, todo, created>>
      /\ NewPaths' = NewPaths
      /\ Put(s, Sealed(p)) /\ s \in Source
  BY SameSession, DraftFacts, TypeParts
     DEF ReplaceSource, LinkSource, Session, IsFirst, reportVars, TypeOK
<1>2. Sealed(p) \in Content /\ Sealed(p) # Missing /\ Sealed(p).key = KeyOf(draft, p)
  BY <1>1, SealedTyped
<1>3. /\ stored'[s] = Sealed(p)
      /\ \A t \in Source \ {s} : stored'[t] = stored[t] /\ storedDisk'[t] = storedDisk[t]
      /\ storedDisk'[s] = Cached(storedDisk[s], Sealed(p))
      /\ storedDisk'[s] \subseteq storedDisk[s] \cup {Sealed(p)}
  BY <1>1, <1>2, PutTyped, TypeParts
<1>4. DiskKeys'
  BY <1>1, <1>3, SealedExpected, SourceWritten DEF DiskInv
<1>5. DiskPresent'
  <2>1. SUFFICES ASSUME NoLostSync, NEW m \in manifestDisk, NEW q \in Managed(m)
                 PROVE  Missing \notin storedDisk'[SourceOf(m, q)]
    BY <1>1 DEF DiskPresent, NoLostSync, Managed, SourceOf
  <2>2. Missing \notin storedDisk[SourceOf(m, q)] /\ SourceOf(m, q) \in Source
    BY <2>1, SourceTyped DEF DiskInv, DiskPresent, TypeOK
  <2>3. QED
    BY <1>2, <1>3, <2>2
<1>6. DiskIsNow'
  BY <1>1, <1>3 DEF DiskInv, DiskIsNow, Cached
<1>7. \A q \in Path : IsCurrentTodo(q)' => q = p
  BY <1>1, FirstUnique DEF IsCurrentTodo, TypeOK
<1>8. Installed'
  <2>1. ASSUME NEW q \in created
        PROVE  \A c \in storedDisk'[SourceOf(draft, q)] : c # Missing /\ c.key = KeyOf(draft, q)
    <3>1. q # p /\ q \in request
      BY <1>1 DEF Progress, TypeOK, NewPaths
    <3>2. SourceOf(draft, q) \in Source \ {s}
      BY <1>1, <3>1, DraftFacts, TypeParts DEF SourceOf
    <3>3. QED
      BY <1>1, <1>3, <3>2 DEF DiskInv, Installed
  <2>2. QED
    BY <1>1, <1>2, <1>3, <1>7, <2>1 DEF Installed, SourceOf, KeyOf
<1>9. Unreferenced'
  <2>1. ASSUME NoLostSync, p \in NewPaths, NEW m \in manifestDisk
        PROVE  m.entries[p] # draft.entries[p]
    <3>1. SUFFICES ASSUME m.entries[p] = draft.entries[p] PROVE FALSE
      OBVIOUS
    <3>2. stored[s] = Missing
      BY <2>1 DEF ReplaceSource, LinkSource, IsUpdate, NewPaths
    <3>3. p \in Managed(m) /\ SourceOf(m, p) = s
      BY <1>1, <3>1, DraftFacts, TypeParts DEF Managed, SourceOf
    <3>4. QED
      BY <1>1, <2>1, <3>2, <3>3 DEF DiskInv, DiskPresent, TypeOK
  <2>2. \A m \in manifestDisk : \A q \in NewPaths :
            NoLostSync /\ q \in created => m.entries[q] # draft.entries[q]
    BY <1>1 DEF DiskInv, Unreferenced
  <2>3. NewPaths \subseteq Path
    BY DEF NewPaths, TypeOK
  <2>4. QED
    BY <1>1, <1>7, <2>1, <2>2, <2>3 DEF Unreferenced, NoLostSync
<1>10. ForgottenOnDisk'
  BY <1>1 DEF ForgottenOnDisk
<1>11. QED
  BY <1>4, <1>5, <1>6, <1>8, <1>9, <1>10 DEF DiskInv

LEMMA SyncDisk ==
    ASSUME TypeOK, TypeOK', Session, DiskInv, NEW p \in Path, SyncSource(p)
    PROVE  DiskInv'
<1> DEFINE s == SourceOf(draft, p)
<1> USE DEF Goto
<1>1. /\ phase = "writeSync" /\ phase' = "write" /\ current = manifest
      /\ p \in todo /\ p \in request /\ IsFirst(p, todo) /\ IsCurrentTodo(p)
      /\ AddDraft /\ Progress
      /\ UNCHANGED <<manifest, manifestDisk, current, draft, request>>
      /\ NewPaths' = NewPaths
      /\ created' = IF IsUpdate(p) THEN created ELSE created \cup {p}
      /\ p \in NewPaths <=> ~IsUpdate(p)
      /\ PutSynced(s, stored[s]) /\ s \in Source
  BY SameSession, DraftFacts, TypeParts
     DEF SyncSource, Session, IsFirst, TypeOK, IsCurrentTodo, NewPaths, IsUpdate
<1>2. stored[s] \in Content \cup {Missing} /\ stored[s] \in storedDisk[s]
  BY <1>1 DEF TypeOK
<1>3. /\ stored'[s] = stored[s]
      /\ \A t \in Source \ {s} : stored'[t] = stored[t] /\ storedDisk'[t] = storedDisk[t]
      /\ storedDisk'[s] = {stored[s]}
  BY <1>1, <1>2, PutTyped, TypeParts
<1>4. DiskKeys' /\ DiskPresent'
  BY <1>1, <1>2, <1>3, DiskShrinks DEF DiskInv
<1>5. DiskIsNow'
  BY <1>1, <1>3 DEF DiskInv, DiskIsNow
<1>6. Installed'
  <2>1. ASSUME NEW q \in created', NEW c \in storedDisk'[SourceOf(draft, q)]
        PROVE  c # Missing /\ c.key = KeyOf(draft, q)
    <3>1. CASE q = p
      BY <1>1, <1>3, <2>1, <3>1 DEF DiskInv, Installed
    <3>2. CASE q # p
      <4>1. q \in created /\ q \in request
        BY <1>1, <2>1, <3>2 DEF TypeOK, NewPaths
      <4>2. SourceOf(draft, q) \in Source \ {s}
        BY <1>1, <3>2, <4>1, DraftFacts, TypeParts DEF SourceOf
      <4>3. QED
        BY <1>1, <1>3, <2>1, <4>1, <4>2 DEF DiskInv, Installed
    <3>3. QED
      BY <3>1, <3>2
  <2>2. QED
    BY <1>1, <2>1 DEF Installed, SourceOf, KeyOf, IsCurrentTodo
<1>7. Unreferenced'
  BY <1>1 DEF DiskInv, Unreferenced, NoLostSync, IsCurrentTodo
<1>8. QED
  BY <1>1, <1>4, <1>5, <1>6, <1>7 DEF DiskInv, ForgottenOnDisk

\* A source is deleted, or its deletion fails.
LEMMA DeleteDisk ==
    ASSUME TypeOK, DiskInv, NEW s \in Source,
           Put(s, Missing) \/ PutSynced(s, Missing) \/ UNCHANGED <<stored, storedDisk>>,
           UNCHANGED <<manifest, manifestDisk>>,
           NoLostSync => \A m \in manifestDisk : \A p \in Managed(m) : SourceOf(m, p) # s
    PROVE  DiskKeys' /\ DiskPresent' /\ DiskIsNow'
<1>1. CASE UNCHANGED <<stored, storedDisk>>
  BY <1>1 DEF DiskInv, DiskKeys, DiskPresent, DiskIsNow, NoLostSync, Managed, SourceOf, KeyOf
<1>2. CASE Put(s, Missing) \/ PutSynced(s, Missing)
  <2>1. /\ stored'[s] = Missing
        /\ \A t \in Source \ {s} : stored'[t] = stored[t] /\ storedDisk'[t] = storedDisk[t]
        /\ storedDisk'[s] \subseteq storedDisk[s] \cup {Missing}
        /\ Put(s, Missing) => storedDisk'[s] = Cached(storedDisk[s], Missing)
        /\ PutSynced(s, Missing) => storedDisk'[s] = {Missing}
    BY <1>2, PutTyped, TypeParts
  <2>2. DiskKeys'
    BY <2>1, SourceWritten DEF DiskInv
  <2>3. DiskPresent'
    BY <2>1, SourceUnseen DEF DiskInv
  <2>4. DiskIsNow'
    BY <1>2, <2>1 DEF DiskInv, DiskIsNow, Cached
  <2>5. QED
    BY <2>2, <2>3, <2>4
<1>3. QED
  BY <1>1, <1>2

LEMMA SyncFailsDisk ==
    ASSUME TypeOK, Session, DiskInv, NEW p \in Path, SyncSourceFails(p)
    PROVE  DiskInv'
<1> DEFINE s == SourceOf(draft, p)
<1> USE DEF Goto
<1>1. /\ phase = "writeSync" /\ phase' = "rollback"
      /\ p \in todo /\ p \in request /\ IsCurrentTodo(p)
      /\ (p \in NewPaths /\ Put(s, Missing)) \/ UNCHANGED <<stored, storedDisk>>
      /\ UNCHANGED <<manifest, manifestDisk, current, draft, request, created>>
      /\ NewPaths' = NewPaths /\ s \in Source
  BY SameSession, DraftFacts, TypeParts
     DEF SyncSourceFails, Session, IsFirst, TypeOK, IsCurrentTodo, NewPaths, IsUpdate
<1>2. p \in NewPaths /\ NoLostSync =>
          \A m \in manifestDisk : \A q \in Managed(m) : SourceOf(m, q) # s
  BY <1>1 DEF DiskInv, Unreferenced, SourceOf
<1>3. DiskKeys' /\ DiskPresent' /\ DiskIsNow'
  <2>1. CASE p \in NewPaths
    BY <1>1, <1>2, <2>1, DeleteDisk
  <2>2. CASE p \notin NewPaths
    BY <1>1, <2>2
       DEF DiskInv, DiskKeys, DiskPresent, DiskIsNow, NoLostSync, Managed, SourceOf, KeyOf
  <2>3. QED
    BY <2>1, <2>2
<1>4. Installed' /\ ForgottenOnDisk'
  BY <1>1 DEF Installed, ForgottenOnDisk
<1>5. Unreferenced'
  BY <1>1 DEF DiskInv, Unreferenced, NoLostSync, IsCurrentTodo
<1>6. QED
  BY <1>3, <1>4, <1>5 DEF DiskInv

LEMMA RollbackDisk ==
    ASSUME TypeOK, Session, DiskInv, NEW p \in Path, RollbackSource(p)
    PROVE  DiskInv'
<1> DEFINE s == SourceOf(draft, p)
<1>1. /\ phase = "rollback" /\ phase' = "rollback"
      /\ p \in created /\ p \in NewPaths /\ p \in request
      /\ created' = created \ {p}
      /\ Put(s, Missing) \/ PutSynced(s, Missing) \/ UNCHANGED <<stored, storedDisk>>
      /\ UNCHANGED <<manifest, manifestDisk, current, draft, request>>
      /\ NewPaths' = NewPaths /\ s \in Source
  BY SameSession, DraftFacts, TypeParts
     DEF RollbackSource, Session, IsFirst, TypeOK, NewPaths
<1>2. NoLostSync => \A m \in manifestDisk : \A q \in Managed(m) : SourceOf(m, q) # s
  BY <1>1 DEF DiskInv, Unreferenced, SourceOf
<1>3. DiskKeys' /\ DiskPresent' /\ DiskIsNow'
  BY <1>1, <1>2, DeleteDisk
<1>4. Installed' /\ ForgottenOnDisk'
  BY <1>1 DEF Installed, ForgottenOnDisk
<1>5. Unreferenced'
  BY <1>1 DEF DiskInv, Unreferenced, NoLostSync, IsCurrentTodo
<1>6. QED
  BY <1>3, <1>4, <1>5 DEF DiskInv

LEMMA RemovalDisk ==
    ASSUME TypeOK, Session, DiskInv, NEW p \in Path, DeleteSource(p)
    PROVE  DiskInv'
<1> DEFINE s == SourceOf(current, p)
<1>1. /\ phase = "delete" /\ phase' = "delete" /\ p \in request /\ p \in Path
      /\ manifest = draft /\ RemoveDraft
      /\ Put(s, Missing) \/ PutSynced(s, Missing) \/ UNCHANGED <<stored, storedDisk>>
      /\ UNCHANGED <<manifest, manifestDisk>> /\ s \in Source
  BY DraftFacts, TypeParts DEF DeleteSource, Session, IsFirst, TypeOK
<1>2. NoLostSync => \A m \in manifestDisk : \A q \in Managed(m) : SourceOf(m, q) # s
  <2>1. NoLostSync => manifestDisk = {draft}
    BY <1>1 DEF DiskInv, ForgottenOnDisk
  <2>2. draft.entries[p] = Unmanaged
    BY <1>1 DEF RemoveDraft
  <2>3. QED
    BY <2>1, <2>2 DEF Managed, SourceOf
<1>3. DiskKeys' /\ DiskPresent' /\ DiskIsNow'
  BY <1>1, <1>2, DeleteDisk
<1>4. QED
  BY <1>1, <1>3 DEF DiskInv, Installed, Unreferenced, ForgottenOnDisk, NoLostSync

LEMMA CleanUpDisk ==
    ASSUME TypeOK, DiskInv, NEW s \in Source, CleanUp(s)
    PROVE  DiskInv'
<1>1. /\ Put(s, Missing) /\ UNCHANGED <<manifest, manifestDisk>>
      /\ phase = "idle" /\ phase' = "idle"
  BY DEF CleanUp, sessionVars
<1>2. \A m \in manifestDisk : \A q \in Managed(m) : SourceOf(m, q) # s
  BY DEF CleanUp, Orphans, SourceOf
<1>3. DiskKeys' /\ DiskPresent' /\ DiskIsNow'
  BY <1>1, <1>2, DeleteDisk
<1>4. QED
  BY <1>1, <1>3 DEF DiskInv, Installed, Unreferenced, ForgottenOnDisk

-----------------------------------------------------------------------------
(* susu.json is replaced. *)

LEMMA CommitAdditionsDisk ==
    ASSUME TypeOK, Session, DiskInv, CommitAdditions
    PROVE  DiskInv'
<1> USE DEF Goto
<1>1. /\ phase = "write" /\ phase' = "commitSync" /\ todo = {} /\ current = manifest
      /\ manifest' = draft /\ manifestDisk' = Cached(manifestDisk, draft)
      /\ AddDraft /\ SealingKey /\ Progress /\ created = NewPaths
      /\ UNCHANGED <<stored, storedDisk>>
      /\ manifestDisk' \subseteq manifestDisk \cup {draft}
  BY DEF CommitAdditions, Session, Progress, Cached
<1>2. ASSUME NEW p \in Managed(draft)
      PROVE  /\ draft.entries[p] = "sensitive" => draft.key # NoKey
             /\ \A c \in storedDisk[SourceOf(draft, p)] :
                    c # Missing => c.key = KeyOf(draft, p)
             /\ NoLostSync => Missing \notin storedDisk[SourceOf(draft, p)]
  <2>1. CASE p \in NewPaths
    BY <1>1, <2>1 DEF DiskInv, Installed, SealingKey, NewPaths
  <2>2. CASE p \notin NewPaths
    <3>1. draft.entries[p] = manifest.entries[p] /\ p \in Managed(manifest)
      BY <1>1, <1>2, <2>2 DEF AddDraft, Managed
    <3>2. manifest.entries[p] = "sensitive" => manifest.key # NoKey
      BY <3>1 DEF DiskInv, DiskKeys, TypeOK
    <3>3. SourceOf(draft, p) = SourceOf(manifest, p)
      BY <3>1 DEF SourceOf
    <3>4. KeyOf(draft, p) = KeyOf(manifest, p)
          /\ (draft.entries[p] = "sensitive" => draft.key # NoKey)
      BY <1>1, <3>1, <3>2 DEF SealingKey, KeyOf
    <3>5. QED
      BY <3>1, <3>3, <3>4 DEF DiskInv, DiskKeys, DiskPresent, TypeOK
  <2>3. QED
    BY <2>1, <2>2
<1>3. \A m \in manifestDisk' : m.key \in {NoKey, manifest'.key}
  BY <1>1 DEF DiskInv, DiskKeys, SealingKey
<1>4. DiskKeys'
  BY <1>1, <1>2, <1>3 DEF DiskInv, DiskKeys, Managed, SourceOf, KeyOf
<1>5. DiskPresent'
  BY <1>1, <1>2 DEF DiskInv, DiskPresent, NoLostSync, Managed, SourceOf
<1>6. DiskIsNow'
  BY <1>1 DEF DiskInv, DiskIsNow, Cached
<1>7. QED
  BY <1>1, <1>4, <1>5, <1>6 DEF DiskInv, Installed, Unreferenced, ForgottenOnDisk

LEMMA CommitRemovalDisk ==
    ASSUME TypeOK, Session, DiskInv, CommitRemoval
    PROVE  DiskInv'
<1> USE DEF Goto
<1>1. /\ phase = "forget" /\ phase' = "forgetSync" /\ current = manifest
      /\ manifest' = draft /\ manifestDisk' = Cached(manifestDisk, draft)
      /\ RemoveDraft
      /\ UNCHANGED <<stored, storedDisk>>
      /\ manifestDisk' \subseteq manifestDisk \cup {draft}
  BY DEF CommitRemoval, Session, Cached
<1>2. ASSUME NEW p \in Managed(draft)
      PROVE  /\ draft.entries[p] = "sensitive" => draft.key # NoKey
             /\ \A c \in storedDisk[SourceOf(draft, p)] :
                    c # Missing => c.key = KeyOf(draft, p)
             /\ NoLostSync => Missing \notin storedDisk[SourceOf(draft, p)]
  <2>1. draft.entries[p] = manifest.entries[p] /\ p \in Managed(manifest)
    BY <1>1, <1>2 DEF RemoveDraft, Managed
  <2>2. SourceOf(draft, p) = SourceOf(manifest, p) /\ KeyOf(draft, p) = KeyOf(manifest, p)
    BY <1>1, <2>1 DEF SourceOf, KeyOf, RemoveDraft
  <2>3. QED
    BY <1>1, <2>1, <2>2 DEF DiskInv, DiskKeys, DiskPresent, TypeOK, RemoveDraft
<1>3. \A m \in manifestDisk' : m.key \in {NoKey, manifest'.key}
  BY <1>1 DEF DiskInv, DiskKeys, RemoveDraft
<1>4. DiskKeys'
  BY <1>1, <1>2, <1>3 DEF DiskInv, DiskKeys, Managed, SourceOf, KeyOf
<1>5. DiskPresent'
  BY <1>1, <1>2 DEF DiskInv, DiskPresent, NoLostSync, Managed, SourceOf
<1>6. DiskIsNow'
  BY <1>1 DEF DiskInv, DiskIsNow, Cached
<1>7. QED
  BY <1>1, <1>4, <1>5, <1>6 DEF DiskInv, Installed, Unreferenced, ForgottenOnDisk

-----------------------------------------------------------------------------
(* susu.json is synced, the kernel writes back, the machine stops. *)

LEMMA SyncManifestDisk ==
    ASSUME TypeOK, TypeOK', DiskInv, SyncAdditions \/ SyncRemoval
    PROVE  DiskInv'
<1> USE DEF Goto
<1>1. /\ phase' \in {"report", "delete"} /\ UNCHANGED <<manifest, stored, storedDisk>>
      /\ \/ manifestDisk' = {manifest}
         \/ ManifestSyncMayFail /\ manifestDisk' = manifestDisk
  BY DEF SyncAdditions, SyncRemoval
<1>2. manifestDisk' \subseteq manifestDisk
  BY <1>1 DEF TypeOK
<1>3. DiskKeys' /\ DiskPresent'
  BY <1>1, <1>2, DiskShrinks DEF DiskInv
<1>4. DiskIsNow'
  BY <1>1 DEF DiskInv, DiskIsNow
<1>5. ForgottenOnDisk'
  BY <1>1 DEF DiskInv, ForgottenOnDisk, NoLostSync, DiskIsNow
<1>6. QED
  BY <1>1, <1>3, <1>4, <1>5 DEF DiskInv, Installed, Unreferenced

LEMMA FlushDisk ==
    ASSUME TypeOK, TypeOK', Session, DiskInv, Flush
    PROVE  DiskInv'
<1>1. /\ manifestDisk' = {manifest} /\ PowerMayFail
      /\ storedDisk' = [s \in Source |-> {stored[s]}]
      /\ UNCHANGED <<manifest, stored, sessionVars>>
  BY DEF Flush
<1>2. /\ manifestDisk' \subseteq manifestDisk
      /\ \A s \in Source : storedDisk'[s] \subseteq storedDisk[s]
  BY <1>1 DEF TypeOK
<1>3. DiskKeys' /\ DiskPresent'
  BY <1>1, <1>2, DiskShrinks DEF DiskInv
<1>4. DiskIsNow' /\ ForgottenOnDisk'
  BY <1>1 DEF DiskIsNow, ForgottenOnDisk
<1>5. /\ UNCHANGED <<NewPaths, phase, created, draft, todo>>
      /\ \A p : IsCurrentTodo(p)' <=> IsCurrentTodo(p)
  BY <1>1 DEF sessionVars, NewPaths, Managed, IsCurrentTodo, IsFirst
<1>6. Installed'
  <2>1. ASSUME phase \in {"write", "writeSync"}, NEW q \in created
        PROVE  SourceOf(draft, q) \in Source
    BY <2>1, DraftFacts, TypeParts DEF Session, TypeOK, NewPaths
  <2>2. phase \in {"write", "writeSync"} =>
           \A q \in created : \A c \in storedDisk'[SourceOf(draft, q)] :
               c # Missing /\ c.key = KeyOf(draft, q)
    BY <1>2, <2>1 DEF DiskInv, Installed
  <2>3. phase \in {"write", "writeSync"} =>
           \A q \in Path : IsCurrentTodo(q)' => /\ stored'[SourceOf(draft, q)] # Missing
                                               /\ stored'[SourceOf(draft, q)].key = KeyOf(draft, q)
    BY <1>1, <1>5 DEF DiskInv, Installed
  <2>4. QED
    BY <1>5, <2>2, <2>3 DEF Installed, SourceOf, KeyOf
<1>7. Unreferenced'
  BY <1>2, <1>5 DEF DiskInv, Unreferenced, NoLostSync
<1>8. QED
  BY <1>3, <1>4, <1>6, <1>7 DEF DiskInv

LEMMA PowerLossDisk ==
    ASSUME TypeOK, TypeOK', DiskInv, PowerLoss
    PROVE  DiskInv'
<1>1. /\ manifestDisk' = {manifest'} /\ manifest' \in manifestDisk
      /\ \A s \in Source : storedDisk'[s] = {stored'[s]}
      /\ \A s \in Source : stored'[s] \in storedDisk[s]
      /\ phase' = "idle"
  BY DEF PowerLoss, ClearSession
<1>2. DiskKeys' /\ DiskPresent'
  BY <1>1, DiskShrinks DEF DiskInv
<1>3. QED
  BY <1>1, <1>2 DEF DiskInv, DiskIsNow, Installed, Unreferenced, ForgottenOnDisk

-----------------------------------------------------------------------------
(* The other steps leave the disk alone. *)

LEMMA SessionDisk ==
    ASSUME DiskInv, UNCHANGED repoVars,
           \/ phase' \notin {"write", "writeSync", "rollback", "delete"}
           \/ phase' = "write" /\ created' = {}
           \/ /\ phase' = "rollback" /\ phase = "write"
              /\ UNCHANGED <<current, request, draft, created>>
           \/ UNCHANGED sessionVars
    PROVE  DiskInv'
<1>1. UNCHANGED <<manifest, manifestDisk, stored, storedDisk>>
  BY DEF repoVars
<1>2. DiskKeys' /\ DiskPresent' /\ DiskIsNow'
  BY <1>1 DEF DiskInv, DiskKeys, DiskPresent, DiskIsNow, NoLostSync, Managed, SourceOf, KeyOf
<1>3. CASE phase' \notin {"write", "writeSync", "rollback", "delete"}
  BY <1>2, <1>3 DEF DiskInv, Installed, Unreferenced, ForgottenOnDisk
<1>4. CASE phase' = "write" /\ created' = {}
  BY <1>2, <1>4 DEF DiskInv, Installed, Unreferenced, ForgottenOnDisk, IsCurrentTodo
<1>5. CASE /\ phase' = "rollback" /\ phase = "write"
           /\ UNCHANGED <<current, request, draft, created>>
  <2>1. NewPaths' = NewPaths
    BY <1>5, SameSession
  <2>2. Unreferenced'
    BY <1>1, <1>5, <2>1 DEF DiskInv, Unreferenced, NoLostSync, IsCurrentTodo
  <2>3. QED
    BY <1>2, <1>5, <2>2 DEF DiskInv, Installed, ForgottenOnDisk
<1>6. CASE UNCHANGED sessionVars
  <2>1. NewPaths' = NewPaths /\ (\A p : IsCurrentTodo(p)' <=> IsCurrentTodo(p))
    BY <1>6 DEF sessionVars, NewPaths, Managed, IsCurrentTodo, IsFirst
  <2>2. Installed'
    BY <1>1, <1>6, <2>1 DEF DiskInv, Installed, sessionVars, SourceOf, KeyOf
  <2>3. Unreferenced' /\ ForgottenOnDisk'
    BY <1>1, <1>6, <2>1 DEF DiskInv, Unreferenced, ForgottenOnDisk, sessionVars, NoLostSync
  <2>4. QED
    BY <1>2, <2>2, <2>3 DEF DiskInv
<1>7. QED
  BY <1>3, <1>4, <1>5, <1>6

LEMMA InitDisk == Init => DiskInv
<1> SUFFICES ASSUME Init PROVE DiskInv
  OBVIOUS
<1>1. Managed(EmptyManifest) = {}
  BY DEF EmptyManifest, Managed
<1>2. DiskKeys /\ DiskPresent
  BY <1>1 DEF Init, DiskKeys, DiskPresent, EmptyManifest
<1>3. DiskIsNow /\ Installed /\ Unreferenced /\ ForgottenOnDisk
  BY DEF Init, DiskIsNow, Installed, Unreferenced, ForgottenOnDisk
<1>4. QED
  BY <1>2, <1>3 DEF DiskInv

LEMMA NextDisk ==
    ASSUME TypeOK, Session, TypeOK', DiskInv, Next
    PROVE  DiskInv'
<1> USE DEF Goto
<1>1. ASSUME NEW P \in SUBSET Path, NEW cls \in Class, BeginAdd(P, cls) PROVE DiskInv'
  BY <1>1, SessionDisk DEF BeginAdd, Session
<1>2. CASE Password
  <2>1. created' = {} /\ phase' = "write"
    BY <1>2 DEF Password, Session, Progress, NewPaths
  <2>2. QED
    BY <1>2, <2>1, SessionDisk DEF Password
<1>3. CASE PasswordFails \/ FinishUpdates \/ RollbackDone \/ RemovalFails \/ DeletesDone
  BY <1>3, SessionDisk DEF PasswordFails, FinishUpdates, RollbackDone, RemovalFails, DeletesDone
<1>4. ASSUME NEW p \in Path, ReplaceSource(p) \/ LinkSource(p) PROVE DiskInv'
  BY <1>4, WriteDisk
<1>5. CASE WriteFails \/ CommitFails
  BY <1>5, SessionDisk DEF WriteFails, CommitFails
<1>6. ASSUME NEW p \in Path, SyncSource(p) PROVE DiskInv'
  BY <1>6, SyncDisk
<1>7. ASSUME NEW p \in Path, SyncSourceFails(p) PROVE DiskInv'
  BY <1>7, SyncFailsDisk
<1>8. ASSUME NEW p \in Path, RollbackSource(p) PROVE DiskInv'
  BY <1>8, RollbackDisk
<1>9. ASSUME NEW P \in SUBSET Path, BeginRemove(P) PROVE DiskInv'
  BY <1>9, SessionDisk DEF BeginRemove
<1>10. ASSUME NEW p \in Path, DeleteSource(p) PROVE DiskInv'
  BY <1>10, RemovalDisk
<1>11. ASSUME NEW s \in Source, CleanUp(s) PROVE DiskInv'
  BY <1>11, CleanUpDisk
<1>12. ASSUME NEW p \in Path, Edit(p) PROVE DiskInv'
  BY <1>12, SessionDisk DEF Edit
<1>13. CASE Finish \/ Crash
  BY <1>13, SessionDisk DEF Finish, Crash, ClearSession
<1>14. QED
  BY <1>1, <1>2, <1>3, <1>4, <1>5, <1>6, <1>7, <1>8, <1>9, <1>10, <1>11, <1>12,
     <1>13, CommitAdditionsDisk, CommitRemovalDisk, SyncManifestDisk, FlushDisk,
     PowerLossDisk DEF Next, Add, Remove, Environment

LEMMA DiskInductive == Spec => [](TypeOK /\ Session /\ DiskInv)
<1>1. UNCHANGED vars => UNCHANGED repoVars /\ UNCHANGED sessionVars
  BY DEF vars, repoVars, sessionVars
<1>2. TypeOK /\ Session /\ TypeOK' /\ DiskInv /\ [Next]_vars => DiskInv'
  BY <1>1, NextDisk, SessionDisk
<1>3. QED
  BY <1>2, InitDisk, SessionInductive, PTL DEF Spec

\* SaveManifest and RemoveSource: where a lost sync of susu.json's directory
\* cannot meet a power loss, susu.json never refers to a source that is not
\* there, whatever else fails and wherever the process is killed.
THEOREM NeverDangling ==
    ASSUME ~(PowerMayFail /\ ManifestSyncMayFail)
    PROVE  Spec => []NoDangling
<1>1. TypeOK /\ DiskInv => NoDangling
  <2> SUFFICES ASSUME TypeOK, DiskInv, NEW p \in Managed(manifest)
               PROVE  stored[SourceOf(manifest, p)] # Missing
    BY DEF NoDangling
  <2>1. SourceOf(manifest, p) \in Source
    BY SourceTyped DEF TypeOK
  <2>2. Missing \notin storedDisk[SourceOf(manifest, p)]
    BY DEF DiskInv, DiskPresent, NoLostSync, TypeOK
  <2>3. QED
    BY <2>1, <2>2 DEF TypeOK
<1>2. QED
  BY <1>1, DiskInductive, PTL

\* addWithHooks and Initialize: every sensitive entry that has its source is
\* sealed under the one key of susu.json, through power losses too.
THEOREM AlwaysDecryptable == Spec => []Decryptable
<1>1. TypeOK /\ DiskInv => Decryptable
  <2> SUFFICES ASSUME TypeOK, DiskInv, NEW p \in Managed(manifest),
                      stored[SourceOf(manifest, p)] # Missing
               PROVE  IF manifest.entries[p] = "sensitive"
                      THEN /\ manifest.key # NoKey
                           /\ stored[SourceOf(manifest, p)].key = manifest.key
                      ELSE stored[SourceOf(manifest, p)].key = NoKey
    BY DEF Decryptable
  <2>1. stored[SourceOf(manifest, p)] \in storedDisk[SourceOf(manifest, p)]
    BY SourceTyped DEF TypeOK
  <2>2. QED
    BY <2>1 DEF DiskInv, DiskKeys, KeyOf, TypeOK
<1>2. QED
  BY <1>1, DiskInductive, PTL

\* Remove: with the same exclusion, no susu.json that may come back refers to a
\* source that rm has deleted.
THEOREM ForgetsFirst ==
    ASSUME ~(PowerMayFail /\ ManifestSyncMayFail)
    PROVE  Spec => []ManifestForgetsFirst
<1>1. TypeOK /\ Session /\ DiskInv => ManifestForgetsFirst
  <2> SUFFICES ASSUME TypeOK, Session, DiskInv, phase = "delete", NEW p \in request
               PROVE  \A m \in manifestDisk : m.entries[p] # current.entries[p]
    BY DEF ManifestForgetsFirst
  <2>1. manifestDisk = {draft} /\ RemoveDraft
    BY DEF DiskInv, ForgottenOnDisk, NoLostSync, Session
  <2>2. draft.entries[p] = Unmanaged /\ current.entries[p] # Unmanaged
    BY <2>1 DEF RemoveDraft, Managed, TypeOK
  <2>3. QED
    BY <2>1, <2>2
<1>2. QED
  BY <1>1, DiskInductive, PTL

-----------------------------------------------------------------------------
(* Sources that nobody refers to.  A running command still has to deal     *)
(* with those in flight.                                                   *)

InFlight ==
    {s \in Source :
        \/ /\ phase \in {"write", "writeSync", "rollback"}
           /\ s[2] \in created \/ (s[2] \in NewPaths /\ IsCurrentTodo(s[2]))
           /\ s[1] = draft.entries[s[2]]
        \/ /\ phase \in {"forgetSync", "delete"}
           /\ s[2] \in todo
           /\ s[1] = current.entries[s[2]]}

OrphansKnown == Orphans \subseteq residue \cup InFlight

LEMMA SourcePair ==
    ASSUME NEW t \in Source
    PROVE  t[1] \in Class /\ t[2] \in Path /\ t = <<t[1], t[2]>>
BY DEF Source

LEMMA NoneInFlight ==
    ASSUME \/ phase \notin {"write", "writeSync", "rollback", "forgetSync", "delete"}
           \/ phase \in {"write", "rollback"} /\ created = {}
           \/ phase = "delete" /\ todo = {}
    PROVE  InFlight = {}
BY DEF InFlight, IsCurrentTodo

\* A step that neither installs nor forgets a source.
LEMMA SameOrphans ==
    ASSUME OrphansKnown, UNCHANGED <<manifest, residue>>,
           \A t \in Source : stored'[t] = stored[t],
           InFlight \subseteq InFlight'
    PROVE  OrphansKnown'
BY DEF OrphansKnown, Orphans

\* One source goes away, or it joins the residue.
LEMMA OrphanGone ==
    ASSUME TypeOK, OrphansKnown, UNCHANGED manifest, NEW s \in Source,
           \/ (Put(s, Missing) \/ PutSynced(s, Missing)) /\ residue \ {s} \subseteq residue'
           \/ residue' = residue \cup {s} /\ UNCHANGED stored,
           InFlight \ {s} \subseteq InFlight'
    PROVE  OrphansKnown'
<1>1. CASE Put(s, Missing) \/ PutSynced(s, Missing)
  <2>1. stored'[s] = Missing /\ \A t \in Source \ {s} : stored'[t] = stored[t]
    BY <1>1, PutTyped, TypeParts
  <2>2. QED
    BY <2>1 DEF OrphansKnown, Orphans
<1>2. CASE UNCHANGED stored /\ residue' = residue \cup {s}
  BY <1>2 DEF OrphansKnown, Orphans
<1>3. QED
  BY <1>1, <1>2

LEMMA LinkOrphans ==
    ASSUME TypeOK, Session, OrphansKnown, NEW p \in Path, ReplaceSource(p) \/ LinkSource(p)
    PROVE  OrphansKnown'
<1> DEFINE s == SourceOf(draft, p)
<1> USE DEF Goto
<1>1. /\ phase = "write" /\ phase' = "writeSync" /\ current = manifest
      /\ p \in todo /\ p \in request /\ IsFirst(p, todo) /\ Preflight
      /\ AddDraft /\ SealingKey
      /\ UNCHANGED <<manifest, current, draft, request, todo, created, residue>>
      /\ NewPaths' = NewPaths
      /\ Put(s, Sealed(p)) /\ s \in Source
  BY SameSession, DraftFacts, TypeParts
     DEF ReplaceSource, LinkSource, Session, IsFirst, reportVars, TypeOK
<1>2. \A t \in Source \ {s} : stored'[t] = stored[t]
  BY <1>1, SealedTyped, PutTyped, TypeParts
<1>3. InFlight \subseteq InFlight'
  BY <1>1 DEF InFlight, IsCurrentTodo
<1>4. s \in Orphans' => s \in InFlight'
  <2>1. CASE p \in NewPaths
    BY <1>1, <2>1 DEF InFlight, IsCurrentTodo, SourceOf
  <2>2. CASE p \notin NewPaths
    BY <1>1, <2>2 DEF AddDraft, Orphans, SourceOf
  <2>3. QED
    BY <2>1, <2>2
<1>5. QED
  BY <1>1, <1>2, <1>3, <1>4 DEF OrphansKnown, Orphans

LEMMA SyncOrphans ==
    ASSUME TypeOK, Session, OrphansKnown, NEW p \in Path, SyncSource(p)
    PROVE  OrphansKnown'
<1> DEFINE s == SourceOf(draft, p)
<1> USE DEF Goto
<1>1. /\ phase = "writeSync" /\ phase' = "write" /\ p \in todo /\ p \in request
      /\ IsFirst(p, todo)
      /\ UNCHANGED <<manifest, current, draft, request, residue>>
      /\ NewPaths' = NewPaths
      /\ created' = IF IsUpdate(p) THEN created ELSE created \cup {p}
      /\ p \in NewPaths <=> ~IsUpdate(p)
      /\ PutSynced(s, stored[s]) /\ s \in Source
  BY SameSession, DraftFacts, TypeParts
     DEF SyncSource, Session, IsFirst, TypeOK, NewPaths, IsUpdate
<1>2. \A t \in Source : stored'[t] = stored[t]
  BY <1>1, PutTyped, TypeParts DEF TypeOK
<1>3. \A q : IsCurrentTodo(q) => q = p
  BY <1>1, FirstUnique DEF IsCurrentTodo, TypeOK
<1>4. InFlight \subseteq InFlight'
  BY <1>1, <1>3 DEF InFlight
<1>5. QED
  BY <1>1, <1>2, <1>4, SameOrphans

LEMMA UndoOrphans ==
    ASSUME TypeOK, Session, OrphansKnown, NEW p \in Path,
           SyncSourceFails(p) \/ RollbackSource(p)
    PROVE  OrphansKnown'
<1> DEFINE s == SourceOf(draft, p)
<1> USE DEF Goto
<1>1. /\ phase \in {"writeSync", "rollback"} /\ phase' = "rollback" /\ p \in request
      /\ AddDraft /\ s \in Source
      /\ UNCHANGED <<manifest, current, draft, request>>
      /\ NewPaths' = NewPaths
      /\ created \ {p} \subseteq created'
      /\ phase = "writeSync" => created' = created /\ IsFirst(p, todo)
  BY SameSession, DraftFacts, TypeParts
     DEF SyncSourceFails, RollbackSource, Session, IsFirst, TypeOK, NewPaths, IsUpdate
<1>2. \A q : IsCurrentTodo(q) => q = p
  BY <1>1, FirstUnique DEF IsCurrentTodo, TypeOK
<1>3. InFlight \ {s} \subseteq InFlight'
  <2>1. ASSUME NEW t \in InFlight, t # s
        PROVE  t \in InFlight'
    <3>1. t[2] # p
      BY <1>1, <2>1, SourcePair DEF InFlight, SourceOf
    <3>2. t[2] \in created /\ t[1] = draft.entries[t[2]]
      BY <1>1, <1>2, <2>1, <3>1 DEF InFlight
    <3>3. QED
      BY <1>1, <2>1, <3>1, <3>2 DEF InFlight
  <2>2. QED
    BY <2>1
<1>4. CASE (Put(s, Missing) \/ PutSynced(s, Missing)) /\ residue \ {s} \subseteq residue'
  BY <1>1, <1>3, <1>4, OrphanGone
<1>5. CASE residue' = residue \cup {s} /\ UNCHANGED stored
  BY <1>1, <1>3, <1>5, OrphanGone
<1>6. CASE SyncSourceFails(p) /\ IsUpdate(p) /\ UNCHANGED <<stored, residue>>
  <2>1. s \notin InFlight /\ \A q \in NewPaths : q # p
    BY <1>1, <1>6, TypeParts
       DEF SyncSourceFails, Session, InFlight, SourceOf, IsUpdate, NewPaths, TypeOK
  <2>2. QED
    BY <1>1, <1>3, <1>6, <2>1, SameOrphans
<1>7. QED
  BY <1>4, <1>5, <1>6 DEF SyncSourceFails, RollbackSource

LEMMA DeleteOrphans ==
    ASSUME TypeOK, Session, OrphansKnown, NEW p \in Path, DeleteSource(p)
    PROVE  OrphansKnown'
<1> DEFINE s == SourceOf(current, p)
<1>1. /\ phase = "delete" /\ phase' = "delete" /\ p \in request /\ s \in Source
      /\ UNCHANGED <<manifest, current>> /\ todo' = todo \ {p}
  BY DraftFacts, TypeParts DEF DeleteSource, Session, IsFirst, TypeOK
<1>2. InFlight \ {s} \subseteq InFlight'
  <2>1. ASSUME NEW t \in InFlight, t # s
        PROVE  t[2] # p
    BY <1>1, <2>1, SourcePair DEF InFlight, SourceOf
  <2>2. QED
    BY <1>1, <2>1 DEF InFlight
<1>3. \/ (Put(s, Missing) \/ PutSynced(s, Missing)) /\ residue' = residue
      \/ residue' = residue \cup {s} /\ UNCHANGED stored
  BY DEF DeleteSource
<1>4. QED
  BY <1>1, <1>2, <1>3, OrphanGone

LEMMA CommitOrphans ==
    ASSUME TypeOK, Session, OrphansKnown, CommitAdditions \/ CommitRemoval
    PROVE  OrphansKnown'
<1> USE DEF Goto
<1>1. CASE CommitAdditions
  <2>1. /\ phase = "write" /\ manifest' = draft /\ current = manifest /\ todo = {}
        /\ AddDraft /\ created = NewPaths /\ UNCHANGED <<stored, residue>>
    BY <1>1 DEF CommitAdditions, Session, Progress
  <2>2. ASSUME NEW t \in Orphans' PROVE t \in Orphans /\ t \notin InFlight
    <3>1. t \in Source /\ stored[t] # Missing /\ draft.entries[t[2]] # t[1]
      BY <2>1 DEF Orphans
    <3>2. t[1] \in Class /\ t[2] \in Path
      BY <3>1, SourcePair
    <3>3. manifest.entries[t[2]] # t[1]
      BY <2>1, <3>1, <3>2, StoreAssumption DEF AddDraft, NewPaths, Managed, Class
    <3>4. QED
      BY <2>1, <3>1, <3>3 DEF Orphans, InFlight
  <2>3. QED
    BY <2>1, <2>2 DEF OrphansKnown
<1>2. CASE CommitRemoval
  <2>1. /\ phase = "forget" /\ phase' = "forgetSync" /\ manifest' = draft
        /\ current = manifest /\ todo = request /\ RemoveDraft
        /\ UNCHANGED <<stored, residue, current, todo>>
    BY <1>2 DEF CommitRemoval, Session
  <2>2. InFlight = {}
    BY <2>1, NoneInFlight
  <2>3. ASSUME NEW t \in Orphans', t \notin Orphans PROVE t \in InFlight'
    <3>1. t \in Source /\ draft.entries[t[2]] # t[1] /\ manifest.entries[t[2]] = t[1]
      BY <2>1, <2>3 DEF Orphans
    <3>2. t[2] \in request
      BY <2>1, <3>1, SourcePair DEF RemoveDraft
    <3>3. QED
      BY <2>1, <3>1, <3>2 DEF InFlight
  <2>4. QED
    BY <2>1, <2>2, <2>3 DEF OrphansKnown
<1>3. QED
  BY <1>1, <1>2

LEMMA NextOrphans ==
    ASSUME TypeOK, Session, OrphansKnown, Next
    PROVE  OrphansKnown'
<1> USE DEF Goto
<1>1. ASSUME InFlight = {}, UNCHANGED <<manifest, stored, residue>> PROVE OrphansKnown'
  BY <1>1, SameOrphans
<1>2. ASSUME UNCHANGED <<manifest, stored, residue, sessionVars>> PROVE OrphansKnown'
  <2>1. InFlight' = InFlight
    BY <1>2 DEF InFlight, sessionVars, IsCurrentTodo, IsFirst, NewPaths, Managed
  <2>2. QED
    BY <1>2, <2>1, SameOrphans
<1>3. ASSUME NEW P \in SUBSET Path,
             (\E cls \in Class : BeginAdd(P, cls)) \/ BeginRemove(P)
      PROVE  OrphansKnown'
  BY <1>1, <1>3, NoneInFlight DEF BeginAdd, BeginRemove, repoVars
<1>4. CASE Password \/ PasswordFails \/ SyncAdditions \/ RemovalFails \/ Finish
  BY <1>1, <1>4, NoneInFlight
     DEF Password, PasswordFails, SyncAdditions, RemovalFails, Finish, repoVars
<1>5. CASE FinishUpdates \/ RollbackDone \/ DeletesDone
  BY <1>1, <1>5, NoneInFlight DEF FinishUpdates, RollbackDone, DeletesDone, repoVars
<1>6. CASE WriteFails \/ CommitFails
  <2>1. /\ phase = "write" /\ phase' = "rollback"
        /\ UNCHANGED <<repoVars, current, draft, request, created, residue>>
    BY <1>6 DEF WriteFails, CommitFails
  <2>2. InFlight \subseteq InFlight'
    BY <2>1 DEF InFlight, IsCurrentTodo
  <2>3. QED
    BY <2>1, <2>2, SameOrphans DEF repoVars
<1>7. CASE SyncRemoval
  <2>1. /\ phase = "forgetSync" /\ phase' = "delete"
        /\ UNCHANGED <<manifest, stored, current, todo, residue>>
    BY <1>7 DEF SyncRemoval
  <2>2. InFlight \subseteq InFlight'
    BY <2>1 DEF InFlight
  <2>3. QED
    BY <2>1, <2>2, SameOrphans
<1>8. ASSUME NEW p \in Path, Edit(p) PROVE OrphansKnown'
  BY <1>2, <1>8 DEF Edit, repoVars
<1>9. CASE Flush
  BY <1>2, <1>9 DEF Flush
<1>10. ASSUME NEW s \in Source, CleanUp(s) PROVE OrphansKnown'
  <2>1. InFlight = {}
    BY <1>10, NoneInFlight DEF CleanUp
  <2>2. QED
    BY <1>10, <2>1, OrphanGone DEF CleanUp
<1>11. CASE Crash
  BY <1>11 DEF Crash, OrphansKnown, Orphans, repoVars
<1>12. CASE PowerLoss
  BY <1>12 DEF PowerLoss, OrphansKnown
<1>13. QED
  BY <1>3, <1>4, <1>5, <1>6, <1>7, <1>8, <1>9, <1>10, <1>11, <1>12, LinkOrphans,
     SyncOrphans, UndoOrphans, DeleteOrphans, CommitOrphans
     DEF Next, Add, Remove, Environment

\* addWithHooks's rollback and Remove: outside a command, a source that susu.json
\* does not refer to is one whose clean-up failed or was interrupted.
THEOREM OrphansExplained == Spec => []NoSilentOrphans
<1>1. Init => OrphansKnown
  BY DEF Init, OrphansKnown, Orphans
<1>2. OrphansKnown /\ UNCHANGED vars => OrphansKnown'
  BY DEF vars, repoVars, sessionVars, OrphansKnown, Orphans, InFlight,
         IsCurrentTodo, IsFirst, NewPaths, Managed
<1>3. OrphansKnown => NoSilentOrphans
  BY NoneInFlight DEF OrphansKnown, NoSilentOrphans
<1>4. TypeOK /\ Session /\ OrphansKnown /\ [Next]_vars => OrphansKnown'
  BY <1>2, NextOrphans
<1>5. QED
  BY <1>1, <1>3, <1>4, SessionInductive, PTL DEF Spec

-----------------------------------------------------------------------------
(* What a step may change.  A power loss may bring back an older susu.json *)
(* or source, so the rest is about a machine that does not lose power.     *)

\* replaceAddSource and WriteNewSource: what is stored is overwritten only as a
\* reported update of the entry that owns it.
THEOREM OverwritesOnlyUpdates ==
    ASSUME ~PowerMayFail
    PROVE  Spec => OnlyUpdatesOverwrite
<1> DEFINE Overwrite == \A s \in Source :
               stored[s] # Missing /\ stored'[s] \notin {Missing, stored[s]}
                  => /\ manifest.entries[s[2]] = s[1]
                     /\ s[2] \in updated'
<1>1. ASSUME TypeOK, Session, Next PROVE Overwrite
  <2>1. CASE UNCHANGED stored
    BY <2>1
  <2>2. ASSUME NEW t \in Source, Put(t, Missing) \/ PutSynced(t, Missing) PROVE Overwrite
    BY <2>2, PutTyped, <1>1, TypeParts
  <2>3. ASSUME NEW p \in Path, ReplaceSource(p) \/ LinkSource(p) PROVE Overwrite
    <3> DEFINE s == SourceOf(draft, p)
    <3>1. /\ phase = "write" /\ current = manifest /\ p \in request
          /\ AddDraft /\ SealingKey /\ Preflight /\ Put(s, Sealed(p)) /\ s \in Source
      BY <1>1, <2>3, DraftFacts, TypeParts
         DEF ReplaceSource, LinkSource, Session, IsFirst, TypeOK
    <3>2. \A t \in Source \ {s} : stored'[t] = stored[t]
      BY <1>1, <3>1, SealedTyped, PutTyped, TypeParts
    <3>3. CASE LinkSource(p)
      BY <3>2, <3>3 DEF LinkSource
    <3>4. CASE ReplaceSource(p)
      <4>1. manifest.entries[p] = draft.entries[p] /\ p \in updated'
        BY <2>3, <3>1, <3>4 DEF ReplaceSource, AddDraft, NewPaths, IsUpdate
      <4>2. QED
        BY <3>2, <4>1 DEF SourceOf
    <3>5. QED
      BY <2>3, <3>3, <3>4
  <2>4. ASSUME NEW p \in Path, SyncSource(p) PROVE Overwrite
    <3>1. PutSynced(SourceOf(draft, p), stored[SourceOf(draft, p)])
          /\ SourceOf(draft, p) \in Source
      BY <1>1, <2>4, DraftFacts, TypeParts DEF SyncSource, Session, IsFirst, TypeOK
    <3>2. QED
      BY <1>1, <3>1, PutTyped, TypeParts DEF TypeOK
  <2>5. ASSUME NEW p \in Path, SyncSourceFails(p) \/ RollbackSource(p) PROVE Overwrite
    <3>1. SourceOf(draft, p) \in Source
      BY <1>1, <2>5, DraftFacts, TypeParts
         DEF SyncSourceFails, RollbackSource, Session, IsFirst, TypeOK, NewPaths
    <3>2. QED
      BY <2>1, <2>2, <2>5, <3>1 DEF SyncSourceFails, RollbackSource
  <2>6. ASSUME NEW p \in Path, DeleteSource(p) PROVE Overwrite
    <3>1. SourceOf(current, p) \in Source
      BY <1>1, <2>6, DraftFacts, TypeParts DEF DeleteSource, Session, IsFirst, TypeOK
    <3>2. QED
      BY <2>1, <2>2, <2>6, <3>1 DEF DeleteSource
  <2>7. ASSUME NEW s \in Source, CleanUp(s) PROVE Overwrite
    BY <2>2, <2>7 DEF CleanUp
  <2>8. QED
    BY <1>1, <2>1, <2>3, <2>4, <2>5, <2>6, <2>7
       DEF Next, Add, Remove, Environment, BeginAdd, Password, PasswordFails,
           WriteFails, FinishUpdates, CommitAdditions, CommitFails, SyncAdditions,
           RollbackDone, BeginRemove, CommitRemoval, RemovalFails, SyncRemoval,
           DeletesDone, Finish, Edit, Crash, Flush, PowerLoss, repoVars
<1>2. TypeOK /\ Session /\ [Next]_vars => [Overwrite]_vars
  BY <1>1
<1>3. QED
  BY <1>2, SessionInductive, PTL DEF Spec, OnlyUpdatesOverwrite

\* Steps other than the commits leave susu.json alone.
LEMMA OnlyCommits ==
    ASSUME ~PowerMayFail, Next, ~CommitAdditions, ~CommitRemoval
    PROVE  UNCHANGED manifest
BY DEF Next, Add, Remove, Environment, BeginAdd, Password, PasswordFails,
       ReplaceSource, LinkSource, SyncSource, SyncSourceFails, RollbackSource,
       WriteFails, FinishUpdates, CommitFails, SyncAdditions,
       RollbackDone, BeginRemove, RemovalFails, SyncRemoval, DeleteSource,
       DeletesDone, Finish, Edit, CleanUp, Crash, Flush, PowerLoss, repoVars

\* Initialize and Save: crypto metadata is never replaced or dropped.
THEOREM KeyStays ==
    ASSUME ~PowerMayFail
    PROVE  Spec => KeyIsForever
<1> DEFINE Kept == manifest.key # NoKey => manifest'.key = manifest.key
<1>1. ASSUME Session, Next PROVE Kept
  <2>1. CASE CommitAdditions
    BY <1>1, <2>1 DEF CommitAdditions, Session, SealingKey
  <2>2. CASE CommitRemoval
    BY <1>1, <2>2 DEF CommitRemoval, Session, RemoveDraft
  <2>3. QED
    BY <1>1, <2>1, <2>2, OnlyCommits
<1>2. Session /\ [Next]_vars => [Kept]_vars
  BY <1>1
<1>3. QED
  BY <1>2, SessionInductive, PTL DEF Spec, KeyIsForever

-----------------------------------------------------------------------------
(* Refinement: the store implements the ledger.                            *)

\* What the ledger keeps for p.
Held(p) == [class |-> manifest.entries[p],
            key   |-> stored[SourceOf(manifest, p)].key,
            data  |-> stored[SourceOf(manifest, p)].data]

SnapshotFacts ==
    /\ \A p \in Path : p \in Managed(manifest) =>
          /\ stored[SourceOf(manifest, p)] \in Content
          /\ Snapshot[p] = Held(p) /\ Snapshot[p] # Unmanaged
          /\ Held(p) \in Ledger!Public \cup Ledger!Sensitive(manifest.key)
    /\ \A p \in Path : p \notin Managed(manifest) => Snapshot[p] = Unmanaged
    /\ Ledger!InLedger = Managed(manifest)

LEMMA SnapshotIs ==
    ASSUME ~PowerMayFail
    PROVE  TypeOK /\ DiskInv => SnapshotFacts
<1> SUFFICES ASSUME TypeOK, DiskInv PROVE SnapshotFacts
  OBVIOUS
<1>1. ASSUME NEW p \in Path, p \in Managed(manifest)
      PROVE  /\ stored[SourceOf(manifest, p)] \in Content
             /\ Snapshot[p] = Held(p) /\ Snapshot[p] # Unmanaged
             /\ Held(p) \in Ledger!Public \cup Ledger!Sensitive(manifest.key)
  <2> DEFINE s == SourceOf(manifest, p)
  <2>1. s \in Source /\ manifest \in manifestDisk /\ stored[s] \in storedDisk[s]
    BY <1>1, SourceTyped DEF TypeOK
  <2>2. stored[s] # Missing /\ stored[s] \in Content
    BY <1>1, <2>1 DEF DiskInv, DiskPresent, NoLostSync, TypeOK
  <2>3. /\ stored[s].key = KeyOf(manifest, p)
        /\ manifest.entries[p] = "sensitive" => manifest.key # NoKey
    BY <1>1, <2>1, <2>2 DEF DiskInv, DiskKeys
  <2>4. manifest.entries[p] \in Class /\ manifest.key \in Key \cup {NoKey}
    BY <1>1 DEF TypeOK, Manifest, Managed
  <2>5. stored[s].data \in Data /\ stored[s].key \in Key \cup {NoKey}
    BY <2>2 DEF Content
  <2>6. Held(p) # Unmanaged
    BY <2>4, <2>5, StoreAssumption DEF Held, Class
  <2>7. Snapshot[p] = Held(p)
    BY <1>1, <2>2 DEF Snapshot, Held
  <2>8. Held(p) \in Ledger!Public \cup Ledger!Sensitive(manifest.key)
    <3>1. CASE manifest.entries[p] = "public"
      BY <2>3, <2>5, <3>1 DEF Held, KeyOf, Ledger!Public
    <3>2. CASE manifest.entries[p] = "sensitive"
      BY <2>3, <2>5, <3>2 DEF Held, KeyOf, Ledger!Sensitive
    <3>3. QED
      BY <2>4, <3>1, <3>2 DEF Class
  <2>9. QED
    BY <2>2, <2>6, <2>7, <2>8
<1>2. \A p \in Path : p \notin Managed(manifest) => Snapshot[p] = Unmanaged
  BY DEF Snapshot
<1>3. Ledger!InLedger = Managed(manifest)
  BY <1>1, <1>2 DEF Ledger!InLedger, Managed
<1>4. QED
  BY <1>1, <1>2, <1>3 DEF SnapshotFacts

\* Nothing that an entry refers to changes.
LEMMA SameSnapshot ==
    ASSUME UNCHANGED manifest,
           \A p \in Managed(manifest) :
               stored'[SourceOf(manifest, p)] = stored[SourceOf(manifest, p)]
    PROVE  UNCHANGED Ledger!lvars
<1>1. \A p \in Path : Snapshot'[p] = Snapshot[p]
  BY DEF Snapshot, Managed, SourceOf
<1>2. Snapshot' = Snapshot
  BY <1>1 DEF Snapshot
<1>3. QED
  BY <1>2 DEF Ledger!lvars

\* A deletion reaches only what no entry refers to.
LEMMA DeleteUnseen ==
    ASSUME ~PowerMayFail, TypeOK, Session, DiskInv, NEW p \in Path,
           SyncSourceFails(p) \/ RollbackSource(p) \/ DeleteSource(p)
    PROVE  UNCHANGED Ledger!lvars
<1> USE DEF Goto
<1>1. PICK s \in Source : /\ Put(s, Missing) \/ PutSynced(s, Missing) \/ UNCHANGED stored
                          /\ \A q \in Managed(manifest) : SourceOf(manifest, q) # s
                                \/ UNCHANGED stored
  <2>1. CASE SyncSourceFails(p) \/ RollbackSource(p)
    <3> DEFINE s == SourceOf(draft, p)
    <3>1. /\ p \in request /\ s \in Source /\ current = manifest
          /\ UNCHANGED stored \/ (p \in NewPaths /\ (Put(s, Missing) \/ PutSynced(s, Missing)))
      BY <2>1, DraftFacts, TypeParts
         DEF SyncSourceFails, RollbackSource, Session, IsFirst, TypeOK, NewPaths, IsUpdate
    <3>2. p \in NewPaths => \A q \in Managed(manifest) : SourceOf(manifest, q) # s
      BY <3>1 DEF NewPaths, SourceOf
    <3>3. QED
      BY <3>1, <3>2
  <2>2. CASE DeleteSource(p)
    <3> DEFINE s == SourceOf(current, p)
    <3>1. /\ p \in request /\ s \in Source /\ manifest = draft /\ RemoveDraft
          /\ UNCHANGED stored \/ Put(s, Missing) \/ PutSynced(s, Missing)
      BY <2>2, DraftFacts, TypeParts DEF DeleteSource, Session, IsFirst, TypeOK
    <3>2. \A q \in Managed(manifest) : SourceOf(manifest, q) # s
      BY <3>1 DEF RemoveDraft, Managed, SourceOf
    <3>3. QED
      BY <3>1, <3>2
  <2>3. QED
    BY <2>1, <2>2
<1>2. UNCHANGED manifest
  BY DEF SyncSourceFails, RollbackSource, DeleteSource
<1>3. \A q \in Managed(manifest) :
          stored'[SourceOf(manifest, q)] = stored[SourceOf(manifest, q)]
  BY <1>1, PutTyped, SourceTyped, TypeParts DEF TypeOK
<1>4. QED
  BY <1>2, <1>3, SameSnapshot

LEMMA ReplaceIsUpdate ==
    ASSUME ~PowerMayFail, TypeOK, Session, DiskInv, TypeOK', DiskInv',
           NEW p \in Path, ReplaceSource(p)
    PROVE  Ledger!Update(p)
<1> DEFINE s == SourceOf(draft, p)
<1>1. /\ phase = "write" /\ current = manifest /\ p \in request /\ p \in Managed(manifest)
      /\ AddDraft /\ SealingKey /\ Preflight /\ Put(s, Sealed(p)) /\ s \in Source
      /\ UNCHANGED manifest
  BY DraftFacts, TypeParts DEF ReplaceSource, Session, IsFirst, TypeOK, IsUpdate
<1>2. s = SourceOf(manifest, p)
  BY <1>1 DEF AddDraft, NewPaths, SourceOf
<1>3. \A t \in Source \ {s} : stored'[t] = stored[t]
  BY <1>1, SealedTyped, PutTyped, TypeParts
<1>4. Managed(manifest)' = Managed(manifest) /\ manifest'.key = manifest.key
  BY <1>1 DEF Managed
<1>5. \A q \in Path \ {p} : Snapshot'[q] = Snapshot[q]
  <2>1. SUFFICES ASSUME NEW q \in Path \ {p} PROVE Snapshot'[q] = Snapshot[q]
    OBVIOUS
  <2>2. CASE q \in Managed(manifest)
    <3>1. SourceOf(manifest, q) \in Source \ {s}
      BY <1>2, <2>1, <2>2, SourceTyped DEF SourceOf, TypeOK
    <3>2. stored'[SourceOf(manifest, q)] = stored[SourceOf(manifest, q)]
      BY <1>3, <3>1
    <3>3. QED
      BY <1>1, <1>4, <2>2, <3>2 DEF Snapshot, SourceOf
  <2>3. CASE q \notin Managed(manifest)
    BY <1>4, <2>3 DEF Snapshot
  <2>4. QED
    BY <2>2, <2>3
<1>6. /\ Snapshot'[p] = Held(p)'
      /\ Held(p)' \in Ledger!Public \cup Ledger!Sensitive(manifest.key)
  <2>1. SnapshotFacts'
    BY SnapshotIs, PTL
  <2>2. QED
    BY <1>1, <1>4, <2>1 DEF SnapshotFacts, Ledger!Public, Ledger!Sensitive
<1>7. SnapshotFacts
  BY SnapshotIs
<1>8. Snapshot' = [Snapshot EXCEPT ![p] = Held(p)']
  BY <1>5, <1>6 DEF Snapshot
<1>9. Held(p)'.class = Snapshot[p].class
  <2>1. Snapshot[p] = Held(p) /\ Held(p).class = manifest.entries[p]
    BY <1>1, <1>7 DEF SnapshotFacts, Held, TypeOK
  <2>2. Held(p)'.class = manifest'.entries[p]
    BY DEF Held
  <2>3. QED
    BY <1>1, <2>1, <2>2
<1>10. QED
  BY <1>1, <1>4, <1>6, <1>7, <1>8, <1>9 DEF SnapshotFacts, Ledger!Update

LEMMA CommitIsAddAll ==
    ASSUME ~PowerMayFail, TypeOK, Session, DiskInv, TypeOK', DiskInv', CommitAdditions
    PROVE  Ledger!AddAll(NewPaths)
<1> USE DEF Goto
<1>1. /\ phase = "write" /\ current = manifest /\ manifest' = draft /\ created # {}
      /\ AddDraft /\ SealingKey /\ created = NewPaths /\ UNCHANGED stored
  BY DEF CommitAdditions, Session, Progress
<1>2. SnapshotFacts /\ SnapshotFacts'
  BY SnapshotIs, PTL
<1>3. /\ NewPaths \subseteq Path /\ NewPaths # {}
      /\ NewPaths \cap Managed(manifest) = {}
      /\ Managed(manifest)' = Managed(manifest) \cup NewPaths
  BY <1>1, DraftEntries DEF NewPaths, TypeOK, Managed
<1>4. \A p \in Path \ NewPaths : Snapshot'[p] = Snapshot[p]
  <2>1. SUFFICES ASSUME NEW p \in Path \ NewPaths PROVE Snapshot'[p] = Snapshot[p]
    OBVIOUS
  <2>2. manifest'.entries[p] = manifest.entries[p]
    BY <1>1, <2>1 DEF AddDraft
  <2>3. CASE p \in Managed(manifest)
    BY <1>1, <1>3, <2>1, <2>2, <2>3 DEF Snapshot, SourceOf
  <2>4. CASE p \notin Managed(manifest)
    BY <1>3, <2>1, <2>4 DEF Snapshot
  <2>5. QED
    BY <2>3, <2>4
<1> DEFINE f == [p \in NewPaths |-> Snapshot'[p]]
<1>5. Snapshot' = [p \in Path |-> IF p \in NewPaths THEN f[p] ELSE Snapshot[p]]
  BY <1>4 DEF Snapshot
<1>6. \A p \in NewPaths : /\ f[p] \in Ledger!Public \cup Ledger!Sensitive(manifest'.key)
                          /\ f[p].class = draft.entries[p]
  <2>1. SUFFICES ASSUME NEW p \in NewPaths
                 PROVE  /\ Snapshot'[p] \in Ledger!Public \cup Ledger!Sensitive(manifest'.key)
                        /\ Snapshot'[p].class = draft.entries[p]
    OBVIOUS
  <2>2. /\ Snapshot'[p] = Held(p)'
        /\ Held(p)' \in Ledger!Public \cup Ledger!Sensitive(manifest'.key)
    BY <1>2, <1>3, <2>1 DEF SnapshotFacts, Ledger!Public, Ledger!Sensitive
  <2>3. Held(p)'.class = manifest'.entries[p]
    BY DEF Held
  <2>4. QED
    BY <1>1, <2>2, <2>3
<1>7. f \in [NewPaths -> Ledger!Public] \cup [NewPaths -> Ledger!Sensitive(manifest'.key)]
  <2>1. PICK q \in NewPaths : TRUE
    BY <1>3
  <2>2. \A p \in NewPaths : f[p].class = draft.entries[q]
    BY <1>1, <1>6, <2>1 DEF AddDraft
  <2>3. CASE draft.entries[q] = "public"
    <3>1. \A p \in NewPaths : f[p] \in Ledger!Public
      BY <1>6, <2>2, <2>3 DEF Ledger!Public, Ledger!Sensitive
    <3>2. QED
      BY <3>1
  <2>4. CASE draft.entries[q] # "public"
    <3>1. \A p \in NewPaths : f[p] \in Ledger!Sensitive(manifest'.key)
      BY <1>6, <2>2, <2>4 DEF Ledger!Public, Ledger!Sensitive
    <3>2. QED
      BY <3>1
  <2>5. QED
    BY <2>3, <2>4
<1>8. manifest'.key = manifest.key \/ (manifest.key = NoKey /\ manifest'.key \in Key)
  BY <1>1 DEF SealingKey, TypeOK, Manifest
<1>9. NewPaths \cap Ledger!InLedger = {}
  BY <1>2, <1>3 DEF SnapshotFacts
<1>10. QED
  BY <1>3, <1>5, <1>7, <1>8, <1>9 DEF Ledger!AddAll

LEMMA CommitIsRemoveAll ==
    ASSUME ~PowerMayFail, TypeOK, Session, DiskInv, CommitRemoval
    PROVE  Ledger!RemoveAll(request)
<1> USE DEF Goto
<1>1. /\ current = manifest /\ manifest' = draft /\ RemoveDraft /\ UNCHANGED stored
  BY DEF CommitRemoval, Session
<1>2. SnapshotFacts
  BY SnapshotIs
<1>3. \A p \in Path : Snapshot'[p] = IF p \in request THEN Unmanaged ELSE Snapshot[p]
  <2>1. SUFFICES ASSUME NEW p \in Path
                 PROVE  Snapshot'[p] = IF p \in request THEN Unmanaged ELSE Snapshot[p]
    OBVIOUS
  <2>2. CASE p \in request
    BY <1>1, <2>2 DEF Snapshot, Managed, RemoveDraft
  <2>3. CASE p \notin request
    <3>1. manifest'.entries[p] = manifest.entries[p]
      BY <1>1, <2>3 DEF RemoveDraft
    <3>2. p \in Managed(manifest)' <=> p \in Managed(manifest)
      BY <3>1 DEF Managed
    <3>3. QED
      BY <1>1, <2>3, <3>1, <3>2 DEF Snapshot, SourceOf
  <2>4. QED
    BY <2>2, <2>3
<1>4. Snapshot' = [p \in Path |-> IF p \in request THEN Unmanaged ELSE Snapshot[p]]
  BY <1>3 DEF Snapshot
<1>5. QED
  BY <1>1, <1>2, <1>4 DEF RemoveDraft, SnapshotFacts, Ledger!RemoveAll

LEMMA StepRefines ==
    ASSUME ~PowerMayFail
    PROVE  /\ TypeOK /\ Session /\ DiskInv /\ TypeOK' /\ DiskInv' /\ [Next]_vars
                 => [Ledger!Next]_Ledger!lvars
<1> SUFFICES ASSUME TypeOK, Session, DiskInv, TypeOK', DiskInv', [Next]_vars
             PROVE  [Ledger!Next]_Ledger!lvars
  OBVIOUS
<1>1. CASE UNCHANGED <<manifest, stored>>
  BY <1>1, SameSnapshot
<1>2. CASE CommitAdditions
  <2>1. NewPaths \in SUBSET Path
    BY DEF NewPaths, TypeOK
  <2>2. QED
    BY <1>2, <2>1, CommitIsAddAll DEF Ledger!Next
<1>3. CASE CommitRemoval
  BY <1>3, CommitIsRemoveAll DEF Ledger!Next, TypeOK
<1>4. ASSUME NEW p \in Path, ReplaceSource(p) PROVE [Ledger!Next]_Ledger!lvars
  BY <1>4, ReplaceIsUpdate DEF Ledger!Next
<1>5. ASSUME NEW p \in Path, LinkSource(p) PROVE UNCHANGED Ledger!lvars
  <2> DEFINE s == SourceOf(draft, p)
  <2>1. /\ phase = "write" /\ current = manifest /\ p \in request /\ p \notin Managed(manifest)
        /\ SealingKey /\ Preflight /\ Put(s, Sealed(p)) /\ s \in Source
        /\ UNCHANGED manifest
    BY <1>5, DraftFacts, TypeParts DEF LinkSource, Session, IsFirst, TypeOK, IsUpdate
  <2>2. \A t \in Source \ {s} : stored'[t] = stored[t]
    BY <2>1, SealedTyped, PutTyped, TypeParts
  <2>3. \A q \in Managed(manifest) : SourceOf(manifest, q) \in Source \ {s}
    BY <2>1, SourceTyped DEF SourceOf, TypeOK
  <2>4. QED
    BY <2>1, <2>2, <2>3, SameSnapshot
<1>6. ASSUME NEW p \in Path, SyncSource(p) PROVE UNCHANGED Ledger!lvars
  <2>1. PutSynced(SourceOf(draft, p), stored[SourceOf(draft, p)])
        /\ SourceOf(draft, p) \in Source /\ UNCHANGED manifest
    BY <1>6, DraftFacts, TypeParts DEF SyncSource, Session, IsFirst, TypeOK
  <2>2. \A t \in Source : stored'[t] = stored[t]
    BY <2>1, PutTyped, TypeParts DEF TypeOK
  <2>3. QED
    BY <2>1, <2>2, SameSnapshot, SourceTyped DEF TypeOK
<1>7. ASSUME NEW s \in Source, CleanUp(s) PROVE UNCHANGED Ledger!lvars
  <2>1. Put(s, Missing) /\ UNCHANGED manifest
        /\ \A q \in Managed(manifest) : SourceOf(manifest, q) # s
    BY <1>7 DEF CleanUp, Orphans, SourceOf
  <2>2. \A q \in Managed(manifest) :
            stored'[SourceOf(manifest, q)] = stored[SourceOf(manifest, q)]
    BY <1>7, <2>1, PutTyped, SourceTyped, TypeParts DEF TypeOK
  <2>3. QED
    BY <2>1, <2>2, SameSnapshot
<1>8. CASE UNCHANGED vars
  BY <1>1, <1>8 DEF vars, repoVars
<1>9. CASE Next /\ ~UNCHANGED <<manifest, stored>>
  BY <1>2, <1>3, <1>4, <1>5, <1>6, <1>7, <1>9, DeleteUnseen
     DEF Next, Add, Remove, Environment, BeginAdd, Password, PasswordFails,
         WriteFails, FinishUpdates, CommitFails, SyncAdditions,
         RollbackDone, BeginRemove, RemovalFails, SyncRemoval,
         DeletesDone, Finish, Edit, Crash, Flush, PowerLoss, repoVars
<1>10. QED
  BY <1>1, <1>8, <1>9

\* add and rm: whoever sees only susu.json and what its entries refer to sees
\* whole additions, single updates and whole removals.
THEOREM StoreImplementsLedger ==
    ASSUME ~PowerMayFail
    PROVE  Spec => ImplementsLedger
<1>1. Init => Ledger!Init
  BY DEF Init, EmptyManifest, Ledger!Init, Snapshot, Managed
<1>2. QED
  BY <1>1, StepRefines, DiskInductive, PTL DEF Spec, ImplementsLedger, Ledger!Spec
=============================================================================
