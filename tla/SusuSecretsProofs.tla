------------------------- MODULE SusuSecretsProofs --------------------------
(***************************************************************************)
(* Proofs about SusuVault, for any paths, contents, passwords and          *)
(* parameters, and about SusuLimits, for any files and any limits.  The    *)
(* ideas: what a command has validated when it loaded the manifest is what *)
(* it derives keys from, every envelope carries the path it was sealed     *)
(* for, and whatever git stores was sealed by some Encrypt; a reader that  *)
(* may pass one unit more than its limit has either met the end or passed  *)
(* the limit when it stops, and what is within the limit of add is within  *)
(* that of the other commands once it is sealed.                           *)
(***************************************************************************)
EXTENDS MCSecrets, WellFoundedInduction, TLAPS

(* What is in a command's memory at each of its steps.                     *)
Session ==
    /\ at \notin {"Idle", "Panic"} => path \in Paths
    /\ at \in {"Confirm", "Compare", "Initialize", "Wrap", "Unlock", "Open"} =>
          password \in Passwords
    /\ at \in {"Confirm", "Compare", "Initialize"} => meta = None
    /\ at \in {"Prompt", "Confirm", "Compare", "Initialize"} /\ meta = None => keys < MaxKeys
    /\ at \in {"Unlock", "Open"} => meta # None
    /\ at \in {"Prompt", "Unlock", "Open"} /\ meta # None => ValidMetadata(meta)
    /\ at \in {"Encrypt", "Write"} => text \in Texts
    /\ at = "Wrap" => key \in 1..MaxKeys
    /\ at \in {"Read", "Encrypt", "Save", "Decrypt", "Write"} =>
          key \in 1..MaxKeys /\ meta # None

(* The secrets whose erasure is deferred at each step, and those a step    *)
(* has to erase itself if the command ends with it.                        *)
Deferred ==
    CASE at = "Compare" -> {"confirmation"}
      [] at \in {"Initialize", "Unlock"} -> {"password"}
      [] at \in {"Wrap", "Open"} -> {"password", "kek"}
      [] at \in {"Read", "Encrypt", "Save"} -> {"password", "key"}
      [] at = "Decrypt" -> {"key"}
      [] at = "Write" -> {"key", "text"}
      [] OTHER -> {}

Bare ==
    CASE at \in {"Confirm", "Compare"} -> {"password"}
      [] at = "Wrap" -> {"key"}
      [] at = "Encrypt" -> {"text"}
      [] OTHER -> {}

(* Nothing else is in memory.                                              *)
Accounted ==
    at # "Panic" =>
        /\ deferred = Deferred
        /\ "password" \notin Deferred \union Bare => password = None
        /\ "confirmation" \notin Deferred \union Bare => confirmation = None
        /\ "kek" \notin Deferred \union Bare => kek = None
        /\ "key" \notin Deferred \union Bare => key = None
        /\ "text" \notin Deferred \union Bare => text = None \/ (at = "Idle" /\ cut)

(* Every envelope was sealed by some Encrypt, for the path it names, and   *)
(* so was what show is about to print.                                     *)
Provenance ==
    /\ \A s \in sealed : s.aad = s.path
    /\ \A p \in Paths : stored[p] # None => stored[p].sealed \in sealed \union {None}
    /\ at = "Write" => \E s \in sealed : s.key = key /\ s.path = path /\ s.text = text

Inv == /\ TypeOK /\ Session /\ Provenance
       /\ OutputIsAuthentic /\ MetadataIsHarmless /\ Accounted

-----------------------------------------------------------------------------
(* Facts about the constants and the records.                              *)

(* The parameters of a new master key are within the limits.               *)
LEMMA DefaultIsValid == ValidParameters(Default) /\ Default \in Params
BY ParamsAssumption
   DEF ValidParameters, Default, MasterKeySize, MaxTime, MaxMemory, MaxParallelism

(* The metadata Initialize makes, and what git makes of it, is metadata.   *)
LEMMA NewMetadataTyped ==
    ASSUME NEW w \in Passwords, NEW n \in 1..MaxKeys
    PROVE  /\ NewMetadata(w, n) \in Metadata
           /\ \A q \in Params : [NewMetadata(w, n) EXCEPT !.params = q] \in Metadata
           /\ \A f \in MetadataForms : [NewMetadata(w, n) EXCEPT !.form = f] \in Metadata
BY DefaultIsValid DEF NewMetadata, KEK, KEKs, Metadata, MetadataForms

(* An envelope around something sealed, or nothing, is an envelope.        *)
LEMMA EnvelopeTyped ==
    ASSUME NEW f \in EnvelopeForms, NEW s \in Seals \union {None}
    PROVE  [form |-> f, sealed |-> s] \in Envelopes
BY DEF Envelopes

(* What Encrypt seals is typed.                                            *)
LEMMA SealTyped ==
    ASSUME NEW k \in 1..MaxKeys, NEW p \in Paths, NEW t \in Texts
    PROVE  [key |-> k, path |-> p, aad |-> FileAAD(p), text |-> t] \in Seals
BY DEF Seals, FileAAD

(* Valid parameters are within the limits, and no derivation panics.       *)
LEMMA ValidIsHarmless ==
    ASSUME NEW m \in Metadata, ValidMetadata(m)
    PROVE  /\ m.params \in Params /\ m.form = "good" /\ ~DerivePanics(m.params)
           /\ m.params.time =< MaxTime /\ m.params.memory =< MaxMemory
           /\ m.params.parallelism =< MaxParallelism
<1>1. m.params \in Params
  BY DEF Metadata
<1>2. m.params.time \in Nat /\ m.params.memory \in Nat /\ m.params.parallelism \in 0..255
  BY <1>1, ParamsAssumption
<1> QED BY <1>1, <1>2 DEF ValidMetadata, ValidParameters, DerivePanics, MasterKeySize,
                          MaxTime, MaxMemory, MaxParallelism

-----------------------------------------------------------------------------
(* Types                                                                   *)
(* A command that returns leaves nothing that its steps relied on.         *)
LEMMA Ended ==
    ASSUME TypeOK, NEW last \in Texts \union {None}, NEW erased, ReturnWith(last, erased)
    PROVE  /\ at' = "Idle" /\ op' = None /\ path' = None /\ meta' = None
           /\ password' \in Passwords \union {None}
           /\ confirmation' \in Passwords \union {None} /\ kek' \in KEKs \union {None}
           /\ key' \in (1..MaxKeys) \union {None} /\ text' \in Texts \union {None}
           /\ deferred' = {} /\ Session'
BY DEF ReturnWith, Goto, TypeOK, Session

LEMMA Returned ==
    ASSUME TypeOK, NEW erased, Return(erased)
    PROVE  /\ at' = "Idle" /\ op' = None /\ path' = None /\ meta' = None
           /\ password' \in Passwords \union {None}
           /\ confirmation' \in Passwords \union {None} /\ kek' \in KEKs \union {None}
           /\ key' \in (1..MaxKeys) \union {None} /\ text' \in Texts \union {None}
           /\ deferred' = {} /\ Session'
BY Ended DEF Return, TypeOK

(* One that erases the secrets it has not deferred leaves none of them.    *)
LEMMA Erased ==
    ASSUME Accounted, at \notin {"Idle", "Panic"}, NEW erased, Bare \subseteq erased, Return(erased)
    PROVE  Accounted'
BY DEF Return, ReturnWith, Goto, Accounted, Deferred, Bare

(* The steps of a command up to its key keep types and session.            *)
LEMMA TypedOpening ==
    ASSUME TypeOK, Session,
           \/ \E p \in Paths : BeginAdd(p) \/ BeginShow(p)
           \/ Prompt \/ Confirm \/ ConfirmFails \/ Confirmed \/ Mismatch
           \/ Initialize \/ Wrap \/ Unlock \/ Open
    PROVE  TypeOK' /\ Session'
<1> USE DEF shared, memory, results, Goto
<1>1. ASSUME NEW p \in Paths, BeginAdd(p) \/ BeginShow(p) PROVE TypeOK' /\ Session'
  <2>1. PICK what \in {"add", "update", "show"} : Begin(what, p)
    BY <1>1 DEF BeginAdd, BeginShow
  <2>2. meta' = None => keys' < MaxKeys
    BY <2>1 DEF Begin
  <2>3. meta' # None => ValidMetadata(meta')
    BY <2>1 DEF Begin
  <2> QED BY <2>1, <2>2, <2>3 DEF Begin, TypeOK, Session
<1>2. CASE Prompt
  BY <1>2, Returned DEF Prompt, Create, TypeOK, Session
<1>3. CASE Confirm
  BY <1>3 DEF Confirm, TypeOK, Session
<1>4. CASE ConfirmFails
  BY <1>4, Returned DEF ConfirmFails, TypeOK
<1>5. CASE Confirmed
  BY <1>5 DEF Confirmed, TypeOK, Session
<1>6. CASE Mismatch
  BY <1>6, Returned DEF Mismatch, TypeOK
<1>7. CASE Initialize
  <2>1. keys' \in 1..MaxKeys /\ password \in Passwords
    BY <1>7, BoundAssumption DEF Initialize, TypeOK, Session
  <2>2. kek' \in KEKs /\ derived' \in Params
    BY <1>7, <2>1, DefaultIsValid DEF Initialize, KEK, KEKs
  <2> QED BY <1>7, <2>1, <2>2 DEF Initialize, TypeOK, Session
<1>8. CASE Wrap
  <2>1. CASE Return({"key"})
    BY <1>8, <2>1, Returned DEF Wrap, TypeOK
  <2>2. CASE meta' = NewMetadata(password, key) /\ at' = "Read"
             /\ kek' = None /\ deferred' = {"password", "key"}
             /\ UNCHANGED <<op, path, password, confirmation, key, text>>
    <3>1. password \in Passwords /\ key \in 1..MaxKeys
      BY <1>8 DEF Wrap, Session
    <3>2. meta' \in Metadata /\ meta' # None
      BY <2>2, <3>1, NewMetadataTyped, MetadataAssumption
    <3> QED BY <1>8, <2>2, <3>1, <3>2, NoneAssumption DEF Wrap, TypeOK, Session
  <2> QED BY <1>8, <2>1, <2>2 DEF Wrap
<1>9. CASE Unlock
  <2>1. meta \in Metadata /\ ValidMetadata(meta) /\ password \in Passwords
    BY <1>9 DEF Unlock, TypeOK, Session
  <2>2. meta.params \in Params /\ ~DerivePanics(meta.params) /\ meta.salt \in 1..MaxKeys
    BY <2>1, ValidIsHarmless DEF Metadata
  <2>3. KEK(password, meta.salt, meta.params) \in KEKs
    BY <2>1, <2>2 DEF KEK, KEKs
  <2> QED BY <1>9, <2>1, <2>2, <2>3 DEF Unlock, TypeOK, Session
<1>10. CASE Open
  <2>1. meta \in Metadata /\ ValidMetadata(meta)
    BY <1>10 DEF Open, TypeOK, Session
  <2>2. meta.form = "good" /\ meta.key \in 1..MaxKeys
    BY <2>1, ValidIsHarmless DEF Metadata
  <2>3. CASE Return({})
    BY <1>10, <2>3, Returned DEF Open, TypeOK
  <2> QED BY <1>10, <2>1, <2>2, <2>3, NoneAssumption DEF Open, TypeOK, Session
<1> QED BY <1>1, <1>2, <1>3, <1>4, <1>5, <1>6, <1>7, <1>8, <1>9, <1>10

(* So do its steps on the file and the envelope.                           *)
LEMMA TypedUsing ==
    ASSUME TypeOK, Session, Provenance,
           \/ Read \/ ReadFails \/ Encrypt \/ EncryptFails \/ Save \/ SaveFails
           \/ Decrypt \/ Write
    PROVE  TypeOK' /\ Session'
<1> USE DEF shared, memory, results, Goto
<1>1. CASE Read
  BY <1>1 DEF Read, TypeOK, Session
<1>2. CASE ReadFails
  <2>1. CASE Return({}) /\ UNCHANGED cut
    BY <1>2, <2>1, Returned DEF ReadFails, TypeOK
  <2>2. ASSUME NEW t \in Texts, ReturnWith(t, {}), cut' = TRUE
        PROVE  TypeOK' /\ Session'
    BY <1>2, <2>2, Ended DEF ReadFails, TypeOK
  <2> QED BY <1>2, <2>1, <2>2 DEF ReadFails
<1>3. CASE Encrypt
  <2> DEFINE s == [key |-> key, path |-> path, aad |-> FileAAD(path), text |-> text]
  <2>1. s \in Seals
    BY <1>3, SealTyped DEF Encrypt, Session
  <2>2. [form |-> "good", sealed |-> s] \in Envelopes
    BY <2>1, EnvelopeTyped DEF EnvelopeForms
  <2>3. sealed' \subseteq Seals /\ stored' \in [Paths -> Envelopes \union {None}]
    BY <1>3, <2>1, <2>2 DEF Encrypt, TypeOK
  <2> QED BY <1>3, <2>3 DEF Encrypt, TypeOK, Session
<1>4. CASE EncryptFails
  BY <1>4, Returned DEF EncryptFails, TypeOK
<1>5. CASE Save
  BY <1>5, Returned DEF Save, TypeOK
<1>6. CASE SaveFails
  BY <1>6, Returned DEF SaveFails, TypeOK
<1>7. CASE Decrypt
  <2>1. CASE Return({}) /\ UNCHANGED <<shared, results>>
    BY <2>1, Returned DEF TypeOK
  <2>2. CASE Panic /\ UNCHANGED <<shared, results>>
    BY <2>2 DEF Panic, TypeOK, Session
  <2>3. CASE Authentic(stored[path]) /\ ~Return({}) /\ ~Panic
    <3>1. path \in Paths /\ stored[path] \in Envelopes
      BY <1>7, <2>3 DEF Decrypt, Session, TypeOK
    <3>2. stored[path].sealed \in Seals
      BY <3>1, <2>3 DEF Envelopes, Authentic
    <3>3. text' \in Texts
      BY <1>7, <2>3, <3>2 DEF Decrypt, Seals
    <3> QED BY <1>7, <2>3, <3>3 DEF Decrypt, TypeOK, Session
  <2> QED BY <1>7, <2>1, <2>2, <2>3 DEF Decrypt
<1>8. CASE Write
  <2>1. output' \in [key : 1..MaxKeys, path : Paths, text : Texts]
    BY <1>8 DEF Write, Session
  <2> QED BY <1>8, <2>1, Returned DEF Write, TypeOK
<1> QED BY <1>1, <1>2, <1>3, <1>4, <1>5, <1>6, <1>7, <1>8

(* So does git.                                                            *)
LEMMA TypedPull ==
    ASSUME TypeOK, Session, PullMetadata \/ \E p \in Paths : PullSource(p)
    PROVE  TypeOK' /\ Session'
<1> USE DEF shared, memory, results
<1>1. CASE PullMetadata
  <2> PICK w \in Passwords, n \in 1..MaxKeys :
          /\ \/ n <= keys \/ n = keys + 1
          /\ keys' = IF n > keys THEN n ELSE keys
          /\ \/ crypto' = NewMetadata(w, n)
             \/ \E q \in Params : crypto' = [NewMetadata(w, n) EXCEPT !.params = q]
             \/ \E f \in MetadataForms : crypto' = [NewMetadata(w, n) EXCEPT !.form = f]
    BY <1>1 DEF PullMetadata
  <2>1. crypto' \in Metadata /\ keys' \in 0..MaxKeys
    BY NewMetadataTyped DEF TypeOK
  <2> QED BY <1>1, <2>1 DEF PullMetadata, TypeOK, Session
<1>2. ASSUME NEW p \in Paths, PullSource(p) PROVE TypeOK' /\ Session'
  <2> PICK f \in EnvelopeForms, s \in sealed \union {None} :
          stored' = [stored EXCEPT ![p] = [form |-> f, sealed |-> s]]
    BY <1>2 DEF PullSource
  <2>1. [form |-> f, sealed |-> s] \in Envelopes
    BY EnvelopeTyped DEF TypeOK
  <2> QED BY <1>2, <2>1 DEF PullSource, TypeOK, Session
<1> QED BY <1>1, <1>2

-----------------------------------------------------------------------------
(* The invariant                                                           *)

(* The initial state satisfies the invariant.                              *)
LEMMA InvInit == Init => Inv
<1> SUFFICES ASSUME Init PROVE Inv
    OBVIOUS
<1> USE DEF Init
<1>1. stored \in [Paths -> Envelopes \union {None}] /\ keys \in 0..MaxKeys
  BY BoundAssumption
<1>2. TypeOK
  BY <1>1 DEF TypeOK
<1>3. Session /\ Provenance
  BY DEF Session, Provenance
<1>4. OutputIsAuthentic /\ MetadataIsHarmless /\ Accounted
  BY DEF OutputIsAuthentic, MetadataIsHarmless, WorkIsBounded, NeverPanics,
         Accounted, Deferred, Bare
<1> QED BY <1>2, <1>3, <1>4 DEF Inv

(* Only Encrypt and git change what is sealed or stored.                   *)
LEMMA ProvenanceNext ==
    ASSUME TypeOK, Session, Provenance, Next, TypeOK'
    PROVE  Provenance' /\ sealed \subseteq sealed'
<1> USE DEF shared, memory, results, Goto
<1>1. CASE Encrypt
  <2> DEFINE s == [key |-> key, path |-> path, aad |-> FileAAD(path), text |-> text]
  <2>1. s.aad = s.path
    BY DEF FileAAD
  <2>2. /\ sealed' = sealed \union {s} /\ at' = "Save"
        /\ stored' = [stored EXCEPT ![path] = [form |-> "good", sealed |-> s]]
    BY <1>1 DEF Encrypt
  <2>3. \A p \in Paths : stored'[p] = stored[p] \/ stored'[p].sealed = s
    BY <2>2 DEF TypeOK
  <2> HIDE DEF s
  <2> QED BY <2>1, <2>2, <2>3 DEF Provenance
<1>2. CASE Decrypt
  <2>1. UNCHANGED <<stored, sealed>>
    BY <1>2 DEF Decrypt
  <2>2. CASE at' # "Write"
    BY <2>1, <2>2 DEF Provenance
  <2>3. CASE Authentic(stored[path]) /\ text' = stored[path].sealed.text
             /\ UNCHANGED <<path, key>> /\ path \in Paths /\ stored[path] # None
    <3>1. stored[path].sealed \in sealed /\ stored[path].sealed.aad = stored[path].sealed.path
      BY <2>3 DEF Authentic, Provenance
    <3> QED BY <2>1, <2>3, <3>1 DEF Authentic, FileAAD, Provenance
  <2> QED BY <1>2, <2>2, <2>3 DEF Decrypt, Return, ReturnWith, Panic, Session
<1>3. CASE SaveFails
  <2>1. /\ at' # "Write" /\ UNCHANGED sealed
        /\ \A p \in Paths : stored'[p] = stored[p] \/ stored'[p] = None
    BY <1>3 DEF SaveFails, TypeOK, Return, ReturnWith
  <2> QED BY <2>1 DEF Provenance
<1>4. ASSUME NEW p \in Paths, PullSource(p) PROVE Provenance' /\ sealed \subseteq sealed'
  <2> PICK f \in EnvelopeForms, s \in sealed \union {None} :
          stored' = [stored EXCEPT ![p] = [form |-> f, sealed |-> s]]
    BY <1>4 DEF PullSource
  <2>1. \A q \in Paths : stored'[q] = stored[q] \/ stored'[q].sealed = s
    BY DEF TypeOK
  <2> QED BY <1>4, <2>1 DEF PullSource, Provenance
<1>5. CASE UNCHANGED <<stored, sealed>> /\ at' # "Write"
  BY <1>5 DEF Provenance
<1>6. ASSUME NEW p \in Paths, BeginAdd(p) \/ BeginShow(p)
      PROVE  UNCHANGED <<stored, sealed>> /\ at' # "Write"
  BY <1>6 DEF BeginAdd, BeginShow, Begin
<1>7. CASE Prompt \/ Confirm \/ ConfirmFails \/ Confirmed \/ Mismatch
           \/ Initialize \/ Wrap \/ Unlock \/ Open
  BY <1>5, <1>7 DEF Prompt, Confirm, ConfirmFails, Confirmed, Mismatch,
     Initialize, Wrap, Unlock, Open, Return, ReturnWith, Panic
<1>8. CASE Read \/ ReadFails \/ EncryptFails \/ Save \/ Write \/ PullMetadata
  BY <1>5, <1>8 DEF Read, ReadFails, EncryptFails, Save, Write, PullMetadata,
     Return, ReturnWith
<1> QED BY <1>1, <1>2, <1>3, <1>4, <1>5, <1>6, <1>7, <1>8 DEF Next

(* show prints what it has decrypted.                                      *)
LEMMA OutputNext ==
    ASSUME Inv, Next, sealed \subseteq sealed'
    PROVE  OutputIsAuthentic'
<1> USE DEF shared, memory, results
<1>1. CASE UNCHANGED output
  BY <1>1 DEF Inv, OutputIsAuthentic
<1>2. CASE output' = None
  BY <1>2 DEF OutputIsAuthentic
<1>3. CASE Write
  BY <1>3 DEF Write, Inv, Provenance, OutputIsAuthentic
<1>4. ASSUME NEW p \in Paths, BeginAdd(p) \/ BeginShow(p) PROVE output' = None
  BY <1>4 DEF BeginAdd, BeginShow, Begin
<1>5. ASSUME NEW p \in Paths, PullSource(p) PROVE UNCHANGED output
  BY <1>5 DEF PullSource
<1>6. CASE Prompt \/ Confirm \/ ConfirmFails \/ Confirmed \/ Mismatch
           \/ Initialize \/ Wrap \/ Unlock \/ Open \/ Read \/ ReadFails
           \/ Encrypt \/ EncryptFails \/ Save \/ SaveFails \/ Decrypt \/ PullMetadata
  BY <1>1, <1>6 DEF Prompt, Confirm, ConfirmFails, Confirmed, Mismatch,
     Initialize, Wrap, Unlock, Open, Read, ReadFails,
     Encrypt, EncryptFails, Save, SaveFails, Decrypt, PullMetadata
<1> QED BY <1>1, <1>2, <1>3, <1>4, <1>5, <1>6 DEF Next

(* Argon2id runs with validated parameters only.                           *)
LEMMA HarmlessNext ==
    ASSUME Inv, Next
    PROVE  MetadataIsHarmless'
<1> USE DEF shared, memory, results, Goto
<1>1. CASE UNCHANGED derived /\ at' # "Panic"
  BY <1>1 DEF Inv, MetadataIsHarmless, WorkIsBounded, NeverPanics
<1>2. CASE Initialize
  BY <1>2 DEF Initialize, MetadataIsHarmless, WorkIsBounded, NeverPanics,
     Default, MasterKeySize, MaxTime, MaxMemory, MaxParallelism
<1>3. CASE Unlock
  <2>1. meta \in Metadata /\ ValidMetadata(meta)
    BY <1>3 DEF Unlock, Inv, TypeOK, Session
  <2>2. /\ meta.form = "good" /\ ~DerivePanics(meta.params)
        /\ meta.params.time =< MaxTime /\ meta.params.memory =< MaxMemory
        /\ meta.params.parallelism =< MaxParallelism
    BY <2>1, ValidIsHarmless
  <2> QED BY <1>3, <2>1, <2>2 DEF Unlock, Return, ReturnWith,
             MetadataIsHarmless, WorkIsBounded, NeverPanics
<1>4. CASE Decrypt
  BY <1>1, <1>4 DEF Decrypt, Return, ReturnWith, ValidEnvelope
<1>5. ASSUME NEW p \in Paths, BeginAdd(p) \/ BeginShow(p) PROVE derived' = None /\ at' # "Panic"
  BY <1>5 DEF BeginAdd, BeginShow, Begin
<1>6. ASSUME NEW p \in Paths, PullSource(p) PROVE UNCHANGED derived /\ at' # "Panic"
  BY <1>6 DEF PullSource
<1>7. CASE Prompt \/ Confirm \/ ConfirmFails \/ Confirmed \/ Mismatch
           \/ Wrap \/ Read \/ ReadFails
           \/ Encrypt \/ EncryptFails \/ Save \/ SaveFails \/ Write \/ PullMetadata
  <2>1. at' # "Panic" /\ UNCHANGED derived
    BY <1>7 DEF Prompt, Confirm, ConfirmFails, Confirmed, Mismatch, Wrap, Read, ReadFails,
       Encrypt, EncryptFails, Save, SaveFails, Write, PullMetadata, Return, ReturnWith
  <2> QED BY <1>1, <2>1
<1>8. CASE Open
  <2>1. meta.form = "good"
    BY <1>8 DEF Open, Inv, Session, ValidMetadata
  <2> QED BY <1>1, <1>8, <2>1 DEF Open, Return, ReturnWith
<1> QED BY <1>1, <1>2, <1>3, <1>4, <1>5, <1>6, <1>7, <1>8
        DEF Next, MetadataIsHarmless, WorkIsBounded, NeverPanics

(* What a step puts in memory it defers or has to erase itself, and what   *)
(* it lets go of it has erased.                                            *)
LEMMA AccountedNext ==
    ASSUME Inv, Next
    PROVE  Accounted'
<1> USE DEF shared, memory, results, Goto
<1>0. Accounted /\ Session
  BY DEF Inv
<1>1. CASE Return({}) /\ Bare = {} /\ at \notin {"Idle", "Panic"}
  BY <1>0, <1>1, Erased
<1>2. CASE UNCHANGED <<at, memory, cut>>
  BY <1>0, <1>2 DEF Accounted, Deferred, Bare
<1>3. ASSUME NEW p \in Paths, BeginAdd(p) \/ BeginShow(p) PROVE Accounted'
  BY <1>0, <1>3 DEF BeginAdd, BeginShow, Begin, Accounted, Deferred, Bare
<1>4. CASE Prompt
  <2>1. CASE Return({})
    BY <1>1, <1>4, <2>1 DEF Prompt, Bare
  <2> QED BY <1>0, <1>4, <2>1 DEF Prompt, Accounted, Deferred, Bare
<1>5. CASE Confirm \/ Confirmed
  BY <1>0, <1>5 DEF Confirm, Confirmed, Accounted, Deferred, Bare
<1>6. CASE ConfirmFails \/ Mismatch
  BY <1>0, <1>6, Erased DEF ConfirmFails, Mismatch, Bare
<1>7. CASE Initialize
  BY <1>0, <1>7 DEF Initialize, Accounted, Deferred, Bare
<1>8. CASE Wrap
  <2>1. CASE Return({"key"})
    BY <1>0, <1>8, <2>1, Erased DEF Wrap, Bare
  <2> QED BY <1>0, <1>8, <2>1 DEF Wrap, Accounted, Deferred, Bare
<1>9. CASE Unlock
  <2>1. CASE Return({})
    BY <1>1, <1>9, <2>1 DEF Unlock, Bare
  <2> QED BY <1>0, <1>9, <2>1 DEF Unlock, Panic, Accounted, Deferred, Bare
<1>10. CASE Open
  <2>1. CASE Return({})
    BY <1>1, <1>10, <2>1 DEF Open, Bare
  <2> QED BY <1>0, <1>10, <2>1 DEF Open, Panic, Accounted, Deferred, Bare
<1>11. CASE Read
  BY <1>0, <1>11 DEF Read, Accounted, Deferred, Bare
<1>12. CASE ReadFails
  <2>1. CASE Return({})
    BY <1>1, <1>12, <2>1 DEF ReadFails, Bare
  <2> QED BY <1>0, <1>12, <2>1 DEF ReadFails, ReturnWith, Accounted, Deferred, Bare
<1>13. CASE Encrypt
  BY <1>0, <1>13 DEF Encrypt, Accounted, Deferred, Bare
<1>14. CASE EncryptFails
  BY <1>0, <1>14, Erased DEF EncryptFails, Bare
<1>15. CASE Save \/ SaveFails \/ Write
  BY <1>1, <1>15 DEF Save, SaveFails, Write, Bare
<1>16. CASE Decrypt
  <2>1. CASE Return({})
    BY <1>1, <1>16, <2>1 DEF Decrypt, Bare
  <2> QED BY <1>0, <1>16, <2>1 DEF Decrypt, Panic, Accounted, Deferred, Bare
<1>17. CASE PullMetadata \/ \E p \in Paths : PullSource(p)
  BY <1>2, <1>17 DEF PullMetadata, PullSource
<1> QED BY <1>3, <1>4, <1>5, <1>6, <1>7, <1>8, <1>9, <1>10, <1>11, <1>12, <1>13,
           <1>14, <1>15, <1>16, <1>17 DEF Next

(* Every step keeps the invariant.                                         *)
LEMMA InvNext == Inv /\ [Next]_vars => Inv'
<1> SUFFICES ASSUME Inv, [Next]_vars PROVE Inv'
    OBVIOUS
<1>1. CASE UNCHANGED vars
  <2>1. UNCHANGED <<crypto, stored, sealed, keys, at, op, path, meta, password,
                    confirmation, kek, key, text, deferred, derived, output, cut>>
    BY <1>1 DEF vars, shared, memory, results
  <2>2. TypeOK' /\ Session'
    BY <2>1 DEF Inv, TypeOK, Session
  <2>3. Provenance'
    BY <2>1 DEF Inv, Provenance
  <2>4. OutputIsAuthentic' /\ MetadataIsHarmless' /\ Accounted'
    BY <2>1 DEF Inv, OutputIsAuthentic, MetadataIsHarmless, WorkIsBounded, NeverPanics,
                Accounted, Deferred, Bare
  <2> QED BY <2>2, <2>3, <2>4 DEF Inv
<1>2. CASE Next
  <2>1. TypeOK' /\ Session'
    BY <1>2, TypedOpening, TypedUsing, TypedPull DEF Inv, Next
  <2>2. Provenance' /\ sealed \subseteq sealed'
    BY <1>2, <2>1, ProvenanceNext DEF Inv
  <2> QED BY <1>2, <2>1, <2>2, OutputNext, HarmlessNext, AccountedNext DEF Inv
<1> QED BY <1>1, <1>2

(* The invariant holds in every reachable state.                           *)
LEMMA Invariance == Spec => []Inv
BY InvInit, InvNext, PTL DEF Spec

-----------------------------------------------------------------------------
(* Lengths: SusuLimits                                                     *)

(* What is at hand at each step of a command: text that was decrypted only *)
(* where it is about to be added up or printed, and a verdict only when    *)
(* the command is over.                                                    *)
Held ==
    /\ Limits!TypeOK
    /\ held <= MaxTogether /\ plain <= MaxStored
    /\ step \notin {"Total", "Shown"} => plain = 0
    /\ step = "Idle" \/ kind # "apply" => held = 0
    /\ step = "Save" => Limits!Adding
    /\ step \in {"Total", "Prepared", "Replace"} => kind = "apply"
    /\ step = "Shown" => kind = "show"
    /\ step # "Idle" => kind # "none" /\ refused = "none"

(* What is stored is as long as its contents make it, and what add stored  *)
(* is within the limit of a managed file.                                  *)
Lengths ==
    /\ size \in [Files -> 0..MaxSize]
    /\ \A f \in Files :
          /\ sources[f].plain \in 0..MaxSize
          /\ sources[f].bytes = IF sources[f].sensitive
                                THEN Sealed[sources[f].plain] ELSE sources[f].plain
          /\ sources[f].origin = "add" => sources[f].plain <= MaxManaged

(* A reader is not ahead of what it reads while that is from add, and a    *)
(* managed file is never longer than files are.                            *)
Reader ==
    /\ Limits!Adding => got <= MaxSize
    /\ step = "Reading" /\ ~Limits!Adding /\ sources[file].origin = "add"
          => got <= sources[file].bytes

LimitsInv == Held /\ Lengths /\ Reader /\ Limits!NeverTruncated /\ Limits!AddedIsAccepted

(* Every nonempty set of numbers has a least element.                      *)
LEMMA Least ==
    ASSUME NEW T \in SUBSET Nat, T # {}
    PROVE  \E x \in T : \A y \in T : x =< y
<1>1. PICK x \in T : \A y \in T : <<y, x>> \notin OpToRel(<, Nat)
  BY NatLessThanWellFounded, WFMin, Zenon
<1>2. \A y \in Nat : y < x => <<y, x>> \in OpToRel(<, Nat)
  BY DEF OpToRel
<1>3. \A y \in T : ~(y < x)
  BY <1>1, <1>2, Zenon
<1> QED BY <1>3

LEMMA MinIsLeast ==
    ASSUME NEW T \in SUBSET Nat, T # {}
    PROVE  Limits!Min(T) \in T /\ \A y \in T : Limits!Min(T) <= y
BY Least, Zenon DEF Limits!Min

LEMMA Typed ==
    ASSUME Limits!TypeOK, Lengths
    PROVE  /\ Limits!Length \in Nat /\ Limits!Limit \in Nat
           /\ Limits!Adding => Limits!Length <= MaxSize /\ Limits!Limit = MaxManaged
           /\ ~Limits!Adding => /\ Limits!Length = sources[file].bytes
                                /\ Limits!Limit = MaxStored
           /\ Limits!Passed = Limits!Limit + 1
BY LimitsAssumption
   DEF Limits!TypeOK, Lengths, Limits!Length, Limits!Limit, Limits!Passed,
       Limits!Source

LEMMA LimitsInit == Limits!Init => LimitsInv
BY LimitsAssumption
   DEF Limits!Init, LimitsInv, Held, Lengths, Reader, Limits!TypeOK, Limits!NoSource,
       Limits!Source, Limits!NeverTruncated, Limits!AddedIsAccepted, Limits!Adding

(* The command stops, for its input only if that is not from add.          *)
LEMMA LimitsStop ==
    ASSUME LimitsInv, NEW reason \in {"none", "manifest", "input", "together"},
           Limits!Stop(reason), UNCHANGED <<size, sources, manifest, foreign>>,
           reason = "input" /\ ~Limits!Adding => sources[file].origin # "add"
    PROVE  LimitsInv'
<1> USE DEF LimitsInv, Limits!Stop, Limits!Goto
<1>1. Limits!TypeOK'
  BY DEF Held, Limits!TypeOK, Limits!Adding
<1>2. Held'
  BY <1>1, LimitsAssumption DEF Held, Limits!Adding
<1>3. Lengths' /\ Limits!NeverTruncated'
  BY DEF Lengths, Limits!NeverTruncated
<1>4. Reader' /\ Limits!AddedIsAccepted'
  BY DEF Reader, Limits!Adding, Limits!AddedIsAccepted
<1> QED BY <1>1, <1>2, <1>3, <1>4

(* A source is written or removed.                                         *)
LEMMA LimitsSource ==
    ASSUME LimitsInv, NEW f \in Files, NEW new \in Limits!Source,
           sources' = [sources EXCEPT ![f] = new], size' = size,
           new.plain \in 0..MaxSize,
           new.bytes = IF new.sensitive THEN Sealed[new.plain] ELSE new.plain,
           new.origin = "add" => new.plain <= MaxManaged /\ new.plain >= new.seen
    PROVE  sources' \in [Files -> Limits!Source] /\ Lengths' /\ Limits!NeverTruncated'
<1> USE DEF LimitsInv, Held
<1>1. sources \in [Files -> Limits!Source]
  BY DEF Limits!TypeOK
<1>2. sources' \in [Files -> Limits!Source]
  BY <1>1
<1>3. \A g \in Files : sources'[g] = IF g = f THEN new ELSE sources[g]
  BY <1>1
<1>4. Lengths'
  BY <1>3 DEF Lengths
<1>5. Limits!NeverTruncated'
  BY <1>3 DEF Limits!NeverTruncated
<1> QED BY <1>2, <1>4, <1>5

LEMMA NoSourceTyped ==
    /\ Limits!NoSource \in Limits!Source
    /\ Limits!NoSource.plain \in 0..MaxSize
    /\ Limits!NoSource.bytes = Limits!NoSource.plain
    /\ Limits!NoSource.sensitive = FALSE /\ Limits!NoSource.origin # "add"
BY LimitsAssumption DEF Limits!NoSource, Limits!Source

(* A command begins.                                                       *)
LEMMA LimitsBegins ==
    ASSUME LimitsInv, NEW k \in {"add", "addSecret", "show", "apply"},
           NEW f \in Files, NEW rest \in SUBSET Files,
           Limits!Begin(k, f, rest, "Stat")
    PROVE  LimitsInv'
<1> USE DEF LimitsInv, Limits!Begin, Limits!Goto
<1>1. Limits!TypeOK'
  BY LimitsAssumption DEF Held, Limits!TypeOK, Limits!Adding
<1>2. Held'
  BY <1>1, LimitsAssumption DEF Held, Limits!Adding
<1>3. Lengths' /\ Limits!NeverTruncated'
  BY DEF Lengths, Limits!NeverTruncated
<1>4. Reader' /\ Limits!AddedIsAccepted'
  BY LimitsAssumption DEF Reader, Limits!Adding, Limits!AddedIsAccepted
<1> QED BY <1>1, <1>2, <1>3, <1>4

LEMMA LimitsRm ==
    ASSUME LimitsInv, NEW f \in Files, Limits!Rm(f)
    PROVE  LimitsInv'
<1> USE DEF LimitsInv
<1>1. /\ sources' = [sources EXCEPT ![f] = Limits!NoSource]
      /\ manifest' = manifest \ {f} /\ refused' = "none" /\ step = "Idle"
      /\ UNCHANGED <<size, foreign, step, kind, file, todo, got, plain, held>>
  BY DEF Limits!Rm
<1>2. sources' \in [Files -> Limits!Source] /\ Lengths' /\ Limits!NeverTruncated'
  BY <1>1, NoSourceTyped, LimitsSource
<1>3. Limits!TypeOK'
  BY <1>1, <1>2 DEF Held, Limits!TypeOK, Limits!Adding
<1>4. Held'
  BY <1>1, <1>3 DEF Held, Limits!Adding
<1>5. Reader' /\ Limits!AddedIsAccepted'
  BY <1>1 DEF Reader, Limits!Adding, Limits!AddedIsAccepted
<1> QED BY <1>2, <1>3, <1>4, <1>5

LEMMA LimitsPulledEntries ==
    ASSUME LimitsInv, Limits!PullEntries
    PROVE  LimitsInv'
<1> USE DEF LimitsInv
<1>1. /\ foreign' = MaxManifest - foreign
      /\ UNCHANGED <<size, sources, manifest, step, kind, file, todo, got, plain,
                     held, refused>>
  BY DEF Limits!PullEntries, Limits!command
<1>2. Limits!TypeOK'
  BY <1>1, LimitsAssumption DEF Held, Limits!TypeOK, Limits!Adding
<1>3. Held'
  BY <1>1, <1>2 DEF Held, Limits!Adding
<1>4. Lengths' /\ Reader' /\ Limits!NeverTruncated' /\ Limits!AddedIsAccepted'
  BY <1>1 DEF Lengths, Reader, Limits!Adding, Limits!NeverTruncated,
              Limits!AddedIsAccepted
<1> QED BY <1>2, <1>3, <1>4

LEMMA LimitsBegin ==
    ASSUME LimitsInv,
           \/ Limits!LoadRefused \/ Limits!PullEntries \/ Limits!BeginApply
           \/ \E f \in Files : \/ \E s \in BOOLEAN : Limits!BeginAdd(f, s)
                               \/ Limits!BeginShow(f) \/ Limits!Rm(f)
    PROVE  LimitsInv'
<1>1. manifest \subseteq Files
  BY DEF LimitsInv, Held, Limits!TypeOK
<1>2. CASE Limits!LoadRefused
  BY <1>2, LimitsStop DEF Limits!LoadRefused
<1>3. CASE Limits!PullEntries
  BY <1>3, LimitsPulledEntries
<1>4. CASE Limits!BeginApply
  <2>1. Limits!Min(manifest) \in Files
    BY <1>1, <1>4, MinIsLeast, LimitsAssumption DEF Limits!BeginApply
  <2>2. manifest \ {Limits!Min(manifest)} \in SUBSET Files
    BY <1>1
  <2> QED BY <1>4, <2>1, <2>2, LimitsBegins DEF Limits!BeginApply
<1>5. CASE \E f \in Files : \E s \in BOOLEAN : Limits!BeginAdd(f, s)
  <2>1. PICK f \in Files, s \in BOOLEAN : Limits!BeginAdd(f, s)
    BY <1>5
  <2>2. \/ Limits!Begin("add", f, {}, "Stat")
        \/ Limits!Begin("addSecret", f, {}, "Stat")
    BY <2>1 DEF Limits!BeginAdd
  <2>3. {} \in SUBSET Files
    OBVIOUS
  <2> QED BY <2>2, <2>3, LimitsBegins
<1>6. CASE \E f \in Files : Limits!BeginShow(f)
  <2>1. {} \in SUBSET Files
    OBVIOUS
  <2> QED BY <1>6, <2>1, LimitsBegins DEF Limits!BeginShow
<1>7. CASE \E f \in Files : Limits!Rm(f)
  BY <1>7, LimitsRm
<1> QED BY <1>2, <1>3, <1>4, <1>5, <1>6, <1>7

(* What is longer than its limit is not from add.                          *)
LEMMA TooLong ==
    ASSUME LimitsInv, ~Limits!Adding, sources[file].bytes > MaxStored
    PROVE  sources[file].origin # "add"
<1>1. file \in Files
  BY DEF LimitsInv, Held, Limits!TypeOK
<1> QED BY <1>1, LimitsAssumption DEF LimitsInv, Lengths

(* A descriptor is read: the length before, the bytes, the length after.   *)
LEMMA LimitsStat ==
    ASSUME LimitsInv, Limits!Stat
    PROVE  LimitsInv'
<1> USE DEF LimitsInv
<1>1. CASE Limits!Length > Limits!Limit
  <2>1. Limits!Stop("input") /\ UNCHANGED <<size, sources, manifest, foreign>>
    BY <1>1, Typed DEF Limits!Stat, Held
  <2>2. ~Limits!Adding => sources[file].origin # "add"
    BY <1>1, Typed, TooLong DEF Held
  <2> QED BY <2>1, <2>2, LimitsStop
<1>2. CASE Limits!Length <= Limits!Limit
  <2>1. /\ step = "Stat" /\ step' \in {"Prepared", "Reading"} /\ got' = 0
        /\ step' = "Prepared" => kind = "apply"
        /\ UNCHANGED <<size, sources, manifest, foreign, kind, file, todo, plain,
                       held, refused>>
    BY <1>2, Typed DEF Limits!Stat, Limits!Goto, Limits!KeptOpen, Limits!Adding, Held
  <2>2. Limits!TypeOK'
    BY <2>1, LimitsAssumption DEF Held, Limits!TypeOK, Limits!Adding
  <2>3. Held'
    BY <2>1, <2>2 DEF Held, Limits!Adding
  <2>4. Lengths' /\ Limits!NeverTruncated' /\ Limits!AddedIsAccepted'
    BY <2>1 DEF Lengths, Limits!Adding, Limits!NeverTruncated, Limits!AddedIsAccepted
  <2>5. Reader'
    <3>1. ~Limits!Adding => sources[file].bytes \in Nat
      BY Typed DEF Held
    <3> QED BY <2>1, <3>1, LimitsAssumption DEF Reader, Limits!Adding
  <2> QED BY <2>2, <2>3, <2>4, <2>5
<1> QED BY <1>1, <1>2, Typed DEF Held

LEMMA LimitsRead ==
    ASSUME LimitsInv, Limits!Read
    PROVE  LimitsInv'
<1> USE DEF LimitsInv
<1>1. /\ got' \in Nat /\ got' <= Limits!Length /\ got' <= Limits!Passed
      /\ UNCHANGED <<size, sources, manifest, foreign, step, kind, file, todo,
                     plain, held, refused>>
  <2>1. Limits!Min({Limits!Length, Limits!Passed}) \in {Limits!Length, Limits!Passed}
        /\ \A y \in {Limits!Length, Limits!Passed} :
              Limits!Min({Limits!Length, Limits!Passed}) <= y
    BY Typed, MinIsLeast DEF Held
  <2>2. got \in Nat
    BY DEF Held, Limits!TypeOK
  <2> QED BY <2>1, <2>2, Typed DEF Limits!Read, Held
<1>2. Limits!TypeOK'
  BY <1>1, Typed DEF Held, Limits!TypeOK, Limits!Adding
<1>3. Held' /\ Lengths'
  BY <1>1, <1>2 DEF Held, Lengths, Limits!Adding
<1>4. Reader'
  BY <1>1, Typed, LimitsAssumption DEF Held, Reader, Limits!Adding
<1>5. Limits!NeverTruncated' /\ Limits!AddedIsAccepted'
  BY <1>1 DEF Limits!NeverTruncated, Limits!AddedIsAccepted, Limits!Adding
<1> QED BY <1>2, <1>3, <1>4, <1>5

(* What add stores at the end of a file.                                   *)
LEMMA LimitsStored ==
    ASSUME LimitsInv, Limits!EndOfFile, Limits!Adding, got <= Limits!Limit
    PROVE  LimitsInv'
<1> USE DEF LimitsInv, Held
<1>1. got \in 0..MaxSize /\ got <= MaxManaged /\ got >= Limits!Length
  BY Typed, LimitsAssumption DEF Limits!EndOfFile, Limits!TypeOK, Reader
<1>2. DEFINE new == [sensitive |-> kind = "addSecret",
                     bytes |-> IF kind = "addSecret" THEN Sealed[got] ELSE got,
                     plain |-> got, seen |-> Limits!Length, origin |-> "add"]
<1>3. /\ sources' = [sources EXCEPT ![file] = new]
      /\ step' \in {"Idle", "Save"} /\ step = "Reading"
      /\ UNCHANGED <<size, manifest, foreign, kind, file, todo, got, plain, held, refused>>
  <2>1. ~(got > Limits!Limit)
    BY <1>1, Typed
  <2> QED BY <2>1 DEF Limits!EndOfFile, Limits!Goto, Limits!command
<1>4. new \in Limits!Source
  BY <1>1, Typed, LimitsAssumption DEF Limits!Source
<1>5. new.plain = got /\ new.seen = Limits!Length
      /\ new.bytes = IF new.sensitive THEN Sealed[got] ELSE got
  OBVIOUS
<1> HIDE DEF new
<1>6. file \in Files
  BY DEF Limits!TypeOK
<1>7. sources' \in [Files -> Limits!Source] /\ Lengths' /\ Limits!NeverTruncated'
  BY <1>1, <1>3, <1>4, <1>5, <1>6, LimitsSource
<1>8. Limits!TypeOK'
  BY <1>3, <1>7 DEF Limits!TypeOK, Limits!Adding
<1>9. Held'
  <2> HIDE DEF LimitsInv
  <2> QED BY <1>3, <1>8 DEF LimitsInv, Held, Limits!Adding
<1>10. Reader' /\ Limits!AddedIsAccepted'
  BY <1>3 DEF Reader, Limits!Adding, Limits!AddedIsAccepted
<1> QED BY <1>7, <1>8, <1>9, <1>10

LEMMA LimitsEndOfFile ==
    ASSUME LimitsInv, Limits!EndOfFile
    PROVE  LimitsInv'
<1> USE DEF LimitsInv
<1>0. got \in Nat /\ step = "Reading" /\ (got >= Limits!Length \/ got = Limits!Passed)
  BY DEF Held, Limits!TypeOK, Limits!EndOfFile
<1>1. CASE got > Limits!Limit
  <2>1. ~Limits!Adding => sources[file].origin # "add"
    <3>1. ~Limits!Adding /\ sources[file].origin = "add" => got <= sources[file].bytes
      BY <1>0 DEF Reader
    <3>2. ~Limits!Adding /\ sources[file].origin = "add" => sources[file].bytes > MaxStored
      BY <1>0, <1>1, <3>1, Typed, LimitsAssumption DEF Held
    <3> QED BY <3>2, TooLong
  <2>2. ~(got <= Limits!Limit)
    BY <1>0, <1>1, Typed DEF Held
  <2>3. Limits!Stop("input") /\ UNCHANGED <<size, sources, manifest, foreign>>
    BY <2>2 DEF Limits!EndOfFile
  <2> QED BY <2>1, <2>3, LimitsStop
<1>2. CASE got <= Limits!Limit /\ Limits!Adding
  BY <1>2, LimitsStored
<1>3. CASE got <= Limits!Limit /\ ~Limits!Adding
  <2>0. ~(got > Limits!Limit)
    BY <1>0, <1>3, Typed DEF Held
  <2>1. Limits!Decrypt /\ UNCHANGED <<size, sources, manifest, foreign>>
    BY <1>3, <2>0 DEF Limits!EndOfFile
  <2>2. CASE Limits!Stop("none")
    BY <2>1, <2>2, LimitsStop
  <2>3. CASE ~Limits!Stop("none")
    <3>1. /\ got = Limits!Length /\ plain' = sources[file].plain
          /\ step' \in {"Shown", "Total"}
          /\ UNCHANGED <<size, sources, manifest, foreign, kind, file, todo, got,
                         held, refused>>
      BY <2>1, <2>3 DEF Limits!Decrypt, Limits!Goto
    <3>2. sources[file].plain \in Nat /\ sources[file].plain <= MaxStored
      <4>1. file \in Files
        BY DEF Held, Limits!TypeOK
      <4>2. sources[file].bytes <= MaxStored
        BY <1>3, <3>1, Typed DEF Held
      <4> QED BY <4>1, <4>2, LimitsAssumption DEF Lengths
    <3>3. Limits!TypeOK'
      BY <3>1, <3>2 DEF Held, Limits!TypeOK, Limits!Adding
    <3>4. step' = IF kind = "show" THEN "Shown" ELSE "Total"
      BY <2>1, <2>3 DEF Limits!Decrypt, Limits!Goto
    <3>5. Held'
      BY <1>0, <1>3, <3>1, <3>2, <3>3, <3>4 DEF Held, Limits!Adding, Limits!TypeOK
    <3>6. Lengths' /\ Limits!NeverTruncated'
      BY <3>1 DEF Lengths, Limits!NeverTruncated
    <3>7. Reader' /\ Limits!AddedIsAccepted'
      BY <1>3, <3>1 DEF Reader, Limits!Adding, Limits!AddedIsAccepted
    <3> QED BY <3>3, <3>5, <3>6, <3>7
  <2> QED BY <2>2, <2>3
<1> QED BY <1>0, <1>1, <1>2, <1>3, Typed DEF Held

(* What was read is saved, added up, written or dropped.                   *)
LEMMA LimitsSave ==
    ASSUME LimitsInv, Limits!Save
    PROVE  LimitsInv'
<1> USE DEF LimitsInv
<1>1. /\ manifest' = manifest \union {file} /\ step = "Save" /\ step' = "Idle"
      /\ UNCHANGED <<size, sources, foreign, kind, file, todo, got, plain, held, refused>>
  BY DEF Limits!Save, Limits!Goto, Limits!command
<1>2. Limits!TypeOK'
  BY <1>1 DEF Held, Limits!TypeOK, Limits!Adding
<1>3. Held'
  BY <1>1, <1>2 DEF Held, Limits!Adding
<1>4. Lengths' /\ Limits!NeverTruncated'
  BY <1>1 DEF Lengths, Limits!NeverTruncated
<1>5. Reader' /\ Limits!AddedIsAccepted'
  BY <1>1 DEF Reader, Held, Limits!Adding, Limits!AddedIsAccepted
<1> QED BY <1>2, <1>3, <1>4, <1>5

LEMMA LimitsSaveFails ==
    ASSUME LimitsInv, Limits!SaveFails
    PROVE  LimitsInv'
<1> USE DEF LimitsInv
<1>1. /\ sources' = [sources EXCEPT ![file] = Limits!NoSource]
      /\ step = "Save" /\ step' = "Idle" /\ refused' = "none" /\ plain' = 0 /\ held' = 0
      /\ UNCHANGED <<size, manifest, foreign, kind, file, todo, got>>
  BY DEF Limits!SaveFails, Limits!Goto, Limits!Stop
<1>2. file \in Files
  BY DEF Held, Limits!TypeOK
<1>3. sources' \in [Files -> Limits!Source] /\ Lengths' /\ Limits!NeverTruncated'
  BY <1>1, <1>2, NoSourceTyped, LimitsSource
<1>4. Limits!TypeOK'
  BY <1>1, <1>3 DEF Held, Limits!TypeOK, Limits!Adding
<1>5. Held'
  BY <1>1, <1>4, LimitsAssumption DEF Held, Limits!Adding
<1>6. Reader' /\ Limits!AddedIsAccepted'
  BY <1>1 DEF Reader, Limits!Adding, Limits!AddedIsAccepted
<1> QED BY <1>3, <1>4, <1>5, <1>6

LEMMA LimitsTotal ==
    ASSUME LimitsInv, Limits!Total
    PROVE  LimitsInv'
<1> USE DEF LimitsInv
<1>1. UNCHANGED <<size, sources, manifest, foreign>> /\ step = "Total"
  BY DEF Limits!Total
<1>2. CASE Limits!TooMuch
  BY <1>1, <1>2, LimitsStop DEF Limits!Total
<1>3. CASE ~Limits!TooMuch
  <2>1. /\ held' = held + plain /\ plain' = 0 /\ step' = "Prepared"
        /\ UNCHANGED <<kind, file, todo, got, refused>>
    BY <1>3 DEF Limits!Total, Limits!Goto
  <2>2. held \in Nat /\ plain \in Nat /\ held + plain <= MaxTogether
    BY <1>3, LimitsAssumption DEF Held, Limits!TypeOK, Limits!TooMuch
  <2>3. Limits!TypeOK'
    BY <1>1, <2>1, <2>2 DEF Held, Limits!TypeOK, Limits!Adding
  <2>4. Held'
    BY <1>1, <2>1, <2>2, <2>3, LimitsAssumption DEF Held, Limits!Adding
  <2>5. Lengths' /\ Limits!NeverTruncated'
    BY <1>1 DEF Lengths, Limits!NeverTruncated
  <2>6. Reader' /\ Limits!AddedIsAccepted'
    BY <1>1, <2>1 DEF Reader, Limits!Adding, Limits!AddedIsAccepted
  <2> QED BY <2>3, <2>4, <2>5, <2>6
<1> QED BY <1>2, <1>3

LEMMA LimitsPrepared ==
    ASSUME LimitsInv, Limits!Prepared
    PROVE  LimitsInv'
<1> USE DEF LimitsInv
<1>1. todo # {} => Limits!Min(todo) \in todo
  BY MinIsLeast, LimitsAssumption DEF Held, Limits!TypeOK
<1>2. /\ file' \in Files /\ todo' \subseteq Files
      /\ step = "Prepared" /\ step' \in {"Stat", "Replace"}
      /\ UNCHANGED <<size, sources, manifest, foreign, kind, got, plain, held, refused>>
  BY <1>1 DEF Limits!Prepared, Limits!Goto, Held, Limits!TypeOK
<1>3. Limits!TypeOK'
  BY <1>2 DEF Held, Limits!TypeOK, Limits!Adding
<1>4. Held'
  BY <1>2, <1>3 DEF Held, Limits!Adding
<1>5. Lengths' /\ Limits!NeverTruncated'
  BY <1>2 DEF Lengths, Limits!NeverTruncated
<1>6. Reader' /\ Limits!AddedIsAccepted'
  BY <1>2 DEF Reader, Limits!Adding, Limits!AddedIsAccepted
<1> QED BY <1>3, <1>4, <1>5, <1>6

LEMMA LimitsFinish ==
    ASSUME LimitsInv, Limits!Finish
    PROVE  LimitsInv'
BY LimitsStop DEF Limits!Finish

(* Other programs write files, and git replaces sources.                   *)
LEMMA LimitsWrite ==
    ASSUME LimitsInv, NEW f \in Files, Limits!Write(f)
    PROVE  LimitsInv'
<1> USE DEF LimitsInv
<1>1. PICK n \in 0..MaxSize : size' = [size EXCEPT ![f] = n]
  BY DEF Limits!Write
<1>2. UNCHANGED <<sources, manifest, foreign, step, kind, file, todo, got, plain,
                  held, refused>>
  BY DEF Limits!Write, Limits!command
<1>3. size' \in [Files -> 0..MaxSize]
  BY <1>1 DEF Lengths
<1>4. size' \in [Files -> Nat]
  BY <1>3, LimitsAssumption
<1>5. Limits!TypeOK'
  BY <1>2, <1>4 DEF Held, Limits!TypeOK, Limits!Adding
<1>6. Held'
  BY <1>2, <1>5 DEF Held, Limits!Adding
<1>7. Lengths' /\ Limits!NeverTruncated'
  BY <1>2, <1>3 DEF Lengths, Limits!NeverTruncated
<1>8. Reader' /\ Limits!AddedIsAccepted'
  BY <1>2 DEF Reader, Limits!Adding, Limits!AddedIsAccepted
<1> QED BY <1>5, <1>6, <1>7, <1>8

LEMMA LimitsPull ==
    ASSUME LimitsInv, NEW f \in Files, Limits!Pull(f)
    PROVE  LimitsInv'
<1> USE DEF LimitsInv
<1>1. UNCHANGED <<size, manifest, foreign, step, kind, file, todo, got, plain,
                  held, refused>>
  BY DEF Limits!Pull, Limits!command
<1>2. PICK n \in 0..MaxSize :
          sources' = [sources EXCEPT ![f] =
             [sensitive |-> sources[f].sensitive,
              bytes |-> IF sources[f].sensitive THEN Sealed[n] ELSE n,
              plain |-> n, seen |-> n, origin |-> "others"]]
  BY DEF Limits!Pull
<1>3. DEFINE new == [sensitive |-> sources[f].sensitive,
                     bytes |-> IF sources[f].sensitive THEN Sealed[n] ELSE n,
                     plain |-> n, seen |-> n, origin |-> "others"]
<1>4. sources' = [sources EXCEPT ![f] = new]
  BY <1>2
<1>5. sources[f].sensitive \in BOOLEAN
  BY DEF Held, Limits!TypeOK, Limits!Source
<1>6. new \in Limits!Source
  BY <1>5, LimitsAssumption DEF Limits!Source
<1>7. new.plain = n /\ new.origin = "others"
      /\ new.bytes = IF new.sensitive THEN Sealed[n] ELSE n
  OBVIOUS
<1> HIDE DEF new
<1>8. sources' \in [Files -> Limits!Source] /\ Lengths' /\ Limits!NeverTruncated'
  BY <1>1, <1>4, <1>6, <1>7, LimitsSource
<1>9. Limits!TypeOK'
  BY <1>1, <1>8 DEF Held, Limits!TypeOK, Limits!Adding
<1>10. Held'
  BY <1>1, <1>9 DEF Held, Limits!Adding
<1>11. sources[file].origin # "add" => sources'[file].origin # "add"
  BY <1>4, <1>7 DEF Held, Limits!TypeOK
<1>12. sources'[file] = sources[file] \/ sources'[file].origin # "add"
  BY <1>4, <1>7 DEF Held, Limits!TypeOK
<1>13. Reader' /\ Limits!AddedIsAccepted'
  BY <1>1, <1>11, <1>12 DEF Reader, Limits!Adding, Limits!AddedIsAccepted
<1> QED BY <1>8, <1>9, <1>10, <1>13

LEMMA LimitsNext == LimitsInv /\ [Limits!Next]_(Limits!vars) => LimitsInv'
<1> SUFFICES ASSUME LimitsInv, [Limits!Next]_(Limits!vars) PROVE LimitsInv'
  OBVIOUS
<1>1. CASE UNCHANGED Limits!vars
  BY <1>1 DEF LimitsInv, Held, Lengths, Reader, Limits!TypeOK, Limits!NeverTruncated,
              Limits!AddedIsAccepted, Limits!Adding, Limits!vars
<1>2. CASE Limits!Next
  BY <1>2, LimitsBegin, LimitsStat, LimitsRead, LimitsEndOfFile, LimitsSave,
     LimitsSaveFails, LimitsTotal, LimitsPrepared, LimitsFinish, LimitsWrite, LimitsPull
     DEF Limits!Next
<1> QED BY <1>1, <1>2

LEMMA LimitsInvariance == Limits!Spec => []LimitsInv
BY LimitsInit, LimitsNext, PTL DEF Limits!Spec

-----------------------------------------------------------------------------
(* Results                                                                 *)

(* Types of the variables, for any paths, contents, passwords, parameters  *)
(* and number of keys and envelopes (cryptox.go).                          *)
THEOREM TypeCorrect == Spec => []TypeOK
<1>1. Inv => TypeOK
  BY DEF Inv
<1> QED BY <1>1, Invariance, PTL

(* show prints only what add sealed for that very path under the key that  *)
(* the password opened, whatever git exchanged (Decrypt, cryptox.go:169).  *)
THEOREM AuthenticOutput == Spec => []OutputIsAuthentic
<1>1. Inv => OutputIsAuthentic
  BY DEF Inv
<1> QED BY <1>1, Invariance, PTL

(* Metadata of any kind makes the program exceed no limit of Argon2id and  *)
(* panics no library (validateArgon2Parameters, cryptox.go:295).           *)
THEOREM HarmlessMetadata == Spec => []MetadataIsHarmless
<1>1. Inv => MetadataIsHarmless
  BY DEF Inv
<1> QED BY <1>1, Invariance, PTL

(* On every way a command ends, its secrets have been erased, but for the  *)
(* part of a file whose reading failed (ZeroBytes, cryptox.go:212).        *)
THEOREM SecretsErased == Spec => []NothingStays
<1>1. Inv => NothingStays
  BY DEF Inv, Accounted, Deferred, Bare, NothingStays
<1> QED BY <1>1, Invariance, PTL

-----------------------------------------------------------------------------
(* A behaviour of the two parts is one of each.                            *)

LEMMA BothParts == MCSpec => Spec /\ Limits!Spec
<1>1. MCInit => Init /\ Limits!Init
  BY DEF MCInit
<1>2. [MCNext]_<<part, vars, lengths>> => [Next]_vars /\ [Limits!Next]_(Limits!vars)
  BY DEF MCNext, vars, lengths, Limits!vars
<1> QED BY <1>1, <1>2, PTL DEF MCSpec, Spec, Limits!Spec

(* Types of the variables of both parts, for any number of files and any   *)
(* limits that fit each other (app.go:50-54, manifest.go:19).              *)
THEOREM TypesCorrect == MCSpec => []TypesOK
<1>1. Inv /\ LimitsInv => TypesOK
  BY DEF Inv, LimitsInv, Held, TypesOK
<1> QED BY <1>1, BothParts, Invariance, LimitsInvariance, PTL

(* However files grow while add reads them and git replaces sources while  *)
(* they are read, what add stored is the whole file, and show and apply    *)
(* refuse no source for its length that is still add's own                 *)
(* (readCandidate, app.go:1094; readRegularFile, app.go:1207).             *)
THEOREM UsableStores == MCSpec => []StoredIsUsable
<1>1. LimitsInv => StoredIsUsable
  BY DEF LimitsInv, StoredIsUsable, Limits!StoredIsUsable
<1> QED BY <1>1, BothParts, LimitsInvariance, PTL

(* The decrypted text apply holds is within its limit when destinations    *)
(* are replaced, exceeds it before by no more than one source, and is gone *)
(* when a command ends (app.go:699).                                       *)
THEOREM BoundedHold == MCSpec => []HeldIsBounded
<1>1. LimitsInv => HeldIsBounded
  BY LimitsAssumption
     DEF LimitsInv, Held, HeldIsBounded, Limits!HeldIsBounded, Limits!TypeOK,
         Limits!Adding
<1> QED BY <1>1, BothParts, LimitsInvariance, PTL
============================================================================
