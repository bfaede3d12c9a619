----------------------------- MODULE SusuVault -----------------------------
(***************************************************************************)
(* The encryption of sensitive files (cryptox.go) with the password prompt *)
(* (cli.go) and the commands that use it, in a repository whose metadata   *)
(* and stored envelopes git replaces at any moment.                        *)
(*                                                                         *)
(* Cryptography is ideal: a key is a number, a key-encryption key is the   *)
(* password, salt and parameters it is derived from, and what is sealed is *)
(* a record of the key, the associated data and the contents, which opens  *)
(* only under the same key and data.  The library's preconditions are      *)
(* modelled: where one is broken the process panics.                       *)
(***************************************************************************)
EXTENDS Integers, FiniteSets

CONSTANTS
    Paths, Texts, Passwords,
    None,      \* no value
    Params,    \* Argon2id parameters that metadata may come with
    MaxKeys,   \* bound of the model: master keys generated anywhere
    MaxSeals   \* bound of the model: envelopes ever sealed

MasterKeySize == 32
MaxTime == 10
MaxMemory == 256 * 1024
MaxParallelism == 16

(* DefaultArgon2Parameters                                                 *)
Default == [time |-> 3, memory |-> 64 * 1024, parallelism |-> 4,
            keyLength |-> MasterKeySize]

ASSUME NoneAssumption ==
    /\ None \notin Passwords /\ None \notin Texts /\ None \notin Params
    /\ None \notin 1..MaxKeys
ASSUME BoundAssumption == MaxKeys \in Nat /\ MaxSeals \in Nat
ASSUME ParamsAssumption ==
    /\ Default \in Params
    /\ Params \subseteq [time : Nat, memory : Nat, parallelism : 0..255,
                         keyLength : Nat]

(* form names the field that is malformed, or is "good".                   *)
MetadataForms == {"good", "version", "algorithm", "salt", "nonce", "length"}
EnvelopeForms == {"good", "json", "version", "algorithm", "nonce", "short"}

(* aad is authenticated; path is the one add was called for.               *)
Seals == [key : 1..MaxKeys, path : Paths, aad : Paths, text : Texts]
Envelopes == [form : EnvelopeForms, sealed : Seals \union {None}]

(* salt and params as written beside the wrapped key, and the KEK it was   *)
(* wrapped under.                                                          *)
KEKs == [password : Passwords, salt : 1..MaxKeys, params : Params]
Metadata == [form : MetadataForms, salt : 1..MaxKeys, params : Params,
             kek : KEKs, key : 1..MaxKeys]

ASSUME MetadataAssumption == None \notin Metadata

VARIABLES
    crypto,   \* metadata in susu.json, or None
    stored,   \* envelope of each path, or None
    sealed,   \* everything Encrypt ever sealed
    keys,     \* number of master keys generated
    at, op, path,          \* the command that holds the locks
    meta,     \* metadata it loaded, then the metadata it will save
    password, confirmation, kek, key, text,  \* secrets in its memory, or None
    deferred, \* the secrets whose ZeroBytes calls are deferred
    derived,  \* parameters Argon2id last ran with, or None
    output,   \* what show printed last
    cut       \* the last command failed while it read its file (history)

shared == <<crypto, stored, sealed, keys>>
memory == <<password, confirmation, kek, key, text, deferred>>
results == <<derived, output, cut>>
vars == <<shared, at, op, path, meta, memory, results>>

Init ==
    /\ crypto = None /\ stored = [p \in Paths |-> None]
    /\ sealed = {} /\ keys = 0
    /\ at = "Idle" /\ op = None /\ path = None /\ meta = None
    /\ password = None /\ confirmation = None /\ kek = None
    /\ key = None /\ text = None /\ deferred = {}
    /\ derived = None /\ output = None /\ cut = FALSE

Goto(label) == at' = label

(* The command returns.  What it does not erase on the spot, and what no    *)
(* function on the stack has deferred to erase, stays in memory.           *)
ReturnWith(last, erased) ==
    LET Left(b, value) == IF b \in erased \union deferred THEN None ELSE value
    IN  /\ Goto("Idle")
        /\ op' = None /\ path' = None /\ meta' = None /\ deferred' = {}
        /\ password' = Left("password", password)
        /\ confirmation' = Left("confirmation", confirmation)
        /\ kek' = Left("kek", kek) /\ key' = Left("key", key)
        /\ text' = Left("text", last)

Return(erased) == ReturnWith(text, erased)

Panic == /\ Goto("Panic")
         /\ UNCHANGED <<op, path, meta, memory>>

-----------------------------------------------------------------------------
(* ValidateMetadata, from manifest.Load and again from Unlock.             *)

(* Fault: the work factors have no upper limit.                            *)
ValidParametersUnlimited(q) ==
    /\ q.time >= 1 /\ q.parallelism >= 1
    /\ q.memory >= 8 * q.parallelism /\ q.keyLength = MasterKeySize

ValidParameters(q) ==
    /\ q.time \in 1..MaxTime
    /\ q.parallelism \in 1..MaxParallelism
    /\ q.memory \in (8 * q.parallelism)..MaxMemory
    /\ q.keyLength = MasterKeySize

ValidMetadata(m) == m.form = "good" /\ ValidParameters(m.params)

ValidEnvelope(e) == e.form = "good"

(* Fault: the associated data is a constant.                               *)
FileAADConstant(p) == CHOOSE q \in Paths : TRUE

FileAAD(p) == p

(* argon2.IDKey panics on no pass or no lane, GCM on a nonce of another    *)
(* length.                                                                 *)
DerivePanics(q) == q.time < 1 \/ q.parallelism < 1

KEK(w, salt, q) == [password |-> w, salt |-> salt, params |-> q]

-----------------------------------------------------------------------------
(* Commands load the manifest; one with invalid metadata is refused.       *)
Begin(kind, p) ==
    /\ at = "Idle"
    /\ IF crypto = None THEN keys < MaxKeys ELSE ValidMetadata(crypto)
    /\ op' = kind /\ path' = p /\ meta' = crypto
    /\ Goto("Prompt")
    /\ text' = None   \* another process
    /\ derived' = None /\ output' = None /\ cut' = FALSE
    /\ UNCHANGED <<shared, password, confirmation, kek, key, deferred>>

(* Without metadata no entry is sensitive, whatever files there are.       *)
BeginAdd(p) == Begin(IF stored[p] = None \/ crypto = None THEN "add" ELSE "update", p)
BeginShow(p) == crypto # None /\ stored[p] # None /\ Begin("show", p)

Create == meta = None

(* readTTYPassword: the terminal fails, or the user types a password; an   *)
(* empty one is refused.  Once it is returned, the caller defers.          *)
Prompt ==
    /\ at = "Prompt"
    /\ \/ Return({})
       \/ \E w \in Passwords :
             /\ password' = w
             /\ IF Create THEN Goto("Confirm") /\ UNCHANGED deferred
                          ELSE Goto("Unlock") /\ deferred' = {"password"}
             /\ UNCHANGED <<op, path, meta, confirmation, kek, key, text>>
    /\ UNCHANGED <<shared, results>>

Confirm ==
    /\ at = "Confirm"
    /\ \E w \in Passwords \union {None} : confirmation' = w
    /\ deferred' = {"confirmation"}
    /\ Goto("Compare")
    /\ UNCHANGED <<shared, op, path, meta, password, kek, key, text, results>>

ConfirmFails == at = "Confirm" /\ Return({"password"})
                /\ UNCHANGED <<shared, results>>

Confirmed ==
    /\ at = "Compare" /\ confirmation = password
    /\ confirmation' = None /\ deferred' = {"password"}
    /\ Goto("Initialize")
    /\ UNCHANGED <<shared, op, path, meta, password, kek, key, text, results>>

(* Fault: the first password is forgotten, not erased, when the two differ.*)
MismatchLeaving ==
    /\ at = "Compare" /\ confirmation # password
    /\ Return({})
    /\ UNCHANGED <<shared, results>>

Mismatch ==
    /\ at = "Compare" /\ confirmation # password
    /\ Return({"password"})
    /\ UNCHANGED <<shared, results>>

(* A new master key, wrapped under the password with a new salt.           *)
NewMetadata(w, n) ==
    [form |-> "good", salt |-> n, params |-> Default,
     kek |-> KEK(w, n, Default), key |-> n]

Initialize ==
    /\ at = "Initialize"
    /\ keys' = keys + 1 /\ key' = keys'
    /\ kek' = KEK(password, keys', Default) /\ derived' = Default
    /\ deferred' = deferred \union {"kek"}
    /\ Goto("Wrap")
    /\ UNCHANGED <<crypto, stored, sealed, op, path, meta, password, confirmation,
                   text, output, cut>>

(* The cipher fails, or the metadata and the key are returned.             *)
Wrap ==
    /\ at = "Wrap"
    /\ \/ Return({"key"})
       \/ /\ meta' = NewMetadata(password, key)
          /\ kek' = None /\ deferred' = {"password", "key"}
          /\ Goto("Read")
          /\ UNCHANGED <<op, path, password, confirmation, key, text>>
    /\ UNCHANGED <<shared, results>>

Unlock ==
    /\ at = "Unlock"
    /\ \/ /\ ~ValidMetadata(meta)
          /\ Return({}) /\ UNCHANGED derived
       \/ /\ ValidMetadata(meta)
          /\ derived' = meta.params
          /\ \/ DerivePanics(meta.params) /\ Panic
             \/ /\ ~DerivePanics(meta.params)
                /\ kek' = KEK(password, meta.salt, meta.params)
                /\ deferred' = deferred \union {"kek"}
                /\ Goto("Open")
                /\ UNCHANGED <<op, path, meta, password, confirmation, key, text>>
    /\ UNCHANGED <<shared, output, cut>>

(* The wrapped key is opened.  unlock, which show calls, erases the        *)
(* password when it returns; add keeps it to the end.                      *)
Open ==
    /\ at = "Open"
    /\ \/ meta.form = "nonce" /\ Panic
       \/ meta.form # "nonce" /\ kek # meta.kek /\ Return({})
       \/ /\ meta.form # "nonce" /\ kek = meta.kek
          /\ key' = meta.key /\ kek' = None
          /\ IF op = "show"
               THEN Goto("Decrypt") /\ password' = None /\ deferred' = {"key"}
               ELSE Goto("Read") /\ UNCHANGED password /\ deferred' = {"password", "key"}
          /\ UNCHANGED <<op, path, meta, confirmation, text>>
    /\ UNCHANGED <<shared, results>>

-----------------------------------------------------------------------------
(* add reads the file, seals it for its path, erases what it read and      *)
(* stores the envelope: WriteNewSource replaces nothing, an update does.   *)
Read ==
    /\ at = "Read"
    /\ \E t \in Texts : text' = t
    /\ Goto("Encrypt")
    /\ UNCHANGED <<shared, op, path, meta, password, confirmation, kek, key,
                   deferred, results>>

(* The file cannot be opened; or reading it fails, or goes beyond the      *)
(* limit, when a part of it is already in the buffer of io.ReadAll.        *)
ReadFails ==
    /\ at = "Read"
    /\ \/ Return({}) /\ UNCHANGED cut
       \/ \E t \in Texts : ReturnWith(t, {}) /\ cut' = TRUE
    /\ UNCHANGED <<shared, derived, output>>

Encrypt ==
    /\ at = "Encrypt" /\ (op = "add" => stored[path] = None)
    /\ LET s == [key |-> key, path |-> path, aad |-> FileAAD(path),
                 text |-> text]
       IN  /\ sealed' = sealed \union {s}
           /\ stored' = [stored EXCEPT ![path] =
                            [form |-> "good", sealed |-> s]]
    /\ Cardinality(sealed') <= MaxSeals
    /\ text' = None
    /\ Goto("Save")
    /\ UNCHANGED <<crypto, keys, op, path, meta, password, confirmation, kek, key,
                   deferred, results>>

(* Sealing fails, or storing the envelope does.                            *)
EncryptFails == at = "Encrypt" /\ Return({"text"})
                /\ UNCHANGED <<shared, results>>

Save ==
    /\ at = "Save"
    /\ crypto' = meta
    /\ Return({})
    /\ UNCHANGED <<stored, sealed, keys, results>>

(* The last preflight or Save fails: the rollback removes a new source and *)
(* leaves an update.                                                       *)
SaveFails ==
    /\ at = "Save"
    /\ stored' = IF op = "add" THEN [stored EXCEPT ![path] = None] ELSE stored
    /\ Return({})
    /\ UNCHANGED <<crypto, sealed, keys, results>>

Authentic(e) == /\ e.form = "good" /\ e.sealed # None
                /\ e.sealed.key = key /\ e.sealed.aad = FileAAD(path)

(* show reads and decrypts the whole envelope before it prints anything.   *)
Decrypt ==
    /\ at = "Decrypt"
    /\ \/ stored[path] = None /\ Return({})
       \/ /\ stored[path] # None
          /\ \/ ~ValidEnvelope(stored[path]) /\ Return({})
             \/ /\ ValidEnvelope(stored[path])
                /\ \/ stored[path].form = "nonce" /\ Panic
                   \/ ~Authentic(stored[path]) /\ Return({})
                   \/ /\ Authentic(stored[path])
                      /\ text' = stored[path].sealed.text
                      /\ deferred' = deferred \union {"text"}
                      /\ Goto("Write")
                      /\ UNCHANGED <<op, path, meta, password, confirmation, kek, key>>
    /\ UNCHANGED <<shared, results>>

Write ==
    /\ at = "Write"
    /\ output' = [key |-> key, path |-> path, text |-> text]
    /\ Return({})
    /\ UNCHANGED <<shared, derived, cut>>

-----------------------------------------------------------------------------
(* git brings in metadata of this or another machine's master key, as add  *)
(* wrote it or with other parameters or a malformed field, and any         *)
(* envelope ever sealed, for any path and under any key, whole, malformed  *)
(* or with changed ciphertext.  Commands read the metadata when they start *)
(* and the envelope when they decrypt, so other moments would add nothing. *)
PullMetadata ==
    /\ at = "Idle"
    /\ \E w \in Passwords, n \in 1..MaxKeys :
          /\ \/ n <= keys /\ crypto # None /\ crypto.key = n
                /\ crypto.kek.password = w
             \/ n = keys + 1
          /\ keys' = IF n > keys THEN n ELSE keys
          /\ \/ crypto' = NewMetadata(w, n)
             \/ \E q \in Params :
                   crypto' = [NewMetadata(w, n) EXCEPT !.params = q]
             \/ \E f \in MetadataForms :
                   crypto' = [NewMetadata(w, n) EXCEPT !.form = f]
    /\ UNCHANGED <<stored, sealed, at, op, path, meta, memory, results>>

PullSource(p) ==
    /\ at \in {"Idle", "Decrypt"}
    /\ \E f \in EnvelopeForms, s \in sealed \union {None} :
          stored' = [stored EXCEPT ![p] = [form |-> f, sealed |-> s]]
    /\ UNCHANGED <<crypto, sealed, keys, at, op, path, meta, memory, results>>

Next ==
    \/ \E p \in Paths : BeginAdd(p) \/ BeginShow(p) \/ PullSource(p)
    \/ Prompt \/ Confirm \/ ConfirmFails \/ Confirmed \/ Mismatch
    \/ Initialize \/ Wrap \/ Unlock \/ Open
    \/ Read \/ ReadFails \/ Encrypt \/ EncryptFails \/ Save \/ SaveFails \/ Decrypt \/ Write
    \/ PullMetadata

Spec == Init /\ [][Next]_vars

-----------------------------------------------------------------------------
(* Types of the variables.                                                 *)
TypeOK ==
    /\ crypto \in Metadata \union {None}
    /\ stored \in [Paths -> Envelopes \union {None}]
    /\ sealed \subseteq Seals /\ keys \in 0..MaxKeys
    /\ at \in {"Idle", "Prompt", "Confirm", "Compare", "Initialize", "Wrap", "Unlock",
               "Open", "Read", "Encrypt", "Save", "Decrypt", "Write", "Panic"}
    /\ op \in {None, "add", "update", "show"} /\ path \in Paths \union {None}
    /\ meta \in Metadata \union {None}
    /\ password \in Passwords \union {None}
    /\ confirmation \in Passwords \union {None} /\ kek \in KEKs \union {None}
    /\ deferred \subseteq {"password", "confirmation", "kek", "key", "text"}
    /\ key \in (1..MaxKeys) \union {None} /\ text \in Texts \union {None}
    /\ derived \in Params \union {None}
    /\ output \in [key : 1..MaxKeys, path : Paths, text : Texts] \union {None}
    /\ cut \in BOOLEAN
    /\ at \in {"Read", "Encrypt", "Save", "Decrypt"} => key # None /\ meta # None

(* Whatever git did to metadata and envelopes, show prints only what add   *)
(* sealed for that very path under the key the password opened: envelopes  *)
(* moved between paths or between master keys are refused.                 *)
OutputIsAuthentic ==
    output # None => \E s \in sealed : /\ s.key = output.key
                                       /\ s.path = output.path
                                       /\ s.text = output.text

(* The limits on Argon2id (cryptox.go:295): ten passes, 256 MiB, 16 lanes. *)
WorkIsBounded ==
    derived # None =>
        /\ derived.time <= MaxTime /\ derived.memory <= MaxMemory
        /\ derived.parallelism <= MaxParallelism

NeverPanics == at # "Panic"

(* Whatever metadata and envelopes git brings in, the program spends no    *)
(* more than the limits on a password, and none of the cryptographic       *)
(* libraries panics with a password or a key in memory.                    *)
MetadataIsHarmless == WorkIsBounded /\ NeverPanics

(* On every way a command ends, every secret it had in memory has been     *)
(* erased, on the spot or by a deferred call, but for the part of a file   *)
(* whose reading failed.                                                   *)
NothingStays ==
    at = "Idle" => /\ password = None /\ confirmation = None
                   /\ kek = None /\ key = None
                   /\ text = None \/ cut
============================================================================
