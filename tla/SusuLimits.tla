---------------------------- MODULE SusuLimits ----------------------------
(***************************************************************************)
(* The size limits of susu (app.go, manifest.go): what add reads of a file *)
(* that is written meanwhile, what show and apply read of a stored source  *)
(* that git may replace meanwhile, how much decrypted text apply retains,  *)
(* and how large susu.json may become.  A file is its length; lengths are  *)
(* counted in a unit the constants choose.                                 *)
(***************************************************************************)
EXTENDS Integers, FiniteSets, FiniteSetsExt

CONSTANTS
    Files,        \* managed files, numbered in manifest order
    MaxManaged,   \* maxManagedFileSize: 512 MiB
    MaxStored,    \* maxRepositoryFileSize: 1 GiB
    MaxTogether,  \* maxApplySensitiveBytes: 1 GiB
    MaxManifest,  \* manifest.maxFileSize: 16 MiB
    Sealed,       \* length of the envelope of n units of plaintext
    EntrySize,    \* length of one entry in susu.json
    MaxSize       \* bound of the model: no file is longer

VARIABLES
    size,      \* length of each managed file
    stored,    \* stored source of each file, or NoSource
    manifest,  \* files with an entry in susu.json
    foreign,   \* length of the entries of files kept on other machines
    at, op,    \* step and kind of the command that holds the locks
    file,      \* file it works on
    todo,      \* files apply has not prepared
    got,       \* bytes read from the open descriptor
    plain,     \* length of the text decrypted last
    held,      \* decrypted text of the sources prepared so far
    refused    \* limit the last command stopped at, or "none"

vars == <<size, stored, manifest, foreign, at, op, file, todo, got, plain,
          held, refused>>
command == <<op, file, todo, got, plain, held, refused>>

NoSource == [sensitive |-> FALSE, bytes |-> 0, plain |-> 0, seen |-> 0,
             origin |-> "none"]

(* bytes: length of the source; plain: of what it holds; seen: length the  *)
(* managed file had when add met its end; origin: who wrote it.            *)
Source == [sensitive : BOOLEAN, bytes : Nat, plain : Nat, seen : Nat,
           origin : {"none", "add", "others"}]

Init ==
    /\ size \in [Files -> 0..MaxSize]
    /\ stored = [f \in Files |-> NoSource]
    /\ manifest = {} /\ foreign = 0
    /\ at = "Idle" /\ op = "none" /\ file \in Files /\ todo = {}
    /\ got = 0 /\ plain = 0 /\ held = 0 /\ refused = "none"

Goto(label) == at' = label

Stop(reason) == /\ Goto("Idle") /\ refused' = reason
                /\ plain' = 0 /\ held' = 0
                /\ UNCHANGED <<op, file, todo, got>>

-----------------------------------------------------------------------------
(* Length of susu.json, and whether Load accepts it.                       *)
Serialized(entries) == EntrySize * Cardinality(entries)
Loads == Serialized(manifest) + foreign <= MaxManifest

Begin(kind, f, rest, label) ==
    /\ at = "Idle"
    /\ Goto(label)
    /\ op' = kind /\ file' = f /\ todo' = rest
    /\ got' = 0 /\ plain' = 0 /\ held' = 0 /\ refused' = "none"
    /\ UNCHANGED <<size, stored, manifest, foreign>>

(* manifest.Load fails in every command, rm included.                      *)
LoadRefused ==
    /\ at = "Idle" /\ ~Loads /\ refused # "manifest"
    /\ Stop("manifest")
    /\ UNCHANGED <<size, stored, manifest, foreign>>

BeginAdd(f, sensitive) ==
    /\ Loads
    /\ f \in manifest => stored[f].sensitive = sensitive
    /\ Begin(IF sensitive THEN "addSecret" ELSE "add", f, {}, "Stat")

(* A public source is copied to the output without a limit.                *)
BeginShow(f) ==
    /\ Loads /\ f \in manifest /\ stored[f].sensitive
    /\ Begin("show", f, {}, "Stat")

(* apply takes every entry, in the order of the manifest.                  *)
BeginApply ==
    /\ Loads /\ manifest # {}
    /\ Begin("apply", Min(manifest), manifest \ {Min(manifest)}, "Stat")

Adding == op \in {"add", "addSecret"}

-----------------------------------------------------------------------------
(* Reading a descriptor: the length is checked, then the contents are read *)
(* through a LimitReader that lets one byte more than the limit pass, then *)
(* the length read is checked again.                                       *)
Limit == IF Adding THEN MaxManaged ELSE MaxStored

Length == IF Adding THEN size[file] ELSE stored[file].bytes

(* Fault: the reader stops at the limit itself.                            *)
PassedExactly == Limit

(* Fault: without a LimitReader, everything there is.                      *)
PassedAll == Length

Passed == Limit + 1

(* apply keeps the descriptor of a public source and copies from it later. *)
KeptOpen == op = "apply" /\ ~stored[file].sensitive

Stat ==
    /\ at = "Stat"
    /\ \/ Length > Limit /\ Stop("input")
       \/ /\ Length <= Limit
          /\ Goto(IF KeptOpen THEN "Prepared" ELSE "Reading")
          /\ got' = 0
          /\ UNCHANGED <<op, file, todo, plain, held, refused>>
    /\ UNCHANGED <<size, stored, manifest, foreign>>

Read ==
    /\ at = "Reading" /\ got < Length /\ got < Passed
    /\ \E n \in (got + 1)..Min({Length, Passed}) : got' = n
    /\ UNCHANGED <<size, stored, manifest, foreign, at, op, file, todo, plain,
                   held, refused>>

(* An envelope read in full decrypts to its plaintext; one that was cut or *)
(* replaced while it was read does not authenticate.                       *)
Decrypt ==
    \/ /\ got = Length
       /\ plain' = stored[file].plain
       /\ Goto(IF op = "show" THEN "Shown" ELSE "Total")
       /\ UNCHANGED <<op, file, todo, got, held, refused>>
    \/ Stop("none")

EndOfFile ==
    /\ at = "Reading" /\ (got >= Length \/ got = Passed)
    /\ \/ /\ got > Limit
          /\ Stop("input")
          /\ UNCHANGED stored
       \/ /\ got <= Limit /\ Adding
          /\ stored' = [stored EXCEPT ![file] =
                 [sensitive |-> op = "addSecret",
                  bytes |-> IF op = "addSecret" THEN Sealed[got] ELSE got,
                  plain |-> got, seen |-> Length, origin |-> "add"]]
          /\ Goto(IF file \in manifest THEN "Idle" ELSE "Save")
          /\ UNCHANGED command
       \/ got <= Limit /\ ~Adding /\ Decrypt /\ UNCHANGED stored
    /\ UNCHANGED <<size, manifest, foreign>>

(* SaveManifest validates the entries and replaces the file.               *)
Save ==
    /\ at = "Save"
    /\ manifest' = manifest \union {file}
    /\ Goto("Idle")
    /\ UNCHANGED <<size, stored, foreign, command>>

(* A save that fails takes the new source away again.                      *)
SaveFails ==
    /\ at = "Save"
    /\ stored' = [stored EXCEPT ![file] = NoSource]
    /\ Stop("none")
    /\ UNCHANGED <<size, manifest, foreign>>

-----------------------------------------------------------------------------
(* Fault: the total is compared before the file is added to it.            *)
TooMuchBefore == held > MaxTogether

TooMuch == held + plain > MaxTogether

Total ==
    /\ at = "Total"
    /\ \/ TooMuch /\ Stop("together")
       \/ /\ ~TooMuch
          /\ held' = held + plain /\ plain' = 0
          /\ Goto("Prepared")
          /\ UNCHANGED <<op, file, todo, got, refused>>
    /\ UNCHANGED <<size, stored, manifest, foreign>>

Prepared ==
    /\ at = "Prepared"
    /\ \/ /\ todo # {}
          /\ file' = Min(todo) /\ todo' = todo \ {Min(todo)}
          /\ Goto("Stat")
       \/ /\ todo = {}
          /\ Goto("Replace")
          /\ UNCHANGED <<file, todo>>
    /\ UNCHANGED <<size, stored, manifest, foreign, op, got, plain, held,
                   refused>>

(* The output or the destinations are written, and the text is erased.     *)
Finish ==
    /\ at \in {"Replace", "Shown"}
    /\ Stop("none")
    /\ UNCHANGED <<size, stored, manifest, foreign>>

Rm(f) ==
    /\ at = "Idle" /\ Loads /\ f \in manifest
    /\ manifest' = manifest \ {f}
    /\ stored' = [stored EXCEPT ![f] = NoSource]
    /\ refused' = "none"
    /\ UNCHANGED <<size, foreign, at, op, file, todo, got, plain, held>>

-----------------------------------------------------------------------------
(* Programs write the managed files at any moment, and git the sources.    *)
Write(f) ==
    /\ \E n \in 0..MaxSize : n # size[f] /\ size' = [size EXCEPT ![f] = n]
    /\ UNCHANGED <<stored, manifest, foreign, at, command>>

Pull(f) ==
    /\ f \in manifest
    /\ \E n \in 0..MaxSize :
          stored' = [stored EXCEPT ![f] =
             [sensitive |-> stored[f].sensitive,
              bytes |-> IF stored[f].sensitive THEN Sealed[n] ELSE n,
              plain |-> n, seen |-> n, origin |-> "others"]]
    /\ UNCHANGED <<size, manifest, foreign, at, command>>

(* Between commands git brings entries in, or takes them away again.       *)
PullEntries ==
    /\ at = "Idle"
    /\ foreign' = MaxManifest - foreign
    /\ UNCHANGED <<size, stored, manifest, at, command>>

Next ==
    \/ LoadRefused \/ PullEntries
    \/ \E f \in Files : \/ \E s \in BOOLEAN : BeginAdd(f, s)
                        \/ BeginShow(f) \/ Rm(f) \/ Write(f) \/ Pull(f)
    \/ BeginApply \/ Stat \/ Read \/ EndOfFile \/ Save \/ SaveFails
    \/ Total \/ Prepared \/ Finish

Spec == Init /\ [][Next]_vars

-----------------------------------------------------------------------------
(* Types of the variables.                                                 *)
TypeOK ==
    /\ size \in [Files -> Nat]
    /\ stored \in [Files -> Source]
    /\ manifest \subseteq Files /\ foreign \in {0, MaxManifest}
    /\ at \in {"Idle", "Stat", "Reading", "Save", "Total",
               "Shown", "Prepared", "Replace"}
    /\ op \in {"none", "add", "addSecret", "show", "apply"}
    /\ file \in Files /\ todo \subseteq Files
    /\ got \in 0..(IF Adding THEN MaxManaged + 1 ELSE MaxStored + 1)
    /\ plain \in Nat /\ held \in Nat
    /\ refused \in {"none", "manifest", "input", "together"}

(* However a file grows while add reads it (readCandidate, app.go:1094),   *)
(* the stored source holds it to its end: a file that outgrows the limit   *)
(* after the length was checked is refused, never cut off at the limit.    *)
NeverTruncated ==
    \A f \in Files :
        stored[f].origin = "add" => stored[f].plain >= stored[f].seen

(* The plaintext apply keeps while it replaces the destinations stays      *)
(* within the aggregate limit, before that it exceeds it by no more than   *)
(* one source that passed the limit of its own (app.go:699), and nothing   *)
(* of it is left when the command ends, wherever it stopped.               *)
HeldIsBounded ==
    /\ at \in {"Prepared", "Replace"} => held <= MaxTogether
    /\ held + plain <= MaxTogether + MaxStored
    /\ at = "Idle" => held + plain = 0

(* What add stored and saved, show and apply accept: a source is refused   *)
(* for its length only if something else wrote it since.  The limits of    *)
(* the two sides differ by the growth of the envelope.                     *)
AddedIsAccepted ==
    refused = "input" /\ ~Adding /\ at = "Idle" => stored[file].origin # "add"

(* What add has stored is of use: it is the whole file, and show and apply *)
(* take it.                                                                *)
StoredIsUsable == NeverTruncated /\ AddedIsAccepted

(* susu.json never grows beyond what the next command can load, as the     *)
(* cap is said to bound the metadata (docs/security-model.md:499).         *)
ManifestStaysLoadable == foreign = 0 => Loads
=============================================================================
