------------------------------ MODULE SusuApply ------------------------------
(***************************************************************************)
(* One `susu apply` (app.Service.applyWithHooks): the destinations are     *)
(* checked, the password is asked for, every source is opened and every    *)
(* ciphertext authenticated, and only then are the destinations replaced,  *)
(* one after the other in sorted order.                                    *)
(*                                                                         *)
(* The locks keep other susu processes away, not Git, editors or `mv`:     *)
(* stored sources may change at any moment, and so may the symbolic links  *)
(* that decide whether the destinations are apart from one another and     *)
(* from the protected directories.  SusuReplace models what replacing one  *)
(* destination consists of; here it is one step with its three outcomes.   *)
(***************************************************************************)
EXTENDS Naturals, FiniteSets

CONSTANTS Path,       \* managed paths, as ranks in sorted order
          Sensitive   \* those whose entry is sensitive

ASSUME ApplyAssumption ==
    /\ Path \subseteq Nat
    /\ Sensitive \subseteq Path

VARIABLES
    stored,    \* [Path -> what the stored source is now]
    dest,      \* [Path -> what the destination holds]
    unsafe,    \* some destinations conflict or lie in a protected directory
    pc,        \* where the command is
    prepared,  \* [Path -> plaintext in memory, or what the descriptor reads]
    applied,   \* result.Applied
    failed,    \* whether an error is returned
    exposed    \* destinations replaced since unsafe became true (history)

vars == <<stored, dest, unsafe, pc, prepared, applied, failed, exposed>>

\* "good": contents add stored for this path, under this repository's key.
\* "bad": anything else, ciphertext of another path or key included.
Stored == {"good", "bad", "missing"}

Init ==
    /\ stored \in [Path -> Stored]
    /\ dest = [p \in Path |-> "old"]
    /\ unsafe \in BOOLEAN
    /\ pc = "check"
    /\ prepared = [p \in Path |-> "none"]
    /\ applied = {}
    /\ failed = FALSE
    /\ exposed = {}

IsFirst(p, S) == p \in S /\ \A q \in S : p <= q
Unprepared == {p \in Path : prepared[p] = "none"}
Remaining  == Path \ applied

Goto(l) == pc' = l

\* The command returns with an error; what was applied stays.
Return(e) == /\ Goto("done")
             /\ failed' = e

-----------------------------------------------------------------------------
\* ensureApplyDestinationsSafe, before the password and before any source.
CheckFirst ==
    /\ pc = "check"
    /\ IF unsafe THEN Return(TRUE)
       ELSE /\ Goto(IF Sensitive = {} THEN "recheck" ELSE "unlock")
            /\ UNCHANGED failed
    /\ UNCHANGED <<stored, dest, unsafe, prepared, applied, exposed>>

\* unlock: the password opens the repository's key, or the command ends.
Unlock ==
    /\ pc = "unlock"
    /\ \/ Goto("recheck") /\ UNCHANGED failed
       \/ Return(TRUE)
    /\ UNCHANGED <<stored, dest, unsafe, prepared, applied, exposed>>

\* The check after the prompt.
CheckUnlocked ==
    /\ pc = "recheck"
    /\ IF unsafe THEN Return(TRUE) ELSE Goto("prepare") /\ UNCHANGED failed
    /\ UNCHANGED <<stored, dest, unsafe, prepared, applied, exposed>>

\* Fault: ciphertext that does not authenticate is passed over.
PrepareLenient(p) ==
    /\ IsFirst(p, Unprepared)
    /\ pc = "prepare"
    /\ IF stored[p] = "missing"
         THEN Return(TRUE) /\ UNCHANGED prepared
         ELSE /\ prepared' = [prepared EXCEPT ![p] = stored[p]]
              /\ UNCHANGED <<pc, failed>>
    /\ UNCHANGED <<stored, dest, unsafe, applied, exposed>>

\* Fault: each destination is written as soon as its own source is ready.
PrepareEagerly(p) ==
    /\ IsFirst(p, Unprepared)
    /\ pc = "prepare"
    /\ IF stored[p] = "missing" \/ (p \in Sensitive /\ stored[p] = "bad")
         THEN Return(TRUE) /\ UNCHANGED <<prepared, dest, applied, exposed>>
         ELSE /\ prepared' = [prepared EXCEPT ![p] = stored[p]]
              /\ dest' = [dest EXCEPT ![p] = stored[p]]
              /\ applied' = applied \cup {p}
              /\ exposed' = IF unsafe THEN exposed \cup {p} ELSE exposed
              /\ UNCHANGED <<pc, failed>>
    /\ UNCHANGED <<stored, unsafe>>

\* A sensitive source is read and decrypted into memory, which fails unless it
\* is authentic; a public one is opened and stays open.
Prepare(p) ==
    /\ IsFirst(p, Unprepared)
    /\ pc = "prepare"
    /\ IF stored[p] = "missing" \/ (p \in Sensitive /\ stored[p] = "bad")
         THEN Return(TRUE) /\ UNCHANGED prepared
         ELSE /\ prepared' = [prepared EXCEPT ![p] = stored[p]]
              /\ UNCHANGED <<pc, failed>>
    /\ UNCHANGED <<stored, dest, unsafe, applied, exposed>>

\* The check when every source is prepared, and before each replacement.
CheckPrepared ==
    /\ pc = "prepare" /\ Unprepared = {}
    /\ IF unsafe THEN Return(TRUE) ELSE Goto("checkNext") /\ UNCHANGED failed
    /\ UNCHANGED <<stored, dest, unsafe, prepared, applied, exposed>>

\* Fault: the destinations are not checked again between replacements.
CheckNextSkipped ==
    /\ pc = "checkNext"
    /\ IF Remaining = {} THEN Return(FALSE) ELSE Goto("replace") /\ UNCHANGED failed
    /\ UNCHANGED <<stored, dest, unsafe, prepared, applied, exposed>>

CheckNext ==
    /\ pc = "checkNext"
    /\ IF Remaining = {} THEN Return(FALSE)
       ELSE IF unsafe THEN Return(TRUE)
       ELSE Goto("replace") /\ UNCHANGED failed
    /\ UNCHANGED <<stored, dest, unsafe, prepared, applied, exposed>>

\* Fault: a replacement whose directory sync failed is not reported.
ReplaceUnreported(p) ==
    /\ IsFirst(p, Remaining)
    /\ pc = "replace"
    /\ dest' = [dest EXCEPT ![p] = prepared[p]]
    /\ exposed' = IF unsafe THEN exposed \cup {p} ELSE exposed
    /\ \/ /\ Goto("checkNext")
          /\ applied' = applied \cup {p}
          /\ UNCHANGED failed
       \/ Return(TRUE) /\ UNCHANGED applied
    /\ UNCHANGED <<stored, unsafe, prepared>>

\* atomicReplaceRooted commits: the file is reported, even when the directory
\* sync then fails and the command ends.
Replace(p) ==
    /\ IsFirst(p, Remaining)
    /\ pc = "replace"
    /\ dest' = [dest EXCEPT ![p] = prepared[p]]
    /\ applied' = applied \cup {p}
    /\ exposed' = IF unsafe THEN exposed \cup {p} ELSE exposed
    /\ \/ Goto("checkNext") /\ UNCHANGED failed
       \/ Return(TRUE)
    /\ UNCHANGED <<stored, unsafe, prepared>>

\* Any other error: a boundary that cannot be inspected, an unreadable, special
\* or oversized source, too much plaintext in all, a replacement that fails
\* before its rename, a public source that cannot be read to its end.
Fails ==
    /\ \/ pc \in {"check", "recheck", "prepare", "replace"}
       \/ pc = "checkNext" /\ Remaining # {}
    /\ Return(TRUE)
    /\ UNCHANGED <<stored, dest, unsafe, prepared, applied, exposed>>

\* The process is killed.
Kill ==
    /\ pc # "done"
    /\ Return(TRUE)
    /\ UNCHANGED <<stored, dest, unsafe, prepared, applied, exposed>>

-----------------------------------------------------------------------------
\* A checkout or a rename puts another file, or none, in a source's place: open
\* descriptors still read the old one.
Swap(p) ==
    /\ \E s \in Stored : stored' = [stored EXCEPT ![p] = s]
    /\ UNCHANGED <<dest, unsafe, pc, prepared, applied, failed, exposed>>

\* A source is rewritten in place: a descriptor of it reads the new bytes (also
\* one opened before a Swap, which is more than can happen), plaintext in memory
\* is what it was.
Rewrite(p) ==
    /\ stored[p] = "good"
    /\ stored' = [stored EXCEPT ![p] = "bad"]
    /\ prepared' = IF p \notin Sensitive /\ prepared[p] = "good"
                   THEN [prepared EXCEPT ![p] = "bad"] ELSE prepared
    /\ UNCHANGED <<dest, unsafe, pc, applied, failed, exposed>>

\* A symbolic link changes where the destinations lead.
Relink ==
    /\ unsafe' = ~unsafe
    /\ exposed' = {}
    /\ UNCHANGED <<stored, dest, pc, prepared, applied, failed>>

Command ==
    \/ CheckFirst \/ Unlock \/ CheckUnlocked
    \/ CheckPrepared \/ CheckNext \/ Fails
    \/ \E p \in Path : Prepare(p) \/ Replace(p)

Next ==
    \/ Command
    \/ Kill
    \/ \E p \in Path : Swap(p) \/ Rewrite(p)
    \/ Relink

Spec == Init /\ [][Next]_vars

-----------------------------------------------------------------------------
TypeOK ==
    /\ stored \in [Path -> Stored]
    /\ dest \in [Path -> {"old", "good", "bad"}]
    /\ unsafe \in BOOLEAN
    /\ pc \in {"check", "unlock", "recheck", "prepare", "checkNext", "replace", "done"}
    /\ prepared \in [Path -> {"none", "good", "bad"}]
    /\ applied \subseteq Path
    /\ failed \in BOOLEAN
    /\ exposed \subseteq Path

\* A sensitive destination never receives anything but the plaintext that was
\* authenticated, whatever happens to the stored file after its authentication.
SensitiveAuthentic ==
    \A p \in Sensitive : dest[p] # "bad" /\ prepared[p] # "bad"

\* docs/design.md: corrupted sensitive data cannot produce a partially applied
\* restore.  A source found corrupt or missing leaves every destination alone.
NothingHalfApplied ==
    (\E p \in Path : dest[p] # "old") => Unprepared = {}

\* The result lists exactly the destinations that were replaced, error or not,
\* and without an error that is all of them.
AppliedHonest ==
    /\ applied = {p \in Path : dest[p] # "old"}
    /\ pc = "done" /\ ~failed => applied = Path

\* The destinations are checked as a whole before each replacement, so when they
\* become unsafe under a running apply, at most one more file is written.
AtMostOneExposed == Cardinality(exposed) <= 1
=============================================================================
