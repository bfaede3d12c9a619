--------------------------- MODULE SusuCandidates ---------------------------
(***************************************************************************)
(* What add reads while the file system changes under it.                  *)
(* collectCandidates records the physical identity of every candidate;     *)
(* preflightCandidates, run again before every read and before the commit  *)
(* of susu.json, and readCandidate open it again and compare.  A path is   *)
(* checked by name, opened without following links, and its descriptor is  *)
(* checked after that: openCandidate is three steps here, and other        *)
(* programs may move, relink or replace files before each of them.  What   *)
(* add writes with what it read is the subject of SusuStore.               *)
(***************************************************************************)
EXTENDS Naturals, FiniteSets

CONSTANTS
    Path,       \* logical paths, each with its absolute path
    Inode,      \* regular files, as os.SameFile tells them apart
    StateFile,  \* those that were in the local state directory at the start
    NoFile,     \* nothing, or what is no regular file
    MaxChanges  \* bound on what other programs change

Place == {"outside", "repository", "state"}   \* where a path leads, by name
View == [file : Inode \cup {NoFile}, place : Place]

ASSUME CandidatesAssumption ==
    /\ StateFile \subseteq Inode /\ NoFile \notin Inode
    /\ MaxChanges \in Nat

VARIABLES
    view,       \* [Path -> View]: the file system now
    changes,    \* how often it has changed (history)
    managed,    \* the paths of susu.json's entries
    phase,      \* the pass of add
    pc,         \* the step within it
    todo,       \* the candidates the pass has yet to open
    item,       \* the one it is about
    opened,     \* the file of the open descriptor
    after,      \* what the preflight is run for
    identity,   \* [Path -> the file recorded at collection, or NoFile]
    unlisted,   \* the managed paths whose identity has yet to be loaded
    known,      \* the managed identities loaded, pairs of path and file
    seen,       \* the files this preflight has opened
    ops,        \* the candidates to be stored
    captured,   \* [Path -> the file whose content was read, or NoFile]
    lately,     \* what each path has been since the last reset (history)
    aliases     \* identities of managed paths at every moment since the
                \* descriptor was opened (history)

environment == <<view, changes, managed>>
knowledge   == <<identity, unlisted, known, seen, ops>>
history     == <<lately, aliases>>
vars == <<environment, phase, pc, todo, item, opened, after, knowledge, captured, history>>

Goto(p, l) == phase' = p /\ pc' = l
Step(l) == pc' = l /\ UNCHANGED phase

Identities(v, paths) == {<<m, v[m].file>> : m \in {m \in paths : v[m].file # NoFile}}

Now == [p \in Path |-> [file |-> {view[p].file}, place |-> {view[p].place}]]

Init ==
    /\ view \in [Path -> View] /\ changes = 0
    /\ managed \in SUBSET Path
    /\ phase = "collect" /\ pc = "name" /\ after = "password"
    /\ todo \in SUBSET Path \ {{}} /\ item \in todo
    /\ opened = NoFile
    /\ identity = [p \in Path |-> NoFile]
    /\ unlisted = {} /\ known = {} /\ seen = {} /\ ops = {}
    /\ captured = [p \in Path |-> NoFile]
    /\ lately = Now /\ aliases = {}

-----------------------------------------------------------------------------
(* openCandidate, of some candidate left in the pass.                      *)

\* ensureFileOutside: one of the files the state directory had at the start.
IsState(file) == file \in StateFile

\* ensureOutside, by name: the state directory, its files, the repository.
CheckName(p) ==
    /\ pc = "name" /\ p \in todo
    /\ view[p].place = "outside" /\ ~IsState(view[p].file)
    /\ item' = p
    /\ Step("open")
    /\ UNCHANGED <<environment, todo, opened, after, knowledge, captured, history>>

\* OpenRegular, and the identity of what was opened.
Open ==
    /\ pc = "open"
    /\ view[item].file # NoFile
    /\ opened' = view[item].file
    /\ aliases' = Identities(view, managed)
    /\ Step("verify")
    /\ UNCHANGED <<environment, todo, item, after, knowledge, captured, lately>>

\* Fault: the descriptor is not compared with the file that was collected.
VerifiedAnyIdentity ==
    /\ pc = "verify"
    /\ ~IsState(opened) /\ view[item].place # "repository"

\* ensureOpenedFileOutside, then the identity recorded at collection.
Verified ==
    /\ pc = "verify"
    /\ ~IsState(opened) /\ view[item].place # "repository"
    /\ identity[item] \in {NoFile, opened}

\* Some other managed entry has this file.
Conflict(p, file) == \E m \in managed \ {p} : <<m, file>> \in known

-----------------------------------------------------------------------------
(* The passes.                                                             *)

StartLoading(p) ==
    /\ Goto(p, "load") /\ unlisted' = managed /\ known' = {}

\* loadManagedFileIdentities, one Lstat after another.
Load(m) ==
    /\ pc = "load" /\ m \in unlisted
    /\ known' = known \cup Identities(view, {m})
    /\ unlisted' = unlisted \ {m}
    /\ UNCHANGED <<environment, phase, pc, todo, item, opened, after,
                   identity, seen, ops, captured, history>>

\* preflightCandidates; what was the case before a read or the commit is to be
\* seen again.
Preflight(candidates, reason) ==
    /\ StartLoading("preflight")
    /\ todo' = candidates /\ seen' = {} /\ after' = reason
    /\ lately' = Now
    /\ UNCHANGED aliases

\* addCandidate.
Collected ==
    /\ phase = "collect" /\ Verified
    /\ identity' = [identity EXCEPT ![item] = opened]
    /\ todo' = todo \ {item} /\ opened' = NoFile
    /\ IF todo' = {} THEN StartLoading("classify")
                     ELSE Step("name") /\ UNCHANGED <<unlisted, known>>
    /\ ops' = ops \cup {item}
    /\ UNCHANGED <<environment, item, after, seen, captured, history>>

\* A new path with the file of a managed one is skipped; a managed path must be
\* the only one with its file, and so must the owner of a new path's.
Classify ==
    /\ phase = "classify" /\ unlisted = {}
    /\ \A p \in ops : IF p \in managed THEN ~Conflict(p, identity[p])
                      ELSE Cardinality({m \in managed : <<m, identity[p]>> \in known}) <= 1
    /\ ops' = {p \in ops : p \in managed \/ ~Conflict(p, identity[p])}
    /\ IF ops' = {} THEN Goto("done", "end") /\ UNCHANGED <<unlisted, known, todo, seen, after, history>>
                    ELSE Preflight(ops', "password")
    /\ UNCHANGED <<environment, item, opened, identity, captured>>

\* The managed identities are loaded; the candidates are opened.
Loaded ==
    /\ phase = "preflight" /\ pc = "load" /\ unlisted = {}
    /\ Step("name")
    /\ UNCHANGED <<environment, todo, item, opened, after, knowledge, captured, history>>

\* One candidate of a preflight is as it was, and no other has its file.
Preflighted ==
    /\ phase = "preflight" /\ Verified
    /\ ~Conflict(item, opened) /\ opened \notin seen
    /\ seen' = seen \cup {opened} /\ todo' = todo \ {item} /\ opened' = NoFile
    /\ Step("name")
    /\ UNCHANGED <<environment, item, after, identity, unlisted, known, ops, captured, history>>

Unread == {p \in ops : captured[p] = NoFile}

\* The pass is over: the password is asked for, or one candidate is read, or
\* susu.json is committed.
PreflightDone ==
    /\ phase = "preflight" /\ pc = "name" /\ todo = {}
    /\ IF after = "begin"
         THEN Preflight(ops, "read")
         ELSE /\ CASE after = "password" -> Goto("password", "name") /\ todo' = {}
                   [] after = "read" -> Goto("read", "name") /\ todo' \in {{p} : p \in Unread}
                   [] after = "commit" -> Goto("done", "end") /\ todo' = {}
              /\ UNCHANGED <<after, unlisted, known, seen, history>>
    /\ UNCHANGED <<environment, item, opened, identity, ops, captured>>

\* The password is typed, whatever happens in the meantime.
Password ==
    /\ phase = "password"
    /\ Preflight(ops, "begin")
    /\ UNCHANGED <<environment, item, opened, identity, ops, captured>>

\* readCandidate has its descriptor; the managed identities are loaded anew.
Reopened ==
    /\ phase = "read" /\ Verified
    /\ StartLoading("read")
    /\ UNCHANGED <<environment, todo, item, opened, after, identity, seen, ops, captured, history>>

\* Fault: only the preflight compares with the managed entries.
ReadUncompared ==
    /\ phase = "read" /\ pc = "load" /\ unlisted = {}
    /\ captured' = [captured EXCEPT ![item] = opened]
    /\ opened' = NoFile
    /\ Preflight(ops, IF Unread = {item} THEN "commit" ELSE "read")
    /\ UNCHANGED <<environment, item, identity, ops>>

\* The owner is checked, and the content is read from the descriptor.
Read ==
    /\ phase = "read" /\ pc = "load" /\ unlisted = {}
    /\ ~Conflict(item, opened)
    /\ captured' = [captured EXCEPT ![item] = opened]
    /\ opened' = NoFile
    /\ Preflight(ops, IF Unread = {item} THEN "commit" ELSE "read")
    /\ UNCHANGED <<environment, item, identity, ops>>

\* A check refuses, or a call fails: add ends and rolls back.
Fail ==
    /\ phase \notin {"done", "failed"}
    /\ Goto("failed", "end")
    /\ UNCHANGED <<environment, todo, item, opened, after, knowledge, captured, history>>

\* Another program makes a path lead to another file or place.
Change(p, v) ==
    /\ changes < MaxChanges /\ phase \notin {"done", "failed"}
    /\ view[p] # v
    /\ view' = [view EXCEPT ![p] = v]
    /\ changes' = changes + 1
    /\ lately' = [lately EXCEPT ![p] = [file  |-> @.file \cup {v.file},
                                        place |-> @.place \cup {v.place}]]
    /\ aliases' = aliases \cap Identities(view', managed)
    /\ UNCHANGED <<managed, phase, pc, todo, item, opened, after, knowledge, captured>>

Next ==
    \/ \E p \in Path : CheckName(p) \/ Load(p)
    \/ Open \/ Collected \/ Classify \/ Loaded \/ Preflighted \/ PreflightDone
    \/ Password \/ Reopened \/ Read \/ Fail
    \/ \E p \in Path, v \in View : Change(p, v)

Spec == Init /\ [][Next]_vars

-----------------------------------------------------------------------------
(* Properties.                                                             *)

\* Candidates that get past collection have an identity to be compared with,
\* and what is read has been classified.
TypeOK ==
    /\ view \in [Path -> View] /\ changes \in 0 .. MaxChanges
    /\ managed \subseteq Path /\ todo \subseteq Path /\ item \in Path
    /\ phase \in {"collect", "classify", "preflight", "password", "read", "done", "failed"}
    /\ pc \in {"name", "open", "verify", "load", "end"}
    /\ after \in {"password", "begin", "read", "commit"}
    /\ opened \in Inode \cup {NoFile}
    /\ identity \in [Path -> Inode \cup {NoFile}]
    /\ unlisted \subseteq managed /\ known \subseteq managed \X Inode
    /\ seen \subseteq Inode /\ ops \subseteq Path
    /\ captured \in [Path -> Inode \cup {NoFile}]
    /\ lately \in [Path -> [file : SUBSET (Inode \cup {NoFile}), place : SUBSET Place]]
    /\ aliases \subseteq managed \X Inode
    /\ \A p \in ops : identity[p] # NoFile

\* What is stored for a path is the file that was there when the path was
\* collected, no file is stored for two paths, and none that the local state
\* directory held, whatever is renamed or linked during the command.
OneSnapshotEach ==
    \A p \in Path : captured[p] # NoFile =>
        /\ captured[p] = identity[p]
        /\ captured[p] \notin StateFile
        /\ \A q \in Path \ {p} : captured[q] # captured[p]

\* A file is read only if, once its descriptor was open, no other managed path
\* had it all the time: updating one entry never stores another's file.
NotAnothersFile ==
    \A p \in Path : captured'[p] # captured[p] =>
        \A m \in managed \ {p} : <<m, captured'[p]>> \notin aliases

\* Every candidate has been seen at its file, and outside of what is protected,
\* since the password or the last read.
AllSeenAgain ==
    \A p \in ops : identity[p] \in lately[p].file /\ "outside" \in lately[p].place

\* A file is read, and susu.json committed, only after a look at all candidates
\* that is newer than the password and the last read; and what is read is no
\* other entry's file.
ReadsAreCurrent ==
    [][captured' # captured \/ (phase = "preflight" /\ phase' = "done")
          => NotAnothersFile /\ AllSeenAgain]_vars
=============================================================================
