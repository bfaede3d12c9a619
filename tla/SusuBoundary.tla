---------------------------- MODULE SusuBoundary ----------------------------
(***************************************************************************)
(* What add keeps out and what it picks up: the boundary around the local  *)
(* state, the worktree and the Git common directory (controlBoundary),     *)
(* the overlap test that decides it (pathsOverlap, canonicalProspectivePath*)
(* and physicalAncestorMatches), and the walk over a directory with the    *)
(* built-in ignore policy (collectCandidates).  The file system is a tree  *)
(* of nodes whose names some file systems fold; others move nodes about.   *)
(* Every test is a question about one tree; SusuCandidates interleaves.    *)
(***************************************************************************)
EXTENDS Naturals, Sequences, FiniteSets

CONSTANTS
    Kind,       \* [node -> "directory", "file" or "link"]
    Top,        \* the root of the tree
    Protected,  \* the active worktree and the Git common directory
    StateDir,   \* the local state directory
    Layout,     \* [node -> its parent at the start], Top aside
    Spelling,   \* [node -> its name at the start], Top aside
    Targets,    \* the paths links may hold
    Fold,       \* [name -> what folding file systems take it for]
    RootPaths,  \* HOME and the XDG directories
    CachePath,  \* ~/.kube/cache
    Paths,      \* the absolute paths that are asked about
    MaxMoves    \* bound on what other programs move

Node == DOMAIN Kind
Directories == {n \in Node : Kind[n] = "directory"}
Regular == {n \in Node : Kind[n] = "file"}
Links == {n \in Node : Kind[n] = "link"}
Movable == Node \ {Top}
Failures == {"missing", "notdir"}

VARIABLES
    parent,    \* [node -> the directory it is in]
    name,      \* [node -> its name there]
    target,    \* [link -> the path it holds]
    folds,     \* whether names that differ in case only are the same
    moves,     \* how often others have moved something (history)
    boundary,  \* what loadControlBoundary has found, or <<>>
    verdict,   \* the last question asked and its answer, or <<>>
    picked     \* the files the last walk took for candidates

tree == <<parent, name, target, folds, moves>>
vars == <<tree, boundary, verdict, picked>>

Init ==
    /\ parent = Layout /\ name = Spelling
    /\ target \in [Links -> Targets]
    /\ folds \in BOOLEAN /\ moves = 0
    /\ boundary = <<>> /\ verdict = <<>> /\ picked = {}

-----------------------------------------------------------------------------
(* The operating system.                                                   *)

Same(m, n) == m = n \/ (folds /\ Fold[m] = Fold[n])
Children(d, n) == {c \in Movable : parent[c] = d /\ Same(name[c], n)}

Entry(at, n) ==
    IF at \in Failures THEN at
    ELSE IF at \notin Directories THEN "notdir"
    ELSE IF Children(at, n) = {} THEN "missing" ELSE CHOOSE c \in Children(at, n) : TRUE

\* What the prefixes of a path without links lead to: links are left alone.
Straight(path) ==
    LET to[i \in 0 .. Len(path)] == IF i = 0 THEN Top ELSE Entry(to[i - 1], path[i])
    IN to

Lstat(path) == Straight(path)[Len(path)]

\* Links lead to what their path leads to; they do not lead to links again.
Follow(n) == IF n \in Links THEN Lstat(target[n]) ELSE n

Prefixes(path) ==
    LET to[i \in 0 .. Len(path)] == IF i = 0 THEN Top ELSE Follow(Entry(to[i - 1], path[i]))
    IN to

Stat(path) == Prefixes(path)[Len(path)]

\* filepath.EvalSymlinks of a path that leads somewhere: names keep the
\* spelling of the path, or of the link.
EvalSymlinks(path) ==
    LET names[i \in 0 .. Len(path)] ==
            IF i = 0 THEN <<>>
            ELSE LET n == Entry(Prefixes(path)[i - 1], path[i])
                 IN IF n \in Links THEN target[n]
                    ELSE Append(names[i - 1], path[i])
    IN names[Len(path)]

\* A node, the directory it is in, and so on up to the top.
Above(n) ==
    LET up[i \in 0 .. Cardinality(Node)] ==
            IF i = 0 THEN n
            ELSE LET below == up[i - 1] IN IF below = Top THEN Top ELSE parent[below]
    IN up

Ancestors(n) == {Above(n)[i] : i \in 0 .. Cardinality(Node)}

Depth(n) == CHOOSE i \in 0 .. Cardinality(Node) :
    Above(n)[i] = Top /\ \A j \in 0 .. i - 1 : Above(n)[j] # Top

PathOf(n) == [j \in 1 .. Depth(n) |-> name[Above(n)[Depth(n) - j]]]

-----------------------------------------------------------------------------
(* Overlap.                                                                *)

\* Length of the longest prefix that leads somewhere.
Existing(path) == CHOOSE i \in 0 .. Len(path) :
    /\ Prefixes(path)[i] \in Node
    /\ \A j \in i + 1 .. Len(path) : Prefixes(path)[j] \notin Node

Prefix(path, i) == SubSeq(path, 1, i)
Rest(path, i) == SubSeq(path, i + 1, Len(path))

\* canonicalProspectivePath, of a path Stat does not fail on with ENOTDIR.
Canonical(path) ==
    LET i == Existing(path) IN EvalSymlinks(Prefix(path, i)) \o Rest(path, i)

Within(root, path) == Len(root) <= Len(path) /\ Prefix(path, Len(root)) = root

\* physicalAncestorMatches: some prefix of the path as it is written is n.
AncestorIs(n, path) == \E i \in 0 .. Existing(path) : Stat(Prefix(path, i)) = n

\* Fault: paths are compared as they are written.
OverlapByName(first, second) ==
    \/ Within(Canonical(first), Canonical(second))
    \/ Within(Canonical(second), Canonical(first))

\* pathsOverlap.
Overlap(first, second) ==
    \/ Within(Canonical(first), Canonical(second))
    \/ Within(Canonical(second), Canonical(first))
    \/ Stat(first) \in Node /\ AncestorIs(Stat(first), second)
    \/ Stat(second) \in Node /\ AncestorIs(Stat(second), first)

\* What is below the state directory, directories aside.
StateEntries == {n \in Regular \cup Links : StateDir \in Ancestors(n)}

\* Links among them are followed, to files and directories; one that leads
\* nowhere is skipped.
StateFiles == {Follow(n) : n \in StateEntries} \cap (Regular \cup Directories)

\* loadControlBoundary.  A link that leads through a file is an error.
Load ==
    /\ boundary = <<>>
    /\ \A n \in StateEntries : Follow(n) # "notdir"
    /\ boundary' = [roots |-> {[path |-> PathOf(n), node |-> n] : n \in Protected},
                    state |-> PathOf(StateDir), files |-> StateFiles]
    /\ UNCHANGED <<tree, verdict, picked>>

\* The directory at a root's path is the one it was.
RootInPlace(root) == Stat(root.path) = root.node

\* controlBoundary.ensureOutside; a path through a file is an error.
EnsureOutside(path) ==
    /\ Stat(path) # "notdir" /\ Stat(boundary.state) # "notdir"
    /\ ~Overlap(boundary.state, path)
    /\ Stat(path) \notin boundary.files
    /\ \A root \in boundary.roots : RootInPlace(root) /\ ~Overlap(root.path, path)

\* One question in a behaviour is enough: none depends on another.
Ready == boundary # <<>> /\ verdict = <<>>

\* The question preflights ask of every candidate and apply of every
\* destination.
Check(path) ==
    /\ Ready
    /\ verdict' = [path |-> path, outside |-> EnsureOutside(path)]
    /\ picked' = {}
    /\ UNCHANGED <<tree, boundary>>

-----------------------------------------------------------------------------
(* The walk.                                                               *)

\* What os.Lstat finds at the cache's path: only its last name is not followed.
Cache == Entry(Prefixes(CachePath)[Len(CachePath) - 1], CachePath[Len(CachePath)])

\* Fault: the cache directory is known by its path only.
IgnoresByName(path) == Within(CachePath, path)

\* addIgnorePolicy.ignores: below ~/.kube/cache, by name or by identity.
Ignores(path) ==
    \/ Within(CachePath, path)
    \/ Cache \in Directories /\ AncestorIs(Cache, path)

\* rejectSymlinkComponents below one of the roots, which may be a link itself.
NoLinks(path) ==
    \E root \in RootPaths :
        /\ Within(root, path) /\ Stat(root) \in Directories
        /\ \A i \in Len(root) + 1 .. Len(path) :
              Entry(Prefixes(path)[i - 1], path[i]) \in Node \ Links

\* The files below the directory a path leads to, each with its path.
Below(path) ==
    LET d == Stat(path)
    IN {[node |-> n, path |-> path \o Rest(PathOf(n), Len(PathOf(d)))] :
           n \in {m \in Regular \cup Links : d \in Ancestors(m)}}

\* Directories the policy ignores are not entered.
Visited(path) ==
    {f \in Below(path) : \A i \in Len(path) .. Len(f.path) - 1 : ~Ignores(Prefix(f.path, i))}

\* Links are skipped, and a file by itself may be ignored.
Picked(path) ==
    {f.node : f \in {g \in Visited(path) : g.node \in Regular /\ ~Ignores(g.path)}}

\* collectCandidates for one input.  A file inside the boundary fails it.
Collect(path) ==
    /\ Ready
    /\ EnsureOutside(path) /\ NoLinks(path)
    /\ \A f \in Visited(path) : f.node \in Regular => EnsureOutside(f.path)
    /\ picked' = Picked(path)
    /\ verdict' = [path |-> path, outside |-> TRUE]
    /\ UNCHANGED <<tree, boundary>>

\* Another program renames a node, within its file system.
Move(n, d, m) ==
    /\ moves < MaxMoves /\ verdict = <<>> /\ <<d, m>> # <<parent[n], name[n]>>
    /\ n \notin Ancestors(d) /\ Children(d, m) \ {n} = {}
    /\ parent' = [parent EXCEPT ![n] = d] /\ name' = [name EXCEPT ![n] = m]
    /\ moves' = moves + 1
    /\ UNCHANGED <<target, folds, boundary, verdict, picked>>

Next ==
    \/ Load
    \/ \E p \in Paths : Check(p) \/ Collect(p)
    \/ \E n \in Movable, d \in Directories, m \in DOMAIN Fold :
          Fold[m] = Fold[name[n]] /\ Move(n, d, m)

Spec == Init /\ [][Next]_vars

-----------------------------------------------------------------------------
(* Properties.                                                             *)

\* The tree is a tree, and candidates are regular files.
TypeOK ==
    /\ parent \in [Movable -> Directories] /\ name \in [Movable -> DOMAIN Fold]
    /\ target \in [Links -> Targets] /\ folds \in BOOLEAN /\ moves \in 0 .. MaxMoves
    /\ \A n \in Node : Top \in Ancestors(n)
    /\ \A n \in Movable : Children(parent[n], name[n]) = {n}
    /\ picked \subseteq Regular

\* What a path and directory d have in common, as the tree has it: d is above
\* the place the path leads to, or below what it leads to.
Overlaps(d, path) ==
    \/ d \in Ancestors(Stat(Prefix(path, Existing(path))))
    \/ Stat(path) \in Ancestors(d)

StateInPlace == boundary # <<>> /\ PathOf(StateDir) = boundary.state

\* A path that passes leads neither into nor above a protected directory and
\* to nothing that the local state holds, whatever links, case or moves are
\* between them.  A state directory that was moved is known by its files only.
PassedIsOutsideInAnyCase ==
    verdict # <<>> /\ verdict.outside =>
        /\ \A d \in Protected : ~Overlaps(d, verdict.path)
        /\ StateInPlace => ~Overlaps(StateDir, verdict.path)
        /\ Stat(verdict.path) \notin boundary.files

\* Links and the boundary spell names as the directories have them.
SpelledAlike ==
    /\ \A l \in Links : Lstat(target[l]) \in Node => PathOf(Lstat(target[l])) = target[l]
    /\ \A root \in boundary.roots : PathOf(root.node) = root.path

\* The same, where links are spelled like what they lead to: then links, moves
\* and paths in any case are seen through.
PassedIsOutside ==
    verdict # <<>> /\ (folds => SpelledAlike) => PassedIsOutsideInAnyCase

\* A path is refused for a reason: it overlaps, passes through a protected
\* directory, is a state file or no path at all, or a directory of the boundary
\* is not where it was.
RefusedForAReason ==
    verdict # <<>> /\ ~verdict.outside =>
        \/ \E d \in Protected \cup {StateDir} :
              Overlaps(d, verdict.path) \/ AncestorIs(d, verdict.path)
        \/ Stat(verdict.path) \in boundary.files \cup {"notdir"}
        \/ ~StateInPlace
        \/ \E root \in boundary.roots : PathOf(root.node) # root.path

\* The answer is right both ways.
BoundaryIsExact == PassedIsOutside /\ RefusedForAReason

\* The cache is a directory, and no root is a link into it: its files are known
\* wherever the walk comes from.
CacheIsKnown ==
    /\ Cache \notin Regular
    /\ \A root \in RootPaths :
          Stat(root) \in Directories /\ Cache \in Ancestors(Stat(root)) => Ignores(root)

\* A walk picks up every regular file below its input, except those below
\* ~/.kube/cache, and no file that is protected.
WalkIsExact ==
    picked # {} =>
        /\ CacheIsKnown => picked = {n \in Regular : /\ Stat(verdict.path) \in Ancestors(n)
                                                     /\ Cache \notin Ancestors(n)}
        /\ (folds => SpelledAlike) =>
              \A n \in picked : n \notin boundary.files /\ Ancestors(n) \cap Protected = {}
=============================================================================
