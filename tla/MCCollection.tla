---------------------------- MODULE MCCollection ----------------------------
(***************************************************************************)
(* Which files add takes: what the command line asks for, what the walk    *)
(* and the boundary make of one tree, and what is read while the tree      *)
(* changes.  Each part answers a question of its own, so a behaviour is    *)
(* one of either part while the others rest.                               *)
(*                                                                         *)
(* In the tree /h is the home directory with the cache /h/c, the state     *)
(* directory /h/t and a link /h/l, and /r is the worktree.  The command    *)
(* lines have at most four words.                                          *)
(***************************************************************************)
EXTENDS SusuCandidates, Sequences, TLC

CONSTANTS
    Kind, Layout, Spelling, Fold, Targets, Protected, RootPaths, CachePath, Paths,
    Top, StateDir, MaxMoves,
    Words, Files, MaxArgs, MaxDone

(* No file is called --sensitive: a path of that name is not stored.       *)
ASSUME CommandLineAssumption ==
    /\ "--sensitive" \notin Files
    /\ MaxArgs \in Nat /\ MaxDone \in Nat \ {0}

MCKind == [top |-> "directory", home |-> "directory", cache |-> "directory",
           state |-> "directory", repo |-> "directory", sub |-> "directory",
           link |-> "link", cached |-> "file", binding |-> "file", plain |-> "file"]
MCLayout == [home |-> "top", cache |-> "home", state |-> "home", repo |-> "top",
             sub |-> "repo", link |-> "home", cached |-> "cache",
             binding |-> "state", plain |-> "home"]
MCSpelling == [home |-> "h", cache |-> "c", state |-> "t", repo |-> "r", sub |-> "s",
               link |-> "l", cached |-> "f", binding |-> "g", plain |-> "x"]
MCFold == [n \in {"h", "c", "t", "r", "s", "l", "f", "g", "x", "z", "R", "C"} |->
              IF n = "R" THEN "r" ELSE IF n = "C" THEN "c" ELSE n]
MCTargets == {<<"r", "s">>, <<"h", "t">>, <<"h">>}
MCProtected == {"repo"}
MCRootPaths == {<<"h">>, <<"h", "l">>}
MCCachePath == <<"h", "c">>
MCPaths ==
    {<<a>> : a \in {"h", "r", "R"}}
    \cup {<<a, b>> : a \in {"h", "r", "R"}, b \in {"t", "c", "C", "l", "s", "x", "z"}}
    \cup {<<a, b, c>> : a \in {"h", "R"}, b \in {"t", "C", "l", "s", "z"}, c \in {"g", "f", "x", "c"}}

MCWords == {"init", "add", "show", "apply", "completion", "help",
            "-h", "--sensitive", "--", "-x", "file", "bash"}
MCFiles == {"file"}

VARIABLES
    part,   \* the part that runs
    parent, name, target, folds, moves, boundary, verdict, picked,
    argv, home, at, sensitive, operands, call, result, failed, printed,
    broken, status

tree == <<parent, name, target, folds, moves, boundary, verdict, picked>>
process == <<argv, home, at, sensitive, operands, call, result, failed,
             printed, broken, status>>

Boundary == INSTANCE SusuBoundary
CommandLine == INSTANCE SusuCommandLine

(* The file system is a tree at the start, in which names are distinct      *)
(* also where case is ignored.                                             *)
ASSUME BoundaryAssumption ==
    /\ IsFiniteSet(DOMAIN Kind) /\ DOMAIN Kind \cap {"missing", "notdir"} = {}
    /\ {Top, StateDir} \cup Protected \subseteq Boundary!Directories
    /\ Layout \in [Boundary!Movable -> Boundary!Directories]
    /\ Spelling \in [Boundary!Movable -> DOMAIN Fold]
    /\ \A C \in SUBSET DOMAIN Kind :
          C # {} /\ (\A n \in C \ {Top} : Layout[n] \in C) => Top \in C
    /\ \A m, n \in Boundary!Movable :
          Layout[m] = Layout[n] /\ Fold[Spelling[m]] = Fold[Spelling[n]] => m = n
    /\ Targets \cup Paths \cup RootPaths \subseteq Seq(DOMAIN Fold)
    /\ CachePath \in Seq(DOMAIN Fold) \ {<<>>}
    /\ MaxMoves \in Nat

CandidatesRest ==
    /\ view = [p \in Path |-> [file |-> NoFile, place |-> "outside"]]
    /\ managed = {} /\ todo = Path
BoundaryRest == target = [link |-> <<"h">>] /\ folds = FALSE
CommandLineRest == argv = <<>> /\ home = FALSE

MCInit ==
    /\ \/ part = "candidates" /\ BoundaryRest /\ CommandLineRest
       \/ part = "boundary" /\ CandidatesRest /\ CommandLineRest
       \/ part = "command line" /\ CandidatesRest /\ BoundaryRest
    /\ Init /\ Boundary!Init /\ CommandLine!Init

MCNext ==
    \/ part = "candidates" /\ Next /\ UNCHANGED <<part, tree, process>>
    \/ part = "boundary" /\ Boundary!Next /\ UNCHANGED <<part, vars, process>>
    \/ part = "command line" /\ CommandLine!Next /\ UNCHANGED <<part, vars, tree>>

MCSpec == MCInit /\ [][MCNext]_<<part, vars, tree, process>>

Symmetry == Permutations(Path) \cup Permutations(Inode \ StateFile)

-----------------------------------------------------------------------------
(* Types of the part that runs; the tree is one, and commands that are called *)
(* have as many operands as they take.                                     *)
TypesOK ==
    CASE part = "candidates" -> TypeOK
      [] part = "boundary" -> Boundary!TypeOK
      [] part = "command line" -> CommandLine!TypeOK

(* The boundary lets pass what is outside of it in every physical sense,   *)
(* and refuses nothing without a reason.                                   *)
BoundaryIsExact == Boundary!BoundaryIsExact

(* A walk picks up every regular file below its input that is not ignored. *)
WalkIsExact == Boundary!WalkIsExact

(* Wherever --sensitive stands, nothing is stored in public.               *)
SensitiveIsNeverPublic == CommandLine!SensitiveIsNeverPublic

(* What a call committed is reported, and status 0 means that nothing      *)
(* failed.                                                                 *)
StatusTellsAll == CommandLine!StatusTellsAll
=============================================================================
