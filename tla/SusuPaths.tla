----------------------------- MODULE SusuPaths -----------------------------
(***************************************************************************)
(* The path rules of susu: internal/paths, and the part of                 *)
(* internal/manifest that maps a logical path to a stored source.          *)
(*                                                                         *)
(* A path is the sequence of its components, as strings.Split(path, "/")   *)
(* gives them: "/h/a" is <<"", "h", "a">>, "~/a" is <<"~", "a">>, and ""   *)
(* is <<"">>. A cleaned absolute path is written without its leading "".   *)
(* An error is the empty sequence, as Go returns "" with it.               *)
(***************************************************************************)
EXTENDS Naturals, Sequences, SequencesExt

CONSTANTS
    Name,       \* components of names, other than "", "." and ".."
    Unsafe,     \* names with control characters or malformed UTF-8
    Prefixed,   \* names that only begin with "~" or "${XDG_CONFIG_HOME}"
    Config,     \* ".config"
    Cache,      \* the components of ".kube/cache"
    Enc(_),     \* a component with ".enc" appended
    Fold(_)     \* a component in Darwin's comparison form: NFD, folded, NFC

Empty == {"", ".", ".."}

(* What strings.Split may find between two slashes.                        *)
Component == Name \cup Empty \cup {"~", "${XDG_CONFIG_HOME}"}

ASSUME PathsAssumption ==
    /\ Unsafe \subseteq Name /\ Prefixed \subseteq Name
    /\ Config \in Name \ Unsafe
    /\ Cache \in Seq(Name) \ {<<>>}
    /\ Name \cap (Empty \cup {"~", "${XDG_CONFIG_HOME}"}) = {}
    /\ \A a, b \in Name : Enc(a) = Enc(b) => a = b

HomePrefix == "~"
XDGPrefix == "${XDG_CONFIG_HOME}"
Refused == <<>>

---------------------------------------------------------------------------
(* Lexical normalisation *)

Up(directory) == IF directory = <<>> THEN <<>> ELSE Front(directory)

(* filepath.Clean of an absolute path: the directories its components lead *)
(* through, and the last of them.                                          *)
Through(raw) ==
    LET directory[i \in 0 .. Len(raw)] ==
            IF i = 0 THEN <<>>
            ELSE IF raw[i] \in {"", "."} THEN directory[i - 1]
            ELSE IF raw[i] = ".." THEN Up(directory[i - 1])
            ELSE Append(directory[i - 1], raw[i])
    IN directory

Clean(raw) == Through(raw)[Len(raw)]

IsAbsolute(raw) == Len(raw) > 1 /\ raw[1] = ""

(* relativeToRoot: what follows a root.                                    *)
From(root, path) == SubSeq(path, Len(root) + 1, Len(path))

(* NewResolverAt: the roots of a machine, from its environment.            *)
Configured(m) ==
    /\ IsAbsolute(m.home) /\ IsAbsolute(m.work)
    /\ m.xdg = <<"">> \/ IsAbsolute(m.xdg)

Resolver(m) ==
    [home |-> Clean(m.home),
     xdg  |-> IF m.xdg = <<"">> THEN Append(Clean(m.home), Config) ELSE Clean(m.xdg),
     work |-> Clean(m.work)]

(* expandInput: the absolute path an argument means.                       *)
Malformed(input) == input = <<"">> \/ input[1] \in Prefixed

Expand(r, input) ==
    CASE input[1] = HomePrefix -> Clean(r.home \o Tail(input))
      [] input[1] = XDGPrefix  -> Clean(r.xdg \o Tail(input))
      [] input[1] = ""         -> Clean(input)
      [] OTHER                 -> Clean(r.work \o input)

(* Normalize: an argument's logical path. XDG_CONFIG_HOME comes first.      *)
Normalize(r, input) ==
    LET path == Expand(r, input)
    IN IF Malformed(input) THEN Refused
       ELSE IF IsPrefix(r.xdg, path) THEN <<XDGPrefix>> \o From(r.xdg, path)
       ELSE IF IsPrefix(r.home, path) THEN <<HomePrefix>> \o From(r.home, path)
       ELSE Refused

---------------------------------------------------------------------------
(* Logical paths and their destinations *)

(* parseLogical, validateLogicalRelative                                   *)
IsLogical(path) ==
    /\ Len(path) > 0 /\ path[1] \in {HomePrefix, XDGPrefix}
    /\ \A i \in 2 .. Len(path) : path[i] \notin Empty

(* Fault: XDG_CONFIG_HOME is always taken to be HOME/.config.              *)
RootOfDefault(r, path) ==
    IF path[1] = XDGPrefix THEN Append(r.home, Config) ELSE r.home

RootOf(r, path) == IF path[1] = XDGPrefix THEN r.xdg ELSE r.home

Resolve(r, path) == RootOf(r, path) \o Tail(path)

(* canonicalProspectivePath: the symbolic links of a machine that lie on   *)
(* the way to a root, with the directories they end in.                    *)
Canonical(m, path) ==
    LET on == {link \in DOMAIN m.links : IsPrefix(link, path)}
    IN IF on = {} THEN path
       ELSE LET link == CHOOSE l \in on : TRUE
            IN m.links[link] \o From(link, path)

Folded(path) == [i \in DOMAIN path |-> Fold(path[i])]

(* ComparisonKey                                                           *)
ComparisonKey(platform, path) ==
    IF platform = "darwin" THEN Folded(path) ELSE path

---------------------------------------------------------------------------
(* Stored sources *)

(* logicalRelative                                                         *)
LogicalRelative(path) ==
    IF ~IsLogical(path) \/ Len(path) = 1 \/ \E i \in DOMAIN path : path[i] \in Unsafe
    THEN Refused
    ELSE IF path[1] = XDGPrefix THEN <<Config>> \o Tail(path)
    ELSE IF path[2] = Config THEN Refused
    ELSE Tail(path)

SourceFor(path, sensitive) ==
    LET relative == LogicalRelative(path)
    IN IF relative = Refused THEN Refused
       ELSE IF sensitive THEN <<"encrypted">> \o Front(relative) \o <<Enc(Last(relative))>>
       ELSE <<"public">> \o relative

AncestorConflict(paths) == \E p, q \in paths : IsStrictPrefix(p, q)

Paths(entries) == {e.path : e \in entries}
Sources(entries) == {e.source : e \in entries}

ValidEntry(e) == e.source # Refused /\ e.source = SourceFor(e.path, e.sensitive)

(* Fault: sources are taken to be free of conflicts because paths are.     *)
ValidatePathsOnly(manifest) ==
    /\ \A e \in manifest.entries : ValidEntry(e) /\ (e.sensitive => manifest.crypto)
    /\ \A e, f \in manifest.entries : e # f => e.path # f.path /\ e.source # f.source
    /\ ~AncestorConflict(Paths(manifest.entries))

(* Validate, on the entries of a manifest and whether it has crypto        *)
(* metadata.                                                               *)
Validate(manifest) ==
    /\ \A e \in manifest.entries : ValidEntry(e) /\ (e.sensitive => manifest.crypto)
    /\ \A e, f \in manifest.entries : e # f => e.path # f.path /\ e.source # f.source
    /\ ~AncestorConflict(Paths(manifest.entries))
    /\ ~AncestorConflict(Sources(manifest.entries))
=============================================================================
