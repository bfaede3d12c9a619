---------------------------- MODULE SusuManifest ----------------------------
(***************************************************************************)
(* One manifest on several machines. A repository is carried from machine  *)
(* to machine by Git; on each, add and rm name entries by what             *)
(* internal/paths makes of their arguments, internal/manifest decides      *)
(* which sets of entries may be stored together, and apply decides which   *)
(* may be restored together.                                               *)
(***************************************************************************)
EXTENDS SusuPaths, FiniteSets

CONSTANTS
    Machines,   \* environments: home, xdg, work (arguments), links, platform,
                \* insensitive (the file system ignores case), protected (roots)
    Commands,   \* sets of arguments of one command
    Pulled,     \* manifests that Git may bring, valid or not
    MaxEntries  \* bound on the entries of a manifest

ASSUME ManifestAssumption ==
    /\ \A m \in Machines :
        /\ m.platform \in {"linux", "darwin"}
        /\ m.insensitive \in BOOLEAN
        /\ m.insensitive => m.platform = "darwin"
        /\ {m.home, m.xdg, m.work} \subseteq Seq(Component)
        /\ \A link \in DOMAIN m.links : {link, m.links[link]} \subseteq Seq(Component)
    /\ \A as \in Commands : as \subseteq Seq(Component) \ {<<>>}
    /\ \A m \in Pulled :
        /\ m = [crypto |-> m.crypto, entries |-> m.entries]
        /\ m.crypto \in BOOLEAN
        /\ \A e \in m.entries : e.path \in Seq(Component)
    /\ MaxEntries \in Nat

VARIABLES
    machine,    \* the machine in use, with a configured environment
    manifest,   \* susu.json: [crypto, entries]
    here,       \* history: the paths added on this machine
    restored    \* history: what the last apply left at each place, or nothing

vars == <<machine, manifest, here, restored>>

---------------------------------------------------------------------------
(* What a logical path stands for on the machine in use *)

Roots == Resolver(machine)

Destination(path) == Resolve(Roots, path)

Rooted(path) == Canonical(machine, RootOf(Roots, path)) \o Tail(path)

(* The place of a destination in the file system. Symbolic links below a   *)
(* root are refused by every command, so only the root's are followed.     *)
Place(path) == IF machine.insensitive THEN Folded(Rooted(path)) ELSE Rooted(path)

(* pathsOverlap                                                            *)
Overlap(p, q) == IsPrefix(p, q) \/ IsPrefix(q, p)

Protected(path) == \E root \in machine.protected : Overlap(root, Place(path))

(* addIgnorePolicy.ignores                                                 *)
Ignored(path) ==
    \/ IsPrefix(Roots.home \o Cache, Destination(path))
    \/ IsPrefix(Canonical(machine, Roots.home) \o Cache, Place(path))

(* loadManagedFileIdentities, for a file that exists at a path's place.    *)
Owners(path) == {p \in Paths(manifest.entries) : Place(p) = Place(path)}

(* The entries of a manifest that can be put on disk side by side.         *)
Separate(places) == ~\E p, q \in places : IsStrictPrefix(p, q)

Distinct(paths) == \A p, q \in paths : p # q => Place(p) # Place(q)

NothingRestored == <<>>

---------------------------------------------------------------------------

Init ==
    /\ machine \in {m \in Machines : Configured(m)}
    /\ manifest = [crypto |-> FALSE, entries |-> {}]
    /\ here = {} /\ restored = NothingRestored

(* collectCandidates: the paths of arguments that name regular files.      *)
Candidates(arguments) ==
    {path \in {Normalize(Roots, a) : a \in arguments} : ~Ignored(path)}

NewPaths(paths) ==
    {p \in paths \ Paths(manifest.entries) : Owners(p) = {}}

(* Fault: two new candidates may be the same file.                         *)
AcceptableAliases(paths) ==
    /\ \A p \in paths : ~Protected(p) /\ Cardinality(Owners(p)) <= 1
    /\ \A p \in paths \cap Paths(manifest.entries) : Owners(p) = {p}

(* addWithHooks before the writes: nobody else owns an update's file, and  *)
(* no two candidates are the same file. Paths that alias one managed file  *)
(* are left out.                                                           *)
Acceptable(paths) ==
    /\ \A p \in paths : ~Protected(p) /\ Cardinality(Owners(p)) <= 1
    /\ \A p \in paths \cap Paths(manifest.entries) : Owners(p) = {p}
    /\ Distinct(NewPaths(paths))

Entries(paths, sensitive) ==
    {[path |-> p, source |-> SourceFor(p, sensitive), sensitive |-> sensitive] : p \in paths}

Add(arguments, sensitive) ==
    /\ \A a \in arguments : IsLogical(Normalize(Roots, a))
    /\ LET paths == Candidates(arguments)
           new   == NewPaths(paths)
       IN /\ Separate({Place(p) : p \in paths})
          /\ Acceptable(paths)
          /\ manifest' = [crypto  |-> manifest.crypto \/ (sensitive /\ new # {}),
                          entries |-> manifest.entries \cup Entries(new, sensitive)]
          /\ here' = here \cup new
    /\ Validate(manifest')
    /\ Cardinality(manifest'.entries) <= MaxEntries
    /\ restored' = NothingRestored
    /\ UNCHANGED machine

(* Remove, after which here forgets what it no longer speaks about.        *)
Rm(arguments) ==
    /\ {Normalize(Roots, a) : a \in arguments} \subseteq Paths(manifest.entries)
    /\ LET requested == {Normalize(Roots, a) : a \in arguments}
       IN /\ manifest' = [manifest EXCEPT !.entries = {e \in @ : e.path \notin requested}]
          /\ here' = here \ requested
    /\ Validate(manifest')
    /\ restored' = NothingRestored
    /\ UNCHANGED machine

(* Fault: destinations are compared as they are spelled.                   *)
SafeSpelled(paths) ==
    /\ \A p \in paths : ~Protected(p)
    /\ \A p, q \in paths : p # q => Destination(p) # Destination(q)
    /\ Separate({Destination(p) : p \in paths})

Key(path) == ComparisonKey(machine.platform, Rooted(path))

(* ensureApplyDestinationsSafe, ensureNoApplyDestinationConflicts          *)
Safe(paths) ==
    /\ \A p \in paths : ~Protected(p)
    /\ \A p, q \in paths : p # q => Key(p) # Key(q)
    /\ Separate({Key(p) : p \in paths})

(* Apply: every entry is written to its place, one of them last where      *)
(* several share it. A place inside another one's file cannot be written.  *)
Apply ==
    LET paths  == Paths(manifest.entries)
        places == {Place(p) : p \in paths}
    IN /\ Safe(paths)
       /\ restored' \in [places -> paths]
       /\ \A place \in places :
            Place(restored'[place]) = place
       /\ UNCHANGED <<machine, manifest, here>>

(* Fault: Load does not validate.                                          *)
PullUnchecked(m) ==
    /\ manifest' = m /\ here' = {} /\ restored' = NothingRestored
    /\ UNCHANGED machine

(* Load refuses a manifest that is not valid.                              *)
Pull(m) ==
    /\ Validate(m)
    /\ manifest' = m /\ here' = {} /\ restored' = NothingRestored
    /\ UNCHANGED machine

Move(m) ==
    /\ Configured(m)
    /\ machine' = m /\ here' = {} /\ restored' = NothingRestored
    /\ UNCHANGED manifest

Next ==
    \/ \E as \in Commands, sensitive \in BOOLEAN : Add(as, sensitive)
    \/ \E as \in Commands : Rm(as)
    \/ Apply
    \/ \E m \in Pulled : Pull(m)
    \/ \E m \in Machines : Move(m)

Spec == Init /\ [][Next]_vars

---------------------------------------------------------------------------
(* Entries are what Load accepts; restored and here speak about them.      *)
TypeOK ==
    /\ machine \in Machines /\ Configured(machine)
    /\ manifest.crypto \in BOOLEAN /\ Validate(manifest)
    /\ here \subseteq Paths(manifest.entries)
    /\ restored # NothingRestored =>
        /\ DOMAIN restored = {Place(p) : p \in Paths(manifest.entries)}
        /\ \A place \in DOMAIN restored : restored[place] \in Paths(manifest.entries)

(* Stored sources are files of one tree. No source is a directory on the   *)
(* way to another, whatever mixture of public and sensitive entries, of    *)
(* HOME and XDG_CONFIG_HOME was added: ".enc" may turn a path that         *)
(* conflicts with nothing into one that does.                              *)
SourcesFormATree ==
    /\ \A e, f \in manifest.entries : e # f => e.source # f.source
    /\ Separate(Sources(manifest.entries))

(* After an apply that reported success each entry is at its own place,    *)
(* and no place lies inside another's file, also where HOME and            *)
(* XDG_CONFIG_HOME lead to the same directory, where one is a symbolic     *)
(* link, or where the file system ignores case.                            *)
RestoresEverything ==
    restored # NothingRestored =>
        /\ \A p \in Paths(manifest.entries) : restored[Place(p)] = p
        /\ Separate(DOMAIN restored)

(* What was added on a machine is found there again: rm and show, given    *)
(* the logical path or the destination that apply writes, name the same    *)
(* entry.                                                                  *)
NamedAsAdded ==
    \A p \in here :
        /\ Normalize(Roots, p) = p
        /\ Normalize(Roots, <<"">> \o Destination(p)) = p

(* add never gives a file a second owner: while no two entries share a     *)
(* place on this machine, no addition makes them.                          *)
AddKeepsOwners ==
    [][machine' = machine /\ here' # {} /\ Distinct(Paths(manifest.entries))
        => Distinct(Paths(manifest'.entries))]_vars
=============================================================================
