----------------------------- MODULE MCSecrets -----------------------------
(***************************************************************************)
(* What becomes of the contents of files: how they are encrypted, and how  *)
(* much of them is read and held.  The first does not depend on lengths    *)
(* and the second on nothing but lengths, so a behaviour is one of either  *)
(* part while the other rests.  In the first, two paths, two passwords,    *)
(* and Argon2id parameters on both sides of each limit; in the second, two *)
(* files and a unit of 256 MiB, in which base64 adds a third.              *)
(***************************************************************************)
EXTENDS SusuVault

CONSTANTS
    Files, MaxManaged, MaxStored, MaxTogether, MaxManifest, Sealed, EntrySize,
    MaxSize

(* A file add accepts, and its envelope, are no longer than what show and  *)
(* apply accept.                                                           *)
ASSUME LimitsAssumption ==
    /\ Files \subseteq Nat
    /\ {MaxManaged, MaxStored, MaxTogether, MaxManifest, MaxSize} \subseteq Nat
    /\ Sealed \in [0..MaxSize -> Nat]
    /\ \A n \in 0..MaxSize : n <= Sealed[n]
    /\ MaxManaged <= MaxStored
    /\ \A n \in 0..MaxSize : n <= MaxManaged => Sealed[n] <= MaxStored

MCPaths == {"p", "q"}
MCTexts == {"t"}
MCPasswords == {"u", "v"}
Parameters(t, m, p, k) ==
    [time |-> t, memory |-> m, parallelism |-> p, keyLength |-> k]
MCParams ==
    {Default,
     Parameters(0, 64 * 1024, 4, 32), Parameters(10, 64 * 1024, 4, 32),
     Parameters(11, 64 * 1024, 4, 32),
     Parameters(3, 256 * 1024 + 1, 4, 32), Parameters(3, 64 * 1024, 0, 32),
     Parameters(3, 127, 16, 32), Parameters(3, 128, 16, 32),
     Parameters(3, 256 * 1024, 17, 32), Parameters(3, 64 * 1024, 4, 16)}

MCFiles == {1, 2}
MCSealed == [n \in 0..MaxSize |-> (4 * n + 2) \div 3]

VARIABLES
    part,   \* the part that runs
    size, sources, manifest, foreign, step, kind, file, todo, got, plain,
    held, refused

lengths == <<size, sources, manifest, foreign, step, kind, file, todo, got,
             plain, held, refused>>

Limits == INSTANCE SusuLimits WITH stored <- sources, at <- step, op <- kind

MCInit ==
    /\ Init
    /\ \/ part = "vault" /\ size = [f \in Files |-> 0] /\ file = 1
       \/ part = "limits"
    /\ Limits!Init

MCNext ==
    \/ part = "vault" /\ Next /\ UNCHANGED <<part, lengths>>
    \/ part = "limits" /\ Limits!Next /\ UNCHANGED <<part, vars>>

MCSpec == MCInit /\ [][MCNext]_<<part, vars, lengths>>

-----------------------------------------------------------------------------
(* Types of the part that runs.                                            *)
TypesOK == IF part = "vault" THEN TypeOK ELSE Limits!TypeOK

(* What add has stored is the whole file, and show and apply take it.      *)
StoredIsUsable == Limits!StoredIsUsable

(* The plaintext apply holds stays within its limits and is gone when the  *)
(* command ends.                                                           *)
HeldIsBounded == Limits!HeldIsBounded
============================================================================
