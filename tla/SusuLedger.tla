----------------------------- MODULE SusuLedger -----------------------------
(***************************************************************************)
(* What add and rm promise about the repository: a table of snapshots that *)
(* changes by whole additions, single updates and whole removals.          *)
(***************************************************************************)
CONSTANTS Path, Data, Key, NoKey, Unmanaged

VARIABLES key,       \* the key susu.json can unlock, or NoKey
          snapshot   \* [Path -> Unmanaged or what is kept for the path]

lvars == <<key, snapshot>>

\* What may be kept under key k: plaintext, or ciphertext under that very key.
Public       == [class : {"public"}, key : {NoKey}, data : Data]
Sensitive(k) == [class : {"sensitive"}, key : {k} \ {NoKey}, data : Data]

InLedger == {p \in Path : snapshot[p] # Unmanaged}

Init ==
    /\ key = NoKey
    /\ snapshot = [p \in Path |-> Unmanaged]

\* The paths of P appear together, all of one class; the first sensitive ones
\* bring the key.
AddAll(P) ==
    /\ P # {} /\ P \cap InLedger = {}
    /\ \E f \in [P -> Public] \cup [P -> Sensitive(key')] :
          snapshot' = [p \in Path |-> IF p \in P THEN f[p] ELSE snapshot[p]]
    /\ key' = key \/ (key = NoKey /\ key' \in Key)

\* One path gets new contents and keeps its class.
Update(p) ==
    /\ p \in InLedger
    /\ \E c \in Public \cup Sensitive(key) :
          /\ c.class = snapshot[p].class
          /\ snapshot' = [snapshot EXCEPT ![p] = c]
    /\ UNCHANGED key

\* The paths of P disappear together; the key stays.
RemoveAll(P) ==
    /\ P # {} /\ P \subseteq InLedger
    /\ snapshot' = [p \in Path |-> IF p \in P THEN Unmanaged ELSE snapshot[p]]
    /\ UNCHANGED key

Next ==
    \/ \E P \in SUBSET Path : AddAll(P) \/ RemoveAll(P)
    \/ \E p \in Path : Update(p)

Spec == Init /\ [][Next]_lvars
=============================================================================
