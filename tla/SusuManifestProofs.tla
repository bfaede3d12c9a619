------------------------- MODULE SusuManifestProofs -------------------------
(***************************************************************************)
(* Proofs about SusuManifest, for any names, machines, arguments and       *)
(* manifests that Git may bring.  The idea: what Clean makes of a path has *)
(* no component left that Clean would change, so the destination of a      *)
(* logical path, and the logical path itself, lead Normalize back to the   *)
(* directory it started from.  The rest is what Validate and the checks of *)
(* add and apply compare, carried over from the form they compare to the   *)
(* places in the file system.                                              *)
(***************************************************************************)
EXTENDS SusuManifest, SequenceTheorems, WellFoundedInduction, TLAPS

(* A component that Clean keeps.                                           *)
Plain == Component \ Empty

-----------------------------------------------------------------------------
(* Sequences                                                               *)

(* Every nonempty set of numbers has a least element.                      *)
LEMMA Least ==
    ASSUME NEW T \in SUBSET Nat, T # {}
    PROVE  \E x \in T : \A y \in T : x =< y
<1>1. PICK x \in T : \A y \in T : <<y, x>> \notin OpToRel(<, Nat)
  BY NatLessThanWellFounded, WFMin, Zenon
<1>2. \A y \in Nat : y < x => <<y, x>> \in OpToRel(<, Nat)
  BY DEF OpToRel
<1>3. \A y \in T : ~(y < x)
  BY <1>1, <1>2, Zenon
<1> QED BY <1>3

(* Induction up to a bound.                                                *)
LEMMA UpTo ==
    ASSUME NEW k \in Nat, NEW S, 0 \in S, \A i \in 0..k : i \in S /\ i < k => i + 1 \in S
    PROVE  0..k \subseteq S
<1> SUFFICES ASSUME (0..k) \ S # {} PROVE FALSE
  OBVIOUS
<1>1. PICK x \in (0..k) \ S : \A y \in (0..k) \ S : x =< y
  <2>1. (0..k) \ S \in SUBSET Nat
    OBVIOUS
  <2> QED BY <2>1, Least
<1>2. x - 1 \in 0..k /\ x - 1 \in S
  BY <1>1
<1> QED BY <1>1, <1>2

(* What a prefix is, component by component.                               *)
LEMMA PrefixIs ==
    ASSUME NEW S, NEW s \in Seq(S), NEW t \in Seq(S)
    PROVE  IsPrefix(s, t) <=> Len(s) <= Len(t) /\ \A i \in 1..Len(s) : s[i] = t[i]
<1>1. Len(s) \in Nat /\ Len(t) \in Nat
  OBVIOUS
<1>2. SubSeq(s, 1, Len(s)) = s
  BY SubSeqFull
<1> SUFFICES ASSUME Len(s) <= Len(t)
             PROVE  s = SubSeq(t, 1, Len(s)) <=> \A i \in 1..Len(s) : s[i] = t[i]
  BY <1>2 DEF IsPrefix
<1>3. \A i \in 1..Len(s) : t[i] \in S
  BY <1>1, ElementOfSeq
<1>4. /\ SubSeq(t, 1, Len(s)) \in Seq(S)
      /\ Len(SubSeq(t, 1, Len(s))) = Len(s)
      /\ \A i \in 1..Len(s) : SubSeq(t, 1, Len(s))[i] = t[i]
  <2>1. /\ SubSeq(t, 1, Len(s)) \in Seq(S)
        /\ Len(SubSeq(t, 1, Len(s))) = IF 1 <= Len(s) THEN Len(s) - 1 + 1 ELSE 0
        /\ \A i \in 1..(Len(s) - 1 + 1) : SubSeq(t, 1, Len(s))[i] = t[1 + i - 1]
    BY <1>1, <1>3, SubSeqProperties
  <2> QED BY <1>1, <2>1
<1>5. ASSUME \A i \in 1..Len(s) : s[i] = t[i] PROVE s = SubSeq(t, 1, Len(s))
  <2> DEFINE u == SubSeq(t, 1, Len(s))
  <2>1. u \in Seq(S) /\ Len(s) = Len(u) /\ \A i \in 1..Len(s) : s[i] = u[i]
    BY <1>4, <1>5
  <2> HIDE DEF u
  <2>2. s = u
    BY <2>1, SeqEqual
  <2> QED BY <2>2 DEF u
<1> QED BY <1>4, <1>5

(* A component put before a sequence.                                      *)
LEMMA Put ==
    ASSUME NEW S, NEW x \in S, NEW s \in Seq(S)
    PROVE  /\ <<x>> \o s \in Seq(S) /\ Len(<<x>> \o s) = Len(s) + 1
           /\ (<<x>> \o s)[1] = x /\ \A i \in 1..Len(s) : (<<x>> \o s)[i + 1] = s[i]
           /\ <<x>> \o s # <<>> /\ Tail(<<x>> \o s) = s
<1>1. <<x>> \in Seq(S) /\ Len(<<x>>) = 1 /\ <<x>>[1] = x /\ Len(s) \in Nat
  OBVIOUS
<1> DEFINE o == <<x>>
           v == o \o s
<1>2. o \in Seq(S) /\ Len(o) = 1 /\ o[1] = x
  BY <1>1
<1> HIDE DEF o
<1>3. /\ v \in Seq(S) /\ Len(v) = Len(o) + Len(s)
      /\ \A i \in 1..(Len(o) + Len(s)) : v[i] = IF i <= Len(o) THEN o[i] ELSE s[i - Len(o)]
  BY <1>2, ConcatProperties
<1> HIDE DEF v
<1>4. Len(v) = Len(s) + 1 /\ v[1] = x
  BY <1>1, <1>2, <1>3
<1>5. \A i \in 1..Len(s) : v[i + 1] = s[i]
  <2> SUFFICES ASSUME NEW i \in 1..Len(s) PROVE v[i + 1] = s[i]
    OBVIOUS
  <2>1. i + 1 \in 1..(Len(o) + Len(s)) /\ ~(i + 1 <= Len(o)) /\ (i + 1) - Len(o) = i
    BY <1>1, <1>2
  <2> QED BY <1>3, <2>1
<1>6. v # <<>>
  BY <1>1, <1>3, <1>4, EmptySeq
<1>7. /\ Tail(v) \in Seq(S) /\ Len(Tail(v)) = Len(v) - 1
      /\ \A i \in 1..Len(Tail(v)) : Tail(v)[i] = v[i + 1]
  BY <1>3, <1>6, HeadTailProperties
<1> DEFINE w == Tail(v)
<1>8. w \in Seq(S) /\ Len(w) = Len(s) /\ \A i \in 1..Len(w) : w[i] = s[i]
  BY <1>1, <1>4, <1>5, <1>7
<1> HIDE DEF w
<1>9. w = s
  BY <1>8, SeqEqual
<1> QED BY <1>3, <1>4, <1>5, <1>6, <1>9 DEF v, w, o

(* What follows a prefix.                                                  *)
LEMMA FromIs ==
    ASSUME NEW S, NEW s \in Seq(S), NEW t \in Seq(S), IsPrefix(s, t)
    PROVE  /\ From(s, t) \in Seq(S) /\ s \o From(s, t) = t
<1>1. /\ Len(s) \in Nat /\ Len(t) \in Nat
      /\ Len(s) <= Len(t) /\ \A i \in 1..Len(s) : s[i] = t[i]
  BY PrefixIs
<1>2. \A i \in (Len(s) + 1)..Len(t) : t[i] \in S
  BY <1>1, ElementOfSeq
<1> DEFINE u == SubSeq(t, Len(s) + 1, Len(t))
<1>3. /\ u \in Seq(S) /\ Len(u) = Len(t) - Len(s)
      /\ \A i \in 1..(Len(t) - Len(s)) : u[i] = t[Len(s) + i]
  <2>1. /\ u \in Seq(S)
        /\ Len(u) = IF Len(s) + 1 <= Len(t) THEN Len(t) - (Len(s) + 1) + 1 ELSE 0
        /\ \A i \in 1..(Len(t) - (Len(s) + 1) + 1) : u[i] = t[(Len(s) + 1) + i - 1]
    BY <1>1, <1>2, SubSeqProperties
  <2> HIDE DEF u
  <2> QED BY <1>1, <2>1
<1> HIDE DEF u
<1>4. /\ s \o u \in Seq(S) /\ Len(s \o u) = Len(s) + Len(u)
      /\ \A i \in 1..(Len(s) + Len(u)) :
            (s \o u)[i] = IF i <= Len(s) THEN s[i] ELSE u[i - Len(s)]
  BY <1>3, ConcatProperties
<1> DEFINE v == s \o u
<1>5. v \in Seq(S) /\ Len(v) = Len(t)
  BY <1>1, <1>3, <1>4
<1>6. ASSUME NEW i \in 1..Len(v) PROVE v[i] = t[i]
  <2>1. i \in 1..(Len(s) + Len(u)) /\ i \in 1..Len(t)
    BY <1>1, <1>3, <1>5
  <2>2. CASE i <= Len(s)
    BY <1>1, <1>4, <2>1, <2>2
  <2>3. CASE ~(i <= Len(s))
    <3>1. i - Len(s) \in 1..(Len(t) - Len(s)) /\ Len(s) + (i - Len(s)) = i
      BY <1>1, <2>1, <2>3
    <3> QED BY <1>3, <1>4, <2>1, <2>3, <3>1
  <2> QED BY <2>2, <2>3
<1> HIDE DEF v
<1>7. v = t
  BY <1>5, <1>6, SeqEqual
<1> QED BY <1>3, <1>7 DEF From, u, v

-----------------------------------------------------------------------------
(* Clean                                                                   *)

Step(d, c) ==
    IF c \in {"", "."} THEN d ELSE IF c = ".." THEN Up(d) ELSE Append(d, c)

(* The function that Through defines exists.                               *)
LEMMA ThroughExists ==
    ASSUME NEW n \in Nat, NEW raw
    PROVE  \E g : g = [i \in 0..n |-> IF i = 0 THEN <<>> ELSE Step(g[i - 1], raw[i])]
<1> DEFINE IsThrough(g, k) ==
               g = [i \in 0..k |-> IF i = 0 THEN <<>> ELSE Step(g[i - 1], raw[i])]
           S == {k \in 0..n : \E g : IsThrough(g, k)}
<1>1. 0 \in S
  <2> DEFINE g == [i \in 0..0 |-> <<>>]
  <2>1. g = [i \in 0..0 |-> IF i = 0 THEN <<>> ELSE Step(g[i - 1], raw[i])]
    OBVIOUS
  <2> HIDE DEF g
  <2> QED BY <2>1
<1>2. ASSUME NEW k \in 0..n, k \in S, k < n PROVE k + 1 \in S
  <2>1. PICK g : IsThrough(g, k)
    BY <1>2
  <2> DEFINE h == [i \in 0..(k + 1) |-> IF i <= k THEN g[i] ELSE Step(g[k], raw[k + 1])]
  <2>2. \A i \in 0..k : h[i] = g[i]
    OBVIOUS
  <2>3. h[0] = <<>>
    BY <2>1, <2>2
  <2>4. \A i \in 1..k : h[i] = Step(h[i - 1], raw[i])
    <3> HIDE DEF h
    <3>1. \A i \in 1..k : g[i] = Step(g[i - 1], raw[i])
      BY <2>1
    <3> QED BY <2>2, <3>1
  <2>5. h[k + 1] = Step(h[k], raw[k + 1])
    BY <2>2
  <2>6. \A i \in 0..(k + 1) : h[i] = IF i = 0 THEN <<>> ELSE Step(h[i - 1], raw[i])
    <3> HIDE DEF h
    <3> QED BY <2>3, <2>4, <2>5
  <2>7. h = [i \in 0..(k + 1) |-> h[i]]
    OBVIOUS
  <2> HIDE DEF h
  <2>8. [i \in 0..(k + 1) |-> h[i]]
           = [i \in 0..(k + 1) |-> IF i = 0 THEN <<>> ELSE Step(h[i - 1], raw[i])]
    BY <2>6
  <2>9. IsThrough(h, k + 1)
    BY <2>7, <2>8
  <2> QED BY <1>2, <2>9
<1>3. 0..n \subseteq S
  <2> HIDE DEF S
  <2> QED BY <1>1, <1>2, UpTo
<1> QED BY <1>3

(* The directories that the components of a path lead through.             *)
LEMMA ThroughIs ==
    ASSUME NEW S, NEW raw \in Seq(S)
    PROVE  /\ Through(raw)[0] = <<>>
           /\ \A i \in 1..Len(raw) : Through(raw)[i] = Step(Through(raw)[i - 1], raw[i])
<1> DEFINE w == Through(raw)
           P(g) == g = [i \in 0..Len(raw) |->
                           IF i = 0 THEN <<>>
                           ELSE IF raw[i] \in {"", "."} THEN g[i - 1]
                           ELSE IF raw[i] = ".." THEN Up(g[i - 1])
                           ELSE Append(g[i - 1], raw[i])]
<1>1. P(w)
  <2>1. \E g : P(g)
    <3>1. Len(raw) \in Nat
      OBVIOUS
    <3>2. PICK g : g = [i \in 0..Len(raw) |-> IF i = 0 THEN <<>> ELSE Step(g[i - 1], raw[i])]
      BY <3>1, ThroughExists
    <3> QED BY <3>2 DEF Step
  <2>2. w = CHOOSE g : P(g)
    BY DEF Through
  <2> HIDE DEF P, w
  <2> QED BY <2>1, <2>2, Zenon
<1> HIDE DEF w
<1>2. Len(raw) \in Nat
  OBVIOUS
<1>3. w = [i \in 0..Len(raw) |-> IF i = 0 THEN <<>> ELSE Step(w[i - 1], raw[i])]
  BY <1>1 DEF Step
<1> HIDE DEF P
<1>4. w[0] = <<>>
  BY <1>2, <1>3
<1>5. \A i \in 1..Len(raw) : w[i] = Step(w[i - 1], raw[i])
  <2> SUFFICES ASSUME NEW i \in 1..Len(raw) PROVE w[i] = Step(w[i - 1], raw[i])
    OBVIOUS
  <2>1. i \in 0..Len(raw) /\ i # 0
    BY <1>2
  <2> QED BY <1>3, <2>1
<1> QED BY <1>4, <1>5 DEF w

(* Clean leaves no empty, "." or ".." component.                           *)
LEMMA CleanPlain ==
    ASSUME NEW raw \in Seq(Component)
    PROVE  Clean(raw) \in Seq(Plain)
<1> DEFINE w == Through(raw)
           S == {i \in 0..Len(raw) : w[i] \in Seq(Plain)}
<1>1. Len(raw) \in Nat /\ \A i \in 1..Len(raw) : raw[i] \in Component
  BY ElementOfSeq
<1>2. w[0] = <<>> /\ \A i \in 1..Len(raw) : w[i] = Step(w[i - 1], raw[i])
  BY ThroughIs
<1> HIDE DEF w
<1>3. 0 \in S
  <2>1. <<>> \in Seq(Plain)
    BY EmptySeq
  <2>2. w[0] \in Seq(Plain)
    BY <1>2, <2>1, Zenon
  <2>3. 0 \in 0..Len(raw)
    BY <1>1
  <2> QED BY <2>2, <2>3
<1>4. ASSUME NEW i \in 0..Len(raw), i \in S, i < Len(raw) PROVE i + 1 \in S
  <2>1. i + 1 \in 1..Len(raw) /\ (i + 1) - 1 = i /\ w[i] \in Seq(Plain)
    BY <1>1, <1>4
  <2> DEFINE d == w[i]
             c == raw[i + 1]
  <2>2. w[i + 1] = Step(d, c) /\ c \in Component /\ d \in Seq(Plain)
    BY <1>1, <1>2, <2>1
  <2> HIDE DEF d, c
  <2>3. Up(d) \in Seq(Plain)
    <3>1. CASE d = <<>>
      BY <3>1 DEF Up
    <3>2. CASE d # <<>>
      <4>1. Len(d) \in Nat \ {0} /\ \A j \in 1..(Len(d) - 1) : d[j] \in Plain
        BY <2>2, <3>2, EmptySeq, ElementOfSeq
      <4>2. SubSeq(d, 1, Len(d) - 1) \in Seq(Plain)
        BY <4>1, SubSeqProperties
      <4> QED BY <3>2, <4>2 DEF Up, Front
    <3> QED BY <3>1, <3>2
  <2>4. ASSUME c \notin {"", ".", ".."} PROVE Append(d, c) \in Seq(Plain)
    <3>1. c \in Plain
      BY <2>2, <2>4 DEF Plain, Empty
    <3> QED BY <2>2, <3>1, AppendProperties
  <2>5. Step(d, c) \in Seq(Plain)
    BY <2>2, <2>3, <2>4 DEF Step
  <2> QED BY <1>1, <2>1, <2>2, <2>5
<1>5. 0..Len(raw) \subseteq S
  <2> HIDE DEF S
  <2> QED BY <1>1, <1>3, <1>4, UpTo
<1>6. w[Len(raw)] \in Seq(Plain)
  BY <1>1, <1>5
<1> QED BY <1>6 DEF Clean, w

(* Clean keeps a path that is clean, with or without its leading slash.    *)
LEMMA CleanKeeps ==
    ASSUME NEW path \in Seq(Plain)
    PROVE  Clean(path) = path /\ Clean(<<"">> \o path) = path
<1> DEFINE n == Len(path)
           rooted == <<"">> \o path
           v == Through(path)
           w == Through(rooted)
           Upto(i) == SubSeq(path, 1, i)
           S == {i \in 0..n : v[i] = Upto(i) /\ w[i + 1] = Upto(i)}
<1>1. n \in Nat /\ \A i \in 1..n : path[i] \in Plain
  BY ElementOfSeq
<1>2. Plain \subseteq Component /\ "" \in Component
  BY DEF Plain, Component, Empty
<1>3. path \in Seq(Component)
  BY <1>2, SeqMonotonic
<1>4. /\ rooted \in Seq(Component) /\ Len(rooted) = n + 1 /\ rooted[1] = ""
      /\ \A i \in 1..n : rooted[i + 1] = path[i]
  <2>1. \A x \in Component :
           /\ <<x>> \o path \in Seq(Component) /\ Len(<<x>> \o path) = n + 1
           /\ (<<x>> \o path)[1] = x
           /\ \A i \in 1..n : (<<x>> \o path)[i + 1] = path[i]
    BY <1>3, Put
  <2> HIDE DEF n
  <2> QED BY <1>2, <2>1, Zenon
<1>5. /\ v[0] = <<>> /\ \A i \in 1..n : v[i] = Step(v[i - 1], path[i])
      /\ w[0] = <<>> /\ \A i \in 1..(n + 1) : w[i] = Step(w[i - 1], rooted[i])
  <2> HIDE DEF rooted
  <2> QED BY <1>3, <1>4, ThroughIs
<1>6. \A i \in 1..n : \A d : Step(d, path[i]) = Append(d, path[i])
  BY <1>1 DEF Plain, Empty, Step
<1>7. Upto(0) = <<>>
  BY SubSeqEmpty
<1>8. \A i \in 0..n : i < n => Upto(i + 1) = Append(Upto(i), path[i + 1])
  <2> SUFFICES ASSUME NEW i \in 0..n, i < n
               PROVE  SubSeq(path, 1, i + 1) = Append(SubSeq(path, 1, i), path[i + 1])
    OBVIOUS
  <2>1. i + 1 \in 1..n /\ \A j \in 1..(i + 1) : path[j] \in Plain
    BY <1>1
  <2>2. /\ SubSeq(path, 1, i + 1) \in Seq(Plain) /\ Len(SubSeq(path, 1, i + 1)) = i + 1
        /\ \A j \in 1..(i + 1) : SubSeq(path, 1, i + 1)[j] = path[j]
    BY <2>1, SubSeqProperties
  <2>3. /\ SubSeq(path, 1, i) \in Seq(Plain) /\ Len(SubSeq(path, 1, i)) = i
        /\ \A j \in 1..i : SubSeq(path, 1, i)[j] = path[j]
    BY <2>1, SubSeqProperties
  <2> DEFINE a == SubSeq(path, 1, i + 1)
             b == SubSeq(path, 1, i)
             c == path[i + 1]
  <2>4. c \in Plain
    BY <2>1
  <2>5. /\ Append(b, c) \in Seq(Plain) /\ Len(Append(b, c)) = i + 1
        /\ \A j \in 1..(i + 1) : Append(b, c)[j] = path[j]
    <3>1. b \in Seq(Plain) /\ Len(b) = i /\ \A j \in 1..i : b[j] = path[j]
      BY <2>3
    <3>2. c = path[i + 1]
      OBVIOUS
    <3> HIDE DEF b, c
    <3> QED BY <2>1, <2>4, <3>1, <3>2, AppendProperties
  <2>6. a \in Seq(Plain) /\ Len(a) = i + 1 /\ \A j \in 1..(i + 1) : a[j] = path[j]
    BY <2>2
  <2> HIDE DEF a, b, c
  <2>7. a = Append(b, c)
    BY <2>5, <2>6, SeqEqual
  <2> QED BY <2>7 DEF a, b, c
<1> HIDE DEF v, w, rooted, Upto
<1>9. 0 \in S
  <2>1. w[1] = Step(w[0], "")
    <3>1. 1 \in 1..(n + 1) /\ 1 - 1 = 0
      BY <1>1
    <3> QED BY <1>4, <1>5, <3>1
  <2>2. w[0 + 1] = w[0]
    BY <2>1 DEF Step
  <2> QED BY <1>1, <1>5, <1>7, <2>2
<1>10. ASSUME NEW i \in 0..n, i \in S, i < n PROVE i + 1 \in S
  <2>1. /\ i + 1 \in 1..n /\ (i + 1) - 1 = i /\ i + 1 \in 0..n
        /\ (i + 1) + 1 \in 1..(n + 1) /\ ((i + 1) + 1) - 1 = i + 1
        /\ v[i] = Upto(i) /\ w[i + 1] = Upto(i)
    BY <1>1, <1>10
  <2>2. v[i + 1] = Step(Upto(i), path[i + 1])
    BY <1>5, <2>1
  <2>3. w[(i + 1) + 1] = Step(Upto(i), path[i + 1])
    BY <1>4, <1>5, <2>1
  <2> QED BY <1>6, <1>8, <1>10, <2>1, <2>2, <2>3
<1>11. 0..n \subseteq S
  <2> HIDE DEF S
  <2> QED BY <1>1, <1>9, <1>10, UpTo
<1>12. v[n] = Upto(n) /\ w[n + 1] = Upto(n)
  BY <1>1, <1>11
<1>13. Upto(n) = path
  BY SubSeqFull DEF Upto
<1> QED BY <1>4, <1>12, <1>13 DEF Clean, v, w, rooted

-----------------------------------------------------------------------------
(* Paths on a machine                                                      *)

(* The directories of a machine are clean.                                 *)
LEMMA RootsPlain ==
    ASSUME NEW m \in Machines
    PROVE  /\ Resolver(m).home \in Seq(Plain) /\ Resolver(m).xdg \in Seq(Plain)
           /\ Resolver(m).work \in Seq(Plain)
<1>1. m.home \in Seq(Component) /\ m.xdg \in Seq(Component) /\ m.work \in Seq(Component)
  BY ManifestAssumption
<1>2. Clean(m.home) \in Seq(Plain) /\ Clean(m.xdg) \in Seq(Plain) /\ Clean(m.work) \in Seq(Plain)
  BY <1>1, CleanPlain
<1>3. Config \in Plain
  BY PathsAssumption DEF Plain, Component, Empty
<1>4. Append(Clean(m.home), Config) \in Seq(Plain)
  BY <1>2, <1>3, AppendProperties
<1> QED BY <1>2, <1>4 DEF Resolver

(* The absolute path that an argument means is clean.                      *)
LEMMA ExpandPlain ==
    ASSUME NEW m \in Machines, NEW a \in Seq(Component) \ {<<>>}
    PROVE  Expand(Resolver(m), a) \in Seq(Plain)
<1> DEFINE r == Resolver(m)
<1>1. Plain \subseteq Component
  BY DEF Plain
<1>2. r.home \in Seq(Component) /\ r.xdg \in Seq(Component) /\ r.work \in Seq(Component)
  BY <1>1, RootsPlain, SeqMonotonic
<1>3. a \in Seq(Component) /\ Tail(a) \in Seq(Component)
  BY HeadTailProperties
<1> HIDE DEF r
<1>4. /\ r.home \o Tail(a) \in Seq(Component) /\ r.xdg \o Tail(a) \in Seq(Component)
      /\ r.work \o a \in Seq(Component)
  BY <1>2, <1>3, ConcatProperties
<1>5. /\ Clean(r.home \o Tail(a)) \in Seq(Plain) /\ Clean(r.xdg \o Tail(a)) \in Seq(Plain)
      /\ Clean(r.work \o a) \in Seq(Plain) /\ Clean(a) \in Seq(Plain)
  BY <1>3, <1>4, CleanPlain
<1> QED BY <1>5 DEF Expand, r

(* What a cleaned path is called under a root, and what that name means.   *)
LEMMA Naming ==
    ASSUME NEW x \in {HomePrefix, XDGPrefix}, NEW root \in Seq(Plain),
           NEW path \in Seq(Plain), IsPrefix(root, path)
    PROVE  LET p == <<x>> \o From(root, path)
           IN /\ p \in Seq(Component) \ {<<>>} /\ p[1] = x
              /\ Len(p) # 1 => path # <<>>
              /\ root \o Tail(p) = path
<1> DEFINE u == From(root, path)
           p == <<x>> \o u
<1>1. u \in Seq(Plain) /\ root \o u = path
  BY FromIs
<1>2. Plain \subseteq Component /\ x \in Component
  BY DEF Plain, Component, HomePrefix, XDGPrefix
<1>3. u \in Seq(Component)
  BY <1>1, <1>2, SeqMonotonic
<1> HIDE DEF u
<1>4. /\ p \in Seq(Component) /\ p # <<>> /\ p[1] = x /\ Tail(p) = u
      /\ Len(p) = Len(u) + 1
  BY <1>2, <1>3, Put
<1>5. ASSUME path = <<>>, Len(p) # 1 PROVE FALSE
  <2>1. Len(path) = 0 /\ Len(root) \in Nat /\ Len(u) \in Nat
    BY <1>1, <1>5, EmptySeq
  <2>2. Len(path) = Len(root) + Len(u)
    BY <1>1, ConcatProperties
  <2> QED BY <1>4, <1>5, <2>1, <2>2
<1> HIDE DEF p
<1>6. p \in Seq(Component) \ {<<>>} /\ p[1] = x /\ (Len(p) # 1 => path # <<>>) /\ root \o Tail(p) = path
  BY <1>1, <1>4, <1>5
<1> QED BY <1>6 DEF p, u

(* An argument's name stands for the path the argument means, and names    *)
(* it again.                                                               *)
Renames(r, p) ==
    Normalize(r, p) = p /\ Normalize(r, <<"">> \o Resolve(r, p)) = p

LEMMA NormalizeAgain ==
    ASSUME NEW m \in Machines, NEW a \in Seq(Component) \ {<<>>},
           Normalize(Resolver(m), a) # Refused
    PROVE  LET p == Normalize(Resolver(m), a)
           IN /\ p \in Seq(Component) /\ (Len(p) # 1 => Renames(Resolver(m), p))
<1> DEFINE r == Resolver(m)
           path == Expand(r, a)
           inXDG == IsPrefix(r.xdg, path)
           root == IF inXDG THEN r.xdg ELSE r.home
           x == IF inXDG THEN XDGPrefix ELSE HomePrefix
           p == Normalize(r, a)
<1>1. r.home \in Seq(Plain) /\ r.xdg \in Seq(Plain) /\ path \in Seq(Plain)
  BY RootsPlain, ExpandPlain
<1>2. p = <<x>> \o From(root, path) /\ IsPrefix(root, path)
  BY DEF Normalize
<1>3. /\ x = XDGPrefix => root = r.xdg /\ IsPrefix(r.xdg, path)
      /\ x = HomePrefix => root = r.home /\ ~IsPrefix(r.xdg, path)
      /\ x \in {HomePrefix, XDGPrefix} /\ root \in Seq(Plain)
  BY <1>1 DEF HomePrefix, XDGPrefix
<1> HIDE DEF r, path, inXDG, root, x, p
<1>4. /\ p \in Seq(Component) \ {<<>>} /\ p[1] = x
      /\ Len(p) # 1 => path # <<>>
      /\ root \o Tail(p) = path
  BY <1>1, <1>2, <1>3, Naming
<1>5. Resolve(r, p) = path
  BY <1>3, <1>4 DEF Resolve, RootOf, HomePrefix, XDGPrefix
<1>6. Clean(path) = path /\ Clean(<<"">> \o path) = path
  BY <1>1, CleanKeeps
(* Whatever means the same path has the same name.                         *)
<1>7. ASSUME NEW b, ~Malformed(b), Expand(r, b) = path
      PROVE  Normalize(r, b) = p
  <2>1. CASE x = XDGPrefix
    BY <1>2, <1>3, <1>7, <2>1 DEF Normalize
  <2>2. CASE x = HomePrefix
    BY <1>2, <1>3, <1>7, <2>2 DEF Normalize
  <2> QED BY <1>3, <2>1, <2>2
<1>8. "~" \notin Name /\ "${XDG_CONFIG_HOME}" \notin Name /\ "" \notin Name /\ Prefixed \subseteq Name
  BY PathsAssumption DEF Empty
<1>9. Normalize(r, p) = p
  <2>1. p # <<"">>
    <3>1. p[1] # ""
      BY <1>3, <1>4 DEF HomePrefix, XDGPrefix
    <3>2. <<"">>[1] = ""
      OBVIOUS
    <3> QED BY <3>1, <3>2, Zenon
  <2>2. ~Malformed(p)
    BY <1>3, <1>4, <1>8, <2>1 DEF Malformed, HomePrefix, XDGPrefix
  <2>3. Expand(r, p) = Clean(root \o Tail(p))
    BY <1>3, <1>4 DEF Expand, HomePrefix, XDGPrefix
  <2> QED BY <1>4, <1>6, <1>7, <2>2, <2>3
<1>10. ASSUME path # <<>> PROVE Normalize(r, <<"">> \o path) = p
  <2> DEFINE b == <<"">> \o path
  <2>1. b[1] = "" /\ Len(b) = Len(path) + 1
    <3>1. "" \in Component /\ Plain \subseteq Component
      BY DEF Component, Empty, Plain
    <3>2. path \in Seq(Component)
      BY <1>1, <3>1, SeqMonotonic
    <3>3. \A c \in Component : (<<c>> \o path)[1] = c /\ Len(<<c>> \o path) = Len(path) + 1
      BY <3>2, Put
    <3> QED BY <3>1, <3>3, Zenon
  <2>2. b # <<"">>
    <3>1. Len(path) \in Nat \ {0}
      BY <1>1, <1>10, EmptySeq
    <3>2. Len(<<"">>) = 1
      OBVIOUS
    <3>3. Len(b) # 1
      BY <2>1, <3>1
    <3> HIDE DEF b
    <3> QED BY <3>2, <3>3, Zenon
  <2>3. Clean(b) = path
    BY <1>6
  <2> HIDE DEF b
  <2>4. ~Malformed(b)
    BY <1>8, <2>1, <2>2 DEF Malformed
  <2>5. Expand(r, b) = path
    BY <2>1, <2>3 DEF Expand, HomePrefix, XDGPrefix
  <2>6. Normalize(r, b) = p
    BY <1>7, <2>4, <2>5
  <2> QED BY <2>6 DEF b
<1>11. p \in Seq(Component) /\ (Len(p) # 1 => Renames(r, p))
  BY <1>4, <1>5, <1>9, <1>10 DEF Renames
<1> QED BY <1>11 DEF p, r

(* Where a logical path leads, through the symbolic link of its root.      *)
LEMMA RootedIsPath ==
    ASSUME machine \in Machines, NEW p \in Seq(Component) \ {<<>>}
    PROVE  Rooted(p) \in Seq(Component)
<1>1. Plain \subseteq Component
  BY DEF Plain
<1> DEFINE root == RootOf(Roots, p)
<1>2. root \in Seq(Component)
  BY <1>1, RootsPlain, SeqMonotonic DEF RootOf, Roots
<1> HIDE DEF root
<1>3. Canonical(machine, root) \in Seq(Component)
  <2> DEFINE on == {link \in DOMAIN machine.links : IsPrefix(link, root)}
             link == CHOOSE l \in on : TRUE
  <2>1. CASE on = {}
    BY <1>2, <2>1 DEF Canonical
  <2>2. CASE on # {}
    <3>1. link \in on
      BY <2>2
    <3>2. /\ link \in Seq(Component) /\ machine.links[link] \in Seq(Component)
          /\ IsPrefix(link, root)
      BY <3>1, ManifestAssumption
    <3>3. Canonical(machine, root) = machine.links[link] \o From(link, root)
      BY <2>2 DEF Canonical
    <3> HIDE DEF on, link
    <3>4. From(link, root) \in Seq(Component)
      BY <1>2, <3>2, FromIs
    <3> QED BY <3>2, <3>3, <3>4, ConcatProperties
  <2> QED BY <2>1, <2>2
<1>4. Tail(p) \in Seq(Component)
  BY HeadTailProperties
<1> QED BY <1>3, <1>4, ConcatProperties DEF Rooted, root

(* Folding keeps what lies inside what.                                    *)
LEMMA FoldedStrictPrefix ==
    ASSUME NEW s \in Seq(Component), NEW t \in Seq(Component), IsStrictPrefix(s, t)
    PROVE  IsStrictPrefix(Folded(s), Folded(t))
<1>1. /\ Len(s) \in Nat /\ Len(t) \in Nat /\ DOMAIN s = 1..Len(s) /\ DOMAIN t = 1..Len(t)
      /\ Len(s) <= Len(t) /\ \A i \in 1..Len(s) : s[i] = t[i]
  BY PrefixIs, LenProperties DEF IsStrictPrefix
<1>2. Len(s) # Len(t)
  <2>1. s # t
    BY DEF IsStrictPrefix
  <2> QED BY <1>1, <2>1, SeqEqual
<1> DEFINE F == {Fold(c) : c \in Component}
           u == Folded(s)
           v == Folded(t)
<1>3. u \in Seq(F) /\ Len(u) = Len(s) /\ \A i \in 1..Len(s) : u[i] = Fold(s[i])
  <2>1. u = [i \in 1..Len(s) |-> Fold(s[i])]
    BY <1>1 DEF Folded
  <2>2. \A i \in 1..Len(s) : Fold(s[i]) \in F
    BY ElementOfSeq
  <2> HIDE DEF F, u
  <2> QED BY <1>1, <2>1, <2>2, SeqDef
<1>4. v \in Seq(F) /\ Len(v) = Len(t) /\ \A i \in 1..Len(t) : v[i] = Fold(t[i])
  <2>1. v = [i \in 1..Len(t) |-> Fold(t[i])]
    BY <1>1 DEF Folded
  <2>2. \A i \in 1..Len(t) : Fold(t[i]) \in F
    BY ElementOfSeq
  <2> HIDE DEF F, v
  <2> QED BY <1>1, <2>1, <2>2, SeqDef
<1> HIDE DEF F, u, v
<1>5. \A i \in 1..Len(u) : u[i] = v[i]
  BY <1>1, <1>3, <1>4
<1>6. IsPrefix(u, v)
  BY <1>1, <1>3, <1>4, <1>5, PrefixIs
<1>7. u # v
  BY <1>2, <1>3, <1>4
<1> QED BY <1>6, <1>7 DEF IsStrictPrefix, u, v

-----------------------------------------------------------------------------
(* The inductive invariant                                                 *)

Machinery == machine \in Machines /\ Configured(machine)

(* A manifest is crypto metadata or none, and entries Load accepts.        *)
Stored ==
    /\ manifest = [crypto |-> manifest.crypto, entries |-> manifest.entries]
    /\ manifest.crypto \in BOOLEAN
    /\ \A e \in manifest.entries : e.path \in Seq(Component)
    /\ Validate(manifest)

(* What is in hand on this machine speaks about the manifest.              *)
InHand ==
    /\ here \subseteq Paths(manifest.entries)
    /\ restored # NothingRestored =>
        /\ DOMAIN restored = {Place(p) : p \in Paths(manifest.entries)}
        /\ \A place \in DOMAIN restored : restored[place] \in Paths(manifest.entries)

ManifestInv == Machinery /\ Stored /\ InHand /\ NamedAsAdded /\ RestoresEverything

(* An entry's path is longer than its root.                                *)
LEMMA EntryPath ==
    ASSUME NEW es, \A e \in es : e.path \in Seq(Component) /\ ValidEntry(e), NEW p \in Paths(es)
    PROVE  p \in Seq(Component) \ {<<>>} /\ Len(p) # 1
<1>1. PICK e \in es : e.path = p
  BY DEF Paths
<1>2. SourceFor(p, e.sensitive) # Refused
  BY <1>1 DEF ValidEntry
<1>3. LogicalRelative(p) # Refused
  BY <1>2 DEF SourceFor
<1>4. IsLogical(p) /\ Len(p) # 1
  BY <1>3 DEF LogicalRelative
<1>5. p # <<>>
  <2>1. Len(p) > 0
    BY <1>4 DEF IsLogical
  <2> QED BY <2>1, EmptySeq
<1> QED BY <1>1, <1>4, <1>5

(* What an accepted addition did.                                          *)
Added(new, as, sensitive) ==
    /\ \A p \in new : \E a \in as : p = Normalize(Roots, a) /\ IsLogical(p)
    /\ \A p \in new : Owners(p) = {}
    /\ Distinct(new)
    /\ manifest' = [crypto |-> manifest'.crypto, entries |-> manifest'.entries]
    /\ manifest'.crypto \in BOOLEAN
    /\ manifest'.entries = manifest.entries \cup Entries(new, sensitive)
    /\ Paths(manifest'.entries) = Paths(manifest.entries) \cup new
    /\ here' = here \cup new

LEMMA AddIs ==
    ASSUME NEW as \in Commands, NEW sensitive \in BOOLEAN, Add(as, sensitive)
    PROVE  \E new : Added(new, as, sensitive)
<1> DEFINE paths == Candidates(as)
           new == NewPaths(paths)
           crypto == manifest.crypto \/ (sensitive /\ new # {})
           entries == manifest.entries \cup Entries(new, sensitive)
<1>1. /\ \A a \in as : IsLogical(Normalize(Roots, a))
      /\ Acceptable(paths)
      /\ manifest' = [crypto |-> crypto, entries |-> entries]
      /\ here' = here \cup new
  BY DEF Add
<1>2. \A p \in new : \E a \in as : p = Normalize(Roots, a) /\ IsLogical(p)
  BY <1>1 DEF NewPaths, Candidates
<1>3. \A p \in new : Owners(p) = {}
  BY DEF NewPaths
<1>4. Distinct(new)
  BY <1>1 DEF Acceptable
<1>5. crypto \in BOOLEAN
  OBVIOUS
<1> HIDE DEF new
<1>6. Paths(entries) = Paths(manifest.entries) \cup new
  <2>1. Paths(Entries(new, sensitive)) = new
    <3>1. ASSUME NEW p \in new PROVE \E e \in Entries(new, sensitive) : e.path = p
      <4> DEFINE e == [path |-> p, source |-> SourceFor(p, sensitive), sensitive |-> sensitive]
      <4>1. e \in Entries(new, sensitive) /\ e.path = p
        BY DEF Entries
      <4> QED BY <4>1
    <3>2. \A e \in Entries(new, sensitive) : e.path \in new
      BY DEF Entries
    <3> QED BY <3>1, <3>2 DEF Paths
  <2>2. Paths(entries) = Paths(manifest.entries) \cup Paths(Entries(new, sensitive))
    BY DEF Paths
  <2> QED BY <2>1, <2>2
<1> HIDE DEF crypto, entries
<1>7. manifest'.crypto = crypto /\ manifest'.entries = entries
  BY <1>1
<1>8. entries = manifest.entries \cup Entries(new, sensitive)
  BY DEF entries
<1>9. Added(new, as, sensitive)
  BY <1>1, <1>2, <1>3, <1>4, <1>5, <1>6, <1>7, <1>8 DEF Added
<1> QED BY <1>9

(* What a removal did.                                                     *)
LEMMA RmIs ==
    ASSUME Stored, NEW as \in Commands, Rm(as)
    PROVE  \E requested :
             /\ manifest' = [crypto |-> manifest'.crypto, entries |-> manifest'.entries]
             /\ manifest'.crypto \in BOOLEAN
             /\ manifest'.entries \subseteq manifest.entries
             /\ Paths(manifest'.entries) = Paths(manifest.entries) \ requested
             /\ here' = here \ requested
<1> DEFINE requested == {Normalize(Roots, a) : a \in as}
<1>1. /\ manifest' = [manifest EXCEPT !.entries = {e \in @ : e.path \notin requested}]
      /\ here' = here \ requested
  BY DEF Rm
<1> HIDE DEF requested
<1>2. manifest' = [crypto |-> manifest.crypto,
                   entries |-> {e \in manifest.entries : e.path \notin requested}]
  BY <1>1 DEF Stored
<1>3. /\ manifest'.crypto = manifest.crypto
      /\ manifest'.entries = {e \in manifest.entries : e.path \notin requested}
  BY <1>2
<1>4. Paths(manifest'.entries) = Paths(manifest.entries) \ requested
  BY <1>3 DEF Paths
<1>5. manifest'.crypto \in BOOLEAN /\ manifest'.entries \subseteq manifest.entries
  BY <1>3 DEF Stored
<1>6. manifest' = [crypto |-> manifest'.crypto, entries |-> manifest'.entries]
  BY <1>2, <1>3
<1> QED BY <1>1, <1>4, <1>5, <1>6

-----------------------------------------------------------------------------
(* Each step keeps the invariant                                           *)

LEMMA InitKeeps == Init => ManifestInv
<1> SUFFICES ASSUME Init PROVE ManifestInv
  OBVIOUS
<1>1. /\ manifest = [crypto |-> FALSE, entries |-> {}] /\ here = {}
      /\ restored = NothingRestored
  BY DEF Init
<1>2. Machinery
  BY DEF Init, Machinery
<1>3. manifest.crypto = FALSE /\ manifest.entries = {}
  BY <1>1
<1>4. Paths({}) = {} /\ Sources({}) = {}
  BY DEF Paths, Sources
<1>5. Validate(manifest)
  BY <1>3, <1>4 DEF Validate, AncestorConflict
<1>6. Stored
  BY <1>1, <1>3, <1>5 DEF Stored
<1>7. InHand /\ NamedAsAdded
  BY <1>1 DEF InHand, NamedAsAdded
<1>8. RestoresEverything
  BY <1>1 DEF RestoresEverything
<1> QED BY <1>2, <1>6, <1>7, <1>8 DEF ManifestInv

(* A new path is named on this machine as it was added.                    *)
LEMMA AddKeeps ==
    ASSUME ManifestInv, NEW as \in Commands, NEW sensitive \in BOOLEAN, Add(as, sensitive)
    PROVE  ManifestInv'
<1>1. PICK new : Added(new, as, sensitive)
  BY AddIs
<1>2. machine' = machine /\ restored' = NothingRestored /\ Validate(manifest')
  BY DEF Add
<1>3. Machinery /\ Stored /\ InHand /\ NamedAsAdded
  BY DEF ManifestInv
<1>4. Machinery'
  BY <1>2, <1>3 DEF Machinery
<1>5. \A p \in new : p \in Seq(Component) /\ (Len(p) # 1 => Renames(Roots, p))
  <2> SUFFICES ASSUME NEW p \in new
               PROVE  p \in Seq(Component) /\ (Len(p) # 1 => Renames(Roots, p))
    OBVIOUS
  <2>1. PICK a \in as : p = Normalize(Roots, a) /\ IsLogical(p)
    BY <1>1 DEF Added
  <2>2. a \in Seq(Component) \ {<<>>} /\ machine \in Machines
    BY <1>3, ManifestAssumption DEF Machinery
  <2>3. p # Refused
    <3>1. Len(p) > 0
      BY <2>1 DEF IsLogical
    <3> QED BY <3>1, EmptySeq DEF Refused
  <2> QED BY <2>1, <2>2, <2>3, NormalizeAgain DEF Roots
<1>6. Stored'
  <2>1. \A e \in manifest'.entries : e.path \in Seq(Component)
    BY <1>1, <1>3, <1>5 DEF Added, Stored, Entries
  <2> QED BY <1>1, <1>2, <2>1 DEF Added, Stored
<1>7. InHand'
  BY <1>1, <1>2, <1>3 DEF Added, InHand
<1>8. NamedAsAdded'
  <2>1. Roots' = Roots /\ \A p : Destination(p)' = Resolve(Roots, p)
    BY <1>2 DEF Roots, Destination
  <2>2. \A p \in here : Renames(Roots, p)
    BY <1>3 DEF NamedAsAdded, Renames, Destination
  <2>3. \A p \in new : Renames(Roots, p)
    <3> SUFFICES ASSUME NEW p \in new PROVE Renames(Roots, p)
      OBVIOUS
    <3>1. p \in Paths(manifest.entries)'
      BY <1>1 DEF Added
    <3>2. \A e \in manifest'.entries : e.path \in Seq(Component) /\ ValidEntry(e)
      BY <1>6 DEF Stored, Validate
    <3>3. Len(p) # 1
      BY <3>1, <3>2, EntryPath
    <3> QED BY <1>5, <3>3
  <2>4. \A p \in here' : Renames(Roots, p)
    BY <1>1, <2>2, <2>3 DEF Added
  <2> QED BY <2>1, <2>4 DEF NamedAsAdded, Renames
<1>9. RestoresEverything'
  BY <1>2 DEF RestoresEverything
<1> QED BY <1>4, <1>6, <1>7, <1>8, <1>9 DEF ManifestInv

(* Distinct keys are distinct places, and keys keep what lies inside what. *)
LEMMA ApplyKeeps == ManifestInv /\ Apply => ManifestInv'
<1> SUFFICES ASSUME ManifestInv, Apply PROVE ManifestInv'
  OBVIOUS
<1> DEFINE paths == Paths(manifest.entries)
           places == {Place(p) : p \in paths}
<1>1. /\ Safe(paths) /\ restored' \in [places -> paths]
      /\ \A place \in places : Place(restored'[place]) = place
      /\ machine' = machine /\ manifest' = manifest /\ here' = here
  BY DEF Apply
<1>2. Machinery /\ Stored /\ InHand /\ NamedAsAdded
  BY DEF ManifestInv
<1>3. /\ machine.platform \in {"linux", "darwin"} /\ machine.insensitive \in BOOLEAN
      /\ machine.insensitive => machine.platform = "darwin"
  BY <1>2, ManifestAssumption DEF Machinery
<1>4. \A p \in paths : Rooted(p) \in Seq(Component)
  <2>1. \A e \in manifest.entries : e.path \in Seq(Component) /\ ValidEntry(e)
    BY <1>2 DEF Stored, Validate
  <2>2. \A p \in paths : p \in Seq(Component) \ {<<>>}
    BY <2>1, EntryPath
  <2> QED BY <1>2, <2>2, RootedIsPath DEF Machinery
<1>5. \A p, q \in paths : Place(p) = Place(q) => p = q
  <2> SUFFICES ASSUME NEW p \in paths, NEW q \in paths, Place(p) = Place(q) PROVE p = q
    OBVIOUS
  <2>1. Key(p) = Key(q)
    BY <1>3 DEF Key, ComparisonKey, Place
  <2> QED BY <1>1, <2>1 DEF Safe
<1>6. Separate(places)
  <2> SUFFICES ASSUME NEW p \in paths, NEW q \in paths, IsStrictPrefix(Place(p), Place(q))
               PROVE  FALSE
    BY DEF Separate
  <2>1. IsStrictPrefix(Key(p), Key(q))
    <3>1. CASE machine.insensitive
      BY <1>3, <3>1 DEF Key, ComparisonKey, Place
    <3>2. CASE ~machine.insensitive /\ machine.platform # "darwin"
      BY <3>2 DEF Key, ComparisonKey, Place
    <3>3. CASE ~machine.insensitive /\ machine.platform = "darwin"
      <4>1. IsStrictPrefix(Rooted(p), Rooted(q))
        BY <3>3 DEF Place
      <4>2. IsStrictPrefix(Folded(Rooted(p)), Folded(Rooted(q)))
        BY <1>4, <4>1, FoldedStrictPrefix
      <4> QED BY <3>3, <4>2 DEF Key, ComparisonKey
    <3> QED BY <3>1, <3>2, <3>3
  <2>2. Separate({Key(r) : r \in paths})
    BY <1>1 DEF Safe
  <2> QED BY <2>1, <2>2 DEF Separate
<1>7. \A p : Place(p)' = Place(p)
  BY <1>1 DEF Place, Rooted, Roots
<1>8. Machinery' /\ Stored'
  BY <1>1, <1>2 DEF Machinery, Stored
<1>9. DOMAIN restored' = places /\ \A place \in places : restored'[place] \in paths
  BY <1>1
<1>10. InHand'
  <2>1. {Place(p)' : p \in paths} = places
    BY <1>7
  <2>2. paths' = paths
    BY <1>1
  <2> HIDE DEF paths
  <2> QED BY <1>1, <1>2, <1>9, <2>1, <2>2 DEF InHand, paths
<1>11. NamedAsAdded'
  BY <1>1, <1>2 DEF NamedAsAdded, Destination, Roots
<1>12. RestoresEverything'
  <2>1. \A p \in paths : restored'[Place(p)] = p
    <3> SUFFICES ASSUME NEW p \in paths PROVE restored'[Place(p)] = p
      OBVIOUS
    <3>1. Place(p) \in places /\ restored'[Place(p)] \in paths
      BY <1>9
    <3>2. Place(restored'[Place(p)]) = Place(p)
      BY <1>1, <3>1
    <3> QED BY <1>5, <3>1, <3>2
  <2> QED BY <1>1, <1>6, <1>7, <1>9, <2>1 DEF RestoresEverything
<1> QED BY <1>2, <1>8, <1>10, <1>11, <1>12 DEF ManifestInv

LEMMA NextKeeps == ManifestInv /\ [Next]_vars => ManifestInv'
<1> SUFFICES ASSUME ManifestInv, [Next]_vars PROVE ManifestInv'
  OBVIOUS
<1>1. Machinery /\ Stored /\ InHand /\ NamedAsAdded /\ RestoresEverything
  BY DEF ManifestInv
<1>2. ASSUME NEW as \in Commands, NEW sensitive \in BOOLEAN, Add(as, sensitive)
      PROVE  ManifestInv'
  BY <1>2, AddKeeps
<1>3. ASSUME NEW as \in Commands, Rm(as) PROVE ManifestInv'
  <2>1. PICK requested :
          /\ manifest' = [crypto |-> manifest'.crypto, entries |-> manifest'.entries]
          /\ manifest'.crypto \in BOOLEAN
          /\ manifest'.entries \subseteq manifest.entries
          /\ Paths(manifest'.entries) = Paths(manifest.entries) \ requested
          /\ here' = here \ requested
    BY <1>1, <1>3, RmIs
  <2>2. machine' = machine /\ restored' = NothingRestored /\ Validate(manifest')
    BY <1>3 DEF Rm
  <2>3. Machinery' /\ Stored'
    BY <1>1, <2>1, <2>2 DEF Machinery, Stored
  <2>4. InHand'
    BY <1>1, <2>1, <2>2 DEF InHand
  <2>5. NamedAsAdded'
    BY <1>1, <2>1, <2>2 DEF NamedAsAdded, Destination, Roots
  <2>6. RestoresEverything'
    BY <2>2 DEF RestoresEverything
  <2> QED BY <2>3, <2>4, <2>5, <2>6 DEF ManifestInv
<1>4. CASE Apply
  BY <1>4, ApplyKeeps
<1>5. ASSUME NEW m \in Pulled, Pull(m) PROVE ManifestInv'
  <2>1. /\ Validate(m) /\ manifest' = m /\ here' = {} /\ restored' = NothingRestored
        /\ machine' = machine
    BY <1>5 DEF Pull
  <2>2. Machinery'
    BY <1>1, <2>1 DEF Machinery
  <2>3. Stored'
    <3>1. /\ m = [crypto |-> m.crypto, entries |-> m.entries] /\ m.crypto \in BOOLEAN
          /\ \A e \in m.entries : e.path \in Seq(Component)
      BY ManifestAssumption
    <3> QED BY <2>1, <3>1 DEF Stored
  <2>4. InHand' /\ NamedAsAdded' /\ RestoresEverything'
    BY <2>1 DEF InHand, NamedAsAdded, RestoresEverything
  <2> QED BY <2>2, <2>3, <2>4 DEF ManifestInv
<1>6. ASSUME NEW m \in Machines, Move(m) PROVE ManifestInv'
  <2>1. /\ Configured(m) /\ machine' = m /\ here' = {} /\ restored' = NothingRestored
        /\ manifest' = manifest
    BY <1>6 DEF Move
  <2>2. Machinery' /\ Stored'
    BY <1>1, <2>1 DEF Machinery, Stored
  <2>3. InHand' /\ NamedAsAdded' /\ RestoresEverything'
    BY <2>1 DEF InHand, NamedAsAdded, RestoresEverything
  <2> QED BY <2>2, <2>3 DEF ManifestInv
<1>7. CASE UNCHANGED vars
  <2>1. machine' = machine /\ manifest' = manifest /\ here' = here /\ restored' = restored
    BY <1>7 DEF vars
  <2>2. \A p : Place(p)' = Place(p)
    BY <2>1 DEF Place, Rooted, Roots
  <2>3. Machinery' /\ Stored' /\ NamedAsAdded'
    BY <1>1, <2>1 DEF Machinery, Stored, NamedAsAdded, Destination, Roots
  <2>4. InHand'
    BY <1>1, <2>1, <2>2 DEF InHand
  <2>5. RestoresEverything'
    BY <1>1, <2>1, <2>2 DEF RestoresEverything
  <2> QED BY <2>3, <2>4, <2>5 DEF ManifestInv
<1> QED BY <1>2, <1>3, <1>4, <1>5, <1>6, <1>7 DEF Next

LEMMA Invariant == Spec => []ManifestInv
BY InitKeeps, NextKeeps, PTL DEF Spec

-----------------------------------------------------------------------------
(* Theorems                                                                *)

(* What is stored is what Load accepts, and what is in hand on a machine   *)
(* speaks about it.                                                        *)
THEOREM TypesCorrect == Spec => []TypeOK
<1>1. ManifestInv => TypeOK
  BY DEF ManifestInv, Machinery, Stored, InHand, TypeOK
<1> QED BY <1>1, Invariant, PTL

(* The sources of a manifest are files of one tree: Validate compares them *)
(* with each other, and nothing changes a manifest without it.             *)
THEOREM OneTree == Spec => []SourcesFormATree
<1>1. ManifestInv => SourcesFormATree
  <2> SUFFICES ASSUME Validate(manifest) PROVE SourcesFormATree
    BY DEF ManifestInv, Stored
  <2> QED BY DEF Validate, AncestorConflict, SourcesFormATree, Separate
<1> QED BY <1>1, Invariant, PTL

(* A successful apply leaves every entry at its own place: the comparison  *)
(* of apply is at least as strict as the file system.                      *)
THEOREM EachAtItsPlace == Spec => []RestoresEverything
<1>1. ManifestInv => RestoresEverything
  BY DEF ManifestInv
<1> QED BY <1>1, Invariant, PTL

(* What was added on a machine is found there under its name and under the *)
(* path it is restored to.                                                 *)
THEOREM FoundAgain == Spec => []NamedAsAdded
<1>1. ManifestInv => NamedAsAdded
  BY DEF ManifestInv
<1> QED BY <1>1, Invariant, PTL

(* No addition gives a file a second owner.                                *)
THEOREM OneOwner == Spec => AddKeepsOwners
<1> DEFINE Kept == machine' = machine /\ here' # {} /\ Distinct(Paths(manifest.entries))
                      => Distinct(Paths(manifest'.entries))
<1>1. ManifestInv /\ [Next]_vars => [Kept]_vars
  <2> SUFFICES ASSUME ManifestInv, Next, here' # {}, Distinct(Paths(manifest.entries))
               PROVE  Distinct(Paths(manifest'.entries))
    OBVIOUS
  <2>1. ASSUME NEW as \in Commands, NEW sensitive \in BOOLEAN, Add(as, sensitive)
        PROVE  Distinct(Paths(manifest'.entries))
    <3>1. PICK new : Added(new, as, sensitive)
      BY <2>1, AddIs
    <3>2. \A p \in new : \A q \in Paths(manifest.entries) : Place(q) # Place(p)
      BY <3>1 DEF Added, Owners
    <3> QED BY <3>1, <3>2 DEF Added, Distinct
  <2>2. ASSUME NEW as \in Commands, Rm(as) PROVE Distinct(Paths(manifest'.entries))
    <3>1. PICK requested : Paths(manifest'.entries) = Paths(manifest.entries) \ requested
      <4>1. Stored
        BY DEF ManifestInv
      <4> QED BY <2>2, <4>1, RmIs
    <3> QED BY <3>1 DEF Distinct
  <2>3. CASE Apply
    BY <2>3 DEF Apply
  <2>4. ASSUME NEW m, Pull(m) \/ Move(m) PROVE FALSE
    BY <2>4 DEF Pull, Move
  <2> QED BY <2>1, <2>2, <2>3, <2>4 DEF Next
<1> QED BY <1>1, Invariant, PTL DEF Spec, AddKeepsOwners

=============================================================================
