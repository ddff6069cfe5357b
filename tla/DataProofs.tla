---------------------------- MODULE DataProofs ----------------------------
(***************************************************************************)
(* What the operators on data return, for every input: recursion, parts of *)
(* a sequence and what is kept of it (SeqFilter), the windows of a cell    *)
(* (MaCell), the intersection of domains (DomainOps).  The library's       *)
(* induction theorems take an operator as a parameter, which no prover     *)
(* here instantiates, so induction is derived for sets: a property is the  *)
(* set that has it.                                                        *)
(***************************************************************************)
EXTENDS MaCell, DomainOps, SeqFilter, SequenceTheorems, WellFoundedInduction, TLAPS

-----------------------------------------------------------------------------
(* Induction and recursion.                                                *)

\* A non-empty set of naturals has a least element.
LEMMA LeastNatural ==
  ASSUME NEW T, T \subseteq Nat, T # {}
  PROVE  \E m \in T : \A k \in T : m <= k
<1>1. PICK m \in T : \A k \in T : <<k, m>> \notin OpToRel(<, Nat)
  BY NatLessThanWellFounded, WFMin
<1>2. \A k \in T : ~(k < m)
  BY <1>1 DEF OpToRel
<1>. QED BY <1>2

\* Induction over the naturals, with a set for the property.
LEMMA Induction ==
  ASSUME NEW T, 0 \in T, \A n \in Nat : n \in T => n + 1 \in T
  PROVE  Nat \subseteq T
<1>. SUFFICES ASSUME Nat \ T # {} PROVE FALSE
  OBVIOUS
<1>1. PICK m \in Nat \ T : \A k \in Nat \ T : m <= k
  BY LeastNatural
<1>2. m - 1 \in Nat /\ m - 1 \in T
  BY <1>1
<1>3. m - 1 + 1 \in T
  BY <1>2
<1>. QED BY <1>1, <1>3

\* A recursion to n, and what it says: the value at 0 and every step.
Recursion(x, F, n, f) == f = [i \in 0 .. n |-> IF i = 0 THEN x ELSE F[i][f[i - 1]]]

LEMMA RecursionSteps ==
  ASSUME NEW x, NEW F, NEW n \in Nat, NEW f, Recursion(x, F, n, f)
  PROVE  /\ f[0] = x
         /\ \A i \in 1 .. n : f[i] = F[i][f[i - 1]]
<1>. DEFINE h == [i \in 0 .. n |-> IF i = 0 THEN x ELSE F[i][f[i - 1]]]
<1>1. h[0] = x
  OBVIOUS
<1>2. ASSUME NEW i \in 1 .. n PROVE h[i] = F[i][f[i - 1]]
  <2>1. i \in 0 .. n /\ i # 0
    OBVIOUS
  <2>. QED BY <2>1
<1>3. f = h
  BY DEF Recursion
<1>. HIDE DEF h
<1>. QED BY <1>1, <1>2, <1>3

\* Every recursion to n has a function.
LEMMA RecursionExists ==
  ASSUME NEW x, NEW F
  PROVE  \A n \in Nat : \E f : Recursion(x, F, n, f)
<1>. DEFINE P == {n \in Nat : \E f : Recursion(x, F, n, f)}
<1>1. 0 \in P
  <2>1. Recursion(x, F, 0, [i \in 0 .. 0 |-> x])
    BY DEF Recursion
  <2>. QED BY <2>1
<1>2. ASSUME NEW n \in Nat, n \in P PROVE n + 1 \in P
  <2>1. PICK f : Recursion(x, F, n, f)
    BY <1>2
  <2>. DEFINE g == [i \in 0 .. n + 1 |-> IF i = n + 1 THEN F[n + 1][f[n]] ELSE f[i]]
              h == [i \in 0 .. n + 1 |-> IF i = 0 THEN x ELSE F[i][g[i - 1]]]
  <2>2. f[0] = x /\ \A i \in 1 .. n : f[i] = F[i][f[i - 1]]
    BY <2>1, RecursionSteps
  <2>3. ASSUME NEW i \in 0 .. n + 1 PROVE g[i] = h[i]
    <3>1. CASE i = 0
      BY <2>2, <3>1
    <3>2. CASE i \in 1 .. n
      <4>1. g[i] = f[i] /\ g[i - 1] = f[i - 1] /\ i # 0
        BY <3>2
      <4>2. h[i] = F[i][f[i - 1]]
        BY <3>2, <4>1
      <4>. HIDE DEF g, h
      <4>. QED BY <2>2, <3>2, <4>1, <4>2
    <3>3. CASE i = n + 1
      <4>1. g[i] = F[n + 1][f[n]] /\ g[i - 1] = f[n] /\ i # 0
        BY <3>3
      <4>2. h[i] = F[i][g[i - 1]]
        <5>. HIDE DEF g
        <5>. QED BY <4>1
      <4>. HIDE DEF g, h
      <4>. QED BY <3>3, <4>1, <4>2
    <3>. QED BY <3>1, <3>2, <3>3
  <2>4. g = h
    <3>1. DOMAIN g = DOMAIN h
      OBVIOUS
    <3>. QED BY <2>3
  <2>5. Recursion(x, F, n + 1, g)
    BY <2>4 DEF Recursion
  <2>. QED BY <2>5
<1>. HIDE DEF P
<1>3. Nat \subseteq P
  BY <1>1, <1>2, Induction
<1>. QED BY <1>3 DEF P

\* What is true before and after each step, V[i] after step i, is true all along.
LEMMA RecursionInvariant ==
  ASSUME NEW x, NEW F, NEW n \in Nat, NEW f, Recursion(x, F, n, f),
         NEW V, x \in V[0], \A i \in 1 .. n : \A v \in V[i - 1] : F[i][v] \in V[i]
  PROVE  \A i \in 0 .. n : f[i] \in V[i]
<1>. DEFINE P == {k \in Nat : k <= n => f[k] \in V[k]}
<1>0. f[0] = x /\ \A i \in 1 .. n : f[i] = F[i][f[i - 1]]
  BY RecursionSteps
<1>1. 0 \in P
  BY <1>0
<1>2. ASSUME NEW k \in Nat, k \in P PROVE k + 1 \in P
  <2>. SUFFICES ASSUME k + 1 <= n PROVE f[k + 1] \in V[k + 1]
    OBVIOUS
  <2>1. k + 1 \in 1 .. n /\ f[k] \in V[k] /\ k + 1 - 1 = k
    BY <1>2
  <2>. QED BY <1>0, <2>1
<1>. HIDE DEF P
<1>3. Nat \subseteq P
  BY <1>1, <1>2, Induction
<1>. QED BY <1>3 DEF P

\* The recursion stays where it should be, step by step.
Within(x, F, n, V) == x \in V[0] /\ \A i \in 1 .. n : \A v \in V[i - 1] : F[i][v] \in V[i]

\* There is a function with the steps, and its values are where they should be.
RecursionWithin(x, F, n, V, f) ==
  /\ f = [i \in 0 .. n |-> f[i]]
  /\ f[0] = x /\ \A i \in 1 .. n : f[i] = F[i][f[i - 1]]
  /\ \A i \in 0 .. n : f[i] \in V[i]

LEMMA RecursionIsWithin ==
  ASSUME NEW x, NEW F, NEW n \in Nat, NEW f, Recursion(x, F, n, f), NEW V, Within(x, F, n, V)
  PROVE  RecursionWithin(x, F, n, V, f)
<1>1. f[0] = x /\ \A i \in 1 .. n : f[i] = F[i][f[i - 1]]
  BY RecursionSteps
<1>2. \A i \in 0 .. n : f[i] \in V[i]
  BY RecursionInvariant DEF Within
<1>3. f = [i \in 0 .. n |-> f[i]]
  BY DEF Recursion
<1>. QED BY <1>1, <1>2, <1>3 DEF RecursionWithin

LEMMA RecursionChosen ==
  ASSUME NEW x, NEW F, NEW n \in Nat, NEW V, Within(x, F, n, V)
  PROVE  \E f : RecursionWithin(x, F, n, V, f)
BY RecursionExists, RecursionIsWithin

\* The same for any function with the steps, whatever its domain.
LEMMA StepsInvariant ==
  ASSUME NEW n \in Nat, NEW c, NEW V, c[0] \in V[0],
         \A i \in 1 .. n : c[i - 1] \in V[i - 1] => c[i] \in V[i]
  PROVE  \A i \in 0 .. n : c[i] \in V[i]
<1>. DEFINE P == {k \in Nat : k <= n => c[k] \in V[k]}
<1>1. 0 \in P
  OBVIOUS
<1>2. ASSUME NEW k \in Nat, k \in P PROVE k + 1 \in P
  <2>. SUFFICES ASSUME k + 1 <= n PROVE c[k + 1] \in V[k + 1]
    OBVIOUS
  <2>1. k + 1 \in 1 .. n /\ c[k] \in V[k] /\ k + 1 - 1 = k
    BY <1>2
  <2>. QED BY <2>1
<1>. HIDE DEF P
<1>3. Nat \subseteq P
  BY <1>1, <1>2, Induction
<1>. QED BY <1>3 DEF P

-----------------------------------------------------------------------------
(* Sequences.                                                               *)

\* Sequences end to end.
LEMMA Concatenated ==
  ASSUME NEW S, NEW s \in Seq(S), NEW t \in Seq(S)
  PROVE  /\ s \o t \in Seq(S) /\ Len(s \o t) = Len(s) + Len(t)
         /\ \A i \in 1 .. Len(s) : (s \o t)[i] = s[i]
         /\ \A i \in 1 .. Len(t) : (s \o t)[Len(s) + i] = t[i]
OBVIOUS

\* Part of a sequence.
LEMMA Part ==
  ASSUME NEW S, NEW s \in Seq(S), NEW i \in 1 .. Len(s) + 1, NEW j \in Nat, i <= j + 1, j <= Len(s)
  PROVE  /\ SubSeq(s, i, j) \in Seq(S) /\ Len(SubSeq(s, i, j)) = j - i + 1
         /\ \A k \in 1 .. j - i + 1 : SubSeq(s, i, j)[k] = s[i + k - 1]
OBVIOUS

\* Sequences that agree everywhere are the same.
LEMMA SameSeq ==
  ASSUME NEW S, NEW s \in Seq(S), NEW t \in Seq(S), Len(s) = Len(t),
         \A k \in 1 .. Len(s) : s[k] = t[k]
  PROVE  s = t
OBVIOUS

\* A sequence is one over whatever set has its members.
LEMMA SeqOfMembers ==
  ASSUME NEW X, NEW Y, NEW s \in Seq(X), ToSet(s) \subseteq Y
  PROVE  s \in Seq(Y)
<1>1. \A k \in 1 .. Len(s) : s[k] \in Y
  BY DEF ToSet
<1>. QED BY <1>1

\* Two sequences, one after the other.
LEMMA ConcatMembers ==
  ASSUME NEW S, NEW v \in Seq(S), NEW t \in Seq(S)
  PROVE  v \o t \in Seq(S) /\ ToSet(v \o t) = ToSet(v) \cup ToSet(t)
<1>1. /\ v \o t \in Seq(S) /\ Len(v \o t) = Len(v) + Len(t)
      /\ \A i \in 1 .. Len(v) : (v \o t)[i] = v[i]
      /\ \A i \in 1 .. Len(t) : (v \o t)[Len(v) + i] = t[i]
  BY Concatenated
<1>2. Len(v) \in Nat /\ Len(t) \in Nat /\ DOMAIN v = 1 .. Len(v) /\ DOMAIN t = 1 .. Len(t)
      /\ DOMAIN (v \o t) = 1 .. Len(v \o t)
  BY <1>1
<1>3. ToSet(v \o t) \subseteq ToSet(v) \cup ToSet(t)
  <2>. SUFFICES ASSUME NEW i \in 1 .. Len(v \o t)
                PROVE  (v \o t)[i] \in ToSet(v) \cup ToSet(t)
    BY <1>2 DEF ToSet
  <2>1. CASE i <= Len(v)
    <3>1. i \in 1 .. Len(v)
      BY <2>1, <1>2
    <3>. QED BY <3>1, <1>1, <1>2 DEF ToSet
  <2>2. CASE i > Len(v)
    <3>1. i - Len(v) \in 1 .. Len(t) /\ i = Len(v) + (i - Len(v))
      BY <2>2, <1>1, <1>2
    <3>2. (v \o t)[i] = t[i - Len(v)]
      BY <3>1, <1>1
    <3>. QED BY <3>1, <3>2, <1>2 DEF ToSet
  <2>. QED BY <2>1, <2>2, <1>1, <1>2
<1>4. \A i \in 1 .. Len(v) : v[i] \in ToSet(v \o t)
  <2>. SUFFICES ASSUME NEW i \in 1 .. Len(v) PROVE v[i] \in ToSet(v \o t)
    OBVIOUS
  <2>1. i \in 1 .. Len(v \o t)
    BY <1>1, <1>2
  <2>2. (v \o t)[i] = v[i]
    BY <1>1
  <2>. QED BY <2>1, <2>2, <1>2 DEF ToSet
<1>5. \A i \in 1 .. Len(t) : t[i] \in ToSet(v \o t)
  <2>. SUFFICES ASSUME NEW i \in 1 .. Len(t) PROVE t[i] \in ToSet(v \o t)
    OBVIOUS
  <2>1. Len(v) + i \in 1 .. Len(v \o t)
    BY <1>1, <1>2
  <2>2. (v \o t)[Len(v) + i] = t[i]
    BY <1>1
  <2>. QED BY <2>1, <2>2, <1>2 DEF ToSet
<1>6. ToSet(v) \subseteq ToSet(v \o t) /\ ToSet(t) \subseteq ToSet(v \o t)
  BY <1>2, <1>4, <1>5 DEF ToSet
<1>. QED BY <1>1, <1>3, <1>6

\* FlattenSeq() has the members of all its sequences.
LEMMA FlattenFacts ==
  ASSUME NEW S, NEW s \in Seq(Seq(S))
  PROVE  /\ FlattenSeq(s) \in Seq(S)
         /\ ToSet(FlattenSeq(s)) = UNION {ToSet(s[k]) : k \in DOMAIN s}
<1>. DEFINE n == Len(s)
            Q(f) == f = [k \in 1 .. n |-> IF k = 1 THEN s[k] ELSE f[k - 1] \o s[k]]
            c == CHOOSE f : Q(f)
            V == [k \in 0 .. n |-> {t \in Seq(S) : ToSet(t) = UNION {ToSet(s[j]) : j \in 1 .. k}}]
            F == [k \in 1 .. n |-> [v \in V[k - 1] |-> v \o s[k]]]
<1>0. n \in Nat /\ 0 \in 0 .. n /\ DOMAIN s = 1 .. n
      /\ \A k \in 1 .. n : k \in 0 .. n /\ k - 1 \in 0 .. n /\ s[k] \in Seq(S) /\ k # 0
  OBVIOUS
<1>1. CASE n = 0
  <2>1. s = <<>> /\ FlattenSeq(s) = s
    BY <1>1 DEF FlattenSeq
  <2>2. ToSet(s) = {} /\ DOMAIN s = {}
    BY <2>1 DEF ToSet
  <2>. HIDE DEF F, V, c
  <2>3. UNION {ToSet(s[k]) : k \in DOMAIN s} = {} /\ s \in Seq(S)
    BY <2>1, <2>2
  <2>. QED BY <2>1, <2>2, <2>3
<1>2. CASE n # 0
  <2>1. FlattenSeq(s) = c[n]
    BY <1>2 DEF FlattenSeq
  <2>2. <<>> \in V[0]
    BY <1>0 DEF ToSet
  <2>3. \A k \in 1 .. n : \A v \in V[k - 1] : v \o s[k] \in V[k]
    <3>. SUFFICES ASSUME NEW k \in 1 .. n, NEW v \in V[k - 1]
                  PROVE  v \o s[k] \in V[k]
      OBVIOUS
    <3>1. v \in Seq(S) /\ s[k] \in Seq(S) /\ ToSet(v) = UNION {ToSet(s[j]) : j \in 1 .. k - 1}
      BY <1>0
    <3>2. v \o s[k] \in Seq(S) /\ ToSet(v \o s[k]) = ToSet(v) \cup ToSet(s[k])
      BY <3>1, ConcatMembers
    <3>3. 1 .. k = (1 .. k - 1) \cup {k}
      BY <1>0
    <3>4. UNION {ToSet(s[j]) : j \in 1 .. k} = (UNION {ToSet(s[j]) : j \in 1 .. k - 1}) \cup ToSet(s[k])
      BY <3>3
    <3>. QED BY <3>1, <3>2, <3>4, <1>0
  <2>4. PICK f : RecursionWithin(<<>>, F, n, V, f)
    <3>1. \A k \in 1 .. n : \A v \in V[k - 1] : F[k][v] = v \o s[k]
      OBVIOUS
    <3>. HIDE DEF F, V, n
    <3>2. Within(<<>>, F, n, V)
      BY <2>2, <2>3, <3>1 DEF Within
    <3>. QED BY <1>0, <3>2, RecursionChosen
  <2>5. f[0] = <<>> /\ \A k \in 1 .. n : f[k] = f[k - 1] \o s[k]
    <3>1. f[0] = <<>> /\ \A k \in 1 .. n : f[k - 1] \in V[k - 1] /\ f[k] = F[k][f[k - 1]]
      <4>. HIDE DEF F, V, n
      <4>. QED BY <1>0, <2>4 DEF RecursionWithin
    <3>. QED BY <3>1
  <2>. DEFINE g == [k \in 1 .. n |-> f[k]]
  <2>6. Q(g)
    <3>1. \A k \in 1 .. n : f[k] = IF k = 1 THEN s[k] ELSE g[k - 1] \o s[k]
      <4>. SUFFICES ASSUME NEW k \in 1 .. n
                    PROVE  f[k] = IF k = 1 THEN s[k] ELSE g[k - 1] \o s[k]
        OBVIOUS
      <4>1. CASE k = 1
        <5>1. f[k] = f[k - 1] \o s[k] /\ f[k - 1] = <<>> /\ s[k] \in Seq(S)
          BY <1>0, <2>5, <4>1
        <5>. HIDE DEF g
        <5>. QED BY <5>1, <4>1
      <4>2. CASE k # 1
        <5>1. k - 1 \in 1 .. n
          BY <1>0, <4>2
        <5>. QED BY <5>1, <2>5, <4>2
      <4>. QED BY <4>1, <4>2
    <3>. QED BY <3>1
  <2>7. Q(c)
    <3>. HIDE DEF Q
    <3>. QED BY <2>6
  <2>8. \A k \in 1 .. n : c[k] = f[k]

    <3>. DEFINE A == {k \in Nat : k \in 1 .. n => c[k] = f[k]}
    <3>1. 0 \in A
      BY <1>0
    <3>2. ASSUME NEW k \in Nat, k \in A PROVE k + 1 \in A
      <4>. SUFFICES ASSUME k + 1 \in 1 .. n PROVE c[k + 1] = f[k + 1]
        OBVIOUS
      <4>0. (k + 1) - 1 = k
        OBVIOUS
      <4>1. c[k + 1] = IF k + 1 = 1 THEN s[k + 1] ELSE c[k] \o s[k + 1]
        <5>. DEFINE h == [j \in 1 .. n |-> IF j = 1 THEN s[j] ELSE c[j - 1] \o s[j]]
        <5>1. h[k + 1] = IF k + 1 = 1 THEN s[k + 1] ELSE c[k] \o s[k + 1]
          BY <4>0
        <5>2. c = h
          BY <2>7
        <5>. HIDE DEF h, c
        <5>. QED BY <5>1, <5>2
      <4>2. g[k + 1] = IF k + 1 = 1 THEN s[k + 1] ELSE g[k] \o s[k + 1]
        <5>. DEFINE h == [j \in 1 .. n |-> IF j = 1 THEN s[j] ELSE g[j - 1] \o s[j]]
        <5>1. h[k + 1] = IF k + 1 = 1 THEN s[k + 1] ELSE g[k] \o s[k + 1]
          BY <4>0
        <5>2. g = h
          BY <2>6
        <5>. HIDE DEF h, g
        <5>. QED BY <5>1, <5>2
      <4>3. CASE k = 0
        <5>. HIDE DEF c
        <5>. QED BY <4>1, <4>2, <4>3
      <4>4. CASE k # 0
        <5>1. k \in 1 .. n /\ g[k] = f[k] /\ g[k + 1] = f[k + 1]
          BY <4>4, <1>0
        <5>2. c[k] = f[k]
          BY <3>2, <5>1
        <5>. HIDE DEF c, g
        <5>. QED BY <4>1, <4>2, <4>4, <5>1, <5>2
      <4>. QED BY <4>3, <4>4
    <3>3. Nat \subseteq A
      <4>. HIDE DEF A
      <4>. QED BY <3>1, <3>2, Induction
    <3>. HIDE DEF c, g, F, V
    <3>. QED BY <3>3, <1>0
  <2>9. f[n] \in V[n]
    <3>. HIDE DEF F, V, n
    <3>. QED BY <1>0, <2>4 DEF RecursionWithin
  <2>10. f[n] \in Seq(S) /\ ToSet(f[n]) = UNION {ToSet(s[j]) : j \in 1 .. n}
    BY <2>9, <1>0
  <2>. HIDE DEF c, F, V, g, n
  <2>11. n \in 1 .. n
    BY <1>0, <1>2
  <2>. QED BY <2>1, <2>8, <2>10, <2>11, <1>0
<1>. QED BY <1>1, <1>2

-----------------------------------------------------------------------------
(* What is kept of a sequence.                                             *)

\* What holds of the empty sequence, and of a sequence with one more element if it
\* holds of that without, holds of all.
LEMMA SequenceInduction ==
  ASSUME NEW S, NEW T, <<>> \in T,
         \A s \in Seq(S), x \in S : s \in T => Append(s, x) \in T
  PROVE  Seq(S) \subseteq T
<1>. DEFINE P == {n \in Nat : \A s \in Seq(S) : Len(s) = n => s \in T}
<1>1. 0 \in P
  <2>. SUFFICES ASSUME NEW s \in Seq(S), Len(s) = 0 PROVE s \in T
    OBVIOUS
  <2>1. s = <<>>
    BY EmptySeq
  <2>. QED BY <2>1
<1>2. ASSUME NEW n \in Nat, n \in P PROVE n + 1 \in P
  <2>. SUFFICES ASSUME NEW s \in Seq(S), Len(s) = n + 1 PROVE s \in T
    OBVIOUS
  <2>. DEFINE r == SubSeq(s, 1, n)
              x == s[n + 1]
  <2>1. r \in Seq(S) /\ Len(r) = n /\ x \in S
    OBVIOUS
  <2>2. s = Append(r, x)
    OBVIOUS
  <2>. HIDE DEF r, x
  <2>3. r \in T
    BY <1>2, <2>1
  <2>. QED BY <2>1, <2>2, <2>3
<1>. HIDE DEF P
<1>3. Nat \subseteq P
  BY <1>1, <1>2, Induction
<1>. QED BY <1>3 DEF P

\* What the recursion of Keep says, to n.
KeptSteps(s, T, n, f) ==
  /\ f[0] = <<>>
  /\ \A i \in 1 .. n : f[i] = IF s[i] \in T THEN Append(f[i - 1], s[i]) ELSE f[i - 1]

LEMMA KeepIs ==
  ASSUME NEW S, NEW s \in Seq(S), NEW T
  PROVE  \E f : KeptSteps(s, T, Len(s), f) /\ Keep(s, T) = f[Len(s)]
<1>. DEFINE n == Len(s)
            Q(f) == f = [i \in 0 .. n |->
                          IF i = 0 THEN <<>>
                          ELSE IF s[i] \in T THEN Append(f[i - 1], s[i]) ELSE f[i - 1]]
            c == CHOOSE f : Q(f)
            F == [i \in 1 .. n |->
                   [v \in Seq(S) |-> IF s[i] \in T THEN Append(v, s[i]) ELSE v]]
<1>0. n \in Nat
  OBVIOUS
<1>1. \A i \in 1 .. n : \A v \in Seq(S) :
        F[i][v] = (IF s[i] \in T THEN Append(v, s[i]) ELSE v) /\ F[i][v] \in Seq(S)
  OBVIOUS
<1>. HIDE DEF F
<1>2. PICK f : Recursion(<<>>, F, n, f)
  BY <1>0, RecursionExists
<1>3. \A i \in 0 .. n : f[i] \in Seq(S)
  <2>. DEFINE x == <<>>
              V == [i \in 0 .. n |-> Seq(S)]
  <2>0. \A i \in 0 .. n : V[i] = Seq(S)
    OBVIOUS
  <2>1. x \in Seq(S) /\ Recursion(x, F, n, f)
    BY <1>2
  <2>. HIDE DEF n, x, V
  <2>2. x \in V[0] /\ \A i \in 1 .. n : \A v \in V[i - 1] : F[i][v] \in V[i]
    BY <1>0, <1>1, <2>0, <2>1
  <2>3. \A i \in 0 .. n : f[i] \in V[i]
    BY <1>0, <2>1, <2>2, RecursionInvariant
  <2>. QED BY <2>0, <2>3
<1>4. Q(f)
  <2>1. \A i \in 1 .. n : F[i][f[i - 1]] = IF s[i] \in T THEN Append(f[i - 1], s[i]) ELSE f[i - 1]
    BY <1>0, <1>1, <1>3
  <2>2. f = [i \in 0 .. n |-> IF i = 0 THEN <<>> ELSE F[i][f[i - 1]]]
    BY <1>2 DEF Recursion
  <2>3. \A i \in 0 .. n : i # 0 => i \in 1 .. n
    BY <1>0
  <2>. HIDE DEF n
  <2>. QED BY <2>1, <2>2, <2>3
<1>5. Keep(s, T) = c[n]
  BY DEF Keep
<1>6. Q(c) => KeptSteps(s, T, n, c)
  <2>. DEFINE h == [i \in 0 .. n |->
                     IF i = 0 THEN <<>>
                     ELSE IF s[i] \in T THEN Append(c[i - 1], s[i]) ELSE c[i - 1]]
  <2>1. h[0] = <<>>
    BY <1>0
  <2>2. ASSUME NEW i \in 1 .. n
        PROVE  h[i] = IF s[i] \in T THEN Append(c[i - 1], s[i]) ELSE c[i - 1]
    <3>1. i \in 0 .. n /\ i # 0
      BY <1>0
    <3>. QED BY <3>1
  <2>3. Q(c) => c = h
    OBVIOUS
  <2>. HIDE DEF h, Q, c
  <2>. QED BY <2>1, <2>2, <2>3 DEF KeptSteps
<1>. HIDE DEF Q
<1>7. Q(c)
  BY <1>4
<1>. QED BY <1>5, <1>6, <1>7

\* Two recursions over sequences that are the same up to n are the same there.
LEMMA KeptUnique ==
  ASSUME NEW s, NEW r, NEW T, NEW n \in Nat, NEW f, NEW g,
         KeptSteps(s, T, n, f), KeptSteps(r, T, n, g), \A i \in 1 .. n : s[i] = r[i]
  PROVE  f[n] = g[n]
<1>. DEFINE P == {k \in Nat : k <= n => f[k] = g[k]}
<1>1. 0 \in P
  BY DEF KeptSteps
<1>2. ASSUME NEW k \in Nat, k \in P PROVE k + 1 \in P
  <2>. SUFFICES ASSUME k + 1 <= n PROVE f[k + 1] = g[k + 1]
    OBVIOUS
  <2>1. k + 1 \in 1 .. n /\ f[k] = g[k] /\ k + 1 - 1 = k
    BY <1>2
  <2>. QED BY <2>1 DEF KeptSteps
<1>. HIDE DEF P
<1>3. Nat \subseteq P
  BY <1>1, <1>2, Induction
<1>. QED BY <1>3 DEF P

LEMMA KeepEmpty ==
  ASSUME NEW T
  PROVE  Keep(<<>>, T) = <<>>
<1>1. <<>> \in Seq({}) /\ Len(<<>>) = 0
  OBVIOUS
<1>2. PICK f : KeptSteps(<<>>, T, 0, f) /\ Keep(<<>>, T) = f[0]
  BY <1>1, KeepIs
<1>. QED BY <1>2 DEF KeptSteps

LEMMA KeepAppend ==
  ASSUME NEW S, NEW s \in Seq(S), NEW x \in S, NEW T
  PROVE  Keep(Append(s, x), T) = IF x \in T THEN Append(Keep(s, T), x) ELSE Keep(s, T)
<1>. DEFINE r == Append(s, x)
            n == Len(s)
<1>1. r \in Seq(S) /\ Len(r) = n + 1 /\ n \in Nat /\ r[n + 1] = x /\ \A i \in 1 .. n : r[i] = s[i]
  OBVIOUS
<1>. HIDE DEF r
<1>2. PICK f : KeptSteps(s, T, n, f) /\ Keep(s, T) = f[n]
  BY KeepIs
<1>3. PICK g : KeptSteps(r, T, n + 1, g) /\ Keep(r, T) = g[n + 1]
  BY <1>1, KeepIs
<1>. HIDE DEF n
<1>4. KeptSteps(r, T, n, g)
  BY <1>1, <1>3 DEF KeptSteps
<1>5. g[n] = f[n]
  BY <1>1, <1>2, <1>4, KeptUnique
<1>6. g[n + 1] = IF x \in T THEN Append(g[n], x) ELSE g[n]
  <2>1. n + 1 \in 1 .. n + 1 /\ n + 1 - 1 = n
    BY <1>1
  <2>. QED BY <1>1, <1>3, <2>1 DEF KeptSteps
<1>. QED BY <1>2, <1>3, <1>5, <1>6 DEF r

LEMMA KeepType ==
  ASSUME NEW S, NEW T
  PROVE  \A s \in Seq(S) : Keep(s, T) \in Seq(S) /\ Len(Keep(s, T)) <= Len(s)
<1>. DEFINE P == {s \in Seq(S) : Keep(s, T) \in Seq(S) /\ Len(Keep(s, T)) <= Len(s)}
<1>1. <<>> \in P
  <2>. DEFINE e == <<>>
              k == Keep(e, T)
  <2>1. e \in Seq(S) /\ k = e /\ Len(e) = 0
    BY KeepEmpty
  <2>. HIDE DEF e, k
  <2>2. k \in Seq(S) /\ Len(k) <= Len(e)
    BY <2>1
  <2>. QED BY <2>1, <2>2 DEF e, k
<1>2. ASSUME NEW s \in Seq(S), NEW x \in S, s \in P PROVE Append(s, x) \in P
  <2>1. Keep(Append(s, x), T) = IF x \in T THEN Append(Keep(s, T), x) ELSE Keep(s, T)
    BY KeepAppend
  <2>. DEFINE k == Keep(s, T)
              r == Append(s, x)
  <2>2. k \in Seq(S) /\ Len(k) <= Len(s) /\ r \in Seq(S) /\ Len(r) = Len(s) + 1
        /\ Len(s) \in Nat
    BY <1>2
  <2>. HIDE DEF k, r
  <2>3. Append(k, x) \in Seq(S) /\ Len(Append(k, x)) = Len(k) + 1 /\ Len(k) \in Nat
    BY <2>2
  <2>4. Keep(r, T) \in Seq(S) /\ Len(Keep(r, T)) <= Len(r)
    BY <2>1, <2>2, <2>3 DEF k, r
  <2>. QED BY <2>2, <2>4 DEF r
<1>. HIDE DEF P
<1>3. Seq(S) \subseteq P
  BY <1>1, <1>2, SequenceInduction
<1>. QED BY <1>3 DEF P

LEMMA ToSetAppend ==
  ASSUME NEW S, NEW s \in Seq(S), NEW x \in S
  PROVE  ToSet(Append(s, x)) = ToSet(s) \cup {x}
<1>1. \A i \in 1 .. Len(s) : Append(s, x)[i] = s[i]
  OBVIOUS
<1>2. Append(s, x)[Len(s) + 1] = x
  OBVIOUS
<1>3. DOMAIN Append(s, x) = 1 .. Len(s) + 1 /\ DOMAIN s = 1 .. Len(s) /\ Len(s) \in Nat
  OBVIOUS
<1>. QED BY <1>1, <1>2, <1>3 DEF ToSet

LEMMA KeepSet ==
  ASSUME NEW S, NEW T
  PROVE  \A s \in Seq(S) : ToSet(Keep(s, T)) = ToSet(s) \cap T
<1>. DEFINE P == {s \in Seq(S) : ToSet(Keep(s, T)) = ToSet(s) \cap T}
<1>1. <<>> \in P
  <2>1. ToSet(<<>>) = {}
    BY DEF ToSet
  <2>2. Keep(<<>>, T) = <<>>
    BY KeepEmpty
  <2>. QED BY <2>1, <2>2
<1>2. ASSUME NEW s \in Seq(S), NEW x \in S, s \in P PROVE Append(s, x) \in P
  <2>1. Keep(Append(s, x), T) = IF x \in T THEN Append(Keep(s, T), x) ELSE Keep(s, T)
    BY KeepAppend
  <2>2. Keep(s, T) \in Seq(S)
    BY KeepType
  <2>3. ToSet(Append(s, x)) = ToSet(s) \cup {x}
    BY ToSetAppend
  <2>4. ToSet(Append(Keep(s, T), x)) = ToSet(Keep(s, T)) \cup {x}
    BY <2>2, ToSetAppend
  <2>5. Append(s, x) \in Seq(S)
    OBVIOUS
  <2>. QED BY <1>2, <2>1, <2>3, <2>4, <2>5
<1>. HIDE DEF P
<1>3. Seq(S) \subseteq P
  BY <1>1, <1>2, SequenceInduction
<1>. QED BY <1>3 DEF P

LEMMA KeepConcat ==
  ASSUME NEW S, NEW T, NEW s \in Seq(S)
  PROVE  \A t \in Seq(S) : Keep(s \o t, T) = Keep(s, T) \o Keep(t, T)
<1>. DEFINE P == {t \in Seq(S) : Keep(s \o t, T) = Keep(s, T) \o Keep(t, T)}
<1>0. Keep(s, T) \in Seq(S)
  BY KeepType
<1>1. <<>> \in P
  <2>1. s \o <<>> = s /\ Keep(s, T) \o <<>> = Keep(s, T)
    BY <1>0, ConcatEmptySeq
  <2>2. <<>> \in Seq(S) /\ Keep(<<>>, T) = <<>>
    BY KeepEmpty
  <2>. QED BY <2>1, <2>2
<1>2. ASSUME NEW t \in Seq(S), NEW x \in S, t \in P PROVE Append(t, x) \in P
  <2>1. Keep(t, T) \in Seq(S) /\ s \o t \in Seq(S) /\ Append(t, x) \in Seq(S)
    BY KeepType
  <2>2. s \o Append(t, x) = Append(s \o t, x)
    OBVIOUS
  <2>3. Keep(s, T) \o Append(Keep(t, T), x) = Append(Keep(s, T) \o Keep(t, T), x)
    BY <1>0, <2>1
  <2>4. Keep(Append(t, x), T) = IF x \in T THEN Append(Keep(t, T), x) ELSE Keep(t, T)
    BY KeepAppend
  <2>5. Keep(Append(s \o t, x), T) = IF x \in T THEN Append(Keep(s \o t, T), x) ELSE Keep(s \o t, T)
    BY <2>1, KeepAppend
  <2>. QED BY <1>2, <2>1, <2>2, <2>3, <2>4, <2>5
<1>. HIDE DEF P
<1>3. Seq(S) \subseteq P
  BY <1>1, <1>2, SequenceInduction
<1>. QED BY <1>3 DEF P

LEMMA KeepKeep ==
  ASSUME NEW S, NEW T, NEW U
  PROVE  \A s \in Seq(S) : Keep(Keep(s, T), U) = Keep(s, T \cap U)
<1>. DEFINE P == {s \in Seq(S) : Keep(Keep(s, T), U) = Keep(s, T \cap U)}
<1>1. <<>> \in P
  <2>1. Keep(<<>>, T) = <<>> /\ Keep(<<>>, U) = <<>> /\ Keep(<<>>, T \cap U) = <<>>
    BY KeepEmpty
  <2>2. <<>> \in Seq(S)
    OBVIOUS
  <2>. QED BY <2>1, <2>2
<1>2. ASSUME NEW s \in Seq(S), NEW x \in S, s \in P PROVE Append(s, x) \in P
  <2>1. Keep(Append(s, x), T) = IF x \in T THEN Append(Keep(s, T), x) ELSE Keep(s, T)
    BY KeepAppend
  <2>2. Keep(s, T) \in Seq(S) /\ Append(s, x) \in Seq(S)
    BY KeepType
  <2>3. Keep(Append(Keep(s, T), x), U)
          = IF x \in U THEN Append(Keep(Keep(s, T), U), x) ELSE Keep(Keep(s, T), U)
    BY <2>2, KeepAppend
  <2>4. Keep(Append(s, x), T \cap U)
          = IF x \in T \cap U THEN Append(Keep(s, T \cap U), x) ELSE Keep(s, T \cap U)
    BY KeepAppend
  <2>5. Keep(Keep(s, T), U) = Keep(s, T \cap U)
    BY <1>2
  <2>6. CASE x \in T
    <3>1. Keep(Keep(Append(s, x), T), U) = Keep(Append(Keep(s, T), x), U)
      BY <2>1, <2>6
    <3>2. x \in T \cap U <=> x \in U
      BY <2>6
    <3>. QED BY <2>2, <2>3, <2>4, <2>5, <3>1, <3>2
  <2>7. CASE x \notin T
    BY <2>1, <2>2, <2>4, <2>5, <2>7
  <2>. QED BY <2>6, <2>7
<1>. HIDE DEF P
<1>3. Seq(S) \subseteq P
  BY <1>1, <1>2, SequenceInduction
<1>. QED BY <1>3 DEF P

\* Keep looks at the elements of its sequence only.
LEMMA KeepSame ==
  ASSUME NEW S, NEW T, NEW U
  PROVE  \A s \in Seq(S) : ToSet(s) \cap T = ToSet(s) \cap U => Keep(s, T) = Keep(s, U)
<1>. DEFINE P == {s \in Seq(S) : ToSet(s) \cap T = ToSet(s) \cap U => Keep(s, T) = Keep(s, U)}
<1>1. <<>> \in P
  BY KeepEmpty
<1>2. ASSUME NEW s \in Seq(S), NEW x \in S, s \in P PROVE Append(s, x) \in P
  <2>1. Keep(Append(s, x), T) = IF x \in T THEN Append(Keep(s, T), x) ELSE Keep(s, T)
    BY KeepAppend
  <2>2. Keep(Append(s, x), U) = IF x \in U THEN Append(Keep(s, U), x) ELSE Keep(s, U)
    BY KeepAppend
  <2>3. ToSet(Append(s, x)) = ToSet(s) \cup {x} /\ Append(s, x) \in Seq(S)
    BY ToSetAppend
  <2>. SUFFICES ASSUME ToSet(Append(s, x)) \cap T = ToSet(Append(s, x)) \cap U
                PROVE  Keep(Append(s, x), T) = Keep(Append(s, x), U)
    BY <2>3
  <2>4. x \in T <=> x \in U
    BY <2>3
  <2>5. ToSet(s) \cap T = ToSet(s) \cap U
    BY <2>3
  <2>6. Keep(s, T) = Keep(s, U)
    BY <1>2, <2>5
  <2>. QED BY <2>1, <2>2, <2>4, <2>6
<1>. HIDE DEF P
<1>3. Seq(S) \subseteq P
  BY <1>1, <1>2, SequenceInduction
<1>. QED BY <1>3 DEF P

\* All of it is kept, or nothing.
LEMMA KeepAll ==
  ASSUME NEW S, NEW T
  PROVE  \A s \in Seq(S) : ToSet(s) \subseteq T => Keep(s, T) = s
<1>. DEFINE P == {s \in Seq(S) : ToSet(s) \subseteq T => Keep(s, T) = s}
<1>1. <<>> \in P
  BY KeepEmpty
<1>2. ASSUME NEW s \in Seq(S), NEW x \in S, s \in P PROVE Append(s, x) \in P
  <2>1. ToSet(Append(s, x)) = ToSet(s) \cup {x}
    BY ToSetAppend
  <2>2. Keep(Append(s, x), T) = IF x \in T THEN Append(Keep(s, T), x) ELSE Keep(s, T)
    BY KeepAppend
  <2>3. Append(s, x) \in Seq(S)
    OBVIOUS
  <2>. QED BY <1>2, <2>1, <2>2, <2>3
<1>. HIDE DEF P
<1>3. Seq(S) \subseteq P
  BY <1>1, <1>2, SequenceInduction
<1>. QED BY <1>3 DEF P

LEMMA KeepNone ==
  ASSUME NEW S, NEW T
  PROVE  \A s \in Seq(S) : ToSet(s) \cap T = {} => Keep(s, T) = <<>>
<1>. SUFFICES ASSUME NEW s \in Seq(S), ToSet(s) \cap T = {} PROVE Keep(s, T) = <<>>
  OBVIOUS
<1>1. Keep(s, T) \in Seq(S) /\ ToSet(Keep(s, T)) = {}
  BY KeepType, KeepSet
<1>. DEFINE k == Keep(s, T)
<1>. HIDE DEF k
<1>2. k \in Seq(S) /\ ToSet(k) = {}
  BY <1>1 DEF k
<1>3. Len(k) = 0
  <2>1. Len(k) \in Nat /\ DOMAIN k = 1 .. Len(k)
    BY <1>2
  <2>2. \A i \in DOMAIN k : k[i] \in ToSet(k)
    BY DEF ToSet
  <2>3. 1 \notin DOMAIN k
    BY <1>2, <2>2
  <2>. QED BY <2>1, <2>3
<1>4. k = <<>>
  BY <1>2, <1>3, EmptySeq
<1>. QED BY <1>4 DEF k

-----------------------------------------------------------------------------
(* Cells.                                                                  *)

\* The count a condition triggers at is positive (ma_condition.cpp:19).
LEMMA TriggerCountPositive ==
  ASSUME NEW p \in CondParam
  PROVE  TriggerCount(p) \in Nat /\ TriggerCount(p) > 0
BY DEF CondParam, TriggerCount

\* The loop that pops expired messages stops at one of them: the newest one is
\* never expired (ma_cell.cpp:37-38).
LEMMA FirstRecentExists ==
  ASSUME NEW s \in Seq(Nat), s # <<>>, NEW t \in Nat, s[Len(s)] = t,
         NEW d \in Nat
  PROVE  FirstRecent(s, t, d) \in 1 .. Len(s)
<1> DEFINE T == {k \in 1 .. Len(s) : t - s[k] <= d}
<1>1. Len(s) \in T
  OBVIOUS
<1>2. PICK m \in T : \A k \in T : m <= k
  <2>1. T \subseteq Nat /\ T # {}
    BY <1>1
  <2>. QED BY <2>1, LeastNatural
<1>3. \A j \in 1 .. m-1 : t - s[j] > d
  <2>. SUFFICES ASSUME NEW j \in 1 .. m-1 PROVE t - s[j] > d
    OBVIOUS
  <2>1. j \in 1 .. Len(s) /\ j \notin T
    BY <1>2
  <2>2. s[j] \in Nat
    BY <2>1
  <2>. QED BY <2>1, <2>2
<1>4. \E k \in DOMAIN s : t - s[k] <= d /\ \A j \in 1 .. k-1 : t - s[j] > d
  BY <1>2, <1>3
<1>5. FirstRecent(s, t, d) \in DOMAIN s
  <2> DEFINE Q(k) == t - s[k] <= d /\ \A j \in 1 .. k-1 : t - s[j] > d
  <2>1. \E k \in DOMAIN s : Q(k)
    BY <1>4
  <2>2. FirstRecent(s, t, d) = CHOOSE k \in DOMAIN s : Q(k)
    BY DEF FirstRecent
  <2> HIDE DEF Q
  <2>. QED BY <2>1, <2>2
<1>. QED BY <1>5

\* A suffix that starts inside a sequence of time stamps.
LEMMA SuffixFacts ==
  ASSUME NEW s \in Seq(Nat), NEW k \in 1 .. Len(s)
  PROVE  LET r == SubSeq(s, k, Len(s))
         IN  r \in Seq(Nat) /\ r # <<>> /\ Len(r) = Len(s) - k + 1
<1>1. k \in Int /\ Len(s) \in Int /\ \A i \in k .. Len(s) : s[i] \in Nat
  OBVIOUS
<1>2. /\ SubSeq(s, k, Len(s)) \in Seq(Nat)
      /\ Len(SubSeq(s, k, Len(s))) = IF k <= Len(s) THEN Len(s) - k + 1 ELSE 0
  BY <1>1, SubSeqProperties, Zenon
<1>3. Len(SubSeq(s, k, Len(s))) = Len(s) - k + 1 /\ Len(s) - k + 1 > 0
  BY <1>2
<1>4. SubSeq(s, k, Len(s)) # <<>>
  <2> DEFINE r == SubSeq(s, k, Len(s))
  <2>1. r \in Seq(Nat) /\ Len(r) > 0
    BY <1>2, <1>3
  <2> HIDE DEF r
  <2>2. r # <<>>
    BY <2>1
  <2>. QED BY <2>2 DEF r
<1>. QED BY <1>2, <1>3, <1>4

\* hit() leaves a window that holds at least the new message and at most as
\* many as the trigger count (ma_cell.cpp:36-42).
LEMMA WindowFacts ==
  ASSUME NEW s \in Seq(Nat), NEW t \in Nat, NEW p \in CondParam
  PROVE  /\ Window(s, t, p) \in Seq(Nat)
         /\ Window(s, t, p) # <<>>
         /\ Len(Window(s, t, p)) <= TriggerCount(p)
<1> DEFINE a == Append(s, t)
           f == FirstRecent(a, t, p.timespan)
           e == PopExpired(a, t, p.timespan)
           n == TriggerCount(p)
<1>1. a \in Seq(Nat) /\ a # <<>> /\ a[Len(a)] = t
  OBVIOUS
<1>2. f \in 1 .. Len(a)
  <2>1. p.timespan \in Nat
    BY DEF CondParam
  <2>. QED BY <1>1, <2>1, FirstRecentExists
<1>3. e \in Seq(Nat) /\ e # <<>>
  <2>1. e = SubSeq(a, f, Len(a))
    BY DEF PopExpired
  <2> HIDE DEF a, f, e
  <2>. QED BY <1>1, <1>2, <2>1, SuffixFacts
<1>4. n \in Nat /\ n > 0
  BY TriggerCountPositive
<1> HIDE DEF e, n
<1>5. PopExcess(e, n) \in Seq(Nat) /\ PopExcess(e, n) # <<>> /\ Len(PopExcess(e, n)) <= n
  <2>1. CASE Len(e) > n
    <3>1. PopExcess(e, n) = SubSeq(e, Len(e) - n + 1, Len(e))
      BY <2>1 DEF PopExcess
    <3>2. Len(e) - n + 1 \in 1 .. Len(e)
      BY <1>3, <1>4, <2>1
    <3>3. PopExcess(e, n) \in Seq(Nat) /\ PopExcess(e, n) # <<>>
          /\ Len(PopExcess(e, n)) = Len(e) - (Len(e) - n + 1) + 1
      BY <1>3, <3>1, <3>2, SuffixFacts
    <3>. QED BY <1>3, <1>4, <3>3
  <2>2. CASE ~(Len(e) > n)
    BY <1>3, <1>4, <2>2 DEF PopExcess
  <2>. QED BY <2>1, <2>2
<1>. QED BY <1>5 DEF Window, e, n

\* What hit() does to a cell whose window is not empty when it is on.
LEMMA HitFacts ==
  ASSUME NEW k \in Cell, NEW t \in Nat, NEW p \in CondParam,
         k.on => k.msgs # <<>>
  PROVE  LET h == Hit(k, t, p)
         IN  /\ h \in Cell
             /\ h.msgs # <<>>
             /\ Ignores(k, p) => /\ h.on /\ h.t_event = k.t_event
                                 /\ Len(h.msgs) = Len(k.msgs)
             /\ ~Ignores(k, p) =>
                  /\ h.on <=> p.at_least /\ Len(h.msgs) = TriggerCount(p)
                  /\ HitSchedules(k, t, p) <=> h.on \/ ~p.at_least
                  /\ HitSchedules(k, t, p) => h.t_event > 0
                  /\ ~HitSchedules(k, t, p) => h.t_event = k.t_event
<1> DEFINE w == Window(k.msgs, t, p)
           r == Rotate(k.msgs, t)
<1>1. k.msgs \in Seq(Nat) /\ k.on \in BOOLEAN /\ k.t_event \in Nat
  BY DEF Cell, Seconds
<1>2. w \in Seq(Nat) /\ w # <<>>
  BY <1>1, WindowFacts
<1>3. p.timespan \in Nat /\ p.at_least \in BOOLEAN
  BY DEF CondParam
<1>4. CASE Ignores(k, p)
  <2>1. r \in Seq(Nat) /\ r # <<>> /\ Len(r) = Len(k.msgs)
    BY <1>1, <1>4 DEF Ignores, Rotate
  <2> HIDE DEF r
  <2>2. Hit(k, t, p) = [k EXCEPT !.msgs = r]
    BY <1>4 DEF Hit, r
  <2>. QED BY <1>4, <2>1, <2>2 DEF Cell, Seconds, Ignores
<1>5. CASE ~Ignores(k, p)
  <2>1. w[1] + p.timespan + 1 \in Nat /\ w[1] + p.timespan + 1 > 0
    BY <1>2, <1>3
  <2> HIDE DEF w
  <2>2. Hit(k, t, p) = [msgs    |-> w,
                        on      |-> NewState(w, p),
                        t_event |-> IF Schedules(w, p) THEN EventTime(w, p)
                                                       ELSE k.t_event]
    BY <1>5 DEF Hit, w
  <2> DEFINE h == Hit(k, t, p)
  <2>3. h.msgs = w /\ (h.on <=> p.at_least /\ Len(w) = TriggerCount(p))
    <3>1. h.msgs = w /\ h.on = NewState(w, p)
      BY <2>2
    <3>. QED BY <3>1 DEF NewState
  <2>4. HitSchedules(k, t, p) <=> Len(w) = TriggerCount(p) \/ ~p.at_least
    BY <1>5 DEF HitSchedules, Schedules, w
  <2>5. /\ HitSchedules(k, t, p) => h.t_event = w[1] + p.timespan + 1
        /\ ~HitSchedules(k, t, p) => h.t_event = k.t_event
    BY <2>2, <2>4 DEF Schedules, EventTime
  <2>6. NewState(w, p) \in BOOLEAN
    BY <1>3 DEF NewState
  <2>7. h \in Cell
    BY <1>1, <1>2, <2>1, <2>2, <2>6 DEF Cell, Seconds, EventTime
  <2> HIDE DEF h
  <2>8. /\ HitSchedules(k, t, p) <=> h.on \/ ~p.at_least
        /\ HitSchedules(k, t, p) => h.t_event > 0
    BY <1>3, <2>1, <2>3, <2>4, <2>5
  <2>9. h.msgs # <<>> /\ (h.on <=> p.at_least /\ Len(h.msgs) = TriggerCount(p))
    BY <1>2, <2>3
  <2>. QED BY <1>5, <2>5, <2>7, <2>8, <2>9 DEF h
<1>. QED BY <1>4, <1>5

-----------------------------------------------------------------------------
(* Domains.                                                                *)

\* The domains and the values of a rule with n conditions.
DomainsOfSize(n) == [1 .. n -> CondDomain]
ValuesOfSize(n) == [1 .. n -> Nat \X Nat]

-----------------------------------------------------------------------------
(* Indices.                                                                *)

LEMMA AndOpType ==
  ASSUME NEW i \in Index, NEW j \in Index
  PROVE  and_op(i, j) \in Index
BY DEF and_op, Index, D_ANY, D_NIL

\* An index stands for itself, D_ANY for every index and D_NIL for none; and_op() is
\* then the intersection (ma_domain_ops.h, and_op).
LEMMA AndOpMeans ==
  ASSUME NEW i \in Index, NEW j \in Index, NEW x \in Nat
  PROVE  and_op(i, j) \in {D_ANY, x} <=> i \in {D_ANY, x} /\ j \in {D_ANY, x}
BY DEF and_op, Index, D_ANY, D_NIL

LEMMA AndOpCommutes ==
  ASSUME NEW i \in Index, NEW j \in Index
  PROVE  and_op(i, j) = and_op(j, i)
BY DEF and_op, Index, D_ANY, D_NIL

-----------------------------------------------------------------------------
(* The domains of one condition.                                           *)

LEMMA CondIntersectType ==
  ASSUME NEW p \in CondDomain, NEW q \in CondDomain
  PROVE  CondIntersect(p, q) \in CondDomain
<1>1. NullPair \in CondDomain
  BY DEF NullPair, CondDomain, Index
<1>2. <<and_op(p[1], q[1]), and_op(p[2], q[2])>> \in CondDomain
  BY AndOpType DEF CondDomain
<1>. QED BY <1>1, <1>2 DEF CondIntersect

\* One condition's domain, as InDomain() takes it.
Stands(p, u) == p[1] \in {D_ANY, u[1]} /\ p[2] \in {D_ANY, u[2]}

LEMMA NullStandsForNothing ==
  ASSUME NEW p \in CondDomain, CondIsNull(p), NEW u \in Nat \X Nat
  PROVE  ~Stands(p, u)
BY DEF CondIsNull, CondDomain, Index, Stands, D_ANY, D_NIL

LEMMA CondIntersectMeans ==
  ASSUME NEW p \in CondDomain, NEW q \in CondDomain, NEW u \in Nat \X Nat
  PROVE  Stands(CondIntersect(p, q), u) <=> Stands(p, u) /\ Stands(q, u)
<1>. DEFINE d == <<and_op(p[1], q[1]), and_op(p[2], q[2])>>
<1>1. d \in CondDomain
  BY AndOpType DEF CondDomain
<1>2. Stands(d, u) <=> Stands(p, u) /\ Stands(q, u)
  <2>1. p[1] \in Index /\ q[1] \in Index /\ p[2] \in Index /\ q[2] \in Index
    BY DEF CondDomain
  <2>2. u[1] \in Nat /\ u[2] \in Nat
    OBVIOUS
  <2>3. and_op(p[1], q[1]) \in {D_ANY, u[1]} <=> p[1] \in {D_ANY, u[1]} /\ q[1] \in {D_ANY, u[1]}
    BY <2>1, <2>2, AndOpMeans
  <2>4. and_op(p[2], q[2]) \in {D_ANY, u[2]} <=> p[2] \in {D_ANY, u[2]} /\ q[2] \in {D_ANY, u[2]}
    BY <2>1, <2>2, AndOpMeans
  <2>. QED BY <2>3, <2>4 DEF Stands
<1>3. CASE CondIsNull(d)
  <2>1. ~Stands(d, u)
    BY <1>1, <1>3, NullStandsForNothing
  <2>2. ~Stands(NullPair, u)
    BY DEF Stands, NullPair, D_ANY, D_NIL
  <2>. QED BY <1>2, <1>3, <2>1, <2>2 DEF CondIntersect
<1>4. CASE ~CondIsNull(d)
  BY <1>2, <1>4 DEF CondIntersect
<1>. QED BY <1>3, <1>4

LEMMA CondIntersectCommutes ==
  ASSUME NEW p \in CondDomain, NEW q \in CondDomain
  PROVE  CondIntersect(p, q) = CondIntersect(q, p)
<1>1. and_op(p[1], q[1]) = and_op(q[1], p[1]) /\ and_op(p[2], q[2]) = and_op(q[2], p[2])
  BY AndOpCommutes DEF CondDomain
<1>. QED BY <1>1 DEF CondIntersect

-----------------------------------------------------------------------------
(* The domains of a rule.                                                  *)

LEMMA InDomainStands ==
  ASSUME NEW n \in Nat, NEW d \in DomainsOfSize(n), NEW v \in ValuesOfSize(n)
  PROVE  InDomain(d, v) <=> \A i \in 1 .. n : Stands(d[i], v[i])
BY DEF InDomain, Stands, DomainsOfSize

\* A null domain stands for nothing.
LEMMA NullIsEmpty ==
  ASSUME NEW n \in Nat \ {0}, NEW d \in DomainsOfSize(n), IsNull(d), NEW v \in ValuesOfSize(n)
  PROVE  ~InDomain(d, v)
<1>1. d # <<>>
  <2>1. DOMAIN d = 1 .. n /\ DOMAIN <<>> = 1 .. 0
    BY DEF DomainsOfSize
  <2>2. 1 \in 1 .. n /\ 1 \notin 1 .. 0
    OBVIOUS
  <2>. QED BY <2>1, <2>2
<1>2. PICK i \in 1 .. n : CondIsNull(d[i])
  BY <1>1 DEF IsNull, DomainsOfSize
<1>3. ~Stands(d[i], v[i])
  BY <1>2, NullStandsForNothing DEF DomainsOfSize, ValuesOfSize
<1>. QED BY <1>3, InDomainStands

LEMMA NullDomainIsEmpty ==
  ASSUME NEW n \in Nat \ {0}, NEW v \in ValuesOfSize(n)
  PROVE  ~InDomain(NullDomain, v)
<1>1. 1 \in DOMAIN NullDomain /\ NullDomain[1][1] = D_NIL
  BY DEF NullDomain, NullPair
<1>2. v[1][1] \in Nat
  BY DEF ValuesOfSize
<1>. QED BY <1>1, <1>2 DEF InDomain, D_ANY, D_NIL

\* The intersection of two domains of a rule stands for the values that both stand
\* for, those that the code normalises to a null domain of one condition included
\* (ma_domain_ops.h, domain_intersect): no combination of sources and targets gets
\* lost when WHERE clauses are combined, and none is added.
THEOREM IntersectMeans ==
  ASSUME NEW n \in Nat \ {0}, NEW d1 \in DomainsOfSize(n), NEW d2 \in DomainsOfSize(n),
         NEW v \in ValuesOfSize(n)
  PROVE  InDomain(Intersect(d1, d2), v) <=> InDomain(d1, v) /\ InDomain(d2, v)
<1>1. CASE IsNull(d1) \/ IsNull(d2)
  BY <1>1, NullIsEmpty, NullDomainIsEmpty DEF Intersect
<1>2. CASE ~IsNull(d1) /\ ~IsNull(d2)
  <2>. DEFINE d == [i \in DOMAIN d1 |-> CondIntersect(d1[i], d2[i])]
  <2>1. d \in DomainsOfSize(n)
    BY CondIntersectType DEF DomainsOfSize
  <2>2. \A i \in 1 .. n : Stands(d[i], v[i]) <=> Stands(d1[i], v[i]) /\ Stands(d2[i], v[i])
    BY CondIntersectMeans DEF DomainsOfSize, ValuesOfSize
  <2>3. InDomain(d, v) <=> InDomain(d1, v) /\ InDomain(d2, v)
    <3>. HIDE DEF d
    <3>. QED BY <2>1, <2>2, InDomainStands
  <2>4. Intersect(d1, d2) = IF IsNull(d) THEN NullDomain ELSE d
    BY <1>2 DEF Intersect
  <2>5. IsNull(d) => ~InDomain(d, v)
    <3>. HIDE DEF d
    <3>. QED BY <2>1, NullIsEmpty
  <2>. QED BY <2>3, <2>4, <2>5, NullDomainIsEmpty
<1>. QED BY <1>1, <1>2

\* The order of the operands does not matter (ma_domain_ops.h, domain_intersect).
THEOREM IntersectCommutes ==
  ASSUME NEW n \in Nat \ {0}, NEW d1 \in DomainsOfSize(n), NEW d2 \in DomainsOfSize(n)
  PROVE  Intersect(d1, d2) = Intersect(d2, d1)
<1>1. [i \in DOMAIN d1 |-> CondIntersect(d1[i], d2[i])]
        = [i \in DOMAIN d2 |-> CondIntersect(d2[i], d1[i])]
  BY CondIntersectCommutes DEF DomainsOfSize
<1>. QED BY <1>1 DEF Intersect

-----------------------------------------------------------------------------
(* Lists of domains.                                                       *)

\* A list of domains stands for what one of them stands for; an entry in a list is
\* never a null domain.
Denotes(ds, v) == \E d \in ToSet(ds) : InDomain(d, v)
Clean(n) == {d \in DomainsOfSize(n) : ~IsNull(d)}

\* An intersection is null only as a whole: a part that is null makes it the null
\* domain.
LEMMA IntersectClean ==
  ASSUME NEW n \in Nat \ {0}, NEW d1 \in DomainsOfSize(n), NEW d2 \in DomainsOfSize(n)
  PROVE  Intersect(d1, d2) \in Clean(n) \cup {NullDomain}
<1>. DEFINE d == [i \in DOMAIN d1 |-> CondIntersect(d1[i], d2[i])]
<1>1. d \in DomainsOfSize(n)
  <2>1. \A i \in 1 .. n : CondIntersect(d1[i], d2[i]) \in CondDomain
    BY CondIntersectType DEF DomainsOfSize
  <2>. QED BY <2>1 DEF DomainsOfSize
<1>. HIDE DEF d
<1>2. Intersect(d1, d2) \in {NullDomain, d} /\ (Intersect(d1, d2) = d /\ d # NullDomain => ~IsNull(d))
  BY DEF Intersect, d
<1>. QED BY <1>1, <1>2 DEF Clean

\* and_merge(), unless there is nothing yet (ma_domain_ops.h, and_merge).
LEMMA AndMergeMembers ==
  ASSUME NEW n \in Nat \ {0}, NEW a \in Seq(Clean(n)), NEW b \in Seq(Clean(n)), a # <<>>
  PROVE  /\ AndMerge(a, b) \in Seq(Clean(n))
         /\ \A d : d \in ToSet(AndMerge(a, b)) <=>
              d # NullDomain /\ \E k \in 1 .. Len(a), j \in 1 .. Len(b) : d = Intersect(a[k], b[j])
<1>. DEFINE S == Clean(n) \cup {NullDomain}
            row(k) == [j \in DOMAIN b |-> Intersect(a[k], b[j])]
            rows == [k \in DOMAIN a |-> row(k)]
            all == FlattenSeq(rows)
            kept == Keep(all, ToSet(all) \ {NullDomain})
<1>1. AndMerge(a, b) = kept
  BY DEF AndMerge
<1>2. /\ DOMAIN a = 1 .. Len(a) /\ DOMAIN b = 1 .. Len(b) /\ Len(a) \in Nat /\ Len(b) \in Nat
      /\ \A k \in 1 .. Len(a) : a[k] \in Clean(n)
      /\ \A k \in 1 .. Len(b) : b[k] \in Clean(n)
  OBVIOUS
<1>3. \A k \in 1 .. Len(a), j \in 1 .. Len(b) : Intersect(a[k], b[j]) \in S
  BY <1>2, IntersectClean DEF Clean
<1>4. \A k \in 1 .. Len(a) : row(k) \in Seq(S) /\ ToSet(row(k)) = {Intersect(a[k], b[j]) : j \in 1 .. Len(b)}
  BY <1>2, <1>3 DEF ToSet
<1>5. all \in Seq(S) /\ ToSet(all) = UNION {ToSet(row(k)) : k \in 1 .. Len(a)}
  <2>. HIDE DEF row, S
  <2>1. rows \in [1 .. Len(a) -> Seq(S)] /\ \A k \in 1 .. Len(a) : rows[k] = row(k)
    BY <1>2, <1>4
  <2>. HIDE DEF rows
  <2>2. UNION {ToSet(rows[k]) : k \in 1 .. Len(a)} = UNION {ToSet(row(k)) : k \in 1 .. Len(a)}
    BY <2>1
  <2>3. /\ FlattenSeq(rows) \in Seq(S)
        /\ ToSet(FlattenSeq(rows)) = UNION {ToSet(rows[k]) : k \in 1 .. Len(a)}
    <3>1. rows \in Seq(Seq(S)) /\ DOMAIN rows = 1 .. Len(a)
      BY <1>2, <2>1
    <3>2. FlattenSeq(rows) \in Seq(S) /\ ToSet(FlattenSeq(rows)) = UNION {ToSet(rows[k]) : k \in DOMAIN rows}
      BY <3>1, FlattenFacts
    <3>. QED BY <3>1, <3>2
  <2>. QED BY <2>2, <2>3
<1>6. kept \in Seq(S) /\ ToSet(kept) = ToSet(all) \ {NullDomain}
  <2>. DEFINE T == ToSet(all) \ {NullDomain}
  <2>. HIDE DEF all, T, S
  <2>1. Keep(all, T) \in Seq(S) /\ ToSet(Keep(all, T)) = ToSet(all) \cap T
    BY <1>5, KeepType, KeepSet
  <2>. QED BY <2>1 DEF T
<1>. HIDE DEF all, kept
<1>7. kept \in Seq(Clean(n))
  <2>1. ToSet(all) \subseteq S
    BY <1>5 DEF ToSet
  <2>2. ToSet(kept) \subseteq Clean(n)
    BY <1>6, <2>1
  <2>. QED BY <2>2, <1>6, SeqOfMembers
<1>8. \A d : d \in ToSet(all) <=> \E k \in 1 .. Len(a), j \in 1 .. Len(b) : d = Intersect(a[k], b[j])
  <2>. HIDE DEF row
  <2>. QED BY <1>4, <1>5
<1>. QED BY <1>1, <1>6, <1>7, <1>8

\* The merge is the intersection.
LEMMA AndMergeMeans ==
  ASSUME NEW n \in Nat \ {0}, NEW a \in Seq(Clean(n)), NEW b \in Seq(Clean(n)), a # <<>>
  PROVE  /\ AndMerge(a, b) \in Seq(Clean(n))
         /\ \A v \in ValuesOfSize(n) : Denotes(AndMerge(a, b), v) <=> Denotes(a, v) /\ Denotes(b, v)
<1>. DEFINE kept == AndMerge(a, b)
<1>1. /\ kept \in Seq(Clean(n))
      /\ \A d : d \in ToSet(kept) <=>
           d # NullDomain /\ \E k \in 1 .. Len(a), j \in 1 .. Len(b) : d = Intersect(a[k], b[j])
  BY AndMergeMembers
<1>2. /\ DOMAIN a = 1 .. Len(a) /\ DOMAIN b = 1 .. Len(b)
      /\ \A k \in 1 .. Len(a) : a[k] \in Clean(n)
      /\ \A k \in 1 .. Len(b) : b[k] \in Clean(n)
  OBVIOUS
<1>. HIDE DEF kept
<1>3. ASSUME NEW v \in ValuesOfSize(n)
      PROVE  Denotes(kept, v) <=> Denotes(a, v) /\ Denotes(b, v)
  <2>1. Denotes(kept, v) <=> \E k \in 1 .. Len(a), j \in 1 .. Len(b) : InDomain(Intersect(a[k], b[j]), v)
    <3>1. ~InDomain(NullDomain, v)
      BY NullDomainIsEmpty
    <3>. QED BY <1>1, <3>1 DEF Denotes
  <2>2. \A k \in 1 .. Len(a), j \in 1 .. Len(b) :
          InDomain(Intersect(a[k], b[j]), v) <=> InDomain(a[k], v) /\ InDomain(b[j], v)
    BY <1>2, IntersectMeans DEF Clean
  <2>3. /\ Denotes(a, v) <=> \E k \in 1 .. Len(a) : InDomain(a[k], v)
        /\ Denotes(b, v) <=> \E j \in 1 .. Len(b) : InDomain(b[j], v)
    BY <1>2 DEF Denotes, ToSet
  <2>. QED BY <2>1, <2>2, <2>3
<1>. QED BY <1>1, <1>3 DEF kept
=============================================================================
