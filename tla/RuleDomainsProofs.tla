-------------------------- MODULE RuleDomainsProofs --------------------------
(***************************************************************************)
(* Theorems about RuleDomains, for every configuration and every order of  *)
(* messages and resets.                                                    *)
(*                                                                         *)
(* The argument, section by section.  The operators with a loop, as the    *)
(* recursion they are.  What a WHERE clause denotes, from what its         *)
(* primaries do, and on what it depends.  The hitmaps, and what a message  *)
(* makes of them and of the rules' domains.  What the evaluation of an     *)
(* expression finds, from what its primaries do; what evaluate() tries,    *)
(* and what it leaves of the engine, for one rule and for one rule after   *)
(* the other.                                                              *)
(*                                                                         *)
(* On these rest inductive invariants.  StateInv: types, hitmaps, domains  *)
(* that are worked out.  On it alone rest that no text throws, and         *)
(* NamedInv: alarms keep the names of their keys, part by part, until      *)
(* another rule resets the part's condition.  FitInv (domains and alarms   *)
(* have indices of the tables) and AlarmInv (the alarms of a rule are      *)
(* those that it should have) suppose that nobody resets conditions under  *)
(* another rule, for otherwise rules do miss alarms.  Each theorem assumes *)
(* of the configuration no more than it needs.                             *)
(***************************************************************************)
EXTENDS RuleDomains, DataProofs, FiniteSetTheorems

-----------------------------------------------------------------------------
(* Loops, as recursion.                                                    *)

ReplacedStep(s, new, k, so) == [so EXCEPT ![s[k]] = new[s[k]]]
ReplacedRun(old, s, new, V, c) ==
  /\ Replaced(old, s, new) = c[Len(s)]
  /\ c[0] = old
  /\ \A k \in 1 .. Len(s) : c[k] = ReplacedStep(s, new, k, c[k - 1])
  /\ \A k \in 0 .. Len(s) : c[k] \in V[k]

\* A loop that replaces elements of old.
LEMMA ReplacedRecursion ==
  ASSUME NEW old, NEW s, NEW new,
         NEW V, Len(s) \in Nat, old \in V[0],
         \A k \in 1 .. Len(s) : \A v \in V[k - 1] : ReplacedStep(s, new, k, v) \in V[k]
  PROVE  \E c : ReplacedRun(old, s, new, V, c)
<1>. DEFINE n == Len(s)
            z == old
            Q(f) == f = [k \in 0 .. n |-> IF k = 0 THEN old ELSE ReplacedStep(s, new, k, f[k - 1])]
            c == CHOOSE f : Q(f)
            F == [k \in 1 .. n |-> [v \in V[k - 1] |-> ReplacedStep(s, new, k, v)]]
<1>0. n \in Nat /\ 0 \in 0 .. n /\ \A k \in 1 .. n : k \in 0 .. n /\ k - 1 \in 0 .. n /\ k # 0
  OBVIOUS
<1>1. \A k \in 1 .. n : \A v \in V[k - 1] : F[k][v] = ReplacedStep(s, new, k, v)
  OBVIOUS
<1>2. Replaced(old, s, new) = c[n]
  BY DEF Replaced, ReplacedStep
<1>. HIDE DEF F, z, n
<1>3. Within(z, F, n, V)
  BY <1>0, <1>1 DEF Within, n, z
<1>4. PICK f : RecursionWithin(z, F, n, V, f)
  BY <1>0, <1>3, RecursionChosen
<1>5. Q(f)
  <2>1. \A k \in 1 .. n : f[k] = ReplacedStep(s, new, k, f[k - 1])
    BY <1>0, <1>1, <1>4 DEF RecursionWithin
  <2>2. \A k \in 0 .. n : k # 0 => k \in 1 .. n
    BY <1>0
  <2>3. f[0] = z /\ f = [k \in 0 .. n |-> f[k]]
    BY <1>4 DEF RecursionWithin
  <2>. QED BY <2>1, <2>2, <2>3 DEF z
<1>6. Q(c) => c[0] = z /\ \A k \in 1 .. n : c[k] = ReplacedStep(s, new, k, c[k - 1])
  <2>. DEFINE h == [k \in 0 .. n |-> IF k = 0 THEN old ELSE ReplacedStep(s, new, k, c[k - 1])]
  <2>1. h[0] = z
    BY <1>0 DEF z
  <2>2. \A k \in 1 .. n : h[k] = ReplacedStep(s, new, k, c[k - 1])
    BY <1>0
  <2>3. Q(c) => c = h
    OBVIOUS
  <2>. HIDE DEF h, Q, c
  <2>. QED BY <2>1, <2>2, <2>3
<1>. HIDE DEF Q
<1>7. c[0] = z /\ \A k \in 1 .. n : c[k] = ReplacedStep(s, new, k, c[k - 1])
  BY <1>5, <1>6
<1>. HIDE DEF c
<1>8. \A k \in 0 .. n : c[k] \in V[k]
  <2>1. \A k \in 1 .. n : c[k - 1] \in V[k - 1] => c[k] \in V[k]
    BY <1>7 DEF n
  <2>. QED BY <1>0, <1>7, <2>1, StepsInvariant DEF z
<1>. QED BY <1>2, <1>7, <1>8 DEF n, z, ReplacedRun

SatisfiedStep(e, T, k, so) ==
  LET true(p) == IF p.type = "EXPR" THEN p.sub \in so ELSE p \in T
  IN  so \cup {j \in {k} : \E a \in ToSet(e[k]) : \A p \in ToSet(a) : true(p)}
SatisfiedRun(e, T, V, c) ==
  /\ Satisfied(e, T) <=> (Len(e) \in c[Len(e)])
  /\ c[0] = {}
  /\ \A k \in 1 .. Len(e) : c[k] = SatisfiedStep(e, T, k, c[k - 1])
  /\ \A k \in 0 .. Len(e) : c[k] \in V[k]

\* The expressions that are satisfied, one after the other.
LEMMA SatisfiedRecursion ==
  ASSUME NEW e, NEW T,
         NEW V, Len(e) \in Nat, {} \in V[0],
         \A k \in 1 .. Len(e) : \A v \in V[k - 1] : SatisfiedStep(e, T, k, v) \in V[k]
  PROVE  \E c : SatisfiedRun(e, T, V, c)
<1>. DEFINE n == Len(e)
            z == {}
            Q(f) == f = [k \in 0 .. n |-> IF k = 0 THEN {} ELSE SatisfiedStep(e, T, k, f[k - 1])]
            c == CHOOSE f : Q(f)
            F == [k \in 1 .. n |-> [v \in V[k - 1] |-> SatisfiedStep(e, T, k, v)]]
<1>0. n \in Nat /\ 0 \in 0 .. n /\ \A k \in 1 .. n : k \in 0 .. n /\ k - 1 \in 0 .. n /\ k # 0
  OBVIOUS
<1>1. \A k \in 1 .. n : \A v \in V[k - 1] : F[k][v] = SatisfiedStep(e, T, k, v)
  OBVIOUS
<1>2. Satisfied(e, T) <=> (n \in c[n])
  BY DEF Satisfied, SatisfiedStep
<1>. HIDE DEF F, z, n
<1>3. Within(z, F, n, V)
  BY <1>0, <1>1 DEF Within, n, z
<1>4. PICK f : RecursionWithin(z, F, n, V, f)
  BY <1>0, <1>3, RecursionChosen
<1>5. Q(f)
  <2>1. \A k \in 1 .. n : f[k] = SatisfiedStep(e, T, k, f[k - 1])
    BY <1>0, <1>1, <1>4 DEF RecursionWithin
  <2>2. \A k \in 0 .. n : k # 0 => k \in 1 .. n
    BY <1>0
  <2>3. f[0] = z /\ f = [k \in 0 .. n |-> f[k]]
    BY <1>4 DEF RecursionWithin
  <2>. QED BY <2>1, <2>2, <2>3 DEF z
<1>6. Q(c) => c[0] = z /\ \A k \in 1 .. n : c[k] = SatisfiedStep(e, T, k, c[k - 1])
  <2>. DEFINE h == [k \in 0 .. n |-> IF k = 0 THEN {} ELSE SatisfiedStep(e, T, k, c[k - 1])]
  <2>1. h[0] = z
    BY <1>0 DEF z
  <2>2. \A k \in 1 .. n : h[k] = SatisfiedStep(e, T, k, c[k - 1])
    BY <1>0
  <2>3. Q(c) => c = h
    OBVIOUS
  <2>. HIDE DEF h, Q, c
  <2>. QED BY <2>1, <2>2, <2>3
<1>. HIDE DEF Q
<1>7. c[0] = z /\ \A k \in 1 .. n : c[k] = SatisfiedStep(e, T, k, c[k - 1])
  BY <1>5, <1>6
<1>. HIDE DEF c
<1>8. \A k \in 0 .. n : c[k] \in V[k]
  <2>1. \A k \in 1 .. n : c[k - 1] \in V[k - 1] => c[k] \in V[k]
    BY <1>7 DEF n
  <2>. QED BY <1>0, <1>7, <2>1, StepsInvariant DEF z
<1>. QED BY <1>2, <1>7, <1>8 DEF n, z, SatisfiedRun

MergedStep(ds, k, so) == IF k > 1 /\ so = <<>> THEN so ELSE AndMerge(so, ds[k])
MergedRun(ds, V, c) ==
  /\ Merged(ds) = c[Len(ds)]
  /\ c[0] = <<>>
  /\ \A k \in 1 .. Len(ds) : c[k] = MergedStep(ds, k, c[k - 1])
  /\ \A k \in 0 .. Len(ds) : c[k] \in V[k]

\* Merging one after the other.
LEMMA MergedRecursion ==
  ASSUME NEW ds,
         NEW V, Len(ds) \in Nat, <<>> \in V[0],
         \A k \in 1 .. Len(ds) : \A v \in V[k - 1] : MergedStep(ds, k, v) \in V[k]
  PROVE  \E c : MergedRun(ds, V, c)
<1>. DEFINE n == Len(ds)
            z == <<>>
            Q(f) == f = [k \in 0 .. n |-> IF k = 0 THEN <<>> ELSE MergedStep(ds, k, f[k - 1])]
            c == CHOOSE f : Q(f)
            F == [k \in 1 .. n |-> [v \in V[k - 1] |-> MergedStep(ds, k, v)]]
<1>0. n \in Nat /\ 0 \in 0 .. n /\ \A k \in 1 .. n : k \in 0 .. n /\ k - 1 \in 0 .. n /\ k # 0
  OBVIOUS
<1>1. \A k \in 1 .. n : \A v \in V[k - 1] : F[k][v] = MergedStep(ds, k, v)
  OBVIOUS
<1>2. Merged(ds) = c[n]
  BY DEF Merged, MergedStep
<1>. HIDE DEF F, z, n
<1>3. Within(z, F, n, V)
  BY <1>0, <1>1 DEF Within, n, z
<1>4. PICK f : RecursionWithin(z, F, n, V, f)
  BY <1>0, <1>3, RecursionChosen
<1>5. Q(f)
  <2>1. \A k \in 1 .. n : f[k] = MergedStep(ds, k, f[k - 1])
    BY <1>0, <1>1, <1>4 DEF RecursionWithin
  <2>2. \A k \in 0 .. n : k # 0 => k \in 1 .. n
    BY <1>0
  <2>3. f[0] = z /\ f = [k \in 0 .. n |-> f[k]]
    BY <1>4 DEF RecursionWithin
  <2>. QED BY <2>1, <2>2, <2>3 DEF z
<1>6. Q(c) => c[0] = z /\ \A k \in 1 .. n : c[k] = MergedStep(ds, k, c[k - 1])
  <2>. DEFINE h == [k \in 0 .. n |-> IF k = 0 THEN <<>> ELSE MergedStep(ds, k, c[k - 1])]
  <2>1. h[0] = z
    BY <1>0 DEF z
  <2>2. \A k \in 1 .. n : h[k] = MergedStep(ds, k, c[k - 1])
    BY <1>0
  <2>3. Q(c) => c = h
    OBVIOUS
  <2>. HIDE DEF h, Q, c
  <2>. QED BY <2>1, <2>2, <2>3
<1>. HIDE DEF Q
<1>7. c[0] = z /\ \A k \in 1 .. n : c[k] = MergedStep(ds, k, c[k - 1])
  BY <1>5, <1>6
<1>. HIDE DEF c
<1>8. \A k \in 0 .. n : c[k] \in V[k]
  <2>1. \A k \in 1 .. n : c[k - 1] \in V[k - 1] => c[k] \in V[k]
    BY <1>7 DEF n
  <2>. QED BY <1>0, <1>7, <2>1, StepsInvariant DEF z
<1>. QED BY <1>2, <1>7, <1>8 DEF n, z, MergedRun

DomainStep(hs, e, k, so) ==
  Append(so, FlattenSeq([j \in DOMAIN e[k] |-> DomainAndExpr(hs, e[k][j], so)]))
DomainRun(hs, e, V, c) ==
  /\ DomainExpr(hs, e) = c[Len(e)][Len(e)]
  /\ c[0] = <<>>
  /\ \A k \in 1 .. Len(e) : c[k] = DomainStep(hs, e, k, c[k - 1])
  /\ \A k \in 0 .. Len(e) : c[k] \in V[k]

\* The domains of the expressions of a WHERE clause, one after the other.
LEMMA DomainRecursion ==
  ASSUME NEW hs, NEW e,
         NEW V, Len(e) \in Nat, <<>> \in V[0],
         \A k \in 1 .. Len(e) : \A v \in V[k - 1] : DomainStep(hs, e, k, v) \in V[k]
  PROVE  \E c : DomainRun(hs, e, V, c)
<1>. DEFINE n == Len(e)
            z == <<>>
            Q(f) == f = [k \in 0 .. n |-> IF k = 0 THEN <<>> ELSE DomainStep(hs, e, k, f[k - 1])]
            c == CHOOSE f : Q(f)
            F == [k \in 1 .. n |-> [v \in V[k - 1] |-> DomainStep(hs, e, k, v)]]
<1>0. n \in Nat /\ 0 \in 0 .. n /\ \A k \in 1 .. n : k \in 0 .. n /\ k - 1 \in 0 .. n /\ k # 0
  OBVIOUS
<1>1. \A k \in 1 .. n : \A v \in V[k - 1] : F[k][v] = DomainStep(hs, e, k, v)
  OBVIOUS
<1>2. DomainExpr(hs, e) = c[n][n]
  BY DEF DomainExpr, DomainStep
<1>. HIDE DEF F, z, n
<1>3. Within(z, F, n, V)
  BY <1>0, <1>1 DEF Within, n, z
<1>4. PICK f : RecursionWithin(z, F, n, V, f)
  BY <1>0, <1>3, RecursionChosen
<1>5. Q(f)
  <2>1. \A k \in 1 .. n : f[k] = DomainStep(hs, e, k, f[k - 1])
    BY <1>0, <1>1, <1>4 DEF RecursionWithin
  <2>2. \A k \in 0 .. n : k # 0 => k \in 1 .. n
    BY <1>0
  <2>3. f[0] = z /\ f = [k \in 0 .. n |-> f[k]]
    BY <1>4 DEF RecursionWithin
  <2>. QED BY <2>1, <2>2, <2>3 DEF z
<1>6. Q(c) => c[0] = z /\ \A k \in 1 .. n : c[k] = DomainStep(hs, e, k, c[k - 1])
  <2>. DEFINE h == [k \in 0 .. n |-> IF k = 0 THEN <<>> ELSE DomainStep(hs, e, k, c[k - 1])]
  <2>1. h[0] = z
    BY <1>0 DEF z
  <2>2. \A k \in 1 .. n : h[k] = DomainStep(hs, e, k, c[k - 1])
    BY <1>0
  <2>3. Q(c) => c = h
    OBVIOUS
  <2>. HIDE DEF h, Q, c
  <2>. QED BY <2>1, <2>2, <2>3
<1>. HIDE DEF Q
<1>7. c[0] = z /\ \A k \in 1 .. n : c[k] = DomainStep(hs, e, k, c[k - 1])
  BY <1>5, <1>6
<1>. HIDE DEF c
<1>8. \A k \in 0 .. n : c[k] \in V[k]
  <2>1. \A k \in 1 .. n : c[k - 1] \in V[k - 1] => c[k] \in V[k]
    BY <1>7 DEF n
  <2>. QED BY <1>0, <1>7, <2>1, StepsInvariant DEF z
<1>. QED BY <1>2, <1>7, <1>8 DEF n, z, DomainRun

AndStep(a, ctx, below, k, so) == IF so.b THEN BooleanCond(a[k], ctx, below, so) ELSE so
AndRun(a, ctx, below, st, V, c) ==
  /\ BooleanAndExpr(a, ctx, below, st) = c[Len(a)]
  /\ c[0] = [st EXCEPT !.b = TRUE]
  /\ \A k \in 1 .. Len(a) : c[k] = AndStep(a, ctx, below, k, c[k - 1])
  /\ \A k \in 0 .. Len(a) : c[k] \in V[k]

\* The primaries of an alternative, one after the other.
LEMMA AndRecursion ==
  ASSUME NEW a, NEW ctx, NEW below, NEW st,
         NEW V, Len(a) \in Nat, [st EXCEPT !.b = TRUE] \in V[0],
         \A k \in 1 .. Len(a) : \A v \in V[k - 1] : AndStep(a, ctx, below, k, v) \in V[k]
  PROVE  \E c : AndRun(a, ctx, below, st, V, c)
<1>. DEFINE n == Len(a)
            z == [st EXCEPT !.b = TRUE]
            Q(f) == f = [k \in 0 .. n |-> IF k = 0 THEN [st EXCEPT !.b = TRUE] ELSE AndStep(a, ctx, below, k, f[k - 1])]
            c == CHOOSE f : Q(f)
            F == [k \in 1 .. n |-> [v \in V[k - 1] |-> AndStep(a, ctx, below, k, v)]]
<1>0. n \in Nat /\ 0 \in 0 .. n /\ \A k \in 1 .. n : k \in 0 .. n /\ k - 1 \in 0 .. n /\ k # 0
  OBVIOUS
<1>1. \A k \in 1 .. n : \A v \in V[k - 1] : F[k][v] = AndStep(a, ctx, below, k, v)
  OBVIOUS
<1>2. BooleanAndExpr(a, ctx, below, st) = c[n]
  BY DEF BooleanAndExpr, AndStep
<1>. HIDE DEF F, z, n
<1>3. Within(z, F, n, V)
  BY <1>0, <1>1 DEF Within, n, z
<1>4. PICK f : RecursionWithin(z, F, n, V, f)
  BY <1>0, <1>3, RecursionChosen
<1>5. Q(f)
  <2>1. \A k \in 1 .. n : f[k] = AndStep(a, ctx, below, k, f[k - 1])
    BY <1>0, <1>1, <1>4 DEF RecursionWithin
  <2>2. \A k \in 0 .. n : k # 0 => k \in 1 .. n
    BY <1>0
  <2>3. f[0] = z /\ f = [k \in 0 .. n |-> f[k]]
    BY <1>4 DEF RecursionWithin
  <2>. QED BY <2>1, <2>2, <2>3 DEF z
<1>6. Q(c) => c[0] = z /\ \A k \in 1 .. n : c[k] = AndStep(a, ctx, below, k, c[k - 1])
  <2>. DEFINE h == [k \in 0 .. n |-> IF k = 0 THEN [st EXCEPT !.b = TRUE] ELSE AndStep(a, ctx, below, k, c[k - 1])]
  <2>1. h[0] = z
    BY <1>0 DEF z
  <2>2. \A k \in 1 .. n : h[k] = AndStep(a, ctx, below, k, c[k - 1])
    BY <1>0
  <2>3. Q(c) => c = h
    OBVIOUS
  <2>. HIDE DEF h, Q, c
  <2>. QED BY <2>1, <2>2, <2>3
<1>. HIDE DEF Q
<1>7. c[0] = z /\ \A k \in 1 .. n : c[k] = AndStep(a, ctx, below, k, c[k - 1])
  BY <1>5, <1>6
<1>. HIDE DEF c
<1>8. \A k \in 0 .. n : c[k] \in V[k]
  <2>1. \A k \in 1 .. n : c[k - 1] \in V[k - 1] => c[k] \in V[k]
    BY <1>7 DEF n
  <2>. QED BY <1>0, <1>7, <2>1, StepsInvariant DEF z
<1>. QED BY <1>2, <1>7, <1>8 DEF n, z, AndRun

OrStep(a, ctx, below, k, so) == IF so.b THEN so ELSE BooleanAndExpr(a[k], ctx, below, so)
OrRun(a, ctx, below, st, V, c) ==
  /\ BooleanOrExpr(a, ctx, below, st) = c[Len(a)]
  /\ c[0] = [st EXCEPT !.b = FALSE]
  /\ \A k \in 1 .. Len(a) : c[k] = OrStep(a, ctx, below, k, c[k - 1])
  /\ \A k \in 0 .. Len(a) : c[k] \in V[k]

\* The alternatives of an expression, one after the other.
LEMMA OrRecursion ==
  ASSUME NEW a, NEW ctx, NEW below, NEW st,
         NEW V, Len(a) \in Nat, [st EXCEPT !.b = FALSE] \in V[0],
         \A k \in 1 .. Len(a) : \A v \in V[k - 1] : OrStep(a, ctx, below, k, v) \in V[k]
  PROVE  \E c : OrRun(a, ctx, below, st, V, c)
<1>. DEFINE n == Len(a)
            z == [st EXCEPT !.b = FALSE]
            Q(f) == f = [k \in 0 .. n |-> IF k = 0 THEN [st EXCEPT !.b = FALSE] ELSE OrStep(a, ctx, below, k, f[k - 1])]
            c == CHOOSE f : Q(f)
            F == [k \in 1 .. n |-> [v \in V[k - 1] |-> OrStep(a, ctx, below, k, v)]]
<1>0. n \in Nat /\ 0 \in 0 .. n /\ \A k \in 1 .. n : k \in 0 .. n /\ k - 1 \in 0 .. n /\ k # 0
  OBVIOUS
<1>1. \A k \in 1 .. n : \A v \in V[k - 1] : F[k][v] = OrStep(a, ctx, below, k, v)
  OBVIOUS
<1>2. BooleanOrExpr(a, ctx, below, st) = c[n]
  BY DEF BooleanOrExpr, OrStep
<1>. HIDE DEF F, z, n
<1>3. Within(z, F, n, V)
  BY <1>0, <1>1 DEF Within, n, z
<1>4. PICK f : RecursionWithin(z, F, n, V, f)
  BY <1>0, <1>3, RecursionChosen
<1>5. Q(f)
  <2>1. \A k \in 1 .. n : f[k] = OrStep(a, ctx, below, k, f[k - 1])
    BY <1>0, <1>1, <1>4 DEF RecursionWithin
  <2>2. \A k \in 0 .. n : k # 0 => k \in 1 .. n
    BY <1>0
  <2>3. f[0] = z /\ f = [k \in 0 .. n |-> f[k]]
    BY <1>4 DEF RecursionWithin
  <2>. QED BY <2>1, <2>2, <2>3 DEF z
<1>6. Q(c) => c[0] = z /\ \A k \in 1 .. n : c[k] = OrStep(a, ctx, below, k, c[k - 1])
  <2>. DEFINE h == [k \in 0 .. n |-> IF k = 0 THEN [st EXCEPT !.b = FALSE] ELSE OrStep(a, ctx, below, k, c[k - 1])]
  <2>1. h[0] = z
    BY <1>0 DEF z
  <2>2. \A k \in 1 .. n : h[k] = OrStep(a, ctx, below, k, c[k - 1])
    BY <1>0
  <2>3. Q(c) => c = h
    OBVIOUS
  <2>. HIDE DEF h, Q, c
  <2>. QED BY <2>1, <2>2, <2>3
<1>. HIDE DEF Q
<1>7. c[0] = z /\ \A k \in 1 .. n : c[k] = OrStep(a, ctx, below, k, c[k - 1])
  BY <1>5, <1>6
<1>. HIDE DEF c
<1>8. \A k \in 0 .. n : c[k] \in V[k]
  <2>1. \A k \in 1 .. n : c[k - 1] \in V[k - 1] => c[k] \in V[k]
    BY <1>7 DEF n
  <2>. QED BY <1>0, <1>7, <2>1, StepsInvariant DEF z
<1>. QED BY <1>2, <1>7, <1>8 DEF n, z, OrRun

BooleanStep(e, ctx, k, so) ==
  Append(so, [x \in Progress(Len(ctx.hs)) |-> BooleanOrExpr(e[k], ctx, so, x)])
BooleanRun(e, ctx, st, V, c) ==
  /\ BooleanExpr(e, ctx, st) = c[Len(e)][Len(e)][st]
  /\ c[0] = <<>>
  /\ \A k \in 1 .. Len(e) : c[k] = BooleanStep(e, ctx, k, c[k - 1])
  /\ \A k \in 0 .. Len(e) : c[k] \in V[k]

\* The expressions of a rule, one after the other.
LEMMA BooleanRecursion ==
  ASSUME NEW e, NEW ctx, NEW st,
         NEW V, Len(e) \in Nat, <<>> \in V[0],
         \A k \in 1 .. Len(e) : \A v \in V[k - 1] : BooleanStep(e, ctx, k, v) \in V[k]
  PROVE  \E c : BooleanRun(e, ctx, st, V, c)
<1>. DEFINE n == Len(e)
            z == <<>>
            Q(f) == f = [k \in 0 .. n |-> IF k = 0 THEN <<>> ELSE BooleanStep(e, ctx, k, f[k - 1])]
            c == CHOOSE f : Q(f)
            F == [k \in 1 .. n |-> [v \in V[k - 1] |-> BooleanStep(e, ctx, k, v)]]
<1>0. n \in Nat /\ 0 \in 0 .. n /\ \A k \in 1 .. n : k \in 0 .. n /\ k - 1 \in 0 .. n /\ k # 0
  OBVIOUS
<1>1. \A k \in 1 .. n : \A v \in V[k - 1] : F[k][v] = BooleanStep(e, ctx, k, v)
  OBVIOUS
<1>2. BooleanExpr(e, ctx, st) = c[n][n][st]
  BY DEF BooleanExpr, BooleanStep
<1>. HIDE DEF F, z, n
<1>3. Within(z, F, n, V)
  BY <1>0, <1>1 DEF Within, n, z
<1>4. PICK f : RecursionWithin(z, F, n, V, f)
  BY <1>0, <1>3, RecursionChosen
<1>5. Q(f)
  <2>1. \A k \in 1 .. n : f[k] = BooleanStep(e, ctx, k, f[k - 1])
    BY <1>0, <1>1, <1>4 DEF RecursionWithin
  <2>2. \A k \in 0 .. n : k # 0 => k \in 1 .. n
    BY <1>0
  <2>3. f[0] = z /\ f = [k \in 0 .. n |-> f[k]]
    BY <1>4 DEF RecursionWithin
  <2>. QED BY <2>1, <2>2, <2>3 DEF z
<1>6. Q(c) => c[0] = z /\ \A k \in 1 .. n : c[k] = BooleanStep(e, ctx, k, c[k - 1])
  <2>. DEFINE h == [k \in 0 .. n |-> IF k = 0 THEN <<>> ELSE BooleanStep(e, ctx, k, c[k - 1])]
  <2>1. h[0] = z
    BY <1>0 DEF z
  <2>2. \A k \in 1 .. n : h[k] = BooleanStep(e, ctx, k, c[k - 1])
    BY <1>0
  <2>3. Q(c) => c = h
    OBVIOUS
  <2>. HIDE DEF h, Q, c
  <2>. QED BY <2>1, <2>2, <2>3
<1>. HIDE DEF Q
<1>7. c[0] = z /\ \A k \in 1 .. n : c[k] = BooleanStep(e, ctx, k, c[k - 1])
  BY <1>5, <1>6
<1>. HIDE DEF c
<1>8. \A k \in 0 .. n : c[k] \in V[k]
  <2>1. \A k \in 1 .. n : c[k - 1] \in V[k - 1] => c[k] \in V[k]
    BY <1>7 DEF n
  <2>. QED BY <1>0, <1>7, <2>1, StepsInvariant DEF z
<1>. QED BY <1>2, <1>7, <1>8 DEF n, z, BooleanRun

PairsOf(e, r, d, i) ==
  IF i \in Primitive[r] THEN CondRange(HitsOf(e, r)[i], d[i]) ELSE <<NullPair>>
ValuesStep(e, r, d, i, vs) ==
  LET ps == PairsOf(e, r, d, i)
  IN  FlattenSeq([k \in DOMAIN vs |-> [j \in DOMAIN ps |-> Append(vs[k], ps[j])]])
ValuesRun(e, r, d, V, c) ==
  /\ ValuesOf(e, r, d) = c[Len(d)]
  /\ c[0] = << <<>> >>
  /\ \A k \in 1 .. Len(d) : c[k] = ValuesStep(e, r, d, k, c[k - 1])
  /\ \A k \in 0 .. Len(d) : c[k] \in V[k]

\* The values of a domain, one condition after the other.
LEMMA ValuesRecursion ==
  ASSUME NEW e, NEW r, NEW d,
         NEW V, Len(d) \in Nat, << <<>> >> \in V[0],
         \A k \in 1 .. Len(d) : \A v \in V[k - 1] : ValuesStep(e, r, d, k, v) \in V[k]
  PROVE  \E c : ValuesRun(e, r, d, V, c)
<1>. DEFINE n == Len(d)
            z == << <<>> >>
            Q(f) == f = [k \in 0 .. n |-> IF k = 0 THEN << <<>> >> ELSE ValuesStep(e, r, d, k, f[k - 1])]
            c == CHOOSE f : Q(f)
            F == [k \in 1 .. n |-> [v \in V[k - 1] |-> ValuesStep(e, r, d, k, v)]]
<1>0. n \in Nat /\ 0 \in 0 .. n /\ \A k \in 1 .. n : k \in 0 .. n /\ k - 1 \in 0 .. n /\ k # 0
  OBVIOUS
<1>1. \A k \in 1 .. n : \A v \in V[k - 1] : F[k][v] = ValuesStep(e, r, d, k, v)
  OBVIOUS
<1>2. ValuesOf(e, r, d) = c[n]
  BY DEF ValuesOf, ValuesStep, PairsOf
<1>. HIDE DEF F, z, n
<1>3. Within(z, F, n, V)
  BY <1>0, <1>1 DEF Within, n, z
<1>4. PICK f : RecursionWithin(z, F, n, V, f)
  BY <1>0, <1>3, RecursionChosen
<1>5. Q(f)
  <2>1. \A k \in 1 .. n : f[k] = ValuesStep(e, r, d, k, f[k - 1])
    BY <1>0, <1>1, <1>4 DEF RecursionWithin
  <2>2. \A k \in 0 .. n : k # 0 => k \in 1 .. n
    BY <1>0
  <2>3. f[0] = z /\ f = [k \in 0 .. n |-> f[k]]
    BY <1>4 DEF RecursionWithin
  <2>. QED BY <2>1, <2>2, <2>3 DEF z
<1>6. Q(c) => c[0] = z /\ \A k \in 1 .. n : c[k] = ValuesStep(e, r, d, k, c[k - 1])
  <2>. DEFINE h == [k \in 0 .. n |-> IF k = 0 THEN << <<>> >> ELSE ValuesStep(e, r, d, k, c[k - 1])]
  <2>1. h[0] = z
    BY <1>0 DEF z
  <2>2. \A k \in 1 .. n : h[k] = ValuesStep(e, r, d, k, c[k - 1])
    BY <1>0
  <2>3. Q(c) => c = h
    OBVIOUS
  <2>. HIDE DEF h, Q, c
  <2>. QED BY <2>1, <2>2, <2>3
<1>. HIDE DEF Q
<1>7. c[0] = z /\ \A k \in 1 .. n : c[k] = ValuesStep(e, r, d, k, c[k - 1])
  BY <1>5, <1>6
<1>. HIDE DEF c
<1>8. \A k \in 0 .. n : c[k] \in V[k]
  <2>1. \A k \in 1 .. n : c[k - 1] \in V[k - 1] => c[k] \in V[k]
    BY <1>7 DEF n
  <2>. QED BY <1>0, <1>7, <2>1, StepsInvariant DEF z
<1>. QED BY <1>2, <1>7, <1>8 DEF n, z, ValuesRun

NothingFound(e, r) == [new |-> FALSE, key |-> <<>>, round |-> e.rule[r].round]
FoundStep(e, r, k, so) == IF so.new THEN so ELSE Attempt(e, r, Tries(e, r)[k], so.round)
FoundRun(e, r, V, c) ==
  /\ Found(e, r) = c[Len(Tries(e, r))]
  /\ c[0] = NothingFound(e, r)
  /\ \A k \in 1 .. Len(Tries(e, r)) : c[k] = FoundStep(e, r, k, c[k - 1])
  /\ \A k \in 0 .. Len(Tries(e, r)) : c[k] \in V[k]

\* The values that a rule looks at, one after the other.
LEMMA FoundRecursion ==
  ASSUME NEW e, NEW r,
         NEW V, Len(Tries(e, r)) \in Nat, NothingFound(e, r) \in V[0],
         \A k \in 1 .. Len(Tries(e, r)) : \A v \in V[k - 1] : FoundStep(e, r, k, v) \in V[k]
  PROVE  \E c : FoundRun(e, r, V, c)
<1>. DEFINE n == Len(Tries(e, r))
            z == NothingFound(e, r)
            Q(f) == f = [k \in 0 .. n |-> IF k = 0 THEN NothingFound(e, r) ELSE FoundStep(e, r, k, f[k - 1])]
            c == CHOOSE f : Q(f)
            F == [k \in 1 .. n |-> [v \in V[k - 1] |-> FoundStep(e, r, k, v)]]
<1>0. n \in Nat /\ 0 \in 0 .. n /\ \A k \in 1 .. n : k \in 0 .. n /\ k - 1 \in 0 .. n /\ k # 0
  OBVIOUS
<1>1. \A k \in 1 .. n : \A v \in V[k - 1] : F[k][v] = FoundStep(e, r, k, v)
  OBVIOUS
<1>2. Found(e, r) = c[n]
  BY DEF Found, FoundStep, NothingFound
<1>. HIDE DEF F, z, n
<1>3. Within(z, F, n, V)
  BY <1>0, <1>1 DEF Within, n, z
<1>4. PICK f : RecursionWithin(z, F, n, V, f)
  BY <1>0, <1>3, RecursionChosen
<1>5. Q(f)
  <2>1. \A k \in 1 .. n : f[k] = FoundStep(e, r, k, f[k - 1])
    BY <1>0, <1>1, <1>4 DEF RecursionWithin
  <2>2. \A k \in 0 .. n : k # 0 => k \in 1 .. n
    BY <1>0
  <2>3. f[0] = z /\ f = [k \in 0 .. n |-> f[k]]
    BY <1>4 DEF RecursionWithin
  <2>. QED BY <2>1, <2>2, <2>3 DEF z
<1>6. Q(c) => c[0] = z /\ \A k \in 1 .. n : c[k] = FoundStep(e, r, k, c[k - 1])
  <2>. DEFINE h == [k \in 0 .. n |-> IF k = 0 THEN NothingFound(e, r) ELSE FoundStep(e, r, k, c[k - 1])]
  <2>1. h[0] = z
    BY <1>0 DEF z
  <2>2. \A k \in 1 .. n : h[k] = FoundStep(e, r, k, c[k - 1])
    BY <1>0
  <2>3. Q(c) => c = h
    OBVIOUS
  <2>. HIDE DEF h, Q, c
  <2>. QED BY <2>1, <2>2, <2>3
<1>. HIDE DEF Q
<1>7. c[0] = z /\ \A k \in 1 .. n : c[k] = FoundStep(e, r, k, c[k - 1])
  BY <1>5, <1>6
<1>. HIDE DEF c
<1>8. \A k \in 0 .. n : c[k] \in V[k]
  <2>1. \A k \in 1 .. n : c[k - 1] \in V[k - 1] => c[k] \in V[k]
    BY <1>7 DEF n
  <2>. QED BY <1>0, <1>7, <2>1, StepsInvariant DEF z
<1>. QED BY <1>2, <1>7, <1>8 DEF n, z, FoundRun

Told(e, r) == \E c \in ToSet(P(r).conds) : Flipped(c, e.hit)
EvaluatedStep(e, k, so) == IF Told(e, Rules[k]) THEN EvaluateRule(so, Rules[k]) ELSE so
EvaluatedRun(e, V, c) ==
  /\ Evaluated(e) = c[Len(Rules)]
  /\ c[0] = e
  /\ \A k \in 1 .. Len(Rules) : c[k] = EvaluatedStep(e, k, c[k - 1])
  /\ \A k \in 0 .. Len(Rules) : c[k] \in V[k]

\* The rules, one after the other.
LEMMA EvaluatedRecursion ==
  ASSUME NEW e,
         NEW V, Len(Rules) \in Nat, e \in V[0],
         \A k \in 1 .. Len(Rules) : \A v \in V[k - 1] : EvaluatedStep(e, k, v) \in V[k]
  PROVE  \E c : EvaluatedRun(e, V, c)
<1>. DEFINE n == Len(Rules)
            z == e
            Q(f) == f = [k \in 0 .. n |-> IF k = 0 THEN e ELSE EvaluatedStep(e, k, f[k - 1])]
            c == CHOOSE f : Q(f)
            F == [k \in 1 .. n |-> [v \in V[k - 1] |-> EvaluatedStep(e, k, v)]]
<1>0. n \in Nat /\ 0 \in 0 .. n /\ \A k \in 1 .. n : k \in 0 .. n /\ k - 1 \in 0 .. n /\ k # 0
  OBVIOUS
<1>1. \A k \in 1 .. n : \A v \in V[k - 1] : F[k][v] = EvaluatedStep(e, k, v)
  OBVIOUS
<1>2. Evaluated(e) = c[n]
  BY DEF Evaluated, EvaluatedStep, Told
<1>. HIDE DEF F, z, n
<1>3. Within(z, F, n, V)
  BY <1>0, <1>1 DEF Within, n, z
<1>4. PICK f : RecursionWithin(z, F, n, V, f)
  BY <1>0, <1>3, RecursionChosen
<1>5. Q(f)
  <2>1. \A k \in 1 .. n : f[k] = EvaluatedStep(e, k, f[k - 1])
    BY <1>0, <1>1, <1>4 DEF RecursionWithin
  <2>2. \A k \in 0 .. n : k # 0 => k \in 1 .. n
    BY <1>0
  <2>3. f[0] = z /\ f = [k \in 0 .. n |-> f[k]]
    BY <1>4 DEF RecursionWithin
  <2>. QED BY <2>1, <2>2, <2>3 DEF z
<1>6. Q(c) => c[0] = z /\ \A k \in 1 .. n : c[k] = EvaluatedStep(e, k, c[k - 1])
  <2>. DEFINE h == [k \in 0 .. n |-> IF k = 0 THEN e ELSE EvaluatedStep(e, k, c[k - 1])]
  <2>1. h[0] = z
    BY <1>0 DEF z
  <2>2. \A k \in 1 .. n : h[k] = EvaluatedStep(e, k, c[k - 1])
    BY <1>0
  <2>3. Q(c) => c = h
    OBVIOUS
  <2>. HIDE DEF h, Q, c
  <2>. QED BY <2>1, <2>2, <2>3
<1>. HIDE DEF Q
<1>7. c[0] = z /\ \A k \in 1 .. n : c[k] = EvaluatedStep(e, k, c[k - 1])
  BY <1>5, <1>6
<1>. HIDE DEF c
<1>8. \A k \in 0 .. n : c[k] \in V[k]
  <2>1. \A k \in 1 .. n : c[k - 1] \in V[k - 1] => c[k] \in V[k]
    BY <1>7 DEF n
  <2>. QED BY <1>0, <1>7, <2>1, StepsInvariant DEF z
<1>. QED BY <1>2, <1>7, <1>8 DEF n, z, EvaluatedRun

-----------------------------------------------------------------------------
(* Merges.                                                                 *)

\* A merge is the intersection of all its lists (ma_domain_andexpr.cpp).
LEMMA MergedMeans ==
  ASSUME NEW n \in Nat \ {0}, NEW ds \in Seq(Seq(Clean(n))), ds # <<>>, NEW v \in ValuesOfSize(n)
  PROVE  /\ Merged(ds) \in Seq(Clean(n))
         /\ Denotes(Merged(ds), v) <=> \A k \in DOMAIN ds : Denotes(ds[k], v)
<1>. DEFINE m == Len(ds)
            All(k) == \A j \in 1 .. k : Denotes(ds[j], v)
            V == [k \in 0 .. m |-> {t \in Seq(Clean(n)) : IF k = 0 THEN t = <<>>
                                                          ELSE Denotes(t, v) <=> All(k)}]
<1>0. /\ m \in Nat /\ m # 0 /\ DOMAIN ds = 1 .. m /\ 0 \in 0 .. m /\ m \in 0 .. m
      /\ \A k \in 1 .. m : k \in 0 .. m /\ k - 1 \in 0 .. m /\ k # 0 /\ ds[k] \in Seq(Clean(n))
  OBVIOUS
<1>1. <<>> \in V[0]
  BY <1>0
<1>2. ASSUME NEW k \in 1 .. m, NEW t \in V[k - 1]
      PROVE  MergedStep(ds, k, t) \in V[k]
  <2>0. t \in Seq(Clean(n)) /\ IF k - 1 = 0 THEN t = <<>> ELSE Denotes(t, v) <=> All(k - 1)
    BY <1>0, <1>2
  <2>. SUFFICES MergedStep(ds, k, t) \in Seq(Clean(n)) /\ (Denotes(MergedStep(ds, k, t), v) <=> All(k))
    BY <1>0
  <2>1. CASE k = 1
    <3>1. MergedStep(ds, k, t) = ds[1]
      BY <2>0, <2>1 DEF MergedStep, AndMerge
    <3>2. All(k) <=> Denotes(ds[1], v)
      BY <2>1
    <3>. QED BY <3>1, <3>2, <1>0, <2>1
  <2>2. CASE k # 1
    <3>0. Denotes(t, v) <=> All(k - 1)
      BY <2>0, <2>2
    <3>1. All(k) <=> All(k - 1) /\ Denotes(ds[k], v)
      <4>1. 1 .. k = (1 .. k - 1) \cup {k}
        BY <1>0
      <4>. QED BY <4>1
    <3>. HIDE DEF All
    <3>2. CASE t = <<>>
      <4>1. ~Denotes(t, v)
        BY <3>2 DEF Denotes, ToSet
      <4>2. MergedStep(ds, k, t) = t
        BY <3>2, <2>2 DEF MergedStep
      <4>. QED BY <4>1, <4>2, <3>0, <3>1, <2>0
    <3>3. CASE t # <<>>
      <4>1. MergedStep(ds, k, t) = AndMerge(t, ds[k])
        BY <3>3 DEF MergedStep
      <4>2. AndMerge(t, ds[k]) \in Seq(Clean(n))
            /\ (Denotes(AndMerge(t, ds[k]), v) <=> Denotes(t, v) /\ Denotes(ds[k], v))
        BY <2>0, <3>3, <1>0, AndMergeMeans
      <4>. QED BY <4>1, <4>2, <3>0, <3>1
    <3>. QED BY <3>2, <3>3
  <2>. QED BY <2>1, <2>2
<1>3. PICK c : MergedRun(ds, V, c)
  <2>. HIDE DEF V
  <2>. QED BY <1>0, <1>1, <1>2, MergedRecursion
<1>4. Merged(ds) = c[m] /\ c[m] \in V[m]
  <2>. HIDE DEF V
  <2>. QED BY <1>3, <1>0 DEF MergedRun
<1>. QED BY <1>4, <1>0

-----------------------------------------------------------------------------
(* Names and their indices.                                                *)

\* find_source() and find_target(): the index of a name that the table has, D_NIL for
\* another (ma_hitmap.cpp).
LEMMA FindArgFacts ==
  ASSUME NEW S, NEW h, NEW arg, NEW name, NEW t, t = Table(h, arg), t \in Seq(S), IsInjective(t)
  PROVE  /\ FindArg(h, name, arg) \in (0 .. Len(t) - 1) \cup {D_NIL}
         /\ FindArg(h, name, arg) = D_NIL <=> name \notin ToSet(t)
         /\ \A i \in 0 .. Len(t) - 1 : FindArg(h, name, arg) = i <=> t[i + 1] = name
<1>0. DOMAIN t = 1 .. Len(t) /\ Len(t) \in Nat
  OBVIOUS
<1>1. CASE name \notin ToSet(t)
  <2>1. FindArg(h, name, arg) = D_NIL
    BY <1>1 DEF FindArg
  <2>2. \A i \in 0 .. Len(t) - 1 : t[i + 1] # name
    BY <1>0, <1>1 DEF ToSet
  <2>. QED BY <1>1, <2>1, <2>2 DEF D_NIL
<1>2. CASE name \in ToSet(t)
  <2>. DEFINE k == CHOOSE i \in DOMAIN t : t[i] = name
  <2>1. k \in 1 .. Len(t) /\ t[k] = name
    BY <1>0, <1>2 DEF ToSet
  <2>2. FindArg(h, name, arg) = k - 1
    BY <1>2 DEF FindArg
  <2>. HIDE DEF k
  <2>3. \A i \in 0 .. Len(t) - 1 : t[i + 1] = name => i + 1 = k
    BY <1>0, <2>1 DEF IsInjective
  <2>4. k - 1 \in 0 .. Len(t) - 1 /\ (k - 1) + 1 = k
    BY <1>0, <2>1
  <2>. QED BY <1>0, <1>2, <2>1, <2>2, <2>3, <2>4 DEF D_NIL
<1>. QED BY <1>1, <1>2

\* Hitmaps of n conditions, with what a table of names needs to be.
TablesOK(hs, n) ==
  /\ Len(hs) = n /\ DOMAIN hs = 1 .. n
  /\ \A i \in 1 .. n, arg \in {"s", "t"} :
       Table(hs[i], arg) \in Seq(ToSet(NameOrder)) /\ IsInjective(Table(hs[i], arg))

\* Pairs of indices that are those of sources and targets.
InTables(hs, n, v) ==
  v \in ValuesOfSize(n) /\ \A i \in 1 .. n : v[i] \in Cells(hs[i].srcs, hs[i].tgts)

ArgSet(n) == [i : 1 .. n, arg : {"s", "t"}]
Component(v, a) == v[a.i][IF a.arg = "s" THEN 1 ELSE 2]
IndexOf(hs, name, a) == FindArg(hs[a.i], name, a.arg)
Called(hs, v, a) == Table(hs[a.i], a.arg)[Component(v, a) + 1]

\* A name's index is the value's exactly when the value's name is that name.
LEMMA CalledIndex ==
  ASSUME NEW n \in Nat, NEW hs, TablesOK(hs, n), NEW v, InTables(hs, n, v),
         NEW a \in ArgSet(n), NEW name
  PROVE  IndexOf(hs, name, a) = Component(v, a) <=> Called(hs, v, a) = name
<1>. DEFINE t == Table(hs[a.i], a.arg)
<1>0. a.i \in 1 .. n /\ a.arg \in {"s", "t"}
  BY DEF ArgSet
<1>1. t \in Seq(ToSet(NameOrder)) /\ IsInjective(t)
  BY <1>0 DEF TablesOK
<1>2. Component(v, a) \in 0 .. Len(t) - 1
  BY <1>0 DEF InTables, Cells, Component, Table
<1>. HIDE DEF t
<1>3. FindArg(hs[a.i], name, a.arg) = Component(v, a) <=> t[Component(v, a) + 1] = name
  BY <1>1, <1>2, FindArgFacts DEF t
<1>. QED BY <1>3 DEF t, Called, IndexOf

\* The name that a value gives an argument of the clause.
LEMMA CalledFacts ==
  ASSUME NEW n \in Nat, NEW hs, TablesOK(hs, n), NEW v, InTables(hs, n, v),
         NEW a \in ArgSet(n)
  PROVE  /\ Component(v, a) \in Nat
         /\ Called(hs, v, a) \in ToSet(NameOrder)
         /\ Called(hs, v, a) \in ToSet(Table(hs[a.i], a.arg))
<1>. DEFINE t == Table(hs[a.i], a.arg)
<1>0. a.i \in 1 .. n /\ a.arg \in {"s", "t"}
  BY DEF ArgSet
<1>1. t \in Seq(ToSet(NameOrder)) /\ IsInjective(t)
  BY <1>0 DEF TablesOK
<1>2. Component(v, a) \in 0 .. Len(t) - 1
  BY <1>0 DEF InTables, Cells, Component, Table
<1>. HIDE DEF t
<1>3. Component(v, a) + 1 \in 1 .. Len(t)
  BY <1>1, <1>2
<1>4. t[Component(v, a) + 1] \in ToSet(NameOrder) /\ t[Component(v, a) + 1] \in ToSet(t)
  BY <1>1, <1>3 DEF ToSet
<1>. QED BY <1>2, <1>4 DEF t, Called

\* The greatest of some numbers.
LEMMA GreatestIndex ==
  ASSUME NEW n \in Nat, NEW T \in SUBSET (1 .. n), T # {}
  PROVE  \E m \in T : \A j \in T : j <= m
<1>. DEFINE U == {k \in Nat : n - k \in T}
<1>1. \A t \in T : n - t \in U
  <2>1. \A t \in T : n - t \in Nat /\ n - (n - t) = t
    OBVIOUS
  <2>. QED BY <2>1
<1>2. PICK k \in U : \A j \in U : k <= j
  <2>1. U # {} /\ U \subseteq Nat
    BY <1>1
  <2>. HIDE DEF U
  <2>. QED BY <2>1, LeastNatural
<1>3. n - k \in T /\ k \in Nat
  OBVIOUS
<1>4. \A j \in T : j <= n - k
  <2>. SUFFICES ASSUME NEW j \in T PROVE j <= n - k
    OBVIOUS
  <2>1. k <= n - j
    BY <1>1, <1>2
  <2>2. j \in Int /\ n \in Int /\ k \in Int
    BY <1>3
  <2>. HIDE DEF U
  <2>. QED BY <2>1, <2>2
<1>. QED BY <1>3, <1>4

-----------------------------------------------------------------------------
(* What the primaries of a WHERE clause denote.                            *)

\* An alternative for each of some choices, each of which fixes some indices.
LEMMA SingleFacts ==
  ASSUME NEW k \in Nat, NEW arg \in {"s", "t"}, NEW u \in Nat \X Nat
  PROVE  /\ Single(k, arg) \in CondDomain /\ ~CondIsNull(Single(k, arg))
         /\ Stands(Single(k, arg), u) <=> k = u[IF arg = "s" THEN 1 ELSE 2]
BY DEF Single, CondDomain, Index, CondIsNull, Stands, D_ANY, D_NIL

\* The pair of two wild cards stands for every pair.
LEMMA AnyPairFacts ==
  /\ AnyPair \in CondDomain /\ ~CondIsNull(AnyPair)
  /\ \A u \in Nat \X Nat : Stands(AnyPair, u)
BY DEF AnyPair, CondDomain, Index, CondIsNull, Stands, D_ANY, D_NIL

\* cond.$ = ... = 'string' (ma_domain_cond.cpp).
LEMMA StringMeans ==
  ASSUME NEW n \in Nat \ {0}, NEW hs, TablesOK(hs, n), NEW args \in Seq(ArgSet(n)), args # <<>>,
         NEW str
  PROVE  /\ StringDomains(hs, args, str) \in Seq(Clean(n))
         /\ (\A a, b \in ToSet(args) : a.i = b.i => a = b) =>
              \A v : InTables(hs, n, v) =>
                (Denotes(StringDomains(hs, args, str), v)
                   <=> \A a \in ToSet(args) : Called(hs, v, a) = str)
<1>. DEFINE index(k) == FindArg(hs[args[k].i], str, args[k].arg)
            mentions(i) == {k \in DOMAIN args : args[k].i = i}
            latest(i) == CHOOSE k \in mentions(i) : \A j \in mentions(i) : j <= k
            d == [i \in 1 .. Len(hs) |-> IF mentions(i) = {} THEN AnyPair
                                         ELSE Single(index(latest(i)), args[latest(i)].arg)]
<1>0. /\ DOMAIN args = 1 .. Len(args) /\ Len(args) \in Nat /\ Len(hs) = n
      /\ \A k \in DOMAIN args : args[k] \in ArgSet(n) /\ args[k].i \in 1 .. n /\ args[k].arg \in {"s", "t"}
  <2>1. /\ DOMAIN args = 1 .. Len(args) /\ Len(args) \in Nat /\ Len(hs) = n
        /\ \A k \in DOMAIN args : args[k] \in ArgSet(n)
    BY DEF TablesOK
  <2>2. \A a \in ArgSet(n) : a.i \in 1 .. n /\ a.arg \in {"s", "t"}
    BY DEF ArgSet
  <2>. QED BY <2>1, <2>2
<1>1. \A k \in DOMAIN args : index(k) \in Nat \cup {D_NIL}
  <2>. SUFFICES ASSUME NEW k \in DOMAIN args PROVE index(k) \in Nat \cup {D_NIL}
    OBVIOUS
  <2>. DEFINE t == Table(hs[args[k].i], args[k].arg)
  <2>1. t \in Seq(ToSet(NameOrder)) /\ IsInjective(t)
    BY <1>0 DEF TablesOK
  <2>2. index(k) \in (0 .. Len(t) - 1) \cup {D_NIL}
    BY <2>1, FindArgFacts
  <2>3. Len(t) \in Nat
    BY <2>1
  <2>. HIDE DEF t, index
  <2>. QED BY <2>2, <2>3
<1>2. \A k \in DOMAIN args : \A v : InTables(hs, n, v) =>
        (index(k) = Component(v, args[k]) <=> Called(hs, v, args[k]) = str)
  <2>. SUFFICES ASSUME NEW k \in DOMAIN args, NEW v, InTables(hs, n, v)
                PROVE  index(k) = Component(v, args[k]) <=> Called(hs, v, args[k]) = str
    OBVIOUS
  <2>. DEFINE a == args[k]
  <2>1. a \in ArgSet(n) /\ n \in Nat
    BY <1>0
  <2>2. index(k) = FindArg(hs[a.i], str, a.arg)
    OBVIOUS
  <2>. HIDE DEF a, index
  <2>3. IndexOf(hs, str, a) = Component(v, a) <=> Called(hs, v, a) = str
    BY <2>1, CalledIndex
  <2>. QED BY <2>2, <2>3 DEF a, IndexOf
<1>3. CASE \E k \in DOMAIN args : index(k) = D_NIL
  <2>1. StringDomains(hs, args, str) = <<>>
    BY <1>3 DEF StringDomains
  <2>2. PICK k \in DOMAIN args : index(k) = D_NIL
    BY <1>3
  <2>3. \A v : InTables(hs, n, v) => Called(hs, v, args[k]) # str
    <3>1. \A v : InTables(hs, n, v) => Component(v, args[k]) \in Nat
      BY <1>0, CalledFacts
    <3>2. D_NIL \notin Nat
      BY DEF D_NIL
    <3>. HIDE DEF index
    <3>. QED BY <1>2, <2>2, <3>1, <3>2
  <2>4. ~\E x \in ToSet(<<>>) : TRUE
    BY DEF ToSet
  <2>5. args[k] \in ToSet(args)
    BY DEF ToSet
  <2>. QED BY <2>1, <2>3, <2>4, <2>5 DEF Denotes
<1>4. CASE \A k \in DOMAIN args : index(k) # D_NIL
  <2>1. StringDomains(hs, args, str) = <<d>>
    BY <1>4 DEF StringDomains
  <2>2. \A i \in 1 .. n : mentions(i) # {} => latest(i) \in mentions(i)
    <3>. SUFFICES ASSUME NEW i \in 1 .. n, mentions(i) # {} PROVE latest(i) \in mentions(i)
      OBVIOUS
    <3>1. mentions(i) \in SUBSET (1 .. Len(args))
      BY <1>0
    <3>2. \E k \in mentions(i) : \A j \in mentions(i) : j <= k
      <4>. HIDE DEF mentions
      <4>. QED BY <1>0, <3>1, GreatestIndex
    <3>. QED BY <3>2
  <2>3. \A k \in DOMAIN args : index(k) \in Nat
    BY <1>1, <1>4
  <2>. HIDE DEF latest, index
  <2>4. \A i \in 1 .. n : mentions(i) # {} =>
          /\ latest(i) \in DOMAIN args /\ args[latest(i)].i = i
          /\ index(latest(i)) \in Nat /\ args[latest(i)].arg \in {"s", "t"}
    BY <1>0, <2>2, <2>3
  <2>5. \A i \in 1 .. n : d[i] \in CondDomain /\ ~CondIsNull(d[i])
    <3>. SUFFICES ASSUME NEW i \in 1 .. n PROVE d[i] \in CondDomain /\ ~CondIsNull(d[i])
      OBVIOUS
    <3>1. CASE mentions(i) = {}
      <4>1. d[i] = AnyPair
        BY <3>1, <1>0
      <4>. QED BY <4>1, AnyPairFacts
    <3>2. CASE mentions(i) # {}
      <4>1. d[i] = Single(index(latest(i)), args[latest(i)].arg)
        BY <3>2, <1>0
      <4>. HIDE DEF d, mentions
      <4>2. <<0, 0>> \in Nat \X Nat
        OBVIOUS
      <4>. QED BY <3>2, <4>1, <4>2, <2>4, SingleFacts
    <3>. QED BY <3>1, <3>2
  <2>6. d \in Clean(n)
    <3>1. d \in [1 .. n -> CondDomain] /\ DOMAIN d = 1 .. n
      BY <2>5, <1>0
    <3>2. d # <<>>
      <4>1. 1 \in DOMAIN d /\ 1 \notin DOMAIN <<>>
        BY <3>1
      <4>. HIDE DEF d
      <4>. QED BY <4>1
    <3>. HIDE DEF d
    <3>. QED BY <2>5, <3>1, <3>2 DEF Clean, DomainsOfSize, IsNull
  <2>7. ASSUME \A a, b \in ToSet(args) : a.i = b.i => a = b, NEW v, InTables(hs, n, v)
        PROVE  Denotes(<<d>>, v) <=> \A a \in ToSet(args) : Called(hs, v, a) = str
    <3>1. Denotes(<<d>>, v) <=> \A i \in 1 .. n : Stands(d[i], v[i])
      <4>. HIDE DEF d
      <4>1. ToSet(<<d>>) = {d}
        BY DEF ToSet
      <4>2. v \in ValuesOfSize(n)
        BY <2>7 DEF InTables
      <4>. QED BY <4>1, <4>2, <2>6, InDomainStands DEF Denotes, Clean
    <3>2. \A i \in 1 .. n : v[i] \in Nat \X Nat
      BY <2>7 DEF InTables, ValuesOfSize
    <3>3. \A i \in 1 .. n : mentions(i) = {} => Stands(d[i], v[i])
      <4>1. \A i \in 1 .. n : mentions(i) = {} => d[i] = AnyPair
        BY <1>0
      <4>. HIDE DEF d, mentions
      <4>. QED BY <4>1, <3>2, AnyPairFacts
    <3>4. \A i \in 1 .. n : mentions(i) # {} =>
            (Stands(d[i], v[i]) <=> Called(hs, v, args[latest(i)]) = str)
      <4>. SUFFICES ASSUME NEW i \in 1 .. n, mentions(i) # {}
                    PROVE  Stands(d[i], v[i]) <=> Called(hs, v, args[latest(i)]) = str
        OBVIOUS
      <4>. DEFINE l == latest(i)
      <4>1. d[i] = Single(index(l), args[l].arg)
        BY <1>0
      <4>2. l \in DOMAIN args /\ args[l].i = i /\ index(l) \in Nat /\ args[l].arg \in {"s", "t"}
        BY <2>4
      <4>. HIDE DEF d, mentions, l
      <4>3. Stands(d[i], v[i]) <=> index(l) = v[i][IF args[l].arg = "s" THEN 1 ELSE 2]
        BY <4>1, <4>2, <3>2, SingleFacts
      <4>4. Stands(d[i], v[i]) <=> index(l) = Component(v, args[l])
        BY <4>2, <4>3 DEF Component
      <4>5. Stands(d[i], v[i]) <=> Called(hs, v, args[l]) = str
        BY <4>4, <4>2, <1>2, <2>7
      <4>. QED BY <4>5 DEF l
    <3>5. \A k \in DOMAIN args : mentions(args[k].i) # {} /\ args[latest(args[k].i)] = args[k]
      <4>. SUFFICES ASSUME NEW k \in DOMAIN args
                    PROVE  mentions(args[k].i) # {} /\ args[latest(args[k].i)] = args[k]
        OBVIOUS
      <4>1. k \in mentions(args[k].i) /\ args[k].i \in 1 .. n
        BY <1>0
      <4>2. latest(args[k].i) \in DOMAIN args /\ args[latest(args[k].i)].i = args[k].i
        BY <4>1, <2>4
      <4>3. \A j \in DOMAIN args : args[j] \in ToSet(args)
        BY DEF ToSet
      <4>. HIDE DEF mentions
      <4>. QED BY <4>1, <4>2, <4>3, <2>7
    <3>. HIDE DEF d
    <3>6. (\A i \in 1 .. n : Stands(d[i], v[i])) <=> \A k \in DOMAIN args : Called(hs, v, args[k]) = str
      <4>1. ASSUME \A i \in 1 .. n : Stands(d[i], v[i]), NEW k \in DOMAIN args
            PROVE  Called(hs, v, args[k]) = str
        <5>1. args[k].i \in 1 .. n /\ mentions(args[k].i) # {} /\ args[latest(args[k].i)] = args[k]
          BY <1>0, <3>5
        <5>. HIDE DEF mentions
        <5>. QED BY <5>1, <3>4, <4>1
      <4>2. ASSUME \A k \in DOMAIN args : Called(hs, v, args[k]) = str, NEW i \in 1 .. n
            PROVE  Stands(d[i], v[i])
        <5>. HIDE DEF mentions
        <5>. QED BY <2>4, <3>3, <3>4, <4>2
      <4>. QED BY <4>1, <4>2
    <3>7. (\A k \in DOMAIN args : Called(hs, v, args[k]) = str)
            <=> \A a \in ToSet(args) : Called(hs, v, a) = str
      BY DEF ToSet
    <3>. QED BY <3>1, <3>6, <3>7
  <2>8. <<d>> \in Seq(Clean(n))
    BY <2>6
  <2>. HIDE DEF d
  <2>. QED BY <2>1, <2>7, <2>8
<1>. QED BY <1>3, <1>4
-----------------------------------------------------------------------------
\* cond.$ = cond.$ = ... (ma_domain_cond.cpp).
LEMMA EqualMeans ==
  ASSUME NEW n \in Nat \ {0}, NEW hs, TablesOK(hs, n), NEW args \in Seq(ArgSet(n)), args # <<>>,
         NameOrder \in Seq(STRING)
  PROVE  /\ EqualDomains(hs, args) \in Seq(Clean(n))
         /\ \A v : InTables(hs, n, v) =>
              (Denotes(EqualDomains(hs, args), v)
                 <=> \A a, b \in ToSet(args) : Called(hs, v, a) = Called(hs, v, b))
<1>. DEFINE known == {x \in ToSet(NameOrder) :
                        \A a \in ToSet(args) : FindArg(hs[a.i], x, a.arg) # D_NIL}
            names == Keep(NameOrder, known)
            index(x, i, arg) == IF [i |-> i, arg |-> arg] \in ToSet(args) THEN FindArg(hs[i], x, arg)
                                ELSE D_ANY
            dom(x) == [i \in 1 .. Len(hs) |-> <<index(x, i, "s"), index(x, i, "t")>>]
            ds == [k \in DOMAIN names |-> dom(names[k])]
<1>0. Len(hs) = n /\ ToSet(args) \subseteq ArgSet(n) /\ EqualDomains(hs, args) = ds
  BY DEF TablesOK, ToSet, EqualDomains
<1>1. names \in Seq(STRING) /\ ToSet(names) = known
  <2>. HIDE DEF known
  <2>1. names \in Seq(STRING) /\ ToSet(names) = ToSet(NameOrder) \cap known
    BY KeepType, KeepSet
  <2>2. known \subseteq ToSet(NameOrder)
    BY DEF known
  <2>. QED BY <2>1, <2>2
<1>2. \A x \in known, a \in ToSet(args) : FindArg(hs[a.i], x, a.arg) \in Nat
  <2>. SUFFICES ASSUME NEW x \in known, NEW a \in ToSet(args) PROVE FindArg(hs[a.i], x, a.arg) \in Nat
    OBVIOUS
  <2>. DEFINE t == Table(hs[a.i], a.arg)
  <2>1. a.i \in 1 .. n /\ a.arg \in {"s", "t"}
    BY <1>0 DEF ArgSet
  <2>2. t \in Seq(ToSet(NameOrder)) /\ IsInjective(t)
    BY <2>1 DEF TablesOK
  <2>. HIDE DEF t
  <2>3. FindArg(hs[a.i], x, a.arg) \in (0 .. Len(t) - 1) \cup {D_NIL} /\ Len(t) \in Nat
    BY <2>2, FindArgFacts DEF t
  <2>4. FindArg(hs[a.i], x, a.arg) # D_NIL
    OBVIOUS
  <2>. QED BY <2>3, <2>4
<1>3. \A x \in known, i \in 1 .. n, arg \in {"s", "t"} :
        /\ index(x, i, arg) \in Nat \cup {D_ANY}
        /\ [i |-> i, arg |-> arg] \in ToSet(args) => index(x, i, arg) = FindArg(hs[i], x, arg)
        /\ [i |-> i, arg |-> arg] \notin ToSet(args) => index(x, i, arg) = D_ANY
  <2>. SUFFICES ASSUME NEW x \in known, NEW i \in 1 .. n, NEW arg \in {"s", "t"},
                       [i |-> i, arg |-> arg] \in ToSet(args)
                PROVE  FindArg(hs[i], x, arg) \in Nat
    OBVIOUS
  <2>. HIDE DEF known
  <2>1. [i |-> i, arg |-> arg].i = i /\ [i |-> i, arg |-> arg].arg = arg
    OBVIOUS
  <2>. QED BY <1>2, <2>1
<1>. HIDE DEF known, names, index
<1>4. \A x \in known : dom(x) \in Clean(n)
  <2>. SUFFICES ASSUME NEW x \in known PROVE dom(x) \in Clean(n)
    OBVIOUS
  <2>1. \A i \in 1 .. n : dom(x)[i] \in CondDomain /\ ~CondIsNull(dom(x)[i])
    <3>. SUFFICES ASSUME NEW i \in 1 .. n PROVE dom(x)[i] \in CondDomain /\ ~CondIsNull(dom(x)[i])
      OBVIOUS
    <3>1. dom(x)[i] = <<index(x, i, "s"), index(x, i, "t")>>
      BY <1>0
    <3>2. index(x, i, "s") \in Nat \cup {D_ANY} /\ index(x, i, "t") \in Nat \cup {D_ANY}
      BY <1>3
    <3>. HIDE DEF dom
    <3>. QED BY <3>1, <3>2 DEF CondDomain, Index, CondIsNull, D_ANY, D_NIL
  <2>2. dom(x) \in [1 .. n -> CondDomain] /\ DOMAIN dom(x) = 1 .. n
    BY <2>1, <1>0
  <2>. HIDE DEF dom
  <2>3. dom(x) # <<>>
    <3>1. 1 \in DOMAIN dom(x) /\ 1 \notin DOMAIN <<>>
      BY <2>2
    <3>. QED BY <3>1
  <2>. QED BY <2>1, <2>2, <2>3 DEF Clean, DomainsOfSize, IsNull
<1>5. DOMAIN names = 1 .. Len(names) /\ Len(names) \in Nat
      /\ (\A k \in DOMAIN names : names[k] \in known) /\ \A x \in known : \E k \in DOMAIN names : x = names[k]
  BY <1>1 DEF ToSet
<1>6. ds \in Seq(Clean(n))
  <2>. HIDE DEF dom
  <2>. QED BY <1>4, <1>5
<1>7. \A d : d \in ToSet(ds) <=> \E x \in known : d = dom(x)
  <2>. HIDE DEF dom
  <2>. QED BY <1>5 DEF ToSet
<1>8. ASSUME NEW v, InTables(hs, n, v), NEW x \in known
      PROVE  InDomain(dom(x), v) <=> \A a \in ToSet(args) : Called(hs, v, a) = x
  <2>1. InDomain(dom(x), v) <=> \A i \in 1 .. n : Stands(dom(x)[i], v[i])
    <3>1. v \in ValuesOfSize(n) /\ dom(x) \in DomainsOfSize(n)
      BY <1>4, <1>8 DEF InTables, Clean
    <3>. HIDE DEF dom
    <3>. QED BY <3>1, InDomainStands
  <2>2. \A i \in 1 .. n : Stands(dom(x)[i], v[i]) <=>
           \A arg \in {"s", "t"} : index(x, i, arg) \in {D_ANY, v[i][IF arg = "s" THEN 1 ELSE 2]}
    BY <1>0 DEF Stands
  <2>3. \A i \in 1 .. n, arg \in {"s", "t"} :
           index(x, i, arg) \in {D_ANY, v[i][IF arg = "s" THEN 1 ELSE 2]} <=>
             ([i |-> i, arg |-> arg] \in ToSet(args) => Called(hs, v, [i |-> i, arg |-> arg]) = x)
    <3>. SUFFICES ASSUME NEW i \in 1 .. n, NEW arg \in {"s", "t"}, [i |-> i, arg |-> arg] \in ToSet(args)
                  PROVE  index(x, i, arg) \in {D_ANY, v[i][IF arg = "s" THEN 1 ELSE 2]} <=>
                           Called(hs, v, [i |-> i, arg |-> arg]) = x
      BY <1>3
    <3>. DEFINE a == [i |-> i, arg |-> arg]
    <3>1. a \in ArgSet(n) /\ a \in ToSet(args) /\ a.i = i /\ a.arg = arg
      BY <1>0
    <3>. HIDE DEF a
    <3>2. IndexOf(hs, x, a) = Component(v, a) <=> Called(hs, v, a) = x
      BY <3>1, <1>8, CalledIndex
    <3>3. index(x, i, arg) = FindArg(hs[i], x, arg) /\ FindArg(hs[i], x, arg) \in Nat
      BY <3>1, <1>2, <1>3 DEF a
    <3>4. index(x, i, arg) # D_ANY
      BY <3>3 DEF D_ANY
    <3>. QED BY <3>1, <3>2, <3>3, <3>4 DEF Component, a, IndexOf
  <2>4. \A a \in ToSet(args) : a.i \in 1 .. n /\ a.arg \in {"s", "t"} /\ a = [i |-> a.i, arg |-> a.arg]
    BY <1>0 DEF ArgSet
  <2>. HIDE DEF dom
  <2>5. (\A i \in 1 .. n : Stands(dom(x)[i], v[i])) <=> \A i \in 1 .. n, arg \in {"s", "t"} :
           [i |-> i, arg |-> arg] \in ToSet(args) => Called(hs, v, [i |-> i, arg |-> arg]) = x
    BY <2>2, <2>3
  <2>6. (\A i \in 1 .. n, arg \in {"s", "t"} :
           [i |-> i, arg |-> arg] \in ToSet(args) => Called(hs, v, [i |-> i, arg |-> arg]) = x)
         <=> \A a \in ToSet(args) : Called(hs, v, a) = x
    <3>1. ASSUME \A i \in 1 .. n, arg \in {"s", "t"} :
                   [i |-> i, arg |-> arg] \in ToSet(args) => Called(hs, v, [i |-> i, arg |-> arg]) = x,
                 NEW a \in ToSet(args)
          PROVE  Called(hs, v, a) = x
      <4>1. a.i \in 1 .. n /\ a.arg \in {"s", "t"} /\ a = [i |-> a.i, arg |-> a.arg]
        BY <2>4
      <4>2. [i |-> a.i, arg |-> a.arg] \in ToSet(args)
        BY <4>1
      <4>. QED BY <4>1, <4>2, <3>1, Zenon
    <3>. QED BY <3>1
  <2>. QED BY <2>1, <2>5, <2>6
<1>9. ASSUME NEW v, InTables(hs, n, v)
      PROVE  Denotes(ds, v) <=> \A a, b \in ToSet(args) : Called(hs, v, a) = Called(hs, v, b)
  <2>1. Denotes(ds, v) <=> \E x \in known : \A a \in ToSet(args) : Called(hs, v, a) = x
    <3>. HIDE DEF dom, ds
    <3>. QED BY <1>7, <1>8, <1>9 DEF Denotes
  <2>2. PICK a \in ToSet(args) : TRUE
    <3>1. 1 \in DOMAIN args
      OBVIOUS
    <3>. QED BY <3>1 DEF ToSet
  <2>3. \A b \in ToSet(args) : /\ Called(hs, v, b) \in ToSet(NameOrder)
                               /\ Called(hs, v, b) \in ToSet(Table(hs[b.i], b.arg))
    BY <1>0, <1>9, CalledFacts
  <2>4. \A b \in ToSet(args) : \A x : x \in ToSet(Table(hs[b.i], b.arg)) => FindArg(hs[b.i], x, b.arg) # D_NIL
    <3>. SUFFICES ASSUME NEW b \in ToSet(args), NEW x, x \in ToSet(Table(hs[b.i], b.arg))
                  PROVE  FindArg(hs[b.i], x, b.arg) # D_NIL
      OBVIOUS
    <3>1. b.i \in 1 .. n /\ b.arg \in {"s", "t"}
      BY <1>0 DEF ArgSet
    <3>2. Table(hs[b.i], b.arg) \in Seq(ToSet(NameOrder)) /\ IsInjective(Table(hs[b.i], b.arg))
      BY <3>1 DEF TablesOK
    <3>. QED BY <3>2, FindArgFacts
  <2>5. ASSUME \A b, c \in ToSet(args) : Called(hs, v, b) = Called(hs, v, c)
        PROVE  Called(hs, v, a) \in known
    BY <2>2, <2>3, <2>4, <2>5 DEF known
  <2>. QED BY <2>1, <2>2, <2>5
<1>. HIDE DEF ds
<1>. QED BY <1>0, <1>6, <1>9

-----------------------------------------------------------------------------
(* Expressions.                                                            *)

\* The parts of an expression in table form.
LEMMA ExprFacts ==
  ASSUME NEW e, IsExpr(e)
  PROVE  /\ Len(e) \in Nat /\ DOMAIN e = 1 .. Len(e)
         /\ \A k \in 1 .. Len(e) :
              /\ e[k] \in Seq(ToSet(e[k])) /\ e[k] # <<>>
              /\ \A a \in ToSet(e[k]) :
                   /\ a \in Seq(ToSet(a)) /\ a # <<>>
                   /\ \A p \in ToSet(a) : IF p.type = "EXPR" THEN p.sub \in 1 .. k - 1
                                                              ELSE p \in Primaries(e)
<1>1. e \in Seq(ToSet(e))
  BY DEF IsExpr
<1>2. Len(e) \in Nat /\ DOMAIN e = 1 .. Len(e)
  BY <1>1
<1>3. ASSUME NEW k \in 1 .. Len(e)
      PROVE  /\ e[k] \in Seq(ToSet(e[k])) /\ e[k] # <<>>
             /\ \A a \in ToSet(e[k]) :
                  /\ a \in Seq(ToSet(a)) /\ a # <<>>
                  /\ \A p \in ToSet(a) : p.type = "EXPR" => p.sub \in 1 .. k - 1
  BY <1>2 DEF IsExpr, IsList
<1>4. ASSUME NEW k \in 1 .. Len(e), NEW a \in ToSet(e[k]), NEW p \in ToSet(a), p.type # "EXPR"
      PROVE  p \in Primaries(e)
  <2>1. a \in UNION {ToSet(e[j]) : j \in DOMAIN e}
    BY <1>2
  <2>2. p \in UNION {ToSet(b) : b \in UNION {ToSet(e[j]) : j \in DOMAIN e}}
    BY <2>1
  <2>. QED BY <2>2, <1>4 DEF Primaries
<1>. QED BY <1>2, <1>3, <1>4

\* What has to hold of one primary; Y has the numbers of the expressions in
\* parentheses that are satisfied.
Yes(p, Y, T) == IF p.type = "EXPR" THEN p.sub \in Y ELSE p \in T
Fulfilled(x, Y, T) == \E a \in ToSet(x) : \A p \in ToSet(a) : Yes(p, Y, T)

\* The expressions that are satisfied, once for all.
LEMMA SatisfiedIs ==
  ASSUME NEW e, IsExpr(e), NEW T
  PROVE  \E Y : /\ Satisfied(e, T) <=> Len(e) \in Y
                /\ \A k \in 1 .. Len(e) : k \in Y <=> Fulfilled(e[k], Y, T)
<1>. DEFINE n == Len(e)
            V == [k \in 0 .. n |-> SUBSET (1 .. k)]
<1>0. n \in Nat /\ 0 \in 0 .. n /\ n \in 0 .. n /\ \A k \in 1 .. n : k \in 0 .. n /\ k - 1 \in 0 .. n
  BY ExprFacts
<1>1. \A k \in 1 .. n : \A v : SatisfiedStep(e, T, k, v) = v \cup {j \in {k} : Fulfilled(e[k], v, T)}
  BY DEF SatisfiedStep, Fulfilled, Yes
<1>2. PICK c : SatisfiedRun(e, T, V, c)
  <2>1. {} \in V[0]
    BY <1>0
  <2>2. \A k \in 1 .. n : \A v \in V[k - 1] : SatisfiedStep(e, T, k, v) \in V[k]
    <3>. SUFFICES ASSUME NEW k \in 1 .. n, NEW v \in V[k - 1] PROVE SatisfiedStep(e, T, k, v) \in V[k]
      OBVIOUS
    <3>1. v \subseteq 1 .. k - 1
      BY <1>0
    <3>2. SatisfiedStep(e, T, k, v) \subseteq v \cup {k}
      BY <1>1
    <3>3. v \cup {k} \subseteq 1 .. k
      BY <3>1, <1>0
    <3>. QED BY <3>2, <3>3, <1>0
  <2>. HIDE DEF V
  <2>. QED BY <1>0, <2>1, <2>2, SatisfiedRecursion
<1>3. \A k \in 1 .. n : /\ c[k - 1] \subseteq 1 .. k - 1
                        /\ c[k] = c[k - 1] \cup {j \in {k} : Fulfilled(e[k], c[k - 1], T)}
  <2>0. /\ \A k \in 1 .. n : c[k] = SatisfiedStep(e, T, k, c[k - 1])
        /\ \A k \in 0 .. n : c[k] \in V[k]
    <3>. HIDE DEF V
    <3>. QED BY <1>2 DEF SatisfiedRun
  <2>1. \A k \in 1 .. n : c[k - 1] \in V[k - 1]
    <3>. HIDE DEF V
    <3>. QED BY <1>0, <2>0
  <2>2. \A k \in 1 .. n : V[k - 1] = SUBSET (1 .. k - 1)
    BY <1>0
  <2>. HIDE DEF V
  <2>. QED BY <1>1, <2>0, <2>1, <2>2
<1>4. \A k \in 0 .. n : \A j \in 1 .. k : j \in c[k] <=> j \in c[j]
  <2>. DEFINE W == [k \in 0 .. n |-> {s \in {c[k]} : \A j \in 1 .. k : j \in s <=> j \in c[j]}]
  <2>1. c[0] \in W[0]
    BY <1>0
  <2>2. \A k \in 1 .. n : c[k - 1] \in W[k - 1] => c[k] \in W[k]
    <3>. SUFFICES ASSUME NEW k \in 1 .. n, c[k - 1] \in W[k - 1], NEW j \in 1 .. k
                  PROVE  j \in c[k] <=> j \in c[j]
      BY <1>0
    <3>1. \A i \in 1 .. k - 1 : i \in c[k - 1] <=> i \in c[i]
      BY <1>0
    <3>2. CASE j = k
      BY <3>2
    <3>3. CASE j # k
      <4>1. j \in 1 .. k - 1
        BY <3>3
      <4>. QED BY <4>1, <3>1, <3>3, <1>3
    <3>. QED BY <3>2, <3>3
  <2>3. \A k \in 0 .. n : c[k] \in W[k]
    <3>. HIDE DEF W
    <3>. QED BY <1>0, <2>1, <2>2, StepsInvariant
  <2>. QED BY <2>3
<1>5. ASSUME NEW k \in 1 .. n
      PROVE  k \in c[n] <=> Fulfilled(e[k], c[n], T)
  <2>1. k \in c[n] <=> k \in c[k]
    BY <1>0, <1>4, <1>5
  <2>2. k \in c[k] <=> Fulfilled(e[k], c[k - 1], T)
    <3>1. k \notin 1 .. k - 1
      BY <1>0
    <3>. QED BY <3>1, <1>3, <1>5
  <2>3. \A j \in 1 .. k - 1 : j \in c[k - 1] <=> j \in c[n]
    BY <1>0, <1>4, <1>5
  <2>4. \A a \in ToSet(e[k]) : \A p \in ToSet(a) : Yes(p, c[k - 1], T) <=> Yes(p, c[n], T)
    <3>1. \A a \in ToSet(e[k]) : \A p \in ToSet(a) : p.type = "EXPR" => p.sub \in 1 .. k - 1
      BY <1>5 DEF IsExpr, IsList
    <3>. QED BY <2>3, <3>1 DEF Yes
  <2>5. Fulfilled(e[k], c[k - 1], T) <=> Fulfilled(e[k], c[n], T)
    BY <2>4 DEF Fulfilled
  <2>. QED BY <2>1, <2>2, <2>5
<1>6. Satisfied(e, T) <=> n \in c[n]
  <2>. HIDE DEF V
  <2>. QED BY <1>2 DEF SatisfiedRun
<1>. QED BY <1>5, <1>6

\* The names that a primary of a WHERE clause equates are equal.
EquatesIn(hs, v, p) ==
  IF p.type = "STRING" THEN \A a \in ToSet(p.args) : Called(hs, v, a) = p.str
  ELSE \A a, b \in ToSet(p.args) : Called(hs, v, a) = Called(hs, v, b)
EquatedBy(hs, v, e) == {p \in Primaries(e) : EquatesIn(hs, v, p)}

\* No condition is mentioned twice where a name is given.
Once(e) ==
  \A p \in Primaries(e) : p.type = "STRING" => \A a, b \in ToSet(p.args) : a.i = b.i => a = b

\* A primary of a WHERE clause denotes the values whose names it equates.
LEMMA PrimaryMeans ==
  ASSUME NEW n \in Nat \ {0}, NEW hs, TablesOK(hs, n), NEW e, IsWhere(e, n), NEW p \in Primaries(e),
         NameOrder \in Seq(STRING), NEW below
  PROVE  /\ DomainCond(hs, p, below) \in Seq(Clean(n))
         /\ Once(e) => \A v : InTables(hs, n, v) =>
              (Denotes(DomainCond(hs, p, below), v) <=> EquatesIn(hs, v, p))
<1>1. /\ p.type \in {"COND", "STRING"} /\ p.args \in Seq(ToSet(p.args)) /\ p.args # <<>>
      /\ ToSet(p.args) \subseteq ArgSet(n)
  BY DEF IsWhere, IsList, ArgSet
<1>2. p.args \in Seq(ArgSet(n))
  <2>. DEFINE s == p.args
  <2>. HIDE DEF s
  <2>1. s \in Seq(ToSet(s)) /\ ToSet(s) \subseteq ArgSet(n)
    BY <1>1 DEF s
  <2>. QED BY <2>1, SeqOfMembers DEF s
<1>3. CASE p.type = "STRING"
  <2>1. DomainCond(hs, p, below) = StringDomains(hs, p.args, p.str)
    BY <1>3 DEF DomainCond
  <2>2. Once(e) => \A a, b \in ToSet(p.args) : a.i = b.i => a = b
    BY <1>3 DEF Once
  <2>. QED BY <1>1, <1>2, <1>3, <2>1, <2>2, StringMeans DEF EquatesIn
<1>4. CASE p.type = "COND"
  <2>1. DomainCond(hs, p, below) = EqualDomains(hs, p.args)
    BY <1>4 DEF DomainCond
  <2>. QED BY <1>1, <1>2, <1>4, <2>1, EqualMeans DEF EquatesIn
<1>. QED BY <1>1, <1>3, <1>4

\* What the results of the expressions up to the k-th are; Y has those that v satisfies.
Results(hs, n, e, k, v, Y) ==
  {b \in Seq(Seq(Clean(n))) :
     Len(b) = k /\ (Once(e) /\ InTables(hs, n, v) => \A j \in 1 .. k : Denotes(b[j], v) <=> j \in Y)}

\* One more expression: ma_domain_andexpr and ma_domain_expr.
LEMMA DomainStepMeans ==
  ASSUME NEW n \in Nat \ {0}, NEW hs, TablesOK(hs, n), NEW e, IsWhere(e, n),
         NameOrder \in Seq(STRING), NEW v \in ValuesOfSize(n), NEW Y, NEW k \in 1 .. Len(e),
         NEW so \in Results(hs, n, e, k - 1, v, Y),
         k \in Y <=> Fulfilled(e[k], Y, EquatedBy(hs, v, e))
  PROVE  DomainStep(hs, e, k, so) \in Results(hs, n, e, k, v, Y)
<1>. DEFINE x == e[k]
            T == EquatedBy(hs, v, e)
            Good == Once(e) /\ InTables(hs, n, v)
            res(j) == DomainAndExpr(hs, x[j], so)
            rs == [j \in DOMAIN x |-> res(j)]
            flat == FlattenSeq(rs)
<1>0. IsExpr(e)
  BY DEF IsWhere
<1>1. /\ k \in Nat /\ k - 1 \in Nat /\ Len(x) \in Nat /\ DOMAIN x = 1 .. Len(x)
      /\ \A j \in DOMAIN x : x[j] \in ToSet(x) /\ x[j] \in Seq(ToSet(x[j])) /\ x[j] # <<>>
      /\ \A j \in DOMAIN x : \A p \in ToSet(x[j]) :
            IF p.type = "EXPR" THEN p.sub \in 1 .. k - 1 ELSE p \in Primaries(e)
  <2>1. Len(e) \in Nat
    BY <1>0, ExprFacts
  <2>2. x \in Seq(ToSet(x)) /\ \A a \in ToSet(x) :
           /\ a \in Seq(ToSet(a)) /\ a # <<>>
           /\ \A p \in ToSet(a) : IF p.type = "EXPR" THEN p.sub \in 1 .. k - 1 ELSE p \in Primaries(e)
    BY <1>0, ExprFacts
  <2>3. \A j \in DOMAIN x : x[j] \in ToSet(x)
    BY DEF ToSet
  <2>4. Len(x) \in Nat /\ DOMAIN x = 1 .. Len(x)
    <3>. HIDE DEF x
    <3>. QED BY <2>2
  <2>. HIDE DEF x
  <2>. QED BY <2>1, <2>2, <2>3, <2>4
<1>2. /\ so \in Seq(Seq(Clean(n))) /\ Len(so) = k - 1
      /\ Good => \A j \in 1 .. k - 1 : Denotes(so[j], v) <=> j \in Y
  BY DEF Results
<1>. HIDE DEF x, T
<1>3. ASSUME NEW j \in DOMAIN x, NEW i \in DOMAIN x[j]
      PROVE  /\ DomainCond(hs, x[j][i], so) \in Seq(Clean(n))
             /\ Good => (Denotes(DomainCond(hs, x[j][i], so), v) <=> Yes(x[j][i], Y, T))
  <2>. DEFINE p == x[j][i]
  <2>1. IF p.type = "EXPR" THEN p.sub \in 1 .. k - 1 ELSE p \in Primaries(e)
    <3>1. p \in ToSet(x[j])
      BY DEF ToSet
    <3>. QED BY <3>1, <1>1
  <2>. HIDE DEF p
  <2>2. CASE p.type = "EXPR"
    <3>1. DomainCond(hs, p, so) = so[p.sub] /\ p.sub \in 1 .. Len(so)
      BY <2>1, <2>2, <1>2 DEF DomainCond
    <3>2. so[p.sub] \in Seq(Clean(n))
      BY <3>1, <1>2
    <3>3. Yes(p, Y, T) <=> p.sub \in Y
      BY <2>2 DEF Yes
    <3>. QED BY <2>1, <2>2, <3>1, <3>2, <3>3, <1>2 DEF p
  <2>3. CASE p.type # "EXPR"
    <3>1. p \in Primaries(e)
      BY <2>1, <2>3
    <3>2. /\ DomainCond(hs, p, so) \in Seq(Clean(n))
          /\ Good => (Denotes(DomainCond(hs, p, so), v) <=> EquatesIn(hs, v, p))
      BY <3>1, PrimaryMeans
    <3>3. Yes(p, Y, T) <=> EquatesIn(hs, v, p)
      BY <2>3, <3>1 DEF Yes, T, EquatedBy
    <3>. QED BY <3>2, <3>3 DEF p
  <2>. QED BY <2>2, <2>3
<1>4. ASSUME NEW j \in DOMAIN x
      PROVE  /\ res(j) \in Seq(Clean(n))
             /\ Good => (Denotes(res(j), v) <=> \A p \in ToSet(x[j]) : Yes(p, Y, T))
  <2>. DEFINE ds == [i \in DOMAIN x[j] |-> DomainCond(hs, x[j][i], so)]
  <2>1. res(j) = Merged(ds)
    BY DEF DomainAndExpr
  <2>2. DOMAIN x[j] = 1 .. Len(x[j]) /\ Len(x[j]) \in Nat /\ Len(x[j]) # 0
    <3>. DEFINE a == x[j]
    <3>. HIDE DEF a
    <3>1. a \in Seq(ToSet(a)) /\ a # <<>>
      BY <1>1 DEF a
    <3>2. DOMAIN a = 1 .. Len(a) /\ Len(a) \in Nat /\ Len(a) # 0
      BY <3>1
    <3>. QED BY <3>2 DEF a
  <2>3. ds \in Seq(Seq(Clean(n))) /\ DOMAIN ds = DOMAIN x[j] /\ ds # <<>>
    <3>1. ds \in [1 .. Len(x[j]) -> Seq(Clean(n))]
      BY <2>2, <1>3
    <3>2. 1 \in DOMAIN ds /\ 1 \notin DOMAIN <<>>
      BY <2>2
    <3>3. DOMAIN ds = DOMAIN x[j]
      OBVIOUS
    <3>. HIDE DEF ds
    <3>. QED BY <3>1, <3>2, <3>3, <2>2
  <2>4. \A i \in DOMAIN x[j] : ds[i] = DomainCond(hs, x[j][i], so)
    OBVIOUS
  <2>. HIDE DEF ds
  <2>5. Merged(ds) \in Seq(Clean(n)) /\ (Denotes(Merged(ds), v) <=> \A i \in DOMAIN ds : Denotes(ds[i], v))
    BY <2>3, MergedMeans
  <2>6. Good => ((\A i \in DOMAIN ds : Denotes(ds[i], v)) <=> \A i \in DOMAIN x[j] : Yes(x[j][i], Y, T))
    BY <1>3, <2>3, <2>4
  <2>7. (\A i \in DOMAIN x[j] : Yes(x[j][i], Y, T)) <=> \A p \in ToSet(x[j]) : Yes(p, Y, T)
    BY DEF ToSet
  <2>. QED BY <2>1, <2>5, <2>6, <2>7
<1>. HIDE DEF res
<1>5. flat \in Seq(Clean(n)) /\ ToSet(flat) = UNION {ToSet(res(j)) : j \in DOMAIN x}
  <2>1. rs \in Seq(Seq(Clean(n))) /\ DOMAIN rs = DOMAIN x /\ \A j \in DOMAIN x : rs[j] = res(j)
    BY <1>1, <1>4
  <2>. HIDE DEF rs
  <2>2. flat \in Seq(Clean(n)) /\ ToSet(flat) = UNION {ToSet(rs[j]) : j \in DOMAIN rs}
    BY <2>1, FlattenFacts
  <2>. QED BY <2>1, <2>2
<1>6. Good => (Denotes(flat, v) <=> k \in Y)
  <2>. HIDE DEF flat, Good
  <2>1. Denotes(flat, v) <=> \E j \in DOMAIN x : Denotes(res(j), v)
    BY <1>5 DEF Denotes
  <2>2. Fulfilled(x, Y, T) <=> \E j \in DOMAIN x : \A p \in ToSet(x[j]) : Yes(p, Y, T)
    BY DEF Fulfilled, ToSet
  <2>3. k \in Y <=> Fulfilled(x, Y, T)
    BY DEF x, T
  <2>. QED BY <1>4, <2>1, <2>2, <2>3
<1>7. DomainStep(hs, e, k, so) = Append(so, flat)
  BY DEF DomainStep, res, x
<1>. HIDE DEF flat, Good
<1>8. /\ Append(so, flat) \in Seq(Seq(Clean(n))) /\ Len(Append(so, flat)) = k
      /\ \A j \in 1 .. k - 1 : Append(so, flat)[j] = so[j]
      /\ Append(so, flat)[k] = flat
  BY <1>1, <1>2, <1>5
<1>9. Good => \A j \in 1 .. k : Denotes(Append(so, flat)[j], v) <=> j \in Y
  <2>. SUFFICES ASSUME Good, NEW j \in 1 .. k PROVE Denotes(Append(so, flat)[j], v) <=> j \in Y
    OBVIOUS
  <2>1. CASE j = k
    BY <2>1, <1>6, <1>8
  <2>2. CASE j # k
    <3>1. j \in 1 .. k - 1
      BY <2>2, <1>1
    <3>. QED BY <3>1, <1>2, <1>8
  <2>. QED BY <2>1, <2>2
<1>. QED BY <1>7, <1>8, <1>9 DEF Results, Good

\* A WHERE clause denotes the values whose names satisfy it (ma_domain_expr.cpp).
LEMMA DomainExprMeans ==
  ASSUME NEW n \in Nat \ {0}, NEW hs, TablesOK(hs, n), NEW e, IsWhere(e, n), e # <<>>,
         NameOrder \in Seq(STRING), NEW v \in ValuesOfSize(n)
  PROVE  /\ DomainExpr(hs, e) \in Seq(Clean(n))
         /\ Once(e) /\ InTables(hs, n, v) =>
              (Denotes(DomainExpr(hs, e), v) <=> Satisfied(e, EquatedBy(hs, v, e)))
<1>. DEFINE m == Len(e)
            T == EquatedBy(hs, v, e)
<1>0. IsExpr(e)
  BY DEF IsWhere
<1>1. m \in Nat /\ m # 0 /\ 0 \in 0 .. m /\ m \in 0 .. m /\ m \in 1 .. m
      /\ \A k \in 1 .. m : k \in 0 .. m /\ k - 1 \in 0 .. m
  <2>1. e \in Seq(ToSet(e))
    BY <1>0 DEF IsExpr
  <2>2. m \in Nat /\ m # 0
    BY <2>1
  <2>. HIDE DEF m
  <2>. QED BY <2>2
<1>2. PICK Y : /\ Satisfied(e, T) <=> m \in Y
               /\ \A k \in 1 .. m : k \in Y <=> Fulfilled(e[k], Y, T)
  BY <1>0, SatisfiedIs
<1>. DEFINE V == [k \in 0 .. m |-> Results(hs, n, e, k, v, Y)]
<1>3. <<>> \in V[0]
  BY <1>1 DEF Results
<1>4. \A k \in 1 .. m : \A so \in V[k - 1] : DomainStep(hs, e, k, so) \in V[k]
  <2>. SUFFICES ASSUME NEW k \in 1 .. m, NEW so \in V[k - 1] PROVE DomainStep(hs, e, k, so) \in V[k]
    OBVIOUS
  <2>1. so \in Results(hs, n, e, k - 1, v, Y) /\ V[k] = Results(hs, n, e, k, v, Y)
    BY <1>1
  <2>. HIDE DEF V
  <2>. QED BY <2>1, <1>2, DomainStepMeans
<1>5. PICK c : DomainRun(hs, e, V, c)
  <2>. HIDE DEF V
  <2>. QED BY <1>1, <1>3, <1>4, DomainRecursion
<1>6. c[m] \in Results(hs, n, e, m, v, Y) /\ DomainExpr(hs, e) = c[m][m]
  <2>1. c[m] \in V[m] /\ DomainExpr(hs, e) = c[m][m]
    <3>. HIDE DEF V
    <3>. QED BY <1>1, <1>5 DEF DomainRun
  <2>. QED BY <1>1, <2>1
<1>7. /\ c[m] \in Seq(Seq(Clean(n))) /\ Len(c[m]) = m
      /\ Once(e) /\ InTables(hs, n, v) => \A j \in 1 .. m : Denotes(c[m][j], v) <=> j \in Y
  BY <1>6 DEF Results
<1>8. c[m][m] \in Seq(Clean(n))
  <2>. DEFINE s == c[m]
  <2>. HIDE DEF s, m
  <2>1. s \in Seq(Seq(Clean(n))) /\ m \in 1 .. Len(s)
    BY <1>1, <1>7 DEF s
  <2>2. s[m] \in Seq(Clean(n))
    BY <2>1
  <2>. QED BY <2>2 DEF s
<1>. HIDE DEF m, T
<1>. QED BY <1>1, <1>2, <1>6, <1>7, <1>8 DEF T

-----------------------------------------------------------------------------
(* The configuration.                                                      *)

\* The number of conditions of a rule.
N(r) == Len(P(r).conds)
Tuples(r) == [1 .. N(r) -> CondDomain]

\* What the configuration says of a rule.
LEMMA RuleFacts ==
  ASSUME NEW r \in RuleSet
  PROVE  /\ N(r) \in Nat \ {0} /\ DOMAIN P(r).conds = 1 .. N(r) /\ Len(P(r).conds) = N(r)
         /\ \A i \in 1 .. N(r) : P(r).conds[i] \in CondSet
         /\ IsInjective(P(r).conds)
         /\ IsBoolean(P(r).expr, N(r)) /\ IsExpr(P(r).expr) /\ P(r).expr # <<>>
         /\ IsWhere(P(r).where, N(r)) /\ P(r).act \in BOOLEAN
         /\ \A x \in P(r).text : x.i \in 1 .. N(r)
<1>1. IsRule(P(r))
  BY DomainsAssumption
<1>2. P(r).conds \in Seq(CondSet)
  BY <1>1 DEF IsRule
<1>. DEFINE s == P(r).conds
<1>3. Len(s) \in Nat /\ DOMAIN s = 1 .. Len(s) /\ \A i \in 1 .. Len(s) : s[i] \in CondSet
  <2>1. s \in Seq(CondSet)
    BY <1>2
  <2>. HIDE DEF s
  <2>. QED BY <2>1
<1>4. IsBoolean(P(r).expr, N(r)) /\ IsExpr(P(r).expr) /\ P(r).expr # <<>>
  BY <1>1 DEF IsRule, IsBoolean, N
<1>5. N(r) # 0
  <2>. DEFINE e == P(r).expr
  <2>1. IsExpr(e) /\ e # <<>> /\ {p.i : p \in Primaries(e)} = 1 .. N(r)
    BY <1>4 DEF IsBoolean
  <2>. HIDE DEF e
  <2>2. 1 \in 1 .. Len(e)
    <3>1. e \in Seq(ToSet(e))
      BY <2>1 DEF IsExpr
    <3>. QED BY <2>1, <3>1
  <2>3. PICK a \in ToSet(e[1]) : a \in Seq(ToSet(a)) /\ a # <<>>
    <3>. DEFINE x == e[1]
    <3>. HIDE DEF x
    <3>1. x \in Seq(ToSet(x)) /\ x # <<>> /\ \A a \in ToSet(x) : a \in Seq(ToSet(a)) /\ a # <<>>
      BY <2>1, <2>2, ExprFacts DEF x
    <3>2. x[1] \in ToSet(x)
      BY <3>1
    <3>. QED BY <3>1, <3>2 DEF x
  <2>4. a[1] \in ToSet(a)
    BY <2>3
  <2>5. IF a[1].type = "EXPR" THEN a[1].sub \in 1 .. 1 - 1 ELSE a[1] \in Primaries(e)
    BY <2>1, <2>2, <2>3, <2>4, ExprFacts
  <2>6. a[1].i \in 1 .. N(r)
    BY <2>1, <2>5
  <2>. QED BY <2>6
<1>6. IsWhere(P(r).where, N(r)) /\ IsInjective(P(r).conds) /\ P(r).act \in BOOLEAN
  BY <1>1 DEF IsRule, N
<1>7. \A x \in P(r).text : x.i \in DOMAIN P(r).conds
  BY <1>1 DEF IsRule
<1>. QED BY <1>3, <1>4, <1>5, <1>6, <1>7 DEF N

\* What a message brings.
LEMMA MessageFacts ==
  ASSUME NEW m \in Messages
  PROVE  /\ m.src \in STRING /\ m.tgt \in STRING /\ m.num \in Nat /\ m.fits \subseteq CondSet
         /\ \A c \in m.fits : SourceOf(c, m) \in ToSet(NameOrder) /\ TargetOf(c, m) \in ToSet(NameOrder)
BY DomainsAssumption

\* Conditions, rules and names are kept in lists.
LEMMA OrderFacts ==
  /\ Conds \in Seq(CondSet) /\ ToSet(Conds) = CondSet
  /\ ToSet(Rules) = RuleSet
  /\ Rules \in Seq(RuleSet) /\ Len(Rules) \in Nat
  /\ NameOrder \in Seq(STRING) /\ ToSet(NameOrder) \subseteq STRING
<1>1. ToSet(NameOrder) \subseteq STRING
  BY DomainsAssumption DEF ToSet
<1>2. Conds \in Seq(CondSet) /\ Rules \in Seq(RuleSet) /\ NameOrder \in Seq(STRING)
  BY DomainsAssumption
<1>. QED BY <1>1, <1>2 DEF CondSet, RuleSet

-----------------------------------------------------------------------------
(* Hitmaps.                                                                *)

\* Indices of t are indices of u, for the same names.
StartsWith(u, t) == Len(t) <= Len(u) /\ \A i \in 1 .. Len(t) : u[i] = t[i]

\* A name is appended to its table unless it is there (ma_hitmap.cpp, get_index()).
LEMMA KnownFacts ==
  ASSUME NEW S, NEW t \in Seq(S), IsInjective(t), NEW name \in S
  PROVE  /\ Known(t, name) \in Seq(S) /\ IsInjective(Known(t, name))
         /\ name \in ToSet(Known(t, name)) /\ Known(t, name) # <<>>
         /\ StartsWith(Known(t, name), t)
         /\ Known(t, name) # t => Len(Known(t, name)) = Len(t) + 1 /\ Known(t, name)[Len(t) + 1] = name
<1>1. CASE name \in ToSet(t)
  <2>1. Known(t, name) = t /\ t # <<>>
    BY <1>1 DEF Known, ToSet
  <2>. QED BY <1>1, <2>1 DEF StartsWith
<1>2. CASE name \notin ToSet(t)
  <2>. DEFINE u == Append(t, name)
  <2>1. Known(t, name) = u
    BY <1>2 DEF Known
  <2>2. /\ u \in Seq(S) /\ Len(u) = Len(t) + 1 /\ Len(t) \in Nat /\ u[Len(t) + 1] = name
        /\ DOMAIN u = 1 .. Len(t) + 1 /\ DOMAIN t = 1 .. Len(t) /\ \A i \in 1 .. Len(t) : u[i] = t[i]
    OBVIOUS
  <2>. HIDE DEF u
  <2>3. \A i \in 1 .. Len(t) : u[i] # name
    BY <1>2, <2>2 DEF ToSet
  <2>4. IsInjective(u)
    <3>. SUFFICES ASSUME NEW i \in 1 .. Len(t) + 1, NEW j \in 1 .. Len(t) + 1, u[i] = u[j] PROVE i = j
      BY <2>2 DEF IsInjective
    <3>1. CASE i = Len(t) + 1 \/ j = Len(t) + 1
      BY <3>1, <2>2, <2>3
    <3>2. CASE i \in 1 .. Len(t) /\ j \in 1 .. Len(t)
      BY <3>2, <2>2 DEF IsInjective
    <3>. QED BY <3>1, <3>2, <2>2
  <2>5. name \in ToSet(u) /\ u # <<>>
    BY <2>2 DEF ToSet
  <2>. QED BY <2>1, <2>2, <2>4, <2>5 DEF StartsWith
<1>. QED BY <1>1, <1>2

\* The cells of g that are not those of h, and those that are on in g.
Extends(g, h) ==
  /\ StartsWith(g.srcs, h.srcs) /\ StartsWith(g.tgts, h.tgts)
  /\ \A v \in DOMAIN h.on : v \in DOMAIN g.on /\ (h.on[v] => g.on[v])

\* The tables of a hitmap and the cells they span.
LEMMA HitTables ==
  ASSUME NEW c, NEW h, HitOK(c, h)
  PROVE  /\ h.srcs \in Seq(ToSet(NameOrder)) /\ h.tgts \in Seq(ToSet(NameOrder))
         /\ IsInjective(h.srcs) /\ IsInjective(h.tgts)
         /\ Len(h.srcs) \in Nat /\ Len(h.tgts) \in Nat
         /\ DOMAIN h.on = Cells(h.srcs, h.tgts) /\ DOMAIN h.num = Cells(h.srcs, h.tgts)
<1>1. h.srcs \in Seq(ToSet(NameOrder)) /\ h.tgts \in Seq(ToSet(NameOrder))
  BY DEF HitOK
<1>2. Len(h.srcs) \in Nat /\ Len(h.tgts) \in Nat
  BY <1>1
<1>3. DOMAIN h.on = Cells(h.srcs, h.tgts)
  BY DEF HitOK
<1>. QED BY <1>1, <1>2, <1>3 DEF HitOK

\* A hitmap after reset().
LEMMA GroundHitOK ==
  ASSUME NEW c \in CondSet
  PROVE  HitOK(c, GroundHit)
<1>1. CondParams[c].tc \in Nat
  BY DomainsAssumption
<1>2. Cells(<<>>, <<>>) = {}
  BY DEF Cells
<1>3. IsInjective(<<>>) /\ <<>> \in Seq(ToSet(NameOrder))
  BY DEF IsInjective
<1>. QED BY <1>1, <1>2, <1>3 DEF HitOK, GroundHit

\* capture() (ma_hitmap.cpp) with the cell's hit(): w is the cell that the message
\* hits; no other changes.
CaptureOf(g, h, w) ==
  /\ Extends(g, h) /\ w \in DOMAIN g.on
  /\ \A v \in DOMAIN g.on : v # w => (g.on[v] <=> v \in DOMAIN h.on /\ h.on[v])
  /\ g.srcs # h.srcs \/ g.tgts # h.tgts => w \notin DOMAIN h.on

\* capture() adds names, and changes one cell.
LEMMA CaptureFacts ==
  ASSUME NEW c \in CondSet, HitOK(c, hit[c]), NEW m \in Messages, c \in m.fits
  PROVE  /\ HitOK(c, Capture(c, m))
         /\ \E w : CaptureOf(Capture(c, m), hit[c], w)
                   /\ (CondParams[c].tc = 1 => Capture(c, m).on[w])
<1>. DEFINE h    == hit[c]
            src  == SourceOf(c, m)
            tgt  == TargetOf(c, m)
            srcs == Known(h.srcs, src)
            tgts == Known(h.tgts, tgt)
            w    == <<FindArg([srcs |-> srcs], src, "s"), FindArg([tgts |-> tgts], tgt, "t")>>
            num  == [v \in Cells(srcs, tgts) |-> IF v \in DOMAIN h.num THEN h.num[v] ELSE 0]
            on   == [v \in Cells(srcs, tgts) |-> IF v \in DOMAIN h.on THEN h.on[v] ELSE FALSE]
            tc   == CondParams[c].tc
            n    == IF num[w] < tc THEN num[w] + 1 ELSE num[w]
            g    == [srcs |-> srcs, tgts |-> tgts,
                     num |-> [num EXCEPT ![w] = n], on |-> [on EXCEPT ![w] = n = tc]]
            Names == ToSet(NameOrder)
<1>0. Capture(c, m) = g
  BY DEF Capture
<1>1. tc \in Nat /\ tc # 0
  BY DomainsAssumption
<1>2. /\ h.srcs \in Seq(Names) /\ h.tgts \in Seq(Names) /\ IsInjective(h.srcs) /\ IsInjective(h.tgts)
      /\ Len(h.srcs) \in Nat /\ Len(h.tgts) \in Nat
      /\ DOMAIN h.on = Cells(h.srcs, h.tgts) /\ DOMAIN h.num = Cells(h.srcs, h.tgts)
  BY HitTables
<1>3. src \in Names /\ tgt \in Names
  BY MessageFacts
<1>. HIDE DEF h, src, tgt, tc
<1>4. /\ srcs \in Seq(Names) /\ IsInjective(srcs) /\ src \in ToSet(srcs) /\ StartsWith(srcs, h.srcs)
      /\ srcs # h.srcs => Len(srcs) = Len(h.srcs) + 1 /\ srcs[Len(h.srcs) + 1] = src
  BY <1>2, <1>3, KnownFacts
<1>5. /\ tgts \in Seq(Names) /\ IsInjective(tgts) /\ tgt \in ToSet(tgts) /\ StartsWith(tgts, h.tgts)
      /\ tgts # h.tgts => Len(tgts) = Len(h.tgts) + 1 /\ tgts[Len(h.tgts) + 1] = tgt
  BY <1>2, <1>3, KnownFacts
<1>. HIDE DEF srcs, tgts
<1>6. /\ w[1] \in 0 .. Len(srcs) - 1
      /\ \A i \in 0 .. Len(srcs) - 1 : w[1] = i <=> srcs[i + 1] = src
  <2>1. Table([srcs |-> srcs], "s") = srcs
    BY DEF Table
  <2>2. /\ FindArg([srcs |-> srcs], src, "s") \in (0 .. Len(srcs) - 1) \cup {D_NIL}
        /\ FindArg([srcs |-> srcs], src, "s") = D_NIL <=> src \notin ToSet(srcs)
        /\ \A i \in 0 .. Len(srcs) - 1 : FindArg([srcs |-> srcs], src, "s") = i <=> srcs[i + 1] = src
    BY <2>1, <1>4, FindArgFacts
  <2>. QED BY <2>2, <1>4
<1>7. /\ w[2] \in 0 .. Len(tgts) - 1
      /\ \A i \in 0 .. Len(tgts) - 1 : w[2] = i <=> tgts[i + 1] = tgt
  <2>1. Table([tgts |-> tgts], "t") = tgts
    BY DEF Table
  <2>2. /\ FindArg([tgts |-> tgts], tgt, "t") \in (0 .. Len(tgts) - 1) \cup {D_NIL}
        /\ FindArg([tgts |-> tgts], tgt, "t") = D_NIL <=> tgt \notin ToSet(tgts)
        /\ \A i \in 0 .. Len(tgts) - 1 : FindArg([tgts |-> tgts], tgt, "t") = i <=> tgts[i + 1] = tgt
    BY <2>1, <1>5, FindArgFacts
  <2>. QED BY <2>2, <1>5
<1>8. w = <<w[1], w[2]>>
  OBVIOUS
<1>. HIDE DEF w
<1>9. w \in Cells(srcs, tgts)
  BY <1>6, <1>7, <1>8 DEF Cells
<1>10. Cells(h.srcs, h.tgts) \subseteq Cells(srcs, tgts)
  <2>1. Len(h.srcs) <= Len(srcs) /\ Len(h.tgts) <= Len(tgts) /\ Len(srcs) \in Nat /\ Len(tgts) \in Nat
    BY <1>4, <1>5 DEF StartsWith
  <2>. QED BY <2>1, <1>2 DEF Cells
<1>11. /\ \A v \in Cells(h.srcs, h.tgts) : h.num[v] \in 0 .. tc /\ (h.on[v] <=> h.num[v] = tc)
  BY <1>2 DEF HitOK, h, tc
<1>12. num \in [Cells(srcs, tgts) -> 0 .. tc] /\ \A v \in Cells(srcs, tgts) : on[v] <=> num[v] = tc
  BY <1>1, <1>2, <1>10, <1>11
<1>13. DOMAIN num = Cells(srcs, tgts) /\ DOMAIN on = Cells(srcs, tgts)
  OBVIOUS
<1>14. \A v \in Cells(srcs, tgts) : on[v] <=> v \in DOMAIN h.on /\ h.on[v]
  BY <1>2
<1>. HIDE DEF num, on
<1>15. n \in 0 .. tc /\ (num[w] = tc => n = tc) /\ (tc = 1 => n = tc)
  <2>1. num[w] \in 0 .. tc
    BY <1>9, <1>12
  <2>. QED BY <2>1, <1>1
<1>. HIDE DEF n
<1>16. HitOK(c, g)
  <2>1. g.num \in [Cells(srcs, tgts) -> 0 .. tc]
    BY <1>12, <1>15
  <2>2. g.on = [v \in Cells(srcs, tgts) |-> g.num[v] = tc]
    <3>1. g.on = [v \in Cells(srcs, tgts) |-> IF v = w THEN n = tc ELSE on[v]]
      BY <1>13
    <3>2. \A v \in Cells(srcs, tgts) : g.num[v] = IF v = w THEN n ELSE num[v]
      BY <1>13
    <3>3. on \in [Cells(srcs, tgts) -> BOOLEAN]
      BY <1>2, <1>10, <1>11 DEF on, HitOK, h
    <3>4. \A v \in Cells(srcs, tgts) : (IF v = w THEN n = tc ELSE on[v]) = (g.num[v] = tc)
      BY <3>2, <3>3, <1>12
    <3>. HIDE DEF g
    <3>. QED BY <3>1, <3>4
  <2>. QED BY <1>4, <1>5, <2>1, <2>2 DEF HitOK, tc
<1>17. \A v \in DOMAIN g.on : v # w => g.on[v] = on[v]
  BY <1>13
<1>18. g.on[w] = (n = tc) /\ DOMAIN g.on = Cells(srcs, tgts) /\ g.srcs = srcs /\ g.tgts = tgts
  BY <1>9, <1>13
<1>. HIDE DEF g
<1>19. Extends(g, h)
  <2>1. \A v \in DOMAIN h.on : v \in DOMAIN g.on /\ (h.on[v] => g.on[v])
    <3>. SUFFICES ASSUME NEW v \in DOMAIN h.on PROVE v \in DOMAIN g.on /\ (h.on[v] => g.on[v])
      OBVIOUS
    <3>1. v \in Cells(srcs, tgts) /\ v \in DOMAIN g.on
      BY <1>2, <1>10, <1>18
    <3>2. CASE v # w
      BY <3>1, <3>2, <1>14, <1>17
    <3>3. CASE v = w
      <4>1. h.on[v] => num[w] = tc
        BY <3>1, <3>3, <1>12, <1>14
      <4>. QED BY <3>1, <3>3, <4>1, <1>15, <1>18
    <3>. QED BY <3>2, <3>3
  <2>. QED BY <2>1, <1>4, <1>5, <1>18 DEF Extends
<1>20. g.srcs # h.srcs \/ g.tgts # h.tgts => w \notin DOMAIN h.on
  <2>1. ASSUME srcs # h.srcs PROVE w \notin Cells(h.srcs, h.tgts)
    <3>1. Len(h.srcs) \in 0 .. Len(srcs) - 1 /\ srcs[Len(h.srcs) + 1] = src
      BY <2>1, <1>2, <1>4
    <3>2. w[1] = Len(h.srcs)
      BY <3>1, <1>6
    <3>3. ~(Len(h.srcs) \in 0 .. Len(h.srcs) - 1)
      BY <1>2
    <3>. QED BY <3>2, <3>3 DEF Cells
  <2>2. ASSUME tgts # h.tgts PROVE w \notin Cells(h.srcs, h.tgts)
    <3>1. Len(h.tgts) \in 0 .. Len(tgts) - 1 /\ tgts[Len(h.tgts) + 1] = tgt
      BY <2>2, <1>2, <1>5
    <3>2. w[2] = Len(h.tgts)
      BY <3>1, <1>7
    <3>3. ~(Len(h.tgts) \in 0 .. Len(h.tgts) - 1)
      BY <1>2
    <3>. QED BY <3>2, <3>3 DEF Cells
  <2>. QED BY <2>1, <2>2, <1>2, <1>18
<1>21. CaptureOf(g, h, w) /\ (tc = 1 => g.on[w])
  <2>1. \A v \in DOMAIN g.on : v # w => (g.on[v] <=> v \in DOMAIN h.on /\ h.on[v])
    BY <1>14, <1>17, <1>18
  <2>. QED BY <2>1, <1>9, <1>15, <1>18, <1>19, <1>20 DEF CaptureOf
<1>. QED BY <1>0, <1>16, <1>21 DEF h, tc

-----------------------------------------------------------------------------
(* What the domains depend on.                                             *)

\* The same tables as far as the clause mentions them.
Agree(hs, gs, e) ==
  \A p \in Primaries(e) : \A a \in ToSet(p.args) : Table(hs[a.i], a.arg) = Table(gs[a.i], a.arg)

\* An index depends on the table it is looked up in.
LEMMA FindArgAgrees ==
  ASSUME NEW h, NEW g, NEW arg, Table(h, arg) = Table(g, arg), NEW name
  PROVE  FindArg(h, name, arg) = FindArg(g, name, arg)
BY DEF FindArg

\* So do the domains of a name that is given.
LEMMA StringAgrees ==
  ASSUME NEW hs, NEW gs, Len(hs) = Len(gs), NEW args, Len(args) \in Nat,
         DOMAIN args = 1 .. Len(args),
         NEW str,
         \A k \in DOMAIN args : FindArg(hs[args[k].i], str, args[k].arg) = FindArg(gs[args[k].i], str, args[k].arg)
  PROVE  StringDomains(hs, args, str) = StringDomains(gs, args, str)
<1>. DEFINE mentions(i) == {k \in DOMAIN args : args[k].i = i}
            latest(i) == CHOOSE k \in mentions(i) : \A j \in mentions(i) : j <= k
            ih(k) == FindArg(hs[args[k].i], str, args[k].arg)
            ig(k) == FindArg(gs[args[k].i], str, args[k].arg)
            dh == [i \in 1 .. Len(hs) |-> IF mentions(i) = {} THEN AnyPair
                                          ELSE Single(ih(latest(i)), args[latest(i)].arg)]
            dg == [i \in 1 .. Len(gs) |-> IF mentions(i) = {} THEN AnyPair
                                          ELSE Single(ig(latest(i)), args[latest(i)].arg)]
<1>1. CASE \E k \in DOMAIN args : ih(k) = D_NIL
  BY <1>1 DEF StringDomains
<1>2. CASE ~\E k \in DOMAIN args : ih(k) = D_NIL
  <2>1. StringDomains(hs, args, str) = <<dh>> /\ StringDomains(gs, args, str) = <<dg>>
    BY <1>2 DEF StringDomains
  <2>2. ASSUME NEW i \in 1 .. Len(hs), mentions(i) # {}
        PROVE  ih(latest(i)) = ig(latest(i))
    <3>1. \E k \in mentions(i) : \A j \in mentions(i) : j <= k
      <4>1. mentions(i) \in SUBSET (1 .. Len(args))
        OBVIOUS
      <4>. HIDE DEF mentions
      <4>. QED BY <2>2, <4>1, GreatestIndex
    <3>2. latest(i) \in DOMAIN args
      BY <3>1
    <3>. HIDE DEF latest
    <3>. QED BY <3>2
  <2>. HIDE DEF mentions, latest, ih, ig
  <2>3. dh = dg
    BY <2>2
  <2>. QED BY <2>1, <2>3
<1>. QED BY <1>1, <1>2

\* So do the domains of names that are equal.
LEMMA EqualAgrees ==
  ASSUME NEW hs, NEW gs, Len(hs) = Len(gs), NEW args,
         \A a \in ToSet(args) : \A x : FindArg(hs[a.i], x, a.arg) = FindArg(gs[a.i], x, a.arg)
  PROVE  EqualDomains(hs, args) = EqualDomains(gs, args)
<1>. DEFINE known(fs) == {x \in ToSet(NameOrder) :
                            \A a \in ToSet(args) : FindArg(fs[a.i], x, a.arg) # D_NIL}
            index(fs, x, i, arg) == IF [i |-> i, arg |-> arg] \in ToSet(args)
                                    THEN FindArg(fs[i], x, arg) ELSE D_ANY
            dom(fs, x) == [i \in 1 .. Len(fs) |-> <<index(fs, x, i, "s"), index(fs, x, i, "t")>>]
            ds(fs, names) == [k \in DOMAIN names |-> dom(fs, names[k])]
<1>1. /\ EqualDomains(hs, args) = ds(hs, Keep(NameOrder, known(hs)))
      /\ EqualDomains(gs, args) = ds(gs, Keep(NameOrder, known(gs)))
  BY DEF EqualDomains
<1>2. known(hs) = known(gs)
  OBVIOUS
<1>3. \A x, i, arg : index(hs, x, i, arg) = index(gs, x, i, arg)
  <2>. SUFFICES ASSUME NEW x, NEW i, NEW arg, [i |-> i, arg |-> arg] \in ToSet(args)
                PROVE  FindArg(hs[i], x, arg) = FindArg(gs[i], x, arg)
    OBVIOUS
  <2>1. [i |-> i, arg |-> arg].i = i /\ [i |-> i, arg |-> arg].arg = arg
    OBVIOUS
  <2>. QED BY <2>1
<1>. HIDE DEF known, index
<1>4. \A x : dom(hs, x) = dom(gs, x)
  BY <1>3
<1>. HIDE DEF dom
<1>5. \A names : ds(hs, names) = ds(gs, names)
  BY <1>4
<1>. QED BY <1>1, <1>2, <1>5

\* So does a primary.
LEMMA CondAgrees ==
  ASSUME NEW n, NEW hs, NEW gs, Len(hs) = Len(gs), NEW e, IsWhere(e, n), Agree(hs, gs, e),
         NEW p, p.type = "EXPR" \/ p \in Primaries(e), NEW so
  PROVE  DomainCond(hs, p, so) = DomainCond(gs, p, so)
<1>1. CASE p.type = "EXPR"
  BY <1>1 DEF DomainCond
<1>2. CASE p.type # "EXPR"
  <2>1. p.type \in {"COND", "STRING"} /\ p.args \in Seq(ToSet(p.args)) /\ p \in Primaries(e)
    BY <1>2 DEF IsWhere, IsList
  <2>. DEFINE args == p.args
  <2>2. Len(args) \in Nat /\ DOMAIN args = 1 .. Len(args)
    <3>1. args \in Seq(ToSet(args))
      BY <2>1
    <3>. HIDE DEF args
    <3>. QED BY <3>1
  <2>3. \A a \in ToSet(args) : \A x : FindArg(hs[a.i], x, a.arg) = FindArg(gs[a.i], x, a.arg)
    BY <2>1, FindArgAgrees DEF Agree
  <2>4. \A k \in DOMAIN args : args[k] \in ToSet(args)
    BY DEF ToSet
  <2>. HIDE DEF args
  <2>5. EqualDomains(hs, args) = EqualDomains(gs, args)
    BY <2>3, EqualAgrees
  <2>6. \A str : StringDomains(hs, args, str) = StringDomains(gs, args, str)
    <3>. TAKE str
    <3>1. \A k \in DOMAIN args :
            FindArg(hs[args[k].i], str, args[k].arg) = FindArg(gs[args[k].i], str, args[k].arg)
      BY <2>3, <2>4
    <3>. QED BY <2>2, <3>1, StringAgrees
  <2>. QED BY <2>1, <2>5, <2>6 DEF DomainCond, args
<1>. QED BY <1>1, <1>2

\* Domains are worked out anew only for new names: nothing else matters.
LEMMA DomainExprAgrees ==
  ASSUME NEW n, NEW hs, NEW gs, Len(hs) = Len(gs), NEW e, IsWhere(e, n), e # <<>>, Agree(hs, gs, e)
  PROVE  DomainExpr(hs, e) = DomainExpr(gs, e)
<1>. DEFINE m == Len(e)
<1>0. IsExpr(e) /\ m \in Nat /\ 0 \in 0 .. m /\ m \in 0 .. m
      /\ \A k \in 1 .. m : k \in 0 .. m /\ k - 1 \in 0 .. m
  BY ExprFacts DEF IsWhere
<1>1. ASSUME NEW k \in 1 .. m, NEW so
      PROVE  DomainStep(hs, e, k, so) = DomainStep(gs, e, k, so)
  <2>. DEFINE x == e[k]
              ds(fs, j) == [i \in DOMAIN x[j] |-> DomainCond(fs, x[j][i], so)]
  <2>1. ASSUME NEW j \in DOMAIN x, NEW i \in DOMAIN x[j]
        PROVE  DomainCond(hs, x[j][i], so) = DomainCond(gs, x[j][i], so)
    <3>1. x[j] \in ToSet(x) /\ x[j][i] \in ToSet(x[j])
      BY DEF ToSet
    <3>2. x[j][i].type = "EXPR" \/ x[j][i] \in Primaries(e)
      BY <1>0, <3>1, ExprFacts
    <3>. DEFINE p == x[j][i]
    <3>. HIDE DEF p, x
    <3>. QED BY <3>2, CondAgrees DEF p
  <2>. HIDE DEF x
  <2>2. \A j \in DOMAIN x : ds(hs, j) = ds(gs, j)
    BY <2>1
  <2>3. \A j \in DOMAIN x : /\ DomainAndExpr(hs, x[j], so) = Merged(ds(hs, j))
                            /\ DomainAndExpr(gs, x[j], so) = Merged(ds(gs, j))
    BY DEF DomainAndExpr
  <2>. HIDE DEF ds
  <2>4. [j \in DOMAIN x |-> DomainAndExpr(hs, x[j], so)] = [j \in DOMAIN x |-> DomainAndExpr(gs, x[j], so)]
    BY <2>2, <2>3
  <2>. QED BY <2>4 DEF DomainStep, x
<1>. DEFINE X(fs, f) == [k \in 0 .. m |-> IF k = 0 THEN <<>> ELSE DomainStep(fs, e, k, f[k - 1])]
            B(fs) == CHOOSE f : f = X(fs, f)
<1>2. DomainExpr(hs, e) = B(hs)[m][m] /\ DomainExpr(gs, e) = B(gs)[m][m]
  BY DEF DomainExpr, DomainStep
<1>3. \A f : X(hs, f) = X(gs, f)
  <2>. TAKE f
  <2>1. \A k \in 0 .. m : k # 0 => k \in 1 .. m
    BY <1>0
  <2>. HIDE DEF m
  <2>. QED BY <1>1, <2>1
<1>. HIDE DEF X, m
<1>4. \A f : f = X(hs, f) <=> f = X(gs, f)
  BY <1>3
<1>5. B(hs) = B(gs)
  BY <1>4
<1>. QED BY <1>2, <1>5

-----------------------------------------------------------------------------
(* The engine as the handlers hand it on.                                  *)

\* A function on X.
IsMap(f, X) == f = [x \in X |-> f[x]]

\* A loop over the members of s, whatever their order.
LEMMA ReplacedFacts ==
  ASSUME NEW X, NEW old, IsMap(old, X), NEW new, NEW s \in Seq(X)
  PROVE  /\ IsMap(Replaced(old, s, new), X)
         /\ \A x \in X : Replaced(old, s, new)[x] = IF x \in ToSet(s) THEN new[x] ELSE old[x]
<1>. DEFINE upto(k) == {s[i] : i \in 1 .. k}
            at(k) == [x \in X |-> IF x \in upto(k) THEN new[x] ELSE old[x]]
            V == [k \in 0 .. Len(s) |-> {at(k)}]
<1>1. Len(s) \in Nat /\ ToSet(s) = upto(Len(s)) /\ 0 \in 0 .. Len(s) /\ Len(s) \in 0 .. Len(s)
      /\ \A k \in 1 .. Len(s) : s[k] \in X /\ k \in 0 .. Len(s) /\ k - 1 \in 0 .. Len(s)
  BY DEF ToSet
<1>2. old = at(0)
  <2>1. upto(0) = {}
    OBVIOUS
  <2>. QED BY <2>1 DEF IsMap
<1>3. ASSUME NEW k \in 1 .. Len(s)
      PROVE  ReplacedStep(s, new, k, at(k - 1)) = at(k)
  <2>1. upto(k) = upto(k - 1) \cup {s[k]}
    BY <1>1
  <2>. DEFINE U == upto(k - 1)
              W == upto(k)
              y == s[k]
  <2>2. W = U \cup {y} /\ y \in X
    BY <1>1, <2>1
  <2>. HIDE DEF U, W, y
  <2>3. [[x \in X |-> IF x \in U THEN new[x] ELSE old[x]] EXCEPT ![y] = new[y]]
          = [x \in X |-> IF x \in W THEN new[x] ELSE old[x]]
    BY <2>2
  <2>. QED BY <2>3 DEF ReplacedStep, U, W, y
<1>. HIDE DEF at
<1>4. old \in V[0] /\ \A k \in 1 .. Len(s) : \A v \in V[k - 1] : ReplacedStep(s, new, k, v) \in V[k]
  BY <1>1, <1>2, <1>3
<1>5. V[Len(s)] = {at(Len(s))}
  BY <1>1
<1>. HIDE DEF V
<1>6. PICK c : ReplacedRun(old, s, new, V, c)
  BY <1>1, <1>4, ReplacedRecursion
<1>7. Replaced(old, s, new) \in V[Len(s)]
  BY <1>1, <1>6 DEF ReplacedRun
<1>8. Replaced(old, s, new) = at(Len(s))
  BY <1>5, <1>7
<1>9. at(Len(s)) = [x \in X |-> IF x \in ToSet(s) THEN new[x] ELSE old[x]]
  BY <1>1 DEF at
<1>. HIDE DEF at
<1>. QED BY <1>8, <1>9 DEF IsMap

\* What the handlers work on.
IsEngine(x) ==
  x = [hit |-> x.hit, last |-> x.last, rule |-> x.rule, failed |-> x.failed, stale |-> x.stale]

\* Hitmaps and rules, as functions of conditions and rules.
HitsOK(hits) == IsMap(hits, CondSet) /\ \A c \in CondSet : HitOK(c, hits[c])
RulesOK(rules) == IsMap(rules, RuleSet) /\ \A r \in RuleSet : RuleOK(r, rules[r])
\* Parts of keys.
KeyParts(r) == Tuples(r) \X (1 .. N(r))
StaleOK(parts) == IsMap(parts, RuleSet) /\ \A r \in RuleSet : parts[r] \subseteq KeyParts(r)

EngineOK(x) ==
  /\ IsEngine(x) /\ HitsOK(x.hit) /\ RulesOK(x.rule) /\ StaleOK(x.stale)
  /\ x.last \in [CondSet -> [src : STRING, tgt : STRING, num : Nat]]
  /\ x.failed \in BOOLEAN

\* The hitmaps of a rule's conditions have sound tables.
LEMMA HitsTables ==
  ASSUME NEW x, HitsOK(x.hit), NEW r \in RuleSet
  PROVE  /\ TablesOK(HitsOf(x, r), N(r))
         /\ \A i \in 1 .. N(r) : HitsOf(x, r)[i] = x.hit[P(r).conds[i]]
<1>. DEFINE hs == [i \in 1 .. N(r) |-> x.hit[P(r).conds[i]]]
<1>1. N(r) \in Nat /\ DOMAIN P(r).conds = 1 .. N(r)
      /\ \A i \in 1 .. N(r) : P(r).conds[i] \in CondSet
  BY RuleFacts
<1>2. HitsOf(x, r) = hs
  BY <1>1 DEF HitsOf
<1>3. hs \in Seq({hs[i] : i \in 1 .. N(r)}) /\ Len(hs) = N(r) /\ DOMAIN hs = 1 .. N(r)
  BY <1>1
<1>4. ASSUME NEW i \in 1 .. N(r), NEW arg \in {"s", "t"}
      PROVE  Table(hs[i], arg) \in Seq(ToSet(NameOrder)) /\ IsInjective(Table(hs[i], arg))
  <2>. DEFINE c == P(r).conds[i]
              h == x.hit[c]
  <2>1. hs[i] = h /\ HitOK(c, h)
    BY <1>1 DEF HitsOK
  <2>. HIDE DEF c, h, hs
  <2>2. h.srcs \in Seq(ToSet(NameOrder)) /\ h.tgts \in Seq(ToSet(NameOrder))
        /\ IsInjective(h.srcs) /\ IsInjective(h.tgts)
    BY <2>1, HitTables
  <2>. QED BY <2>1, <2>2 DEF Table
<1>5. \A i \in 1 .. N(r) : hs[i] = x.hit[P(r).conds[i]]
  OBVIOUS
<1>. HIDE DEF hs
<1>. QED BY <1>2, <1>3, <1>4, <1>5 DEF TablesOK

-----------------------------------------------------------------------------
(* The domains of a rule.                                                  *)

\* The arguments of a rule's WHERE clause and those it is notified of.
LEMMA MentionsFacts ==
  ASSUME NEW r \in RuleSet
  PROVE  /\ \A p \in Primaries(P(r).where) : \A a \in ToSet(p.args) :
              a.i \in 1 .. N(r) /\ a.arg \in {"s", "t"} /\ <<P(r).conds[a.i], a.arg>> \in Mentions[r]
         /\ \A q \in Mentions[r] : q[1] \in ToSet(P(r).conds) /\ q[1] \in CondSet /\ q[2] \in {"s", "t"}
         /\ P(r).where = <<>> => Mentions[r] = {}
<1>. DEFINE W == Primaries(P(r).where)
            args(p) == ToSet(p.args)
            pair(a) == <<P(r).conds[a.i], a.arg>>
<1>1. Mentions[r] = UNION {{pair(a) : a \in args(w)} : w \in W}
  BY DEF Mentions
<1>2. ASSUME NEW p \in W, NEW a \in args(p)
      PROVE  a.i \in 1 .. N(r) /\ a.arg \in {"s", "t"}
  <2>1. args(p) \subseteq [i : 1 .. N(r), arg : {"s", "t"}]
    BY RuleFacts DEF IsWhere
  <2>. HIDE DEF args
  <2>. QED BY <2>1
<1>3. \A i \in 1 .. N(r) : P(r).conds[i] \in ToSet(P(r).conds) /\ P(r).conds[i] \in CondSet
  BY RuleFacts DEF ToSet
<1>4. P(r).where = <<>> => W = {}
  BY DEF Primaries
<1>. HIDE DEF W, args
<1>5. ASSUME NEW p \in W, NEW a \in args(p)
      PROVE  <<P(r).conds[a.i], a.arg>> \in Mentions[r]
  BY <1>1
<1>6. ASSUME NEW q \in Mentions[r]
      PROVE  q[1] \in ToSet(P(r).conds) /\ q[1] \in CondSet /\ q[2] \in {"s", "t"}
  <2>1. PICK p \in W : \E a \in args(p) : q = pair(a)
    BY <1>1
  <2>2. PICK a \in args(p) : q = pair(a)
    BY <2>1
  <2>. QED BY <1>2, <1>3, <2>2
<1>7. W = {} => Mentions[r] = {}
  BY <1>1
<1>8. \A p \in W : \A a \in args(p) :
         a.i \in 1 .. N(r) /\ a.arg \in {"s", "t"} /\ <<P(r).conds[a.i], a.arg>> \in Mentions[r]
  BY <1>2, <1>5
<1>. QED BY <1>4, <1>6, <1>7, <1>8 DEF W, args

\* The tables that a rule is notified of are the same.
SameTables(x, y, r) == \A q \in Mentions[r] : Table(x.hit[q[1]], q[2]) = Table(y.hit[q[1]], q[2])

\* The domains of a rule depend on the tables its clause mentions.
LEMMA DomainsAgree ==
  ASSUME NEW x, NEW y, HitsOK(x.hit), HitsOK(y.hit), NEW r \in RuleSet, P(r).where # <<>>,
         SameTables(x, y, r)
  PROVE  DomainsOf(x, r) = DomainsOf(y, r)
<1>. DEFINE hs == HitsOf(x, r)
            gs == HitsOf(y, r)
            e == P(r).where
<1>1. Len(hs) = Len(gs)
  BY HitsTables DEF TablesOK
<1>2. Agree(hs, gs, e)
  <2>. SUFFICES ASSUME NEW p \in Primaries(e), NEW a \in ToSet(p.args)
                PROVE  Table(hs[a.i], a.arg) = Table(gs[a.i], a.arg)
    BY DEF Agree
  <2>. DEFINE c == P(r).conds[a.i]
              q == <<c, a.arg>>
  <2>1. a.i \in 1 .. N(r) /\ q \in Mentions[r]
    BY MentionsFacts
  <2>2. hs[a.i] = x.hit[c] /\ gs[a.i] = y.hit[c]
    BY <2>1, HitsTables
  <2>3. Table(x.hit[q[1]], q[2]) = Table(y.hit[q[1]], q[2])
    BY <2>1 DEF SameTables
  <2>4. q[1] = c /\ q[2] = a.arg
    OBVIOUS
  <2>. HIDE DEF q, c, hs, gs
  <2>. QED BY <2>2, <2>3, <2>4
<1>3. IsWhere(e, N(r)) /\ e # <<>>
  BY RuleFacts
<1>. HIDE DEF hs, gs, e
<1>4. DomainExpr(hs, e) = DomainExpr(gs, e)
  BY <1>1, <1>2, <1>3, DomainExprAgrees
<1>. QED BY <1>4 DEF DomainsOf, hs, gs, e

\* Domains are lists of domains none of which is null.
LEMMA DomainsType ==
  ASSUME NEW x, HitsOK(x.hit), NEW r \in RuleSet, P(r).where # <<>>
  PROVE  DomainsOf(x, r) \in Seq(Clean(N(r)))
<1>1. /\ N(r) \in Nat \ {0} /\ IsWhere(P(r).where, N(r)) /\ NameOrder \in Seq(STRING)
      /\ TablesOK(HitsOf(x, r), N(r))
  BY RuleFacts, OrderFacts, HitsTables
<1>2. [i \in 1 .. N(r) |-> <<0, 0>>] \in ValuesOfSize(N(r))
  BY DEF ValuesOfSize
<1>. QED BY <1>1, <1>2, DomainExprMeans DEF DomainsOf

\* The domain of a rule without a clause.
LEMMA AnyClean ==
  ASSUME NEW n \in Nat \ {0}
  PROVE  AnyDomain(n) \in Clean(n)
<1>1. AnyDomain(n) \in [1 .. n -> CondDomain] /\ \A i \in 1 .. n : AnyDomain(n)[i] = AnyPair
  BY AnyPairFacts DEF AnyDomain
<1>2. AnyDomain(n) # <<>>
  <2>1. 1 \in DOMAIN AnyDomain(n) /\ DOMAIN <<>> = {}
    BY <1>1
  <2>. QED BY <2>1
<1>. QED BY <1>1, <1>2, AnyPairFacts DEF Clean, DomainsOfSize, IsNull

\* A rule's domains are the meaning of its WHERE clause, except that nothing is known of
\* them while a condition that the clause mentions has no sources and targets.
DomainsOK(x, r) ==
  IF P(r).where = <<>> THEN x.rule[r].domains = <<AnyDomain(N(r))>>
  ELSE \/ x.rule[r].domains = DomainsOf(x, r)
       \/ \E q \in Mentions[r] : Table(x.hit[q[1]], q[2]) = <<>>

\* Resets may take away all names of a condition, not some of them.
LEMMA DomainsKept ==
  ASSUME NEW x, NEW y, HitsOK(x.hit), HitsOK(y.hit), NEW r \in RuleSet,
         y.rule[r].domains = x.rule[r].domains,
         \A q \in Mentions[r] : \/ Table(y.hit[q[1]], q[2]) = Table(x.hit[q[1]], q[2])
                                \/ Table(y.hit[q[1]], q[2]) = <<>>,
         DomainsOK(x, r)
  PROVE  DomainsOK(y, r)
<1>1. CASE P(r).where = <<>>
  BY <1>1 DEF DomainsOK
<1>2. CASE P(r).where # <<>> /\ SameTables(x, y, r)
  <2>1. DomainsOf(x, r) = DomainsOf(y, r)
    BY <1>2, DomainsAgree
  <2>. QED BY <1>2, <2>1 DEF DomainsOK, SameTables
<1>3. CASE P(r).where # <<>> /\ ~SameTables(x, y, r)
  BY <1>3 DEF DomainsOK, SameTables
<1>. QED BY <1>1, <1>2, <1>3

-----------------------------------------------------------------------------
(* The conditions and the domains of a message.                            *)

\* The conditions take the message one by one; each of them changes its own state.
LEMMA CaughtIs ==
  ASSUME NEW m \in Messages, EngineOK(State)
  PROVE  Caught(m) = [hit  |-> [c \in CondSet |-> IF Passes(c, m) THEN Capture(c, m) ELSE hit[c]],
                      last |-> [c \in CondSet |-> IF c \in m.fits THEN Remembered(c, m) ELSE last[c]],
                      rule |-> rule, failed |-> failed, stale |-> stale]
<1>. DEFINE T == {c \in CondSet : Passes(c, m)}
            F == m.fits
            s == Keep(Conds, T)
            u == Keep(Conds, F)
            ns == [c \in CondSet |-> Capture(c, m)]
            nu == [c \in CondSet |-> Remembered(c, m)]
            rs == Replaced(hit, s, ns)
            ru == Replaced(last, u, nu)
<1>1. F \subseteq CondSet /\ T \subseteq CondSet
  BY MessageFacts
<1>2. IsMap(hit, CondSet) /\ IsMap(last, CondSet)
  BY DEF EngineOK, State, HitsOK, IsMap
<1>3. Caught(m) = [hit |-> rs, last |-> ru, rule |-> rule, failed |-> failed, stale |-> stale]
  BY DEF Caught
<1>. HIDE DEF T, F
<1>5. s \in Seq(CondSet) /\ u \in Seq(CondSet)
  BY OrderFacts, KeepType
<1>6. ToSet(s) = T /\ ToSet(u) = F
  <2>1. ToSet(s) = ToSet(Conds) \cap T /\ ToSet(u) = ToSet(Conds) \cap F
    BY OrderFacts, KeepSet
  <2>. QED BY <1>1, <2>1, OrderFacts
<1>. HIDE DEF s, u, ns, nu
<1>7. /\ IsMap(rs, CondSet)
      /\ \A c \in CondSet : rs[c] = IF c \in ToSet(s) THEN ns[c] ELSE hit[c]
  BY <1>2, <1>5, ReplacedFacts
<1>8. /\ IsMap(ru, CondSet)
      /\ \A c \in CondSet : ru[c] = IF c \in ToSet(u) THEN nu[c] ELSE last[c]
  BY <1>2, <1>5, ReplacedFacts
<1>. HIDE DEF rs, ru
<1>9. /\ rs = [c \in CondSet |-> IF Passes(c, m) THEN Capture(c, m) ELSE hit[c]]
      /\ ru = [c \in CondSet |-> IF c \in m.fits THEN Remembered(c, m) ELSE last[c]]
  <2>1. \A c \in CondSet : rs[c] = IF Passes(c, m) THEN Capture(c, m) ELSE hit[c]
    BY <1>6, <1>7 DEF ns, T
  <2>2. \A c \in CondSet : ru[c] = IF c \in m.fits THEN Remembered(c, m) ELSE last[c]
    BY <1>6, <1>8 DEF nu, F
  <2>. QED BY <1>7, <1>8, <2>1, <2>2 DEF IsMap
<1>. QED BY <1>3, <1>9

\* The rules whose names are new work out their domains, each its own.
LEMMA UpdatedIs ==
  ASSUME NEW x, IsEngine(x), IsMap(x.rule, RuleSet)
  PROVE  Updated(x) =
           [hit |-> x.hit, last |-> x.last,
            rule |-> [r \in RuleSet |-> IF DomainChanges(r, x.hit)
                                        THEN [x.rule[r] EXCEPT !.domains = DomainsOf(x, r)]
                                        ELSE x.rule[r]],
            failed |-> x.failed, stale |-> x.stale]
<1>. DEFINE T == {r \in RuleSet : DomainChanges(r, x.hit)}
            s == Keep(Rules, T)
            old == x.rule
            new == [r \in RuleSet |-> [old[r] EXCEPT !.domains = DomainsOf(x, r)]]
            rs == Replaced(old, s, new)
<1>1. T \subseteq RuleSet
  OBVIOUS
<1>2. Updated(x) = [x EXCEPT !.rule = rs]
  BY DEF Updated
<1>. HIDE DEF T
<1>3. s \in Seq(RuleSet)
  BY OrderFacts, KeepType
<1>4. ToSet(s) = T
  <2>1. ToSet(s) = ToSet(Rules) \cap T
    BY OrderFacts, KeepSet
  <2>. HIDE DEF s
  <2>. QED BY <1>1, <2>1, OrderFacts
<1>5. \A R : [x EXCEPT !.rule = R]
               = [hit |-> x.hit, last |-> x.last, rule |-> R, failed |-> x.failed, stale |-> x.stale]
  <2>. TAKE R
  <2>1. x = [hit |-> x.hit, last |-> x.last, rule |-> x.rule, failed |-> x.failed, stale |-> x.stale]
    BY DEF IsEngine
  <2>2. \A a, b, c, d, f :
          [[hit |-> a, last |-> b, rule |-> c, failed |-> d, stale |-> f] EXCEPT !.rule = R]
            = [hit |-> a, last |-> b, rule |-> R, failed |-> d, stale |-> f]
    OBVIOUS
  <2>. QED BY <2>1, <2>2
<1>. HIDE DEF s, new, old
<1>6. /\ IsMap(rs, RuleSet)
      /\ \A r \in RuleSet : rs[r] = IF r \in ToSet(s) THEN new[r] ELSE old[r]
  <2>1. IsMap(old, RuleSet)
    BY DEF old
  <2>. QED BY <1>3, <2>1, ReplacedFacts
<1>. HIDE DEF rs
<1>7. rs = [r \in RuleSet |-> IF DomainChanges(r, x.hit)
                              THEN [x.rule[r] EXCEPT !.domains = DomainsOf(x, r)] ELSE x.rule[r]]
  <2>1. \A r \in RuleSet : rs[r] = IF DomainChanges(r, x.hit)
                                   THEN [x.rule[r] EXCEPT !.domains = DomainsOf(x, r)] ELSE x.rule[r]
    BY <1>4, <1>6 DEF new, old, T
  <2>. QED BY <1>6, <2>1 DEF IsMap
<1>. QED BY <1>2, <1>5, <1>7

\* The engine is sound after the conditions have taken the message.
LEMMA CaughtOK ==
  ASSUME NEW m \in Messages, EngineOK(State)
  PROVE  /\ EngineOK(Caught(m)) /\ Caught(m).rule = rule /\ Caught(m).failed = failed
         /\ Caught(m).stale = stale
         /\ \A c \in CondSet : Caught(m).hit[c] = IF Passes(c, m) THEN Capture(c, m) ELSE hit[c]
<1>. DEFINE hits == [c \in CondSet |-> IF Passes(c, m) THEN Capture(c, m) ELSE hit[c]]
            lasts == [c \in CondSet |-> IF c \in m.fits THEN Remembered(c, m) ELSE last[c]]
            x == [hit |-> hits, last |-> lasts, rule |-> rule, failed |-> failed, stale |-> stale]
<1>1. Caught(m) = x
  BY CaughtIs
<1>2. HitsOK(hits) /\ IsMap(lasts, CondSet)
  <2>1. ASSUME NEW c \in CondSet PROVE HitOK(c, hits[c])
    <3>1. HitOK(c, hit[c])
      BY DEF EngineOK, HitsOK, State
    <3>2. Passes(c, m) => HitOK(c, Capture(c, m))
      BY <3>1, CaptureFacts DEF Passes
    <3>. QED BY <3>1, <3>2
  <2>2. IsMap(hits, CondSet) /\ IsMap(lasts, CondSet)
    BY DEF IsMap
  <2>. HIDE DEF hits
  <2>. QED BY <2>1, <2>2 DEF HitsOK
<1>3. lasts \in [CondSet -> [src : STRING, tgt : STRING, num : Nat]]
  <2>1. last \in [CondSet -> [src : STRING, tgt : STRING, num : Nat]]
    BY DEF EngineOK, State
  <2>2. \A c \in CondSet : Remembered(c, m) \in [src : STRING, tgt : STRING, num : Nat]
    BY <2>1, MessageFacts DEF Remembered
  <2>. QED BY <2>1, <2>2
<1>4. RulesOK(rule) /\ failed \in BOOLEAN /\ StaleOK(stale)
  BY DEF EngineOK, State
<1>. HIDE DEF hits, lasts
<1>5. EngineOK(x) /\ x.rule = rule /\ x.failed = failed /\ x.hit = hits /\ x.stale = stale
  BY <1>2, <1>3, <1>4 DEF EngineOK, IsEngine
<1>. QED BY <1>1, <1>5 DEF hits

\* A name is added, or nothing is.
LEMMA CaughtTables ==
  ASSUME NEW m \in Messages, EngineOK(State), NEW c \in CondSet
  PROVE  \/ Caught(m).hit[c] = hit[c] /\ ~Passes(c, m)
         \/ /\ Passes(c, m)
            /\ \E w : CaptureOf(Caught(m).hit[c], hit[c], w)
                      /\ (CondParams[c].tc = 1 => Caught(m).hit[c].on[w])
<1>1. HitOK(c, hit[c])
  BY DEF EngineOK, HitsOK, State
<1>2. Passes(c, m) => \E w : CaptureOf(Capture(c, m), hit[c], w)
                             /\ (CondParams[c].tc = 1 => Capture(c, m).on[w])
  BY <1>1, CaptureFacts DEF Passes
<1>3. Caught(m).hit[c] = IF Passes(c, m) THEN Capture(c, m) ELSE hit[c]
  BY CaughtOK
<1>. QED BY <1>2, <1>3

\* The engine is sound after the rules have worked out their domains.
LEMMA UpdatedOK ==
  ASSUME NEW x, EngineOK(x)
  PROVE  /\ EngineOK(Updated(x)) /\ Updated(x).hit = x.hit /\ Updated(x).last = x.last
         /\ Updated(x).failed = x.failed /\ Updated(x).stale = x.stale
         /\ \A r \in RuleSet :
              /\ Updated(x).rule[r].alarms = x.rule[r].alarms
              /\ Updated(x).rule[r].round = x.rule[r].round
              /\ Updated(x).rule[r].enabled = x.rule[r].enabled
              /\ Updated(x).rule[r].domains = IF DomainChanges(r, x.hit) THEN DomainsOf(x, r)
                                                                         ELSE x.rule[r].domains
<1>. DEFINE new(r) == [x.rule[r] EXCEPT !.domains = DomainsOf(x, r)]
            rules == [r \in RuleSet |-> IF DomainChanges(r, x.hit) THEN new(r) ELSE x.rule[r]]
            y == [hit |-> x.hit, last |-> x.last, rule |-> rules, failed |-> x.failed, stale |-> x.stale]
<1>1. Updated(x) = y
  BY UpdatedIs DEF EngineOK, RulesOK
<1>2. ASSUME NEW r \in RuleSet
      PROVE  /\ RuleOK(r, rules[r])
             /\ rules[r].alarms = x.rule[r].alarms
             /\ rules[r].round = x.rule[r].round
             /\ rules[r].enabled = x.rule[r].enabled
             /\ rules[r].domains = IF DomainChanges(r, x.hit) THEN DomainsOf(x, r)
                                                              ELSE x.rule[r].domains
  <2>. DEFINE q == x.rule[r]
              ds == DomainsOf(x, r)
  <2>1. RuleOK(r, q)
    BY DEF EngineOK, RulesOK
  <2>2. CASE ~DomainChanges(r, x.hit)
    <3>1. rules[r] = q
      BY <2>2
    <3>. QED BY <2>1, <2>2, <3>1
  <2>3. CASE DomainChanges(r, x.hit)
    <3>1. Mentions[r] # {}
      BY <2>3 DEF DomainChanges
    <3>2. ds \in Seq(Clean(N(r)))
      BY <3>1, MentionsFacts, DomainsType DEF EngineOK
    <3>3. ds \in Seq([1 .. N(r) -> CondDomain]) /\ \A d \in ToSet(ds) : ~IsNull(d)
      <4>. HIDE DEF ds
      <4>1. Clean(N(r)) \subseteq [1 .. N(r) -> CondDomain] /\ \A d \in Clean(N(r)) : ~IsNull(d)
        BY DEF Clean, DomainsOfSize
      <4>2. \A k \in DOMAIN ds : ds[k] \in Clean(N(r))
        BY <3>2
      <4>3. ds \in Seq([1 .. N(r) -> CondDomain])
        BY <3>2, <4>1
      <4>. QED BY <4>1, <4>2, <4>3 DEF ToSet
    <3>4. rules[r] = [q EXCEPT !.domains = ds]
      BY <2>3
    <3>. HIDE DEF q, ds
    <3>5. RuleOK(r, [q EXCEPT !.domains = ds]) /\ [q EXCEPT !.domains = ds].alarms = q.alarms
          /\ [q EXCEPT !.domains = ds].round = q.round
          /\ [q EXCEPT !.domains = ds].enabled = q.enabled
          /\ [q EXCEPT !.domains = ds].domains = ds
      BY <2>1, <3>3 DEF RuleOK, N
    <3>. QED BY <2>3, <3>4, <3>5 DEF q, ds
  <2>. QED BY <2>2, <2>3
<1>3. IsMap(rules, RuleSet)
  BY DEF IsMap
<1>. HIDE DEF rules
<1>4. RulesOK(rules)
  BY <1>2, <1>3 DEF RulesOK
<1>5. EngineOK(y) /\ y.hit = x.hit /\ y.last = x.last /\ y.failed = x.failed /\ y.rule = rules
      /\ y.stale = x.stale
  BY <1>4 DEF EngineOK, IsEngine
<1>. HIDE DEF y
<1>. QED BY <1>1, <1>2, <1>5

-----------------------------------------------------------------------------
(* What the evaluation of a rule's expression does, from what its          *)
(* primaries do.                                                           *)

\* A primary that is no expression in parentheses.
PrimaryStep(p, ctx, x) == BooleanCond(p, ctx, <<>>, x)

\* Rel relates an evaluation's progress to what it may become.
Preserves(Rel, e, ctx, S) ==
  /\ \A x \in S : <<x, x>> \in Rel
  /\ \A x, y, z \in S : <<x, y>> \in Rel /\ <<y, z>> \in Rel => <<x, z>> \in Rel
  /\ \A x \in S, b \in BOOLEAN :
       /\ [x EXCEPT !.b = b] \in S /\ [x EXCEPT !.b = b].b = b
       /\ <<x, [x EXCEPT !.b = b]>> \in Rel
  /\ \A p \in Primaries(e) : \A x \in S :
       PrimaryStep(p, ctx, x) \in S /\ <<x, PrimaryStep(p, ctx, x)>> \in Rel

\* Between x and y the primary p has been true.
Through(Rel, ctx, S, p, x, y) ==
  \E u \in S : /\ PrimaryStep(p, ctx, u) \in S /\ PrimaryStep(p, ctx, u).b
               /\ <<x, u>> \in Rel /\ <<PrimaryStep(p, ctx, u), y>> \in Rel
Sure(Rel, ctx, S, a, x, y) ==
  \A p \in ToSet(a) : p.type # "EXPR" => Through(Rel, ctx, S, p, x, y)

\* Whether a primary is true does not depend on what was before.
Decides(T, e, ctx, S) ==
  \A p \in Primaries(e) : \A x \in S : PrimaryStep(p, ctx, x).b <=> p \in T

\* f is what the expression x comes to.
Evaluates(f, x, Rel, e, ctx, S, T, Y) ==
  /\ f \in S
  /\ <<x.st, f>> \in Rel
  /\ Decides(T, e, ctx, S) => (f.b <=> Fulfilled(x.expr, Y, T))
  /\ f.b => \E a \in ToSet(x.expr) : Sure(Rel, ctx, S, a, x.st, f)

\* The functions of the expressions before the k-th.
Evaluations(Rel, e, ctx, S, T, Y, k) ==
  {so \in Seq([S -> S]) :
     /\ Len(so) = k
     /\ \A j \in 1 .. k : \A x \in S : Evaluates(so[j][x], [st |-> x, expr |-> e[j]], Rel, e, ctx, S, T, Y)}

\* A primary, if what is below it has been evaluated.
LEMMA BelowStep ==
  ASSUME NEW n, NEW e, IsBoolean(e, n), NEW k \in 1 .. Len(e), NEW a \in ToSet(e[k]),
         NEW p \in ToSet(a),
         NEW Rel, NEW ctx, NEW S, NEW T, NEW Y, Preserves(Rel, e, ctx, S),
         \A j \in 1 .. Len(e) : j \in Y <=> Fulfilled(e[j], Y, T),
         NEW so \in Evaluations(Rel, e, ctx, S, T, Y, k - 1), NEW x \in S
  PROVE  LET y == BooleanCond(p, ctx, so, x)
         IN  /\ y \in S /\ <<x, y>> \in Rel
             /\ Decides(T, e, ctx, S) => (y.b <=> Yes(p, Y, T))
             /\ p.type # "EXPR" => y = PrimaryStep(p, ctx, x)
<1>0. IsExpr(e)
  BY DEF IsBoolean
<1>1. IF p.type = "EXPR" THEN p.sub \in 1 .. k - 1 ELSE p \in Primaries(e)
  BY <1>0, ExprFacts
<1>2. CASE p.type = "EXPR"
  <2>1. BooleanCond(p, ctx, so, x) = so[p.sub][x]
    BY <1>2 DEF BooleanCond
  <2>. DEFINE f == so[p.sub][x]
              w == [st |-> x, expr |-> e[p.sub]]
  <2>2. Evaluates(f, w, Rel, e, ctx, S, T, Y)
    BY <1>1, <1>2 DEF Evaluations
  <2>3. w.st = x /\ w.expr = e[p.sub]
    OBVIOUS
  <2>4. p.sub \in 1 .. Len(e)
    <3>1. e \in Seq(ToSet(e))
      BY <1>0 DEF IsExpr
    <3>2. Len(e) \in Nat
      BY <3>1
    <3>. QED BY <1>1, <1>2, <3>2
  <2>. HIDE DEF f, w
  <2>5. p.sub \in Y <=> Fulfilled(e[p.sub], Y, T)
    BY <2>4
  <2>. QED BY <1>2, <2>1, <2>2, <2>3, <2>5 DEF Evaluates, Yes, f
<1>3. CASE p.type # "EXPR"
  <2>1. BooleanCond(p, ctx, so, x) = PrimaryStep(p, ctx, x)
    <3>1. p.type \in {"COND", "COUNT", "COUNT_PERCENT", "IS_SYNCD"}
      BY <1>1, <1>3 DEF IsBoolean
    <3>. QED BY <3>1 DEF BooleanCond, PrimaryStep
  <2>. DEFINE y == PrimaryStep(p, ctx, x)
  <2>2. p \in Primaries(e)
    BY <1>1, <1>3
  <2>3. y \in S /\ <<x, y>> \in Rel
    BY <2>2 DEF Preserves
  <2>4. Decides(T, e, ctx, S) => (y.b <=> p \in T)
    BY <2>2 DEF Decides
  <2>. HIDE DEF y
  <2>. QED BY <1>3, <2>1, <2>3, <2>4 DEF Yes, y
<1>. QED BY <1>2, <1>3

\* The positions of a list.
LEMMA ListFacts ==
  ASSUME NEW s, s \in Seq(ToSet(s))
  PROVE  /\ Len(s) \in Nat /\ 0 \in 0 .. Len(s) /\ Len(s) \in 0 .. Len(s) /\ DOMAIN s = 1 .. Len(s)
         /\ \A i \in 1 .. Len(s) : i \in 0 .. Len(s) /\ i - 1 \in 0 .. Len(s) /\ s[i] \in ToSet(s)
         /\ \A x \in ToSet(s) : \E i \in 1 .. Len(s) : x = s[i]
<1>1. Len(s) \in Nat /\ DOMAIN s = 1 .. Len(s)
  OBVIOUS
<1>. QED BY <1>1 DEF ToSet

\* ma_boolean_andexpr::evaluate() stops at the first primary that is false.
LEMMA AndMeans ==
  ASSUME NEW n, NEW e, IsBoolean(e, n), NEW k \in 1 .. Len(e), NEW a \in ToSet(e[k]),
         NEW Rel, NEW ctx, NEW S, NEW T, NEW Y, Preserves(Rel, e, ctx, S),
         \A j \in 1 .. Len(e) : j \in Y <=> Fulfilled(e[j], Y, T),
         NEW so \in Evaluations(Rel, e, ctx, S, T, Y, k - 1), NEW x \in S
  PROVE  LET y == BooleanAndExpr(a, ctx, so, x)
         IN  /\ y \in S /\ <<x, y>> \in Rel
             /\ Decides(T, e, ctx, S) => (y.b <=> \A p \in ToSet(a) : Yes(p, Y, T))
             /\ y.b => Sure(Rel, ctx, S, a, x, y)
<1>. DEFINE good(i, y) ==
              /\ <<x, y>> \in Rel
              /\ Decides(T, e, ctx, S) => (y.b <=> \A j \in 1 .. i : Yes(a[j], Y, T))
              /\ y.b => \A j \in 1 .. i : a[j].type # "EXPR" => Through(Rel, ctx, S, a[j], x, y)
            m == Len(a)
            V == [i \in 0 .. m |-> {y \in S : good(i, y)}]
<1>0. /\ m \in Nat /\ 0 \in 0 .. m /\ m \in 0 .. m
      /\ \A i \in 1 .. m : i \in 0 .. m /\ i - 1 \in 0 .. m /\ a[i] \in ToSet(a)
      /\ \A p \in ToSet(a) : \E i \in 1 .. m : p = a[i]
  <2>1. a \in Seq(ToSet(a))
    BY ExprFacts DEF IsBoolean
  <2>. QED BY <2>1 DEF ToSet
<1>a. ASSUME NEW p \in ToSet(a), NEW y \in S
      PROVE  LET z == BooleanCond(p, ctx, so, y)
             IN  /\ z \in S /\ <<y, z>> \in Rel
                 /\ Decides(T, e, ctx, S) => (z.b <=> Yes(p, Y, T))
                 /\ p.type # "EXPR" => z = PrimaryStep(p, ctx, y)
  BY BelowStep, SMTT(30)
<1>1. [x EXCEPT !.b = TRUE] \in V[0]
  <2>. DEFINE y == [x EXCEPT !.b = TRUE]
  <2>1. y \in S /\ <<x, y>> \in Rel /\ y.b
    BY DEF Preserves
  <2>. HIDE DEF y
  <2>2. good(0, y)
    BY <2>1
  <2>. QED BY <1>0, <2>1, <2>2 DEF y
<1>2. ASSUME NEW i \in 1 .. m, NEW y \in V[i - 1]
      PROVE  AndStep(a, ctx, so, i, y) \in V[i]
  <2>1. y \in S /\ good(i - 1, y)
    BY <1>0
  <2>2. \A j \in 1 .. i : j = i \/ j \in 1 .. i - 1
    OBVIOUS
  <2>3. CASE ~y.b
    <3>1. AndStep(a, ctx, so, i, y) = y
      BY <2>3 DEF AndStep
    <3>2. \A j \in 1 .. i - 1 : j \in 1 .. i
      OBVIOUS
    <3>. QED BY <1>0, <2>1, <2>3, <3>1, <3>2
  <2>4. CASE y.b
    <3>. DEFINE p == a[i]
                z == BooleanCond(p, ctx, so, y)
    <3>1. p \in ToSet(a) /\ AndStep(a, ctx, so, i, y) = z
      BY <1>0, <2>4 DEF AndStep
    <3>2. /\ z \in S /\ <<y, z>> \in Rel
          /\ Decides(T, e, ctx, S) => (z.b <=> Yes(p, Y, T))
          /\ p.type # "EXPR" => z = PrimaryStep(p, ctx, y)
      BY <2>1, <3>1, <1>a
    <3>. HIDE DEF z, p, V
    <3>3. <<x, z>> \in Rel /\ <<z, z>> \in Rel
      BY <2>1, <3>2 DEF Preserves
    <3>4. \A q : Through(Rel, ctx, S, q, x, y) => Through(Rel, ctx, S, q, x, z)
      BY <2>1, <3>2 DEF Through, Preserves
    <3>5. z.b /\ p.type # "EXPR" => Through(Rel, ctx, S, p, x, z)
      BY <2>1, <3>2, <3>3 DEF Through
    <3>6. Decides(T, e, ctx, S) => (z.b <=> \A j \in 1 .. i : Yes(a[j], Y, T))
      <4>1. \A j \in 1 .. i - 1 : j \in 1 .. i
        OBVIOUS
      <4>. QED BY <2>1, <2>2, <2>4, <3>2, <4>1 DEF p
    <3>7. z.b => \A j \in 1 .. i : a[j].type # "EXPR" => Through(Rel, ctx, S, a[j], x, z)
      BY <2>1, <2>2, <2>4, <3>4, <3>5 DEF p
    <3>. QED BY <1>0, <3>1, <3>2, <3>3, <3>6, <3>7 DEF V
  <2>. QED BY <2>3, <2>4
<1>3. \A y \in V[m] : y \in S /\ good(m, y)
  BY <1>0
<1>. HIDE DEF V
<1>4. PICK c : AndRun(a, ctx, so, x, V, c)
  BY <1>0, <1>1, <1>2, AndRecursion
<1>. DEFINE y == BooleanAndExpr(a, ctx, so, x)
<1>5. y \in S /\ good(m, y)
  BY <1>0, <1>3, <1>4 DEF AndRun
<1>. HIDE DEF y
<1>6. Decides(T, e, ctx, S) => (y.b <=> \A p \in ToSet(a) : Yes(p, Y, T))
  BY <1>0, <1>5
<1>7. y.b => Sure(Rel, ctx, S, a, x, y)
  BY <1>0, <1>5 DEF Sure
<1>. QED BY <1>5, <1>6, <1>7 DEF y

\* ma_boolean_expr::evaluate() stops at the first alternative that is true.
LEMMA OrMeans ==
  ASSUME NEW n, NEW e, IsBoolean(e, n), NEW k \in 1 .. Len(e),
         NEW Rel, NEW ctx, NEW S, NEW T, NEW Y, Preserves(Rel, e, ctx, S),
         \A j \in 1 .. Len(e) : j \in Y <=> Fulfilled(e[j], Y, T),
         NEW so \in Evaluations(Rel, e, ctx, S, T, Y, k - 1), NEW x \in S
  PROVE  Evaluates(BooleanOrExpr(e[k], ctx, so, x), [st |-> x, expr |-> e[k]], Rel, e, ctx, S, T, Y)
<1>. DEFINE as == e[k]
            m == Len(as)
            holds(a) == \A p \in ToSet(a) : Yes(p, Y, T)
            good(i, y) ==
              /\ <<x, y>> \in Rel
              /\ Decides(T, e, ctx, S) => (y.b <=> \E j \in 1 .. i : holds(as[j]))
              /\ y.b => \E j \in 1 .. i : Sure(Rel, ctx, S, as[j], x, y)
            V == [i \in 0 .. m |-> {y \in S : good(i, y)}]
<1>0. /\ m \in Nat /\ 0 \in 0 .. m /\ m \in 0 .. m
      /\ \A i \in 1 .. m : i \in 0 .. m /\ i - 1 \in 0 .. m /\ as[i] \in ToSet(as)
      /\ \A a \in ToSet(as) : \E i \in 1 .. m : a = as[i]
  <2>1. as \in Seq(ToSet(as))
    BY ExprFacts DEF IsBoolean
  <2>. QED BY <2>1, ListFacts
<1>a. ASSUME NEW a \in ToSet(as), NEW y \in S
      PROVE  LET z == BooleanAndExpr(a, ctx, so, y)
             IN  /\ z \in S /\ <<y, z>> \in Rel
                 /\ Decides(T, e, ctx, S) => (z.b <=> holds(a))
                 /\ z.b => Sure(Rel, ctx, S, a, y, z)
  BY AndMeans
<1>. HIDE DEF as, holds
<1>1. [x EXCEPT !.b = FALSE] \in V[0]
  <2>. DEFINE y == [x EXCEPT !.b = FALSE]
  <2>1. y \in S /\ <<x, y>> \in Rel /\ ~y.b
    BY DEF Preserves
  <2>. HIDE DEF y
  <2>2. good(0, y)
    BY <2>1
  <2>. QED BY <1>0, <2>1, <2>2 DEF y
<1>2. ASSUME NEW i \in 1 .. m, NEW y \in V[i - 1]
      PROVE  OrStep(as, ctx, so, i, y) \in V[i]
  <2>1. y \in S /\ good(i - 1, y)
    BY <1>0
  <2>2. \A j \in 1 .. i : j = i \/ j \in 1 .. i - 1
    OBVIOUS
  <2>3. \A j \in 1 .. i - 1 : j \in 1 .. i
    OBVIOUS
  <2>4. CASE y.b
    <3>1. OrStep(as, ctx, so, i, y) = y
      BY <2>4 DEF OrStep
    <3>2. good(i, y)
      BY <2>1, <2>2, <2>3, <2>4
    <3>. QED BY <1>0, <2>1, <3>1, <3>2
  <2>5. CASE ~y.b
    <3>. DEFINE a == as[i]
                z == BooleanAndExpr(a, ctx, so, y)
    <3>1. a \in ToSet(as) /\ OrStep(as, ctx, so, i, y) = z
      BY <1>0, <2>5 DEF OrStep
    <3>2. /\ z \in S /\ <<y, z>> \in Rel
          /\ Decides(T, e, ctx, S) => (z.b <=> holds(a))
          /\ z.b => Sure(Rel, ctx, S, a, y, z)
      BY <2>1, <3>1, <1>a
    <3>. HIDE DEF z, a, V
    <3>3. <<x, z>> \in Rel
      BY <2>1, <3>2 DEF Preserves
    <3>4. \A q : Through(Rel, ctx, S, q, y, z) => Through(Rel, ctx, S, q, x, z)
      BY <2>1, <3>2 DEF Through, Preserves
    <3>5. z.b => Sure(Rel, ctx, S, a, x, z)
      BY <3>2, <3>4 DEF Sure
    <3>6. Decides(T, e, ctx, S) => (z.b <=> \E j \in 1 .. i : holds(as[j]))
      <4>1. Decides(T, e, ctx, S) => ~\E j \in 1 .. i - 1 : holds(as[j])
        BY <2>1, <2>5
      <4>2. i \in 1 .. i
        OBVIOUS
      <4>. QED BY <2>2, <3>2, <4>1, <4>2 DEF a
    <3>7. z.b => \E j \in 1 .. i : Sure(Rel, ctx, S, as[j], x, z)
      <4>1. i \in 1 .. i
        OBVIOUS
      <4>. QED BY <3>5, <4>1 DEF a
    <3>. QED BY <1>0, <3>1, <3>2, <3>3, <3>6, <3>7 DEF V
  <2>. QED BY <2>4, <2>5
<1>3. \A y \in V[m] : y \in S /\ good(m, y)
  BY <1>0
<1>. HIDE DEF V
<1>4. PICK c : OrRun(as, ctx, so, x, V, c)
  BY <1>0, <1>1, <1>2, OrRecursion
<1>. DEFINE y == BooleanOrExpr(as, ctx, so, x)
            w == [st |-> x, expr |-> as]
<1>5. y \in S /\ good(m, y)
  BY <1>0, <1>3, <1>4 DEF OrRun
<1>. HIDE DEF y
<1>6. Decides(T, e, ctx, S) => (y.b <=> \E a \in ToSet(as) : holds(a))
  BY <1>0, <1>5
<1>7. y.b => \E a \in ToSet(as) : Sure(Rel, ctx, S, a, x, y)
  BY <1>0, <1>5
<1>8. w.st = x /\ w.expr = as
  OBVIOUS
<1>. HIDE DEF w
<1>9. Evaluates(y, w, Rel, e, ctx, S, T, Y)
  BY <1>5, <1>6, <1>7, <1>8 DEF Evaluates, Fulfilled, holds
<1>. QED BY <1>9 DEF y, w, as

\* What the whole expression comes to: where it is true, one of its alternatives that are
\* not in parentheses has been true, primary after primary.
LEMMA BooleanMeans ==
  ASSUME NEW n \in Nat, NEW e, IsBoolean(e, n), e # <<>>, NEW ctx, Len(ctx.hs) = n,
         NEW Rel, Preserves(Rel, e, ctx, Progress(n)), NEW T, NEW x \in Progress(n)
  PROVE  LET y == BooleanExpr(e, ctx, x)
         IN  /\ y \in Progress(n) /\ <<x, y>> \in Rel
             /\ Decides(T, e, ctx, Progress(n)) => (y.b <=> Satisfied(e, T))
             /\ y.b => \E a \in Alternatives(e) : Sure(Rel, ctx, Progress(n), a, x, y)
<1>. DEFINE S == Progress(n)
            m == Len(e)
<1>0. IsExpr(e)
  BY DEF IsBoolean
<1>1. m \in Nat /\ m # 0 /\ 0 \in 0 .. m /\ m \in 0 .. m /\ m \in 1 .. m
      /\ \A k \in 1 .. m : k \in 0 .. m /\ k - 1 \in 0 .. m
  <2>1. e \in Seq(ToSet(e))
    BY <1>0 DEF IsExpr
  <2>. QED BY <2>1
<1>2. PICK Y : /\ Satisfied(e, T) <=> m \in Y
               /\ \A k \in 1 .. m : k \in Y <=> Fulfilled(e[k], Y, T)
  BY <1>0, SatisfiedIs
<1>. HIDE DEF S, m
<1>. DEFINE V == [k \in 0 .. m |-> Evaluations(Rel, e, ctx, S, T, Y, k)]
<1>3. <<>> \in V[0]
  <2>1. <<>> \in Seq([S -> S]) /\ Len(<<>>) = 0
    OBVIOUS
  <2>. QED BY <1>1, <2>1 DEF Evaluations
<1>4. ASSUME NEW k \in 1 .. m, NEW so \in V[k - 1]
      PROVE  BooleanStep(e, ctx, k, so) \in V[k]
  <2>. DEFINE f == [z \in S |-> BooleanOrExpr(e[k], ctx, so, z)]
  <2>1. so \in Evaluations(Rel, e, ctx, S, T, Y, k - 1) /\ k \in 1 .. Len(e)
    BY <1>1 DEF m
  <2>2. ASSUME NEW z \in S
        PROVE  Evaluates(BooleanOrExpr(e[k], ctx, so, z), [st |-> z, expr |-> e[k]], Rel, e, ctx, S, T, Y)
    <3>. HIDE DEF V
    <3>. QED BY <1>2, <2>1, OrMeans DEF S, m
  <2>3. f \in [S -> S]
    BY <2>2 DEF Evaluates
  <2>4. BooleanStep(e, ctx, k, so) = Append(so, f)
    BY DEF BooleanStep, S
  <2>5. \A z \in S : Evaluates(f[z], [st |-> z, expr |-> e[k]], Rel, e, ctx, S, T, Y)
    BY <2>2
  <2>. HIDE DEF f, V
  <2>6. /\ so \in Seq([S -> S]) /\ Len(so) = k - 1
        /\ \A j \in 1 .. k - 1 : \A z \in S : Evaluates(so[j][z], [st |-> z, expr |-> e[j]], Rel, e, ctx, S, T, Y)
    BY <2>1 DEF Evaluations
  <2>. DEFINE s == Append(so, f)
  <2>7. s \in Seq([S -> S]) /\ Len(s) = k /\ s[k] = f /\ \A j \in 1 .. k - 1 : s[j] = so[j]
    BY <2>3, <2>6
  <2>. HIDE DEF s
  <2>8. \A j \in 1 .. k : j = k \/ j \in 1 .. k - 1
    OBVIOUS
  <2>9. s \in Evaluations(Rel, e, ctx, S, T, Y, k)
    <3>. SUFFICES ASSUME NEW j \in 1 .. k, NEW z \in S
                  PROVE  Evaluates(s[j][z], [st |-> z, expr |-> e[j]], Rel, e, ctx, S, T, Y)
      BY <2>7 DEF Evaluations
    <3>1. CASE j = k
      BY <2>5, <2>7, <3>1
    <3>2. CASE j \in 1 .. k - 1
      BY <2>6, <2>7, <3>2
    <3>. QED BY <2>8, <3>1, <3>2
  <2>. QED BY <1>1, <2>4, <2>9 DEF s, V
<1>5. V[m] = Evaluations(Rel, e, ctx, S, T, Y, m)
  BY <1>1
<1>. HIDE DEF V
<1>6. PICK c : BooleanRun(e, ctx, x, V, c)
  BY <1>1, <1>3, <1>4, BooleanRecursion DEF m
<1>. DEFINE y == BooleanExpr(e, ctx, x)
            w == [st |-> x, expr |-> e[m]]
<1>7. y = c[m][m][x] /\ c[m] \in Evaluations(Rel, e, ctx, S, T, Y, m)
  BY <1>1, <1>5, <1>6 DEF BooleanRun, m
<1>8. w.st = x /\ w.expr = e[m]
  OBVIOUS
<1>9. Evaluates(y, w, Rel, e, ctx, S, T, Y)
  BY <1>1, <1>7 DEF Evaluations, S
<1>. HIDE DEF y, w
<1>10. m \in Y <=> Fulfilled(e[m], Y, T)
  BY <1>1, <1>2
<1>. QED BY <1>2, <1>8, <1>9, <1>10 DEF Evaluates, Alternatives, S, m, y

-----------------------------------------------------------------------------
(* The primaries.                                                          *)

\* The indices a part of a domain ranges over (ma_hitmap.cpp).
LEMMA IndicesFacts ==
  ASSUME NEW X, NEW table \in Seq(X), NEW i \in Index
  PROVE  /\ Indices(table, i) \in Seq(Index)
         /\ ToSet(Indices(table, i)) = IF i = D_ANY THEN 0 .. Len(table) - 1 ELSE {i}
<1>0. Len(table) \in Nat /\ DOMAIN table = 1 .. Len(table)
  OBVIOUS
<1>1. CASE i = D_ANY
  <2>. DEFINE s == [k \in 1 .. Len(table) |-> k - 1]
  <2>1. Indices(table, i) = s
    BY <1>0, <1>1 DEF Indices
  <2>2. s \in Seq(Index)
    BY <1>0 DEF Index
  <2>3. ToSet(s) = 0 .. Len(table) - 1
    <3>1. ToSet(s) = {k - 1 : k \in 1 .. Len(table)}
      BY <1>0 DEF ToSet
    <3>2. \A j \in 0 .. Len(table) - 1 : j + 1 \in 1 .. Len(table) /\ (j + 1) - 1 = j
      BY <1>0
    <3>3. \A k \in 1 .. Len(table) : k - 1 \in 0 .. Len(table) - 1
      BY <1>0
    <3>. HIDE DEF s
    <3>. QED BY <3>1, <3>2, <3>3
  <2>. QED BY <1>1, <2>1, <2>2, <2>3
<1>2. CASE i # D_ANY
  <2>1. Indices(table, i) = <<i>>
    BY <1>2 DEF Indices
  <2>2. <<i>> \in Seq(Index) /\ ToSet(<<i>>) = {i}
    BY DEF ToSet
  <2>. QED BY <1>2, <2>1, <2>2
<1>. QED BY <1>1, <1>2

\* The pairs of indices of a domain, in whatever order.
LEMMA CondRangeFacts ==
  ASSUME NEW X, NEW h, h.srcs \in Seq(X), h.tgts \in Seq(X), NEW d \in CondDomain
  PROVE  /\ CondRange(h, d) \in Seq(CondDomain)
         /\ ToSet(CondRange(h, d)) = ToSet(Indices(h.srcs, d[1])) \X ToSet(Indices(h.tgts, d[2]))
<1>. DEFINE srcs == Indices(h.srcs, d[1])
            tgts == Indices(h.tgts, d[2])
            row(s) == [t \in DOMAIN tgts |-> <<srcs[s], tgts[t]>>]
            rows == [s \in DOMAIN srcs |-> row(s)]
<1>1. srcs \in Seq(Index) /\ tgts \in Seq(Index)
  BY IndicesFacts DEF CondDomain
<1>2. CondRange(h, d) = FlattenSeq(rows)
  BY DEF CondRange
<1>. HIDE DEF srcs, tgts
<1>3. \A s \in DOMAIN srcs : row(s) \in Seq(CondDomain)
  BY <1>1 DEF CondDomain
<1>4. rows \in Seq(Seq(CondDomain)) /\ DOMAIN rows = DOMAIN srcs /\ \A s \in DOMAIN srcs : rows[s] = row(s)
  <2>1. Len(srcs) \in Nat /\ DOMAIN srcs = 1 .. Len(srcs)
    BY <1>1
  <2>. HIDE DEF row
  <2>2. rows \in [1 .. Len(srcs) -> Seq(CondDomain)]
    BY <1>3, <2>1
  <2>3. rows \in Seq(Seq(CondDomain))
    <3>. HIDE DEF rows
    <3>. QED BY <2>1, <2>2
  <2>. QED BY <2>3
<1>. HIDE DEF rows
<1>5. ToSet(FlattenSeq(rows)) = UNION {ToSet(rows[s]) : s \in DOMAIN rows} /\ FlattenSeq(rows) \in Seq(CondDomain)
  BY <1>4, FlattenFacts
<1>6. \A s \in DOMAIN srcs : ToSet(rows[s]) = {<<srcs[s], tgts[t]>> : t \in DOMAIN tgts}
  BY <1>4 DEF ToSet
<1>7. UNION {ToSet(rows[s]) : s \in DOMAIN rows} = ToSet(srcs) \X ToSet(tgts)
  BY <1>4, <1>6 DEF ToSet
<1>. QED BY <1>2, <1>5, <1>7 DEF srcs, tgts

\* A finite set has as many images at most.
LEMMA ImageFinite ==
  ASSUME NEW S, IsFiniteSet(S), NEW f
  PROVE  IsFiniteSet({f[x] : x \in S}) /\ Cardinality({f[x] : x \in S}) <= Cardinality(S)
<1>. DEFINE g == [x \in S |-> f[x]]
            T == {f[x] : x \in S}
<1>1. g \in Surjection(S, T)
  BY DEF Surjection
<1>. HIDE DEF g, T
<1>2. IsFiniteSet(T) /\ Cardinality(T) <= Cardinality(S)
  BY <1>1, FS_Surjection
<1>. QED BY <1>2 DEF T

\* A list has finitely many members.
LEMMA ListFinite ==
  ASSUME NEW X, NEW s \in Seq(X)
  PROVE  IsFiniteSet(ToSet(s))
<1>1. Len(s) \in Nat /\ ToSet(s) = {s[i] : i \in 1 .. Len(s)}
  BY DEF ToSet
<1>2. IsFiniteSet(1 .. Len(s))
  BY <1>1, FS_Interval
<1>. QED BY <1>1, <1>2, ImageFinite

\* get_alarm_count() counts.
LEMMA AlarmCountType ==
  ASSUME NEW X, NEW h, h.srcs \in Seq(X), h.tgts \in Seq(X), NEW d \in CondDomain,
         NEW tc \in Nat, \A v \in DOMAIN h.num : h.num[v] \in 0 .. tc,
         NEW arg \in {"SOURCE", "TARGET", "MESSAGE"}
  PROVE  AlarmCount(h, d, arg) \in Nat
<1>. DEFINE s == CondRange(h, d)
            on == {v \in ToSet(s) : IsOn(h, v)}
            all == UNION {{v} \X (1 .. h.num[v]) : v \in ToSet(s) \cap DOMAIN h.num}
<1>1. s \in Seq(CondDomain)
  BY CondRangeFacts
<1>2. AlarmCount(h, d, arg) \in {Cardinality({v[1] : v \in on}), Cardinality({v[2] : v \in on}),
                                 Cardinality(all)}
  BY DEF AlarmCount
<1>. HIDE DEF s
<1>3. IsFiniteSet(ToSet(s))
  BY <1>1, ListFinite
<1>4. IsFiniteSet(on)
  BY <1>3, FS_Subset
<1>6. IsFiniteSet(all)
  <2>1. IsFiniteSet(ToSet(s) \X (1 .. tc))
    <3>1. IsFiniteSet(1 .. tc)
      BY FS_Interval
    <3>. HIDE DEF s
    <3>. QED BY <1>3, <3>1, FS_Product
  <2>2. \A v \in DOMAIN h.num : \A k \in 1 .. h.num[v] : k \in 1 .. tc
    OBVIOUS
  <2>3. all \subseteq ToSet(s) \X (1 .. tc)
    BY <2>2
  <2>. HIDE DEF all
  <2>. QED BY <2>1, <2>3, FS_Subset
<1>. HIDE DEF on, all
<1>5. IsFiniteSet({v[1] : v \in on}) /\ IsFiniteSet({v[2] : v \in on})
  <2>. DEFINE f == [v \in on |-> v[1]]
              g == [v \in on |-> v[2]]
  <2>1. {f[v] : v \in on} = {v[1] : v \in on} /\ {g[v] : v \in on} = {v[2] : v \in on}
    OBVIOUS
  <2>. HIDE DEF f, g
  <2>2. IsFiniteSet({f[v] : v \in on}) /\ IsFiniteSet({g[v] : v \in on})
    BY <1>4, ImageFinite
  <2>. QED BY <2>1, <2>2
<1>. QED BY <1>2, <1>5, <1>6, FS_CardinalityType

\* The comparison of a count.
LEMMA CompareType ==
  ASSUME NEW op \in Ops, NEW v \in Int, NEW w \in Int
  PROVE  compare(op, v, w) \in BOOLEAN
<1>1. CASE op = "<"
  <2>1. compare(op, v, w) = (v < w)
    BY <1>1 DEF compare
  <2>. QED BY <2>1
<1>2. CASE op = "<="
  <2>1. compare(op, v, w) = (v <= w)
    BY <1>2 DEF compare
  <2>. QED BY <2>1
<1>3. CASE op = "=="
  <2>1. compare(op, v, w) = (v = w)
    BY <1>3 DEF compare
  <2>. QED BY <2>1
<1>4. CASE op = "!="
  <2>1. compare(op, v, w) = (v # w)
    BY <1>4 DEF compare
  <2>. QED BY <2>1
<1>5. CASE op = ">="
  <2>1. compare(op, v, w) = (v >= w)
    BY <1>5 DEF compare
  <2>. QED BY <2>1
<1>6. CASE op = ">"
  <2>1. compare(op, v, w) = (v > w)
    BY <1>6 DEF compare
  <2>. QED BY <2>1
<1>. QED BY <1>1, <1>2, <1>3, <1>4, <1>5, <1>6 DEF Ops

\* The comparison of a percentage.
LEMMA PercentType ==
  ASSUME NEW op \in Ops, NEW count \in Nat, NEW total \in Nat, NEW pct \in Int
  PROVE  PercentCompare(op, count, total, pct) \in BOOLEAN
<1>1. compare(op, 100 * count, pct * total) \in BOOLEAN
  BY CompareType
<1>2. CASE total > 0
  <2>1. PercentCompare(op, count, total, pct) = compare(op, 100 * count, pct * total)
    BY <1>2 DEF PercentCompare
  <2>. QED BY <1>1, <2>1
<1>3. CASE total = 0 /\ count > 0
  <2>1. PercentCompare(op, count, total, pct) = (op \in {">", ">=", "!="})
    BY <1>3 DEF PercentCompare
  <2>. QED BY <2>1
<1>4. CASE total = 0 /\ count = 0
  <2>1. PercentCompare(op, count, total, pct) = (op = "!=")
    BY <1>4 DEF PercentCompare
  <2>. QED BY <2>1
<1>. QED BY <1>2, <1>3, <1>4

\* The state of an IS_SYNCD knows its extremes.
LEMMA SyncdFacts ==
  ASSUME NEW round \in Rounds, NEW src \in STRING, NEW t \in Nat
  PROVE  /\ IsSyncd(round, src, t).round \in Rounds
         /\ IsSyncd(round, src, t).value \in BOOLEAN
         /\ RoundOK(round) => RoundOK(IsSyncd(round, src, t).round)
<1>. DEFINE one == [time |-> {<<src, t>>}, min |-> t, max |-> t]
            more == [time |-> round.time \cup {<<src, t>>},
                     min |-> IF t < round.min THEN t ELSE round.min,
                     max |-> IF t > round.max THEN t ELSE round.max]
<1>0. round.time \in SUBSET (STRING \X Nat) /\ round.min \in Nat /\ round.max \in Nat
  BY DEF Rounds
<1>1. CASE round.time = {} \/ \E x \in round.time : x[1] = src
  <2>1. IsSyncd(round, src, t) = [round |-> one, value |-> FALSE]
    BY <1>1 DEF IsSyncd
  <2>2. one \in Rounds /\ RoundOK(one)
    BY DEF Rounds, RoundOK
  <2>. HIDE DEF one
  <2>. QED BY <2>1, <2>2
<1>2. CASE ~(round.time = {} \/ \E x \in round.time : x[1] = src)
  <2>1. IsSyncd(round, src, t) = [round |-> more, value |-> more.max - more.min > 5]
    BY <1>2 DEF IsSyncd
  <2>2. /\ more.time = round.time \cup {<<src, t>>}
        /\ more.min = (IF t < round.min THEN t ELSE round.min)
        /\ more.max = (IF t > round.max THEN t ELSE round.max)
    OBVIOUS
  <2>3. more \in Rounds
    BY <1>0 DEF Rounds
  <2>. HIDE DEF more
  <2>4. RoundOK(round) => RoundOK(more)
    <3>. SUFFICES ASSUME RoundOK(round) PROVE RoundOK(more)
      OBVIOUS
    <3>1. /\ \A x \in round.time : round.min <= x[2] /\ x[2] <= round.max /\ x[2] \in Nat
          /\ \E x \in round.time : x[2] = round.min
          /\ \E x \in round.time : x[2] = round.max
      BY <1>0, <1>2 DEF RoundOK
    <3>2. <<src, t>>[2] = t
      OBVIOUS
    <3>3. \A x \in more.time : more.min <= x[2] /\ x[2] <= more.max
      BY <1>0, <2>2, <3>1, <3>2
    <3>4. more.min \in {x[2] : x \in more.time} /\ more.max \in {x[2] : x \in more.time}
      <4>1. t \in {x[2] : x \in more.time}
        BY <2>2, <3>2
      <4>2. round.min \in {x[2] : x \in more.time} /\ round.max \in {x[2] : x \in more.time}
        BY <2>2, <3>1
      <4>. QED BY <2>2, <4>1, <4>2
    <3>. QED BY <3>3, <3>4 DEF RoundOK
  <2>5. (more.max - more.min > 5) \in BOOLEAN
    OBVIOUS
  <2>. QED BY <2>1, <2>3, <2>4, <2>5
<1>. QED BY <1>1, <1>2

-----------------------------------------------------------------------------
(* What a primary does.                                                    *)

\* What a rule's expression is evaluated for.
CtxOK(ctx, e, n) ==
  /\ TablesOK(ctx.hs, n)
  /\ \A i \in 1 .. n : \E tc \in Nat : \A v \in DOMAIN ctx.hs[i].num : ctx.hs[i].num[v] \in 0 .. tc
  /\ ctx.domain \in [1 .. n -> CondDomain] /\ ctx.value \in [1 .. n -> CondDomain]
  /\ \A i \in 1 .. n : ctx.last[i] \in [src : STRING, tgt : STRING, num : Nat]
  /\ \A p \in Primaries(e) : p.type = "COUNT_PERCENT" => ctx.group[p.group] \in Nat

\* What a primary counts in its domain.
Counted(p, ctx) == AlarmCount(ctx.hs[p.i], ctx.domain[p.i], p.arg)

\* What it takes for a primary to be true.
IsTrue(p, ctx) ==
  CASE p.type = "COND"          -> IsOn(ctx.hs[p.i], ctx.value[p.i])
    [] p.type = "COUNT"         -> compare(p.op, Counted(p, ctx), p.rhv)
    [] p.type = "COUNT_PERCENT" -> PercentCompare(p.op, Counted(p, ctx), ctx.group[p.group], p.rhv)

\* What a primary makes of its condition's part of the alarm.
Located(p, ctx, so) ==
  CASE p.type = "COND" -> IF CondIsNull(so) THEN ctx.value[p.i] ELSE so
    [] p.type \in {"COUNT", "COUNT_PERCENT"} -> ctx.domain[p.i]
    [] p.type = "IS_SYNCD" -> <<FindArg(ctx.hs[p.i], ctx.last[p.i].src, "s"),
                                FindArg(ctx.hs[p.i], ctx.last[p.i].tgt, "t")>>

\* What a primary may do to an evaluation in progress.
PrimaryDoes(p, ctx, n, x, y) ==
  /\ y \in Progress(n) /\ p.i \in 1 .. n
  /\ RoundOK(x.round) => RoundOK(y.round)
  /\ \A j \in 1 .. n : y.alarm[j] = IF j = p.i THEN Located(p, ctx, x.alarm[j]) ELSE x.alarm[j]
  /\ p.type # "IS_SYNCD" => (y.b <=> IsTrue(p, ctx)) /\ y.round = x.round

\* An outcome and a part of the alarm.
AtOnce(x, i, a, b) == [x EXCEPT !.alarm[i] = a, !.b = b]
InTurn(x, i, a, b) == [[x EXCEPT !.alarm[i] = a] EXCEPT !.b = b]

\* An outcome and a part of the alarm, in one go or one after the other.
LEMMA ProgressChange ==
  ASSUME NEW n, NEW x \in Progress(n), NEW i \in 1 .. n, NEW a \in CondDomain, NEW b \in BOOLEAN
  PROVE  LET y == InTurn(x, i, a, b)
         IN  /\ y \in Progress(n) /\ y.b = b /\ y.round = x.round
             /\ \A j \in 1 .. n : y.alarm[j] = IF j = i THEN a ELSE x.alarm[j]
             /\ AtOnce(x, i, a, b) = y
<1>. DEFINE u == [x EXCEPT !.alarm[i] = a]
            y == [u EXCEPT !.b = b]
<1>1. x \in [b : BOOLEAN, alarm : [1 .. n -> CondDomain], round : Rounds]
  BY DEF Progress
<1>2. u \in [b : BOOLEAN, alarm : [1 .. n -> CondDomain], round : Rounds]
  BY <1>1
<1>3. u.round = x.round /\ u.alarm = [x.alarm EXCEPT ![i] = a]
  BY <1>1
<1>4. y = [x EXCEPT !.alarm[i] = a, !.b = b]
  OBVIOUS
<1>. HIDE DEF u
<1>5. y \in [b : BOOLEAN, alarm : [1 .. n -> CondDomain], round : Rounds]
      /\ y.b = b /\ y.round = u.round /\ y.alarm = u.alarm
  BY <1>2
<1>. HIDE DEF y
<1>6. \A j \in 1 .. n : y.alarm[j] = IF j = i THEN a ELSE x.alarm[j]
  BY <1>1, <1>3, <1>5
<1>. QED BY <1>3, <1>4, <1>5, <1>6 DEF Progress, y, u, AtOnce, InTurn

\* Each kind of primary does what PrimaryDoes says.
LEMMA PrimaryFacts ==
  ASSUME NEW n \in Nat, NEW e, IsBoolean(e, n), NEW ctx, CtxOK(ctx, e, n),
         NEW p \in Primaries(e), NEW x \in Progress(n)
  PROVE  PrimaryDoes(p, ctx, n, x, PrimaryStep(p, ctx, x))
<1>. DEFINE i == p.i
            y == PrimaryStep(p, ctx, x)
            h == ctx.hs[i]
<1>0. i \in 1 .. n
  BY DEF IsBoolean
<1>1. p.type \in {"COND", "COUNT", "COUNT_PERCENT", "IS_SYNCD"}
  BY DEF IsBoolean
<1>2. x.b \in BOOLEAN /\ x.alarm \in [1 .. n -> CondDomain] /\ x.round \in Rounds
      /\ x = [b |-> x.b, alarm |-> x.alarm, round |-> x.round]
  BY DEF Progress
<1>3. h.srcs \in Seq(ToSet(NameOrder)) /\ h.tgts \in Seq(ToSet(NameOrder))
      /\ IsInjective(h.srcs) /\ IsInjective(h.tgts)
  BY <1>0 DEF CtxOK, TablesOK, Table
<1>4. PICK tc \in Nat : \A v \in DOMAIN h.num : h.num[v] \in 0 .. tc
  BY <1>0 DEF CtxOK
<1>5. ctx.domain[i] \in CondDomain /\ ctx.value[i] \in CondDomain
      /\ ctx.last[i] \in [src : STRING, tgt : STRING, num : Nat]
  BY <1>0 DEF CtxOK
<1>6. CASE p.type = "COND"
  <2>. DEFINE a == IF CondIsNull(x.alarm[i]) THEN ctx.value[i] ELSE x.alarm[i]
              b == IsOn(h, ctx.value[i])
  <2>1. y = AtOnce(x, i, a, b)
    BY <1>6 DEF PrimaryStep, BooleanCond, Cond, AtOnce
  <2>2. a \in CondDomain /\ b \in BOOLEAN
    BY <1>0, <1>2, <1>5 DEF IsOn
  <2>3. Located(p, ctx, x.alarm[i]) = a /\ IsTrue(p, ctx) = b
    BY <1>6 DEF Located, IsTrue
  <2>. HIDE DEF a, b, h
  <2>4. y \in Progress(n) /\ y.b = b /\ y.round = x.round
        /\ \A j \in 1 .. n : y.alarm[j] = IF j = i THEN a ELSE x.alarm[j]
    BY <1>0, <2>1, <2>2, ProgressChange
  <2>. HIDE DEF y
  <2>. QED BY <1>0, <2>3, <2>4 DEF PrimaryDoes, y
<1>7. CASE p.type \in {"COUNT", "COUNT_PERCENT"}
  <2>. DEFINE k == Counted(p, ctx)
              b == IF p.type = "COUNT" THEN compare(p.op, k, p.rhv)
                   ELSE PercentCompare(p.op, k, ctx.group[p.group], p.rhv)
              a == ctx.domain[i]
  <2>1. p.op \in Ops /\ p.rhv \in Int /\ p.arg \in {"SOURCE", "TARGET", "MESSAGE"}
    BY <1>7 DEF IsBoolean, IsComparison
  <2>2. k \in Nat
    <3>. HIDE DEF h
    <3>1. AlarmCount(h, ctx.domain[i], p.arg) \in Nat
      BY <1>3, <1>4, <1>5, <2>1, AlarmCountType
    <3>. QED BY <3>1 DEF Counted, h
  <2>3. p.type = "COUNT_PERCENT" => ctx.group[p.group] \in Nat
    BY DEF CtxOK
  <2>4. y = InTurn(x, i, a, b)
    BY <1>7 DEF PrimaryStep, BooleanCond, Count, CountPercent, Grouped, Counted, InTurn
  <2>5. b \in BOOLEAN
    <3>. HIDE DEF k
    <3>. QED BY <1>7, <2>1, <2>2, <2>3, CompareType, PercentType
  <2>6. Located(p, ctx, x.alarm[i]) = a /\ IsTrue(p, ctx) = b
    BY <1>7 DEF Located, IsTrue
  <2>. HIDE DEF a, b, h, k
  <2>7. y \in Progress(n) /\ y.b = b /\ y.round = x.round
        /\ \A j \in 1 .. n : y.alarm[j] = IF j = i THEN a ELSE x.alarm[j]
    BY <1>0, <1>5, <2>4, <2>5, ProgressChange DEF a
  <2>. HIDE DEF y
  <2>. QED BY <1>0, <2>6, <2>7 DEF PrimaryDoes, y
<1>8. CASE p.type = "IS_SYNCD"
  <2>. DEFINE l == ctx.last[i]
              s == IsSyncd(x.round, l.src, l.num)
              a == <<FindArg(h, l.src, "s"), FindArg(h, l.tgt, "t")>>
  <2>1. y = [b |-> s.value, round |-> s.round, alarm |-> [x.alarm EXCEPT ![i] = a]]
    BY <1>8 DEF PrimaryStep, BooleanCond, Syncd
  <2>2. s.round \in Rounds /\ s.value \in BOOLEAN /\ (RoundOK(x.round) => RoundOK(s.round))
    BY <1>2, <1>5, SyncdFacts
  <2>3. a \in CondDomain
    <3>1. /\ FindArg(h, l.src, "s") \in (0 .. Len(h.srcs) - 1) \cup {D_NIL}
          /\ FindArg(h, l.tgt, "t") \in (0 .. Len(h.tgts) - 1) \cup {D_NIL}
      <4>. DEFINE ss == h.srcs
                  tt == h.tgts
      <4>1. ss = Table(h, "s") /\ tt = Table(h, "t")
        BY DEF Table
      <4>. HIDE DEF h
      <4>2. FindArg(h, l.src, "s") \in (0 .. Len(ss) - 1) \cup {D_NIL}
        BY <1>3, <4>1, FindArgFacts
      <4>3. FindArg(h, l.tgt, "t") \in (0 .. Len(tt) - 1) \cup {D_NIL}
        BY <1>3, <4>1, FindArgFacts
      <4>. QED BY <4>2, <4>3
    <3>2. Len(h.srcs) \in Nat /\ Len(h.tgts) \in Nat
      BY <1>3
    <3>. HIDE DEF h, l
    <3>3. \A j, k : j \in (0 .. k) \cup {D_NIL} => j \in Index
      BY DEF Index
    <3>. QED BY <3>1, <3>3 DEF CondDomain
  <2>4. Located(p, ctx, x.alarm[i]) = a
    BY <1>8 DEF Located
  <2>. HIDE DEF a, s, h
  <2>5. y \in Progress(n) /\ y.round = s.round
        /\ \A j \in 1 .. n : y.alarm[j] = IF j = i THEN a ELSE x.alarm[j]
    BY <1>0, <1>2, <2>1, <2>2, <2>3 DEF Progress
  <2>. HIDE DEF y
  <2>. QED BY <1>0, <1>8, <2>2, <2>4, <2>5 DEF PrimaryDoes, y
<1>. QED BY <1>1, <1>6, <1>7, <1>8

-----------------------------------------------------------------------------
(* What an expression does.                                                *)

\* What the primaries may make of the alarm's part for condition j.
Parts(e, ctx, j) == UNION {{Located(p, ctx, NullPair)} : p \in {q \in Primaries(e) : q.i = j}}

\* The alarm is put together of such parts, and the round keeps its extremes.
Kept(e, ctx, n) ==
  {q \in Progress(n) \X Progress(n) :
     /\ RoundOK(q[1].round) => RoundOK(q[2].round)
     /\ \A j \in 1 .. n : q[2].alarm[j] \in Parts(e, ctx, j) \cup {q[1].alarm[j]}}

\* A part of an alarm that has not been set is null.
LEMMA NullIsNull == CondIsNull(NullPair)
BY DEF CondIsNull, NullPair

\* A part that is set stays, or becomes one that a primary makes.
LEMMA LocatedFacts ==
  ASSUME NEW e, NEW n, IsBoolean(e, n), NEW ctx, NEW p \in Primaries(e), NEW so
  PROVE  /\ Located(p, ctx, so) \in Parts(e, ctx, p.i) \cup {so}
         /\ CondIsNull(so) \/ p.type # "COND" => Located(p, ctx, so) \in Parts(e, ctx, p.i)
<1>1. Located(p, ctx, NullPair) \in Parts(e, ctx, p.i)
  BY DEF Parts
<1>2. CASE p.type = "COND"
  BY <1>1, <1>2, NullIsNull DEF Located
<1>3. CASE p.type # "COND"
  <2>1. p.type \in {"COUNT", "COUNT_PERCENT", "IS_SYNCD"}
    BY <1>3 DEF IsBoolean
  <2>2. Located(p, ctx, so) = Located(p, ctx, NullPair)
    BY <1>3, <2>1 DEF Located
  <2>. QED BY <1>1, <2>2
<1>. QED BY <1>2, <1>3

\* What every primary preserves, an evaluation preserves.
LEMMA KeptFacts ==
  ASSUME NEW n \in Nat, NEW e, IsBoolean(e, n), NEW ctx, CtxOK(ctx, e, n)
  PROVE  Preserves(Kept(e, ctx, n), e, ctx, Progress(n))
<1>. DEFINE S == Progress(n)
            K == Kept(e, ctx, n)
            related(x, y) == /\ RoundOK(x.round) => RoundOK(y.round)
                             /\ \A j \in 1 .. n : y.alarm[j] \in Parts(e, ctx, j) \cup {x.alarm[j]}
<1>1. \A x, y \in S : <<x, y>> \in K <=> related(x, y)
  BY DEF Kept
<1>2. \A x \in S : related(x, x)
  OBVIOUS
<1>3. \A x, y, z \in S : related(x, y) /\ related(y, z) => related(x, z)
  OBVIOUS
<1>4. \A x \in S, b \in BOOLEAN : /\ [x EXCEPT !.b = b] \in S /\ [x EXCEPT !.b = b].b = b
                                  /\ related(x, [x EXCEPT !.b = b])
  BY DEF Progress
<1>5. ASSUME NEW p \in Primaries(e), NEW x \in S
      PROVE  PrimaryStep(p, ctx, x) \in S /\ related(x, PrimaryStep(p, ctx, x))
  <2>. DEFINE y == PrimaryStep(p, ctx, x)
  <2>1. PrimaryDoes(p, ctx, n, x, y)
    BY PrimaryFacts
  <2>. HIDE DEF y
  <2>2. \A j \in 1 .. n : y.alarm[j] \in Parts(e, ctx, j) \cup {x.alarm[j]}
    BY <2>1, LocatedFacts DEF PrimaryDoes
  <2>. QED BY <2>1, <2>2 DEF PrimaryDoes, y
<1>. HIDE DEF S, K, related
<1>6. \A x \in S, b \in BOOLEAN : <<x, [x EXCEPT !.b = b]>> \in K
  BY <1>1, <1>4
<1>7. \A x, y, z \in S : <<x, y>> \in K /\ <<y, z>> \in K => <<x, z>> \in K
  BY <1>1, <1>3
<1>8. \A x \in S : <<x, x>> \in K
  BY <1>1, <1>2
<1>9. \A p \in Primaries(e) : \A x \in S : PrimaryStep(p, ctx, x) \in S /\ <<x, PrimaryStep(p, ctx, x)>> \in K
  BY <1>1, <1>5
<1>10. \A x \in S, b \in BOOLEAN : [x EXCEPT !.b = b] \in S /\ [x EXCEPT !.b = b].b = b
  BY <1>4
<1>. QED BY <1>6, <1>7, <1>8, <1>9, <1>10 DEF Preserves, S, K

\* Where the evaluation of a rule's expression starts.
Start(n, round) == [b |-> FALSE, round |-> round, alarm |-> [i \in 1 .. n |-> NullPair]]

\* The primaries that are true.
OnlyTrue(e, ctx) == {p \in Primaries(e) : IsTrue(p, ctx)}
\* IS_SYNCD alone depends on the round, which an evaluation changes.
Timeless(e) == \A p \in Primaries(e) : p.type # "IS_SYNCD"

\* A direct primary of the alternative that was true has its part in the alarm.
Witnessed(e, ctx, a, y) ==
  \A p \in ToSet(a) : p.type # "EXPR" =>
    /\ p \in Primaries(e) /\ y.alarm[p.i] \in Parts(e, ctx, p.i)
    /\ p.type # "IS_SYNCD" => IsTrue(p, ctx)

\* A rule's expression evaluated for a value of a domain (ma_boolean_expr.cpp).
LEMMA EvaluationMeans ==
  ASSUME NEW n \in Nat, NEW e, IsBoolean(e, n), e # <<>>, NEW ctx, CtxOK(ctx, e, n),
         NEW round \in Rounds, RoundOK(round)
  PROVE  LET y == BooleanExpr(e, ctx, Start(n, round))
         IN  /\ y \in Progress(n) /\ RoundOK(y.round)
             /\ \A j \in 1 .. n : y.alarm[j] \in Parts(e, ctx, j) \cup {NullPair}
             /\ y.b => \E a \in Alternatives(e) : Witnessed(e, ctx, a, y)
             /\ Timeless(e) => (y.b <=> Satisfied(e, OnlyTrue(e, ctx)))
<1>. DEFINE S == Progress(n)
            K == Kept(e, ctx, n)
            x == Start(n, round)
            y == BooleanExpr(e, ctx, x)
            T == OnlyTrue(e, ctx)
<1>1. x \in S /\ x.round = round /\ \A j \in 1 .. n : x.alarm[j] = NullPair
  <2>1. NullPair \in CondDomain
    BY DEF NullPair, CondDomain, Index
  <2>. QED BY <2>1 DEF Progress, Start
<1>2. Len(ctx.hs) = n /\ Preserves(K, e, ctx, S)
  BY KeptFacts DEF CtxOK, TablesOK
<1>. HIDE DEF x, K, T
<1>3. /\ y \in S /\ <<x, y>> \in K
      /\ Decides(T, e, ctx, S) => (y.b <=> Satisfied(e, T))
      /\ y.b => \E a \in Alternatives(e) : Sure(K, ctx, S, a, x, y)
  BY <1>1, <1>2, BooleanMeans
<1>. HIDE DEF y
<1>4. RoundOK(y.round) /\ \A j \in 1 .. n : y.alarm[j] \in Parts(e, ctx, j) \cup {NullPair}
  BY <1>1, <1>3 DEF Kept, K
<1>5. Timeless(e) => Decides(T, e, ctx, S)
  <2>. SUFFICES ASSUME Timeless(e), NEW p \in Primaries(e), NEW u \in S
                PROVE  PrimaryStep(p, ctx, u).b <=> p \in T
    BY DEF Decides
  <2>1. PrimaryDoes(p, ctx, n, u, PrimaryStep(p, ctx, u)) /\ p.type # "IS_SYNCD"
    BY PrimaryFacts DEF Timeless
  <2>. QED BY <2>1 DEF PrimaryDoes, T, OnlyTrue
<1>6. ASSUME NEW a \in Alternatives(e), Sure(K, ctx, S, a, x, y)
      PROVE  Witnessed(e, ctx, a, y)
  <2>. SUFFICES ASSUME NEW p \in ToSet(a), p.type # "EXPR"
                PROVE  /\ p \in Primaries(e) /\ y.alarm[p.i] \in Parts(e, ctx, p.i)
                       /\ p.type # "IS_SYNCD" => IsTrue(p, ctx)
    BY DEF Witnessed
  <2>1. p \in Primaries(e)
    <3>1. IsExpr(e) /\ Len(e) \in 1 .. Len(e)
      <4>1. IsExpr(e)
        BY DEF IsBoolean
      <4>2. e \in Seq(ToSet(e))
        BY <4>1 DEF IsExpr
      <4>. QED BY <4>1, <4>2
    <3>. QED BY <3>1, ExprFacts DEF Alternatives
  <2>2. PICK u \in S : /\ PrimaryStep(p, ctx, u) \in S /\ PrimaryStep(p, ctx, u).b
                       /\ <<x, u>> \in K /\ <<PrimaryStep(p, ctx, u), y>> \in K
    BY <1>6 DEF Sure, Through
  <2>. DEFINE z == PrimaryStep(p, ctx, u)
              i == p.i
  <2>3. PrimaryDoes(p, ctx, n, u, z)
    BY <2>1, PrimaryFacts
  <2>4. z.b /\ <<x, u>> \in K /\ <<z, y>> \in K
    BY <2>2
  <2>. HIDE DEF z
  <2>5. /\ i \in 1 .. n /\ z.alarm[i] = Located(p, ctx, u.alarm[i])
        /\ p.type # "IS_SYNCD" => IsTrue(p, ctx)
    BY <2>3, <2>4 DEF PrimaryDoes
  <2>6. u.alarm[i] \in Parts(e, ctx, i) \cup {NullPair}
    BY <1>1, <2>4, <2>5 DEF Kept, K
  <2>7. y.alarm[i] \in Parts(e, ctx, i) \cup {z.alarm[i]}
    BY <2>4, <2>5 DEF Kept, K
  <2>8. z.alarm[i] \in Parts(e, ctx, i)
    <3>1. CASE u.alarm[i] \in Parts(e, ctx, i)
      BY <2>1, <2>5, <3>1, LocatedFacts
    <3>2. CASE u.alarm[i] = NullPair
      BY <2>1, <2>5, <3>2, LocatedFacts, NullIsNull
    <3>. QED BY <2>6, <3>1, <3>2
  <2>. QED BY <2>1, <2>5, <2>7, <2>8
<1>. QED BY <1>3, <1>4, <1>5, <1>6 DEF y, x, T

-----------------------------------------------------------------------------
(* The values of a domain.                                                 *)

\* A row of a product, and the row with one more part.
IsRow(f, k, X) == f \in [1 .. k -> X]
Longer(f, u) == Append(f, u)
Extended(t, f, u, k, j, X) == IsRow(t, k, X) /\ t[k] = u /\ \A i \in 1 .. j : t[i] = f[i]

\* A row is a sequence.
LEMMA RowFacts ==
  ASSUME NEW X, NEW k \in Nat, NEW f, IsRow(f, k, X)
  PROVE  f \in Seq(X)
BY DEF IsRow

\* A longer row begins with the row.
LEMMA LongerFacts ==
  ASSUME NEW X, NEW k \in Nat \ {0}, NEW j, j = k - 1, NEW f, IsRow(f, j, X), NEW u \in X
  PROVE  Extended(Longer(f, u), f, u, k, j, X)
<1>. DEFINE t == Append(f, u)
<1>1. f \in Seq(X) /\ Len(f) = k - 1
  BY DEF IsRow
<1>2. t \in Seq(X) /\ Len(t) = k /\ t[k] = u /\ \A i \in 1 .. k - 1 : t[i] = f[i]
  BY <1>1
<1>. HIDE DEF t
<1>3. t \in [1 .. k -> X]
  BY <1>2
<1>. QED BY <1>2, <1>3 DEF t, IsRow, Longer, Extended

\* The values of one part of a domain (ma_hitmap.cpp).
LEMMA PairsFacts ==
  ASSUME NEW x, HitsOK(x.hit), NEW r \in RuleSet, NEW d \in [1 .. N(r) -> CondDomain],
         NEW i \in 1 .. N(r)
  PROVE  PairsOf(x, r, d, i) \in Seq(CondDomain)
<1>. DEFINE h == HitsOf(x, r)[i]
<1>1. h.srcs \in Seq(ToSet(NameOrder)) /\ h.tgts \in Seq(ToSet(NameOrder))
  BY HitsTables DEF TablesOK, Table
<1>. HIDE DEF h
<1>2. CondRange(h, d[i]) \in Seq(CondDomain)
  BY <1>1, CondRangeFacts
<1>3. <<NullPair>> \in Seq(CondDomain)
  BY DEF NullPair, CondDomain, Index
<1>. QED BY <1>2, <1>3 DEF PairsOf, h

\* The rows of the first k parts.
Products(x, r, d, k) ==
  {v \in [1 .. k -> CondDomain] : \A i \in 1 .. k : v[i] \in ToSet(PairsOf(x, r, d, i))}

\* One more part: every row with every value of the part.
LEMMA ValuesStepMeans ==
  ASSUME NEW x, HitsOK(x.hit), NEW r \in RuleSet, NEW d \in [1 .. N(r) -> CondDomain],
         NEW k \in 1 .. N(r), NEW vs \in Seq(Seq(CondDomain)), ToSet(vs) = Products(x, r, d, k - 1)
  PROVE  /\ ValuesStep(x, r, d, k, vs) \in Seq(Seq(CondDomain))
         /\ ToSet(ValuesStep(x, r, d, k, vs)) = Products(x, r, d, k)
<1>. DEFINE ps == PairsOf(x, r, d, k)
            row(a) == [j \in DOMAIN ps |-> Append(vs[a], ps[j])]
            rows == [a \in DOMAIN vs |-> row(a)]
            F == [1 .. k - 1 -> CondDomain]
<1>0. k \in Nat \ {0} /\ Products(x, r, d, k - 1) \subseteq F
  BY RuleFacts DEF Products
<1>1. ps \in Seq(CondDomain)
  BY PairsFacts
<1>2. ValuesStep(x, r, d, k, vs) = FlattenSeq(rows)
  BY DEF ValuesStep
<1>. HIDE DEF ps
<1>3. /\ Len(vs) \in Nat /\ DOMAIN vs = 1 .. Len(vs) /\ Len(ps) \in Nat /\ DOMAIN ps = 1 .. Len(ps)
      /\ \A a \in DOMAIN vs : vs[a] \in Products(x, r, d, k - 1)
      /\ \A j \in DOMAIN ps : ps[j] \in CondDomain /\ ps[j] \in ToSet(ps)
  BY <1>1 DEF ToSet
<1>4. \A a \in DOMAIN vs : row(a) \in [1 .. Len(ps) -> Seq(CondDomain)]
  <2>1. \A a \in DOMAIN vs, j \in DOMAIN ps : Append(vs[a], ps[j]) \in Seq(CondDomain)
    BY <1>3
  <2>. QED BY <1>3, <2>1
<1>5. \A a \in DOMAIN vs : row(a) \in Seq(Seq(CondDomain)) /\ DOMAIN row(a) = DOMAIN ps
                           /\ \A j \in DOMAIN ps : row(a)[j] = Append(vs[a], ps[j])
  BY <1>3, <1>4
<1>. HIDE DEF row
<1>6. rows \in Seq(Seq(Seq(CondDomain))) /\ DOMAIN rows = DOMAIN vs /\ \A a \in DOMAIN vs : rows[a] = row(a)
  <2>1. rows \in [1 .. Len(vs) -> Seq(Seq(CondDomain))]
    BY <1>3, <1>5
  <2>2. rows \in Seq(Seq(Seq(CondDomain)))
    <3>. DEFINE Y == Seq(Seq(CondDomain))
    <3>. HIDE DEF Y
    <3>1. IsRow(rows, Len(vs), Y)
      BY <2>1 DEF Y, IsRow
    <3>. HIDE DEF rows
    <3>2. Len(vs) \in Nat
      BY <1>3
    <3>3. rows \in Seq(Y)
      BY <3>1, <3>2, RowFacts
    <3>. QED BY <3>3 DEF Y
  <2>. QED BY <2>2
<1>. HIDE DEF rows
<1>7. /\ FlattenSeq(rows) \in Seq(Seq(CondDomain))
      /\ ToSet(FlattenSeq(rows)) = UNION {ToSet(rows[a]) : a \in DOMAIN rows}
  <2>. DEFINE X == Seq(CondDomain)
  <2>. HIDE DEF X
  <2>. QED BY <1>6, FlattenFacts DEF X
<1>8. ASSUME NEW w
      PROVE  w \in ToSet(FlattenSeq(rows)) <=> \E a \in DOMAIN vs, j \in DOMAIN ps : w = Append(vs[a], ps[j])
  <2>1. ASSUME NEW a \in DOMAIN vs
        PROVE  w \in ToSet(rows[a]) <=> \E j \in DOMAIN ps : w = Append(vs[a], ps[j])
    <3>1. rows[a] = row(a) /\ DOMAIN row(a) = DOMAIN ps
          /\ \A j \in DOMAIN ps : row(a)[j] = Append(vs[a], ps[j])
      BY <1>5, <1>6
    <3>. QED BY <3>1 DEF ToSet
  <2>. QED BY <1>6, <1>7, <2>1
<1>9. \A i \in 1 .. k : i = k \/ i \in 1 .. k - 1
  BY <1>0
<1>10. ASSUME NEW a \in DOMAIN vs, NEW j \in DOMAIN ps
       PROVE  Append(vs[a], ps[j]) \in Products(x, r, d, k)
  <2>. DEFINE v == vs[a]
              u == ps[j]
              w == Longer(v, u)
  <2>1. v \in F /\ u \in CondDomain /\ u \in ToSet(ps)
        /\ \A i \in 1 .. k - 1 : v[i] \in ToSet(PairsOf(x, r, d, i))
    BY <1>0, <1>3 DEF Products
  <2>. HIDE DEF v, u
  <2>2. w \in [1 .. k -> CondDomain] /\ w[k] = u /\ \A i \in 1 .. k - 1 : w[i] = v[i]
    <3>. DEFINE b == k - 1
    <3>1. IsRow(v, b, CondDomain)
      BY <2>1 DEF IsRow
    <3>. HIDE DEF b
    <3>2. IsRow(w, k, CondDomain) /\ w[k] = u /\ \A i \in 1 .. b : w[i] = v[i]
      <4>1. b = k - 1 /\ k \in Nat \ {0} /\ u \in CondDomain
        BY <1>0, <2>1 DEF b
      <4>2. Extended(w, v, u, k, b, CondDomain)
        BY <3>1, <4>1, LongerFacts
      <4>. HIDE DEF w
      <4>. QED BY <4>2 DEF Extended
    <3>. HIDE DEF w
    <3>. USE DEF b
    <3>. QED BY <3>2 DEF IsRow
  <2>. HIDE DEF w
  <2>3. \A i \in 1 .. k : w[i] \in ToSet(PairsOf(x, r, d, i))
    BY <1>9, <2>1, <2>2 DEF ps
  <2>4. w \in Products(x, r, d, k)
    BY <2>2, <2>3 DEF Products
  <2>. QED BY <2>4 DEF w, v, u, Longer
<1>11. ASSUME NEW w \in Products(x, r, d, k)
       PROVE  \E a \in DOMAIN vs, j \in DOMAIN ps : w = Append(vs[a], ps[j])
  <2>. DEFINE v == [i \in 1 .. k - 1 |-> w[i]]
  <2>1. w \in [1 .. k -> CondDomain] /\ \A i \in 1 .. k : w[i] \in ToSet(PairsOf(x, r, d, i))
    BY DEF Products
  <2>2. v \in F /\ \A i \in 1 .. k - 1 : v[i] = w[i] /\ i \in 1 .. k
    BY <1>0, <2>1
  <2>. HIDE DEF v
  <2>3. v \in ToSet(vs)
    BY <2>1, <2>2 DEF Products
  <2>4. k \in 1 .. k
    BY <1>0
  <2>5. PICK a \in DOMAIN vs, j \in DOMAIN ps : v = vs[a] /\ w[k] = ps[j]
    BY <2>1, <2>3, <2>4 DEF ToSet, ps
  <2>6. w[k] \in CondDomain
    BY <2>1, <2>4
  <2>. DEFINE u == w[k]
              z == Longer(v, u)
  <2>. HIDE DEF u
  <2>7. z \in [1 .. k -> CondDomain] /\ z[k] = u /\ \A i \in 1 .. k - 1 : z[i] = v[i]
    <3>. DEFINE b == k - 1
    <3>1. IsRow(v, b, CondDomain)
      BY <2>2 DEF IsRow
    <3>. HIDE DEF b
    <3>2. IsRow(z, k, CondDomain) /\ z[k] = u /\ \A i \in 1 .. b : z[i] = v[i]
      <4>1. b = k - 1 /\ k \in Nat \ {0} /\ u \in CondDomain
        BY <1>0, <2>6 DEF b, u
      <4>2. Extended(z, v, u, k, b, CondDomain)
        BY <3>1, <4>1, LongerFacts
      <4>. HIDE DEF z
      <4>. QED BY <4>2 DEF Extended
    <3>. HIDE DEF z
    <3>. USE DEF b
    <3>. QED BY <3>2 DEF IsRow
  <2>. HIDE DEF z
  <2>8. w = z
    <3>1. \A i \in 1 .. k : w[i] = z[i]
      BY <1>9, <2>2, <2>7 DEF u
    <3>. QED BY <2>1, <2>7, <3>1
  <2>. QED BY <2>5, <2>8 DEF z, u, Longer
<1>12. ToSet(FlattenSeq(rows)) = Products(x, r, d, k)
  <2>. DEFINE A == ToSet(FlattenSeq(rows))
              B == Products(x, r, d, k)
  <2>1. ASSUME NEW w \in A
        PROVE  w \in B
    <3>1. PICK a \in DOMAIN vs, j \in DOMAIN ps : w = Append(vs[a], ps[j])
      BY <1>8
    <3>2. Append(vs[a], ps[j]) \in B
      BY <1>10
    <3>. HIDE DEF B
    <3>. QED BY <3>1, <3>2
  <2>2. \A w \in B : w \in A
    BY <1>8, <1>11
  <2>. HIDE DEF A, B
  <2>3. A = B
    BY <2>1, <2>2
  <2>. QED BY <2>3 DEF A, B
<1>. QED BY <1>2, <1>7, <1>12

\* ma_domain_values() has every row of the product.
LEMMA ValuesFacts ==
  ASSUME NEW x, HitsOK(x.hit), NEW r \in RuleSet, NEW d \in [1 .. N(r) -> CondDomain]
  PROVE  /\ ValuesOf(x, r, d) \in Seq([1 .. N(r) -> CondDomain])
         /\ ToSet(ValuesOf(x, r, d)) = Products(x, r, d, N(r))
<1>. DEFINE n == N(r)
            good(vs, k) == ToSet(vs) = Products(x, r, d, k)
            V == [k \in 0 .. n |-> {vs \in Seq(Seq(CondDomain)) : good(vs, k)}]
<1>0. n \in Nat /\ 0 \in 0 .. n /\ n \in 0 .. n /\ \A k \in 1 .. n : k \in 0 .. n /\ k - 1 \in 0 .. n
  BY RuleFacts
<1>1. Len(d) = n
  BY <1>0
<1>2. << <<>> >> \in V[0]
  <2>1. <<>> \in [1 .. 0 -> CondDomain] /\ \A v \in [1 .. 0 -> CondDomain] : v = <<>>
    OBVIOUS
  <2>2. Products(x, r, d, 0) = {<<>>}
    <3>1. 1 .. 0 = {}
      OBVIOUS
    <3>2. \A v : v \in Products(x, r, d, 0) <=> v \in [1 .. 0 -> CondDomain]
      BY <3>1 DEF Products
    <3>. QED BY <2>1, <3>2
  <2>3. << <<>> >> \in Seq(Seq(CondDomain)) /\ ToSet(<< <<>> >>) = {<<>>}
    BY DEF ToSet
  <2>. QED BY <1>0, <2>2, <2>3
<1>3. ASSUME NEW k \in 1 .. n, NEW vs \in V[k - 1]
      PROVE  ValuesStep(x, r, d, k, vs) \in V[k]
  <2>1. vs \in Seq(Seq(CondDomain)) /\ ToSet(vs) = Products(x, r, d, k - 1)
    BY <1>0
  <2>2. /\ ValuesStep(x, r, d, k, vs) \in Seq(Seq(CondDomain))
        /\ ToSet(ValuesStep(x, r, d, k, vs)) = Products(x, r, d, k)
    BY <2>1, ValuesStepMeans
  <2>. QED BY <1>0, <2>2
<1>4. \A vs \in V[n] : vs \in Seq(Seq(CondDomain)) /\ ToSet(vs) = Products(x, r, d, n)
  BY <1>0
<1>. HIDE DEF V, n
<1>5. PICK c : ValuesRun(x, r, d, V, c)
  BY <1>0, <1>1, <1>2, <1>3, ValuesRecursion
<1>. DEFINE vs == ValuesOf(x, r, d)
<1>6. vs \in V[n]
  BY <1>0, <1>1, <1>5 DEF ValuesRun
<1>. HIDE DEF vs
<1>7. vs \in Seq(Seq(CondDomain)) /\ ToSet(vs) = Products(x, r, d, n)
  BY <1>4, <1>6
<1>8. Products(x, r, d, n) \subseteq [1 .. n -> CondDomain]
  BY DEF Products
<1>9. vs \in Seq([1 .. n -> CondDomain])
  <2>. DEFINE Y == [1 .. n -> CondDomain]
              X == Seq(CondDomain)
  <2>1. vs \in Seq(X) /\ ToSet(vs) \subseteq Y
    BY <1>7, <1>8
  <2>. HIDE DEF X, Y
  <2>2. vs \in Seq(Y)
    BY <2>1, SeqOfMembers
  <2>. QED BY <2>2 DEF Y
<1>. QED BY <1>7, <1>9 DEF n, vs

-----------------------------------------------------------------------------
(* The evaluation of a rule.                                               *)

\* A domain and a value of it, as looked at by evaluate().
Trial(d, v) == [d |-> d, v |-> v]
Trials(r) == [d : Tuples(r), v : Tuples(r)]

\* The domain and the value of a trial.
LEMMA TrialFacts ==
  ASSUME NEW d, NEW v
  PROVE  /\ Trial(d, v).d = d /\ Trial(d, v).v = v
         /\ \A r : d \in Tuples(r) /\ v \in Tuples(r) => Trial(d, v) \in Trials(r)
BY DEF Trial, Trials

\* The values of all domains are looked at.
LEMMA TriesFacts ==
  ASSUME NEW x, HitsOK(x.hit), NEW r \in RuleSet, x.rule[r].domains \in Seq(Tuples(r))
  PROVE  /\ Tries(x, r) \in Seq(Trials(r))
         /\ \A t : t \in ToSet(Tries(x, r)) <=>
              \E d \in ToSet(x.rule[r].domains) : \E v \in Products(x, r, d, N(r)) : t = Trial(d, v)
<1>. DEFINE ds == x.rule[r].domains
            vs(k) == ValuesOf(x, r, ds[k])
            row(k) == [j \in DOMAIN vs(k) |-> Trial(ds[k], vs(k)[j])]
            rows == [k \in DOMAIN ds |-> row(k)]
<1>1. Tries(x, r) = FlattenSeq(rows)
  BY DEF Tries, Trial
<1>2. ds \in Seq(Tuples(r))
  OBVIOUS
<1>. HIDE DEF ds
<1>3. Len(ds) \in Nat /\ DOMAIN ds = 1 .. Len(ds) /\ \A k \in DOMAIN ds : ds[k] \in Tuples(r)
  BY <1>2
<1>4. ASSUME NEW k \in DOMAIN ds
      PROVE  vs(k) \in Seq(Tuples(r)) /\ ToSet(vs(k)) = Products(x, r, ds[k], N(r))
  <2>1. ds[k] \in [1 .. N(r) -> CondDomain]
    BY <1>3 DEF Tuples
  <2>. QED BY <2>1, ValuesFacts DEF Tuples
<1>5. ASSUME NEW k \in DOMAIN ds
      PROVE  row(k) \in Seq(Trials(r)) /\ \A t : t \in ToSet(row(k)) <=> \E v \in Products(x, r, ds[k], N(r)) : t = Trial(ds[k], v)
  <2>. DEFINE s == vs(k)
              z == row(k)
              X == Trials(r)
  <2>1. s \in Seq(Tuples(r)) /\ ToSet(s) = Products(x, r, ds[k], N(r))
    BY <1>4
  <2>2. z = [j \in DOMAIN s |-> Trial(ds[k], s[j])]
    OBVIOUS
  <2>. HIDE DEF s, z
  <2>3. Len(s) \in Nat /\ DOMAIN s = 1 .. Len(s) /\ \A j \in DOMAIN s : s[j] \in Tuples(r)
    BY <2>1
  <2>4. IsRow(z, Len(s), X)
    BY <1>3, <2>2, <2>3, TrialFacts DEF IsRow
  <2>5. z \in Seq(X)
    <3>. HIDE DEF X
    <3>. QED BY <2>3, <2>4, RowFacts
  <2>6. DOMAIN z = DOMAIN s /\ \A j \in DOMAIN s : z[j] = Trial(ds[k], s[j])
    BY <2>2
  <2>7. \A t : t \in ToSet(z) <=> \E v \in ToSet(s) : t = Trial(ds[k], v)
    BY <2>6 DEF ToSet
  <2>. QED BY <2>1, <2>5, <2>7 DEF z
<1>. HIDE DEF row
<1>6. DOMAIN rows = DOMAIN ds /\ \A k \in DOMAIN ds : rows[k] = row(k)
  OBVIOUS
<1>7. rows \in Seq(Seq(Trials(r)))
  <2>. DEFINE Y == Seq(Trials(r))
  <2>. HIDE DEF Y
  <2>1. IsRow(rows, Len(ds), Y)
    BY <1>3, <1>5 DEF Y, IsRow
  <2>. HIDE DEF rows
  <2>2. rows \in Seq(Y)
    BY <1>3, <2>1, RowFacts
  <2>. QED BY <2>2 DEF Y
<1>. HIDE DEF rows
<1>8. /\ FlattenSeq(rows) \in Seq(Trials(r))
      /\ ToSet(FlattenSeq(rows)) = UNION {ToSet(rows[k]) : k \in DOMAIN rows}
  <2>. DEFINE X == Trials(r)
  <2>. HIDE DEF X
  <2>. QED BY <1>7, FlattenFacts DEF X
<1>9. \A t : t \in ToSet(FlattenSeq(rows)) <=> \E k \in DOMAIN ds : t \in ToSet(row(k))
  BY <1>6, <1>8
<1>10. \A d : d \in ToSet(ds) <=> \E k \in DOMAIN ds : d = ds[k]
  BY DEF ToSet
<1>11. \A t : t \in ToSet(FlattenSeq(rows)) <=>
              \E d \in ToSet(ds) : \E v \in Products(x, r, d, N(r)) : t = Trial(d, v)
  BY <1>5, <1>9, <1>10
<1>. QED BY <1>1, <1>8, <1>11 DEF ds

\* What the expression is evaluated for.
CtxOf(x, r, t) ==
  [hs |-> HitsOf(x, r), domain |-> t.d, value |-> t.v, group |-> GroupSize,
   last |-> [i \in DOMAIN P(r).conds |-> x.last[P(r).conds[i]]]]

\* It is evaluated for sound hitmaps.
LEMMA ContextFacts ==
  ASSUME NEW x, EngineOK(x), NEW r \in RuleSet, NEW t \in Trials(r)
  PROVE  LET ctx == CtxOf(x, r, t)
         IN  /\ CtxOK(ctx, P(r).expr, N(r)) /\ ctx.hs = HitsOf(x, r)
             /\ ctx.domain = t.d /\ ctx.value = t.v
<1>. DEFINE ctx == CtxOf(x, r, t)
            n == N(r)
<1>1. /\ ctx.hs = HitsOf(x, r) /\ ctx.domain = t.d /\ ctx.value = t.v /\ ctx.group = GroupSize
      /\ ctx.last = [i \in DOMAIN P(r).conds |-> x.last[P(r).conds[i]]]
  BY DEF CtxOf
<1>. HIDE DEF ctx
<1>2. /\ TablesOK(HitsOf(x, r), n) /\ \A i \in 1 .. n : HitsOf(x, r)[i] = x.hit[P(r).conds[i]]
  BY HitsTables DEF EngineOK
<1>3. DOMAIN P(r).conds = 1 .. n /\ \A i \in 1 .. n : P(r).conds[i] \in CondSet
  BY RuleFacts
<1>4. ASSUME NEW i \in 1 .. n
      PROVE  \E tc \in Nat : \A v \in DOMAIN ctx.hs[i].num : ctx.hs[i].num[v] \in 0 .. tc
  <2>. DEFINE c == P(r).conds[i]
  <2>1. c \in CondSet /\ ctx.hs[i] = x.hit[c]
    BY <1>1, <1>2, <1>3
  <2>. HIDE DEF c
  <2>2. x.hit[c].num \in [Cells(x.hit[c].srcs, x.hit[c].tgts) -> 0 .. CondParams[c].tc]
    BY <2>1 DEF EngineOK, HitsOK, HitOK
  <2>3. CondParams[c].tc \in Nat
    BY <2>1, DomainsAssumption
  <2>. QED BY <2>1, <2>2, <2>3
<1>5. \A i \in 1 .. n : ctx.last[i] \in [src : STRING, tgt : STRING, num : Nat]
  BY <1>1, <1>3 DEF EngineOK
<1>6. t.d \in [1 .. n -> CondDomain] /\ t.v \in [1 .. n -> CondDomain]
  BY DEF Trials, Tuples
<1>7. \A p \in Primaries(P(r).expr) : p.type = "COUNT_PERCENT" => ctx.group[p.group] \in Nat
  BY <1>1, DomainsAssumption
<1>. QED BY <1>1, <1>2, <1>4, <1>5, <1>6, <1>7 DEF CtxOK, ctx

\* What may come of a trial.
GoodRounds == {q \in Rounds : RoundOK(q)}
Outcomes(r) == [new : BOOLEAN, key : Tuples(r), round : GoodRounds]
Value(x, r, t, q) == BooleanExpr(P(r).expr, CtxOf(x, r, t), Start(N(r), q))

\* One trial: what it finds, and when (ma_rule.cpp:200-245).
LEMMA AttemptFacts ==
  ASSUME NEW x, EngineOK(x), NEW r \in RuleSet, NEW t \in Trials(r), NEW q \in GoodRounds
  PROVE  LET y == Value(x, r, t, q)
             e == P(r).expr
             ctx == CtxOf(x, r, t)
             f == Attempt(x, r, t, q)
         IN  /\ f \in Outcomes(r)
             /\ f.key = y.alarm /\ f.round = y.round
             /\ f.new <=> (y.b /\ \A a \in x.rule[r].alarms : a.key # y.alarm)
             /\ \A j \in 1 .. N(r) : f.key[j] \in Parts(e, ctx, j) \cup {NullPair}
             /\ y.b => \E a \in Alternatives(e) : Witnessed(e, ctx, a, y)
             /\ Timeless(e) => (y.b <=> Satisfied(e, OnlyTrue(e, ctx)))
<1>. DEFINE n == N(r)
            e == P(r).expr
            ctx == CtxOf(x, r, t)
            st == Start(n, q)
            y == BooleanExpr(e, ctx, st)
            f == Attempt(x, r, t, q)
<1>1. n \in Nat /\ IsBoolean(e, n) /\ e # <<>> /\ DOMAIN P(r).conds = 1 .. n
  BY RuleFacts
<1>2. CtxOK(ctx, e, n)
  BY ContextFacts
<1>3. f = [new |-> y.b /\ \A a \in x.rule[r].alarms : a.key # y.alarm, key |-> y.alarm, round |-> y.round]
  BY <1>1 DEF Attempt, CtxOf, Start
<1>. HIDE DEF n, e, ctx
<1>4. q \in Rounds /\ RoundOK(q)
  BY DEF GoodRounds
<1>5. /\ y \in Progress(n) /\ RoundOK(y.round)
      /\ \A j \in 1 .. n : y.alarm[j] \in Parts(e, ctx, j) \cup {NullPair}
      /\ y.b => \E a \in Alternatives(e) : Witnessed(e, ctx, a, y)
      /\ Timeless(e) => (y.b <=> Satisfied(e, OnlyTrue(e, ctx)))
  BY <1>1, <1>2, <1>4, EvaluationMeans
<1>. HIDE DEF y, f
<1>6. y.b \in BOOLEAN /\ y.alarm \in [1 .. n -> CondDomain] /\ y.round \in Rounds
  BY <1>5 DEF Progress
<1>7. f \in Outcomes(r) /\ f.key = y.alarm /\ f.round = y.round
      /\ (f.new <=> (y.b /\ \A a \in x.rule[r].alarms : a.key # y.alarm))
  BY <1>3, <1>5, <1>6 DEF Outcomes, Tuples, GoodRounds, n
<1>8. Value(x, r, t, q) = y
  BY DEF Value, y, e, ctx, n
<1>. QED BY <1>5, <1>7, <1>8 DEF f, e, ctx, n

\* What may come of looking at the first k trials.
Outcome(x, r, k) ==
  {f \in [new : BOOLEAN, key : Tuples(r) \cup {<<>>}, round : GoodRounds] :
     /\ f.new => \E i \in 1 .. k : \E q \in GoodRounds : f = Attempt(x, r, Tries(x, r)[i], q)
     /\ ~f.new => \A i \in 1 .. k : \E q \in GoodRounds : ~Attempt(x, r, Tries(x, r)[i], q).new}

\* One more trial.
LEMMA FoundStepFacts ==
  ASSUME NEW x, EngineOK(x), NEW r \in RuleSet, Tries(x, r) \in Seq(Trials(r)),
         NEW k \in 1 .. Len(Tries(x, r)), NEW so \in Outcome(x, r, k - 1)
  PROVE  FoundStep(x, r, k, so) \in Outcome(x, r, k)
<1>. DEFINE ts == Tries(x, r)
            f == Attempt(x, r, ts[k], so.round)
<1>1. Len(ts) \in Nat /\ ts[k] \in Trials(r)
  OBVIOUS
<1>2. so \in [new : BOOLEAN, key : Tuples(r) \cup {<<>>}, round : GoodRounds]
      /\ (so.new => \E i \in 1 .. k - 1 : \E q \in GoodRounds : so = Attempt(x, r, ts[i], q))
      /\ (~so.new => \A i \in 1 .. k - 1 : \E q \in GoodRounds : ~Attempt(x, r, ts[i], q).new)
  BY DEF Outcome
<1>3. so.round \in GoodRounds
  BY <1>2
<1>4. f \in Outcomes(r)
  BY <1>1, <1>3, AttemptFacts
<1>5. /\ \A i \in 1 .. k - 1 : i \in 1 .. k
      /\ k \in 1 .. k /\ \A i \in 1 .. k : i = k \/ i \in 1 .. k - 1
  BY <1>1
<1>6. FoundStep(x, r, k, so) = IF so.new THEN so ELSE f
  BY DEF FoundStep
<1>. HIDE DEF ts
<1>7. CASE so.new
  <2>1. FoundStep(x, r, k, so) = so
    BY <1>6, <1>7
  <2>2. so \in Outcome(x, r, k)
    BY <1>2, <1>5, <1>7 DEF Outcome, ts
  <2>. QED BY <2>1, <2>2
<1>8. CASE ~so.new
  <2>1. FoundStep(x, r, k, so) = f
    BY <1>6, <1>8
  <2>2. f \in [new : BOOLEAN, key : Tuples(r) \cup {<<>>}, round : GoodRounds]
    BY <1>4 DEF Outcomes
  <2>3. f.new => \E i \in 1 .. k : \E q \in GoodRounds : f = Attempt(x, r, ts[i], q)
    BY <1>3, <1>5
  <2>4. ~f.new => \A i \in 1 .. k : \E q \in GoodRounds : ~Attempt(x, r, ts[i], q).new
    BY <1>2, <1>3, <1>5, <1>8
  <2>. HIDE DEF f
  <2>5. f \in Outcome(x, r, k)
    BY <2>2, <2>3, <2>4 DEF Outcome, ts
  <2>. QED BY <2>1, <2>5
<1>. QED BY <1>7, <1>8

\* A rule finds an alarm that is new, if there is one, and looks at all values if not.
LEMMA FoundFacts ==
  ASSUME NEW x, EngineOK(x), NEW r \in RuleSet
  PROVE  LET f == Found(x, r)
         IN  /\ f.new \in BOOLEAN /\ f.round \in GoodRounds
             /\ f.new => \E t \in ToSet(Tries(x, r)) : \E q \in GoodRounds : f = Attempt(x, r, t, q)
             /\ ~f.new => \A t \in ToSet(Tries(x, r)) : \E q \in GoodRounds : ~Attempt(x, r, t, q).new
             /\ Tries(x, r) \in Seq(Trials(r))
<1>. DEFINE ts == Tries(x, r)
            V == [k \in 0 .. Len(ts) |-> Outcome(x, r, k)]
<1>1. RuleOK(r, x.rule[r])
  BY DEF EngineOK, RulesOK
<1>2. x.rule[r].domains \in Seq(Tuples(r)) /\ x.rule[r].round \in GoodRounds
  BY <1>1 DEF RuleOK, Tuples, N, GoodRounds
<1>3. ts \in Seq(Trials(r))
  BY <1>2, TriesFacts DEF EngineOK
<1>4. Len(ts) \in Nat /\ 0 \in 0 .. Len(ts) /\ Len(ts) \in 0 .. Len(ts)
      /\ \A k \in 1 .. Len(ts) : k \in 0 .. Len(ts) /\ k - 1 \in 0 .. Len(ts)
  BY <1>3
<1>5. NothingFound(x, r) \in V[0]
  <2>1. 1 .. 0 = {}
    OBVIOUS
  <2>2. NothingFound(x, r) \in Outcome(x, r, 0)
    BY <1>2, <2>1 DEF NothingFound, Outcome
  <2>. QED BY <1>4, <2>2
<1>6. \A k \in 1 .. Len(ts) : \A so \in V[k - 1] : FoundStep(x, r, k, so) \in V[k]
  BY <1>3, <1>4, FoundStepFacts
<1>. HIDE DEF V
<1>7. PICK c : FoundRun(x, r, V, c)
  BY <1>4, <1>5, <1>6, FoundRecursion
<1>8. Found(x, r) \in V[Len(ts)]
  BY <1>4, <1>7 DEF FoundRun
<1>9. Found(x, r) \in Outcome(x, r, Len(ts))
  BY <1>4, <1>8 DEF V
<1>. DEFINE f == Found(x, r)
<1>. HIDE DEF f, ts
<1>10. f \in Outcome(x, r, Len(ts))
  BY <1>9 DEF f, ts
<1>11. /\ f.new \in BOOLEAN /\ f.round \in GoodRounds
       /\ f.new => \E i \in 1 .. Len(ts) : \E q \in GoodRounds : f = Attempt(x, r, ts[i], q)
       /\ ~f.new => \A i \in 1 .. Len(ts) : \E q \in GoodRounds : ~Attempt(x, r, ts[i], q).new
  BY <1>10 DEF Outcome, ts
<1>12. \A t : t \in ToSet(ts) <=> \E i \in 1 .. Len(ts) : t = ts[i]
  BY <1>3 DEF ToSet
<1>. QED BY <1>3, <1>11, <1>12 DEF f, ts

-----------------------------------------------------------------------------
(* What the evaluation leaves of the engine.                               *)

\* The fields of a rule's state.
IsRuleState(q) == q = [enabled |-> q.enabled, alarms |-> q.alarms, round |-> q.round, domains |-> q.domains]

\* The engine with another state of rule r.
RuleSetTo(y, x, r, q) ==
  /\ IsEngine(y) /\ y.hit = x.hit /\ y.last = x.last /\ y.failed = x.failed /\ y.stale = x.stale
  /\ IsMap(y.rule, RuleSet)
  /\ \A s \in RuleSet : y.rule[s] = IF s = r THEN q ELSE x.rule[s]

\* The engine with another round.
LEMMA RoundChange ==
  ASSUME NEW x, IsEngine(x), IsMap(x.rule, RuleSet), NEW r \in RuleSet, NEW round
  PROVE  RuleSetTo([x EXCEPT !.rule[r].round = round], x, r, [x.rule[r] EXCEPT !.round = round])
BY DEF IsEngine, IsMap, RuleSetTo

\* The engine with one more alarm.
LEMMA AlarmsChange ==
  ASSUME NEW x, IsEngine(x), IsMap(x.rule, RuleSet), NEW r \in RuleSet, NEW a
  PROVE  RuleSetTo([x EXCEPT !.rule[r].alarms = @ \cup {a}], x, r, [x.rule[r] EXCEPT !.alarms = @ \cup {a}])
<1>. DEFINE rules == [x.rule EXCEPT ![r].alarms = @ \cup {a}]
            y == [hit |-> x.hit, last |-> x.last, rule |-> rules, failed |-> x.failed, stale |-> x.stale]
<1>1. [x EXCEPT !.rule[r].alarms = @ \cup {a}] = y
  BY DEF IsEngine
<1>2. IsMap(rules, RuleSet)
      /\ \A s \in RuleSet : rules[s] = IF s = r THEN [x.rule[r] EXCEPT !.alarms = @ \cup {a}] ELSE x.rule[s]
  BY DEF IsMap
<1>. HIDE DEF rules
<1>3. IsEngine(y) /\ y.hit = x.hit /\ y.last = x.last /\ y.failed = x.failed /\ y.stale = x.stale /\ y.rule = rules
  BY DEF IsEngine
<1>. QED BY <1>1, <1>2, <1>3 DEF RuleSetTo

\* The engine after an exception.
LEMMA FailedChange ==
  ASSUME NEW x, IsEngine(x)
  PROVE  LET y == [x EXCEPT !.failed = TRUE]
         IN  IsEngine(y) /\ y.hit = x.hit /\ y.last = x.last /\ y.rule = x.rule /\ y.stale = x.stale /\ y.failed = TRUE
<1>1. ASSUME NEW R
      PROVE  [x EXCEPT !.failed = R] = [hit |-> x.hit, last |-> x.last, rule |-> x.rule, failed |-> R, stale |-> x.stale]
  <2>1. x = [hit |-> x.hit, last |-> x.last, rule |-> x.rule, failed |-> x.failed, stale |-> x.stale]
    BY DEF IsEngine
  <2>2. \A a, b, c, d, f : [[hit |-> a, last |-> b, rule |-> c, failed |-> d, stale |-> f] EXCEPT !.failed = R]
                        = [hit |-> a, last |-> b, rule |-> c, failed |-> R, stale |-> f]
    OBVIOUS
  <2>. QED BY <2>1, <2>2
<1>2. [x EXCEPT !.failed = TRUE] = [hit |-> x.hit, last |-> x.last, rule |-> x.rule, failed |-> TRUE, stale |-> x.stale]
  BY <1>1, Zenon
<1>3. \A R : LET y == [hit |-> x.hit, last |-> x.last, rule |-> x.rule, failed |-> R, stale |-> x.stale]
             IN  IsEngine(y) /\ y.hit = x.hit /\ y.last = x.last /\ y.rule = x.rule /\ y.stale = x.stale /\ y.failed = R
  BY DEF IsEngine
<1>. QED BY <1>2, <1>3, Zenon

\* The engine after the reset of a rule.
LEMMA ResetChange ==
  ASSUME NEW x, IsEngine(x), IsMap(x.rule, RuleSet), NEW r \in RuleSet
  PROVE  LET y == ResetState(x, r)
         IN  /\ IsEngine(y) /\ y.last = x.last /\ y.failed = x.failed
             /\ y.hit = [c \in CondSet |-> IF c \in ToSet(P(r).conds) THEN GroundHit ELSE x.hit[c]]
             /\ IsMap(y.rule, RuleSet) /\ y.stale = Disowned(x, r)
             /\ \A s \in RuleSet : y.rule[s] = IF s = r THEN [x.rule[s] EXCEPT !.alarms = {}] ELSE x.rule[s]
BY DEF IsEngine, IsMap, ResetState

-----------------------------------------------------------------------------
(* What evaluate() does.                                                   *)

\* The alarms that rule r may raise.
AlarmSet(r) == [key : Tuples(r), names : [1 .. N(r) -> STRING \X STRING]]

\* The state of a rule.
LEMMA RuleOKIs ==
  ASSUME NEW r \in RuleSet, NEW q
  PROVE  RuleOK(r, q) <=>
           /\ q \in [enabled : {TRUE}, alarms : SUBSET AlarmSet(r), round : Rounds, domains : Seq(Tuples(r))]
           /\ RoundOK(q.round) /\ \A d \in ToSet(q.domains) : ~IsNull(d)
BY Zenon DEF RuleOK, AlarmSet, Tuples, N

\* What evaluate() and reset() write to a rule's state leaves it sound.
LEMMA RuleChanges ==
  ASSUME NEW r \in RuleSet, NEW q, RuleOK(r, q)
  PROVE  /\ q.enabled = TRUE /\ q.round \in GoodRounds /\ q.alarms \subseteq AlarmSet(r)
         /\ \A round \in GoodRounds :
              LET z == [q EXCEPT !.round = round]
              IN  RuleOK(r, z) /\ z.alarms = q.alarms /\ z.domains = q.domains
         /\ \A a \in AlarmSet(r) :
              LET z == [q EXCEPT !.alarms = @ \cup {a}]
              IN  RuleOK(r, z) /\ z.alarms = q.alarms \cup {a} /\ z.domains = q.domains
         /\ LET z == [q EXCEPT !.alarms = {}]
            IN  RuleOK(r, z) /\ z.alarms = {} /\ z.domains = q.domains
<1>. DEFINE A == AlarmSet(r)
            D == Seq(Tuples(r))
<1>1. /\ q \in [enabled : {TRUE}, alarms : SUBSET A, round : Rounds, domains : D]
      /\ RoundOK(q.round) /\ \A d \in ToSet(q.domains) : ~IsNull(d)
  BY RuleOKIs
<1>2. \A z : (/\ z \in [enabled : {TRUE}, alarms : SUBSET A, round : Rounds, domains : D]
              /\ RoundOK(z.round) /\ \A d \in ToSet(z.domains) : ~IsNull(d)) => RuleOK(r, z)
  BY RuleOKIs
<1>. HIDE DEF A, D
<1>3. q.enabled = TRUE /\ q.round \in GoodRounds /\ q.alarms \subseteq A
  BY <1>1 DEF GoodRounds
<1>4. ASSUME NEW round \in GoodRounds
      PROVE  LET z == [q EXCEPT !.round = round]
             IN  RuleOK(r, z) /\ z.alarms = q.alarms /\ z.domains = q.domains
  <2>. DEFINE z == [q EXCEPT !.round = round]
  <2>1. z \in [enabled : {TRUE}, alarms : SUBSET A, round : Rounds, domains : D]
        /\ z.round = round /\ z.alarms = q.alarms /\ z.domains = q.domains
    BY <1>1 DEF GoodRounds
  <2>. HIDE DEF z
  <2>2. RuleOK(r, z)
    BY <1>1, <1>2, <2>1 DEF GoodRounds
  <2>. QED BY <2>1, <2>2 DEF z
<1>5. ASSUME NEW a \in A
      PROVE  LET z == [q EXCEPT !.alarms = @ \cup {a}]
             IN  RuleOK(r, z) /\ z.alarms = q.alarms \cup {a} /\ z.domains = q.domains
  <2>. DEFINE z == [q EXCEPT !.alarms = @ \cup {a}]
  <2>1. z \in [enabled : {TRUE}, alarms : SUBSET A, round : Rounds, domains : D]
        /\ z.alarms = q.alarms \cup {a} /\ z.round = q.round /\ z.domains = q.domains
    BY <1>1
  <2>. HIDE DEF z
  <2>2. RuleOK(r, z)
    BY <1>1, <1>2, <2>1
  <2>. QED BY <2>1, <2>2 DEF z
<1>6. LET z == [q EXCEPT !.alarms = {}]
      IN  RuleOK(r, z) /\ z.alarms = {} /\ z.domains = q.domains
  <2>. DEFINE z == [q EXCEPT !.alarms = {}]
  <2>1. z \in [enabled : {TRUE}, alarms : SUBSET A, round : Rounds, domains : D]
        /\ z.alarms = {} /\ z.round = q.round /\ z.domains = q.domains
    BY <1>1
  <2>. HIDE DEF z
  <2>2. RuleOK(r, z)
    BY <1>1, <1>2, <2>1
  <2>. QED BY <2>1, <2>2 DEF z
<1>. QED BY <1>3, <1>4, <1>5, <1>6 DEF A

\* Another round.
LEMMA RuleRound ==
  ASSUME NEW r \in RuleSet, NEW q, RuleOK(r, q), NEW round \in GoodRounds
  PROVE  LET z == [q EXCEPT !.round = round]
         IN  RuleOK(r, z) /\ z.alarms = q.alarms /\ z.domains = q.domains
BY RuleChanges, Zenon

\* One more alarm.
LEMMA RuleAlarm ==
  ASSUME NEW r \in RuleSet, NEW q, RuleOK(r, q), NEW a \in AlarmSet(r)
  PROVE  LET z == [q EXCEPT !.alarms = @ \cup {a}]
         IN  RuleOK(r, z) /\ z.alarms = q.alarms \cup {a} /\ z.domains = q.domains
<1>1. \A b \in AlarmSet(r) :
        LET z == [q EXCEPT !.alarms = @ \cup {b}]
        IN  RuleOK(r, z) /\ z.alarms = q.alarms \cup {b} /\ z.domains = q.domains
  BY RuleChanges
<1>. QED BY <1>1, Zenon

\* The names of an alarm.
LEMMA NamesType ==
  ASSUME NEW x, HitsOK(x.hit), NEW r \in RuleSet, NEW key \in Tuples(r)
  PROVE  NamesOf(x, r, key) \in [1 .. N(r) -> STRING \X STRING]
<1>. DEFINE name(table, i) == IF i = D_ANY THEN "any"
                              ELSE IF i + 1 \in DOMAIN table THEN table[i + 1] ELSE "none"
<1>1. DOMAIN key = 1 .. N(r)
  BY DEF Tuples
<1>2. \A table \in Seq(ToSet(NameOrder)) : \A i : name(table, i) \in STRING
  <2>. DEFINE T == ToSet(NameOrder)
  <2>1. \A s \in T : s \in STRING
    BY DomainsAssumption DEF ToSet
  <2>. HIDE DEF T
  <2>2. ASSUME NEW table \in Seq(T), NEW i, i + 1 \in DOMAIN table
        PROVE  table[i + 1] \in STRING
    BY <2>1, <2>2
  <2>3. "any" \in STRING /\ "none" \in STRING
    BY StringsAssumption
  <2>4. \A table \in Seq(T) : \A i : name(table, i) \in STRING
    BY <2>2, <2>3
  <2>. QED BY <2>4 DEF T
<1>3. \A i \in 1 .. N(r) : /\ HitsOf(x, r)[i].srcs \in Seq(ToSet(NameOrder))
                           /\ HitsOf(x, r)[i].tgts \in Seq(ToSet(NameOrder))
  BY HitsTables DEF TablesOK, Table
<1>4. NamesOf(x, r, key) = [i \in 1 .. N(r) |-> <<name(HitsOf(x, r)[i].srcs, key[i][1]),
                                                 name(HitsOf(x, r)[i].tgts, key[i][2])>>]
  BY <1>1 DEF NamesOf
<1>. HIDE DEF name
<1>. QED BY <1>2, <1>3, <1>4

\* An alarm of rule r for the key, with the names the key has now.
AlarmOf(x, r, key) == [key |-> key, names |-> NamesOf(x, r, key)]

\* It is an alarm.
LEMMA AlarmType ==
  ASSUME NEW x, HitsOK(x.hit), NEW r \in RuleSet, NEW key \in Tuples(r)
  PROVE  AlarmOf(x, r, key) \in AlarmSet(r) /\ AlarmOf(x, r, key).key = key
         /\ AlarmOf(x, r, key).names = NamesOf(x, r, key)
BY NamesType DEF AlarmOf, AlarmSet

\* What an evaluation has come upon.
Fresh(x, r, key) ==
  \E t \in ToSet(Tries(x, r)) : \E q \in GoodRounds : Attempt(x, r, t, q).new /\ key = Attempt(x, r, t, q).key
NothingNew(x, r) ==
  \A t \in ToSet(Tries(x, r)) : \E q \in GoodRounds : ~Attempt(x, r, t, q).new

\* What may become of the engine.
Quiet(y, x, r) ==
  /\ y.hit = x.hit /\ y.failed = x.failed /\ y.stale = x.stale
  /\ y.rule[r].alarms = x.rule[r].alarms
Thrown(y, x, r, key) ==
  /\ TextFails(x, r, key)
  /\ y.hit = x.hit /\ y.failed = TRUE /\ y.stale = x.stale /\ y.rule[r].alarms = x.rule[r].alarms
Alarmed(y, x, r, key) ==
  /\ ~TextFails(x, r, key) /\ ~(EHS /\ P(r).act)
  /\ y.hit = x.hit /\ y.failed = x.failed /\ y.stale = x.stale
  /\ y.rule[r].alarms = x.rule[r].alarms \cup {AlarmOf(x, r, key)}
Cleared(y, x, r) ==
  /\ y.hit = [c \in CondSet |-> IF c \in ToSet(P(r).conds) THEN GroundHit ELSE x.hit[c]]
  /\ y.failed = x.failed /\ y.rule[r].alarms = {} /\ y.stale = Disowned(x, r)
Others(y, x, r) ==
  /\ EngineOK(y) /\ y.last = x.last /\ y.rule[r].domains = x.rule[r].domains
  /\ \A s \in RuleSet \ {r} : y.rule[s] = x.rule[s]

\* What a reset leaves without a name are parts of keys.
LEMMA DisownedOK ==
  ASSUME NEW x, EngineOK(x), NEW r \in RuleSet
  PROVE  StaleOK(Disowned(x, r))
<1>. DEFINE new(q) == {<<a.key, i>> : a \in x.rule[q].alarms,
                       i \in {j \in DOMAIN P(q).conds : P(q).conds[j] \in ToSet(P(r).conds)}}
<1>1. ASSUME NEW q \in RuleSet
      PROVE  new(q) \subseteq KeyParts(q)
  <2>1. \A a \in x.rule[q].alarms : a.key \in Tuples(q)
    <3>1. RuleOK(q, x.rule[q])
      BY DEF EngineOK, RulesOK
    <3>2. x.rule[q].alarms \subseteq AlarmSet(q)
      BY <3>1, RuleChanges
    <3>. QED BY <3>2 DEF AlarmSet
  <2>2. DOMAIN P(q).conds = 1 .. N(q)
    BY RuleFacts
  <2>. QED BY <2>1, <2>2 DEF KeyParts
<1>2. Disowned(x, r) = [q \in RuleSet |-> IF q = r THEN {} ELSE x.stale[q] \cup new(q)]
  BY DEF Disowned
<1>3. \A q \in RuleSet : x.stale[q] \subseteq KeyParts(q)
  BY DEF EngineOK, StaleOK
<1>. HIDE DEF new
<1>. QED BY <1>1, <1>2, <1>3 DEF StaleOK, IsMap

\* A reset empties the rule and its conditions and leaves the other rules alone.
LEMMA ResetFacts ==
  ASSUME NEW x, EngineOK(x), NEW r \in RuleSet
  PROVE  Others(ResetState(x, r), x, r) /\ Cleared(ResetState(x, r), x, r)
<1>. DEFINE y == ResetState(x, r)
<1>0. IsEngine(x) /\ IsMap(x.rule, RuleSet) /\ HitsOK(x.hit)
      /\ \A s \in RuleSet : RuleOK(s, x.rule[s])
  BY DEF EngineOK, RulesOK
<1>1. /\ IsEngine(y) /\ y.last = x.last /\ y.failed = x.failed
      /\ y.hit = [c \in CondSet |-> IF c \in ToSet(P(r).conds) THEN GroundHit ELSE x.hit[c]]
      /\ IsMap(y.rule, RuleSet) /\ y.stale = Disowned(x, r)
      /\ \A s \in RuleSet : y.rule[s] = IF s = r THEN [x.rule[s] EXCEPT !.alarms = {}] ELSE x.rule[s]
  BY <1>0, ResetChange
<1>. HIDE DEF y
<1>2. RuleOK(r, y.rule[r]) /\ y.rule[r].alarms = {} /\ y.rule[r].domains = x.rule[r].domains
  <2>. DEFINE z == [x.rule[r] EXCEPT !.alarms = {}]
  <2>1. RuleOK(r, z) /\ z.alarms = {} /\ z.domains = x.rule[r].domains
    BY <1>0, RuleChanges
  <2>2. y.rule[r] = z
    BY <1>1
  <2>. HIDE DEF z
  <2>. QED BY <2>1, <2>2
<1>3. \A s \in RuleSet \ {r} : y.rule[s] = x.rule[s]
  BY <1>1
<1>4. RulesOK(y.rule)
  BY <1>0, <1>1, <1>2, <1>3 DEF RulesOK
<1>5. HitsOK(y.hit)
  BY <1>0, <1>1, GroundHitOK DEF HitsOK, IsMap
<1>6. EngineOK(y)
  BY <1>1, <1>4, <1>5, DisownedOK DEF EngineOK
<1>. QED BY <1>1, <1>2, <1>3, <1>6 DEF y, Others, Cleared

\* What evaluate() makes of the engine (ma_rule.cpp).
LEMMA EvaluateRuleFacts ==
  ASSUME NEW x, EngineOK(x), NEW r \in RuleSet
  PROVE  LET y == EvaluateRule(x, r)
         IN  /\ Others(y, x, r)
             /\ \/ Quiet(y, x, r) /\ (x.failed \/ NothingNew(x, r))
                \/ /\ ~x.failed
                   /\ \E key \in Tuples(r) : Fresh(x, r, key)
                        /\ \/ Thrown(y, x, r, key) \/ Alarmed(y, x, r, key)
                           \/ Cleared(y, x, r) /\ EHS /\ P(r).act
<1>. DEFINE y == EvaluateRule(x, r)
            f == Found(x, r)
            z == [x EXCEPT !.rule[r].round = f.round]
            a == AlarmOf(z, r, f.key)
            w == [z EXCEPT !.rule[r].alarms = @ \cup {a}]
<1>0. /\ IsEngine(x) /\ IsMap(x.rule, RuleSet) /\ HitsOK(x.hit)
      /\ x.last \in [CondSet -> [src : STRING, tgt : STRING, num : Nat]] /\ x.failed \in BOOLEAN
      /\ \A s \in RuleSet : RuleOK(s, x.rule[s])
  BY DEF EngineOK, RulesOK
<1>1. y = IF x.failed THEN x ELSE Conclude(x, r, f)
  BY <1>0, RuleChanges DEF EvaluateRule
<1>2. Conclude(x, r, f) = IF f.new THEN Raise(z, r, f.key) ELSE z
  BY DEF Conclude
<1>3. Raise(z, r, f.key) = IF TextFails(z, r, f.key) THEN [z EXCEPT !.failed = TRUE]
                           ELSE IF EHS /\ P(r).act THEN ResetState(w, r) ELSE w
  BY DEF Raise, AlarmOf
<1>4. /\ f.new \in BOOLEAN /\ f.round \in GoodRounds
      /\ f.new => \E t \in ToSet(Tries(x, r)) : \E q \in GoodRounds : f = Attempt(x, r, t, q)
      /\ ~f.new => NothingNew(x, r)
      /\ Tries(x, r) \in Seq(Trials(r))
  BY FoundFacts DEF NothingNew
<1>5. RuleSetTo(z, x, r, [x.rule[r] EXCEPT !.round = f.round])
  BY <1>0, RoundChange
<1>. HIDE DEF y, f, z
<1>6. Others(z, x, r) /\ z.hit = x.hit /\ z.failed = x.failed /\ z.stale = x.stale
      /\ z.rule[r].alarms = x.rule[r].alarms
  <2>. DEFINE u == [x.rule[r] EXCEPT !.round = f.round]
  <2>1. RuleOK(r, u) /\ u.alarms = x.rule[r].alarms /\ u.domains = x.rule[r].domains
    BY <1>0, <1>4, RuleRound
  <2>. HIDE DEF u
  <2>2. /\ IsEngine(z) /\ z.hit = x.hit /\ z.last = x.last /\ z.failed = x.failed /\ z.stale = x.stale
        /\ IsMap(z.rule, RuleSet)
        /\ z.rule[r] = u /\ \A s \in RuleSet \ {r} : z.rule[s] = x.rule[s]
    BY <1>5 DEF RuleSetTo, u
  <2>3. RulesOK(z.rule)
    BY <1>0, <2>1, <2>2 DEF RulesOK
  <2>4. EngineOK(z)
    BY <1>0, <2>2, <2>3 DEF EngineOK
  <2>. QED BY <2>1, <2>2, <2>4 DEF Others
<1>7. CASE x.failed \/ ~f.new
  <2>1. CASE x.failed
    <3>1. y = x
      BY <1>1, <2>1
    <3>. QED BY <2>1, <3>1 DEF y, Others, Quiet
  <2>2. CASE ~x.failed /\ ~f.new
    <3>1. y = z
      BY <1>1, <1>2, <2>2
    <3>2. NothingNew(x, r)
      BY <1>4, <2>2
    <3>. QED BY <1>6, <3>1, <3>2 DEF y, Quiet
  <2>. QED BY <1>7, <2>1, <2>2
<1>8. CASE ~x.failed /\ f.new
  <2>1. y = Raise(z, r, f.key)
    BY <1>1, <1>2, <1>8
  <2>2. PICK t \in ToSet(Tries(x, r)), round \in GoodRounds : f = Attempt(x, r, t, round)
    BY <1>4, <1>8
  <2>3. t \in Trials(r)
    BY <1>4, <2>2 DEF ToSet
  <2>4. f.key \in Tuples(r) /\ Fresh(x, r, f.key)
    <3>1. f \in Outcomes(r)
      BY <2>2, <2>3, AttemptFacts
    <3>2. Fresh(x, r, f.key)
      BY <1>8, <2>2 DEF Fresh
    <3>. QED BY <3>1, <3>2 DEF Outcomes
  <2>. DEFINE key == f.key
  <2>. HIDE DEF key
  <2>5. key \in Tuples(r) /\ Fresh(x, r, key)
    BY <2>4 DEF key
  <2>6. TextFails(z, r, key) <=> TextFails(x, r, key)
    BY <1>6 DEF TextFails, HitsOf
  <2>7. AlarmOf(z, r, key) = AlarmOf(x, r, key) /\ a = AlarmOf(z, r, key)
    BY <1>6 DEF AlarmOf, NamesOf, HitsOf, key
  <2>8. y = IF TextFails(x, r, key) THEN [z EXCEPT !.failed = TRUE]
            ELSE IF EHS /\ P(r).act THEN ResetState(w, r) ELSE w
    BY <1>3, <2>1, <2>6 DEF key
  <2>9. a \in AlarmSet(r) /\ a = AlarmOf(x, r, key)
    BY <1>0, <2>5, <2>7, AlarmType
  <2>. HIDE DEF a
  <2>z. /\ IsEngine(z) /\ IsMap(z.rule, RuleSet) /\ EngineOK(z) /\ RuleOK(r, z.rule[r])
        /\ \A s \in RuleSet : RuleOK(s, z.rule[s])
    BY <1>6 DEF Others, EngineOK, RulesOK
  <2>10. CASE TextFails(x, r, key)
    <3>. DEFINE v == [z EXCEPT !.failed = TRUE]
    <3>1. IsEngine(v) /\ v.hit = z.hit /\ v.last = z.last /\ v.rule = z.rule /\ v.stale = z.stale
          /\ v.failed = TRUE
      BY <2>z, FailedChange
    <3>2. y = v
      BY <2>8, <2>10
    <3>. HIDE DEF v
    <3>3. EngineOK(v)
      BY <2>z, <3>1 DEF EngineOK
    <3>4. Others(y, x, r) /\ Thrown(y, x, r, key)
      BY <1>6, <2>10, <3>1, <3>2, <3>3 DEF Others, Thrown
    <3>. QED BY <1>8, <2>5, <3>4 DEF y
  <2>w. Others(w, x, r) /\ w.hit = x.hit /\ w.failed = x.failed /\ w.stale = x.stale
        /\ w.rule[r].alarms = x.rule[r].alarms \cup {a}
    <3>. DEFINE u == [z.rule[r] EXCEPT !.alarms = @ \cup {a}]
    <3>1. RuleOK(r, u) /\ u.alarms = z.rule[r].alarms \cup {a} /\ u.domains = z.rule[r].domains
      BY <2>9, <2>z, RuleAlarm
    <3>2. RuleSetTo(w, z, r, u)
      BY <2>z, AlarmsChange
    <3>. HIDE DEF u, w
    <3>3. /\ IsEngine(w) /\ w.hit = z.hit /\ w.last = z.last /\ w.failed = z.failed /\ w.stale = z.stale
          /\ IsMap(w.rule, RuleSet)
          /\ w.rule[r] = u /\ \A s \in RuleSet \ {r} : w.rule[s] = z.rule[s]
      BY <3>2 DEF RuleSetTo
    <3>4. RulesOK(w.rule)
      BY <2>z, <3>1, <3>3 DEF RulesOK
    <3>5. EngineOK(w)
      BY <2>z, <3>3, <3>4 DEF EngineOK
    <3>. QED BY <1>6, <3>1, <3>3, <3>5 DEF Others
  <2>. HIDE DEF w
  <2>11. CASE ~TextFails(x, r, key) /\ EHS /\ P(r).act
    <3>1. y = ResetState(w, r)
      BY <2>8, <2>11
    <3>2. Others(ResetState(w, r), w, r) /\ Cleared(ResetState(w, r), w, r)
      BY <2>w, ResetFacts DEF Others
    <3>3. Disowned(w, r) = Disowned(x, r)
      <4>1. w.stale = x.stale /\ \A q \in RuleSet \ {r} : w.rule[q] = x.rule[q]
        BY <2>w DEF Others
      <4>. DEFINE lost(e, q) == e.stale[q] \cup
                    {<<b.key, i>> : b \in e.rule[q].alarms,
                                    i \in {j \in DOMAIN P(q).conds : P(q).conds[j] \in ToSet(P(r).conds)}}
      <4>2. \A q \in RuleSet \ {r} : lost(w, q) = lost(x, q)
        BY <4>1
      <4>3. /\ Disowned(w, r) = [q \in RuleSet |-> IF q = r THEN {} ELSE lost(w, q)]
            /\ Disowned(x, r) = [q \in RuleSet |-> IF q = r THEN {} ELSE lost(x, q)]
        BY DEF Disowned
      <4>. HIDE DEF lost
      <4>. QED BY <4>2, <4>3
    <3>4. Others(y, x, r) /\ Cleared(y, x, r)
      BY <2>w, <3>1, <3>2, <3>3 DEF Others, Cleared
    <3>. QED BY <1>8, <2>5, <2>11, <3>4 DEF y
  <2>12. CASE ~TextFails(x, r, key) /\ ~(EHS /\ P(r).act)
    <3>1. y = w
      BY <2>8, <2>12
    <3>2. Others(y, x, r) /\ Alarmed(y, x, r, key)
      BY <2>9, <2>12, <2>w, <3>1 DEF Alarmed
    <3>. QED BY <1>8, <2>5, <3>2 DEF y
  <2>. QED BY <2>10, <2>11, <2>12
<1>. QED BY <1>0, <1>4, <1>7, <1>8

-----------------------------------------------------------------------------
(* One rule after the other.                                               *)

\* The list of rules has each rule once.
LEMMA RulesFacts ==
  /\ Len(Rules) \in Nat /\ DOMAIN Rules = 1 .. Len(Rules)
  /\ \A k \in 1 .. Len(Rules) : Rules[k] \in RuleSet
  /\ \A r \in RuleSet : \E k \in 1 .. Len(Rules) : Rules[k] = r
  /\ \A j, k \in 1 .. Len(Rules) : Rules[j] = Rules[k] => j = k
<1>1. Rules \in Seq(RuleSet) /\ IsInjective(Rules)
  BY DomainsAssumption
<1>2. Len(Rules) \in Nat /\ DOMAIN Rules = 1 .. Len(Rules)
  BY <1>1
<1>3. \A r \in RuleSet : \E k \in 1 .. Len(Rules) : Rules[k] = r
  BY <1>2 DEF RuleSet, ToSet
<1>. QED BY <1>1, <1>2, <1>3 DEF IsInjective

\* What a rule's state can be.
RuleStates(r) == {q \in [enabled : {TRUE}, alarms : SUBSET AlarmSet(r), round : Rounds, domains : Seq(Tuples(r))] :
                    RuleOK(r, q)}
\* What the evaluation of rules may make of the engine.
Engines(x) ==
  {y \in [hit : [CondSet -> {x.hit[c] : c \in CondSet} \cup {GroundHit}], last : {x.last},
          rule : [RuleSet -> UNION {RuleStates(r) : r \in RuleSet}], failed : BOOLEAN,
          stale : [RuleSet -> SUBSET UNION {KeyParts(r) : r \in RuleSet}]] : EngineOK(y)}

\* Every rule leaves the engine such an engine.
LEMMA EnginesFacts ==
  ASSUME NEW x, EngineOK(x)
  PROVE  /\ x \in Engines(x)
         /\ \A y \in Engines(x) : EngineOK(y)
         /\ \A y \in Engines(x) : \A r \in RuleSet : EvaluateRule(y, r) \in Engines(x)
<1>. DEFINE H == {x.hit[c] : c \in CondSet} \cup {GroundHit}
            R == UNION {RuleStates(r) : r \in RuleSet}
            K == SUBSET UNION {KeyParts(r) : r \in RuleSet}
<1>1. ASSUME NEW y, EngineOK(y), y.last = x.last, \A c \in CondSet : y.hit[c] \in H
      PROVE  y \in Engines(x)
  <2>1. y = [hit |-> y.hit, last |-> y.last, rule |-> y.rule, failed |-> y.failed, stale |-> y.stale]
    BY <1>1 DEF EngineOK, IsEngine
  <2>2. y.hit \in [CondSet -> H]
    BY <1>1 DEF EngineOK, HitsOK, IsMap
  <2>3. \A r \in RuleSet : y.rule[r] \in R
    <3>1. \A r \in RuleSet : RuleOK(r, y.rule[r])
      BY <1>1 DEF EngineOK, RulesOK
    <3>2. \A r \in RuleSet : y.rule[r] \in RuleStates(r)
      BY <3>1, RuleOKIs DEF RuleStates
    <3>. QED BY <3>2
  <2>. HIDE DEF R
  <2>4. y.rule \in [RuleSet -> R]
    BY <1>1, <2>3 DEF EngineOK, RulesOK, IsMap
  <2>5. y.failed \in BOOLEAN /\ y.last \in {x.last}
    BY <1>1 DEF EngineOK
  <2>. HIDE DEF H
  <2>7. y.stale \in [RuleSet -> K]
    <3>1. IsMap(y.stale, RuleSet) /\ \A r \in RuleSet : y.stale[r] \subseteq KeyParts(r)
      BY <1>1 DEF EngineOK, StaleOK
    <3>2. \A r \in RuleSet : y.stale[r] \in K
      BY <3>1
    <3>. HIDE DEF K
    <3>. QED BY <3>1, <3>2 DEF IsMap
  <2>. HIDE DEF K
  <2>6. y \in [hit : [CondSet -> H], last : {x.last}, rule : [RuleSet -> R], failed : BOOLEAN,
               stale : [RuleSet -> K]]
    BY <2>1, <2>2, <2>4, <2>5, <2>7
  <2>. QED BY <1>1, <2>6 DEF Engines, H, R, K
<1>2. x \in Engines(x)
  BY <1>1
<1>3. ASSUME NEW y \in Engines(x)
      PROVE  EngineOK(y) /\ y.last = x.last /\ \A c \in CondSet : y.hit[c] \in H
  BY DEF Engines
<1>4. ASSUME NEW y \in Engines(x), NEW r \in RuleSet
      PROVE  EvaluateRule(y, r) \in Engines(x)
  <2>. DEFINE z == EvaluateRule(y, r)
  <2>1. /\ Others(z, y, r)
        /\ \/ z.hit = y.hit
           \/ Cleared(z, y, r)
    BY <1>3, EvaluateRuleFacts DEF Quiet, Thrown, Alarmed
  <2>. HIDE DEF z
  <2>2. EngineOK(z) /\ z.last = x.last
    BY <1>3, <2>1 DEF Others
  <2>3. \A c \in CondSet : z.hit[c] = y.hit[c] \/ z.hit[c] = GroundHit
    BY <2>1 DEF Cleared
  <2>4. \A c \in CondSet : z.hit[c] \in H
    BY <1>3, <2>3
  <2>. QED BY <1>1, <2>2, <2>4 DEF z
<1>. QED BY <1>2, <1>3, <1>4

\* c is the engine after each of the rules.
Rounded(x, c) ==
  /\ c[0] = x /\ Evaluated(x) = c[Len(Rules)]
  /\ \A k \in 1 .. Len(Rules) : c[k] = EvaluatedStep(x, k, c[k - 1])
  /\ \A k \in 0 .. Len(Rules) : EngineOK(c[k])

\* The rules are evaluated one after the other.
LEMMA RoundedFacts ==
  ASSUME NEW x, EngineOK(x)
  PROVE  \E c : Rounded(x, c)
<1>. DEFINE n == Len(Rules)
            V == [k \in 0 .. n |-> Engines(x)]
<1>1. n \in Nat /\ \A k \in 1 .. n : k \in 0 .. n /\ k - 1 \in 0 .. n /\ Rules[k] \in RuleSet
  BY RulesFacts
<1>2. 0 \in 0 .. n /\ n \in 0 .. n /\ \A k \in 0 .. n : V[k] = Engines(x)
  BY <1>1
<1>3. \A k \in 1 .. n : \A y \in Engines(x) : EvaluatedStep(x, k, y) \in Engines(x)
  BY <1>1, EnginesFacts DEF EvaluatedStep
<1>. HIDE DEF V, n
<1>4. x \in V[0] /\ \A k \in 1 .. n : \A y \in V[k - 1] : EvaluatedStep(x, k, y) \in V[k]
  BY <1>1, <1>2, <1>3, EnginesFacts
<1>5. PICK c : EvaluatedRun(x, V, c)
  BY <1>1, <1>4, EvaluatedRecursion DEF n
<1>6. Rounded(x, c)
  BY <1>2, <1>5, EnginesFacts DEF EvaluatedRun, Rounded, n
<1>. QED BY <1>6

\* Induction over the rules.
LEMMA RoundedInduction ==
  ASSUME NEW x, NEW c, Rounded(x, c), NEW W, 0 \in W,
         \A k \in 1 .. Len(Rules) : k - 1 \in W => k \in W
  PROVE  Len(Rules) \in W
<1>. DEFINE n == Len(Rules)
            V == [k \in 0 .. n |-> {y \in {c[k]} : k \in W}]
<1>1. n \in Nat /\ \A k \in 1 .. n : k \in 0 .. n /\ k - 1 \in 0 .. n
  BY RulesFacts
<1>2. 0 \in 0 .. n /\ n \in 0 .. n /\ \A k \in 0 .. n : \A y : y \in V[k] <=> y = c[k] /\ k \in W
  BY <1>1
<1>. HIDE DEF V, n
<1>3. x \in V[0]
  BY <1>2 DEF Rounded
<1>4. ASSUME NEW k \in 1 .. n, NEW y \in V[k - 1]
      PROVE  EvaluatedStep(x, k, y) \in V[k]
  <2>1. y = c[k - 1] /\ k - 1 \in W
    BY <1>1, <1>2
  <2>2. k \in W /\ c[k] = EvaluatedStep(x, k, y)
    BY <2>1 DEF Rounded, n
  <2>. QED BY <1>1, <1>2, <2>2
<1>5. PICK d : EvaluatedRun(x, V, d)
  BY <1>1, <1>3, <1>4, EvaluatedRecursion DEF n
<1>6. d[n] \in V[n]
  BY <1>2, <1>5 DEF EvaluatedRun, n
<1>. QED BY <1>2, <1>6 DEF n

-----------------------------------------------------------------------------
(* The state is sound.                                                     *)

\* A reset leaves domains that are those of the clause, or of which nothing is known.
LEMMA ClearedDomains ==
  ASSUME NEW y, NEW z, EngineOK(y), NEW r \in RuleSet, Others(z, y, r),
         z.hit = y.hit \/ Cleared(z, y, r),
         NEW q \in RuleSet, DomainsOK(y, q)
  PROVE  DomainsOK(z, q)
<1>1. EngineOK(z) /\ z.rule[q].domains = y.rule[q].domains
  BY DEF Others
<1>2. ASSUME NEW w \in Mentions[q]
      PROVE  \/ Table(z.hit[w[1]], w[2]) = Table(y.hit[w[1]], w[2])
             \/ Table(z.hit[w[1]], w[2]) = <<>>
  <2>1. w[1] \in CondSet
    BY MentionsFacts
  <2>2. z.hit[w[1]] = y.hit[w[1]] \/ z.hit[w[1]] = GroundHit
    BY <2>1 DEF Cleared
  <2>3. Table(GroundHit, w[2]) = <<>>
    BY DEF Table, GroundHit
  <2>. QED BY <2>2, <2>3
<1>. QED BY <1>1, <1>2, DomainsKept DEF EngineOK

\* A rule leaves the hitmaps alone, or resets its conditions.
LEMMA StepCases ==
  ASSUME NEW y, EngineOK(y), NEW r \in RuleSet
  PROVE  LET z == EvaluateRule(y, r)
         IN  Others(z, y, r) /\ (z.hit = y.hit \/ (Cleared(z, y, r) /\ EHS /\ P(r).act))
BY EvaluateRuleFacts DEF Quiet, Thrown, Alarmed

\* Evaluating the rules leaves their domains sound.
LEMMA EvaluatedDomains ==
  ASSUME NEW x, EngineOK(x), \A r \in RuleSet : DomainsOK(x, r)
  PROVE  EngineOK(Evaluated(x)) /\ \A r \in RuleSet : DomainsOK(Evaluated(x), r)
<1>1. PICK c : Rounded(x, c)
  BY RoundedFacts
<1>. DEFINE n == Len(Rules)
            W == {k \in 0 .. n : \A r \in RuleSet : DomainsOK(c[k], r)}
<1>2. n \in Nat /\ 0 \in 0 .. n /\ \A k \in 1 .. n : k \in 0 .. n /\ k - 1 \in 0 .. n /\ Rules[k] \in RuleSet
  BY RulesFacts
<1>3. 0 \in W
  BY <1>1, <1>2 DEF Rounded
<1>4. ASSUME NEW k \in 1 .. n, k - 1 \in W
      PROVE  k \in W
  <2>. DEFINE y == c[k - 1]
              r == Rules[k]
              z == EvaluateRule(y, r)
  <2>1. EngineOK(y) /\ (c[k] = z \/ c[k] = y) /\ \A q \in RuleSet : DomainsOK(y, q)
    BY <1>1, <1>2, <1>4 DEF Rounded, EvaluatedStep
  <2>2. \A q \in RuleSet : DomainsOK(z, q)
    <3>. HIDE DEF y
    <3>1. r \in RuleSet
      BY <1>2
    <3>. HIDE DEF r
    <3>2. Others(z, y, r) /\ (z.hit = y.hit \/ Cleared(z, y, r))
      BY <2>1, <3>1, StepCases
    <3>. HIDE DEF z
    <3>. QED BY <2>1, <3>1, <3>2, ClearedDomains
  <2>3. \A q \in RuleSet : DomainsOK(c[k], q)
    BY <2>1, <2>2
  <2>. QED BY <1>2, <2>3
<1>5. n \in W
  <2>. HIDE DEF W
  <2>. QED BY <1>1, <1>3, <1>4, RoundedInduction
<1>. QED BY <1>1, <1>2, <1>5 DEF Rounded

-----------------------------------------------------------------------------
(* The first inductive invariant.                                          *)

\* The inductive invariant: the engine's state is sound, and its domains are worked
\* out.
StateInv ==
  EngineOK(State) /\ feeds \in 0 .. MaxFeeds /\ \A r \in RuleSet : DomainsOK(State, r)

\* The variables, as one engine.
LEMMA StateFields ==
  /\ State.hit = hit /\ State.last = last /\ State.rule = rule /\ State.failed = failed
  /\ State.stale = stale
BY DEF State

\* A sound engine has its types.
LEMMA StateTypeOK ==
  ASSUME EngineOK(State), feeds \in 0 .. MaxFeeds
  PROVE  TypeOK
BY StateFields DEF EngineOK, HitsOK, RulesOK, StaleOK, KeyParts, Tuples, N, IsMap, TypeOK

\* A list that is not empty has a member.
LEMMA ListSome ==
  ASSUME NEW s, s \in Seq(ToSet(s)), s # <<>>
  PROVE  \E x \in ToSet(s) : TRUE
<1>1. Len(s) \in Nat /\ DOMAIN s = 1 .. Len(s) /\ Len(s) # 0
  BY ListFacts
<1>2. 1 \in DOMAIN s
  BY <1>1
<1>3. s[1] \in ToSet(s)
  BY <1>2 DEF ToSet
<1>. QED BY <1>3

\* A rule with a WHERE clause is notified of some table.
LEMMA MentionsSome ==
  ASSUME NEW r \in RuleSet, P(r).where # <<>>
  PROVE  Mentions[r] # {}
<1>. DEFINE e == P(r).where
<1>1. IsWhere(e, N(r)) /\ e # <<>>
  BY RuleFacts
<1>2. \A p \in Primaries(e) : \A a \in ToSet(p.args) : <<P(r).conds[a.i], a.arg>> \in Mentions[r]
  BY MentionsFacts
<1>. HIDE DEF e
<1>3. IsExpr(e) /\ \A p \in Primaries(e) : IsList(p.args)
  BY <1>1 DEF IsWhere
<1>4. Len(e) \in Nat /\ DOMAIN e = 1 .. Len(e)
  BY <1>3, ExprFacts
<1>5. 1 \in 1 .. Len(e)
  BY <1>1, <1>3, <1>4 DEF IsExpr
<1>6. PICK a \in ToSet(e[1]) : TRUE
  BY <1>3, <1>5, ExprFacts, ListSome
<1>7. PICK p \in ToSet(a) : TRUE
  BY <1>3, <1>5, ExprFacts, ListSome
<1>8. p \in Primaries(e)
  BY <1>3, <1>5, ExprFacts
<1>9. PICK b \in ToSet(p.args) : TRUE
  BY <1>3, <1>8, ListSome DEF IsList
<1>. QED BY <1>2, <1>8, <1>9

\* The state after init_engine() is sound.
LEMMA InitInv ==
  ASSUME Init
  PROVE  StateInv
<1>1. hit = [c \in CondSet |-> GroundHit]
  BY DEF Init
<1>2. HitsOK(hit)
  BY <1>1, GroundHitOK DEF HitsOK, IsMap
<1>3. last \in [CondSet -> [src : STRING, tgt : STRING, num : Nat]]
  BY StringsAssumption DEF Init
<1>. DEFINE ds(r) == IF P(r).where = <<>> THEN <<AnyDomain(Len(P(r).conds))>> ELSE <<>>
<1>4. rule = [r \in RuleSet |-> [enabled |-> TRUE, alarms |-> {}, round |-> NoRound, domains |-> ds(r)]]
  BY DEF Init
<1>5. ASSUME NEW r \in RuleSet
      PROVE  ds(r) \in Seq(Clean(N(r)))
  <2>1. AnyDomain(N(r)) \in Clean(N(r))
    BY AnyClean, RuleFacts
  <2>. DEFINE C == Clean(N(r))
              u == AnyDomain(Len(P(r).conds))
  <2>2. u \in C
    BY <2>1 DEF N
  <2>. HIDE DEF C, u
  <2>3. <<u>> \in Seq(C) /\ <<>> \in Seq(C)
    BY <2>2
  <2>. QED BY <2>3 DEF C, u
<1>6. NoRound \in GoodRounds
  BY DEF NoRound, GoodRounds, Rounds, RoundOK
<1>7. ASSUME NEW r \in RuleSet
      PROVE  rule[r].domains = ds(r) /\ RuleOK(r, rule[r])
  <2>. DEFINE d == ds(r)
              q == [enabled |-> TRUE, alarms |-> {}, round |-> NoRound, domains |-> d]
  <2>1. d \in Seq(Tuples(r)) /\ \A z \in ToSet(d) : ~IsNull(z)
    <3>1. d \in Seq(Clean(N(r)))
      BY <1>5
    <3>. HIDE DEF d
    <3>2. \A z \in ToSet(d) : z \in Clean(N(r))
      BY <3>1 DEF ToSet
    <3>3. Clean(N(r)) \subseteq Tuples(r) /\ \A z \in Clean(N(r)) : ~IsNull(z)
      BY DEF Clean, DomainsOfSize, Tuples
    <3>4. d \in Seq(Tuples(r))
      <4>. DEFINE C == Clean(N(r))
      <4>1. d \in Seq(C) /\ ToSet(d) \subseteq Tuples(r)
        BY <3>1, <3>2, <3>3
      <4>. HIDE DEF C
      <4>. QED BY <4>1, SeqOfMembers
    <3>. QED BY <3>2, <3>3, <3>4
  <2>. HIDE DEF d
  <2>2. q \in [enabled : {TRUE}, alarms : SUBSET AlarmSet(r), round : Rounds, domains : Seq(Tuples(r))]
        /\ q.round = NoRound /\ q.domains = d
    BY <1>6, <2>1 DEF GoodRounds
  <2>. HIDE DEF q
  <2>3. RuleOK(r, q)
    BY <1>6, <2>1, <2>2, RuleOKIs DEF GoodRounds
  <2>4. rule[r] = q
    BY <1>4 DEF q, d
  <2>. QED BY <2>2, <2>3, <2>4 DEF d
<1>8. RulesOK(rule)
  BY <1>4, <1>7 DEF RulesOK, IsMap
<1>9. failed \in BOOLEAN /\ feeds \in 0 .. MaxFeeds
  <2>1. failed = FALSE /\ feeds = 0
    BY DEF Init
  <2>2. MaxFeeds \in Nat
    BY DomainsAssumption, Zenon
  <2>3. failed \in BOOLEAN
    BY <2>1, Zenon
  <2>4. feeds \in 0 .. MaxFeeds
    BY <2>1, <2>2
  <2>. QED BY <2>3, <2>4
<1>12. StaleOK(stale)
  BY DEF Init, StaleOK, IsMap
<1>10. EngineOK(State)
  BY <1>2, <1>3, <1>8, <1>9, <1>12, StateFields DEF EngineOK, IsEngine, State
<1>11. ASSUME NEW r \in RuleSet
       PROVE  DomainsOK(State, r)
  <2>1. rule[r].domains = ds(r)
    BY <1>7
  <2>2. CASE P(r).where = <<>>
    BY <2>1, <2>2, StateFields DEF DomainsOK, N
  <2>3. CASE P(r).where # <<>>
    <3>1. \A q \in Mentions[r] : Table(State.hit[q[1]], q[2]) = <<>>
      BY <1>1, MentionsFacts, StateFields DEF GroundHit, Table
    <3>2. Mentions[r] # {}
      BY <2>3, MentionsSome
    <3>. QED BY <2>3, <3>1, <3>2 DEF DomainsOK
  <2>. QED BY <2>2, <2>3
<1>. QED BY <1>9, <1>10, <1>11 DEF StateInv

\* A rule is told of every new name that its WHERE clause mentions.
LEMMA UpdatedDomains ==
  ASSUME NEW m \in Messages, EngineOK(State), NEW r \in RuleSet, DomainsOK(State, r)
  PROVE  DomainsOK(Updated(Caught(m)), r)
<1>. DEFINE x == Caught(m)
            y == Updated(x)
<1>1. EngineOK(x) /\ x.rule = rule
  BY CaughtOK
<1>. HIDE DEF x
<1>2. EngineOK(y) /\ y.hit = x.hit
      /\ y.rule[r].domains = IF DomainChanges(r, x.hit) THEN DomainsOf(x, r) ELSE x.rule[r].domains
  BY <1>1, UpdatedOK
<1>. HIDE DEF y
<1>3. CASE DomainChanges(r, x.hit)
  <2>1. Mentions[r] # {}
    BY <1>3 DEF DomainChanges
  <2>2. P(r).where # <<>>
    BY <2>1, MentionsFacts
  <2>3. DomainsOf(y, r) = DomainsOf(x, r)
    BY <1>2 DEF DomainsOf, HitsOf
  <2>. QED BY <1>2, <1>3, <2>2, <2>3 DEF DomainsOK, x, y
<1>4. CASE ~DomainChanges(r, x.hit)
  <2>1. y.rule[r].domains = State.rule[r].domains
    BY <1>1, <1>2, <1>4, StateFields
  <2>2. ASSUME NEW q \in Mentions[r]
        PROVE  Table(y.hit[q[1]], q[2]) = Table(State.hit[q[1]], q[2])
    <3>1. q[1] \in CondSet /\ q[2] \in {"s", "t"} /\ q \in Mentions[r]
      BY MentionsFacts
    <3>2. q = <<q[1], q[2]>>
      BY DEF Mentions
    <3>3. /\ q[2] = "s" => x.hit[q[1]].srcs = hit[q[1]].srcs
          /\ q[2] = "t" => x.hit[q[1]].tgts = hit[q[1]].tgts
      BY <1>4, <3>1, <3>2 DEF DomainChanges
    <3>. QED BY <1>2, <3>1, <3>3, StateFields DEF Table
  <2>3. HitsOK(State.hit) /\ HitsOK(y.hit)
    BY <1>2 DEF EngineOK
  <2>4. DomainsOK(y, r)
    BY <2>1, <2>2, <2>3, DomainsKept
  <2>. QED BY <2>4 DEF x, y
<1>. QED BY <1>3, <1>4

\* What a step makes of the engine.
LEMMA NextCases ==
  ASSUME EngineOK(State), Next
  PROVE  \/ \E m \in Messages : /\ ~failed /\ feeds < MaxFeeds /\ feeds' = feeds + 1
                                /\ State' = Evaluated(Updated(Caught(m)))
         \/ \E r \in Resets : ~failed /\ UNCHANGED feeds /\ State' = ResetState(State, r)
<1>1. ASSUME NEW e, EngineOK(e), Becomes(e)
      PROVE  State' = e
  BY <1>1 DEF Becomes, State, EngineOK, IsEngine
<1>2. ASSUME NEW m \in Messages, Feed(m)
      PROVE  /\ ~failed /\ feeds < MaxFeeds /\ feeds' = feeds + 1
             /\ State' = Evaluated(Updated(Caught(m)))
  <2>. DEFINE x == Updated(Caught(m))
  <2>1. EngineOK(x)
    BY CaughtOK, UpdatedOK
  <2>2. ~failed /\ feeds < MaxFeeds /\ feeds' = feeds + 1 /\ Becomes(Evaluated(x))
    BY <1>2 DEF Feed
  <2>. HIDE DEF x
  <2>3. EngineOK(Evaluated(x))
    BY <2>1, RoundedFacts, RulesFacts DEF Rounded
  <2>4. State' = Evaluated(x)
    BY <1>1, <2>2, <2>3
  <2>. QED BY <2>2, <2>4 DEF x
<1>3. ASSUME NEW r \in Resets, ResetRule(r)
      PROVE  ~failed /\ UNCHANGED feeds /\ State' = ResetState(State, r)
  <2>1. ~failed /\ UNCHANGED feeds /\ Becomes(ResetState(State, r))
    BY <1>3 DEF ResetRule
  <2>2. r \in RuleSet
    BY DomainsAssumption
  <2>3. EngineOK(ResetState(State, r))
    BY <2>2, ResetFacts DEF Others
  <2>. QED BY <1>1, <2>1, <2>3
<1>. QED BY <1>2, <1>3 DEF Next

\* Every step keeps it sound.
LEMMA NextInv ==
  ASSUME StateInv, [Next]_vars
  PROVE  StateInv'
<1>0. EngineOK(State) /\ feeds \in 0 .. MaxFeeds /\ \A r \in RuleSet : DomainsOK(State, r)
  BY DEF StateInv
<1>1. ASSUME NEW e, State' = e, feeds' \in 0 .. MaxFeeds, EngineOK(e), \A r \in RuleSet : DomainsOK(e, r)
      PROVE  StateInv'
  BY <1>1 DEF StateInv
<1>2. CASE Next
  <2>m. MaxFeeds \in Nat
    BY DomainsAssumption, Zenon
  <2>1. ASSUME NEW m \in Messages, feeds < MaxFeeds, feeds' = feeds + 1,
               State' = Evaluated(Updated(Caught(m)))
        PROVE  StateInv'
    <3>. DEFINE x == Updated(Caught(m))
    <3>1. EngineOK(x) /\ \A r \in RuleSet : DomainsOK(x, r)
      BY <1>0, CaughtOK, UpdatedOK, UpdatedDomains
    <3>2. feeds' \in 0 .. MaxFeeds
      BY <1>0, <2>1, <2>m
    <3>3. State' = Evaluated(x)
      BY <2>1
    <3>. HIDE DEF x
    <3>4. EngineOK(Evaluated(x)) /\ \A r \in RuleSet : DomainsOK(Evaluated(x), r)
      BY <3>1, EvaluatedDomains
    <3>. QED BY <1>1, <3>2, <3>3, <3>4
  <2>2. ASSUME NEW r \in Resets, UNCHANGED feeds, State' = ResetState(State, r)
        PROVE  StateInv'
    <3>. DEFINE x == State
                y == ResetState(x, r)
    <3>1. r \in RuleSet
      BY DomainsAssumption
    <3>2. Others(y, x, r) /\ Cleared(y, x, r)
      BY <1>0, <3>1, ResetFacts
    <3>3. feeds' \in 0 .. MaxFeeds /\ State' = y
      BY <1>0, <2>2
    <3>. HIDE DEF y
    <3>4. EngineOK(y) /\ \A q \in RuleSet : DomainsOK(y, q)
      BY <1>0, <3>1, <3>2, ClearedDomains DEF Others
    <3>. QED BY <1>1, <3>3, <3>4
  <2>. QED BY <1>0, <1>2, <2>1, <2>2, NextCases
<1>3. CASE UNCHANGED vars
  <2>1. State' = State /\ feeds' = feeds
    BY <1>3 DEF vars, State
  <2>. QED BY <1>0, <1>1, <2>1
<1>. QED BY <1>2, <1>3

\* The engine's state is sound, and its domains are worked out (all of ma_rule.cpp).
THEOREM StateIsSound == Spec => []StateInv
<1>1. Init => StateInv
  BY InitInv
<1>2. StateInv /\ [Next]_vars => StateInv'
  BY NextInv
<1>. QED BY <1>1, <1>2, PTL DEF Spec

\* Hitmaps, tables, rounds, domains and alarms have their types, for every
\* configuration and order of messages, resets and actions (ma_rule.cpp,
\* ma_hitmap.cpp).
THEOREM DomainsTypeCorrect == Spec => []TypeOK
<1>1. StateInv => TypeOK
  BY StateTypeOK DEF StateInv
<1>. QED BY <1>1, StateIsSound, PTL

-----------------------------------------------------------------------------
(* The domains are those of the WHERE clauses.                             *)

\* AllValues() of whatever engine.
ValuesIn(x, r) ==
  LET cells(i) == DOMAIN HitsOf(x, r)[i].on
  IN  {v \in [1 .. N(r) -> UNION {cells(i) : i \in 1 .. N(r)}] : \A i \in 1 .. N(r) : v[i] \in cells(i)}

\* The values of a rule are pairs of indices of its tables.
LEMMA ValuesInTables ==
  ASSUME NEW x, HitsOK(x.hit), NEW r \in RuleSet, NEW v
  PROVE  v \in ValuesIn(x, r) <=> InTables(HitsOf(x, r), N(r), v)
<1>. DEFINE n == N(r)
            hs == HitsOf(x, r)
            cells(i) == DOMAIN hs[i].on
<1>1. v \in ValuesIn(x, r) <=>
        v \in [1 .. n -> UNION {cells(i) : i \in 1 .. n}] /\ \A i \in 1 .. n : v[i] \in cells(i)
  BY DEF ValuesIn
<1>2. \A i \in 1 .. n : hs[i] = x.hit[P(r).conds[i]] /\ P(r).conds[i] \in CondSet
  BY HitsTables, RuleFacts
<1>3. \A i \in 1 .. n : cells(i) = Cells(hs[i].srcs, hs[i].tgts)
  <2>. TAKE i \in 1 .. n
  <2>1. HitOK(P(r).conds[i], hs[i])
    BY <1>2 DEF HitsOK
  <2>. QED BY <2>1 DEF HitOK
<1>4. TablesOK(hs, n)
  BY HitsTables
<1>5. \A i \in 1 .. n : cells(i) \subseteq Nat \X Nat
  <2>. TAKE i \in 1 .. n
  <2>1. Len(hs[i].srcs) \in Nat /\ Len(hs[i].tgts) \in Nat
    BY <1>4 DEF TablesOK, Table
  <2>2. Cells(hs[i].srcs, hs[i].tgts) \subseteq Nat \X Nat
    BY <2>1 DEF Cells
  <2>. QED BY <1>3, <2>2
<1>6. InTables(hs, n, v) <=> v \in [1 .. n -> Nat \X Nat] /\ \A i \in 1 .. n : v[i] \in cells(i)
  BY <1>3 DEF InTables, ValuesOfSize
<1>. HIDE DEF hs, cells
<1>7. v \in [1 .. n -> UNION {cells(i) : i \in 1 .. n}] /\ (\A i \in 1 .. n : v[i] \in cells(i))
      <=> v \in [1 .. n -> Nat \X Nat] /\ \A i \in 1 .. n : v[i] \in cells(i)
  BY <1>5
<1>. QED BY <1>1, <1>6, <1>7 DEF hs

\* Meets() says of the names what the clause says of the indices.
LEMMA MeetsMeans ==
  ASSUME NEW x, EngineOK(x), NEW r \in RuleSet, P(r).where # <<>>, NEW v \in ValuesIn(x, r)
  PROVE  Meets(r, NamesOf(x, r, v)) <=> Satisfied(P(r).where, EquatedBy(HitsOf(x, r), v, P(r).where))
<1>. DEFINE n == N(r)
            e == P(r).where
            hs == HitsOf(x, r)
            names == NamesOf(x, r, v)
            T == {p \in Primaries(e) : Equates(p, names)}
<1>1. InTables(hs, n, v) /\ TablesOK(hs, n)
  BY ValuesInTables, HitsTables DEF EngineOK
<1>2. DOMAIN v = 1 .. n
  BY <1>1 DEF InTables, ValuesOfSize
<1>3. \A p \in Primaries(e) : \A a \in ToSet(p.args) : a \in ArgSet(n)
  <2>1. IsWhere(e, n)
    BY RuleFacts
  <2>. QED BY <2>1 DEF IsWhere, ArgSet
<1>4. ASSUME NEW a \in ArgSet(n)
      PROVE  names[a.i][IF a.arg = "s" THEN 1 ELSE 2] = Called(hs, v, a)
  <2>1. a.i \in 1 .. n /\ a.arg \in {"s", "t"}
    BY DEF ArgSet
  <2>. DEFINE i == a.i
  <2>2. v[i] \in Cells(hs[i].srcs, hs[i].tgts)
    BY <1>1, <2>1 DEF InTables
  <2>3. /\ hs[i].srcs \in Seq(ToSet(NameOrder)) /\ hs[i].tgts \in Seq(ToSet(NameOrder))
    BY <1>1, <2>1 DEF TablesOK, Table
  <2>4. v[i][1] \in 0 .. Len(hs[i].srcs) - 1 /\ v[i][2] \in 0 .. Len(hs[i].tgts) - 1
    BY <2>2 DEF Cells
  <2>5. v[i][1] + 1 \in DOMAIN hs[i].srcs /\ v[i][1] # D_ANY
        /\ v[i][2] + 1 \in DOMAIN hs[i].tgts /\ v[i][2] # D_ANY
    <3>1. ASSUME NEW X, NEW s \in Seq(X), NEW k \in 0 .. Len(s) - 1
          PROVE  k + 1 \in DOMAIN s /\ k # -1
      <4>1. Len(s) \in Nat /\ DOMAIN s = 1 .. Len(s)
        OBVIOUS
      <4>. QED BY <4>1
    <3>. HIDE DEF hs
    <3>2. v[i][1] + 1 \in DOMAIN hs[i].srcs /\ v[i][1] # -1
      BY <2>3, <2>4, <3>1
    <3>3. v[i][2] + 1 \in DOMAIN hs[i].tgts /\ v[i][2] # -1
      BY <2>3, <2>4, <3>1
    <3>. QED BY <3>2, <3>3 DEF D_ANY
  <2>6. names[i] = <<hs[i].srcs[v[i][1] + 1], hs[i].tgts[v[i][2] + 1]>>
    BY <1>2, <2>1, <2>5 DEF NamesOf
  <2>. HIDE DEF names, hs
  <2>. QED BY <2>1, <2>6 DEF Called, Component, Table
<1>5. T = EquatedBy(hs, v, e)
  <2>. HIDE DEF names, hs, n
  <2>1. ASSUME NEW p \in Primaries(e)
        PROVE  Equates(p, names) <=> EquatesIn(hs, v, p)
    <3>1. \A a \in ToSet(p.args) : names[a.i][IF a.arg = "s" THEN 1 ELSE 2] = Called(hs, v, a)
      BY <1>3, <1>4
    <3>. QED BY <3>1 DEF Equates, EquatesIn
  <2>. QED BY <2>1 DEF EquatedBy
<1>. QED BY <1>5 DEF Meets

\* Once there are values, the domains are those of the clause.
LEMMA DomainsKnown ==
  ASSUME NEW x, EngineOK(x), NEW r \in RuleSet, P(r).where # <<>>, DomainsOK(x, r),
         NEW v \in ValuesIn(x, r)
  PROVE  x.rule[r].domains = DomainsOf(x, r)
<1>. DEFINE n == N(r)
            hs == HitsOf(x, r)
<1>1. InTables(hs, n, v) /\ TablesOK(hs, n) /\ \A i \in 1 .. n : hs[i] = x.hit[P(r).conds[i]]
  BY ValuesInTables, HitsTables DEF EngineOK
<1>2. ASSUME NEW q \in Mentions[r]
      PROVE  Table(x.hit[q[1]], q[2]) # <<>>
  <2>1. q[1] \in ToSet(P(r).conds) /\ q[2] \in {"s", "t"}
    BY MentionsFacts
  <2>2. PICK i \in 1 .. n : q[1] = P(r).conds[i]
    BY <2>1, RuleFacts DEF ToSet
  <2>3. v[i] \in Cells(hs[i].srcs, hs[i].tgts)
    BY <1>1 DEF InTables
  <2>4. hs[i] = x.hit[q[1]]
    BY <1>1, <2>2
  <2>5. v[i][1] \in 0 .. Len(hs[i].srcs) - 1 /\ v[i][2] \in 0 .. Len(hs[i].tgts) - 1
    BY <2>3 DEF Cells
  <2>6. Len(hs[i].srcs) # 0 /\ Len(hs[i].tgts) # 0
    BY <2>5
  <2>. HIDE DEF hs
  <2>7. Len(Table(hs[i], q[2])) # 0
    BY <2>6 DEF Table
  <2>. QED BY <2>4, <2>7
<1>. QED BY <1>2 DEF DomainsOK

\* They denote the values whose names meet it.
LEMMA DomainsDenote ==
  ASSUME StringsOnce, NEW x, EngineOK(x), NEW r \in RuleSet, P(r).where # <<>>, DomainsOK(x, r),
         NEW v \in ValuesIn(x, r)
  PROVE  Denotes(x.rule[r].domains, v) <=> Meets(r, NamesOf(x, r, v))
<1>. DEFINE n == N(r)
            e == P(r).where
            hs == HitsOf(x, r)
<1>1. x.rule[r].domains = DomainExpr(hs, e)
  BY DomainsKnown DEF DomainsOf
<1>2. InTables(hs, n, v) /\ TablesOK(hs, n)
  BY ValuesInTables, HitsTables DEF EngineOK
<1>3. n \in Nat \ {0} /\ IsWhere(e, n) /\ e # <<>> /\ NameOrder \in Seq(STRING)
  BY RuleFacts, OrderFacts
<1>4. Once(e)
  BY DEF StringsOnce, Once
<1>5. v \in ValuesOfSize(n)
  BY <1>2 DEF InTables
<1>. DEFINE T == EquatedBy(hs, v, e)
<1>6. Denotes(DomainExpr(hs, e), v) <=> Satisfied(e, T)
  <2>. HIDE DEF n, e, hs, T
  <2>. QED BY <1>2, <1>3, <1>4, <1>5, DomainExprMeans DEF T
<1>7. Meets(r, NamesOf(x, r, v)) <=> Satisfied(e, T)
  BY MeetsMeans
<1>. QED BY <1>1, <1>6, <1>7

\* The invariant implies that clauses are denoted.
LEMMA WhereDenoted ==
  ASSUME StateInv, StringsOnce
  PROVE  WhereIsDenoted
<1>. SUFFICES ASSUME NEW r \in RuleSet, P(r).where # <<>>, NEW v \in AllValues(r)
              PROVE  (\E k \in DOMAIN rule[r].domains : InDomain(rule[r].domains[k], v))
                       <=> Meets(r, ValueNames(r, v))
  BY DEF WhereIsDenoted
<1>. DEFINE ds == rule[r].domains
<1>1. EngineOK(State) /\ DomainsOK(State, r)
  BY DEF StateInv
<1>2. v \in ValuesIn(State, r)
  BY DEF AllValues, ValuesIn, N
<1>3. Denotes(ds, v) <=> Meets(r, ValueNames(r, v))
  BY <1>1, <1>2, DomainsDenote, StateFields DEF ValueNames
<1>4. Denotes(ds, v) <=> \E k \in DOMAIN ds : InDomain(ds[k], v)
  BY DEF Denotes, ToSet
<1>. QED BY <1>3, <1>4

\* What a rule looks through is what its WHERE clause says, whatever order messages and
\* resets come in (ma_domain_cond.cpp, ma_rule.cpp).
THEOREM WhereClausesDenote ==
  ASSUME StringsOnce
  PROVE  Spec => []DomainInv
<1>1. StateInv => DomainInv
  BY StateTypeOK, WhereDenoted DEF StateInv, DomainInv
<1>. QED BY <1>1, StateIsSound, PTL

-----------------------------------------------------------------------------
(* Domains of a kind that intersections stay in.                           *)

\* C is closed under intersection, up to the null domain.
Closed(C, n) ==
  C \subseteq Clean(n) /\ \A d1, d2 \in C : Intersect(d1, d2) \in C \cup {NullDomain}

\* and_merge() stays in C.
LEMMA AndMergeIn ==
  ASSUME NEW n \in Nat \ {0}, NEW C, Closed(C, n), NEW a \in Seq(C), NEW b \in Seq(C)
  PROVE  AndMerge(a, b) \in Seq(C)
<1>1. CASE a = <<>>
  BY <1>1 DEF AndMerge
<1>2. CASE a # <<>>
  <2>1. ASSUME NEW s \in Seq(C)
        PROVE  s \in Seq(Clean(n)) /\ \A k \in 1 .. Len(s) : s[k] \in C
    <3>1. \A k \in 1 .. Len(s) : s[k] \in C
      OBVIOUS
    <3>2. ToSet(s) \subseteq C
      BY DEF ToSet
    <3>3. C \subseteq Clean(n)
      BY DEF Closed
    <3>4. ToSet(s) \subseteq Clean(n)
      BY <3>2, <3>3
    <3>. QED BY <3>1, <3>4, SeqOfMembers
  <2>. DEFINE m == AndMerge(a, b)
  <2>2. /\ m \in Seq(Clean(n))
        /\ \A d : d \in ToSet(m) <=>
             d # NullDomain /\ \E k \in 1 .. Len(a), j \in 1 .. Len(b) : d = Intersect(a[k], b[j])
    BY <1>2, <2>1, AndMergeMembers
  <2>. HIDE DEF m
  <2>3. ToSet(m) \subseteq C
    BY <2>1, <2>2 DEF Closed
  <2>. QED BY <2>2, <2>3, SeqOfMembers DEF m
<1>. QED BY <1>1, <1>2

\* So does the merge of a list.
LEMMA MergedIn ==
  ASSUME NEW n \in Nat \ {0}, NEW C, Closed(C, n), NEW ds \in Seq(Seq(C))
  PROVE  Merged(ds) \in Seq(C)
<1>. DEFINE m == Len(ds)
            V == [k \in 0 .. m |-> Seq(C)]
<1>0. /\ m \in Nat /\ 0 \in 0 .. m /\ m \in 0 .. m
      /\ \A k \in 1 .. m : k \in 0 .. m /\ k - 1 \in 0 .. m /\ ds[k] \in Seq(C)
  OBVIOUS
<1>1. \A k \in 0 .. m : V[k] = Seq(C)
  OBVIOUS
<1>2. ASSUME NEW k \in 1 .. m, NEW t \in Seq(C)
      PROVE  MergedStep(ds, k, t) \in Seq(C)
  <2>1. AndMerge(t, ds[k]) \in Seq(C)
    BY <1>0, AndMergeIn
  <2>. QED BY <2>1 DEF MergedStep
<1>. HIDE DEF V
<1>3. <<>> \in V[0] /\ \A k \in 1 .. m : \A t \in V[k - 1] : MergedStep(ds, k, t) \in V[k]
  <2>1. <<>> \in V[0]
    <3>1. <<>> \in Seq(C)
      OBVIOUS
    <3>2. V[0] = Seq(C)
      BY <1>0, <1>1
    <3>. QED BY <3>1, <3>2
  <2>2. ASSUME NEW k \in 1 .. m, NEW t \in V[k - 1]
        PROVE  MergedStep(ds, k, t) \in V[k]
    <3>1. t \in Seq(C) /\ V[k] = Seq(C)
      BY <1>0, <1>1
    <3>. QED BY <1>2, <3>1
  <2>. QED BY <2>1, <2>2
<1>4. PICK c : MergedRun(ds, V, c)
  BY <1>0, <1>3, MergedRecursion
<1>. QED BY <1>0, <1>1, <1>4 DEF MergedRun

\* So do the domains of a clause whose primaries stay in C.
LEMMA DomainExprIn ==
  ASSUME NEW n \in Nat \ {0}, NEW C, Closed(C, n), NEW hs, NEW e, IsExpr(e), e # <<>>,
         \A p \in Primaries(e) : \A below : DomainCond(hs, p, below) \in Seq(C)
  PROVE  DomainExpr(hs, e) \in Seq(C)
<1>. DEFINE m == Len(e)
            V == [k \in 0 .. m |-> {b \in Seq(Seq(C)) : Len(b) = k}]
<1>0. /\ m \in Nat \ {0} /\ 0 \in 0 .. m /\ m \in 0 .. m
      /\ \A k \in 1 .. m : k \in 0 .. m /\ k - 1 \in 0 .. m
  <2>1. Len(e) \in Nat /\ Len(e) # 0
    BY DEF IsExpr
  <2>. QED BY <2>1
<1>1. ASSUME NEW k \in 1 .. m, NEW so \in Seq(Seq(C)), Len(so) = k - 1
      PROVE  DomainStep(hs, e, k, so) \in Seq(Seq(C)) /\ Len(DomainStep(hs, e, k, so)) = k
  <2>. DEFINE x == e[k]
              res(j) == DomainAndExpr(hs, x[j], so)
              rs == [j \in DOMAIN x |-> res(j)]
              flat == FlattenSeq(rs)
  <2>1. /\ x \in Seq(ToSet(x))
        /\ \A a \in ToSet(x) : a \in Seq(ToSet(a)) /\ \A p \in ToSet(a) :
             IF p.type = "EXPR" THEN p.sub \in 1 .. k - 1 ELSE p \in Primaries(e)
    BY ExprFacts
  <2>2. DomainStep(hs, e, k, so) = Append(so, flat)
    BY DEF DomainStep
  <2>. HIDE DEF x
  <2>3. Len(x) \in Nat /\ DOMAIN x = 1 .. Len(x) /\ \A j \in DOMAIN x : x[j] \in ToSet(x)
    BY <2>1, ListFacts
  <2>4. ASSUME NEW j \in DOMAIN x
        PROVE  res(j) \in Seq(C)
    <3>. DEFINE a == x[j]
                ds == [i \in DOMAIN a |-> DomainCond(hs, a[i], so)]
    <3>1. /\ a \in Seq(ToSet(a)) /\ \A p \in ToSet(a) :
             IF p.type = "EXPR" THEN p.sub \in 1 .. k - 1 ELSE p \in Primaries(e)
      BY <2>1, <2>3
    <3>2. res(j) = Merged(ds)
      BY DEF DomainAndExpr
    <3>. HIDE DEF a
    <3>3. Len(a) \in Nat /\ DOMAIN a = 1 .. Len(a) /\ \A i \in DOMAIN a : a[i] \in ToSet(a)
      BY <3>1, ListFacts
    <3>4. ASSUME NEW i \in DOMAIN a
          PROVE  DomainCond(hs, a[i], so) \in Seq(C)
      <4>1. CASE a[i].type = "EXPR"
        <5>1. DomainCond(hs, a[i], so) = so[a[i].sub] /\ a[i].sub \in 1 .. Len(so)
          BY <1>1, <3>1, <3>3, <4>1 DEF DomainCond
        <5>. QED BY <1>1, <5>1
      <4>2. CASE a[i].type # "EXPR"
        BY <3>1, <3>3, <4>2
      <4>. QED BY <4>1, <4>2
    <3>5. ds \in Seq(Seq(C))
      <4>. DEFINE Y == Seq(C)
      <4>. HIDE DEF Y
      <4>1. IsRow(ds, Len(a), Y)
        BY <3>3, <3>4 DEF Y, IsRow
      <4>. HIDE DEF ds
      <4>2. ds \in Seq(Y)
        BY <3>3, <4>1, RowFacts
      <4>. QED BY <4>2 DEF Y
    <3>. HIDE DEF ds
    <3>. QED BY <3>2, <3>5, MergedIn
  <2>. HIDE DEF res
  <2>5. rs \in Seq(Seq(C))
    <3>. DEFINE Y == Seq(C)
    <3>. HIDE DEF Y
    <3>1. IsRow(rs, Len(x), Y)
      BY <2>3, <2>4 DEF Y, IsRow
    <3>. HIDE DEF rs
    <3>2. rs \in Seq(Y)
      BY <2>3, <3>1, RowFacts
    <3>. QED BY <3>2 DEF Y
  <2>. HIDE DEF rs
  <2>6. flat \in Seq(C)
    BY <2>5, FlattenFacts
  <2>. DEFINE Y == Seq(C)
  <2>7. flat \in Y /\ so \in Seq(Y) /\ k \in Nat
    BY <1>0, <1>1, <2>6
  <2>. HIDE DEF flat, Y
  <2>8. Append(so, flat) \in Seq(Y) /\ Len(Append(so, flat)) = k
    BY <1>1, <2>7
  <2>. QED BY <2>2, <2>8 DEF Y
<1>2. /\ \A k \in 0 .. m : \A b : b \in V[k] <=> b \in Seq(Seq(C)) /\ Len(b) = k
  OBVIOUS
<1>3. <<>> \in V[0]
  BY <1>0, <1>2
<1>. HIDE DEF V
<1>4. \A k \in 1 .. m : \A so \in V[k - 1] : DomainStep(hs, e, k, so) \in V[k]
  BY <1>0, <1>1, <1>2
<1>5. PICK c : DomainRun(hs, e, V, c)
  BY <1>0, <1>3, <1>4, DomainRecursion
<1>6. c[m] \in Seq(Seq(C)) /\ Len(c[m]) = m /\ DomainExpr(hs, e) = c[m][m]
  BY <1>0, <1>2, <1>5 DEF DomainRun
<1>. DEFINE s == c[m]
<1>. HIDE DEF s, m
<1>7. s \in Seq(Seq(C)) /\ m \in 1 .. Len(s)
  BY <1>0, <1>6 DEF s
<1>8. s[m] \in Seq(C)
  BY <1>7
<1>. QED BY <1>6, <1>8 DEF s

-----------------------------------------------------------------------------
(* The indices of a rule's domains are those of names.                     *)

\* Any index, or that of a name.
Ranges(table, j) == j = D_ANY \/ j \in 0 .. Len(table) - 1
Placed(hs, i, d) == Ranges(hs[i].srcs, d[1]) /\ Ranges(hs[i].tgts, d[2])
Proper(hs, n) == {d \in Clean(n) : \A i \in 1 .. n : Placed(hs, i, d[i])}

\* Domains with indices of the tables are closed under intersection.
LEMMA ProperClosed ==
  ASSUME NEW n \in Nat \ {0}, NEW hs
  PROVE  Closed(Proper(hs, n), n)
<1>1. ASSUME NEW d1 \in Proper(hs, n), NEW d2 \in Proper(hs, n)
      PROVE  Intersect(d1, d2) \in Proper(hs, n) \cup {NullDomain}
  <2>1. /\ d1 \in DomainsOfSize(n) /\ d2 \in DomainsOfSize(n)
        /\ \A i \in 1 .. n : Placed(hs, i, d1[i]) /\ Placed(hs, i, d2[i])
    BY DEF Proper, Clean
  <2>2. Intersect(d1, d2) \in Clean(n) \cup {NullDomain}
    BY <2>1, IntersectClean
  <2>. DEFINE d == [i \in DOMAIN d1 |-> CondIntersect(d1[i], d2[i])]
  <2>3. Intersect(d1, d2) \in {NullDomain, d} /\ (Intersect(d1, d2) # NullDomain => ~IsNull(d))
    BY DEF Intersect
  <2>4. ASSUME NEW i \in 1 .. n, ~CondIsNull(CondIntersect(d1[i], d2[i]))
        PROVE  Placed(hs, i, CondIntersect(d1[i], d2[i]))
    <3>. DEFINE a == d1[i]
                b == d2[i]
    <3>1. Placed(hs, i, a) /\ Placed(hs, i, b) /\ ~CondIsNull(CondIntersect(a, b))
      BY <2>1, <2>4
    <3>. HIDE DEF a, b
    <3>2. CondIntersect(a, b) = <<and_op(a[1], b[1]), and_op(a[2], b[2])>>
      BY <3>1, NullIsNull DEF CondIntersect
    <3>3. and_op(a[1], b[1]) # D_NIL /\ and_op(a[2], b[2]) # D_NIL
      BY <3>1, <3>2 DEF CondIsNull
    <3>4. and_op(a[1], b[1]) \in {a[1], b[1]} /\ and_op(a[2], b[2]) \in {a[2], b[2]}
      BY <3>3 DEF and_op
    <3>. QED BY <3>1, <3>2, <3>4 DEF Placed, a, b
  <2>5. DOMAIN d1 = 1 .. n
    BY <2>1 DEF DomainsOfSize
  <2>6. \A i \in 1 .. n : d[i] = CondIntersect(d1[i], d2[i])
    BY <2>5
  <2>7. DOMAIN d = 1 .. n
    BY <2>5
  <2>. HIDE DEF d
  <2>8. ~IsNull(d) => \A i \in 1 .. n : Placed(hs, i, d[i])
    BY <2>4, <2>6, <2>7 DEF IsNull
  <2>. QED BY <2>2, <2>3, <2>8 DEF Proper
<1>. QED BY <1>1 DEF Closed, Proper

\* A name that is found has an index of the table.
LEMMA FoundIndex ==
  ASSUME NEW n \in Nat, NEW hs, TablesOK(hs, n), NEW a \in ArgSet(n), NEW name,
         FindArg(hs[a.i], name, a.arg) # D_NIL
  PROVE  Ranges(Table(hs[a.i], a.arg), FindArg(hs[a.i], name, a.arg))
<1>. DEFINE t == Table(hs[a.i], a.arg)
<1>1. t \in Seq(ToSet(NameOrder)) /\ IsInjective(t)
  BY DEF TablesOK, ArgSet
<1>2. FindArg(hs[a.i], name, a.arg) \in (0 .. Len(t) - 1) \cup {D_NIL}
  BY <1>1, FindArgFacts
<1>. QED BY <1>2 DEF Ranges

\* The domains of a name that is given have such indices.
LEMMA StringProper ==
  ASSUME NEW n \in Nat \ {0}, NEW hs, TablesOK(hs, n), NEW args \in Seq(ArgSet(n)), args # <<>>,
         NEW str
  PROVE  StringDomains(hs, args, str) \in Seq(Proper(hs, n))
<1>. DEFINE index(k) == FindArg(hs[args[k].i], str, args[k].arg)
            mentions(i) == {k \in DOMAIN args : args[k].i = i}
            latest(i) == CHOOSE k \in mentions(i) : \A j \in mentions(i) : j <= k
            d == [i \in 1 .. Len(hs) |-> IF mentions(i) = {} THEN AnyPair
                                         ELSE Single(index(latest(i)), args[latest(i)].arg)]
            ds == StringDomains(hs, args, str)
<1>1. ds \in Seq(Clean(n))
  BY StringMeans
<1>2. ds = IF \E k \in DOMAIN args : index(k) = D_NIL THEN <<>> ELSE <<d>>
  BY DEF StringDomains
<1>3. /\ DOMAIN args = 1 .. Len(args) /\ Len(args) \in Nat /\ Len(hs) = n
      /\ \A k \in DOMAIN args : args[k] \in ArgSet(n)
  BY DEF TablesOK
<1>4. ASSUME \A k \in DOMAIN args : index(k) # D_NIL, NEW i \in 1 .. n
      PROVE  Placed(hs, i, d[i])
  <2>1. CASE mentions(i) = {}
    <3>1. d[i] = AnyPair
      BY <1>3, <2>1
    <3>. HIDE DEF d
    <3>. QED BY <3>1 DEF Placed, Ranges, AnyPair
  <2>2. CASE mentions(i) # {}
    <3>. DEFINE T == mentions(i)
    <3>1. T \in SUBSET (1 .. Len(args)) /\ T # {}
      BY <1>3, <2>2
    <3>. HIDE DEF T
    <3>2. \E m \in T : \A j \in T : j <= m
      BY <1>3, <3>1, GreatestIndex
    <3>3. latest(i) \in T
      <4>. DEFINE l == CHOOSE k \in T : \A j \in T : j <= k
      <4>1. l \in T
        BY <3>2
      <4>. QED BY <4>1 DEF T
    <3>. DEFINE k == latest(i)
    <3>4. k \in DOMAIN args /\ args[k].i = i
      BY <3>3 DEF T
    <3>5. d[i] = Single(index(k), args[k].arg)
      BY <1>3, <2>2
    <3>. HIDE DEF k
    <3>6. args[k] \in ArgSet(n) /\ args[k].arg \in {"s", "t"}
      BY <1>3, <3>4 DEF ArgSet
    <3>7. Ranges(Table(hs[i], args[k].arg), index(k))
      <4>. DEFINE a == args[k]
      <4>1. a \in ArgSet(n) /\ FindArg(hs[a.i], str, a.arg) # D_NIL /\ a.i = i
        BY <1>4, <3>4, <3>6
      <4>. HIDE DEF a
      <4>2. Ranges(Table(hs[a.i], a.arg), FindArg(hs[a.i], str, a.arg))
        BY <4>1, FoundIndex
      <4>. QED BY <4>1, <4>2 DEF a
    <3>. DEFINE j == index(k)
                u == d[i]
                arg == args[k].arg
    <3>8. u = Single(j, arg) /\ arg \in {"s", "t"} /\ Ranges(Table(hs[i], arg), j)
      BY <3>5, <3>6, <3>7
    <3>. HIDE DEF j, u, arg
    <3>9. Placed(hs, i, u)
      BY <3>8 DEF Placed, Ranges, Single, Table
    <3>. HIDE DEF d
    <3>. QED BY <3>9 DEF u
  <2>. QED BY <2>1, <2>2
<1>. HIDE DEF index, d
<1>5. ToSet(ds) \subseteq Proper(hs, n)
  <2>1. \A z \in ToSet(ds) : z = d /\ \A k \in DOMAIN args : index(k) # D_NIL
    BY <1>2 DEF ToSet
  <2>2. \A z \in ToSet(ds) : z \in Clean(n)
    BY <1>1 DEF ToSet
  <2>. QED BY <1>4, <2>1, <2>2 DEF Proper
<1>. HIDE DEF ds
<1>6. ds \in Seq(Proper(hs, n))
  BY <1>1, <1>5, SeqOfMembers
<1>. QED BY <1>6 DEF ds

\* So have the domains of names that are equal.
LEMMA EqualProper ==
  ASSUME NEW n \in Nat \ {0}, NEW hs, TablesOK(hs, n), NEW args \in Seq(ArgSet(n)), args # <<>>
  PROVE  EqualDomains(hs, args) \in Seq(Proper(hs, n))
<1>. DEFINE known == {x \in ToSet(NameOrder) :
                        \A a \in ToSet(args) : FindArg(hs[a.i], x, a.arg) # D_NIL}
            names == Keep(NameOrder, known)
            index(x, i, arg) == IF [i |-> i, arg |-> arg] \in ToSet(args) THEN FindArg(hs[i], x, arg)
                                ELSE D_ANY
            dom(x) == [i \in 1 .. Len(hs) |-> <<index(x, i, "s"), index(x, i, "t")>>]
            ds == EqualDomains(hs, args)
<1>1. ds \in Seq(Clean(n))
  BY EqualMeans, OrderFacts
<1>2. ds = [k \in DOMAIN names |-> dom(names[k])] /\ Len(hs) = n
  BY DEF EqualDomains, TablesOK
<1>3. ToSet(names) \subseteq known
  <2>. HIDE DEF known
  <2>1. ToSet(names) = ToSet(NameOrder) \cap known
    BY KeepSet, OrderFacts
  <2>. QED BY <2>1
<1>4. ASSUME NEW x \in known, NEW i \in 1 .. n, NEW arg \in {"s", "t"}
      PROVE  Ranges(Table(hs[i], arg), index(x, i, arg))
  <2>1. CASE [i |-> i, arg |-> arg] \in ToSet(args)
    <3>. DEFINE a == [i |-> i, arg |-> arg]
    <3>1. a \in ArgSet(n) /\ a.i = i /\ a.arg = arg /\ a \in ToSet(args)
      BY <2>1 DEF ArgSet
    <3>. HIDE DEF a
    <3>2. FindArg(hs[a.i], x, a.arg) # D_NIL
      BY <3>1
    <3>3. Ranges(Table(hs[a.i], a.arg), FindArg(hs[a.i], x, a.arg))
      BY <3>1, <3>2, FoundIndex
    <3>. QED BY <2>1, <3>1, <3>3
  <2>2. CASE [i |-> i, arg |-> arg] \notin ToSet(args)
    BY <2>2 DEF Ranges
  <2>. QED BY <2>1, <2>2
<1>. HIDE DEF known, index
<1>5. ASSUME NEW x \in known, NEW i \in 1 .. n
      PROVE  Placed(hs, i, dom(x)[i])
  <2>1. Ranges(Table(hs[i], "s"), index(x, i, "s")) /\ Ranges(Table(hs[i], "t"), index(x, i, "t"))
    BY <1>4
  <2>2. dom(x)[i] = <<index(x, i, "s"), index(x, i, "t")>>
    BY <1>2
  <2>. HIDE DEF dom
  <2>. QED BY <2>1, <2>2 DEF Placed, Table
<1>6. ToSet(ds) \subseteq Proper(hs, n)
  <2>1. \A z \in ToSet(ds) : z \in Clean(n)
    BY <1>1 DEF ToSet
  <2>. HIDE DEF dom
  <2>2. \A z \in ToSet(ds) : \E x \in known : z = dom(x)
    <3>1. \A k \in DOMAIN names : names[k] \in known
      BY <1>3 DEF ToSet
    <3>. HIDE DEF names
    <3>. QED BY <1>2, <3>1 DEF ToSet
  <2>. QED BY <1>5, <2>1, <2>2 DEF Proper
<1>. HIDE DEF ds
<1>7. ds \in Seq(Proper(hs, n))
  BY <1>1, <1>6, SeqOfMembers
<1>. QED BY <1>7 DEF ds

\* The domains of a WHERE clause have indices of names only.
LEMMA DomainsProper ==
  ASSUME NEW x, HitsOK(x.hit), NEW r \in RuleSet, P(r).where # <<>>
  PROVE  DomainsOf(x, r) \in Seq(Proper(HitsOf(x, r), N(r)))
<1>. DEFINE hs == HitsOf(x, r)
            n == N(r)
            e == P(r).where
<1>1. TablesOK(hs, n) /\ n \in Nat \ {0} /\ IsWhere(e, n) /\ e # <<>>
  BY HitsTables, RuleFacts
<1>. HIDE DEF hs, n, e
<1>2. ASSUME NEW p \in Primaries(e), NEW below
      PROVE  DomainCond(hs, p, below) \in Seq(Proper(hs, n))
  <2>1. /\ p.type \in {"COND", "STRING"} /\ p.args \in Seq(ToSet(p.args)) /\ p.args # <<>>
        /\ ToSet(p.args) \subseteq ArgSet(n)
    BY <1>1 DEF IsWhere, IsList, ArgSet
  <2>2. p.args \in Seq(ArgSet(n))
    <3>. DEFINE s == p.args
    <3>. HIDE DEF s
    <3>1. s \in Seq(ToSet(s)) /\ ToSet(s) \subseteq ArgSet(n)
      BY <2>1 DEF s
    <3>. QED BY <3>1, SeqOfMembers DEF s
  <2>3. DomainCond(hs, p, below) = IF p.type = "STRING" THEN StringDomains(hs, p.args, p.str)
                                   ELSE EqualDomains(hs, p.args)
    BY <2>1 DEF DomainCond
  <2>. QED BY <1>1, <2>1, <2>2, <2>3, StringProper, EqualProper
<1>3. IsExpr(e)
  BY <1>1 DEF IsWhere
<1>. DEFINE C == Proper(hs, n)
<1>4. Closed(C, n) /\ \A p \in Primaries(e) : \A below : DomainCond(hs, p, below) \in Seq(C)
  BY <1>1, <1>2, ProperClosed
<1>. HIDE DEF C
<1>5. DomainExpr(hs, e) \in Seq(C)
  BY <1>1, <1>3, <1>4, DomainExprIn
<1>. QED BY <1>5 DEF C, DomainsOf, hs, n, e

-----------------------------------------------------------------------------
(* What the parts of an alarm's key can be.                                *)

\* An index of a name, any index or none.
Meant(table, j) == Ranges(table, j) \/ j = D_NIL
\* Every part of a key means something.
KeyFits(x, r, key) ==
  \A i \in 1 .. N(r) : /\ Meant(HitsOf(x, r)[i].srcs, key[i][1])
                       /\ Meant(HitsOf(x, r)[i].tgts, key[i][2])

\* A value of a part is an index of the table.
LEMMA RangePlaced ==
  ASSUME NEW X, NEW table \in Seq(X), NEW j \in Index, Ranges(table, j),
         NEW k \in ToSet(Indices(table, j))
  PROVE  Ranges(table, k)
<1>1. ToSet(Indices(table, j)) = IF j = D_ANY THEN 0 .. Len(table) - 1 ELSE {j}
  BY IndicesFacts
<1>. QED BY <1>1 DEF Ranges

\* The values of a rule's own conditions are in place.
LEMMA ValuePlaced ==
  ASSUME NEW x, HitsOK(x.hit), NEW r \in RuleSet, NEW d \in Proper(HitsOf(x, r), N(r)),
         NEW v \in Products(x, r, d, N(r)), NEW i \in Primitive[r], i \in 1 .. N(r)
  PROVE  Placed(HitsOf(x, r), i, v[i])
<1>. DEFINE hs == HitsOf(x, r)
            h == hs[i]
            Names == ToSet(NameOrder)
            u == v[i]
            c == d[i]
<1>1. u \in ToSet(CondRange(h, c))
  BY DEF Products, PairsOf
<1>2. h.srcs \in Seq(Names) /\ h.tgts \in Seq(Names)
  BY HitsTables DEF TablesOK, Table
<1>3. c \in CondDomain /\ Placed(hs, i, c)
  BY DEF Proper, Clean, DomainsOfSize
<1>. HIDE DEF Names, u, c
<1>4. Ranges(h.srcs, c[1]) /\ Ranges(h.tgts, c[2]) /\ c[1] \in Index /\ c[2] \in Index
  BY <1>3 DEF Placed, CondDomain
<1>. HIDE DEF hs
<1>5. u \in ToSet(Indices(h.srcs, c[1])) \X ToSet(Indices(h.tgts, c[2]))
  BY <1>1, <1>2, <1>3, CondRangeFacts
<1>6. u[1] \in ToSet(Indices(h.srcs, c[1])) /\ u[2] \in ToSet(Indices(h.tgts, c[2]))
  BY <1>5
<1>7. Ranges(h.srcs, u[1])
  BY <1>2, <1>4, <1>6, RangePlaced
<1>8. Ranges(h.tgts, u[2])
  BY <1>2, <1>4, <1>6, RangePlaced
<1>9. Placed(hs, i, u)
  BY <1>7, <1>8 DEF Placed
<1>. QED BY <1>9 DEF hs, u

\* What a rule tries, while its domains have indices of names.
ProperDomains(x, r) == \A d \in ToSet(x.rule[r].domains) : d \in Proper(HitsOf(x, r), N(r))

\* What evaluate() looks at is a value of one of the rule's domains.
LEMMA TrialIs ==
  ASSUME NEW x, EngineOK(x), NEW r \in RuleSet, NEW t \in ToSet(Tries(x, r))
  PROVE  t \in Trials(r) /\ t.d \in ToSet(x.rule[r].domains) /\ t.v \in Products(x, r, t.d, N(r))
<1>1. RuleOK(r, x.rule[r])
  BY DEF EngineOK, RulesOK
<1>2. x.rule[r].domains \in Seq(Tuples(r))
  BY <1>1 DEF RuleOK, Tuples, N
<1>3. /\ Tries(x, r) \in Seq(Trials(r))
      /\ \E d \in ToSet(x.rule[r].domains) : \E v \in Products(x, r, d, N(r)) : t = Trial(d, v)
  BY <1>2, TriesFacts DEF EngineOK
<1>4. t \in Trials(r)
  BY <1>3 DEF ToSet
<1>. QED BY <1>3, <1>4, TrialFacts

\* What a primary puts into an alarm has indices of the condition's tables.
LEMMA PartPlaced ==
  ASSUME NEW x, EngineOK(x), NEW r \in RuleSet, ProperDomains(x, r), NEW t \in ToSet(Tries(x, r)),
         NEW p \in Primaries(P(r).expr), p.type # "IS_SYNCD"
  PROVE  p.i \in 1 .. N(r) /\ Placed(HitsOf(x, r), p.i, Located(p, CtxOf(x, r, t), NullPair))
<1>. DEFINE e == P(r).expr
            ctx == CtxOf(x, r, t)
            hs == HitsOf(x, r)
<1>1. t \in Trials(r) /\ t.d \in Proper(hs, N(r)) /\ t.v \in Products(x, r, t.d, N(r))
  BY TrialIs DEF ProperDomains
<1>2. ctx.domain = t.d /\ ctx.value = t.v
  BY DEF CtxOf
<1>3. IsBoolean(e, N(r))
  BY RuleFacts
<1>4. p.i \in 1 .. N(r) /\ p.type \in {"COND", "COUNT", "COUNT_PERCENT"}
  BY <1>3 DEF IsBoolean
<1>. HIDE DEF ctx, hs
<1>5. CASE p.type = "COND"
  <2>1. Located(p, ctx, NullPair) = t.v[p.i]
    BY <1>2, <1>5, NullIsNull DEF Located
  <2>2. p.i \in Primitive[r]
    BY <1>5 DEF Primitive
  <2>3. Placed(hs, p.i, t.v[p.i])
    BY <1>1, <1>4, <2>2, ValuePlaced DEF EngineOK, hs
  <2>. QED BY <1>4, <2>1, <2>3 DEF ctx, hs
<1>6. CASE p.type \in {"COUNT", "COUNT_PERCENT"}
  <2>1. Located(p, ctx, NullPair) = t.d[p.i]
    BY <1>2, <1>6 DEF Located
  <2>2. Placed(hs, p.i, t.d[p.i])
    BY <1>1, <1>4 DEF Proper
  <2>. QED BY <1>4, <2>1, <2>2 DEF ctx, hs
<1>. QED BY <1>4, <1>5, <1>6

\* Whatever alarm is found, its indices are those of names, or any, or none.
LEMMA FreshFits ==
  ASSUME NEW x, EngineOK(x), NEW r \in RuleSet, ProperDomains(x, r), NEW key, Fresh(x, r, key)
  PROVE  KeyFits(x, r, key)
<1>. DEFINE e == P(r).expr
            hs == HitsOf(x, r)
<1>1. PICK t \in ToSet(Tries(x, r)), q \in GoodRounds : key = Attempt(x, r, t, q).key
  BY DEF Fresh
<1>. DEFINE ctx == CtxOf(x, r, t)
<1>2. t \in Trials(r)
  BY TrialIs
<1>3. \A j \in 1 .. N(r) : key[j] \in Parts(e, ctx, j) \cup {NullPair}
  BY <1>1, <1>2, AttemptFacts
<1>4. ctx.hs = hs
  BY DEF CtxOf
<1>5. TablesOK(hs, N(r)) /\ IsBoolean(e, N(r))
  BY HitsTables, RuleFacts DEF EngineOK
<1>. HIDE DEF ctx, hs
<1>6. ASSUME NEW j \in 1 .. N(r), NEW p \in Primaries(e), p.i = j
      PROVE  LET u == Located(p, ctx, NullPair)
             IN  Meant(hs[j].srcs, u[1]) /\ Meant(hs[j].tgts, u[2])
  <2>. DEFINE u == Located(p, ctx, NullPair)
  <2>1. CASE p.type # "IS_SYNCD"
    <3>1. Placed(hs, j, u)
      BY <1>6, <2>1, PartPlaced DEF ctx, hs
    <3>. HIDE DEF u
    <3>2. Meant(hs[j].srcs, u[1]) /\ Meant(hs[j].tgts, u[2])
      BY <3>1 DEF Placed, Meant
    <3>. QED BY <3>2 DEF u
  <2>2. CASE p.type = "IS_SYNCD"
    <3>. DEFINE l == ctx.last[j]
                s == FindArg(hs[j], l.src, "s")
                g == FindArg(hs[j], l.tgt, "t")
    <3>1. u = <<s, g>>
      BY <1>4, <1>6, <2>2 DEF Located
    <3>2. Table(hs[j], "s") \in Seq(ToSet(NameOrder)) /\ IsInjective(Table(hs[j], "s"))
          /\ Table(hs[j], "t") \in Seq(ToSet(NameOrder)) /\ IsInjective(Table(hs[j], "t"))
      BY <1>5 DEF TablesOK
    <3>3. s \in (0 .. Len(Table(hs[j], "s")) - 1) \cup {D_NIL}
      BY <3>2, FindArgFacts
    <3>4. g \in (0 .. Len(Table(hs[j], "t")) - 1) \cup {D_NIL}
      BY <3>2, FindArgFacts
    <3>. HIDE DEF s, g, l, u
    <3>5. Meant(hs[j].srcs, s) /\ Meant(hs[j].tgts, g)
      BY <3>3, <3>4 DEF Meant, Ranges, Table
    <3>. QED BY <3>1, <3>5 DEF u
  <2>. QED BY <2>1, <2>2
<1>7. ASSUME NEW j \in 1 .. N(r)
      PROVE  Meant(hs[j].srcs, key[j][1]) /\ Meant(hs[j].tgts, key[j][2])
  <2>1. CASE key[j] = NullPair
    BY <2>1 DEF NullPair, Meant
  <2>2. CASE key[j] \in Parts(e, ctx, j)
    <3>1. PICK p \in Primaries(e) : p.i = j /\ key[j] = Located(p, ctx, NullPair)
      BY <2>2 DEF Parts
    <3>. QED BY <1>6, <3>1
  <2>. QED BY <1>3, <2>1, <2>2
<1>. QED BY <1>7 DEF KeyFits, hs

-----------------------------------------------------------------------------
(* What an alarm was raised for.                                           *)

\* A condition of which no names are known.
Bare(h) == h.srcs = <<>> /\ h.tgts = <<>>
DomainsFit(x, r) ==
  ProperDomains(x, r) \/ (r \in Resetting /\ N(r) = 1 /\ P(r).where # <<>> /\ Bare(x.hit[P(r).conds[1]]))
AlarmsFit(x, r) ==
  \A a \in x.rule[r].alarms : NamesOf(x, r, a.key) = a.names /\ KeyFits(x, r, a.key)
Fit(x, r) == DomainsFit(x, r) /\ AlarmsFit(x, r)

\* The conditions of rule r are as they were.
SameHits(y, x, r) == \A c \in ToSet(P(r).conds) : y.hit[c] = x.hit[c]

\* Whether domains and keys fit depends on the hitmaps of the rule's conditions.
LEMMA SameHitsFit ==
  ASSUME NEW x, NEW y, NEW r \in RuleSet, SameHits(y, x, r), y.rule[r].domains = x.rule[r].domains,
         DomainsFit(x, r)
  PROVE  /\ HitsOf(y, r) = HitsOf(x, r) /\ DomainsFit(y, r)
         /\ \A key : NamesOf(y, r, key) = NamesOf(x, r, key) /\ (KeyFits(x, r, key) => KeyFits(y, r, key))
<1>1. \A i \in DOMAIN P(r).conds : P(r).conds[i] \in ToSet(P(r).conds)
  BY DEF ToSet
<1>2. HitsOf(y, r) = HitsOf(x, r)
  BY <1>1 DEF HitsOf, SameHits
<1>3. 1 \in DOMAIN P(r).conds
  BY RuleFacts
<1>4. y.hit[P(r).conds[1]] = x.hit[P(r).conds[1]]
  BY <1>1, <1>3 DEF SameHits
<1>. QED BY <1>2, <1>4 DEF DomainsFit, ProperDomains, NamesOf, KeyFits

\* So does whether the rule's alarms fit.
LEMMA SameFit ==
  ASSUME NEW x, NEW y, NEW r \in RuleSet, SameHits(y, x, r), y.rule[r].domains = x.rule[r].domains,
         y.rule[r].alarms = x.rule[r].alarms, Fit(x, r)
  PROVE  Fit(y, r)
<1>1. DomainsFit(x, r) /\ AlarmsFit(x, r)
  BY DEF Fit
<1>2. DomainsFit(y, r) /\ \A key : NamesOf(y, r, key) = NamesOf(x, r, key)
                                   /\ (KeyFits(x, r, key) => KeyFits(y, r, key))
  BY <1>1, SameHitsFit
<1>. QED BY <1>1, <1>2 DEF Fit, AlarmsFit

\* A rule without a WHERE clause looks at whatever there is.
LEMMA AnyProper ==
  ASSUME NEW x, NEW r \in RuleSet, x.rule[r].domains = <<AnyDomain(N(r))>>
  PROVE  ProperDomains(x, r)
<1>1. \A d \in ToSet(x.rule[r].domains) : d = AnyDomain(N(r))
  BY DEF ToSet
<1>2. AnyDomain(N(r)) \in Clean(N(r))
  BY AnyClean, RuleFacts
<1>3. \A i \in 1 .. N(r) : AnyDomain(N(r))[i] = AnyPair
  BY DEF AnyDomain
<1>4. \A i \in 1 .. N(r) : Placed(HitsOf(x, r), i, AnyPair)
  BY DEF Placed, Ranges, AnyPair
<1>. QED BY <1>1, <1>2, <1>3, <1>4 DEF ProperDomains, Proper

\* A rule that is reset takes nothing from the others.
LEMMA ClearedFit ==
  ASSUME ResetsApart, NEW x, NEW y, NEW r \in Resetting, r \in RuleSet, Others(y, x, r),
         Cleared(y, x, r),
         DomainsOK(x, r), \A q \in RuleSet : Fit(x, q)
  PROVE  /\ \A q \in RuleSet : Fit(y, q)
         /\ \A q \in RuleSet \ {r} : SameHits(y, x, q)
<1>1. ASSUME NEW q \in RuleSet \ {r}
      PROVE  Fit(y, q) /\ SameHits(y, x, q)
  <2>1. ToSet(P(q).conds) \cap ToSet(P(r).conds) = {}
    BY DEF ResetsApart
  <2>2. ToSet(P(q).conds) \subseteq CondSet
    BY RuleFacts DEF ToSet
  <2>3. SameHits(y, x, q)
    BY <2>1, <2>2 DEF SameHits, Cleared
  <2>4. y.rule[q] = x.rule[q]
    BY DEF Others
  <2>. QED BY <2>3, <2>4, SameFit
<1>2. Fit(y, r)
  <2>1. AlarmsFit(y, r)
    BY DEF Cleared, AlarmsFit
  <2>2. y.rule[r].domains = x.rule[r].domains
    BY DEF Others
  <2>3. CASE P(r).where = <<>>
    <3>1. y.rule[r].domains = <<AnyDomain(N(r))>>
      BY <2>2, <2>3 DEF DomainsOK
    <3>. QED BY <2>1, <3>1, AnyProper DEF Fit, DomainsFit
  <2>4. CASE P(r).where # <<>>
    <3>1. N(r) = 1
      BY <2>4 DEF ResetsApart, N
    <3>2. P(r).conds[1] \in ToSet(P(r).conds) /\ P(r).conds[1] \in CondSet
      BY <3>1, RuleFacts DEF ToSet
    <3>3. y.hit[P(r).conds[1]] = GroundHit
      BY <3>2 DEF Cleared
    <3>4. Bare(GroundHit)
      BY DEF Bare, GroundHit
    <3>. QED BY <2>1, <2>4, <3>1, <3>3, <3>4 DEF Fit, DomainsFit
  <2>. QED BY <2>3, <2>4
<1>. QED BY <1>1, <1>2

-----------------------------------------------------------------------------
(* New names leave the others their indices.                               *)

\* The name of an index; other than indices have no name.
NameIn(table, j) ==
  IF j = D_ANY THEN "any" ELSE IF j + 1 \in DOMAIN table THEN table[j + 1] ELSE "none"

\* The names of a key, part by part.
LEMMA NamesAre ==
  ASSUME NEW x, NEW r \in RuleSet, NEW key \in Tuples(r)
  PROVE  NamesOf(x, r, key) = [i \in 1 .. N(r) |-> <<NameIn(HitsOf(x, r)[i].srcs, key[i][1]),
                                                    NameIn(HitsOf(x, r)[i].tgts, key[i][2])>>]
<1>1. DOMAIN key = 1 .. N(r)
  BY DEF Tuples
<1>. QED BY <1>1 DEF NamesOf, NameIn

\* An index of a table keeps its name in a longer table.
LEMMA NameKept ==
  ASSUME NEW X, NEW t \in Seq(X), NEW u \in Seq(X), StartsWith(u, t), NEW j \in Index
  PROVE  /\ Ranges(t, j) => Ranges(u, j)
         /\ Meant(t, j) => Meant(u, j) /\ NameIn(u, j) = NameIn(t, j)
<1>1. /\ Len(t) \in Nat /\ Len(u) \in Nat /\ Len(t) <= Len(u)
      /\ DOMAIN t = 1 .. Len(t) /\ DOMAIN u = 1 .. Len(u)
      /\ \A i \in 1 .. Len(t) : u[i] = t[i]
  BY DEF StartsWith
<1>2. Ranges(t, j) => Ranges(u, j)
  BY <1>1 DEF Ranges
<1>3. CASE j = D_ANY
  BY <1>3 DEF NameIn, Meant, Ranges
<1>4. CASE j = D_NIL
  <2>1. j + 1 \notin DOMAIN t /\ j + 1 \notin DOMAIN u /\ j # D_ANY
    BY <1>1, <1>4 DEF D_NIL, D_ANY
  <2>. QED BY <1>2, <1>4, <2>1 DEF NameIn, Meant
<1>5. CASE j \in 0 .. Len(t) - 1
  <2>1. j + 1 \in 1 .. Len(t) /\ j + 1 \in 1 .. Len(u) /\ j \in 0 .. Len(u) - 1
    BY <1>1, <1>5
  <2>. QED BY <1>1, <2>1 DEF NameIn, Meant, Ranges
<1>6. Meant(t, j) => j = D_ANY \/ j = D_NIL \/ j \in 0 .. Len(t) - 1
  BY DEF Meant, Ranges
<1>. QED BY <1>2, <1>3, <1>4, <1>5, <1>6

\* The conditions of rule r may have got to know names.
Grown(y, x, r) ==
  \A i \in 1 .. N(r) : /\ StartsWith(HitsOf(y, r)[i].srcs, HitsOf(x, r)[i].srcs)
                       /\ StartsWith(HitsOf(y, r)[i].tgts, HitsOf(x, r)[i].tgts)

\* A key keeps its names in tables that have grown.
LEMMA GrownNames ==
  ASSUME NEW x, HitsOK(x.hit), NEW y, HitsOK(y.hit), NEW r \in RuleSet, Grown(y, x, r),
         NEW key \in Tuples(r), KeyFits(x, r, key)
  PROVE  KeyFits(y, r, key) /\ NamesOf(y, r, key) = NamesOf(x, r, key)
<1>. DEFINE T == ToSet(NameOrder)
            hs == HitsOf(x, r)
            gs == HitsOf(y, r)
<1>1. TablesOK(hs, N(r)) /\ TablesOK(gs, N(r))
  BY HitsTables
<1>2. ASSUME NEW i \in 1 .. N(r)
      PROVE  /\ Meant(gs[i].srcs, key[i][1]) /\ NameIn(gs[i].srcs, key[i][1]) = NameIn(hs[i].srcs, key[i][1])
             /\ Meant(gs[i].tgts, key[i][2]) /\ NameIn(gs[i].tgts, key[i][2]) = NameIn(hs[i].tgts, key[i][2])
  <2>1. hs[i].srcs \in Seq(T) /\ hs[i].tgts \in Seq(T) /\ gs[i].srcs \in Seq(T) /\ gs[i].tgts \in Seq(T)
    BY <1>1 DEF TablesOK, Table
  <2>2. key[i][1] \in Index /\ key[i][2] \in Index
    BY DEF Tuples, CondDomain
  <2>3. /\ StartsWith(gs[i].srcs, hs[i].srcs) /\ StartsWith(gs[i].tgts, hs[i].tgts)
        /\ Meant(hs[i].srcs, key[i][1]) /\ Meant(hs[i].tgts, key[i][2])
    BY DEF Grown, KeyFits
  <2>. HIDE DEF T, hs, gs
  <2>4. Meant(gs[i].srcs, key[i][1]) /\ NameIn(gs[i].srcs, key[i][1]) = NameIn(hs[i].srcs, key[i][1])
    BY <2>1, <2>2, <2>3, NameKept
  <2>5. Meant(gs[i].tgts, key[i][2]) /\ NameIn(gs[i].tgts, key[i][2]) = NameIn(hs[i].tgts, key[i][2])
    BY <2>1, <2>2, <2>3, NameKept
  <2>. QED BY <2>4, <2>5
<1>3. KeyFits(y, r, key)
  BY <1>2 DEF KeyFits
<1>. HIDE DEF hs, gs
<1>4. /\ NamesOf(x, r, key) = [i \in 1 .. N(r) |-> <<NameIn(hs[i].srcs, key[i][1]),
                                                    NameIn(hs[i].tgts, key[i][2])>>]
      /\ NamesOf(y, r, key) = [i \in 1 .. N(r) |-> <<NameIn(gs[i].srcs, key[i][1]),
                                                    NameIn(gs[i].tgts, key[i][2])>>]
  BY NamesAre DEF hs, gs
<1>. QED BY <1>2, <1>3, <1>4

\* A domain keeps its place in tables that have grown.
LEMMA GrownProper ==
  ASSUME NEW x, HitsOK(x.hit), NEW y, HitsOK(y.hit), NEW r \in RuleSet, Grown(y, x, r),
         NEW d \in Proper(HitsOf(x, r), N(r))
  PROVE  d \in Proper(HitsOf(y, r), N(r))
<1>. DEFINE T == ToSet(NameOrder)
            hs == HitsOf(x, r)
            gs == HitsOf(y, r)
<1>1. TablesOK(hs, N(r)) /\ TablesOK(gs, N(r))
  BY HitsTables
<1>2. d \in Clean(N(r)) /\ \A i \in 1 .. N(r) : Placed(hs, i, d[i]) /\ d[i] \in CondDomain
  BY DEF Proper, Clean, DomainsOfSize
<1>3. ASSUME NEW i \in 1 .. N(r)
      PROVE  Placed(gs, i, d[i])
  <2>1. hs[i].srcs \in Seq(T) /\ hs[i].tgts \in Seq(T) /\ gs[i].srcs \in Seq(T) /\ gs[i].tgts \in Seq(T)
    BY <1>1 DEF TablesOK, Table
  <2>2. d[i][1] \in Index /\ d[i][2] \in Index /\ Ranges(hs[i].srcs, d[i][1]) /\ Ranges(hs[i].tgts, d[i][2])
    BY <1>2 DEF CondDomain, Placed
  <2>3. StartsWith(gs[i].srcs, hs[i].srcs) /\ StartsWith(gs[i].tgts, hs[i].tgts)
    BY DEF Grown
  <2>. HIDE DEF T, hs, gs
  <2>4. Ranges(gs[i].srcs, d[i][1])
    BY <2>1, <2>2, <2>3, NameKept
  <2>5. Ranges(gs[i].tgts, d[i][2])
    BY <2>1, <2>2, <2>3, NameKept
  <2>. QED BY <2>4, <2>5 DEF Placed
<1>. QED BY <1>2, <1>3 DEF Proper

\* Every table begins with itself.
LEMMA SelfStarts ==
  ASSUME NEW X, NEW t \in Seq(X)
  PROVE  StartsWith(t, t)
BY DEF StartsWith

\* A message leaves the names that are known where they are.
LEMMA CaughtGrown ==
  ASSUME NEW m \in Messages, EngineOK(State), NEW r \in RuleSet
  PROVE  Grown(Updated(Caught(m)), State, r)
<1>. DEFINE x == Caught(m)
            y == Updated(x)
<1>1. EngineOK(x)
  BY CaughtOK
<1>2. y.hit = x.hit
  BY <1>1, UpdatedOK
<1>. SUFFICES ASSUME NEW i \in 1 .. N(r)
              PROVE  /\ StartsWith(HitsOf(y, r)[i].srcs, HitsOf(State, r)[i].srcs)
                     /\ StartsWith(HitsOf(y, r)[i].tgts, HitsOf(State, r)[i].tgts)
  BY DEF Grown
<1>. DEFINE c == P(r).conds[i]
<1>3. c \in CondSet
  BY RuleFacts
<1>4. HitsOf(y, r)[i] = y.hit[c] /\ HitsOf(State, r)[i] = hit[c]
  <2>1. DOMAIN P(r).conds = 1 .. N(r)
    BY RuleFacts
  <2>. QED BY <2>1, StateFields DEF HitsOf
<1>5. hit[c].srcs \in Seq(ToSet(NameOrder)) /\ hit[c].tgts \in Seq(ToSet(NameOrder))
  <2>1. HitOK(c, hit[c])
    BY <1>3, StateFields DEF EngineOK, HitsOK
  <2>. QED BY <2>1, HitTables
<1>6. x.hit[c] = hit[c] \/ Extends(x.hit[c], hit[c])
  BY <1>3, CaughtTables DEF CaptureOf
<1>7. StartsWith(hit[c].srcs, hit[c].srcs) /\ StartsWith(hit[c].tgts, hit[c].tgts)
  BY <1>5, SelfStarts
<1>. QED BY <1>2, <1>4, <1>6, <1>7 DEF Extends

-----------------------------------------------------------------------------
(* What an alarm was raised for is what it means.                          *)

\* At first there are no alarms, and no domains but the wild cards.
LEMMA InitFit ==
  ASSUME Init, NEW r \in RuleSet
  PROVE  Fit(State, r)
<1>. DEFINE ds(s) == IF P(s).where = <<>> THEN <<AnyDomain(Len(P(s).conds))>> ELSE <<>>
<1>0. rule = [s \in RuleSet |-> [enabled |-> TRUE, alarms |-> {}, round |-> NoRound, domains |-> ds(s)]]
  BY DEF Init
<1>. HIDE DEF ds
<1>1. State.rule[r].domains = ds(r) /\ State.rule[r].alarms = {}
  BY <1>0, StateFields
<1>. USE DEF ds
<1>2. AlarmsFit(State, r)
  BY <1>1 DEF AlarmsFit
<1>3. CASE P(r).where = <<>>
  <2>1. ProperDomains(State, r)
    BY <1>1, <1>3, AnyProper DEF N
  <2>. QED BY <1>2, <2>1 DEF Fit, DomainsFit
<1>4. CASE P(r).where # <<>>
  <2>1. ToSet(State.rule[r].domains) = {}
    BY <1>1, <1>4 DEF ToSet
  <2>. QED BY <1>2, <2>1 DEF Fit, DomainsFit, ProperDomains
<1>. QED BY <1>3, <1>4

\* The first names of the only condition are told to the rule.
LEMMA BareTold ==
  ASSUME NEW m \in Messages, EngineOK(State), NEW r \in RuleSet, N(r) = 1, P(r).where # <<>>,
         Bare(hit[P(r).conds[1]]), ~DomainChanges(r, Caught(m).hit)
  PROVE  Bare(Caught(m).hit[P(r).conds[1]])
<1>. DEFINE c == P(r).conds[1]
            x == Caught(m)
<1>1. c \in CondSet /\ ToSet(P(r).conds) = {c} /\ EngineOK(x)
  BY RuleFacts, CaughtOK DEF ToSet
<1>2. PICK q \in Mentions[r] : TRUE
  BY MentionsSome
<1>3. q[1] = c /\ q[2] \in {"s", "t"} /\ q = <<q[1], q[2]>>
  BY <1>1, MentionsFacts DEF Mentions
<1>4. x.hit[c].srcs = hit[c].srcs \/ x.hit[c].tgts = hit[c].tgts
  BY <1>1, <1>3 DEF DomainChanges
<1>5. x.hit[c] = hit[c] \/ \E w : CaptureOf(x.hit[c], hit[c], w)
  BY <1>1, CaughtTables
<1>6. HitOK(c, x.hit[c])
  BY <1>1 DEF EngineOK, HitsOK
<1>. HIDE DEF c, x
<1>7. CASE \E w : CaptureOf(x.hit[c], hit[c], w)
  <2>1. PICK w : w \in DOMAIN x.hit[c].on
    BY <1>7 DEF CaptureOf
  <2>2. w \in Cells(x.hit[c].srcs, x.hit[c].tgts)
    BY <1>6, <2>1, HitTables
  <2>3. x.hit[c].srcs # <<>> /\ x.hit[c].tgts # <<>>
    BY <2>2 DEF Cells
  <2>. QED BY <1>4, <2>3 DEF Bare, c
<1>. QED BY <1>5, <1>7 DEF c, x

\* A message leaves alarms and domains that fit.
LEMMA UpdatedFit ==
  ASSUME NEW m \in Messages, EngineOK(State), NEW r \in RuleSet, DomainsOK(State, r), Fit(State, r)
  PROVE  Fit(Updated(Caught(m)), r)
<1>. DEFINE x == Caught(m)
            y == Updated(x)
            n == N(r)
<1>1. EngineOK(x) /\ x.rule = rule
  BY CaughtOK
<1>2. /\ EngineOK(y) /\ y.hit = x.hit /\ y.rule[r].alarms = State.rule[r].alarms
      /\ y.rule[r].domains = IF DomainChanges(r, x.hit) THEN DomainsOf(x, r) ELSE State.rule[r].domains
  BY <1>1, UpdatedOK, StateFields
<1>3. Grown(y, State, r) /\ HitsOK(State.hit) /\ HitsOK(y.hit)
  BY <1>2, CaughtGrown DEF EngineOK
<1>4. DomainsOK(y, r)
  BY UpdatedDomains
<1>5. n \in Nat \ {0}
  BY RuleFacts
<1>b. N(r) = 1 /\ P(r).where # <<>> /\ Bare(hit[P(r).conds[1]]) /\ ~DomainChanges(r, x.hit)
      => Bare(x.hit[P(r).conds[1]])
  BY BareTold
<1>. HIDE DEF x, y
<1>6. AlarmsFit(y, r)
  <2>1. \A a \in State.rule[r].alarms : a.key \in Tuples(r)
    <3>1. RuleOK(r, State.rule[r])
      BY DEF EngineOK, RulesOK
    <3>2. State.rule[r].alarms \subseteq AlarmSet(r)
      BY <3>1, RuleChanges
    <3>. QED BY <3>2 DEF AlarmSet
  <2>2. \A a \in State.rule[r].alarms : NamesOf(State, r, a.key) = a.names /\ KeyFits(State, r, a.key)
    BY DEF Fit, AlarmsFit
  <2>3. ASSUME NEW a \in State.rule[r].alarms
        PROVE  NamesOf(y, r, a.key) = a.names /\ KeyFits(y, r, a.key)
    <3>. DEFINE key == a.key
    <3>1. key \in Tuples(r) /\ KeyFits(State, r, key) /\ NamesOf(State, r, key) = a.names
      BY <2>1, <2>2
    <3>. HIDE DEF key
    <3>2. KeyFits(y, r, key) /\ NamesOf(y, r, key) = NamesOf(State, r, key)
      BY <1>3, <3>1, GrownNames
    <3>. QED BY <3>1, <3>2 DEF key
  <2>. QED BY <1>2, <2>3 DEF AlarmsFit
<1>7. CASE P(r).where = <<>>
  <2>1. ProperDomains(y, r)
    BY <1>4, <1>7, AnyProper DEF DomainsOK
  <2>. QED BY <1>6, <2>1 DEF Fit, DomainsFit, x, y
<1>8. CASE P(r).where # <<>> /\ DomainChanges(r, x.hit)
  <2>1. y.rule[r].domains = DomainsOf(y, r)
    BY <1>2, <1>8 DEF DomainsOf, HitsOf
  <2>2. DomainsOf(y, r) \in Seq(Proper(HitsOf(y, r), N(r)))
    BY <1>3, <1>8, DomainsProper
  <2>3. ProperDomains(y, r)
    BY <2>1, <2>2 DEF ProperDomains, ToSet
  <2>. QED BY <1>6, <2>3 DEF Fit, DomainsFit, x, y
<1>9. CASE P(r).where # <<>> /\ ~DomainChanges(r, x.hit)
  <2>1. y.rule[r].domains = State.rule[r].domains
    BY <1>2, <1>9
  <2>2. CASE ProperDomains(State, r)
    <3>1. ProperDomains(y, r)
      BY <1>3, <2>1, <2>2, GrownProper DEF ProperDomains
    <3>. QED BY <1>6, <3>1 DEF Fit, DomainsFit, x, y
  <2>3. CASE ~ProperDomains(State, r)
    <3>1. r \in Resetting /\ N(r) = 1 /\ Bare(hit[P(r).conds[1]])
      BY <2>3, StateFields DEF Fit, DomainsFit
    <3>2. Bare(y.hit[P(r).conds[1]])
      BY <1>2, <1>9, <1>b, <3>1
    <3>. QED BY <1>6, <1>9, <3>1, <3>2 DEF Fit, DomainsFit, x, y
  <2>. QED BY <2>2, <2>3
<1>. QED BY <1>7, <1>8, <1>9

-----------------------------------------------------------------------------
\* A rule with a cell that turned on has domains of names that are known.
LEMMA ToldProper ==
  ASSUME NEW x, EngineOK(x), NEW y, NEW r \in RuleSet, SameHits(y, x, r), Told(x, r),
         DomainsFit(y, r)
  PROVE  ProperDomains(y, r)
<1>. SUFFICES ASSUME N(r) = 1, Bare(y.hit[P(r).conds[1]])
              PROVE  FALSE
  BY DEF DomainsFit
<1>. DEFINE c == P(r).conds[1]
<1>1. c \in CondSet /\ ToSet(P(r).conds) = {c}
  BY RuleFacts DEF ToSet
<1>2. PICK v : v \in DOMAIN x.hit[c].on
  BY <1>1 DEF Told, Flipped
<1>3. HitOK(c, x.hit[c])
  BY <1>1 DEF EngineOK, HitsOK
<1>4. v \in Cells(x.hit[c].srcs, x.hit[c].tgts)
  BY <1>2, <1>3, HitTables
<1>5. x.hit[c].srcs = <<>>
  BY <1>1 DEF SameHits, Bare
<1>. QED BY <1>4, <1>5 DEF Cells

\* The evaluation of a rule leaves alarms and domains that fit, of other rules too: the
\* conditions it may reset are its own.
LEMMA EvaluateFit ==
  ASSUME ResetsApart, NEW y, EngineOK(y), NEW r \in RuleSet, DomainsOK(y, r), ProperDomains(y, r),
         \A q \in RuleSet : Fit(y, q)
  PROVE  /\ \A q \in RuleSet : Fit(EvaluateRule(y, r), q)
         /\ \A q \in RuleSet \ {r} : SameHits(EvaluateRule(y, r), y, q)
<1>. DEFINE z == EvaluateRule(y, r)
<1>1. /\ Others(z, y, r)
      /\ \/ Quiet(z, y, r)
         \/ \E key \in Tuples(r) : Fresh(y, r, key)
              /\ \/ Thrown(z, y, r, key) \/ Alarmed(z, y, r, key)
                 \/ Cleared(z, y, r) /\ EHS /\ P(r).act
  BY EvaluateRuleFacts
<1>. HIDE DEF z
<1>2. CASE Cleared(z, y, r) /\ EHS /\ P(r).act
  <2>1. r \in Resetting
    BY <1>2 DEF Resetting
  <2>. QED BY <1>1, <1>2, <2>1, ClearedFit DEF z
<1>3. ASSUME z.hit = y.hit, NEW q \in RuleSet
      PROVE  SameHits(z, y, q) /\ z.rule[q].domains = y.rule[q].domains
  BY <1>1, <1>3 DEF SameHits, Others
<1>4. CASE z.hit = y.hit /\ z.rule[r].alarms = y.rule[r].alarms
  <2>1. \A q \in RuleSet : z.rule[q].alarms = y.rule[q].alarms
    BY <1>1, <1>4 DEF Others
  <2>2. \A q \in RuleSet : SameHits(z, y, q) /\ z.rule[q].domains = y.rule[q].domains
    BY <1>3, <1>4
  <2>. QED BY <2>1, <2>2, SameFit DEF z
<1>5. ASSUME NEW key \in Tuples(r), Fresh(y, r, key), Alarmed(z, y, r, key)
      PROVE  \A q \in RuleSet : Fit(z, q) /\ SameHits(z, y, q)
  <2>. DEFINE a == AlarmOf(y, r, key)
  <2>1. a.key = key /\ a.names = NamesOf(y, r, key)
    BY DEF AlarmOf
  <2>. HIDE DEF a
  <2>2. z.hit = y.hit /\ z.rule[r].alarms = y.rule[r].alarms \cup {a}
    BY <1>5 DEF Alarmed, a
  <2>3. \A q \in RuleSet : SameHits(z, y, q) /\ z.rule[q].domains = y.rule[q].domains
    BY <1>3, <2>2
  <2>4. KeyFits(y, r, key)
    BY <1>5, FreshFits
  <2>5. DomainsFit(z, r) /\ \A k : NamesOf(z, r, k) = NamesOf(y, r, k) /\ (KeyFits(y, r, k) => KeyFits(z, r, k))
    BY <2>3, SameHitsFit DEF Fit
  <2>6. \A b \in z.rule[r].alarms : NamesOf(z, r, b.key) = b.names /\ KeyFits(z, r, b.key)
    BY <2>1, <2>2, <2>4, <2>5 DEF Fit, AlarmsFit
  <2>7. Fit(z, r)
    BY <2>5, <2>6 DEF Fit, AlarmsFit
  <2>8. ASSUME NEW q \in RuleSet, q # r
        PROVE  Fit(z, q)
    <3>1. z.rule[q].alarms = y.rule[q].alarms
      BY <1>1, <2>8 DEF Others
    <3>. QED BY <2>3, <3>1, SameFit
  <2>. QED BY <2>3, <2>7, <2>8
<1>. QED BY <1>1, <1>2, <1>4, <1>5 DEF Quiet, Thrown, z

\* The engine before the rule in turn, and what becomes of it.
UpTo(x, c, k) ==
  /\ \A r \in RuleSet : DomainsOK(c[k], r) /\ Fit(c[k], r)
  /\ \A j \in 1 .. Len(Rules) : j > k => SameHits(c[k], x, Rules[j])

Turn(x, y, z, r) ==
  /\ EngineOK(y) /\ SameHits(y, x, r) /\ DomainsOK(y, r) /\ Fit(y, r)
  /\ Told(x, r) => ProperDomains(y, r) /\ z = EvaluateRule(y, r)
  /\ ~Told(x, r) => z = y
  /\ \A q \in RuleSet \ {r} : SameHits(z, y, q) /\ z.rule[q] = y.rule[q]

\* One more rule.
LEMMA InTurns ==
  ASSUME ResetsApart, NEW x, EngineOK(x), NEW c, Rounded(x, c), NEW k \in 1 .. Len(Rules),
         UpTo(x, c, k - 1)
  PROVE  UpTo(x, c, k) /\ Turn(x, c[k - 1], c[k], Rules[k])
<1>. DEFINE n == Len(Rules)
            y == c[k - 1]
            r == Rules[k]
            z == EvaluateRule(y, r)
<1>1. n \in Nat /\ k \in 0 .. n /\ k - 1 \in 0 .. n /\ r \in RuleSet
  BY RulesFacts
<1>2. /\ EngineOK(y) /\ c[k] = IF Told(x, r) THEN z ELSE y
      /\ \A q \in RuleSet : DomainsOK(y, q) /\ Fit(y, q)
      /\ \A j \in 1 .. n : j > k - 1 => SameHits(y, x, Rules[j])
  BY <1>1 DEF Rounded, EvaluatedStep, UpTo
<1>3. SameHits(y, x, r)
  BY <1>1, <1>2
<1>4. \A j \in 1 .. n : j > k => SameHits(y, x, Rules[j]) /\ Rules[j] \in RuleSet \ {r}
  <2>. TAKE j \in 1 .. n
  <2>. HAVE j > k
  <2>1. j # k /\ j > k - 1
    BY <1>1
  <2>2. Rules[j] # r /\ Rules[j] \in RuleSet
    BY <2>1, RulesFacts
  <2>. QED BY <1>2, <2>1, <2>2
<1>. HIDE DEF y, r
<1>5. CASE ~Told(x, r)
  <2>1. c[k] = y
    BY <1>2, <1>5
  <2>2. \A q : SameHits(y, y, q)
    BY DEF SameHits
  <2>3. UpTo(x, c, k)
    BY <1>2, <1>4, <2>1 DEF UpTo
  <2>4. Turn(x, y, c[k], r)
    BY <1>1, <1>2, <1>3, <1>5, <2>1, <2>2 DEF Turn
  <2>. QED BY <2>3, <2>4 DEF y, r
<1>6. CASE Told(x, r)
  <2>1. ProperDomains(y, r)
    BY <1>1, <1>2, <1>3, <1>6, ToldProper DEF Fit
  <2>2. /\ \A q \in RuleSet : Fit(z, q)
        /\ \A q \in RuleSet \ {r} : SameHits(z, y, q)
    BY <1>1, <1>2, <2>1, EvaluateFit
  <2>3. Others(z, y, r) /\ (z.hit = y.hit \/ Cleared(z, y, r))
    BY <1>1, <1>2, StepCases
  <2>4. c[k] = z
    BY <1>2, <1>6
  <2>6. \A q \in RuleSet : DomainsOK(z, q)
    BY <1>1, <1>2, <2>3, ClearedDomains
  <2>7. \A j \in 1 .. n : j > k => SameHits(z, x, Rules[j])
    BY <1>4, <2>2 DEF SameHits
  <2>8. UpTo(x, c, k)
    BY <2>2, <2>4, <2>6, <2>7 DEF UpTo
  <2>9. Turn(x, y, c[k], r)
    BY <1>1, <1>2, <1>3, <1>6, <2>1, <2>2, <2>3, <2>4 DEF Turn, Others
  <2>. QED BY <2>8, <2>9 DEF y, r
<1>. QED BY <1>5, <1>6

\* No rule has been evaluated.
LEMMA UpToFirst ==
  ASSUME NEW x, NEW c, Rounded(x, c), \A r \in RuleSet : DomainsOK(x, r) /\ Fit(x, r)
  PROVE  UpTo(x, c, 0)
BY DEF Rounded, SameHits, UpTo

\* Evaluating the rules leaves alarms and domains that fit.
LEMMA EvaluatedFit ==
  ASSUME ResetsApart, NEW x, EngineOK(x), \A r \in RuleSet : DomainsOK(x, r) /\ Fit(x, r)
  PROVE  \A r \in RuleSet : Fit(Evaluated(x), r)
<1>1. PICK c : Rounded(x, c)
  BY RoundedFacts
<1>. DEFINE W == {k \in 0 .. Len(Rules) : UpTo(x, c, k)}
<1>2. 0 \in W /\ \A k \in 1 .. Len(Rules) : k \in 0 .. Len(Rules)
  BY <1>1, UpToFirst, RulesFacts
<1>3. \A k \in 1 .. Len(Rules) : k - 1 \in W => k \in W
  BY <1>1, <1>2, InTurns
<1>4. Len(Rules) \in W
  <2>. HIDE DEF W
  <2>. QED BY <1>1, <1>2, <1>3, RoundedInduction
<1>. QED BY <1>1, <1>4 DEF Rounded, UpTo

\* The second inductive invariant: domains and alarms have indices that fit the tables,
\* and alarms have the names of their keys.
FitInv == \A r \in RuleSet : Fit(State, r)

\* Every step keeps it.
LEMMA NextFit ==
  ASSUME ResetsApart, StateInv, FitInv, [Next]_vars
  PROVE  FitInv'
<1>0. EngineOK(State) /\ \A r \in RuleSet : DomainsOK(State, r) /\ Fit(State, r)
  BY DEF StateInv, FitInv
<1>1. ASSUME NEW e, State' = e, \A r \in RuleSet : Fit(e, r)
      PROVE  FitInv'
  BY <1>1 DEF FitInv
<1>2. CASE Next
  <2>1. ASSUME NEW m \in Messages, State' = Evaluated(Updated(Caught(m)))
        PROVE  FitInv'
    <3>. DEFINE x == Updated(Caught(m))
    <3>1. EngineOK(x) /\ \A r \in RuleSet : DomainsOK(x, r) /\ Fit(x, r)
      BY <1>0, CaughtOK, UpdatedOK, UpdatedDomains, UpdatedFit
    <3>2. State' = Evaluated(x)
      BY <2>1
    <3>. HIDE DEF x
    <3>3. \A r \in RuleSet : Fit(Evaluated(x), r)
      BY <3>1, EvaluatedFit
    <3>. QED BY <1>1, <3>2, <3>3
  <2>2. ASSUME NEW r \in Resets, State' = ResetState(State, r)
        PROVE  FitInv'
    <3>. DEFINE x == State
                y == ResetState(x, r)
    <3>1. r \in RuleSet /\ r \in Resetting
      BY DomainsAssumption DEF Resetting
    <3>2. Others(y, x, r) /\ Cleared(y, x, r)
      BY <1>0, <3>1, ResetFacts
    <3>3. State' = y
      BY <2>2
    <3>. HIDE DEF y
    <3>4. \A q \in RuleSet : Fit(y, q)
      BY <1>0, <3>1, <3>2, ClearedFit
    <3>. QED BY <1>1, <3>3, <3>4
  <2>. QED BY <1>0, <1>2, <2>1, <2>2, NextCases
<1>3. CASE UNCHANGED vars
  <2>1. State' = State
    BY <1>3 DEF vars, State
  <2>. QED BY <1>0, <1>1, <2>1
<1>. QED BY <1>2, <1>3

\* The alarms and the domains of a rule go by the indices that the names have.
LEMMA AlarmsFitNames ==
  ASSUME ResetsApart
  PROVE  Spec => []FitInv
<1>1. Init => FitInv
  BY InitFit DEF FitInv
<1>2. StateInv /\ FitInv /\ [Next]_vars => FitInv'
  BY NextFit
<1>. QED BY <1>1, <1>2, StateIsSound, PTL DEF Spec

-----------------------------------------------------------------------------
(* Alarms keep their names, whoever resets what.                           *)

\* An index that has a name keeps it in a longer table.
LEMMA NamedKept ==
  ASSUME NEW X, NEW t \in Seq(X), NEW u \in Seq(X), StartsWith(u, t), NEW j \in Index,
         NameIn(t, j) # "none"
  PROVE  NameIn(u, j) = NameIn(t, j)
<1>1. Len(t) \in Nat /\ DOMAIN t = 1 .. Len(t)
  OBVIOUS
<1>2. j = D_ANY \/ j + 1 \in DOMAIN t
  BY DEF NameIn
<1>3. j + 1 \in DOMAIN t => j \in 0 .. Len(t) - 1
  <2>1. j \in Int
    BY DEF Index, D_ANY, D_NIL
  <2>. QED BY <1>1, <2>1
<1>4. Meant(t, j)
  BY <1>2, <1>3 DEF Meant, Ranges
<1>. QED BY <1>4, NameKept

\* The halves of part i of an alarm mean the names that they had.
PartNamed(x, r, a, i) ==
  /\ a.names[i][1] # "none" => NameIn(HitsOf(x, r)[i].srcs, a.key[i][1]) = a.names[i][1]
  /\ a.names[i][2] # "none" => NameIn(HitsOf(x, r)[i].tgts, a.key[i][2]) = a.names[i][2]
Named(x, r) ==
  \A a \in x.rule[r].alarms : \A i \in 1 .. N(r) : <<a.key, i>> \in x.stale[r] \/ PartNamed(x, r, a, i)

\* A part keeps its names while its tables grow.
LEMMA PartKept ==
  ASSUME NEW x, HitsOK(x.hit), NEW y, HitsOK(y.hit), NEW r \in RuleSet, NEW a \in AlarmSet(r),
         NEW i \in 1 .. N(r), PartNamed(x, r, a, i),
         StartsWith(HitsOf(y, r)[i].srcs, HitsOf(x, r)[i].srcs),
         StartsWith(HitsOf(y, r)[i].tgts, HitsOf(x, r)[i].tgts)
  PROVE  PartNamed(y, r, a, i)
<1>. DEFINE T == ToSet(NameOrder)
            g == HitsOf(x, r)[i]
            h == HitsOf(y, r)[i]
            s == a.key[i][1]
            t == a.key[i][2]
<1>1. g.srcs \in Seq(T) /\ g.tgts \in Seq(T) /\ h.srcs \in Seq(T) /\ h.tgts \in Seq(T)
  BY HitsTables DEF TablesOK, Table
<1>2. s \in Index /\ t \in Index
  BY DEF AlarmSet, Tuples, CondDomain
<1>3. /\ StartsWith(h.srcs, g.srcs) /\ StartsWith(h.tgts, g.tgts)
      /\ a.names[i][1] # "none" => NameIn(g.srcs, s) = a.names[i][1]
      /\ a.names[i][2] # "none" => NameIn(g.tgts, t) = a.names[i][2]
  BY DEF PartNamed
<1>. HIDE DEF T, g, h, s, t
<1>4. NameIn(g.srcs, s) # "none" => NameIn(h.srcs, s) = NameIn(g.srcs, s)
  BY <1>1, <1>2, <1>3, NamedKept
<1>5. NameIn(g.tgts, t) # "none" => NameIn(h.tgts, t) = NameIn(g.tgts, t)
  BY <1>1, <1>2, <1>3, NamedKept
<1>6. /\ a.names[i][1] # "none" => NameIn(h.srcs, s) = a.names[i][1]
      /\ a.names[i][2] # "none" => NameIn(h.tgts, t) = a.names[i][2]
  BY <1>3, <1>4, <1>5
<1>. QED BY <1>6 DEF PartNamed, h, s, t

\* A rule with no more alarms than before keeps their names, where no other rule
\* takes them away.
LEMMA NamedGrown ==
  ASSUME NEW x, EngineOK(x), NEW y, EngineOK(y), NEW r \in RuleSet, Named(x, r),
         y.rule[r].alarms = x.rule[r].alarms, x.stale[r] \subseteq y.stale[r],
         \A a \in x.rule[r].alarms : \A i \in 1 .. N(r) :
           \/ <<a.key, i>> \in y.stale[r]
           \/ /\ StartsWith(HitsOf(y, r)[i].srcs, HitsOf(x, r)[i].srcs)
              /\ StartsWith(HitsOf(y, r)[i].tgts, HitsOf(x, r)[i].tgts)
  PROVE  Named(y, r)
<1>. SUFFICES ASSUME NEW a \in x.rule[r].alarms, NEW i \in 1 .. N(r), <<a.key, i>> \notin y.stale[r]
              PROVE  PartNamed(y, r, a, i)
  BY DEF Named
<1>1. PartNamed(x, r, a, i)
  BY DEF Named
<1>2. HitsOK(x.hit) /\ HitsOK(y.hit) /\ RuleOK(r, x.rule[r])
  BY DEF EngineOK, RulesOK
<1>3. a \in AlarmSet(r)
  BY <1>2, RuleChanges
<1>. QED BY <1>1, <1>2, <1>3, PartKept

\* A condition that is as it was has tables that begin as they did.
LEMMA HitStarts ==
  ASSUME NEW x, EngineOK(x), NEW y, EngineOK(y), NEW r \in RuleSet, NEW i \in 1 .. N(r),
         y.hit[P(r).conds[i]] = x.hit[P(r).conds[i]]
  PROVE  /\ StartsWith(HitsOf(y, r)[i].srcs, HitsOf(x, r)[i].srcs)
         /\ StartsWith(HitsOf(y, r)[i].tgts, HitsOf(x, r)[i].tgts)
<1>. DEFINE T == ToSet(NameOrder)
            g == HitsOf(x, r)[i]
<1>1. HitsOf(y, r)[i] = g
  BY HitsTables DEF EngineOK
<1>2. g.srcs \in Seq(T) /\ g.tgts \in Seq(T)
  BY HitsTables DEF EngineOK, TablesOK, Table
<1>. HIDE DEF T, g
<1>3. StartsWith(g.srcs, g.srcs) /\ StartsWith(g.tgts, g.tgts)
  BY <1>2, SelfStarts
<1>. QED BY <1>1, <1>3 DEF g

\* A reset takes away names only where it says so.
LEMMA ClearedNamed ==
  ASSUME NEW x, EngineOK(x), NEW y, NEW r \in RuleSet, Others(y, x, r), Cleared(y, x, r),
         NEW q \in RuleSet, Named(x, q)
  PROVE  Named(y, q)
<1>1. CASE q = r
  BY <1>1 DEF Cleared, Named
<1>2. CASE q # r
  <2>1. EngineOK(y) /\ y.rule[q] = x.rule[q]
    BY <1>2 DEF Others
  <2>2. y.stale[q] = x.stale[q] \cup
          {<<a.key, i>> : a \in x.rule[q].alarms,
                          i \in {j \in DOMAIN P(q).conds : P(q).conds[j] \in ToSet(P(r).conds)}}
    BY <1>2 DEF Cleared, Disowned
  <2>3. DOMAIN P(q).conds = 1 .. N(q) /\ \A i \in 1 .. N(q) : P(q).conds[i] \in CondSet
    BY RuleFacts
  <2>4. ASSUME NEW a \in x.rule[q].alarms, NEW i \in 1 .. N(q), <<a.key, i>> \notin y.stale[q]
        PROVE  /\ StartsWith(HitsOf(y, q)[i].srcs, HitsOf(x, q)[i].srcs)
               /\ StartsWith(HitsOf(y, q)[i].tgts, HitsOf(x, q)[i].tgts)
    <3>1. P(q).conds[i] \notin ToSet(P(r).conds)
      BY <2>2, <2>3, <2>4
    <3>2. y.hit[P(q).conds[i]] = x.hit[P(q).conds[i]]
      BY <2>3, <3>1 DEF Cleared
    <3>. QED BY <2>1, <3>2, HitStarts
  <2>. QED BY <2>1, <2>2, <2>4, NamedGrown
<1>. QED BY <1>1, <1>2

\* The names of a part of a key.
LEMMA PartIs ==
  ASSUME NEW x, NEW r \in RuleSet, NEW key \in Tuples(r), NEW i \in 1 .. N(r)
  PROVE  NamesOf(x, r, key)[i] = <<NameIn(HitsOf(x, r)[i].srcs, key[i][1]),
                                   NameIn(HitsOf(x, r)[i].tgts, key[i][2])>>
<1>. DEFINE f(j) == <<NameIn(HitsOf(x, r)[j].srcs, key[j][1]), NameIn(HitsOf(x, r)[j].tgts, key[j][2])>>
<1>1. NamesOf(x, r, key) = [j \in 1 .. N(r) |-> f(j)]
  BY NamesAre
<1>. HIDE DEF f
<1>2. NamesOf(x, r, key)[i] = f(i)
  BY <1>1
<1>. QED BY <1>2 DEF f

\* A new alarm has the names of its key.
LEMMA AlarmNamed ==
  ASSUME NEW x, NEW r \in RuleSet, NEW key \in Tuples(r), NEW i \in 1 .. N(r)
  PROVE  PartNamed(x, r, AlarmOf(x, r, key), i)
<1>1. NamesOf(x, r, key)[i] = <<NameIn(HitsOf(x, r)[i].srcs, key[i][1]),
                                NameIn(HitsOf(x, r)[i].tgts, key[i][2])>>
  BY PartIs
<1>. QED BY <1>1 DEF AlarmOf, PartNamed

\* The evaluation of a rule leaves all alarms their names.
LEMMA EvaluateNamed ==
  ASSUME NEW y, EngineOK(y), NEW r \in RuleSet, NEW q \in RuleSet, Named(y, q)
  PROVE  Named(EvaluateRule(y, r), q)
<1>. DEFINE z == EvaluateRule(y, r)
<1>1. /\ Others(z, y, r)
      /\ \/ Quiet(z, y, r)
         \/ \E key \in Tuples(r) : Thrown(z, y, r, key) \/ Alarmed(z, y, r, key)
         \/ Cleared(z, y, r)
  BY EvaluateRuleFacts
<1>. HIDE DEF z
<1>2. CASE Cleared(z, y, r)
  BY <1>1, <1>2, ClearedNamed DEF z
<1>3. ASSUME z.hit = y.hit, z.stale = y.stale, NEW a, NEW i \in 1 .. N(q)
      PROVE  PartNamed(z, q, a, i) <=> PartNamed(y, q, a, i)
  BY <1>3 DEF PartNamed, HitsOf
<1>4. CASE z.hit = y.hit /\ z.stale = y.stale /\ z.rule[q].alarms = y.rule[q].alarms
  BY <1>3, <1>4 DEF Named, z
<1>5. ASSUME NEW key \in Tuples(r), Alarmed(z, y, r, key), q = r
      PROVE  Named(z, q)
  <2>. DEFINE a == AlarmOf(y, r, key)
  <2>1. \A i \in 1 .. N(q) : PartNamed(y, q, a, i)
    BY <1>5, AlarmNamed
  <2>. HIDE DEF a
  <2>2. z.hit = y.hit /\ z.stale = y.stale /\ z.rule[q].alarms = y.rule[q].alarms \cup {a}
    BY <1>5 DEF Alarmed, a
  <2>. QED BY <1>3, <2>1, <2>2 DEF Named
<1>6. q # r => z.rule[q].alarms = y.rule[q].alarms
  BY <1>1 DEF Others
<1>. QED BY <1>1, <1>2, <1>4, <1>5, <1>6 DEF Quiet, Thrown, Alarmed, z

\* Evaluating the rules leaves all alarms their names.
LEMMA EvaluatedNamed ==
  ASSUME NEW x, EngineOK(x), NEW q \in RuleSet, Named(x, q)
  PROVE  Named(Evaluated(x), q)
<1>1. PICK c : Rounded(x, c)
  BY RoundedFacts
<1>. DEFINE n == Len(Rules)
            W == {k \in 0 .. n : Named(c[k], q)}
<1>2. n \in Nat /\ \A k \in 1 .. n : k \in 0 .. n /\ k - 1 \in 0 .. n /\ Rules[k] \in RuleSet
  BY RulesFacts
<1>3. 0 \in W
  BY <1>1, <1>2 DEF Rounded
<1>4. ASSUME NEW k \in 1 .. n, k - 1 \in W
      PROVE  k \in W
  <2>1. EngineOK(c[k - 1]) /\ Named(c[k - 1], q)
        /\ (c[k] = EvaluateRule(c[k - 1], Rules[k]) \/ c[k] = c[k - 1])
    BY <1>1, <1>2, <1>4 DEF Rounded, EvaluatedStep
  <2>2. Named(EvaluateRule(c[k - 1], Rules[k]), q)
    BY <1>2, <2>1, EvaluateNamed
  <2>3. Named(c[k], q)
    BY <2>1, <2>2
  <2>. QED BY <1>2, <2>3
<1>5. n \in W
  <2>. HIDE DEF W
  <2>. QED BY <1>1, <1>3, <1>4, RoundedInduction
<1>. QED BY <1>1, <1>5 DEF Rounded

\* A message leaves all alarms their names.
LEMMA UpdatedNamed ==
  ASSUME NEW m \in Messages, EngineOK(State), NEW r \in RuleSet, Named(State, r)
  PROVE  Named(Updated(Caught(m)), r)
<1>. DEFINE x == Caught(m)
            y == Updated(x)
<1>1. EngineOK(x) /\ x.rule = rule /\ x.stale = stale
  BY CaughtOK
<1>2. EngineOK(y) /\ y.rule[r].alarms = State.rule[r].alarms /\ y.stale = State.stale
  BY <1>1, UpdatedOK, StateFields
<1>3. Grown(y, State, r)
  BY CaughtGrown
<1>. HIDE DEF x, y
<1>4. Named(y, r)
  BY <1>2, <1>3, NamedGrown DEF Grown
<1>. QED BY <1>4 DEF x, y

\* The invariant: every part of an alarm means what it was raised for, until another
\* rule resets its condition.
NamedInv == \A r \in RuleSet : Named(State, r)

\* Every step keeps it.
LEMMA NextNamed ==
  ASSUME StateInv, NamedInv, [Next]_vars
  PROVE  NamedInv'
<1>0. EngineOK(State) /\ \A r \in RuleSet : Named(State, r)
  BY DEF StateInv, NamedInv
<1>1. ASSUME NEW e, State' = e, \A r \in RuleSet : Named(e, r)
      PROVE  NamedInv'
  BY <1>1 DEF NamedInv
<1>2. CASE Next
  <2>1. ASSUME NEW m \in Messages, State' = Evaluated(Updated(Caught(m)))
        PROVE  NamedInv'
    <3>. DEFINE x == Updated(Caught(m))
    <3>1. EngineOK(x) /\ \A r \in RuleSet : Named(x, r)
      BY <1>0, CaughtOK, UpdatedOK, UpdatedNamed
    <3>2. State' = Evaluated(x)
      BY <2>1
    <3>. HIDE DEF x
    <3>3. \A r \in RuleSet : Named(Evaluated(x), r)
      BY <3>1, EvaluatedNamed
    <3>. QED BY <1>1, <3>2, <3>3
  <2>2. ASSUME NEW r \in Resets, State' = ResetState(State, r)
        PROVE  NamedInv'
    <3>. DEFINE x == State
                y == ResetState(x, r)
    <3>1. r \in RuleSet
      BY DomainsAssumption
    <3>2. Others(y, x, r) /\ Cleared(y, x, r)
      BY <1>0, <3>1, ResetFacts
    <3>3. State' = y
      BY <2>2
    <3>. HIDE DEF y
    <3>4. \A q \in RuleSet : Named(y, q)
      BY <1>0, <3>1, <3>2, ClearedNamed
    <3>. QED BY <1>1, <3>3, <3>4
  <2>. QED BY <1>0, <1>2, <2>1, <2>2, NextCases
<1>3. CASE UNCHANGED vars
  <2>1. State' = State
    BY <1>3 DEF vars, State
  <2>. QED BY <1>0, <1>1, <2>1
<1>. QED BY <1>2, <1>3

\* The names of an alarm are those of its key.
LEMMA NamedMeans ==
  ASSUME StateInv, NamedInv
  PROVE  AlarmMeansNames
<1>. SUFFICES ASSUME NEW r \in RuleSet, NEW a \in rule[r].alarms, NEW i \in DOMAIN a.key, NEW j \in {1, 2},
                     <<a.key, i>> \notin stale[r], a.names[i][j] # "none"
              PROVE  NamesOf(State, r, a.key)[i][j] = a.names[i][j]
  BY DEF AlarmMeansNames
<1>1. a.key \in Tuples(r)
  <2>1. RuleOK(r, State.rule[r])
    BY DEF StateInv, EngineOK, RulesOK
  <2>2. State.rule[r].alarms \subseteq AlarmSet(r)
    BY <2>1, RuleChanges
  <2>. QED BY <2>2, StateFields DEF AlarmSet
<1>2. i \in 1 .. N(r)
  BY <1>1 DEF Tuples
<1>3. PartNamed(State, r, a, i)
  BY <1>2, StateFields DEF NamedInv, Named
<1>4. NamesOf(State, r, a.key)[i] = <<NameIn(HitsOf(State, r)[i].srcs, a.key[i][1]),
                                      NameIn(HitsOf(State, r)[i].tgts, a.key[i][2])>>
  BY <1>1, <1>2, PartIs
<1>5. CASE j = 1
  BY <1>3, <1>4, <1>5 DEF PartNamed
<1>6. CASE j = 2
  BY <1>3, <1>4, <1>6 DEF PartNamed
<1>. QED BY <1>5, <1>6

\* What an alarm was raised for is still what its indices mean, part by part, whatever
\* conditions rules share and whichever of them are reset: only at a condition that
\* another rule has reset since may an index have gone to another name
\* (ma_rule.cpp:200-278, ma_hitmap.cpp:28-61).
THEOREM AlarmsKeepTheirNames == Spec => []AlarmMeansNames
<1>1. Init => NamedInv
  <2>. SUFFICES ASSUME Init PROVE NamedInv
    OBVIOUS
  <2>1. \A r \in RuleSet : rule[r].alarms = {}
    <3>. DEFINE ds(s) == IF P(s).where = <<>> THEN <<AnyDomain(Len(P(s).conds))>> ELSE <<>>
    <3>1. rule = [s \in RuleSet |-> [enabled |-> TRUE, alarms |-> {}, round |-> NoRound, domains |-> ds(s)]]
      BY DEF Init
    <3>. HIDE DEF ds
    <3>. QED BY <3>1
  <2>. QED BY <2>1, StateFields DEF NamedInv, Named
<1>2. StateInv /\ NamedInv /\ [Next]_vars => NamedInv'
  BY NextNamed
<1>3. StateInv /\ NamedInv => AlarmMeansNames
  BY NamedMeans
<1>. QED BY <1>1, <1>2, <1>3, StateIsSound, PTL DEF Spec

-----------------------------------------------------------------------------
(* No text throws.                                                         *)

\* Whether the reference x of a text fails for a condition of hitmap h and pattern with
\* so many groups, of which the alarm has the part u.
ReferenceFails(x, h, u, groups) ==
  LET bad(j, table) == table = <<>> \/ j = D_NIL \/ j >= Len(table)
      first(j) == IF j = D_ANY THEN 0 ELSE j
      v == <<first(u[1]), first(u[2])>>
  IN  \/ x.arg = "s" /\ bad(u[1], h.srcs)
      \/ x.arg = "t" /\ bad(u[2], h.tgts)
      \/ x.arg \in {"m", "g"} /\ (v \in DOMAIN h.num => h.num[v] = 0)
      \/ x.arg = "g" /\ x.n > groups + 1

\* A text fails where one of its references does.
LEMMA TextReferences ==
  ASSUME NEW y, NEW r \in RuleSet, NEW key,
         \A x \in P(r).text :
           ~ReferenceFails(x, HitsOf(y, r)[x.i], key[x.i], CondParams[P(r).conds[x.i]].groups)
  PROVE  ~TextFails(y, r, key)
BY DEF TextFails, ReferenceFails

\* A cell that is on has a source, a target and messages.
LEMMA OnHolds ==
  ASSUME NEW c \in CondSet, NEW h, HitOK(c, h), NEW u, IsOn(h, u), NEW groups \in Nat, NEW x,
         x.arg = "g" => x.n \in Nat /\ x.n <= groups
  PROVE  ~ReferenceFails(x, h, u, groups)
<1>1. u \in DOMAIN h.on /\ h.on[u]
  BY DEF IsOn
<1>2. /\ DOMAIN h.on = Cells(h.srcs, h.tgts) /\ DOMAIN h.num = Cells(h.srcs, h.tgts)
      /\ Len(h.srcs) \in Nat /\ Len(h.tgts) \in Nat
  BY HitTables
<1>3. u[1] \in 0 .. Len(h.srcs) - 1 /\ u[2] \in 0 .. Len(h.tgts) - 1 /\ u = <<u[1], u[2]>>
  BY <1>1, <1>2 DEF Cells
<1>4. h.num[u] = CondParams[c].tc /\ CondParams[c].tc \in Nat \ {0}
  BY <1>1, <1>2, DomainsAssumption DEF HitOK
<1>5. h.srcs # <<>> /\ h.tgts # <<>>
  BY <1>2, <1>3
<1>6. u[1] # D_NIL /\ u[1] # D_ANY /\ u[2] # D_NIL /\ u[2] # D_ANY
      /\ ~(u[1] >= Len(h.srcs)) /\ ~(u[2] >= Len(h.tgts))
  BY <1>2, <1>3 DEF D_NIL, D_ANY
<1>7. x.arg = "g" => ~(x.n > groups + 1)
  OBVIOUS
<1>. QED BY <1>1, <1>2, <1>3, <1>4, <1>5, <1>6, <1>7 DEF ReferenceFails

\* Indices of tables that are not empty have names.
LEMMA NameHolds ==
  ASSUME NEW h, NEW S, h.srcs \in Seq(S), h.tgts \in Seq(S), h.srcs # <<>>, h.tgts # <<>>,
         NEW u, Ranges(h.srcs, u[1]), Ranges(h.tgts, u[2]), NEW groups, NEW x, x.arg \in {"s", "t"}
  PROVE  ~ReferenceFails(x, h, u, groups)
<1>1. Len(h.srcs) \in Nat /\ Len(h.tgts) \in Nat
  OBVIOUS
<1>2. \A table, j : Len(table) \in Nat /\ Ranges(table, j) => j # D_NIL /\ ~(j >= Len(table))
  BY DEF Ranges, D_ANY, D_NIL
<1>. DEFINE srcs == h.srcs
            tgts == h.tgts
<1>. HIDE DEF srcs, tgts
<1>3. u[1] # D_NIL /\ u[2] # D_NIL /\ ~(u[1] >= Len(srcs)) /\ ~(u[2] >= Len(tgts))
  BY <1>1, <1>2 DEF srcs, tgts
<1>. QED BY <1>3 DEF ReferenceFails, srcs, tgts

\* A rule of one condition that has been told, and whose condition is as it was, looks
\* at names that are there.
LEMMA ToldNames ==
  ASSUME NEW x, EngineOK(x), NEW y, EngineOK(y), NEW r \in RuleSet, N(r) = 1, Told(x, r),
         SameHits(y, x, r), DomainsOK(y, r)
  PROVE  /\ y.hit[P(r).conds[1]].srcs # <<>> /\ y.hit[P(r).conds[1]].tgts # <<>>
         /\ ProperDomains(y, r)
<1>. DEFINE c == P(r).conds[1]
            h == y.hit[c]
<1>1. c \in CondSet /\ ToSet(P(r).conds) = {c}
  BY RuleFacts DEF ToSet
<1>2. PICK v : v \in DOMAIN x.hit[c].on
  BY <1>1 DEF Told, Flipped
<1>3. HitOK(c, x.hit[c]) /\ h = x.hit[c]
  BY <1>1 DEF EngineOK, HitsOK, SameHits
<1>. HIDE DEF h, c
<1>4. DOMAIN h.on = Cells(h.srcs, h.tgts) /\ Len(h.srcs) \in Nat /\ Len(h.tgts) \in Nat
  BY <1>3, HitTables
<1>5. h.srcs # <<>> /\ h.tgts # <<>>
  BY <1>2, <1>3, <1>4 DEF Cells
<1>6. CASE P(r).where = <<>>
  BY <1>5, <1>6, AnyProper DEF DomainsOK, h, c
<1>7. CASE P(r).where # <<>>
  <2>1. \A q \in Mentions[r] : q[1] = c /\ q[2] \in {"s", "t"}
    BY <1>1, MentionsFacts
  <2>2. \A q \in Mentions[r] : Table(y.hit[q[1]], q[2]) # <<>>
    BY <1>5, <2>1 DEF Table, h
  <2>3. y.rule[r].domains = DomainsOf(y, r)
    BY <1>7, <2>2 DEF DomainsOK
  <2>. DEFINE C == Proper(HitsOf(y, r), N(r))
              ds == y.rule[r].domains
  <2>4. ds \in Seq(C)
    BY <1>7, <2>3, DomainsProper DEF EngineOK
  <2>. HIDE DEF C, ds
  <2>5. \A d \in ToSet(ds) : d \in C
    BY <2>4 DEF ToSet
  <2>. QED BY <1>5, <2>5 DEF ProperDomains, C, ds, h, c
<1>. QED BY <1>6, <1>7

\* A text of a rule that has been told reads what is there.
LEMMA TextHolds ==
  ASSUME TextsSure, NEW x, EngineOK(x), NEW y, EngineOK(y), NEW r \in RuleSet, DomainsOK(y, r),
         Told(x, r), Undisturbed(r) => SameHits(y, x, r), NEW key, Fresh(y, r, key)
  PROVE  ~TextFails(y, r, key)
<1>. DEFINE e == P(r).expr
            hs == HitsOf(y, r)
<1>1. PICK t \in ToSet(Tries(y, r)), q \in GoodRounds : Attempt(y, r, t, q).new /\ key = Attempt(y, r, t, q).key
  BY DEF Fresh
<1>. DEFINE ctx == CtxOf(y, r, t)
            z == Value(y, r, t, q)
<1>2. t \in Trials(r)
  BY TrialIs
<1>3. key = z.alarm /\ \E a \in Alternatives(e) : Witnessed(e, ctx, a, z)
  BY <1>1, <1>2, AttemptFacts
<1>4. PICK a \in Alternatives(e) : Witnessed(e, ctx, a, z)
  BY <1>3
<1>5. ctx.hs = hs
  BY DEF CtxOf
<1>. SUFFICES ASSUME NEW w \in P(r).text
              PROVE  ~ReferenceFails(w, hs[w.i], key[w.i], CondParams[P(r).conds[w.i]].groups)
  BY TextReferences
<1>. DEFINE i == w.i
            c == P(r).conds[i]
            h == hs[i]
            u == key[i]
<1>6. i \in 1 .. N(r) /\ c \in CondSet /\ h = y.hit[c] /\ HitOK(c, h)
  <2>1. i \in 1 .. N(r) /\ c \in CondSet
    BY RuleFacts
  <2>2. h = y.hit[c]
    BY <2>1, HitsTables DEF EngineOK
  <2>. QED BY <2>1, <2>2 DEF EngineOK, HitsOK
<1>7. /\ \A p \in Primaries(e) : p.i = i => p.type # "IS_SYNCD"
      /\ \E p \in ToSet(a) : p.type # "EXPR" /\ p.i = i
      /\ \/ \A p \in Primaries(e) : p.i = i => p.type = "COND"
         \/ w.arg \in {"s", "t"} /\ N(r) = 1 /\ Undisturbed(r)
      /\ w.arg = "g" => w.n <= CondParams[c].groups
  BY DEF TextsSure, N
<1>8. PICK p \in ToSet(a) : p.type # "EXPR" /\ p.i = i
  BY <1>7
<1>9. p \in Primaries(e) /\ u \in Parts(e, ctx, i) /\ IsTrue(p, ctx)
  BY <1>3, <1>4, <1>7, <1>8 DEF Witnessed
<1>10. PICK o \in Primaries(e) : o.i = i /\ u = Located(o, ctx, NullPair)
  BY <1>9 DEF Parts
<1>. HIDE DEF u, h, hs
<1>11. CASE \A b \in Primaries(e) : b.i = i => b.type = "COND"
  <2>1. o.type = "COND" /\ p.type = "COND"
    BY <1>8, <1>9, <1>10, <1>11
  <2>2. u = ctx.value[i] /\ IsOn(h, ctx.value[i])
    BY <1>5, <1>8, <1>9, <1>10, <2>1, NullIsNull DEF Located, IsTrue, h
  <2>3. CondParams[c].groups \in Nat /\ (w.arg = "g" => w.n \in Nat)
    <3>1. IsRule(P(r)) /\ CondParams[c].groups \in Nat
      BY <1>6, DomainsAssumption
    <3>. QED BY <3>1 DEF IsRule
  <2>4. ~ReferenceFails(w, h, u, CondParams[c].groups)
    BY <1>6, <1>7, <2>2, <2>3, OnHolds
  <2>. QED BY <2>4 DEF u, h
<1>12. CASE w.arg \in {"s", "t"} /\ N(r) = 1 /\ Undisturbed(r)
  <2>1. i = 1 /\ SameHits(y, x, r)
    BY <1>6, <1>12
  <2>2. h.srcs # <<>> /\ h.tgts # <<>> /\ ProperDomains(y, r)
    BY <1>6, <1>12, <2>1, ToldNames
  <2>3. Placed(hs, i, u)
    BY <1>7, <1>10, <2>2, PartPlaced DEF hs
  <2>4. Ranges(h.srcs, u[1]) /\ Ranges(h.tgts, u[2])
    BY <2>3 DEF Placed, h
  <2>5. h.srcs \in Seq(ToSet(NameOrder)) /\ h.tgts \in Seq(ToSet(NameOrder))
    BY <1>6, HitTables
  <2>6. ~ReferenceFails(w, h, u, CondParams[c].groups)
    BY <1>12, <2>2, <2>4, <2>5, NameHolds
  <2>. QED BY <2>6 DEF u, h
<1>. QED BY <1>7, <1>11, <1>12

\* The rules up to k have not thrown, and have left those undisturbed that nobody
\* disturbs.
NoneThrown(x, c, k) ==
  /\ ~c[k].failed /\ \A r \in RuleSet : DomainsOK(c[k], r)
  /\ \A j \in 1 .. Len(Rules) : j > k /\ Undisturbed(Rules[j]) => SameHits(c[k], x, Rules[j])

\* Nor does the next.
LEMMA TurnHolds ==
  ASSUME TextsSure, NEW x, EngineOK(x), NEW c, Rounded(x, c), NEW k \in 1 .. Len(Rules),
         NoneThrown(x, c, k - 1)
  PROVE  NoneThrown(x, c, k)
<1>. DEFINE n == Len(Rules)
            y == c[k - 1]
            r == Rules[k]
            z == EvaluateRule(y, r)
<1>1. n \in Nat /\ k \in 0 .. n /\ k - 1 \in 0 .. n /\ r \in RuleSet
  BY RulesFacts
<1>2. /\ EngineOK(y) /\ c[k] = IF Told(x, r) THEN z ELSE y
      /\ ~y.failed /\ \A q \in RuleSet : DomainsOK(y, q)
      /\ \A j \in 1 .. n : j > k - 1 /\ Undisturbed(Rules[j]) => SameHits(y, x, Rules[j])
  BY <1>1 DEF Rounded, EvaluatedStep, NoneThrown
<1>3. Undisturbed(r) => SameHits(y, x, r)
  BY <1>1, <1>2
<1>4. \A j \in 1 .. n : j > k => /\ Undisturbed(Rules[j]) => SameHits(y, x, Rules[j])
                                 /\ Rules[j] \in RuleSet \ {r}
  <2>. TAKE j \in 1 .. n
  <2>. HAVE j > k
  <2>1. j # k /\ j > k - 1
    BY <1>1
  <2>2. Rules[j] # r /\ Rules[j] \in RuleSet
    BY <2>1, RulesFacts
  <2>. QED BY <1>2, <2>1, <2>2
<1>. HIDE DEF y, r
<1>5. CASE ~Told(x, r)
  <2>1. c[k] = y
    BY <1>2, <1>5
  <2>. QED BY <1>2, <1>4, <2>1 DEF NoneThrown
<1>6. CASE Told(x, r)
  <2>1. c[k] = z
    BY <1>2, <1>6
  <2>2. \A key : Fresh(y, r, key) => ~TextFails(y, r, key)
    BY <1>1, <1>2, <1>3, <1>6, TextHolds
  <2>3. /\ Others(z, y, r)
        /\ \/ Quiet(z, y, r)
           \/ \E key \in Tuples(r) : Fresh(y, r, key)
                /\ \/ Thrown(z, y, r, key) \/ Alarmed(z, y, r, key)
                   \/ Cleared(z, y, r) /\ EHS /\ P(r).act
    BY <1>1, <1>2, EvaluateRuleFacts
  <2>4. ~z.failed /\ (z.hit = y.hit \/ (Cleared(z, y, r) /\ EHS /\ P(r).act))
    <3>1. CASE Quiet(z, y, r)
      BY <1>2, <3>1 DEF Quiet
    <3>2. ASSUME NEW key \in Tuples(r), Fresh(y, r, key), Thrown(z, y, r, key)
          PROVE  FALSE
      BY <2>2, <3>2 DEF Thrown
    <3>3. ASSUME NEW key \in Tuples(r), Alarmed(z, y, r, key)
          PROVE  ~z.failed /\ z.hit = y.hit
      BY <1>2, <3>3 DEF Alarmed
    <3>4. CASE Cleared(z, y, r) /\ EHS /\ P(r).act
      BY <1>2, <3>4 DEF Cleared
    <3>. QED BY <2>3, <3>1, <3>2, <3>3, <3>4
  <2>. HIDE DEF z
  <2>5. \A q \in RuleSet : DomainsOK(z, q)
    BY <1>1, <1>2, <2>3, <2>4, ClearedDomains
  <2>6. ASSUME NEW q \in RuleSet \ {r}, Undisturbed(q)
        PROVE  SameHits(z, y, q)
    <3>1. CASE z.hit = y.hit
      BY <3>1 DEF SameHits
    <3>2. CASE Cleared(z, y, r) /\ EHS /\ P(r).act
      <4>1. ToSet(P(r).conds) \cap ToSet(P(q).conds) = {}
        BY <1>1, <2>6, <3>2 DEF Undisturbed
      <4>2. ToSet(P(q).conds) \subseteq CondSet
        BY RuleFacts DEF ToSet
      <4>. QED BY <3>2, <4>1, <4>2 DEF Cleared, SameHits
    <3>. QED BY <2>4, <3>1, <3>2
  <2>7. \A j \in 1 .. n : j > k /\ Undisturbed(Rules[j]) => SameHits(z, x, Rules[j])
    BY <1>4, <2>6 DEF SameHits
  <2>. QED BY <2>1, <2>4, <2>5, <2>7 DEF NoneThrown
<1>. QED BY <1>5, <1>6

\* Nor does any of them.
LEMMA EvaluatedHolds ==
  ASSUME TextsSure, NEW x, EngineOK(x), \A r \in RuleSet : DomainsOK(x, r), ~x.failed
  PROVE  ~Evaluated(x).failed
<1>1. PICK c : Rounded(x, c)
  BY RoundedFacts
<1>. DEFINE n == Len(Rules)
            W == {k \in 0 .. n : NoneThrown(x, c, k)}
<1>2. n \in Nat /\ 0 \in 0 .. n /\ \A k \in 1 .. n : k \in 0 .. n
  BY RulesFacts
<1>3. 0 \in W
  BY <1>1, <1>2 DEF Rounded, NoneThrown, SameHits
<1>4. \A k \in 1 .. n : k - 1 \in W => k \in W
  BY <1>1, <1>2, TurnHolds
<1>5. n \in W
  <2>. HIDE DEF W
  <2>. QED BY <1>1, <1>3, <1>4, RoundedInduction
<1>. QED BY <1>1, <1>5 DEF Rounded, NoneThrown

\* Nor does any step.
LEMMA NextHolds ==
  ASSUME TextsSure, StateInv, NeverThrows, [Next]_vars
  PROVE  NeverThrows'
<1>0. EngineOK(State) /\ \A r \in RuleSet : DomainsOK(State, r)
  BY DEF StateInv
<1>1. ASSUME NEW e, State' = e, ~e.failed
      PROVE  NeverThrows'
  BY <1>1 DEF NeverThrows, State
<1>2. CASE Next
  <2>1. ASSUME NEW m \in Messages, State' = Evaluated(Updated(Caught(m)))
        PROVE  NeverThrows'
    <3>. DEFINE x == Updated(Caught(m))
    <3>1. EngineOK(x) /\ x.failed = failed /\ \A r \in RuleSet : DomainsOK(x, r)
      BY <1>0, CaughtOK, UpdatedOK, UpdatedDomains
    <3>2. State' = Evaluated(x)
      BY <2>1
    <3>. HIDE DEF x
    <3>3. ~Evaluated(x).failed
      BY <3>1, EvaluatedHolds DEF NeverThrows
    <3>. QED BY <1>1, <3>2, <3>3
  <2>2. ASSUME NEW r \in Resets, State' = ResetState(State, r)
        PROVE  NeverThrows'
    <3>1. r \in RuleSet
      BY DomainsAssumption
    <3>2. ~ResetState(State, r).failed
      <4>1. Cleared(ResetState(State, r), State, r)
        BY <1>0, <3>1, ResetFacts
      <4>. QED BY <4>1, StateFields DEF Cleared, NeverThrows
    <3>. QED BY <1>1, <2>2, <3>2
  <2>. QED BY <1>0, <1>2, <2>1, <2>2, NextCases
<1>3. CASE UNCHANGED vars
  BY <1>3 DEF vars, NeverThrows
<1>. QED BY <1>2, <1>3

\* No alarm's text throws, for whatever sources, targets, messages and resets there are,
\* rules that share conditions included, unless it names a condition that the expression
\* may leave unlooked at, or the messages or groups of one that it only counts, or a
\* group that the pattern has not (ma_rule.cpp:200-245, ma_hitmap.cpp:141-204).
THEOREM TextsNeverThrow ==
  ASSUME TextsSure
  PROVE  Spec => []NeverThrows
<1>1. Init => NeverThrows
  BY DEF Init, NeverThrows
<1>2. StateInv /\ NeverThrows /\ [Next]_vars => NeverThrows'
  BY NextHolds
<1>. QED BY <1>1, <1>2, StateIsSound, PTL DEF Spec

-----------------------------------------------------------------------------
(* Each rule by itself.                                                    *)

\* What has thrown stays thrown.
LEMMA TurnFailed ==
  ASSUME NEW x, NEW y, NEW z, NEW r \in RuleSet, Turn(x, y, z, r), y.failed
  PROVE  z.failed
<1>1. CASE ~Told(x, r)
  BY <1>1 DEF Turn
<1>2. CASE Told(x, r)
  <2>1. EngineOK(y) /\ z = EvaluateRule(y, r)
    BY <1>2 DEF Turn
  <2>. QED BY <2>1, EvaluateRuleFacts DEF Quiet
<1>. QED BY <1>1, <1>2

\* f is the engine after all rules: y and z are what it was when r had its turn.
Alone(x, f, y, z, r) ==
  /\ Turn(x, y, z, r) /\ y.rule[r] = x.rule[r]
  /\ f.rule[r] = z.rule[r] /\ SameHits(f, z, r) /\ (z.failed => f.failed)

\* What a message does to one rule is its own evaluation, between those of the others.
LEMMA EvaluatedAlone ==
  ASSUME ResetsApart, NEW x, EngineOK(x), \A r \in RuleSet : DomainsOK(x, r) /\ Fit(x, r),
         NEW s \in RuleSet
  PROVE  \E y, z : Alone(x, Evaluated(x), y, z, s)
<1>1. PICK c : Rounded(x, c)
  BY RoundedFacts
<1>2. PICK b \in 1 .. Len(Rules) : Rules[b] = s
  BY RulesFacts
<1>. DEFINE n == Len(Rules)
            After(k) == Alone(x, c[k], c[b - 1], c[b], s)
            W == {k \in 0 .. n : /\ UpTo(x, c, k)
                                 /\ k < b => c[k].rule[s] = x.rule[s]
                                 /\ k >= b => After(k)}
<1>3. n \in Nat /\ b \in 0 .. n /\ b \in Nat /\ b > 0 /\ n >= b
      /\ \A k \in 1 .. n : k \in 0 .. n /\ k - 1 \in 0 .. n /\ Rules[k] \in RuleSet
  BY RulesFacts
<1>4. 0 \in W
  BY <1>1, <1>3, UpToFirst DEF Rounded
<1>5. ASSUME NEW k \in 1 .. n, k - 1 \in W
      PROVE  k \in W
  <2>. DEFINE y == c[k - 1]
              z == c[k]
              r == Rules[k]
  <2>1. UpTo(x, c, k) /\ Turn(x, y, z, r) /\ r \in RuleSet
    BY <1>1, <1>3, <1>5, InTurns
  <2>2. CASE k < b
    <3>1. r # s /\ y.rule[s] = x.rule[s]
      BY <1>2, <1>3, <1>5, <2>2, RulesFacts
    <3>. HIDE DEF y, z, r
    <3>2. z.rule[s] = x.rule[s]
      BY <2>1, <3>1 DEF Turn
    <3>. QED BY <1>3, <2>1, <2>2, <3>2 DEF z
  <2>3. CASE k = b
    <3>1. y.rule[s] = x.rule[s] /\ r = s
      BY <1>2, <1>3, <1>5, <2>3
    <3>2. After(k)
      BY <2>1, <2>3, <3>1 DEF Alone, SameHits
    <3>. HIDE DEF After
    <3>. QED BY <1>3, <2>1, <2>3, <3>2
  <2>4. CASE k > b
    <3>1. After(k - 1) /\ r # s
      BY <1>2, <1>3, <1>5, <2>4, RulesFacts
    <3>. DEFINE u == c[b]
    <3>2. /\ Turn(x, c[b - 1], u, s) /\ c[b - 1].rule[s] = x.rule[s]
          /\ y.rule[s] = u.rule[s] /\ SameHits(y, u, s) /\ (u.failed => y.failed)
      BY <3>1 DEF Alone
    <3>3. y.failed => z.failed
      <4>. HIDE DEF y, z, r
      <4>. QED BY <2>1, TurnFailed
    <3>4. z.rule[s] = y.rule[s] /\ SameHits(z, y, s)
      BY <2>1, <3>1 DEF Turn
    <3>5. SameHits(z, u, s)
      BY <3>2, <3>4 DEF SameHits
    <3>6. After(k)
      BY <3>2, <3>3, <3>4, <3>5 DEF Alone
    <3>. HIDE DEF After
    <3>. QED BY <1>3, <2>1, <2>4, <3>6
  <2>. QED BY <1>3, <2>2, <2>3, <2>4
<1>6. n \in W
  <2>. HIDE DEF W
  <2>. QED BY <1>1, <1>4, <1>5, RoundedInduction
<1>7. After(n)
  BY <1>3, <1>6
<1>. QED BY <1>1, <1>7 DEF Rounded

-----------------------------------------------------------------------------
(* More primaries that are true never make an expression false.            *)

\* With more true primaries an expression is not less true.
LEMMA SatisfiedMonotone ==
  ASSUME NEW e, IsExpr(e), e # <<>>, NEW T, NEW U, \A p \in Primaries(e) : p \in T => p \in U,
         Satisfied(e, T)
  PROVE  Satisfied(e, U)
<1>. DEFINE n == Len(e)
<1>0. n \in Nat /\ n # 0 /\ n \in 1 .. n
  BY ExprFacts DEF IsExpr
<1>1. PICK Y : /\ Satisfied(e, T) <=> n \in Y
               /\ \A k \in 1 .. n : k \in Y <=> Fulfilled(e[k], Y, T)
  BY SatisfiedIs
<1>2. PICK Z : /\ Satisfied(e, U) <=> n \in Z
               /\ \A k \in 1 .. n : k \in Z <=> Fulfilled(e[k], Z, U)
  BY SatisfiedIs
<1>. DEFINE Bad == {k \in 1 .. n : k \in Y /\ k \notin Z}
<1>3. Bad = {}
  <2>. SUFFICES ASSUME Bad # {} PROVE FALSE
    OBVIOUS
  <2>1. PICK k \in Bad : \A j \in Bad : k <= j
    <3>1. Bad \subseteq Nat
      BY <1>0
    <3>. HIDE DEF Bad
    <3>. QED BY <3>1, LeastNatural
  <2>2. k \in 1 .. n /\ k \in Y /\ k \notin Z
    OBVIOUS
  <2>3. \A j \in 1 .. k - 1 : j \in Y => j \in Z
    <3>. SUFFICES ASSUME NEW j \in 1 .. k - 1, j \in Y, j \notin Z PROVE FALSE
      OBVIOUS
    <3>1. j \in 1 .. n /\ ~(k <= j)
      BY <1>0, <2>2
    <3>. QED BY <2>1, <3>1
  <2>4. PICK a \in ToSet(e[k]) : \A p \in ToSet(a) : Yes(p, Y, T)
    BY <1>1, <2>2 DEF Fulfilled
  <2>5. \A p \in ToSet(a) : Yes(p, Z, U)
    BY <2>2, <2>3, <2>4, ExprFacts DEF Yes
  <2>6. Fulfilled(e[k], Z, U)
    BY <2>5 DEF Fulfilled
  <2>. QED BY <1>2, <2>2, <2>6
<1>. HIDE DEF n
<1>. QED BY <1>0, <1>1, <1>2, <1>3

\* One of the alternatives that are not in parentheses is true.
LEMMA SatisfiedSome ==
  ASSUME NEW e, IsExpr(e), e # <<>>, NEW T, Satisfied(e, T)
  PROVE  \E a \in Alternatives(e) : \A p \in ToSet(a) : p.type # "EXPR" => p \in T /\ p \in Primaries(e)
<1>. DEFINE n == Len(e)
<1>0. n \in Nat /\ n # 0 /\ n \in 1 .. n
  BY ExprFacts DEF IsExpr
<1>1. PICK Y : /\ Satisfied(e, T) <=> n \in Y
               /\ \A k \in 1 .. n : k \in Y <=> Fulfilled(e[k], Y, T)
  BY SatisfiedIs
<1>2. PICK a \in ToSet(e[n]) : \A p \in ToSet(a) : Yes(p, Y, T)
  BY <1>0, <1>1 DEF Fulfilled
<1>. QED BY <1>0, <1>2, ExprFacts DEF Alternatives, Yes

-----------------------------------------------------------------------------
(* The sources and targets for which a rule of conditions alone is true.   *)

\* The conditions that are on for v, and the values for which the rule is true.
TrueSet(x, r, v) == {p \in Primaries(P(r).expr) : HitsOf(x, r)[p.i].on[v[p.i]]}
GoodOf(x, r) ==
  {v \in ValuesIn(x, r) : Meets(r, NamesOf(x, r, v)) /\ Satisfied(P(r).expr, TrueSet(x, r, v))}

\* A value of a rule is a key that fits.
LEMMA ValueFacts ==
  ASSUME NEW x, HitsOK(x.hit), NEW r \in RuleSet, NEW v \in ValuesIn(x, r)
  PROVE  /\ v \in Tuples(r) /\ KeyFits(x, r, v) /\ DOMAIN v = 1 .. N(r)
         /\ \A i \in 1 .. N(r) : v[i] \in DOMAIN HitsOf(x, r)[i].on
<1>. DEFINE hs == HitsOf(x, r)
<1>1. InTables(hs, N(r), v)
  BY ValuesInTables
<1>2. \A i \in 1 .. N(r) : v[i] \in DOMAIN hs[i].on
  BY DEF ValuesIn
<1>. HIDE DEF hs
<1>3. v \in [1 .. N(r) -> Nat \X Nat] /\ \A i \in 1 .. N(r) : v[i] \in Cells(hs[i].srcs, hs[i].tgts)
  BY <1>1 DEF InTables, ValuesOfSize
<1>4. v \in Tuples(r)
  BY <1>3 DEF Tuples, CondDomain, Index
<1>5. \A i \in 1 .. N(r) : Ranges(hs[i].srcs, v[i][1]) /\ Ranges(hs[i].tgts, v[i][2])
  BY <1>3 DEF Cells, Ranges
<1>. QED BY <1>2, <1>3, <1>4, <1>5 DEF KeyFits, Meant, hs

\* Indices of cells are a value.
LEMMA ValueIs ==
  ASSUME NEW x, NEW r \in RuleSet, NEW v, NEW X, v \in [1 .. N(r) -> X],
         \A i \in 1 .. N(r) : v[i] \in DOMAIN HitsOf(x, r)[i].on
  PROVE  v \in ValuesIn(x, r)
BY DEF ValuesIn

\* The conditions of rule r after a message.
LEMMA MessageHits ==
  ASSUME NEW m \in Messages, EngineOK(State), NEW r \in RuleSet, NEW i \in 1 .. N(r)
  PROVE  LET c == P(r).conds[i]
             g == HitsOf(Updated(Caught(m)), r)[i]
             h == HitsOf(State, r)[i]
         IN  /\ c \in ToSet(P(r).conds) /\ c \in CondSet /\ g = Updated(Caught(m)).hit[c] /\ h = hit[c]
             /\ HitOK(c, g) /\ HitOK(c, h)
             /\ g = h \/ \E w : CaptureOf(g, h, w) /\ (CondParams[c].tc = 1 => g.on[w])
<1>. DEFINE c == P(r).conds[i]
            x == Caught(m)
            y == Updated(x)
<1>1. EngineOK(x) /\ EngineOK(y) /\ y.hit = x.hit
  BY CaughtOK, UpdatedOK
<1>2. c \in CondSet /\ DOMAIN P(r).conds = 1 .. N(r)
  BY RuleFacts
<1>3. HitsOf(y, r)[i] = y.hit[c] /\ HitsOf(State, r)[i] = hit[c]
  BY <1>2, StateFields DEF HitsOf
<1>4. HitOK(c, y.hit[c]) /\ HitOK(c, hit[c])
  BY <1>1, <1>2, StateFields DEF EngineOK, HitsOK
<1>5. x.hit[c] = hit[c] \/ \E w : CaptureOf(x.hit[c], hit[c], w) /\ (CondParams[c].tc = 1 => x.hit[c].on[w])
  BY <1>2, CaughtTables
<1>6. c \in ToSet(P(r).conds)
  BY <1>2 DEF ToSet
<1>. HIDE DEF c, x, y
<1>7. /\ c \in ToSet(P(r).conds) /\ c \in CondSet /\ HitsOf(y, r)[i] = y.hit[c] /\ HitsOf(State, r)[i] = hit[c]
      /\ HitOK(c, y.hit[c]) /\ HitOK(c, hit[c])
      /\ y.hit[c] = hit[c] \/ \E w : CaptureOf(y.hit[c], hit[c], w) /\ (CondParams[c].tc = 1 => y.hit[c].on[w])
  BY <1>1, <1>2, <1>3, <1>4, <1>5, <1>6
<1>. QED BY <1>7 DEF c, x, y

\* A message leaves on what is on.
LEMMA MessageOn ==
  ASSUME NEW m \in Messages, EngineOK(State), NEW r \in RuleSet, NEW i \in 1 .. N(r)
  PROVE  LET g == HitsOf(Updated(Caught(m)), r)[i]
             h == HitsOf(State, r)[i]
         IN  \A v \in DOMAIN h.on : v \in DOMAIN g.on /\ (h.on[v] => g.on[v])
BY MessageHits DEF CaptureOf, Extends

\* Without a cell that turns on, whatever is on has been.
LEMMA NothingFlips ==
  ASSUME NEW m \in Messages, EngineOK(State), NEW r \in RuleSet, ~Told(Updated(Caught(m)), r),
         NEW i \in 1 .. N(r)
  PROVE  LET g == HitsOf(Updated(Caught(m)), r)[i]
             h == HitsOf(State, r)[i]
         IN  \A v \in DOMAIN g.on : g.on[v] => v \in DOMAIN h.on /\ h.on[v]
<1>. DEFINE c == P(r).conds[i]
            y == Updated(Caught(m))
<1>1. c \in ToSet(P(r).conds) /\ HitsOf(y, r)[i] = y.hit[c] /\ HitsOf(State, r)[i] = hit[c]
  BY MessageHits
<1>2. ~Flipped(c, y.hit)
  BY <1>1 DEF Told
<1>. QED BY <1>1, <1>2 DEF Flipped

\* If one is enough for each condition, nothing has changed at all.
LEMMA NothingNewOn ==
  ASSUME NEW m \in Messages, EngineOK(State), NEW r \in RuleSet, ~Told(Updated(Caught(m)), r),
         NEW i \in 1 .. N(r),
         CondParams[P(r).conds[i]].tc = 1
  PROVE  LET g == HitsOf(Updated(Caught(m)), r)[i]
             h == HitsOf(State, r)[i]
         IN  DOMAIN g.on = DOMAIN h.on
<1>. DEFINE c == P(r).conds[i]
            g == HitsOf(Updated(Caught(m)), r)[i]
            h == HitsOf(State, r)[i]
<1>1. /\ HitOK(c, g) /\ HitOK(c, h)
      /\ g = h \/ \E w : CaptureOf(g, h, w) /\ g.on[w]
  BY MessageHits
<1>2. \A v \in DOMAIN g.on : g.on[v] => v \in DOMAIN h.on /\ h.on[v]
  BY NothingFlips
<1>. HIDE DEF c, g, h
<1>3. ASSUME NEW w, CaptureOf(g, h, w), g.on[w]
      PROVE  g.srcs = h.srcs /\ g.tgts = h.tgts
  BY <1>2, <1>3 DEF CaptureOf
<1>4. DOMAIN g.on = Cells(g.srcs, g.tgts) /\ DOMAIN h.on = Cells(h.srcs, h.tgts)
  BY <1>1, HitTables
<1>. QED BY <1>1, <1>3, <1>4 DEF g, h

\* Which values are true depends on the hitmaps of the rule's conditions.
LEMMA SameGood ==
  ASSUME NEW x, NEW y, NEW r \in RuleSet, SameHits(y, x, r)
  PROVE  GoodOf(y, r) = GoodOf(x, r) /\ HitsOf(y, r) = HitsOf(x, r)
<1>1. HitsOf(y, r) = HitsOf(x, r)
  <2>1. \A i \in DOMAIN P(r).conds : P(r).conds[i] \in ToSet(P(r).conds)
    BY DEF ToSet
  <2>. QED BY <2>1 DEF HitsOf, SameHits
<1>2. \A v : NamesOf(y, r, v) = NamesOf(x, r, v) /\ TrueSet(y, r, v) = TrueSet(x, r, v)
  BY <1>1 DEF NamesOf, TrueSet
<1>3. ValuesIn(y, r) = ValuesIn(x, r)
  BY <1>1 DEF ValuesIn
<1>. QED BY <1>1, <1>2, <1>3 DEF GoodOf

\* What was true stays true.
LEMMA GoodKept ==
  ASSUME NEW m \in Messages, EngineOK(State), NEW r \in RuleSet, NEW v \in GoodOf(State, r)
  PROVE  v \in GoodOf(Updated(Caught(m)), r)
<1>. DEFINE x == Updated(Caught(m))
<1>1. EngineOK(x) /\ HitsOK(x.hit) /\ HitsOK(State.hit) /\ Grown(x, State, r)
  BY CaughtOK, UpdatedOK, CaughtGrown DEF EngineOK
<1>2. \A i \in 1 .. N(r) : \A u \in DOMAIN HitsOf(State, r)[i].on :
        u \in DOMAIN HitsOf(x, r)[i].on /\ (HitsOf(State, r)[i].on[u] => HitsOf(x, r)[i].on[u])
  BY MessageOn
<1>. HIDE DEF x
<1>3. v \in ValuesIn(State, r) /\ Meets(r, NamesOf(State, r, v)) /\ Satisfied(P(r).expr, TrueSet(State, r, v))
  BY DEF GoodOf
<1>4. /\ v \in Tuples(r) /\ KeyFits(State, r, v)
      /\ \A i \in 1 .. N(r) : v[i] \in DOMAIN HitsOf(State, r)[i].on
  BY <1>1, <1>3, ValueFacts
<1>5. v \in ValuesIn(x, r)
  BY <1>2, <1>4, ValueIs DEF Tuples
<1>6. NamesOf(x, r, v) = NamesOf(State, r, v)
  BY <1>1, <1>4, GrownNames
<1>7. Satisfied(P(r).expr, TrueSet(x, r, v))
  <2>1. \A p \in Primaries(P(r).expr) : p.i \in 1 .. N(r)
    BY RuleFacts DEF IsBoolean
  <2>2. \A p \in Primaries(P(r).expr) : p \in TrueSet(State, r, v) => p \in TrueSet(x, r, v)
    BY <1>2, <1>4, <2>1 DEF TrueSet
  <2>. DEFINE T == TrueSet(State, r, v)
              U == TrueSet(x, r, v)
              e == P(r).expr
  <2>3. IsExpr(e) /\ e # <<>> /\ Satisfied(e, T) /\ \A p \in Primaries(e) : p \in T => p \in U
    BY <1>3, <2>2, RuleFacts
  <2>. HIDE DEF T, U, e
  <2>4. Satisfied(e, U)
    BY <2>3, SatisfiedMonotone
  <2>. QED BY <2>4 DEF U, e
<1>. QED BY <1>3, <1>5, <1>6, <1>7 DEF GoodOf, x

\* What becomes true has a cell that turns on.
LEMMA GoodOld ==
  ASSUME PairsSure, NEW m \in Messages, EngineOK(State), NEW r \in RuleSet, OnlyConds(r),
         ~Told(Updated(Caught(m)), r), NEW v \in GoodOf(Updated(Caught(m)), r)
  PROVE  v \in GoodOf(State, r)
<1>. DEFINE x == Updated(Caught(m))
            e == P(r).expr
<1>1. EngineOK(x) /\ HitsOK(x.hit) /\ HitsOK(State.hit) /\ Grown(x, State, r)
  BY CaughtOK, UpdatedOK, CaughtGrown DEF EngineOK
<1>2. \A i \in 1 .. N(r) : \A u \in DOMAIN HitsOf(x, r)[i].on :
        HitsOf(x, r)[i].on[u] => u \in DOMAIN HitsOf(State, r)[i].on /\ HitsOf(State, r)[i].on[u]
  BY NothingFlips
<1>3. \A i \in 1 .. N(r) : CondParams[P(r).conds[i]].tc = 1 =>
        DOMAIN HitsOf(x, r)[i].on = DOMAIN HitsOf(State, r)[i].on
  BY NothingNewOn
<1>. HIDE DEF x
<1>4. v \in ValuesIn(x, r) /\ Meets(r, NamesOf(x, r, v)) /\ Satisfied(e, TrueSet(x, r, v))
  BY DEF GoodOf, x
<1>5. /\ v \in Tuples(r) /\ DOMAIN v = 1 .. N(r)
      /\ \A i \in 1 .. N(r) : v[i] \in DOMAIN HitsOf(x, r)[i].on
  BY <1>1, <1>4, ValueFacts
<1>6. IsExpr(e) /\ e # <<>> /\ \A p \in Primaries(e) : p.i \in 1 .. N(r)
  BY RuleFacts DEF IsBoolean
<1>7. \A i \in 1 .. N(r) : v[i] \in DOMAIN HitsOf(State, r)[i].on
  <2>1. CASE \A c \in ToSet(P(r).conds) : CondParams[c].tc = 1
    <3>1. \A i \in 1 .. N(r) : CondParams[P(r).conds[i]].tc = 1
      BY <2>1, RuleFacts DEF ToSet
    <3>. QED BY <1>3, <1>5, <3>1
  <2>2. CASE \A a \in Alternatives(e) : {p.i : p \in {q \in ToSet(a) : q.type = "COND"}} = DOMAIN P(r).conds
    <3>. DEFINE T == TrueSet(x, r, v)
    <3>1. \E a \in Alternatives(e) : \A p \in ToSet(a) : p.type # "EXPR" => p \in T /\ p \in Primaries(e)
      <4>1. Satisfied(e, T)
        BY <1>4
      <4>. HIDE DEF T, e
      <4>. QED BY <1>6, <4>1, SatisfiedSome
    <3>2. PICK a \in Alternatives(e) : \A p \in ToSet(a) : p.type # "EXPR" => p \in T
      BY <3>1
    <3>3. ASSUME NEW i \in 1 .. N(r)
          PROVE  HitsOf(x, r)[i].on[v[i]]
      <4>1. i \in {p.i : p \in {q \in ToSet(a) : q.type = "COND"}}
        BY <2>2, RuleFacts
      <4>2. PICK p \in ToSet(a) : p.type = "COND" /\ p.i = i
        BY <4>1
      <4>. QED BY <3>2, <4>2 DEF TrueSet
    <3>. QED BY <1>2, <1>5, <3>3
  <2>. QED BY <2>1, <2>2 DEF PairsSure
<1>8. v \in ValuesIn(State, r)
  BY <1>5, <1>7, ValueIs DEF Tuples
<1>9. NamesOf(x, r, v) = NamesOf(State, r, v)
  <2>1. KeyFits(State, r, v)
    BY <1>1, <1>8, ValueFacts
  <2>. QED BY <1>1, <1>5, <2>1, GrownNames
<1>10. Satisfied(e, TrueSet(State, r, v))
  <2>. DEFINE T == TrueSet(x, r, v)
              U == TrueSet(State, r, v)
  <2>1. \A p \in Primaries(e) : p \in T => p \in U
    BY <1>2, <1>5, <1>6 DEF TrueSet
  <2>2. Satisfied(e, T)
    BY <1>4
  <2>. HIDE DEF T, U, e
  <2>3. Satisfied(e, U)
    BY <1>6, <2>1, <2>2, SatisfiedMonotone
  <2>. QED BY <2>3 DEF U
<1>. QED BY <1>4, <1>8, <1>9, <1>10 DEF GoodOf

-----------------------------------------------------------------------------
(* Rules of conditions alone alarm when they should, for what they should. *)

\* A value is in the domains exactly when its names meet the clause, if there is one.
LEMMA DomainsCover ==
  ASSUME StringsOnce, NEW x, EngineOK(x), NEW r \in RuleSet, DomainsOK(x, r),
         NEW v \in ValuesIn(x, r)
  PROVE  Denotes(x.rule[r].domains, v) <=> Meets(r, NamesOf(x, r, v))
<1>1. CASE P(r).where # <<>>
  BY <1>1, DomainsDenote
<1>2. CASE P(r).where = <<>>
  <2>. DEFINE d == AnyDomain(N(r))
  <2>1. x.rule[r].domains = <<d>>
    BY <1>2 DEF DomainsOK
  <2>2. InDomain(d, v)
    BY DEF InDomain, AnyDomain, AnyPair
  <2>. HIDE DEF d
  <2>3. Denotes(<<d>>, v)
    BY <2>2 DEF Denotes, ToSet
  <2>. QED BY <1>2, <2>1, <2>3 DEF Meets
<1>. QED BY <1>1, <1>2

\* What get_cond_range() makes of a domain with indices of names.
LEMMA RangeMembers ==
  ASSUME NEW x, HitsOK(x.hit), NEW r \in RuleSet, NEW d \in Proper(HitsOf(x, r), N(r)),
         NEW i \in 1 .. N(r), NEW u
  PROVE  LET h == HitsOf(x, r)[i]
         IN  u \in ToSet(CondRange(h, d[i])) <=>
               u \in Cells(h.srcs, h.tgts) /\ d[i][1] \in {D_ANY, u[1]} /\ d[i][2] \in {D_ANY, u[2]}
<1>. DEFINE h == HitsOf(x, r)[i]
            c == d[i]
            T == ToSet(NameOrder)
<1>1. h.srcs \in Seq(T) /\ h.tgts \in Seq(T)
  BY HitsTables DEF TablesOK, Table
<1>2. c \in CondDomain /\ Ranges(h.srcs, c[1]) /\ Ranges(h.tgts, c[2])
  BY DEF Proper, Clean, DomainsOfSize, Placed
<1>. HIDE DEF h, c, T
<1>3. ToSet(CondRange(h, c)) = ToSet(Indices(h.srcs, c[1])) \X ToSet(Indices(h.tgts, c[2]))
  BY <1>1, <1>2, CondRangeFacts
<1>4. ASSUME NEW table \in Seq(T), NEW j \in Index, Ranges(table, j)
      PROVE  \A k : k \in ToSet(Indices(table, j)) <=> k \in 0 .. Len(table) - 1 /\ j \in {D_ANY, k}
  <2>1. ToSet(Indices(table, j)) = IF j = D_ANY THEN 0 .. Len(table) - 1 ELSE {j}
    BY IndicesFacts
  <2>2. CASE j = D_ANY
    BY <2>1, <2>2
  <2>3. CASE j # D_ANY
    <3>1. j \in 0 .. Len(table) - 1
      BY <1>4, <2>3 DEF Ranges
    <3>. QED BY <2>1, <2>3, <3>1
  <2>. QED BY <2>2, <2>3
<1>5. c[1] \in Index /\ c[2] \in Index
  BY <1>2 DEF CondDomain
<1>6. /\ \A k : k \in ToSet(Indices(h.srcs, c[1])) <=> k \in 0 .. Len(h.srcs) - 1 /\ c[1] \in {D_ANY, k}
      /\ \A k : k \in ToSet(Indices(h.tgts, c[2])) <=> k \in 0 .. Len(h.tgts) - 1 /\ c[2] \in {D_ANY, k}
  BY <1>1, <1>2, <1>4, <1>5
<1>7. u \in ToSet(CondRange(h, c)) <=>
        u \in Cells(h.srcs, h.tgts) /\ c[1] \in {D_ANY, u[1]} /\ c[2] \in {D_ANY, u[2]}
  BY <1>3, <1>6 DEF Cells
<1>. QED BY <1>7 DEF h, c

\* What a rule of conditions alone looks through are values of its domains.
LEMMA ProductMembers ==
  ASSUME NEW x, EngineOK(x), NEW r \in RuleSet, OnlyConds(r), NEW d \in Proper(HitsOf(x, r), N(r)),
         NEW v
  PROVE  v \in Products(x, r, d, N(r)) <=> v \in ValuesIn(x, r) /\ InDomain(d, v)
<1>. DEFINE hs == HitsOf(x, r)
            n == N(r)
<1>0. HitsOK(x.hit) /\ DOMAIN d = 1 .. n
  BY DEF EngineOK, Proper, Clean, DomainsOfSize
<1>1. Primitive[r] = 1 .. n
  <2>1. {p.i : p \in Primaries(P(r).expr)} = 1 .. n
    BY RuleFacts DEF IsBoolean
  <2>. QED BY <2>1 DEF Primitive, OnlyConds
<1>2. \A i \in 1 .. n : PairsOf(x, r, d, i) = CondRange(hs[i], d[i])
  BY <1>1 DEF PairsOf
<1>3. \A i \in 1 .. n : \A u : u \in ToSet(PairsOf(x, r, d, i)) <=>
        u \in Cells(hs[i].srcs, hs[i].tgts) /\ d[i][1] \in {D_ANY, u[1]} /\ d[i][2] \in {D_ANY, u[2]}
  <2>. TAKE i \in 1 .. n
  <2>. TAKE u
  <2>1. u \in ToSet(CondRange(hs[i], d[i])) <=>
          u \in Cells(hs[i].srcs, hs[i].tgts) /\ d[i][1] \in {D_ANY, u[1]} /\ d[i][2] \in {D_ANY, u[2]}
    BY <1>0, RangeMembers
  <2>. QED BY <1>2, <2>1
<1>4. v \in ValuesIn(x, r) <=> v \in [1 .. n -> Nat \X Nat] /\ \A i \in 1 .. n : v[i] \in Cells(hs[i].srcs, hs[i].tgts)
  BY <1>0, ValuesInTables DEF InTables, ValuesOfSize
<1>5. v \in Products(x, r, d, n) <=> v \in [1 .. n -> CondDomain] /\ \A i \in 1 .. n : v[i] \in ToSet(PairsOf(x, r, d, i))
  BY DEF Products
<1>6. \A i \in 1 .. n : Cells(hs[i].srcs, hs[i].tgts) \subseteq Nat \X Nat
  <2>. TAKE i \in 1 .. n
  <2>1. Len(hs[i].srcs) \in Nat /\ Len(hs[i].tgts) \in Nat
    BY <1>0, HitsTables DEF TablesOK, Table
  <2>. QED BY <2>1 DEF Cells
<1>7. Nat \X Nat \subseteq CondDomain
  BY DEF CondDomain, Index
<1>. HIDE DEF hs, n
<1>8. v \in [1 .. n -> CondDomain] /\ (\A i \in 1 .. n : v[i] \in Cells(hs[i].srcs, hs[i].tgts))
        <=> v \in [1 .. n -> Nat \X Nat] /\ \A i \in 1 .. n : v[i] \in Cells(hs[i].srcs, hs[i].tgts)
  BY <1>6, <1>7
<1>9. InDomain(d, v) <=> \A i \in 1 .. n : d[i][1] \in {D_ANY, v[i][1]} /\ d[i][2] \in {D_ANY, v[i][2]}
  BY <1>0 DEF InDomain
<1>. QED BY <1>3, <1>4, <1>5, <1>8, <1>9 DEF n

\* What is looked at for a value is what is true of it.
LEMMA OnlyTrueIs ==
  ASSUME NEW x, EngineOK(x), NEW r \in RuleSet, OnlyConds(r), NEW t \in Trials(r),
         t.v \in ValuesIn(x, r)
  PROVE  /\ OnlyTrue(P(r).expr, CtxOf(x, r, t)) = TrueSet(x, r, t.v)
         /\ Timeless(P(r).expr)
         /\ \A j : Parts(P(r).expr, CtxOf(x, r, t), j) \subseteq {t.v[j]}
<1>. DEFINE ctx == CtxOf(x, r, t)
            hs == HitsOf(x, r)
            v == t.v
<1>1. ctx.hs = hs /\ ctx.value = v
  BY DEF CtxOf
<1>2. \A i \in 1 .. N(r) : v[i] \in DOMAIN hs[i].on
  BY ValueFacts DEF EngineOK
<1>3. \A p \in Primaries(P(r).expr) : p.type = "COND" /\ p.i \in 1 .. N(r)
  BY RuleFacts DEF IsBoolean, OnlyConds
<1>. HIDE DEF ctx, hs, v
<1>4. \A p \in Primaries(P(r).expr) : IsTrue(p, ctx) <=> hs[p.i].on[v[p.i]]
  BY <1>1, <1>2, <1>3 DEF IsTrue, IsOn
<1>5. \A p \in Primaries(P(r).expr) : Located(p, ctx, NullPair) = v[p.i]
  BY <1>1, <1>3, NullIsNull DEF Located
<1>6. \A j : Parts(P(r).expr, ctx, j) \subseteq {v[j]}
  BY <1>5 DEF Parts
<1>7. OnlyTrue(P(r).expr, ctx) = {p \in Primaries(P(r).expr) : hs[p.i].on[v[p.i]]}
  BY <1>4 DEF OnlyTrue
<1>. QED BY <1>3, <1>6, <1>7 DEF Timeless, TrueSet, ctx, hs, v

\* A key has indices of the value, except for conditions that were not looked at.
Partly(key, v, n) == \A i \in 1 .. n : key[i] \in {v[i], NullPair}

\* An alarm of a rule of conditions is for a value for which the rule is true.
LEMMA FreshGood ==
  ASSUME StringsOnce, NEW y, EngineOK(y), NEW r \in RuleSet, OnlyConds(r), DomainsOK(y, r),
         ProperDomains(y, r),
         NEW key, Fresh(y, r, key)
  PROVE  \E v \in GoodOf(y, r) : Partly(key, v, N(r))
<1>1. PICK t \in ToSet(Tries(y, r)), q \in GoodRounds : Attempt(y, r, t, q).new /\ key = Attempt(y, r, t, q).key
  BY DEF Fresh
<1>. DEFINE e == P(r).expr
            ctx == CtxOf(y, r, t)
            z == Value(y, r, t, q)
            v == t.v
            ds == y.rule[r].domains
<1>2. t \in Trials(r) /\ t.d \in ToSet(ds) /\ v \in Products(y, r, t.d, N(r))
  BY TrialIs
<1>3. v \in ValuesIn(y, r) /\ InDomain(t.d, v)
  BY <1>2, ProductMembers DEF ProperDomains
<1>4. Meets(r, NamesOf(y, r, v))
  <2>1. Denotes(ds, v)
    BY <1>2, <1>3 DEF Denotes
  <2>. QED BY <1>3, <2>1, DomainsCover
<1>5. /\ OnlyTrue(e, ctx) = TrueSet(y, r, v) /\ Timeless(e)
      /\ \A j : Parts(e, ctx, j) \subseteq {v[j]}
  BY <1>2, <1>3, OnlyTrueIs
<1>6. /\ z.b /\ \A j \in 1 .. N(r) : key[j] \in Parts(e, ctx, j) \cup {NullPair}
      /\ Timeless(e) => (z.b <=> Satisfied(e, OnlyTrue(e, ctx)))
  BY <1>1, <1>2, AttemptFacts
<1>7. v \in GoodOf(y, r)
  BY <1>3, <1>4, <1>5, <1>6 DEF GoodOf
<1>8. Partly(key, v, N(r))
  BY <1>5, <1>6 DEF Partly
<1>. QED BY <1>7, <1>8

\* If nothing new has come up, a rule that is true for some value has had its alarm.
LEMMA GoodTried ==
  ASSUME StringsOnce, NEW y, EngineOK(y), NEW r \in RuleSet, OnlyConds(r), DomainsOK(y, r),
         ProperDomains(y, r),
         NEW v \in GoodOf(y, r), NothingNew(y, r)
  PROVE  y.rule[r].alarms # {}
<1>. DEFINE e == P(r).expr
            ds == y.rule[r].domains
<1>1. v \in ValuesIn(y, r) /\ Meets(r, NamesOf(y, r, v)) /\ Satisfied(e, TrueSet(y, r, v))
  BY DEF GoodOf
<1>2. PICK d \in ToSet(ds) : InDomain(d, v)
  BY <1>1, DomainsCover DEF Denotes
<1>3. v \in Products(y, r, d, N(r))
  BY <1>1, <1>2, ProductMembers DEF ProperDomains
<1>. DEFINE t == Trial(d, v)
<1>4. t \in ToSet(Tries(y, r))
  <2>1. HitsOK(y.hit) /\ ds \in Seq(Tuples(r))
    BY DEF EngineOK, RulesOK, RuleOK, Tuples, N
  <2>. QED BY <1>3, <2>1, TriesFacts
<1>5. t.v = v
  BY DEF Trial
<1>. HIDE DEF t
<1>6. t \in Trials(r)
  BY <1>4, TrialIs
<1>7. PICK q \in GoodRounds : ~Attempt(y, r, t, q).new
  BY <1>4 DEF NothingNew
<1>. DEFINE ctx == CtxOf(y, r, t)
            z == Value(y, r, t, q)
<1>8. OnlyTrue(e, ctx) = TrueSet(y, r, v) /\ Timeless(e)
  BY <1>1, <1>5, <1>6, OnlyTrueIs
<1>9. z.b
  <2>1. Timeless(e) => (z.b <=> Satisfied(e, OnlyTrue(e, ctx)))
    BY <1>6, AttemptFacts
  <2>. QED BY <1>1, <1>8, <2>1
<1>10. Attempt(y, r, t, q).new <=> (z.b /\ \A a \in y.rule[r].alarms : a.key # z.alarm)
  BY <1>6, AttemptFacts
<1>. QED BY <1>7, <1>9, <1>10

-----------------------------------------------------------------------------
(* Whether they do, rule by rule.                                          *)

\* The rules that PairAlarms is about.
IsPair(r) == OnlyConds(r) /\ ~(EHS /\ P(r).act)
\* The rule has an alarm exactly when it is true for some value.
PairOK(x, r) ==
  /\ GoodOf(x, r) # {} <=> x.rule[r].alarms # {}
  /\ \A a \in x.rule[r].alarms : \E v \in GoodOf(x, r) : Partly(a.key, v, N(r))
\* The same, but for what the evaluation has still to do.
PairDue(x, r) ==
  /\ ~Told(x, r) => (GoodOf(x, r) # {} => x.rule[r].alarms # {})
  /\ \A a \in x.rule[r].alarms : \E v \in GoodOf(x, r) : Partly(a.key, v, N(r))

\* The evaluation does it.
LEMMA PairTurn ==
  ASSUME StringsOnce, NEW x, EngineOK(x), NEW r \in RuleSet, IsPair(r), PairDue(x, r),
         NEW f, NEW y, NEW z, Alone(x, f, y, z, r), ~f.failed
  PROVE  PairOK(f, r)
<1>1. /\ Turn(x, y, z, r) /\ y.rule[r] = x.rule[r] /\ f.rule[r] = z.rule[r] /\ SameHits(f, z, r) /\ ~z.failed
      /\ SameHits(y, x, r) /\ EngineOK(y) /\ DomainsOK(y, r)
  BY DEF Alone, Turn
<1>2. ~y.failed
  BY <1>1, TurnFailed
<1>3. GoodOf(y, r) = GoodOf(x, r) /\ GoodOf(f, r) = GoodOf(z, r)
  BY <1>1, SameGood
<1>4. CASE ~Told(x, r)
  <2>1. z = y
    BY <1>1, <1>4 DEF Turn
  <2>2. \A a \in x.rule[r].alarms : \E v \in GoodOf(x, r) : Partly(a.key, v, N(r))
    BY DEF PairDue
  <2>3. GoodOf(x, r) # {} => x.rule[r].alarms # {}
    BY <1>4 DEF PairDue
  <2>. QED BY <1>1, <1>3, <2>1, <2>2, <2>3 DEF PairOK
<1>5. CASE Told(x, r)
  <2>1. ProperDomains(y, r) /\ z = EvaluateRule(y, r)
    BY <1>1, <1>5 DEF Turn
  <2>2. \/ Quiet(z, y, r) /\ NothingNew(y, r)
        \/ \E key \in Tuples(r) : Fresh(y, r, key) /\ Alarmed(z, y, r, key)
    BY <1>1, <1>2, <2>1, EvaluateRuleFacts DEF Thrown, IsPair
  <2>3. z.hit = y.hit
    BY <2>2 DEF Quiet, Alarmed
  <2>4. GoodOf(z, r) = GoodOf(x, r)
    BY <1>3, <2>3, SameGood DEF SameHits
  <2>5. OnlyConds(r)
    BY DEF IsPair
  <2>6. \A a \in y.rule[r].alarms : \E v \in GoodOf(y, r) : Partly(a.key, v, N(r))
    BY <1>1, <1>3 DEF PairDue
  <2>7. CASE Quiet(z, y, r) /\ NothingNew(y, r)
    <3>1. GoodOf(y, r) # {} => y.rule[r].alarms # {}
      BY <1>1, <2>1, <2>5, <2>7, GoodTried
    <3>2. f.rule[r].alarms = y.rule[r].alarms
      BY <1>1, <2>7 DEF Quiet
    <3>. QED BY <1>3, <2>4, <2>6, <3>1, <3>2 DEF PairOK
  <2>8. ASSUME NEW key \in Tuples(r), Fresh(y, r, key), Alarmed(z, y, r, key)
        PROVE  PairOK(f, r)
    <3>. DEFINE a == AlarmOf(y, r, key)
    <3>1. a.key = key
      BY DEF AlarmOf
    <3>. HIDE DEF a
    <3>2. f.rule[r].alarms = y.rule[r].alarms \cup {a}
      BY <1>1, <2>8 DEF Alarmed, a
    <3>3. \E v \in GoodOf(y, r) : Partly(key, v, N(r))
      BY <1>1, <2>1, <2>5, <2>8, FreshGood
    <3>. QED BY <1>3, <2>4, <2>6, <3>1, <3>2, <3>3 DEF PairOK
  <2>. QED BY <2>2, <2>7, <2>8
<1>. QED BY <1>4, <1>5

\* A message leaves no more than that to do.
LEMMA PairMessage ==
  ASSUME PairsSure, NEW m \in Messages, EngineOK(State), NEW r \in RuleSet, IsPair(r),
         PairOK(State, r)
  PROVE  PairDue(Updated(Caught(m)), r)
<1>. DEFINE x == Updated(Caught(m))
<1>1. x.rule[r].alarms = State.rule[r].alarms
  <2>1. EngineOK(Caught(m)) /\ Caught(m).rule = rule
    BY CaughtOK
  <2>. QED BY <2>1, UpdatedOK, StateFields
<1>2. \A v \in GoodOf(State, r) : v \in GoodOf(x, r)
  BY GoodKept
<1>3. ~Told(x, r) => \A v \in GoodOf(x, r) : v \in GoodOf(State, r)
  BY GoodOld DEF IsPair
<1>. HIDE DEF x
<1>. QED BY <1>1, <1>2, <1>3 DEF PairDue, PairOK, x

\* After a reset there are no alarms, and nothing is on.
LEMMA GroundPair ==
  ASSUME NEW x, NEW r \in RuleSet, x.rule[r].alarms = {},
         \A c \in ToSet(P(r).conds) : x.hit[c] = GroundHit
  PROVE  PairOK(x, r)
<1>1. 1 \in 1 .. N(r) /\ DOMAIN P(r).conds = 1 .. N(r)
  BY RuleFacts
<1>2. HitsOf(x, r)[1] = GroundHit
  BY <1>1 DEF HitsOf, ToSet
<1>3. DOMAIN GroundHit.on = {}
  BY DEF GroundHit, Cells
<1>4. ValuesIn(x, r) = {}
  BY <1>1, <1>2, <1>3 DEF ValuesIn
<1>. QED BY <1>4 DEF PairOK, GoodOf

-----------------------------------------------------------------------------
(* Rules that count.                                                       *)

\* A list of one.
LEMMA OneMember ==
  ASSUME NEW s, s \in Seq(ToSet(s)), Len(s) = 1
  PROVE  ToSet(s) = {s[1]}
<1>1. DOMAIN s = 1 .. 1
  OBVIOUS
<1>. QED BY <1>1 DEF ToSet

\* An expression that is one primary.
LEMMA OnePrimary ==
  ASSUME NEW e, IsExpr(e), Len(e) = 1, Len(e[1]) = 1, Len(e[1][1]) = 1, e[1][1][1].type # "EXPR"
  PROVE  /\ Primaries(e) = {e[1][1][1]}
         /\ \A T : Satisfied(e, T) <=> e[1][1][1] \in T
<1>. DEFINE p == e[1][1][1]
<1>1. 1 \in 1 .. Len(e) /\ DOMAIN e = {1}
  BY ExprFacts
<1>2. e[1] \in Seq(ToSet(e[1])) /\ \A a \in ToSet(e[1]) : a \in Seq(ToSet(a))
  BY <1>1, ExprFacts
<1>3. ToSet(e[1]) = {e[1][1]}
  <2>. DEFINE s == e[1]
  <2>. HIDE DEF s
  <2>1. s \in Seq(ToSet(s)) /\ Len(s) = 1
    BY <1>2 DEF s
  <2>2. ToSet(s) = {s[1]}
    BY <2>1, OneMember
  <2>. QED BY <2>2 DEF s
<1>4. ToSet(e[1][1]) = {p}
  <2>. DEFINE s == e[1][1]
  <2>1. s \in Seq(ToSet(s)) /\ Len(s) = 1
    BY <1>2, <1>3
  <2>. HIDE DEF s
  <2>2. ToSet(s) = {s[1]}
    BY <2>1, OneMember
  <2>. QED BY <2>2 DEF s
<1>5. Primaries(e) = {p}
  <2>1. UNION {ToSet(e[k]) : k \in DOMAIN e} = ToSet(e[1])
    BY <1>1
  <2>2. UNION {ToSet(a) : a \in ToSet(e[1])} = {p}
    BY <1>3, <1>4
  <2>. QED BY <2>1, <2>2 DEF Primaries
<1>6. ASSUME NEW T
      PROVE  Satisfied(e, T) <=> p \in T
  <2>1. PICK Y : /\ Satisfied(e, T) <=> Len(e) \in Y
                 /\ \A k \in 1 .. Len(e) : k \in Y <=> Fulfilled(e[k], Y, T)
    BY SatisfiedIs
  <2>2. Satisfied(e, T) <=> Fulfilled(e[1], Y, T)
    BY <1>1, <2>1
  <2>3. Fulfilled(e[1], Y, T) <=> Yes(p, Y, T)
    BY <1>3, <1>4 DEF Fulfilled
  <2>. QED BY <2>2, <2>3 DEF Yes
<1>. QED BY <1>5, <1>6

\* The primary of a rule that counts, and what its groups are of.
Counter(r) == P(r).expr[1][1][1]
ArgOf(r) == IF GroupedBy(r) = 2 THEN "t" ELSE "s"

\* Whether n are as many as rule r wants.
Enough(r, n) ==
  LET p == Counter(r)
  IN  IF p.type = "COUNT" THEN compare(p.op, n, p.rhv)
      ELSE compare(p.op, 100 * n, p.rhv * GroupSize[p.group])

\* A rule that counts has one condition and one primary.
LEMMA CountRule ==
  ASSUME NEW r \in RuleSet, IsCount(r)
  PROVE  LET p == Counter(r)
         IN  /\ N(r) = 1 /\ Primaries(P(r).expr) = {p} /\ p.i = 1
             /\ p.type \in {"COUNT", "COUNT_PERCENT"} /\ p.rhv \in Int
             /\ p.arg \in {"SOURCE", "TARGET"} /\ GroupedBy(r) = (IF p.arg = "SOURCE" THEN 2 ELSE 1)
             /\ p.type = "COUNT_PERCENT" => GroupSize[p.group] \in Nat
             /\ \A T : Satisfied(P(r).expr, T) <=> p \in T
             /\ Timeless(P(r).expr) /\ Primitive[r] = {} /\ ~P(r).act
<1>. DEFINE e == P(r).expr
            p == e[1][1][1]
<1>1. IsExpr(e) /\ IsBoolean(e, N(r))
  BY RuleFacts
<1>2. /\ N(r) = 1 /\ Len(e) = 1 /\ Len(e[1]) = 1 /\ Len(e[1][1]) = 1 /\ ~P(r).act
      /\ p.type \in {"COUNT", "COUNT_PERCENT"} /\ p.arg # "MESSAGE"
  BY DEF IsCount, N
<1>3. /\ Primaries(e) = {p}
      /\ \A T : Satisfied(e, T) <=> p \in T
  BY <1>1, <1>2, OnePrimary
<1>4. {q.i : q \in Primaries(e)} = 1 .. 1
  BY <1>1, <1>2 DEF IsBoolean
<1>5. p.i = 1
  BY <1>3, <1>4
<1>6. p.rhv \in Int /\ p.arg \in {"SOURCE", "TARGET"}
  BY <1>1, <1>2, <1>3 DEF IsBoolean, IsComparison
<1>7. p.type = "COUNT_PERCENT" => GroupSize[p.group] \in Nat
  BY <1>3, DomainsAssumption
<1>8. Timeless(e) /\ Primitive[r] = {}
  <2>1. \A q \in Primaries(e) : q.type # "COND" /\ q.type # "IS_SYNCD"
    BY <1>2, <1>3
  <2>. QED BY <2>1 DEF Timeless, Primitive
<1>. QED BY <1>2, <1>3, <1>5, <1>6, <1>7, <1>8 DEF Counter, GroupedBy

\* The two comparisons that grow with the count.
LEMMA Compares ==
  ASSUME NEW op \in {">", ">="}, NEW v \in Int, NEW w \in Int
  PROVE  compare(op, v, w) <=> IF op = ">" THEN v > w ELSE v >= w
<1>1. CASE op = ">"
  BY <1>1 DEF compare
<1>2. CASE op = ">="
  BY <1>2 DEF compare
<1>. QED BY <1>1, <1>2

\* None are too few, and one more is never too many.
LEMMA EnoughFacts ==
  ASSUME CountsSure, NEW r \in RuleSet, IsCount(r)
  PROVE  /\ ~Enough(r, 0)
         /\ \A m, n \in Nat : m <= n /\ Enough(r, m) => Enough(r, n)
<1>. DEFINE p == Counter(r)
            total == IF p.type = "COUNT" THEN 1 ELSE GroupSize[p.group]
            w == IF p.type = "COUNT" THEN p.rhv ELSE p.rhv * GroupSize[p.group]
            each == IF p.type = "COUNT" THEN 1 ELSE 100
<1>1. p.op \in {">", ">="} /\ ~compare(p.op, 0, p.rhv * total)
  BY DEF CountsSure, Counter
<1>2. p.rhv \in Int /\ p.type \in {"COUNT", "COUNT_PERCENT"} /\ (p.type # "COUNT" => GroupSize[p.group] \in Nat)
  BY CountRule
<1>3. w \in Int /\ w = p.rhv * total /\ each \in Nat \ {0}
  BY <1>2
<1>4. \A n \in Nat : each * n \in Int /\ (Enough(r, n) <=> compare(p.op, each * n, w))
  BY DEF Enough
<1>5. \A m, n \in Nat : m <= n => each * m <= each * n
  OBVIOUS
<1>6. each * 0 = 0
  BY <1>3
<1>. HIDE DEF each, w, total, p
<1>7. ~Enough(r, 0)
  BY <1>1, <1>3, <1>4, <1>6
<1>8. ASSUME NEW m \in Nat, NEW n \in Nat, m <= n, Enough(r, m)
      PROVE  Enough(r, n)
  <2>1. compare(p.op, each * m, w) /\ each * m <= each * n
    BY <1>4, <1>5, <1>8
  <2>2. compare(p.op, each * n, w)
    <3>. DEFINE i == each * m
                j == each * n
    <3>1. i \in Int /\ j \in Int /\ i <= j /\ compare(p.op, i, w)
      BY <1>4, <2>1
    <3>. HIDE DEF i, j
    <3>2. compare(p.op, j, w)
      BY <1>1, <1>3, <3>1, Compares
    <3>. QED BY <3>2 DEF j
  <2>. QED BY <1>4, <2>2
<1>. QED BY <1>7, <1>8

\* A percentage of an empty group.
LEMMA PercentOfNone ==
  ASSUME NEW n \in Nat, NEW pct
  PROVE  PercentCompare(">", n, 0, pct) <=> n > 0
<1>1. CASE n > 0
  <2>. DEFINE some == ">" \in {">", ">=", "!="}
  <2>1. some
    OBVIOUS
  <2>. HIDE DEF some
  <2>2. PercentCompare(">", n, 0, pct) = some
    BY <1>1 DEF PercentCompare, some
  <2>. QED BY <1>1, <2>1, <2>2
<1>2. CASE n = 0
  BY <1>2 DEF PercentCompare
<1>. QED BY <1>1, <1>2

\* Without participants too, a share compares like a count.
LEMMA PercentEnough ==
  ASSUME CountsSure, NEW r \in RuleSet, IsCount(r), NEW n \in Nat, Counter(r).type = "COUNT_PERCENT"
  PROVE  PercentCompare(Counter(r).op, n, GroupSize[Counter(r).group], Counter(r).rhv) <=> Enough(r, n)
<1>. DEFINE p == Counter(r)
            total == GroupSize[p.group]
            w == p.rhv * total
<1>1. p.op \in {">", ">="} /\ ~compare(p.op, 0, w)
  BY DEF CountsSure, Counter
<1>2. p.rhv \in Int /\ total \in Nat
  BY CountRule
<1>3. w \in Int /\ (total = 0 => w = 0)
  BY <1>2
<1>4. Enough(r, n) <=> compare(p.op, 100 * n, w)
  BY DEF Enough
<1>5. CASE total > 0
  <2>1. PercentCompare(p.op, n, total, p.rhv) = compare(p.op, 100 * n, w)
    BY <1>5 DEF PercentCompare
  <2>. QED BY <1>4, <2>1
<1>6. CASE total = 0
  <2>0. p.op = ">"
    <3>. HIDE DEF w
    <3>1. ~compare(p.op, 0, 0)
      BY <1>1, <1>3, <1>6
    <3>. QED BY <1>1, <3>1, Compares
  <2>1. Enough(r, n) <=> 100 * n > 0
    <3>. HIDE DEF w
    <3>. QED BY <1>3, <1>4, <1>6, <2>0, Compares
  <2>2. PercentCompare(">", n, 0, p.rhv) <=> n > 0
    BY PercentOfNone
  <2>3. n > 0 <=> 100 * n > 0
    OBVIOUS
  <2>. HIDE DEF p, total
  <2>4. PercentCompare(p.op, n, total, p.rhv) <=> Enough(r, n)
    BY <1>6, <2>0, <2>1, <2>2, <2>3
  <2>. QED BY <2>4 DEF p, total
<1>. QED BY <1>2, <1>5, <1>6

-----------------------------------------------------------------------------
(* Counting cells.                                                         *)

\* The cells of a group that are on.
CellsOn(h, j, g) == {v \in DOMAIN h.on : h.on[v] /\ v[j] = g}
HalfArg(j) == IF j = 2 THEN "t" ELSE "s"

\* As many images as members.
LEMMA SameNumber ==
  ASSUME NEW S, IsFiniteSet(S), NEW k, \A u, v \in S : u[k] = v[k] => u = v
  PROVE  Cardinality({v[k] : v \in S}) = Cardinality(S)
<1>. DEFINE f == [v \in S |-> v[k]]
            T == {v[k] : v \in S}
<1>1. f \in [S -> T] /\ \A v \in S : f[v] = v[k]
  OBVIOUS
<1>2. \A t \in T : \E v \in S : t = v[k]
  OBVIOUS
<1>. HIDE DEF f, T
<1>3. IsInjective(f)
  BY <1>1 DEF IsInjective
<1>4. f \in Bijection(S, T)
  BY <1>1, <1>2, <1>3 DEF Bijection, Injection, Surjection
<1>5. ExistsBijection(S, T)
  BY <1>4 DEF ExistsBijection
<1>6. Cardinality(T) = Cardinality(S)
  BY <1>5, FS_Bijection
<1>. QED BY <1>6 DEF T

\* There are finitely many such cells.
LEMMA CellsFinite ==
  ASSUME NEW c, NEW h, HitOK(c, h), NEW j, NEW g
  PROVE  IsFiniteSet(CellsOn(h, j, g)) /\ Cardinality(CellsOn(h, j, g)) \in Nat
<1>1. DOMAIN h.on = Cells(h.srcs, h.tgts) /\ Len(h.srcs) \in Nat /\ Len(h.tgts) \in Nat
  BY HitTables
<1>2. IsFiniteSet(0 .. Len(h.srcs) - 1) /\ IsFiniteSet(0 .. Len(h.tgts) - 1)
  <2>1. ASSUME NEW n \in Nat
        PROVE  IsFiniteSet(0 .. n - 1)
    <3>1. 0 \in Int /\ n - 1 \in Int
      OBVIOUS
    <3>. QED BY <3>1, FS_Interval
  <2>. QED BY <1>1, <2>1
<1>3. IsFiniteSet(Cells(h.srcs, h.tgts))
  BY <1>2, FS_Product DEF Cells
<1>4. CellsOn(h, j, g) \subseteq Cells(h.srcs, h.tgts)
  BY <1>1 DEF CellsOn
<1>5. IsFiniteSet(CellsOn(h, j, g))
  BY <1>3, <1>4, FS_Subset
<1>. QED BY <1>5, FS_CardinalityType

\* get_alarm_count() of the domain of a group counts its cells that are on.
LEMMA Counting ==
  ASSUME NEW c, NEW h, HitOK(c, h), NEW j \in {1, 2}, NEW g \in 0 .. Len(Table(h, HalfArg(j))) - 1
  PROVE  AlarmCount(h, Single(g, HalfArg(j)), IF j = 2 THEN "SOURCE" ELSE "TARGET")
           = Cardinality(CellsOn(h, j, g))
<1>. DEFINE d == Single(g, HalfArg(j))
            on == {v \in ToSet(CondRange(h, d)) : IsOn(h, v)}
            S == CellsOn(h, j, g)
            X == ToSet(NameOrder)
<1>1. /\ h.srcs \in Seq(X) /\ h.tgts \in Seq(X)
      /\ Len(h.srcs) \in Nat /\ Len(h.tgts) \in Nat /\ DOMAIN h.on = Cells(h.srcs, h.tgts)
  BY HitTables
<1>2. g \in Nat /\ g # D_ANY /\ D_ANY \in Index /\ g \in Index
  BY <1>1 DEF Table, D_ANY, Index
<1>3. d = (IF j = 2 THEN <<D_ANY, g>> ELSE <<g, D_ANY>>) /\ d \in CondDomain
  BY <1>2 DEF Single, HalfArg, CondDomain
<1>4. \A v : v \in ToSet(CondRange(h, d)) <=>
        v \in Cells(h.srcs, h.tgts) /\ v[j] = g
  <2>1. ToSet(CondRange(h, d)) = ToSet(Indices(h.srcs, d[1])) \X ToSet(Indices(h.tgts, d[2]))
    BY <1>1, <1>3, CondRangeFacts
  <2>2. /\ ToSet(Indices(h.srcs, D_ANY)) = 0 .. Len(h.srcs) - 1 /\ ToSet(Indices(h.srcs, g)) = {g}
        /\ ToSet(Indices(h.tgts, D_ANY)) = 0 .. Len(h.tgts) - 1 /\ ToSet(Indices(h.tgts, g)) = {g}
    BY <1>1, <1>2, IndicesFacts
  <2>3. CASE j = 2
    <3>1. ToSet(CondRange(h, d)) = (0 .. Len(h.srcs) - 1) \X {g}
      BY <1>3, <2>1, <2>2, <2>3
    <3>2. g \in 0 .. Len(h.tgts) - 1
      BY <2>3 DEF HalfArg, Table
    <3>. QED BY <2>3, <3>1, <3>2 DEF Cells
  <2>4. CASE j = 1
    <3>1. ToSet(CondRange(h, d)) = {g} \X (0 .. Len(h.tgts) - 1)
      BY <1>3, <2>1, <2>2, <2>4
    <3>2. g \in 0 .. Len(h.srcs) - 1
      BY <2>4 DEF HalfArg, Table
    <3>. QED BY <2>4, <3>1, <3>2 DEF Cells
  <2>. QED BY <2>3, <2>4
<1>. HIDE DEF d
<1>5. on = S
  BY <1>1, <1>4 DEF CellsOn, IsOn
<1>. HIDE DEF on, S
<1>6. IsFiniteSet(S)
  BY CellsFinite DEF S
<1>7. \A v \in S : v \in Cells(h.srcs, h.tgts) /\ v[j] = g
  BY <1>1 DEF S, CellsOn
<1>8. \A u, v \in S : u[3 - j] = v[3 - j] => u = v
  <2>1. \A u, v \in S : u = <<u[1], u[2]>> /\ v = <<v[1], v[2]>> /\ u[j] = v[j]
    BY <1>7 DEF Cells
  <2>2. CASE j = 1
    BY <2>1, <2>2
  <2>3. CASE j = 2
    BY <2>1, <2>3
  <2>. QED BY <2>2, <2>3
<1>9. Cardinality({v[3 - j] : v \in S}) = Cardinality(S)
  BY <1>6, <1>8, SameNumber
<1>10. AlarmCount(h, d, IF j = 2 THEN "SOURCE" ELSE "TARGET") = Cardinality({v[3 - j] : v \in S})
  <2>1. CASE j = 1
    <3>1. AlarmCount(h, d, "TARGET") = Cardinality({v[2] : v \in on})
      BY DEF AlarmCount, on
    <3>. QED BY <1>5, <2>1, <3>1
  <2>2. CASE j = 2
    <3>1. AlarmCount(h, d, "SOURCE") = Cardinality({v[1] : v \in on})
      BY DEF AlarmCount, on
    <3>. QED BY <1>5, <2>2, <3>1
  <2>. QED BY <2>1, <2>2
<1>. QED BY <1>9, <1>10 DEF d, S

\* The names of the groups.
GroupTable(x, r) == Table(HitsOf(x, r)[1], ArgOf(r))

\* The groups that are as many as rule r wants.
WantedIn(x, r) ==
  LET h == HitsOf(x, r)[1]
      j == GroupedBy(r)
  IN  {g \in {v[j] : v \in DOMAIN h.on} : Enough(r, Cardinality(CellsOn(h, j, g)))}

\* They are groups of the table.
LEMMA WantedMembers ==
  ASSUME CountsSure, NEW r \in RuleSet, IsCount(r), NEW x, HitsOK(x.hit), NEW g
  PROVE  LET h == HitsOf(x, r)[1]
             j == GroupedBy(r)
         IN  /\ g \in WantedIn(x, r) <=> Enough(r, Cardinality(CellsOn(h, j, g)))
             /\ g \in WantedIn(x, r) => g \in 0 .. Len(GroupTable(x, r)) - 1
<1>. DEFINE h == HitsOf(x, r)[1]
            j == GroupedBy(r)
            n == Cardinality(CellsOn(h, j, g))
<1>1. HitOK(P(r).conds[1], h)
  <2>1. 1 \in 1 .. N(r)
    BY RuleFacts
  <2>. QED BY <2>1, HitsTables, RuleFacts DEF HitsOK
<1>2. DOMAIN h.on = Cells(h.srcs, h.tgts) /\ j \in {1, 2} /\ ArgOf(r) = HalfArg(j)
  BY <1>1, HitTables DEF GroupedBy, ArgOf, HalfArg
<1>. HIDE DEF h
<1>3. Enough(r, n) => \E v \in DOMAIN h.on : v[j] = g
  <2>1. SUFFICES ASSUME ~\E v \in DOMAIN h.on : v[j] = g
                 PROVE  ~Enough(r, n)
    OBVIOUS
  <2>2. CellsOn(h, j, g) = {}
    BY <2>1 DEF CellsOn
  <2>. QED BY <2>2, FS_EmptySet, EnoughFacts
<1>4. \A v \in DOMAIN h.on : v[j] \in 0 .. Len(Table(h, HalfArg(j))) - 1
  <2>1. \A v \in Cells(h.srcs, h.tgts) : v[1] \in 0 .. Len(h.srcs) - 1 /\ v[2] \in 0 .. Len(h.tgts) - 1
    BY DEF Cells
  <2>2. CASE j = 1
    BY <1>2, <2>1, <2>2 DEF Table, HalfArg
  <2>3. CASE j = 2
    BY <1>2, <2>1, <2>3 DEF Table, HalfArg
  <2>. QED BY <1>2, <2>2, <2>3
<1>5. g \in WantedIn(x, r) <=> (\E v \in DOMAIN h.on : v[j] = g) /\ Enough(r, n)
  BY DEF WantedIn, h
<1>. QED BY <1>2, <1>3, <1>4, <1>5 DEF GroupTable, h

-----------------------------------------------------------------------------
(* The domains of a rule that counts are its groups.                       *)

\* The domains that a rule that counts may have: one group each.
GroupDomains(hs, arg) ==
  {d \in Proper(hs, 1) : \E g \in 0 .. Len(Table(hs[1], arg)) - 1 : d = <<Single(g, arg)>>}

\* The domain of one group.
LEMMA GroupDomainFacts ==
  ASSUME NEW g \in Nat, NEW arg \in {"s", "t"}
  PROVE  /\ Single(g, arg) \in CondDomain /\ ~CondIsNull(Single(g, arg))
         /\ Single(g, arg)[IF arg = "s" THEN 1 ELSE 2] = g
         /\ Single(g, arg)[IF arg = "s" THEN 2 ELSE 1] = D_ANY
<1>1. g \in Index /\ D_ANY \in Index
  BY DEF Index
<1>2. g # D_NIL /\ D_ANY # D_NIL
  BY DEF D_ANY, D_NIL
<1>3. CASE arg = "s"
  BY <1>1, <1>2, <1>3 DEF Single, CondDomain, CondIsNull
<1>4. CASE arg = "t"
  BY <1>1, <1>2, <1>4 DEF Single, CondDomain, CondIsNull
<1>. QED BY <1>3, <1>4

\* Two different groups have nothing in common.
LEMMA GroupDomainsClosed ==
  ASSUME NEW hs, TablesOK(hs, 1), NEW arg \in {"s", "t"}
  PROVE  Closed(GroupDomains(hs, arg), 1)
<1>. DEFINE C == GroupDomains(hs, arg)
<1>1. C \subseteq Clean(1)
  BY DEF GroupDomains, Proper
<1>2. ASSUME NEW d1 \in C, NEW d2 \in C
      PROVE  Intersect(d1, d2) \in C \cup {NullDomain}
  <2>1. PICK g1, g2 \in 0 .. Len(Table(hs[1], arg)) - 1 : d1 = <<Single(g1, arg)>> /\ d2 = <<Single(g2, arg)>>
    BY DEF GroupDomains
  <2>2. ~IsNull(d1) /\ ~IsNull(d2)
    BY <1>1 DEF Clean
  <2>. DEFINE c == CondIntersect(d1[1], d2[1])
              d == [i \in DOMAIN d1 |-> CondIntersect(d1[i], d2[i])]
  <2>3. g1 \in Nat /\ g2 \in Nat /\ g1 # D_ANY /\ g2 # D_ANY /\ g1 # D_NIL
    <3>1. Len(Table(hs[1], arg)) \in Nat
      BY DEF TablesOK
    <3>. QED BY <2>1, <3>1 DEF D_ANY, D_NIL
  <2>4. d = <<c>> /\ DOMAIN d = {1} /\ d[1] = c
    <3>1. DOMAIN d1 = {1}
      BY <2>1
    <3>. HIDE DEF c
    <3>2. d = [i \in {1} |-> c]
      BY <3>1 DEF c
    <3>. QED BY <3>2
  <2>5. CASE g1 = g2
    <3>1. c = Single(g1, arg)
      <4>1. d1[1] = d2[1] /\ d1[1] = Single(g1, arg)
        BY <2>1, <2>5
      <4>2. and_op(g1, g1) = g1 /\ and_op(D_ANY, D_ANY) = D_ANY
        BY DEF and_op
      <4>3. ~CondIsNull(Single(g1, arg))
        BY <2>3, GroupDomainFacts, Zenon
      <4>. QED BY <4>1, <4>2, <4>3 DEF CondIntersect, Single
    <3>2. d = d1
      BY <2>1, <2>4, <3>1
    <3>3. Intersect(d1, d2) = d1
      BY <2>2, <3>2 DEF Intersect
    <3>. QED BY <3>3
  <2>6. CASE g1 # g2
    <3>1. c = NullPair
      <4>1. and_op(g1, g2) = D_NIL
        BY <2>3, <2>6 DEF and_op
      <4>2. d1[1] = Single(g1, arg) /\ d2[1] = Single(g2, arg)
        BY <2>1
      <4>. QED BY <4>1, <4>2 DEF CondIntersect, Single, CondIsNull
    <3>2. IsNull(d)
      BY <2>4, <3>1, NullIsNull DEF IsNull
    <3>3. Intersect(d1, d2) = NullDomain
      BY <2>2, <3>2 DEF Intersect
    <3>. QED BY <3>3
  <2>. QED BY <2>5, <2>6
<1>. QED BY <1>1, <1>2 DEF Closed

\* A rule that counts has such domains and no others.
LEMMA GroupsOnly ==
  ASSUME CountsSure, NEW r \in RuleSet, IsCount(r), NEW x, HitsOK(x.hit)
  PROVE  DomainsOf(x, r) \in Seq(GroupDomains(HitsOf(x, r), ArgOf(r)))
<1>. DEFINE hs == HitsOf(x, r)
            e == P(r).where
            arg == ArgOf(r)
            a == [i |-> 1, arg |-> arg]
            p == [type |-> "COND", args |-> <<a>>]
            C == GroupDomains(hs, arg)
<1>1. e = << << <<p>> >> >> /\ arg \in {"s", "t"}
  BY DEF CountsSure, ArgOf
<1>2. TablesOK(hs, 1) /\ IsExpr(e) /\ e # <<>> /\ N(r) = 1
  <2>1. N(r) = 1
    BY CountRule
  <2>2. TablesOK(hs, N(r)) /\ IsWhere(e, N(r))
    BY HitsTables, RuleFacts
  <2>3. IsExpr(e) /\ e # <<>>
    BY <1>1, <2>2 DEF IsWhere
  <2>. QED BY <2>1, <2>2, <2>3
<1>3. Primaries(e) = {p}
  <2>1. Len(e) = 1 /\ Len(e[1]) = 1 /\ Len(e[1][1]) = 1 /\ e[1][1][1] = p /\ p.type # "EXPR"
    BY <1>1
  <2>. HIDE DEF e, p
  <2>. QED BY <1>2, <2>1, OnePrimary
<1>. HIDE DEF e, hs, arg
<1>4. ASSUME NEW below
      PROVE  DomainCond(hs, p, below) \in Seq(C)
  <2>. DEFINE ds == EqualDomains(hs, <<a>>)
  <2>1. DomainCond(hs, p, below) = ds
    BY DEF DomainCond
  <2>2. a \in ArgSet(1) /\ <<a>> \in Seq(ArgSet(1)) /\ <<a>> # <<>>
    BY <1>1 DEF ArgSet
  <2>3. ds \in Seq(Proper(hs, 1))
    <3>. DEFINE args == <<a>>
    <3>1. args \in Seq(ArgSet(1)) /\ args # <<>> /\ 1 \in Nat \ {0}
      BY <2>2
    <3>. HIDE DEF args
    <3>2. EqualDomains(hs, args) \in Seq(Proper(hs, 1))
      BY <1>2, <3>1, EqualProper
    <3>. QED BY <3>2 DEF args
  <2>4. ASSUME NEW d \in ToSet(ds)
        PROVE  d \in C
    <3>1. d \in Proper(hs, 1)
      BY <2>3, <2>4 DEF ToSet
    <3>. DEFINE known == {n \in ToSet(NameOrder) : \A b \in ToSet(<<a>>) : FindArg(hs[b.i], n, b.arg) # D_NIL}
                names == Keep(NameOrder, known)
                index(n, i, g) == IF [i |-> i, arg |-> g] \in ToSet(<<a>>) THEN FindArg(hs[i], n, g) ELSE D_ANY
    <3>2. ds = [k \in DOMAIN names |-> [i \in 1 .. Len(hs) |-> <<index(names[k], i, "s"), index(names[k], i, "t")>>]]
      BY DEF EqualDomains
    <3>3. PICK k \in DOMAIN names : d = [i \in 1 .. Len(hs) |-> <<index(names[k], i, "s"), index(names[k], i, "t")>>]
      <4>. HIDE DEF known, names, index, ds
      <4>. QED BY <2>4, <3>2 DEF ToSet
    <3>4. names[k] \in known
      <4>. HIDE DEF known
      <4>1. ToSet(names) = ToSet(NameOrder) \cap known
        BY KeepSet, OrderFacts
      <4>. QED BY <3>3, <4>1 DEF ToSet
    <3>. DEFINE n == names[k]
                g == FindArg(hs[1], n, arg)
    <3>5. ToSet(<<a>>) = {a}
      BY DEF ToSet
    <3>6. g # D_NIL
      BY <3>4, <3>5
    <3>. HIDE DEF known, names
    <3>7. g \in 0 .. Len(Table(hs[1], arg)) - 1
      <4>1. Table(hs[1], arg) \in Seq(ToSet(NameOrder)) /\ IsInjective(Table(hs[1], arg))
        BY <1>1, <1>2 DEF TablesOK
      <4>. QED BY <3>6, <4>1, FindArgFacts
    <3>8. index(n, 1, "s") = (IF arg = "s" THEN g ELSE D_ANY) /\ index(n, 1, "t") = (IF arg = "t" THEN g ELSE D_ANY)
      BY <1>1, <3>5
    <3>. HIDE DEF index, g
    <3>9. d = <<Single(g, arg)>>
      <4>1. d = [i \in 1 .. 1 |-> <<index(n, i, "s"), index(n, i, "t")>>]
        BY <1>2, <3>3 DEF TablesOK
      <4>2. d = << <<index(n, 1, "s"), index(n, 1, "t")>> >>
        BY <4>1
      <4>. QED BY <1>1, <3>8, <4>2 DEF Single
    <3>. QED BY <3>1, <3>7, <3>9 DEF GroupDomains
  <2>. HIDE DEF ds, C
  <2>. QED BY <2>1, <2>3, <2>4, SeqOfMembers
<1>5. Closed(C, 1)
  BY <1>1, <1>2, GroupDomainsClosed
<1>. HIDE DEF C, p
<1>6. \A q \in Primaries(e) : \A below : DomainCond(hs, q, below) \in Seq(C)
  BY <1>3, <1>4
<1>7. DomainExpr(hs, e) \in Seq(C)
  BY <1>2, <1>5, <1>6, DomainExprIn
<1>. QED BY <1>7 DEF C, DomainsOf, hs, e, arg

-----------------------------------------------------------------------------
(* What a rule that counts tries.                                          *)

\* Every group that is as many has a domain.
LEMMA WantedCovered ==
  ASSUME StringsOnce, CountsSure, NEW x, EngineOK(x), NEW r \in RuleSet, IsCount(r),
         DomainsOK(x, r),
         NEW g \in WantedIn(x, r)
  PROVE  <<Single(g, ArgOf(r))>> \in ToSet(x.rule[r].domains)
<1>. DEFINE h == HitsOf(x, r)[1]
            j == GroupedBy(r)
            arg == ArgOf(r)
            hs == HitsOf(x, r)
            ds == x.rule[r].domains
            e == P(r).where
<1>1. HitsOK(x.hit) /\ N(r) = 1 /\ e # <<>> /\ TablesOK(hs, 1)
  <2>1. HitsOK(x.hit) /\ N(r) = 1 /\ e # <<>>
    BY CountRule DEF EngineOK, IsCount
  <2>. QED BY <2>1, HitsTables
<1>2. PICK u \in DOMAIN h.on : u[j] = g
  BY DEF WantedIn
<1>. DEFINE v == [i \in 1 .. 1 |-> u]
<1>3. v[1] = u /\ v \in ValuesIn(x, r)
  <2>1. \A i \in 1 .. N(r) : v[i] \in DOMAIN hs[i].on
    BY <1>1, <1>2
  <2>2. v \in [1 .. N(r) -> {u}]
    BY <1>1
  <2>. HIDE DEF v, hs
  <2>3. v \in ValuesIn(x, r)
    BY <2>1, <2>2, ValueIs DEF hs
  <2>. QED BY <2>3 DEF v
<1>. HIDE DEF v
<1>4. Meets(r, NamesOf(x, r, v))
  <2>. DEFINE names == NamesOf(x, r, v)
              a == [i |-> 1, arg |-> arg]
              p == [type |-> "COND", args |-> <<a>>]
              T == {q \in Primaries(e) : Equates(q, names)}
  <2>1. e = << << <<p>> >> >>
    BY DEF CountsSure, ArgOf
  <2>2. IsExpr(e)
    BY RuleFacts DEF IsWhere
  <2>3. p.type = "COND" /\ p.args = <<a>> /\ ToSet(<<a>>) = {a}
    BY DEF ToSet
  <2>. HIDE DEF a, names
  <2>4. Equates(p, names)
    BY <2>3 DEF Equates
  <2>5. Primaries(e) = {p} /\ \A X : Satisfied(e, X) <=> p \in X
    <3>1. Len(e) = 1 /\ Len(e[1]) = 1 /\ Len(e[1][1]) = 1 /\ e[1][1][1] = p /\ p.type # "EXPR"
      BY <2>1, <2>3
    <3>. HIDE DEF e, p
    <3>. QED BY <2>2, <3>1, OnePrimary
  <2>. HIDE DEF p
  <2>6. p \in T
    BY <2>4, <2>5
  <2>. HIDE DEF T
  <2>7. Satisfied(e, T)
    BY <2>5, <2>6
  <2>. QED BY <2>7 DEF Meets, T, names
<1>5. PICK d \in ToSet(ds) : InDomain(d, v)
  BY <1>1, <1>3, <1>4, DomainsDenote DEF Denotes
<1>6. ds \in Seq(GroupDomains(hs, arg))
  <2>1. ds = DomainsOf(x, r)
    BY <1>1, <1>3, DomainsKnown
  <2>. QED BY <1>1, <2>1, GroupsOnly
<1>7. d \in GroupDomains(hs, arg)
  <2>. HIDE DEF ds
  <2>. QED BY <1>5, <1>6 DEF ToSet
<1>8. PICK k \in 0 .. Len(Table(hs[1], arg)) - 1 : d = <<Single(k, arg)>>
  BY <1>7 DEF GroupDomains
<1>9. arg \in {"s", "t"} /\ j = (IF arg = "s" THEN 1 ELSE 2) /\ k \in Nat
  <2>1. arg \in {"s", "t"} /\ j = (IF arg = "s" THEN 1 ELSE 2)
    BY DEF GroupedBy, ArgOf
  <2>2. Len(Table(hs[1], arg)) \in Nat
    BY <1>1, <2>1 DEF TablesOK
  <2>. QED BY <2>1, <2>2
<1>10. Single(k, arg)[j] = k /\ k # D_ANY
  BY <1>9, GroupDomainFacts DEF D_ANY
<1>. HIDE DEF arg, j, ds, hs, h
<1>11. d[1] = Single(k, arg) /\ 1 \in DOMAIN d
  BY <1>8
<1>12. j \in {1, 2} /\ d[1][j] \in {D_ANY, u[j]}
  BY <1>3, <1>5, <1>9, <1>11 DEF InDomain
<1>13. k = g
  BY <1>2, <1>10, <1>11, <1>12
<1>. QED BY <1>5, <1>8, <1>13 DEF arg, ds

\* What is looked at for the domain of a group is how many it is.
LEMMA CountTrial ==
  ASSUME CountsSure, NEW x, EngineOK(x), NEW r \in RuleSet, IsCount(r), NEW t \in Trials(r),
         NEW q \in GoodRounds,
         NEW g \in 0 .. Len(GroupTable(x, r)) - 1, t.d = <<Single(g, ArgOf(r))>>
  PROVE  /\ Value(x, r, t, q).b <=> g \in WantedIn(x, r)
         /\ Value(x, r, t, q).b => Attempt(x, r, t, q).key[1] = Single(g, ArgOf(r))
<1>. DEFINE e == P(r).expr
            p == Counter(r)
            ctx == CtxOf(x, r, t)
            z == Value(x, r, t, q)
            h == HitsOf(x, r)[1]
            j == GroupedBy(r)
            n == Cardinality(CellsOn(h, j, g))
<1>1. /\ N(r) = 1 /\ Primaries(e) = {p} /\ p.i = 1 /\ p.type \in {"COUNT", "COUNT_PERCENT"}
      /\ p.arg \in {"SOURCE", "TARGET"} /\ j = (IF p.arg = "SOURCE" THEN 2 ELSE 1)
      /\ \A T : Satisfied(e, T) <=> p \in T
      /\ Timeless(e)
  BY CountRule
<1>2. ctx.hs[1] = h /\ ctx.domain[1] = Single(g, ArgOf(r)) /\ ctx.group = GroupSize
  BY DEF CtxOf
<1>3. HitsOK(x.hit) /\ HitOK(P(r).conds[1], h)
  <2>1. HitsOK(x.hit) /\ 1 \in 1 .. N(r)
    BY RuleFacts DEF EngineOK
  <2>. QED BY <2>1, HitsTables, RuleFacts DEF HitsOK
<1>4. n \in Nat
  BY <1>3, CellsFinite
<1>5. Counted(p, ctx) = n
  <2>1. j \in {1, 2} /\ ArgOf(r) = HalfArg(j) /\ p.arg = (IF j = 2 THEN "SOURCE" ELSE "TARGET")
    BY <1>1 DEF ArgOf, HalfArg
  <2>. HIDE DEF h, j, p, ctx
  <2>2. g \in 0 .. Len(Table(h, HalfArg(j))) - 1
    BY <2>1 DEF GroupTable, h
  <2>3. AlarmCount(h, Single(g, HalfArg(j)), IF j = 2 THEN "SOURCE" ELSE "TARGET") = n
    BY <1>3, <2>1, <2>2, Counting
  <2>. QED BY <1>1, <1>2, <2>1, <2>3 DEF Counted
<1>6. IsTrue(p, ctx) <=> Enough(r, n)
  <2>1. CASE p.type = "COUNT"
    BY <1>5, <2>1 DEF IsTrue, Enough
  <2>2. CASE p.type = "COUNT_PERCENT"
    <3>. HIDE DEF ctx, n
    <3>1. IsTrue(p, ctx) <=> PercentCompare(p.op, n, GroupSize[p.group], p.rhv)
      BY <1>2, <1>5, <2>2 DEF IsTrue
    <3>. QED BY <1>4, <2>2, <3>1, PercentEnough
  <2>. QED BY <1>1, <2>1, <2>2
<1>7. /\ Attempt(x, r, t, q).key = z.alarm
      /\ z.b => \E a \in Alternatives(e) : Witnessed(e, ctx, a, z)
      /\ Timeless(e) => (z.b <=> Satisfied(e, OnlyTrue(e, ctx)))
  BY AttemptFacts
<1>8. z.b <=> IsTrue(p, ctx)
  BY <1>1, <1>7 DEF OnlyTrue
<1>9. IsTrue(p, ctx) <=> g \in WantedIn(x, r)
  BY <1>3, <1>6, WantedMembers
<1>10. ASSUME z.b
       PROVE  z.alarm[1] = Single(g, ArgOf(r))
  <2>1. PICK a \in Alternatives(e) : Witnessed(e, ctx, a, z)
    BY <1>7, <1>10
  <2>2. p \in ToSet(a) /\ p.type # "EXPR"
    <3>1. e[1][1][1] = p /\ Alternatives(e) = ToSet(e[1]) /\ Len(e) = 1 /\ Len(e[1]) = 1 /\ Len(e[1][1]) = 1
      BY DEF Counter, Alternatives, IsCount
    <3>2. IsExpr(e) /\ 1 \in 1 .. Len(e)
      BY <3>1, RuleFacts
    <3>3. e[1] \in Seq(ToSet(e[1])) /\ \A b \in ToSet(e[1]) : b \in Seq(ToSet(b))
      BY <3>2, ExprFacts
    <3>4. ToSet(e[1]) = {e[1][1]}
      <4>. DEFINE s == e[1]
      <4>. HIDE DEF s
      <4>1. ToSet(s) = {s[1]}
        BY <3>1, <3>3, OneMember DEF s
      <4>. QED BY <4>1 DEF s
    <3>5. a = e[1][1] /\ a \in Seq(ToSet(a)) /\ Len(a) = 1
      BY <3>1, <3>3, <3>4
    <3>6. ToSet(a) = {a[1]}
      BY <3>5, OneMember
    <3>. QED BY <1>1, <3>1, <3>5, <3>6
  <2>3. z.alarm[1] \in Parts(e, ctx, 1)
    BY <1>1, <2>1, <2>2 DEF Witnessed
  <2>4. Located(p, ctx, NullPair) = ctx.domain[1]
    BY <1>1 DEF Located
  <2>. HIDE DEF p, e, ctx, z
  <2>5. Parts(e, ctx, 1) = {ctx.domain[1]}
    BY <1>1, <2>4 DEF Parts
  <2>. QED BY <1>2, <2>3, <2>5
<1>. QED BY <1>7, <1>8, <1>9, <1>10

-----------------------------------------------------------------------------
(* Its alarms are for the groups that have enough.                         *)

\* The groups the rule has an alarm for.
GroupsOf(x, r) == {a.key[1][GroupedBy(r)] : a \in x.rule[r].alarms}
\* An alarm is for one group.
GroupAlarm(r, key) == key[1] = Single(key[1][GroupedBy(r)], ArgOf(r))
\* The rule has alarms for the groups with enough cells on, and for no others.
CountOK(x, r) ==
  /\ GroupsOf(x, r) = WantedIn(x, r)
  /\ \A a \in x.rule[r].alarms : GroupAlarm(r, a.key)
\* The same, but for what the evaluation has still to do.
CountDue(x, r) ==
  /\ GroupsOf(x, r) \subseteq WantedIn(x, r)
  /\ \E g : WantedIn(x, r) \subseteq GroupsOf(x, r) \cup {g}
  /\ ~Told(x, r) => GroupsOf(x, r) = WantedIn(x, r)
  /\ \A a \in x.rule[r].alarms : GroupAlarm(r, a.key)

\* Which groups have enough depends on the hitmap of the rule's condition.
LEMMA SameWanted ==
  ASSUME NEW x, NEW y, NEW r \in RuleSet, SameHits(y, x, r)
  PROVE  WantedIn(y, r) = WantedIn(x, r)
BY SameGood DEF WantedIn

\* Which groups have alarms depends on the alarms.
LEMMA SameGroups ==
  ASSUME NEW x, NEW y, NEW r, y.rule[r].alarms = x.rule[r].alarms
  PROVE  GroupsOf(y, r) = GroupsOf(x, r)
BY DEF GroupsOf

\* The trial of the domain of a group that is wanted.
LEMMA GroupTried ==
  ASSUME StringsOnce, CountsSure, NEW y, EngineOK(y), NEW r \in RuleSet, IsCount(r),
         DomainsOK(y, r),
         NEW g \in WantedIn(y, r)
  PROVE  \E t \in ToSet(Tries(y, r)) : t.d = <<Single(g, ArgOf(r))>>
<1>. DEFINE d == <<Single(g, ArgOf(r))>>
            ds == y.rule[r].domains
<1>1. d \in ToSet(ds)
  BY WantedCovered
<1>2. HitsOK(y.hit) /\ ds \in Seq(Tuples(r))
  BY DEF EngineOK, RulesOK, RuleOK, Tuples, N
<1>3. d \in Tuples(r)
  BY <1>1, <1>2 DEF ToSet
<1>4. N(r) = 1 /\ Primitive[r] = {}
  BY CountRule
<1>. HIDE DEF d
<1>. DEFINE v == [i \in 1 .. 1 |-> NullPair]
<1>5. v \in Products(y, r, d, N(r))
  <2>1. PairsOf(y, r, d, 1) = <<NullPair>>
    BY <1>4 DEF PairsOf
  <2>2. NullPair \in CondDomain /\ ToSet(<<NullPair>>) = {NullPair}
    BY DEF NullPair, CondDomain, Index, ToSet
  <2>. QED BY <1>4, <2>1, <2>2 DEF Products
<1>. HIDE DEF v
<1>6. Trial(d, v) \in ToSet(Tries(y, r))
  BY <1>1, <1>2, <1>5, TriesFacts
<1>7. Trial(d, v).d = d
  BY TrialFacts
<1>. QED BY <1>6, <1>7 DEF d

\* What is tried are domains of groups.
LEMMA TriedGroup ==
  ASSUME CountsSure, NEW y, EngineOK(y), NEW r \in RuleSet, IsCount(r),
         y.rule[r].domains = DomainsOf(y, r),
         NEW t \in ToSet(Tries(y, r))
  PROVE  t \in Trials(r) /\ \E g \in 0 .. Len(GroupTable(y, r)) - 1 : t.d = <<Single(g, ArgOf(r))>>
<1>1. t \in Trials(r) /\ t.d \in ToSet(y.rule[r].domains)
  BY TrialIs
<1>2. DomainsOf(y, r) \in Seq(GroupDomains(HitsOf(y, r), ArgOf(r)))
  BY GroupsOnly DEF EngineOK
<1>3. t.d \in GroupDomains(HitsOf(y, r), ArgOf(r))
  BY <1>1, <1>2 DEF ToSet
<1>. QED BY <1>1, <1>3 DEF GroupDomains, GroupTable

\* A rule that is told of a message has worked out its domains.
LEMMA ToldKnown ==
  ASSUME NEW x, NEW y, EngineOK(y), NEW r \in RuleSet, IsCount(r), SameHits(y, x, r), Told(x, r),
         DomainsOK(y, r)
  PROVE  y.rule[r].domains = DomainsOf(y, r)
<1>1. N(r) = 1 /\ P(r).where # <<>>
  BY CountRule DEF IsCount
<1>2. P(r).conds[1] \in CondSet /\ ToSet(P(r).conds) = {P(r).conds[1]}
  BY <1>1, RuleFacts DEF ToSet
<1>3. PICK u : u \in DOMAIN x.hit[P(r).conds[1]].on
  BY <1>2 DEF Told, Flipped
<1>4. HitsOf(y, r)[1] = x.hit[P(r).conds[1]]
  BY <1>1, <1>2, HitsTables DEF SameHits, EngineOK
<1>. DEFINE v == [i \in 1 .. 1 |-> u]
<1>5. v \in ValuesIn(y, r)
  <2>1. v \in [1 .. N(r) -> {u}] /\ \A i \in 1 .. N(r) : v[i] \in DOMAIN HitsOf(y, r)[i].on
    BY <1>1, <1>3, <1>4
  <2>. HIDE DEF v
  <2>. QED BY <2>1, ValueIs
<1>. HIDE DEF v
<1>. QED BY <1>1, <1>5, DomainsKnown

\* The evaluation does what is due.
LEMMA CountTurn ==
  ASSUME StringsOnce, CountsSure, NEW x, EngineOK(x), NEW r \in RuleSet, IsCount(r), CountDue(x, r),
         NEW f, NEW y, NEW z, Alone(x, f, y, z, r), ~f.failed
  PROVE  CountOK(f, r)
<1>. DEFINE j == GroupedBy(r)
            arg == ArgOf(r)
<1>1. /\ Turn(x, y, z, r) /\ y.rule[r] = x.rule[r] /\ f.rule[r] = z.rule[r] /\ SameHits(f, z, r) /\ ~z.failed
      /\ SameHits(y, x, r) /\ EngineOK(y) /\ DomainsOK(y, r)
  BY DEF Alone, Turn
<1>2. ~y.failed
  BY <1>1, TurnFailed
<1>3. /\ WantedIn(y, r) = WantedIn(x, r) /\ WantedIn(f, r) = WantedIn(z, r)
      /\ GroupsOf(y, r) = GroupsOf(x, r) /\ GroupsOf(f, r) = GroupsOf(z, r)
  BY <1>1, SameWanted, SameGroups
<1>4. \A a \in y.rule[r].alarms : GroupAlarm(r, a.key)
  BY <1>1 DEF CountDue
<1>5. CASE ~Told(x, r)
  <2>1. z = y
    BY <1>1, <1>5 DEF Turn
  <2>2. GroupsOf(x, r) = WantedIn(x, r)
    BY <1>5 DEF CountDue
  <2>. QED BY <1>1, <1>3, <1>4, <2>1, <2>2 DEF CountOK
<1>6. CASE Told(x, r)
  <2>1. z = EvaluateRule(y, r) /\ y.rule[r].domains = DomainsOf(y, r)
    BY <1>1, <1>6, ToldKnown DEF Turn
  <2>2. \/ Quiet(z, y, r) /\ NothingNew(y, r)
        \/ \E key \in Tuples(r) : Fresh(y, r, key) /\ Alarmed(z, y, r, key)
    BY <1>1, <1>2, <2>1, EvaluateRuleFacts, CountRule DEF Thrown
  <2>3. WantedIn(f, r) = WantedIn(x, r)
    <3>1. z.hit = y.hit
      BY <2>2 DEF Quiet, Alarmed
    <3>2. SameHits(z, y, r)
      BY <3>1 DEF SameHits
    <3>. QED BY <1>3, <3>2, SameWanted
  <2>4. CASE Quiet(z, y, r) /\ NothingNew(y, r)
    <3>1. ASSUME NEW g \in WantedIn(y, r)
          PROVE  g \in GroupsOf(y, r)
      <4>1. PICK t \in ToSet(Tries(y, r)) : t.d = <<Single(g, arg)>>
        BY <1>1, GroupTried
      <4>2. g \in 0 .. Len(GroupTable(y, r)) - 1 /\ t \in Trials(r)
        BY <1>1, WantedMembers, TrialIs DEF EngineOK
      <4>3. PICK q \in GoodRounds : ~Attempt(y, r, t, q).new
        BY <2>4 DEF NothingNew
      <4>. DEFINE w == Value(y, r, t, q)
                  k == Attempt(y, r, t, q)
      <4>4. w.b /\ k.key[1] = Single(g, arg)
        BY <1>1, <4>1, <4>2, CountTrial
      <4>5. /\ k.new <=> (w.b /\ \A a \in y.rule[r].alarms : a.key # w.alarm)
            /\ k.key = w.alarm
        BY <1>1, <4>2, AttemptFacts
      <4>6. PICK a \in y.rule[r].alarms : a.key[1] = Single(g, arg)
        BY <4>3, <4>4, <4>5
      <4>7. g \in Nat
        BY <4>2
      <4>8. Single(g, arg)[j] = g
        BY <4>7, GroupDomainFacts DEF ArgOf, GroupedBy
      <4>. QED BY <4>6, <4>8 DEF GroupsOf
    <3>2. f.rule[r].alarms = y.rule[r].alarms
      BY <1>1, <2>4 DEF Quiet
    <3>3. GroupsOf(f, r) = GroupsOf(x, r)
      BY <1>1, <3>2, SameGroups
    <3>4. GroupsOf(x, r) = WantedIn(x, r)
      BY <1>3, <3>1 DEF CountDue
    <3>. QED BY <1>4, <2>3, <3>2, <3>3, <3>4 DEF CountOK
  <2>5. ASSUME NEW key \in Tuples(r), Fresh(y, r, key), Alarmed(z, y, r, key)
        PROVE  CountOK(f, r)
    <3>. DEFINE b == AlarmOf(y, r, key)
    <3>1. b.key = key
      BY DEF AlarmOf
    <3>. HIDE DEF b
    <3>2. f.rule[r].alarms = y.rule[r].alarms \cup {b}
      BY <1>1, <2>5 DEF Alarmed, b
    <3>3. PICK t \in ToSet(Tries(y, r)), q \in GoodRounds : Attempt(y, r, t, q).new /\ key = Attempt(y, r, t, q).key
      BY <2>5 DEF Fresh
    <3>4. t \in Trials(r) /\ \E g \in 0 .. Len(GroupTable(y, r)) - 1 : t.d = <<Single(g, arg)>>
      BY <1>1, <2>1, TriedGroup
    <3>5. PICK g \in 0 .. Len(GroupTable(y, r)) - 1 : t.d = <<Single(g, arg)>>
      BY <3>4
    <3>. DEFINE w == Value(y, r, t, q)
    <3>6. w.b /\ key = w.alarm /\ \A a \in y.rule[r].alarms : a.key # key
      BY <1>1, <3>3, <3>4, AttemptFacts
    <3>7. g \in WantedIn(y, r) /\ key[1] = Single(g, arg)
      <4>1. EngineOK(y) /\ t \in Trials(r) /\ t.d = <<Single(g, ArgOf(r))>>
        BY <1>1, <3>4, <3>5
      <4>2. /\ w.b <=> g \in WantedIn(y, r)
            /\ w.b => Attempt(y, r, t, q).key[1] = Single(g, ArgOf(r))
        BY <4>1, CountTrial
      <4>. HIDE DEF w
      <4>. QED BY <3>3, <3>6, <4>2
    <3>8. g \in Nat
      <4>1. Len(GroupTable(y, r)) \in Nat
        BY <1>1, HitsTables, RuleFacts DEF EngineOK, TablesOK, GroupTable, ArgOf
      <4>. QED BY <4>1
    <3>9. key[1][j] = g
      BY <3>7, <3>8, GroupDomainFacts DEF ArgOf, GroupedBy
    <3>10. g \notin GroupsOf(y, r)
      <4>. SUFFICES ASSUME NEW a \in y.rule[r].alarms, a.key[1][j] = g
                    PROVE  FALSE
        BY DEF GroupsOf
      <4>1. a.key[1] = key[1]
        BY <1>4, <3>7 DEF GroupAlarm
      <4>2. a.key \in Tuples(r)
        <5>1. RuleOK(r, y.rule[r])
          BY <1>1 DEF EngineOK, RulesOK
        <5>2. y.rule[r].alarms \subseteq AlarmSet(r)
          BY <5>1, RuleChanges
        <5>. QED BY <5>2 DEF AlarmSet
      <4>3. N(r) = 1
        BY CountRule
      <4>4. a.key = key
        BY <2>5, <4>1, <4>2, <4>3 DEF Tuples
      <4>. QED BY <3>6, <4>4
    <3>11. GroupsOf(f, r) = GroupsOf(y, r) \cup {g}
      BY <3>1, <3>2, <3>9 DEF GroupsOf
    <3>12. GroupsOf(f, r) = WantedIn(f, r)
      <4>1. PICK k : WantedIn(x, r) \subseteq GroupsOf(x, r) \cup {k}
        BY DEF CountDue
      <4>2. GroupsOf(x, r) \subseteq WantedIn(x, r)
        BY DEF CountDue
      <4>3. WantedIn(x, r) = GroupsOf(x, r) \cup {g}
        BY <1>3, <3>7, <3>10, <4>1, <4>2
      <4>. QED BY <1>3, <2>3, <3>11, <4>3
    <3>13. GroupAlarm(r, key)
      BY <3>7, <3>9 DEF GroupAlarm
    <3>14. \A a \in f.rule[r].alarms : GroupAlarm(r, a.key)
      BY <1>4, <3>1, <3>2, <3>13
    <3>. QED BY <3>12, <3>14 DEF CountOK
  <2>. QED BY <2>2, <2>4, <2>5
<1>. QED BY <1>5, <1>6

\* A message leaves no more than that to do: it changes one cell.
LEMMA CountMessage ==
  ASSUME CountsSure, NEW m \in Messages, EngineOK(State), NEW r \in RuleSet, IsCount(r),
         CountOK(State, r)
  PROVE  CountDue(Updated(Caught(m)), r)
<1>. DEFINE x == Updated(Caught(m))
            j == GroupedBy(r)
            g == HitsOf(x, r)[1]
            h == HitsOf(State, r)[1]
            c == P(r).conds[1]
<1>1. x.rule[r].alarms = State.rule[r].alarms /\ HitsOK(x.hit) /\ HitsOK(State.hit)
  <2>1. EngineOK(Caught(m)) /\ Caught(m).rule = rule
    BY CaughtOK
  <2>. QED BY <2>1, UpdatedOK, StateFields DEF EngineOK
<1>2. 1 \in 1 .. N(r)
  BY CountRule
<1>3. HitOK(c, g) /\ HitOK(c, h) /\ (g = h \/ \E w : CaptureOf(g, h, w))
  BY <1>2, MessageHits
<1>4. ~Told(x, r) => \A v \in DOMAIN g.on : g.on[v] => v \in DOMAIN h.on /\ h.on[v]
  BY <1>2, NothingFlips
<1>. HIDE DEF x, g, h, c
<1>5. \A k : CellsOn(h, j, k) \subseteq CellsOn(g, j, k)
  BY <1>3 DEF CaptureOf, Extends, CellsOn
<1>6. \A k : /\ k \in WantedIn(x, r) <=> Enough(r, Cardinality(CellsOn(g, j, k)))
             /\ k \in WantedIn(State, r) <=> Enough(r, Cardinality(CellsOn(h, j, k)))
  BY <1>1, WantedMembers DEF g, h
<1>7. WantedIn(State, r) \subseteq WantedIn(x, r)
  <2>. SUFFICES ASSUME NEW k \in WantedIn(State, r)
                PROVE  k \in WantedIn(x, r)
    OBVIOUS
  <2>. DEFINE a == Cardinality(CellsOn(h, j, k))
              b == Cardinality(CellsOn(g, j, k))
  <2>1. IsFiniteSet(CellsOn(g, j, k)) /\ a \in Nat /\ b \in Nat
    BY <1>3, CellsFinite
  <2>2. a <= b
    BY <1>5, <2>1, FS_Subset
  <2>3. Enough(r, a)
    BY <1>6
  <2>. HIDE DEF a, b
  <2>4. Enough(r, b)
    BY <2>1, <2>2, <2>3, EnoughFacts
  <2>. QED BY <1>6, <2>4 DEF b
<1>8. \E k : WantedIn(x, r) \subseteq WantedIn(State, r) \cup {k}
  <2>1. CASE g = h
    BY <1>6, <2>1
  <2>2. ASSUME NEW w, CaptureOf(g, h, w)
        PROVE  \A k : k # w[j] => CellsOn(g, j, k) = CellsOn(h, j, k)
    BY <1>5, <2>2 DEF CaptureOf, CellsOn
  <2>3. ASSUME NEW w, CaptureOf(g, h, w)
        PROVE  WantedIn(x, r) \subseteq WantedIn(State, r) \cup {w[j]}
    BY <1>6, <2>2, <2>3
  <2>. QED BY <1>3, <2>1, <2>3
<1>9. ~Told(x, r) => WantedIn(x, r) = WantedIn(State, r)
  <2>. SUFFICES ASSUME ~Told(x, r)
                PROVE  WantedIn(x, r) = WantedIn(State, r)
    OBVIOUS
  <2>1. \A k : CellsOn(g, j, k) = CellsOn(h, j, k)
    BY <1>4, <1>5 DEF CellsOn
  <2>2. \A k : k \in WantedIn(x, r) <=> k \in WantedIn(State, r)
    BY <1>6, <2>1
  <2>. QED BY <2>2 DEF WantedIn
<1>10. GroupsOf(x, r) = GroupsOf(State, r)
  BY <1>1, SameGroups
<1>11. GroupsOf(State, r) = WantedIn(State, r)
  BY DEF CountOK
<1>12. \A a \in x.rule[r].alarms : GroupAlarm(r, a.key)
  BY <1>1 DEF CountOK
<1>. QED BY <1>7, <1>8, <1>9, <1>10, <1>11, <1>12 DEF CountDue, x

\* After a reset there are no alarms, and nothing is on.
LEMMA GroundCount ==
  ASSUME NEW x, NEW r \in RuleSet, x.rule[r].alarms = {},
         \A c \in ToSet(P(r).conds) : x.hit[c] = GroundHit
  PROVE  CountOK(x, r)
<1>1. 1 \in 1 .. N(r) /\ DOMAIN P(r).conds = 1 .. N(r)
  BY RuleFacts
<1>2. HitsOf(x, r)[1] = GroundHit
  BY <1>1 DEF HitsOf, ToSet
<1>3. DOMAIN GroundHit.on = {}
  BY DEF GroundHit, Cells
<1>4. WantedIn(x, r) = {}
  BY <1>2, <1>3 DEF WantedIn
<1>. QED BY <1>4 DEF CountOK, GroupsOf

-----------------------------------------------------------------------------
(* Rules alarm when they should, for what they should.                     *)

\* The alarms of a rule are those that it should have.
RuleGood(x, r) == (IsPair(r) => PairOK(x, r)) /\ (IsCount(r) => CountOK(x, r))
\* The third inductive invariant.
AlarmInv == ~failed => \A r \in RuleSet : RuleGood(State, r)

\* At first nothing is on and nothing has been raised.
LEMMA InitAlarms ==
  ASSUME Init
  PROVE  AlarmInv
<1>1. \A r \in RuleSet : State.rule[r].alarms = {}
  <2>. DEFINE ds(s) == IF P(s).where = <<>> THEN <<AnyDomain(Len(P(s).conds))>> ELSE <<>>
  <2>1. rule = [s \in RuleSet |-> [enabled |-> TRUE, alarms |-> {}, round |-> NoRound, domains |-> ds(s)]]
    BY DEF Init
  <2>. HIDE DEF ds
  <2>. QED BY <2>1, StateFields
<1>2. \A r \in RuleSet : \A c \in ToSet(P(r).conds) : State.hit[c] = GroundHit
  <2>1. \A r \in RuleSet : \A c \in ToSet(P(r).conds) : c \in CondSet
    BY RuleFacts DEF ToSet
  <2>2. \A c \in CondSet : hit[c] = GroundHit
    <3>1. hit = [c \in CondSet |-> GroundHit]
      BY DEF Init
    <3>. QED BY <3>1
  <2>. QED BY <2>1, <2>2, StateFields
<1>3. \A r \in RuleSet : PairOK(State, r) /\ CountOK(State, r)
  BY <1>1, <1>2, GroundPair, GroundCount
<1>. QED BY <1>3 DEF AlarmInv, RuleGood

\* Every step keeps it.
LEMMA NextAlarms ==
  ASSUME ResetsApart, StringsOnce, PairsSure, CountsSure, StateInv, FitInv, AlarmInv, [Next]_vars
  PROVE  AlarmInv'
<1>0. EngineOK(State) /\ \A r \in RuleSet : DomainsOK(State, r) /\ Fit(State, r)
  BY DEF StateInv, FitInv
<1>1. ASSUME NEW e, State' = e, ~e.failed => \A r \in RuleSet : RuleGood(e, r)
      PROVE  AlarmInv'
  <2>1. failed' = e.failed
    BY <1>1 DEF State
  <2>. QED BY <1>1, <2>1 DEF AlarmInv
<1>2. CASE Next
  <2>1. ASSUME NEW m \in Messages, ~failed, State' = Evaluated(Updated(Caught(m)))
        PROVE  AlarmInv'
    <3>. DEFINE x == Updated(Caught(m))
                f == Evaluated(x)
    <3>1. EngineOK(x) /\ \A r \in RuleSet : DomainsOK(x, r) /\ Fit(x, r)
      BY <1>0, CaughtOK, UpdatedOK, UpdatedDomains, UpdatedFit
    <3>2. \A r \in RuleSet : (IsPair(r) => PairDue(x, r)) /\ (IsCount(r) => CountDue(x, r))
      BY <1>0, <2>1, PairMessage, CountMessage DEF AlarmInv, RuleGood
    <3>3. State' = f
      BY <2>1
    <3>. HIDE DEF x
    <3>4. \A r \in RuleSet : \E y, z : Alone(x, f, y, z, r)
      BY <3>1, EvaluatedAlone
    <3>. HIDE DEF f
    <3>5. ~f.failed => \A r \in RuleSet : RuleGood(f, r)
      BY <3>1, <3>2, <3>4, PairTurn, CountTurn DEF RuleGood
    <3>. QED BY <1>1, <3>3, <3>5
  <2>2. ASSUME NEW s \in Resets, ~failed, State' = ResetState(State, s)
        PROVE  AlarmInv'
    <3>. DEFINE x == State
                y == ResetState(x, s)
    <3>1. s \in RuleSet /\ s \in Resetting
      BY DomainsAssumption DEF Resetting
    <3>2. Others(y, x, s) /\ Cleared(y, x, s)
      BY <1>0, <3>1, ResetFacts
    <3>3. State' = y
      BY <2>2
    <3>. HIDE DEF y
    <3>4. \A q \in RuleSet \ {s} : SameHits(y, x, q) /\ y.rule[q] = x.rule[q]
      BY <1>0, <3>1, <3>2, ClearedFit DEF Others
    <3>5. RuleGood(y, s)
      <4>1. \A c \in ToSet(P(s).conds) : c \in CondSet
        BY <3>1, RuleFacts DEF ToSet
      <4>. QED BY <3>1, <3>2, <4>1, GroundPair, GroundCount DEF Cleared, RuleGood
    <3>6. ASSUME NEW q \in RuleSet, q # s
          PROVE  RuleGood(y, q)
      <4>1. RuleGood(x, q)
        BY <2>2, <3>6 DEF AlarmInv
      <4>2. GoodOf(y, q) = GoodOf(x, q) /\ y.rule[q] = x.rule[q] /\ WantedIn(y, q) = WantedIn(x, q)
            /\ GroupsOf(y, q) = GroupsOf(x, q)
        BY <3>4, <3>6, SameGood, SameWanted, SameGroups
      <4>. QED BY <4>1, <4>2 DEF RuleGood, PairOK, CountOK
    <3>. QED BY <1>1, <3>3, <3>5, <3>6
  <2>. QED BY <1>0, <1>2, <2>1, <2>2, NextCases
<1>3. CASE UNCHANGED vars
  <2>1. State' = State /\ failed' = failed
    BY <1>3 DEF vars, State
  <2>2. ~failed => \A r \in RuleSet : RuleGood(State, r)
    BY DEF AlarmInv
  <2>. QED BY <2>1, <2>2 DEF AlarmInv
<1>. QED BY <1>2, <1>3

\* The invariant says what PairAlarms says.
LEMMA PairsMean ==
  ASSUME StateInv, AlarmInv
  PROVE  PairAlarms
<1>. SUFFICES ASSUME NEW r \in RuleSet, OnlyConds(r), ~failed, ~(EHS /\ P(r).act)
              PROVE  LET good == {v \in AllValues(r) : Meets(r, ValueNames(r, v)) /\ TrueFor(r, v)}
                     IN  /\ (good # {}) = (rule[r].alarms # {})
                         /\ \A a \in rule[r].alarms :
                              \E v \in good : \A i \in DOMAIN v : a.key[i] \in {v[i], NullPair}
  BY Zenon DEF PairAlarms
<1>. DEFINE good == {v \in AllValues(r) : Meets(r, ValueNames(r, v)) /\ TrueFor(r, v)}
<1>1. good = GoodOf(State, r)
  <2>1. AllValues(r) = ValuesIn(State, r)
    BY DEF AllValues, ValuesIn, N
  <2>2. \A v : TrueFor(r, v) <=> Satisfied(P(r).expr, TrueSet(State, r, v))
    BY DEF TrueFor, TrueSet
  <2>. QED BY <2>1, <2>2 DEF GoodOf, ValueNames
<1>2. PairOK(State, r)
  BY DEF AlarmInv, RuleGood, IsPair
<1>3. \A v \in good : DOMAIN v = 1 .. N(r)
  BY <1>1, ValueFacts DEF GoodOf, StateInv, EngineOK
<1>. HIDE DEF good
<1>4. (good # {} <=> rule[r].alarms # {})
      /\ \A a \in rule[r].alarms : \E v \in good : Partly(a.key, v, N(r))
  BY <1>1, <1>2, StateFields DEF PairOK
<1>5. (good # {}) = (rule[r].alarms # {})
  BY <1>4
<1>6. \A a \in rule[r].alarms : \E v \in good : \A i \in DOMAIN v : a.key[i] \in {v[i], NullPair}
  BY <1>3, <1>4 DEF Partly
<1>. QED BY <1>5, <1>6 DEF good

\* The invariant says what CountAlarms says.
LEMMA CountsMean ==
  ASSUME StateInv, AlarmInv
  PROVE  CountAlarms
<1>. SUFFICES ASSUME NEW r \in RuleSet, IsCount(r), ~failed
              PROVE  {a.key[1][GroupedBy(r)] : a \in rule[r].alarms} = WantedGroups(r)
  BY DEF CountAlarms
<1>1. WantedGroups(r) = WantedIn(State, r)
  BY DEF WantedGroups, WantedIn, CellsOn, Enough, Counter
<1>2. GroupsOf(State, r) = {a.key[1][GroupedBy(r)] : a \in rule[r].alarms}
  BY StateFields DEF GroupsOf
<1>3. CountOK(State, r)
  BY DEF AlarmInv, RuleGood
<1>. QED BY <1>1, <1>2, <1>3 DEF CountOK

\* A rule of conditions alone alarms if and only if it is true for some sources and
\* targets of its WHERE clause, and only for such; a rule that counts alarms for just
\* the groups that are as many as it wants (ma_rule.cpp:161-240, ma_boolean_cond.cpp:67-147).
THEOREM RulesAlarm ==
  ASSUME ResetsApart, StringsOnce, PairsSure, CountsSure
  PROVE  Spec => []RulesInv
<1>1. Init => AlarmInv
  BY InitAlarms
<1>2. StateInv /\ FitInv /\ AlarmInv /\ [Next]_vars => AlarmInv'
  BY NextAlarms
<1>3. StateInv /\ AlarmInv => RulesInv
  BY PairsMean, CountsMean DEF RulesInv
<1>. QED BY <1>1, <1>2, <1>3, StateIsSound, AlarmsFitNames, PTL DEF Spec
=============================================================================
