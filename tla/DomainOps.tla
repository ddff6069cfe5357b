------------------------------ MODULE DomainOps ------------------------------
(***************************************************************************)
(* The algebra of domains (ma_domain_ops.h).  A condition's domain is a    *)
(* pair of a source index and a target index, either of which may stand    *)
(* for any index or for none; a rule's domain has one for each of its      *)
(* conditions.  Indices start at 0.                                        *)
(***************************************************************************)
EXTENDS Integers, Sequences, SequencesExt, SeqFilter

D_ANY == -1
D_NIL == -2

Index == Nat \cup {D_ANY, D_NIL}
CondDomain == Index \X Index

\* The values that a domain stands for: v[i] is a pair of indices for each condition.
InDomain(d, v) ==
  \A i \in DOMAIN d : d[i][1] \in {D_ANY, v[i][1]} /\ d[i][2] \in {D_ANY, v[i][2]}

NullPair == <<D_NIL, D_NIL>>
AnyPair == <<D_ANY, D_ANY>>

\* A domain with one index, of a source or of a target.
Single(i, arg) == IF arg = "s" THEN <<i, D_ANY>> ELSE <<D_ANY, i>>

\* ma_domain_ctor_null() has one condition, whatever the rule has.
NullDomain == <<NullPair>>
AnyDomain(size) == [i \in 1 .. size |-> AnyPair]

CondIsNull(d) == d[1] = D_NIL \/ d[2] = D_NIL
IsNull(d) == d = <<>> \/ \E i \in DOMAIN d : CondIsNull(d[i])

and_op(i, j) ==
  CASE i = j     -> i
    [] i = D_ANY -> j
    [] j = D_ANY -> i
    [] OTHER     -> D_NIL

CondIntersect(d1, d2) ==
  LET d == <<and_op(d1[1], d2[1]), and_op(d1[2], d2[2])>>
  IN  IF CondIsNull(d) THEN NullPair ELSE d

\* The code throws if the sizes differ, which they never do within a rule.
Intersect(d1, d2) ==
  IF IsNull(d1) \/ IsNull(d2) THEN NullDomain
  ELSE LET d == [i \in DOMAIN d1 |-> CondIntersect(d1[i], d2[i])]
       IN  IF IsNull(d) THEN NullDomain ELSE d

\* and_merge(): each alternative on the one side with each on the other.
AndMerge(domains, worksheet) ==
  IF domains = <<>> THEN worksheet
  ELSE LET all == FlattenSeq([k \in DOMAIN domains |->
                    [j \in DOMAIN worksheet |-> Intersect(domains[k], worksheet[j])]])
       IN  Keep(all, ToSet(all) \ {NullDomain})
=============================================================================
