------------------------------ MODULE RuleExpr ------------------------------
(***************************************************************************)
(* What the expressions of the configuration evaluate to: WHERE clauses    *)
(* (ma_domain_*.cpp), rule expressions with their functions                *)
(* (ma_boolean_*.cpp, ma_function_*.cpp) and the tests of conditions       *)
(* (ma_cond_test_*.cpp).  Each is an OR of ANDs of primaries, one of which *)
(* is an expression in parentheses.  Here an expression is the sequence of *)
(* what the parser builds (ma_parse.cpp): an expression in parentheses     *)
(* comes before the one it is part of, which refers to it by its number,   *)
(* and the whole expression comes last.  <<>> is no expression at all.     *)
(*                                                                         *)
(* A condition's hitmap is h = [srcs, tgts, num, on]: the sources and the  *)
(* targets in the order of their indices, and for each pair of indices the *)
(* number of messages in the cell and whether it is on.                    *)
(***************************************************************************)
EXTENDS DomainOps, FiniteSets, Functions

CONSTANT NameOrder    \* the names of sources and targets in the order of a std::map

Table(h, arg) == IF arg = "s" THEN h.srcs ELSE h.tgts

\* find_source() and find_target().
FindArg(h, name, arg) ==
  LET table == Table(h, arg)
  IN  IF name \in ToSet(table) THEN (CHOOSE i \in DOMAIN table : table[i] = name) - 1
      ELSE D_NIL

\* The hitmap is larger than its tables: outside of them cells are off.
IsOn(h, v) == v \in DOMAIN h.on /\ h.on[v]

\* The indices that one index of a domain stands for, in order.
Indices(table, i) == IF i = D_ANY THEN [k \in DOMAIN table |-> k - 1] ELSE <<i>>

\* get_cond_range(), as the loops over it go: the pairs that a domain stands for.
CondRange(h, d) ==
  LET srcs == Indices(h.srcs, d[1])
      tgts == Indices(h.tgts, d[2])
  IN  FlattenSeq([s \in DOMAIN srcs |-> [t \in DOMAIN tgts |-> <<srcs[s], tgts[t]>>]])

compare(op, v, rhv) ==
  CASE op = "<"  -> v < rhv  [] op = "<=" -> v <= rhv
    [] op = "==" -> v = rhv  [] op = "!=" -> v # rhv
    [] op = ">=" -> v >= rhv [] op = ">"  -> v > rhv

-----------------------------------------------------------------------------
(* What the grammars of ma_parse.cpp accept, for a rule of n conditions.   *)

Ops == {"<", "<=", "==", "!=", ">=", ">"}

\* Numbers to compare with are doubles; here they are whole.
IsComparison(p) == p.op \in Ops /\ p.rhv \in Int

IsList(s) == s \in Seq(ToSet(s)) /\ s # <<>>

\* Alternatives and primaries are lists that are not empty.
IsExpr(e) ==
  /\ e \in Seq(ToSet(e))
  /\ \A k \in DOMAIN e :
       /\ IsList(e[k])
       /\ \A a \in ToSet(e[k]) :
            IsList(a) /\ \A p \in ToSet(a) : p.type = "EXPR" => p.sub \in 1 .. k - 1

\* The primaries of an expression, those in parentheses included.
Primaries(e) ==
  {p \in UNION {ToSet(a) : a \in UNION {ToSet(e[k]) : k \in DOMAIN e}} : p.type # "EXPR"}

\* domain_expr_parser.
IsWhere(e, n) ==
  /\ IsExpr(e)
  /\ \A p \in Primaries(e) :
       /\ p.type \in {"COND", "STRING"} /\ IsList(p.args)
       /\ ToSet(p.args) \subseteq [i : 1 .. n, arg : {"s", "t"}]

\* boolean_expr_parser, which gives the rule its n conditions, and the arguments that
\* the functions accept.  Each IS_SYNCD has a state of its own; here there is at most one.
IsBoolean(e, n) ==
  /\ IsExpr(e) /\ {p.i : p \in Primaries(e)} = 1 .. n
  /\ \A p \in Primaries(e) :
       \/ p.type \in {"COND", "IS_SYNCD"}
       \/ p.type = "COUNT" /\ IsComparison(p) /\ p.arg \in {"SOURCE", "TARGET", "MESSAGE"}
       \/ p.type = "COUNT_PERCENT" /\ IsComparison(p) /\ p.arg \in {"SOURCE", "TARGET"}
  /\ \A p, q \in Primaries(e) : p.type = "IS_SYNCD" /\ q.type = "IS_SYNCD" => p = q

\* cond_test_expr_parser.
IsTest(e) == IsExpr(e) /\ \A p \in Primaries(e) : p.type = "FUNCTION" /\ IsComparison(p)

\* What an expression means: T has those of its primaries that are true.
Satisfied(e, T) ==
  LET yes[k \in 0 .. Len(e)] ==
        IF k = 0 THEN {}
        ELSE LET true(p) == IF p.type = "EXPR" THEN p.sub \in yes[k - 1] ELSE p \in T
             IN  yes[k - 1] \cup {j \in {k} : \E a \in ToSet(e[k]) : \A p \in ToSet(a) : true(p)}
  IN  Len(e) \in yes[Len(e)]

-----------------------------------------------------------------------------
(* WHERE: hs[i] is the hitmap of the rule's i-th condition.                *)

\* cond.$ = cond.$ = ... = 'string', args being [i, arg] each.  A later mention of
\* a condition replaces an earlier one.
StringDomains(hs, args, str) ==
  LET index(k) == FindArg(hs[args[k].i], str, args[k].arg)
      mentions(i) == {k \in DOMAIN args : args[k].i = i}
      latest(i) == CHOOSE k \in mentions(i) : \A j \in mentions(i) : j <= k
  IN  IF \E k \in DOMAIN args : index(k) = D_NIL THEN <<>>
      ELSE << [i \in 1 .. Len(hs) |-> IF mentions(i) = {} THEN AnyPair
                                      ELSE Single(index(latest(i)), args[latest(i)].arg)] >>

\* cond.$ = cond.$ = ... ( = ANY): an alternative for each name that the first has
\* and all others know.  It is where everyone of them is called so: the indices found
\* for one source or target of a condition are the same, and never meet in D_NIL.
EqualDomains(hs, args) ==
  LET known == {n \in ToSet(NameOrder) : \A a \in ToSet(args) : FindArg(hs[a.i], n, a.arg) # D_NIL}
      names == Keep(NameOrder, known)
      index(n, i, arg) == IF [i |-> i, arg |-> arg] \in ToSet(args) THEN FindArg(hs[i], n, arg)
                          ELSE D_ANY
  IN  [k \in DOMAIN names |-> [i \in 1 .. Len(hs) |->
         <<index(names[k], i, "s"), index(names[k], i, "t")>>]]

\* ma_domain_cond::evaluate(), up to the merge; below has the results of the
\* expressions before.
DomainCond(hs, c, below) ==
  CASE c.type = "EXPR"   -> below[c.sub]
    [] c.type = "STRING" -> StringDomains(hs, c.args, c.str)
    [] c.type = "COND"   -> EqualDomains(hs, c.args)

\* Merges one after the other; an empty result stays empty.
Merged(ds) ==
  LET m[k \in 0 .. Len(ds)] ==
        IF k = 0 THEN <<>>
        ELSE LET so == m[k - 1] IN IF k > 1 /\ so = <<>> THEN so ELSE AndMerge(so, ds[k])
  IN  m[Len(ds)]

\* Mutation: goes on after an empty result.
DomainAndExprOn(hs, e, below) ==
  LET m[k \in 0 .. Len(e)] ==
        IF k = 0 THEN <<>> ELSE AndMerge(m[k - 1], DomainCond(hs, e[k], below))
  IN  m[Len(e)]

\* ma_domain_andexpr::evaluate().
DomainAndExpr(hs, e, below) == Merged([k \in DOMAIN e |-> DomainCond(hs, e[k], below)])

\* ma_domain_expr::evaluate(): the alternatives one after the other.
DomainExpr(hs, e) ==
  LET below[k \in 0 .. Len(e)] ==
        IF k = 0 THEN <<>>
        ELSE Append(below[k - 1], FlattenSeq([j \in DOMAIN e[k] |->
                                               DomainAndExpr(hs, e[k][j], below[k - 1])]))
  IN  below[Len(e)][Len(e)]

-----------------------------------------------------------------------------
(* Functions.                                                              *)

\* get_alarm_count().
AlarmCount(h, d, arg) ==
  LET cells == ToSet(CondRange(h, d))
      on    == {v \in cells : IsOn(h, v)}
  IN  CASE arg = "MESSAGE" ->
           Cardinality(UNION {{v} \X (1 .. h.num[v]) : v \in cells \cap DOMAIN h.num})
        [] arg = "SOURCE"  -> Cardinality({v[1] : v \in on})
        [] arg = "TARGET"  -> Cardinality({v[2] : v \in on})

\* COUNT_PERCENT compared with a ratio of pct to 100: without participants the
\* quotient is not a number or infinite.
PercentCompare(op, count, total, pct) ==
  CASE total > 0               -> compare(op, 100 * count, pct * total)
    [] total = 0 /\ count > 0  -> op \in {">", ">=", "!="}
    [] total = 0 /\ count = 0  -> op = "!="

\* The sources of a round with their times, and the least and the greatest of these.
Rounds == [time : SUBSET (STRING \X Nat), min : Nat, max : Nat]
NoRound == [time |-> {}, min |-> 0, max |-> 0]

\* IS_SYNCD: TRUE when the times of a round are more than 5 apart.
IsSyncd(round, src, t) ==
  IF round.time = {} \/ \E x \in round.time : x[1] = src
  THEN [round |-> [time |-> {<<src, t>>}, min |-> t, max |-> t], value |-> FALSE]
  ELSE LET r == [time |-> round.time \cup {<<src, t>>},
                 min |-> IF t < round.min THEN t ELSE round.min,
                 max |-> IF t > round.max THEN t ELSE round.max]
       IN  [round |-> r, value |-> r.max - r.min > 5]

-----------------------------------------------------------------------------
(* Rule expressions.  ctx = [hs, last, domain, value, group]; the          *)
(* evaluation goes on in [b, alarm, round]: the outcome so far, the alarm  *)
(* as it fills in, and the state of the rule's IS_SYNCD.                   *)

Progress(n) == [b : BOOLEAN, alarm : [1 .. n -> CondDomain], round : Rounds]

Cond(p, ctx, st) ==
  [st EXCEPT !.alarm[p.i] = IF CondIsNull(@) THEN ctx.value[p.i] ELSE @,
             !.b = IsOn(ctx.hs[p.i], ctx.value[p.i])]

Grouped(p, ctx, st) == [st EXCEPT !.alarm[p.i] = ctx.domain[p.i]]

Count(p, ctx, st) ==
  [Grouped(p, ctx, st) EXCEPT
     !.b = compare(p.op, AlarmCount(ctx.hs[p.i], ctx.domain[p.i], p.arg), p.rhv)]

CountPercent(p, ctx, st) ==
  [Grouped(p, ctx, st) EXCEPT
     !.b = PercentCompare(p.op, AlarmCount(ctx.hs[p.i], ctx.domain[p.i], p.arg),
                          ctx.group[p.group], p.rhv)]

\* The alarm is for the source of the condition's last message.
Syncd(p, ctx, st) ==
  LET h == ctx.hs[p.i]  l == ctx.last[p.i]  s == IsSyncd(st.round, l.src, l.num)
  IN  [b |-> s.value, round |-> s.round,
       alarm |-> [st.alarm EXCEPT ![p.i] = <<FindArg(h, l.src, "s"), FindArg(h, l.tgt, "t")>>]]

\* below has the expressions before, as functions.
BooleanCond(p, ctx, below, st) ==
  CASE p.type = "EXPR"          -> below[p.sub][st]
    [] p.type = "COND"          -> Cond(p, ctx, st)
    [] p.type = "COUNT"         -> Count(p, ctx, st)
    [] p.type = "COUNT_PERCENT" -> CountPercent(p, ctx, st)
    [] p.type = "IS_SYNCD"      -> Syncd(p, ctx, st)

\* Mutation: one that is true is enough.
BooleanAndExprAny(e, ctx, below, st) ==
  LET x[k \in 0 .. Len(e)] ==
        IF k = 0 THEN [st EXCEPT !.b = FALSE]
        ELSE LET so == x[k - 1] IN IF so.b THEN so ELSE BooleanCond(e[k], ctx, below, so)
  IN  x[Len(e)]

\* Both stop as soon as the outcome is known.
BooleanAndExpr(e, ctx, below, st) ==
  LET x[k \in 0 .. Len(e)] ==
        IF k = 0 THEN [st EXCEPT !.b = TRUE]
        ELSE LET so == x[k - 1] IN IF so.b THEN BooleanCond(e[k], ctx, below, so) ELSE so
  IN  x[Len(e)]

BooleanOrExpr(e, ctx, below, st) ==
  LET x[k \in 0 .. Len(e)] ==
        IF k = 0 THEN [st EXCEPT !.b = FALSE]
        ELSE LET so == x[k - 1] IN IF so.b THEN so ELSE BooleanAndExpr(e[k], ctx, below, so)
  IN  x[Len(e)]

BooleanExpr(e, ctx, st) ==
  LET below[k \in 0 .. Len(e)] ==
        IF k = 0 THEN <<>>
        ELSE Append(below[k - 1], [x \in Progress(Len(ctx.hs)) |->
                                    BooleanOrExpr(e[k], ctx, below[k - 1], x)])
  IN  below[Len(e)][Len(e)][st]

-----------------------------------------------------------------------------
(* Tests: group_to_number() is the only test function there is; a message  *)
(* has one group, which is a number.                                       *)

TestPrimary(p, num) == compare(p.op, num, p.rhv)

\* A condition without a test lets everything pass.
TestExpr(e, num) == e = <<>> \/ Satisfied(e, {p \in Primaries(e) : TestPrimary(p, num)})
=============================================================================
