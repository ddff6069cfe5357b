----------------------------- MODULE RuleDomains -----------------------------
(***************************************************************************)
(* Rules with WHERE clauses and functions (ma_rule.cpp, ma_condition.cpp,  *)
(* ma_hitmap.cpp with RuleExpr): messages give sources and targets their   *)
(* indices, a new one makes the rules that mention it work out their       *)
(* domains anew, and a cell that turns on makes its rules look through     *)
(* their domains for an alarm that is new.                                 *)
(*                                                                         *)
(* Conditions have the default settings, occur_at_least, persistent and a  *)
(* timespan longer than a run, so that a cell that is on stays on until it *)
(* is reset; MaCell and RuleEngine have the others, and repeated alarms.   *)
(***************************************************************************)
EXTENDS RuleExpr

CONSTANTS
  Conds,        \* the conditions, in the order of their names
  CondParams,   \* [per_source, per_target, tc, test, groups]: tc is the trigger count,
                \* groups the number of groups of the pattern
  Rules,        \* the rules, in the order of the notification lists
  RuleParams,   \* [conds, expr, where, text, act]
  GroupSize,    \* the sizes of the groups of participants
  Messages,     \* [src, tgt, num, fits]: fits are the conditions whose patterns match
  Resets,       \* the rules that the operator resets
  EHS,          \* whether actions are carried out
  MaxFeeds      \* bound: messages fed to the engine

GlobalS == "__S_GLOBAL__"
GlobalT == "__T_GLOBAL__"

CondSet == ToSet(Conds)
RuleSet == ToSet(Rules)
P(r) == RuleParams[r]

\* parse(): an expression, perhaps a WHERE clause, and a text that refers to the
\* sources, targets, messages and groups of the rule's conditions.
IsRule(q) ==
  /\ q.conds \in Seq(CondSet) /\ IsInjective(q.conds) /\ q.act \in BOOLEAN
  /\ q.expr # <<>> /\ IsBoolean(q.expr, Len(q.conds))
  /\ IsWhere(q.where, Len(q.conds))
  /\ \A x \in q.text : /\ x.i \in DOMAIN q.conds
                       /\ x.arg \in {"s", "t", "m"} \/ (x.arg = "g" /\ x.n \in 1 .. 9)

\* What a condition takes of a message as its source and its target.
SourceOf(c, m) == IF CondParams[c].per_source THEN m.src ELSE GlobalS
TargetOf(c, m) == IF CondParams[c].per_target THEN m.tgt ELSE GlobalT

ASSUME DomainsAssumption ==
  /\ NameOrder \in Seq(STRING) /\ IsInjective(NameOrder)
  /\ Conds \in Seq(CondSet) /\ IsInjective(Conds) /\ DOMAIN CondParams = CondSet
  /\ \A c \in CondSet : /\ CondParams[c].tc \in Nat \ {0} /\ CondParams[c].groups \in Nat
                        /\ IsTest(CondParams[c].test)
  /\ Rules \in Seq(RuleSet) /\ IsInjective(Rules) /\ DOMAIN RuleParams = RuleSet
  /\ \A r \in RuleSet : IsRule(P(r))
  /\ \A m \in Messages :
       /\ m.src \in STRING /\ m.tgt \in STRING /\ m.num \in Nat /\ m.fits \subseteq CondSet
       /\ \A c \in m.fits : {SourceOf(c, m), TargetOf(c, m)} \subseteq ToSet(NameOrder)
  /\ \A r \in RuleSet : \A p \in Primaries(P(r).expr) :
       p.type = "COUNT_PERCENT" => GroupSize[p.group] \in Nat
  /\ Resets \subseteq RuleSet /\ EHS \in BOOLEAN /\ MaxFeeds \in Nat

\* That strings are strings, which the provers are not told.
ASSUME StringsAssumption == {"", "any", "none"} \subseteq STRING

VARIABLES
  hit,      \* hit[c]: c's hitmap
  last,     \* last[c]: the fields of the last message that fitted c
  rule,     \* rule[r]: [enabled, domains, alarms, round]; an alarm is [key, names]
  failed,   \* whether an exception left the engine
  stale,    \* stale[r]: the <<key, i>> of r's alarms whose i-th condition another rule
            \* has reset since; it is in no variable of the program
  feeds

vars == <<hit, last, rule, failed, stale, feeds>>

\* The pairs of indices of two tables.
Cells(srcs, tgts) == (0 .. Len(srcs) - 1) \X (0 .. Len(tgts) - 1)

GroundHit ==
  [srcs |-> <<>>, tgts |-> <<>>, num |-> [v \in Cells(<<>>, <<>>) |-> 0],
   on |-> [v \in Cells(<<>>, <<>>) |-> FALSE]]

\* The state that handlers work on.
State == [hit |-> hit, last |-> last, rule |-> rule, failed |-> failed, stale |-> stale]

HitsOf(e, r) == [i \in DOMAIN P(r).conds |-> e.hit[P(r).conds[i]]]

\* primitive_cond: the conditions that rule r mentions outside functions.
Primitive ==
  [r \in RuleSet |-> {p.i : p \in {q \in Primaries(P(r).expr) : q.type = "COND"}}]

\* update_notify_list(): what the WHERE clause of rule r mentions.
Mentions ==
  [r \in RuleSet |-> UNION {{<<P(r).conds[a.i], a.arg>> : a \in ToSet(w.args)} :
                             w \in Primaries(P(r).where)}]

Init ==
  /\ hit = [c \in CondSet |-> GroundHit]
  /\ last = [c \in CondSet |-> [src |-> "", tgt |-> "", num |-> 0]]
  /\ rule = [r \in RuleSet |->
               [enabled |-> TRUE, alarms |-> {}, round |-> NoRound,
                domains |-> IF P(r).where = <<>> THEN <<AnyDomain(Len(P(r).conds))>>
                                                  ELSE <<>>]]
  /\ failed = FALSE
  /\ stale = [r \in RuleSet |-> {}]
  /\ feeds = 0

-----------------------------------------------------------------------------
(* Conditions: ma_condition::match() and ma_hitmap::capture().             *)

\* A table with a name in it.
Known(table, name) == IF name \in ToSet(table) THEN table ELSE Append(table, name)

\* capture(): the names get their indices, and the cell is hit.
Capture(c, m) ==
  LET h    == hit[c]
      src  == SourceOf(c, m)
      tgt  == TargetOf(c, m)
      srcs == Known(h.srcs, src)
      tgts == Known(h.tgts, tgt)
      grown(f, x) == [v \in Cells(srcs, tgts) |-> IF v \in DOMAIN f THEN f[v] ELSE x]
      v    == <<FindArg([srcs |-> srcs], src, "s"), FindArg([tgts |-> tgts], tgt, "t")>>
      num  == grown(h.num, 0)
      on   == grown(h.on, FALSE)
      n    == IF num[v] < CondParams[c].tc THEN num[v] + 1 ELSE num[v]
  IN  [srcs |-> srcs, tgts |-> tgts,
       num |-> [num EXCEPT ![v] = n], on |-> [on EXCEPT ![v] = n = CondParams[c].tc]]

\* What a condition remembers of the message that fitted it last, whether or not it
\* passed the test; the target stays as it is if there is no pattern for it.
Remembered(c, m) ==
  [src |-> m.src, num |-> m.num, tgt |-> IF CondParams[c].per_target THEN m.tgt ELSE last[c].tgt]

Passes(c, m) == c \in m.fits /\ TestExpr(CondParams[c].test, m.num)

-----------------------------------------------------------------------------
(* Rules: ma_rule::evaluate_domain(), evaluate() and reset().              *)

DomainsOf(e, r) == DomainExpr(HitsOf(e, r), P(r).where)

\* recursive_evaluate(): the values of a domain, in order.  A condition that occurs
\* in functions only has one value, which stands for none.
ValuesOf(e, r, d) ==
  LET pairs(i) == IF i \in Primitive[r] THEN CondRange(HitsOf(e, r)[i], d[i]) ELSE <<NullPair>>
      upto[i \in 0 .. Len(d)] ==
        IF i = 0 THEN << <<>> >>
        ELSE LET vs == upto[i - 1]  ps == pairs(i)
             IN  FlattenSeq([k \in DOMAIN vs |-> [j \in DOMAIN ps |-> Append(vs[k], ps[j])]])
  IN  upto[Len(d)]

\* The names an alarm stands for; "any" for an index of any.
NamesOf(e, r, key) ==
  LET name(table, i) == IF i = D_ANY THEN "any"
                        ELSE IF i + 1 \in DOMAIN table THEN table[i + 1] ELSE "none"
  IN  [i \in DOMAIN key |-> <<name(HitsOf(e, r)[i].srcs, key[i][1]),
                              name(HitsOf(e, r)[i].tgts, key[i][2])>>]

\* The values of all domains, one after the other.
Tries(e, r) ==
  FlattenSeq([k \in DOMAIN e.rule[r].domains |->
    LET d == e.rule[r].domains[k]  vs == ValuesOf(e, r, d)
    IN  [j \in DOMAIN vs |-> [d |-> d, v |-> vs[j]]]])

\* boolean_evaluate() for a value of a domain.
Attempt(e, r, t, round) ==
  LET ctx == [hs |-> HitsOf(e, r), domain |-> t.d, value |-> t.v, group |-> GroupSize,
              last |-> [i \in DOMAIN P(r).conds |-> e.last[P(r).conds[i]]]]
      st == BooleanExpr(P(r).expr, ctx,
              [b |-> FALSE, round |-> round, alarm |-> [i \in DOMAIN P(r).conds |-> NullPair]])
  IN  [new |-> st.b /\ \A a \in e.rule[r].alarms : a.key # st.alarm,
       key |-> st.alarm, round |-> st.round]

\* One value after the other, up to the first new alarm.
Found(e, r) ==
  LET tries == Tries(e, r)
      try[k \in 0 .. Len(tries)] ==
        IF k = 0 THEN [new |-> FALSE, key |-> <<>>, round |-> e.rule[r].round]
        ELSE LET so == try[k - 1]
             IN  IF so.new THEN so ELSE Attempt(e, r, tries[k], so.round)
  IN  try[Len(tries)]

\* Whether the text of the alarm cannot be put together: a name must have an index
\* of its table, the cell of a message or group messages, and the pattern the group;
\* there is one group too many, which is empty.  A cell keeps its groups over a reset,
\* as places in a string that is gone: that counts as failing.
TextFails(e, r, key) ==
  \E x \in P(r).text :
    LET h == HitsOf(e, r)[x.i]
        bad(j, table) == table = <<>> \/ j = D_NIL \/ j >= Len(table)
        first(j) == IF j = D_ANY THEN 0 ELSE j
        v == <<first(key[x.i][1]), first(key[x.i][2])>>
    IN  \/ x.arg = "s" /\ bad(key[x.i][1], h.srcs)
        \/ x.arg = "t" /\ bad(key[x.i][2], h.tgts)
        \/ x.arg \in {"m", "g"} /\ (v \in DOMAIN h.num => h.num[v] = 0)
        \/ x.arg = "g" /\ x.n > CondParams[P(r).conds[x.i]].groups + 1

\* Mutation: the alarms stay.
ResetStateKeepsAlarms(e, r) ==
  [e EXCEPT !.hit = [c \in CondSet |-> IF c \in ToSet(P(r).conds) THEN GroundHit ELSE e.hit[c]]]

\* The parts of alarms that a reset of rule r leaves with indices of nothing: those
\* of other rules for its conditions.
Disowned(e, r) ==
  [q \in RuleSet |->
     IF q = r THEN {}
     ELSE e.stale[q] \cup {<<a.key, i>> : a \in e.rule[q].alarms,
                            i \in {j \in DOMAIN P(q).conds : P(q).conds[j] \in ToSet(P(r).conds)}}]

\* The rule's conditions and alarms, but neither its domains nor, the functions'
\* reset() doing nothing, the round of IS_SYNCD.
ResetState(e, r) ==
  [hit |-> [c \in CondSet |-> IF c \in ToSet(P(r).conds) THEN GroundHit ELSE e.hit[c]],
   last |-> e.last, rule |-> [e.rule EXCEPT ![r].alarms = {}], failed |-> e.failed,
   stale |-> Disowned(e, r)]

\* The alarm's text and the actions.
Raise(e, r, key) ==
  LET a == [key |-> key, names |-> NamesOf(e, r, key)]
      f == [e EXCEPT !.rule[r].alarms = @ \cup {a}]
  IN  IF TextFails(e, r, key) THEN [e EXCEPT !.failed = TRUE]
      ELSE IF EHS /\ P(r).act THEN ResetState(f, r) ELSE f

Conclude(e, r, found) ==
  LET f == [e EXCEPT !.rule[r].round = found.round]
  IN  IF found.new THEN Raise(f, r, found.key) ELSE f

\* evaluate(), the alarm's text and the actions.
EvaluateRule(e, r) ==
  IF e.failed \/ ~e.rule[r].enabled THEN e ELSE Conclude(e, r, Found(e, r))

\* Mutation: a new target is not announced.
DomainChangesSource(r, new) ==
  \E c \in CondSet : new[c].srcs # hit[c].srcs /\ <<c, "s">> \in Mentions[r]

\* Whether rule r is told of a new source or target.
DomainChanges(r, new) ==
  \E c \in CondSet :
    \/ new[c].srcs # hit[c].srcs /\ <<c, "s">> \in Mentions[r]
    \/ new[c].tgts # hit[c].tgts /\ <<c, "t">> \in Mentions[r]

\* A loop over the members of s that gives them their new values.
Replaced(f, s, new) ==
  LET done[k \in 0 .. Len(s)] ==
        IF k = 0 THEN f ELSE [done[k - 1] EXCEPT ![s[k]] = new[s[k]]]
  IN  done[Len(s)]

\* What the conditions make of the message.
Caught(m) ==
  [hit |-> Replaced(hit, Keep(Conds, {c \in CondSet : Passes(c, m)}),
                    [c \in CondSet |-> Capture(c, m)]),
   last |-> Replaced(last, Keep(Conds, m.fits), [c \in CondSet |-> Remembered(c, m)]),
   rule |-> rule, failed |-> failed, stale |-> stale]

\* The rules that are told of a new name work out their domains.
Updated(e) ==
  [e EXCEPT
     !.rule = Replaced(@, Keep(Rules, {r \in RuleSet : DomainChanges(r, e.hit)}),
                       [r \in RuleSet |-> [@[r] EXCEPT !.domains = DomainsOf(e, r)]])]

\* A cell of condition c has turned on.
Flipped(c, new) ==
  \E v \in DOMAIN new[c].on : new[c].on[v] /\ (v \in DOMAIN hit[c].on => ~hit[c].on[v])

\* The rules of conditions with a cell that has changed.
Evaluated(e) ==
  LET told(r) == \E c \in ToSet(P(r).conds) : Flipped(c, e.hit)
      done[k \in 0 .. Len(Rules)] ==
        IF k = 0 THEN e
        ELSE IF told(Rules[k]) THEN EvaluateRule(done[k - 1], Rules[k]) ELSE done[k - 1]
  IN  done[Len(Rules)]

Becomes(e) ==
  hit' = e.hit /\ last' = e.last /\ rule' = e.rule /\ failed' = e.failed /\ stale' = e.stale

\* feed(): all conditions first, then all domains, then the rules.
Feed(m) ==
  /\ ~failed /\ feeds < MaxFeeds
  /\ feeds' = feeds + 1
  /\ Becomes(Evaluated(Updated(Caught(m))))

ResetRule(r) == ~failed /\ Becomes(ResetState(State, r)) /\ UNCHANGED feeds

Next == (\E m \in Messages : Feed(m)) \/ \E r \in Resets : ResetRule(r)

Spec == Init /\ [][Next]_vars

-----------------------------------------------------------------------------
\* A name has one index; each pair of indices a cell, which is on at the trigger count.
HitOK(c, h) ==
  /\ {h.srcs, h.tgts} \subseteq Seq(ToSet(NameOrder)) /\ IsInjective(h.srcs) /\ IsInjective(h.tgts)
  /\ h.num \in [Cells(h.srcs, h.tgts) -> 0 .. CondParams[c].tc]
  /\ h.on = [v \in Cells(h.srcs, h.tgts) |-> h.num[v] = CondParams[c].tc]

\* The round knows its extremes; no domain stands for nothing.
RoundOK(q) ==
  q.time # {} => /\ \A x \in q.time : q.min <= x[2] /\ x[2] <= q.max
                 /\ {q.min, q.max} \subseteq {x[2] : x \in q.time}

RuleOK(r, q) ==
  LET n == Len(P(r).conds)
      alarms == [key : [1 .. n -> CondDomain], names : [1 .. n -> STRING \X STRING]]
  IN  /\ q \in [enabled : {TRUE}, alarms : SUBSET alarms, round : Rounds,
                domains : Seq([1 .. n -> CondDomain])]
      /\ RoundOK(q.round) /\ \A d \in ToSet(q.domains) : ~IsNull(d)

TypeOK ==
  /\ DOMAIN hit = CondSet /\ \A c \in CondSet : HitOK(c, hit[c])
  /\ last \in [CondSet -> [src : STRING, tgt : STRING, num : Nat]]
  /\ DOMAIN rule = RuleSet /\ \A r \in RuleSet : RuleOK(r, rule[r])
  /\ failed \in BOOLEAN /\ feeds \in 0 .. MaxFeeds
  /\ DOMAIN stale = RuleSet
  /\ \A r \in RuleSet : LET n == Len(P(r).conds)
                        IN  stale[r] \subseteq [1 .. n -> CondDomain] \X (1 .. n)

\* The names of the value v of rule r.
ValueNames(r, v) == NamesOf(State, r, v)

\* The names that a primary of a WHERE clause equates are equal.
Equates(p, names) ==
  LET called(a) == names[a.i][IF a.arg = "s" THEN 1 ELSE 2]
  IN  IF p.type = "STRING" THEN \A a \in ToSet(p.args) : called(a) = p.str
      ELSE \A a, b \in ToSet(p.args) : called(a) = called(b)

\* What names have to be to satisfy the clause of rule r.
Meets(r, names) ==
  LET e == P(r).where
  IN  e = <<>> \/ Satisfied(e, {p \in Primaries(e) : Equates(p, names)})

\* All the values there are for the conditions of rule r.
AllValues(r) ==
  LET n == Len(P(r).conds)
      cells(i) == DOMAIN HitsOf(State, r)[i].on
  IN  {v \in [1 .. n -> UNION {cells(i) : i \in 1 .. n}] : \A i \in 1 .. n : v[i] \in cells(i)}

\* A rule's domains are the meaning of its WHERE clause, whatever order messages
\* and resets come in: a value is in one of them if and only if the names it
\* stands for satisfy the clause.  They are worked out when a name is new to a
\* condition that the clause mentions, and outlive resets.
WhereIsDenoted ==
  \A r \in RuleSet : P(r).where # <<>> /\ ~failed => \A v \in AllValues(r) :
    (\E k \in DOMAIN rule[r].domains : InDomain(rule[r].domains[k], v))
      <=> Meets(r, ValueNames(r, v))

OnlyConds(r) == \A p \in Primaries(P(r).expr) : p.type = "COND"

\* The meaning of an expression of conditions alone.
TrueFor(r, v) ==
  LET e == P(r).expr
  IN  Satisfied(e, {p \in Primaries(e) : HitsOf(State, r)[p.i].on[v[p.i]]})

\* A rule of conditions alone alarms if and only if, for some sources and targets
\* that satisfy its WHERE clause, its expression is true; and it alarms for nothing
\* else.
PairAlarms ==
  \A r \in RuleSet : OnlyConds(r) /\ ~failed /\ ~(EHS /\ P(r).act) /\ stale[r] = {} =>
    LET good == {v \in AllValues(r) : Meets(r, ValueNames(r, v)) /\ TrueFor(r, v)}
    IN  /\ (good # {}) = (rule[r].alarms # {})
        /\ \A a \in rule[r].alarms :
             \E v \in good : \A i \in DOMAIN v : a.key[i] \in {v[i], NullPair}

\* What an alarm was raised for is still what its indices mean, so that nothing new
\* is taken for it: part by part, until another rule resets the part's condition.
AlarmMeansNames ==
  \A r \in RuleSet : \A a \in rule[r].alarms : \A i \in DOMAIN a.key : \A j \in {1, 2} :
    <<a.key, i>> \notin stale[r] /\ a.names[i][j] # "none"
      => NamesOf(State, r, a.key)[i][j] = a.names[i][j]

\* The rules that are a COUNT or COUNT_PERCENT, grouped by the target or source.
IsCount(r) ==
  /\ Len(P(r).conds) = 1 /\ P(r).where # <<>> /\ Len(P(r).expr) = 1
  /\ Len(P(r).expr[1]) = 1 /\ Len(P(r).expr[1][1]) = 1
  /\ P(r).expr[1][1][1].type \in {"COUNT", "COUNT_PERCENT"}
  /\ P(r).expr[1][1][1].arg # "MESSAGE" /\ ~P(r).act

\* The half of a pair of indices that is the group: what is not counted.
GroupedBy(r) == IF P(r).expr[1][1][1].arg = "SOURCE" THEN 2 ELSE 1

\* The groups with as many cells on as the rule wants.
WantedGroups(r) ==
  LET p == P(r).expr[1][1][1]
      h == HitsOf(State, r)[1]
      j == GroupedBy(r)
      wanted(g) == LET n == Cardinality({v \in DOMAIN h.on : h.on[v] /\ v[j] = g})
                   IN  IF p.type = "COUNT" THEN compare(p.op, n, p.rhv)
                       ELSE compare(p.op, 100 * n, p.rhv * GroupSize[p.group])
  IN  {g \in {v[j] : v \in DOMAIN h.on} : wanted(g)}

\* A rule that counts alarms for exactly the groups that have as many as it wants:
\* a count is looked at whenever it may have changed, and the groups do not mix.
CountAlarms ==
  \A r \in RuleSet : IsCount(r) /\ ~failed /\ stale[r] = {} =>
    {a.key[1][GroupedBy(r)] : a \in rule[r].alarms} = WantedGroups(r)

\* No alarm's text throws, which would end the program.
NeverThrows == ~failed

-----------------------------------------------------------------------------
(* What the properties need of a configuration, where the code lets more   *)
(* pass.                                                                   *)

\* No condition is mentioned twice where a name is given: 'c.$s = c.$t = "x"' looks at
\* the target alone.
StringsOnce ==
  \A r \in RuleSet : \A p \in Primaries(P(r).where) :
    p.type = "STRING" => \A a, b \in ToSet(p.args) : a.i = b.i => a = b

\* A rule that is reset, by the operator or by an action of its own, has its
\* conditions to itself, and no domains that could outlive the names they are for.
Resetting == Resets \cup {r \in RuleSet : EHS /\ P(r).act}
ResetsApart ==
  \A r \in Resetting :
    /\ P(r).where = <<>> \/ Len(P(r).conds) = 1
    /\ \A q \in RuleSet \ {r} : ToSet(P(q).conds) \cap ToSet(P(r).conds) = {}

\* The alternatives of an expression that are not in parentheses.
Alternatives(e) == ToSet(e[Len(e)])

\* No other rule that acts has a condition of rule r.
Undisturbed(r) ==
  \A q \in RuleSet \ {r} : EHS /\ P(q).act => ToSet(P(q).conds) \cap ToSet(P(r).conds) = {}

\* A condition that a text names is looked at, and not by IS_SYNCD, whenever the
\* expression is true: as a condition, or by functions if only a name is asked for,
\* there is no other condition, and nobody resets it between.  Groups are those of the
\* pattern.
TextsSure ==
  \A r \in RuleSet : \A x \in P(r).text :
    LET looks == {p \in Primaries(P(r).expr) : p.i = x.i}
    IN  /\ \A p \in looks : p.type # "IS_SYNCD"
        /\ \A a \in Alternatives(P(r).expr) : \E p \in ToSet(a) : p.type # "EXPR" /\ p.i = x.i
        /\ \/ \A p \in looks : p.type = "COND"
           \/ x.arg \in {"s", "t"} /\ Len(P(r).conds) = 1 /\ Undisturbed(r)
        /\ x.arg = "g" => x.n <= CondParams[P(r).conds[x.i]].groups

\* A rule of conditions alone is true only if all its conditions are on, or they are
\* on from the first message.
PairsSure ==
  \A r \in RuleSet : OnlyConds(r) =>
    \/ \A a \in Alternatives(P(r).expr) :
         {p.i : p \in {q \in ToSet(a) : q.type = "COND"}} = DOMAIN P(r).conds
    \/ \A c \in ToSet(P(r).conds) : CondParams[c].tc = 1

\* A rule that counts does so for each of its groups, for which no message is too few
\* and one more is never too many.
CountsSure ==
  \A r \in RuleSet : IsCount(r) =>
    LET p == P(r).expr[1][1][1]
        arg == IF GroupedBy(r) = 2 THEN "t" ELSE "s"
        total == IF p.type = "COUNT" THEN 1 ELSE GroupSize[p.group]
    IN  /\ P(r).where = << << <<[type |-> "COND", args |-> <<[i |-> 1, arg |-> arg]>>]>> >> >>
        /\ p.op \in {">", ">="} /\ ~compare(p.op, 0, p.rhv * total)

-----------------------------------------------------------------------------
\* The state is sound, and the domains are those of the WHERE clauses
\* (ma_domain_cond.cpp:24-189, ma_rule.cpp:104-114).
DomainInv == TypeOK /\ WhereIsDenoted

\* Rules alarm when they should, for what they should (ma_rule.cpp:161-240,
\* ma_boolean_cond.cpp:67-147).
RulesInv == PairAlarms /\ CountAlarms
=============================================================================
