---------------------------- MODULE MCRuleDomains ----------------------------
(* Model-checking instances of RuleDomains: the conditions and rules of       *)
(* src/ErrorHandler/config/rules_test.fcl with smaller thresholds.            *)
EXTENDS RuleDomains, Participants

MCNameOrder == <<GlobalS, GlobalT, "app1", "app2", "bn1", "bn2">>

MCConds == <<"c1", "c2", "c3">>
MCGroups == [g \in {"dcm", "bn"} |-> CountOfGroup(InitParticipants, g)]
Condition(s, t, groups) ==
  [per_source |-> s, per_target |-> t, tc |-> 1, test |-> <<>>, groups |-> groups]
MCCondParams ==
  [c1 |-> Condition(TRUE, TRUE, 1), c2 |-> Condition(TRUE, FALSE, 0),
   c3 |-> [Condition(TRUE, FALSE, 1) EXCEPT
             !.test = << << <<[type |-> "FUNCTION", op |-> "<", rhv |-> 90]>> >> >>]]

Alone(alternatives) == <<alternatives>>
One(p) == Alone(<< <<p>> >>)
Within(i) == [type |-> "EXPR", sub |-> i]
Is(i) == [type |-> "COND", i |-> i]
Arg(i, a) == [i |-> i, arg |-> a]
Group(i, n) == [i |-> i, arg |-> "g", n |-> n]
Equal(args) == [type |-> "COND", args |-> args]
EqualTo(args, str) == [type |-> "STRING", args |-> args, str |-> str]
CountOf(arg, op, n) == [type |-> "COUNT", i |-> 1, arg |-> arg, op |-> op, rhv |-> n]
Percent(arg, n) ==
  [type |-> "COUNT_PERCENT", i |-> 1, arg |-> arg, group |-> "bn", op |-> ">", rhv |-> n]
Rule(conds, expr, where, text) ==
  [conds |-> conds, expr |-> expr, where |-> where, text |-> text, act |-> FALSE]

BothOn == Alone(<< <<Is(1), Is(2)>> >>)
MCRules ==
  [r1 |-> Rule(<<"c1", "c2">>, BothOn,
               << << <<EqualTo(<<Arg(1, "t"), Arg(2, "s")>>, "bn2")>> >>,
                  << <<Within(1), EqualTo(<<Arg(1, "s")>>, "app2")>> >> >>,
               {Arg(1, "s"), Arg(2, "s"), Arg(2, "m")}),
   r2 |-> Rule(<<"c1", "c2">>, BothOn, One(Equal(<<Arg(1, "t"), Arg(2, "s")>>)),
               {Arg(1, "s"), Arg(1, "t"), Group(1, 1)}),
   r3_1 |-> Rule(<<"c1">>, One(CountOf("SOURCE", ">", 1)), One(Equal(<<Arg(1, "t")>>)),
                 {Arg(1, "t")}),
   r3_2 |-> Rule(<<"c1">>, One(CountOf("TARGET", ">", 1)), One(Equal(<<Arg(1, "s")>>)),
                 {Arg(1, "s")}),
   r3_4 |-> Rule(<<"c1">>, One(CountOf("MESSAGE", ">", 1)), One(Equal(<<Arg(1, "t")>>)),
                 {Arg(1, "t")}),
   r4 |-> [Rule(<<"c3">>, One([type |-> "IS_SYNCD", i |-> 1]), <<>>, {}) EXCEPT !.act = TRUE],
   r5_1 |-> Rule(<<"c2">>, One(Percent("SOURCE", 20)), One(Equal(<<Arg(1, "t")>>)), {})]
MCOrder == <<"r1", "r2", "r3_1", "r3_2", "r3_4", "r4", "r5_1">>

Problem(s, t, c) == [src |-> s, tgt |-> t, num |-> 0, fits |-> {c}]
SyncTo(s, n) == [src |-> s, tgt |-> "", num |-> n, fits |-> {"c3"}]
MCMessages ==
  {Problem(s, t, "c1") : s \in {"app1", "app2"}, t \in {"bn1", "bn2"}}
    \cup {Problem(s, "", "c2") : s \in {"bn1", "bn2"}}
    \cup {SyncTo("app1", 1), SyncTo("app1", 4), SyncTo("app2", 9), SyncTo("app2", 95)}

\* What the properties need of a configuration, this one has.
ASSUME MCAssumption == StringsOnce /\ TextsSure /\ PairsSure /\ CountsSure
=============================================================================
