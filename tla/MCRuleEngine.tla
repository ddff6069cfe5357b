---------------------------- MODULE MCRuleEngine ----------------------------
(* Model-checking instances of RuleEngine.                                 *)
EXTENDS RuleEngine

Cnd(src, least, pers) == [per_source |-> src, at_least |-> least, persistent |-> pers]

Rul(cs, ex, rep, hold, act) ==
  [conds |-> cs, expr |-> ex, repeat |-> rep, holdoff |-> hold, act |-> act]

\* A rule of its own, without an action, so that its alarms stay; a conjunction of
\* a per-source condition and one that waits for silence; and a rule whose action
\* resets the conjunction's first condition under its alarms.
MCConds == [c \in {"c1", "c2", "c3"} |->
              CASE c = "c1" -> Cnd(TRUE, TRUE, FALSE)
                [] c = "c2" -> Cnd(TRUE, TRUE, TRUE)
                [] c = "c3" -> Cnd(FALSE, FALSE, FALSE)]
MCRules == [r \in {"r1", "r2", "r3"} |->
              CASE r = "r1" -> Rul(<<"c1">>, <<<<1>>>>, FALSE, 0, FALSE)
                [] r = "r2" -> Rul(<<"c2", "c3">>, <<<<1, 2>>>>, FALSE, 0, FALSE)
                [] r = "r3" -> Rul(<<"c2">>, <<<<1>>>>, FALSE, 0, TRUE)]
MCOrder == <<"r1", "r2", "r3">>

\* A rule that repeats its alarm.
RepeatConds == [c \in {"c1"} |-> Cnd(TRUE, TRUE, FALSE)]
RepeatRules == [r \in {"r1"} |-> Rul(<<"c1">>, <<<<1>>>>, TRUE, 1, FALSE)]
RepeatOrder == <<"r1">>

\* No source differs from another.
SourceSymmetry == Permutations(Sources)
=============================================================================
