----------------------------- MODULE RuleEngine -----------------------------
(***************************************************************************)
(* Conditions, rules and alarms (ma_rule_engine.cpp, ma_rule.cpp,          *)
(* ma_condition.cpp, ma_hitmap.cpp, ma_boolean_*.cpp): how a change of the *)
(* status of a condition's cell makes its rules raise alarms, and what the *)
(* resets forget.                                                          *)
(*                                                                         *)
(* A condition's hitmap is the sequence of the sources it has seen, in the *)
(* order of their indices, and the status of their cells.  The status that *)
(* a hit or a timing event gives a cell is any that MaCell allows for that *)
(* kind of condition.  Targets behave as sources do and are left out, as   *)
(* are WHERE clauses (a rule's domain is ANY) and functions.               *)
(***************************************************************************)
EXTENDS Integers, Sequences, FiniteSets, SequencesExt

CONSTANTS
  Conds, CondParams,   \* conditions; [per_source, at_least, persistent]
  Rules, RuleParams,   \* rules; [conds, expr, repeat, holdoff, act]
  RuleOrder,           \* the rules in the order of the notification lists
  Sources,             \* the applications that send messages
  EHS,                 \* whether actions are carried out
  MaxSteps,            \* bound: messages and worker passes
  MaxTime              \* bound: the clock stops here

\* The source index of a condition that does not distinguish sources.
Global == "__S_GLOBAL__"
NIL == 0
None == "none"

CondParamType == [per_source : BOOLEAN, at_least : BOOLEAN, persistent : BOOLEAN]

\* conds: the rule's conditions by position; expr: an OR of ANDs of positions.
WellFormedRule(q) ==
  /\ q.conds \in Seq(Conds) /\ q.conds # <<>> /\ IsInjective(q.conds)
  /\ q.expr \in Seq(Seq(Nat)) /\ q.expr # <<>>
  /\ \A m \in DOMAIN q.expr :
       q.expr[m] # <<>> /\ \A i \in DOMAIN q.expr[m] : q.expr[m][i] \in DOMAIN q.conds
  /\ q.repeat \in BOOLEAN /\ q.act \in BOOLEAN /\ q.holdoff \in Nat

ASSUME EngineAssumption ==
  /\ CondParams \in [Conds -> CondParamType]
  /\ DOMAIN RuleParams = Rules /\ \A r \in Rules : WellFormedRule(RuleParams[r])
  /\ RuleOrder \in Seq(Rules) /\ ToSet(RuleOrder) = Rules /\ IsInjective(RuleOrder)
  /\ Global \notin Sources /\ None \notin Sources
  /\ EHS \in BOOLEAN /\ MaxSteps \in Nat /\ MaxTime \in Nat

VARIABLES
  cond,   \* cond[c]: the sources seen, and the status of their cells
  rule,   \* rule[r]: enabled, the alarms raised, and how many
  now,    \* the clock
  steps   \* messages and worker passes so far

vars == <<cond, rule, now, steps>>

GroundCond == [srcs |-> <<>>, on |-> <<>>]

\* An alarm is keyed by the indices it was raised for.  Its entry has the time
\* the code stores and, for the properties, when it was last raised, the sources it
\* was raised for, and the conditions that have not been reset since (live).  muted
\* says whether the rule has been disabled since it was last in the ground state.

TypeOK ==
  /\ \A c \in Conds :
       /\ cond[c].srcs \in Seq(Sources \cup {Global}) /\ IsInjective(cond[c].srcs)
       /\ cond[c].on \in [DOMAIN cond[c].srcs -> BOOLEAN]
  /\ \A r \in Rules :
       /\ rule[r].enabled \in BOOLEAN /\ rule[r].muted \in BOOLEAN
       /\ rule[r].count \in Nat
       /\ \A k \in DOMAIN rule[r].alarms :
            /\ k \in [DOMAIN RuleParams[r].conds -> Nat]
            /\ rule[r].alarms[k].time \in 0 .. now
            /\ rule[r].alarms[k].raised \in 0 .. now
  /\ now \in 0 .. MaxTime /\ steps \in 0 .. MaxSteps

Init ==
  /\ cond = [c \in Conds |-> GroundCond]
  /\ rule = [r \in Rules |-> [enabled |-> TRUE, muted |-> FALSE,
                              alarms |-> <<>>, count |-> 0]]
  /\ now = 0
  /\ steps = 0

-----------------------------------------------------------------------------
(* Conditions: ma_hitmap::capture(), ma_cell::hit() and event().           *)

SourceOf(c, s) == IF CondParams[c].per_source THEN s ELSE Global

\* The condition with an index for source s.
Indexed(c, s) ==
  LET k == cond[c]  src == SourceOf(c, s)
  IN  IF src \in ToSet(k.srcs) THEN k
      ELSE [srcs |-> Append(k.srcs, src), on |-> Append(k.on, FALSE)]

IndexOf(k, src) == CHOOSE i \in DOMAIN k.srcs : k.srcs[i] = src

\* The cell that a message of source s hits, its status, and the condition with
\* the status b for it.
HitIndex(c, s) == IndexOf(Indexed(c, s), SourceOf(c, s))

HitStatus(c, s) == Indexed(c, s).on[HitIndex(c, s)]

AfterHit(c, s, b) ==
  [srcs |-> Indexed(c, s).srcs, on |-> [Indexed(c, s).on EXCEPT ![HitIndex(c, s)] = b]]

\* The status a hit can leave a cell of condition c in.
HitOutcomes(c, was) ==
  IF was /\ CondParams[c].persistent THEN {TRUE}
  ELSE IF CondParams[c].at_least THEN BOOLEAN ELSE {FALSE}

\* The status a worker pass can leave it in.
EventOutcomes(c, was) ==
  {was} \cup (IF ~CondParams[c].at_least THEN {TRUE}
              ELSE IF ~CondParams[c].persistent THEN {FALSE} ELSE {})

-----------------------------------------------------------------------------
(* Rules: ma_rule::evaluate().  An engine state is e = [cond, rule].       *)

IsOn(e, r, v, j) == e.cond[RuleParams[r].conds[j]].on[v[j]]

\* The values recursive_evaluate() goes through: an index for every condition
\* of the rule (none at all if some condition has seen no source yet).
Values(e, r) ==
  LET cs == RuleParams[r].conds
      Seen(j) == 1 .. Len(e.cond[cs[j]].srcs)
  IN  {v \in [DOMAIN cs -> UNION {Seen(j) : j \in DOMAIN cs}] :
         \A j \in DOMAIN cs : v[j] \in Seen(j)}

LexLess(v, w) == \E i \in DOMAIN v : v[i] < w[i] /\ \A j \in 1 .. i-1 : v[j] = w[j]

ClauseTrue(e, r, v, m) ==
  \A i \in DOMAIN RuleParams[r].expr[m] : IsOn(e, r, v, RuleParams[r].expr[m][i])

ExprTrue(e, r, v) == \E m \in DOMAIN RuleParams[r].expr : ClauseTrue(e, r, v, m)

\* The short-circuit evaluation looks at position j.
Evaluated(e, r, v, j) ==
  \E m \in DOMAIN RuleParams[r].expr :
    /\ \A l \in 1 .. m-1 : ~ClauseTrue(e, r, v, l)
    /\ \E i \in DOMAIN RuleParams[r].expr[m] :
         /\ RuleParams[r].expr[m][i] = j
         /\ \A h \in 1 .. i-1 : IsOn(e, r, v, RuleParams[r].expr[m][h])

\* The alarm records the values of the positions looked at.
AlarmKey(e, r, v) == [j \in DOMAIN v |-> IF Evaluated(e, r, v, j) THEN v[j] ELSE NIL]

\* The sources that stand at these positions.
SourcesOf(e, r, v) ==
  [j \in DOMAIN v |-> IF Evaluated(e, r, v, j)
                      THEN e.cond[RuleParams[r].conds[j]].srcs[v[j]] ELSE None]

\* Mutation: whether the alarm has been raised before is not looked up.
MayRaiseAlways(e, r, k) == TRUE

\* boolean_evaluate(): a new alarm, or one that may be repeated.
MayRaise(e, r, k) ==
  \/ k \notin DOMAIN e.rule[r].alarms
  \/ /\ RuleParams[r].repeat
     /\ now - e.rule[r].alarms[k].time > RuleParams[r].holdoff

\* The insertion into the map leaves the time of an entry that is already there as it is.
Insert(q, k, names, C) ==
  LET t == IF k \in DOMAIN q THEN q[k].time ELSE now
  IN  [x \in DOMAIN q \cup {k} |->
         IF x = k THEN [time |-> t, raised |-> now, names |-> names, live |-> C] ELSE q[x]]

Raise(e, r, v) ==
  LET q == e.rule[r]
      raised == [enabled |-> q.enabled, muted |-> q.muted,
                 alarms |-> Insert(q.alarms, AlarmKey(e, r, v), SourcesOf(e, r, v),
                                   ToSet(RuleParams[r].conds)),
                 count |-> q.count + 1]
  IN  [cond |-> e.cond, rule |-> [e.rule EXCEPT ![r] = raised]]

\* A rule in the ground state.
Forgotten(q) == [enabled |-> q.enabled, muted |-> ~q.enabled, alarms |-> <<>>, count |-> 0]

\* A rule under whose alarms the conditions C have been reset: it keeps them all.
Outlived(q, C) ==
  [enabled |-> q.enabled, muted |-> q.muted, count |-> q.count,
   alarms |-> [k \in DOMAIN q.alarms |->
                 [time |-> q.alarms[k].time, raised |-> q.alarms[k].raised,
                  names |-> q.alarms[k].names, live |-> q.alarms[k].live \ C]]]

\* Mutation: the reset of a rule leaves its alarms in place.
ResetOfKeepsAlarms(e, r) ==
  [cond |-> [c \in Conds |-> IF c \in ToSet(RuleParams[r].conds)
                             THEN GroundCond ELSE e.cond[c]],
   rule |-> [e.rule EXCEPT ![r].count = 0, ![r].muted = ~e.rule[r].enabled]]

\* ma_rule::reset(): every condition of the rule, whoever else uses it, and the
\* rule's own alarms; the alarms of the others stay.
ResetOf(e, r) ==
  [cond |-> [c \in Conds |-> IF c \in ToSet(RuleParams[r].conds)
                             THEN GroundCond ELSE e.cond[c]],
   rule |-> [q \in Rules |-> IF q = r THEN Forgotten(e.rule[r])
                             ELSE Outlived(e.rule[q], ToSet(RuleParams[r].conds))]]

\* evaluate() stops at the first alarm it can raise; evaluate_rules() then
\* carries out the rule's actions, and resets it if there are any.
EvaluateRule(e, r) ==
  LET F == {v \in Values(e, r) :
              ExprTrue(e, r, v) /\ MayRaise(e, r, AlarmKey(e, r, v))}
  IN  IF ~e.rule[r].enabled \/ F = {} THEN e
      ELSE LET v == CHOOSE w \in F : \A u \in F : u = w \/ LexLess(w, u)
               f == Raise(e, r, v)
           IN  IF EHS /\ RuleParams[r].act THEN ResetOf(f, r) ELSE f

\* evaluate_rules() on the rules that any of the changed conditions notifies.
EvaluateRules(e, changed) ==
  LET Notified(r) == ToSet(RuleParams[r].conds) \cap changed # {}
      after[i \in 0 .. Len(RuleOrder)] ==
        IF i = 0 THEN e
        ELSE IF Notified(RuleOrder[i]) THEN EvaluateRule(after[i - 1], RuleOrder[i])
        ELSE after[i - 1]
  IN  after[Len(RuleOrder)]

Become(e) == cond' = e.cond /\ rule' = e.rule

-----------------------------------------------------------------------------
(* Actions.                                                                *)

\* feed(): a message of source s that passes the tests of the conditions in M
\* and leaves their cells in the states st.
Captured(s, M, st) ==
  [cond |-> [c \in Conds |-> IF c \in M THEN AfterHit(c, s, st[c]) ELSE cond[c]],
   rule |-> rule]

Feed(s, M, st) ==
  /\ steps < MaxSteps
  /\ \A c \in M : st[c] \in HitOutcomes(c, HitStatus(c, s))
  /\ Become(EvaluateRules(Captured(s, M, st), {c \in M : HitStatus(c, s) # st[c]}))
  /\ steps' = steps + 1
  /\ UNCHANGED now

\* A pass of event_worker() that flips the cells in F, a set of <<condition,
\* index>> pairs.
Cells == UNION {{c} \X DOMAIN cond[c].srcs : c \in Conds}

Flipped(F) ==
  [cond |-> [c \in Conds |->
               [srcs |-> cond[c].srcs,
                on |-> [i \in DOMAIN cond[c].on |->
                          IF <<c, i>> \in F THEN ~cond[c].on[i] ELSE cond[c].on[i]]]],
   rule |-> rule]

WorkerPass(F) ==
  /\ steps < MaxSteps
  /\ \A f \in F : LET was == cond[f[1]].on[f[2]] IN (~was) \in EventOutcomes(f[1], was)
  /\ Become(EvaluateRules(Flipped(F), {f[1] : f \in F}))
  /\ steps' = steps + 1
  /\ UNCHANGED now

\* The operator resets a rule, or everything.
ResetRule(r) ==
  /\ Become(ResetOf([cond |-> cond, rule |-> rule], r))
  /\ UNCHANGED <<now, steps>>

\* Mutation: the reset of everything resets the conditions only.
ResetAllConds ==
  /\ cond' = [c \in Conds |-> GroundCond]
  /\ UNCHANGED <<rule, now, steps>>

ResetAll ==
  /\ cond' = [c \in Conds |-> GroundCond]
  /\ rule' = [r \in Rules |-> Forgotten(rule[r])]
  /\ UNCHANGED <<now, steps>>

\* The operator enables or disables a rule: nothing is evaluated.
Switched(q, flag) ==
  [enabled |-> flag, muted |-> q.muted \/ ~flag, alarms |-> q.alarms, count |-> q.count]

EnableRule(r, flag) ==
  /\ rule' = [rule EXCEPT ![r] = Switched(@, flag)]
  /\ UNCHANGED <<cond, now, steps>>

Tick ==
  /\ now < MaxTime
  /\ now' = now + 1
  /\ UNCHANGED <<cond, rule, steps>>

Next ==
  \/ \E s \in Sources, M \in SUBSET Conds \ {{}} :
       \E st \in [M -> BOOLEAN] : Feed(s, M, st)
  \/ \E F \in SUBSET Cells \ {{}} : WorkerPass(F)
  \/ \E r \in Rules : ResetRule(r)
  \/ ResetAll
  \/ \E r \in Rules, flag \in BOOLEAN : EnableRule(r, flag)
  \/ Tick

Spec == Init /\ [][Next]_vars

-----------------------------------------------------------------------------
(* Properties.                                                             *)

OnCells == UNION {{<<c, cond[c].srcs[i]>> : i \in {j \in DOMAIN cond[c].srcs : cond[c].on[j]}}
                    : c \in Conds}

Shared(r, c) == \E q \in Rules \ {r} : c \in ToSet(RuleParams[q].conds)

\* A rule of its own on one occur_at_least condition raises an alarm for every
\* source that turns the condition on, through messages, actions and resets,
\* unless it was disabled in between (RuleEngineDocumentation.txt:47-52,
\* ma_rule.cpp:161-278).  Rules that repeat their alarms are left out: the
\* evaluation that a new source asks for may repeat the alarm of an earlier
\* source instead, and stop there.
OwnRule(r) == Len(RuleParams[r].conds) = 1 /\ ~Shared(r, RuleParams[r].conds[1])

EverySourceAlarms ==
  \A r \in Rules : OwnRule(r) /\ ~RuleParams[r].repeat /\ ~rule[r].muted =>
    \A x \in OnCells :
      x[1] = RuleParams[r].conds[1] /\ CondParams[x[1]].at_least
        => \E k \in DOMAIN rule[r].alarms : rule[r].alarms[k].names[1] = x[2]

\* Nothing but a reset of the rule itself, or of everything, may take the sources
\* from under position j of an alarm: its condition is the rule's own, or no other
\* rule has reset it since the alarm was raised.
Standing(r, k, j) ==
  LET c == RuleParams[r].conds[j]
  IN  c \in rule[r].alarms[k].live \/ ~Shared(r, c)

\* "one domain only alarms once" (ma_rule.h:57-59): no two alarms of a rule were
\* raised for the same sources, whatever was reset since the first of them, a
\* condition that it shares with a rule that was reset excepted
\* (RuleEngineDocumentation.txt:404-410, ma_rule.cpp:201-241, 265-278).
SameCauseOnce ==
  \A r \in Rules : \A k, l \in DOMAIN rule[r].alarms :
    /\ rule[r].alarms[k].names = rule[r].alarms[l].names
    /\ \A j \in DOMAIN k : k[j] # NIL => Standing(r, k, j) /\ Standing(r, l, j)
    => k = l

\* The index that an alarm is remembered by still stands for the source it was
\* raised for, however sources came and rules were reset since, the reset of another
\* rule that shares this very condition excepted (ma_rule.cpp:201-218, 265-278,
\* ma_hitmap.cpp:22-30, 53-58).
AlarmMeansSource ==
  \A r \in Rules : \A k \in DOMAIN rule[r].alarms : \A j \in DOMAIN k :
    LET c == RuleParams[r].conds[j]
    IN  k[j] # NIL /\ Standing(r, k, j) =>
          /\ k[j] \in DOMAIN cond[c].srcs
          /\ cond[c].srcs[k[j]] = rule[r].alarms[k].names[j]

\* "number of distinguishable alarms (one domain only alarms once)"
\* (ma_rule.h:57-59): the counter of a rule that does not repeat alarms is the
\* number of alarms it remembers, through resets and actions.
CountIsDistinct ==
  \A r \in Rules : ~RuleParams[r].repeat =>
    rule[r].count = Cardinality(DOMAIN rule[r].alarms)

\* "otherwise, the alarm has already been triggered, or hasn't passed the
\* holdoff time" (ma_rule.cpp:243-244): an alarm is raised again only when the
\* holdoff time has passed since it was last raised.
HoldoffRespected ==
  [][\A r \in Rules : \A k \in DOMAIN rule[r].alarms \cap DOMAIN rule'[r].alarms :
       rule'[r].alarms[k].raised # rule[r].alarms[k].raised =>
         rule'[r].alarms[k].raised - rule[r].alarms[k].raised > RuleParams[r].holdoff]_vars

\* The data are sound and every alarm's key is (ma_rule.cpp:201-278).
AlarmInv == TypeOK /\ AlarmMeansSource
=============================================================================
