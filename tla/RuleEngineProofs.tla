-------------------------- MODULE RuleEngineProofs --------------------------
(***************************************************************************)
(* What the alarms of the rules are worth (RuleEngine), for every set of   *)
(* conditions, rules and sources.                                          *)
(***************************************************************************)
EXTENDS RuleEngine, DataProofs, FiniteSetTheorems

-----------------------------------------------------------------------------
(* The states of the engine.                                               *)

SourceIndex == Sources \cup {Global}

CondState ==
  {k \in [srcs : Seq(SourceIndex), on : Seq(BOOLEAN)] :
     IsInjective(k.srcs) /\ Len(k.on) = Len(k.srcs)}

\* The names of an alarm: a source, or none, for every condition of the rule.
NameSeq == Seq(SourceIndex \cup {None})

Entry == [time : Nat, raised : Nat, names : NameSeq, live : SUBSET Conds]

AlarmMap == UNION {[K -> Entry] : K \in SUBSET Seq(Nat)}

RuleState == [enabled : BOOLEAN, muted : BOOLEAN, alarms : AlarmMap, count : Nat]

EngineState == [cond : [Conds -> CondState], rule : [Rules -> RuleState]]

CondsOf(r) == RuleParams[r].conds

\* The parts of the invariant.  The keys and the times of the alarms of a rule:
Keyed(q, r, t) ==
  \A k \in DOMAIN q.alarms :
    k \in [DOMAIN CondsOf(r) -> Nat] /\ q.alarms[k].time <= t /\ q.alarms[k].raised <= t

\* The counter of a rule that does not repeat alarms.
Counted(q, r) ==
  ~RuleParams[r].repeat =>
    IsFiniteSet(DOMAIN q.alarms) /\ q.count = Cardinality(DOMAIN q.alarms)

\* An alarm has a name for the positions its key has an index for; while a condition
\* has not been reset under it, the index stands for the name; and a condition of the
\* rule's own is never reset under it.
Means(e, r, k, a) ==
  /\ \A j \in DOMAIN CondsOf(r) : k[j] = NIL <=> a.names[j] = None
  /\ \A j \in DOMAIN CondsOf(r) : k[j] # NIL /\ CondsOf(r)[j] \in a.live =>
       /\ k[j] \in 1 .. Len(e.cond[CondsOf(r)[j]].srcs)
       /\ e.cond[CondsOf(r)[j]].srcs[k[j]] = a.names[j]
  /\ \A j \in DOMAIN CondsOf(r) : CondsOf(r)[j] \in a.live \/ Shared(r, CondsOf(r)[j])

Meant(e, r) == \A k \in DOMAIN e.rule[r].alarms : Means(e, r, k, e.rule[r].alarms[k])

Sound(e, t) ==
  /\ e \in EngineState
  /\ \A r \in Rules : Keyed(e.rule[r], r, t) /\ Counted(e.rule[r], r)
  /\ \A r \in Rules : Meant(e, r)

Engine == [cond |-> cond, rule |-> rule]

EngineInv == Sound(Engine, now) /\ now \in 0 .. MaxTime /\ steps \in 0 .. MaxSteps

-----------------------------------------------------------------------------
(* The first values that make an alarm.                                    *)

LEMMA LexLeast ==
  ASSUME NEW n \in Nat, NEW F \in SUBSET [1 .. n -> Nat], F # {}
  PROVE  \E w \in F : \A u \in F : u = w \/ LexLess(w, u)
<1>. DEFINE Before(w, u, k) == \E i \in 1 .. k : w[i] < u[i] /\ \A j \in 1 .. i-1 : w[j] = u[j]
            Same(w, u, k) == \A j \in 1 .. k : w[j] = u[j]
            P == {k \in Nat : k <= n => \E w \in F : \A u \in F : Same(w, u, k) \/ Before(w, u, k)}
<1>1. 0 \in P
  OBVIOUS
<1>2. ASSUME NEW k \in Nat, k \in P PROVE k + 1 \in P
  <2>. SUFFICES ASSUME k + 1 <= n
                PROVE  \E w \in F : \A u \in F : Same(w, u, k + 1) \/ Before(w, u, k + 1)
    OBVIOUS
  <2>1. PICK w \in F : \A u \in F : Same(w, u, k) \/ Before(w, u, k)
    BY <1>2
  <2>. DEFINE G == {u \in F : Same(w, u, k)}
              T == {u[k + 1] : u \in G}
  <2>2. T \subseteq Nat /\ T # {}
    <3>1. w \in G
      BY <2>1
    <3>2. k + 1 \in 1 .. n
      OBVIOUS
    <3>. QED BY <3>1, <3>2
  <2>3. PICK m \in T : \A x \in T : m <= x
    <3>. HIDE DEF T
    <3>. QED BY <2>2, LeastNatural
  <2>4. PICK z \in G : m = z[k + 1]
    BY <2>3
  <2>5. ASSUME NEW u \in F PROVE Same(z, u, k + 1) \/ Before(z, u, k + 1)
    <3>1. z \in F /\ Same(w, z, k)
      BY <2>4
    <3>2. CASE Before(w, u, k)
      <4>1. PICK i \in 1 .. k : w[i] < u[i] /\ \A j \in 1 .. i-1 : w[j] = u[j]
        BY <3>2
      <4>2. i \in 1 .. k + 1 /\ z[i] < u[i] /\ \A j \in 1 .. i-1 : z[j] = u[j]
        BY <3>1, <4>1
      <4>. QED BY <4>2
    <3>3. CASE Same(w, u, k)
      <4>1. u \in G
        BY <3>3
      <4>2. u[k + 1] \in T
        BY <4>1
      <4>3. z[k + 1] <= u[k + 1] /\ z[k + 1] \in Nat /\ u[k + 1] \in Nat
        BY <2>2, <2>3, <2>4, <4>2
      <4>4. \A j \in 1 .. k : z[j] = u[j]
        BY <3>1, <3>3
      <4>5. CASE z[k + 1] = u[k + 1]
        <5>1. \A j \in 1 .. k + 1 : j \in 1 .. k \/ j = k + 1
          OBVIOUS
        <5>. QED BY <4>4, <4>5, <5>1
      <4>6. CASE z[k + 1] < u[k + 1]
        <5>1. k + 1 \in 1 .. k + 1 /\ 1 .. k + 1 - 1 = 1 .. k
          OBVIOUS
        <5>2. \A j \in 1 .. k + 1 - 1 : z[j] = u[j]
          BY <4>4, <5>1
        <5>3. Before(z, u, k + 1)
          BY <4>6, <5>1, <5>2
        <5>. QED BY <5>3
      <4>7. z[k + 1] = u[k + 1] \/ z[k + 1] < u[k + 1]
        <5>. DEFINE x == z[k + 1]
                    y == u[k + 1]
        <5>1. x <= y /\ x \in Nat /\ y \in Nat
          BY <4>3
        <5>. HIDE DEF x, y
        <5>2. x = y \/ x < y
          BY <5>1
        <5>. QED BY <5>2 DEF x, y
      <4>. HIDE DEF Same, Before
      <4>. QED BY <4>5, <4>6, <4>7
    <3>. QED BY <2>1, <3>2, <3>3
  <2>6. z \in F
    BY <2>4
  <2>. QED BY <2>5, <2>6
<1>3. n \in P
  <2>. HIDE DEF P
  <2>1. Nat \subseteq P
    BY <1>1, <1>2, Induction
  <2>. QED BY <2>1
<1>4. PICK w \in F : \A u \in F : Same(w, u, n) \/ Before(w, u, n)
  BY <1>3
<1>5. ASSUME NEW u \in F PROVE u = w \/ LexLess(w, u)
  <2>1. w \in [1 .. n -> Nat] /\ u \in [1 .. n -> Nat]
    OBVIOUS
  <2>2. Same(w, u, n) => u = w
    BY <2>1
  <2>3. Before(w, u, n) => LexLess(w, u)
    BY <2>1 DEF LexLess
  <2>. QED BY <1>4, <2>2, <2>3
<1>. QED BY <1>4, <1>5
-----------------------------------------------------------------------------
(* One rule.                                                               *)

LEMMA CondsFacts ==
  ASSUME NEW r \in Rules
  PROVE  /\ CondsOf(r) \in Seq(Conds) /\ IsInjective(CondsOf(r)) /\ Len(CondsOf(r)) > 0
         /\ \A j \in DOMAIN CondsOf(r) : CondsOf(r)[j] \in Conds
<1>1. WellFormedRule(RuleParams[r])
  BY EngineAssumption
<1>2. CondsOf(r) \in Seq(Conds) /\ CondsOf(r) # <<>> /\ IsInjective(CondsOf(r))
  BY <1>1 DEF WellFormedRule, CondsOf
<1>. HIDE DEF CondsOf
<1>. QED BY <1>2

\* Values are indices of sources that the conditions have seen.
LEMMA ValueFacts ==
  ASSUME NEW e, NEW r \in Rules, NEW v \in Values(e, r)
  PROVE  /\ v \in [1 .. Len(CondsOf(r)) -> Nat] /\ DOMAIN v = DOMAIN CondsOf(r)
         /\ \A j \in DOMAIN v : v[j] \in 1 .. Len(e.cond[CondsOf(r)[j]].srcs)
<1>. DEFINE cs == RuleParams[r].conds
            Seen(j) == 1 .. Len(e.cond[cs[j]].srcs)
<1>1. cs \in Seq(Conds)
  BY CondsFacts DEF CondsOf
<1>2. DOMAIN cs = 1 .. Len(cs)
  BY <1>1
<1>3. DOMAIN v = DOMAIN cs /\ \A j \in DOMAIN cs : v[j] \in Seen(j)
  BY DEF Values
<1>4. v \in [DOMAIN cs -> UNION {Seen(j) : j \in DOMAIN cs}]
  BY DEF Values
<1>5. UNION {Seen(j) : j \in DOMAIN cs} \subseteq Nat
  OBVIOUS
<1>6. v \in [DOMAIN cs -> Nat]
  BY <1>4, <1>5
<1>. HIDE DEF cs
<1>. QED BY <1>2, <1>3, <1>6 DEF cs, CondsOf

\* An evaluation either raises one alarm, for values that make the expression true,
\* or finds none that it may raise.
Due(e, r) == {v \in Values(e, r) : ExprTrue(e, r, v) /\ MayRaise(e, r, AlarmKey(e, r, v))}

LEMMA EvaluateRuleIs ==
  ASSUME NEW e, NEW r \in Rules
  PROVE  \/ EvaluateRule(e, r) = e /\ (~e.rule[r].enabled \/ Due(e, r) = {})
         \/ /\ e.rule[r].enabled
            /\ \E v \in Due(e, r) : EvaluateRule(e, r) \in {Raise(e, r, v), ResetOf(Raise(e, r, v), r)}
<1>. DEFINE F == Due(e, r)
            v == CHOOSE w \in F : \A u \in F : u = w \/ LexLess(w, u)
            f == Raise(e, r, v)
<1>1. EvaluateRule(e, r) = IF ~e.rule[r].enabled \/ F = {} THEN e
                           ELSE IF EHS /\ RuleParams[r].act THEN ResetOf(f, r) ELSE f
  BY DEF EvaluateRule, Due
<1>2. CASE ~e.rule[r].enabled \/ F = {}
  BY <1>1, <1>2
<1>3. CASE ~(~e.rule[r].enabled \/ F = {})
  <2>1. F \in SUBSET [1 .. Len(CondsOf(r)) -> Nat] /\ F # {} /\ Len(CondsOf(r)) \in Nat
    <3>1. F \subseteq Values(e, r)
      BY DEF Due
    <3>2. CondsOf(r) \in Seq(Conds)
      BY CondsFacts
    <3>. HIDE DEF F
    <3>. QED BY <1>3, <3>1, <3>2, ValueFacts
  <2>2. v \in F
    <3>. HIDE DEF F
    <3>1. \E w \in F : \A u \in F : u = w \/ LexLess(w, u)
      BY <2>1, LexLeast
    <3>. QED BY <3>1
  <2>. HIDE DEF v
  <2>. QED BY <1>1, <1>3, <2>2
<1>. QED BY <1>2, <1>3
-----------------------------------------------------------------------------
(* What raising and forgetting do to the state.                            *)

LEMMA EngineFacts ==
  ASSUME NEW e \in EngineState
  PROVE  /\ e.cond \in [Conds -> CondState] /\ e.rule \in [Rules -> RuleState]
         /\ \A c \in Conds : /\ e.cond[c].srcs \in Seq(SourceIndex) /\ IsInjective(e.cond[c].srcs)
                             /\ e.cond[c].on \in Seq(BOOLEAN)
                             /\ Len(e.cond[c].on) = Len(e.cond[c].srcs)
         /\ \A r \in Rules : /\ e.rule[r] \in RuleState /\ e.rule[r].enabled \in BOOLEAN
                             /\ e.rule[r].muted \in BOOLEAN /\ e.rule[r].count \in Nat
                             /\ e.rule[r].alarms \in AlarmMap
BY DEF EngineState, CondState, RuleState

LEMMA AlarmMapFacts ==
  ASSUME NEW q
  PROVE  q \in AlarmMap <=> /\ q = [k \in DOMAIN q |-> q[k]]
                            /\ \A k \in DOMAIN q : k \in Seq(Nat) /\ q[k] \in Entry
BY DEF AlarmMap

\* No alarms.
LEMMA NoAlarms == <<>> \in AlarmMap /\ DOMAIN <<>> = {} /\ GroundCond \in CondState
<1>. DEFINE z == <<>>
<1>1. DOMAIN z = {} /\ z = [k \in DOMAIN z |-> z[k]]
  OBVIOUS
<1>2. z \in Seq(SourceIndex) /\ z \in Seq(BOOLEAN) /\ Len(z) = 0
  OBVIOUS
<1>3. GroundCond = [srcs |-> z, on |-> z]
  BY DEF GroundCond
<1>. HIDE DEF z
<1>4. GroundCond \in CondState
  BY <1>1, <1>2, <1>3 DEF CondState, IsInjective
<1>. QED BY <1>1, <1>4, AlarmMapFacts DEF z

LEMMA InsertFacts ==
  ASSUME now \in Nat, NEW q \in AlarmMap, NEW k \in Seq(Nat),
         NEW names \in NameSeq, NEW C \in SUBSET Conds
  PROVE  /\ Insert(q, k, names, C) \in AlarmMap
         /\ DOMAIN Insert(q, k, names, C) = DOMAIN q \cup {k}
         /\ \A x \in DOMAIN q : x # k => Insert(q, k, names, C)[x] = q[x]
<1>. DEFINE t == IF k \in DOMAIN q THEN q[k].time ELSE now
            x == [time |-> t, raised |-> now, names |-> names, live |-> C]
            p == Insert(q, k, names, C)
<1>1. t \in Nat
  <2>1. CASE k \in DOMAIN q
    <3>1. q[k] \in Entry
      BY <2>1, AlarmMapFacts
    <3>. QED BY <2>1, <3>1 DEF Entry
  <2>2. CASE k \notin DOMAIN q
    BY <2>2
  <2>. QED BY <2>1, <2>2
<1>2. x \in Entry
  BY <1>1 DEF Entry
<1>3. p = [y \in DOMAIN q \cup {k} |-> IF y = k THEN x ELSE q[y]]
  BY DEF Insert
<1>. HIDE DEF x, t, p
<1>4. DOMAIN p = DOMAIN q \cup {k} /\ p[k] = x /\ \A y \in DOMAIN q : y # k => p[y] = q[y]
  BY <1>3
<1>5. p \in AlarmMap
  <2>1. \A y \in DOMAIN p : y \in Seq(Nat) /\ p[y] \in Entry
    BY <1>2, <1>4, AlarmMapFacts
  <2>2. p = [y \in DOMAIN p |-> p[y]]
    BY <1>3
  <2>. QED BY <2>1, <2>2, AlarmMapFacts
<1>. QED BY <1>4, <1>5 DEF p

LEMMA NewEntry ==
  ASSUME NEW q, NEW k, NEW names, NEW C
  PROVE  /\ Insert(q, k, names, C)[k].raised = now
         /\ Insert(q, k, names, C)[k].names = names
         /\ Insert(q, k, names, C)[k].live = C
         /\ Insert(q, k, names, C)[k].time = IF k \in DOMAIN q THEN q[k].time ELSE now
BY DEF Insert

\* The key of an alarm has an index or NIL, and its names a source or none, for every
\* condition of the rule.
LEMMA KeyFacts ==
  ASSUME NEW e \in EngineState, NEW r \in Rules, NEW v \in Values(e, r)
  PROVE  /\ AlarmKey(e, r, v) \in [DOMAIN CondsOf(r) -> Nat]
         /\ AlarmKey(e, r, v) \in Seq(Nat)
         /\ SourcesOf(e, r, v) \in NameSeq /\ ToSet(CondsOf(r)) \in SUBSET Conds
<1>. DEFINE n == Len(CondsOf(r))
            k == AlarmKey(e, r, v)
<1>1. n \in Nat /\ DOMAIN CondsOf(r) = 1 .. n
  BY CondsFacts
<1>2. v \in [1 .. n -> Nat]
  BY ValueFacts
<1>. HIDE DEF n
<1>3. k \in [1 .. n -> Nat]
  BY <1>2 DEF AlarmKey, NIL
<1>4. k \in Seq(Nat)
  <2>. HIDE DEF k
  <2>. QED BY <1>1, <1>3
<1>5. ASSUME NEW j \in 1 .. n
      PROVE  e.cond[CondsOf(r)[j]].srcs[v[j]] \in SourceIndex
  <2>1. CondsOf(r)[j] \in Conds /\ v[j] \in 1 .. Len(e.cond[CondsOf(r)[j]].srcs)
    BY <1>2, <1>1, CondsFacts, ValueFacts
  <2>2. e.cond[CondsOf(r)[j]].srcs \in Seq(SourceIndex)
    BY <2>1, EngineFacts
  <2>. QED BY <2>1, <2>2
<1>6. SourcesOf(e, r, v) \in [1 .. n -> SourceIndex \cup {None}]
  BY <1>2, <1>5 DEF SourcesOf, CondsOf
<1>7. SourcesOf(e, r, v) \in NameSeq
  BY <1>1, <1>6 DEF NameSeq
<1>8. ToSet(CondsOf(r)) \in SUBSET Conds
  BY CondsFacts DEF ToSet
<1>. QED BY <1>1, <1>3, <1>4, <1>7, <1>8

LEMMA RaiseFacts ==
  ASSUME now \in Nat, NEW e \in EngineState, NEW r \in Rules, NEW v \in Values(e, r)
  PROVE  LET f == Raise(e, r, v)
         IN  /\ f \in EngineState /\ f.cond = e.cond
             /\ \A q \in Rules \ {r} : f.rule[q] = e.rule[q]
             /\ f.rule[r].enabled = e.rule[r].enabled /\ f.rule[r].muted = e.rule[r].muted
             /\ f.rule[r].count = e.rule[r].count + 1
             /\ f.rule[r].alarms = Insert(e.rule[r].alarms, AlarmKey(e, r, v),
                                          SourcesOf(e, r, v), ToSet(CondsOf(r)))
<1>. DEFINE a == Insert(e.rule[r].alarms, AlarmKey(e, r, v), SourcesOf(e, r, v), ToSet(CondsOf(r)))
            f == Raise(e, r, v)
            p == e.rule[r]
            q == [enabled |-> p.enabled, muted |-> p.muted, alarms |-> a, count |-> p.count + 1]
<1>1. a \in AlarmMap
  BY EngineFacts, KeyFacts, InsertFacts
<1>2. p \in RuleState
  BY EngineFacts
<1>3. f = [cond |-> e.cond, rule |-> [e.rule EXCEPT ![r] = q]]
  BY DEF Raise, CondsOf
<1>. HIDE DEF a, f, p
<1>4. /\ q \in RuleState /\ q.enabled = p.enabled /\ q.muted = p.muted
      /\ q.count = p.count + 1 /\ q.alarms = a
  BY <1>1, <1>2 DEF RuleState
<1>. HIDE DEF q
<1>5. f \in EngineState /\ f.cond = e.cond /\ f.rule = [e.rule EXCEPT ![r] = q]
  BY <1>3, <1>4 DEF EngineState
<1>6. f.rule[r] = q /\ \A x \in Rules \ {r} : f.rule[x] = e.rule[x]
  BY <1>5 DEF EngineState
<1>. QED BY <1>4, <1>5, <1>6 DEF a, f, p

LEMMA ForgottenFacts ==
  ASSUME NEW q \in RuleState
  PROVE  LET f == Forgotten(q)
         IN  /\ f \in RuleState /\ f.enabled = q.enabled /\ f.muted = ~q.enabled
             /\ f.alarms = <<>> /\ f.count = 0
<1>. DEFINE z == <<>>
            f == Forgotten(q)
            b == ~q.enabled
<1>1. f = [enabled |-> q.enabled, muted |-> b, alarms |-> z, count |-> 0]
  BY DEF Forgotten
<1>2. z \in AlarmMap /\ b \in BOOLEAN
  BY NoAlarms
<1>. HIDE DEF z, b, f
<1>3. f \in RuleState /\ f.enabled = q.enabled /\ f.muted = b /\ f.alarms = z /\ f.count = 0
  BY <1>1, <1>2 DEF RuleState
<1>. QED BY <1>3 DEF z, b, f

\* What the reset of others' conditions leaves of a rule.
LEMMA OutlivedFacts ==
  ASSUME NEW q \in RuleState, NEW C
  PROVE  LET f == Outlived(q, C)
         IN  /\ f \in RuleState /\ f.enabled = q.enabled /\ f.muted = q.muted /\ f.count = q.count
             /\ DOMAIN f.alarms = DOMAIN q.alarms
             /\ \A k \in DOMAIN q.alarms : /\ f.alarms[k].time = q.alarms[k].time
                                           /\ f.alarms[k].raised = q.alarms[k].raised
                                           /\ f.alarms[k].names = q.alarms[k].names
                                           /\ f.alarms[k].live = q.alarms[k].live \ C
<1>. DEFINE a == q.alarms
            x(k) == [time |-> a[k].time, raised |-> a[k].raised,
                     names |-> a[k].names, live |-> a[k].live \ C]
            b == [k \in DOMAIN a |-> x(k)]
            f == Outlived(q, C)
<1>1. a \in AlarmMap /\ q.enabled \in BOOLEAN /\ q.muted \in BOOLEAN /\ q.count \in Nat
  BY DEF RuleState
<1>2. ASSUME NEW k \in DOMAIN a PROVE k \in Seq(Nat) /\ x(k) \in Entry
  <2>1. k \in Seq(Nat) /\ a[k] \in Entry
    BY <1>1, AlarmMapFacts
  <2>. QED BY <2>1 DEF Entry
<1>3. f = [enabled |-> q.enabled, muted |-> q.muted, count |-> q.count, alarms |-> b]
  BY DEF Outlived
<1>4. DOMAIN b = DOMAIN a /\ \A k \in DOMAIN a : b[k] = x(k)
  OBVIOUS
<1>5. \A k \in DOMAIN a : /\ x(k).time = a[k].time /\ x(k).raised = a[k].raised
                          /\ x(k).names = a[k].names /\ x(k).live = a[k].live \ C
  OBVIOUS
<1>6. b = [k \in DOMAIN b |-> b[k]]
  OBVIOUS
<1>. HIDE DEF a, b, x, f
<1>7. b \in AlarmMap
  BY <1>2, <1>4, <1>6, AlarmMapFacts
<1>8. /\ f \in RuleState /\ f.enabled = q.enabled /\ f.muted = q.muted /\ f.count = q.count
      /\ f.alarms = b
  BY <1>1, <1>3, <1>7 DEF RuleState
<1>. QED BY <1>4, <1>5, <1>8 DEF a, f

LEMMA ResetOfFacts ==
  ASSUME NEW e \in EngineState, NEW r \in Rules
  PROVE  LET f == ResetOf(e, r)
         IN  /\ f \in EngineState
             /\ \A c \in Conds : f.cond[c] = IF c \in ToSet(CondsOf(r)) THEN GroundCond ELSE e.cond[c]
             /\ \A q \in Rules \ {r} : f.rule[q] = Outlived(e.rule[q], ToSet(CondsOf(r)))
             /\ f.rule[r] = Forgotten(e.rule[r])
<1>. DEFINE cs == [c \in Conds |-> IF c \in ToSet(CondsOf(r)) THEN GroundCond ELSE e.cond[c]]
            rs == [q \in Rules |-> IF q = r THEN Forgotten(e.rule[r])
                                   ELSE Outlived(e.rule[q], ToSet(CondsOf(r)))]
<1>1. cs \in [Conds -> CondState]
  BY EngineFacts, NoAlarms
<1>2. /\ Forgotten(e.rule[r]) \in RuleState
      /\ \A q \in Rules : Outlived(e.rule[q], ToSet(CondsOf(r))) \in RuleState
  BY EngineFacts, ForgottenFacts, OutlivedFacts
<1>3. rs \in [Rules -> RuleState] /\ rs[r] = Forgotten(e.rule[r])
      /\ \A q \in Rules \ {r} : rs[q] = Outlived(e.rule[q], ToSet(CondsOf(r)))
  BY <1>2
<1>4. ResetOf(e, r) = [cond |-> cs, rule |-> rs]
  BY DEF ResetOf, CondsOf
<1>5. \A c \in Conds : cs[c] = IF c \in ToSet(CondsOf(r)) THEN GroundCond ELSE e.cond[c]
  OBVIOUS
<1>. HIDE DEF cs, rs
<1>. QED BY <1>1, <1>3, <1>4, <1>5 DEF EngineState
-----------------------------------------------------------------------------
(* Alarms.                                                                 *)

\* The key and the names of an alarm go together.
LEMMA KeyMeans ==
  ASSUME NEW e \in EngineState, NEW r \in Rules, NEW v \in Values(e, r), NEW a,
         a.names = SourcesOf(e, r, v), a.live = ToSet(CondsOf(r))
  PROVE  Means(e, r, AlarmKey(e, r, v), a)
<1>. DEFINE k == AlarmKey(e, r, v)
            Looked(j) == Evaluated(e, r, v, j)
            x(j) == e.cond[CondsOf(r)[j]].srcs[v[j]]
<1>1. DOMAIN v = DOMAIN CondsOf(r)
      /\ \A j \in DOMAIN v : v[j] \in 1 .. Len(e.cond[CondsOf(r)[j]].srcs) /\ v[j] # NIL
  BY ValueFacts DEF NIL
<1>2. \A j \in DOMAIN v : k[j] = IF Looked(j) THEN v[j] ELSE NIL
  BY DEF AlarmKey
<1>3. \A j \in DOMAIN v : a.names[j] = IF Looked(j) THEN x(j) ELSE None
  BY DEF SourcesOf, CondsOf
<1>4. ASSUME NEW j \in DOMAIN v PROVE x(j) # None
  <2>1. CondsOf(r)[j] \in Conds
    BY <1>1, CondsFacts
  <2>2. e.cond[CondsOf(r)[j]].srcs \in Seq(SourceIndex)
    BY <2>1, EngineFacts
  <2>3. x(j) \in SourceIndex
    BY <1>1, <2>2
  <2>4. None \notin SourceIndex
    BY EngineAssumption DEF SourceIndex, Global, None
  <2>. QED BY <2>3, <2>4
<1>5. \A j \in DOMAIN CondsOf(r) : CondsOf(r)[j] \in a.live
  BY DEF ToSet
<1>. HIDE DEF k, Looked, x
<1>6. \A j \in DOMAIN CondsOf(r) : k[j] = NIL <=> a.names[j] = None
  BY <1>1, <1>2, <1>3, <1>4
<1>7. \A j \in DOMAIN CondsOf(r) : k[j] # NIL =>
        /\ k[j] \in 1 .. Len(e.cond[CondsOf(r)[j]].srcs)
        /\ e.cond[CondsOf(r)[j]].srcs[k[j]] = a.names[j]
  BY <1>1, <1>2, <1>3 DEF x
<1>. QED BY <1>5, <1>6, <1>7 DEF Means, k

\* Every source that a condition of rule r has seen in e has its index in f.
Extended(e, f, r) ==
  \A j \in DOMAIN CondsOf(r) : \A i \in 1 .. Len(e.cond[CondsOf(r)[j]].srcs) :
    /\ i \in 1 .. Len(f.cond[CondsOf(r)[j]].srcs)
    /\ f.cond[CondsOf(r)[j]].srcs[i] = e.cond[CondsOf(r)[j]].srcs[i]

\* New sources change nothing in what an alarm means.
LEMMA MeansKept ==
  ASSUME NEW e, NEW f, NEW r \in Rules, NEW k, NEW a,
         Means(e, r, k, a), Extended(e, f, r)
  PROVE  Means(f, r, k, a)
BY DEF Means, Extended

LEMMA RaiseSound ==
  ASSUME now \in Nat, NEW e, Sound(e, now), NEW r \in Rules, NEW v \in Due(e, r)
  PROVE  Sound(Raise(e, r, v), now)
<1>. DEFINE f == Raise(e, r, v)
            k == AlarmKey(e, r, v)
            a == e.rule[r].alarms
            b == f.rule[r].alarms
<1>1. e \in EngineState /\ v \in Values(e, r) /\ ExprTrue(e, r, v) /\ MayRaise(e, r, k)
  BY DEF Sound, Due
<1>2. /\ f \in EngineState /\ f.cond = e.cond
      /\ \A q \in Rules \ {r} : f.rule[q] = e.rule[q]
      /\ f.rule[r].count = e.rule[r].count + 1
      /\ b = Insert(a, k, SourcesOf(e, r, v), ToSet(CondsOf(r)))
  BY <1>1, RaiseFacts
<1>3. k \in [DOMAIN CondsOf(r) -> Nat] /\ k \in Seq(Nat)
      /\ SourcesOf(e, r, v) \in NameSeq /\ ToSet(CondsOf(r)) \in SUBSET Conds
  BY <1>1, KeyFacts
<1>4. a \in AlarmMap /\ e.rule[r].count \in Nat
  BY <1>1, EngineFacts
<1>5. /\ DOMAIN b = DOMAIN a \cup {k} /\ \A x \in DOMAIN a : x # k => b[x] = a[x]
      /\ b[k].raised = now /\ b[k].names = SourcesOf(e, r, v)
      /\ b[k].live = ToSet(CondsOf(r))
      /\ b[k].time = now \/ (k \in DOMAIN a /\ b[k].time = a[k].time)
  <2>. DEFINE names == SourcesOf(e, r, v)
              C == ToSet(CondsOf(r))
  <2>1. b = Insert(a, k, names, C)
    BY <1>2
  <2>2. k \in Seq(Nat) /\ a \in AlarmMap /\ names \in NameSeq /\ C \in SUBSET Conds
    BY <1>3, <1>4
  <2>. HIDE DEF a, b, k, f, names, C
  <2>3. /\ DOMAIN b = DOMAIN a \cup {k} /\ \A x \in DOMAIN a : x # k => b[x] = a[x]
        /\ b[k].raised = now /\ b[k].names = names /\ b[k].live = C
        /\ b[k].time = now \/ (k \in DOMAIN a /\ b[k].time = a[k].time)
    <3>1. DOMAIN b = DOMAIN a \cup {k} /\ \A x \in DOMAIN a : x # k => b[x] = a[x]
      BY <2>1, <2>2, InsertFacts
    <3>2. b[k].raised = now
      BY <2>1, NewEntry
    <3>3. b[k].names = names /\ b[k].live = C
      BY <2>1, NewEntry
    <3>4. b[k].time = IF k \in DOMAIN a THEN a[k].time ELSE now
      BY <2>1, NewEntry
    <3>5. b[k].time = now \/ (k \in DOMAIN a /\ b[k].time = a[k].time)
      BY <3>4
    <3>. QED BY <3>1, <3>2, <3>3, <3>5
  <2>. QED BY <2>3 DEF names, C
<1>6. k \notin DOMAIN a \/ RuleParams[r].repeat
  BY <1>1 DEF MayRaise
<1>7. Means(e, r, k, b[k])
  BY <1>1, <1>5, KeyMeans
<1>. HIDE DEF f, k
<1>8. Keyed(f.rule[r], r, now)
  <2>1. \A x \in DOMAIN a : /\ x \in [DOMAIN CondsOf(r) -> Nat] /\ a[x].time <= now
                            /\ a[x].raised <= now
    BY DEF Sound, Keyed
  <2>2. b[k].time <= now /\ b[k].raised <= now
    BY <1>5, <2>1
  <2>. QED BY <1>3, <1>5, <2>1, <2>2 DEF Keyed
<1>9. Counted(f.rule[r], r)
  <2>. SUFFICES ASSUME ~RuleParams[r].repeat
                PROVE  IsFiniteSet(DOMAIN b) /\ f.rule[r].count = Cardinality(DOMAIN b)
    BY DEF Counted
  <2>1. k \notin DOMAIN a
    BY <1>6
  <2>2. IsFiniteSet(DOMAIN a) /\ e.rule[r].count = Cardinality(DOMAIN a)
    BY DEF Sound, Counted
  <2>3. /\ IsFiniteSet(DOMAIN a \cup {k})
        /\ Cardinality(DOMAIN a \cup {k}) = Cardinality(DOMAIN a) + 1
    BY <2>1, <2>2, FS_AddElement
  <2>. QED BY <1>2, <1>5, <2>2, <2>3
<1>10. ASSUME NEW q \in Rules PROVE Meant(f, q)
  <2>1. Meant(e, q)
    BY DEF Sound
  <2>2. \A x, z : Means(f, q, x, z) <=> Means(e, q, x, z)
    BY <1>2 DEF Means
  <2>3. CASE q = r
    <3>1. \A x \in DOMAIN b : Means(e, r, x, b[x])
      BY <1>5, <1>7, <2>1, <2>3 DEF Meant
    <3>. QED BY <2>2, <2>3, <3>1 DEF Meant
  <2>4. CASE q # r
    BY <1>2, <2>1, <2>2, <2>4 DEF Meant
  <2>. QED BY <2>3, <2>4
<1>11. \A q \in Rules : Keyed(f.rule[q], q, now) /\ Counted(f.rule[q], q)
  BY <1>2, <1>8, <1>9 DEF Sound
<1>12. Sound(f, now)
  BY <1>2, <1>10, <1>11 DEF Sound
<1>. QED BY <1>12 DEF f

\* A rule that has just been reset.
LEMMA ForgottenSound ==
  ASSUME NEW q \in RuleState, NEW r \in Rules, NEW t
  PROVE  Keyed(Forgotten(q), r, t) /\ Counted(Forgotten(q), r)
<1>1. DOMAIN Forgotten(q).alarms = {} /\ Forgotten(q).count = 0
  BY ForgottenFacts, NoAlarms
<1>. QED BY <1>1, FS_EmptySet DEF Keyed, Counted

\* A rule of which others have reset conditions.
LEMMA OutlivedSound ==
  ASSUME NEW q \in RuleState, NEW r \in Rules, NEW t, NEW C, Keyed(q, r, t), Counted(q, r)
  PROVE  Keyed(Outlived(q, C), r, t) /\ Counted(Outlived(q, C), r)
<1>. DEFINE f == Outlived(q, C)
<1>1. /\ DOMAIN f.alarms = DOMAIN q.alarms /\ f.count = q.count
      /\ \A k \in DOMAIN q.alarms : /\ f.alarms[k].time = q.alarms[k].time
                                    /\ f.alarms[k].raised = q.alarms[k].raised
  BY OutlivedFacts
<1>. HIDE DEF f
<1>2. Keyed(f, r, t) /\ Counted(f, r)
  BY <1>1 DEF Keyed, Counted
<1>. QED BY <1>2 DEF f

LEMMA ResetSound ==
  ASSUME NEW t, NEW e, Sound(e, t), NEW r \in Rules
  PROVE  Sound(ResetOf(e, r), t)
<1>. DEFINE f == ResetOf(e, r)
            C == ToSet(CondsOf(r))
<1>1. e \in EngineState /\ \A q \in Rules : e.rule[q] \in RuleState
  BY EngineFacts DEF Sound
<1>2. /\ f \in EngineState
      /\ \A c \in Conds : f.cond[c] = IF c \in C THEN GroundCond ELSE e.cond[c]
      /\ \A q \in Rules \ {r} : f.rule[q] = Outlived(e.rule[q], C)
      /\ f.rule[r] = Forgotten(e.rule[r])
  BY <1>1, ResetOfFacts
<1>. HIDE DEF f
<1>3. \A q \in Rules : Keyed(f.rule[q], q, t) /\ Counted(f.rule[q], q)
  <2>1. Keyed(f.rule[r], r, t) /\ Counted(f.rule[r], r)
    BY <1>1, <1>2, ForgottenSound
  <2>2. ASSUME NEW q \in Rules \ {r} PROVE Keyed(f.rule[q], q, t) /\ Counted(f.rule[q], q)
    BY <1>1, <1>2, OutlivedSound DEF Sound
  <2>. QED BY <2>1, <2>2
<1>4. ASSUME NEW q \in Rules PROVE Meant(f, q)
  <2>1. CASE q = r
    <3>1. DOMAIN f.rule[r].alarms = {}
      BY <1>1, <1>2, ForgottenFacts, NoAlarms
    <3>. QED BY <2>1, <3>1 DEF Meant
  <2>2. CASE q # r
    <3>. DEFINE a == e.rule[q].alarms
                b == f.rule[q].alarms
    <3>1. /\ DOMAIN b = DOMAIN a
          /\ \A k \in DOMAIN a : b[k].names = a[k].names /\ b[k].live = a[k].live \ C
      BY <1>1, <1>2, <2>2, OutlivedFacts
    <3>2. \A k \in DOMAIN a : Means(e, q, k, a[k])
      BY DEF Sound, Meant
    <3>3. \A j \in DOMAIN CondsOf(q) : CondsOf(q)[j] \notin C =>
            f.cond[CondsOf(q)[j]] = e.cond[CondsOf(q)[j]]
      BY <1>2, CondsFacts
    <3>4. \A c \in C : Shared(q, c)
      BY <2>2 DEF Shared, CondsOf
    <3>. HIDE DEF a, b, C
    <3>5. \A k \in DOMAIN a : Means(f, q, k, b[k])
      BY <3>1, <3>2, <3>3, <3>4 DEF Means
    <3>. QED BY <3>1, <3>5 DEF Meant, a, b
  <2>. QED BY <2>1, <2>2
<1>5. Sound(f, t)
  BY <1>2, <1>3, <1>4 DEF Sound
<1>. QED BY <1>5 DEF f
-----------------------------------------------------------------------------
(* The evaluation of all rules.                                            *)

\* What the evaluation of each rule keeps, or what it makes of it in turn, the
\* evaluation of all of them makes in the end.
LEMMA EvaluationInvariant ==
  ASSUME NEW e, NEW M, NEW V, e \in V[0],
         \A i \in 1 .. Len(RuleOrder) : \A f \in V[i - 1] :
           IF ToSet(CondsOf(RuleOrder[i])) \cap M # {}
           THEN EvaluateRule(f, RuleOrder[i]) \in V[i] ELSE f \in V[i]
  PROVE  EvaluateRules(e, M) \in V[Len(RuleOrder)]
<1>. DEFINE n == Len(RuleOrder)
            Step(i, f) == IF ToSet(CondsOf(RuleOrder[i])) \cap M # {}
                          THEN EvaluateRule(f, RuleOrder[i]) ELSE f
            F == [i \in 1 .. n |-> [f \in V[i - 1] |-> Step(i, f)]]
            Q(g) == g = [i \in 0 .. n |-> IF i = 0 THEN e ELSE Step(i, g[i - 1])]
            c == CHOOSE g : Q(g)
<1>0. n \in Nat
  BY EngineAssumption
<1>1. \A i \in 1 .. n : \A f \in V[i - 1] : F[i][f] = Step(i, f) /\ Step(i, f) \in V[i]
  OBVIOUS
<1>2. EvaluateRules(e, M) = c[n]
  BY DEF EvaluateRules, CondsOf
<1>. HIDE DEF n, F, Step
<1>3. PICK f : Recursion(e, F, n, f)
  BY <1>0, RecursionExists
<1>4. f[0] = e /\ \A i \in 1 .. n : f[i] = F[i][f[i - 1]]
  BY <1>0, <1>3, RecursionSteps
<1>5. \A i \in 0 .. n : f[i] \in V[i]
  <2>1. \A i \in 1 .. n : \A v \in V[i - 1] : F[i][v] \in V[i]
    BY <1>1
  <2>. QED BY <1>0, <1>3, <2>1, RecursionInvariant
<1>6. Q(f)
  <2>1. \A i \in 1 .. n : F[i][f[i - 1]] = Step(i, f[i - 1])
    <3>. SUFFICES ASSUME NEW i \in 1 .. n PROVE F[i][f[i - 1]] = Step(i, f[i - 1])
      OBVIOUS
    <3>1. f[i - 1] \in V[i - 1]
      BY <1>0, <1>5
    <3>. QED BY <1>1, <3>1
  <2>2. f = [i \in 0 .. n |-> IF i = 0 THEN e ELSE F[i][f[i - 1]]]
    BY <1>3 DEF Recursion
  <2>3. \A i \in 0 .. n : i # 0 => i \in 1 .. n
    BY <1>0
  <2>. QED BY <2>1, <2>2, <2>3
<1>7. Q(c)
  <2>. HIDE DEF Q
  <2>. QED BY <1>6
<1>8. \A i \in 0 .. n : c[i] \in V[i]
  <2>1. c[0] = e /\ \A i \in 1 .. n : c[i] = Step(i, c[i - 1])
    <3>. DEFINE h == [i \in 0 .. n |-> IF i = 0 THEN e ELSE Step(i, c[i - 1])]
    <3>1. h[0] = e
      BY <1>0
    <3>2. ASSUME NEW i \in 1 .. n PROVE h[i] = Step(i, c[i - 1])
      <4>1. i \in 0 .. n /\ i # 0
        BY <1>0
      <4>. QED BY <4>1
    <3>3. c = h
      BY <1>7
    <3>. HIDE DEF h, c
    <3>. QED BY <3>1, <3>2, <3>3
  <2>. DEFINE P == {k \in Nat : k <= n => c[k] \in V[k]}
  <2>. HIDE DEF c
  <2>2. 0 \in P
    BY <2>1
  <2>3. ASSUME NEW k \in Nat, k \in P PROVE k + 1 \in P
    <3>. SUFFICES ASSUME k + 1 <= n PROVE c[k + 1] \in V[k + 1]
      OBVIOUS
    <3>1. k + 1 \in 1 .. n /\ c[k] \in V[k] /\ k + 1 - 1 = k
      BY <1>0, <2>3
    <3>. QED BY <1>1, <2>1, <3>1
  <2>. HIDE DEF P
  <2>4. Nat \subseteq P
    BY <2>2, <2>3, Induction
  <2>. QED BY <1>0, <2>4 DEF P
<1>. HIDE DEF c
<1>. QED BY <1>0, <1>2, <1>8 DEF n

LEMMA OrderFacts ==
  /\ Len(RuleOrder) \in Nat
  /\ \A i \in 1 .. Len(RuleOrder) : RuleOrder[i] \in Rules
  /\ \A r \in Rules : \E i \in 1 .. Len(RuleOrder) : RuleOrder[i] = r
<1>1. RuleOrder \in Seq(Rules) /\ ToSet(RuleOrder) = Rules
  BY EngineAssumption
<1>. QED BY <1>1 DEF ToSet

LEMMA RuleKeepsSound ==
  ASSUME now \in Nat, NEW e, Sound(e, now), NEW r \in Rules
  PROVE  Sound(EvaluateRule(e, r), now)
<1>1. CASE EvaluateRule(e, r) = e
  BY <1>1
<1>2. CASE \E v \in Due(e, r) : EvaluateRule(e, r) \in {Raise(e, r, v), ResetOf(Raise(e, r, v), r)}
  <2>1. PICK v \in Due(e, r) : EvaluateRule(e, r) \in {Raise(e, r, v), ResetOf(Raise(e, r, v), r)}
    BY <1>2
  <2>2. Sound(Raise(e, r, v), now)
    BY RaiseSound
  <2>3. Sound(ResetOf(Raise(e, r, v), r), now)
    BY <2>2, ResetSound
  <2>. QED BY <2>1, <2>2, <2>3
<1>. QED BY <1>1, <1>2, EvaluateRuleIs

LEMMA EvaluationKeepsSound ==
  ASSUME now \in Nat, NEW e, Sound(e, now), NEW M
  PROVE  Sound(EvaluateRules(e, M), now)
<1>. DEFINE n == Len(RuleOrder)
            S == {f \in EngineState : Sound(f, now)}
            V == [i \in 0 .. n |-> S]
<1>1. n \in Nat /\ \A i \in 0 .. n : V[i] = S
  BY OrderFacts
<1>2. e \in S
  BY DEF Sound
<1>3. \A r \in Rules : \A f \in S : EvaluateRule(f, r) \in S
  <2>. SUFFICES ASSUME NEW r \in Rules, NEW f \in S PROVE EvaluateRule(f, r) \in S
    OBVIOUS
  <2>1. Sound(EvaluateRule(f, r), now)
    BY RuleKeepsSound
  <2>. QED BY <2>1 DEF Sound
<1>. HIDE DEF V, S
<1>4. e \in V[0] /\ \A i \in 1 .. n : V[i] = S /\ V[i - 1] = S
  BY <1>1, <1>2
<1>5. \A i \in 1 .. Len(RuleOrder) : \A f \in V[i - 1] :
        IF ToSet(CondsOf(RuleOrder[i])) \cap M # {}
        THEN EvaluateRule(f, RuleOrder[i]) \in V[i] ELSE f \in V[i]
  BY <1>3, <1>4, OrderFacts
<1>6. EvaluateRules(e, M) \in V[n]
  BY <1>4, <1>5, EvaluationInvariant
<1>. QED BY <1>1, <1>6 DEF S
-----------------------------------------------------------------------------
(* What a message and a worker pass do to the conditions.                  *)

\* A message leaves the sources that a condition has seen at their indices.
LEMMA CaptureFacts ==
  ASSUME Engine \in EngineState, NEW c \in Conds, NEW s \in Sources, NEW b \in BOOLEAN
  PROVE  LET k == AfterHit(c, s, b)
             i == HitIndex(c, s)
             n == Len(cond[c].srcs)
         IN  /\ k \in CondState /\ i \in 1 .. Len(k.srcs) /\ k.on[i] = b
             /\ \A x \in 1 .. n : x \in 1 .. Len(k.srcs) /\ k.srcs[x] = cond[c].srcs[x]
             /\ \A x \in 1 .. Len(k.srcs) : x # i /\ k.on[x] => x \in 1 .. n /\ cond[c].on[x]
             /\ HitStatus(c, s) \in BOOLEAN
             /\ HitStatus(c, s) => i \in 1 .. n /\ cond[c].on[i]
<1>. DEFINE d == cond[c]
            n == Len(d.srcs)
            x == SourceOf(c, s)
            g == Indexed(c, s)
            i == HitIndex(c, s)
            k == AfterHit(c, s, b)
<1>1. /\ d.srcs \in Seq(SourceIndex) /\ IsInjective(d.srcs) /\ d.on \in Seq(BOOLEAN)
      /\ Len(d.on) = n
  BY EngineFacts DEF Engine
<1>2. x \in SourceIndex
  BY DEF SourceOf, SourceIndex
<1>3. g = IF x \in ToSet(d.srcs) THEN d ELSE [srcs |-> Append(d.srcs, x), on |-> Append(d.on, FALSE)]
  BY DEF Indexed
<1>4. i = CHOOSE j \in DOMAIN g.srcs : g.srcs[j] = x
  BY DEF HitIndex, IndexOf
<1>5. k = [srcs |-> g.srcs, on |-> [g.on EXCEPT ![i] = b]]
  BY DEF AfterHit
<1>6. HitStatus(c, s) = g.on[i]
  BY DEF HitStatus
<1>. HIDE DEF d, x, g, i, k
<1>7. /\ g.srcs \in Seq(SourceIndex) /\ g.on \in Seq(BOOLEAN) /\ Len(g.on) = Len(g.srcs)
      /\ IsInjective(g.srcs) /\ \E j \in DOMAIN g.srcs : g.srcs[j] = x
      /\ \A j \in 1 .. n : j \in 1 .. Len(g.srcs) /\ g.srcs[j] = d.srcs[j] /\ g.on[j] = d.on[j]
      /\ \A j \in 1 .. Len(g.srcs) : j \in 1 .. n \/ g.on[j] = FALSE
  <2>1. CASE x \in ToSet(d.srcs)
    <3>1. g = d /\ \E j \in DOMAIN d.srcs : d.srcs[j] = x
      BY <1>3, <2>1 DEF ToSet
    <3>. QED BY <1>1, <3>1
  <2>2. CASE x \notin ToSet(d.srcs)
    <3>. DEFINE a == Append(d.srcs, x)
                o == Append(d.on, FALSE)
    <3>1. g.srcs = a /\ g.on = o
      BY <1>3, <2>2
    <3>2. \A j \in 1 .. n : d.srcs[j] # x
      BY <1>1, <2>2 DEF ToSet
    <3>3. n \in Nat
      BY <1>1
    <3>4. /\ a \in Seq(SourceIndex) /\ Len(a) = n + 1 /\ DOMAIN a = 1 .. n + 1 /\ a[n + 1] = x
          /\ \A j \in 1 .. n : a[j] = d.srcs[j]
      BY <1>1, <1>2
    <3>5. /\ o \in Seq(BOOLEAN) /\ Len(o) = n + 1 /\ o[n + 1] = FALSE
          /\ \A j \in 1 .. n : o[j] = d.on[j]
      <4>1. /\ Append(d.on, FALSE) \in Seq(BOOLEAN) /\ Len(Append(d.on, FALSE)) = Len(d.on) + 1
            /\ \A j \in 1 .. Len(d.on) : Append(d.on, FALSE)[j] = d.on[j]
            /\ Append(d.on, FALSE)[Len(d.on) + 1] = FALSE
        <5>1. d.on \in Seq(BOOLEAN) /\ FALSE \in BOOLEAN
          BY <1>1
        <5>. QED BY <5>1, AppendProperties, Zenon
      <4>2. Len(d.on) = n
        BY <1>1
      <4>. HIDE DEF n
      <4>. QED BY <4>1, <4>2
    <3>. HIDE DEF n, a, o
    <3>6. IsInjective(a)
      <4>1. \A j, l \in 1 .. n : d.srcs[j] = d.srcs[l] => j = l
        BY <1>1 DEF IsInjective, n
      <4>2. ASSUME NEW j \in 1 .. n + 1, NEW l \in 1 .. n + 1, a[j] = a[l] PROVE j = l
        <5>1. CASE j \in 1 .. n /\ l \in 1 .. n
          BY <3>4, <4>1, <4>2, <5>1
        <5>2. CASE j = n + 1 /\ l \in 1 .. n
          BY <3>2, <3>4, <4>2, <5>2
        <5>3. CASE j \in 1 .. n /\ l = n + 1
          BY <3>2, <3>4, <4>2, <5>3
        <5>. QED BY <3>3, <5>1, <5>2, <5>3
      <4>. QED BY <3>4, <4>2 DEF IsInjective
    <3>7. n + 1 \in DOMAIN a /\ \A j \in 1 .. n : j \in 1 .. n + 1
      BY <3>3, <3>4
    <3>8. \A j \in 1 .. n + 1 : j \in 1 .. n \/ j = n + 1
      BY <3>3
    <3>. QED BY <3>1, <3>4, <3>5, <3>6, <3>7, <3>8
  <2>. QED BY <2>1, <2>2
<1>8. i \in 1 .. Len(g.srcs) /\ g.srcs[i] = x
  BY <1>4, <1>7
<1>9. k.srcs = g.srcs /\ k.on = [g.on EXCEPT ![i] = b]
  BY <1>5
<1>10. /\ k.on \in Seq(BOOLEAN) /\ Len(k.on) = Len(g.srcs) /\ k.on[i] = b
       /\ \A j \in 1 .. Len(g.srcs) : j # i => k.on[j] = g.on[j]
  BY <1>7, <1>8, <1>9
<1>11. k \in CondState
  BY <1>5, <1>7, <1>9, <1>10 DEF CondState
<1>12. g.on[i] \in BOOLEAN /\ (g.on[i] => i \in 1 .. n /\ d.on[i])
  BY <1>7, <1>8
<1>13. \A j \in 1 .. Len(g.srcs) : j # i /\ k.on[j] => j \in 1 .. n /\ d.on[j]
  BY <1>7, <1>10
<1>14. \A j \in 1 .. n : j \in 1 .. Len(k.srcs) /\ k.srcs[j] = d.srcs[j]
  BY <1>7, <1>9
<1>. QED BY <1>6, <1>8, <1>9, <1>10, <1>11, <1>12, <1>13, <1>14 DEF d, i, k, n

\* Conditions that keep their sources at their indices keep the state sound.
LEMMA GrownSound ==
  ASSUME NEW t, NEW e, Sound(e, t), NEW f, f \in EngineState, f.rule = e.rule,
         \A c \in Conds : \A x \in 1 .. Len(e.cond[c].srcs) :
           x \in 1 .. Len(f.cond[c].srcs) /\ f.cond[c].srcs[x] = e.cond[c].srcs[x]
  PROVE  Sound(f, t)
<1>1. \A r \in Rules : Keyed(f.rule[r], r, t) /\ Counted(f.rule[r], r)
  BY DEF Sound
<1>2. ASSUME NEW r \in Rules PROVE Meant(f, r)
  <2>1. \A k \in DOMAIN e.rule[r].alarms : Means(e, r, k, e.rule[r].alarms[k])
    BY DEF Sound, Meant
  <2>2. Extended(e, f, r)
    BY CondsFacts DEF Extended
  <2>3. \A k \in DOMAIN e.rule[r].alarms : Means(f, r, k, e.rule[r].alarms[k])
    BY <2>1, <2>2, MeansKept
  <2>. QED BY <2>3 DEF Meant
<1>. QED BY <1>1, <1>2 DEF Sound

LEMMA CapturedFacts ==
  ASSUME Engine \in EngineState, NEW s \in Sources, NEW M \in SUBSET Conds, NEW st \in [M -> BOOLEAN]
  PROVE  LET f == Captured(s, M, st)
         IN  /\ f \in EngineState /\ f.rule = rule
             /\ \A c \in M : f.cond[c] = AfterHit(c, s, st[c])
             /\ \A c \in Conds \ M : f.cond[c] = cond[c]
<1>. DEFINE d == [c \in Conds |-> IF c \in M THEN AfterHit(c, s, st[c]) ELSE cond[c]]
<1>1. d \in [Conds -> CondState]
  BY CaptureFacts, EngineFacts DEF Engine
<1>2. /\ \A c \in M : d[c] = AfterHit(c, s, st[c])
      /\ \A c \in Conds \ M : d[c] = cond[c]
  OBVIOUS
<1>3. Captured(s, M, st) = [cond |-> d, rule |-> rule]
  BY DEF Captured
<1>4. rule \in [Rules -> RuleState]
  BY EngineFacts DEF Engine
<1>. HIDE DEF d
<1>. QED BY <1>1, <1>2, <1>3, <1>4 DEF EngineState

LEMMA FlippedFacts ==
  ASSUME Engine \in EngineState, NEW F
  PROVE  LET f == Flipped(F)
         IN  /\ f \in EngineState /\ f.rule = rule
             /\ \A c \in Conds :
                  /\ f.cond[c].srcs = cond[c].srcs
                  /\ \A i \in DOMAIN cond[c].srcs :
                       f.cond[c].on[i] = IF <<c, i>> \in F THEN ~cond[c].on[i] ELSE cond[c].on[i]
<1>. DEFINE o(c) == [i \in DOMAIN cond[c].on |->
                      IF <<c, i>> \in F THEN ~cond[c].on[i] ELSE cond[c].on[i]]
            d == [c \in Conds |-> [srcs |-> cond[c].srcs, on |-> o(c)]]
<1>1. ASSUME NEW c \in Conds
      PROVE  /\ cond[c].srcs \in Seq(SourceIndex) /\ IsInjective(cond[c].srcs)
             /\ o(c) \in Seq(BOOLEAN) /\ Len(o(c)) = Len(cond[c].srcs)
             /\ DOMAIN cond[c].on = DOMAIN cond[c].srcs
  <2>1. /\ cond[c].srcs \in Seq(SourceIndex) /\ IsInjective(cond[c].srcs)
        /\ cond[c].on \in Seq(BOOLEAN) /\ Len(cond[c].on) = Len(cond[c].srcs)
    BY EngineFacts DEF Engine
  <2>2. DOMAIN cond[c].on = 1 .. Len(cond[c].on) /\ Len(cond[c].on) \in Nat
        /\ DOMAIN cond[c].srcs = 1 .. Len(cond[c].srcs)
    BY <2>1
  <2>3. o(c) \in [1 .. Len(cond[c].on) -> BOOLEAN]
    <3>1. \A i \in DOMAIN cond[c].on :
            (IF <<c, i>> \in F THEN ~cond[c].on[i] ELSE cond[c].on[i]) \in BOOLEAN
      <4>. SUFFICES ASSUME NEW i \in DOMAIN cond[c].on
                    PROVE  (IF <<c, i>> \in F THEN ~cond[c].on[i] ELSE cond[c].on[i]) \in BOOLEAN
        OBVIOUS
      <4>1. cond[c].on[i] \in BOOLEAN /\ (~cond[c].on[i]) \in BOOLEAN
        BY <2>1, <2>2
      <4>2. CASE <<c, i>> \in F
        BY <4>1, <4>2
      <4>3. CASE <<c, i>> \notin F
        BY <4>1, <4>3
      <4>. QED BY <4>2, <4>3
    <3>. QED BY <2>2, <3>1
  <2>4. o(c) \in Seq(BOOLEAN) /\ Len(o(c)) = Len(cond[c].on)
    <3>. HIDE DEF o
    <3>. QED BY <2>2, <2>3
  <2>. HIDE DEF o
  <2>. QED BY <2>1, <2>2, <2>4
<1>2. ASSUME NEW c \in Conds, NEW i \in DOMAIN cond[c].srcs
      PROVE  o(c)[i] = IF <<c, i>> \in F THEN ~cond[c].on[i] ELSE cond[c].on[i]
  BY <1>1
<1>3. Flipped(F) = [cond |-> d, rule |-> rule]
  BY DEF Flipped
<1>4. rule \in [Rules -> RuleState]
  BY EngineFacts DEF Engine
<1>. HIDE DEF o
<1>5. \A c \in Conds : d[c].srcs = cond[c].srcs /\ d[c].on = o(c) /\ d[c] \in CondState
  BY <1>1 DEF CondState
<1>6. d \in [Conds -> CondState]
  BY <1>5
<1>. HIDE DEF d
<1>7. Flipped(F) \in EngineState /\ Flipped(F).rule = rule /\ Flipped(F).cond = d
  BY <1>3, <1>4, <1>6 DEF EngineState
<1>. QED BY <1>2, <1>5, <1>7
-----------------------------------------------------------------------------
(* The invariant of the steps.                                             *)

LEMMA InitEngineInv == Init => EngineInv
<1>. SUFFICES ASSUME Init PROVE EngineInv
  OBVIOUS
<1>. DEFINE z == <<>>
            q == [enabled |-> TRUE, muted |-> FALSE, alarms |-> z, count |-> 0]
<1>1. z \in AlarmMap /\ DOMAIN z = {} /\ GroundCond \in CondState
  BY NoAlarms
<1>2. cond = [c \in Conds |-> GroundCond] /\ rule = [r \in Rules |-> q]
  BY DEF Init
<1>. HIDE DEF z
<1>3. q \in RuleState /\ DOMAIN q.alarms = {} /\ q.count = 0
  BY <1>1 DEF RuleState
<1>. HIDE DEF q
<1>4. cond \in [Conds -> CondState] /\ rule \in [Rules -> RuleState]
  BY <1>1, <1>2, <1>3
<1>5. Engine \in EngineState
  BY <1>4 DEF Engine, EngineState
<1>6. \A r \in Rules : Engine.rule[r] = q
  BY <1>2 DEF Engine
<1>7. \A r \in Rules : Keyed(Engine.rule[r], r, now) /\ Counted(Engine.rule[r], r)
  BY <1>3, <1>6, FS_EmptySet DEF Keyed, Counted
<1>8. \A r \in Rules : Meant(Engine, r)
  BY <1>3, <1>6 DEF Meant
<1>9. Sound(Engine, now)
  BY <1>5, <1>7, <1>8 DEF Sound
<1>. QED BY <1>9, EngineAssumption DEF Init, EngineInv

\* The state after a step.
LEMMA BecomeIs ==
  ASSUME NEW e \in EngineState, Become(e)
  PROVE  Engine' = e
BY DEF Become, Engine, EngineState

LEMMA StepSound ==
  ASSUME NEW e, Sound(e, now), Become(e), now' = now
  PROVE  Sound(Engine, now)'
<1>1. Engine' = e
  BY BecomeIs DEF Sound
<1>. QED BY <1>1 DEF Sound

LEMMA FeedSound ==
  ASSUME EngineInv, NEW s \in Sources, NEW M \in SUBSET Conds, NEW st \in [M -> BOOLEAN]
  PROVE  Sound(Captured(s, M, st), now)
<1>. DEFINE f == Captured(s, M, st)
<1>1. Sound(Engine, now) /\ Engine \in EngineState /\ Engine.rule = rule /\ Engine.cond = cond
  BY DEF EngineInv, Sound, Engine
<1>2. /\ f \in EngineState /\ f.rule = rule
      /\ \A c \in M : f.cond[c] = AfterHit(c, s, st[c])
      /\ \A c \in Conds \ M : f.cond[c] = cond[c]
  BY <1>1, CapturedFacts
<1>. HIDE DEF f
<1>3. \A c \in Conds : \A x \in 1 .. Len(cond[c].srcs) :
        x \in 1 .. Len(f.cond[c].srcs) /\ f.cond[c].srcs[x] = cond[c].srcs[x]
  <2>. SUFFICES ASSUME NEW c \in Conds, NEW x \in 1 .. Len(cond[c].srcs)
                PROVE  x \in 1 .. Len(f.cond[c].srcs) /\ f.cond[c].srcs[x] = cond[c].srcs[x]
    OBVIOUS
  <2>1. CASE c \in M
    <3>1. st[c] \in BOOLEAN
      BY <2>1
    <3>. QED BY <1>1, <1>2, <2>1, <3>1, CaptureFacts
  <2>2. CASE c \notin M
    BY <1>2, <2>2
  <2>. QED BY <2>1, <2>2
<1>4. Sound(f, now)
  BY <1>1, <1>2, <1>3, GrownSound
<1>. QED BY <1>4 DEF f

LEMMA PassSound ==
  ASSUME EngineInv, NEW F
  PROVE  Sound(Flipped(F), now)
<1>. DEFINE f == Flipped(F)
<1>1. Sound(Engine, now) /\ Engine \in EngineState /\ Engine.rule = rule /\ Engine.cond = cond
  BY DEF EngineInv, Sound, Engine
<1>2. f \in EngineState /\ f.rule = rule /\ \A c \in Conds : f.cond[c].srcs = cond[c].srcs
  BY <1>1, FlippedFacts
<1>. HIDE DEF f
<1>3. Sound(f, now)
  BY <1>1, <1>2, GrownSound
<1>. QED BY <1>3 DEF f

LEMMA ResetAllSound ==
  ASSUME EngineInv, ResetAll
  PROVE  Sound(Engine, now)'
<1>1. /\ cond' = [c \in Conds |-> GroundCond] /\ rule' = [r \in Rules |-> Forgotten(rule[r])]
      /\ now' = now
  BY DEF ResetAll
<1>2. \A r \in Rules : rule[r] \in RuleState
  BY EngineFacts DEF EngineInv, Sound, Engine
<1>3. \A r \in Rules : Forgotten(rule[r]) \in RuleState /\ DOMAIN Forgotten(rule[r]).alarms = {}
  BY <1>2, ForgottenFacts, NoAlarms
<1>4. cond' \in [Conds -> CondState] /\ rule' \in [Rules -> RuleState]
  BY <1>1, <1>3, NoAlarms
<1>5. Engine' \in EngineState /\ \A r \in Rules : Engine'.rule[r] = Forgotten(rule[r])
  BY <1>1, <1>4 DEF Engine, EngineState
<1>6. \A r \in Rules : Keyed(Engine'.rule[r], r, now') /\ Counted(Engine'.rule[r], r)
  BY <1>2, <1>5, ForgottenSound
<1>7. \A r \in Rules : Meant(Engine', r)
  BY <1>3, <1>5 DEF Meant
<1>. QED BY <1>5, <1>6, <1>7 DEF Sound

LEMMA SwitchedFacts ==
  ASSUME NEW q \in RuleState, NEW flag \in BOOLEAN
  PROVE  LET p == Switched(q, flag)
         IN  /\ p \in RuleState /\ p.alarms = q.alarms /\ p.count = q.count
             /\ p.enabled = flag /\ p.muted = (q.muted \/ ~flag)
<1>. DEFINE b == q.muted \/ ~flag
            p == Switched(q, flag)
<1>1. b \in BOOLEAN
  OBVIOUS
<1>2. p = [enabled |-> flag, muted |-> b, alarms |-> q.alarms, count |-> q.count]
  BY DEF Switched
<1>. HIDE DEF b, p
<1>3. /\ p \in RuleState /\ p.alarms = q.alarms /\ p.count = q.count
      /\ p.enabled = flag /\ p.muted = b
  BY <1>1, <1>2 DEF RuleState
<1>. QED BY <1>3 DEF b, p

LEMMA EnableSound ==
  ASSUME EngineInv, NEW r \in Rules, NEW flag \in BOOLEAN, EnableRule(r, flag)
  PROVE  Sound(Engine, now)'
<1>1. Sound(Engine, now) /\ Engine \in EngineState /\ Engine.rule = rule /\ Engine.cond = cond
  BY DEF EngineInv, Sound, Engine
<1>2. cond' = cond /\ now' = now /\ rule' = [rule EXCEPT ![r] = Switched(rule[r], flag)]
  BY DEF EnableRule
<1>3. rule \in [Rules -> RuleState]
  BY <1>1, EngineFacts
<1>4. /\ Switched(rule[r], flag) \in RuleState
      /\ Switched(rule[r], flag).alarms = rule[r].alarms
      /\ Switched(rule[r], flag).count = rule[r].count
  BY <1>3, SwitchedFacts
<1>5. /\ rule' \in [Rules -> RuleState]
      /\ \A q \in Rules : rule'[q].alarms = rule[q].alarms /\ rule'[q].count = rule[q].count
  BY <1>2, <1>3, <1>4
<1>. DEFINE f == Engine'
<1>6. f.cond = cond /\ f.rule = rule' /\ f \in EngineState
  BY <1>1, <1>2, <1>5 DEF Engine, EngineState
<1>. HIDE DEF f
<1>7. \A q \in Rules : Keyed(f.rule[q], q, now) /\ Counted(f.rule[q], q)
  BY <1>1, <1>5, <1>6 DEF Sound, Keyed, Counted
<1>8. ASSUME NEW q \in Rules PROVE Meant(f, q)
  <2>1. \A k, a : Means(f, q, k, a) <=> Means(Engine, q, k, a)
    BY <1>1, <1>6 DEF Means
  <2>2. Meant(Engine, q)
    BY <1>1 DEF Sound
  <2>. QED BY <1>1, <1>5, <1>6, <2>1, <2>2 DEF Meant
<1>. QED BY <1>2, <1>6, <1>7, <1>8 DEF Sound, f

LEMMA TickSound ==
  ASSUME EngineInv, Tick
  PROVE  Sound(Engine, now)'
<1>1. Engine' = Engine /\ now' = now + 1 /\ now \in Nat
  BY DEF Tick, Engine, EngineInv
<1>2. Sound(Engine, now)
  BY DEF EngineInv
<1>3. ASSUME NEW r \in Rules PROVE Keyed(Engine.rule[r], r, now + 1)
  <2>1. Keyed(Engine.rule[r], r, now) /\ Engine.rule[r].alarms \in AlarmMap
    BY <1>2, EngineFacts DEF Sound
  <2>2. ASSUME NEW k \in DOMAIN Engine.rule[r].alarms
        PROVE  Engine.rule[r].alarms[k].time \in Nat /\ Engine.rule[r].alarms[k].raised \in Nat
    BY <2>1, AlarmMapFacts DEF Entry
  <2>. HIDE DEF Engine
  <2>. QED BY <1>1, <2>1, <2>2 DEF Keyed
<1>. QED BY <1>1, <1>2, <1>3 DEF Sound

LEMMA NextEngineInv == EngineInv /\ [Next]_vars => EngineInv'
<1>. SUFFICES ASSUME EngineInv, [Next]_vars PROVE EngineInv'
  OBVIOUS
<1>0. Sound(Engine, now) /\ now \in Nat /\ now \in 0 .. MaxTime /\ steps \in 0 .. MaxSteps
      /\ MaxTime \in Nat /\ MaxSteps \in Nat
  BY EngineAssumption DEF EngineInv
<1>1. ASSUME NEW s \in Sources, NEW M \in SUBSET Conds \ {{}}, NEW st \in [M -> BOOLEAN],
             Feed(s, M, st)
      PROVE  EngineInv'
  <2>. DEFINE e == EvaluateRules(Captured(s, M, st), {c \in M : HitStatus(c, s) # st[c]})
  <2>1. M \in SUBSET Conds
    OBVIOUS
  <2>2. Sound(e, now)
    BY <1>0, <2>1, FeedSound, EvaluationKeepsSound
  <2>3. Become(e) /\ now' = now /\ steps' \in 0 .. MaxSteps
    BY <1>0, <1>1 DEF Feed
  <2>. HIDE DEF e
  <2>. QED BY <1>0, <2>2, <2>3, StepSound DEF EngineInv
<1>2. ASSUME NEW F, WorkerPass(F) PROVE EngineInv'
  <2>. DEFINE e == EvaluateRules(Flipped(F), {f[1] : f \in F})
  <2>1. Sound(e, now)
    BY <1>0, PassSound, EvaluationKeepsSound
  <2>2. Become(e) /\ now' = now /\ steps' \in 0 .. MaxSteps
    BY <1>0, <1>2 DEF WorkerPass
  <2>. HIDE DEF e
  <2>. QED BY <1>0, <2>1, <2>2, StepSound DEF EngineInv
<1>3. ASSUME NEW r \in Rules, ResetRule(r) PROVE EngineInv'
  <2>. DEFINE e == ResetOf(Engine, r)
  <2>1. Sound(e, now)
    BY <1>0, ResetSound
  <2>2. Become(e) /\ now' = now /\ steps' = steps
    BY <1>3 DEF ResetRule, Engine
  <2>. HIDE DEF e
  <2>. QED BY <1>0, <2>1, <2>2, StepSound DEF EngineInv
<1>4. CASE ResetAll
  BY <1>0, <1>4, ResetAllSound DEF EngineInv, ResetAll
<1>5. ASSUME NEW r \in Rules, NEW flag \in BOOLEAN, EnableRule(r, flag) PROVE EngineInv'
  BY <1>0, <1>5, EnableSound DEF EngineInv, EnableRule
<1>6. CASE Tick
  BY <1>0, <1>6, TickSound DEF EngineInv, Tick
<1>7. CASE UNCHANGED vars
  BY <1>7 DEF vars, EngineInv, Sound, Engine, Keyed, Counted, Meant, Means
<1>. QED BY <1>1, <1>2, <1>3, <1>4, <1>5, <1>6, <1>7 DEF Next

THEOREM EngineInductive == Spec => []EngineInv
<1>. QED BY InitEngineInv, NextEngineInv, PTL DEF Spec
-----------------------------------------------------------------------------
(* What the invariant is worth.                                            *)

LEMMA EngineInvType == EngineInv => TypeOK
<1>. SUFFICES ASSUME EngineInv PROVE TypeOK
  OBVIOUS
<1>1. Sound(Engine, now) /\ Engine \in EngineState /\ Engine.rule = rule /\ Engine.cond = cond
  BY DEF EngineInv, Sound, Engine
<1>2. ASSUME NEW c \in Conds
      PROVE  /\ cond[c].srcs \in Seq(Sources \cup {Global}) /\ IsInjective(cond[c].srcs)
             /\ cond[c].on \in [DOMAIN cond[c].srcs -> BOOLEAN]
  <2>1. /\ cond[c].srcs \in Seq(SourceIndex) /\ IsInjective(cond[c].srcs)
        /\ cond[c].on \in Seq(BOOLEAN) /\ Len(cond[c].on) = Len(cond[c].srcs)
    BY <1>1, EngineFacts
  <2>2. DOMAIN cond[c].on = DOMAIN cond[c].srcs
    BY <2>1
  <2>. QED BY <2>1, <2>2 DEF SourceIndex
<1>3. ASSUME NEW r \in Rules
      PROVE  rule[r].enabled \in BOOLEAN /\ rule[r].muted \in BOOLEAN /\ rule[r].count \in Nat
  BY <1>1, EngineFacts
<1>4. ASSUME NEW r \in Rules, NEW k \in DOMAIN rule[r].alarms
      PROVE  /\ k \in [DOMAIN RuleParams[r].conds -> Nat]
             /\ rule[r].alarms[k].time \in 0 .. now
             /\ rule[r].alarms[k].raised \in 0 .. now
  <2>1. rule[r].alarms \in AlarmMap
    BY <1>1, EngineFacts
  <2>2. rule[r].alarms[k].time \in Nat /\ rule[r].alarms[k].raised \in Nat
    BY <2>1, AlarmMapFacts DEF Entry
  <2>3. /\ k \in [DOMAIN CondsOf(r) -> Nat] /\ rule[r].alarms[k].time <= now
        /\ rule[r].alarms[k].raised <= now
    BY <1>1 DEF Sound, Keyed
  <2>4. now \in Nat
    BY DEF EngineInv
  <2>. QED BY <2>2, <2>3, <2>4 DEF CondsOf
<1>. QED BY <1>2, <1>3, <1>4 DEF TypeOK, EngineInv

\* The sources of the conditions, the status of their cells and the alarms of the
\* rules have their types (ma_hitmap.cpp, ma_rule.cpp).
THEOREM EngineTypes == Spec => []TypeOK
<1>. QED BY EngineInductive, EngineInvType, PTL

\* The counter of a rule that does not repeat alarms is the number of alarms it
\* remembers, however conditions are shared (ma_rule.h:57-59, ma_rule.cpp:222-241,
\* 265-278).
THEOREM CountersAreDistinct == Spec => []CountIsDistinct
<1>1. EngineInv => CountIsDistinct
  BY DEF EngineInv, Sound, Counted, Engine, CountIsDistinct
<1>. QED BY <1>1, EngineInductive, PTL

\* What an alarm's index stands for while nothing else has reset the condition.
LEMMA StandingMeans ==
  ASSUME EngineInv, NEW r \in Rules, NEW k \in DOMAIN rule[r].alarms,
         NEW j \in DOMAIN k, k[j] # NIL, Standing(r, k, j)
  PROVE  /\ j \in DOMAIN CondsOf(r) /\ CondsOf(r)[j] \in Conds
         /\ k[j] \in 1 .. Len(cond[CondsOf(r)[j]].srcs)
         /\ cond[CondsOf(r)[j]].srcs[k[j]] = rule[r].alarms[k].names[j]
<1>1. Sound(Engine, now) /\ Engine.rule = rule /\ Engine.cond = cond
  BY DEF EngineInv, Engine
<1>2. Means(Engine, r, k, rule[r].alarms[k]) /\ DOMAIN k = DOMAIN CondsOf(r)
  BY <1>1 DEF Sound, Meant, Keyed
<1>3. CondsOf(r)[j] \in rule[r].alarms[k].live
  BY <1>2 DEF Standing, Means, CondsOf
<1>4. CondsOf(r)[j] \in Conds
  BY <1>2, CondsFacts
<1>. HIDE DEF Engine
<1>. QED BY <1>1, <1>2, <1>3, <1>4 DEF Means

\* An alarm's index stands for the source it was raised for, through every order of
\* messages, evaluations, actions and resets, for rules that share conditions too
\* (ma_rule.cpp:201-218, 265-278, ma_hitmap.cpp:22-30, 53-58).
THEOREM AlarmsMeanSources == Spec => []AlarmInv
<1>1. EngineInv => AlarmMeansSource
  <2>. SUFFICES ASSUME EngineInv, NEW r \in Rules, NEW k \in DOMAIN rule[r].alarms,
                       NEW j \in DOMAIN k, k[j] # NIL, Standing(r, k, j)
                PROVE  /\ k[j] \in DOMAIN cond[CondsOf(r)[j]].srcs
                       /\ cond[CondsOf(r)[j]].srcs[k[j]] = rule[r].alarms[k].names[j]
    BY DEF AlarmMeansSource, CondsOf
  <2>. DEFINE c == CondsOf(r)[j]
  <2>1. /\ c \in Conds /\ k[j] \in 1 .. Len(cond[c].srcs)
        /\ cond[c].srcs[k[j]] = rule[r].alarms[k].names[j]
    BY StandingMeans
  <2>2. cond[c].srcs \in Seq(SourceIndex)
    BY <2>1, EngineFacts DEF EngineInv, Sound, Engine
  <2>. QED BY <2>1, <2>2
<1>. QED BY <1>1, EngineInductive, EngineInvType, PTL DEF AlarmInv

\* No two alarms of a rule were raised for the same sources, for every expression and
\* for rules that share conditions too (RuleEngineDocumentation.txt:404-410,
\* ma_rule.h:57-59, ma_rule.cpp:201-241).
THEOREM NoSecondAlarm == Spec => []SameCauseOnce
<1>1. EngineInv => SameCauseOnce
  <2>. SUFFICES ASSUME EngineInv, NEW r \in Rules,
                       NEW k \in DOMAIN rule[r].alarms, NEW l \in DOMAIN rule[r].alarms,
                       rule[r].alarms[k].names = rule[r].alarms[l].names,
                       \A j \in DOMAIN k : k[j] # NIL => Standing(r, k, j) /\ Standing(r, l, j)
                PROVE  k = l
    BY DEF SameCauseOnce
  <2>1. Sound(Engine, now) /\ Engine.rule = rule /\ Engine.cond = cond
    BY DEF EngineInv, Engine
  <2>2. \A m \in {k, l} : /\ m \in [DOMAIN CondsOf(r) -> Nat]
                          /\ Means(Engine, r, m, rule[r].alarms[m])
    BY <2>1 DEF Sound, Meant, Keyed
  <2>3. ASSUME NEW j \in DOMAIN CondsOf(r) PROVE k[j] = l[j]
    <3>1. k[j] = NIL <=> l[j] = NIL
      BY <2>2 DEF Means
    <3>2. CASE k[j] # NIL
      <4>. DEFINE c == CondsOf(r)[j]
      <4>1. /\ c \in Conds /\ k[j] \in 1 .. Len(cond[c].srcs)
            /\ cond[c].srcs[k[j]] = rule[r].alarms[k].names[j]
        BY <2>2, <3>2, StandingMeans
      <4>2. l[j] \in 1 .. Len(cond[c].srcs) /\ cond[c].srcs[l[j]] = rule[r].alarms[l].names[j]
        BY <2>2, <3>1, <3>2, StandingMeans
      <4>3. IsInjective(cond[c].srcs) /\ cond[c].srcs \in Seq(SourceIndex)
        BY <4>1, EngineFacts DEF EngineInv, Sound, Engine
      <4>. QED BY <4>1, <4>2, <4>3 DEF IsInjective
    <3>. QED BY <3>1, <3>2
  <2>. QED BY <2>2, <2>3
<1>. QED BY <1>1, EngineInductive, PTL
-----------------------------------------------------------------------------
(* Rules of their own raise an alarm for every source.                     *)

\* The rules that EverySourceAlarms is about, and their condition.
Heeds(r) == OwnRule(r) /\ ~RuleParams[r].repeat /\ CondParams[CondsOf(r)[1]].at_least

OwnCond(r) == CondsOf(r)[1]

\* Such a rule that has not been muted is enabled, its alarms were raised for the
\* source that their key names, and it has one for every cell that is on, those in
\* P excepted.
HeardBut(e, r, P) ==
  Heeds(r) /\ ~e.rule[r].muted =>
    /\ e.rule[r].enabled
    /\ \A k \in DOMAIN e.rule[r].alarms :
         /\ k[1] \in 1 .. Len(e.cond[OwnCond(r)].srcs)
         /\ e.rule[r].alarms[k].names[1] = e.cond[OwnCond(r)].srcs[k[1]]
    /\ \A i \in 1 .. Len(e.cond[OwnCond(r)].srcs) :
         e.cond[OwnCond(r)].on[i] => i \in P \/ \E k \in DOMAIN e.rule[r].alarms : k[1] = i

HeardInv == EngineInv /\ \A r \in Rules : HeardBut(Engine, r, {})

LEMMA OwnFacts ==
  ASSUME NEW r \in Rules, OwnRule(r)
  PROVE  /\ DOMAIN CondsOf(r) = {1} /\ OwnCond(r) \in Conds /\ ToSet(CondsOf(r)) = {OwnCond(r)}
         /\ \A q \in Rules \ {r} : OwnCond(r) \notin ToSet(CondsOf(q))
<1>1. CondsOf(r) \in Seq(Conds) /\ Len(CondsOf(r)) = 1
  BY CondsFacts DEF OwnRule, CondsOf
<1>2. \A q \in Rules \ {r} : CondsOf(r)[1] \notin ToSet(CondsOf(q))
  BY DEF OwnRule, Shared, CondsOf
<1>. HIDE DEF CondsOf
<1>. QED BY <1>1, <1>2 DEF OwnCond, ToSet

\* The expression of such a rule is the status of one cell.
LEMMA OwnExpr ==
  ASSUME NEW e \in EngineState, NEW r \in Rules, OwnRule(r), NEW v \in Values(e, r)
  PROVE  /\ v[1] \in 1 .. Len(e.cond[OwnCond(r)].srcs) /\ DOMAIN v = {1} /\ v \in [{1} -> Nat]
         /\ ExprTrue(e, r, v) <=> e.cond[OwnCond(r)].on[v[1]]
         /\ ExprTrue(e, r, v) => /\ AlarmKey(e, r, v) = v
                                 /\ SourcesOf(e, r, v)[1] = e.cond[OwnCond(r)].srcs[v[1]]
<1>. DEFINE ex == RuleParams[r].expr
            On == IsOn(e, r, v, 1)
<1>1. /\ v[1] \in 1 .. Len(e.cond[OwnCond(r)].srcs) /\ DOMAIN v = {1} /\ v \in [{1} -> Nat]
  <2>1. DOMAIN v = {1} /\ v \in [DOMAIN v -> Nat]
    BY OwnFacts, ValueFacts
  <2>2. v[1] \in 1 .. Len(e.cond[CondsOf(r)[1]].srcs)
    BY <2>1, ValueFacts
  <2>. QED BY <2>1, <2>2 DEF OwnCond
<1>2. /\ ex \in Seq(Seq(Nat)) /\ ex # <<>> /\ \A m \in DOMAIN ex : ex[m] # <<>> /\ \A i \in DOMAIN ex[m] : ex[m][i] = 1
  <2>1. WellFormedRule(RuleParams[r])
    BY EngineAssumption
  <2>2. /\ ex \in Seq(Seq(Nat)) /\ ex # <<>>
        /\ \A m \in DOMAIN ex : ex[m] # <<>> /\ \A i \in DOMAIN ex[m] : ex[m][i] \in DOMAIN CondsOf(r)
    BY <2>1 DEF WellFormedRule, CondsOf
  <2>3. DOMAIN CondsOf(r) = {1}
    BY OwnFacts
  <2>. HIDE DEF ex
  <2>. QED BY <2>2, <2>3
<1>3. 1 \in DOMAIN ex /\ \A m \in DOMAIN ex : ex[m] \in Seq(Nat) /\ 1 \in DOMAIN ex[m] /\ ex[m][1] = 1
  <2>. HIDE DEF ex
  <2>1. \A m \in DOMAIN ex : ex[m] \in Seq(Nat)
    BY <1>2
  <2>2. \A s \in Seq(Nat) : s # <<>> => 1 \in DOMAIN s
    OBVIOUS
  <2>3. \A s \in Seq(Seq(Nat)) : s # <<>> => 1 \in DOMAIN s
    OBVIOUS
  <2>. QED BY <1>2, <2>1, <2>2, <2>3
<1>4. On <=> e.cond[OwnCond(r)].on[v[1]]
  BY DEF IsOn, OwnCond, CondsOf
<1>. HIDE DEF On
<1>5. \A m \in DOMAIN ex : ClauseTrue(e, r, v, m) <=> On
  <2>. SUFFICES ASSUME NEW m \in DOMAIN ex PROVE ClauseTrue(e, r, v, m) <=> On
    OBVIOUS
  <2>1. ClauseTrue(e, r, v, m) <=> \A i \in DOMAIN ex[m] : IsOn(e, r, v, ex[m][i])
    BY DEF ClauseTrue
  <2>. HIDE DEF ex
  <2>. QED BY <1>2, <1>3, <2>1 DEF On
<1>6. ExprTrue(e, r, v) <=> On
  <2>1. ExprTrue(e, r, v) <=> \E m \in DOMAIN ex : ClauseTrue(e, r, v, m)
    BY DEF ExprTrue
  <2>. HIDE DEF ex
  <2>. QED BY <1>3, <1>5, <2>1
<1>7. Evaluated(e, r, v, 1)
  <2>1. /\ 1 \in DOMAIN ex /\ 1 \in DOMAIN ex[1] /\ ex[1][1] = 1
        /\ \A l \in 1 .. 1-1 : ~ClauseTrue(e, r, v, l)
        /\ \A h \in 1 .. 1-1 : IsOn(e, r, v, ex[1][h])
    <3>. HIDE DEF ex
    <3>. QED BY <1>3
  <2>. QED BY <2>1 DEF Evaluated
<1>8. AlarmKey(e, r, v) = v
  <2>1. AlarmKey(e, r, v) = [j \in DOMAIN v |-> IF Evaluated(e, r, v, j) THEN v[j] ELSE NIL]
    BY DEF AlarmKey
  <2>. QED BY <1>1, <1>7, <2>1
<1>9. SourcesOf(e, r, v)[1] = e.cond[OwnCond(r)].srcs[v[1]]
  <2>1. 1 \in DOMAIN v
    BY <1>1
  <2>. QED BY <2>1, <1>7 DEF SourcesOf, OwnCond, CondsOf
<1>. QED BY <1>1, <1>4, <1>6, <1>8, <1>9

LEMMA OwnValue ==
  ASSUME NEW e \in EngineState, NEW r \in Rules, OwnRule(r),
         NEW i \in 1 .. Len(e.cond[OwnCond(r)].srcs)
  PROVE  \E v \in Values(e, r) : v[1] = i
<1>. DEFINE cs == RuleParams[r].conds
            Seen(j) == 1 .. Len(e.cond[cs[j]].srcs)
            v == [j \in {1} |-> i]
<1>1. DOMAIN cs = {1} /\ i \in Seen(1)
  BY OwnFacts DEF CondsOf, OwnCond
<1>2. v \in [DOMAIN cs -> UNION {Seen(j) : j \in DOMAIN cs}] /\ \A j \in DOMAIN cs : v[j] \in Seen(j)
  BY <1>1
<1>3. v \in Values(e, r)
  BY <1>2 DEF Values
<1>. QED BY <1>3

\* Two states of a rule that differ in what has been reset under its alarms only.
Alike(p, q) ==
  /\ p.enabled = q.enabled /\ p.muted = q.muted /\ DOMAIN p.alarms = DOMAIN q.alarms
  /\ \A k \in DOMAIN q.alarms : p.alarms[k].names = q.alarms[k].names

\* What says that a rule has heard of its sources looks at its condition and at it.
LEMMA HeardSame ==
  ASSUME NEW e, NEW f, NEW r \in Rules, NEW P, HeardBut(e, r, P),
         OwnRule(r) => f.cond[OwnCond(r)] = e.cond[OwnCond(r)], Alike(f.rule[r], e.rule[r])
  PROVE  HeardBut(f, r, P)
<1>. SUFFICES ASSUME Heeds(r), ~f.rule[r].muted PROVE HeardBut(f, r, P)
  BY DEF HeardBut
<1>1. f.cond[OwnCond(r)] = e.cond[OwnCond(r)]
  BY DEF Heeds
<1>. QED BY <1>1 DEF HeardBut, Alike

\* A rule that has been reset has no cells to hear of.
LEMMA ResetHears ==
  ASSUME NEW e \in EngineState, NEW r \in Rules
  PROVE  HeardBut(ResetOf(e, r), r, {})
<1>. DEFINE f == ResetOf(e, r)
<1>1. /\ \A c \in Conds : f.cond[c] = IF c \in ToSet(CondsOf(r)) THEN GroundCond ELSE e.cond[c]
      /\ f.rule[r] = Forgotten(e.rule[r])
  BY ResetOfFacts
<1>2. e.rule[r] \in RuleState
  BY EngineFacts
<1>3. f.rule[r].enabled = e.rule[r].enabled /\ f.rule[r].muted = ~e.rule[r].enabled
      /\ DOMAIN f.rule[r].alarms = {}
  BY <1>1, <1>2, ForgottenFacts, NoAlarms
<1>4. e.rule[r].enabled \in BOOLEAN
  BY EngineFacts
<1>. HIDE DEF f
<1>5. SUFFICES ASSUME OwnRule(r), ~f.rule[r].muted PROVE HeardBut(f, r, {})
  BY DEF HeardBut, Heeds, f
<1>6. f.rule[r].enabled
  BY <1>3, <1>4, <1>5
<1>7. Len(f.cond[OwnCond(r)].srcs) = 0
  <2>1. f.cond[OwnCond(r)] = GroundCond
    BY <1>1, <1>5, OwnFacts
  <2>. QED BY <2>1 DEF GroundCond
<1>. QED BY <1>3, <1>6, <1>7 DEF HeardBut
\* The evaluation of the rule hears of the one cell it had not.
LEMMA RuleHears ==
  ASSUME now \in Nat, NEW e, Sound(e, now), NEW r \in Rules, NEW P,
         \A i, j \in P : i = j, HeardBut(e, r, P)
  PROVE  HeardBut(EvaluateRule(e, r), r, {})
<1>. DEFINE c == OwnCond(r)
            a == e.rule[r].alarms
            n == Len(e.cond[c].srcs)
<1>0. e \in EngineState
  BY DEF Sound
<1>1. CASE /\ EvaluateRule(e, r) = e /\ (~e.rule[r].enabled \/ Due(e, r) = {})
  <2>. SUFFICES ASSUME Heeds(r), ~e.rule[r].muted PROVE HeardBut(e, r, {})
    BY <1>1 DEF HeardBut
  <2>1. OwnRule(r) /\ Due(e, r) = {}
    BY <1>1 DEF HeardBut, Heeds
  <2>2. ASSUME NEW i \in 1 .. n, e.cond[c].on[i] PROVE \E k \in DOMAIN a : k[1] = i
    <3>1. PICK v \in Values(e, r) : v[1] = i
      BY <1>0, <2>1, OwnValue
    <3>2. ExprTrue(e, r, v) /\ AlarmKey(e, r, v) = v
      BY <1>0, <2>1, <2>2, <3>1, OwnExpr
    <3>3. ~MayRaise(e, r, v)
      BY <2>1, <3>2 DEF Due
    <3>. QED BY <3>1, <3>3 DEF MayRaise
  <2>. QED BY <2>2 DEF HeardBut
<1>2. ASSUME e.rule[r].enabled, NEW v \in Due(e, r), EvaluateRule(e, r) = Raise(e, r, v)
      PROVE  HeardBut(EvaluateRule(e, r), r, {})
  <2>. DEFINE f == Raise(e, r, v)
              b == f.rule[r].alarms
              k == AlarmKey(e, r, v)
  <2>1. v \in Values(e, r) /\ ExprTrue(e, r, v) /\ MayRaise(e, r, k)
    BY DEF Due
  <2>2. f.cond = e.cond /\ f.rule[r].enabled = e.rule[r].enabled /\ f.rule[r].muted = e.rule[r].muted
        /\ b = Insert(a, k, SourcesOf(e, r, v), ToSet(CondsOf(r)))
    BY <1>0, <2>1, RaiseFacts
  <2>. HIDE DEF f, k
  <2>. SUFFICES ASSUME Heeds(r), ~e.rule[r].muted PROVE HeardBut(f, r, {})
    BY <1>2, <2>2 DEF HeardBut, f
  <2>3. OwnRule(r) /\ ~RuleParams[r].repeat
    BY DEF Heeds
  <2>4. /\ v[1] \in 1 .. n /\ DOMAIN v = {1} /\ v \in [{1} -> Nat] /\ e.cond[c].on[v[1]]
        /\ k = v /\ SourcesOf(e, r, v)[1] = e.cond[c].srcs[v[1]]
    BY <1>0, <2>1, <2>3, OwnExpr DEF k
  <2>5. v \notin DOMAIN a
    BY <2>1, <2>3, <2>4 DEF MayRaise
  <2>. DEFINE names == SourcesOf(e, r, v)
              C == ToSet(CondsOf(r))
  <2>6. a \in AlarmMap /\ v \in Seq(Nat) /\ names \in NameSeq /\ C \in SUBSET Conds
    BY <1>0, <2>1, <2>4, EngineFacts, KeyFacts DEF k
  <2>7. DOMAIN b = DOMAIN a \cup {v} /\ \A x \in DOMAIN a : x # v => b[x] = a[x]
    <3>1. b = Insert(a, v, names, C)
      BY <2>2, <2>4
    <3>. HIDE DEF a, b, names, C
    <3>2. /\ DOMAIN Insert(a, v, names, C) = DOMAIN a \cup {v}
          /\ \A x \in DOMAIN a : x # v => Insert(a, v, names, C)[x] = a[x]
      BY <2>6, InsertFacts
    <3>. QED BY <3>1, <3>2
  <2>8. b[v].names[1] = e.cond[c].srcs[v[1]]
    <3>1. b = Insert(a, v, names, C) /\ names[1] = e.cond[c].srcs[v[1]]
      BY <2>2, <2>4
    <3>. HIDE DEF a, b, names, C
    <3>2. Insert(a, v, names, C)[v].names = names
      BY NewEntry, SMT
    <3>. QED BY <3>1, <3>2, Zenon
  <2>9. v[1] \in P
    <3>. SUFFICES ASSUME v[1] \notin P PROVE FALSE
      OBVIOUS
    <3>1. PICK x \in DOMAIN a : x[1] = v[1]
      BY <2>4 DEF HeardBut
    <3>2. x \in [{1} -> Nat]
      BY <2>3, OwnFacts DEF Sound, Keyed
    <3>3. x = v
      BY <2>4, <3>1, <3>2
    <3>. QED BY <2>5, <3>3
  <2>10. ASSUME NEW i \in 1 .. n, e.cond[c].on[i] PROVE \E x \in DOMAIN b : x[1] = i
    <3>1. CASE i \in P
      BY <2>7, <2>9, <3>1
    <3>2. CASE i \notin P
      BY <2>7, <2>10, <3>2 DEF HeardBut
    <3>. QED BY <3>1, <3>2
  <2>11. ASSUME NEW x \in DOMAIN b
         PROVE  x[1] \in 1 .. n /\ b[x].names[1] = e.cond[c].srcs[x[1]]
    <3>1. CASE x = v
      BY <2>4, <2>8, <3>1
    <3>2. CASE x # v
      <4>1. x \in DOMAIN a /\ b[x] = a[x]
        BY <2>7, <3>2
      <4>. QED BY <4>1 DEF HeardBut
    <3>. QED BY <3>1, <3>2
  <2>. QED BY <1>2, <2>2, <2>10, <2>11 DEF HeardBut
<1>3. ASSUME NEW v \in Due(e, r), EvaluateRule(e, r) = ResetOf(Raise(e, r, v), r)
      PROVE  HeardBut(EvaluateRule(e, r), r, {})
  <2>1. Raise(e, r, v) \in EngineState
    BY <1>0, RaiseFacts DEF Due
  <2>. QED BY <1>3, <2>1, ResetHears
<1>. QED BY <1>1, <1>2, <1>3, EvaluateRuleIs

\* The evaluation of another rule leaves it alone.
LEMMA OthersHear ==
  ASSUME now \in Nat, NEW e \in EngineState, NEW r \in Rules, NEW q \in Rules \ {r}, NEW P,
         HeardBut(e, q, P)
  PROVE  HeardBut(EvaluateRule(e, r), q, P)
<1>. DEFINE Kept(f) == Alike(f.rule[q], e.rule[q]) /\ (OwnRule(q) => f.cond[OwnCond(q)] = e.cond[OwnCond(q)])
<1>1. ASSUME NEW v \in Due(e, r), NEW f \in {Raise(e, r, v), ResetOf(Raise(e, r, v), r)}
      PROVE  Kept(f)
  <2>. DEFINE g == Raise(e, r, v)
  <2>1. g \in EngineState /\ g.cond = e.cond /\ g.rule[q] = e.rule[q]
    BY RaiseFacts DEF Due
  <2>2. CASE f = g
    BY <2>1, <2>2 DEF Alike
  <2>3. CASE f = ResetOf(g, r)
    <3>. HIDE DEF g
    <3>1. /\ \A c \in Conds : f.cond[c] = IF c \in ToSet(CondsOf(r)) THEN GroundCond ELSE g.cond[c]
          /\ f.rule[q] = Outlived(g.rule[q], ToSet(CondsOf(r)))
      BY <2>1, <2>3, ResetOfFacts
    <3>0. Alike(f.rule[q], e.rule[q])
      BY <2>1, <3>1, EngineFacts, OutlivedFacts DEF Alike
    <3>2. OwnRule(q) => OwnCond(q) \in Conds /\ OwnCond(q) \notin ToSet(CondsOf(r))
      BY OwnFacts
    <3>. QED BY <2>1, <3>0, <3>1, <3>2
  <2>. QED BY <2>2, <2>3
<1>2. Kept(EvaluateRule(e, r))
  BY <1>1, EvaluateRuleIs DEF Alike
<1>. QED BY <1>2, HeardSame

LEMMA EvaluationHears ==
  ASSUME now \in Nat, NEW e, Sound(e, now), NEW M, NEW P,
         \A r \in Rules : /\ \A i, j \in P[r] : i = j
                          /\ ToSet(CondsOf(r)) \cap M = {} => P[r] = {}
                          /\ HeardBut(e, r, P[r])
  PROVE  \A r \in Rules : HeardBut(EvaluateRules(e, M), r, {})
<1>. DEFINE n == Len(RuleOrder)
            Done(i, r) == \E j \in 1 .. i : RuleOrder[j] = r
            Left(i, r) == IF Done(i, r) THEN {} ELSE P[r]
            S(i) == {f \in EngineState : Sound(f, now) /\ \A r \in Rules : HeardBut(f, r, Left(i, r))}
            V == [i \in 0 .. n |-> S(i)]
<1>0. n \in Nat /\ \A i \in 1 .. n : RuleOrder[i] \in Rules
  BY OrderFacts
<1>a. \A r \in Rules : /\ \A x, y \in P[r] : x = y
                       /\ ToSet(CondsOf(r)) \cap M = {} => P[r] = {}
  OBVIOUS
<1>1. e \in S(0)
  <2>1. \A r \in Rules : Left(0, r) = P[r]
    <3>1. \A r \in Rules : ~Done(0, r)
      OBVIOUS
    <3>. HIDE DEF Done
    <3>. QED BY <3>1
  <2>2. \A r \in Rules : HeardBut(e, r, P[r])
    OBVIOUS
  <2>. HIDE DEF Left
  <2>3. \A r \in Rules : HeardBut(e, r, Left(0, r))
    BY <2>1, <2>2
  <2>. QED BY <2>3 DEF Sound
<1>2. ASSUME NEW i \in 1 .. n, NEW f \in S(i - 1)
      PROVE  IF ToSet(CondsOf(RuleOrder[i])) \cap M # {}
             THEN EvaluateRule(f, RuleOrder[i]) \in S(i) ELSE f \in S(i)
  <2>. DEFINE q == RuleOrder[i]
              g == EvaluateRule(f, q)
  <2>1. q \in Rules /\ f \in EngineState /\ Sound(f, now)
        /\ \A r \in Rules : HeardBut(f, r, Left(i - 1, r))
    BY <1>0
  <2>2. Left(i, q) = {}
    BY <1>0
  <2>3. ASSUME NEW r \in Rules \ {q} PROVE Left(i, r) = Left(i - 1, r)
    <3>1. \A j \in 1 .. i : RuleOrder[j] = r => j \in 1 .. i - 1
      BY <1>0, <2>3
    <3>2. \A j \in 1 .. i - 1 : j \in 1 .. i
      BY <1>0
    <3>3. Done(i, r) <=> Done(i - 1, r)
      BY <3>1, <3>2
    <3>. HIDE DEF Done
    <3>. QED BY <3>3
  <2>4. ASSUME NEW r \in Rules PROVE Left(i - 1, r) \in {{}, P[r]}
    <3>. HIDE DEF Done
    <3>. QED OBVIOUS
  <2>. HIDE DEF Left, q
  <2>0. /\ \A x, y \in P[q] : x = y
        /\ ToSet(CondsOf(q)) \cap M = {} => P[q] = {}
    BY <1>a, <2>1
  <2>5. CASE ToSet(CondsOf(q)) \cap M # {}
    <3>1. Sound(g, now) /\ g \in EngineState
      BY <2>1, RuleKeepsSound DEF Sound
    <3>2. \A x, y \in Left(i - 1, q) : x = y
      BY <2>0, <2>1, <2>4, Zenon
    <3>3. HeardBut(g, q, {})
      BY <2>1, <3>2, RuleHears
    <3>4. \A r \in Rules \ {q} : HeardBut(g, r, Left(i, r))
      BY <2>1, <2>3, OthersHear
    <3>. HIDE DEF g
    <3>5. g \in S(i)
      BY <2>2, <3>1, <3>3, <3>4
    <3>. QED BY <2>5, <3>5 DEF q, g
  <2>6. CASE ToSet(CondsOf(q)) \cap M = {}
    <3>1. P[q] = {}
      BY <2>0, <2>6, Zenon
    <3>2. Left(i - 1, q) = {}
      BY <2>1, <2>4, <3>1
    <3>3. f \in S(i)
      BY <2>1, <2>2, <2>3, <3>2
    <3>. QED BY <2>6, <3>3 DEF q
  <2>. QED BY <2>5, <2>6
<1>. HIDE DEF S
<1>3. \A i \in 0 .. n : V[i] = S(i)
  OBVIOUS
<1>4. \A i \in 1 .. n : V[i] = S(i) /\ V[i - 1] = S(i - 1)
  BY <1>0, <1>3
<1>. HIDE DEF V
<1>5. e \in V[0]
  BY <1>0, <1>1, <1>3
<1>6. EvaluateRules(e, M) \in V[n]
  <2>1. \A i \in 1 .. Len(RuleOrder) : \A f \in V[i - 1] :
          IF ToSet(CondsOf(RuleOrder[i])) \cap M # {}
          THEN EvaluateRule(f, RuleOrder[i]) \in V[i] ELSE f \in V[i]
    <3>. SUFFICES ASSUME NEW i \in 1 .. n, NEW f \in V[i - 1]
                  PROVE  IF ToSet(CondsOf(RuleOrder[i])) \cap M # {}
                         THEN EvaluateRule(f, RuleOrder[i]) \in V[i] ELSE f \in V[i]
      OBVIOUS
    <3>1. V[i] = S(i) /\ f \in S(i - 1)
      BY <1>4
    <3>2. IF ToSet(CondsOf(RuleOrder[i])) \cap M # {}
          THEN EvaluateRule(f, RuleOrder[i]) \in S(i) ELSE f \in S(i)
      BY <1>2, <3>1
    <3>. QED BY <3>1, <3>2
  <2>. QED BY <1>5, <2>1, EvaluationInvariant
<1>7. EvaluateRules(e, M) \in S(n)
  BY <1>0, <1>3, <1>6
<1>8. \A r \in Rules : Left(n, r) = {}
  BY OrderFacts
<1>. HIDE DEF Left
<1>. QED BY <1>7, <1>8 DEF S
\* A message turns one cell of a condition on.
LEMMA FeedHears ==
  ASSUME HeardInv, NEW s \in Sources, NEW M \in SUBSET Conds, NEW st \in [M -> BOOLEAN], NEW r \in Rules
  PROVE  HeardBut(Captured(s, M, st), r,
                  IF OwnRule(r) /\ OwnCond(r) \in {c \in M : HitStatus(c, s) # st[c]}
                  THEN {HitIndex(OwnCond(r), s)} ELSE {})
<1>. DEFINE f == Captured(s, M, st)
            c == OwnCond(r)
            i == HitIndex(c, s)
            P == IF OwnRule(r) /\ c \in {x \in M : HitStatus(x, s) # st[x]} THEN {i} ELSE {}
<1>1. Engine \in EngineState /\ Engine.rule = rule /\ Engine.cond = cond /\ HeardBut(Engine, r, {})
  BY DEF HeardInv, EngineInv, Sound, Engine
<1>2. /\ f.rule = rule
      /\ \A x \in M : f.cond[x] = AfterHit(x, s, st[x])
      /\ \A x \in Conds \ M : f.cond[x] = cond[x]
  BY <1>1, CapturedFacts
<1>. HIDE DEF f, P
<1>. SUFFICES ASSUME OwnRule(r) PROVE HeardBut(f, r, P)
  BY DEF f, P, HeardBut, Heeds
<1>3. c \in Conds
  BY OwnFacts
<1>4. CASE c \notin M
  <2>1. f.cond[c] = cond[c] /\ f.rule[r] = rule[r] /\ P = {}
    BY <1>2, <1>3, <1>4 DEF P
  <2>. QED BY <1>1, <2>1, HeardSame DEF Alike
<1>5. CASE c \in M
  <2>. DEFINE k == f.cond[c]
              n == Len(cond[c].srcs)
  <2>1. st[c] \in BOOLEAN /\ k = AfterHit(c, s, st[c])
    BY <1>2, <1>5
  <2>2. /\ i \in 1 .. Len(k.srcs) /\ k.on[i] = st[c]
        /\ \A x \in 1 .. n : x \in 1 .. Len(k.srcs) /\ k.srcs[x] = cond[c].srcs[x]
        /\ \A x \in 1 .. Len(k.srcs) : x # i /\ k.on[x] => x \in 1 .. n /\ cond[c].on[x]
        /\ HitStatus(c, s) \in BOOLEAN
        /\ HitStatus(c, s) => i \in 1 .. n /\ cond[c].on[i]
    BY <1>1, <1>3, <2>1, CaptureFacts
  <2>3. P = IF HitStatus(c, s) # st[c] THEN {i} ELSE {}
    BY <1>5 DEF P
  <2>. HIDE DEF i, k
  <2>. SUFFICES ASSUME Heeds(r), ~rule[r].muted PROVE HeardBut(f, r, P)
    BY <1>2 DEF HeardBut
  <2>4. /\ rule[r].enabled
        /\ \A x \in DOMAIN rule[r].alarms :
             x[1] \in 1 .. n /\ rule[r].alarms[x].names[1] = cond[c].srcs[x[1]]
        /\ \A x \in 1 .. n : cond[c].on[x] => \E y \in DOMAIN rule[r].alarms : y[1] = x
    BY <1>1 DEF HeardBut
  <2>5. ASSUME NEW x \in DOMAIN rule[r].alarms
        PROVE  x[1] \in 1 .. Len(k.srcs) /\ rule[r].alarms[x].names[1] = k.srcs[x[1]]
    BY <2>2, <2>4
  <2>6. ASSUME NEW x \in 1 .. Len(k.srcs), k.on[x], x \notin P
        PROVE  \E y \in DOMAIN rule[r].alarms : y[1] = x
    <3>1. CASE x # i
      BY <2>2, <2>4, <2>6, <3>1
    <3>2. CASE x = i
      <4>1. HitStatus(c, s) = st[c]
        BY <2>3, <2>6, <3>2
      <4>2. HitStatus(c, s)
        BY <2>2, <2>6, <3>2, <4>1
      <4>. QED BY <2>2, <2>4, <3>2, <4>2
    <3>. QED BY <3>1, <3>2
  <2>. QED BY <1>2, <2>4, <2>5, <2>6 DEF HeardBut, k
<1>. QED BY <1>4, <1>5 DEF P, f

\* A worker pass turns no cell of an occur_at_least condition on.
LEMMA PassHears ==
  ASSUME HeardInv, NEW F \in SUBSET Cells, WorkerPass(F), NEW r \in Rules
  PROVE  HeardBut(Flipped(F), r, {})
<1>. DEFINE f == Flipped(F)
            c == OwnCond(r)
            n == Len(cond[c].srcs)
<1>1. Engine \in EngineState /\ Engine.rule = rule /\ Engine.cond = cond /\ HeardBut(Engine, r, {})
  BY DEF HeardInv, EngineInv, Sound, Engine
<1>2. /\ f.rule = rule
      /\ \A d \in Conds :
           /\ f.cond[d].srcs = cond[d].srcs
           /\ \A i \in DOMAIN cond[d].srcs :
                f.cond[d].on[i] = IF <<d, i>> \in F THEN ~cond[d].on[i] ELSE cond[d].on[i]
  BY <1>1, FlippedFacts
<1>. HIDE DEF f
<1>. SUFFICES ASSUME Heeds(r), ~rule[r].muted PROVE HeardBut(f, r, {})
  BY <1>2 DEF HeardBut, f
<1>3. c \in Conds /\ CondParams[c].at_least
  BY OwnFacts DEF Heeds, OwnCond
<1>4. cond[c].srcs \in Seq(SourceIndex) /\ cond[c].on \in Seq(BOOLEAN) /\ Len(cond[c].on) = n
  BY <1>1, <1>3, EngineFacts
<1>5. ASSUME NEW i \in 1 .. n, f.cond[c].on[i] PROVE cond[c].on[i]
  <2>1. f.cond[c].on[i] = IF <<c, i>> \in F THEN ~cond[c].on[i] ELSE cond[c].on[i]
    BY <1>2, <1>3, <1>4
  <2>2. CASE <<c, i>> \notin F
    BY <1>5, <2>1, <2>2
  <2>3. CASE <<c, i>> \in F
    <3>1. (~cond[c].on[i]) \in EventOutcomes(c, cond[c].on[i])
      BY <2>3 DEF WorkerPass
    <3>2. cond[c].on[i] \in BOOLEAN
      BY <1>4
    <3>3. \A b \in BOOLEAN : (~b) \in EventOutcomes(c, b) => b
      BY <1>3 DEF EventOutcomes
    <3>. QED BY <3>1, <3>2, <3>3
  <2>. QED BY <2>2, <2>3
<1>. QED BY <1>1, <1>2, <1>3, <1>5 DEF HeardBut

LEMMA InitHeardInv == Init => HeardInv
<1>. SUFFICES ASSUME Init PROVE HeardInv
  OBVIOUS
<1>1. ASSUME NEW r \in Rules PROVE HeardBut(Engine, r, {})
  <2>. DEFINE z == <<>>
              q == [enabled |-> TRUE, muted |-> FALSE, alarms |-> z, count |-> 0]
  <2>1. rule[r] = q /\ DOMAIN z = {}
    BY NoAlarms DEF Init
  <2>. HIDE DEF z
  <2>2. rule[r].enabled /\ DOMAIN rule[r].alarms = {}
    BY <2>1
  <2>3. OwnRule(r) => Len(cond[OwnCond(r)].srcs) = 0
    BY OwnFacts DEF Init, GroundCond
  <2>. QED BY <2>2, <2>3 DEF HeardBut, Heeds, Engine
<1>. QED BY <1>1, InitEngineInv DEF HeardInv

LEMMA StepHears ==
  ASSUME NEW e \in EngineState, Become(e), \A r \in Rules : HeardBut(e, r, {})
  PROVE  \A r \in Rules : HeardBut(Engine', r, {})
<1>1. Engine' = e
  BY BecomeIs
<1>. QED BY <1>1

LEMMA NextHeardInv == HeardInv /\ [Next]_vars => HeardInv'
<1>. SUFFICES ASSUME HeardInv, [Next]_vars PROVE HeardInv'
  OBVIOUS
<1>. DEFINE Hears == \A r \in Rules : HeardBut(Engine', r, {})
<1>0. /\ EngineInv /\ EngineInv' /\ Sound(Engine, now) /\ Engine \in EngineState /\ now \in Nat
      /\ Engine.rule = rule /\ Engine.cond = cond /\ \A r \in Rules : HeardBut(Engine, r, {})
  BY NextEngineInv DEF HeardInv, EngineInv, Sound, Engine
<1>1. ASSUME NEW s \in Sources, NEW M \in SUBSET Conds \ {{}}, NEW st \in [M -> BOOLEAN],
             Feed(s, M, st)
      PROVE  Hears
  <2>. DEFINE C == {c \in M : HitStatus(c, s) # st[c]}
              P == [r \in Rules |-> IF OwnRule(r) /\ OwnCond(r) \in C THEN {HitIndex(OwnCond(r), s)} ELSE {}]
              e == Captured(s, M, st)
              f == EvaluateRules(e, C)
  <2>1. M \in SUBSET Conds
    OBVIOUS
  <2>2. Sound(e, now) /\ Sound(f, now)
    BY <1>0, <2>1, FeedSound, EvaluationKeepsSound
  <2>3. ASSUME NEW r \in Rules PROVE HeardBut(e, r, P[r])
    BY <2>1, FeedHears
  <2>4. ASSUME NEW r \in Rules
        PROVE  (\A i, j \in P[r] : i = j) /\ (ToSet(CondsOf(r)) \cap C = {} => P[r] = {})
    <3>1. OwnRule(r) => ToSet(CondsOf(r)) = {OwnCond(r)}
      BY OwnFacts
    <3>. HIDE DEF C
    <3>. QED BY <3>1
  <2>5. Become(f)
    BY <1>1 DEF Feed
  <2>. HIDE DEF C, P, e
  <2>6. \A r \in Rules : HeardBut(f, r, {})
    BY <1>0, <2>2, <2>3, <2>4, EvaluationHears
  <2>. HIDE DEF f
  <2>. QED BY <2>2, <2>5, <2>6, StepHears DEF Sound
<1>2. ASSUME NEW F \in SUBSET Cells, WorkerPass(F) PROVE Hears
  <2>. DEFINE C == {f[1] : f \in F}
              P == [r \in Rules |-> {}]
              e == Flipped(F)
              f == EvaluateRules(e, C)
  <2>1. Sound(e, now) /\ Sound(f, now)
    BY <1>0, PassSound, EvaluationKeepsSound
  <2>2. \A r \in Rules : P[r] = {} /\ HeardBut(e, r, {})
    BY <1>2, PassHears
  <2>3. Become(f)
    BY <1>2 DEF WorkerPass
  <2>. HIDE DEF C, P, e
  <2>4. \A r \in Rules : HeardBut(f, r, {})
    BY <1>0, <2>1, <2>2, EvaluationHears
  <2>. HIDE DEF f
  <2>. QED BY <2>1, <2>3, <2>4, StepHears DEF Sound
<1>3. ASSUME NEW r \in Rules, ResetRule(r) PROVE Hears
  <2>. DEFINE f == ResetOf(Engine, r)
  <2>1. /\ f \in EngineState
        /\ \A c \in Conds : f.cond[c] = IF c \in ToSet(CondsOf(r)) THEN GroundCond ELSE cond[c]
        /\ \A q \in Rules \ {r} : f.rule[q] = Outlived(rule[q], ToSet(CondsOf(r)))
    BY <1>0, ResetOfFacts
  <2>2. HeardBut(f, r, {})
    BY <1>0, ResetHears
  <2>3. Become(f)
    BY <1>3 DEF ResetRule, Engine
  <2>. HIDE DEF f
  <2>4. ASSUME NEW q \in Rules \ {r} PROVE HeardBut(f, q, {})
    <3>1. OwnRule(q) => f.cond[OwnCond(q)] = cond[OwnCond(q)]
      BY <2>1, OwnFacts
    <3>2. Alike(f.rule[q], rule[q])
      BY <1>0, <2>1, EngineFacts, OutlivedFacts DEF Alike
    <3>. QED BY <1>0, <3>1, <3>2, HeardSame
  <2>. QED BY <2>1, <2>2, <2>3, <2>4, StepHears
<1>4. ASSUME ResetAll PROVE Hears
  <2>1. /\ cond' = [c \in Conds |-> GroundCond] /\ rule' = [r \in Rules |-> Forgotten(rule[r])]
    BY <1>4 DEF ResetAll
  <2>2. ASSUME NEW r \in Rules PROVE HeardBut(Engine', r, {})
    <3>1. rule[r] \in RuleState /\ rule[r].enabled \in BOOLEAN
      BY <1>0, EngineFacts
    <3>2. /\ rule'[r].muted = ~rule[r].enabled /\ rule'[r].enabled = rule[r].enabled
          /\ DOMAIN rule'[r].alarms = {}
      BY <2>1, <3>1, ForgottenFacts, NoAlarms
    <3>3. OwnRule(r) => Len(cond'[OwnCond(r)].srcs) = 0
      BY <2>1, OwnFacts DEF GroundCond
    <3>4. Engine'.rule = rule' /\ Engine'.cond = cond'
      BY DEF Engine
    <3>5. Heeds(r) => OwnRule(r)
      BY DEF Heeds
    <3>6. ~rule'[r].muted => rule'[r].enabled
      BY <3>1, <3>2
    <3>. DEFINE e == Engine'
    <3>. HIDE DEF Engine, e
    <3>7. e.rule = rule' /\ e.cond = cond'
      BY <3>4 DEF e
    <3>8. HeardBut(e, r, {})
      BY <3>2, <3>3, <3>5, <3>6, <3>7 DEF HeardBut
    <3>. QED BY <3>8 DEF e
  <2>. QED BY <2>2
<1>5. ASSUME NEW r \in Rules, NEW flag \in BOOLEAN, EnableRule(r, flag) PROVE Hears
  <2>1. cond' = cond /\ rule' = [rule EXCEPT ![r] = Switched(rule[r], flag)]
    BY <1>5 DEF EnableRule
  <2>2. rule \in [Rules -> RuleState] /\ rule[r] \in RuleState /\ rule[r].muted \in BOOLEAN
    BY <1>0, EngineFacts
  <2>3. Engine'.rule = rule' /\ Engine'.cond = cond
    BY <2>1 DEF Engine
  <2>4. ASSUME NEW q \in Rules \ {r} PROVE HeardBut(Engine', q, {})
    <3>1. rule'[q] = rule[q]
      BY <2>1, <2>2
    <3>. QED BY <1>0, <2>3, <3>1, HeardSame DEF Alike
  <2>5. HeardBut(Engine', r, {})
    <3>1. /\ rule'[r].alarms = rule[r].alarms /\ rule'[r].enabled = flag
          /\ rule'[r].muted = (rule[r].muted \/ ~flag)
      BY <2>1, <2>2, SwitchedFacts
    <3>2. ~rule'[r].muted => ~rule[r].muted /\ rule'[r].enabled
      BY <2>2, <3>1
    <3>3. HeardBut(Engine, r, {})
      BY <1>0
    <3>. HIDE DEF Engine
    <3>. QED BY <1>0, <2>3, <3>1, <3>2, <3>3 DEF HeardBut
  <2>. QED BY <2>4, <2>5
<1>6. ASSUME Tick \/ UNCHANGED vars PROVE Hears
  <2>1. Engine' = Engine
    BY <1>6 DEF Tick, vars, Engine
  <2>. QED BY <1>0, <2>1
<1>. HIDE DEF Hears
<1>7. Hears
  BY <1>1, <1>2, <1>3, <1>4, <1>5, <1>6 DEF Next
<1>. USE DEF Hears
<1>8. HeardInv' <=> EngineInv' /\ Hears
  BY DEF HeardInv
<1>. QED BY <1>0, <1>7, <1>8

\* A rule of its own on one occur_at_least condition that does not repeat alarms
\* raises an alarm for every source that turns the condition on, unless it was
\* disabled in between (RuleEngineDocumentation.txt:47-52, ma_rule.cpp:161-278).
THEOREM EverySourceIsHeard == Spec => []EverySourceAlarms
<1>1. HeardInv => EverySourceAlarms
  <2>. SUFFICES ASSUME HeardInv, NEW r \in Rules, OwnRule(r), ~RuleParams[r].repeat, ~rule[r].muted,
                       NEW x \in OnCells, x[1] = OwnCond(r), CondParams[x[1]].at_least
                PROVE  \E k \in DOMAIN rule[r].alarms : rule[r].alarms[k].names[1] = x[2]
    BY DEF EverySourceAlarms, OwnCond, CondsOf
  <2>. DEFINE c == OwnCond(r)
  <2>1. Heeds(r) /\ HeardBut(Engine, r, {}) /\ Engine \in EngineState
        /\ Engine.rule = rule /\ Engine.cond = cond
    BY DEF HeardInv, EngineInv, Sound, Engine, Heeds, OwnCond
  <2>2. PICK i \in DOMAIN cond[c].srcs : cond[c].on[i] /\ x = <<c, cond[c].srcs[i]>>
    BY DEF OnCells
  <2>3. i \in 1 .. Len(cond[c].srcs)
    <3>1. cond[c].srcs \in Seq(SourceIndex)
      BY <2>1, OwnFacts, EngineFacts
    <3>. QED BY <2>2, <3>1
  <2>. QED BY <2>1, <2>2, <2>3 DEF HeardBut
<1>. QED BY <1>1, InitHeardInv, NextHeardInv, PTL DEF Spec
=============================================================================
