------------------------ MODULE MsgAnalyzerDlgProofs ------------------------
(***************************************************************************)
(* Theorems about the dialog of the message analyzer: icons tell the       *)
(* truth, colours have a message behind them, no menu is left without its  *)
(* node, and the tables say what the engine has counted.                   *)
(***************************************************************************)
EXTENDS MsgAnalyzerDlg, TLAPS

Severity == SDEBUG .. SERROR

NodeRecord ==
  [msgs : Seq(Severity), high : Severity, aow : BOOLEAN, aoe : BOOLEAN,
   icon : {Blank} \cup [sev : Severity, aow : BOOLEAN, aoe : BOOLEAN]]

\* A node whose icon and colour are right.
Right(n) ==
  /\ n \in NodeRecord /\ Len(n.msgs) <= MAX_QUEUE + 1
  /\ n.icon \in {Icon(n.high, n)} \cup (IF n.high = SDEBUG THEN {Blank} ELSE {})
  /\ n.high > SDEBUG => n.msgs # <<>> /\ Last(n.msgs) = n.high

NodesRight ==
  /\ nodes = [a \in DOMAIN nodes |-> nodes[a]] /\ DOMAIN nodes \subseteq Apps
  /\ \A a \in DOMAIN nodes : Right(nodes[a])

-----------------------------------------------------------------------------
(* What happens to one node.                                               *)

LEMMA NewNodeIsRight ==
  ASSUME NEW app
  PROVE  Right(NewNode(app))
BY NodeStatusAssumption DEF NewNode, CheckNode, Right, NodeRecord, Severity, SDEBUG, SERROR

\* The message that raises the severity, or equals it, is the last of the queue; one
\* below it does not get into the queue (NodeInfo.cpp:45-79).
LEMMA PushIsRight ==
  ASSUME NEW n, Right(n), NEW sev \in Severity
  PROVE  Right(Push(n, sev))
<1>1. CASE sev < n.high
  BY <1>1 DEF Push
<1>2. CASE ~(sev < n.high)
  <2>. DEFINE q == IF Len(n.msgs) > MAX_QUEUE THEN Tail(n.msgs) ELSE n.msgs
              icon == IF sev > n.high THEN Icon(sev, n) ELSE n.icon
              p == Push(n, sev)
  <2>1. q \in Seq(Severity) /\ Len(q) <= MAX_QUEUE
    <3>1. n.msgs \in Seq(Severity) /\ MAX_QUEUE \in Nat
      BY NodeStatusAssumption DEF Right, NodeRecord
    <3>2. Len(n.msgs) > MAX_QUEUE => n.msgs # <<>>
      BY <3>1
    <3>3. n.msgs # <<>> => Tail(n.msgs) \in Seq(Severity) /\ Len(Tail(n.msgs)) = Len(n.msgs) - 1
      BY <3>1
    <3>4. Len(n.msgs) \in Nat /\ Len(n.msgs) <= MAX_QUEUE + 1
      BY <3>1 DEF Right
    <3>5. CASE Len(n.msgs) > MAX_QUEUE
      BY <3>1, <3>2, <3>3, <3>4, <3>5
    <3>6. CASE ~(Len(n.msgs) > MAX_QUEUE)
      BY <3>1, <3>4, <3>6
    <3>. QED BY <3>5, <3>6
  <2>2. p = [n EXCEPT !.msgs = Append(q, sev), !.icon = icon, !.high = sev]
    BY <1>2 DEF Push
  <2> HIDE DEF q, icon, p
  <2>3. /\ p.msgs = Append(q, sev) /\ p.icon = icon /\ p.high = sev
        /\ p.aow = n.aow /\ p.aoe = n.aoe
        /\ p = [msgs |-> p.msgs, high |-> p.high, aow |-> p.aow, aoe |-> p.aoe, icon |-> p.icon]
    BY <2>2 DEF Right, NodeRecord
  <2>4. /\ Append(q, sev) \in Seq(Severity) /\ Append(q, sev) # <<>>
        /\ Last(Append(q, sev)) = sev /\ Len(Append(q, sev)) <= MAX_QUEUE + 1
    BY <2>1, NodeStatusAssumption DEF Last
  <2>5. icon \in {Icon(sev, n)} \cup (IF sev = SDEBUG THEN {Blank} ELSE {})
    BY <1>2 DEF icon, Right, NodeRecord, Severity, SDEBUG, SERROR
  <2>6. icon \in {Blank} \cup [sev : Severity, aow : BOOLEAN, aoe : BOOLEAN]
    BY <2>5 DEF Icon, Right, NodeRecord
  <2>7. p \in NodeRecord
    BY <2>3, <2>4, <2>6 DEF Right, NodeRecord
  <2>8. Icon(p.high, p) = Icon(sev, n)
    BY <2>3 DEF Icon
  <2>9. Right(p)
    BY <2>3, <2>4, <2>5, <2>7, <2>8 DEF Right
  <2>. QED BY <2>9 DEF p
<1>. QED BY <1>1, <1>2

LEMMA ResetIsRight ==
  ASSUME NEW n, Right(n)
  PROVE  Right(ResetNode(n))
<1>. DEFINE r == ResetNode(n)
<1>1. r = [msgs |-> n.msgs, high |-> SDEBUG, aow |-> n.aow, aoe |-> n.aoe, icon |-> Icon(SDEBUG, n)]
  <2>1. r = [n EXCEPT !.high = SDEBUG, !.icon = Icon(SDEBUG, n)]
    BY DEF ResetNode
  <2> HIDE DEF r
  <2>2. n \in NodeRecord
    BY DEF Right
  <2>. QED BY <2>1, <2>2 DEF NodeRecord
<1>2. Icon(SDEBUG, n) \in [sev : Severity, aow : BOOLEAN, aoe : BOOLEAN] /\ SDEBUG \in Severity
  BY DEF Icon, Right, NodeRecord, Severity, SDEBUG, SERROR
<1>3. r \in NodeRecord
  BY <1>1, <1>2 DEF Right, NodeRecord
<1>4. r.icon = Icon(r.high, r) /\ ~(r.high > SDEBUG) /\ Len(r.msgs) <= MAX_QUEUE + 1
  BY <1>1 DEF Icon, SDEBUG, Right
<1>. QED BY <1>3, <1>4 DEF Right

LEMMA FlagsAreRight ==
  ASSUME NEW n, Right(n), NEW aow \in BOOLEAN, NEW aoe \in BOOLEAN
  PROVE  Right(SetFlags(n, aow, aoe))
BY DEF SetFlags, Icon, Right, NodeRecord, Severity, SDEBUG, SERROR

-----------------------------------------------------------------------------
(* The panel.                                                              *)

LEMMA ReceiveIsRight ==
  ASSUME NodesRight, NEW m \in Messages, NewMsg(m)
  PROVE  NodesRight'
<1>1. m.sev \in Severity
  BY NodeStatusAssumption DEF Severity
<1>2. Right(NodeOf(m.app))
  BY NewNodeIsRight DEF NodeOf, NodesRight
<1>3. Right(Push(NodeOf(m.app), m.sev))
  BY <1>1, <1>2, PushIsRight
<1>4. nodes' = [a \in DOMAIN nodes \cup {m.app} |->
                  IF a = m.app THEN Push(NodeOf(a), m.sev) ELSE nodes[a]]
  BY DEF NewMsg
<1>5. ASSUME NEW a \in DOMAIN nodes' PROVE Right(nodes'[a])
  BY <1>3, <1>4, <1>5 DEF NodesRight
<1>6. DOMAIN nodes' \subseteq Apps
  BY <1>4, NodeStatusAssumption DEF NodesRight
<1>. QED BY <1>4, <1>5, <1>6 DEF NodesRight

LEMMA MenuIsRight ==
  ASSUME NodesRight, MenuNodeExists, MenuReset \/ MenuWarning \/ MenuError
  PROVE  NodesRight'
<1>. DEFINE a == modal.node
            n == nodes[a]
<1>1. a \in DOMAIN nodes /\ Right(n)
  BY DEF MenuReset, MenuWarning, MenuError, MenuDoes, MenuNodeExists, NodesRight
<1>2. n.aow \in BOOLEAN /\ n.aoe \in BOOLEAN
  BY <1>1 DEF Right, NodeRecord
<1>3. \/ nodes' = [nodes EXCEPT ![a] = ResetNode(n)]
      \/ nodes' = [nodes EXCEPT ![a] = SetFlags(n, ~n.aow, n.aoe)]
      \/ nodes' = [nodes EXCEPT ![a] = SetFlags(n, n.aow, ~n.aoe)]
  BY DEF MenuReset, MenuWarning, MenuError, MenuDoes, Chosen
<1>4. PICK k : nodes' = [nodes EXCEPT ![a] = k] /\ Right(k)
  <2>1. Right(ResetNode(n)) /\ Right(SetFlags(n, ~n.aow, n.aoe))
        /\ Right(SetFlags(n, n.aow, ~n.aoe))
    BY <1>1, <1>2, ResetIsRight, FlagsAreRight
  <2>. QED BY <1>3, <2>1
<1>5. nodes' = [b \in DOMAIN nodes |-> IF b = a THEN k ELSE nodes[b]]
  BY <1>1, <1>4 DEF NodesRight
<1>. QED BY <1>4, <1>5 DEF NodesRight

PanelInv == NodesRight /\ MenuNodeExists /\ nmsgs \in 0 .. MaxMsgs

LEMMA InitPanelInv == Init => PanelInv
BY NodeStatusAssumption DEF Init, NodeInit, PanelInv, NodesRight, MenuNodeExists, NoModal

LEMMA NextPanelInv == PanelInv /\ [Next]_vars => PanelInv'
<1>. SUFFICES ASSUME PanelInv, [Next]_vars PROVE PanelInv'
  OBVIOUS
<1>1. CASE \E m \in Messages : Receive(m)
  <2>1. PICK m \in Messages : NewMsg(m) /\ UNCHANGED modal /\ nmsgs < MaxMsgs
    BY <1>1 DEF Receive
  <2>2. DOMAIN nodes \subseteq DOMAIN nodes'
    BY <2>1 DEF NewMsg
  <2>3. nmsgs' \in 0 .. MaxMsgs
    BY <2>1, NodeStatusAssumption DEF NewMsg, PanelInv
  <2>. QED BY <2>1, <2>2, <2>3, ReceiveIsRight DEF PanelInv, MenuNodeExists
<1>2. CASE UNCHANGED <<nodes, nmsgs, modal>>
  BY <1>2 DEF PanelInv, NodesRight, MenuNodeExists
<1>3. CASE \/ \E r \in Rules : WorkerAlarm(r) \/ ClickReset(r)
           \/ ServeAlarm \/ UNCHANGED vars
  BY <1>2, <1>3 DEF WorkerAlarm, ClickReset, ServeAlarm, vars, nodeVars
<1>4. CASE \E checked \in SUBSET Rules \ {{}} :
             RuleEnable(checked) \/ RuleDisable(checked) \/ ResetSelection(checked)
  BY <1>2, <1>4 DEF RuleEnable, RuleDisable, ResetSelection, nodeVars
<1>5. CASE MenuReset \/ MenuWarning \/ MenuError
  <2>1. modal' = NoModal /\ nmsgs' = nmsgs
    BY <1>5 DEF MenuReset, MenuWarning, MenuError, MenuDoes
  <2>. QED BY <1>5, <2>1, MenuIsRight DEF PanelInv, MenuNodeExists, NoModal
<1>6. CASE AskReset \/ \E a \in Apps : ShowContextMenu(a) \/ NodeClicked(a)
  <2>1. nodes' = nodes /\ nmsgs' = nmsgs
        /\ \/ modal'.what = "question"
           \/ modal'.node \in DOMAIN nodes
    BY <1>6 DEF AskReset, ShowContextMenu, NodeClicked, Opens, nodeVars
  <2>. QED BY <2>1 DEF PanelInv, NodesRight, MenuNodeExists
<1>7. CASE Dismiss \/ Reset
  <2>1. modal' = NoModal
    BY <1>7 DEF Dismiss, Reset
  <2>2. (nodes' = nodes /\ nmsgs' = nmsgs) \/ (nodes' = <<>> /\ nmsgs' = 0)
    BY <1>7 DEF Dismiss, Reset, ResetAll, ForgetNodes, nodeVars
  <2>3. NodesRight'
    <3>1. CASE nodes' = nodes
      BY <3>1 DEF PanelInv, NodesRight
    <3>2. CASE nodes' = <<>>
      BY <3>2 DEF NodesRight
    <3>. QED BY <2>2, <3>1, <3>2
  <2>. QED BY <2>1, <2>2, <2>3, NodeStatusAssumption DEF PanelInv, MenuNodeExists, NoModal
<1>. QED BY <1>1, <1>3, <1>4, <1>5, <1>6, <1>7 DEF Next, Engine, RulePanel, NodePanel

\* The node that a menu or a box is about is there as long as that is open, for any
\* applications, messages and rules: only the reset of the dialog removes nodes, and it
\* needs the user, whom the menu keeps from it (MsgAnalyzerDlg.cpp:359-416, 485-495).
THEOREM MenuNodeAlwaysExists == Spec => []MenuNodeExists
<1>1. PanelInv => MenuNodeExists
  BY DEF PanelInv
<1>. QED BY InitPanelInv, NextPanelInv, <1>1, PTL DEF Spec

-----------------------------------------------------------------------------
(* The tables.                                                             *)

RowRecord ==
  [status : {Empty, Disabled} \cup (0 .. MaxAlarms), red : BOOLEAN, grey : BOOLEAN,
   button : {"none", "on", "off"}]

CondRecord == [count : Nat, blue : BOOLEAN]

RowsAgree ==
  \A r \in Rules : /\ ruleRow[r].red = (ruleRow[r].button # "none")
                   /\ ruleRow[r].grey = (r \notin enabled)

TablesTyped ==
  /\ catched \in [Conds -> Nat] /\ alarms \in [Rules -> 0 .. MaxAlarms]
  /\ enabled \subseteq Rules
  /\ queue \in Seq(Rules) /\ Len(queue) <= MaxQueued + 1
  /\ ruleRow \in [Rules -> RowRecord] /\ condRow \in [Conds -> CondRecord]
  /\ RowsAgree

TablesTrue == TablesTyped /\ AlarmsAreShown /\ StatusIsTrue /\ CondsAreShown

Table ==
  [catched : [Conds -> Nat], alarms : [Rules -> 0 .. MaxAlarms], queue : Seq(Rules),
   rows : [Rules -> RowRecord], conds : [Conds -> CondRecord]]

LEMMA PaintedIs ==
  ASSUME NEW row \in RowRecord, NEW n \in 0 .. MaxAlarms
  PROVE  /\ Painted(row, n) \in RowRecord
         /\ Painted(row, n) = [status |-> n, red |-> TRUE, grey |-> row.grey, button |-> "on"]
BY DEF Painted, RowRecord

\* What a painted row says.
IsPainted(row, n, grey) == row = [status |-> n, red |-> TRUE, grey |-> grey, button |-> "on"]

LEMMA PaintedRow ==
  ASSUME NEW row, NEW n, NEW grey, IsPainted(row, n, grey)
  PROVE  row.status = n /\ row.red /\ row.grey = grey /\ row.red = (row.button # "none")
<1>. DEFINE p == [status |-> n, red |-> TRUE, grey |-> grey, button |-> "on"]
<1>1. p.status = n /\ p.red /\ p.grey = grey /\ p.red = (p.button # "none")
  OBVIOUS
<1>2. row = p
  BY DEF IsPainted
<1>. QED BY <1>1, <1>2

LEMMA NewAlarmShows ==
  ASSUME NEW e \in Table, NEW R \in SUBSET Rules
  PROVE  LET f == OnNewAlarm(e, R)
         IN  /\ f \in Table
             /\ f.catched = e.catched /\ f.alarms = e.alarms
             /\ f.queue = e.queue /\ f.conds = e.conds
             /\ \A r \in R : f.rows[r] = Painted(e.rows[r], e.alarms[r])
             /\ \A r \in Rules \ R : f.rows[r] = e.rows[r]
<1>. DEFINE rows == [r \in Rules |-> IF r \in R THEN Painted(e.rows[r], e.alarms[r]) ELSE e.rows[r]]
            f == OnNewAlarm(e, R)
<1>1. rows \in [Rules -> RowRecord]
  BY PaintedIs DEF Table
<1>2. f = [e EXCEPT !.rows = rows]
  BY DEF OnNewAlarm
<1>. HIDE DEF f, rows
<1>3. f \in Table /\ f.rows = rows /\ f.catched = e.catched /\ f.alarms = e.alarms
      /\ f.queue = e.queue /\ f.conds = e.conds
  BY <1>1, <1>2 DEF Table
<1>. QED BY <1>3 DEF f, rows

LEMMA MatchCounts ==
  ASSUME NEW e \in Table, NEW C \in SUBSET Conds
  PROVE  LET f == Match(e, C)
         IN  /\ f \in Table
             /\ f.alarms = e.alarms /\ f.queue = e.queue /\ f.rows = e.rows
             /\ \A c \in C :
                  /\ f.catched[c] = e.catched[c] + 1
                  /\ f.conds[c] = [count |-> f.catched[c],
                                   blue |-> e.conds[c].blue \/ f.catched[c] = 1]
             /\ \A c \in Conds \ C : f.catched[c] = e.catched[c] /\ f.conds[c] = e.conds[c]
<1>. DEFINE catched1 == [c \in Conds |-> IF c \in C THEN e.catched[c] + 1 ELSE e.catched[c]]
            g == [e EXCEPT !.catched = catched1]
            conds1 == [c \in Conds |->
                         IF c \in C THEN [count |-> g.catched[c],
                                         blue |-> g.conds[c].blue \/ g.catched[c] = 1]
                         ELSE g.conds[c]]
            f == Match(e, C)
<1>1. catched1 \in [Conds -> Nat]
  BY DEF Table
<1>. HIDE DEF catched1
<1>2. g \in Table /\ g.catched = catched1 /\ g.alarms = e.alarms /\ g.queue = e.queue
      /\ g.rows = e.rows /\ g.conds = e.conds
  BY <1>1 DEF Table
<1>3. f = [g EXCEPT !.conds = conds1]
  BY DEF Match, OnConditionMatch, catched1
<1>. HIDE DEF g, f
<1>4. conds1 \in [Conds -> CondRecord]
  <2>. SUFFICES ASSUME NEW c \in Conds PROVE conds1[c] \in CondRecord
    OBVIOUS
  <2>1. g.catched[c] \in Nat /\ g.conds[c] \in CondRecord
    BY <1>2 DEF Table
  <2>2. (g.conds[c].blue \/ g.catched[c] = 1) \in BOOLEAN
    OBVIOUS
  <2>. QED BY <2>1, <2>2 DEF CondRecord
<1>. HIDE DEF conds1
<1>5. f \in Table /\ f.conds = conds1 /\ f.catched = g.catched /\ f.alarms = g.alarms
      /\ f.queue = g.queue /\ f.rows = g.rows
  BY <1>2, <1>3, <1>4 DEF Table
<1>. QED BY <1>2, <1>5 DEF f, conds1, catched1

LEMMA CountedCounts ==
  ASSUME NEW e \in Table, NEW R \in SUBSET Rules, \A r \in R : e.alarms[r] < MaxAlarms
  PROVE  LET f == Counted(e, R)
         IN  /\ f \in Table
             /\ f.catched = e.catched /\ f.queue = e.queue
             /\ f.rows = e.rows /\ f.conds = e.conds
             /\ f.alarms = [r \in Rules |-> IF r \in R THEN e.alarms[r] + 1 ELSE e.alarms[r]]
<1>. DEFINE alarms1 == [r \in Rules |-> IF r \in R THEN e.alarms[r] + 1 ELSE e.alarms[r]]
            f == Counted(e, R)
<1>1. alarms1 \in [Rules -> 0 .. MaxAlarms]
  BY AnalyzerAssumption DEF Table
<1>2. f = [e EXCEPT !.alarms = alarms1]
  BY DEF Counted
<1>. HIDE DEF f, alarms1
<1>3. f \in Table /\ f.alarms = alarms1 /\ f.catched = e.catched
      /\ f.queue = e.queue /\ f.rows = e.rows /\ f.conds = e.conds
  BY <1>1, <1>2 DEF Table
<1>. QED BY <1>3 DEF f, alarms1

LEMMA EngineResetsZero ==
  ASSUME NEW e \in Table, NEW R \in SUBSET Rules
  PROVE  LET f == EngineResets(e, R)
         IN  /\ f \in Table
             /\ f.queue = e.queue /\ f.rows = e.rows /\ f.conds = e.conds
             /\ f.catched = [c \in Conds |-> IF c \in CondsOfAll(R) THEN 0 ELSE e.catched[c]]
             /\ f.alarms = [r \in Rules |-> IF r \in R THEN 0 ELSE e.alarms[r]]
<1>. DEFINE alarms1 == [r \in Rules |-> IF r \in R THEN 0 ELSE e.alarms[r]]
            catched1 == [c \in Conds |-> IF c \in CondsOfAll(R) THEN 0 ELSE e.catched[c]]
            f == EngineResets(e, R)
<1>1. alarms1 \in [Rules -> 0 .. MaxAlarms] /\ catched1 \in [Conds -> Nat]
  BY AnalyzerAssumption DEF Table
<1>2. f = [e EXCEPT !.catched = catched1, !.alarms = alarms1]
  BY DEF EngineResets
<1>. HIDE DEF f, alarms1, catched1
<1>3. f \in Table /\ f.alarms = alarms1 /\ f.catched = catched1
      /\ f.queue = e.queue /\ f.rows = e.rows /\ f.conds = e.conds
  BY <1>1, <1>2 DEF Table
<1>. QED BY <1>3 DEF f, alarms1, catched1

LEMMA StateIsTable ==
  ASSUME TablesTyped
  PROVE  /\ State \in Table
         /\ State.catched = catched /\ State.alarms = alarms /\ State.queue = queue
         /\ State.rows = ruleRow /\ State.conds = condRow
BY DEF State, Table, TablesTyped

LEMMA AppendQueues ==
  ASSUME NEW q \in Seq(Rules), NEW r \in Rules
  PROVE  /\ Append(q, r) \in Seq(Rules) /\ Len(Append(q, r)) = Len(q) + 1
         /\ Range(Append(q, r)) = Range(q) \cup {r}
<1>1. \A i \in 1 .. Len(q) : Append(q, r)[i] = q[i]
  OBVIOUS
<1>2. Append(q, r)[Len(q) + 1] = r /\ Len(Append(q, r)) = Len(q) + 1
  OBVIOUS
<1>3. DOMAIN Append(q, r) = 1 .. Len(q) + 1 /\ DOMAIN q = 1 .. Len(q) /\ Len(q) \in Nat
  OBVIOUS
<1>. QED BY <1>1, <1>2, <1>3 DEF Range

LEMMA TailServes ==
  ASSUME NEW q \in Seq(Rules), q # <<>>
  PROVE  /\ Head(q) \in Rules /\ Tail(q) \in Seq(Rules) /\ Len(Tail(q)) <= Len(q)
         /\ Range(q) = Range(Tail(q)) \cup {Head(q)}
<1>1. Len(q) \in Nat \ {0} /\ Len(Tail(q)) = Len(q) - 1 /\ Head(q) = q[1]
  OBVIOUS
<1>2. \A i \in 1 .. Len(q) - 1 : Tail(q)[i] = q[i + 1]
  OBVIOUS
<1>3. DOMAIN q = 1 .. Len(q) /\ DOMAIN Tail(q) = 1 .. Len(q) - 1
  BY <1>1
<1>4. \A i \in 1 .. Len(q) : i = 1 \/ (i - 1 \in 1 .. Len(q) - 1 /\ Tail(q)[i - 1] = q[i])
  BY <1>1, <1>2
<1>5. Range(q) \subseteq Range(Tail(q)) \cup {Head(q)}
  BY <1>1, <1>3, <1>4 DEF Range
<1>6. Range(Tail(q)) \cup {Head(q)} \subseteq Range(q)
  BY <1>1, <1>2, <1>3 DEF Range
<1>. QED BY <1>1, <1>5, <1>6

-----------------------------------------------------------------------------
(* What each action leaves, row by row.                                    *)

LEMMA ReceiveKeepsTables ==
  ASSUME TablesTrue, NEW m \in Messages, Receive(m)
  PROVE  TablesTrue'
<1>1. PICK raised \in SUBSET {r \in enabled : alarms[r] < MaxAlarms} :
        Becomes(RaiseInGui(Match(State, m.fits), raised))
  BY DEF Receive
<1>. DEFINE again == Again(raised)
            e1 == Match(State, m.fits)
            e2 == Counted(e1, raised)
            e3 == OnNewAlarm(e2, raised)
            e4 == EngineResets(e3, again)
            e5 == OnNewAlarm(e4, again)
<1>2. raised \subseteq Rules /\ again \subseteq raised /\ m.fits \subseteq Conds
  BY AnalyzerAssumption DEF Again, TablesTrue, TablesTyped
<1>3. /\ State \in Table
      /\ State.catched = catched /\ State.alarms = alarms /\ State.queue = queue
      /\ State.rows = ruleRow /\ State.conds = condRow
  BY StateIsTable DEF TablesTrue
<1>4. /\ e1 \in Table
      /\ e1.alarms = alarms /\ e1.queue = queue /\ e1.rows = ruleRow
      /\ \A c \in m.fits : /\ e1.catched[c] = catched[c] + 1
                           /\ e1.conds[c] = [count |-> e1.catched[c],
                                   blue |-> condRow[c].blue \/ e1.catched[c] = 1]
      /\ \A c \in Conds \ m.fits : e1.catched[c] = catched[c] /\ e1.conds[c] = condRow[c]
  BY <1>2, <1>3, MatchCounts
<1>. HIDE DEF e1
<1>5. /\ e2 \in Table
      /\ e2.catched = e1.catched /\ e2.queue = queue /\ e2.rows = ruleRow /\ e2.conds = e1.conds
      /\ e2.alarms = [r \in Rules |-> IF r \in raised THEN alarms[r] + 1 ELSE alarms[r]]
  BY <1>1, <1>2, <1>4, CountedCounts
<1>. HIDE DEF e2
<1>6. /\ e3 \in Table
      /\ e3.catched = e1.catched /\ e3.alarms = e2.alarms
      /\ e3.queue = queue /\ e3.conds = e1.conds
      /\ \A r \in raised : e3.rows[r] = Painted(ruleRow[r], e2.alarms[r])
      /\ \A r \in Rules \ raised : e3.rows[r] = ruleRow[r]
  BY <1>2, <1>5, NewAlarmShows
<1>. HIDE DEF e3
<1>7. /\ e4 \in Table
      /\ e4.queue = queue /\ e4.rows = e3.rows /\ e4.conds = e1.conds
      /\ e4.catched = [c \in Conds |-> IF c \in CondsOfAll(again) THEN 0 ELSE e1.catched[c]]
      /\ e4.alarms = [r \in Rules |-> IF r \in again THEN 0 ELSE e2.alarms[r]]
  BY <1>2, <1>6, EngineResetsZero
<1>. HIDE DEF e4
<1>8. /\ e5 \in Table
      /\ e5.catched = e4.catched /\ e5.alarms = e4.alarms
      /\ e5.queue = queue /\ e5.conds = e1.conds
      /\ \A r \in again : e5.rows[r] = Painted(e3.rows[r], e4.alarms[r])
      /\ \A r \in Rules \ again : e5.rows[r] = e3.rows[r]
  BY <1>2, <1>7, NewAlarmShows
<1>9. Becomes(e5)
  BY <1>1 DEF RaiseInGui, e1, e2, e3, e4
<1>. HIDE DEF e5
<1>10. /\ catched' = e4.catched /\ alarms' = e4.alarms /\ queue' = queue
       /\ ruleRow' = e5.rows /\ condRow' = e1.conds /\ enabled' = enabled
  BY <1>8, <1>9 DEF Becomes, Receive
<1>11. \A r \in raised :
         /\ ruleRow'[r].status = alarms'[r] /\ ruleRow'[r].red
         /\ ruleRow'[r].grey = ruleRow[r].grey
         /\ ruleRow'[r].red = (ruleRow'[r].button # "none")
  <2>. SUFFICES ASSUME NEW r \in raised
                PROVE  IsPainted(e5.rows[r], e4.alarms[r], ruleRow[r].grey)
    BY <1>10, PaintedRow
  <2>1. ruleRow[r] \in RowRecord /\ e2.alarms[r] \in 0 .. MaxAlarms
        /\ e3.rows[r] \in RowRecord /\ e4.alarms[r] \in 0 .. MaxAlarms
    BY <1>2, <1>5, <1>6, <1>7 DEF Table, TablesTrue, TablesTyped
  <2>2. e3.rows[r] = [status |-> e2.alarms[r], red |-> TRUE, grey |-> ruleRow[r].grey,
                      button |-> "on"]
    BY <1>6, <2>1, PaintedIs
  <2>3. CASE r \in again
    <3>1. e5.rows[r] = [status |-> e4.alarms[r], red |-> TRUE, grey |-> e3.rows[r].grey,
                        button |-> "on"]
      BY <1>8, <2>1, <2>3, PaintedIs
    <3>. QED BY <2>2, <3>1 DEF IsPainted
  <2>4. CASE r \notin again
    BY <1>2, <1>7, <1>8, <2>2, <2>4 DEF IsPainted
  <2>. QED BY <2>3, <2>4
<1>12. \A r \in Rules \ raised : ruleRow'[r] = ruleRow[r] /\ alarms'[r] = alarms[r]
  BY <1>2, <1>5, <1>6, <1>7, <1>8, <1>10
<1>13. TablesTyped'
  <2>1. /\ catched' \in [Conds -> Nat] /\ alarms' \in [Rules -> 0 .. MaxAlarms]
        /\ ruleRow' \in [Rules -> RowRecord] /\ condRow' \in [Conds -> CondRecord]
    BY <1>4, <1>7, <1>8, <1>10 DEF Table
  <2>2. RowsAgree'
    <3>. SUFFICES ASSUME NEW r \in Rules
                  PROVE  /\ ruleRow'[r].red = (ruleRow'[r].button # "none")
                         /\ ruleRow'[r].grey = (r \notin enabled')
      BY DEF RowsAgree
    <3>1. /\ ruleRow[r].red = (ruleRow[r].button # "none")
          /\ ruleRow[r].grey = (r \notin enabled')
      BY <1>10 DEF TablesTrue, TablesTyped, RowsAgree
    <3>2. CASE r \in raised
      BY <1>11, <3>1, <3>2
    <3>3. CASE r \notin raised
      BY <1>12, <3>1, <3>3
    <3>. QED BY <3>2, <3>3
  <2>. QED BY <1>10, <2>1, <2>2 DEF TablesTrue, TablesTyped
<1>14. AlarmsAreShown'
  <2>. SUFFICES ASSUME NEW r \in Rules, alarms'[r] > 0, ~Queued(r)'
                PROVE  ruleRow'[r].red
    BY DEF AlarmsAreShown
  <2>1. CASE r \in raised
    BY <1>11, <2>1
  <2>2. CASE r \notin raised
    <3>1. ruleRow'[r] = ruleRow[r] /\ alarms'[r] = alarms[r] /\ ~Queued(r)
      BY <1>10, <1>12, <2>2 DEF Queued
    <3>. QED BY <3>1 DEF TablesTrue, AlarmsAreShown
  <2>. QED BY <2>1, <2>2
<1>16. StatusIsTrue'
  BY <1>2, <1>10, <1>11, <1>12 DEF TablesTrue, StatusIsTrue, Queued
<1>15. CondsAreShown'
  <2>. SUFFICES ASSUME NEW c \in Conds, e4.catched[c] > 0
                PROVE  e1.conds[c] = [count |-> e4.catched[c], blue |-> TRUE]
    BY <1>10 DEF CondsAreShown
  <2>1. e4.catched[c] = e1.catched[c] /\ catched[c] \in Nat
    BY <1>7 DEF TablesTrue, TablesTyped
  <2>2. CASE c \in m.fits
    <3>1. (condRow[c].blue \/ e1.catched[c] = 1) = TRUE
      <4>1. CASE catched[c] > 0
        <5>1. condRow[c] = [count |-> catched[c], blue |-> TRUE]
          BY <4>1 DEF TablesTrue, CondsAreShown
        <5>2. condRow[c].blue = TRUE
          BY <5>1
        <5>. QED BY <5>2
      <4>2. CASE catched[c] = 0
        <5>1. e1.catched[c] = catched[c] + 1
          BY <1>4, <2>2
        <5>2. e1.catched[c] = 1
          BY <4>2, <5>1
        <5>. QED BY <5>2
      <4>3. catched[c] > 0 \/ catched[c] = 0
        BY <2>1
      <4>. QED BY <4>1, <4>2, <4>3
    <3>2. e1.conds[c] = [count |-> e1.catched[c], blue |-> condRow[c].blue \/ e1.catched[c] = 1]
      BY <1>4, <2>2
    <3>. QED BY <2>1, <3>1, <3>2
  <2>3. CASE c \notin m.fits
    BY <1>4, <2>1, <2>3 DEF TablesTrue, CondsAreShown
  <2>. QED BY <2>2, <2>3
<1>. QED BY <1>13, <1>14, <1>15, <1>16 DEF TablesTrue

LEMMA WorkerAlarmKeepsTables ==
  ASSUME TablesTrue, NEW r \in Rules, WorkerAlarm(r)
  PROVE  TablesTrue'
<1>. DEFINE again == Again({r})
            e1 == Counted(State, {r})
            e2 == EngineResets(e1, again)
            q == IF again = {} THEN Append(queue, r) ELSE queue \o <<r, r>>
            e3 == [e2 EXCEPT !.queue = q]
<1>1. again \subseteq {r} /\ {r} \in SUBSET Rules /\ again \in SUBSET Rules
  BY DEF Again
<1>2. /\ State \in Table
      /\ State.catched = catched /\ State.alarms = alarms /\ State.queue = queue
      /\ State.rows = ruleRow /\ State.conds = condRow
  BY StateIsTable DEF TablesTrue
<1>3. /\ e1 \in Table
      /\ e1.catched = catched /\ e1.queue = queue /\ e1.rows = ruleRow /\ e1.conds = condRow
      /\ e1.alarms = [s \in Rules |-> IF s \in {r} THEN alarms[s] + 1 ELSE alarms[s]]
  BY <1>1, <1>2, CountedCounts DEF WorkerAlarm
<1>. HIDE DEF e1
<1>4. /\ e2 \in Table
      /\ e2.queue = queue /\ e2.rows = ruleRow /\ e2.conds = condRow
      /\ e2.catched = [c \in Conds |-> IF c \in CondsOfAll(again) THEN 0 ELSE catched[c]]
      /\ e2.alarms = [s \in Rules |-> IF s \in again THEN 0 ELSE e1.alarms[s]]
  <2>. HIDE DEF again
  <2>. QED BY <1>1, <1>3, EngineResetsZero
<1>5. Becomes(e3) /\ enabled' = enabled
  <2>1. e2.queue = queue
    BY <1>4
  <2>2. RaiseInWorker(State, r) = [e2 EXCEPT !.queue =
          IF again = {} THEN Append(e2.queue, r) ELSE e2.queue \o <<r, r>>]
    BY DEF RaiseInWorker, e1
  <2>. HIDE DEF e2
  <2>3. RaiseInWorker(State, r) = e3
    BY <2>1, <2>2
  <2>. QED BY <2>3 DEF WorkerAlarm
<1>6. q \in Seq(Rules) /\ Len(q) <= MaxQueued + 1 /\ Range(q) = Range(queue) \cup {r}
  <2>1. queue \in Seq(Rules) /\ Len(queue) < MaxQueued /\ Len(queue) \in Nat /\ MaxQueued \in Nat
    BY AnalyzerAssumption DEF TablesTrue, TablesTyped, WorkerAlarm
  <2>. DEFINE p == Append(queue, r)
  <2>2. p \in Seq(Rules) /\ Len(p) = Len(queue) + 1 /\ Range(p) = Range(queue) \cup {r}
    BY <2>1, AppendQueues
  <2>. HIDE DEF p
  <2>3. /\ Append(p, r) \in Seq(Rules) /\ Len(Append(p, r)) = Len(p) + 1
        /\ Range(Append(p, r)) = Range(queue) \cup {r}
    BY <2>2, AppendQueues
  <2>4. queue \o <<r, r>> = Append(p, r)
    BY <2>1 DEF p
  <2>5. q = p \/ q = Append(p, r)
    BY <2>4 DEF p
  <2>. HIDE DEF q
  <2>6. CASE q = p
    BY <2>1, <2>2, <2>6
  <2>7. CASE q = Append(p, r)
    BY <2>1, <2>2, <2>3, <2>7
  <2>. QED BY <2>5, <2>6, <2>7
<1>. HIDE DEF q, e2
<1>7. /\ catched' = e2.catched /\ alarms' = e2.alarms /\ queue' = q
      /\ ruleRow' = ruleRow /\ condRow' = condRow /\ enabled' = enabled
  BY <1>4, <1>5 DEF Becomes, Table
<1>8. TablesTyped'
  BY <1>4, <1>6, <1>7 DEF TablesTrue, TablesTyped, Table, RowsAgree
<1>9. AlarmsAreShown' /\ StatusIsTrue' /\ CondsAreShown'
  <2>1. \A s \in Rules \ {r} : alarms'[s] = alarms[s]
    BY <1>1, <1>3, <1>4, <1>7
  <2>2. \A s \in Rules : Queued(s)' <=> (Queued(s) \/ s = r)
    BY <1>6, <1>7 DEF Queued
  <2>3. AlarmsAreShown'
    BY <1>7, <2>1, <2>2 DEF AlarmsAreShown, TablesTrue
  <2>4. StatusIsTrue'
    BY <1>7, <2>1, <2>2 DEF StatusIsTrue, TablesTrue
  <2>5. \A c \in Conds : catched'[c] > 0 => catched'[c] = catched[c]
    BY <1>4, <1>7
  <2>6. CondsAreShown'
    BY <1>7, <2>5 DEF CondsAreShown, TablesTrue
  <2>. QED BY <2>3, <2>4, <2>6
<1>. QED BY <1>8, <1>9 DEF TablesTrue

LEMMA ServeAlarmKeepsTables ==
  ASSUME TablesTrue, ServeAlarm
  PROVE  TablesTrue'
<1>. DEFINE r == Head(queue)
            e0 == [State EXCEPT !.queue = Tail(queue)]
            e1 == OnNewAlarm(e0, {r})
<1>1. /\ queue # <<>> /\ r \in Rules /\ Tail(queue) \in Seq(Rules)
      /\ Len(Tail(queue)) <= Len(queue)
      /\ Range(queue) = Range(Tail(queue)) \cup {r}
  BY TailServes DEF ServeAlarm, TablesTrue, TablesTyped
<1>2. /\ State \in Table
      /\ State.catched = catched /\ State.alarms = alarms /\ State.queue = queue
      /\ State.rows = ruleRow /\ State.conds = condRow
  BY StateIsTable DEF TablesTrue
<1>3. Becomes(e1) /\ enabled' = enabled
  BY <1>2 DEF ServeAlarm
<1>4. /\ e0 \in Table
      /\ e0.catched = catched /\ e0.alarms = alarms /\ e0.queue = Tail(queue)
      /\ e0.rows = ruleRow /\ e0.conds = condRow
  <2>. DEFINE st == State
              t == Tail(queue)
  <2>1. st \in Table /\ t \in Seq(Rules)
    BY <1>1, <1>2
  <2>2. /\ st.catched = catched /\ st.alarms = alarms
        /\ st.rows = ruleRow /\ st.conds = condRow
    BY <1>2
  <2>. HIDE DEF st, t
  <2>3. /\ [st EXCEPT !.queue = t] \in Table
        /\ [st EXCEPT !.queue = t].catched = st.catched
        /\ [st EXCEPT !.queue = t].alarms = st.alarms
        /\ [st EXCEPT !.queue = t].queue = t
        /\ [st EXCEPT !.queue = t].rows = st.rows
        /\ [st EXCEPT !.queue = t].conds = st.conds
    BY <2>1 DEF Table
  <2>. QED BY <2>2, <2>3 DEF st, t
<1>. HIDE DEF e0, r
<1>5. /\ e1 \in Table
      /\ e1.catched = catched /\ e1.alarms = alarms
      /\ e1.queue = Tail(queue) /\ e1.conds = condRow
      /\ e1.rows[r] = Painted(ruleRow[r], alarms[r])
      /\ \A s \in Rules \ {r} : e1.rows[s] = ruleRow[s]
  <2>1. {r} \in SUBSET Rules
    BY <1>1
  <2>. QED BY <1>4, <2>1, NewAlarmShows
<1>. HIDE DEF e1
<1>6. /\ catched' = catched /\ alarms' = alarms /\ queue' = Tail(queue)
      /\ ruleRow' = e1.rows /\ condRow' = condRow
  BY <1>3, <1>5 DEF Becomes
<1>7. /\ ruleRow'[r].status = alarms'[r] /\ ruleRow'[r].red
      /\ ruleRow'[r].grey = ruleRow[r].grey
      /\ ruleRow'[r].red = (ruleRow'[r].button # "none")
  <2>1. IsPainted(e1.rows[r], alarms[r], ruleRow[r].grey)
    BY <1>5 DEF Painted, IsPainted
  <2>. QED BY <1>6, <2>1, PaintedRow
<1>8. TablesTyped'
  <2>1. /\ ruleRow' \in [Rules -> RowRecord] /\ queue' \in Seq(Rules)
        /\ Len(queue') <= MaxQueued + 1
    <3>1. Len(queue) \in Nat /\ Len(Tail(queue)) \in Nat
      BY <1>1 DEF TablesTrue, TablesTyped
    <3>. QED BY <1>1, <1>5, <1>6, <3>1, AnalyzerAssumption DEF Table, TablesTrue, TablesTyped
  <2>2. RowsAgree'
    <3>. SUFFICES ASSUME NEW s \in Rules
                  PROVE  /\ ruleRow'[s].red = (ruleRow'[s].button # "none")
                         /\ ruleRow'[s].grey = (s \notin enabled')
      BY DEF RowsAgree
    <3>1. /\ ruleRow[s].red = (ruleRow[s].button # "none")
          /\ ruleRow[s].grey = (s \notin enabled')
      BY <1>3 DEF TablesTrue, TablesTyped, RowsAgree
    <3>2. CASE s = r
      BY <1>7, <3>1, <3>2
    <3>3. CASE s # r
      BY <1>5, <1>6, <3>1, <3>3
    <3>. QED BY <3>2, <3>3
  <2>. QED BY <1>3, <1>6, <2>1, <2>2 DEF TablesTrue, TablesTyped
<1>9. AlarmsAreShown' /\ StatusIsTrue' /\ CondsAreShown'
  <2>1. \A s \in Rules \ {r} : ruleRow'[s] = ruleRow[s] /\ (Queued(s)' <=> Queued(s))
    BY <1>1, <1>5, <1>6 DEF Queued
  <2>2. AlarmsAreShown'
    <3>. SUFFICES ASSUME NEW s \in Rules, alarms'[s] > 0, ~Queued(s)'
                  PROVE  ruleRow'[s].red
      BY DEF AlarmsAreShown
    <3>1. CASE s = r
      BY <1>7, <3>1
    <3>2. CASE s # r
      BY <1>6, <2>1, <3>2 DEF TablesTrue, AlarmsAreShown
    <3>. QED BY <3>1, <3>2
  <2>3. StatusIsTrue'
    BY <1>1, <1>3, <1>6, <1>7, <2>1 DEF TablesTrue, StatusIsTrue
  <2>4. CondsAreShown'
    BY <1>6 DEF TablesTrue, CondsAreShown
  <2>. QED BY <2>2, <2>3, <2>4
<1>. QED BY <1>8, <1>9 DEF TablesTrue

LEMMA ResetRulesKeepsTables ==
  ASSUME TablesTrue, NEW R \in SUBSET Rules, Becomes(ResetRules(State, R)), enabled' = enabled
  PROVE  TablesTrue'
<1>. DEFINE e1 == EngineResets(State, R)
            rows1 == [r \in Rules |-> IF r \in R THEN Cleared(ruleRow[r]) ELSE ruleRow[r]]
            conds1 == [c \in Conds |-> IF c \in CondsOfAll(R) THEN WhiteCond ELSE condRow[c]]
            e2 == [e1 EXCEPT !.rows = rows1, !.conds = conds1]
<1>1. /\ e1 \in Table
      /\ e1.queue = queue /\ e1.rows = ruleRow /\ e1.conds = condRow
      /\ e1.catched = [c \in Conds |-> IF c \in CondsOfAll(R) THEN 0 ELSE catched[c]]
      /\ e1.alarms = [r \in Rules |-> IF r \in R THEN 0 ELSE alarms[r]]
  BY StateIsTable, EngineResetsZero DEF TablesTrue
<1>2. rows1 \in [Rules -> RowRecord] /\ conds1 \in [Conds -> CondRecord]
  BY DEF TablesTrue, TablesTyped, RowRecord, CondRecord, Cleared, WhiteRule, WhiteCond
<1>3. Becomes(e2)
  <2>1. ResetRules(State, R) =
          [e1 EXCEPT !.rows = [r \in Rules |-> IF r \in R THEN Cleared(e1.rows[r]) ELSE e1.rows[r]],
                     !.conds = [c \in Conds |->
                                  IF c \in CondsOfAll(R) THEN WhiteCond ELSE e1.conds[c]]]
    BY DEF ResetRules
  <2>. HIDE DEF e1
  <2>2. ResetRules(State, R) = e2
    BY <1>1, <2>1
  <2>. QED BY <2>2
<1>. HIDE DEF e1, rows1, conds1
<1>4. /\ e2.catched = e1.catched /\ e2.alarms = e1.alarms /\ e2.queue = queue
      /\ e2.rows = rows1 /\ e2.conds = conds1
  BY <1>1 DEF Table
<1>. HIDE DEF e2
<1>5. /\ catched' = e1.catched /\ alarms' = e1.alarms /\ queue' = queue
      /\ ruleRow' = rows1 /\ condRow' = conds1
  BY <1>3, <1>4 DEF Becomes
<1>6. TablesTyped'
  <2>1. RowsAgree'
    BY <1>5 DEF rows1, Cleared, WhiteRule, RowsAgree, TablesTrue, TablesTyped
  <2>. QED BY <1>1, <1>2, <1>5, <2>1 DEF TablesTrue, TablesTyped, Table
<1>7. AlarmsAreShown'
  BY <1>1, <1>5 DEF rows1, TablesTrue, AlarmsAreShown, Queued
<1>8. StatusIsTrue'
  BY <1>1, <1>5 DEF rows1, Cleared, WhiteRule, TablesTrue, StatusIsTrue, Queued
<1>9. CondsAreShown'
  BY <1>1, <1>5 DEF conds1, TablesTrue, CondsAreShown
<1>. QED BY <1>6, <1>7, <1>8, <1>9 DEF TablesTrue

LEMMA EnablingKeepsTables ==
  ASSUME TablesTrue, NEW checked \in SUBSET Rules, RuleEnable(checked) \/ RuleDisable(checked)
  PROVE  TablesTrue'
<1>1. UNCHANGED <<catched, alarms, queue, condRow>>
  BY DEF RuleEnable, RuleDisable
<1>2. CASE RuleEnable(checked)
  <2>1. /\ enabled' = enabled \cup checked
        /\ ruleRow' = [r \in Rules |->
              IF r \in checked THEN EnabledRow(ruleRow[r], alarms[r]) ELSE ruleRow[r]]
    BY <1>2 DEF RuleEnable
  <2>2. \A r \in checked :
          /\ EnabledRow(ruleRow[r], alarms[r]) \in RowRecord
          /\ EnabledRow(ruleRow[r], alarms[r]).grey = FALSE
          /\ EnabledRow(ruleRow[r], alarms[r]).red = ruleRow[r].red
          /\ EnabledRow(ruleRow[r], alarms[r]).button # "none" <=> ruleRow[r].button # "none"
          /\ EnabledRow(ruleRow[r], alarms[r]).status = IF alarms[r] = 0 THEN Empty ELSE alarms[r]
    BY DEF EnabledRow, RowRecord, TablesTrue, TablesTyped
  <2>3. TablesTyped'
    <3>1. RowsAgree'
      BY <2>1, <2>2 DEF TablesTrue, TablesTyped, RowsAgree
    <3>. QED BY <1>1, <2>1, <2>2, <3>1 DEF TablesTrue, TablesTyped
  <2>4. AlarmsAreShown' /\ CondsAreShown'
    BY <1>1, <2>1, <2>2 DEF TablesTrue, AlarmsAreShown, CondsAreShown, Queued
  <2>5. StatusIsTrue'
    BY <1>1, <2>1, <2>2 DEF TablesTrue, StatusIsTrue, Queued
  <2>. QED BY <2>3, <2>4, <2>5 DEF TablesTrue
<1>3. CASE RuleDisable(checked)
  <2>1. /\ enabled' = enabled \ checked
        /\ ruleRow' = [r \in Rules |->
              IF r \in checked THEN DisabledRow(ruleRow[r]) ELSE ruleRow[r]]
    BY <1>3 DEF RuleDisable
  <2>2. \A r \in checked :
          /\ DisabledRow(ruleRow[r]) \in RowRecord
          /\ DisabledRow(ruleRow[r]).grey = TRUE
          /\ DisabledRow(ruleRow[r]).red = ruleRow[r].red
          /\ DisabledRow(ruleRow[r]).button # "none" <=> ruleRow[r].button # "none"
    BY DEF DisabledRow, RowRecord, TablesTrue, TablesTyped
  <2>3. TablesTyped'
    <3>1. RowsAgree'
      BY <2>1, <2>2 DEF TablesTrue, TablesTyped, RowsAgree
    <3>. QED BY <1>1, <2>1, <2>2, <3>1 DEF TablesTrue, TablesTyped
  <2>4. AlarmsAreShown' /\ CondsAreShown'
    BY <1>1, <2>1, <2>2 DEF TablesTrue, AlarmsAreShown, CondsAreShown, Queued
  <2>5. StatusIsTrue'
    BY <1>1, <2>1, <2>2 DEF TablesTrue, StatusIsTrue, Queued
  <2>. QED BY <2>3, <2>4, <2>5 DEF TablesTrue
<1>. QED BY <1>2, <1>3

LEMMA ResetAllKeepsTables ==
  ASSUME TablesTrue, ResetAll
  PROVE  TablesTrue'
<1>1. /\ ruleRow' = [r \in Rules |-> Cleared(ruleRow[r])]
      /\ condRow' = [c \in Conds |-> WhiteCond]
      /\ catched' = [c \in Conds |-> 0] /\ alarms' = [r \in Rules |-> 0]
      /\ UNCHANGED <<enabled, queue>>
  BY DEF ResetAll
<1>2. \A r \in Rules :
        /\ Cleared(ruleRow[r]) \in RowRecord
        /\ Cleared(ruleRow[r]).status = Empty
        /\ Cleared(ruleRow[r]).red = (Cleared(ruleRow[r]).button # "none")
        /\ Cleared(ruleRow[r]).grey = ruleRow[r].grey
  BY DEF Cleared, WhiteRule, RowRecord, TablesTrue, TablesTyped
<1>3. TablesTyped'
  <2>1. RowsAgree'
    BY <1>1, <1>2 DEF RowsAgree, TablesTrue, TablesTyped
  <2>. QED BY <1>1, <1>2, <2>1, AnalyzerAssumption
       DEF TablesTrue, TablesTyped, WhiteCond, CondRecord
<1>4. AlarmsAreShown' /\ StatusIsTrue' /\ CondsAreShown'
  BY <1>1, <1>2 DEF AlarmsAreShown, StatusIsTrue, CondsAreShown
<1>. QED BY <1>3, <1>4 DEF TablesTrue

LEMMA InitTablesTrue == Init => TablesTrue
<1>. SUFFICES ASSUME Init PROVE TablesTrue
  OBVIOUS
<1>1. /\ catched = [c \in Conds |-> 0] /\ alarms = [r \in Rules |-> 0]
      /\ enabled = Rules /\ queue = <<>>
      /\ ruleRow = [r \in Rules |-> WhiteRule] /\ condRow = [c \in Conds |-> WhiteCond]
  BY DEF Init
<1>2. WhiteRule \in RowRecord /\ WhiteCond \in CondRecord
  BY DEF WhiteRule, WhiteCond, RowRecord, CondRecord
<1>3. RowsAgree
  BY <1>1 DEF RowsAgree, WhiteRule
<1>4. queue \in Seq(Rules) /\ Len(queue) <= MaxQueued + 1
  BY <1>1, AnalyzerAssumption
<1>5. AlarmsAreShown /\ CondsAreShown
  BY <1>1 DEF AlarmsAreShown, CondsAreShown
<1>6. StatusIsTrue
  BY <1>1 DEF StatusIsTrue, WhiteRule
<1>. QED BY <1>1, <1>2, <1>3, <1>4, <1>5, <1>6, AnalyzerAssumption DEF TablesTrue, TablesTyped

LEMMA NextTablesTrue == TablesTrue /\ [Next]_vars => TablesTrue'
<1>. SUFFICES ASSUME TablesTrue, [Next]_vars PROVE TablesTrue'
  OBVIOUS
<1>1. CASE Engine \/ ServeAlarm
  BY <1>1, ReceiveKeepsTables, WorkerAlarmKeepsTables, ServeAlarmKeepsTables DEF Engine
<1>2. CASE RulePanel
  <2>1. CASE \E r \in Rules : ClickReset(r)
    <3>1. PICK r \in Rules : Becomes(ResetRules(State, {r})) /\ enabled' = enabled
      BY <2>1 DEF ClickReset
    <3>2. {r} \in SUBSET Rules
      OBVIOUS
    <3>. QED BY <3>1, <3>2, ResetRulesKeepsTables
  <2>2. CASE \E checked \in SUBSET Rules \ {{}} : ResetSelection(checked)
    BY <2>2, ResetRulesKeepsTables DEF ResetSelection
  <2>3. CASE \E checked \in SUBSET Rules \ {{}} : RuleEnable(checked) \/ RuleDisable(checked)
    BY <2>3, EnablingKeepsTables
  <2>. QED BY <1>2, <2>1, <2>2, <2>3 DEF RulePanel
<1>3. CASE Reset
  BY <1>3, ResetAllKeepsTables DEF Reset
<1>4. CASE UNCHANGED <<engineVars, tableVars>>
  BY <1>4 DEF engineVars, tableVars, TablesTrue, TablesTyped, RowsAgree, AlarmsAreShown,
              StatusIsTrue, CondsAreShown, Queued
<1>5. CASE NodePanel \/ AskReset \/ Dismiss \/ UNCHANGED vars
  BY <1>4, <1>5 DEF NodePanel, ShowContextMenu, NodeClicked, Opens, AskReset, Dismiss,
                    MenuReset, MenuWarning, MenuError, MenuDoes, vars
<1>. QED BY <1>1, <1>2, <1>3, <1>5 DEF Next

\* A rule with an alarm is red, or the signal that makes it red is queued, for any rules,
\* conditions and actions, whatever of both threads and of the user comes in between
\* (MsgAnalyzerDlg.cpp:307-332, ma_rule_engine.cpp:188-210).
THEOREM AlarmsAreAlwaysShown == Spec => []AlarmsAreShown
<1>1. TablesTrue => AlarmsAreShown
  BY DEF TablesTrue
<1>. QED BY InitTablesTrue, NextTablesTrue, <1>1, PTL DEF Spec

\* The tables of rules and conditions say what the engine has counted, as soon as the
\* signals about a rule are served (MsgAnalyzerDlg.cpp:307-353, 513-634).
THEOREM TablesAreTrue == Spec => []TablesInv
<1>1. TablesTrue => TablesInv
  BY DEF TablesTrue, TablesInv
<1>. QED BY InitTablesTrue, NextTablesTrue, <1>1, PTL DEF Spec

\* The state is sound, icons and colours included, for any length of the queue, any
\* patterns of applications, rules and messages: the message that gave a node its colour
\* is the last one in its box (NodeInfo.cpp:23-79, MsgAnalyzerDlg.cpp:222-305).
THEOREM NodesTellTheTruth == Spec => []NodesInv
<1>1. PanelInv /\ TablesTrue => NodesInv
  <2>. SUFFICES ASSUME PanelInv, TablesTrue PROVE NodesInv
    OBVIOUS
  <2>1. IconIsTrue /\ ColourIsBacked /\ NodeTypeOK
    BY DEF PanelInv, NodesRight, Right, IconIsTrue, ColourIsBacked, NodeTypeOK, NodeRecord, Severity
  <2>2. TypeOK
    BY <2>1 DEF TypeOK, TablesTrue, TablesTyped, RowsAgree, RowRecord, CondRecord
  <2>. QED BY <2>1, <2>2 DEF NodesInv
<1>. QED BY InitPanelInv, NextPanelInv, InitTablesTrue, NextTablesTrue, <1>1, PTL DEF Spec
=============================================================================
