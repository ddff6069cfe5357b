--------------------------- MODULE MsgAnalyzerDlg ---------------------------
(***************************************************************************)
(* The dialog of the message analyzer (MsgAnalyzerDlg.cpp,                 *)
(* qt_rule_engine.cpp): tables of rules and conditions that are to show    *)
(* the state of the engine.  The engine runs in the GUI thread for a       *)
(* message, when its callbacks reach the tables at once, and in its worker *)
(* thread for silence, when they are queued for the GUI thread.            *)
(*                                                                         *)
(* Of the engine there is what the dialog reads: the messages a condition  *)
(* has caught, the alarms of a rule, and whether it is enabled.  Which     *)
(* rules alarm is up to RuleEngine and RuleDomains; here any may.  Modal   *)
(* dialogs and menus keep the user from the rest, but not messages.        *)
(***************************************************************************)
EXTENDS NodeStatus

CONSTANTS
  Conds,
  CondsOf,      \* CondsOf[r]: rule_cond_names() of each rule
  Acts,         \* the rules whose actions ask for a reset
  EHS,
  MaxAlarms,    \* bound: alarms of a rule since its reset
  MaxQueued     \* bound: signals queued

Rules == DOMAIN CondsOf

ASSUME AnalyzerAssumption ==
  /\ \A r \in Rules : CondsOf[r] \subseteq Conds /\ CondsOf[r] # {}
  /\ \A m \in Messages : m.fits \subseteq Conds
  /\ Acts \subseteq Rules /\ EHS \in BOOLEAN /\ MaxAlarms \in Nat /\ MaxQueued \in Nat

VARIABLES
  catched,    \* catched_messages of each condition
  alarms,     \* alarm_count of each rule
  enabled,    \* the rules that are
  queue,      \* the alarm() signals queued for the GUI thread, by rule
  ruleRow,    \* ruleRow[r]: [status, red, grey, button]
  condRow,    \* condRow[c]: [count, blue]
  modal       \* what keeps the user from the dialog: [what, node]

engineVars == <<catched, alarms, enabled, queue>>
tableVars == <<ruleRow, condRow>>
vars == <<nodeVars, engineVars, tableVars, modal>>

Empty == -1       \* texts in the status column that are not counts
Disabled == -2

WhiteRule == [status |-> Empty, red |-> FALSE, grey |-> FALSE, button |-> "none"]
WhiteCond == [count |-> 0, blue |-> FALSE]
NoModal == [what |-> "none", node |-> "none"]

\* initRuleEngineTable().
Init ==
  /\ NodeInit
  /\ catched = [c \in Conds |-> 0] /\ alarms = [r \in Rules |-> 0]
  /\ enabled = Rules /\ queue = <<>>
  /\ ruleRow = [r \in Rules |-> WhiteRule] /\ condRow = [c \in Conds |-> WhiteCond]
  /\ modal = NoModal

-----------------------------------------------------------------------------
(* The engine's callbacks.  Handlers work on a record of its and the       *)
(* tables' state, for all the rules or conditions that one call of the     *)
(* engine visits: each has a row of its own, so their order is nothing.    *)

State == [catched |-> catched, alarms |-> alarms, queue |-> queue, rows |-> ruleRow,
          conds |-> condRow]

Becomes(e) ==
  /\ catched' = e.catched /\ alarms' = e.alarms /\ queue' = e.queue
  /\ ruleRow' = e.rows /\ condRow' = e.conds

\* A rule in red with its count and a button.
Painted(row, n) == [status |-> n, red |-> TRUE, grey |-> row.grey, button |-> "on"]

\* Mutation: nothing is shown of a rule that is disabled.
OnNewAlarmIfEnabled(e, R) ==
  [e EXCEPT !.rows = [r \in Rules |->
     IF r \in R \cap enabled THEN Painted(@[r], e.alarms[r]) ELSE @[r]]]

\* onNewAlarm(), for each of R: the number of alarms is the one there is by now.
OnNewAlarm(e, R) ==
  [e EXCEPT !.rows = [r \in Rules |->
     IF r \in R THEN Painted(@[r], e.alarms[r]) ELSE @[r]]]

\* onConditionMatch(), for each of C: blue at the first message.
OnConditionMatch(e, C) ==
  [e EXCEPT !.conds = [c \in Conds |->
     IF c \in C THEN [count |-> e.catched[c], blue |-> @[c].blue \/ e.catched[c] = 1] ELSE @[c]]]

Match(e, C) ==
  OnConditionMatch(
    [e EXCEPT !.catched = [c \in Conds |-> IF c \in C THEN @[c] + 1 ELSE @[c]]], C)

CondsOfAll(R) == UNION {CondsOf[r] : r \in R}

\* ma_rule::reset(), for each of R.
EngineResets(e, R) ==
  [e EXCEPT !.catched = [c \in Conds |-> IF c \in CondsOfAll(R) THEN 0 ELSE @[c]],
            !.alarms = [r \in Rules |-> IF r \in R THEN 0 ELSE @[r]]]

\* evaluate_rules(), for the rules R with a new alarm.
Counted(e, R) ==
  [e EXCEPT !.alarms = [r \in Rules |-> IF r \in R THEN @[r] + 1 ELSE @[r]]]

\* Those that their actions reset, which is announced as an alarm too.
Again(R) == IF EHS THEN R \cap Acts ELSE {}

\* new_alarm(): a signal of the GUI thread is served at once ...
RaiseInGui(e, R) ==
  OnNewAlarm(EngineResets(OnNewAlarm(Counted(e, R), R), Again(R)), Again(R))

\* ... and one of another thread is queued.
RaiseInWorker(e, r) ==
  [EngineResets(Counted(e, {r}), Again({r})) EXCEPT
     !.queue = IF Again({r}) = {} THEN Append(@, r) ELSE @ \o <<r, r>>]

\* newMessage(): the node status and then the engine, which tells of every match
\* before it evaluates the rules.
Receive(m) ==
  /\ nmsgs < MaxMsgs
  /\ NewMsg(m)
  /\ \E raised \in SUBSET {r \in enabled : CondsOf[r] \cap m.fits # {} /\ alarms[r] < MaxAlarms} :
       Becomes(RaiseInGui(Match(State, m.fits), raised))
  /\ UNCHANGED <<enabled, modal>>

\* A rule alarms in the worker thread.
WorkerAlarm(r) ==
  /\ r \in enabled /\ \E c \in CondsOf[r] : catched[c] > 0
  /\ alarms[r] < MaxAlarms /\ Len(queue) < MaxQueued
  /\ Becomes(RaiseInWorker(State, r))
  /\ UNCHANGED <<nodeVars, enabled, modal>>

\* The GUI thread serves a queued signal.
ServeAlarm ==
  /\ queue # <<>>
  /\ Becomes(OnNewAlarm([State EXCEPT !.queue = Tail(@)], {Head(queue)}))
  /\ UNCHANGED <<nodeVars, enabled, modal>>

-----------------------------------------------------------------------------
(* The user.                                                               *)

Idle == modal = NoModal

\* Mutation: the status stays as it is.
EnabledRowOnly(row, n) ==
  [row EXCEPT !.grey = FALSE, !.button = IF @ = "off" THEN "on" ELSE @]

EnabledRow(row, n) ==
  [row EXCEPT !.grey = FALSE, !.status = IF n = 0 THEN Empty ELSE n,
              !.button = IF @ = "off" THEN "on" ELSE @]

DisabledRow(row) ==
  [row EXCEPT !.grey = TRUE, !.status = Disabled, !.button = IF @ = "on" THEN "off" ELSE @]

\* rule_enable(), for the rules that are checked, as any may be; it unchecks them.
RuleEnable(checked) ==
  /\ Idle
  /\ enabled' = enabled \cup checked
  /\ ruleRow' = [r \in Rules |->
                   IF r \in checked THEN EnabledRow(ruleRow[r], alarms[r]) ELSE ruleRow[r]]
  /\ UNCHANGED <<nodeVars, catched, alarms, queue, condRow, modal>>

\* rule_disable().
RuleDisable(checked) ==
  /\ Idle
  /\ enabled' = enabled \ checked
  /\ ruleRow' = [r \in Rules |-> IF r \in checked THEN DisabledRow(ruleRow[r]) ELSE ruleRow[r]]
  /\ UNCHANGED <<nodeVars, catched, alarms, queue, condRow, modal>>

\* Paints a rule white, but leaves it grey.
Cleared(row) == [WhiteRule EXCEPT !.grey = row.grey]

\* reset_rule(), for each of R.
ResetRules(e, R) ==
  [EngineResets(e, R) EXCEPT
     !.rows = [r \in Rules |-> IF r \in R THEN Cleared(@[r]) ELSE @[r]],
     !.conds = [c \in Conds |-> IF c \in CondsOfAll(R) THEN WhiteCond ELSE @[c]]]

\* rule_reset_selection().
ResetSelection(checked) ==
  /\ Idle
  /\ Becomes(ResetRules(State, checked))
  /\ UNCHANGED <<nodeVars, enabled, modal>>

\* The button in the rule's row.
ClickReset(r) ==
  /\ Idle /\ ruleRow[r].button = "on"
  /\ Becomes(ResetRules(State, {r}))
  /\ UNCHANGED <<nodeVars, enabled, modal>>

Opens(what, a) ==
  /\ Idle
  /\ modal' = [what |-> what, node |-> a]
  /\ UNCHANGED <<nodeVars, engineVars, tableVars>>

ShowContextMenu(a) == a \in DOMAIN nodes /\ Opens("menu", a)

NodeClicked(a) == a \in DOMAIN nodes /\ Opens("box", a)

AskReset == Opens("question", "none")

\* The node is the one that was there when the menu was opened.
Chosen == nodes[modal.node]

MenuDoes(node) ==
  /\ modal.what = "menu"
  /\ nodes' = [nodes EXCEPT ![modal.node] = node]
  /\ modal' = NoModal
  /\ UNCHANGED <<nmsgs, engineVars, tableVars>>

MenuReset == MenuDoes(ResetNode(Chosen))
MenuWarning == MenuDoes(SetFlags(Chosen, ~Chosen.aow, Chosen.aoe))
MenuError == MenuDoes(SetFlags(Chosen, Chosen.aow, ~Chosen.aoe))

Dismiss ==
  /\ ~Idle
  /\ modal' = NoModal
  /\ UNCHANGED <<nodeVars, engineVars, tableVars>>

\* reset_node_status() and reset_rule_engine().
ResetAll ==
  /\ ForgetNodes
  /\ ruleRow' = [r \in Rules |-> Cleared(ruleRow[r])]
  /\ condRow' = [c \in Conds |-> WhiteCond]
  /\ catched' = [c \in Conds |-> 0] /\ alarms' = [r \in Rules |-> 0]
  /\ UNCHANGED <<enabled, queue>>

\* Mutation: establishing a partition resets the dialog, whatever the user does.
ResetAtOnce == ResetAll /\ UNCHANGED modal

\* reset(), after the question.
Reset == modal.what = "question" /\ ResetAll /\ modal' = NoModal

Engine == (\E m \in Messages : Receive(m)) \/ \E r \in Rules : WorkerAlarm(r)

RulePanel ==
  \/ \E r \in Rules : ClickReset(r)
  \/ \E checked \in SUBSET Rules \ {{}} :
       RuleEnable(checked) \/ RuleDisable(checked) \/ ResetSelection(checked)

NodePanel ==
  \/ \E a \in Apps : ShowContextMenu(a) \/ NodeClicked(a)
  \/ MenuReset \/ MenuWarning \/ MenuError

Next == Engine \/ ServeAlarm \/ RulePanel \/ NodePanel \/ AskReset \/ Dismiss \/ Reset

\* Qt's event loop, which modal dialogs run too, serves what is queued.
Spec == Init /\ [][Next]_vars /\ WF_vars(ServeAlarm)

-----------------------------------------------------------------------------
TypeOK ==
  /\ NodeTypeOK
  /\ catched \in [Conds -> Nat] /\ alarms \in [Rules -> 0 .. MaxAlarms]
  /\ enabled \subseteq Rules
  /\ queue \in Seq(Rules) /\ Len(queue) <= MaxQueued + 1
  /\ \A r \in Rules :
       /\ ruleRow[r].status \in {Empty, Disabled} \cup 0 .. MaxAlarms
       /\ ruleRow[r].red = (ruleRow[r].button # "none")
       /\ ruleRow[r].grey = (r \notin enabled)
  /\ condRow \in [Conds -> [count : Nat, blue : BOOLEAN]]

Queued(r) == r \in Range(queue)

\* The node that a menu or a box is about is there as long as it is open, although
\* messages and alarms go on: the pointer to it does not dangle.
MenuNodeExists == modal.what \in {"menu", "box"} => modal.node \in DOMAIN nodes

\* A rule with an alarm is red, or the signal that makes it red is on its way; also
\* when it has been disabled, enabled or reset meanwhile.
AlarmsAreShown == \A r \in Rules : alarms[r] > 0 => ruleRow[r].red \/ Queued(r)

\* What a rule's row says is the number of its alarms, once no signal of it is queued,
\* whichever thread has raised or reset them.
StatusIsTrue ==
  \A r \in Rules : ~Queued(r) /\ r \in enabled =>
    ruleRow[r].status = alarms[r] \/ (alarms[r] = 0 /\ ruleRow[r].status = Empty)

\* A condition that has caught messages is blue and its row has their number; the
\* reset after an action is not shown before the next message.
CondsAreShown ==
  \A c \in Conds : catched[c] > 0 => condRow[c] = [count |-> catched[c], blue |-> TRUE]

\* An alarm of any thread is seen, unless it is reset before.
AlarmIsSeen == \A r \in Rules : alarms[r] > 0 ~> ruleRow[r].red \/ alarms[r] = 0

\* The nodes: the state is sound, a node's icon is that of the highest severity since its
\* last reset, not of its queue, which keeps its messages when the node is reset, and its
\* colour has a message behind it (NodeInfo.cpp:45-79, MsgAnalyzerDlg.cpp:222-275).
NodesInv == TypeOK /\ IconIsTrue /\ ColourIsBacked

\* The tables of rules and conditions say what the engine has counted
\* (MsgAnalyzerDlg.cpp:307-353, 451-634).
TablesInv == StatusIsTrue /\ CondsAreShown
=============================================================================
