----------------------------- MODULE NodeStatus -----------------------------
(***************************************************************************)
(* The node status panel of the message analyzer (NodeInfo.cpp and the     *)
(* first half of MsgAnalyzerDlg.cpp): for each application that has sent   *)
(* a message, the highest severity since its last reset, the last messages *)
(* that reached it and an icon.  The list of alerts, a log, is left out.   *)
(***************************************************************************)
EXTENDS Integers, Sequences, FiniteSets, FiniteSetsExt, SequencesExt, Functions

CONSTANTS
  Apps,
  Messages,       \* [app, sev, fits]: fits are the conditions that it satisfies
  AlarmOnWarning, \* alarm_on_first_warning: a sequence of patterns, each "*" or a
  AlarmOnError,   \* set of applications; alarm_on_first_error
  MAX_QUEUE,
  MaxMsgs         \* bound: messages received since the last reset

SDEBUG == 0  SINFO == 1  SWARNING == 2  SERROR == 3

ASSUME NodeStatusAssumption ==
  /\ \A m \in Messages : m.app \in Apps /\ m.sev \in SDEBUG .. SERROR
  /\ MAX_QUEUE \in Nat /\ MaxMsgs \in Nat

VARIABLES
  nodes,    \* nodes[app]: [msgs, high, aow, aoe, icon], msgs being severities
  nmsgs

nodeVars == <<nodes, nmsgs>>

\* An icon that nothing has been drawn on.
Blank == [sev |-> -1, aow |-> FALSE, aoe |-> FALSE]

Icon(sev, n) == [sev |-> sev, aow |-> n.aow, aoe |-> n.aoe]

\* check_node_aow() and check_node_aoe(); initNodeStatus() stops at a "*".
CheckNode(patterns, app) == \E p \in Range(patterns) : p = {"*"} \/ app \in p

NewNode(app) ==
  [msgs |-> <<>>, high |-> SDEBUG, icon |-> Blank,
   aow |-> CheckNode(AlarmOnWarning, app), aoe |-> CheckNode(AlarmOnError, app)]

\* Mutation: what does not fit is left out.
PushIfRoom(n, sev) ==
  IF sev < n.high THEN n
  ELSE [n EXCEPT !.msgs = IF Len(@) > MAX_QUEUE THEN @ ELSE Append(@, sev), !.high = sev,
                 !.icon = IF sev > n.high THEN Icon(sev, n) ELSE @]

\* push_msg(): the queue holds one more than MAX_QUEUE.
Push(n, sev) ==
  IF sev < n.high THEN n
  ELSE [n EXCEPT !.msgs = Append(IF Len(@) > MAX_QUEUE THEN Tail(@) ELSE @, sev),
                 !.icon = IF sev > n.high THEN Icon(sev, n) ELSE @,
                 !.high = sev]

\* NodeInfo::reset(): the messages stay.
ResetNode(n) == [n EXCEPT !.high = SDEBUG, !.icon = Icon(SDEBUG, n)]

\* set_alarm_on_warning() and set_alarm_on_error().
SetFlags(n, aow, aoe) ==
  LET f == [n EXCEPT !.aow = aow, !.aoe = aoe] IN [f EXCEPT !.icon = Icon(n.high, f)]

NodeInit == nodes = <<>> /\ nmsgs = 0

\* onNewMsg(): a node for each application.
NodeOf(app) == IF app \in DOMAIN nodes THEN nodes[app] ELSE NewNode(app)

NewMsg(m) ==
  /\ nmsgs' = nmsgs + 1
  /\ nodes' = [a \in DOMAIN nodes \cup {m.app} |->
                 IF a = m.app THEN Push(NodeOf(a), m.sev) ELSE nodes[a]]

\* reset_node_status().
ForgetNodes == nodes' = <<>> /\ nmsgs' = 0

-----------------------------------------------------------------------------
NodeTypeOK ==
  /\ DOMAIN nodes \subseteq Apps
  /\ \A a \in DOMAIN nodes :
       /\ nodes[a].high \in SDEBUG .. SERROR /\ nodes[a].aow \in BOOLEAN /\ nodes[a].aoe \in BOOLEAN
       /\ Len(nodes[a].msgs) <= MAX_QUEUE + 1
  /\ nmsgs \in 0 .. MaxMsgs

\* A node's icon shows its severity and its flags, whatever messages, resets and
\* changes of the flags there have been; a blank one has seen nothing but debug
\* messages.
IconIsTrue ==
  \A a \in DOMAIN nodes : nodes[a].icon \in
    {Icon(nodes[a].high, nodes[a])} \cup (IF nodes[a].high = SDEBUG THEN {Blank} ELSE {})

\* The message that gave a node its colour can be read in its box, however many
\* messages have come since.
ColourIsBacked ==
  \A a \in DOMAIN nodes : nodes[a].high > SDEBUG =>
    nodes[a].msgs # <<>> /\ Last(nodes[a].msgs) = nodes[a].high

=============================================================================
