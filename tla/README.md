# TLA+ models of artdaq_mfextensions

This directory holds models of the parts of artdaq_mfextensions that keep state:
the rule engine of the message analyzer and its dialog (`src/ErrorHandler`), the
message viewer, the destinations and the receivers of the message facility
(`src/mfextensions`). The models are translated from the source. `PROJECT.json`
maps each definition to its lines, and lists the components, the hazards, the runs
and the theorems.

## 1. Inventory

| Component | State | Operations | Interaction | What is hard about it | What makes it correct |
|---|---|---|---|---|---|
| Cell, hitmap (`ma_cell`, `ma_hitmap`) | a window of messages, a status, the time of the awaited event; an index of sources and targets | `hit`, `event`, `reset`, `capture` | called by conditions; pushes timing events | two threads without a common lock; stamps out of order; events that outlive resets | a status that must end by itself has its event queued; a persistent one ends by reset only |
| Timing worker (`ma_rule_engine::event_worker`) | the queue of timing events and its lock | a pass every second | calls `event` of the cells, then evaluates rules | holds the lock that hits need; reads the clock before it locks; a rule that it evaluates may reset cells while the GUI thread is in `hit` | passes end, bursts end, silence is noticed |
| Conditions, rules, alarms (`ma_condition`, `ma_rule`, `ma_boolean_*`) | notification lists; per rule the alarms raised, with their times | `feed`, evaluation, `act`, `reset`, enable | evaluation reads the hitmaps of all its conditions and resets them | indices are reused after a reset; shared conditions; repeat and holdoff | every cause alarms, and once only |
| Domains (`ma_domain_*`) | per rule a list of domains, worked out when a name is new | union, intersection, WHERE evaluation | restrict what a rule's evaluation runs over | algebra on pairs of "index, any or nil"; names come in any order | a rule's domains are the meaning of its clause |
| Functions and tests (`ma_function*`, `ma_test_function`, `ma_cond_test_*`) | `IS_SYNCD` keeps a round of times | evaluate, reset | read the hitmaps and the participants | grouped counts; evaluation only when a status flips | counts agree with the hitmap, group by group |
| Participants (`ma_participants`) | groups and their members | add, size, reset | a singleton written by the GUI, read by functions | names are put together | sizes of the groups |
| SMTP destination (`SMTP_mfPlugin`) | a buffer, a flag, a detached thread | `routePayload`, `send_message_`, destructor | logging threads, libcurl | the flag is tested under the mutex and cleared without it | one sender, nothing lost or doubled |
| UDP destination (`UDP_mfPlugin`) | a socket, error counters | `reconnect_`, `fillPrefix`, `routePayload` | the network | turn-off threshold, backoff of reports | errors turn it off only past the threshold |
| UDP receiver (`UDP_receiver`) | a socket, a stop flag | `run`, `read_msg` | a thread; emits to the GUI thread | foreign datagrams, lost, reordered and cut ones; fields that do not parse | fields end up where they belong; the thread stops when told |
| Log reader (`LogReader_receiver`) | a position in a file | `run`, `read_next` | a file another process appends to | it reads past the header of the next message and goes back; a text may contain the mark that separates messages | each message once, whole |
| Receiver threads (`MVReceiver`, `ReceiverManager`) | receivers, their stop flags | start, stop, destroy | threads; Qt's queue | stop waits in the GUI thread | stop returns |
| Message viewer (`mvdlg`) | a pool, three indices, lists, tabs, counters | the slots of the dialog | signals that call slots from inside slots | limits, filters, closing tabs | everything on display agrees with the pool |
| Suppress, throttle | a window start, a count | `match`, `reach_limit` | called by the viewer | stamps out of order, from the future | at most `limit` per timespan, and open again after it |
| Analyzer dialog (`MsgAnalyzerDlg`, `NodeInfo`, `qt_rule_engine`) | nodes with queues and colours; tables of rules and conditions; an open menu | receive, alarms, enable, disable, resets, menus | alarms of two threads; modal menus that run the event loop | queued signals against resets; a menu that points to a node | tables and icons say what the engine has counted |
| MultiFile, Friendly destinations | a map of open files | `routePayload` | write what the log reader reads | a file opened or appended to while it is read | - |
| Network helpers (`TCPConnect.hh`) | none | name and interface lookup | used by both UDP ends | forms of the configured text | both ends agree on a group |
| Actions, curl sender, other destinations (ANSI, Kafka, OTS, TRACE), programs, tests | - | one call each | processes, output | - | - |

Threads: the analyzer has a GUI thread, which receives messages (`feed`) and
commands, and the engine's worker thread. The viewer has a GUI thread and a thread
for each receiver, whose messages are queued to the GUI thread by Qt. The SMTP
destination has the threads that log and one detached sender thread at a time. The
UDP destination and the log files connect programs.

## 2. Modules

| Module | Models | State in the code |
|---|---|---|
| `MaCell` | `hit()` and `event()` as operators on a cell | `msgs`, `on`, `t_event` of `ma_cell`; a message is its time stamp |
| `CellTiming` | cells, event queue, worker, without overlap of the threads | `cell[c][x]` = `hitmap[s][t]`, `queue` = `event_queue()` |
| `CellThreads` | the same code with the GUI and the worker thread interleaved | `cells[x]` = `hitmap[s][t]`, `pending` = `event_queue()`; `gui`, `worker`: where the threads are and their locals |
| `RuleEngine` | conditions, rules, alarms, holdoff, operator commands, worker passes | `cond[c]` = `src_idx` and the status of the cells, `rule[r].alarms` = `alarms` keyed by indices |
| `DomainOps` | pairs of indices, domains and their intersection (`ma_domain_ops.h`) | values only |
| `RuleExpr` | WHERE clauses, rule expressions with functions, tests (EXTENDS `DomainOps`) | values only; `round` = what `IS_SYNCD` keeps |
| `Participants` | groups of participants, for `COUNT_PERCENT` | values only |
| `RuleDomains` | hitmaps with sources and targets, domains and evaluation of rules (EXTENDS `RuleExpr`) | `hit[c]` = `hitmap`, `rule[r].domains` = `domains` |
| `NodeStatus` | nodes, their queues, colours and flags | `nodes` = `map` |
| `MsgAnalyzerDlg` | the dialog's tables, menus and resets, with what it reads of the engine (EXTENDS `NodeStatus`) | `ruleRow`, `condRow` = the tables' items; `queue` = signals queued for the GUI thread |
| `Outbox` | abstract: what a buffering destination promises | |
| `SmtpDestination` | `SMTP_mfPlugin.cc`, implements `Outbox` | `contents` = `message_contents_`, `active` = `sending_thread_active_`, `abort` = `abort_sleep_` |
| `MsgThrottle` | `suppress.cc`, `throttle.cc` | `thr[k]` = `in_use_`, `last_window_start_`, `count_` |
| `SeqFilter` | what a loop with `remove_if()` or `erase()` leaves of a list | values only |
| `MsgViewer` | `mvdlg.cc` (EXTENDS `MsgThrottle`, `SeqFilter`) | `pool` = `msg_pool_`, `index` = `host_msgs_`, `app_msgs_`, `cat_msgs_`, `tabs` = `msgFilters_` |
| `NetAddress` | `ResolveHost()`, `GetInterfaceForNetwork()` | values only |
| `ReceiverThreads` | `MVReceiver.hh`, `ReceiverManager.cc`: start, stop, wait, delete; Qt's queue | `manager`: where the GUI thread is |
| `UdpDestination` | `UDP_mfPlugin.cc` | `errors`, `successes`, `nextReport` = the counters |
| `UdpReceiver` | `UDP_receiver.cc` (EXTENDS `ReceiverThreads`, `NetAddress`) | `at[r]`: where the thread is in `run()` |
| `UdpLink` | composes the two over a network that loses, doubles and reorders | `net`, `inbox`; `Room` = `TRACE_STREAMER_MSGMAX` in pieces of a datagram |
| `LogFile` | files as MultiFile and Friendly write them | `outputs` = `outputs_`; a file is a sequence of lines, `mark` says which contain `%MSG` |
| `LogTail` | abstract: what readers of growing logs promise | |
| `LogReader` | `LogReader_receiver.cc`, implements `LogTail` (EXTENDS `LogFile`, `ReceiverThreads`) | `pos[r]` = `pos_` as a number of lines |
| `*Proofs` | theorems, see section 4 | |
| `MC*` | the instances that TLC checks | |

`CellTiming` and `CellThreads` share `MaCell`, so that the step the proofs reason
about is the one whose pieces are interleaved. `RuleEngine` does not repeat the
windows: a hit or a worker pass gives a cell any status that `MaCell` allows for
that kind of condition (`HitOutcomes`, `EventOutcomes`), which covers every
timing. `RuleDomains` fixes the conditions to persistent ones with a long timespan
(the defaults) and has what `RuleEngine` leaves out: targets, domains, functions,
tests and the texts of alarms. `MsgAnalyzerDlg` lets any rule alarm that has caught
something: which ones do is the subject of the two.

Operators whose comment starts with "Mutation" are not part of a model. They are
definitions of the model with a plausible mistake in them; replacing the
definition by its mutation must break the property that `PROJECT.json` names,
which shows that the property depends on that code.

### Correspondence of actions

* `HitCell` is `ma_hitmap::capture()` with the `hit()` it calls; `WorkerPass` is
  a pass of `event_worker()`; `ResetCond` is `ma_hitmap::reset()`.
* In `CellThreads`, `hit()` is `HitWindow` (up to the lock), `HitSchedule` (the
  critical section) and `HitFlip` (the status, after the lock has been released);
  `reset()` is `ResetOn` and `ResetClear` for each cell; the worker reads the
  clock, takes the lock, compares the top event with the cell (`WorkerTop`),
  writes the status (`WorkerEvent`), and when nothing is due any more evaluates the
  rules of the condition if a cell has flipped (`WorkerRules`, `WorkerEvaluate`), still
  under the lock. A rule that alarms and has an action resets the condition from the
  worker thread (`WorkerResetOn`, `WorkerResetClear`), whatever the GUI thread is doing;
  `ResettingRules` is how many such rules there are. Whether they alarm is left open:
  it depends on other conditions. `raced` is history: the cells whose latest hit has
  overlapped with such a reset. The reads and writes that
  race are undefined behaviour in C++; the model takes the outcomes of the
  aligned accesses the compilers emit: an old or a new value, and for the `front()` of
  a window that the other thread has emptied, any stamp (`Fronts`). The operations on
  the list itself are taken in one piece: a list that two threads corrupt has no set of
  outcomes.
* `Feed`, in both `RuleEngine` and `RuleDomains`, is `feed()` with all it calls:
  matching, domains, `evaluate_rules()`, texts, actions and the reset they cause.
  Resetting a rule resets its conditions for all other rules too, whose alarms stay
  (`Outlived`, `Disowned`). `live` in an alarm of `RuleEngine`, and `stale` in
  `RuleDomains`, are history that no guard reads: which of an alarm's conditions have been
  reset by another rule since it was raised.
  `script` and `mail` actions report success always, so "the rule has actions"
  decides whether the rule is reset.
* An expression in `RuleExpr` is what the parser makes of it: an OR of ANDs of
  primaries, one of which is an expression in parentheses. The model numbers them from
  the inside out: an expression in parentheses comes before the one it is part of, which
  refers to it by its number (`[type |-> "EXPR", sub |-> k]`), and the whole expression is
  last. An evaluation is a recursive function over these numbers that makes the calls
  of `evaluate()` in their order, with the early returns; thresholds are whole numbers.
  `IsWhere`, `IsBoolean` and `IsTest` say what the grammars of `ma_parse.cpp` accept.
* `Receive` of `MsgAnalyzerDlg` is `newMessage()`: node, matches, alarms, the table
  updates they call at once. `WorkerAlarm` is an alarm in the engine's worker thread;
  its signals go to `queue`, and `ServeAlarm` is Qt serving one. While `modal` is a
  menu, a box or a question, the user's other actions are disabled and messages are
  not: that is what `exec()` does.
* `RoutePayload`, `Check`, `Spawn` of `SmtpDestination` are `routePayload()` (the mutex held
  throughout); `Nap`, `Take`, `Mail`, `Finish` are `send_message_()`; `Destructor`,
  `Destroyed` are `~ELSMTP()`, before and after it waits.
* In `MsgViewer` a slot is one action, with the slots that Qt calls from inside
  it: `SetFilter` and `CloseTab` include `tabWidgetCurrentChanged()`, `NewMsg`
  includes `trim_msg_pool()`, `update_index()` and the lists. `Drop` and `NewMsg` are
  the two outcomes of the suppression and throttling lists at the top of `onNewMsg()`.
* `Route` of `UdpDestination` is `routePayload()` with `reconnect_()` where there is no
  socket. A datagram is the sequence of its pieces between `|`, each with what it
  looks like to the receiver's parser, since that is all `read_msg()` depends on.
* In `UdpReceiver`, `Top`, `PollData`/`PollNothing`/`PollError`, `Read` and `Parse` are
  the stages of `run()`; `Parse` is `read_msg()` with the walk over the tokens, and a
  thread whose search for a time stamp does not end is `"stuck"`. `Read` cuts what does
  not fit the buffer (`Cut`): `Room` whole pieces and a beginning of the next, which may
  look like something else than the piece did (`Beginnings`). The tag and the prefix are
  assumed to fit (`UdpLinkAssumption`). A time stamp that is not found is `Arbitrary`,
  since `tm` is not initialized.
* `PassFound`, `PassNothing` and `PassMissing` are one turn of the loop of
  `LogReader::run()`: open, `seekg`, look for the mark, `read_next()`, `tellg`, close.
  `Route` of `LogFile` is MultiFile's `routePayload()`; for messages in `ByLine` the
  lines reach the file one by one. The receiver takes every line that contains `%MSG`
  for a mark: first lines and last lines, and the lines of a text that `marks` of the
  message names (`TextLine`).

## 3. Runs

Passing runs (in the order of the table in section 2):

* **CellTiming** - one condition with every combination of at least / at most,
  trigger count 1 and 2, persistent or not; two cells; stamps 1..3 in any order,
  up to one second ahead of the host; the clock runs to 6, late enough for every
  event (the last is due at 3 + 1 + 1). Two messages fill and overflow both
  windows, and a third finds a full one. Whatever status a cell has, the event that
  must end it is queued; no event survives a reset to do harm; bursts end and
  silence is noticed (`StatusEnds`).
* **CellThreads** - the same settings, three messages for two cells, resets at any
  moment by the GUI thread, the worker at any moment, and a rule that may reset the
  condition at the end of any pass that has flipped a cell; stamps to 2 and the clock to
  5, past the last event. A cell that is on has a full window behind it unless a reset by
  the worker has run into its latest hit; worker passes end; the GUI thread comes back
  from `hit()` and `reset()`.
* **RuleEngine** - a rule of its own on a per-source condition, without an action, so
  that no alarm resets what it is about; a conjunction of a persistent per-source
  and a global occur_at_most condition; and a rule whose action resets the
  conjunction's first condition under its alarms. Three messages or passes, each of
  which may change cells of several conditions, one second, two sources (symmetric),
  and the operator's resets and switches between them, which the bound does not count.
  Three steps raise alarms for both sources, reset, and give the first index to the other
  source. Every source alarms, no cause twice, and an alarm's indices mean the sources it
  was raised for, until another rule resets their condition.
* **Domains** - the conditions and rules of `ErrorHandler/config/rules_test.fcl`,
  with thresholds that two sources and two targets reach: equalities between
  conditions, with a string, conjunctions of them, COUNT by source, target and
  message, COUNT_PERCENT, IS_SYNCD, a test. Four messages, of ten, in any order, and
  resets of three rules by the operator: r4, whose action resets it too, and r1 and r3_1,
  which share their conditions with each other and with four more. `WhereIsDenoted` compares each rule's
  domains with the meaning of its clause over names (`Meets`), for every value there is;
  `PairAlarms` and `CountAlarms` say when rules alarm and for what, until another rule has
  reset a condition under an alarm; `AlarmMeansNames` that no other index comes to mean
  another name; `NeverThrows` that no alarm's text runs into a missing name, message or
  group: r1's has a message (`${c2.$m}`), and r2's a group (`${c1.$g1}`).
  `MCAssumption` says that this configuration has what the theorems of section 4 need of
  one, but for `ResetsApart`, which only `RulesAlarm` needs.
* **Analyzer** - one node, two rules that share a condition, one of them with an
  action; messages of three severities, worker alarms, every selection of rules, the
  menus. Queue bound 0 (which holds one message), one signal under way at a time
  before the next is raised, one alarm per rule between resets.
* **Smtp** - two logging threads, five messages of which one is filtered and one
  lacks what is required, identities for two senders so that a second one could
  exist. The object is destroyed at some point and everything stops, so deadlock
  is not checked in this run. `ImplementsOutbox` is the refinement.
* **MsgViewer** - four messages with two hosts, two applications and stamps that
  leave a gap longer than the throttle's timespan; a pool of two, at most one deleted
  message on display, two tabs, one suppressed host, one throttled application, and
  selections of one item in one list. Three of these bounds are also where the code
  keeps the properties: with a third tab, with more selections than one item, or with
  buffer size 0, it does not (section 6; section 4 says what is then still proved).
  Which messages are kept, indexed and displayed agrees through all slots in between.
* **Udp** - a destination with multicast, one receiver for the same group, an empty
  message and one whose body has separators and looks like other parts, and of which
  only two of four pieces and the beginning of a third fit the receiver's buffer; a
  foreign datagram without the mark; error threshold 3, backoff 2, and two successes in a row
  in place of the code's five to clear the errors; five messages, so that errors,
  turn-off, recovery and a second series of errors happen; two arrivals, so that a
  datagram arrives twice, or after one that was sent later, or after a foreign one.
* **LogReader** - two programs with a file each. The first has written a message before
  and writes two more; the second writes one whose text quotes the mark, line by line. A
  reader of each, and a third whose plug-in cannot be loaded. `ReadsEachOnce`
  is the refinement of `LogTail`; `CatchesUp` that a reader with one message per pass gets
  to the end. The two, and `ReadsWhole`, are about the readers of files that can be told
  apart into messages (`InStep`): here the first. Of the second reader, which takes the
  quotation for the end of the message and the message's last line for another message,
  `ReaderInv` says that its state stays sound (see section 6).

`CHECK_DEADLOCK FALSE` is set where the system stops: bounded messages, a program that
has exited, an object that is gone, an engine that an exception has left.

Violation runs, each a disagreement of the code with its comments or documents:

* **CellThreadsOff** - `hit()` sets the status after it has released the lock, so
  the worker can serve the cell's event before the status is written; the cell is
  on and nothing will turn it off (`ma_cell.h:27-28`). The late write can in
  the same way turn a persistent cell off that the worker has just turned on,
  and `reset()`, which takes no lock, can leave a cell on if the worker is
  between its comparison and its write.
* **RuleEngineHoldoff** - the time of a repeated alarm is not renewed
  (`ma_rule.cpp:243-244`), so only the first repetition is held off.
* **UdpStuck** - the Udp run with a line that has the mark and no time stamp: the
  search for a stamp in a token without a digit does not end, and the viewer's
  `stop()` waits for that thread for ever. In **Udp**, without such datagrams,
  `StopReturns` holds, whatever the network does.

### Fairness

* Engine: the worker loops for ever and the clock does not stop (weak fairness of
  `WorkerPass`/`Worker` and of `Tick`/`ClockTick`). Inside `hit()` and `reset()` the GUI thread
  goes on (weak fairness); it gets the lock of the queue when the lock is free again
  and again (strong fairness of `HitSchedule`), which the second of sleep without
  the lock between two passes justifies. Nothing is assumed of messages and resets.
* SMTP: the threads are scheduled, `usleep()` and libcurl return (libcurl has
  timeouts), and the destructor's loop is scheduled; logging and destruction need
  not happen.
* Receivers: their threads are scheduled, and `wait()` returns when the thread has.
  `poll()` has a timeout and the log reader sleeps half a second, so a turn of either
  loop ends. Starting, stopping, writing and the network are free.
* Analyzer: Qt's event loop serves what is queued (weak fairness of `ServeAlarm`);
  modal menus run it too. `RuleEngine`, `RuleDomains` and `MsgViewer` have safety
  properties only.

## 4. Proofs

Each theorem is for every value of the constants within the named assumptions of the
modules; where it has a hypothesis of its own, that is said here, with what the code
does without it.

### Data (`DataProofs`)

The library's induction theorems take an operator as a parameter, which the provers
cannot instantiate. Induction over sets does instead: a property is the set of numbers
that have it (`Induction`), and a recursive function stays within a family of sets
(`RecursionInvariant`, `StepsInvariant`). From these:

* `Keep`, by which the viewer's lists are trimmed and selected: its elements
  (`KeepSet`), `Keep` of a longer sequence (`KeepAppend`, `KeepConcat`) and of itself
  (`KeepKeep`).
* The window of a cell after `hit()` (`WindowFacts`, `HitFacts`): not empty, since the
  message that came in is itself recent (`FirstRecentExists`), and no longer than the
  trigger count.
* The intersection of two domains stands for exactly the values that both stand for
  (`IntersectMeans`), and does not depend on the order (`IntersectCommutes`).
* Sequences end to end, parts of them, and when two are the same (`Concatenated`, `Part`,
  `SameSeq`); the members of the lists that loops in loops append to (`FlattenFacts`).
* A list of domains denotes a set of values, and merging two lists (`AND` in a WHERE
  clause) denotes what both denote (`AndMergeMeans`).

### Cells (`CellProofs`)

* `CellTiming` (settings within `ConfigsAssumption`): `TypeOK`,
  `OffEventPending`, `OnEventPending`, `OffWaitsForNothing`, `OnHasMessages` and
  `PersistentStaysOn`. The invariants are not inductive by themselves. A reset leaves
  its events in the queue; that they do nothing to a cell in the ground state follows
  from two more facts, which `IInv` adds: every queued event has a positive time
  (`QueueAfterZero`), and a cell without messages waits for time 0
  (`EmptyWaitsForNothing`). `IInv` is stated for one cell at a time (`CellInv`), so
  that a hit needs an argument for the cell it hits (`HitKeepsCellInv`), and one for
  the others, whose events stay queued. The worker pops an event only if it is due,
  and a cell whose awaited event is popped is given its final status in the same pass.
* `CellThreads`: `ThreadsInv` under every interleaving, for any number of rules that
  reset the condition. `OnIsBacked` excepts a cell that the GUI thread is at work on, so
  the invariant says what is true there: the status `hit()` is about to write fits its
  window, `reset()`, in either thread, turns a cell off before it empties the window, and
  an event can only turn such a cell off. It also excepts a cell whose latest `hit()` has
  overlapped with the worker's `reset()` of it (`raced`): there the status is written for
  a window that is gone (section 6). That these are the only ones is what is proved: as
  long as the worker's reset and `hit()` do not overlap, the window a status was computed
  for is still there when the status is written.

### Rules and alarms (`RuleEngineProofs`)

`EngineInv` says of every rule that the keys of its alarms are indices of its conditions
(`Keyed`), that its counter is the number of keys if it does not repeat alarms
(`Counted`), and that each index in a key means the source whose cell made the alarm, as
long as no other rule has reset its condition (`Meant`). Evaluation is a loop with early returns and
a recursion over rules; `EvaluationInvariant` says that what each of its steps keeps
(`RaiseSound`, `ResetSound`) the loop keeps. Theorems:

* `EngineTypes` (`TypeOK`) and `CountersAreDistinct`: no hypotheses.
* `AlarmsMeanSources` (`AlarmInv`) and `NoSecondAlarm` (`SameCauseOnce`): no hypotheses;
  rules may share conditions and have any expressions. The properties themselves go
  condition by condition: the reset of a rule forgets its own alarms, and it disturbs
  in the alarms of others just the indices of the conditions it resets (`Standing` says
  which are not disturbed). That two alarms for the same sources are one follows: their
  keys would be the indices of the same sources in the same tables.
* `EverySourceIsHeard` (`EverySourceAlarms`): no hypotheses; the property is itself about
  rules of their own on one condition. The invariant (`HeardBut`) excepts the cells that
  have just been turned on: a hit turns on one cell, which is then evaluated, and in a
  worker pass no occur_at_least cell turns on.

### Domains, expressions and alarms (`RuleDomainsProofs`)

For any conditions, trigger counts and tests; any rules, with expressions and clauses of
any depth; any messages, in any order; resets by the operator and by actions.

The operators with a loop are first shown to be the recursion they are
(`ReplacedRecursion` and its like), each in a family of sets that it does not leave.
Then two facts about expressions carry the rest. What a WHERE clause denotes follows,
whatever its depth, from what each primary denotes (`DomainExprMeans`), since an empty
result in an AND stays empty and an OR appends. What the evaluation of a rule's
expression leaves in the alarm follows from what each primary writes: an alarm's key has,
for each condition, the value tried, the domain, the last message's indices or nothing.

The inductive invariants:

* `StateInv` (`StateIsSound`, no hypotheses): the types, and `DomainsOK`, that the domains
  of a rule are what its clause evaluates to *now*, although they are worked out only when
  a name is new to a condition that the clause mentions. What a clause evaluates to
  depends on no other names (`Mentions`), so nothing is missed. A reset empties tables
  and keeps the domains; until the condition has names again, `DomainsOK` says nothing
  of them, and there are then no values either, so that `WhereIsDenoted` holds all the
  time. From it: `DomainsTypeCorrect` (`TypeOK`) and `WhereClausesDenote` (`DomainInv`).
* What `AlarmsKeepTheirNames` (`AlarmMeansNames`) needs, no hypotheses: for each part of an
  alarm that is not `stale`, the name it was raised for is the name of its index. Names are
  only appended to tables; a reset empties the tables of a rule's conditions, forgets the
  rule's own alarms, and makes these conditions' parts of all other alarms stale.
  `TextsNeverThrow` (`NeverThrows`) needs no invariant of alarms: whether a text throws is
  settled when the alarm is raised. An alarm of an expression that looks at a condition has
  the indices of a cell that is on, which has names and messages. A condition that is only
  counted may have been reset since the domains were worked out, hence the last
  part of `TextsSure`.
* `FitInv` (lemma `AlarmsFitNames`, with `ResetsApart`): the indices in a rule's domains and
  in its alarms are those of names in the tables as they are. `RulesAlarm` needs it.
* `AlarmInv` (`RulesAlarm`, `RulesInv`): a rule of conditions alone has an alarm exactly when
  its clause and its expression are true for some value; a rule that counts has alarms
  for exactly the groups that have enough. An evaluation stops at the first new alarm
  (`ma_rule.cpp:153`), so the core is that nothing is owed afterwards: a
  message turns on one cell of a condition at most, so that at most one group gets
  enough (`CountDue`), and for a rule of conditions one alarm is enough to have alarmed
  (`PairDue`). Where no cell turns on, no count of cells changes.

The hypotheses are restrictions on a configuration, in `RuleDomains`; the code lets more
pass, and the last column says what it does then. `StringsAssumption`, that three strings
are in `STRING`, is there because the provers are not told so.

| Hypothesis | Theorems | Without it |
|---|---|---|
| `StringsOnce`: no clause gives a name to two arguments of one condition | `WhereClausesDenote`, `RulesAlarm` | the later mention replaces the earlier one (`ma_domain_cond.cpp:68`) |
| `ResetsApart`: a rule that is reset shares no condition, and has no clause over several | `RulesAlarm` | alarms of other rules, or domains, keep indices that come to mean other names, and these names do not alarm |
| `TextsSure`: a condition that a text names is looked at whenever the expression is true, and not by `IS_SYNCD`, nor counted if the text has its message or group, nor counted if another rule's action resets it; a group is one of the pattern's | `TextsNeverThrow` | `get_source()` throws for an index that is nil (`ma_hitmap.cpp:148`); `get_latest_message()` asserts that there is one (`ma_cell.h:50`); `get_message_group()` throws (`ma_cell.h:58`) |
| `PairsSure`: each alternative of the expression has all conditions of the rule, or these are on from the first message | `RulesAlarm` | an alternative is true, and no value is tried as another condition has no names yet; when it has, nobody evaluates the rule |
| `CountsSure`: a rule that counts does so for each group, by `>` or `>=`, and wants more than none | `RulesAlarm` | with `<` an alarm is kept when the count has grown |

The configuration of the run **Domains** is within all but `ResetsApart`: it resets rules
that share conditions, and `RulesInv`, which leaves out rules with stale alarms, holds there.

### Analyzer dialog (`MsgAnalyzerDlgProofs`)

* `MenuNodeAlwaysExists`: only the reset of the dialog removes nodes, and the menu keeps
  the user from it. `NodesTellTheTruth` (`NodesInv`), for any length of the queue: the
  message that raised the severity, or equals it, is the last to be queued, so the bound
  never drops it.
* `AlarmsAreAlwaysShown` and `TablesAreTrue` (`AlarmsAreShown`, `TablesInv`), for any
  rules and conditions and any number of signals under way. `TablesTrue` relates a
  table's row to the engine through the queue: a row shows what the engine counts, or a
  signal that will make it do so is queued. The argument needs that every update reads
  the engine's count when it is served, not the count when it was sent, and that a
  reset of the engine by the user repaints the rows in the same slot, with the signals
  from before still queued behind it.

### Destinations and log files (`DeliveryProofs`, `UdpProofs`)

* `DeliveryProofs` by mail, for any number of logging threads, senders and messages: `SenderInv`
  (one sender, no empty mail), `GoneIsQuiet`, and `IsOutbox`, the refinement. The
  invariant: one thread at most is in `routePayload()`; the flag is true exactly
  while a sender is alive; the thread about to start one has seen the flag false; it
  has appended its message. A second sender would have to start between the test and
  the set of the flag, both under the mutex, or be alive with the flag down, which it
  clears last. For the refinement there is one payload in flight at most
  (`OneInFlight`), so that taking the buffer does not change the abstract order.
* `DeliveryProofs` by file: `ReadIsWhole` (`ReaderInv`) and `IsTail`, the refinement of
  `LogTail`, for any messages, formats, files and receivers. Both need `ReadableFiles`:
  the destination appends (without `append` it cuts the file off when it opens it, and
  the receiver keeps a position past the end), and the format has a last line
  (`NO_LINE_BREAKS` has none). And both are about the receivers in `InStep`, whose file's
  messages have no `%MSG` in their texts and are flushed message by message, as MultiFile
  does; what is in the other files does not matter. Section 6 says what happens otherwise.
  The invariant: a file is the
  layouts of the messages written to it, one after the other (`FilesTrue`), and such a
  receiver is at the start of one of them or at the end, having emitted exactly the
  messages before (`InPlace`, `PlacesTrue`); any other is somewhere in its file
  (`Bounded`). `LinesOf` is a recursive function; that appending a
  message appends its layout (`LinesOfAppend`) and where each message sits (`AllSit`) are
  by induction. The core is `PassReads`: from the start of a message a pass finds its
  first line, and what it takes for the next mark is the message's own last line, so it
  reads that message, whole, and goes back to the start of the next. A message that is
  appended meanwhile, or a stop between two passes, moves nothing.
* `UdpProofs`, for any threshold, number of successes, resolver, interfaces and number
  of receivers: `OffMeansErrors` (`OffForErrors`) and `SameGroup` (`EndsMeet`).
  `routePayload()` keeps counters where the property speaks of a history. While it
  sends, the success counter is the length of the run of successes at the end of the
  history (`Streak`), and the error counter the number of failures since the last run
  of `Calm` (`CountersInv`). A success that completes such a run forgets all failures
  (`CalmForgets`), any other message only adds itself to the recent ones (`NotCalm`).
  `ReportsGetRare` (`ReportsThinOut`): the next report is due at the first power of the
  backoff factor that the errors have not reached (`NextIsPower`), and the errors counted
  when a report was made are a power (`ReportsAre`). Powers are a recursive function,
  whose laws (`PowerNext`, `PowersGrow`) are by induction, with the lemmas of `DataProofs`.
  `WhatArrivesWasSent` (`ArrivalInv`): each field that comes out, the time stamp among them,
  is the one that was sent, except the sequence number, which never comes out; and the body
  is whole or, if the datagram is longer than the buffer, cut at its end, where the last
  token may look like any beginning of what it was. It is for any format of time stamps and
  any buffer that holds the prefix, and has two hypotheses:
  the name of the sender's host does not begin with a digit (`NamedHost`), since the
  receiver would take such a name for the sequence number it looks for, and no other
  sender's datagram both passes `validate_packet()` and can be read (`NoneForeign`), since
  the receiver would show it; section 6 says what the code does without them. The
  receiver searches the datagram for a time stamp: nothing else that the sender writes
  before the severity is a time, and the search does not get past the severity
  (`StampFound`).

### Viewer (`MsgViewerProofs`)

* `NoMessageLost`: the counters add up to what has been received. `ThrottlesReopen`: a
  message stamped later than the timespan after all others begins a new window of every
  throttle (a window starts at a stamp that has arrived, or at 0).
* `PoolIsTrue` (`PoolInv`), for any limits, tabs and selections: `Indexed` writes each of
  the three indices as the pool, split by key. Trimming, which goes by what is in the
  messages that leave (`TrimIndexIs`), and adding a message keep it that
  (`AddToIndexIs`); `TabTypes` holds for what `Merge` and `ListIntersect` return, sorted
  or not. `NewTabsFromPool` (`NewFiltersFromPool`) follows from it.
* `DisplayIsTrue` (`DisplayInv`), if a tab is closed only to the right of the current one
  or at the right end (always so with two tabs): the slot that displays the new current
  tab runs before the closed one has left `msgFilters_`, so otherwise it is a position
  off (section 6). Trimming counts what leaves the tab and is still in the text.
* `TabsAreTrue` (`TabsInv`), for a buffer with a limit and selections of one item in one
  list. `NothingHidden` is not inductive: a tab could hold its messages in an order in
  which trimming its oldest drops one that is still in the pool. `TabsHold` adds that the
  messages of the pool that match are the end of the tab, in order; then a tab longer
  than the limit loses only what has left the pool. With two items the merged tab is not
  in that order, and the code does drop such a message (section 6).
* `TabsOnlyMatch` (`OnlyMatching`), for any selections in one or two lists: the walks over
  lists that are not sorted miss messages, but what they find is in both.

### Only model-checked

Liveness, which is outside what the prover does: `StatusEnds`, `PassEnds`,
`GuiComesBack`, `DestructorReturns`, `FoundIsMailed`, `StopReturns`, `TakenIsEmitted`,
`CatchesUp` and `AlarmIsSeen`. Every invariant that a run checks is also stated by a
theorem.

## 5. Bounds

`MaxStamp`, `MaxTime`, `MaxHits`, `MaxSteps`, `MaxFeeds`, `MaxAlarms`, `MaxQueued`,
`MaxAttempts`, `MaxArrivals`, `BufferSize`, `MaxTabs` and the sets of messages bound
the state space and stand for nothing in the code. `MaxMsgs` (of the viewer),
`MaxDeleted`, `ErrorMax`, `Backoff` and `MAX_QUEUE` are settings or constants of the
program; `Calm` is 5 in the code, and `Room` as many pieces as make up
`TRACE_STREAMER_MSGMAX` bytes. `ResettingRules` and `Resets` are the rules of a
configuration. `MaxMsgs` of `NodeStatus` bounds the messages between two resets. The two
stamps that `Fronts` takes from an empty window bound what memory there may hold: one
whose event is due at the next pass, and one whose event is never due. `Skew` is a fact about the site.

## 6. Where the code does not keep what it might promise

Seen while modelling, and not the subject of a run; settings of the runs avoid them
where a property would fail.

Rule engine:

* A rule that alarms in the worker and has an action resets its conditions there
  (`ma_rule_engine.cpp:142,199-205`), while the GUI thread may be in `hit()` of one of their
  cells: the status is then written for a window that the reset has emptied, and the cell
  can be on without messages (`ma_cell.cpp:83`, `raced` in `CellThreads`). In between, `hit()` reads the front of the empty list
  (`ma_cell.cpp:58,74`). A cell that is on without messages makes `${c.$m}` assert.
* `hit()` expires messages relative to the stamp of the message that came in, so
  stamps out of order can fill a window with messages further apart than the timespan.
* The key of an OR's alarm includes the indices of conditions that were looked at and
  false (`ma_boolean_cond.cpp:87`), so the same cause can alarm twice, against
  `RuleEngineDocumentation.txt:404-410`.
* An evaluation stops at the first new alarm (`ma_rule.cpp:153`): when one worker pass
  flips two cells of an occur_at_most condition, one alarms. With rules that repeat, it
  is the first source each time. `EverySourceAlarms` says what does hold.
* Resetting a rule resets conditions that it shares (`ma_rule.cpp:272`); alarms of the
  other rules are kept, and the indices of these conditions mean other names afterwards,
  those of the messages that come first. What is then true for these names has an alarm
  already, by its key, and does not alarm. `AlarmInv`, `SameCauseOnce`, `AlarmMeansNames`
  and `RulesInv` except just these conditions; `rules_test.fcl` has rules of the kind.
* `${c.$gN}` is checked against the number of groups by one too many (`ma_cell.h:58`): of
  the group after the last it makes an empty text, and throws from the one after. What a
  group refers to are places in the string of the last match (`what_`), which `reset()`
  does not clear (`ma_cell.cpp:104-109`) and the condition's next message replaces
  (`ma_condition.cpp:150-156`). The model says whether a group can be had and not what is
  in it, and takes one of a cell without messages for a failure.
* `WHERE c.$SOURCE = ... = 'string'`: a later mention of a condition replaces an
  earlier one, so that only the last is looked at (`StringsOnce` excludes it). Condition
  names that begin with `and`, `or` or `any` do not parse.
  `IS_SYNCD` is true when times differ by more than 5, is only looked at when a status
  flips, and its round survives resets. An OR whose alarm text mentions a condition
  that the evaluation did not get to throws. COUNT_PERCENT of an empty group
  compares with infinity, or with what is not a number.
* The stream that names participants is put back to its start for each
  (`ma_participants.cpp:31-39`), so that a dash and the number overwrite the group's name:
  the names of `dcm` are `-0m` and so on, those of `bn` `-0`, and groups whose names end
  alike share names in the set of all.

Analyzer dialog:

* `MsgAnalyzerDlg.cpp:76-77` connects to a signal signature that the receiver manager
  does not have, so at run time no message arrives. The model is of the code as if it
  were connected.
* `onEstablishPartition` and `onSetParticipants` are connected to nothing. The first
  resets the dialog without a question, which would leave an open menu with a pointer
  to a deleted node; as nothing calls it, the model has no such action, and
  `MenuNodeExists` is about the code that runs.
* After the reset that an action causes, the rule's row says 0 in red and the
  conditions' rows keep their counts until the next match (`CondsAreShown` is about
  conditions with matches). Resetting a disabled rule clears the text "Disabled".
  A node's queue holds one message more than `MAX_QUEUE`.
* The icon of a node shows the highest severity since its last reset. The context menu's
  reset clears the icon and keeps the queue (`NodeInfo.cpp:75-79`), so that a grey node's
  box may list errors.

Viewer:

* Buffer size 0 means unlimited for the pool, but the tabs are trimmed to nothing
  (`mvdlg.cc:417`, `fcl/msgviewer.fcl:1`).
* When a tab at or to the left of the current one is closed and is not the last, text,
  slider and threshold can be of another tab (`mvdlg.cc:1099`, the slot runs before the
  tab leaves `msgFilters_`).
* Several items of one list are merged as if their messages were in order of address
  (`mvdlg.cc:724-735`). The tab's order is then not that of arrival, so that trimming its
  oldest can drop a message that is still in the pool.
* Filters on two lists intersect lists that are in order of arrival by a walk that needs
  them sorted (`mvdlg.cc:614`), and may miss messages; with three lists, an empty
  intersection is taken for no filter (`mvdlg.cc:775`), and the tab shows messages that
  do not match.
* A throttle's window is measured by the messages' stamps: one from the future keeps
  it open until the clock has caught up. Windows are a second wider than the timespan.
  Throttles after the first that reaches its limit do not count the message.

SMTP:

* A message that is accepted after the sender has taken the buffer, and before it clears the
  flag (`SMTP_mfPlugin.cc:341,361,404`), stays in the buffer until the next message starts a
  sender. If none comes, it is not mailed, also not by the destructor, which waits for the
  sender there is and starts none (`SMTP_mfPlugin.cc:104-108`). `FoundIsMailed` is about
  what a sender finds, and `Outbox` lets what was accepted stay.

UDP:

* "Print an error message every N errors", says `error_report_backoff_factor`
  (`UDP_mfPlugin.cc:52-54`); the number at which the next error is reported is multiplied by
  it (`UDP_mfPlugin.cc:406`), so that reports get rarer, as the parameter's name says.
  `ReportsThinOut` states what the code does.
* The sequence number is sent and not delivered: the receiver looks for it one token
  too far, where the host's name is (`UDP_receiver.cc:199-210`). A name that begins with a
  digit is taken for it, and the fields that follow are shifted. A `|` at the end of a
  message is lost, and so is what does not fit the buffer (`UDP_receiver.cc:108-109`), without
  notice. A datagram without a stamp that does parse leaves the time uninitialised. A
  number too large throws through `run()`, which is not modelled.

Log reader:

* The receiver takes any line with `%MSG` in it for a mark (`LogReader_receiver.cc:46,141`), also
  a line of a message's text. Such a message ends there; its other lines are skipped or
  taken for a message's, with severity SERROR, and from then on the receiver may take
  last lines for first ones and so miss messages, until a text or an end of the file puts
  it back in step. The lines of a text are put together without the breaks between them
  (`LogReader_receiver.cc:143`).
* A message whose lines reach the file one by one (as MultiFile's do not, since it
  flushes once per message) can be read half: the end of the file ends the text. The
  rest is skipped (`LogReader_receiver.hh:15-17,38`). A file that is cut off when it is
  opened again leaves the receiver past its end until it has grown back. With `NO_LINE_BREAKS` there is no
  line with the second mark, and every other message is lost.

## 7. Not modelled, or in part

* Undefined behaviour without a set of outcomes: `occur: 0` with occur_at_least, for
  which `hit()` reads the front of an empty list (`CondParam` excludes it); the worker
  and the GUI thread evaluating rules at the same time, which share containers without
  a lock. `RuleEngine` runs an evaluation in one piece, and so do `RuleDomains` and
  `MsgAnalyzerDlg`.
* The duration and failure of actions; the result of a mail. The curl sender and the
  actions are sequences of library calls without state.
* The growth of a hitmap past its capacity; groups of a match that are not numbers;
  `domain_union()` and `domain_compare()`, which only tests call; `reset_cond()`,
  `reset_conds()`, `reset_rules()` and `enable_EHS()`, which nothing but their wrappers
  in `qt_rule_engine.h` calls; the end of the program, which the worker thread outlives.
* The text of a configuration, of messages and of alarms. In the viewer: text cursors,
  scrolling, search, windows' settings. In the analyzer: the list of alerts, geometry,
  painting.
* Numbers out of range in `UdpReceiver`, for which `stoi()` throws; datagrams cut before
  the end of their prefix; what two threads make of a list that both change; truncation of a file
  that is being read; calling a UDP destination from several threads at once, which
  the message facility does not do.
* ANSI, Kafka, OTS and TRACE destinations: formatting and output in one call, with no
  state that a property could relate. Programs, tests, build files, documents.

What would come next: the two threads' race in the evaluation of rules, if the code
gets a lock to check; `RuleDomains` with the cells of `RuleEngine`, which turn off again,
for which `AlarmInv` would have to speak of the moments at which a cell turned on; a
viewer instance with sorted lists once `list_intersect()` has them.
