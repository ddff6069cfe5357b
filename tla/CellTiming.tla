----------------------------- MODULE CellTiming -----------------------------
(***************************************************************************)
(* The timing core of the rule engine, serialised: the cells of the        *)
(* conditions, the queue of timing events, and the worker thread that      *)
(* serves it once a second (ma_cell.cpp, ma_hitmap.cpp, ma_rule_engine.cpp)*)
(*                                                                         *)
(* hit(), reset() and a pass of event_worker() each run in one piece here: *)
(* this is what a cell promises in every execution in which the GUI thread *)
(* and the worker thread do not overlap.  CellThreads has the same code    *)
(* with the threads' real interleavings.                                   *)
(***************************************************************************)
EXTENDS MaCell

CONSTANTS
  Conds,     \* the names of the conditions
  Slots,     \* the (source, target) index pairs of a hitmap
  Configs,   \* the settings the configuration file may give a condition
  Skew,      \* how far a sender's clock may be ahead of this host's
  MaxStamp,  \* bound: the latest time stamp of a message
  MaxTime    \* bound: the clock stops here

ASSUME ConfigsAssumption == Configs \subseteq CondParam
ASSUME BoundsAssumption  == Skew \in Nat /\ MaxStamp \in Nat /\ MaxTime \in Nat

VARIABLES
  conf,   \* the configuration: a condition's parameters, fixed at start
  cell,   \* cell[c][x] is the cell of condition c at slot x
  queue,  \* the pending timing events (see Schedule)
  now     \* the clock of the host, in seconds

vars == <<conf, cell, queue, now>>

\* ma_timing_event.  The queue is kept as a set: an event that is queued twice
\* is popped twice in the same pass, and the second time changes nothing.
TimingEvent == [cond : Conds, slot : Slots, ts : Seconds]

TypeOK ==
  /\ conf \in [Conds -> Configs]
  /\ cell \in [Conds -> [Slots -> Cell]]
  /\ queue \in SUBSET TimingEvent
  /\ now \in Seconds

-----------------------------------------------------------------------------
Init ==
  /\ conf \in [Conds -> Configs]
  /\ cell = [c \in Conds |-> [x \in Slots |-> Ground]]
  /\ queue = {}
  /\ now = 0

\* The time stamps a message can carry.  A stamp is the sender's clock at the
\* moment it logged: it may lie long before now (a delayed datagram, a log file
\* that is read later) and before the stamps of messages already received.
Stamps == {t \in 1 .. MaxStamp : t <= now + Skew}

\* A message with time stamp t hits condition c at slot x.
HitCell(c, x, t) ==
  LET p == conf[c]
      k == cell[c][x]
      h == Hit(k, t, p)
  IN  /\ cell' = [cell EXCEPT ![c][x] = h]
      /\ queue' = IF HitSchedules(k, t, p)
                  THEN queue \cup {[cond |-> c, slot |-> x, ts |-> h.t_event]}
                  ELSE queue
      /\ UNCHANGED <<conf, now>>

\* The operator resets the condition, or a rule that uses it: every cell goes
\* back to the ground state, but the queue keeps the events already scheduled.
ResetCond(c) ==
  /\ cell' = [cell EXCEPT ![c] = [x \in Slots |-> Ground]]
  /\ UNCHANGED <<conf, queue, now>>

\* One pass of event_worker(): every event that is past due is popped and
\* handed to its cell.
Due == {e \in queue : e.ts < now}

\* Only the event with the time stamp the cell waits for has an effect, so the
\* order in which the due events are popped does not matter.
AfterPass(c, x) ==
  LET k == cell[c][x]
      e == [cond |-> c, slot |-> x, ts |-> k.t_event]
  IN  IF e \in Due THEN Event(k, k.t_event, conf[c]) ELSE k

WorkerPass ==
  /\ cell' = [c \in Conds |-> [x \in Slots |-> AfterPass(c, x)]]
  /\ queue' = queue \ Due
  /\ UNCHANGED <<conf, now>>

Tick ==
  /\ now < MaxTime
  /\ now' = now + 1
  /\ UNCHANGED <<conf, cell, queue>>

Next ==
  \/ \E c \in Conds, x \in Slots, t \in Stamps : HitCell(c, x, t)
  \/ \E c \in Conds : ResetCond(c)
  \/ WorkerPass
  \/ Tick

Spec == Init /\ [][Next]_vars

\* The worker thread loops for ever and the clock does not stop.
FairSpec == Spec /\ WF_vars(WorkerPass) /\ WF_vars(Tick)

-----------------------------------------------------------------------------
(* Properties.                                                             *)

Pending(c, x) == [cond |-> c, slot |-> x, ts |-> cell[c][x].t_event] \in queue

\* A non-persistent occur_at_least cell that is on has the event that will
\* turn it off in the queue (ma_cell.cpp:47-61, 87-102): otherwise the
\* condition would stay on for ever once the messages stop.
OffEventPending ==
  \A c \in Conds, x \in Slots :
    conf[c].at_least /\ ~conf[c].persistent /\ cell[c][x].on => Pending(c, x)

\* An occur_at_most cell that has seen a message and is off has the event that
\* will turn it on in the queue (ma_cell.cpp:62-76): otherwise silence would
\* never be noticed.
OnEventPending ==
  \A c \in Conds, x \in Slots :
    ~conf[c].at_least /\ cell[c][x].msgs # <<>> /\ ~cell[c][x].on
      => Pending(c, x)

\* A persistent occur_at_least cell that is off waits for no event, although
\* event() would turn it on (ma_cell.cpp:93): an event that survives a reset in
\* the queue cannot revive the cell.
OffWaitsForNothing ==
  \A c \in Conds, x \in Slots :
    conf[c].at_least /\ conf[c].persistent /\ ~cell[c][x].on
      => cell[c][x].t_event = 0

\* An occur_at_least cell that is on holds exactly the messages that
\* triggered it, and a cell that is on never has an empty window, which
\* get_latest_message() asserts when the alarm text is built (ma_cell.h:47-52).
OnHasMessages ==
  \A c \in Conds, x \in Slots :
    cell[c][x].on => /\ cell[c][x].msgs # <<>>
                     /\ conf[c].at_least =>
                          Len(cell[c][x].msgs) = TriggerCount(conf[c])

\* A persistent condition, once on, is turned off by nothing but a reset
\* (ma_cell.h:26, "if persistent, the status never turns off").
PersistentStaysOn ==
  [][\A c \in Conds, x \in Slots :
       conf[c].persistent /\ cell[c][x].on /\ ~cell'[c][x].on
         => cell'[c] = [y \in Slots |-> Ground]]_vars

\* A non-persistent occur_at_least cell turns itself off (ma_cell.h:27-28).
TurnsOff ==
  \A c \in Conds, x \in Slots :
    conf[c].at_least /\ ~conf[c].persistent /\ cell[c][x].on ~> ~cell[c][x].on

\* An occur_at_most cell that has seen a message turns on once the messages
\* are too few, unless it is reset (ma_cell.cpp:67-71).
TurnsOn ==
  \A c \in Conds, x \in Slots :
    ~conf[c].at_least /\ cell[c][x].msgs # <<>>
      ~> (cell[c][x].on \/ cell[c][x].msgs = <<>>)

\* Whatever status a cell has that is not for ever, it ends: a burst is over once the
\* messages stop, and silence is noticed (ma_cell.cpp:47-76, 87-102).
StatusEnds == TurnsOff /\ TurnsOn
=============================================================================
