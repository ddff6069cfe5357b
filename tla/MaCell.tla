------------------------------- MODULE MaCell -------------------------------
(***************************************************************************)
(* One cell of a condition's hitmap (ErrorHandler/MessageAnalyzer/         *)
(* ma_cell.cpp): the sliding window of the messages that hit it, its       *)
(* status, and the time of the timing event that will next look at it.     *)
(*                                                                         *)
(* A message is its time stamp (msg.time().tv_sec): nothing else of it is  *)
(* read by the cell.  The operators below are the steps of hit() and       *)
(* event(), so that CellTiming can run them in one piece and CellThreads   *)
(* one at a time.                                                          *)
(***************************************************************************)
EXTENDS Integers, Sequences

\* What the configuration file says of a condition: its rate and whether it
\* is persistent.  occur = 0 with at_least would make the trigger count 0 and
\* hit() read the front of an empty list, so it is excluded here.
CondParam == {p \in [occur : Nat, at_least : BOOLEAN, timespan : Nat,
                     persistent : BOOLEAN] : p.at_least => p.occur > 0}

\* The number of messages in the window that decides the status.
TriggerCount(p) == IF p.at_least THEN p.occur ELSE p.occur + 1

Seconds == Nat

Cell == [msgs : Seq(Seconds), on : BOOLEAN, t_event : Seconds]

Ground == [msgs |-> <<>>, on |-> FALSE, t_event |-> 0]

-----------------------------------------------------------------------------
(* hit(): a message with time stamp t passed the condition's tests.        *)

\* Mutation: a persistent cell is treated like any other.
IgnoresNothing(cell, p) == FALSE

\* A persistent cell that is on only rotates its window.
Ignores(cell, p) == cell.on /\ p.persistent

\* Mutation: the oldest message is popped and the new one is not pushed.
RotatePopOnly(s, t) == IF s = <<>> THEN s ELSE Tail(s)

Rotate(s, t) == Tail(Append(s, t))

\* Messages are dropped from the front until one is recent enough, compared
\* with the message that has just come in (which always is).
FirstRecent(s, latest, timespan) ==
  CHOOSE k \in DOMAIN s : /\ latest - s[k] <= timespan
                          /\ \A j \in 1 .. k-1 : latest - s[j] > timespan

PopExpired(s, latest, timespan) ==
  SubSeq(s, FirstRecent(s, latest, timespan), Len(s))

PopExcess(s, n) == IF Len(s) > n THEN SubSeq(s, Len(s) - n + 1, Len(s)) ELSE s

\* The window after the message has been pushed and the old ones popped.
Window(s, t, p) ==
  PopExcess(PopExpired(Append(s, t), t, p.timespan), TriggerCount(p))

\* The status the window calls for, before any timing event.
NewState(w, p) == p.at_least /\ Len(w) = TriggerCount(p)

\* Mutations: only one kind of condition schedules events; the sign of the
\* time span is wrong.
SchedulesAtMost(w, p) == ~p.at_least
SchedulesFull(w, p) == Len(w) = TriggerCount(p)
EventTimeBefore(w, p) == w[1] - p.timespan - 1

\* Whether the hit schedules a timing event, and for when.
Schedules(w, p) == Len(w) = TriggerCount(p) \/ ~p.at_least

EventTime(w, p) == w[1] + p.timespan + 1

\* The whole of hit() when nothing interferes with it.
Hit(cell, t, p) ==
  IF Ignores(cell, p)
  THEN [cell EXCEPT !.msgs = Rotate(@, t)]
  ELSE LET w == Window(cell.msgs, t, p)
       IN  [msgs    |-> w,
            on      |-> NewState(w, p),
            t_event |-> IF Schedules(w, p) THEN EventTime(w, p)
                                           ELSE cell.t_event]

HitSchedules(cell, t, p) ==
  ~Ignores(cell, p) /\ Schedules(Window(cell.msgs, t, p), p)

-----------------------------------------------------------------------------
(* event(): a timing event with time stamp t has become due.               *)

\* Mutations: the persistence flag is read the wrong way round; the kind of the
\* condition is forgotten.
EventStatusInverted(p) == ~p.at_least \/ ~p.persistent
EventStatusPersistent(p) == p.persistent

\* The status a cell gets when the event it waits for comes.
EventStatus(p) == ~p.at_least \/ p.persistent

Event(cell, t, p) ==
  IF t = cell.t_event THEN [cell EXCEPT !.on = EventStatus(p)] ELSE cell
=============================================================================
