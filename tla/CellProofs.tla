----------------------------- MODULE CellProofs -----------------------------
(***************************************************************************)
(* Theorems about the cells.  Of CellTiming: its type invariant, the four  *)
(* invariants that tie a cell's status to its window and to the event      *)
(* queue, and that a persistent cell stays on.  Of CellThreads: that a     *)
(* cell that is on has a full window whichever thread is between which     *)
(* steps.                                                                  *)
(***************************************************************************)
EXTENDS CellTiming, CellThreads, DataProofs

-----------------------------------------------------------------------------
(* The inductive invariant.  Two facts are added to the properties of      *)
(* CellTiming.  Every queued event has a positive time stamp, and a cell   *)
(* with an empty window waits for the event at time 0: together they say   *)
(* that an event left over from before a reset finds no cell waiting for   *)
(* it until the cell has been hit again.                                   *)

QueueAfterZero == \A e \in queue : e.ts > 0

EmptyWaitsForNothing ==
  \A c \in Conds, x \in Slots :
    cell[c][x].msgs = <<>> => cell[c][x].t_event = 0

IInv ==
  /\ TypeOK
  /\ QueueAfterZero
  /\ EmptyWaitsForNothing
  /\ OffEventPending
  /\ OnEventPending
  /\ OffWaitsForNothing
  /\ OnHasMessages

\* The part of the invariant that speaks of one cell k with parameters p;
\* q says whether the event k waits for is in the queue.
CellInv(k, p, q) ==
  /\ k.msgs = <<>> => k.t_event = 0
  /\ p.at_least /\ ~p.persistent /\ k.on => q
  /\ ~p.at_least /\ k.msgs # <<>> /\ ~k.on => q
  /\ p.at_least /\ p.persistent /\ ~k.on => k.t_event = 0
  /\ k.on => k.msgs # <<>> /\ (p.at_least => Len(k.msgs) = TriggerCount(p))

\* The invariant, cell by cell.
LEMMA IInvByCell ==
  IInv <=> /\ TypeOK
           /\ QueueAfterZero
           /\ \A c \in Conds, x \in Slots :
                CellInv(cell[c][x], conf[c], Pending(c, x))
BY DEF IInv, EmptyWaitsForNothing, OffEventPending, OnEventPending,
       OffWaitsForNothing, OnHasMessages, CellInv

\* The same of the next state.
LEMMA IInvByCellPrime ==
  IInv' <=> /\ TypeOK'
            /\ QueueAfterZero'
            /\ \A c \in Conds, x \in Slots :
                 CellInv(cell'[c][x], conf'[c], Pending(c, x)')
BY DEF IInv, EmptyWaitsForNothing, OffEventPending, OnEventPending,
       OffWaitsForNothing, OnHasMessages, CellInv

\* A hit keeps the invariant of the cell it hits: q is whether the event the
\* cell waited for was queued, and the hit queues the new one if it schedules.
LEMMA HitKeepsCellInv ==
  ASSUME NEW k \in Cell, NEW t \in Nat, NEW p \in CondParam, NEW q \in BOOLEAN,
         CellInv(k, p, q), NEW r \in BOOLEAN,
         Hit(k, t, p).t_event = k.t_event /\ q => r,
         HitSchedules(k, t, p) => r
  PROVE  CellInv(Hit(k, t, p), p, r)
<1> DEFINE h == Hit(k, t, p)
<1>1. k.on => k.msgs # <<>> /\ (p.at_least => Len(k.msgs) = TriggerCount(p))
  BY DEF CellInv
<1>2. p.at_least \in BOOLEAN /\ p.persistent \in BOOLEAN
  BY DEF CondParam
<1>3. /\ h.msgs # <<>>
      /\ Ignores(k, p) => /\ h.on /\ h.t_event = k.t_event
                          /\ Len(h.msgs) = Len(k.msgs)
      /\ ~Ignores(k, p) =>
           /\ h.on <=> p.at_least /\ Len(h.msgs) = TriggerCount(p)
           /\ HitSchedules(k, t, p) <=> h.on \/ ~p.at_least
           /\ ~HitSchedules(k, t, p) => h.t_event = k.t_event
  BY <1>1, HitFacts
<1> HIDE DEF h
<1>4. CASE Ignores(k, p)
  BY <1>1, <1>2, <1>3, <1>4 DEF CellInv, Ignores, h
<1>5. CASE ~Ignores(k, p)
  <2>1. k.on /\ p.persistent => FALSE
    BY <1>5 DEF Ignores
  <2>. QED BY <1>1, <1>2, <1>3, <1>5, <2>1 DEF CellInv, h
<1>. QED BY <1>4, <1>5 DEF h

\* The ground state of the hitmaps, with no event queued (ma_hitmap.cpp:12-20).
LEMMA InitIInv == Init => IInv
<1>. SUFFICES ASSUME Init PROVE IInv
  OBVIOUS
<1>1. Ground \in Cell
  BY DEF Ground, Cell, Seconds
<1>2. TypeOK /\ QueueAfterZero
  BY <1>1 DEF Init, TypeOK, TimingEvent, Seconds, QueueAfterZero
<1>3. ASSUME NEW c \in Conds, NEW x \in Slots
      PROVE  CellInv(cell[c][x], conf[c], Pending(c, x))
  BY <1>3 DEF Init, CellInv, Ground
<1>. QED BY <1>2, <1>3, IInvByCell

\* A hit schedules the event its cell needs and leaves the other cells alone
\* (ma_cell.cpp:21-85).
LEMMA HitCellIInv ==
  ASSUME IInv, NEW c \in Conds, NEW x \in Slots, NEW t \in Stamps,
         HitCell(c, x, t)
  PROVE  IInv'
<1> DEFINE k == cell[c][x]
           p == conf[c]
           h == Hit(k, t, p)
<1>1. TypeOK /\ QueueAfterZero /\ CellInv(k, p, Pending(c, x))
  BY IInvByCell
<1>2. k \in Cell /\ p \in CondParam /\ t \in Nat
  BY <1>1, ConfigsAssumption DEF TypeOK, Stamps
<1>3. k.on => k.msgs # <<>>
  BY <1>1 DEF CellInv
<1>4. h \in Cell /\ (HitSchedules(k, t, p) => h.t_event > 0)
  BY <1>2, <1>3, HitFacts DEF HitSchedules
<1>5. /\ cell' = [cell EXCEPT ![c][x] = h]
      /\ queue' = IF HitSchedules(k, t, p)
                  THEN queue \cup {[cond |-> c, slot |-> x, ts |-> h.t_event]}
                  ELSE queue
      /\ conf' = conf /\ now' = now
  BY DEF HitCell
<1>6. CellInv(h, p, Pending(c, x)')
  <2>1. cell'[c][x] = h
    BY <1>1, <1>5 DEF TypeOK
  <2>2. h.t_event = k.t_event /\ Pending(c, x) => Pending(c, x)'
    BY <1>5, <2>1 DEF Pending
  <2>3. HitSchedules(k, t, p) => Pending(c, x)'
    BY <1>5, <2>1 DEF Pending
  <2>4. Pending(c, x) \in BOOLEAN /\ Pending(c, x)' \in BOOLEAN
    BY DEF Pending
  <2> HIDE DEF k, p
  <2>. QED BY <1>1, <1>2, <2>2, <2>3, <2>4, HitKeepsCellInv
<1> HIDE DEF h
<1>7. TypeOK' /\ QueueAfterZero'
  <2>1. cell' \in [Conds -> [Slots -> Cell]]
    BY <1>1, <1>4, <1>5 DEF TypeOK
  <2>2. queue' \in SUBSET TimingEvent
    BY <1>1, <1>4, <1>5 DEF TypeOK, TimingEvent, Cell
  <2>. QED BY <1>1, <1>4, <1>5, <2>1, <2>2 DEF TypeOK, QueueAfterZero
<1>8. ASSUME NEW d \in Conds, NEW y \in Slots
      PROVE  CellInv(cell'[d][y], conf'[d], Pending(d, y)')
  <2>1. CASE d = c /\ y = x
    <3>1. cell'[d][y] = h /\ conf'[d] = p
      BY <1>1, <1>5, <2>1 DEF TypeOK
    <3>. QED BY <1>6, <2>1, <3>1
  <2>2. CASE ~(d = c /\ y = x)
    <3>1. cell'[d][y] = cell[d][y] /\ conf'[d] = conf[d]
      BY <1>1, <1>5, <2>2 DEF TypeOK
    <3>2. Pending(d, y) => Pending(d, y)'
      BY <1>5, <3>1 DEF Pending
    <3>3. CellInv(cell[d][y], conf[d], Pending(d, y))
      BY IInvByCell
    <3>. QED BY <3>1, <3>2, <3>3 DEF CellInv
  <2>. QED BY <2>1, <2>2
<1>. QED BY <1>7, <1>8, IInvByCellPrime

\* A reset leaves cells that need no event, whatever the queue still holds
\* (ma_hitmap.cpp:22-30).
LEMMA ResetCondIInv ==
  ASSUME IInv, NEW c \in Conds, ResetCond(c)
  PROVE  IInv'
<1>1. TypeOK /\ QueueAfterZero
  BY DEF IInv
<1>2. Ground \in Cell
  BY DEF Ground, Cell, Seconds
<1>3. TypeOK' /\ QueueAfterZero'
  BY <1>1, <1>2 DEF ResetCond, TypeOK, QueueAfterZero
<1>4. ASSUME NEW d \in Conds, NEW y \in Slots
      PROVE  CellInv(cell'[d][y], conf'[d], Pending(d, y)')
  <2>1. CASE d = c
    <3>1. cell'[d][y] = Ground
      BY <1>1, <2>1 DEF ResetCond, TypeOK
    <3>. QED BY <3>1 DEF CellInv, Ground
  <2>2. CASE d # c
    <3>1. cell'[d][y] = cell[d][y] /\ conf'[d] = conf[d] /\ queue' = queue
      BY <1>1, <2>2 DEF ResetCond, TypeOK
    <3>2. CellInv(cell[d][y], conf[d], Pending(d, y))
      BY IInvByCell
    <3>. QED BY <3>1, <3>2 DEF Pending
  <2>. QED BY <2>1, <2>2
<1>. QED BY <1>3, <1>4, IInvByCellPrime

\* A pass of the worker leaves a cell alone unless the event it waits for is
\* due; that event is then gone, and the cell has the status of an event.
LEMMA WorkerPassIInv ==
  ASSUME IInv, WorkerPass
  PROVE  IInv'
<1>1. TypeOK /\ QueueAfterZero
  BY DEF IInv
<1>2. ASSUME NEW d \in Conds, NEW y \in Slots
      PROVE  /\ cell[d][y] \in Cell /\ conf[d] \in CondParam
             /\ CellInv(cell[d][y], conf[d], Pending(d, y))
             /\ cell'[d][y] = AfterPass(d, y)
             /\ conf'[d] = conf[d]
  BY <1>1, IInvByCell, ConfigsAssumption DEF TypeOK, WorkerPass
<1>3. ASSUME NEW d \in Conds, NEW y \in Slots
      PROVE  /\ AfterPass(d, y) \in Cell
             /\ CellInv(AfterPass(d, y), conf'[d], Pending(d, y)')
  <2> DEFINE k == cell[d][y]
             p == conf[d]
             e == [cond |-> d, slot |-> y, ts |-> k.t_event]
  <2>1. /\ k \in Cell /\ p \in CondParam /\ conf'[d] = p
        /\ CellInv(k, p, Pending(d, y)) /\ cell'[d][y] = AfterPass(d, y)
    BY <1>2, <1>3
  <2>2. p.at_least \in BOOLEAN /\ p.persistent \in BOOLEAN /\ k.on \in BOOLEAN
    BY <2>1 DEF CondParam, Cell
  <2>3. CASE e \in Due
    <3>1. AfterPass(d, y) = [k EXCEPT !.on = EventStatus(p)]
      BY <2>3 DEF AfterPass, Event
    <3>2. k.t_event > 0
      BY <1>1, <2>3 DEF Due, QueueAfterZero
    <3>3. k.msgs # <<>> /\ (p.at_least /\ p.persistent => k.on)
      BY <2>1, <2>2, <3>2 DEF CellInv
    <3>4. EventStatus(p) \in BOOLEAN /\ (EventStatus(p) <=> ~p.at_least \/ p.persistent)
      BY <2>2 DEF EventStatus
    <3> HIDE DEF k, p
    <3>5. AfterPass(d, y) \in Cell
      BY <2>1, <3>1, <3>4 DEF Cell
    <3>6. CellInv(AfterPass(d, y), p, Pending(d, y)')
      BY <2>1, <2>2, <3>1, <3>3, <3>4 DEF CellInv, Cell
    <3>. QED BY <2>1, <3>5, <3>6
  <2>4. CASE e \notin Due
    <3>1. AfterPass(d, y) = k
      BY <2>4 DEF AfterPass
    <3>2. Pending(d, y) => Pending(d, y)'
      BY <2>1, <2>4, <3>1 DEF Pending, WorkerPass
    <3>. QED BY <2>1, <3>1, <3>2 DEF CellInv
  <2>. QED BY <2>3, <2>4
<1>4. TypeOK' /\ QueueAfterZero'
  <2>1. cell' = [c \in Conds |-> [x \in Slots |-> AfterPass(c, x)]]
    BY DEF WorkerPass
  <2>2. cell' \in [Conds -> [Slots -> Cell]]
    BY <1>3, <2>1
  <2>. QED BY <1>1, <2>2 DEF WorkerPass, TypeOK, QueueAfterZero, Due
<1>. QED BY <1>2, <1>3, <1>4, IInvByCellPrime

\* Every step keeps the inductive invariant.
LEMMA NextIInv == IInv /\ [Next]_vars => IInv'
<1>. SUFFICES ASSUME IInv, [Next]_vars PROVE IInv'
  OBVIOUS
<1>1. CASE \E c \in Conds, x \in Slots, t \in Stamps : HitCell(c, x, t)
  BY <1>1, HitCellIInv
<1>2. CASE \E c \in Conds : ResetCond(c)
  BY <1>2, ResetCondIInv
<1>3. CASE WorkerPass
  BY <1>3, WorkerPassIInv
<1>4. CASE Tick
  BY <1>4, BoundsAssumption DEF Tick, IInv, TypeOK, Seconds, QueueAfterZero,
     EmptyWaitsForNothing, OffEventPending, OnEventPending, OffWaitsForNothing,
     OnHasMessages, Pending
<1>5. CASE UNCHANGED vars
  BY <1>5 DEF vars, IInv, TypeOK, Seconds, QueueAfterZero,
     EmptyWaitsForNothing, OffEventPending, OnEventPending, OffWaitsForNothing,
     OnHasMessages, Pending
<1>. QED BY <1>1, <1>2, <1>3, <1>4, <1>5 DEF Next

-----------------------------------------------------------------------------
(* The theorems.                                                           *)

\* The invariant that the theorems below rest on.
THEOREM Inductive == Spec => []IInv
<1>. QED BY InitIInv, NextIInv, PTL DEF Spec

\* Type correctness of the cells, the event queue and the clock.
THEOREM TypeCorrect == Spec => []TypeOK
<1>1. IInv => TypeOK
  BY DEF IInv
<1>. QED BY <1>1, Inductive, PTL

\* For every configuration and every order of messages, resets and worker
\* passes: a non-persistent occur_at_least cell that is on has its switch-off
\* event queued (ma_cell.cpp:47-61).
THEOREM OffEventAlwaysPending == Spec => []OffEventPending
<1>1. IInv => OffEventPending
  BY DEF IInv
<1>. QED BY <1>1, Inductive, PTL

\* An occur_at_most cell that has seen a message and is off has its switch-on
\* event queued (ma_cell.cpp:62-76).
THEOREM OnEventAlwaysPending == Spec => []OnEventPending
<1>1. IInv => OnEventPending
  BY DEF IInv
<1>. QED BY <1>1, Inductive, PTL

\* An event left in the queue by a reset cannot switch a persistent
\* occur_at_least cell on (ma_cell.cpp:87-109).
THEOREM NoRevival == Spec => []OffWaitsForNothing
<1>1. IInv => OffWaitsForNothing
  BY DEF IInv
<1>. QED BY <1>1, Inductive, PTL

\* The window of a cell that is on is never empty, so get_latest_message()'s
\* assertion holds (ma_cell.h:47-52).
THEOREM OnAlwaysHasMessages == Spec => []OnHasMessages
<1>1. IInv => OnHasMessages
  BY DEF IInv
<1>. QED BY <1>1, Inductive, PTL

\* A persistent cell, once on, is turned off by nothing but a reset of its
\* condition, which puts every cell of the condition back to the ground state
\* (ma_cell.cpp:30-34, 93).
THEOREM PersistentNeverTurnsOff == Spec => PersistentStaysOn
<1> DEFINE Keeps ==
      \A c \in Conds, x \in Slots :
        conf[c].persistent /\ cell[c][x].on /\ ~cell'[c][x].on
          => cell'[c] = [y \in Slots |-> Ground]
<1>1. TypeOK /\ [Next]_vars => [Keeps]_vars
  <2>. SUFFICES ASSUME TypeOK, Next, NEW c \in Conds, NEW x \in Slots,
                       conf[c].persistent, cell[c][x].on, ~cell'[c][x].on
                PROVE  cell'[c] = [y \in Slots |-> Ground]
    OBVIOUS
  <2>1. CASE \E d \in Conds, y \in Slots, t \in Stamps : HitCell(d, y, t)
    <3>1. PICK d \in Conds, y \in Slots, t \in Stamps : HitCell(d, y, t)
      BY <2>1
    <3>2. cell'[c][x] = cell[c][x] \/ cell'[c][x] = Hit(cell[c][x], t, conf[c])
      BY <3>1 DEF HitCell, TypeOK
    <3>3. Hit(cell[c][x], t, conf[c]).on = cell[c][x].on
      <4>1. cell[c][x] \in Cell
        BY DEF TypeOK
      <4>. QED BY <4>1 DEF Hit, Ignores, Cell
    <3>. QED BY <3>2, <3>3
  <2>2. CASE \E d \in Conds : ResetCond(d)
    <3>1. PICK d \in Conds : ResetCond(d)
      BY <2>2
    <3>2. CASE d = c
      BY <3>1, <3>2 DEF ResetCond, TypeOK
    <3>3. CASE d # c
      BY <3>1, <3>3 DEF ResetCond, TypeOK
    <3>. QED BY <3>2, <3>3
  <2>3. CASE WorkerPass
    <3>1. cell'[c][x] = AfterPass(c, x)
      BY <2>3 DEF WorkerPass
    <3>2. cell[c][x] \in Cell
      BY DEF TypeOK
    <3>3. AfterPass(c, x).on
      BY <3>2 DEF AfterPass, Event, EventStatus, Cell
    <3>. QED BY <3>1, <3>3
  <2>4. CASE Tick
    BY <2>4 DEF Tick
  <2>. QED BY <2>1, <2>2, <2>3, <2>4 DEF Next
<1>2. Spec => [][Keeps]_vars
  BY <1>1, TypeCorrect, PTL DEF Spec
<1>. QED BY <1>2 DEF PersistentStaysOn

-----------------------------------------------------------------------------
(* Bags of events.                                                         *)

EventBag(B) == IsABag(B) /\ BagToSet(B) \subseteq PendingEvent

LEMMA EmptyEventBag == EventBag(EmptyBag)
BY DEF EventBag, IsABag, BagToSet, EmptyBag, SetToBag

LEMMA PushEvent ==
  ASSUME NEW B, EventBag(B), NEW e \in PendingEvent
  PROVE  EventBag(B (+) SetToBag({e}))
BY DEF EventBag, IsABag, BagToSet, SetToBag, (+)

LEMMA PopEvent ==
  ASSUME NEW B, EventBag(B), NEW e
  PROVE  EventBag(B (-) SetToBag({e}))
BY DEF EventBag, IsABag, BagToSet, SetToBag, (-)

-----------------------------------------------------------------------------
(* The inductive invariant of CellThreads.                                 *)

\* The conditions that OnIsBacked is about.
Relevant == setting.at_least /\ ~setting.persistent

Full(x) == Len(cells[x].msgs) = TriggerCount(setting)

InHit == gui.at \in {"schedule", "flip"}

\* The status that hit() is about to set is the one its window calls for, unless the
\* worker's reset has run into this hit.
NewStateIsBacked ==
  Relevant /\ InHit /\ gui.slot \notin raced /\ gui.new_state => Full(gui.slot)

\* Only hit() leaves a cell on with a window it is at work on: reset() turns the cell
\* off before it empties the window.
OnIsFull ==
  \A x \in Places \ raced :
    Relevant /\ cells[x].on /\ ~(InHit /\ gui.slot = x) => Full(x)

\* reset() has turned the cell off that it is about to empty.
ClearingIsOff == Relevant /\ gui.at = "clear" => ~cells[gui.slot].on

\* So has the worker's, if the GUI thread has not come in between.
WorkerClearingIsOff ==
  Relevant /\ worker.at = "clear" /\ worker.slot \notin raced
    => ~cells[worker.slot].on /\ ~(InHit /\ gui.slot = worker.slot)

ThreadsIInv ==
  /\ ThreadsTypeOK
  /\ NewStateIsBacked
  /\ OnIsFull
  /\ ClearingIsOff
  /\ WorkerClearingIsOff

\* What the worker does to a relevant cell is to turn it off.
LEMMA WorkerTurnsOff == Relevant => EventStatus(setting) = FALSE
BY DEF Relevant, EventStatus

LEMMA ThreadsInitIInv == ThreadsInit => ThreadsIInv
<1>. SUFFICES ASSUME ThreadsInit PROVE ThreadsIInv
  OBVIOUS
<1>1. ThreadsTypeOK
  <2>1. Ground \in Cell
    BY DEF Ground, Cell, Seconds
  <2>2. EventBag(pending)
    BY EmptyEventBag DEF ThreadsInit
  <2>. QED BY <2>1, <2>2, ThreadsAssumption DEF ThreadsInit, ThreadsTypeOK, EventBag, GuiIdle,
                                                Seconds
<1>. QED BY <1>1 DEF ThreadsInit, ThreadsIInv, NewStateIsBacked, OnIsFull, ClearingIsOff,
                     WorkerClearingIsOff, InHit,
                     GuiIdle, Ground

LEMMA HitWindowIInv ==
  ASSUME ThreadsIInv, NEW x \in Places, NEW t \in 1 .. LastStamp, HitWindow(x, t)
  PROVE  ThreadsIInv'
<1>. DEFINE w == Window(cells[x].msgs, t, setting)
<1>1. setting \in CondParam /\ cells[x] \in Cell /\ t \in Nat /\ hits' \in 0 .. MaxHits
      /\ raced' \subseteq Places
  BY ThreadsAssumption DEF ThreadsIInv, ThreadsTypeOK, HitWindow
<1>2. CASE /\ Ignores(cells[x], setting)
           /\ cells' = [cells EXCEPT ![x].msgs = Rotate(@, t)]
           /\ UNCHANGED gui
  <2>1. Rotate(cells[x].msgs, t) \in Seq(Nat)
    BY <1>1 DEF Rotate, Cell, Seconds
  <2>2. cells' \in [Places -> Cell]
    BY <1>2, <2>1 DEF ThreadsIInv, ThreadsTypeOK, Cell, Seconds
  <2>3. ThreadsTypeOK'
    BY <1>1, <1>2, <2>2 DEF ThreadsIInv, ThreadsTypeOK, HitWindow
  <2>4. ~Relevant'
    BY <1>2 DEF HitWindow, Ignores, Relevant
  <2>. QED BY <2>3, <2>4 DEF ThreadsIInv, NewStateIsBacked, OnIsFull, ClearingIsOff,
                             WorkerClearingIsOff
<1>3. CASE /\ ~Ignores(cells[x], setting)
           /\ cells' = [cells EXCEPT ![x].msgs = w]
           /\ gui' = [at |-> IF Schedules(w, setting) THEN "schedule" ELSE "flip",
                      slot |-> x, new_state |-> NewState(w, setting)]
  <2>1. w \in Seq(Nat)
    BY <1>1, WindowFacts DEF Cell, Seconds
  <2>2. NewState(w, setting) \in BOOLEAN /\ (NewState(w, setting) => Len(w) = TriggerCount(setting))
    BY <1>1 DEF NewState, CondParam
  <2> HIDE DEF w
  <2>3. cells' \in [Places -> Cell] /\ cells'[x].msgs = w
        /\ \A y \in Places : cells'[y].on = cells[y].on /\ (y # x => cells'[y] = cells[y])
    BY <1>3, <2>1 DEF ThreadsIInv, ThreadsTypeOK, Cell, Seconds
  <2>4. gui' \in [at : {"schedule", "flip"}, slot : Places, new_state : BOOLEAN]
    BY <1>3, <2>2
  <2>5. ThreadsTypeOK'
    BY <1>1, <2>3, <2>4 DEF ThreadsIInv, ThreadsTypeOK, HitWindow
  <2>6. gui'.slot = x /\ gui'.at # "clear" /\ gui'.at \in {"schedule", "flip"}
        /\ gui'.new_state = NewState(w, setting) /\ setting' = setting /\ worker' = worker
        /\ gui = GuiIdle
    BY <1>3 DEF HitWindow
  <2>7. NewStateIsBacked' /\ ClearingIsOff'
    BY <2>2, <2>3, <2>6 DEF NewStateIsBacked, ClearingIsOff, Full
  <2>8. OnIsFull'
    <3>1. \A y \in Places \ raced' : y # x => y \notin raced
      BY DEF HitWindow
    <3>. QED BY <2>3, <2>6, <3>1 DEF ThreadsIInv, OnIsFull, Full, InHit, Relevant, GuiIdle
  <2>9. WorkerClearingIsOff'
    <3>. SUFFICES ASSUME Relevant, worker.at = "clear", worker.slot \notin raced'
                  PROVE  ~cells'[worker.slot].on /\ worker.slot # x
      BY <2>6 DEF WorkerClearingIsOff, Relevant, InHit
    <3>1. worker.slot # x /\ worker.slot \notin raced
      BY DEF HitWindow, WorkerResetting
    <3>2. worker.slot \in Places
      BY DEF ThreadsIInv, ThreadsTypeOK
    <3>. QED BY <2>3, <3>1, <3>2 DEF ThreadsIInv, WorkerClearingIsOff
  <2>. QED BY <2>5, <2>7, <2>8, <2>9 DEF ThreadsIInv
<1>. QED BY <1>2, <1>3 DEF HitWindow

LEMMA HitScheduleIInv ==
  ASSUME ThreadsIInv, HitSchedule
  PROVE  ThreadsIInv'
<1>. DEFINE x == gui.slot
<1>1. gui \in [at : {"schedule", "flip"}, slot : Places, new_state : BOOLEAN]
  BY DEF HitSchedule, ThreadsIInv, ThreadsTypeOK, GuiIdle
<1>2. PICK w \in Fronts(cells[x].msgs) :
        /\ cells' = [cells EXCEPT ![x].t_event = EventTime(w, setting)]
        /\ pending' = pending (+) SetToBag({[slot |-> x, ts |-> EventTime(w, setting)]})
  BY DEF HitSchedule
<1>3. EventTime(w, setting) \in Nat
  <2>1. setting.timespan \in Nat
    BY ThreadsAssumption DEF ThreadsIInv, ThreadsTypeOK, CondParam
  <2>2. cells[x].msgs \in Seq(Nat)
    BY <1>1 DEF ThreadsIInv, ThreadsTypeOK, Cell, Seconds
  <2>3. CASE cells[x].msgs = <<>>
    <3>1. PICK t \in {0, LastTime} : w = <<t>>
      BY <1>2, <2>3 DEF Fronts
    <3>2. t \in Nat
      BY <3>1, ThreadsAssumption
    <3>. QED BY <2>1, <3>1, <3>2 DEF EventTime
  <2>4. CASE cells[x].msgs # <<>>
    <3>1. w[1] \in Nat
      BY <1>2, <2>2, <2>4 DEF Fronts
    <3>. QED BY <2>1, <3>1 DEF EventTime
  <2>. QED BY <2>3, <2>4
<1>4. cells' \in [Places -> Cell]
      /\ \A y \in Places : cells'[y].on = cells[y].on /\ cells'[y].msgs = cells[y].msgs
  BY <1>1, <1>2, <1>3 DEF ThreadsIInv, ThreadsTypeOK, Cell, Seconds
<1>5. gui' = [at |-> "flip", slot |-> gui.slot, new_state |-> gui.new_state]
  BY <1>1 DEF HitSchedule
<1>6. EventBag(pending')
  <2>1. [slot |-> x, ts |-> EventTime(w, setting)] \in PendingEvent
    BY <1>1, <1>3 DEF PendingEvent, Seconds
  <2>. QED BY <1>2, <2>1, PushEvent DEF ThreadsIInv, ThreadsTypeOK, EventBag
<1>7. ThreadsTypeOK'
  BY <1>1, <1>4, <1>5, <1>6 DEF HitSchedule, ThreadsIInv, ThreadsTypeOK, EventBag
<1>8. setting' = setting /\ raced' = raced /\ worker' = worker
      /\ gui'.slot = gui.slot /\ gui'.new_state = gui.new_state
      /\ gui.at = "schedule" /\ gui'.at = "flip" /\ worker.at # "clear"
  BY <1>5 DEF HitSchedule, WorkerHasLock
<1>9. NewStateIsBacked' /\ OnIsFull' /\ ClearingIsOff' /\ WorkerClearingIsOff'
  BY <1>1, <1>4, <1>8 DEF ThreadsIInv, NewStateIsBacked, OnIsFull, ClearingIsOff,
                          WorkerClearingIsOff, Full, InHit, Relevant
<1>. QED BY <1>7, <1>9 DEF ThreadsIInv

LEMMA HitFlipIInv ==
  ASSUME ThreadsIInv, HitFlip
  PROVE  ThreadsIInv'
<1>1. gui \in [at : {"schedule", "flip"}, slot : Places, new_state : BOOLEAN]
  BY DEF HitFlip, ThreadsIInv, ThreadsTypeOK, GuiIdle
<1>2. /\ cells' \in [Places -> Cell] /\ cells'[gui.slot].on = gui.new_state
      /\ \A y \in Places : cells'[y].msgs = cells[y].msgs /\ (y # gui.slot => cells'[y] = cells[y])
  BY <1>1 DEF HitFlip, ThreadsIInv, ThreadsTypeOK, Cell
<1>3. gui' = GuiIdle /\ setting' = setting /\ worker' = worker /\ raced' = raced
      /\ gui.at = "flip"
  BY DEF HitFlip
<1>4. ThreadsTypeOK'
  BY <1>2, <1>3 DEF HitFlip, ThreadsIInv, ThreadsTypeOK
<1>5. OnIsFull'
  BY <1>1, <1>2, <1>3 DEF ThreadsIInv, NewStateIsBacked, OnIsFull, Full, InHit, Relevant
<1>6. NewStateIsBacked' /\ ClearingIsOff'
  BY <1>3 DEF NewStateIsBacked, ClearingIsOff, InHit, GuiIdle
<1>7. WorkerClearingIsOff'
  <2>. SUFFICES ASSUME Relevant, worker.at = "clear", worker.slot \notin raced
                PROVE  ~cells'[worker.slot].on
    BY <1>3 DEF WorkerClearingIsOff, Relevant, InHit, GuiIdle
  <2>1. worker.slot # gui.slot /\ ~cells[worker.slot].on
    BY <1>3 DEF ThreadsIInv, WorkerClearingIsOff, InHit
  <2>2. worker.slot \in Places
    BY DEF ThreadsIInv, ThreadsTypeOK
  <2>. QED BY <1>2, <2>1, <2>2
<1>. QED BY <1>4, <1>5, <1>6, <1>7 DEF ThreadsIInv

LEMMA ResetBeginIInv ==
  ASSUME ThreadsIInv, ResetBegin
  PROVE  ThreadsIInv'
BY DEF ResetBegin, ThreadsIInv, ThreadsTypeOK, NewStateIsBacked, OnIsFull, ClearingIsOff,
       WorkerClearingIsOff, Full,
       InHit, Relevant, GuiIdle

LEMMA ResetOnIInv ==
  ASSUME ThreadsIInv, NEW x \in Places, gui.at = "reset", x \in gui.left, ResetOn(x)
  PROVE  ThreadsIInv'
<1>1. gui \in [at : {"reset"}, left : SUBSET Places]
  BY DEF ThreadsIInv, ThreadsTypeOK, GuiIdle
<1>2. /\ cells' \in [Places -> Cell] /\ cells'[x].on = FALSE
      /\ \A y \in Places : cells'[y].msgs = cells[y].msgs /\ (y # x => cells'[y] = cells[y])
  BY DEF ResetOn, ThreadsIInv, ThreadsTypeOK, Cell
<1>3. gui' = [at |-> "clear", left |-> gui.left \ {x}, slot |-> x] /\ setting' = setting
      /\ worker' = worker /\ raced' = raced \ {x}
  BY DEF ResetOn
<1>4. ThreadsTypeOK'
  BY <1>1, <1>2, <1>3 DEF ResetOn, ThreadsIInv, ThreadsTypeOK
<1>5. NewStateIsBacked' /\ OnIsFull' /\ ClearingIsOff'
  BY <1>1, <1>2, <1>3 DEF ThreadsIInv, NewStateIsBacked, OnIsFull, ClearingIsOff, Full,
                          InHit, Relevant
<1>6. WorkerClearingIsOff'
  <2>1. worker.at = "clear" => worker.slot \in Places
    BY DEF ThreadsIInv, ThreadsTypeOK
  <2>2. gui'.at = "clear"
    BY <1>3
  <2>. QED BY <1>2, <1>3, <2>1, <2>2 DEF ThreadsIInv, WorkerClearingIsOff, InHit, Relevant
<1>. QED BY <1>4, <1>5, <1>6 DEF ThreadsIInv

LEMMA ResetClearIInv ==
  ASSUME ThreadsIInv, ResetClear
  PROVE  ThreadsIInv'
<1>1. gui \in [at : {"clear"}, left : SUBSET Places, slot : Places]
  BY DEF ResetClear, ThreadsIInv, ThreadsTypeOK, GuiIdle
<1>2. /\ cells' \in [Places -> Cell]
      /\ \A y \in Places : cells'[y].on = cells[y].on /\ (y # gui.slot => cells'[y] = cells[y])
  <2>1. <<>> \in Seq(Seconds) /\ 0 \in Seconds
    BY DEF Seconds
  <2>. QED BY <1>1, <2>1 DEF ResetClear, ThreadsIInv, ThreadsTypeOK, Cell
<1>3. gui' \in {GuiIdle} \cup [at : {"reset"}, left : SUBSET Places]
      /\ UNCHANGED <<setting, worker, raced>>
  BY <1>1 DEF ResetClear
<1>4. ThreadsTypeOK'
  BY <1>2, <1>3 DEF ResetClear, ThreadsIInv, ThreadsTypeOK
<1>5. gui'.at \in {"idle", "reset"} /\ gui.at = "clear"
  BY <1>3 DEF GuiIdle, ResetClear
<1>6. NewStateIsBacked' /\ OnIsFull' /\ ClearingIsOff'
  BY <1>1, <1>2, <1>3, <1>5 DEF ThreadsIInv, NewStateIsBacked, OnIsFull, ClearingIsOff, Full,
                                InHit, Relevant
<1>7. WorkerClearingIsOff'
  <2>1. worker.at = "clear" => worker.slot \in Places
    BY DEF ThreadsIInv, ThreadsTypeOK
  <2>. QED BY <1>2, <1>3, <1>5, <2>1 DEF ThreadsIInv, WorkerClearingIsOff, InHit, Relevant
<1>. QED BY <1>4, <1>6, <1>7 DEF ThreadsIInv

\* Where the worker can be while it drains the queue.
Draining == [at : {"drain"}, now : Seconds, flipped : BOOLEAN]
Serving == [at : {"event"}, now : Seconds, flipped : BOOLEAN, e : PendingEvent]

LEMMA WorkerTopIInv ==
  ASSUME ThreadsIInv, worker.at = "drain", NEW e \in DueNow, WorkerTop(e)
  PROVE  ThreadsIInv'
<1>1. e \in PendingEvent /\ worker \in Draining
  BY DEF DueNow, ThreadsIInv, ThreadsTypeOK, Draining
<1>2. worker' \in Draining \cup Serving /\ worker'.at # "clear"
  BY <1>1 DEF WorkerTop, Draining, Serving
<1>3. EventBag(pending')
  <2>1. EventBag(pending)
    BY DEF ThreadsIInv, ThreadsTypeOK, EventBag
  <2>2. pending' = pending \/ pending' = pending (-) SetToBag({e})
    BY DEF WorkerTop
  <2>3. EventBag(pending (-) SetToBag({e}))
    BY <2>1, PopEvent
  <2>. QED BY <2>1, <2>2, <2>3
<1>4. UNCHANGED <<setting, cells, gui, clock, hits, raced>>
  BY DEF WorkerTop
<1>5. ThreadsTypeOK'
  BY <1>2, <1>3, <1>4 DEF ThreadsIInv, ThreadsTypeOK, EventBag, Draining, Serving
<1>. QED BY <1>2, <1>4, <1>5 DEF ThreadsIInv, NewStateIsBacked, OnIsFull, ClearingIsOff,
                                 WorkerClearingIsOff, Full, InHit, Relevant

LEMMA WorkerEventIInv ==
  ASSUME ThreadsIInv, WorkerEvent
  PROVE  ThreadsIInv'
<1>1. worker \in Serving
  BY DEF WorkerEvent, EventFlips, ThreadsIInv, ThreadsTypeOK, Serving
<1>2. worker.e.slot \in Places /\ EventStatus(setting) \in BOOLEAN
  BY <1>1, ThreadsAssumption DEF PendingEvent, EventStatus, ThreadsIInv, ThreadsTypeOK,
                                 CondParam, Serving
<1>3. /\ cells' \in [Places -> Cell]
      /\ \A y \in Places : /\ cells'[y].msgs = cells[y].msgs
                          /\ cells'[y].on \in {cells[y].on, EventStatus(setting)}
  BY <1>2 DEF WorkerEvent, EventFlips, ThreadsIInv, ThreadsTypeOK, Cell
<1>4. EventBag(pending')
  BY PopEvent DEF WorkerEvent, ThreadsIInv, ThreadsTypeOK, EventBag
<1>5. UNCHANGED <<setting, gui, clock, hits, raced>> /\ worker' \in Draining
  BY <1>1, <1>2 DEF WorkerEvent, EventFlips, Draining, Serving, ThreadsIInv, ThreadsTypeOK, Cell
<1>6. ThreadsTypeOK'
  BY <1>3, <1>4, <1>5 DEF ThreadsIInv, ThreadsTypeOK, EventBag, Draining
<1>7. Relevant => \A y \in Places : cells'[y].on => cells[y].on
  BY <1>3, WorkerTurnsOff
<1>8. NewStateIsBacked' /\ OnIsFull'
  <2>1. InHit => gui.slot \in Places
    BY DEF InHit, ThreadsIInv, ThreadsTypeOK, GuiIdle
  <2>. QED BY <1>3, <1>5, <1>7, <2>1 DEF ThreadsIInv, NewStateIsBacked, OnIsFull, Full,
                                         InHit, Relevant
<1>9. ClearingIsOff' /\ WorkerClearingIsOff'
  <2>1. gui.at = "clear" => gui.slot \in Places
    BY DEF ThreadsIInv, ThreadsTypeOK, GuiIdle
  <2>2. worker'.at # "clear"
    BY <1>5 DEF Draining
  <2>. QED BY <1>5, <1>7, <2>1, <2>2 DEF ThreadsIInv, ClearingIsOff, WorkerClearingIsOff, Relevant
<1>. QED BY <1>6, <1>8, <1>9 DEF ThreadsIInv

LEMMA WorkerResetOnIInv ==
  ASSUME ThreadsIInv, NEW x \in Places, worker.at = "reset", x \in worker.left, WorkerResetOn(x)
  PROVE  ThreadsIInv'
<1>1. worker \in [at : {"reset"}, rules : 0 .. ResettingRules, left : SUBSET Places]
  BY DEF ThreadsIInv, ThreadsTypeOK
<1>2. /\ cells' \in [Places -> Cell] /\ cells'[x].on = FALSE
      /\ \A y \in Places : cells'[y].msgs = cells[y].msgs /\ (y # x => cells'[y] = cells[y])
  BY DEF WorkerResetOn, ThreadsIInv, ThreadsTypeOK, Cell
<1>3. /\ worker' = [at |-> "clear", rules |-> worker.rules, left |-> worker.left \ {x}, slot |-> x]
      /\ UNCHANGED <<setting, pending, gui, clock, hits>>
      /\ raced' \subseteq Places
      /\ \A y \in Places : y \notin raced' /\ y # x => y \notin raced
      /\ Hitting(x) => x \in raced'
  BY DEF WorkerResetOn, ThreadsIInv, ThreadsTypeOK
<1>4. ThreadsTypeOK'
  BY <1>1, <1>2, <1>3 DEF ThreadsIInv, ThreadsTypeOK
<1>5. InHit \/ gui.at = "clear" => gui.slot \in Places
  BY DEF InHit, ThreadsIInv, ThreadsTypeOK, GuiIdle
<1>6. OnIsFull' /\ ClearingIsOff' /\ WorkerClearingIsOff'
  BY <1>1, <1>2, <1>3, <1>5 DEF ThreadsIInv, OnIsFull, ClearingIsOff,
                                WorkerClearingIsOff, Full, InHit, Relevant, Hitting
<1>7. NewStateIsBacked'
  BY <1>2, <1>3, <1>5 DEF ThreadsIInv, NewStateIsBacked, Full, InHit, Relevant, Hitting
<1>. QED BY <1>4, <1>6, <1>7 DEF ThreadsIInv

LEMMA WorkerResetClearIInv ==
  ASSUME ThreadsIInv, WorkerResetClear
  PROVE  ThreadsIInv'
<1>1. worker \in [at : {"clear"}, rules : 0 .. ResettingRules, left : SUBSET Places,
                  slot : Places]
  BY DEF WorkerResetClear, ThreadsIInv, ThreadsTypeOK
<1>2. /\ cells' \in [Places -> Cell]
      /\ \A y \in Places : cells'[y].on = cells[y].on
                           /\ (y # worker.slot => cells'[y] = cells[y])
  <2>1. <<>> \in Seq(Seconds) /\ 0 \in Seconds
    BY DEF Seconds
  <2>. QED BY <1>1, <2>1 DEF WorkerResetClear, ThreadsIInv, ThreadsTypeOK, Cell
<1>3. /\ worker' \in [at : {"rules"}, rules : 0 .. ResettingRules] \cup
                     [at : {"reset"}, rules : 0 .. ResettingRules, left : SUBSET Places]
      /\ worker'.at # "clear"
      /\ UNCHANGED <<setting, pending, gui, clock, hits, raced>>
  BY <1>1 DEF WorkerResetClear
<1>4. ThreadsTypeOK'
  BY <1>2, <1>3 DEF ThreadsIInv, ThreadsTypeOK
<1>5. InHit \/ gui.at = "clear" => gui.slot \in Places
  BY DEF InHit, ThreadsIInv, ThreadsTypeOK, GuiIdle
<1>6. Relevant /\ worker.slot \notin raced
        => ~cells[worker.slot].on /\ ~(InHit /\ gui.slot = worker.slot)
  BY <1>1 DEF ThreadsIInv, WorkerClearingIsOff
<1>7. OnIsFull' /\ ClearingIsOff' /\ WorkerClearingIsOff' /\ NewStateIsBacked'
  BY <1>1, <1>2, <1>3, <1>5, <1>6 DEF ThreadsIInv, OnIsFull, ClearingIsOff, NewStateIsBacked,
                                      WorkerClearingIsOff, Full, InHit, Relevant
<1>. QED BY <1>4, <1>7 DEF ThreadsIInv

LEMMA WorkerGoesOnIInv ==
  ASSUME ThreadsIInv,
         \/ WorkerWake \/ WorkerLock \/ WorkerRules \/ WorkerEvaluate \/ WorkerSleep
         \/ ClockTick \/ UNCHANGED threadVars
  PROVE  ThreadsIInv'
<1>1. ThreadsTypeOK'
  <2>1. CASE WorkerRules
    <3>1. 0 \in 0 .. ResettingRules /\ ResettingRules \in 0 .. ResettingRules
      BY ThreadsAssumption
    <3>2. worker' \in [at : {"rules"}, rules : 0 .. ResettingRules]
      BY <2>1, <3>1 DEF WorkerRules
    <3>. QED BY <2>1, <3>2 DEF WorkerRules, ThreadsIInv, ThreadsTypeOK
  <2>2. CASE WorkerEvaluate
    <3>1. worker \in [at : {"rules"}, rules : 0 .. ResettingRules]
      BY <2>2 DEF WorkerEvaluate, ThreadsIInv, ThreadsTypeOK
    <3>2. worker.rules - 1 \in 0 .. ResettingRules
      BY <2>2, <3>1, ThreadsAssumption DEF WorkerEvaluate
    <3>. QED BY <2>2, <3>2 DEF WorkerEvaluate, ThreadsIInv, ThreadsTypeOK
  <2>3. CASE WorkerWake \/ WorkerSleep
    BY <2>3 DEF WorkerWake, WorkerSleep, ThreadsIInv, ThreadsTypeOK
  <2>4. CASE WorkerLock
    <3>1. worker.now \in Seconds
      BY <2>4 DEF WorkerLock, ThreadsIInv, ThreadsTypeOK
    <3>. QED BY <2>4, <3>1 DEF WorkerLock, ThreadsIInv, ThreadsTypeOK
  <2>5. CASE ClockTick \/ UNCHANGED threadVars
    BY <2>5 DEF ClockTick, threadVars, ThreadsIInv, ThreadsTypeOK, Seconds
  <2>. QED BY <2>1, <2>2, <2>3, <2>4, <2>5
<1>2. UNCHANGED <<setting, cells, gui, raced>>
  BY DEF WorkerWake, WorkerLock, WorkerRules, WorkerEvaluate, WorkerSleep, ClockTick, threadVars
<1>3. worker' = worker \/ worker'.at # "clear"
  BY DEF WorkerWake, WorkerLock, WorkerRules, WorkerEvaluate, WorkerSleep, ClockTick, threadVars
<1>. QED BY <1>1, <1>2, <1>3 DEF ThreadsIInv, NewStateIsBacked, OnIsFull, ClearingIsOff,
                                 WorkerClearingIsOff, Full, InHit, Relevant

LEMMA ThreadsNextIInv == ThreadsIInv /\ [ThreadsNext]_threadVars => ThreadsIInv'
<1>. SUFFICES ASSUME ThreadsIInv, [ThreadsNext]_threadVars PROVE ThreadsIInv'
  OBVIOUS
<1>1. CASE \E x \in Places, t \in 1 .. LastStamp : HitWindow(x, t)
  BY <1>1, HitWindowIInv
<1>2. CASE HitSchedule \/ ResetBegin
  BY <1>2, HitScheduleIInv, ResetBeginIInv
<1>3. CASE GuiGoesOn
  <2>1. gui.at = "reset" => gui.left \subseteq Places
    BY DEF ThreadsIInv, ThreadsTypeOK, GuiIdle
  <2>. QED BY <1>3, <2>1, HitFlipIInv, ResetOnIInv, ResetClearIInv DEF GuiGoesOn
<1>4. CASE Worker
  <2>1. worker.at = "reset" => worker.left \subseteq Places
    BY DEF ThreadsIInv, ThreadsTypeOK
  <2>. QED BY <1>4, <2>1, WorkerTopIInv, WorkerEventIInv, WorkerResetOnIInv,
              WorkerResetClearIInv, WorkerGoesOnIInv DEF Worker
<1>5. CASE ClockTick \/ UNCHANGED threadVars
  BY <1>5, WorkerGoesOnIInv
<1>. QED BY <1>1, <1>2, <1>3, <1>4, <1>5 DEF ThreadsNext

\* Whatever the settings, the messages, the rules that reset the condition and the
\* interleaving of the two threads, the data are sound, and a non-persistent
\* occur_at_least cell that is on has a full window except while the GUI thread is at
\* work on it and after a hit() that the worker's reset of the cell has run into: events
\* only turn such a cell off, hit() writes what its window called for, and nothing else
\* than that reset takes the window away in between (ma_cell.cpp:26-109,
\* ma_rule_engine.cpp:115-147, 188-221).
THEOREM ThreadsInvariant == ThreadsSpec => []ThreadsInv
<1>1. ThreadsIInv => ThreadsInv
  BY DEF ThreadsIInv, ThreadsInv, OnIsFull, OnIsBacked, Full, GuiBusyWith, InHit, Relevant
<1>. QED BY ThreadsInitIInv, ThreadsNextIInv, <1>1, PTL DEF ThreadsSpec
=============================================================================
