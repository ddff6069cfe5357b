----------------------------- MODULE CellThreads -----------------------------
(***************************************************************************)
(* The timing core with its two threads.  The GUI thread feeds messages to *)
(* the cells and resets them; the worker thread serves the timing events.  *)
(* Only the push of an event and the body of a worker pass take the lock   *)
(* of the event queue: the rest of hit(), and reset(), touch the same      *)
(* fields without it.  Each access to a shared field that the other thread *)
(* also writes is a step of its own.  The pass ends with the rules that    *)
(* watch the condition, still under the lock: one that alarms and has an   *)
(* action resets the condition from the worker thread.                     *)
(***************************************************************************)
EXTENDS MaCell, Bags

CONSTANTS
  Places,   \* the (source, target) index pairs of the condition's hitmap
  Settings, \* the settings the configuration file may give the condition
  ResettingRules, \* how many rules watch the condition and reset it when they alarm
  MaxHits,  \* bound: how many messages hit the condition
  LastStamp,\* bound: the latest time stamp of a message
  LastTime  \* bound: the clock stops here

ASSUME ThreadsAssumption ==
  /\ Settings \subseteq CondParam /\ ResettingRules \in Nat
  /\ MaxHits \in Nat /\ LastStamp \in Nat /\ LastTime \in Nat

VARIABLES
  setting,  \* the parameters of the condition
  cells,    \* its cells
  pending,  \* the event queue, a bag: one event may be queued several times
  gui,      \* where the GUI thread is, and its local variables
  worker,   \* where the worker thread is, and its local variables
  clock,    \* the clock
  hits,     \* messages fed so far
  raced     \* history, read by no guard: the cells whose latest hit() overlapped
            \* with a reset() of the same cell by the worker

threadVars == <<setting, cells, pending, gui, worker, clock, hits, raced>>

PendingEvent == [slot : Places, ts : Seconds]

GuiIdle == [at |-> "idle"]

\* The lock is held by the worker from its taking it to the end of the pass;
\* the GUI thread takes and releases it within HitSchedule.
WorkerHasLock == worker.at \notin {"sleep", "lock"}

\* The GUI thread is in hit() of a cell, the worker in reset() of one.
Hitting(x) == gui.at \in {"schedule", "flip"} /\ gui.slot = x
WorkerResetting(x) == worker.at = "clear" /\ worker.slot = x

ThreadsTypeOK ==
  /\ setting \in Settings
  /\ cells \in [Places -> Cell]
  /\ IsABag(pending) /\ BagToSet(pending) \subseteq PendingEvent
  /\ gui \in {GuiIdle} \cup
             [at : {"schedule", "flip"}, slot : Places, new_state : BOOLEAN] \cup
             [at : {"reset"}, left : SUBSET Places] \cup
             [at : {"clear"}, left : SUBSET Places, slot : Places]
  /\ worker \in [at : {"sleep"}] \cup [at : {"lock"}, now : Seconds] \cup
                [at : {"drain"}, now : Seconds, flipped : BOOLEAN] \cup
                [at : {"event"}, now : Seconds, flipped : BOOLEAN, e : PendingEvent] \cup
                [at : {"rules"}, rules : 0 .. ResettingRules] \cup
                [at : {"reset"}, rules : 0 .. ResettingRules, left : SUBSET Places] \cup
                [at : {"clear"}, rules : 0 .. ResettingRules, left : SUBSET Places,
                 slot : Places]
  /\ clock \in Seconds /\ hits \in 0 .. MaxHits
  /\ raced \subseteq Places

ThreadsInit ==
  /\ setting \in Settings
  /\ cells = [x \in Places |-> Ground]
  /\ pending = EmptyBag
  /\ gui = GuiIdle
  /\ worker = [at |-> "sleep"]
  /\ clock = 0
  /\ hits = 0
  /\ raced = {}

-----------------------------------------------------------------------------
(* The GUI thread: feed() reaches hit().                                   *)

\* hit() up to the point where it needs the lock, or the early return.
HitWindow(x, t) ==
  /\ gui = GuiIdle
  /\ hits < MaxHits
  /\ t <= clock
  /\ hits' = hits + 1
  /\ LET k == cells[x]
         w == Window(k.msgs, t, setting)
     IN  \/ /\ Ignores(k, setting)
            /\ cells' = [cells EXCEPT ![x].msgs = Rotate(@, t)]
            /\ UNCHANGED gui
         \/ /\ ~Ignores(k, setting)
            /\ cells' = [cells EXCEPT ![x].msgs = w]
            /\ gui' = [at |-> IF Schedules(w, setting) THEN "schedule" ELSE "flip",
                       slot |-> x, new_state |-> NewState(w, setting)]
  /\ raced' = IF WorkerResetting(x) THEN raced \cup {x} ELSE raced \ {x}
  /\ UNCHANGED <<setting, pending, worker, clock>>

\* What front() finds in the window: if the worker has cleared it, whatever lies
\* where the first message would be (bound: a time stamp in the past, and one whose
\* event does not come due any more).
Fronts(s) == IF s = <<>> THEN {<<0>>, <<LastTime>>} ELSE {s}

\* The critical section of hit(): note the time of the event and queue it.
HitSchedule ==
  /\ gui.at = "schedule"
  /\ ~WorkerHasLock
  /\ \E w \in Fronts(cells[gui.slot].msgs) :
       LET te == EventTime(w, setting)
       IN  /\ cells' = [cells EXCEPT ![gui.slot].t_event = te]
           /\ pending' = pending (+) SetToBag({[slot |-> gui.slot, ts |-> te]})
  /\ gui' = [gui EXCEPT !.at = "flip"]
  /\ UNCHANGED <<setting, worker, clock, hits, raced>>

\* The end of hit(), after the lock has been released: set the new status.
HitFlip ==
  /\ gui.at = "flip"
  /\ cells' = [cells EXCEPT ![gui.slot].on = gui.new_state]
  /\ gui' = GuiIdle
  /\ UNCHANGED <<setting, pending, worker, clock, hits, raced>>

\* The GUI thread: ma_hitmap::reset() walks over the cells.
ResetBegin ==
  /\ gui = GuiIdle
  /\ gui' = [at |-> "reset", left |-> Places]
  /\ UNCHANGED <<setting, cells, pending, worker, clock, hits, raced>>

ResetOn(x) ==
  /\ gui.at = "reset"
  /\ x \in gui.left
  /\ cells' = [cells EXCEPT ![x].on = FALSE]
  /\ gui' = [at |-> "clear", left |-> gui.left \ {x}, slot |-> x]
  /\ raced' = raced \ {x}
  /\ UNCHANGED <<setting, pending, worker, clock, hits>>

ResetClear ==
  /\ gui.at = "clear"
  /\ cells' = [cells EXCEPT ![gui.slot].t_event = 0, ![gui.slot].msgs = <<>>]
  /\ gui' = IF gui.left = {} THEN GuiIdle ELSE [at |-> "reset", left |-> gui.left]
  /\ UNCHANGED <<setting, pending, worker, clock, hits, raced>>

-----------------------------------------------------------------------------
(* The worker thread: event_worker().                                      *)

\* The clock is read before the lock is taken.
WorkerWake ==
  /\ worker.at = "sleep"
  /\ worker' = [at |-> "lock", now |-> clock]
  /\ UNCHANGED <<setting, cells, pending, gui, clock, hits, raced>>

WorkerLock ==
  /\ worker.at = "lock"
  /\ worker' = [at |-> "drain", now |-> worker.now, flipped |-> FALSE]
  /\ UNCHANGED <<setting, cells, pending, gui, clock, hits, raced>>

DueNow == {e \in BagToSet(pending) : e.ts < worker.now}

\* The earliest event is due and its cell waits for it.
WorkerTop(e) ==
  /\ worker.at = "drain"
  /\ e \in DueNow
  /\ \A f \in DueNow : e.ts <= f.ts
  /\ IF e.ts = cells[e.slot].t_event
     THEN /\ worker' = [at |-> "event", now |-> worker.now, flipped |-> worker.flipped,
                        e |-> e]
          /\ UNCHANGED pending
     ELSE /\ pending' = pending (-) SetToBag({e})
          /\ UNCHANGED worker
  /\ UNCHANGED <<setting, cells, gui, clock, hits, raced>>

\* event() writes the status; the condition is on the list of those whose rules
\* are to be evaluated if that changes it.
EventFlips ==
  /\ worker.at = "event"
  /\ cells' = [cells EXCEPT ![worker.e.slot].on = EventStatus(setting)]
  /\ worker' = [at |-> "drain", now |-> worker.now,
                flipped |-> \/ worker.flipped
                            \/ cells[worker.e.slot].on # EventStatus(setting)]

\* Mutation: the event that was served stays at the top of the queue.
WorkerEventNoPop ==
  /\ EventFlips
  /\ UNCHANGED <<setting, pending, gui, clock, hits, raced>>

\* event() flips the cell, and the event is popped.
WorkerEvent ==
  /\ EventFlips
  /\ pending' = pending (-) SetToBag({worker.e})
  /\ UNCHANGED <<setting, gui, clock, hits, raced>>

\* Nothing is due any more: the rules that watch the condition are evaluated.
WorkerRules ==
  /\ worker.at = "drain"
  /\ DueNow = {}
  /\ worker' = [at |-> "rules", rules |-> IF worker.flipped THEN ResettingRules ELSE 0]
  /\ UNCHANGED <<setting, cells, pending, gui, clock, hits, raced>>

\* One of them raises an alarm or none: that depends on the other conditions too.
\* If it does, its action resets the condition.
WorkerEvaluate ==
  /\ worker.at = "rules"
  /\ worker.rules > 0
  /\ \/ worker' = [at |-> "rules", rules |-> worker.rules - 1]
     \/ worker' = [at |-> "reset", rules |-> worker.rules - 1, left |-> Places]
  /\ UNCHANGED <<setting, cells, pending, gui, clock, hits, raced>>

\* reset() of a cell, in the worker thread.
WorkerResetOn(x) ==
  /\ worker.at = "reset"
  /\ x \in worker.left
  /\ cells' = [cells EXCEPT ![x].on = FALSE]
  /\ worker' = [at |-> "clear", rules |-> worker.rules, left |-> worker.left \ {x},
                slot |-> x]
  /\ raced' = IF Hitting(x) THEN raced \cup {x} ELSE raced \ {x}
  /\ UNCHANGED <<setting, pending, gui, clock, hits>>

WorkerResetClear ==
  /\ worker.at = "clear"
  /\ cells' = [cells EXCEPT ![worker.slot].t_event = 0, ![worker.slot].msgs = <<>>]
  /\ worker' = IF worker.left = {} THEN [at |-> "rules", rules |-> worker.rules]
               ELSE [at |-> "reset", rules |-> worker.rules, left |-> worker.left]
  /\ UNCHANGED <<setting, pending, gui, clock, hits, raced>>

\* Mutation: the worker goes on with the lock in its hands.
WorkerSleepLocked ==
  /\ worker.at = "rules"
  /\ worker.rules = 0
  /\ worker' = [at |-> "drain", now |-> clock, flipped |-> FALSE]
  /\ UNCHANGED <<setting, cells, pending, gui, clock, hits, raced>>

\* Every rule has been evaluated: release the lock and sleep for a second.
WorkerSleep ==
  /\ worker.at = "rules"
  /\ worker.rules = 0
  /\ worker' = [at |-> "sleep"]
  /\ UNCHANGED <<setting, cells, pending, gui, clock, hits, raced>>

ClockTick ==
  /\ clock < LastTime
  /\ clock' = clock + 1
  /\ UNCHANGED <<setting, cells, pending, gui, worker, hits, raced>>

-----------------------------------------------------------------------------
Worker ==
  \/ WorkerWake
  \/ WorkerLock
  \/ worker.at = "drain" /\ \E e \in DueNow : WorkerTop(e)
  \/ WorkerEvent
  \/ WorkerRules
  \/ WorkerEvaluate
  \/ worker.at = "reset" /\ \E x \in worker.left : WorkerResetOn(x)
  \/ WorkerResetClear
  \/ WorkerSleep

\* What the GUI thread does on its own once it is inside hit() or reset().
GuiGoesOn ==
  \/ HitFlip
  \/ gui.at = "reset" /\ \E x \in gui.left : ResetOn(x)
  \/ ResetClear

ThreadsNext ==
  \/ \E x \in Places, t \in 1 .. LastStamp : HitWindow(x, t)
  \/ ResetBegin
  \/ HitSchedule
  \/ GuiGoesOn
  \/ Worker
  \/ ClockTick

ThreadsSpec == ThreadsInit /\ [][ThreadsNext]_threadVars

\* Both threads are scheduled and the clock does not stop.  The GUI thread gets
\* the lock when it wants it often enough (strong fairness): the worker sleeps
\* for a second between two passes, without the lock.
FairThreads ==
  /\ ThreadsSpec
  /\ WF_threadVars(Worker) /\ WF_threadVars(ClockTick)
  /\ WF_threadVars(GuiGoesOn) /\ SF_threadVars(HitSchedule)

-----------------------------------------------------------------------------
(* Properties.                                                             *)

GuiBusyWith(x) == \/ gui.at \in {"schedule", "flip", "clear"} /\ gui.slot = x
                  \/ gui.at = "reset"

\* Whatever the interleaving, a non-persistent occur_at_least cell that is on
\* holds a full window, except while the GUI thread is working on it and after a
\* hit() that a rule's reset on the worker thread has run into: hit() writes the
\* status that the window called for before (ma_cell.cpp:44-49, 83, 104-109;
\* ma_rule_engine.cpp:142, 199-205).
OnIsBacked ==
  \A x \in Places :
    setting.at_least /\ ~setting.persistent /\ cells[x].on /\ ~GuiBusyWith(x)
      /\ x \notin raced
      => Len(cells[x].msgs) = TriggerCount(setting)

\* A worker pass ends although the GUI thread keeps scheduling events, and the
\* lock is free again (ma_rule_engine.cpp:125-143).
PassEnds == WorkerHasLock ~> ~WorkerHasLock

\* The GUI thread comes back from hit() and reset(): it does not wait for the
\* worker's lock for ever (ma_cell.cpp:52, 65).
GuiComesBack == gui # GuiIdle ~> gui = GuiIdle

\* "otherwise, the status can change to off when it slides out of the time
\* window" (ma_cell.h:27-28; likewise RuleEngineDocumentation.txt:244-247).
ShutsItselfOff ==
  \A x \in Places :
    setting.at_least /\ ~setting.persistent /\ cells[x].on ~> ~cells[x].on

\* What holds whichever thread is between which of its steps: the data are sound and
\* a cell that is on has a full window unless the worker's reset ran into its latest
\* hit (ma_cell.cpp:26-109).
ThreadsInv == ThreadsTypeOK /\ OnIsBacked
=============================================================================
