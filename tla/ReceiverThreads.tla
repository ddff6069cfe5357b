--------------------------- MODULE ReceiverThreads ---------------------------
(***************************************************************************)
(* The receivers of a viewer and their manager (ReceiverManager.cc,        *)
(* MVReceiver.hh): each receiver is a thread that loops until its flag is  *)
(* set and hands messages to the GUI thread through Qt's queue.  The       *)
(* GUI thread starts them, and stops them when the dialog is destroyed.    *)
(* What a thread does in its loop is up to the modules that extend this.   *)
(***************************************************************************)
EXTENDS Integers, Sequences

CONSTANTS
  Configured,   \* the names in the configuration's "receivers"
  Loadable      \* those whose plug-in can be loaded

ASSUME ReceiverThreadsAssumption == Loadable \subseteq Configured

VARIABLES
  receivers,    \* receivers_
  stopRequested,\* stopRequested_ of each receiver
  running,      \* the receivers whose thread is in run()
  manager,      \* what the GUI thread does with the manager
  posted,       \* the signals queued for the GUI thread
  shown         \* the messages that reached the viewer, in order

threadVars == <<receivers, stopRequested, running, manager, posted, shown>>

ThreadsInit ==
  \* A plug-in that cannot be loaded is reported and left out.
  /\ receivers = Configured \cap Loadable
  /\ stopRequested = [r \in Configured |-> FALSE]
  /\ running = {}
  /\ manager = "made"
  /\ posted = <<>>
  /\ shown = <<>>

\* No thread runs in a receiver that has been deleted.
ThreadsTypeOK ==
  /\ receivers \subseteq Configured
  /\ stopRequested \in [Configured -> BOOLEAN]
  /\ running \subseteq receivers
  /\ manager \in {"made", "started", "waiting", "stopped", "gone", "exited"}

\* start(): QThread::start() of each.
Start ==
  /\ manager = "made"
  /\ manager' = "started"
  /\ running' = receivers
  /\ UNCHANGED <<receivers, stopRequested, posted, shown>>

\* Mutation: the flags are not set.
StopUnflagged ==
  /\ manager = "started"
  /\ manager' = "waiting"
  /\ UNCHANGED <<receivers, stopRequested, running, posted, shown>>

\* stop(), up to the first wait(): all flags are set before any thread is
\* waited for.
Stop ==
  /\ manager = "started"
  /\ manager' = "waiting"
  /\ stopRequested' = [r \in Configured |-> stopRequested[r] \/ r \in receivers]
  /\ UNCHANGED <<receivers, running, posted, shown>>

\* stop() returns when wait() has returned for every thread.
Stopped ==
  /\ manager = "waiting"
  /\ running = {}
  /\ manager' = "stopped"
  /\ UNCHANGED <<receivers, stopRequested, running, posted, shown>>

\* ~ReceiverManager(): stop() again, which finds every thread ended, then the
\* receivers are deleted; what was queued for the manager goes with it.
Destroy ==
  /\ manager = "stopped"
  /\ manager' = "gone"
  /\ receivers' = {}
  /\ posted' = <<>>
  /\ UNCHANGED <<stopRequested, running, shown>>

\* The GUI thread runs onNewMessage(); it does not while it waits in stop().
Deliver ==
  /\ manager = "started"
  /\ posted # <<>>
  /\ posted' = Tail(posted)
  /\ shown' = Append(shown, Head(posted))
  /\ UNCHANGED <<receivers, stopRequested, running, manager>>

ManagerNext == Start \/ Stop \/ Stopped \/ Destroy \/ Deliver

\* emit NewMessage(), in the thread of a receiver.
Emit(msg) == posted' = Append(posted, msg)

\* run() returns.
Return(r) == running' = running \ {r}

\* exit() in any thread ends the process with all of them.
Exit ==
  /\ manager' = "exited"
  /\ running' = {}
  /\ UNCHANGED <<receivers, stopRequested, posted, shown>>

\* Stopping comes to an end (or the process does): the wait() of the GUI thread
\* for each of the receivers returns, wherever in run() their threads were.
StopReturns == manager = "waiting" ~> manager \in {"stopped", "gone", "exited"}
=============================================================================
