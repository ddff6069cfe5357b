--------------------------- MODULE SmtpDestination ---------------------------
(***************************************************************************)
(* The SMTP destination (SMTP_mfPlugin.cc): the threads of the program log *)
(* messages into one buffer; the first of them starts a detached sender    *)
(* thread, which sleeps for the send interval, takes the buffer, mails it  *)
(* and ends.  message_mutex_ protects the buffer, but not the flag         *)
(* sending_thread_active_, which the sender clears without it.             *)
(*                                                                         *)
(* A mail is the sequence of its messages.  Whether the server accepts it  *)
(* is ignored by the code (the result of send_message() is dropped) and is *)
(* left out: "sent" means handed to libcurl.                               *)
(***************************************************************************)
EXTENDS Integers, Sequences, FiniteSets

CONSTANTS
  MailMsgs,   \* the messages the program logs, each of them once
  Matches,    \* Matches[m]: the regular expressions message m matches
  Required, Filtered,   \* message_required_regexes_, message_filter_regexes_
  Callers,    \* the threads that log
  Senders,    \* identities for the sender threads
  Interval    \* send_interval_s_, in naps

ASSUME SmtpAssumption ==
  /\ Senders # {}
  /\ Interval \in Nat

VARIABLES
  caller,     \* caller[p]: where thread p is in routePayload()
  contents,   \* message_contents_
  active,     \* sending_thread_active_
  abort,      \* abort_sleep_
  sender,     \* sender[s]: where sender thread s is in send_message_()
  sent,       \* the messages of all mails, in the order they were sent
  dtor,       \* where the destructor is
  logged      \* the messages logged so far

smtpVars == <<caller, contents, active, abort, sender, sent, dtor, logged>>

NoThread == [at |-> "none"]

\* A thread in routePayload() holds message_mutex_ until it returns.
MutexFree == \A p \in Callers : caller[p] = "out"

SmtpTypeOK ==
  /\ caller \in [Callers -> {"out", "check", "spawn"}]
  /\ contents \in Seq(MailMsgs)
  /\ active \in BOOLEAN /\ abort \in BOOLEAN
  /\ sender \in [Senders -> {NoThread} \cup
                   [at : {"sleep"}, slept : 0 .. Interval] \cup
                   [at : {"mail"}, payload : Seq(MailMsgs)] \cup [at : {"done"}]]
  /\ sent \in Seq(MailMsgs)
  /\ dtor \in {"alive", "wait", "gone"}
  /\ logged \in SUBSET MailMsgs

SmtpInit ==
  /\ caller = [p \in Callers |-> "out"]
  /\ contents = <<>>
  /\ active = FALSE
  /\ abort = FALSE
  /\ sender = [s \in Senders |-> NoThread]
  /\ sent = <<>>
  /\ dtor = "alive"
  /\ logged = {}

-----------------------------------------------------------------------------
(* routePayload().                                                         *)

\* An invalid regular expression matches nothing.
Accepts(m) ==
  /\ Required # {} => Matches[m] \cap Required # {}
  /\ Matches[m] \cap Filtered = {}

\* Up to the test of the flag, or the early return.
RoutePayload(p, m) ==
  /\ dtor = "alive"
  /\ MutexFree
  /\ m \notin logged
  /\ logged' = logged \cup {m}
  /\ \/ /\ Accepts(m)
        /\ contents' = Append(contents, m)
        /\ caller' = [caller EXCEPT ![p] = "check"]
     \/ ~Accepts(m) /\ UNCHANGED <<contents, caller>>
  /\ UNCHANGED <<active, abort, sender, sent, dtor>>

\* Mutation: the flag is not looked at.
CheckIgnored(p) ==
  /\ caller[p] = "check"
  /\ caller' = [caller EXCEPT ![p] = "spawn"]
  /\ UNCHANGED <<contents, active, abort, sender, sent, dtor, logged>>

Check(p) ==
  /\ caller[p] = "check"
  /\ caller' = [caller EXCEPT ![p] = IF active THEN "out" ELSE "spawn"]
  /\ UNCHANGED <<contents, active, abort, sender, sent, dtor, logged>>

\* Set the flag and start the sender thread.
Spawn(p) ==
  /\ caller[p] = "spawn"
  /\ active' = TRUE
  /\ \E s \in Senders :
       /\ sender[s] = NoThread
       /\ sender' = [sender EXCEPT ![s] = [at |-> "sleep", slept |-> 0]]
  /\ caller' = [caller EXCEPT ![p] = "out"]
  /\ UNCHANGED <<contents, abort, sent, dtor, logged>>

-----------------------------------------------------------------------------
(* send_message_().                                                        *)

Nap(s) ==
  /\ sender[s].at = "sleep"
  /\ ~abort /\ sender[s].slept < Interval
  /\ sender' = [sender EXCEPT ![s].slept = @ + 1]
  /\ UNCHANGED <<caller, contents, active, abort, sent, dtor, logged>>

\* Mutations: the sleep is not cut short; the buffer is not emptied.
TakeAfterInterval(s) ==
  /\ sender[s].at = "sleep" /\ sender[s].slept >= Interval
  /\ MutexFree
  /\ sender' = [sender EXCEPT ![s] = [at |-> "mail", payload |-> contents]]
  /\ contents' = <<>>
  /\ UNCHANGED <<caller, active, abort, sent, dtor, logged>>

TakeCopy(s) ==
  /\ sender[s].at = "sleep"
  /\ abort \/ sender[s].slept >= Interval
  /\ MutexFree
  /\ sender' = [sender EXCEPT ![s] = [at |-> "mail", payload |-> contents]]
  /\ UNCHANGED <<caller, contents, active, abort, sent, dtor, logged>>

\* The sleep is over: take the buffer.
Take(s) ==
  /\ sender[s].at = "sleep"
  /\ abort \/ sender[s].slept >= Interval
  /\ MutexFree
  /\ sender' = [sender EXCEPT ![s] = [at |-> "mail", payload |-> contents]]
  /\ contents' = <<>>
  /\ UNCHANGED <<caller, active, abort, sent, dtor, logged>>

Mail(s) ==
  /\ sender[s].at = "mail"
  /\ sent' = sent \o sender[s].payload
  /\ sender' = [sender EXCEPT ![s] = [at |-> "done"]]
  /\ UNCHANGED <<caller, contents, active, abort, dtor, logged>>

\* Mutation: the flag stays set.
FinishMarked(s) ==
  /\ sender[s].at = "done"
  /\ sender' = [sender EXCEPT ![s] = NoThread]
  /\ UNCHANGED <<caller, contents, active, abort, sent, dtor, logged>>

\* The last thing the thread does: clear the flag.
Finish(s) ==
  /\ sender[s].at = "done"
  /\ active' = FALSE
  /\ sender' = [sender EXCEPT ![s] = NoThread]
  /\ UNCHANGED <<caller, contents, abort, sent, dtor, logged>>

-----------------------------------------------------------------------------
(* The destructor: nothing logs any more when it is called.                *)

Destructor ==
  /\ dtor = "alive" /\ MutexFree
  /\ abort' = TRUE
  /\ dtor' = "wait"
  /\ UNCHANGED <<caller, contents, active, sender, sent, logged>>

\* Mutation: the destructor does not wait for the sender.
DestroyedAtOnce ==
  /\ dtor = "wait"
  /\ dtor' = "gone"
  /\ UNCHANGED <<caller, contents, active, abort, sender, sent, logged>>

Destroyed ==
  /\ dtor = "wait" /\ ~active
  /\ dtor' = "gone"
  /\ UNCHANGED <<caller, contents, active, abort, sender, sent, logged>>

-----------------------------------------------------------------------------
Sending == \E s \in Senders : Nap(s) \/ Take(s) \/ Mail(s) \/ Finish(s)

Returning == \E p \in Callers : Check(p) \/ Spawn(p)

SmtpNext ==
  \/ \E p \in Callers, m \in MailMsgs : RoutePayload(p, m)
  \/ Returning
  \/ Sending
  \/ Destructor
  \/ Destroyed

SmtpSpec == SmtpInit /\ [][SmtpNext]_smtpVars

\* The threads are scheduled, and usleep() and libcurl return.
FairSpec == SmtpSpec /\ WF_smtpVars(Returning) /\ WF_smtpVars(Sending) /\ WF_smtpVars(Destroyed)

-----------------------------------------------------------------------------
(* Properties.                                                             *)

Alive(s) == sender[s] # NoThread

\* There is never more than one sender thread, although the flag that says so
\* is tested and set under the mutex and cleared without it
\* (SMTP_mfPlugin.cc:341-346, 404): two of them would mail their parts of the
\* log in any order.
OneSender == \A s, t \in Senders : Alive(s) /\ Alive(t) => s = t

\* No mail is empty: a sender that still sleeps has something to take
\* (SMTP_mfPlugin.cc:339-345, 360-362).
NoEmptyMail ==
  \A s \in Senders : /\ sender[s].at = "sleep" => contents # <<>>
                     /\ sender[s].at = "mail" => sender[s].payload # <<>>

\* Once the destructor has returned, no sender thread uses the object any more
\* (SMTP_mfPlugin.cc:104-108).
GoneIsQuiet == dtor = "gone" => \A s \in Senders : ~Alive(s)

\* The messages the sender is about to hand over.
InFlight ==
  LET M == {s \in Senders : sender[s].at = "mail"}
  IN  IF M = {} THEN <<>> ELSE sender[CHOOSE s \in M : TRUE].payload

\* The destination is an outbox: accepted messages leave once and in order,
\* whatever the threads do (SMTP_mfPlugin.cc:291-405).
Abstract == INSTANCE Outbox WITH Msgs <- MailMsgs, pending <- InFlight \o contents

ImplementsOutbox == Abstract!Spec

\* A message that a sender thread finds when its sleep ends is mailed; one that
\* is appended while the sender already mails may wait for the next message
\* (SMTP_mfPlugin.cc:341, 360-362, 404).
FoundIsMailed ==
  \A m \in MailMsgs :
    (\E s \in Senders : sender[s].at = "sleep") /\ (\E i \in DOMAIN contents : contents[i] = m)
      ~> \E i \in DOMAIN sent : sent[i] = m

\* The destructor returns, however long the send interval is
\* (SMTP_mfPlugin.cc:104-108, 352).
DestructorReturns == dtor = "wait" ~> dtor = "gone"

\* At any moment there is one sender at most and it has something to send
\* (SMTP_mfPlugin.cc:339-405).
SenderInv == SmtpTypeOK /\ OneSender /\ NoEmptyMail
=============================================================================
